SPECIFICATION Spec
CONSTANTS
  MaxWindows = 3
  MaxProcesses = 3
INVARIANTS
  OrderIsPermutation
  MenusInFront
  KernelTextIsVisible
  OwnWindowStays
PROPERTY
  FocusIsRaised
