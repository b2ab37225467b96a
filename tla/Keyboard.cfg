SPECIFICATION Spec
CONSTANTS
  x = x
  y = y
  Chars = {x, y}
  Limits <- MCLimits
PROPERTIES
  TermIsALine
  CommandSeen
  BoxIsALine
  ReadHoldsTyped
  RunningUntouched
  NoGhostKey
