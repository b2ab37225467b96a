------------------------------ MODULE Desktop ------------------------------
(***************************************************************************)
(* The window manager of kernel.c: window slots, the z-order window_order, *)
(* the focus global_active_win, the two menus, the taskbar, the armed      *)
(* title-bar buttons, and the links between windows and processes.         *)
(*                                                                         *)
(* Everything the mouse and the keyboard do runs in pid 0 with interrupts  *)
(* enabled; the syscalls of the applications run masked, and may come      *)
(* between two steps of pid 0.  The register k says where pid 0 is inside  *)
(* open_window, bring_to_front or the minimise code: it has chosen a slot, *)
(* or a rank, and uses it a step later, or it is between the windows of a  *)
(* program and the program itself.  torn is a history variable: a syscall  *)
(* has opened a window while pid 0 held a slot or a rank.                  *)
(*                                                                         *)
(* Geometry is abstracted to the set of the windows under the pointer;     *)
(* maximising, dragging and resizing only change geometry.  A closed       *)
(* window keeps its owner_pid; its type and is_minimized are not kept, as  *)
(* open_window writes them before they are read again, nor are the fields  *)
(* of a dead process.                                                      *)
(***************************************************************************)
EXTENDS Integers, FiniteSets

CONSTANTS MaxWindows, MaxProcesses

ASSUME SizesAssumption == /\ MaxWindows \in Nat /\ MaxWindows > 1
                          /\ MaxProcesses \in Nat /\ MaxProcesses > 1

VARIABLES windows, window_order, global_active_win, process_table,
          pressed,   \* pressed_window_id and pressed_window_btn, pressed_info_btn
          down,      \* prev_clicking
          k,         \* where pid 0 is in the window code
          torn       \* history: a window was opened while pid 0 held a slot or rank

vars == <<windows, window_order, global_active_win, process_table, pressed, down, k, torn>>

Slots == 0 .. MaxWindows - 1
Ranks == 0 .. MaxWindows - 1
Apps == 1 .. MaxProcesses - 1
MenuTypes == {"start_menu", "app_menu"}
Types == MenuTypes \cup {"none", "terminal", "app_gui"}
\* Where pid 0 holds no slot and no rank.
Calm == {"idle", "scan", "reap", "below"}
Places == Calm \cup {"pick", "fill", "own", "slide", "sink"}
Jobs == {"open", "restore", "body", "close", "min"}
Buttons == {"none", "close", "min", "info"}

Closed == [active |-> FALSE, type |-> "none", min |-> FALSE, owner |-> 0]
Dead == [active |-> FALSE, linked |-> -1, parent |-> -1, own |-> FALSE]
Idle == [at |-> "idle", win |-> 0, pos |-> 0, job |-> "open", type |-> "none", owner |-> 0, parent |-> -1]
NoPress == [win |-> -1, btn |-> "none"]

IsMenu(w) == windows[w].active /\ windows[w].type \in MenuTypes
Visible == {w \in Slots : windows[w].active /\ ~windows[w].min}
Taskbar == {w \in Slots : windows[w].active /\ windows[w].type \notin MenuTypes}
\* Closing a window only resets its active.
Without(win, S) == [w \in Slots |-> IF w \in S THEN [Closed EXCEPT !.owner = win[w].owner] ELSE win[w]]
OfTypes(win, T) == {w \in Slots : win[w].active /\ win[w].type \in T}

\* bring_to_front's search: the last rank that holds w, or -1.
LastPos(order, w) ==
  IF \E r \in Ranks : order[r] = w
  THEN CHOOSE r \in Ranks : order[r] = w /\ \A q \in Ranks : order[q] = w => q <= r
  ELSE -1

\* Mutant: the shift stops one place early.
SlideShort(order, pos, w) ==
  [r \in Ranks |-> IF r = 0 THEN w ELSE IF r < pos THEN order[r - 1] ELSE order[r]]

\* The shift by one place and the write of the first rank.
Slide(order, pos, w) ==
  [r \in Ranks |-> IF r = 0 THEN w ELSE IF r <= pos THEN order[r - 1] ELSE order[r]]

Front(order, w) ==
  IF LastPos(order, w) <= 0 THEN order ELSE Slide(order, LastPos(order, w), w)

\* Mutant: the window that is raised goes in front of the menus too.
GuardedNot(order, win, t) == order

\* A menu that is open takes the first rank back.
Guarded(order, win, t) ==
  IF OfTypes(win, {t}) = {} THEN order
  ELSE Front(order, CHOOSE w \in OfTypes(win, {t}) : \A v \in OfTypes(win, {t}) : v <= w)

\* Mutant: nothing is raised while a menu is open.
BringToFrontNot(order, win, pos, w) ==
  IF OfTypes(win, MenuTypes) # {} THEN order ELSE Slide(order, pos, w)

BringToFront(order, win, pos, w) ==
  IF pos <= 0 THEN order
  ELSE Guarded(Guarded(Slide(order, pos, w), win, "start_menu"), win, "app_menu")

\* Mutant: minimising leaves the window at its rank.
SunkNot(order, pos, w) == order

\* Minimising moves the window to the last rank.
Sunk(order, pos, w) ==
  IF pos = -1 THEN order
  ELSE [r \in Ranks |-> IF r < pos THEN order[r] ELSE IF r < MaxWindows - 1 THEN order[r + 1] ELSE w]

\* open_window's search: slot 0 is reserved.
FreeSlot(win) ==
  IF \E w \in Slots \ {0} : ~win[w].active
  THEN CHOOSE w \in Slots \ {0} : ~win[w].active /\ \A v \in Slots \ {0} : ~win[v].active => w <= v
  ELSE -1

\* open_window's writes: active and type come first, the owner later.
Claimed(win, w, type) == [win EXCEPT ![w] = [@ EXCEPT !.active = TRUE, !.type = type]]
Owned(win, w, owner) == [win EXCEPT ![w].owner = owner]

FreePid ==
  IF \E p \in Apps : ~process_table[p].active
  THEN CHOOSE p \in Apps : ~process_table[p].active /\ \A q \in Apps : ~process_table[q].active => p <= q
  ELSE -1

Created(p, linked, parent, own) ==
  [process_table EXCEPT ![p] = [active |-> TRUE, linked |-> linked, parent |-> parent, own |-> own]]

\* get_active_term for the kernel: the first terminal in the z-order.
ActiveTerm ==
  LET holds(r) == windows[window_order[r]].active /\ windows[window_order[r]].type = "terminal"
  IN IF \E r \in Ranks : holds(r)
     THEN window_order[CHOOSE r \in Ranks : holds(r) /\ \A q \in Ranks : holds(q) => r <= q]
     ELSE 0

Init ==
  /\ windows = [w \in Slots |-> Closed]
  /\ window_order = [r \in Ranks |-> r]
  /\ global_active_win = -1
  /\ process_table = [p \in Apps |-> Dead]
  /\ pressed = NoPress
  /\ down = FALSE
  /\ k = Idle
  /\ torn = FALSE

-----------------------------------------------------------------------------
(* The window code of pid 0, one step between two places it may lose the CPU *)

Opening(type, owner, parent) ==
  [Idle EXCEPT !.at = "pick", !.type = type, !.owner = owner, !.parent = parent]
Raising(w, job) ==
  [Idle EXCEPT !.at = "slide", !.win = w, !.pos = LastPos(window_order, w), !.job = job]

\* The loop of open_window finds a free slot; with none it answers -1, which
\* the loader of a program stores as the window of the new process.
PickSlot ==
  /\ k.at = "pick"
  /\ IF FreeSlot(windows) = -1
     THEN /\ k' = Idle
          /\ process_table' = IF k.owner > 0 THEN Created(k.owner, -1, k.parent, FALSE) ELSE process_table
     ELSE /\ k' = [k EXCEPT !.at = "fill", !.win = FreeSlot(windows)]
          /\ UNCHANGED process_table
  /\ UNCHANGED <<windows, window_order, global_active_win, pressed, down, torn>>

\* The slot is open, while owner_pid still names who had it last,
FillSlot ==
  /\ k.at = "fill"
  /\ windows' = Claimed(windows, k.win, k.type)
  /\ k' = [k EXCEPT !.at = "own"]
  /\ UNCHANGED <<window_order, global_active_win, process_table, pressed, down, torn>>

\* until the owner is written; bring_to_front looks for the slot's rank.
OwnSlot ==
  /\ k.at = "own"
  /\ windows' = Owned(windows, k.win, k.owner)
  /\ k' = [k EXCEPT !.at = "slide", !.pos = LastPos(window_order, k.win)]
  /\ UNCHANGED <<window_order, global_active_win, process_table, pressed, down, torn>>

\* The order is shifted and the focus moves; then what the caller does next.
Raise ==
  /\ k.at = "slide"
  /\ window_order' = BringToFront(window_order, windows, k.pos, k.win)
  /\ global_active_win' = k.win
  /\ UNCHANGED <<down, torn>>

\* The process is linked to the slot; own says if that window is still open.
OpenedWindow ==
  /\ k.job = "open" /\ Raise
  /\ process_table' =
       IF k.owner > 0
       THEN Created(k.owner, k.win, k.parent, windows[k.win].active /\ windows[k.win].owner = k.owner)
       ELSE process_table
  /\ k' = Idle
  /\ UNCHANGED <<windows, pressed>>

Restored ==
  /\ k.job = "restore" /\ Raise
  /\ windows' = Without([windows EXCEPT ![k.win].min = FALSE], OfTypes(windows, MenuTypes))
  /\ k' = Idle
  /\ UNCHANGED <<process_table, pressed>>

\* A click on a window arms one of its buttons, or does nothing more.
ClickedWindow ==
  /\ k.job \in {"body", "close", "min"} /\ Raise
  /\ pressed' = IF k.job = "body" THEN pressed ELSE [win |-> k.win, btn |-> k.job]
  /\ k' = Idle
  /\ UNCHANGED <<windows, process_table>>

\* "Terminal" and "Applications" of the start menu.
ClickedTerminal ==
  /\ k.job = "body" /\ windows[k.win].type = "start_menu" /\ Raise
  /\ windows' = Without(windows, {k.win} \cup OfTypes(windows, {"app_menu"}))
  /\ k' = Opening("terminal", 0, -1)
  /\ UNCHANGED <<process_table, pressed>>

ClickedApplications ==
  /\ k.job = "body" /\ windows[k.win].type = "start_menu" /\ Raise
  /\ windows' = Without(windows, OfTypes(windows, {"app_menu"}))
  /\ k' = Opening("app_menu", 0, -1)
  /\ UNCHANGED <<process_table, pressed>>

\* A program of the applications menu: both menus close.  The load may fail; a
\* program that is refused makes the loop over the order go on.
ClickedProgram ==
  /\ k.job = "body" /\ windows[k.win].type = "app_menu" /\ Raise
  /\ windows' = Without(windows, {k.win} \cup OfTypes(windows, {"start_menu"}))
  /\ \/ k' = Idle
     \/ k' = [Idle EXCEPT !.at = "below"]
     \/ /\ FreePid # -1
        /\ \E type \in {"app_gui", "terminal"} : k' = Opening(type, FreePid, -1)
  /\ UNCHANGED <<process_table, pressed>>

\* The buttons a click on w may arm, and its body.
ClickJobs(w) == IF IsMenu(w) THEN {"body"} ELSE {"body", "close", "min"}

\* The same click reaches the next window under the pointer, or none.
ClickGoesBelow ==
  /\ k.at = "below"
  /\ \/ k' = Idle
     \/ \E r \in Ranks \ {0} :
          /\ window_order[r] \in Visible
          /\ \E job \in ClickJobs(window_order[r]) : k' = Raising(window_order[r], job)
  /\ UNCHANGED <<windows, window_order, global_active_win, process_table, pressed, down, torn>>

\* The minimise code, after it has looked for the rank.
Sink ==
  /\ k.at = "sink"
  /\ window_order' = Sunk(window_order, k.pos, k.win)
  /\ k' = Idle
  /\ UNCHANGED <<windows, global_active_win, process_table, pressed, down, torn>>

-----------------------------------------------------------------------------
(* Mouse and keyboard *)

PressBegins == k.at = "idle" /\ ~down /\ down' = TRUE

PressStart ==
  /\ PressBegins
  /\ IF OfTypes(windows, {"start_menu"}) # {}
     THEN windows' = Without(windows, OfTypes(windows, MenuTypes)) /\ UNCHANGED k
     ELSE k' = Opening("start_menu", 0, -1) /\ UNCHANGED windows
  /\ UNCHANGED <<window_order, global_active_win, process_table, pressed, torn>>

\* The rest of the bar, and the info icon, which is armed.
PressBar ==
  /\ PressBegins
  /\ windows' = Without(windows, OfTypes(windows, MenuTypes))
  /\ pressed' \in {pressed, [win |-> -1, btn |-> "info"]}
  /\ UNCHANGED <<window_order, global_active_win, process_table, k, torn>>

PressTaskbar(w) ==
  /\ PressBegins
  /\ w \in Taskbar
  /\ windows' = Without(windows, OfTypes(windows, MenuTypes))
  /\ k' = Raising(w, "restore")
  /\ UNCHANGED <<window_order, global_active_win, process_table, pressed, torn>>

\* A click on the windows under the pointer: outside the menus it closes
\* them; then the first of the z-order that is visible is raised.
Topmost(S) ==
  window_order[CHOOSE r \in Ranks : window_order[r] \in S /\ \A q \in Ranks : window_order[q] \in S => r <= q]

PressWindow(under) ==
  LET onMenu == \E w \in under : IsMenu(w)
      hits == {w \in under : \E r \in Ranks : window_order[r] = w}
  IN /\ PressBegins
     /\ under \subseteq Visible
     /\ windows' = IF onMenu THEN windows ELSE Without(windows, OfTypes(windows, MenuTypes))
     /\ IF hits = {} THEN UNCHANGED k
        ELSE \E job \in ClickJobs(Topmost(hits)) : k' = Raising(Topmost(hits), job)
     /\ UNCHANGED <<window_order, global_active_win, process_table, pressed, torn>>

ReleaseBegins == k.at = "idle" /\ down /\ down' = FALSE /\ pressed' = NoPress

\* Away from the button, on the maximise button, or refused by the shield.
ReleaseIdle ==
  /\ ReleaseBegins
  /\ UNCHANGED <<windows, window_order, global_active_win, process_table, k, torn>>

ReleaseInfo ==
  /\ ReleaseBegins
  /\ pressed.btn = "info"
  /\ FreePid # -1
  /\ \E type \in {"app_gui", "terminal"} : k' = Opening(type, FreePid, -1)
  /\ UNCHANGED <<windows, window_order, global_active_win, process_table, torn>>

\* Mutant: only the programs started from the window are looked for.
ClientsByParent(w) == {p \in Apps : process_table[p].active /\ process_table[p].parent = w}

Clients(w) == {p \in Apps : process_table[p].active /\ (process_table[p].linked = w \/ process_table[p].parent = w)}
OwnedBy(S) == {w \in Slots : windows[w].active /\ windows[w].owner \in S}
Ended(S) == [p \in Apps |-> IF p \in S THEN Dead ELSE process_table[p]]

\* The close button looks at the processes one after the other,
ReleaseClose ==
  /\ ReleaseBegins
  /\ pressed.btn = "close" /\ pressed.win # -1 /\ windows[pressed.win].active
  /\ k' = [Idle EXCEPT !.at = "scan", !.win = pressed.win]
  /\ UNCHANGED <<windows, window_order, global_active_win, process_table, torn>>

ClientsLeft == {p \in Clients(k.win) : p > k.owner}

\* closes the windows of a client while it still runs,
CloseWindowsOf(p) ==
  /\ k.at = "scan"
  /\ p \in ClientsLeft /\ \A q \in ClientsLeft : p <= q
  /\ windows' = Without(windows, OwnedBy({p}))
  /\ k' = [k EXCEPT !.at = "reap", !.owner = p]
  /\ UNCHANGED <<window_order, global_active_win, process_table, pressed, down, torn>>

\* ends it,
EndClient ==
  /\ k.at = "reap"
  /\ process_table' = Ended({k.owner})
  /\ k' = [k EXCEPT !.at = "scan"]
  /\ UNCHANGED <<windows, window_order, global_active_win, pressed, down, torn>>

\* and after the last of them closes the window.
CloseLast ==
  /\ k.at = "scan"
  /\ ClientsLeft = {}
  /\ windows' = Without(windows, {k.win})
  /\ k' = Idle
  /\ UNCHANGED <<window_order, global_active_win, process_table, pressed, down, torn>>

ReleaseMin ==
  /\ ReleaseBegins
  /\ pressed.btn = "min" /\ pressed.win # -1 /\ windows[pressed.win].active
  /\ windows' = [windows EXCEPT ![pressed.win].min = TRUE]
  /\ k' = [Idle EXCEPT !.at = "sink", !.win = pressed.win, !.pos = LastPos(window_order, pressed.win)]
  /\ UNCHANGED <<window_order, global_active_win, process_table, torn>>

\* The keyboard reaches the command line of a terminal without clients.
CommandLine ==
  /\ k.at = "idle"
  /\ global_active_win # -1
  /\ windows[global_active_win].active /\ windows[global_active_win].type = "terminal"
  /\ Clients(global_active_win) = {}

RunGui ==
  /\ CommandLine
  /\ FreePid # -1
  /\ k' = Opening("app_gui", FreePid, global_active_win)
  /\ UNCHANGED <<windows, window_order, global_active_win, process_table, pressed, down, torn>>

\* A program without windows is anchored to whatever is first in the order.
RunText ==
  /\ CommandLine
  /\ FreePid # -1
  /\ process_table' = Created(FreePid, window_order[0], global_active_win, FALSE)
  /\ UNCHANGED <<windows, window_order, global_active_win, pressed, down, k, torn>>

KillCommand(p) ==
  /\ CommandLine
  /\ process_table[p].active
  /\ process_table' = Ended({p})
  /\ UNCHANGED <<windows, window_order, global_active_win, pressed, down, k, torn>>

-----------------------------------------------------------------------------
(* The applications: syscalls run masked, at any place of pid 0 *)

ChildWindow(p) ==
  LET w == FreeSlot(windows)
      opened == Owned(Claimed(windows, w, "app_gui"), w, p)
  IN /\ process_table[p].active
     /\ w # -1
     /\ windows' = opened
     /\ window_order' = BringToFront(window_order, opened, LastPos(window_order, w), w)
     /\ global_active_win' = w
     /\ torn' = (torn \/ k.at \notin Calm)
     /\ UNCHANGED <<process_table, pressed, down, k>>

Exit(p) ==
  /\ process_table[p].active
  /\ windows' = Without(windows, OwnedBy({p}))
  /\ process_table' = Ended({p})
  /\ UNCHANGED <<window_order, global_active_win, pressed, down, k, torn>>

\* A return from the program or a fault: the windows stay.
Die(p) ==
  /\ process_table[p].active
  /\ process_table' = Ended({p})
  /\ UNCHANGED <<windows, window_order, global_active_win, pressed, down, k, torn>>

Kernel ==
  \/ PickSlot \/ FillSlot \/ OwnSlot \/ OpenedWindow \/ Restored \/ ClickedWindow
  \/ ClickedTerminal \/ ClickedApplications \/ ClickedProgram \/ ClickGoesBelow \/ Sink
  \/ PressStart \/ PressBar \/ ReleaseIdle \/ ReleaseInfo \/ ReleaseClose \/ ReleaseMin
  \/ EndClient \/ CloseLast \/ RunGui \/ RunText
  \/ \E w \in Slots : PressTaskbar(w)
  \/ \E under \in SUBSET Slots : PressWindow(under)
  \/ \E p \in Apps : CloseWindowsOf(p) \/ KillCommand(p)

Next == Kernel \/ \E p \in Apps : ChildWindow(p) \/ Exit(p) \/ Die(p)

Spec == Init /\ [][Next]_vars

-----------------------------------------------------------------------------
\* The variables keep their types.
TypeOK ==
  /\ windows \in [Slots -> [active : BOOLEAN, type : Types, min : BOOLEAN, owner : 0 .. MaxProcesses - 1]]
  /\ window_order \in [Ranks -> Slots]
  /\ global_active_win \in Slots \cup {-1}
  /\ process_table \in [Apps -> [active : BOOLEAN, linked : Slots \cup {-1}, parent : Slots \cup {-1}, own : BOOLEAN]]
  /\ pressed \in [win : Slots \cup {-1}, btn : Buttons]
  /\ down \in BOOLEAN
  /\ k \in [at : Places, win : Slots, pos : Ranks \cup {-1}, job : Jobs, type : Types,
            owner : 0 .. MaxProcesses - 1, parent : Slots \cup {-1}]
  /\ torn \in BOOLEAN

\* As long as no window is opened while pid 0 holds a slot or a rank, every slot
\* has exactly one rank: each window is drawn once and can be clicked.
OrderIsPermutation ==
  ~torn => \A q, r \in Ranks : window_order[q] = window_order[r] => q = r

RankOf(w) == CHOOSE r \in Ranks : window_order[r] = w
Settled == ~torn /\ k.at = "idle"

\* An open applications menu is in front of everything and an open start menu
\* of everything else: the click that bring_to_front's protection is for
\* finds the menu and not a window an application has opened meanwhile.
MenusInFront ==
  Settled =>
    \A m \in OfTypes(windows, MenuTypes), w \in Visible :
      w # m /\ windows[w].type # "app_menu" => RankOf(m) < RankOf(w)

\* What the kernel prints goes to a terminal that can be seen, if there is
\* one, although get_active_term does not look at is_minimized.
KernelTextIsVisible ==
  Settled /\ (\E w \in Visible : windows[w].type = "terminal") => ActiveTerm \in Visible

\* Between its windows and itself: the close button has closed the windows of p
\* and has not ended it yet.
BeingClosed(p) == k.at = "reap" /\ k.owner = p

\* A program whose window was open when it was created still has it while it
\* lives and is not being closed, whatever is closed, killed, reused or opened,
\* also in a gap of pid 0.
OwnWindowStays ==
  \A p \in Apps : process_table[p].active /\ process_table[p].own /\ ~BeingClosed(p) =>
    /\ windows[process_table[p].linked].active
    /\ windows[process_table[p].linked].owner = p

\* owner_pid says which process possesses a window (458), and the exit of a
\* program closes the windows the program possesses (5872): the window that is
\* being opened for a program is still open when the program is linked to it.
NewWindowIsOpen ==
  ~torn /\ k.at = "slide" /\ k.job = "open" /\ k.owner > 0 => windows[k.win].active /\ windows[k.win].owner = k.owner

\* The focus moves only to the window that is then first in the order, the
\* menus apart: what is typed goes to what is seen.
FocusIsRaised ==
  [][~torn' /\ global_active_win' # global_active_win =>
       \A r \in Ranks : window_order'[r] = global_active_win' =>
         \A q \in Ranks : q < r => LET v == windows'[window_order'[q]] IN ~v.active \/ v.type \in MenuTypes]_vars
=============================================================================
