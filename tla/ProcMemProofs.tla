--------------------------- MODULE ProcMemProofs ---------------------------
(***************************************************************************)
(* Proofs about ProcMem, for any number of processes, frames and pages.    *)
(***************************************************************************)
EXTENDS ProcMem, TLAPS

(***************************************************************************)
(* Types.                                                                  *)
(***************************************************************************)
\* What pid 0's program counter says of its loop counters and of its target.
Control ==
  /\ kpc \in {"create", "ready", "doom", "stack", "frames", "draw"}
       => target \in Pids
  /\ kpc \in {"create", "stack", "frames"} => ~active[target]
  /\ kpc \notin {"load", "mark", "undo", "create", "frames"} => idx = 0
  /\ kpc \in {"load", "undo"} => idx <= need
  /\ kpc = "mark" => idx < need

\* The bounds and the arithmetic every step needs.
LEMMA Sizes ==
  /\ NPages \in Nat /\ NPages > 0 /\ MaxProcesses \in Nat /\ MaxProcesses > 1
  /\ MaxNeed \in Nat /\ MaxNeed > 0 /\ NCells \in Nat
  /\ NPages <= NCells /\ MaxNeed <= NCells /\ Pages \subseteq Cells
  /\ 0 \in Procs /\ 0 \notin Pids /\ Pids \subseteq Procs
  /\ LowPage \notin Frames /\ NotPresent \notin Frames /\ LowPage # NotPresent
  /\ Frames \subseteq Entries /\ LowPage \in Entries
BY SizesAssumption
DEF Procs, Pids, Frames, LowPage, NotPresent, Entries, Pages, Cells, NCells

\* When every file fits, a load writes in the table only.
LEMMA FitCells == FilesFit => NCells = NPages /\ Cells = Pages
BY SizesAssumption DEF FilesFit, NCells, Cells, Pages

\* A frame that pfa_alloc_frame returns was free.
LEMMA FirstFreeIsFree ==
  ASSUME NEW r \in Frames, FirstFree(r)
  PROVE  r \notin used
BY Sizes DEF FirstFree, FreeFrames

\* Mapping one more page of the program being loaded keeps the types.
LEMMA TypeMapNext ==
  ASSUME TypeOK, Control, kpc \in {"load", "mark"}, idx < need,
         NEW r \in Frames \cup {LowPage}, MapNext(r)
  PROVE  /\ table' \in [Procs -> [Cells -> Entries]]
         /\ used' \subseteq Frames
         /\ idx' \in 0 .. NCells /\ idx' <= need
<1>1. idx \in Cells /\ idx + 1 \in 0 .. NCells
  BY Sizes DEF TypeOK, Cells
<1>2. table' \in [Procs -> [Cells -> Entries]]
  BY <1>1, Sizes DEF TypeOK, MapNext, Entries
<1>3. used' \subseteq Frames
  BY DEF TypeOK, MapNext, Marked
<1> QED
  BY <1>1, <1>2, <1>3 DEF MapNext, TypeOK

\* The initial state is well typed.
LEMMA TypeInit == Init => TypeOK /\ Control
<1> SUFFICES ASSUME Init PROVE TypeOK /\ Control
  OBVIOUS
<1>1. table \in [Procs -> [Cells -> Entries]]
  BY DEF Init, EmptyTable, Entries
<1>2. active \in [Pids -> BOOLEAN] /\ hasTable \in [Procs -> BOOLEAN]
  BY DEF Init
<1>3. 0 \in 0 .. NCells
  BY Sizes
<1> QED
  BY <1>1, <1>2, <1>3, Sizes DEF Init, TypeOK, Control, KernelPoints

USE DEF appVars, memVars, cpuVars, loadVars, killVars, vars

\* Loading a program keeps the types and pid 0's control.
LEMMA TypeLaunch == TypeOK /\ Control /\ Launch => TypeOK' /\ Control'
<1> SUFFICES ASSUME TypeOK, Control, Launch PROVE TypeOK' /\ Control'
  OBVIOUS
<1> USE Sizes DEF TypeOK, Control, Kernel, KernelPoints
<1>1. CASE LaunchTable
  BY <1>1 DEF LaunchTable, EmptyTable, Entries
<1>2. CASE LaunchRead
  BY <1>2 DEF LaunchRead
<1>3. CASE LaunchReadFails
  BY <1>3 DEF LaunchReadFails
<1>4. CASE LaunchFrame
  <2>1. PICK r \in Frames \cup {LowPage} : MapNext(r)
    BY <1>4 DEF LaunchFrame
  <2>2. /\ table' \in [Procs -> [Cells -> Entries]]
        /\ used' \subseteq Frames
        /\ idx' \in 0 .. NCells /\ idx' <= need
    BY <1>4, <2>1, TypeMapNext DEF LaunchFrame
  <2> QED
    BY <1>4, <2>1, <2>2 DEF LaunchFrame, MapNext
<1>5. CASE LaunchFrameFound
  BY <1>5 DEF LaunchFrameFound
<1>6. CASE LaunchFrameMark
  <2>1. MapNext(cand)
    BY <1>6 DEF LaunchFrameMark
  <2>2. /\ table' \in [Procs -> [Cells -> Entries]]
        /\ used' \subseteq Frames
        /\ idx' \in 0 .. NCells /\ idx' <= need
    BY <1>6, <2>1, TypeMapNext DEF LaunchFrameMark
  <2> QED
    BY <1>6, <2>1, <2>2 DEF LaunchFrameMark, MapNext
<1>7. CASE LaunchAccept
  BY <1>7 DEF LaunchAccept, FreePid
<1>8. CASE LaunchReject
  <2>1. 0 \in 0 .. NCells /\ 0 <= need
    OBVIOUS
  <2>2. TypeOK'
    BY <1>8, <2>1 DEF LaunchReject
  <2>3. Control'
    BY <1>8, <2>1 DEF LaunchReject
  <2> QED
    BY <2>2, <2>3
<1>9. CASE LaunchUndoFrame
  BY <1>9 DEF LaunchUndoFrame, Released
<1>10. CASE LaunchUndone
  BY <1>10 DEF LaunchUndone
<1>11. CASE CreateProcess
  <2>1. target \in Pids /\ target \in Procs /\ 0 \in 0 .. NCells
    BY <1>11 DEF CreateProcess
  <2>2. active' \in [Pids -> BOOLEAN] /\ hasTable' \in [Procs -> BOOLEAN]
    BY <1>11, <2>1 DEF CreateProcess
  <2>3. table' \in [Procs -> [Cells -> Entries]]
    BY <1>11, <2>1 DEF CreateProcess
  <2>4. stack' \in [Pids -> {"none", "live", "null"}]
    BY <1>11, <2>1 DEF CreateProcess
  <2> QED
    BY <1>11, <2>1, <2>2, <2>3, <2>4 DEF CreateProcess
<1>12. CASE CreateReady
  BY <1>12 DEF CreateReady
<1> QED
  BY <1>1, <1>2, <1>3, <1>4, <1>5, <1>6, <1>7, <1>8, <1>9, <1>10, <1>11, <1>12
  DEF Launch

\* So does killing processes.
LEMMA TypeKill == TypeOK /\ Control /\ Kill => TypeOK' /\ Control'
<1> SUFFICES ASSUME TypeOK, Control, Kill PROVE TypeOK' /\ Control'
  OBVIOUS
<1> USE Sizes DEF TypeOK, Control, Kernel, KernelPoints
<1>1. CASE KillRequest
  BY <1>1 DEF KillRequest
<1>2. CASE KillSkip
  BY <1>2 DEF KillSkip
<1>3. CASE KillTested
  BY <1>3 DEF KillTested, NextToClose
<1>4. CASE KillDoom
  BY <1>4 DEF KillDoom, Doom
<1>5. CASE KillTestAndDoom
  BY <1>5 DEF KillTestAndDoom, Doom
<1>6. CASE KillStack
  BY <1>6 DEF KillStack
<1>7. CASE KillFrame
  BY <1>7 DEF KillFrame, Released
<1>8. CASE KillTable
  BY <1>8 DEF KillTable
<1>9. CASE KillDone
  BY <1>9 DEF KillDone
<1> QED
  BY <1>1, <1>2, <1>3, <1>4, <1>5, <1>6, <1>7, <1>8, <1>9 DEF Kill

\* Mapping a frame on page v of a process keeps the types.
LEMMA TypeDemand ==
  ASSUME TypeOK, NEW p \in Procs, NEW v \in Pages, NEW r \in Frames,
         used' = Marked(r), table' = [table EXCEPT ![p][v] = r]
  PROVE  used' \subseteq Frames /\ table' \in [Procs -> [Cells -> Entries]]
BY Sizes DEF TypeOK, Marked, Entries

\* So does reading or writing that page.
LEMMA TypeMaps ==
  ASSUME TypeOK, NEW p \in Pids, NEW v \in Pages, MapsPage(p, v) \/ Touches(p, v)
  PROVE  used' \subseteq Frames /\ table' \in [Procs -> [Cells -> Entries]]
<1>1. CASE UNCHANGED <<table, used>>
  BY <1>1 DEF TypeOK
<1>2. CASE MapsPage(p, v)
  BY <1>2, TypeDemand, Sizes DEF MapsPage
<1> QED
  BY <1>1, <1>2 DEF Touches

\* A process that frees all it has keeps the types.
LEMMA TypeFrees ==
  ASSUME TypeOK, Control, NEW p \in Pids, FreesAll(p), mounted' \in Procs
  PROVE  TypeOK' /\ Control'
<1>1. hasTable' \in [Procs -> BOOLEAN] /\ active' \in [Pids -> BOOLEAN]
  BY Sizes DEF FreesAll, TypeOK
<1>2. used' \subseteq Frames /\ stack' \in [Pids -> {"none", "live", "null"}]
  BY DEF FreesAll, TypeOK, Released
<1>3. TypeOK'
  BY <1>1, <1>2 DEF FreesAll, TypeOK
<1>4. \A q \in Pids : ~active[q] => ~active'[q]
  BY DEF FreesAll, TypeOK
<1> QED
  BY <1>3, <1>4 DEF FreesAll, Control

\* So do the events pid 0 handles.
LEMMA TypeEvents == TypeOK /\ Control /\ Events => TypeOK' /\ Control'
<1> SUFFICES ASSUME TypeOK, Control, Events PROVE TypeOK' /\ Control'
  OBVIOUS
<1>1. ASSUME NEW p \in Pids, WakeYielded(p) PROVE TypeOK' /\ Control'
  BY <1>1 DEF TypeOK, Control, WakeYielded, Kernel
<1>2. ASSUME NEW p \in Pids, NEW v \in Pages, NEW enter \in BOOLEAN,
             KeyToApp(p, v, enter)
      PROVE  TypeOK' /\ Control'
  <2>1. used' \subseteq Frames /\ table' \in [Procs -> [Cells -> Entries]]
    BY <1>2, TypeMaps DEF KeyToApp
  <2>2. waiting' \in [Pids -> {0, 1, 2}]
    BY <1>2 DEF KeyToApp, TypeOK
  <2> QED
    BY <1>2, <2>1, <2>2 DEF KeyToApp, TypeOK, Control
<1>3. ASSUME NEW p \in Pids, NEW v \in Pages, Hangs(p, v), idx = 0
      PROVE  TypeOK' /\ Control'
  BY <1>3, Sizes DEF TypeOK, Control, Hangs, KernelPoints
<1>4. ASSUME NEW p \in Pids, NEW v \in Pages, KeyToAppHangs(p, v)
      PROVE  TypeOK' /\ Control'
  <2>1. Hangs(p, v) /\ idx = 0
    BY <1>4 DEF KeyToAppHangs, Kernel, Control
  <2> QED
    BY <1>3, <2>1
<1>5. ASSUME NEW p \in Pids, DrawFound(p) PROVE TypeOK' /\ Control'
  BY <1>5, Sizes DEF TypeOK, Control, DrawFound, Kernel, KernelPoints
<1>6. ASSUME NEW p \in Pids, NEW v \in Pages, DrawImage(p, v)
      PROVE  TypeOK' /\ Control'
  <2>1. used' \subseteq Frames /\ table' \in [Procs -> [Cells -> Entries]]
    BY <1>6, TypeMaps DEF DrawImage
  <2>2. idx = 0 /\ kpc' = "idle" /\ target' = 0
    BY <1>6 DEF DrawImage, Drawing, Kernel, Control
  <2>3. TypeOK'
    BY <1>6, <2>1, <2>2, Sizes DEF DrawImage, TypeOK, KernelPoints
  <2> QED
    BY <1>6, <2>2, <2>3 DEF DrawImage, Control
<1>7. ASSUME NEW p \in Pids, NEW v \in Pages, DrawHangs(p, v)
      PROVE  TypeOK' /\ Control'
  <2>1. Hangs(p, v) /\ idx = 0
    BY <1>7 DEF DrawHangs, Drawing, Kernel, Control
  <2> QED
    BY <1>3, <2>1
<1> QED
  BY <1>1, <1>2, <1>4, <1>5, <1>6, <1>7 DEF Events

\* So do the applications.
LEMMA TypeApp == TypeOK /\ Control /\ App => TypeOK' /\ Control'
<1> SUFFICES ASSUME TypeOK, Control, App PROVE TypeOK' /\ Control'
  OBVIOUS
<1>1. ASSUME NEW p \in Pids, NEW why \in {1, 2}, Sleep(p, why)
      PROVE  TypeOK' /\ Control'
  BY <1>1 DEF TypeOK, Control, Sleep
<1>2. ASSUME NEW p \in Pids, NEW v \in Pages, DemandFault(p, v)
      PROVE  TypeOK' /\ Control'
  <2>1. used' \subseteq Frames /\ table' \in [Procs -> [Cells -> Entries]]
    BY <1>2, TypeDemand, Sizes DEF DemandFault, TypeOK
  <2> QED
    BY <1>2, <2>1 DEF DemandFault, TypeOK, Control
<1>3. ASSUME NEW p \in Pids, NEW q \in Pids, NEW v \in Pages, SyscallDraws(p, q, v)
      PROVE  TypeOK' /\ Control'
  <2>1. used' \subseteq Frames /\ table' \in [Procs -> [Cells -> Entries]]
    BY <1>3, TypeMaps DEF SyscallDraws
  <2> QED
    BY <1>3, <2>1 DEF SyscallDraws, TypeOK, Control
<1>4. ASSUME NEW p \in Pids, NEW q \in Pids, NEW v \in Pages, DrawKills(p, q, v)
      PROVE  TypeOK' /\ Control'
  BY <1>4, TypeFrees, Sizes DEF DrawKills
<1>5. ASSUME NEW p \in Pids, Die(p) PROVE TypeOK' /\ Control'
  BY <1>5, TypeFrees DEF Die, TypeOK
<1> QED
  BY <1>1, <1>2, <1>3, <1>4, <1>5 DEF App

\* So does the timer.
LEMMA TypeSchedule == TypeOK /\ Control /\ Schedule => TypeOK' /\ Control'
BY Sizes DEF Schedule, Runnable, TypeOK, Control

\* Every step keeps the types; so does doing nothing.
LEMMA TypeNext == TypeOK /\ Control /\ [Next]_vars => TypeOK' /\ Control'
<1>1. TypeOK /\ Control /\ UNCHANGED vars => TypeOK' /\ Control'
  BY DEF TypeOK, Control
<1> QED
  BY <1>1, TypeLaunch, TypeKill, TypeEvents, TypeApp, TypeSchedule DEF Next

\* The variables have their types in every state, and pid 0's loop counters and
\* target are what its program counter says.
THEOREM TypeCorrect == Spec => []TypeOK
<1>1. Spec => [](TypeOK /\ Control)
  BY TypeInit, TypeNext, PTL DEF Spec
<1> QED
  BY <1>1, PTL

(***************************************************************************)
(* The kernel heap and the context of the CPU.  Nothing is assumed of the  *)
(* timer here: these hold for every value of PreemptAlloc and PreemptTest. *)
(***************************************************************************)
HeapInv ==
  /\ ContextValid /\ HeapReclaimed
  /\ kpc = "frames" => stack[target] = "none"

\* Initially nothing is allocated.
LEMMA HeapInit == Init => HeapInv
BY Sizes DEF Init, HeapInv, ContextValid, HeapReclaimed, Building, Reaping

\* Loading a program gives back what it does not hand over to the process.
LEMMA HeapLaunch == TypeOK /\ Control /\ HeapInv /\ Launch => HeapInv'
<1> SUFFICES ASSUME TypeOK, Control, HeapInv, Launch PROVE HeapInv'
  OBVIOUS
<1> USE Sizes DEF TypeOK, Control, Kernel, HeapInv, ContextValid, HeapReclaimed,
                  Building, Reaping
<1>1. CASE LaunchTable
  BY <1>1 DEF LaunchTable
<1>2. CASE LaunchRead
  BY <1>2 DEF LaunchRead
<1>3. CASE LaunchReadFails
  BY <1>3 DEF LaunchReadFails
<1>4. CASE LaunchFrame
  BY <1>4 DEF LaunchFrame, MapNext
<1>5. CASE LaunchFrameFound
  BY <1>5 DEF LaunchFrameFound
<1>6. CASE LaunchFrameMark
  BY <1>6 DEF LaunchFrameMark, MapNext
<1>7. CASE LaunchAccept
  BY <1>7 DEF LaunchAccept
<1>8. CASE LaunchReject
  BY <1>8 DEF LaunchReject
<1>9. CASE LaunchUndoFrame
  BY <1>9 DEF LaunchUndoFrame
<1>10. CASE LaunchUndone
  BY <1>10 DEF LaunchUndone
<1>11. CASE CreateProcess
  BY <1>11 DEF CreateProcess
<1>12. CASE CreateReady
  BY <1>12 DEF CreateReady
<1> QED
  BY <1>1, <1>2, <1>3, <1>4, <1>5, <1>6, <1>7, <1>8, <1>9, <1>10, <1>11, <1>12
  DEF Launch

\* A process pid 0 kills has lost its stack and its table when it is done with.
LEMMA HeapKill == TypeOK /\ Control /\ HeapInv /\ Kill => HeapInv'
<1> SUFFICES ASSUME TypeOK, Control, HeapInv, Kill PROVE HeapInv'
  OBVIOUS
<1> USE Sizes DEF TypeOK, Control, Kernel, HeapInv, ContextValid, HeapReclaimed,
                  Building, Reaping
<1>1. CASE KillRequest
  BY <1>1 DEF KillRequest
<1>2. CASE KillSkip
  BY <1>2 DEF KillSkip
<1>3. CASE KillTested
  BY <1>3 DEF KillTested
<1>4. CASE KillDoom
  BY <1>4 DEF KillDoom, Doom
<1>5. CASE KillTestAndDoom
  BY <1>5 DEF KillTestAndDoom, Doom
<1>6. CASE KillStack
  BY <1>6 DEF KillStack
<1>7. CASE KillFrame
  BY <1>7 DEF KillFrame
<1>8. CASE KillTable
  BY <1>8 DEF KillTable
<1>9. CASE KillDone
  BY <1>9 DEF KillDone
<1> QED
  BY <1>1, <1>2, <1>3, <1>4, <1>5, <1>6, <1>7, <1>8, <1>9 DEF Kill

\* A process that dies frees both blocks itself, whatever is then mounted.
LEMMA HeapFrees ==
  ASSUME TypeOK, Control, HeapInv, NEW p \in Pids, Running(p), FreesAll(p)
  PROVE  HeapInv'
<1>1. /\ current = p /\ active[p] /\ ~active'[p] /\ p # 0 /\ p \in Procs
      /\ \A q \in Pids \ {p} : active'[q] = active[q]
  BY Sizes DEF Running, FreesAll, TypeOK
<1>2. ContextValid'
  BY <1>1, Sizes DEF FreesAll, HeapInv, ContextValid, TypeOK
<1>3. HeapReclaimed'
  BY <1>1, Sizes DEF FreesAll, HeapInv, HeapReclaimed, TypeOK, Reaping, Building
<1>4. (kpc = "frames" => stack[target] = "none")'
  BY DEF FreesAll, HeapInv, TypeOK, Control
<1> QED
  BY <1>2, <1>3, <1>4 DEF HeapInv

\* The rest: nobody else allocates or frees; the timer remounts.
LEMMA HeapOthers ==
  TypeOK /\ Control /\ HeapInv /\ (Events \/ App \/ Schedule) => HeapInv'
<1> SUFFICES ASSUME TypeOK, Control, HeapInv, Events \/ App \/ Schedule
             PROVE  HeapInv'
  OBVIOUS
<1>1. ASSUME NEW p \in Pids, NEW v \in Pages,
             \/ WakeYielded(p)
             \/ \E enter \in BOOLEAN : KeyToApp(p, v, enter)
             \/ DrawFound(p) \/ DrawImage(p, v)
      PROVE  HeapInv'
  <2>1. /\ UNCHANGED <<active, stack, hasTable, cpuVars, temp>>
        /\ {kpc, kpc'} \subseteq {"idle", "draw"}
    BY <1>1 DEF WakeYielded, KeyToApp, DrawFound, DrawImage, Drawing, Kernel
  <2> QED
    BY <2>1 DEF HeapInv, ContextValid, HeapReclaimed, Building, Reaping
<1>2. ASSUME NEW p \in Pids, NEW v \in Pages,
             KeyToAppHangs(p, v) \/ DrawHangs(p, v)
      PROVE  HeapInv'
  <2>1. /\ UNCHANGED <<active, stack, hasTable, current, temp>>
        /\ kpc \in {"idle", "draw"} /\ kpc' = "hung" /\ current = 0
    BY <1>2 DEF KeyToAppHangs, DrawHangs, Hangs, Drawing, Kernel
  <2> QED
    BY <2>1 DEF HeapInv, ContextValid, HeapReclaimed, Building, Reaping
<1>3. ASSUME NEW p \in Pids, NEW q \in Pids, NEW v \in Pages,
             \/ \E why \in {1, 2} : Sleep(p, why)
             \/ DemandFault(p, v) \/ SyscallDraws(p, q, v)
      PROVE  HeapInv'
  <2>1. UNCHANGED <<active, stack, hasTable, cpuVars, kpc, temp, target>>
    BY <1>3 DEF Sleep, DemandFault, SyscallDraws
  <2> QED
    BY <2>1 DEF HeapInv, ContextValid, HeapReclaimed, Building, Reaping
<1>4. ASSUME NEW p \in Pids, NEW q \in Pids, NEW v \in Pages,
             Die(p) \/ DrawKills(p, q, v)
      PROVE  HeapInv'
  BY <1>4, HeapFrees DEF Die, DrawKills
<1>5. CASE Schedule
  <2>1. UNCHANGED <<active, stack, hasTable, kpc, temp, target>> /\ mounted' = current'
    BY <1>5 DEF Schedule
  <2> QED
    BY <2>1 DEF HeapInv, ContextValid, HeapReclaimed, Building, Reaping
<1>6. Pages # {}
  BY Sizes DEF Pages
<1>7. CASE Events
  BY <1>1, <1>2, <1>6, <1>7 DEF Events
<1>8. CASE App
  BY <1>3, <1>4, <1>6, <1>8 DEF App
<1> QED
  BY <1>5, <1>7, <1>8

\* The invariant of the heap holds in every state.
LEMMA HeapAlways == Spec => [](TypeOK /\ Control /\ HeapInv)
<1>1. TypeOK /\ Control /\ HeapInv /\ UNCHANGED vars => HeapInv'
  BY DEF HeapInv, ContextValid, HeapReclaimed, Building, Reaping
<1>2. TypeOK /\ Control /\ HeapInv /\ [Next]_vars => HeapInv'
  BY <1>1, HeapLaunch, HeapKill, HeapOthers DEF Next
<1> QED
  BY <1>2, TypeInit, TypeNext, HeapInit, PTL DEF Spec

\* The CPU never runs on a freed context: what is mounted is the table of
\* current_pid (unless it halts), and whoever can be scheduled owns a table and
\* a kernel stack.
THEOREM ContextIsValid == Spec => []ContextValid
<1>1. HeapInv => ContextValid
  BY DEF HeapInv
<1> QED
  BY <1>1, HeapAlways, PTL

\* No death and no failed load leaks a block of the kernel heap.
THEOREM HeapIsReclaimed == Spec => []HeapReclaimed
<1>1. HeapInv => HeapReclaimed
  BY DEF HeapInv
<1> QED
  BY <1>1, HeapAlways, PTL

(***************************************************************************)
(* The tables.                                                             *)
(***************************************************************************)
\* Pid 0 is not between its test of "active" and the drawing.
NotBetween == kpc # "draw"

\* When the test and the mapping are one step, it never is.
LEMMA NeverBetween == ASSUME ~PreemptTest PROVE Spec => []NotBetween
<1>1. Init => NotBetween
  BY DEF Init, NotBetween
<1>2. NotBetween /\ [Next]_vars => NotBetween'
  <2> SUFFICES ASSUME kpc # "draw", [Next]_vars PROVE kpc' # "draw"
    BY DEF NotBetween
  <2>1. CASE Launch
    BY <2>1
    DEF Launch, LaunchTable, LaunchRead, LaunchReadFails, LaunchFrame,
        LaunchFrameFound, LaunchFrameMark, MapNext, LaunchAccept, LaunchReject,
        LaunchUndoFrame, LaunchUndone, CreateProcess, CreateReady, Kernel
  <2>2. CASE Kill
    BY <2>2
    DEF Kill, KillRequest, KillSkip, KillTested, KillDoom, KillTestAndDoom, Doom,
        KillStack, KillFrame, KillTable, KillDone, Kernel
  <2>3. CASE Events
    BY <2>3
    DEF Events, WakeYielded, KeyToApp, KeyToAppHangs, Hangs, DrawFound,
        DrawImage, DrawHangs, Kernel
  <2>4. CASE App \/ Schedule \/ UNCHANGED vars
    <3>1. kpc' = kpc
      BY <2>4
      DEF App, Sleep, DemandFault, SyscallDraws, Die, DrawKills, FreesAll, Schedule
    <3> QED
      BY <3>1
  <2> QED
    BY <2>1, <2>2, <2>3, <2>4 DEF Next
<1> QED
  BY <1>1, <1>2, PTL DEF Spec

\* A living process gets one page more.
LEMMA GrowsByOne ==
  ASSUME TypeOK, NEW q \in Pids, active[q], active' = active, NEW v \in Pages,
         table[q][v] = NotPresent, NEW r, table' = [table EXCEPT ![q][v] = r]
  PROVE  GrowsAlive
<1> SUFFICES ASSUME NEW p \in Pids, table'[p] # table[p]
             PROVE  active'[p] /\ \A w \in Pages :
                                    table[p][w] \in {NotPresent, table'[p][w]}
  BY DEF GrowsAlive
<1>1. p = q
  BY DEF TypeOK
<1>2. \A w \in Cells : w # v => table'[q][w] = table[q][w]
  BY Sizes DEF TypeOK
<1> QED
  BY <1>1, <1>2

LEMMA TouchGrows ==
  ASSUME TypeOK, NEW q \in Pids, active[q], active' = active, NEW v \in Pages,
         MapsPage(q, v) \/ Touches(q, v)
  PROVE  GrowsAlive
<1>1. CASE table' = table
  BY <1>1 DEF GrowsAlive
<1>2. CASE MapsPage(q, v)
  BY <1>2, GrowsByOne DEF MapsPage
<1> QED
  BY <1>1, <1>2 DEF Touches

\* The table of a process changes while it lives, one page more at a time; only
\* the window between pid 0's test of active and its drawing has to be closed.
THEOREM TablesGrow == ASSUME ~PreemptTest PROVE Spec => TablesOnlyGrow
<1>1. TypeOK /\ Control /\ HeapInv /\ NotBetween /\ [Next]_vars => GrowsAlive
  <2> SUFFICES ASSUME TypeOK, Control, HeapInv, kpc # "draw", [Next]_vars
               PROVE  GrowsAlive
    BY DEF NotBetween
  <2>1. ASSUME \A p \in Pids : table'[p] = table[p] PROVE GrowsAlive
    BY <2>1 DEF GrowsAlive
  <2>2. CASE Launch
    <3>1. CASE CreateProcess
      <4>1. /\ target \in Pids /\ ~active[target] /\ active'[target]
            /\ \A p \in Pids \ {target} : table'[p] = table[p]
        BY <3>1, Sizes DEF CreateProcess, Control, Kernel, TypeOK
      <4> QED
        BY <4>1 DEF GrowsAlive
    <3>2. CASE ~CreateProcess
      <4>1. \A p \in Pids : table'[p] = table[p]
        BY <2>2, <3>2, Sizes
        DEF Launch, LaunchTable, LaunchRead, LaunchReadFails, LaunchFrame,
            LaunchFrameFound, LaunchFrameMark, MapNext, LaunchAccept,
            LaunchReject, LaunchUndoFrame, LaunchUndone, CreateReady, TypeOK
      <4> QED
        BY <2>1, <4>1
    <3> QED
      BY <3>1, <3>2
  <2>3. CASE Kill
    <3>1. table' = table
      BY <2>3 DEF Kill, KillRequest, KillSkip, KillTested, KillDoom,
        KillTestAndDoom, Doom, KillStack, KillFrame, KillTable, KillDone
    <3> QED
      BY <2>1, <3>1
  <2>4. CASE Events
    <3>1. PICK q \in Pids :
            \/ WakeYielded(q) \/ DrawFound(q)
            \/ \E v \in Pages : \/ \E enter \in BOOLEAN : KeyToApp(q, v, enter)
                                \/ KeyToAppHangs(q, v)
                                \/ DrawImage(q, v) \/ DrawHangs(q, v)
      BY <2>4 DEF Events
    <3>2. CASE \E v \in Pages : \/ \E enter \in BOOLEAN : KeyToApp(q, v, enter)
                                \/ DrawImage(q, v)
      <4>1. /\ \E v \in Pages : Touches(q, v)
            /\ active[q] /\ active' = active
        BY <3>2 DEF KeyToApp, DrawImage, Drawing, Kernel
      <4> QED
        BY <4>1, TouchGrows
    <3>3. CASE \/ WakeYielded(q) \/ DrawFound(q)
               \/ \E v \in Pages : KeyToAppHangs(q, v) \/ DrawHangs(q, v)
      <4>1. table' = table
        BY <3>3 DEF WakeYielded, DrawFound, KeyToAppHangs, DrawHangs, Hangs
      <4> QED
        BY <2>1, <4>1
    <3> QED
      BY <3>1, <3>2, <3>3
  <2>5. CASE App
    <3>1. PICK q \in Pids :
            \/ \E why \in {1, 2} : Sleep(q, why)
            \/ \E v \in Pages : \/ DemandFault(q, v)
                                \/ \E o \in Pids : \/ SyscallDraws(q, o, v)
                                                  \/ DrawKills(q, o, v)
            \/ Die(q)
      BY <2>5 DEF App
    <3>2. CASE \E v \in Pages : DemandFault(q, v)
      <4>1. PICK v \in Pages : DemandFault(q, v)
        BY <3>2
      <4>2. current = q /\ active[q] /\ active' = active /\ q # 0
        BY <4>1, Sizes DEF DemandFault, Running
      <4>3. mounted = q
        BY <4>2 DEF HeapInv, ContextValid
      <4>4. PICK r \in Frames : table' = [table EXCEPT ![q][v] = r]
        BY <4>1, <4>3 DEF DemandFault
      <4>5. table[q][v] = NotPresent
        BY <4>1 DEF DemandFault
      <4> QED
        BY <4>2, <4>4, <4>5, GrowsByOne
    <3>3. CASE \E v \in Pages, o \in Pids : SyscallDraws(q, o, v)
      <4>1. \E v \in Pages, o \in Pids :
              MapsPage(o, v) /\ active[o] /\ active' = active
        BY <3>3 DEF SyscallDraws
      <4> QED
        BY <4>1, TouchGrows
    <3>4. CASE \/ \E why \in {1, 2} : Sleep(q, why)
               \/ \E v \in Pages, o \in Pids : DrawKills(q, o, v)
               \/ Die(q)
      <4>1. table' = table
        BY <3>4 DEF Sleep, DrawKills, Die, FreesAll
      <4> QED
        BY <2>1, <4>1
    <3> QED
      BY <3>1, <3>2, <3>3, <3>4
  <2>6. CASE Schedule \/ UNCHANGED vars
    <3>1. table' = table
      BY <2>6 DEF Schedule
    <3> QED
      BY <2>1, <3>1
  <2> QED
    BY <2>2, <2>3, <2>4, <2>5, <2>6 DEF Next
<1> QED
  BY <1>1, HeapAlways, NeverBetween, PTL DEF Spec, TablesOnlyGrow

(***************************************************************************)
(* The blocks pid 0 frees while it kills.                                  *)
(***************************************************************************)
\* Pid 0 is not between its test of "active" and active = 0, so who is killed was
\* alive and has what is freed next.
ReapInv == kpc # "doom" /\ FreedOnce

LEMMA ReapLaunch == TypeOK /\ Control /\ ReapInv /\ Launch => ReapInv'
<1> SUFFICES ASSUME Launch PROVE kpc' \notin {"doom", "stack", "frames"}
  BY DEF ReapInv, FreedOnce, Reaping
<1> QED
  BY DEF Launch, LaunchTable, LaunchRead, LaunchReadFails, LaunchFrame,
         LaunchFrameFound, LaunchFrameMark, MapNext, LaunchAccept, LaunchReject,
         LaunchUndoFrame, LaunchUndone, CreateProcess, CreateReady, Kernel

LEMMA ReapKill ==
  ASSUME ~PreemptTest, TypeOK, Control, HeapInv, ReapInv, Kill
  PROVE  ReapInv'
<1> USE DEF ReapInv, FreedOnce, Reaping, Kernel
<1>1. CASE KillTestAndDoom
  <2>1. PICK p \in Pids : active[p] /\ target' = p /\ Doom(p)
    BY <1>1 DEF KillTestAndDoom, TypeOK
  <2>2. hasTable[p] /\ stack[p] # "none"
    BY <2>1 DEF HeapInv, ContextValid
  <2> QED
    BY <2>1, <2>2 DEF Doom
<1>2. CASE KillStack
  BY <1>2 DEF KillStack
<1>3. CASE KillFrame
  BY <1>3 DEF KillFrame
<1>4. CASE \/ KillRequest \/ KillSkip \/ KillTable \/ KillDone
  <2>1. kpc' \notin {"doom", "stack", "frames"}
    BY <1>4 DEF KillRequest, KillSkip, KillTable, KillDone
  <2> QED
    BY <2>1
<1>5. ~KillTested /\ ~KillDoom
  BY DEF KillTested, KillDoom
<1> QED
  BY <1>1, <1>2, <1>3, <1>4, <1>5 DEF Kill

\* Who frees all it has is alive: it is not the one pid 0 kills.
LEMMA ReapOthers ==
  ASSUME TypeOK, Control, ReapInv, Events \/ App \/ Schedule \/ UNCHANGED vars
  PROVE  ReapInv'
<1>1. CASE Events
  <2>1. kpc' \notin {"doom", "stack", "frames"}
    BY <1>1 DEF Events, WakeYielded, KeyToApp, KeyToAppHangs, Hangs, DrawFound,
                DrawImage, DrawHangs, Drawing, Kernel
  <2> QED
    BY <2>1 DEF ReapInv, FreedOnce, Reaping
<1>2. ASSUME NEW p \in Pids, Running(p), FreesAll(p) PROVE ReapInv'
  <2>1. kpc' = kpc /\ target' = target
    BY <1>2 DEF FreesAll
  <2>2. CASE kpc \in Reaping
    <3>1. p # target /\ target \in Pids
      BY <1>2, <2>2 DEF Control, Running, Reaping
    <3>2. hasTable'[target] = hasTable[target] /\ stack'[target] = stack[target]
      BY <1>2, <3>1, Sizes DEF FreesAll, TypeOK
    <3> QED
      BY <2>1, <2>2, <3>2 DEF ReapInv, FreedOnce, Reaping
  <2> QED
    BY <2>1, <2>2 DEF ReapInv, FreedOnce, Reaping
<1>3. ASSUME UNCHANGED <<stack, hasTable, kpc, target>> PROVE ReapInv'
  BY <1>3 DEF ReapInv, FreedOnce, Reaping
<1>4. CASE App
  <2>1. \/ \E p \in Pids : Running(p) /\ FreesAll(p)
        \/ UNCHANGED <<stack, hasTable, kpc, target>>
    BY <1>4 DEF App, Sleep, DemandFault, SyscallDraws, Die, DrawKills
  <2> QED
    BY <1>2, <1>3, <2>1
<1>5. CASE Schedule \/ UNCHANGED vars
  BY <1>3, <1>5 DEF Schedule
<1> QED
  BY <1>1, <1>4, <1>5

\* What the "kill" command and the close button free was allocated: no block is
\* freed twice and no freed page table is walked, if the timer does not fire
\* between the test of active and active = 0 (a process that exits there frees
\* the same blocks itself).
THEOREM NothingFreedTwice == ASSUME ~PreemptTest PROVE Spec => []FreedOnce
<1>1. Init => ReapInv
  BY DEF Init, ReapInv, FreedOnce, Reaping
<1>2. TypeOK /\ Control /\ HeapInv /\ ReapInv /\ [Next]_vars => ReapInv'
  BY ReapLaunch, ReapKill, ReapOthers DEF Next
<1>3. ReapInv => FreedOnce
  BY DEF ReapInv
<1> QED
  BY <1>1, <1>2, <1>3, HeapAlways, PTL DEF Spec

(***************************************************************************)
(* Who owns a physical frame, for any number of processes, frames and      *)
(* pages, when the timer does not fire inside pid 0's pfa_alloc_frame nor  *)
(* between its test of "active" and the use it makes of it (it may fire    *)
(* anywhere else), and when no file that is launched has more frames than  *)
(* a page table has entries (FilesFit): the code assumes it and checks it  *)
(* nowhere.                                                                *)
(***************************************************************************)

Masked == ~PreemptAlloc /\ ~PreemptTest

\* Entry v of o's table is in use and names frame f.
HoldsAs(o, v, f) == Holds(o, v) /\ table[o][v] = f

\* A frame is in one place, whose bit is set; and every set bit has its place.
FrameInv ==
  /\ FrameExclusive
  /\ \A o \in Procs, v \in Cells : Holds(o, v) => table[o][v] \in used
  /\ \A f \in used : HeldSomewhere(f)

\* The part of app_pt that pid 0 has not filled yet is empty: an entry is never
\* overwritten.
LoadInv ==
  /\ kpc \notin {"mark", "doom", "draw"}
  /\ kpc = "read" => \A v \in Cells : table[0][v] = NotPresent
  /\ kpc = "load" => \A v \in Cells : idx <= v => table[0][v] = NotPresent
  /\ kpc = "undo" => \A v \in Cells : need <= v => table[0][v] = NotPresent

\* What the ledger sees, in terms of the entries.
OwnerFacts ==
  /\ \A f \in Frames : f \notin used => ownerMap[f] = -1
  /\ \A f \in Frames, o \in Procs, v \in Cells :
       HoldsAs(o, v, f) => ownerMap[f] = o
  /\ \A f \in used : /\ ownerMap[f] \in Procs
                     /\ \E v \in Cells : HoldsAs(ownerMap[f], v, f)

LEMMA OwnerIsHolder == TypeOK /\ FrameInv => OwnerFacts
<1> SUFFICES ASSUME TypeOK, FrameInv PROVE OwnerFacts
  OBVIOUS
<1>1. ASSUME NEW f \in Frames, f \notin used PROVE ownerMap[f] = -1
  BY <1>1 DEF ownerMap, OwnerOf
<1>2. ASSUME NEW f \in used
      PROVE  /\ ownerMap[f] \in Procs
             /\ \E v \in Cells : HoldsAs(ownerMap[f], v, f)
  <2>1. f \in Frames
    BY <1>2 DEF TypeOK
  <2>2. \E o \in Procs : \E v \in Cells : Holds(o, v) /\ table[o][v] = f
    BY <1>2 DEF FrameInv, HeldSomewhere
  <2> QED
    BY <1>2, <2>1, <2>2 DEF ownerMap, OwnerOf, HoldsAs
<1>3. ASSUME NEW f \in Frames, NEW o \in Procs, NEW v \in Cells, HoldsAs(o, v, f)
      PROVE  ownerMap[f] = o
  <2>1. f \in used
    BY <1>3 DEF FrameInv, HoldsAs
  <2>2. PICK w \in Cells : ownerMap[f] \in Procs /\ HoldsAs(ownerMap[f], w, f)
    BY <1>2, <2>1
  <2> QED
    BY <1>3, <2>2 DEF FrameInv, FrameExclusive, HoldsAs
<1> QED
  BY <1>1, <1>2, <1>3 DEF OwnerFacts

LEMMA OwnerIsHolderNext == TypeOK' /\ FrameInv' => OwnerFacts'
BY OwnerIsHolder, PTL

\* A step that moves no frame.
LEMMA StepSame ==
  ASSUME TypeOK, FrameInv, TypeOK', used' = used,
         \A o \in Procs, v \in Cells, f \in Frames :
           HoldsAs(o, v, f)' <=> HoldsAs(o, v, f)
  PROVE  FrameInv' /\ ownerMap' = ownerMap
<1>1. FrameInv'
  BY DEF FrameInv, FrameExclusive, HeldSomewhere, HoldsAs, Holds, TypeOK
<1>2. OwnerFacts /\ OwnerFacts'
  BY <1>1, OwnerIsHolder, OwnerIsHolderNext
<1>3. \A f \in Frames : ownerMap[f] = ownerMap'[f]
  BY <1>2 DEF OwnerFacts
<1> QED
  BY <1>1, <1>3 DEF ownerMap

\* A step by which o takes a free frame.
LEMMA StepTake ==
  ASSUME TypeOK, FrameInv, TypeOK',
         NEW p \in Procs, NEW w \in Cells, NEW r \in Frames,
         r \notin used, used' = used \cup {r},
         \A o \in Procs, v \in Cells, f \in Frames :
           HoldsAs(o, v, f)' <=> HoldsAs(o, v, f) \/ (o = p /\ v = w /\ f = r)
  PROVE  FrameInv' /\ Ledger!Next
<1>1. FrameInv'
  BY DEF FrameInv, FrameExclusive, HeldSomewhere, HoldsAs, Holds, TypeOK
<1>2. OwnerFacts /\ OwnerFacts'
  BY <1>1, OwnerIsHolder, OwnerIsHolderNext
<1>3. ownerMap[r] = -1 /\ ownerMap'[r] = p
  BY <1>2 DEF OwnerFacts
<1>4. \A f \in Frames \ {r} : ownerMap[f] = ownerMap'[f]
  BY <1>2 DEF OwnerFacts
<1>5. ownerMap' = [ownerMap EXCEPT ![r] = p]
  BY <1>3, <1>4 DEF ownerMap
<1>6. Ledger!Take(p, r)
  BY <1>3, <1>5 DEF Ledger!Take, Ledger!Free
<1> QED
  BY <1>1, <1>6 DEF Ledger!Next

\* A step by which p gives back frames of its own.
LEMMA StepGive ==
  ASSUME TypeOK, FrameInv, TypeOK',
         NEW p \in Procs, NEW S, S \subseteq Frames, S # {},
         \A f \in S : \E v \in Cells : HoldsAs(p, v, f),
         used' = used \ S,
         \A o \in Procs, v \in Cells, f \in Frames :
           HoldsAs(o, v, f)' <=> HoldsAs(o, v, f) /\ f \notin S
  PROVE  FrameInv' /\ Ledger!Next
<1>1. FrameInv'
  BY DEF FrameInv, FrameExclusive, HeldSomewhere, HoldsAs, Holds, TypeOK
<1>2. OwnerFacts /\ OwnerFacts'
  BY <1>1, OwnerIsHolder, OwnerIsHolderNext
<1>3. \A f \in S : ownerMap[f] = p /\ ownerMap'[f] = -1
  BY <1>2 DEF OwnerFacts
<1>4. \A f \in Frames \ S : ownerMap[f] = ownerMap'[f]
  BY <1>2 DEF OwnerFacts
<1>5. ownerMap' = [f \in Frames |-> IF f \in S THEN -1 ELSE ownerMap[f]]
  BY <1>3, <1>4 DEF ownerMap
<1>6. S \in SUBSET Ledger!Owned(p)
  BY <1>3 DEF Ledger!Owned
<1>7. Ledger!GiveBack(p)
  BY <1>5, <1>6 DEF Ledger!GiveBack, Ledger!Move, Ledger!Free
<1> QED
  BY <1>1, <1>7 DEF Ledger!Next

\* The step by which pid 0's new program becomes process p.
LEMMA StepHandOver ==
  ASSUME TypeOK, FrameInv, TypeOK', NEW p \in Pids, used' = used,
         \A v \in Cells, f \in Frames : ~HoldsAs(p, v, f),
         \A o \in Procs, v \in Cells, f \in Frames :
           HoldsAs(o, v, f)' <=> \/ o \notin {0, p} /\ HoldsAs(o, v, f)
                                 \/ o = p /\ HoldsAs(0, v, f)
  PROVE  FrameInv' /\ [Ledger!Next]_ownerMap
<1> USE Sizes
<1>1. FrameInv'
  <2>1. \A o \in Procs, v \in Cells :
          Holds(o, v)' => /\ table'[o][v] \in Frames
                          /\ HoldsAs(o, v, table[o][v])'
    BY DEF HoldsAs, Holds
  <2>2. ASSUME NEW o1 \in Procs, NEW o2 \in Procs,
               NEW v1 \in Cells, NEW v2 \in Cells, NEW f \in Frames,
               HoldsAs(o1, v1, f)', HoldsAs(o2, v2, f)'
        PROVE  o1 = o2 /\ v1 = v2
    <3>1. /\ o1 # 0 /\ HoldsAs(IF o1 = p THEN 0 ELSE o1, v1, f)
          /\ o2 # 0 /\ HoldsAs(IF o2 = p THEN 0 ELSE o2, v2, f)
      BY <2>2
    <3>2. (IF o1 = p THEN 0 ELSE o1) = (IF o2 = p THEN 0 ELSE o2) /\ v1 = v2
      BY <3>1 DEF FrameInv, FrameExclusive, HoldsAs
    <3> QED
      BY <3>1, <3>2
  <2>3. FrameExclusive'
    BY <2>1, <2>2 DEF FrameExclusive
  <2>4. \A o \in Procs, v \in Cells : Holds(o, v)' => table'[o][v] \in used'
    BY <2>1 DEF FrameInv, HoldsAs
  <2>5. ASSUME NEW f \in used PROVE HeldSomewhere(f)'
    <3>1. PICK o \in Procs, v \in Cells : HoldsAs(o, v, f)
      BY DEF FrameInv, HeldSomewhere, HoldsAs
    <3>2. f \in Frames /\ o # p
      BY <3>1 DEF TypeOK
    <3>3. HoldsAs(IF o = 0 THEN p ELSE o, v, f)'
      BY <3>1, <3>2
    <3> QED
      BY <3>3 DEF HeldSomewhere, HoldsAs
  <2> QED
    BY <2>3, <2>4, <2>5 DEF FrameInv
<1>2. OwnerFacts /\ OwnerFacts'
  BY <1>1, OwnerIsHolder, OwnerIsHolderNext
<1>3. \A f \in Frames : ownerMap[f] # p
  BY <1>2 DEF OwnerFacts, Procs, Pids
<1>4. \A f \in Frames : ownerMap'[f] = IF ownerMap[f] = 0 THEN p ELSE ownerMap[f]
  BY <1>2, <1>3 DEF OwnerFacts, Procs, Pids
<1>5. CASE \E f \in Frames : ownerMap[f] = 0
  <2>1. Ledger!Owned(p) = {} /\ Ledger!Owned(0) # {}
    BY <1>3, <1>5 DEF Ledger!Owned
  <2>2. ownerMap' = [f \in Frames |->
                       IF f \in Ledger!Owned(0) THEN p ELSE ownerMap[f]]
    BY <1>4 DEF Ledger!Owned, ownerMap
  <2> QED
    BY <1>1, <2>1, <2>2 DEF Ledger!HandOver, Ledger!Move, Ledger!Next, Pids
<1>6. CASE \A f \in Frames : ownerMap[f] # 0
  <2>1. ownerMap' = ownerMap
    BY <1>4, <1>6 DEF ownerMap
  <2> QED
    BY <1>1, <2>1
<1> QED
  BY <1>5, <1>6

(***************************************************************************)
(* The steps.                                                              *)
(***************************************************************************)
USE DEF appVars, memVars, cpuVars, loadVars, killVars, vars

Before == TypeOK /\ Control /\ HeapInv /\ FrameInv /\ LoadInv
          /\ Masked /\ FilesFit
After  == FrameInv' /\ LoadInv' /\ [Ledger!Next]_ownerMap

\* A step that moves no frame does what the ledger allows: nothing.
LEMMA SameSuffices ==
  ASSUME Before, TypeOK', LoadInv', used' = used,
         \A o \in Procs, v \in Cells, f \in Frames :
           HoldsAs(o, v, f)' <=> HoldsAs(o, v, f)
  PROVE  After
BY StepSame DEF Before, After

\* pfa_free_frame on the next entry of a table that is being emptied.
LEMMA ReleaseNext ==
  ASSUME Before, TypeOK', LoadInv', NEW p \in Procs, idx \in Cells,
         Live(p, idx) \/ table[p][idx] = NotPresent,
         used' = Released({table[p][idx]}),
         \A o \in Procs, v \in Cells, f \in Frames :
           HoldsAs(o, v, f)' <=> HoldsAs(o, v, f) /\ ~(o = p /\ v = idx)
  PROVE  After
<1> DEFINE g == table[p][idx]
<1>1. CASE g \in Frames
  <2>1. HoldsAs(p, idx, g)
    BY <1>1, Sizes DEF HoldsAs, Holds
  <2>2. \A o \in Procs, v \in Cells, f \in Frames :
          HoldsAs(o, v, f)' <=> HoldsAs(o, v, f) /\ f \notin {g}
    BY <2>1 DEF Before, FrameInv, FrameExclusive, HoldsAs
  <2>3. used' = used \ {g}
    BY DEF Released
  <2> HIDE DEF g
  <2> QED
    <3> DEFINE S == {g}
    <3>1. /\ S \subseteq Frames /\ S # {}
          /\ \A f \in S : \E v \in Cells : HoldsAs(p, v, f)
      BY <1>1, <2>1
    <3>2. /\ used' = used \ S
          /\ \A o \in Procs, v \in Cells, f \in Frames :
               HoldsAs(o, v, f)' <=> HoldsAs(o, v, f) /\ f \notin S
      BY <2>2, <2>3
    <3>3. TypeOK /\ FrameInv
      BY DEF Before
    <3> HIDE DEF S
    <3>4. FrameInv' /\ Ledger!Next
      BY <3>1, <3>2, <3>3, StepGive
    <3> QED
      BY <3>4 DEF After
<1>2. CASE g \notin Frames
  <2>1. used' = used
    BY <1>2 DEF Released, Before, TypeOK
  <2>2. \A v \in Cells, f \in Frames : HoldsAs(p, v, f) => v # idx
    BY <1>2 DEF HoldsAs, Holds
  <2> QED
    BY <2>1, <2>2, SameSuffices
<1> QED
  BY <1>1, <1>2

\* pfa_alloc_frame for page v of p's table, which is in use.
LEMMA TakeFree ==
  ASSUME Before, TypeOK', LoadInv', NEW p \in Procs, NEW w \in Cells,
         NEW r \in Frames, FirstFree(r), used' = Marked(r),
         \A o \in Procs, v \in Cells, f \in Frames :
           HoldsAs(o, v, f)' <=> HoldsAs(o, v, f) \/ (o = p /\ v = w /\ f = r)
  PROVE  After
<1>1. r \notin used /\ used' = used \cup {r}
  BY FirstFreeIsFree, Sizes DEF Marked
<1> QED
  BY <1>1, StepTake DEF Before, After

\* Loading a program.
LEMMA FrameLaunch == Before /\ TypeOK' /\ Launch => After
<1> SUFFICES ASSUME Before, TypeOK', Launch PROVE After
  OBVIOUS
<1> USE Sizes DEF Kernel, Building, Reaping
<1> TypeOK /\ Control /\ FrameInv /\ LoadInv
  BY DEF Before
<1>1. CASE LaunchTable
  <2>1. LoadInv'
    BY <1>1 DEF LaunchTable, LoadInv, EmptyTable, TypeOK
  <2>2. used' = used
    BY <1>1 DEF LaunchTable
  <2>3. \A o \in Procs, v \in Cells, f \in Frames :
          HoldsAs(o, v, f)' <=> HoldsAs(o, v, f)
    BY <1>1 DEF LaunchTable, HoldsAs, Holds, Live, EmptyTable, TypeOK
  <2> QED
    BY <2>1, <2>2, <2>3, SameSuffices
<1>2. CASE LaunchRead
  <2>1. LoadInv'
    BY <1>2 DEF LaunchRead, LoadInv, Control
  <2>2. used' = used
    BY <1>2 DEF LaunchRead
  <2>3. \A o \in Procs, v \in Cells, f \in Frames :
          HoldsAs(o, v, f)' <=> HoldsAs(o, v, f)
    BY <1>2 DEF LaunchRead, HoldsAs, Holds, Live
  <2> QED
    BY <2>1, <2>2, <2>3, SameSuffices
<1>3. CASE LaunchReadFails
  <2>1. LoadInv'
    BY <1>3 DEF LaunchReadFails, LoadInv
  <2>2. used' = used
    BY <1>3 DEF LaunchReadFails
  <2>3. \A o \in Procs, v \in Cells, f \in Frames :
          HoldsAs(o, v, f)' <=> HoldsAs(o, v, f)
    BY <1>3 DEF LaunchReadFails, HoldsAs, Holds, Live, LoadInv
  <2> QED
    BY <2>1, <2>2, <2>3, SameSuffices
<1>4. CASE LaunchFrame
  <2>1. PICK r \in Frames \cup {LowPage} : FirstFree(r) /\ MapNext(r)
    BY <1>4 DEF LaunchFrame
  <2>2. idx \in Cells /\ table[0][idx] = NotPresent /\ kpc = "load"
    BY <1>4 DEF LaunchFrame, TypeOK, LoadInv, Cells
  <2>3. \A o \in Procs, v \in Cells :
          table'[o][v] = IF o = 0 /\ v = idx THEN r ELSE table[o][v]
    BY <2>1, <2>2 DEF MapNext, TypeOK
  <2>4. LoadInv'
    <3>1. \A v \in Cells : idx + 1 <= v => idx <= v /\ v # idx
      BY <2>2 DEF Cells
    <3> QED
      BY <2>1, <2>2, <2>3, <3>1 DEF MapNext, LoadInv
  <2>5. \A o \in Procs, v \in Cells, f \in Frames :
          HoldsAs(o, v, f)' <=> HoldsAs(o, v, f) \/ (o = 0 /\ v = idx /\ f = r)
    BY <2>1, <2>2, <2>3 DEF MapNext, HoldsAs, Holds, Live
  <2>6. CASE r = LowPage
    <3>1. used' = used
      BY <2>1, <2>6 DEF MapNext, Marked
    <3>2. \A o \in Procs, v \in Cells, f \in Frames :
            HoldsAs(o, v, f)' <=> HoldsAs(o, v, f)
      BY <2>5, <2>6
    <3> QED
      BY <2>4, <3>1, <3>2, SameSuffices
  <2>7. CASE r \in Frames
    <3>1. used' = Marked(r)
      BY <2>1 DEF MapNext
    <3> QED
      BY <2>1, <2>2, <2>4, <2>5, <2>7, <3>1, TakeFree
  <2> QED
    BY <2>6, <2>7
<1>5. CASE LaunchFrameFound
  BY <1>5 DEF LaunchFrameFound, Before, Masked
<1>6. CASE LaunchFrameMark
  BY <1>6 DEF LaunchFrameMark, LoadInv
<1>7. CASE LaunchAccept
  <2>1. LoadInv'
    BY <1>7 DEF LaunchAccept, LoadInv
  <2>2. used' = used
    BY <1>7 DEF LaunchAccept
  <2>3. \A o \in Procs, v \in Cells, f \in Frames :
          HoldsAs(o, v, f)' <=> HoldsAs(o, v, f)
    BY <1>7 DEF LaunchAccept, HoldsAs, Holds, Live
  <2> QED
    BY <2>1, <2>2, <2>3, SameSuffices
<1>8. CASE LaunchReject
  <2>1. LoadInv'
    BY <1>8 DEF LaunchReject, LoadInv
  <2>2. used' = used
    BY <1>8 DEF LaunchReject
  <2>3. \A v \in Cells : 0 <= v
    BY DEF Cells
  <2>4. \A o \in Procs, v \in Cells, f \in Frames :
          HoldsAs(o, v, f)' <=> HoldsAs(o, v, f)
    BY <1>8, <2>3 DEF LaunchReject, HoldsAs, Holds, Live
  <2> QED
    BY <2>1, <2>2, <2>4, SameSuffices
<1>9. CASE LaunchUndoFrame
  <2>1. LoadInv' /\ used' = Released({table[0][idx]})
    BY <1>9 DEF LaunchUndoFrame, LoadInv
  <2>2. idx \in Cells /\ idx' = idx + 1
    BY <1>9 DEF LaunchUndoFrame, TypeOK, Cells
  <2>3. Live(0, idx) \/ table[0][idx] = NotPresent
    BY <1>9, <2>2 DEF LaunchUndoFrame, Live, Cells
  <2>4. \A v \in Cells : idx + 1 <= v <=> idx <= v /\ v # idx
    BY <2>2 DEF Cells
  <2>5. \A o \in Procs, v \in Cells, f \in Frames :
          HoldsAs(o, v, f)' <=> HoldsAs(o, v, f) /\ ~(o = 0 /\ v = idx)
    BY <1>9, <2>2, <2>4 DEF LaunchUndoFrame, HoldsAs, Holds, Live
  <2> QED
    BY <2>1, <2>2, <2>3, <2>5, ReleaseNext
<1>10. CASE LaunchUndone
  <2>1. LoadInv'
    BY <1>10 DEF LaunchUndone, LoadInv
  <2>2. used' = used
    BY <1>10 DEF LaunchUndone
  <2>3. \A o \in Procs, v \in Cells, f \in Frames :
          HoldsAs(o, v, f)' <=> HoldsAs(o, v, f)
    BY <1>10 DEF LaunchUndone, HoldsAs, Holds, Live, LoadInv
  <2> QED
    BY <2>1, <2>2, <2>3, SameSuffices
<1>11. CASE CreateProcess
  <2>1. LoadInv' /\ target \in Pids /\ ~active[target] /\ used' = used
    BY <1>11 DEF CreateProcess, LoadInv, Control
  <2>2. \A v \in Cells, f \in Frames : ~HoldsAs(target, v, f)
    BY <1>11, <2>1 DEF CreateProcess, HoldsAs, Holds, Live, Pids
  <2>3. /\ \A o \in Procs : table'[o] = IF o = target THEN table[0] ELSE table[o]
        /\ \A o \in Pids : active'[o] <=> o = target \/ active[o]
    BY <1>11, <2>1 DEF CreateProcess, TypeOK
  <2>4. \A o \in Procs, v \in Cells, f \in Frames :
          HoldsAs(o, v, f)' <=> \/ o \notin {0, target} /\ HoldsAs(o, v, f)
                                \/ o = target /\ HoldsAs(0, v, f)
    <3> SUFFICES ASSUME NEW o \in Procs, NEW v \in Cells, NEW f \in Frames
        PROVE HoldsAs(o, v, f)' <=> \/ o \notin {0, target} /\ HoldsAs(o, v, f)
                                    \/ o = target /\ HoldsAs(0, v, f)
      OBVIOUS
    <3>1. CASE o = 0
      BY <1>11, <2>1, <3>1 DEF CreateProcess, HoldsAs, Holds, Live, Pids
    <3>2. CASE o = target
      BY <1>11, <2>1, <2>3, <3>2 DEF CreateProcess, HoldsAs, Holds, Live, Pids
    <3>3. CASE o \notin {0, target}
      BY <1>11, <2>1, <2>3, <3>3 DEF CreateProcess, HoldsAs, Holds, Live, Pids, Procs
    <3> QED
      BY <3>1, <3>2, <3>3
  <2> QED
    BY <2>1, <2>2, <2>4, StepHandOver DEF Before, After
<1>12. CASE CreateReady
  <2>1. LoadInv'
    BY <1>12 DEF CreateReady, LoadInv
  <2>2. used' = used
    BY <1>12 DEF CreateReady
  <2>3. \A o \in Procs, v \in Cells, f \in Frames :
          HoldsAs(o, v, f)' <=> HoldsAs(o, v, f)
    BY <1>12 DEF CreateReady, HoldsAs, Holds, Live
  <2> QED
    BY <2>1, <2>2, <2>3, SameSuffices
<1> QED
  BY <1>1, <1>2, <1>3, <1>4, <1>5, <1>6, <1>7, <1>8, <1>9, <1>10, <1>11, <1>12
  DEF Launch

\* Killing a process: its entries stay in use until their frame is freed.
LEMMA FrameKill == Before /\ TypeOK' /\ Kill => After
<1> SUFFICES ASSUME Before, TypeOK', Kill PROVE After
  OBVIOUS
<1> USE Sizes DEF Kernel, Building, Reaping
<1> TypeOK /\ Control /\ FrameInv /\ LoadInv
  BY DEF Before
<1>1. CASE KillRequest
  <2>1. LoadInv'
    BY <1>1 DEF KillRequest, LoadInv
  <2>2. used' = used
    BY <1>1 DEF KillRequest
  <2>3. \A o \in Procs, v \in Cells, f \in Frames :
          HoldsAs(o, v, f)' <=> HoldsAs(o, v, f)
    BY <1>1 DEF KillRequest, HoldsAs, Holds, Live
  <2> QED
    BY <2>1, <2>2, <2>3, SameSuffices
<1>2. CASE KillSkip
  <2>1. LoadInv'
    BY <1>2 DEF KillSkip, LoadInv
  <2>2. used' = used
    BY <1>2 DEF KillSkip
  <2>3. \A o \in Procs, v \in Cells, f \in Frames :
          HoldsAs(o, v, f)' <=> HoldsAs(o, v, f)
    BY <1>2 DEF KillSkip, HoldsAs, Holds, Live
  <2> QED
    BY <2>1, <2>2, <2>3, SameSuffices
<1>3. CASE KillTested
  BY <1>3 DEF KillTested, Before, Masked
<1>4. CASE KillDoom
  BY <1>4 DEF KillDoom, LoadInv
<1>5. CASE KillTestAndDoom
  <2>1. PICK p \in closing : active[p] /\ target' = p /\ Doom(p)
    BY <1>5 DEF KillTestAndDoom
  <2>2. p \in Pids /\ idx = 0 /\ kpc = "scan" /\ idx' = idx
    BY <1>5, <2>1 DEF KillTestAndDoom, Doom, TypeOK, Control
  <2>3. LoadInv' /\ used' = used
    BY <2>1, <2>2 DEF Doom, LoadInv
  <2>4. /\ \A v \in Cells : 0 <= v
        /\ \A q \in Pids : active'[q] <=> active[q] /\ q # p
    BY <2>1, <2>2 DEF Cells, Doom, TypeOK
  <2>5. \A o \in Procs, v \in Cells, f \in Frames :
          HoldsAs(o, v, f)' <=> HoldsAs(o, v, f)
    BY <2>1, <2>2, <2>4 DEF Doom, HoldsAs, Holds, Live, Pids
  <2> QED
    BY <2>3, <2>5, SameSuffices
<1>6. CASE KillStack
  <2>1. LoadInv'
    BY <1>6 DEF KillStack, LoadInv
  <2>2. used' = used
    BY <1>6 DEF KillStack
  <2>3. \A o \in Procs, v \in Cells, f \in Frames :
          HoldsAs(o, v, f)' <=> HoldsAs(o, v, f)
    BY <1>6 DEF KillStack, HoldsAs, Holds, Live
  <2> QED
    BY <2>1, <2>2, <2>3, SameSuffices
<1>7. CASE KillFrame
  <2>1. LoadInv' /\ used' = Released({table[target][idx]})
    BY <1>7 DEF KillFrame, LoadInv
  <2>2. /\ idx \in Cells /\ idx' = idx + 1 /\ kpc = "frames"
        /\ target \in Pids /\ ~active[target]
    BY <1>7 DEF KillFrame, TypeOK, Control, Cells
  <2>3. Live(target, idx) \/ table[target][idx] = NotPresent
    BY <2>2 DEF Live, Cells
  <2>4. \A v \in Cells : idx + 1 <= v <=> idx <= v /\ v # idx
    BY <2>2 DEF Cells
  <2>5. \A o \in Procs, v \in Cells, f \in Frames :
          HoldsAs(o, v, f)' <=> HoldsAs(o, v, f) /\ ~(o = target /\ v = idx)
    BY <1>7, <2>2, <2>4 DEF KillFrame, HoldsAs, Holds, Live
  <2> QED
    BY <2>1, <2>2, <2>3, <2>5, ReleaseNext
<1>8. CASE KillTable
  <2>1. LoadInv' /\ used' = used
    BY <1>8 DEF KillTable, LoadInv
  <2>2. \A v \in Cells : ~(idx <= v)
    BY <1>8, FitCells DEF KillTable, Before, Cells
  <2>3. \A o \in Procs, v \in Cells, f \in Frames :
          HoldsAs(o, v, f)' <=> HoldsAs(o, v, f)
    BY <1>8, <2>2 DEF KillTable, HoldsAs, Holds, Live
  <2> QED
    BY <2>1, <2>3, SameSuffices
<1>9. CASE KillDone
  <2>1. LoadInv'
    BY <1>9 DEF KillDone, LoadInv
  <2>2. used' = used
    BY <1>9 DEF KillDone
  <2>3. \A o \in Procs, v \in Cells, f \in Frames :
          HoldsAs(o, v, f)' <=> HoldsAs(o, v, f)
    BY <1>9 DEF KillDone, HoldsAs, Holds, Live
  <2> QED
    BY <2>1, <2>2, <2>3, SameSuffices
<1> QED
  BY <1>1, <1>2, <1>3, <1>4, <1>5, <1>6, <1>7, <1>8, <1>9 DEF Kill

\* A page fault, for the process on the CPU, for the buffer pid 0 writes or for
\* the image of a process that is being drawn.
LEMMA FrameDemand ==
  ASSUME Before, TypeOK', NEW p \in Pids, active[p], NEW w \in Cells,
         table[p][w] = NotPresent, NEW r \in Frames, FirstFree(r),
         used' = Marked(r), table' = [table EXCEPT ![p][w] = r],
         UNCHANGED <<active, kpc, idx, need>>,
         target' = target \/ kpc = "idle"
  PROVE  After
<1> USE Sizes
<1>1. \A o \in Procs, v \in Cells :
        table'[o][v] = IF o = p /\ v = w THEN r ELSE table[o][v]
  BY DEF Before, TypeOK
<1>2. LoadInv'
  BY <1>1 DEF LoadInv, Before, Pids
<1>3. \A o \in Procs, v \in Cells, f \in Frames :
        HoldsAs(o, v, f)' <=> HoldsAs(o, v, f) \/ (o = p /\ v = w /\ f = r)
  BY <1>1 DEF HoldsAs, Holds, Live, Pids, Reaping
<1>4. p \in Procs
  OBVIOUS
<1> QED
  BY <1>2, <1>3, <1>4, TakeFree

\* A page of a living process is touched.
LEMMA FrameTouch ==
  ASSUME Before, TypeOK', NEW p \in Pids, active[p], NEW v \in Cells,
         MapsPage(p, v) \/ Touches(p, v),
         UNCHANGED <<active, kpc, idx, need>>,
         target' = target \/ kpc = "idle"
  PROVE  After
<1>1. CASE UNCHANGED <<table, used>>
  <2>1. LoadInv'
    BY <1>1 DEF LoadInv, Before
  <2>2. \A o \in Procs, w \in Cells, f \in Frames :
          HoldsAs(o, w, f)' <=> HoldsAs(o, w, f)
    BY <1>1 DEF HoldsAs, Holds, Live, Reaping
  <2> QED
    BY <1>1, <2>1, <2>2, SameSuffices
<1>2. CASE MapsPage(p, v)
  BY <1>2, FrameDemand DEF MapsPage
<1> QED
  BY <1>1, <1>2 DEF Touches

\* A process that dies gives all its frames back.
LEMMA FrameDie ==
  ASSUME Before, TypeOK', NEW p \in Pids, Running(p), FreesAll(p)
  PROVE  After
<1> USE Sizes
<1> TypeOK /\ Control /\ FrameInv /\ LoadInv
  BY DEF Before
<1> DEFINE S == {table[p][v] : v \in Present(p)} \cap Frames
<1>1. current = p /\ active[p] /\ p # 0
  BY DEF Running, Pids
<1>2. LoadInv' /\ used' = used \ S
  BY DEF FreesAll, LoadInv, Released, TypeOK
<1>3. ~(kpc \in Reaping /\ p = target)
  BY <1>1 DEF Control, Reaping
<1>4. \A q \in Pids : active'[q] <=> active[q] /\ q # p
  BY DEF FreesAll, TypeOK
<1>5. \A v \in Cells, f \in Frames :
        HoldsAs(p, v, f) <=> v \in Present(p) /\ table[p][v] = f
  BY <1>1, FitCells DEF HoldsAs, Holds, Live, Present, Before
<1>6. \A f \in S : \E v \in Cells : HoldsAs(p, v, f)
  BY <1>5 DEF Present
<1>7. \A v \in Cells, f \in Frames : HoldsAs(p, v, f) => f \in S
  BY <1>5
<1> HIDE DEF S
<1>8. \A o \in Procs, v \in Cells, f \in Frames :
        HoldsAs(o, v, f)' <=> HoldsAs(o, v, f) /\ o # p
  BY <1>1, <1>3, <1>4 DEF FreesAll, HoldsAs, Holds, Live, Procs, Pids
<1>9. \A o \in Procs, v \in Cells, f \in Frames :
        HoldsAs(o, v, f) => (o # p <=> f \notin S)
  BY <1>6, <1>7 DEF FrameInv, FrameExclusive, HoldsAs
<1>10. CASE S = {}
  <2>1. used' = used
    BY <1>2, <1>10
  <2>2. \A o \in Procs, v \in Cells, f \in Frames :
          HoldsAs(o, v, f)' <=> HoldsAs(o, v, f)
    BY <1>8, <1>9, <1>10
  <2> QED
    BY <1>2, <2>1, <2>2, SameSuffices
<1>11. CASE S # {}
  <2>1. S \subseteq Frames /\ p \in Procs
    BY DEF S
  <2>2. \A o \in Procs, v \in Cells, f \in Frames :
          HoldsAs(o, v, f)' <=> HoldsAs(o, v, f) /\ f \notin S
    BY <1>8, <1>9
  <2>3. FrameInv' /\ Ledger!Next
    BY <1>2, <1>6, <1>11, <2>1, <2>2, StepGive
  <2> QED
    BY <1>2, <2>3 DEF After
<1> QED
  BY <1>10, <1>11

\* The rest: events, applications, the timer.
LEMMA FrameOthers ==
  Before /\ TypeOK' /\ (Events \/ App \/ Schedule) => After
<1> SUFFICES ASSUME Before, TypeOK', Events \/ App \/ Schedule PROVE After
  OBVIOUS
<1> USE Sizes DEF Kernel, Building, Reaping
<1> TypeOK /\ Control /\ FrameInv /\ LoadInv
  BY DEF Before
<1>1. ASSUME NEW p \in Pids, WakeYielded(p) PROVE After
  <2>1. LoadInv'
    BY <1>1 DEF WakeYielded, LoadInv
  <2>2. used' = used
    BY <1>1 DEF WakeYielded
  <2>3. \A o \in Procs, v \in Cells, f \in Frames :
          HoldsAs(o, v, f)' <=> HoldsAs(o, v, f)
    BY <1>1 DEF WakeYielded, HoldsAs, Holds, Live
  <2> QED
    BY <2>1, <2>2, <2>3, SameSuffices
<1>2. ASSUME NEW p \in Pids, NEW v \in Pages, NEW enter \in BOOLEAN,
             KeyToApp(p, v, enter)
      PROVE  After
  <2>1. /\ active[p] /\ Touches(p, v)
        /\ UNCHANGED <<active, kpc, idx, need, target>>
    BY <1>2 DEF KeyToApp
  <2> QED
    BY <2>1, FrameTouch
<1>3. ASSUME NEW p \in Pids, NEW v \in Pages,
             KeyToAppHangs(p, v) \/ DrawHangs(p, v)
      PROVE  After
  <2>1. kpc = "idle" /\ Hangs(p, v)
    BY <1>3 DEF KeyToAppHangs, DrawHangs, Drawing, LoadInv
  <2>2. LoadInv'
    BY <2>1 DEF Hangs, LoadInv
  <2>3. used' = used
    BY <2>1 DEF Hangs
  <2>4. \A o \in Procs, w \in Cells, f \in Frames :
          HoldsAs(o, w, f)' <=> HoldsAs(o, w, f)
    BY <2>1 DEF Hangs, HoldsAs, Holds, Live
  <2> QED
    BY <2>2, <2>3, <2>4, SameSuffices
<1>4. ASSUME NEW p \in Pids, NEW why \in {1, 2}, Sleep(p, why) PROVE After
  <2>1. LoadInv'
    BY <1>4 DEF Sleep, LoadInv
  <2>2. used' = used
    BY <1>4 DEF Sleep
  <2>3. \A o \in Procs, v \in Cells, f \in Frames :
          HoldsAs(o, v, f)' <=> HoldsAs(o, v, f)
    BY <1>4 DEF Sleep, HoldsAs, Holds, Live
  <2> QED
    BY <2>1, <2>2, <2>3, SameSuffices
<1>5. ASSUME NEW p \in Pids, NEW v \in Pages, DemandFault(p, v) PROVE After
  <2>1. current = p /\ active[p] /\ p # 0
    BY <1>5 DEF DemandFault, Running, Pids
  <2>2. mounted = p
    BY <2>1 DEF Before, HeapInv, ContextValid
  <2>3. PICK r \in Frames : /\ FirstFree(r) /\ used' = Marked(r)
                            /\ table' = [table EXCEPT ![p][v] = r]
    BY <1>5, <2>2 DEF DemandFault
  <2>4. table[p][v] = NotPresent /\ UNCHANGED <<active, kpc, idx, target, need>>
    BY <1>5 DEF DemandFault
  <2> QED
    BY <2>1, <2>3, <2>4, FrameDemand
<1>6. ASSUME NEW p \in Pids, Die(p) PROVE After
  BY <1>6, FrameDie DEF Die
<1>7. CASE Schedule
  <2>1. LoadInv'
    BY <1>7 DEF Schedule, LoadInv
  <2>2. used' = used
    BY <1>7 DEF Schedule
  <2>3. \A o \in Procs, v \in Cells, f \in Frames :
          HoldsAs(o, v, f)' <=> HoldsAs(o, v, f)
    BY <1>7 DEF Schedule, HoldsAs, Holds, Live
  <2> QED
    BY <2>1, <2>2, <2>3, SameSuffices
<1>8. ASSUME NEW p \in Pids, DrawFound(p) PROVE After
  BY <1>8 DEF DrawFound, Before, Masked
<1>9. ASSUME NEW p \in Pids, NEW v \in Pages, DrawImage(p, v) PROVE After
  <2>1. /\ active[p] /\ Touches(p, v) /\ kpc = "idle"
        /\ UNCHANGED <<active, kpc, idx, need>>
    BY <1>9 DEF DrawImage, Drawing, LoadInv
  <2> QED
    BY <2>1, FrameTouch
<1>10. ASSUME NEW p \in Pids, NEW q \in Pids, NEW v \in Pages,
              SyscallDraws(p, q, v)
       PROVE  After
  <2>1. /\ active[q] /\ MapsPage(q, v)
        /\ UNCHANGED <<active, kpc, idx, need, target>>
    BY <1>10 DEF SyscallDraws
  <2> QED
    BY <2>1, FrameTouch
<1>11. ASSUME NEW p \in Pids, NEW q \in Pids, NEW v \in Pages, DrawKills(p, q, v)
       PROVE  After
  BY <1>11, FrameDie DEF DrawKills
<1>12. CASE Events
  BY <1>1, <1>2, <1>3, <1>8, <1>9, <1>12 DEF Events
<1>13. CASE App
  BY <1>4, <1>5, <1>6, <1>10, <1>11, <1>13 DEF App
<1> QED
  BY <1>7, <1>12, <1>13

(***************************************************************************)
(* The theorems.                                                           *)
(***************************************************************************)
\* In every state and in every step.
FrameStep == TypeOK /\ Control /\ HeapInv /\ FrameInv /\ LoadInv

LEMMA FrameInit == Init => FrameInv /\ LoadInv /\ Ledger!Init
<1> SUFFICES ASSUME Init PROVE FrameInv /\ LoadInv /\ Ledger!Init
  OBVIOUS
<1>1. \A o \in Procs, v \in Cells : ~Holds(o, v)
  BY Sizes DEF Init, Holds, Live, EmptyTable
<1>2. FrameInv /\ LoadInv
  BY <1>1 DEF Init, FrameInv, FrameExclusive, LoadInv
<1>3. ownerMap = [f \in Frames |-> -1]
  BY DEF Init, ownerMap, OwnerOf
<1> QED
  BY <1>2, <1>3 DEF Ledger!Init, Ledger!Free

LEMMA FrameNext ==
  Masked /\ FilesFit /\ FrameStep /\ [Next]_vars =>
    FrameInv' /\ LoadInv' /\ [Ledger!Next]_ownerMap
<1> SUFFICES ASSUME Masked, FilesFit, FrameStep, [Next]_vars PROVE After
  BY DEF After
<1>1. Before /\ TypeOK'
  BY TypeNext DEF Before, FrameStep
<1>2. CASE UNCHANGED vars
  <2>1. LoadInv' /\ used' = used
    BY <1>1, <1>2 DEF LoadInv, Before
  <2>2. \A o \in Procs, v \in Cells, f \in Frames :
          HoldsAs(o, v, f)' <=> HoldsAs(o, v, f)
    BY <1>2 DEF HoldsAs, Holds, Live, Building, Reaping
  <2> QED
    BY <1>1, <2>1, <2>2, SameSuffices
<1>3. CASE Next
  BY <1>1, <1>3, FrameLaunch, FrameKill, FrameOthers DEF Next
<1> QED
  BY <1>2, <1>3

LEMMA FrameAlways == ASSUME Masked, FilesFit PROVE Spec => []FrameStep
<1>1. Init => FrameInv /\ LoadInv
  BY FrameInit
<1>2. FrameStep /\ [Next]_vars => FrameInv' /\ LoadInv'
  BY FrameNext
<1>3. Spec => [](TypeOK /\ Control /\ HeapInv)
  BY HeapAlways
<1> QED
  BY <1>1, <1>2, <1>3, PTL DEF Spec, FrameStep

\* With those two windows closed and files that fit, no interleaving of pid 0, the applications
\* and the timer gives a frame of the pool to two table entries.
THEOREM FramesAreExclusive == ASSUME Masked, FilesFit PROVE Spec => []FrameExclusive
<1>1. FrameStep => FrameExclusive
  BY DEF FrameStep, FrameInv
<1> QED
  BY <1>1, FrameAlways, PTL

\* Nor does it leak one, or mark as free one that is in use.
THEOREM FramesAreAccounted == ASSUME Masked, FilesFit PROVE Spec => []FramesAccounted
<1>1. FrameStep => FramesAccounted
  BY DEF FrameStep, FrameInv, FramesAccounted, HeldSomewhere, TypeOK, Holds
<1> QED
  BY <1>1, FrameAlways, PTL

\* And the kernel implements the ledger of frames.
THEOREM LedgerIsKept == ASSUME Masked, FilesFit PROVE Spec => KeepsLedger
<1>1. Init => Ledger!Init
  BY FrameInit
<1>2. FrameStep /\ [Next]_vars => [Ledger!Next]_ownerMap
  BY FrameNext
<1> QED
  BY <1>1, <1>2, FrameAlways, PTL DEF Spec, KeepsLedger, Ledger!Spec
=============================================================================
