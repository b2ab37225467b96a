------------------------------ MODULE ProcMem ------------------------------
(***************************************************************************)
(* Processes, their memory and the timer: process_table, the private page  *)
(* tables, the frame bitmap of the physical frame allocator (PFA), demand  *)
(* paging, the round-robin scheduler, and the three ways a process dies.   *)
(*                                                                         *)
(* pid 0 is kernel_main.  It runs with interrupts enabled, so the timer    *)
(* may take the CPU from it between any two of its steps: loading a        *)
(* program and killing a process are therefore sequences of actions.  The  *)
(* handlers that run for an application (syscalls, page faults) enter      *)
(* through interrupt gates, with interrupts masked: each is one action.    *)
(*                                                                         *)
(* Abstracted: kmalloc is one step that succeeds or returns NULL; what is  *)
(* in a frame, and the windows, are left out.                              *)
(***************************************************************************)
EXTENDS Integers, FiniteSets

CONSTANTS
  MaxProcesses,  \* MAX_PROCESSES: the slots of process_table, pid 0 included
  NFrames,       \* pfa_max_frames: the frames of the pool
  NPages,        \* the entries of a page table (1024 in the code)
  MaxNeed,       \* frames_needed of the largest file that may be launched
  PreemptAlloc,  \* TRUE: the timer may fire inside pid 0's pfa_alloc_frame
  PreemptTest    \* TRUE: it may fire between pid 0's test of "active" and
                 \* the use it makes of it; the code masks neither

ASSUME SizesAssumption == /\ MaxProcesses \in Nat /\ MaxProcesses > 1
                          /\ NFrames \in Nat
                          /\ NPages \in Nat /\ NPages > 0
                          /\ MaxNeed \in Nat /\ MaxNeed > 0
ASSUME PreemptAssumption == PreemptAlloc \in BOOLEAN /\ PreemptTest \in BOOLEAN

Procs  == 0 .. MaxProcesses - 1
Pids   == Procs \ {0}
Frames == 1 .. NFrames          \* the pool; frame n is at pfa_start_addr + ...
Pages  == 0 .. NPages - 1
\* The words from the first entry on that a load writes: nothing compares
\* frames_needed with the 1024 entries, so a file of 4 MB or more reaches what
\* lies behind the table.  (Those words are some other block of the heap; that
\* they keep what is written there is the mildest thing that can happen.)
NCells == IF MaxNeed > NPages THEN MaxNeed ELSE NPages
Cells  == 0 .. NCells - 1
\* Every file that is launched fits in a page table: no file has 4 MB or more.
FilesFit == MaxNeed <= NPages
NotPresent  == -1               \* an entry whose Present bit is clear
LowPage     == 0                \* physical address 0: what a failed
                                \* pfa_alloc_frame returns, and RAM as well
Entries     == Frames \cup {LowPage, NotPresent}
EmptyTable  == [v \in Cells |-> NotPresent]

VARIABLES
  active,   \* process_table[p].active
  waiting,  \* process_table[p].waiting_for_input: 0, 1 (line) or 2 (event)
  stack,    \* stack_base: "none" (free or freed), "live", or "null"
  hasTable, \* is page_table[p] an allocated block?  [0]: pid 0's app_pt
  table,    \* what the page table holds (still readable once freed)
  used,     \* the frames whose bit is set in pfa_bitmap
  current,  \* current_pid
  mounted,  \* whose table page_directory[256] points at; 0 for none
  kpc,      \* where pid 0 is
  idx,      \* its loop counter over the entries of a table
  need,     \* frames_needed of the program being loaded
  temp,     \* is the temporary read buffer allocated?
  cand,     \* the frame pfa_alloc_frame has found free and not yet marked
  target,   \* the pid being created, killed or drawn
  closing   \* the processes the close button has still to look at

appVars  == <<active, waiting, stack>>
memVars  == <<hasTable, table, used>>
cpuVars  == <<current, mounted>>
loadVars == <<need, temp, cand>>
killVars == <<target, closing>>
vars == <<appVars, memVars, cpuVars, kpc, idx, loadVars, killVars>>

Init ==
  /\ active = [p \in Pids |-> FALSE]
  /\ waiting = [p \in Pids |-> 0]
  /\ stack = [p \in Pids |-> "none"]
  /\ hasTable = [o \in Procs |-> FALSE]
  /\ table = [o \in Procs |-> EmptyTable]
  /\ used = {}
  /\ current = 0 /\ mounted = 0
  /\ kpc = "idle" /\ idx = 0
  /\ need = 0 /\ temp = FALSE /\ cand = LowPage
  /\ target = 0 /\ closing = {}

(***************************************************************************)
(* The physical frame allocator.                                           *)
(***************************************************************************)
FreeFrames == Frames \ used

\* pfa_alloc_frame scans the bitmap from its first bit; r is what it returns.
FirstFree(r) ==
  IF FreeFrames = {} THEN r = LowPage
  ELSE r \in FreeFrames /\ \A g \in FreeFrames : r <= g

Marked(r) == IF r = LowPage THEN used ELSE used \cup {r}

\* pfa_free_frame ignores an address that is not of the pool, such as 0.
Released(S) == used \ S

Present(o) == {v \in Pages : table[o][v] # NotPresent}

\* The page fault handler maps a frame on page v of the table that is mounted.
MapsPage(o, v) ==
  /\ table[o][v] = NotPresent
  /\ \E r \in Frames : /\ FirstFree(r)
                       /\ used' = Marked(r)
                       /\ table' = [table EXCEPT ![o][v] = r]

\* Page v of o is read or written: it is there, or a fault maps it.
Touches(o, v) ==
  \/ table[o][v] # NotPresent /\ UNCHANGED <<table, used>>
  \/ MapsPage(o, v)

(***************************************************************************)
(* pid 0: loading a program (start menu, "info" button and "run" share the *)
(* same steps).                                                            *)
(***************************************************************************)
Kernel(at) == current = 0 /\ kpc = at

\* app_pt = kmalloc(4096), and its entries cleared; a failure is reported.
LaunchTable ==
  /\ Kernel("idle")
  /\ hasTable' = [hasTable EXCEPT ![0] = TRUE]
  /\ table' = [table EXCEPT ![0] = EmptyTable]
  /\ kpc' = "read"
  /\ UNCHANGED <<appVars, used, cpuVars, idx, loadVars, killVars>>

\* The file is read into a temporary buffer (what does not fit in it is not
\* read), and frames_needed computed from the size in the inode.
LaunchRead ==
  /\ Kernel("read")
  /\ need' \in 1 .. MaxNeed
  /\ temp' = TRUE
  /\ kpc' = "load"
  /\ UNCHANGED <<appVars, memVars, cpuVars, idx, cand, killVars>>

\* No buffer, or no such file: the buffer (if any) and app_pt are freed.
LaunchReadFailsLeaks ==   \* mutant: app_pt is not freed
  /\ Kernel("read")
  /\ kpc' = "idle"
  /\ UNCHANGED <<appVars, memVars, cpuVars, idx, loadVars, killVars>>

LaunchReadFails ==
  /\ Kernel("read")
  /\ hasTable' = [hasTable EXCEPT ![0] = FALSE]
  /\ kpc' = "idle"
  /\ UNCHANGED <<appVars, table, used, cpuVars, idx, loadVars, killVars>>

\* app_pt[f] = pfa_alloc_frame() | 7, whatever the allocator returned.
MapNext(r) ==
  /\ used' = Marked(r)
  /\ table' = [table EXCEPT ![0][idx] = r]
  /\ idx' = idx + 1
  /\ kpc' = "load"
  /\ UNCHANGED <<appVars, hasTable, cpuVars, need, temp, killVars>>

LaunchFrame ==
  /\ Kernel("load") /\ idx < need /\ ~PreemptAlloc
  /\ \E r \in Frames \cup {LowPage} : FirstFree(r) /\ MapNext(r)
  /\ UNCHANGED cand

\* The same call, when the timer can fire after the bit was tested.
LaunchFrameFound ==
  /\ Kernel("load") /\ idx < need /\ PreemptAlloc
  /\ cand' \in Frames \cup {LowPage} /\ FirstFree(cand')
  /\ kpc' = "mark"
  /\ UNCHANGED <<appVars, memVars, cpuVars, idx, need, temp, killVars>>

LaunchFrameMark ==
  /\ Kernel("mark")
  /\ MapNext(cand)
  /\ cand' = LowPage

\* kfree(temp_buffer); the header is good, and a pid is free.
FreePid(p) == p \in Pids /\ ~active[p] /\ \A q \in Pids : q < p => active[q]

LaunchAccept ==
  /\ Kernel("load") /\ idx = need
  /\ temp' = FALSE
  /\ target' \in Pids /\ FreePid(target')
  /\ kpc' = "create"
  /\ UNCHANGED <<appVars, memVars, cpuVars, idx, need, cand, closing>>

\* A corrupt or Ring 0 header, or no free pid: the frames are given back, those
\* of the words behind the table too.
LaunchRejectFromOne ==   \* mutant: the loop that frees starts at entry 1
  /\ Kernel("load") /\ idx = need
  /\ temp' = FALSE
  /\ idx' = 1
  /\ kpc' = "undo"
  /\ UNCHANGED <<appVars, memVars, cpuVars, need, cand, killVars>>

LaunchReject ==
  /\ Kernel("load") /\ idx = need
  /\ temp' = FALSE
  /\ idx' = 0
  /\ kpc' = "undo"
  /\ UNCHANGED <<appVars, memVars, cpuVars, need, cand, killVars>>

LaunchUndoFrame ==
  /\ Kernel("undo") /\ idx < need
  /\ used' = Released({table[0][idx]})
  /\ idx' = idx + 1
  /\ UNCHANGED <<appVars, hasTable, table, cpuVars, kpc, loadVars, killVars>>

LaunchUndone ==
  /\ Kernel("undo") /\ idx = need
  /\ hasTable' = [hasTable EXCEPT ![0] = FALSE]
  /\ idx' = 0 /\ need' = 0
  /\ kpc' = "idle"
  /\ UNCHANGED <<appVars, table, used, cpuVars, temp, cand, killVars>>

\* create_process: a kernel stack whose allocation is not checked, the table
\* handed over, and active set BEFORE waiting_for_input is reset.
CreateProcess ==
  /\ Kernel("create")
  /\ \E s \in {"live", "null"} : stack' = [stack EXCEPT ![target] = s]
  /\ hasTable' = [hasTable EXCEPT ![target] = TRUE, ![0] = FALSE]
  /\ table' = [table EXCEPT ![target] = table[0]]
  /\ active' = [active EXCEPT ![target] = TRUE]
  /\ idx' = 0 /\ need' = 0
  /\ kpc' = "ready"
  /\ UNCHANGED <<waiting, used, cpuVars, temp, cand, killVars>>

CreateReadyAsIs ==   \* mutant: waiting_for_input keeps its old value
  /\ Kernel("ready")
  /\ target' = 0
  /\ kpc' = "idle"
  /\ UNCHANGED <<appVars, memVars, cpuVars, idx, loadVars, closing>>

CreateReady ==
  /\ Kernel("ready")
  /\ waiting' = [waiting EXCEPT ![target] = 0]
  /\ target' = 0
  /\ kpc' = "idle"
  /\ UNCHANGED <<active, stack, memVars, cpuVars, idx, loadVars, closing>>

(***************************************************************************)
(* pid 0: killing processes, by the "kill" command or by closing a window. *)
(***************************************************************************)
\* The command names one pid; the button finds those linked to its window,
\* taken here to be any set.  Each is tested when its turn comes.
KillRequest ==
  /\ Kernel("idle")
  /\ closing' \in SUBSET Pids \ {{}}
  /\ kpc' = "scan"
  /\ UNCHANGED <<appVars, memVars, cpuVars, idx, loadVars, target>>

NextToClose(p) == p \in closing /\ \A q \in closing : p <= q

\* active = 0, the first write of the killing loop.
DoomStillActive(p) ==   \* mutant: the process can still be scheduled
  /\ kpc' = "stack"
  /\ UNCHANGED <<appVars, memVars, cpuVars, idx, loadVars, closing>>

Doom(p) ==
  /\ active' = [active EXCEPT ![p] = FALSE]
  /\ kpc' = "stack"
  /\ UNCHANGED <<waiting, stack, memVars, cpuVars, idx, loadVars, closing>>

KillSkip ==
  /\ Kernel("scan")
  /\ \E p \in closing : /\ NextToClose(p) /\ ~active[p]
                        /\ closing' = closing \ {p}
  /\ UNCHANGED <<appVars, memVars, cpuVars, kpc, idx, loadVars, target>>

KillTested ==
  /\ Kernel("scan") /\ PreemptTest
  /\ \E p \in closing : NextToClose(p) /\ active[p] /\ target' = p
  /\ kpc' = "doom"
  /\ UNCHANGED <<appVars, memVars, cpuVars, idx, loadVars, closing>>

KillDoom == Kernel("doom") /\ Doom(target) /\ UNCHANGED target

DoomUntested ==   \* mutant: the test of active is missing
  /\ Kernel("scan") /\ ~PreemptTest
  /\ \E p \in closing : NextToClose(p) /\ target' = p /\ Doom(p)

KillTestAndDoom ==
  /\ Kernel("scan") /\ ~PreemptTest
  /\ \E p \in closing : NextToClose(p) /\ active[p] /\ target' = p /\ Doom(p)

KillStack ==
  /\ Kernel("stack")
  /\ stack' = [stack EXCEPT ![target] = "none"]
  /\ kpc' = "frames"
  /\ UNCHANGED <<active, waiting, memVars, cpuVars, idx, loadVars, killVars>>

KillFrame ==
  /\ Kernel("frames") /\ idx < NPages
  /\ used' = Released({table[target][idx]})
  /\ idx' = idx + 1
  /\ UNCHANGED <<appVars, hasTable, table, cpuVars, kpc, loadVars, killVars>>

KillTable ==
  /\ Kernel("frames") /\ idx = NPages
  /\ hasTable' = [hasTable EXCEPT ![target] = FALSE]
  /\ closing' = closing \ {target}
  /\ target' = 0 /\ idx' = 0
  /\ kpc' = "scan"
  /\ UNCHANGED <<appVars, table, used, cpuVars, loadVars>>

KillDone ==
  /\ Kernel("scan") /\ closing = {}
  /\ kpc' = "idle"
  /\ UNCHANGED <<appVars, memVars, cpuVars, idx, loadVars, killVars>>

(***************************************************************************)
(* pid 0: events.                                                          *)
(***************************************************************************)
\* A mouse packet or a key wakes a process asleep in yield.
WakeYielded(p) ==
  /\ Kernel("idle")
  /\ active[p] /\ waiting[p] = 2
  /\ waiting' = [waiting EXCEPT ![p] = 0]
  /\ UNCHANGED <<active, stack, memVars, cpuVars, kpc, idx, loadVars, killVars>>

\* With no frame left the handler ends current_pid: it is 0, nobody is ended,
\* and pid 0 halts with o's table mounted.
Hangs(o, v) ==
  /\ table[o][v] = NotPresent /\ FreeFrames = {}
  /\ mounted' = o
  /\ kpc' = "hung"
  /\ UNCHANGED <<appVars, memVars, current, idx, loadVars, killVars>>

\* A key for a process that waits.  With interrupts off its table is mounted,
\* its buffer (on page v) written, the table unmounted; Enter ends the wait.
KeyToApp(p, v, enter) ==
  /\ Kernel("idle")
  /\ active[p] /\ waiting[p] # 0
  /\ Touches(p, v)
  /\ waiting' = [waiting EXCEPT ![p] = IF enter THEN 0 ELSE @]
  /\ UNCHANGED <<active, stack, hasTable, cpuVars, kpc, idx, loadVars, killVars>>

KeyToAppHangs(p, v) ==
  Kernel("idle") /\ active[p] /\ waiting[p] # 0 /\ Hangs(p, v)

\* render_desktop draws an image of p: p is found to be active, THEN interrupts
\* are switched off, p's table is mounted, the pixels (a page of them in each
\* step) are read, and the table of current_pid is mounted again.
DrawFound(p) ==
  /\ Kernel("idle") /\ PreemptTest
  /\ active[p]
  /\ target' = p
  /\ kpc' = "draw"
  /\ UNCHANGED <<appVars, memVars, cpuVars, idx, loadVars, closing>>

Drawing(p) == \/ Kernel("draw") /\ p = target
              \/ Kernel("idle") /\ active[p] /\ ~PreemptTest

DrawImage(p, v) ==
  /\ Drawing(p)
  /\ Touches(p, v)
  /\ target' = 0
  /\ kpc' = "idle"
  /\ UNCHANGED <<appVars, hasTable, cpuVars, idx, loadVars, closing>>

DrawHangs(p, v) == Drawing(p) /\ Hangs(p, v)

(***************************************************************************)
(* A process that has the CPU and is not spinning in a wait.               *)
(***************************************************************************)
Running(p) == current = p /\ active[p] /\ waiting[p] = 0

\* syscall 3 (read a line) and syscall 6 (yield).
Sleep(p, why) ==
  /\ Running(p)
  /\ waiting' = [waiting EXCEPT ![p] = why]
  /\ UNCHANGED <<active, stack, memVars, cpuVars, kpc, idx, loadVars, killVars>>

\* Demand paging: the fault handler looks at page_directory[256], not at
\* current_pid, to find the table it must complete.
DemandFault(p, v) ==
  /\ Running(p) /\ mounted # 0
  /\ table[p][v] = NotPresent
  /\ \E r \in Frames : /\ FirstFree(r)
                       /\ used' = Marked(r)
                       /\ table' = [table EXCEPT ![mounted][v] = r]
  /\ UNCHANGED <<appVars, hasTable, cpuVars, kpc, idx, loadVars, killVars>>

\* Syscalls 2, 4 and an unknown one redraw: the image of any process q, whose
\* pages may fault.
SyscallDraws(p, q, v) ==
  /\ Running(p) /\ active[q]
  /\ MapsPage(q, v)
  /\ UNCHANGED <<appVars, hasTable, cpuVars, kpc, idx, loadVars, killVars>>

\* kill_process and terminate_faulting_app: with interrupts off, the process
\* frees all that its table names; then it halts until the timer takes the CPU.
FreesAll(p) ==
  /\ active' = [active EXCEPT ![p] = FALSE]
  /\ stack' = [stack EXCEPT ![p] = "none"]
  /\ used' = Released({table[p][v] : v \in Present(p)})
  /\ hasTable' = [hasTable EXCEPT ![p] = FALSE]
  /\ UNCHANGED <<waiting, table, current, kpc, idx, loadVars, killVars>>

Die(p) == Running(p) /\ FreesAll(p) /\ UNCHANGED mounted

\* The image that faults with no frame left ends the process that draws it, not
\* its owner q, whose table stays mounted.
DrawKills(p, q, v) ==
  /\ Running(p) /\ active[q]
  /\ table[q][v] = NotPresent /\ FreeFrames = {}
  /\ FreesAll(p)
  /\ mounted' = q

(***************************************************************************)
(* The timer interrupt: schedule().                                        *)
(***************************************************************************)
Runnable == {0} \cup {p \in Pids : active[p] /\ waiting[p] = 0}

\* How many times the round-robin loop increments current_pid to reach q.
Turns(q) == IF q > current THEN q - current ELSE q + MaxProcesses - current

ScheduleLazyMount ==   \* mutant: a table that is mounted stays mounted
  /\ \E q \in Runnable :
       /\ \A r \in Runnable : Turns(q) <= Turns(r)
       /\ current' = q
       /\ mounted' = IF q # 0 /\ mounted # 0 THEN mounted ELSE q
  /\ UNCHANGED <<appVars, memVars, kpc, idx, loadVars, killVars>>

Schedule ==
  /\ \E q \in Runnable :
       /\ \A r \in Runnable : Turns(q) <= Turns(r)
       /\ current' = q /\ mounted' = q
  /\ UNCHANGED <<appVars, memVars, kpc, idx, loadVars, killVars>>

Launch == \/ LaunchTable \/ LaunchRead \/ LaunchReadFails
          \/ LaunchFrame \/ LaunchFrameFound \/ LaunchFrameMark
          \/ LaunchAccept \/ LaunchReject \/ LaunchUndoFrame \/ LaunchUndone
          \/ CreateProcess \/ CreateReady

Kill == \/ KillRequest \/ KillSkip \/ KillTested \/ KillDoom \/ KillTestAndDoom
        \/ KillStack \/ KillFrame \/ KillTable \/ KillDone

Events == \E p \in Pids :
            \/ WakeYielded(p)
            \/ DrawFound(p)
            \/ \E v \in Pages : \/ \E enter \in BOOLEAN : KeyToApp(p, v, enter)
                                \/ KeyToAppHangs(p, v)
                                \/ DrawImage(p, v)
                                \/ DrawHangs(p, v)

App == \E p \in Pids :
         \/ \E why \in {1, 2} : Sleep(p, why)
         \/ \E v \in Pages : \/ DemandFault(p, v)
                             \/ \E q \in Pids : \/ SyscallDraws(p, q, v)
                                               \/ DrawKills(p, q, v)
         \/ Die(p)

Next == Launch \/ Kill \/ Events \/ App \/ Schedule

Spec == Init /\ [][Next]_vars

\* The timer is hardware: it keeps firing.
FairSpec == Spec /\ WF_vars(Schedule)

\* pid 0 executes instructions whenever it has the CPU: what it has begun (all
\* but the two requests that come from the user) goes on.
KernelWork == (Launch \/ Kill) /\ kpc # "idle"
FairKernelSpec == FairSpec /\ SF_vars(KernelWork)

(***************************************************************************)
(* Properties                                                              *)
(***************************************************************************)
KernelPoints == {"idle", "read", "load", "mark", "undo", "create", "ready",
                 "scan", "doom", "stack", "frames", "draw", "hung"}
Building == {"read", "load", "mark", "undo", "create"}  \* pid 0 has an app_pt
Reaping  == {"stack", "frames"}

\* Every variable has its type.
TypeOK ==
  /\ active \in [Pids -> BOOLEAN]
  /\ waiting \in [Pids -> {0, 1, 2}]
  /\ stack \in [Pids -> {"none", "live", "null"}]
  /\ hasTable \in [Procs -> BOOLEAN]
  /\ table \in [Procs -> [Cells -> Entries]]
  /\ used \subseteq Frames
  /\ current \in Procs /\ mounted \in Procs
  /\ kpc \in KernelPoints
  /\ idx \in 0 .. NCells /\ need \in 0 .. NCells
  /\ temp \in BOOLEAN
  /\ cand \in Frames \cup {LowPage}
  /\ target \in Procs /\ closing \subseteq Pids

\* Entry v of o's table is in use: o is a living process, or one that pid 0 is
\* killing and whose entry it has not freed yet, or (o = 0) a program pid 0 is
\* loading or giving up.
Live(o, v) ==
  /\ table[o][v] # NotPresent
  /\ \/ o = 0 /\ kpc \in Building /\ (kpc = "undo" => idx <= v)
     \/ o # 0 /\ active[o]
     \/ o # 0 /\ kpc \in Reaping /\ o = target /\ idx <= v

Holds(o, v) == Live(o, v) /\ table[o][v] \in Frames

\* A frame of the pool is in one place only: two entries in use never name the
\* same frame, whatever the timer interrupts.
FrameExclusive ==
  \A o1, o2 \in Procs : \A v1, v2 \in Cells :
    Holds(o1, v1) /\ Holds(o2, v2) /\ table[o1][v1] = table[o2][v2]
      => o1 = o2 /\ v1 = v2

\* The bitmap and the page tables agree: a set bit is the frame of exactly the
\* entries in use (none leaked by a failed load or a death, none in use while
\* free for the next pfa_alloc_frame).  It needs FilesFit: a process that dies
\* looks for its frames in the 1024 entries of its table only.
HeldSomewhere(f) ==
  \E o \in Procs : \E v \in Cells : Holds(o, v) /\ table[o][v] = f

FramesAccounted == used = {f \in Frames : HeldSomewhere(f)}

\* The owner of every frame, as the ledger sees it.
OwnerOf(f) ==
  IF f \in used
  THEN CHOOSE o \in Procs : \E v \in Cells : Holds(o, v) /\ table[o][v] = f
  ELSE -1

ownerMap == [f \in Frames |-> OwnerOf(f)]

Ledger == INSTANCE FrameLedger WITH owner <- ownerMap

\* Loading, paging, exiting and killing keep the ledger of frames: a frame is
\* taken when free, given back by its owner, and handed from pid 0 to the new
\* process, which has no frame of a previous life.  (With FilesFit.)
KeepsLedger == Ledger!Spec

\* The kernel heap: a process that is dead and that nobody is killing any more
\* has given its table and its kernel stack back, and so has pid 0 its app_pt
\* and its read buffer between two loads.
HeapReclaimed ==
  /\ \A p \in Pids : ~active[p] /\ ~(kpc \in Reaping /\ target = p)
                      => ~hasTable[p] /\ stack[p] = "none"
  /\ hasTable[0] <=> kpc \in Building
  /\ temp => kpc \in {"load", "mark"}

\* What pid 0 frees while it kills a process is allocated: nothing is freed
\* twice, no freed page table is walked.
FreedOnce ==
  /\ kpc = "stack" => stack[target] # "none"
  /\ kpc \in Reaping => hasTable[target]

\* The CPU never runs on a freed context: the table that is mounted is that of
\* current_pid (none for pid 0, unless it halted in a page fault; whichever, once
\* current_pid has ended itself), and whoever the scheduler may choose has an
\* allocated page table and a stack pointer that was not freed since its
\* create_process.  That pointer may be the NULL of a refused kmalloc, which
\* create_process does not check: StackIsPrivate is about that.
ContextValid ==
  /\ \/ mounted = current
     \/ kpc = "hung" /\ current = 0
     \/ current # 0 /\ ~active[current]
  /\ \A p \in Pids : active[p] => hasTable[p] /\ stack[p] # "none"

\* Every process has a kernel stack of its own: no two of them save their
\* registers in the same place.
StackIsPrivate ==
  \A p, q \in Pids : active[p] /\ active[q] /\ p # q
                     => "live" \in {stack[p], stack[q]}

\* No two programs can write in the same memory: neither in a frame of the pool
\* nor in physical page 0, which is mapped when the pool is exhausted.
MemoryIsolated ==
  \A p, q \in Pids : \A v, w \in Pages :
    /\ active[p] /\ active[q] /\ p # q
    /\ table[p][v] # NotPresent
    => table[p][v] # table[q][w]

\* A page table changes while its process lives, and then by one page more:
\* nobody maps a page in a freed table, moves a page or takes one away.
GrowsAlive ==
  \A p \in Pids : table'[p] # table[p] =>
    /\ active'[p]
    /\ active[p] => \A v \in Cells : table[p][v] \in {NotPresent, table'[p][v]}

TablesOnlyGrow == [][GrowsAlive]_vars

\* The scheduler starves nobody: who can run gets the CPU (or stops wanting it).
EveryoneRuns ==
  \A q \in Procs : (q \in Runnable) ~> (current = q \/ q \notin Runnable)

\* A process that was created gets the CPU (or is killed): it does not sleep for
\* what the previous owner of its pid was waiting for.
CreatedRuns ==
  \A p \in Pids : (kpc = "ready" /\ target = p) ~> (current = p \/ ~active[p])

\* The round robin of schedule() and the slots create_process reuses together
\* leave nobody without the CPU.
NobodyStarves == EveryoneRuns /\ CreatedRuns
=============================================================================
