--------------------------- MODULE VfsLockProofs ---------------------------
(***************************************************************************)
(* What vfs_lock guarantees for any number of processes, blocks, chunks    *)
(* and copies.                                                             *)
(***************************************************************************)
EXTENDS VfsLock, TLAPS

USE DEF Procs, Pids, Blocks, Locked, DiskPoints

(***************************************************************************)
(* Types.                                                                  *)
(***************************************************************************)
LEMMA InitTyped == Init => TypeOK
<1> SUFFICES ASSUME Init PROVE TypeOK
  OBVIOUS
<1>1. given \in [Blocks -> Nat]
  BY DEF Init
<1>2. at = 0 /\ 0 <= MaxProcesses /\ copies = 0 /\ 0 <= MaxCopies /\ kpc = "idle"
  BY VfsAssumption DEF Init
<1>3. at \in Nat /\ (IF kpc = "chunk" THEN at <= NChunks ELSE at <= MaxProcesses)
  BY <1>2
<1>4. copies \in 0 .. MaxCopies /\ current \in Procs /\ ata \in Procs
  BY VfsAssumption, <1>2 DEF Init
<1>5. /\ alive \in [Pids -> BOOLEAN] /\ shield \in [Pids -> BOOLEAN]
      /\ lock \in BOOLEAN /\ xfer \in BOOLEAN
      /\ bitmap \subseteq Blocks /\ cached \subseteq Blocks /\ group \subseteq Pids
  BY DEF Init
<1> QED
  BY <1>1, <1>2, <1>3, <1>4, <1>5 DEF TypeOK

\* What a new block does to the inodes' pointers and to a bitmap.
LEMMA GainTyped ==
  ASSUME TypeOK, NEW b \in Blocks, Gains(b)
  PROVE  given' \in [Blocks -> Nat]
<1>1. given \in [Blocks -> Nat] /\ given[b] + 1 \in Nat
  BY DEF TypeOK
<1> QED
  BY <1>1 DEF Gains

LEMMA TakeTyped ==
  ASSUME TypeOK, NEW S, S \subseteq Blocks,
         \E b \in Blocks : FirstClear(b, S) /\ bitmap' = S \cup {b} /\ Gains(b)
  PROVE  bitmap' \subseteq Blocks /\ given' \in [Blocks -> Nat]
<1> PICK b \in Blocks : bitmap' = S \cup {b} /\ Gains(b)
  OBVIOUS
<1>1. given' \in [Blocks -> Nat]
  BY GainTyped
<1> QED
  BY <1>1

LEMMA NextTyped == TypeOK /\ [Next]_vars => TypeOK'
<1> SUFFICES ASSUME TypeOK, [Next]_vars PROVE TypeOK'
  OBVIOUS
<1> USE VfsAssumption DEF TypeOK, procVars, fsVars
<1>1. CASE SendCommand
  BY <1>1 DEF SendCommand
<1>2. CASE Copy
  <2>1. CASE CopyBegins
    BY <2>1 DEF CopyBegins, Kernel
  <2>2. CASE CopySized
    BY <2>2 DEF CopySized, MoveData, Kernel
  <2>3. CASE CopyTakesLock
    BY <2>3 DEF CopyTakesLock, Kernel
  <2>4. CASE CopyReadsBitmap
    BY <2>4 DEF CopyReadsBitmap, MoveData, Kernel
  <2>5. CASE CopyAllocates
    <3>1. bitmap' \subseteq Blocks /\ given' \in [Blocks -> Nat]
      BY <2>5, TakeTyped DEF CopyAllocates
    <3>2. kpc' = "chunk" /\ xfer' = FALSE /\ cached' = {}
      BY <2>5 DEF CopyAllocates, MoveData
    <3>4. at' \in Nat /\ at' <= NChunks
      BY <2>5 DEF CopyAllocates
    <3>3. UNCHANGED <<lock, procVars, current, ata, group, copies>>
      BY <2>5 DEF CopyAllocates
    <3> QED
      BY <3>1, <3>2, <3>3, <3>4
  <2>6. CASE CopyGivesUp
    <3>1. kpc' = "idle" /\ xfer' \in BOOLEAN /\ cached' = {} /\ lock' = FALSE
      BY <2>6 DEF CopyGivesUp, MoveData
    <3>2. at' \in Nat /\ at' <= MaxProcesses
      BY <2>6 DEF CopyGivesUp, MoveData, Kernel
    <3>3. UNCHANGED <<procVars, current, ata, bitmap, given, group, copies>>
      BY <2>6 DEF CopyGivesUp
    <3> QED
      BY <3>1, <3>2, <3>3
  <2>7. CASE CopyMovesChunk
    <3>1. kpc' = "chunk" /\ kpc = "chunk" /\ xfer' = FALSE
      BY <2>7 DEF CopyMovesChunk, MoveData, Kernel
    <3>2. at' \in Nat /\ at' <= NChunks
      BY <2>7, <3>1 DEF CopyMovesChunk, MoreChunks
    <3>3. UNCHANGED <<lock, procVars, current, ata, fsVars, group, copies>>
      BY <2>7 DEF CopyMovesChunk
    <3> QED
      BY <3>1, <3>2, <3>3
  <2>8. CASE CopyEnds
    <3>1. kpc' = "idle" /\ at' \in Nat /\ at' <= MaxProcesses /\ lock' = FALSE
      BY <2>8 DEF CopyEnds
    <3>2. UNCHANGED <<procVars, current, xfer, ata, fsVars, group, copies>>
      BY <2>8 DEF CopyEnds
    <3> QED
      BY <3>1, <3>2
  <2> QED
    BY <1>2, <2>1, <2>2, <2>3, <2>4, <2>5, <2>6, <2>7, <2>8 DEF Copy
<1>3. CASE Command
  <2>1. CASE CommandBegins
    BY <2>1 DEF CommandBegins, Kernel
  <2>2. CASE CommandReads
    BY <2>2 DEF CommandReads, MoveData, Kernel
  <2>3. CASE CommandWrites
    <3>1. bitmap' \subseteq Blocks /\ given' \in [Blocks -> Nat]
      <4>1. CASE \E b \in Blocks : FirstClear(b, cached) /\ bitmap' = cached \cup {b} /\ Gains(b)
        BY <4>1, TakeTyped
      <4>2. CASE \E b \in cached : /\ given[b] > 0
                                   /\ bitmap' = cached \ {b}
                                   /\ given' = [given EXCEPT ![b] = @ - 1]
        <5> PICK b \in cached : /\ given[b] > 0
                                /\ bitmap' = cached \ {b}
                                /\ given' = [given EXCEPT ![b] = @ - 1]
          BY <4>2
        <5>1. given \in [Blocks -> Nat] /\ given[b] - 1 \in Nat
          OBVIOUS
        <5> QED
          BY <5>1
      <4>3. CASE UNCHANGED <<bitmap, given>>
        BY <4>3
      <4> QED
        BY <2>3, <4>1, <4>2, <4>3 DEF CommandWrites
    <3>2. kpc' = "idle" /\ xfer' = FALSE /\ cached' = {}
      BY <2>3 DEF CommandWrites, MoveData
    <3>3. kpc = "cmdMark" /\ UNCHANGED <<lock, procVars, current, ata, at, group, copies>>
      BY <2>3 DEF CommandWrites, MoveData, Kernel
    <3> QED
      BY <3>1, <3>2, <3>3
  <2> QED
    BY <1>3, <2>1, <2>2, <2>3 DEF Command
<1>4. CASE Close
  <2>1. UNCHANGED <<lock, shield, current, xfer, ata, fsVars, copies>>
    BY <1>4 DEF Close, CloseBegins, CloseLooks, CloseRefused, CloseGranted,
                CloseKills, CloseEnds
  <2>2. kpc' \in {"idle", "look", "close"} /\ group' \subseteq Pids
    BY <1>4 DEF Close, CloseBegins, CloseLooks, CloseRefused, CloseGranted,
                CloseKills, CloseEnds, Kernel
  <2>3. at' \in Nat /\ at' <= MaxProcesses
    BY <1>4 DEF Close, CloseBegins, CloseLooks, CloseRefused, CloseGranted,
                CloseKills, CloseEnds, Kernel
  <2>4. alive' \in [Pids -> BOOLEAN]
    BY <1>4, Zenon DEF Close, CloseBegins, CloseLooks, CloseRefused, CloseGranted,
                CloseKills, CloseEnds, Mine
  <2> QED
    BY <2>1, <2>2, <2>3, <2>4
<1>5. CASE App
  <2> SUFFICES ASSUME NEW p \in Pids,
                      \/ CallWaits(p) \/ CallUsesDisk(p) \/ CallDies(p)
                      \/ PlayAudio(p) \/ Exit(p)
               PROVE  TypeOK'
    BY <1>5 DEF App
  <2>1. CASE CallWaits(p)
    BY <2>1 DEF CallWaits, Running
  <2>2. CASE CallUsesDisk(p)
    <3>1. bitmap' \subseteq Blocks /\ given' \in [Blocks -> Nat]
      BY <2>2, TakeTyped DEF CallUsesDisk, UseDisk
    <3>2. /\ ata' \in Procs /\ lock' = FALSE
          /\ shield' \in [Pids -> BOOLEAN]
          /\ UNCHANGED <<alive, current, kpc, xfer, cached, at, group, copies>>
      BY <2>2 DEF CallUsesDisk, UseDisk
    <3> QED
      BY <3>1, <3>2
  <2>3. CASE CallDies(p)
    BY <2>3 DEF CallDies, Running, FirstClear
  <2>4. CASE PlayAudio(p)
    BY <2>4 DEF PlayAudio, Running
  <2>5. CASE Exit(p)
    BY <2>5 DEF Exit, Running
  <2> QED
    BY <2>1, <2>2, <2>3, <2>4, <2>5
<1>6. CASE StartOrKill
  BY <1>6 DEF StartOrKill, Start, KillCommand, Kernel
<1>7. CASE Schedule
  BY <1>7 DEF Schedule, Runnable
<1>8. CASE UNCHANGED vars
  BY <1>8 DEF vars
<1> QED
  BY <1>1, <1>2, <1>3, <1>4, <1>5, <1>6, <1>7, <1>8 DEF Next

\* Every variable of the disk model keeps its type, in every build.
THEOREM VfsTypeCorrect == Spec => []TypeOK
  BY InitTyped, NextTyped, PTL DEF Spec

(***************************************************************************)
(* The lock belongs to one: a copy in progress keeps it, and the bitmap it *)
(* has read, whatever the applications do.                                 *)
(***************************************************************************)
CopyInv == CopyKeepsLock /\ CopyBitmapFresh

AppStep(p) == CallWaits(p) \/ CallUsesDisk(p) \/ CallDies(p) \/ PlayAudio(p) \/ Exit(p)

\* Everything else leaves where pid 0 is in its copy, the lock and the blocks.
LEMMA AppLeavesKernel ==
  ASSUME NEW p \in Pids, AppStep(p)
  PROVE  /\ current = p /\ UNCHANGED <<current, kpc, xfer, cached, at, group, copies>>
         /\ UNCHANGED lock \/ ~lock
         /\ lock => UNCHANGED <<bitmap, given>>
  BY DEF AppStep, CallWaits, CallUsesDisk, UseDisk, CallDies, PlayAudio, Exit,
         Running, procVars, fsVars

LEMMA CopyInvNext == TypeOK /\ CopyInv /\ [Next]_vars => CopyInv'
<1> SUFFICES ASSUME TypeOK, CopyInv, [Next]_vars PROVE CopyInv'
  OBVIOUS
<1> USE DEF CopyInv, CopyKeepsLock, CopyBitmapFresh, procVars, fsVars
<1>1. CASE SendCommand
  BY <1>1 DEF SendCommand
<1>2. CASE Copy
  BY <1>2 DEF Copy, CopyBegins, CopySized, CopyTakesLock, CopyReadsBitmap,
              CopyAllocates, CopyGivesUp, CopyMovesChunk, CopyEnds, MoveData, Kernel
<1>3. CASE Command
  BY <1>3 DEF Command, CommandBegins, CommandReads, CommandWrites, MoveData, Kernel
<1>4. CASE Close
  BY <1>4 DEF Close, CloseBegins, CloseLooks, CloseRefused, CloseGranted,
              CloseKills, CloseEnds, Kernel
<1>5. CASE App
  <2> PICK p \in Pids : AppStep(p)
    BY <1>5 DEF App, AppStep
  <2> QED
    BY AppLeavesKernel
<1>6. CASE StartOrKill
  BY <1>6 DEF StartOrKill, Start, KillCommand, Kernel
<1>7. CASE Schedule
  BY <1>7 DEF Schedule
<1>8. CASE UNCHANGED vars
  BY <1>8 DEF vars
<1> QED
  BY <1>1, <1>2, <1>3, <1>4, <1>5, <1>6, <1>7, <1>8 DEF Next

\* In every build nobody opens the lock under a copy, and the bitmap a copy is
\* about to write back is the one on the disk.
THEOREM CopyIsExclusive == Spec => []CopyExclusive
<1>1. Init => CopyInv
  BY DEF Init, CopyInv, CopyKeepsLock, CopyBitmapFresh
<1>2. CopyInv => CopyExclusive
  BY DEF CopyInv, CopyExclusive
<1> QED
  BY <1>1, <1>2, CopyInvNext, VfsTypeCorrect, PTL DEF Spec

(***************************************************************************)
(* Without a death inside a file syscall, the lock always has an owner ... *)
(***************************************************************************)
LEMMA OwnerNext == ~FaultInCall /\ LockHasOwner /\ [Next]_vars => LockHasOwner'
<1> SUFFICES ASSUME ~FaultInCall, LockHasOwner, [Next]_vars PROVE LockHasOwner'
  OBVIOUS
<1> USE DEF LockHasOwner, procVars, fsVars
<1>1. CASE SendCommand
  BY <1>1 DEF SendCommand
<1>2. CASE Copy
  BY <1>2 DEF Copy, CopyBegins, CopySized, CopyTakesLock, CopyReadsBitmap,
              CopyAllocates, CopyGivesUp, CopyMovesChunk, CopyEnds, MoveData, Kernel
<1>3. CASE Command
  BY <1>3 DEF Command, CommandBegins, CommandReads, CommandWrites, MoveData, Kernel
<1>4. CASE Close
  BY <1>4 DEF Close, CloseBegins, CloseLooks, CloseRefused, CloseGranted,
              CloseKills, CloseEnds, Kernel
<1>5. CASE App
  BY <1>5 DEF App, CallWaits, CallUsesDisk, UseDisk, CallDies, PlayAudio, Exit
<1>6. CASE StartOrKill
  BY <1>6 DEF StartOrKill, Start, KillCommand, Kernel
<1>7. CASE Schedule
  BY <1>7 DEF Schedule
<1>8. CASE UNCHANGED vars
  BY <1>8 DEF vars
<1> QED
  BY <1>1, <1>2, <1>3, <1>4, <1>5, <1>6, <1>7, <1>8 DEF Next

\* As long as no page fault ends a process inside a file syscall, a lock that is
\* set is that of a copy in progress, which will clear it.
THEOREM LockIsNeverLeft == ASSUME ~FaultInCall PROVE Spec => []LockHasOwner
<1>1. Init => LockHasOwner
  BY DEF Init, LockHasOwner
<1>2. LockHasOwner /\ [Next]_vars => LockHasOwner'
  BY OwnerNext
<1> QED
  BY <1>1, <1>2, PTL DEF Spec

(***************************************************************************)
(* ... so nobody begins to wait for it while pid 0 is closing a window, and *)
(* what the first loop of the close button has seen holds in the second.    *)
(***************************************************************************)
CloseInv ==
  \A p \in Pids : p \in group /\ alive[p] /\ (kpc = "close" \/ (kpc = "look" /\ p < at))
                    => ~shield[p]

LEMMA CloseInvNext ==
  TypeOK /\ LockHasOwner /\ CloseInv /\ [Next]_vars => CloseInv'
<1> SUFFICES ASSUME TypeOK, LockHasOwner, CloseInv, [Next]_vars,
                    NEW p \in Pids, p \in group', alive'[p],
                    kpc' = "close" \/ (kpc' = "look" /\ p < at')
             PROVE  ~shield'[p]
  BY DEF CloseInv
<1> USE DEF LockHasOwner, procVars, fsVars
<1>1. CASE SendCommand
  BY <1>1 DEF SendCommand, CloseInv
<1>2. CASE Copy
  BY <1>2 DEF Copy, CopyBegins, CopySized, CopyTakesLock, CopyReadsBitmap,
              CopyAllocates, CopyGivesUp, CopyMovesChunk, CopyEnds, MoveData, Kernel
<1>3. CASE Command
  BY <1>3 DEF Command, CommandBegins, CommandReads, CommandWrites, MoveData, Kernel
<1>4. CASE Close
  <2> USE DEF Kernel
  <2>1. CASE CloseBegins
    BY <2>1 DEF CloseBegins
  <2>2. CASE CloseLooks
    <3>1. kpc = "look" /\ group' = group /\ alive' = alive /\ shield' = shield
      BY <2>2 DEF CloseLooks
    <3>2. at \in Nat /\ at' = at + 1 /\ kpc' = kpc
      BY <2>2 DEF CloseLooks, TypeOK
    <3>3. CASE p = at
      BY <2>2, <3>1, <3>3 DEF CloseLooks, Mine
    <3>4. CASE p < at
      BY <3>1, <3>4 DEF CloseInv
    <3> QED
      BY <3>1, <3>2, <3>3, <3>4
  <2>3. CASE CloseRefused
    BY <2>3 DEF CloseRefused
  <2>4. CASE CloseGranted
    <3>1. kpc = "look" /\ at = MaxProcesses /\ UNCHANGED <<procVars, group>>
      BY <2>4 DEF CloseGranted
    <3>2. p < at
      BY <3>1, VfsAssumption
    <3> QED
      BY <3>1, <3>2 DEF CloseInv
  <2>5. CASE CloseKills
    <3>1. kpc = "close" /\ UNCHANGED <<shield, group>> /\ alive[p]
      BY <2>5 DEF CloseKills, Mine, TypeOK
    <3> QED
      BY <3>1 DEF CloseInv
  <2>6. CASE CloseEnds
    BY <2>6 DEF CloseEnds
  <2> QED
    BY <1>4, <2>1, <2>2, <2>3, <2>4, <2>5, <2>6 DEF Close
<1>5. CASE App
  <2> PICK q \in Pids : AppStep(q)
    BY <1>5 DEF App, AppStep
  <2>1. UNCHANGED <<kpc, at, group>>
    BY AppLeavesKernel
  <2>2. ~lock
    BY <2>1
  <2>3. alive[p] /\ (shield'[p] => shield[p])
    BY <2>2 DEF AppStep, CallWaits, CallUsesDisk, UseDisk, CallDies, PlayAudio,
                Exit, TypeOK
  <2> QED
    BY <2>1, <2>3 DEF CloseInv
<1>6. CASE StartOrKill
  BY <1>6 DEF StartOrKill, Start, KillCommand, Kernel
<1>7. CASE Schedule
  BY <1>7 DEF Schedule, CloseInv
<1>8. CASE UNCHANGED vars
  BY <1>8 DEF vars, CloseInv
<1> QED
  BY <1>1, <1>2, <1>3, <1>4, <1>5, <1>6, <1>7, <1>8 DEF Next

LEMMA CloseStepRespects ==
  TypeOK /\ CloseInv /\ [Next]_vars => CloseKillsNoneShielded
<1> SUFFICES ASSUME TypeOK, CloseInv, [Next]_vars, NEW p \in Pids,
                    kpc = "close", current = 0, alive[p], ~alive'[p], shield[p]
             PROVE  FALSE
  BY DEF CloseKillsNoneShielded
<1> USE DEF procVars, fsVars, Kernel, MoveData
<1>1. p \notin group
  BY DEF CloseInv
<1>2. CASE Close
  BY <1>1, <1>2 DEF Close, CloseBegins, CloseLooks, CloseRefused, CloseGranted,
                    CloseKills, CloseEnds, Mine
<1>3. CASE App
  BY <1>3, AppLeavesKernel DEF App, AppStep
<1>4. CASE SendCommand \/ Copy \/ Command \/ Schedule \/ UNCHANGED vars
  BY <1>4 DEF SendCommand, Copy, CopyBegins, CopySized, CopyTakesLock,
              CopyReadsBitmap, CopyAllocates, CopyGivesUp, CopyMovesChunk, CopyEnds,
              Command, CommandBegins, CommandReads, CommandWrites, Schedule, vars
<1>5. CASE StartOrKill
  BY <1>5 DEF StartOrKill, Start, KillCommand
<1> QED
  BY <1>2, <1>3, <1>4, <1>5 DEF Next

\* The two loops of the close button are not atomic, yet no process that uses
\* the disk is killed between them.
THEOREM CloseRespectsShield == ASSUME ~FaultInCall PROVE Spec => ShieldRespected
<1>1. Init => CloseInv
  BY DEF Init, CloseInv
<1>2. [Next]_vars /\ TypeOK /\ CloseInv => [CloseKillsNoneShielded]_vars
  BY CloseStepRespects
<1> QED
  BY <1>1, <1>2, CloseInvNext, VfsTypeCorrect, LockIsNeverLeft, PTL
     DEF Spec, ShieldRespected

(***************************************************************************)
(* The disk under the lock.                                                *)
(***************************************************************************)
DiskInv == LockedDisk /\ (kpc \notin DiskPoints => ~xfer)

LEMMA DiskInvNext ==
  ~Audio /\ TypeOK /\ CopyInv /\ DiskInv /\ [Next]_vars => DiskInv'
<1> SUFFICES ASSUME ~Audio, TypeOK, CopyInv, DiskInv, [Next]_vars PROVE DiskInv'
  OBVIOUS
<1> USE DEF DiskInv, LockedDisk, procVars, fsVars, Kernel, MoveData
<1>1. CASE SendCommand
  BY <1>1 DEF SendCommand
<1>2. CASE Copy
  BY <1>2 DEF Copy, CopyBegins, CopySized, CopyTakesLock, CopyReadsBitmap,
              CopyAllocates, CopyGivesUp, CopyMovesChunk, CopyEnds
<1>3. CASE Command
  BY <1>3 DEF Command, CommandBegins, CommandReads, CommandWrites
<1>4. CASE Close
  BY <1>4 DEF Close, CloseBegins, CloseLooks, CloseRefused, CloseGranted,
              CloseKills, CloseEnds
<1>5. CASE App
  <2> PICK p \in Pids : AppStep(p)
    BY <1>5 DEF App, AppStep
  <2>1. UNCHANGED <<kpc, xfer>>
    BY AppLeavesKernel
  <2>2. kpc \in Locked => ata' = ata
    BY DEF CopyInv, CopyKeepsLock, AppStep, CallWaits, CallUsesDisk, UseDisk,
           CallDies, PlayAudio, Exit
  <2> QED
    BY <2>1, <2>2
<1>6. CASE StartOrKill
  BY <1>6 DEF StartOrKill, Start, KillCommand
<1>7. CASE Schedule
  BY <1>7 DEF Schedule
<1>8. CASE UNCHANGED vars
  BY <1>8 DEF vars
<1> QED
  BY <1>1, <1>2, <1>3, <1>4, <1>5, <1>6, <1>7, <1>8 DEF Next

\* If no application plays audio, no command but cp's own reaches the disk
\* while a transfer of a locked copy is interrupted.
THEOREM LockedDiskIsPrivate == ASSUME ~Audio PROVE Spec => []LockedDisk
<1>1. Init => CopyInv /\ DiskInv
  BY DEF Init, CopyInv, CopyKeepsLock, CopyBitmapFresh, DiskInv, LockedDisk
<1>2. TypeOK /\ CopyInv /\ DiskInv /\ [Next]_vars => DiskInv'
  BY DiskInvNext
<1>3. DiskInv => LockedDisk
  BY DEF DiskInv
<1> QED
  BY <1>1, <1>2, <1>3, CopyInvNext, VfsTypeCorrect, PTL DEF Spec

(***************************************************************************)
(* The bitmap and the inodes.                                              *)
(***************************************************************************)
NoCommand == kpc \notin {"cmdRead", "cmdMark"}

\* Taking a clear block of the disk's own bitmap keeps the two in agreement.
LEMMA TakeKeepsBlocks ==
  ASSUME TypeOK, BlocksOnce,
         \E b \in Blocks : /\ FirstClear(b, bitmap)
                           /\ bitmap' = bitmap \cup {b}
                           /\ Gains(b)
  PROVE  BlocksOnce'
<1> PICK b \in Blocks : /\ FirstClear(b, bitmap)
                        /\ bitmap' = bitmap \cup {b}
                        /\ Gains(b)
  OBVIOUS
<1>1. b \notin bitmap /\ given[b] = 0
  BY DEF FirstClear, BlocksOnce
<1>2. given' = [given EXCEPT ![b] = 1] /\ given \in [Blocks -> Nat]
  <2>1. given \in [Blocks -> Nat]
    BY DEF TypeOK
  <2>2. given' = [given EXCEPT ![b] = given[b] + 1]
    BY DEF Gains
  <2>3. given[b] + 1 = 1
    BY <1>1
  <2> QED
    BY <2>1, <2>2, <2>3
<1>3. ASSUME NEW c \in Blocks
      PROVE  given'[c] = IF c \in bitmap' THEN 1 ELSE 0
  <2>1. CASE c = b
    BY <1>2, <2>1
  <2>2. CASE c # b
    <3>1. given'[c] = given[c] /\ (c \in bitmap' <=> c \in bitmap)
      BY <1>2, <2>2
    <3> QED
      BY <3>1 DEF BlocksOnce
  <2> QED
    BY <2>1, <2>2
<1> QED
  BY <1>3 DEF BlocksOnce

LEMMA BlocksNext ==
  /\ ~Commands /\ ~FaultInCall
  /\ TypeOK /\ CopyInv /\ NoCommand /\ BlocksOnce /\ [Next]_vars
  => NoCommand' /\ BlocksOnce'
<1> SUFFICES ASSUME ~Commands, ~FaultInCall, TypeOK, CopyInv, NoCommand, BlocksOnce,
                    [Next]_vars
             PROVE  NoCommand' /\ BlocksOnce'
  OBVIOUS
<1> USE DEF NoCommand, procVars, fsVars, Kernel, MoveData
<1> DEFINE Same == UNCHANGED <<bitmap, given>>
<1>0. ASSUME Same PROVE BlocksOnce'
  BY <1>0 DEF BlocksOnce
<1>1. CASE SendCommand
  BY <1>0, <1>1 DEF SendCommand
<1>2. CASE Copy
  <2>1. NoCommand'
    BY <1>2 DEF Copy, CopyBegins, CopySized, CopyTakesLock, CopyReadsBitmap,
                CopyAllocates, CopyGivesUp, CopyMovesChunk, CopyEnds
  <2>2. CASE CopyAllocates
    <3>1. cached = bitmap
      BY <2>2 DEF CopyAllocates, CopyInv, CopyBitmapFresh
    <3>2. BlocksOnce'
      BY <2>2, <3>1, TakeKeepsBlocks DEF CopyAllocates
    <3> QED
      BY <2>1, <3>2
  <2>3. CASE ~CopyAllocates
    <3>1. Same
      BY <1>2, <2>3 DEF Copy, CopyBegins, CopySized, CopyTakesLock,
                CopyReadsBitmap, CopyGivesUp, CopyMovesChunk, CopyEnds
    <3> QED
      BY <2>1, <3>1, <1>0
  <2> QED
    BY <2>2, <2>3
<1>3. CASE Command
  BY <1>3 DEF Command, CommandBegins, CommandReads, CommandWrites
<1>4. CASE Close
  BY <1>0, <1>4 DEF Close, CloseBegins, CloseLooks, CloseRefused, CloseGranted,
                    CloseKills, CloseEnds
<1>5. CASE App
  <2> PICK p \in Pids : AppStep(p)
    BY <1>5 DEF App, AppStep
  <2>1. NoCommand'
    BY AppLeavesKernel
  <2>2. Same \/ \E b \in Blocks : /\ FirstClear(b, bitmap)
                                  /\ bitmap' = bitmap \cup {b}
                                  /\ Gains(b)
    BY DEF AppStep, CallWaits, CallUsesDisk, UseDisk, CallDies, PlayAudio, Exit
  <2>3. BlocksOnce'
    BY <2>2, <1>0, TakeKeepsBlocks
  <2> QED
    BY <2>1, <2>3
<1>6. CASE StartOrKill
  BY <1>0, <1>6 DEF StartOrKill, Start, KillCommand
<1>7. CASE Schedule
  BY <1>0, <1>7 DEF Schedule
<1>8. CASE UNCHANGED vars
  BY <1>0, <1>8 DEF vars
<1> QED
  BY <1>1, <1>2, <1>3, <1>4, <1>5, <1>6, <1>7, <1>8 DEF Next

\* With cp and the syscalls as the only users of the disk, and no death inside
\* a syscall, no block ever belongs to two files and none is lost.
THEOREM BlocksAreGivenOnce ==
  ASSUME ~Commands, ~FaultInCall PROVE Spec => []BlocksOnce
<1>1. Init => CopyInv /\ NoCommand /\ BlocksOnce
  BY DEF Init, CopyInv, CopyKeepsLock, CopyBitmapFresh, NoCommand, BlocksOnce
<1>2. TypeOK /\ CopyInv /\ NoCommand /\ BlocksOnce /\ [Next]_vars
        => NoCommand' /\ BlocksOnce'
  BY BlocksNext
<1> QED
  BY <1>1, <1>2, CopyInvNext, VfsTypeCorrect, PTL DEF Spec
=============================================================================
