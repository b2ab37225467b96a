------------------------------ MODULE VfsLock ------------------------------
(***************************************************************************)
(* The disk and who may touch it: vfs_lock, the is_critical_io shield that *)
(* keeps the close button away from a process that uses the disk, the ATA  *)
(* registers, and the block bitmap of the file system.                     *)
(*                                                                         *)
(* pid 0 runs the terminal's commands with interrupts enabled: the timer   *)
(* may interrupt a disk transfer.  The syscalls of an application run with *)
(* interrupts masked and re-enable them only while they wait for the lock, *)
(* so what they do once they have it is one action.                        *)
(*                                                                         *)
(* Abstracted: an operation on files is a few transfers and at most one    *)
(* read-modify-write of the bitmap; a kill is one step (see ProcMem).      *)
(***************************************************************************)
EXTENDS Integers, FiniteSets

CONSTANTS
  MaxProcesses, \* the slots of process_table, pid 0 included
  NBlocks,      \* the blocks of the disk
  NChunks,      \* the 1 KB chunks of a file that cp copies
  MaxCopies,    \* bound: how many times the user runs cp
  MaxLinks,     \* bound: how many inodes may come to point at one block
  Commands,     \* TRUE: the user runs create, mkdir, rm, rmdir, cat, run ...,
                \* which use the disk without the lock
  Audio,        \* TRUE: applications call syscall 12 (play a file)
  FaultInCall   \* TRUE: the pool of frames may be exhausted when a file
                \* syscall touches its user buffer

ASSUME VfsAssumption ==
  /\ MaxProcesses \in Nat /\ MaxProcesses > 1 /\ NBlocks \in Nat
  /\ NChunks \in Nat /\ MaxCopies \in Nat /\ MaxLinks \in Nat
  /\ Commands \in BOOLEAN /\ Audio \in BOOLEAN /\ FaultInCall \in BOOLEAN

Procs  == 0 .. MaxProcesses - 1
Pids   == Procs \ {0}
Blocks == 1 .. NBlocks

VARIABLES
  lock,     \* vfs_lock = 1
  alive,    \* process_table[p].active
  shield,   \* process_table[p].is_critical_io
  current,  \* current_pid
  kpc,      \* where pid 0 is
  xfer,     \* pid 0 has sent a command to the disk and not moved the data yet
  ata,      \* the process whose command is in the ATA registers
  bitmap,   \* the block bitmap on the disk
  cached,   \* the copy of it in pid 0's buffer
  given,    \* the inodes that point at each block
  at,       \* pid 0's loop counter, over chunks or pids
  group,    \* the processes linked to the window being closed
  copies    \* how many times cp was run

procVars == <<alive, shield>>
fsVars   == <<bitmap, cached, given>>
vars == <<lock, procVars, current, kpc, xfer, ata, fsVars, at, group, copies>>

Init ==
  /\ lock = FALSE
  /\ alive = [p \in Pids |-> FALSE] /\ shield = [p \in Pids |-> FALSE]
  /\ current = 0 /\ kpc = "idle"
  /\ xfer = FALSE /\ ata = 0
  /\ bitmap = {} /\ cached = {} /\ given = [b \in Blocks |-> 0]
  /\ at = 0 /\ group = {} /\ copies = 0

\* ext2_allocate_block: the first block whose bit is clear in the copy read.
FirstClear(b, bits) ==
  b \in Blocks \ bits /\ \A c \in Blocks \ bits : b <= c

Gains(b) == given[b] < MaxLinks /\ given' = [given EXCEPT ![b] = @ + 1]

(***************************************************************************)
(* Syscalls 4 (write a file) and 10 (read a file) of process p.            *)
(***************************************************************************)
Running(p) == current = p /\ alive[p]

\* The lock is set: raise the shield and wait.
CallWaits(p) ==
  /\ Running(p) /\ ~shield[p]
  /\ lock
  /\ shield' = [shield EXCEPT ![p] = TRUE]
  /\ UNCHANGED <<lock, alive, current, kpc, xfer, ata, fsVars, at, group, copies>>

\* Under the lock: a write may take a block; then unlock, lower the shield.
UseDisk(p) ==
  /\ ata' = p
  /\ \/ UNCHANGED <<bitmap, given>>
     \/ \E b \in Blocks : /\ FirstClear(b, bitmap)
                          /\ bitmap' = bitmap \cup {b}
                          /\ Gains(b)
  /\ lock' = FALSE
  /\ shield' = [shield EXCEPT ![p] = FALSE]
  /\ UNCHANGED <<alive, current, kpc, xfer, cached, at, group, copies>>

CallUnqueued(p) == Running(p) /\ UseDisk(p)   \* mutant: nobody waits

\* The lock is clear, at once or after a wait: it is set and the disk used.
CallUsesDisk(p) == Running(p) /\ ~lock /\ UseDisk(p)

\* The user buffer faults and no frame is left: terminate_faulting_app ends the
\* process there, inside the syscall; a block may have been taken for nothing.
CallDies(p) ==
  /\ Running(p) /\ FaultInCall
  /\ ~lock
  /\ lock' = TRUE
  /\ ata' = p
  /\ shield' = [shield EXCEPT ![p] = TRUE]
  /\ alive' = [alive EXCEPT ![p] = FALSE]
  /\ \/ UNCHANGED bitmap
     \/ \E b \in Blocks : FirstClear(b, bitmap) /\ bitmap' = bitmap \cup {b}
  /\ UNCHANGED <<current, kpc, xfer, cached, given, at, group, copies>>

\* Syscall 12: the audio driver reads the file, whatever the lock says.
PlayAudio(p) ==
  /\ Running(p) /\ ~shield[p] /\ Audio
  /\ ata' = p
  /\ UNCHANGED <<lock, procVars, current, kpc, xfer, fsVars, at, group, copies>>

\* The process exits or crashes outside a file syscall.
Exit(p) ==
  /\ Running(p) /\ ~shield[p]
  /\ alive' = [alive EXCEPT ![p] = FALSE]
  /\ UNCHANGED <<lock, shield, current, kpc, xfer, ata, fsVars, at, group, copies>>

(***************************************************************************)
(* pid 0: one sector.  ata_read_sector and ata_write_sector program the    *)
(* registers, then move 256 words; the timer may come in between.          *)
(***************************************************************************)
Kernel(where) == current = 0 /\ kpc = where
DiskPoints == {"size", "alloc", "mark", "chunk", "cmdRead", "cmdMark"}

\* The loop of cp over total_blocks = (src_size + 1023) / 1024.
MoreChunks == at < NChunks

SendCommand ==
  /\ current = 0 /\ kpc \in DiskPoints /\ ~xfer
  /\ kpc = "chunk" => MoreChunks
  /\ xfer' = TRUE /\ ata' = 0
  /\ UNCHANGED <<lock, procVars, current, kpc, fsVars, at, group, copies>>

MoveData(where) == Kernel(where) /\ xfer /\ xfer' = FALSE

(***************************************************************************)
(* pid 0: ext2_copy_file, the command "cp".                                *)
(***************************************************************************)
\* Refused with -6 when the lock is set.
CopyBegins ==
  /\ Kernel("idle") /\ copies < MaxCopies
  /\ ~lock
  /\ kpc' = "size" /\ copies' = copies + 1
  /\ UNCHANGED <<lock, procVars, current, xfer, ata, fsVars, at, group>>

\* The size and the inode of the source are read BEFORE the lock is taken.
CopySized ==
  /\ MoveData("size")
  /\ kpc' \in {"take", "idle"}
  /\ UNCHANGED <<lock, procVars, current, ata, fsVars, at, group, copies>>

CopyForgetsLock ==   \* mutant: vfs_lock is not set
  /\ Kernel("take")
  /\ kpc' = "alloc"
  /\ UNCHANGED <<lock, procVars, current, xfer, ata, fsVars, at, group, copies>>

CopyTakesLock ==
  /\ Kernel("take")
  /\ lock' = TRUE
  /\ kpc' = "alloc"
  /\ UNCHANGED <<procVars, current, xfer, ata, fsVars, at, group, copies>>

\* ext2_write_file creates the destination: it reads the bitmap ...
CopyReadsBitmap ==
  /\ MoveData("alloc")
  /\ cached' = bitmap
  /\ kpc' = "mark"
  /\ UNCHANGED <<lock, procVars, current, ata, bitmap, given, at, group, copies>>

\* ... and writes it back with a block more; the file gets the block.
CopyAllocates ==
  /\ MoveData("mark")
  /\ \E b \in Blocks : /\ FirstClear(b, cached)
                       /\ bitmap' = cached \cup {b}
                       /\ Gains(b)
  /\ cached' = {}
  /\ kpc' = "chunk" /\ at' = 0
  /\ UNCHANGED <<lock, procVars, current, ata, group, copies>>

\* The destination exists or has no parent, the disk is full, or there is no
\* memory for the 1 KB buffer: cp gives up and unlocks.
CopyGivesUpLocked ==   \* mutant: an error path that does not unlock
  /\ \/ MoveData("mark")
     \/ Kernel("chunk") /\ at = 0 /\ ~xfer /\ UNCHANGED xfer
  /\ cached' = {}
  /\ kpc' = "idle"
  /\ UNCHANGED <<lock, procVars, current, ata, bitmap, given, at, group, copies>>

CopyGivesUp ==
  /\ \/ MoveData("mark")
     \/ Kernel("chunk") /\ at = 0 /\ ~xfer /\ UNCHANGED xfer
  /\ lock' = FALSE
  /\ cached' = {}
  /\ kpc' = "idle"
  /\ UNCHANGED <<procVars, current, ata, bitmap, given, at, group, copies>>

CopyMovesChunk ==
  /\ MoveData("chunk") /\ MoreChunks
  /\ at' = at + 1
  /\ UNCHANGED <<lock, procVars, current, kpc, ata, fsVars, group, copies>>

\* The loop is over, at the end of the file or at a block that is 0.
CopyEndsLocked ==   \* mutant: the lock is not given back
  /\ Kernel("chunk") /\ ~xfer
  /\ kpc' = "idle" /\ at' = 0
  /\ UNCHANGED <<lock, procVars, current, xfer, ata, fsVars, group, copies>>

CopyEnds ==
  /\ Kernel("chunk") /\ ~xfer
  /\ lock' = FALSE
  /\ kpc' = "idle" /\ at' = 0
  /\ UNCHANGED <<procVars, current, xfer, ata, fsVars, group, copies>>

(***************************************************************************)
(* pid 0: the other commands, none of which looks at the lock.             *)
(***************************************************************************)
CommandBegins ==
  /\ Kernel("idle") /\ Commands
  /\ kpc' = "cmdRead"
  /\ UNCHANGED <<lock, procVars, current, xfer, ata, fsVars, at, group, copies>>

\* cat, dir, run and insmod only read; the others read the bitmap to change it.
CommandReads ==
  /\ MoveData("cmdRead")
  /\ \/ kpc' = "idle" /\ UNCHANGED cached
     \/ kpc' = "cmdMark" /\ cached' = bitmap
  /\ UNCHANGED <<lock, procVars, current, ata, bitmap, given, at, group, copies>>

\* create and mkdir take a block, rm and rmdir give one back.
CommandWrites ==
  /\ MoveData("cmdMark")
  /\ \/ \E b \in Blocks : /\ FirstClear(b, cached)
                          /\ bitmap' = cached \cup {b}
                          /\ Gains(b)
     \/ \E b \in cached : /\ given[b] > 0
                          /\ bitmap' = cached \ {b}
                          /\ given' = [given EXCEPT ![b] = @ - 1]
     \/ UNCHANGED <<bitmap, given>>
  /\ cached' = {}
  /\ kpc' = "idle"
  /\ UNCHANGED <<lock, procVars, current, ata, at, group, copies>>

(***************************************************************************)
(* pid 0: processes come and go.                                           *)
(***************************************************************************)
\* create_process lowers the shield the previous owner of the pid left.
Start(p) ==
  /\ Kernel("idle") /\ ~alive[p]
  /\ alive' = [alive EXCEPT ![p] = TRUE]
  /\ shield' = [shield EXCEPT ![p] = FALSE]
  /\ UNCHANGED <<lock, current, kpc, xfer, ata, fsVars, at, group, copies>>

\* The kill command does not look at the shield.
KillCommand(p) ==
  /\ Kernel("idle") /\ alive[p]
  /\ alive' = [alive EXCEPT ![p] = FALSE]
  /\ UNCHANGED <<lock, shield, current, kpc, xfer, ata, fsVars, at, group, copies>>

\* The close button: first every process of the window is looked at ...
CloseBegins ==
  /\ Kernel("idle")
  /\ group' \in SUBSET Pids \ {{}}
  /\ kpc' = "look" /\ at' = 1
  /\ UNCHANGED <<lock, procVars, current, xfer, ata, fsVars, copies>>

Mine(p) == p \in group /\ alive[p]

CloseLooksAway ==   \* mutant: the shield is not tested
  /\ Kernel("look") /\ at < MaxProcesses
  /\ at' = at + 1
  /\ UNCHANGED <<lock, procVars, current, kpc, xfer, ata, fsVars, group, copies>>

CloseLooks ==
  /\ Kernel("look") /\ at < MaxProcesses
  /\ ~(Mine(at) /\ shield[at])
  /\ at' = at + 1
  /\ UNCHANGED <<lock, procVars, current, kpc, xfer, ata, fsVars, group, copies>>

\* ... and one that uses the disk forbids the closing;
CloseRefused ==
  /\ Kernel("look") /\ at < MaxProcesses
  /\ Mine(at) /\ shield[at]
  /\ kpc' = "idle" /\ at' = 0 /\ group' = {}
  /\ UNCHANGED <<lock, procVars, current, xfer, ata, fsVars, copies>>

CloseGranted ==
  /\ Kernel("look") /\ at = MaxProcesses
  /\ kpc' = "close" /\ at' = 1
  /\ UNCHANGED <<lock, procVars, current, xfer, ata, fsVars, group, copies>>

\* then, in a second loop, every process of the window is killed.
CloseKills ==
  /\ Kernel("close") /\ at < MaxProcesses
  /\ alive' = [p \in Pids |-> alive[p] /\ ~(p = at /\ Mine(p))]
  /\ at' = at + 1
  /\ UNCHANGED <<lock, shield, current, kpc, xfer, ata, fsVars, group, copies>>

CloseEnds ==
  /\ Kernel("close") /\ at = MaxProcesses
  /\ kpc' = "idle" /\ at' = 0 /\ group' = {}
  /\ UNCHANGED <<lock, procVars, current, xfer, ata, fsVars, copies>>

(***************************************************************************)
(* The timer.  A process that waits for the lock spins: it is runnable.    *)
(***************************************************************************)
Runnable == {0} \cup {p \in Pids : alive[p]}
Turns(q) == IF q > current THEN q - current ELSE q + MaxProcesses - current

Schedule ==
  /\ \E q \in Runnable : /\ \A r \in Runnable : Turns(q) <= Turns(r)
                         /\ current' = q
  /\ UNCHANGED <<lock, procVars, kpc, xfer, ata, fsVars, at, group, copies>>

Copy == \/ CopyBegins \/ CopySized \/ CopyTakesLock \/ CopyReadsBitmap
        \/ CopyAllocates \/ CopyGivesUp \/ CopyMovesChunk \/ CopyEnds

Command == CommandBegins \/ CommandReads \/ CommandWrites

Close == \/ CloseBegins \/ CloseLooks \/ CloseRefused \/ CloseGranted
         \/ CloseKills \/ CloseEnds

App == \E p \in Pids : \/ CallWaits(p) \/ CallUsesDisk(p) \/ CallDies(p)
                       \/ PlayAudio(p) \/ Exit(p)

StartOrKill == \E p \in Pids : Start(p) \/ KillCommand(p)

Next == SendCommand \/ Copy \/ Command \/ Close \/ App \/ StartOrKill \/ Schedule

Spec == Init /\ [][Next]_vars

\* The timer keeps firing; pid 0 goes on with what it has begun whenever it has
\* the CPU; a process that waits tests the lock whenever it has the CPU.
KernelWork == (SendCommand \/ Copy \/ Command \/ Close) /\ kpc # "idle"
FairSpec == /\ Spec
            /\ WF_vars(Schedule)
            /\ SF_vars(KernelWork)
            /\ \A p \in Pids : SF_vars(CallUsesDisk(p) /\ shield[p])

(***************************************************************************)
(* Properties                                                              *)
(***************************************************************************)
Locked == {"alloc", "mark", "chunk"}   \* cp is between its lock and unlock

\* Every variable has its type.
TypeOK ==
  /\ lock \in BOOLEAN /\ xfer \in BOOLEAN
  /\ alive \in [Pids -> BOOLEAN] /\ shield \in [Pids -> BOOLEAN]
  /\ current \in Procs /\ ata \in Procs
  /\ kpc \in DiskPoints \cup {"idle", "take", "look", "close"}
  /\ bitmap \subseteq Blocks /\ cached \subseteq Blocks
  /\ given \in [Blocks -> Nat]
  /\ at \in Nat /\ IF kpc = "chunk" THEN at <= NChunks ELSE at <= MaxProcesses
  /\ group \subseteq Pids /\ copies \in 0 .. MaxCopies

\* Nobody opens the lock under a copy: vfs_lock has one owner although it is
\* tested and set by three pieces of code and cleared by three.
CopyKeepsLock == kpc \in Locked => lock

\* Under the lock the bitmap cp is about to write back is that of the disk.
CopyBitmapFresh == kpc = "mark" => cached = bitmap

\* So a copy, once ext2_copy_file has set vfs_lock, has lock and bitmap for
\* itself until it gives the lock back, whatever else uses the disk.
CopyExclusive == CopyKeepsLock /\ CopyBitmapFresh

\* A lock that is set belongs to a copy in progress: it is never left behind by
\* someone who will not clear it.
LockHasOwner == lock => kpc \in Locked

\* ext2_copy_file: "DA QUI IN POI, NESSUN ALTRO PUO' TOCCARE IL DISCO": the
\* command in the ATA registers during a transfer of cp is that of cp.
LockedDisk == kpc \in Locked /\ xfer => ata = 0

\* README: the lock prevents corruption by concurrent I/O: the bitmap and the
\* inodes agree, no block belongs to two files.
BlocksOnce ==
  \A b \in Blocks : given[b] = IF b \in bitmap THEN 1 ELSE 0

\* The close button never kills a process inside a file syscall, although the
\* look and the kill are two loops the timer may interrupt.
CloseKillsNoneShielded ==
  \A p \in Pids :
    kpc = "close" /\ current = 0 /\ alive[p] /\ ~alive'[p] => ~shield[p]

ShieldRespected == [][CloseKillsNoneShielded]_vars

\* A process waiting for the disk gets it (or is killed), provided the user does
\* not run cp for ever (MaxCopies).
WaiterServed == \A p \in Pids : shield[p] /\ alive[p] ~> ~shield[p] \/ ~alive[p]

\* Every copy ends: "cp" gives the lock back.
CopyReleases == kpc \in Locked ~> ~lock

\* The coda di attesa of the file syscalls works from both ends: every copy gives
\* the lock back, and everyone who spins on it is served.
DiskServed == WaiterServed /\ CopyReleases
=============================================================================
