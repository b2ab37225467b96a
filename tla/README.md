# A verification development for Ante-Millennium OS

Ante-Millennium OS (`src/`) is a 32-bit x86 operating system written from scratch:
one kernel file (`kernel.c`), a sound driver (`ac97.c`), a C library and GUI toolkit
for its applications (`antem_libc/`), a few sample programs, and a port of TinyCC
(`am-tcc/`, vendored). This directory holds TLA+ models of the parts whose
correctness depends on *order* - who is interrupted where, which resource is taken
and given back by whom - the TLC configurations that check them on small instances,
and proofs, checked by TLAPS, that hold for every size of the system.

Contents: [1 the system](#1-the-system) · [2 the modules](#2-the-modules) ·
[3 the runs](#3-the-runs) · [4 fairness](#4-fairness) · [5 the proofs](#5-the-proofs) ·
[6 findings](#6-findings) · [7 what is not modelled](#7-what-is-not-modelled) ·
[8 the plan](#8-the-plan)

## 1 The system

There is one CPU. `kernel_main` is the process with pid 0: after the boot it is the
loop that reads mouse and keyboard, draws the desktop, runs the terminal's commands,
loads programs and kills them. It runs **with interrupts enabled**. Applications run
in Ring 3. The 100 Hz timer interrupt calls `schedule()`, a round robin over
`process_table`, so the CPU may be taken from pid 0, or from an application,
between any two instructions. Interrupts and exceptions enter through interrupt
gates: the handlers (`syscall_handler`, `panic_pagefault`, `terminate_faulting_app`)
run with interrupts masked, and a handler that waits re-enables them itself.
So there are two kinds of atomicity in this kernel, and the models follow them:
*what an application does inside the kernel is one step; what pid 0 does is a
sequence of steps with the timer in between.*

| component | state | operations | shared with | hard part |
|---|---|---|---|---|
| processes and scheduler | `process_table[]` (`active`, `waiting_for_input`, `stack_base`, `is_critical_io`), `current_pid`, `page_directory[256]` | `create_process`, `get_free_pid`, `schedule`, `kill_process`, the kill loops of the `kill` command and of the close button, syscalls 3 and 6, wake-ups by key and mouse | frame allocator, heap, windows | a process may end while pid 0 is ending it; pids are reused; the mounted table must follow `current_pid` |
| frames and demand paging | `pfa_bitmap`, the private page tables | `pfa_alloc_frame`, `pfa_free_frame`, `panic_pagefault`, the three program loaders | processes | test-and-set of a bit without masking; an exhausted pool; failed loads |
| kernel, DMA and user heaps | linked lists of blocks | `kmalloc`/`kfree`, `kmalloc_dma`/`kfree_dma`, `malloc`/`free`/`realloc` | loaders, AC97, applications | long sequences of splits and fusions |
| disk and its lock | `vfs_lock`, `is_critical_io`, ATA registers, the ext2 bitmaps | syscalls 4, 10, 12, `ext2_copy_file`, the terminal's file commands, the close button | every user of the disk | two-phase transfers interrupted by the timer; a lock tested in one place and set in another; deaths inside a syscall |
| ext2 | super block, group descriptors, bitmaps, inodes, directories | `ext2_write_file`, `ext2_make_directory`, `ext2_delete_file`, `ext2_remove_directory`, `ext2_read_file` | disk | several writes that a full disk or a power-off splits |
| window manager | `windows[]`, `window_order[]`, `global_active_win`, the armed button, the links of a process to its windows | `open_window`, `bring_to_front`, minimise, close, info, the taskbar, the menus, syscall 14 | processes | syscall 14 opens a window between two steps of pid 0; slots taken; windows of dead processes |
| keyboard and line input | `t_buffer`, the textboxes, `input_buffer`, `last_key_pressed`, `waiting_for_input` | the three cases of the key handler, clicks on texts, syscalls 3, 6, 7, 8 | windows, processes | a key is fetched, measured and written in several steps; a buffer pointer that outlives its call; one mailbox for all |
| AC97 driver | descriptor ring, `ac97_playing` | `ac97_play_file`, `ac97_stop` | disk, DMA heap | ring against hardware index |
| antem_libc streams | `FILE` buffer, size and cursor | `fopen`, `fread`, `fwrite`, `fseek`, `fclose` | syscalls 4, 10, the disk | the file is written at the end only; the size on the disk is not what was stored |
| drawing, boot, samples, TinyCC | - | - | - | none (straight-line or vendored code) |

What would make each correct:

* *processes, frames*: a frame is in one place; nothing is leaked or freed twice; the
  CPU never runs on a freed table or stack; nobody starves.
* *heaps*: the blocks tile the heap, live blocks are apart and large enough, free
  neighbours are fused, `NULL` means there is no room.
* *disk*: under the lock the disk is one process's; a block is given once; whoever
  waits is served; a process that is using the disk is not killed by the close button.
* *ext2*: bitmap, inodes and directory agree after every operation, complete or failed.
* *windows*: the order is a permutation of the slots, menus in front; what gets the focus is
  in front; a living program keeps its window.
* *keyboard*: each editor is a line with a cursor; a key reaches whom it was typed for.
* *streams*: a file is the sequence of bytes that was written, whole if there was room.

`PROJECT.json` lists, under "hazards", the lines where each of these can break.

## 2 The modules

### ProcMem - processes and their memory

`ProcMem.tla` models `process_table`, the page tables, the frame bitmap, and the
scheduler together, because their correctness is a relation between them.

* State. `active`, `waiting`, `stack`, `table`, `used` (the set bits of `pfa_bitmap`),
  `current` and `mounted` (which table `page_directory[256]` points at) are the
  variables of the code; `hasTable` says whether a table's 4 KB block is allocated
  (a freed table keeps its contents, as freed memory does). `kpc`, `idx`, `need`,
  `temp`, `cand`, `target`, `closing` are pid 0's program counter and locals.
  Slot 0 of `table` is `app_pt`, the table pid 0 builds before there is a process.
  A table has `NPages` entries (1024 in the code), but a load writes as many words as the file
  has pages, up to `MaxNeed`: `frames_needed` is compared with nothing (7863, 6773, 6961). So `Cells`,
  what a table variable keeps, may go past the entries, while every loop that frees a process ends at
  `NPages`. `FilesFit` (`MaxNeed <= NPages`) says that no file has 4 MB or more. The words behind a table
  belong to another block of the heap; that something else is overwritten there, or overwrites
  what the load has written, is not modelled.
* Loading. `LaunchTable`, `LaunchRead` / `LaunchReadFails`, `LaunchFrame` (or
  `LaunchFrameFound`, `LaunchFrameMark` when the timer may fire inside
  `pfa_alloc_frame`), `LaunchAccept` / `LaunchReject`, `LaunchUndoFrame`,
  `LaunchUndone`, `CreateProcess`, `CreateReady`. The menu, the "info" button and the
  `run` command are three copies of this code with the same exits.
* Killing. `KillRequest` names a set of processes (one for the command, those linked to
  the window for the button), then for each `KillSkip`, or `KillTestAndDoom` (`KillTested`,
  `KillDoom` when the timer may fire between test and reset), `KillStack`,
  `KillFrame`, `KillTable`; `KillDone`.
* Events. `WakeYielded`, `KeyToApp`, `KeyToAppHangs` (pid 0 mounts the process's table
  to write in its buffer, and faults there with no frame left).
* Drawing. A process's image is read in its own table, which `render_desktop` mounts:
  `DrawImage`, or `DrawHangs` when a page of it faults with no frame left. The process is
  found active before interrupts are switched off: `DrawFound` is that test when
  the timer may fire after it. Of a whole frame of the desktop only the page that is
  touched matters.
* Applications. `Sleep`, `DemandFault`, `Die`, and the syscalls that redraw: `SyscallDraws`
  (the image of any process faults) and `DrawKills` (it does with no frame left, and
  the process that draws is ended). The timer: `Schedule`.

`kmalloc` succeeds or returns NULL; for the kernel stack `create_process` does not look, and
`stack` is then `"null"`. `PreemptAlloc` and `PreemptTest` say whether the
timer may fire inside `pfa_alloc_frame`, and between pid 0's test of `active` and the use
it makes of it (to kill, or to draw): the code masks neither, so the build is `TRUE, TRUE`; the other values
show what holds once they are masked.

`FrameLedger.tla` is the abstract promise: a frame is free or has one owner; it is
taken when free, given back by its owner, and changes hands only when a loaded
program becomes a process that until then had no frame. `ProcMem` implements it under
`ownerMap` (the owner of a set bit is the table it is in): `KeepsLedger`.

### VfsLock - the disk and who may touch it

`VfsLock.tla` models `vfs_lock`, the `is_critical_io` shields, what is in the ATA
registers, and one block bitmap with what the inodes say (`given`).

* A file syscall (4 or 10) is `CallWaits` (shield up, spinning with interrupts
  enabled) and `CallUsesDisk` (one step: interrupts are masked from the test to the
  unlock). `CallDies` is the page fault on the user buffer that finds no frame and
  ends the process there. `PlayAudio` is syscall 12. `Exit` is a death elsewhere.
* Each sector pid 0 moves is two steps, `SendCommand` and the `MoveData` of an action.
* `ext2_copy_file` is `CopyBegins` (the test of the lock), `CopySized`,
  `CopyTakesLock`, `CopyReadsBitmap`, `CopyAllocates`, `CopyMovesChunk`, `CopyGivesUp`,
  `CopyEnds`. The lock is tested before the disk reads that come before it is set.
* The other commands are `CommandBegins`, `CommandReads`, `CommandWrites`; none
  looks at the lock.
* The close button's two loops are `CloseLooks`, `CloseRefused`, `CloseGranted`,
  `CloseKills`, `CloseEnds`. `KillCommand` ignores the shield, as the code does; the
  frees of a kill are ProcMem's subject and one step here.

`Commands`, `Audio`, `FaultInCall` switch on the three behaviours that go round the
lock; the build is all three `TRUE`.

### FreeList - the three heaps

`FreeList.tla` models the first-fit list with splitting and full coalescing that
appears three times: `kmalloc`/`kfree`, `kmalloc_dma`/`kfree_dma`, `malloc`/`free`/
`realloc`. They differ in the header (`Hdr`: 4096 bytes or 12), in when a block is split
(`Slack`: 16 or 4 bytes) and in the DMA boundary (`Boundary`). Addresses are counted
in the unit requests are rounded to (a page, a word), where 16 bytes beyond a whole
number of pages is 0 pages and 4 bytes is one word. `heap` says which of the three the
behaviour is about. Actions: `Alloc`, `AllocFails`, `Free`, `ReallocInPlace`,
`ReallocMoves`. `Fused` says in one expression what the coalescing loop leaves.

`HeapPromise.tla` is the abstract allocator: live regions are inside the heap, apart,
and stay where they are except in `realloc`, which moves a region to a place apart
from the old one (its bytes are copied before it is freed). `KeepsPromise` is the
refinement.

### Ext2 - the file system

`Ext2.tla` models the file system on the disk: `bbits` and `ibits` (the bitmaps), `inode`
(the inode table), `disk` (what is in each block: a list of pointers, a directory, or one
KB of a file, of which only its position in the file is kept). The operations are
sequences of writes, one action per write of a bitmap, a list, an inode or a
directory, in the order of the code:

* creating: `WriteFile` or `MakeDirectory` (the checks; nothing is written), then for each
  member of `plan` `TakeBlock` or `StoreList`, then `TakeInode`, `WriteInode`, `Link`. A place is a
  slot of `i_block`, an entry of the single list, or an entry of a list that the double one points at;
  `plan` is the set of places still to be filled and of lists still to be stored, taken in the order
  `Before`, which is that of the three loops of `ext2_write_file`; `got` stands for its local arrays.
* removing: `DeleteFile`, or `RemoveDirectory` followed by the recursion of
  `ext2_wipe_inode` (`stack`, `WipeEntry`, `WipeSelf`), then `FreeBlock` for each place of `todo`,
  a list behind all that it points at (`Closing`), and `FreeInode`.
* what goes wrong: the disk is full (`TakeBlock` with block 0, `TakeInode` without an
  inode), `kmalloc` refuses a buffer (`Freeing`, `WipeNoEntries`, `WipeNothing`), the power
  fails between any two writes (`PowerFails`: the variables of the operation are lost, the
  disk stays).

`Ext2Dir.tla` has the operators on one directory: the chain of `rec_len`, the insertion
behind the last entry with enough slack, the removal by enlarging the entry before, and
`FirstSector`, since of a directory's block only the first sector is written back. The slack of a hole is
measured without the new name, so `Link` writes a name that is too long for its hole over the inode number of the
entry behind (`Overrun`; any inode of the volume, as a name of 13 characters replaces one byte of the number
by its last character). `ShortNames` says that no name has more than 12 characters, which fit in every hole
that is taken. `Whole` says that the
entries follow one another with room for their names; `TypeOK` of Ext2 asks it of every directory.

`NameTree.tla` is the abstract promise: paths appear and disappear one whole operation at
a time, a removed directory with all that is under it, and a power-off changes
nothing. Its one variable is the set of paths with what is at each; `Ext2` implements it with `paths`
for that set: `KeepsTree`. `paths` are the names along the `Ways` from the root, sequences of links
`<<directory, name, inode>>` each of which starts where the one before ends. `ReachFrom` is the least set that holds the
directories given and whatever a directory in it names. `clean` says that no fault, full disk or lost entry
has happened so far.

### Desktop - the window manager

`Desktop.tla` models `windows[]` (open, type, minimised, `owner_pid`), `window_order`,
`global_active_win`, the armed title-bar button (`pressed`), and of `process_table` the
links: `linked` and `parent` window, and `own`, whether the window is one of its own.

* pid 0's window code is interrupted between the places that the register `k` keeps. Opening: a
  free slot is found (`PickSlot`), `active` and `type` are written (`FillSlot`), then `owner_pid`, and the
  rank is found (`OwnSlot`); until then the slot names whoever owned it last, since closing a window
  resets `active` alone (`Without`). Raising: the order is shifted and the focus moved (`Raise`, in
  `OpenedWindow`, `Restored`, `ClickedWindow`, `ClickedTerminal`, `ClickedApplications`, `ClickedProgram`).
  Minimising: the rank is found, then the order shifted (`Sink`). `BringToFront` includes the
  protection of the two menus.
* The mouse: `PressStart`, `PressBar`, `PressTaskbar`, `PressWindow` (the set of windows
  under the pointer is an input, `Topmost` of them is raised), `ReleaseIdle`, `ReleaseInfo`,
  `ReleaseClose`, `ReleaseMin`. The close button (`ReleaseClose`) goes over the processes in order: for each
  client of the window it closes the client's windows (`CloseWindowsOf`), then ends it (`EndClient`), and closes
  the window itself at the end (`CloseLast`), with the applications running in between. That a shield
  refuses it is VfsLock's subject, the frames it gives back ProcMem's. A click on a program that is
  refused reaches the window below the menu (`ClickGoesBelow`).
* The terminal: `RunGui`, `RunText`, `KillCommand`. The applications, at any place of
  pid 0: `ChildWindow` (syscall 14), `Exit` (syscall 13), `Die`.
* `own` is a history variable too: the window was open, and the program's, when the program was linked to it.
* `torn` is a history variable: syscall 14 has come while pid 0 held a slot or a rank. Then a rank found
  before is used after, and a window may be lost from the order, which the code does
  not prevent; the properties about the order are stated for the time before.

### Keyboard - where a key goes

`Keyboard.tla` models one terminal, one program window with one textbox, one child window
and the programs. `key` keeps what the handler has fetched, found and measured: `KeyArrives`
(the focus, the program of the window, the wake-up), `KeyMailed` (the mailbox, the length of the
text), `KeyEdits` (the shift), then `KeyForProgram` (the test of `waiting_for_input`) and
`ProgramEnter`, `ProgramBack`, `ProgramChar`, `ProgramIgnores` (pages mounted, interrupts off), or
`TerminalBack`, `TerminalInsert`, `TerminalEnter`, or `KeyLost`. `ArrowArrives` is the arrows. Enter empties
the line when its command has run (`TerminalSent`), except that `run` of a corrupt `.edxi` (7902) or of a Ring 0
program (7910) goes on with the next event first and leaves the line as it is (`TerminalRefused`). The
mouse: `Press*` (empties the mailbox, moves cursors and focus), `MouseMoves`, `Release*`; each packet
wakes the owner of `window_order[0]` (`PacketWakes`), which may be any window here. The
programs, in any of these gaps: `Read`, `Yield`, `GetKey`, `Draw`, `ChildWindow`, `Exit`.

`EditLine.tla` is the abstract editor: a text and a cursor in it; insert, delete, move, send (a sent line
may stay, as after a refused `run`).
The terminal's `t_buffer`, `t_len`, `t_cursor` implement it (`TermIsALine`); a textbox does, step by
step, as long as its cursor is in the text (`BoxIsALine`).

### FileStream - antem_libc's files

`FileStream.tla` models the `FILE` structures of several programs (`st`: mode, name, buffer, size,
cursor, and, as a history, how many bytes were loaded), and the disk they are saved on (`disk`: for
each name the size in the inode and the bytes that were stored; `free`: free blocks). `FopenRead`
has the whole of syscall 10 and `ext2_read_file`'s answer, `Fclose` that of syscall 4 and `ext2_write_file`
(`Saves`: a name that exists is refused; the blocks and lists that fit are stored, and the
inode has the full size all the same). `Killed` is a program that ends with a stream open: nothing is
saved. `Remove` is rm.

`ByteStream.tla` is the abstract promise: a file is a sequence of bytes, a stream a copy of it with
a position, zeros in the gaps, and a byte that no block was left for, or that lies behind the limit of
the buffer, is unknown. `FileStream` implements it: `KeepsPromise`.

The `MC*` modules extend these for TLC; each `.cfg` gives the constants.

## 3 The runs

| run | instance | question | answer |
|---|---|---|---|
| `procmem_masked` | 3 processes, 2 frames, 2 pages, both critical sections masked | is each frame in one place (`FrameExclusive`), the bitmap exactly the frames in use (`FramesAccounted`), nothing freed twice (`FreedOnce`), the ledger kept (`KeepsLedger`), a page mapped in the table of a living process only, where there was none (`TablesOnlyGrow`)? | yes |
| `procmem_live` | 3 processes, 2 frames, 1 page, the build, fair | is the context of the CPU not a freed one (`ContextValid`), the kernel heap given back (`HeapReclaimed`), and does the scheduler starve nobody, nor a process that has just been created (`NobodyStarves`)? | yes |
| `procmem_allocrace` | timer inside `pfa_alloc_frame` | `FrameExclusive` | **violated** |
| `vfs_locked` | 3 processes, 2 blocks, 4 chunks, 2 copies; only cp and the file syscalls use the disk | `LockHasOwner`, `LockedDisk`, `BlocksOnce`, `ShieldRespected`, `DiskServed` (every copy ends and every waiter is served) | yes |
| `vfs_build` | same, the build | does a copy keep its lock and write back the bitmap that is on the disk (`CopyExclusive`)? | yes |
| `vfs_unlocked` | with the unlocked commands | `BlocksOnce` | **violated** |
| `freelist` | heaps of 8 pages, 9 pages with a boundary every 4, 16 words; requests up to 3 units | do list and callers agree on every unit (`HeapAgrees`), is it fused (`Coalesced`), `NullMeansFull`, `DmaPlaced`, is the promise kept (`KeepsPromise`)? | yes |
| `ext2` | one group of 9 blocks, 4 inodes, 2 names, lists of 2 pointers, files of 1 KB and of 4 KB (direct, single and double indirect blocks), 1 fault | is what a path leads to marked (`ReachIsMarked`), in one place (`OnePlace`), is everything else free (`NothingLeaks`), is each KB found where it was put (`ReadsWhatWasWritten`), is the tree of names kept (`KeepsTree`)? | yes |
| `ext2_groups` | two groups of 4 blocks | `ReachIsMarked` | **violated** |
| `desktop` | 3 slots, 3 processes, the build | has each slot one rank (`OrderIsPermutation`), are open menus in front (`MenusInFront`), is the terminal the kernel prints to in sight (`KernelTextIsVisible`), is what gets the focus in front (`FocusIsRaised`): these four until syscall 14 opens a window in a gap of pid 0 (`torn`); and does a program whose window was open when it was created keep it until it ends or the close button has come to it (`OwnWindowStays`)? | yes |
| `keyboard` | three systems: a terminal with lines of 2 characters, a textbox of 2, two programs that read lines of 1 | `TermIsALine`; does a command see what was typed (`CommandSeen`); `BoxIsALine`; does a reader get what was typed since it began (`ReadHoldsTyped`); is the buffer of a program that does not wait left alone (`RunningUntouched`); is a key in the mailbox taken by whom it was typed for (`NoGhostKey`)? | yes |
| `filestream` | two streams on one name, buffers of 3 bytes, blocks of 2, 1 direct block and lists of 1; at the start a file of 4 bytes and no free block | `KeepsPromise`; is a file whole when there was room (`WholeIfRoom`)? | yes |

The run `ext2` also checks its module's `TypeOK`, in which `Whole` stands for every scan of a directory;
the type invariants of all components are proved for every size (section 5).

**Why the bounds are enough.** Three slots in `process_table` are pid 0 and two
applications: every race in the code is between pid 0 and one application, or between
two applications of which one gets what the other lost. Two frames and two pages let a
program have one frame by the loader and one by demand paging, be loaded in part when
the pool is empty, and meet another program's frames. (The properties of
`procmem_live` do not ask which frame an entry names: tables of one page, with two frames for
three of them, also meet the empty pool and keep the build's many interleavings small; two of the
three properties are proved for every size.) Two blocks let cp and an application each take one and also meet a full disk;
four chunks make `at` pass the number of processes, so that an off-by-one in cp's loop
shows; two copies let one begin while another's lock is waited for. `MaxCopies` and
`MaxLinks` are the two artificial bounds of VfsLock: the second only caps a counter
that a violation has already made wrong at 2. The heaps are large enough for three
live blocks with headers, for a hole between two of them that does and does not fit a
request, and (DMA) for a free block that begins, ends or straddles a boundary.
The disk of `ext2` has room for one large file (7 blocks with its lists) or for directories and small
files, in any order and nested, and not for a large file beside anything else, so that every operation
also meets a full disk; 4 inodes are the unused first one, the root and two more, so that a directory in a
directory can be wiped; blocks of 32 words and sectors of 16, with names of 1 and 3 words,
let the tail of a directory pass the first sector with its header or with its name only.
One fault (`MaxFaults`) is enough for the invariants, which hold of every state and not of
a clean start. The run uses a `VIEW` that leaves out inodes and blocks nothing points
at: as long as `ReachIsMarked` holds, the code overwrites them before it reads them.
Three window slots are the reserved one and two, so that the table also fills up, an opening finds no slot, a
menu is open beside one window, and a window is left and taken again; two applications besides pid 0 let one
own the slot another is given, be linked to another's window, or exit while the close button has
come to the other. Two menus open beside a window, and larger tables of windows and processes, are left to the
theorems, which state all five properties for any number of both.
`keyboard` has three initial states instead of one large system: each
editor is alone in its own, with the programs that interfere with it (`Limits`). A line of 2
characters has a beginning, a middle and an end to shift at, and two different characters show an
order; a reader's line of 1 character is full after one key. `BoxCells` has two cells beyond the
longest text (the code's arrays have 6 and more): a cursor that has left the text
stops at the last, the one bound in that module. The theorems of KeyboardProofs cover lines of any length
and any number of programs, all editors in one system.
In `filestream` a file of the disk is longer than the buffer and takes 3 blocks (direct, list, listed), so that
removing it frees what two files of different sizes, or one cut short, need; writes go up to the end of the
buffer and past it, and seeks before the start and over a gap. The streams are interchangeable: the run uses
`SYMMETRY`, which is sound because all three properties are safety properties in which no stream is named.
`MaxRequest` bounds the requests of FreeList and is far below the 32-bit width of
`size_t`: the rounding of a size within a unit of 2^32 is a hazard listed, not checked.

Every property of a run that passes is known to be breakable: each has a variant of a definition of the
model, marked "mutant" where it is defined, that is a plausible mistake in that code
(a dropped test, a loop that starts at 1, an error path without the unlock) and that
TLC finds to violate it.

Deadlock is checked everywhere: no state of these models is without a successor, since
the timer always fires.

## 4 Fairness

* `WF(Schedule)`: the timer is hardware; nothing in the system stops it (the code
  never leaves interrupts masked for good, except after the halt modelled as `hung`,
  where the handler's `sti; hlt` loop lets the timer in).
* `SF(KernelWork)`: pid 0 executes instructions whenever it has the CPU, and it has it
  again and again; what it has begun goes on. Beginning something is not fair: it
  takes a user. Strong fairness, because the timer disables the step each time.
* `SF(CallUsesDisk(p) /\ shield[p])`: a process that spins on the lock tests it
  whenever it has the CPU and finds it clear. Strong, because the lock may be set and
  the CPU taken in between; the step must be possible infinitely often, which
  `MaxCopies` makes so: a user who ran cp for ever could starve a waiter, since the
  lock has no queue.

Nothing is assumed of the applications: they may run for ever, sleep, exit or crash.
FreeList, Ext2, Desktop, Keyboard and FileStream state no fairness: what is said of them is safety,
since each of their steps waits for a user or a program.

## 5 The proofs

All are for every number of processes, frames, pages, blocks, chunks and copies,
windows, lines, programs, streams, names and entries of a directory, from the named assumptions on the
constants (`SizesAssumption` of
ProcMem and of Desktop, `PreemptAssumption`, `VfsAssumption`, `HeapAssumption`, `LimitsAssumption`,
`CharsAssumption`, `FileStreamAssumption`, `DirAssumption`, `Ext2Assumption`: sizes are naturals, no
printable character is an editing key or the zero, there is at least
one slot beyond pid 0's, a header or a block is not empty, a name takes 1 to 4 words, the
library's heap has no boundary).

`ProcMemProofs.tla`, with no assumption on the timer but where one is named:

* `TypeCorrect` (`TypeOK`). Not inductive alone: `Control` adds what the program counter
  says of the loop counter and of the target.
* `ContextIsValid`, `HeapIsReclaimed`, from `HeapInv`, the two together with "the stack is
  gone before the frames are". What `ContextValid` asks of whoever may be scheduled is a page table that is
  allocated and a stack pointer that was not freed since `create_process`; that pointer is NULL after a
  refused `kmalloc`, and then it is no stack (`StackIsPrivate`, section 6). One cannot be kept without the other, for the scheduler
  may choose whoever is active and a killer frees what `hasTable` says is there.
* `TablesGrow` (`TablesOnlyGrow`, assuming `~PreemptTest`), from the same: a page fault
  completes `page_directory[256]`, and `ContextValid` says whose table that is; for an
  image, that the process that is drawn is still alive needs the assumption.
* `NothingFreedTwice` (`FreedOnce`, assuming `~PreemptTest`), from `ReapInv`: who is found active has what
  `ContextValid` says, and keeps it, for only the living free anything themselves.

and in its second part, assuming `Masked` (the two critical sections are not
interrupted; without it TLC shows them false):

* `FramesAreExclusive`, `FramesAreAccounted`, from `FrameInv` (a frame is in one entry in
  use, the entries in use are set bits, every set bit has an entry) and `LoadInv` (the
  part of `app_pt` not filled yet is empty, so no entry is overwritten).
  `FramesAreAccounted` also assumes `FilesFit`: a larger file has frames behind its table, which no
  death gives back (section 6). `FramesAreExclusive` does not need it.
* `LedgerIsKept` (`KeepsLedger`, with `FilesFit`): four lemmas say what a step that touches no frame, takes
  one, gives some back, or hands over a table does to `ownerMap`; each action of ProcMem
  falls under one of them.

`VfsLockProofs.tla`:

* `VfsTypeCorrect`; `CopyIsExclusive` (no assumption): a copy keeps its lock, for whoever
  clears it has set it, and nobody sets a lock that is set.
* `LockIsNeverLeft`, `CloseRespectsShield` (assuming `~FaultInCall`): a shield that is up
  means somebody waits, so the lock is set, so pid 0 is inside a copy and not closing
  a window; hence nobody raises a shield between the close button's two loops, and
  what the first has seen (`CloseInv`) still holds in the second.
* `LockedDiskIsPrivate` (assuming `~Audio`), `BlocksAreGivenOnce` (assuming `~Commands`,
  `~FaultInCall`): exactly the assumptions the violation runs show to be needed.

`FreeListProofs.tla`, for every size of heap, header, slack, boundary and request:

* lemmas on one list: `Covered` (each address is in a block), `TakenList` and `FreedList` (taking and
  freeing keep a list that tiles the heap, and the other blocks in use as they are), `FusedList` (the walk
  leaves no two free blocks side by side: the block before a header that was kept is in use).
* `HeapAlwaysAgrees` (`HeapAgrees`), `FreedIsFused` (`Coalesced`), `NullIsFull` (`NullMeansFull`), `DmaIsPlaced`
  (`DmaPlaced`) and `TypeCorrect`, all from `Inv`: list and callers agree, no two free blocks are side by
  side, what was given crosses no boundary, and nothing has become free since a refusal. Fusion is what
  makes `NullMeansFull` true: a gap between blocks in use is then one free block.
* `PromiseIsKept` (`KeepsPromise`): the three allocators implement HeapPromise.

`Ext2Proofs.tla`, for blocks and sectors of any size, and from `Inductive` on for a volume of one group
(`NGroups = 1`: the run `ext2_groups` shows what two do) on which no name has more than 12 characters
(`ShortNames`: the code does not ask for it, and section 6 says what a longer one does), of any
number of blocks and inodes, lists of any length, files of any set of sizes, any number of faults:

* `NewDirIsWhole`, `InsertKeeps` and `NoOverrun` (both with `ShortNames`), `RemoveKeeps`, `SectorKeeps`: each
  thing that is done to a directory leaves it
  `Whole`, and every entry but the one that comes, goes or is cut off keeps its place, name and inode. The hole
  is measured without the new name (3945); that 16 bytes of slack are enough up to 12 characters is `HostIs`.
  That the entry before a removed one is the greatest offset below it (`Removed`) uses that no entry lies
  inside another.
* `TypeCorrect` (`TypeOK`), `Reachable` (`ReachIsMarked`) and `OneOfEach` (`OnePlace`), all from `Inductive`,
  whose invariant `IInv` says more of what the operations hold than of what they have done: `Structure`
  (blocks and names in one place) is asked of `Live`, which is what the root leads to and what is being
  removed, for the recursion still walks that; a removed tree and the reached one are apart (`Removing`);
  the blocks in `got` are marked and in no file (`Taking`), the new inode is marked and named nowhere
  (`HasInode`), the parent is still a directory with room and without the name (`Creating`). The power may
  fail anywhere because none of this is asked of an idle file system but `Structure` and `Marked`. That
  `ReachFrom` is the least closed set (`ReachHolds`, `ReachLeast`) is all the proofs use of it.
* `NothingIsLost` (`NothingLeaks`) and `FilesAreRead` (`ReadsWhatWasWritten`), from `WellAccounted`: as long as
  nothing has failed, every marked block is reserved, reached, or in hand (`InHand`: allocated, or under
  removal and not freed yet), every KB allocated is in its block (`Filling`), and `ext2_wipe_inode` has freed
  all that the frames of its stack have passed but what it is in (`Wiping`). That reading finds place p where
  writing has put position k is `PhysIs`, with the division of `ext2_get_phys_block` in `RowAndColumn`.
* `NamesAreKept` (`KeepsTree`): the detailed model implements NameTree, from `IInv` and `NamedOnce` (no reached
  directory has a name twice). By `IInv` the links of the reached directories are a forest with the root
  (`ForestIs`): so an inode is at the end of one way (`WayOnce`), names lead to one place (`SameNames`), and a way
  is shorter than the inodes are many (`WayIsShort`, a pigeonhole), so that the bound of `Ways` leaves none out.
  `paths` is then the tree of those links (`PathsAre`), and one link more or less is one step of NameTree
  (`TreeGrows`, `TreeShrinks`): `LinkGrows` shows that writing the entry adds one link at most, `UnlinkShrinks` that
  its removal takes one away, and `QuietIs` that every other step keeps the links.

`DesktopProofs.tla`, with no assumption on what is clicked or on when syscall 14 comes
(`FiniteRanges.tla` has the two facts about the largest and the smallest member of a range that
the `CHOOSE`s of a free slot, a rank and the topmost window need):

* `TypeCorrect`, `OrderStays` (`OrderIsPermutation`), from `OrderInv`: the order is a permutation,
  and `RankHeld`, the rank pid 0 found before a gap is still its window's. That a shift of a part of the
  order by one keeps a permutation is the lemma `SlideKeeps`; the protection of the menus, several
  of them, `GuardedKeeps`.
* `OwnWindowKept` (`OwnWindowStays`), from `OwnInv`: besides the property (`OwnHeld`), what a half-done opening
  has claimed (`SlotUnused`: nobody has the slot for its own; `PidUnused`: nobody has the pid yet), that the
  close button has no client left behind it (`Scanned`) and that the menus belong to the kernel
  (`MenusAreKernels`), for a menu is closed without asking who owns it. It is about the programs whose window
  was open when they were created, until they end or the close button has closed their windows
  (`BeingClosed`); for these it holds in the gaps of pid 0 too, `torn` or not. A program may begin without its
  window, closed between 1816 and 1833 by the exit of whoever had the slot before (`NewWindowIsOpen`, section 6).
* `BringOrder` and `SunkOrder` say who is ahead of whom after `bring_to_front` (the menus it protects
  included) and after minimising; that no slot is left out of a permutation (`EveryRanked`) is the pigeonhole
  of FiniteSetTheorems.
* `FocusIsFirst` (`FocusIsRaised`), from `MoveInv`: `OrderInv` and `RankKnown`, pid 0 raises no window
  without a rank.
* `MenusStayInFront` (`MenusInFront`), from `MenuInv`: there is one menu of each type; while one is open
  nothing but the applications menu is opened by the kernel, nothing is minimised and no button is armed; and a
  menu has the first rank, so a window that syscall 14 opens meanwhile gets another one and never goes before it;
  the slot of a menu that has come to the front names no program, so no exit closes it half-way.
* `KernelTextShown` (`KernelTextIsVisible`), from `TextInv`: the terminals that can be seen are ahead of the
  minimised ones, so the first that `get_active_term` finds in the order is in sight if any is.

`KeyboardProofs.tla`, for lines of any length and any number of programs, in any of the gaps of the handler:

* `TypeCorrect`, from `Base`: the cursor of the command line is in it, and the last cell of a textbox is
  never written, so `get_str_length` always ends.
* `BuffersAreSafe` (`RunningUntouched`), from `KeyInv`: a program the handler is about
  to write to waits, and goes on waiting: only the handler and the mouse, both of pid 0, wake it.
* `KeysReachTheirReader` (`NoGhostKey`), from `MailInv`: what lies in the mailbox is for every
  program of the window in front, since a press empties it and a program started later finds it empty.
* `LinesAreRead` (`ReadHoldsTyped`), from `ReadInv`: the buffer of whoever waits holds what was typed since its
  read began. `TerminalEdits` (`TermIsALine`) and `CommandsAreSeen` (`CommandSeen`), from `TermInv`: the
  shifts about the cursor insert and delete in the list of characters (lemmas `Inserted`, `Deleted`), and
  behind the line there is a zero (`StrLenIs`). A command sees the line that was edited; that it begins
  empty is not said, for a refused `run` leaves the old one (`EnterEmpties`, section 6).
* `TextboxEdits` (`BoxIsALine`), from `BoxInv`: the length measured before the gap is still the text's unless
  the program has drawn.

`FileStreamProofs.tla`, for all sizes of buffers and blocks, any number of streams and names:

* `TypeCorrect`, from `Inv`: a writer's buffer is zero behind its text (why a gap reads as
  zeros), what was loaded is no longer than the file (`FILEInv`), what is stored no longer than the
  size (`FileInv`).
* `PromiseKept` (`KeepsPromise`): every operation of the library, with the syscall and the
  file system behind it, maps to one of ByteStream or to a stutter.
* `WholeWithRoom` (`WholeIfRoom`), from the same invariant and the arithmetic of blocks and lists.

Model-checked only: the liveness properties (`NobodyStarves`, `DiskServed`), which TLAPS does not cover. Every
other property of a run that passes is stated by a theorem.

## 6 Findings

Each of the first three is a run that violates what the repository says of itself.

1. `procmem_allocrace`: `pfa_alloc_frame` tests (kernel.c:4918) and sets a bit with interrupts
   enabled when pid 0 loads a program; a demand fault in between gets the same frame.
2. `vfs_unlocked`: create, mkdir, rm, rmdir never take the lock.
3. `ext2_groups`: `ext2_free_block_safe` counts the blocks of every group from the bitmap of
   the first (kernel.c:4319). A block of the second group clears a bit of what comes after
   that bitmap, the inode bitmap (on a disk made without flex_bg): the next creation takes
   an inode that is in use, the root's to begin with. With `NGroups = 1`
   the same property holds (`ext2`).

Six more the models contain; each is a property that TLC finds violated when it is put in a configuration with
the constants named, for the code does nothing to keep it.

| property | configuration | what happens |
|---|---|---|
| `FramesAccounted` | `ProcMem_masked.cfg` with `MaxProcesses = 2`, `NPages = 1`, `MaxNeed = 2` | The number of frames of a file (7863, also 6773 and 6961) is not compared with the 1024 entries of `app_pt`, nor do the loops that free a process look further (5080, 5253, 7057, 7995; "tutti i mattoncini", 5078): a file of 4 MB or more writes past its table, and those frames are lost. |
| `StackIsPrivate` | `ProcMem_masked.cfg` with `NPages = 1`, `MaxNeed = 1` | `create_process` does not check the allocation of the kernel stack (5109, "4KB di Stack privato"): with the heap exhausted two processes have theirs at address 0. |
| `MemoryIsolated` | `ProcMem_masked.cfg` | The loaders map what `pfa_alloc_frame` returns without looking at 0 (7867): with the pool exhausted programs share page 0, writable, against the isolation that README.md:26 of the repository promises. |
| `ReachIsMarked` | `Ext2.cfg` with `Names <- LongNames`, `NameWords <- LongNameWords`, `NInodes = 6`, `Sizes = {1}`, `MaxFaults = 0` | A hole of more than 16 bytes is taken for any name (3945). When the tail of a directory has passed the first sector, a name of 13 characters or more may get a hole too small for it and is written over the inode number of the next entry. (Names of 12 and 8 characters fill the sector to its last word, a third entry is lost behind it, so that the hole a removal leaves is the last with room.) |
| `NewWindowIsOpen` | `Desktop.cfg` | `open_window` sets `active` (1816) and `owner_pid` (1833) with interrupts enabled. A program that had the slot before, for a second window that the close button has closed, and exits in between closes the window of the new program (5875). |
| `EnterEmpties` | `Keyboard.cfg` | After a `run` of a corrupt or Ring 0 program the line is not emptied (7902, 7910 skip 8282-8283): the next command is appended to it. |

Met on the way and not the subject of a run.

*Processes and disk.*

* A process that exits between pid 0's test of `active` (kernel.c:7989) and its reset (7990) is freed
  twice: `FreedOnce` fails with `PreemptTest = TRUE`. In the same way `render_desktop` looks for the
  owner of an image (2753) before it switches interrupts off (2762) and then reads its table, where the
  comment says "Ora possiamo leggere l'immagine in totale sicurezza" (2768): `TablesOnlyGrow` fails.
* A process ended inside a file syscall by a fault on its buffer leaves the lock set (5337, against the
  comment at 5601): `LockHasOwner` and `DiskServed` fail with `FaultInCall = TRUE`. Syscall 12 reads the disk without
  the lock: `LockedDisk` fails with `Audio = TRUE`.
* The comment at 5027 says 64 KB where the code tests 128 KB. A page fault of pid 0 in an application's
  buffer with no frame left halts pid 0
  (`KeyToAppHangs`).
* An entry beyond the first sector of a directory is never written, though the operation answers 1
  (4100); rmdir with a path that ends in `/.` or `/..` wipes that directory, the root too, though 4653
  means to prevent it; a file that meets the full disk among its indirect blocks is written in
  block 0.

*Windows.*

* Syscall 14 inside pid 0's `bring_to_front` may lose a window from the order (`torn`).
* `pressed_window_id` survives the window and acts on who has the slot next; the windows of a program that
  crashed stay, and a click on them reaches a new program of that pid; a click reaches a window
  that is still being opened; the close button closes the windows of a program before it ends it (7048, 7053),
  so that the program may run without them; a text program is linked to whatever window is first in the order.
* `focused_window_id` is not cleared when the window is closed; a minimised terminal that has the focus
  lets the keys edit another one.

*Keyboard.*

* A redraw with a shorter text leaves the cursor of a textbox beyond its end: characters then typed are
  stored behind the zero and not seen, and the cursor walks past the array (7318-7329).
* A program that yields keeps the buffer of its last read, also the one of an earlier process with its
  slot: keys are written there and Enter wakes it (7337, against the comment at 5660).
* The exception for the start menu in syscall 8 (5757-5765) never delivers a key, and child windows get none;
  keys typed between reading a textbox and drawing it are lost; keys typed while the button is held on the
  info icon come out after it (comment at 6365); an arrow with no focus reads `windows[-1]`.

*Streams.*

* Saving over a file that exists is refused (-1) and fclose reports success; the kernel prints "API: File
  salvato su disco!" too, since it takes -1 and -2 for true (5610). So fopen "w" on such a file keeps
  the old content. A stream closed empty becomes a file of one zero byte (stdio.c); an empty file of the image is "missing".
* On a full disk the file is short and its inode has the full size. Of a file longer than the
  buffer fopen believes the size in the inode (comment at 5813: "grandezza esatta"), and fread goes on
  behind the buffer; fseek refuses the very end that ftell may return.
* A name of more than 63 characters is cut when it is saved and not when it is loaded. A size within a
  unit of 2^32 is rounded to 0 (stdlib.c:62).

## 7 What is not modelled

* Drawing (fonts, icons, cursor, the render loop's pixels): no other part reads it.
* Boot, GDT/IDT/TSS/PIC/PIT set-up, `boot.S`: executed once, before any concurrency;
  its result is `Init`.
* ATA time-outs, error status, LBA48 addressing: hardware; VfsLock has the two
  phases of a transfer and nothing of its content.
* The content of frames, files and messages; parsing of command lines and paths.
* The sample applications, and TinyCC (vendored).
* In ProcMem: what is behind a page table that a load runs past.
* In Ext2: files and directories of mke2fs other than the root, names longer than 16
  characters (which overwrite more of the next entry than its inode number), rmdir of `.` and `..`, disk
  errors, what is in a file beyond which KB it is.
* In Desktop: where windows are and how large, dragging, the content. In Keyboard: scan codes, the
  parsing of commands, the y/n question; one terminal and one program window stand for all.
* The AC97 ring against the hardware index, and the timer inside pid 0's own `kmalloc`: see the plan.

TinyCC is about 34 000 of the repository's 42 700 lines of C, and drawing and boot are most of the rest that is
left out, so the definitions of this project can stand for a small share of the lines only. Of the hazards
`PROJECT.json` lists, those without a property (the directory sector, the walk of the free list with
interrupts enabled, and the others) say why in their note.

## 8 The plan

In order of importance; each is written with CONSTANTS and assumptions, one action
per operation, invariants as conjunctions, so that it can be proved about.

1. Ext2, continued: two operations at once, as VfsLock's commands run them.
2. Keyboard, continued: the y/n question of rm as a third editor of the terminal's buffer.
3. `Ac97Ring`: the descriptor ring against the hardware index; stop and restart.
4. `HeapRace`: the timer inside pid 0's walk of the kernel heap.
