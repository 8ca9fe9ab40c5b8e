# XJTU-OS in TLA+

A verification development kept beside the operating-system course project
XJTU-OS: TLA+ models of its concurrent and algorithmic parts, TLC runs that check
them on small instances, and proofs, checked by TLAPS, for every instance.

## 1. The system

The repository holds three labs; each program stands alone.

| Component | Code | State | Operations | Interaction |
|---|---|---|---|---|
| Character device driver | `Lab 3/Code/ch_device.c` | one global `dev`: semaphore, wait queue, `flag`, ring buffer with `rd`/`wr`, `private_chat_pid`, `read_count`, `total_readers`, list of readers | `open`, `read`, `write`, `release` | shared state of all processes, semaphore, wake-ups |
| Chat client | `Lab 3/Code/ch_test.c` | none of its own | parent opens for writing and loops on `write`, forked child opens for reading and loops on `read` | system calls into the driver |
| Memory allocator | `Lab 2/Code/memory_in.c` (`memory.c`: the same without requested sizes) | free list, allocated list, totals, algorithm, pid counter, `flag` | menu: set size, choose algorithm, new process, kill process, display, exit | sequential |
| Page replacement | `Lab 2/Code/page.c` | page table, circular queue (FIFO) or frame array and clock (LRU), fault counter | set parameters, make a reference string, FIFO, LRU | sequential |
| Pipe demo | `Lab 2/Code/pipe.c` | a pipe and a record lock on it | two children write under the lock, the parent reads after both ended | processes, lock, pipe |
| Signal demo | `Lab 2/Code/sig.c` | `flag`, signal dispositions, pending signals | parent waits for a signal or an alarm, then signals two children that pause | signals |
| Spin lock | `Lab 1/Code/spinlock.c` | lock word, shared counter | lock, unlock, increment by two threads | shared memory |
| Thread demos | `Lab 1/Code/thread0.c`, `thread1.c`, `thread2.c` | shared value, a pthread mutex in `thread1.c` and `thread2.c` | add and subtract by two threads | shared memory |
| Process demos | `Lab 1/Code/process0.c` .. `process4.c`, `system_call.c` | copied variables | fork, wait, exec, system | parent and child |
| System-call hook | `Lab 3/Code/modify_syscall.c` and its two test programs | one entry of the system-call table, the protection of the read-only kernel data (set with `update_mapping_prot`) | load: replace the entry, unload: restore it | kernel and callers |
| File system: allocation | `File System/src/Ext2.cpp` | super block, group descriptor, block and inode bitmaps, last-allocated hints | allocate and free a block or an inode | buffers loaded from and written to a disk file |
| File system: directories | same | directory blocks, inodes, current directory | `mkdir`, `rmdir`, `touch`, `rm`, `cd`, `ls`, `chmod` | allocation, open table |
| File system: open table and contents | same | open table, data and index blocks | `open`, `close`, `read`, `write`, `append` | directories, allocation |
| File system shell | `Shell.cpp`, `Shell.h`, `main.cpp` | command line | parse a line, call one operation | calls into the file system |

What is hard, and what makes each of them correct:

- **Driver.** `open` and `release` touch `total_readers`, `read_count` and the list
  without the semaphore; `read` evaluates its wait condition and its spin loop
  without it; `write` sets `flag` and wakes the readers after giving it back; waits
  are interruptible; two error returns of `write` do an `up` without a `down`.
  Correct is: no permit is lost, critical sections exclude each other, `rd` and
  `wr` stay in the buffer, a broadcast reaches every reader, a private message only
  its addressee, nobody sleeps through a wake-up, every call returns.
- **Allocator.** Long command sequences mix splits, whole-block takeovers, merges
  and compactions under three list orders. Correct is: memory is tiled, free
  neighbours are merged, the list order fits the algorithm, the totals are the
  sums, a request is met from the preferred block and refused only if memory
  does not suffice.
- **Page replacement.** The circular queue and the counter scan are easily off by
  one. Correct is: FIFO evicts the page loaded first, LRU the one used longest ago,
  the set of flagged pages is the set of pages in frames.
- **Pipe, signals, threads.** Interleavings; signals lost before `pause`; updates
  lost without a lock. Correct is: no lost update under a lock, no sleeping for ever.
- **File system.** Shared one-block buffers that every helper reloads, a bitmap
  freed by flipping, a cyclic scan, indirect blocks. Correct is: a block has one
  owner and is marked, free counters agree with bitmaps, what was written is read.

`PROJECT.json` lists, at its line, every hazard found in this code and the
properties that would catch it going wrong.

## 2. Modules

| Module | What it is |
|---|---|
| `CharDevice.tla` | the driver and the processes of the chat client, step by step |
| `CharDeviceMC.tla` | the symmetry TLC uses for it |
| `DeviceSemaphore.tla` | what the driver needs of its semaphore |
| `CharDeviceProofs.tla` | type correctness, the refinement of `DeviceSemaphore`, mutual exclusion, pointer bounds, the ring as a queue, broadcasts that wake everybody, calm rounds that reach everybody |
| `MemAlloc.tla` | the allocator with its two lists, one action per menu command |
| `MemPartition.tla` | what the allocator promises: sets of free and owned blocks |
| `ListLemmas.tla` | induction over numbers and lists, what a fold computes, insertion and removal, sums over lists |
| `MemAllocProofs.tla` | every property of the allocator, and that it implements `MemPartition` |
| `PageReplacement.tla` | FIFO and LRU of the simulator with their queue, frames, counters and page table |
| `PageReplacementProofs.tla` | its types, flags against frames, LRU by its definition, LRU's fault count and the absence of Belady's anomaly, and that it implements `Paging` |
| `Paging.tla` | what the two algorithms promise: the set of resident pages and the page that leaves |
| `Ext2Volume.tla` | the volume of the file system as a record, and the helpers that change it |
| `Ext2.tla` | the commands of the file system, one action per command |
| `FileTree.tla` | what the commands promise: a tree of directories and files, a current directory, open files |
| `Ext2MC.tla` | file modes for TLC |
| `Ext2VolumeProofs.tla` | what the helpers do to a sound volume: owners of blocks, counters, directories, paths |
| `Ext2Proofs.tla` | every safety property of the file system, and that it implements `FileTree` |
| `Threads.tla` | the four thread programs of Lab 1, load by load |
| `PipeDemo.tla` | `pipe.c`: two writers, a record lock, one reader |
| `SignalDemo.tla` | `sig.c`: a parent and two children, signals at any moment |
| `SyscallHook.tla` | `modify_syscall.c`, loaded and unloaded step by step |
| `LabPrograms.tla` | these four beside each other, one of them running |
| `LabProgramsProofs.tla` | every safety property of these four, for every number of rounds, bytes, keys and loads |

### CharDevice

One process per reader and one per writer; `pc` says where in the driver it is. The
variables are the fields of `struct globalvar`, `reg` and `count` the values a
process holds in a register or a local. The rule for splitting code into steps: every access
outside the semaphore is a step, and `x++` or `x--` there is a load and a store. Code
under the semaphore is one step as long as it touches nothing that others use without
it. Of what is read without it (`flag`, `private_chat_pid`, `read_count`) every store is a
step of its own, and of what is written without it (`read_count`, `total_readers`, the
list of readers) every load as well: `CountBroadcast`
and `CountStore` are `read_count++`, `CountTest` and `CountDecide` the comparison
that loads `read_count` and then `total_readers`, `FinishBroadcast` and
`FinishFlag` the two resets in their order, and `TakePrivate` clears `flag` before
`ClearPrivate` clears `private_chat_pid`. The one exception is the condition of the
wait, which is evaluated in one step.

| Code | Actions |
|---|---|
| `globalvar_open` | `Open` (load), `OpenStore`, `OpenAdd` |
| `globalvar_read`, spin loop | `Read`, `SpinFlag`, `SpinCount`, `SpinDown`, `SpinUp` |
| `globalvar_read`, wait | `WaitTest`, `Interrupt` (a signal) |
| `globalvar_read`, locked part | `ReadDown`, `ReadCopy` or `ReadFault`, `CountBroadcast`, `CountStore`, `CountTest`, `CountDecide`, for the last reader `FinishBroadcast` and `FinishFlag`; or `TakePrivate`, `ClearPrivate`; `ReadUp` |
| `globalvar_write` | `Write` or `WriteFault`, `WriteDown` or `WriteInterrupt`, `WriteReject`, `WriteGetUserFault` or `WriteAccept`, `WriteBody` or `WriteOverrun`, `WriteUp`, `WriteFlag`, `WriteWake` |
| `globalvar_release` | `Release` (load), `ReleaseStore`, `ReleaseTest`, `ReleaseDec`, `ReleaseList`, `ReleaseLast`, `ReleaseClear`, `ReleaseFlag` |

Abstractions. A byte of the buffer is the number of the message it came from; a
message is its header (plain, malformed, `@0`, `@pid`) and the length of its body.
The list of readers is a set and changes in one step (the pointer writes of two
unlocked list updates are not interleaved). The field `length` is written but never
read, so it is left out. `strcpy` writes the whole body, however little room there is
(`WriteBody`: unread bytes may be overwritten). Behind the buffer come its spare
byte, `Padding` bytes (7 on 64 bits, with `MAXNUM` 101: `buffer` ends at an odd
address) and then `rd`, `wr` and `end`; `ch_test.c` reads bodies of up to 99 bytes, so
a message sent when `wr` is far enough along runs over these fields (`Overruns`,
`WriteOverrun`). `rd` is then somewhere in `Wild`, and no later step is described: the
behaviour of C ends there. `Intact` says that it has not happened. What the properties
say of the ring is said of the states before it. The bytes `kmalloc`ed and not
freed are not modelled, nor `kmalloc` failing in `open` (its result is used
unchecked) nor module loading and unloading.

### DeviceSemaphore

Permits, their holders and the number of stray `up`s. `Conserved` says that free
and held permits are one plus the stray ones, `Exclusive` that without stray ones
there is at most one holder. `CharDevice!SemaphoreSpec` is this
specification with `permits <- sem`, `holders` the processes between `down` and
`up`, `stray <- strayUps`.

### MemAlloc and MemPartition

`free_block` and `allocated_block` are the linked lists as sequences. A menu command
is one action, with everything it calls: `new_process` is `new_process` in C with
`allocate_mem` and its trailing `rearrange`; it has one action per outcome (a block
fits; compaction makes one that fits; compaction does not help; the compaction
dereferences `NULL`). The program's own `malloc`s (`memory_in.c:494`) do not fail. `kill_process` includes `free_mem`: append, sort by address,
merge, sort back. `Rearrange` reproduces the three insertion sorts, with what they
do to equal keys. Sizes the user enters are positive (otherwise the code uses an
uninitialised field).

`MemPartition` has no lists: `Place` takes the block the policy prefers among those
that fit, a compaction may pack the processes in any order, `GiveBack` merges
neighbours. It compacts only if the free memory suffices together, as the comments
in lines 346 and 390 have it. The code compacts first and asks afterwards, so one
step of the code is not of `MemPartition`: `FutileCompaction`, a compaction before a
refusal. `ImplementsPartition` says that it is the only one, and that even it loses
nothing; that it happens at all is what the run `MemAlloc_futile` shows.

### PageReplacement and Paging

An initial state is `main` with its parameters set and an algorithm about to run; a
step is one turn of the loop of `FIFO` (`FIFO_hit`, `FIFO_fault`) or of `LRU`
(`LRU_hit`, `LRU_load`, `LRU_replace`). The reference string is random or typed in, so
a page is chosen when the loop looks at it and all strings are covered. `loaded`
is a history variable, the time a page last came in, which FIFO keeps only as a
position in its queue. Pages typed in are below the size of the table (the code
does not check). `release` frees the locals at the end and changes nothing else.

`Paging` has the set of resident pages and a stamp for each page, renewed at every use
(LRU) or at loading only (FIFO); a fault with all frames taken replaces a page with
the oldest stamp. `ImplementsPaging` maps the flags of the page table to the
resident set. `LruFaultCount` speaks of `diseffect`, the number the program prints its
ratio from, without any memory: a reference is *far* for `n` frames if its page is new
or `n` other pages were used since its last use, and LRU counts exactly the far
references. Since a reference that is far for many frames is far for fewer, more
frames never count more: there is no Belady anomaly under LRU.

### Ext2Volume, Ext2 and FileTree

A volume is a record: the two bitmaps as sets, the free counters, the byte of the last
allocation (all the scan uses of it), the inodes and the data blocks. A block is
`DIR_ENTRY_NUM_PER_BLOCK` cells of 16 bytes, the size of a directory entry; text is
written in whole cells. A helper of the code is an operator from volume to volume
(`allocDataBlock`, `freeDataBlock`, `preProcess`, ...), so that a command is a
composition of helpers in the order the code calls them.

| Code | Definitions |
|---|---|
| `allocDataBlock`, `allocInode` | `NextFree`, `allocDataBlock`, `allocInode`; `create_hangs` and `write_ends` when no free bit is in reach of the scan |
| `freeDataBlock`, `freeInode` | `Flip`, `freeDataBlock`, `freeInode` |
| `searchFile`, `searchInTable` | `Matches`, `First`, `searchFile`; `searchInTable` |
| `ext2_mkdir`, `ext2_touch`, `preProcess` | `AddEntry`, `preProcess`, `Create`, `mkdir`, `touch` |
| `ext2_rm`, `ext2_rmdir` | `RemoveFile`, `RemoveEmpty`, `rm`, `rmdir_empty`, `rmdir_in_root`, `rmdir_elsewhere` |
| `ext2_cd_impl` | `cd_down`, `cd_up` (a path is split at `/` and taken name by name) |
| `ext2_open`, `ext2_close`, `chmod_impl` | `open`, `close`, `chmod` |
| `ext2_write`, `ext2_read` | `WriteText`, `write`, `write_ends`; `ReadText` (it changes nothing) |
| `Shell::run` | `Next` |

The one-block buffers are not state: every command loads them before use. Where a
callee reloads a buffer its caller goes on using, the action uses what the callee
left: `Held` is such a case.

Some calls hang, crash or corrupt the volume. `kept` is a history variable, TRUE until
the first of them, and the conjunct `kept'` of an action is the contract the code
needs. It is stated of what the command is given, never of what it does:

- `mkdir`, `touch`: the entry finds a slot (`EntryFits`), and a free block and inode are
  in reach of the scan (otherwise `create_hangs`);
- `rm`: the file is not open, and no block of the directory but the first loses its last
  entry (`BlocksInUse`: such a block would be freed and stay in the directory);
- `rmdir`: an empty directory has one block; one that is not empty is outside the root
  and holds closed files only;
- `cd`: the path fits `current_path` (`PathLength`, `PATH_ROOM`): the code appends to a
  `char[256]` without looking. Behind the prompt `[xjtu-os007@path: /` and with the final
  0 there is room for 236 characters;
- `open`, `close`: the slot is not the last one of the table, and no other open file has
  the name;
- `write`: the file may be written, and the text fits the direct blocks and the disk.

No command follows a breach, and the properties speak of the states before
it. What the volume looks like after a breach is not described, so `TypeOK` types it
(`VolumeOK`) only while the contract is kept: a `rmdir` of a directory
deeper than the model's recursion follows inode numbers that no inode has. Within
the contract `Ext2` implements `FileTree`, in which directories and files
are paths and a command is a line. `shown` is the tree that `cd` and `read` show,
kept as a history variable so that it is computed once per step; `commands` bounds
the run.

Abstractions. A freed block keeps its bytes; of these only whether a cell looks used
is seen again (by a directory made in it), so `Remains` keeps only that. Times,
`record_len` and the length of names (0 or not 0) are left out. `Names` do not
include `.` and `..`. `ls` and `ll` only print. The disk file is opened with
`w+`, so every start makes a new volume and there is no recovery to model.
`rmdir` of a directory that is not empty is modelled outside the root, for
directories of one block with empty subdirectories, where the recursion is one deep.

### Threads

`program` is the executable that was launched; `mainPc` and `threadPc` say where its
`main` and its two threads are, `reg` what a thread has loaded, `done` how many
rounds it has completed.

| Code | Actions |
|---|---|
| `main` | `LaunchThreads`, `Create` (which may fail; nobody looks at the result), `Join`, `JoinAbsent`, `PrintValue` |
| `spinlock_lock`, `pthread_mutex_lock` | `Lock` |
| `shared_value++`, `value += 100`, `value -= 100` | `Load`, `Store` |
| `system` in `thread2.c` | `RunCommand` |
| `spinlock_unlock`, `pthread_mutex_unlock` | `Unlock` |

100 is the unit of `value`. A build of `thread0.c` may keep its whole loop in a register:
its outcomes are among those of the model, where nothing happens between a
thread's rounds. Joining a thread that was never created reads an
uninitialised id, hence the two outcomes of `JoinAbsent`.

### PipeDemo

`pipe` and `inPipe` hold, for every byte, which child wrote it. A byte is a step
(`WriteByte`), and so are the lock, the unlock after the five seconds, and the
exit. The parent's `lockf` calls are on the reading end, where the kernel refuses
them, and have no action. What a child waits for after its bytes is the clock:
the comment in line 21 says it waits for the reader, which would block everybody, since the
parent reads only after both children have ended.

### SignalDemo

`sigPc` and `disposition` exist once per process, since `fork` copies them, and
`installs` counts the `signal` calls a process has made. `Key` is Ctrl+C or Ctrl+\,
which reaches every process of the terminal's group, at any moment after the
launch; `AlarmRings` the five seconds of the parent; `Kill` its two `kill` calls. A
handler ends a `pause` only if the process is in it (`Hit`): the test of `flag` and
the `pause` after it are two steps, and so are a child's last `signal` call and its
`pause`.

### SyscallHook

`insmod` and `rmmod` are cut where the table, its protection or the module's data change:
`Insmod` or `Rmmod`, `FindTable`, `UnprotectMemory`, `WriteEntry`,
`ProtectMemory`, `Return`. Which symbols the kernel exports is chosen once, at the
start: the protection function and the ends of `.rodata` together, as
`mymodule_init` gives up if one of them is missing, and the table by itself.
`entry` is where a program's call 169 goes.

### LabPrograms

The programs of the four modules have nothing in common, and each runs alone. This
module only puts them beside each other, so that one run checks all four: the
first step of one keeps the others from starting.

## 3. Runs

| Run | Instance | What it shows |
|---|---|---|
| `CharDevice_safety` | 2 readers that may leave or be killed at any time, 1 writer, buffer of 2 and 1 byte of padding, bodies up to 3 bytes, 2 messages, plain or `@pid`, 1 fault | types, permit account, mutual exclusion, semaphore refinement, pointer bounds, undisturbed broadcast rounds |
| `CharDevice_liveness` | 2 readers that stay, 1 writer, buffer of 3, bodies up to 1 byte, 2 messages, `@0` or malformed, fairness | no lost wake-up, a write returns, a reader past its wait returns, the ring is a queue |
| `CharDevice_private` | 2 readers, 1 writer, a broadcast and a private message | **violated**: a private message taken by another reader |
| `CharDevice_broadcast` | 2 readers, 1 writer, one broadcast, fairness | **violated**: a reader that never gets a broadcast |
| `MemAlloc` | memory of 8 or 12 units, requests of 1, 2, 3, 5, slice 2, at most 5 processes | types, tiling, coalescing, list order, totals, refinement of `MemPartition` |
| `MemAlloc_crash` | memory of 6 or 9 units, the same requests, at most 4 processes | **violated**: a request ends the program |
| `MemAlloc_futile` | the same | **violated**: processes are moved for a request that is then refused |
| `PageReplacement` | tables of 3, 4 and 6 pages, 1 to 3 frames, every string of up to 7 references, FIFO and LRU | types, flags against frames, LRU by its definition without counters, its fault count by the same, refinement of `Paging` |
| `Ext2` | 3 entries per block, 7 blocks and inodes of which the scan reaches 6, 2 direct blocks, open table of 3, names `a` and `b` (one of 1 character, one of 3), room for 8 characters of path, texts of 2 and 3 blocks, 6 commands and any number of `cd` | types, block ownership, entries against inodes and `..`, open table, refinement of `FileTree` |
| `Ext2_rm` | 8 entries per block, 17 blocks and inodes, 4 commands | **violated**: `rm` of an open file frees the directory's blocks |
| `LabPrograms` | 3 rounds per thread, 3 bytes per child and a pipe of 6, 2 keys, 3 loads of the module, fairness | types; mutual exclusion, no lost update, the band of the race; bytes kept apart and all read; children woken by their parent only and never left behind; the hooked entry follows the module and is never written while read-only; threads, pipe and paused family come to their ends |
| `Signals_lost` | 1 key, fairness | **violated**: a child that is signalled before its `pause` does not end |

**Bounds.** Two readers and one writer are the least number for which counting,
being woken for somebody else's message and the unlocked updates of
`total_readers` race; a second reader already gives every pair of unlocked steps.
Two messages are needed for a message to overtake a round. In a buffer of two with a
byte of padding and bodies of up to three both pointers wrap, a message fills the
buffer, one is cut and stays in the padding, and one runs over the fields behind. In a
buffer of three a second body goes behind the first while readers count. One fault reaches every error path. In the allocator
five processes suffice for three holes between processes, exact fits, takeovers,
and compaction both with and without success; 12 units and a slice of 2 put
requests on both sides of each boundary. Seven references fill three frames, turn
the queue of four cells more than once round and bring back a page that has left.
With three entries per block a directory
needs a second block after one entry, a block can be emptied and returned, and an
entry can miss every slot; two-bit bytes and six reachable bits let the scan wrap
and run dry; six commands fill the directory of the root, go one level down and
remove what was made, or write, remove and make a directory in the block that held
the text; four directories `a` or two `b` below each other just fill the path, and the
next `cd` does not fit. Three rounds let a thread sleep on an old value while the other does two of its
own and starts a third, the least with which a lost update undoes several; the
proofs cover the 5000 and 100000 of the code. Three bytes give every
child a first, a middle and a last one, and a pipe of six is the smallest that holds
both; two keys hit the parent twice, before and in its `pause`; with three loads
the module comes back after two unloads. Bounds in guards: `MaxMsgs`, `MaxFaults`,
`MaxPid`, `MaxRefs`, `MaxCommands`, `Rounds`, `Bytes`, `MaxKeys`, `MaxLoads`.

**Fairness.** `FairSpec` assumes that a process inside a system call runs on (weak
fairness of the steps it takes by itself: the kernel schedules it), that a process
blocked in `down_interruptible` gets the semaphore if it is free again and again
(strong fairness of the `down`s: kernel semaphores serve waiters first in, first
out) and that the reader of `ch_test.c` opens the device and calls `read` again.
Nothing is assumed of a writer's next message, of a reader's leaving, of faults or
of signals.

`ThreadsFair`, `PipeFair` and `SignalFair` assume that the kernel runs every process and
thread that can take a step (weak fairness of each) and that the alarm rings. The
spin lock promises nobody a turn; weak fairness suffices all the same, because the
other thread's rounds are finite and the flag stays clear after the last. Nobody has to
type, and nothing is assumed of `insmod` and `rmmod`.

**Deadlock** checking is off for the driver, whose readers sleep for ever after the
last message, for the allocator, which exits, for the pager, whose string ends,
for the file system, whose program may hang or crash, and for the programs of
`LabPrograms`, which end.

## 4. What the violated properties say

- `PrivateStaysPrivate` (`ch_device.c:61`): the wait condition is evaluated without
  the semaphore and `private_chat_pid` is not looked at again after `down`. A
  reader woken for a broadcast finds another reader's private message there and
  takes it. `Lab 3/Readme.md:116` says only the process with that pid is woken.
- `BroadcastReachesAll` (`ch_device.c:52`): a reader that calls `read` after another
  has counted spins until the round ends, and the round waits for it.
  `Lab 3/Readme.md:114` says that every process can read the message.
- `AllocationAnswers` (`memory_in.c:393`): a request that no block fits when
  nothing is free, or nothing allocated, dereferences `NULL`; the comment at line
  348 promises 1 or -1.
- `MovesOnlyToPlace` (`memory_in.c:391`): a request larger than all free memory moves
  every process and is then refused. The comments at lines 346 and 390 compact only if
  the free sizes suffice together.
- `RmLeavesTheDirectory` (`Ext2.cpp:705`): for an open file `rm` calls `ext2_close`,
  whose search loads the current directory into the inode buffer; lines 707 and 708
  then free the blocks of that buffer. The comment at line 696 and the help text
  (`Shell.cpp:97`) speak of deleting the file.
- `KillEnds` (`sig.c:66`): signal 17 is ignored until the child has installed its
  handler, and after that a signal before the `pause` runs the handler and leaves the
  child asleep; the parent then waits for ever. A key typed right after the start, which
  sends the parent to its `kill` calls at once, is enough. `Lab 2/Readme.md:124` says the
  calls end the child.

More disagreements met on the way that no run shows: the comment at
`ch_device.c:35` says `length` is used to update the read pointer, and nothing
reads it; FIFO
stores the position in its queue as the number of the frame (`page.c:94`), which
can be `frame_size`, one past the last frame, since the queue has a spare cell. The
`if` in line 213 of `page.c` governs only a prompt, so that a new string is made for
the menu's choice 3 too and the one of `Belady()` never runs, although the comment in line
170 offers the anomaly. `pipe.c` stores its final 0 one past the end of `InPipe` (line
42), and the Readme of Lab 2 (lines 185 and 189) has the 1s come before the 2s, whereas
either child may get the lock first (`WritersApart` allows both).

In the file system, all modelled as breaches of the contract or as what the actions do:

- the scan for a free bit wraps after 32 bytes (`Ext2.cpp:178`, `229`): 256 of 4096
  blocks and inodes can be used, and the next request does not return;
- slots 0 and 1 of every block are skipped in the search for room (504, 652), so
  an entry can find no slot although the directory is not full; it is then written
  behind the buffer and lost;
- `rm` does not count `i_blocks` down when it frees a block of the directory (733);
  `rmdir` counts it down before it moves the blocks behind, and the last one does
  not move (591);
- `rmdir` in the root of a directory that is not empty removes nothing and reports
  success (605);
- `touch` warns of a full directory and goes on (643), and clears one entry of a
  new block instead of all (680);
- the last slot of the open table counts as not found (378); names of open files are
  in a set although two directories may have files of one name (758, 779);
- `write` asks for the right to read (888); a text longer than the direct blocks
  copies a negative number of bytes (1033 to 1037).

Outside the commands' model: the shell accepts names of nine characters (`Shell.cpp:69`,
`78`), which fill `name[9]` and leave no room for the 0; `mkdir` and `touch` without a
name make an entry with an empty one; a line of more than three words ends the program
by an `assert`; `ll` takes the later blocks of the directory from the inode of the entry
it has just listed (`Ext2.cpp:1107` to `1160`).

## 5. Proofs

`CharDeviceProofs` proves for any sets of readers and writers, any buffer size and
any bounds, from `CharDeviceAssumption` only (the sets are disjoint, the special
headers are no pids, the sizes are natural numbers; nothing is assumed of the lengths
of bodies):

1. `TypeCorrect`: `TypeOK` is inductive, one step per action.
2. `SemaphoreRefinement`: with the types, every action is an `Acquire`, a
   `GiveBack`, a `StrayUp` or a stutter of `DeviceSemaphore`. The lemma
   `HoldersMove` says what moving one `pc` does to the set of holders.
3. `PermitsConserved` and `DriverExcludes` follow from the account of
   permits (`SemaphoreBalances`, proved of `DeviceSemaphore`'s own specification).
   Exclusion alone is not inductive: a `down` needs to know that a positive count
   means no holder, which is what the account says.
4. `PointersStayInBounds`: `PointersInBounds` is inductive with the types and the
   exclusion. It contains a fact about the local `len` of a reader that has copied
   and not yet counted, `rd + count[r] <= MAXNUM`. It survives because nobody else
   can move `rd` meanwhile: that is where exclusion is needed, and why the property
   is stated up to the first stray `up`. It is also stated up to the first body that runs
   over `rd` itself (`Intact`); a body that is cut, or ends in the padding, is covered.
5. `RingKeepsOrder`: a step that writes a body which fits appends it to `Contents`, the
   bytes from `rd` on, and one that advances `rd` in a ring that is not empty removes the
   first `count[r]` of them. The second half needs more than bounds: the length a reader
   computed has to be the one it would compute now (`LengthRight`), or `rd` could pass
   `wr`. It is inductive because whoever moves `rd` or `wr` is inside the semaphore as
   well. `BodyAppended` and `ReadTaken` are arithmetic modulo the ring, with a case for
   each side of its end. An empty ring looks like a full one (`ch_device.c:71`) and a body
   that does not fit overwrites what is unread (line 200): both are outside the property,
   and in the model.

6. `BroadcastsWake`: a reader asleep while a broadcast is announced sees its wake-up, or
   a writer is still between its `flag = 1` and its wake-up. `BroadcastOnly` adds that
   `private_chat_pid` is never a pid then. It assumes that the writers send no private
   messages (`Headers \cap Readers = {}`, the setting of `CharDevice_liveness`): a reader
   that takes one clears `flag` before `private_chat_pid` (`ch_device.c:107`), and a writer
   that announces a broadcast between the two wakes nobody.
7. `CalmRoundsDeliver`: in a round that no reader enters or leaves, every reader counted
   has taken the same bytes. Whoever counts is inside the semaphore, so what was counted,
   who has seen the message and whether anything disturbed it agree (`RoundInv`); that
   `read_count` is still what was loaded when it is stored or compared, and
   `total_readers` what it was compared with, is `CountRight`. A reader that has counted stays
   in the spin loop because `flag` and `read_count`, which it reads one after the other, are
   both set as long as the round is calm (`Waiting`). The
   proof found that this needs the semaphore to exclude: after a stray `up` two readers
   count at once, one count is lost, and the property fails although nobody came or left.
   It is therefore stated up to the first stray `up`, like the others.

`PageReplacementProofs`, for any table, any number of frames, any string and both
algorithms, from `PageReplacementAssumption`. Three invariants, each resting on the one before:

- `PagingInv`: the parameters fit together, and the pages flagged resident are those in
  the cells in use (the queue from `front` to `rear` for FIFO, `frame[0 .. full - 1]` for
  LRU), each page once and with the number of its cell. That is `FlagsMatchFrames`. A fault of
  either algorithm is one exchange: a page comes into a cell, the pages of some cells go
  (`Exchange`), so that queue and frames need one argument.
- `InOrder`: going round the queue from `front`, the pages were loaded later and later;
  `Recency`: the counters of LRU are the positions of the last uses. They say why the page
  at `front`, or the one with the least counter, is the one `Paging` evicts.
- With these, `PagingRefinement` maps a hit to `Hit` and a fault to `Fault`, and
  `LruKeepsRecent` shows LRU by its definition: the pages in memory are the ones used
  most recently, with no mention of counters. From it `LruFaultsCounted`: a reference
  faults if and only if it is far, so the count grows by one just when the set of far
  references does. The far references for more frames are among those for fewer
  (`DistantShrinks`), which gives `NoBeladyAnomaly`.

`find_min` is a least element chosen by the code's own scan; the queue is arithmetic modulo
`frame_size + 1` (`Circular`, `Distance`).

`MemAllocProofs`, for any memory size, slice, set of requests and number of processes, from
`MemAllocAssumption` (they are positive). What a command computes is a chain of folds over
lists, so the proof has three layers.

- *Lists* (`ListLemmas`). The library's induction theorems take a predicate as a parameter
  and cannot be used; `LeastNatural`, `NaturalSteps` and `ListSteps` say the same of
  sets. A fold of the community modules is a function over sets of indices that is chosen
  by an equation: `FoldExists` shows that there is one, `WalkOfFold` that what it returns
  is where a walk through the list ends, and `FoldSteps` turns that into the two
  equations (for the empty list and for one element more) that inductions need.
- *Operators*. `SortedInsert` keeps a list in order and adds one block; `Rearrange` therefore
  sorts and keeps the set of blocks (`Reordered`). `Merge` of an ascending list gives
  a list with gaps that covers the same addresses (`Merged`). Compaction puts
  each process where the one before it ends (`Packed`).
- *Commands*. `AllocInv` is the invariant between two commands: the numbers have their
  types; nothing is allocated while the size may still be set; the totals are those of
  the list; the free list holds no block twice and no two neighbours and is in the order
  of its algorithm; the allocated list holds no pid twice and less than a slice beyond
  each request; and the two lists *fill* memory: no two blocks overlap, none goes beyond
  the end, every address is in one, and the sizes add up (`Fills`, `Memory`). One lemma
  per command (`NewProcessKeeps`, `KillKeeps`, ...) says that it keeps `AllocInv` and
  what it does to the two *sets* of blocks.

`TypeCorrect`, `MemoryTiled`, `FreeCoalesced`, `FreeOrdered` and `TotalsAccounted` follow from
`AllocInv`, and `PartitionRefinement` from the second half of these lemmas. The hard case is
`GiveBack`: the code appends, sorts, merges and sorts back, the abstract
allocator replaces the neighbours by one block. `CoverDetermines` says that a set of blocks
with gaps between them is determined by the addresses it covers, and both cover
the same. A request that fails after a compaction is `FutileCompaction`, with the rest of memory
free above the packed processes. TLC finds `AllocInv` true in every state of the run `MemAlloc` as well.

`LabProgramsProofs` has an invariant for each program, proved of the program's own
specification. `LabRunsPrograms` shows that a run of the lab is a run of each program, since
what one does leaves the variables of the others alone; `LabTypes` and `LabKeepsPromises`
are what that gives for the specification that TLC checks.

*Threads*, for any positive number of rounds. Exclusion alone is not inductive:
`LockedValue` adds that the flag is set just while a thread is inside, that `value` is the
sum of the completed rounds, and that a thread between load and store has
`reg = value`. `MainKnows` says that `main` is past a join only if
that thread is absent or has exited, and `Progress` that one that has exited has done
all its rounds: hence `NothingLost`. `Band` needs more than the band of `value`: what a
thread holds in `reg` is in it as well, and stays so because `done` only grows.

*Pipe*, for any numbers with `Capacity >= 2 * Bytes` (`BytesAssumption`).
`PipeInv` orders the children: one has nothing written, or everything, unless it
holds the lock, and the second starts after the first has finished; so `pipe` is a run of the
first child's bytes and a run of the other's, of the lengths in `written`
(`Apart`). The parent's two waits are for different children, so that the pipe holds
`2 * Bytes` when it reads (`AllRead`).

*Signals*, for any number of keys. Neither property is inductive. `ParentHandles`
says which signals the parent handles after each of its `signal` calls, so that no key ends
it once it has children, and that the alarm is set only then. `ChildIgnores` says
that a child which can be in `pause` ignores both keys, `Family` which children there are,
and which have been waited for, at each step of the parent. `HitOutcome` says what a
signal does to a process by its disposition.

*System call module*, for any number of loads. `HookInv` says, for every step of loading and unloading,
what the entry, the saved entry and the protection are: the saved entry is
the original from `FindTable` until the module is out, without which
`EntryFollowsModule` would not survive an `rmmod`.

`Ext2VolumeProofs` and `Ext2Proofs`, for any numbers of blocks, inodes, slots and bitmap
bytes, any names and any number of commands, from `Ext2Assumption` (a block has room
for more than the two dots, the bitmaps are longer than the scan, at most eight direct
blocks, no file is called `.` or `..`) and `CommandAssumption`. Within the contract:

- `TypeCorrect`: no inode has more than eight blocks or a size they could not
  have, and no counter falls below 0;
- `BlocksAreOwned`: every marked block is in the list of one live inode, once, and both
  counters are what the bitmaps say (outside it they are not: `Ext2_rm`);
- `DirectoriesAreSound`: `.` and `..` stand where they belong, every other slot of a
  directory is empty or an entry of a live inode of the type it says, the `..` of a
  directory leads to the one with its entry, names are unique, the size of a directory
  counts its entries, and every live inode but the root is named once. `cd` always
  stands in a live directory;
- `EntriesAreRight`: the tree that `cd` and `read` show has every live inode in it once,
  below the directory its `..` leads to, and `i_size` counts what is shown;
- `OpenTableIsSound`: the open table holds live files that can be reached, each once, none
  in the last slot, and the set of names is the set of theirs;
- `TreeIsImplemented`: the commands implement `FileTree`, for any room for the path and any
  lengths of names, until the first call outside the contract.

None of the first three is inductive without the others: that a new entry overwrites nothing
needs the slots of a directory to be its own blocks; that `rm` frees what only its
file used needs one owner for each block; that the inode which goes is nobody's needs
one entry for each inode; and `..` must lead to a directory that is still
there. The invariant `FsInv` says `Sound(vol)`, which is

- the types of the fields (`vol \in Volumes`);
- `Owned`: lists and block bitmap match, no block twice;
- `Clean`: a free block has no entries left, which is why a directory made in a recycled
  block starts without any (`touch` clears only one of its slots, `Ext2.cpp:680`);
- `Small`: lists are short;
- `BlocksCounted` and `InodesCounted`: the counters;
- `TreeSound`: what `DirectoriesAreSound` says;

as long as the contract is kept, and the types of the rest always.

This does not say that a directory is below the root: two directories that are each
other's parent satisfy `TreeSound`. What excludes them is a *path* for every live inode:
`Pathed(vol, path)` says that the root has the empty path and that an entry leads to the
path of its directory with one name more, so lengths of paths decrease towards the root.
The invariant `ShownInv` adds to `FsInv` that, within the contract, there is such a `path`,
that `current_path` is the path of `current_dir`, that the open table holds live files whose
last names differ and are the names in the set, and that `shown` is the tree of the volume
(`Stands`). From `Pathed` alone: no two directories and no two files have the same path
(`PathsDiffer`), no path is longer than there are inodes (`DepthBound`), and so the tree, which
is a fold that goes down one level at a time, is one record for each live inode (`TreeIs`).

The argument has three layers. *Folds*: the loops of the code are folds over blocks and
slots whose steps differ, but each is a walk (`WalkOfSteps`), so that a fact that every step
keeps holds at the end. *Volumes*: `ScanFinds` says that the cyclic scan returns a free bit
in reach if there is one; `DroppedSound`, `AddedSound` and `SameSound` say when a tree is sound
without an entry, with one more, and with other contents that directories do not see; there is
one lemma for each list of blocks that grows, shrinks, appears or goes (`OwnedGrows`, ...);
and from these one for each helper (`FileRemoved`, `EmptyRemoved`, `ChildrenRemoved`, `FileMade`,
`DirMade`, `TextWritten`, `ModeSet`, `NewSound`). *Commands*: one lemma per action
(`CreateKeeps`, `RmKeeps`, ...) says that it keeps `FsInv` and what became of the tree: an
entry more (`Gained`), inodes less (`Shrunk`), other contents of one file (`FileChanged`); one
more (`CreateStands`, `CdUpStands`, `OpenStands`, ...) that there is a `path` again.

The refinement follows these three changes. `TreeSeen` says what `FileTree` sees of a sound
volume with paths: the paths of its directories, a function from the paths of its files to
their mode and text, and the paths of those in use. `DirGainSeen` and `FileGainSeen`,
`FileShrinkSeen` and `DirShrinkSeen`, and `ChangeSeen` say how that view changes. The hard cases are
`rmdir`, where what lies below a path has to be what was in the directory's blocks
(`BelowIs`: without subdirectories its entries are all there is), and `write`, where the text read
back block by block from recycled blocks has to be the one written (`CopiesFlatten`,
`TextReads`). `cd ..` in the root and steps outside the contract are the only ones that
are not commands of `FileTree`: the first is a stutter, the others end its promise.

The proof showed two things about the code. Freeing a block does not erase it; that
directories made in it have no stale entries rests on `rm` and `rmdir` leaving only
blocks without inode numbers behind. And since slots 0 and 1 of a second block are never used (lines
504 and 652), a directory with two blocks is never full by its size and never gets a
third.

Only model-checked: the liveness properties `WriteReturns`, `PassedWaitReturns`, `ThreadsEnd`,
`PipeEnds` and `PausedFamilyEnds` (liveness under fairness, and `ENABLED`, are out of the
prover's reach). Every other property of a passing run is a theorem. With private messages
`NoLostWakeup` is neither checked nor proved: the interleaving at `ch_device.c:107` breaks it.
Some leaves ask for more time than the prover's default (`SMTT(30)`): they are
arithmetic over many terms, or records with many fields.

## 6. Not modelled, and the plan

In this order:

1. The file system: `rmdir` of directories with several blocks and deeper
   recursion, and what commands do after an entry was lost.
2. The driver again: private messages under fairness, and a run of three messages, the
   least with which a body is written while `rd` is beyond `wr` (the theorem covers it).

Left out for good, and why:

- the process demos (`process0.c` to `process4.c`, `system_call.c`): `fork`, `wait` and `exec` of one
  child with copied variables, no shared state;
- printing, `ls`, `ll`, `help` and command parsing: no state changes;
- `append`, which is empty, and writes that need an index block, which crash (see section 4);
- restarts of the file system: `Ext2.h` opens the disk file with `w+`, so a volume never
  survives the program;
- a program that is inside `hello` while `rmmod` frees it: the module keeps no
  count of its callers, and what such a call then does is undefined;
- `hello` itself, the sum of two registers;
- loading and unloading of the driver: a module with an open file cannot be removed.
