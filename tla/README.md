# A TLA+ model of the BTSM kernel

BTSM is a Pintos kernel: a small teaching operating system for one 80x86 CPU,
written in C. This directory holds TLA+ modules that model it, TLC
configurations that check them on small instances, and proofs for the TLAPS
proof system. `PROJECT.json` says the same for machines: the source lines
behind every definition, the runs, the hazards and the theorems.

Paths below are relative to `src/`.

## The parts of the system

| Part | Source | State it keeps | What runs concurrently | Modules |
|---|---|---|---|---|
| scheduler | `threads/thread.c` | run queue, `all_list`, status of each thread, `next_tid` | threads; the timer interrupt | `Threads`, `Synch` |
| synchronisation | `threads/synch.c`, `interrupt.c` | semaphores, locks, condition variables | threads; handlers that up a semaphore | `Synch`; `Monitor` (abstract) |
| interrupt queues, serial port, input buffer, console | `devices/intq.c`, `serial.c`, `input.c`, `lib/kernel/console.c` | two ring buffers, the mode, the interrupt enable register, the console lock | threads, two handlers, the UART | `Intq`, `Console`; `Fifo` (abstract) |
| timer | `devices/timer.c`, `pit.c` | `ticks`, `loops_per_tick` | the handler against sleepers | `Timer`, `Delay` |
| disks | `devices/ide.c`, `block.c`, `partition.c` | channel lock, `expecting_interrupt`, device list | callers against interrupts and drives | `Ide`, `Block`; `Device` (abstract) |
| memory | `threads/palloc.c`, `malloc.c` | bitmaps of pages, arenas, free lists | threads | `Palloc`, `Malloc` |
| file system | `filesys/` | free map, inodes and directory on disk; open inodes and files | processes; the power switch | `Filesys`, `Fileio`, `Fsutil` |
| processes | `userprog/process.c`, `syscall.c`, `pagedir.c`, `exception.c` | children, three semaphores, descriptor table, page directory | parent against child | `Process`, `Loader`, `Argv` |
| kernel library | `lib/kernel/` | their own | none (callers lock) | `List`, `Hash`, `Bitmap` |
| C library | `lib/` | none | none | `String`, `Stdlib`, `Stdio`, `Arithmetic`, `Ustar` |
| clock, display, keyboard | `devices/rtc.c`, `vga.c`, `kbd.c` | registers, frame buffer, shift state | the running clock; handlers that print | `Rtc`, `Vga`, `Keyboard` |

Not modelled: the speaker and power-off (port I/O that no other part reads),
the GDT and TSS (constant tables), `random.c` and the `debug.c` files, the user
library (it only traps into system calls), and `vm/`, which does not compile
with `VM` defined: `vm/page.c` uses a member `elem` that its structure does not
have. Inside modelled parts, statistics, printed names and wording,
`reset_channel()` of the IDE driver and everything before `thread_init()` are
left out. Thread priorities are stored by the code and never read.

What is hard to test is in the `hazards` list of `PROJECT.json`, at the source
line where it bites, with the properties that would catch it.

## Modules

```
Threads <- Synch <- SynchProofs <- LockProofs
              |          ^-------- CondProofs
              |------------> Monitor                            MCSynch
Intq <- Console                         Console -> Fifo         MCConsole
Timer                                                           MCTime (Console beside Timer)
Console, Timer, Loader <- ComponentProofs
Ide <- IdeProofs                        Ide -> Device
Block, Fileio, Delay, Rtc, Vga, Keyboard                        MCDevices (these and Ide)
Filesys                                                         MCFilesys (beside MCSynch)
Process <- ProcessInv <- ProcessSteps <- ProcessProofs          MCProcess
Palloc <- Malloc                                                MCMalloc (beside MCProcess)
List, Hash, Bitmap, String, Stdlib <- Stdio, Arithmetic,
Argv, Ustar, Fsutil, Loader                                     MCLibrary
```

`<-` is EXTENDS, `->` a refinement. Components that share no state are checked
in one run where that is cheap: `MCLibrary`, `MCDevices`, `MCFilesys` and
`MCMalloc` choose one of their parts in the initial state (`part`) and leave the
others alone, so a behaviour is a behaviour of one part.

### Threads, Synch

`Threads` has the state of `thread.c` (`all_list` as a set, because only
membership matters) and the operators `thread_block`, `thread_unblock`,
`thread_yield`, `next_thread_to_run`. `Synch` adds semaphores, locks, condition
variables and the code built from them: `thread_start()`, `idle()`,
`thread_create()` with `allocate_tid()`, `thread_exit()` with the reaping of the
dead thread's page.

There is one CPU, so only the thread `current` takes steps. A step is the code
between two points where an interrupt can be taken. Code that runs with
interrupts off is one step; other code is cut at every access to shared state:
`lock_acquire()` is two steps (take the semaphore, set the holder),
`lock_release()` two, `cond_wait()` four, `next_tid++` two. `pc[t]` says where
thread `t` is. A thread in no call (`"run"`) may make any call whose leading
`ASSERT`s it meets. The semaphore of a waiter lives on the stack of the thread
in `cond_wait()`, and so is named by the thread. A page that was freed can be
used again. `thread_create()` can fail at either allocation; with `USERPROG`
the second one is the descriptor table.

`Monitor` is what the primitives promise: a Mesa monitor in which releasing the
lock and starting to wait is one step. `Synch` implements it with these
mappings: a lock has the owner that has taken its semaphore (not the one in
`holder`, which follows later and is cleared earlier), and a thread waits from
the `sema_up()` inside `lock_release()` on.

### Intq, Console

`Intq` has the ring buffer of `intq.c` as operators on a record. `Console` has
the queues `txq` (`serial.c`) and `buffer` (`input.c`), the UART, both interrupt
handlers, the three modes of the serial driver, polled output when the queue is
full and interrupts are off, `serial_flush()`, the recursive console lock, and
`read()`, `write()` and kernel `printf()`. The queues are used with interrupts
off, so a step goes from one `thread_block()` to the next. Locks other than the
queues' own are variables that hold their owner; `Synch` is where locks are
shown to be that. `KernelReader` is a set of choices of the threads that call
`input_getc()` directly instead of `read()`.

`Fifo` is the abstract channel: bounded, loses and invents nothing.

### Timer, Delay

`ticks` has 64 bits and the machine 32, so reading it is two loads; `Timer` has
the two words, interrupts between any two steps, and `timer_sleep()` and
`real_time_sleep()` on top. `Delay` has the arithmetic: `timer_calibrate()` on
machines of every speed, `real_time_delay()`, and the divisor of `pit.c`.

### Ide, Device, Block

`Ide` has a channel with its lock, semaphore and `expecting_interrupt`, the
registers, two drives that work beside the CPU and may fail, and interrupts
that nobody asked for; a transfer is select, command, wait, data, release.
`Device` is the promise of the driver's comment "Internally synchronizes
accesses to disks". `Block` is start-up: probing, partition tables and roles.

### Palloc, Malloc

The page allocator tests and sets bits one at a time under a pool's lock and
clears them without it. `Malloc` runs on top: a step goes from one lock
operation or call of the page allocator to the next.

### Filesys, Fileio, Fsutil, Ustar

`Filesys` has what is on disk (free map file, inodes, root directory) and in
memory (bitmap, open inodes, open files). A step ends at the latest where the
code writes a sector, so a crash can come between any two writes, and where
another process can come between a test and the update that relies on it.
`open()` runs under `file_lock`, `create()` and `remove()` do not, as in
`syscall.c`. Contents of files are left out here; `Fileio` has them: the sector
loops of `inode_read_at()` and `inode_write_at()` under several processes.
`Fsutil` copies files to and from the scratch disk over several boots, and
`Ustar` has the archive headers.

### Process, Loader, Argv

`Process` is the build without VM: execute, load, wait and exit with their
semaphores, the pages of thread, page directory and descriptor table, and
failing allocations. A step that would use a freed `struct thread` stops the
model with `stopped = "wild"`. `Loader` maps the segments of an executable page
by page, with addresses that wrap around; `Argv` lays out the stack.

### List, Hash, Bitmap, the C library, and the small drivers

`List` works on the links themselves, the natural merge sort included, beside
the sequence a list should be; `Hash` on buckets that are resized when
`malloc()` allows, beside the set it should hold; `Bitmap` on words, with the
four placement policies. `String`, `Stdlib`, `Stdio` and `Arithmetic` are
functions of their arguments, written from the loops of the source and
compared with reference definitions over all small inputs. `Rtc` reads six
registers of a running clock, `Vga` is the frame buffer with handlers that
print in the middle of `vga_putc()`, `Keyboard` the scan codes.

## Runs

Each run is `tlc -config <cfg> <module>`.

| Run | Instance | Checks | Shows |
|---|---|---|---|
| `monitors_files` | main, idle and two more threads, one lock, one condition; or one process, three names, two directory slots, seven sectors, one crash, with and without failing `malloc()` | `TypeOK`, `MutualExclusion`, `WaitersSound`, `ImplementsMonitor`; `DiskSound`, `OpenFilesSound` | the condition variable code is a Mesa monitor with an atomic wait, though it is preempted between release and sleep; the order of the writes keeps the disk sound at every moment, error paths close what they opened, sectors leak in three ways only |
| `synch_sema` | main, idle and three more, one semaphore, a device handler, slices of two ticks, several creators | `UniqueTids`, `ListsSound`, `NoLostWakeup` | lists and statuses agree, no unit is left with every thread asleep, identifiers are unique |
| `synch_live` | main, idle, one more, one condition, `thread_create()` that fails half way | `ReadyRuns`, `SleepersWake` | round robin serves everyone, a signal gets through, start-up ends |
| `console_channels` | one thread that moves two different bytes, or two threads and one, rings of three slots; through `read()` or by direct calls of `input_getc()` | `WaitsSound`, `ChannelsAreFifo` | the callers' locks keep the assertion of `intq.c` true, nobody sleeps beside a byte or room, no byte is lost, made up or overtaken |
| `console_live` | two threads, nested console lock; or one sleeper and words of three values | `ConsoleSafe`, `SleepsFully`, `WaitersProceed`, `SleepEnds` | interrupts follow the queues, readers and writers go on, a sleep is neither short nor endless |
| `processes_memory` | main and two processes, every allocation and read failing or not; or two threads, three kernel pages and one user page, sizes that wrap around | `AddressSpacesSound`, `LoadHandshake`, `FilesSound`; `HeapSound`, `PagesSound` | pages are freed once and not while in use, `exec()` is signalled when the load is over; blocks and pages never overlap and none is lost, though freeing takes no pool lock |
| `devices` | an IDE channel and two threads; or every mix of units and partition tables; or two processes on one file; or delays, clock, display or keyboard | `CallsExclusive`, `AccessesAtomic`, `WaitsEnd`, `BootFindsDevices`, `TransfersExact`, `ClocksCorrect`, `ScreenCorrect`, `KeyboardCorrect` | accesses are atomic and acknowledged, boot finds the right disks, reads and writes move exactly their bytes, and the small drivers do what they promise |
| `library` | one of eleven sequential parts | eight `...Correct` properties, `ProgramLoaded` and `UserPagesOnly` | each part computes what its header promises |
| `fs_twice` | two processes | `OneInodePerSector` violated | finding 1 |
| `process_wait` | main and two processes, fairness | `WaitReturns` violated | finding 2 |
| `rtc_epoch` | the clock alone | `SecondsSinceEpoch` violated | finding 3 |
| `calloc_size` | two threads on the heap | `CallocGivesAll` violated | finding 4 |

Deadlock checking is off where the system may stop: after a failed `ASSERT`
(`console_channels`, `devices`), when every process has ended (`process_wait`; in `processes_memory` the
processes may stutter instead), and in `library`, whose parts end.

### Bounds

`MaxTid` bounds the threads ever created (`Synch`, `Process`) and `MaxValue` the
value a client raises a semaphore to (`Synch`); `MaxDepth` nested uses of the console and
`MaxPrinted` the bytes that handlers print (`Console`); `MaxTicks` the ticks
(`Timer`); `MaxSpurious` the interrupts nobody asked for (`Ide`); `MaxBlocks`
the blocks in use (`Malloc`); `MaxCrashes` and `MaxBoots` crashes and restarts;
`MaxFd` open descriptors (`Process`); `MaxLine`, `MaxText`, `MaxCnt`, `MaxName`,
`MaxKeys`, `MaxRows`, `MaxPasses` the lengths of inputs of the
library and of the small drivers. They
are guards of the actions that would count past them.

Two threads besides main and idle are enough for a third thread to take a
semaphore between a wake-up and the woken thread's next look, and for a
signaller, a waiter and an intruder on one lock; `MaxTid` leaves room for a
page to be used twice. A ring of three slots holds two bytes, so that their order
shows, and is empty, full and wrapped within three operations. `MCConsole`
chooses a cast in the initial state: one thread and two different bytes, where
the order of the bytes is at stake, or two threads and one byte, where the
threads' contention is (all other sizes and mixtures are covered by the proof). Words of three values make the two-word tick counter carry twice
within eight ticks. With two directory slots and three names the directory
fills up, the case in which `create()` fails last. One crash is enough for a
crash after any prefix of the writes: what follows starts from a disk that
`DiskSound` describes. Three kernel pages hold two arenas and a block of more
than a page, so that arenas are given back and found again; `SIZE_MAX` is small
enough for products of `calloc()` and page counts of big blocks to wrap around.

`Symmetry` permutes threads, names, nodes or list elements in runs without
liveness properties.

### Fairness

`Synch`: weak fairness of the timer, because the chip keeps ticking, and for
each thread strong fairness of its steps that finish a call already begun.
Strong, because a thread is preempted between two steps and its step is then
disabled; a time slice is many instructions, so a thread that gets the CPU
again and again does go on. No client is obliged to begin a call, or to release
a lock. `Console`: weak fairness of the UART, of an enabled interrupt, and of
each ready thread, which is what `ReadyRuns` says of the scheduler; the
handlers' own output is bounded, for a handler that prints for ever keeps a
writer out. `Timer`: strong fairness of the timer interrupt, which stays
pending while masked, and of the sleeper's steps. `Ide`: weak fairness of
threads inside a call, of interrupts and of drives, which answer or fail.
`Process`: strong fairness of switching to a runnable process and of its steps
in the kernel; user code need not go on.

## Proofs

| Theorem | Module | States | Inductive invariant |
|---|---|---|---|
| `TypeCorrect` | `SynchProofs` | `Spec => []TypeOK` | `Inv` |
| `ListsStaySound` | `SynchProofs` | `Spec => []ListsSound` | `Inv`, and `AllInv` for `all_list` |
| `LocksExclude` | `LockProofs` | `Spec => []MutualExclusion` | `LockInv` over `Inv` |
| `TidsAreUnique` | `LockProofs` | `Spec => []UniqueTids` | `TidInv` over `LockInv` |
| `WakeupsArrive` | `LockProofs` | `Spec => []NoLostWakeup` | itself, over `Inv` |
| `SignalsArrive` | `CondProofs` | `Spec => []WaitersSound` | `WaiterInv`, `ReleaseInv`, `StartInv` over `Inv` |
| `CallsStayExclusive` | `IdeProofs` | `IdeSpec => []CallsExclusive` | `IdeInv` |
| `DriverImplementsDevice` | `IdeProofs` | `IdeSpec => AccessesAtomic` (refines `Device`) | `IdeInv` |
| `SleepsAreFull` | `ComponentProofs` | `TimerSpec => []SleepsFully` | `TimerInv` |
| `ConsoleIsSafe` | `ComponentProofs` | `Spec => []ConsoleSafe` | `ConsoleInv` |
| `WaitsAreSound` | `ComponentProofs` | `Spec => []WaitsSound` | `ConsoleInv` |
| `QueuesAreFifo` | `ComponentProofs` | `Spec => ChannelsAreFifo` (refines `Fifo` twice) | `ConsoleInv` |
| `LoadsUserPages` | `ComponentProofs` | `LoaderSpec => []UserPagesOnly` | `LoaderInv` |
| `SegmentsAreExact` | `ComponentProofs` | `LoaderSpec => []SegmentsExact` | `LoaderInv` |
| `ProcessesSound` | `ProcessProofs` | `Spec => []ProcInv` | `ProcInv` |
| `AddressSpacesAreSound` | `ProcessProofs` | `Spec => []AddressSpacesSound` | `ProcInv` |
| `LoadsHandshake` | `ProcessProofs` | `Spec => []LoadHandshake` | `ProcInv` |
| `FilesAreSound` | `ProcessProofs` | `Spec => []FilesSound` | `ProcInv` |

They hold for every value of the constants: any threads, semaphores, locks and
conditions, any time slice, any ring size from two on, any number of channels,
disks and sectors, any width of the counter's words, any page size and any
executable, any number of processes, kernel pages, frames and files. They assume
the named `ASSUME`s of the modules, which TLC evaluates on the runs: null pointers are
not objects, kinds of objects are disjoint, `tid_lock` is private to
`allocate_tid()`, a ring has at least two slots, the user's memory is a whole
number of pages, two at least, and ends before the address space does, the
numbers of a program header are as wide as an address, and there are finitely many
threads (`FiniteAssumption`, used by `WakeupsArrive` only: every `struct
thread` has a page of physical memory of its own).

**The scheduler.** None of the properties is inductive by itself. Even the type
of `current` is not: the scheduler returns `idle_thread` when the run queue is
empty, a null pointer until the idle thread has run. In `Inv`,
`SomebodyRuns` says that until then the idle thread is running or queued;
`LocalInv` says where a thread's local variables are set, `ChildInv` that a
thread under construction is on no list and has one creator (`thread_unblock()`
is called on new threads too), and `IdleInv` ties the idle thread to its place
in the code.

**Locks and identifiers.** `LockInv` adds the places in the code a thread can
only be at with or without a lock. Its lemmas say what taking, marking, clearing
and giving back a lock do to ownership; every other action is an instance of a
frame lemma. Since `allocate_tid()` runs under `tid_lock`, `TidInv` can say that
the thread between the two halves of `next_tid++` still sees the current value,
and that identifiers given out are below it.

**Semaphores.** `sema_down()` re-tests the value after waking, so a unit may be
taken by a thread that was never asleep. `NoLostWakeup` counts: if anyone is on
the queue of a semaphore, the threads that were woken and have not looked again
are at least as many as its value. Over `Inv` this is inductive: a `sema_up()`
adds one to both sides, a `sema_down()` that succeeds takes at most one from
both, a woken thread that finds 0 sleeps again when the bound is trivial, and no
other step takes a thread out of the woken ones (`StayWoken`). Counting needs
finite sets of threads.

**Condition variables.** The waiter is on the stack of the sleeping thread, so
the invariant is about who may still reach it: `Queued` (a waiter on the list),
`Popped` (one that a signaller took off and is about to up), and `Reached` (a
thread in `cond_wait()` is on the list, popped, or signalled already).
`ReleaseInv` says that `cond_wait()` gives back the lock of its condition, and
`StartInv` describes the one other semaphore on a stack, `idle_started` of
`thread_start()`.

**The IDE driver.** `IdeInv` says that a channel has one user, that the drive
does what this user told it, and that there is one completion for each command
as long as no interrupt came unasked. Under the refinement `ide_access()` is
`Ask`, `input_sector()` is `Read`, `output_sector()` is `Write`,
`lock_release()` is `Return`, and every other step stutters.

**Sleeping.** `TimerInv` says that interrupts are off from the first load of the
tick counter on, so that both words belong to one value, and that
`timer_sleep()` measures from a time that is not before its call.

**The console.** `QueueInv` says that the holder of a queue's lock is the thread
in `wait()`; `BootInv` that before `serial_init_queue()` only main() runs and
polls; `ReadInv` that readers who come through `read()` never find a queue's
lock taken. Under the refinement of `Fifo` a queue is the sequence of its slots
from tail to head. The boot messages are `Pass`, printing from a handler is
`Put`, or `Swap` when the queue is full, `serial_flush()` is `Drain`, the serial
interrupt gets from one channel and puts into the other, and the end of
`wait()`'s loop is a `Put` or a `Get`. The lemmas are about arithmetic modulo
the size of the ring.

**Loading.** `LoaderInv` follows `load_segment()` through a segment: the page it
is at is a page address, what is left to read and to clear reaches exactly to
the segment's end rounded up, and the file position is as far from the
segment's first page as the memory position (`Progress`). `validate_segment()`
makes the sum of address and size not wrap, so the rounded end is still at most
`PHYS_BASE` (`Validated`). `Placed` says that all bytes before the current page
are right; they stay right because `install_page()` refuses a page that is
mapped. The lemmas about rounding come from two facts about multiples of the
page size: two of them are equal or a page apart, and sums and differences are
multiples.

**Processes.** `process_exit()` clears the pointer to its page directory, switches
CR3 and destroys the directory in three steps between which the timer may switch
threads; `exec()` builds its child while the child is on no list, and the load
of the child may fail at any allocation. The properties of `Process` hold only
because of what each thread has at each place in the code, so `ProcInv`
(`ProcessInv`) says that first:

- `LocalInv`: which of the pages, frames and files in a `struct thread` and in
  the locals of the calls in progress are set at which label.
- `TidInv`, `ExecInv`: a tid names one thread, and the tid that a parent in
  `exec()` holds is that of its own child only; until `thread_unblock()` that
  child is there and has not run.
- `LoadInv`: while a parent is on its way to `sema_down (&load_sema)` the child is
  in `load()` or has raised the semaphore, and once the parent is through the
  child has left `load()`.
- `LockInv`, `FileInv`: `file_lock` has a live holder, who is inside the file
  system; the files of a process are open, its own, and in one slot each.
- `CpuInv`: CR3 is the directory of the running thread, or, while it is at
  `pagedir_activate (NULL)`, the one it is about to destroy.
- `PageInv`: each kernel page is what its owner takes it for (`RoleInv`), each has
  at most one owner, and only an `fd_table` can have none (`OwnInv`); what is not
  a directory maps nothing (`PlainInv`). A directory owns its page tables, and is
  owned also after the pointer in the `struct thread` is cleared (`Dir`).
- `FrameInv`: a frame is in use exactly when one page of one directory maps it, or
  one `load()` has it and has not mapped it yet.

Each part has lemmas that say what it needs of a step of one thread (`...Keeps`);
they are put together for the shapes that steps have: no page touched
(`SamePages`), a page taken or freed, a frame taken, mapped or given back. The
three steps of `thread_create()` and the death of a thread touch two threads or
change who is alive, and `ProcessProofs` treats them one by one. The count of
`PagesAccounted` (each page has exactly one owner or is a left-over `fd_table`)
follows from `OwnInv`, since a set all of whose elements are equal has one
element or none. The invariant has also been checked with TLC on the instance of
`processes_memory`.

### Only model-checked

- Liveness (`ReadyRuns`, `SleepersWake`, `WaitersProceed`, `SleepEnds`,
  `WaitsEnd`): fairness and `ENABLED` are out of the prover's reach.
- What recursive definitions compute (lists, hash tables, bitmaps, strings,
  sorting, formatting, division, archives, arguments): that takes induction over
  data, which the installed provers cannot do.
- `ImplementsMonitor`: the mapping filters a sequence, and facts about the
  filter of an arbitrary sequence need the same induction.
- `Filesys`, `Malloc` with `Palloc`, `Block` and `Fileio`: no proof has been
  written.

## Findings

1. `filesys/inode.c:135`. `inode_open()` searches and links without a lock, and
   `create()` and `remove()` call it without `file_lock`; line 56 promises one
   `struct inode` for each sector (run `fs_twice`).
2. `userprog/process.c:136`. `process_wait()` sleeps on the child's `wait_sema`,
   which nothing ups, although line 118 says that it waits for the thread to die
   and returns its exit status (run `process_wait`).
3. `devices/rtc.c:86`. `rtc_get_time()` adds the days of the current month as if
   it were over, and line 88 takes for leap years those that are a multiple of
   four years after 1970; line 39 promises the number of seconds since the epoch
   (run `rtc_epoch`).
4. `threads/malloc.c:168`. `calloc()` finds out that a product does not fit by
   comparing it with the factors, and a product that wraps around can be larger
   than both; lines 158 and 166 promise A times B bytes and a size that fits (run
   `calloc_size`).

## Limits of the properties

Where the code does less than one might expect, the properties say so in a
premise, and the model has what the code does.

- `WaitsSound`: `intq_getc()` (`devices/intq.c:46`) tests for an empty queue and
  then may sleep for the queue's lock; if a byte comes in meanwhile the
  assertion of `wait()` (line 91) fails. The assertion holds because `file_lock`
  and the console lock keep two threads from meeting there; with two direct
  callers of `input_getc()` it does not, and no code of this tree has them.
- `ListsSound`: with `USERPROG`, `thread_create()` frees the page of a thread
  whose descriptor table cannot be allocated and leaves it linked in `all_list`
  (`threads/thread.c:192`). That `all_list` links live threads is therefore
  claimed only without `USERPROG`, and `Process`, which does not follow
  `all_list`, does not count this as a use of freed memory.
- `DiskSound`: a directory read that is cut short by a failed `malloc()`
  (`filesys/inode.c:235`) makes `dir_add()` take a name for new, so names are
  unique only while no allocation fails.
- `OpenFilesSound`: sectors do leak. A `create()` whose entry cannot be added
  gives back the inode's sector and not the data (`filesys/filesys.c:53-55`);
  a `dir_add()` whose search for a free slot is cut short writes over the entry
  of another file (`filesys/directory.c:164`, where a comment says that short reads
  come at the end of the file only); and a crash loses what the
  directory does not reach yet. `lost` in `Filesys` collects these, and
  `SectorsAccounted` says that there is no other way. The run has one
  process; two of them share the open inodes without a lock (finding 1).
- `HeapSound`: a block is as large as what was asked for when that and the
  header of an arena fit in a `size_t`. Otherwise `calloc()` may return a block
  that is too small (finding 4), and so may `malloc()`, which does not test the
  sum in its page count (`threads/malloc.c:110`) although line 87 promises at
  least SIZE bytes.
- `CallsExclusive`: `expecting_interrupt` is never reset (`devices/ide.c:71`), so
  an interrupt that comes unasked ups the semaphore, and the next `ide_write()`
  returns before its data is acknowledged. `ide_write()` does not look at the
  status after its data phase.
- `BootFindsDevices`: `read_partition_table()` always reads sector 0
  (`devices/partition.c:91`), so an extended partition recurses and logical
  partitions are not found.
- `ClocksCorrect`: `timer_calibrate()` overestimates below 1024 loops and fails
  its assertion from 2^31 on; `pit.c:75` gives count 1, which the chip does not
  take, for frequencies above two thirds of its own. Of `rtc_get_time()` it says
  that the components belong to one instant; the conversion to seconds is wrong
  (finding 3).
- `StringsCorrect`: `memmove()` returns the advanced pointer when the destination
  lies below the source (`lib/string.c:45`). `DivisionCorrect`: `umod64()` and
  `smod64()` return 32 bits, so a remainder that needs more, which takes a divisor
  of 2^32 or more, is cut off, although `lib/arithmetic.c:129` says that the
  remainder is returned and line 184 that it has 64 bits; nothing is claimed
  then. `PrintingCorrect`: a negative width given by `*` with
  the flag `0` pads twice. `BitmapCorrect`: promises the first group for the first-fit
  policy, the one the tree selects, and less for the others.
- `ArchivesCorrect`: the comment at `filesys/fsutil.c:213` promises an end mark of
  two sectors of zeros; the code writes both to the same sector, the second from
  `buffer + 1`, so that the last byte is whatever follows the buffer in memory.
  Unless that byte is 0, `fsutil_extract()` panics at the mark. The property is
  about archives where it is 0. It allows the panics of a `create()`, `open()`,
  `write()` or `malloc()` that fails for want of room or memory, and a `..` that
  is not at the front of a name.
- `ProgramLoaded`: a command line that overflows the stack page is not modelled,
  and the alignment of the stack pointer is what `setup_stack()` makes of it. A
  page table that cannot be allocated is in `Process`, not in `Loader`; either
  way the load fails.
- `FilesSound`: `next_fd` is never compared with the size of `fd_table`
  (`userprog/process.c:198`); `MaxFd` keeps the model below it. `Transfer` stands
  for all the ways on which `read()` and `write()` return, each of which releases
  `file_lock`.
- `WaitsEnd`: a drive that stays busy for 30 s in `wait_while_busy()` counts as one
  that fails; the time-out of `wait_until_idle()`, after which the code goes on
  with a warning, is taken to be later than any drive needs.
