# Verification of the uCore lab kernel

TLA+ models of the operating-system kernel in `src/lab8/code`, the last of the
course labs and the one that contains the code of the earlier ones, with the TLC
runs that check small instances and the TLAPS proofs that hold for all.

Line numbers below are of files under `src/lab8/code/kern` unless another path is given.
`PROJECT.json` maps every definition to the lines it stands for and lists the
runs, the hazards and the theorems.

## 1. The system

uCore runs on one RISC-V hart. User processes enter the kernel by a trap, and
`trap()` (trap/trap.c:271) calls the handler and, before it returns to user mode,
looks once at `PF_EXITING` and once at `need_resched`. Three facts decide what
can interleave with what:

* **A system call is not preempted.** Interrupts are off from the trap on, and
  `trap()` calls `schedule()` only for a trap that came from user mode. Inside
  the kernel a process gives the CPU away only where the code calls `schedule()`:
  in `do_wait`, `do_sleep`, `down` and the standard input.
* **Kernel threads run with interrupts on.** `idleproc` (`cpu_idle`) and
  `initproc` (`init_main`, which calls `do_wait` directly) can be hit by a clock
  tick anywhere outside a `local_intr_save` section. The tick wakes processes and
  sets flags; it does not switch.
* **The disk is memory.** The image is linked into the kernel and a block
  transfer is a `memcpy`, so nothing outlives a stop of the machine. There are
  no messages, no DMA and no second CPU.

### Inventory

| Component | Source | State | Operations | Meets | What must be right |
|---|---|---|---|---|---|
| Processes | process/proc.c, schedule/sched.c, trap/trap.c | `proc_struct`: state, wait_state, flags, parent and sibling links; `nr_process`, `current`, run queue | do_fork, do_exit, do_wait, do_kill, do_yield, do_sleep, wakeup_proc, schedule, cpu_idle, init_main | timers, scheduling class, memory, files | no lost or double wake-up, a tree of living parents, exact run queue and count, orphans reaped, killed processes die |
| Timers | schedule/sched.c:97-183 | `timer_list`, each entry relative to the one before | add_timer, del_timer, run_timer_list | do_sleep, do_kill, clock | each timer runs out after its own number of ticks, whatever is inserted or cancelled |
| Wait queues, semaphores | sync/wait.c, sync/sem.c | value, queue of `wait_t` on the sleepers' stacks | up, down, try_down, wakeup_queue | scheduler, do_kill | no unit lost, served in order, not interrupted |
| Monitors | sync/monitor.c | mutex, next, next_count, condition variables | monitor_init, cond_signal, cond_wait | semaphores | one owner, no lost signal, exact counters |
| Dining philosophers | sync/check_sync.c | the state of each philosopher | take forks, put forks (two versions) | semaphores, monitors | neighbours never eat together, nobody waits for ever |
| Stride scheduling | schedule/default_sched_stride.c, libs/skew_heap.h | a skew heap of processes by 32-bit stride | enqueue, dequeue, pick_next, proc_tick, lab6_set_priority | schedule() | heap exact through every merge, order right across the wrap-around, everybody served |
| Simple FS | fs/sfs/ | freemap, super block, inode cache, block maps | sfs_io, truncfile, tryseek, fsync, reclaim, load_inode | VFS, disk0 | a block is free or belongs to one place; a file reads as it was written |
| VFS and open files | fs/file.c, fs/fs.c, fs/vfs/ | open-file tables, reference and open counts of inodes | open, close, read, write, seek, fsync, dup | Simple FS, fork, exit | counts exact, no inode freed under its user |
| Standard input | fs/devs/dev_stdin.c, driver/console.c | two ring buffers, a wait queue | dev_stdin_read, dev_stdin_write, cons_getc | clock interrupt, do_kill | keys in order, none twice, readers woken |
| Address spaces | mm/vmm.c, mm/pmm.c, process/proc.c | `mm_struct`, its list of areas, page tables, mm_count | mm_map, dup_mmap, exit_mmap, do_pgfault, copy_mm, get_pte, exit_range | fork, exec, exit | areas disjoint and sorted, every page given back, on failing paths too |
| Page replacement | mm/swap*.c (run in lab3) | list of pages by age | map_swappable, swap_out_victim | page faults | every resident page listed once |
| Physical pages | mm/pmm.c, mm/default_pmm.c | list of free blocks, reference counts | alloc_pages, free_pages, page_insert, page_remove | all of memory management | blocks disjoint, merged, counted |
| kmalloc | mm/kmalloc.c | SLOB list, list of big blocks | kmalloc, kfree | everything | blocks disjoint, sizes right |
| Identifiers, family lists | process/proc.c:135-260 | last_pid, next_safe, cptr/optr/yptr, hash list | get_pid, set_links, remove_links | fork, exit | no number given twice; the lists agree with the parents |
| execve, ELF loader | process/proc.c:490-800 | none of its own | load_icode, do_execve | address spaces, files | releases on failing paths |
| Directories, mounts, devices | fs/vfs/, fs/sfs/sfs_inode.c, fs/devs/ | the device list, the root directory | lookup, namefile, mount | VFS | the path names the inode |
| System calls | syscall/, fs/sysfile.c | none | dispatch, copy to and from user space | all | arguments and results |
| Boot, console, traps, debugger, strings | init/, driver/, debug/, libs/ | devices | start-up, output | | straight-line code |
| lab2: best fit, buddy, slub | src/lab2 | free lists | alloc, free | pmm | blocks disjoint, merged |
| lab3: FIFO, clock, LRU | src/lab3 | page lists | victim choice | page faults | order of victims |
| lab5: copy on write | src/lab5 | page reference counts | share, copy at a write | page tables, fork | a page is writable only for its last user |
| Labs 0.5, 1, 4 | src/lab0.5_lab1, src/lab4 | | | | earlier states of the code in lab8 |

### Behaviours that are hard

* *Wake-ups*: `do_wait` looks at its children and then sleeps; `do_exit` tests
  the parent's `wait_state` and hands its own children, some of them zombies, to
  `initproc`, which may be between its look and its sleep with interrupts on.
* *Three ways out of a sleep*: a sleeper of `do_sleep` may be woken by its
  timer or by `do_kill`, in either order and in the same tick. The timer lives on its
  stack and must be unlinked before the process dies.
* *Kill*: `PF_EXITING` is looked at in a few places only; between two of them a
  killed process runs on, sleeps and forks.
* *Hand-over*: `up` gives its unit to a waiter without counting it, and
  `cond_signal` gives a whole monitor and sleeps on `next`.
* *Wrap-around*: strides are unsigned and compared by the sign of a difference.
* *Partial failure*: the disk can fill up within a write, a seek or a truncation.
* *Stale state*: an open-file entry keeps its position while its file is
  truncated through another entry; an inode in memory is newer than the stored one.
* *Giving back*: fork and exec take stack, table, directory and pages in turn,
  each step may fail, and what came before must be returned exactly once.
* *Long sequences*: allocators split and merge blocks, siblings are relinked, and
  process numbers go round their range; one wrong link shows many calls later.
* *Full buffers*: the console ring and the standard input lose keys in different ways.

`PROJECT.json` lists these and the others as hazards, each at its line with
the properties that would catch it. Hazards of which nothing but the argument of
a call decides are named in section 6 only.

## 2. Modules

| Module | Models | Implements |
|---|---|---|
| `Process` | process/proc.c, schedule/sched.c, trap/trap.c | `Lifecycle` |
| `TimerList` | the delta list of schedule/sched.c | `Timers` |
| `Stdin` | fs/devs/dev_stdin.c, the ring of driver/console.c | `KeyStream` |
| `Clock` | the timer interrupt with `TimerList`, `Stdin` and do_kill | |
| `Semaphores` | up, down, try_down and their queue, as operators on one semaphore | |
| `SemaphoreLock` | processes that share units through a semaphore and are killed meanwhile | |
| `PhilosopherSema` | check_sync.c over semaphores (uses `Semaphores`) | `Dining` |
| `PhilosopherCondvar` | check_sync.c over monitor.c (uses `Semaphores`) | `Dining` |
| `CheckSync`, `Sync` | both groups of philosophers; these and `SemaphoreLock` | |
| `Stride` | default_sched_stride.c over skew_heap.h | |
| `Sfs` | sfs_inode.c, sfs_fs.c, file.c, vfsfile.c, inode.c on regular files | `FileContents` |
| `FirstFit` | mm/default_pmm.c and best_fit_pmm.c of lab2, over list.h | `Pages` |
| `Buddy` | buddy_system_pmm.c of lab2 | `Pages` |
| `Slub` | slub_pmm.c of lab2, on `Buddy` | `Pages` (the pages) |
| `Kmalloc` | mm/kmalloc.c | |
| `Swap` | swap.c, swap_fifo.c, swap_clock.c, swap_lru.c, vmm.c of lab3 | |
| `Cow` | copy on write in vmm.c and pmm.c of lab5 | |
| `AddressSpace` | memory that fork, exec, page faults, exit and wait take and return | |
| `Family` | get_pid, the process and hash lists, the sibling links | |
| `Resources` | one of the eight managers above, chosen in the initial state | |
| `MCSfs`, `MCResources`, `MCAddressSpace` | symmetry, constraints and programs for TLC | |
| `ProcessProofs`, `SyncProofs`, `MonitorProofs`, `ClockProofs`, `ResourceProofs`, `SpaceProofs`, `SfsProofs` | theorems and the lemmas they rest on | |
| `QueueLemmas` | lemmas on sequences without repetition, on what is taken out of them and put in, and on loops | |

They compose by promise. `Process` keeps the ticks left of every timer, which is
what `Timers` says and `TimerList` implements; it lets `schedule()` pick any
process of the run queue, and `Stride` refines that choice; its parent pointers
are those that `Family` reads off the sibling lists; a fork of it that fails is
one that `AddressSpace` shows to take nothing. The philosophers use the operators
of `Semaphores`, whose discipline `SemaphoreLock` checks with kills. `AddressSpace`
and `Kmalloc` take pages as `Pages` promises them.

Some modules run parts that share no variable side by side (`Sync`, `Resources`).
A variable `running`, chosen in the initial state and never changed, says which
part moves; the others keep their initial state. This checks each part as if it
were alone, in one run. `Clock` is different: its parts share the interrupt,
processes and `do_kill`, and all of them move.

### Process

`state`, `wait_state`, `exiting` (the processes with `PF_EXITING`), `parent`,
`time_slice`, `need_resched`, `current`, `rq`, `nr_process` are the fields and
globals of those names. A block that is not allocated has the state `FREE`.
`pc` is where a process goes on when it is current again: `user`, in `trapret`
(the end of `trap()`), inside `wait` or `sleep`, and the places of `init_main`.
`target` is the argument of the `do_wait` it sleeps in, `timer` the ticks left
of its timer.

One action is everything from one point where control can change to the next.
Since a system call is not preempted, `Fork`, `FailedCall`, `ExitCall`, `Wait`,
`Kill`, `Yield` and `Sleep` are one step each, up to the call of `schedule()`
if they reach it (`Schedule` is part of the same step, with the choice left
open). `WaitResume` and `SleepResume` continue behind that `schedule()`;
`TrapReturn` is the end of `trap()` with its two tests. `initproc` runs with
interrupts on, so `init_main`'s loop is cut into `InitScan` (the look of
`do_wait`, in which it may mark itself asleep), `InitSchedule` and `InitResume`,
and `Tick` may come between any two of them. `do_wait` looks at the children and
changes `initproc`'s state outside a `local_intr_save` section; a tick within
that stretch wakes only sleepers of `do_sleep` and changes no child's state, so
nothing it does can be told apart from doing it before or after.
`Tick` is the clock interrupt: `run_timer_list`, `proc_tick`, and the way back
through `trap()` for a user process.

`KillTargets` are the processes that user programs kill. The programs of
`src/lab8/code/user` kill pids they got from `fork` or from a parent's `getpid`,
all of user processes; the run lets one user process and `initproc` be killed, which
neither program does, and `kill_lost` user processes only. Nobody kills `idleproc` (pid 0 is refused by `find_proc`).

### TimerList, Timers

`timer_list` is the list with its relative `expires`. `add_timer`, `del_timer`
and `run_timer_list` are as in the code; `Sleep`, `Kill` and `Resume` are what
`do_sleep` and `do_kill` do with them. `Timers` is a set of independent
countdowns; the refinement mapping takes the sum of `expires` up to an entry.
The unsigned wrap of a first entry at 0 is what `HeadPositive` (in `ListSound`) excludes.

### Stdin, KeyStream, Clock

`cons` is the ring of the console, `stdin_buffer` the keys between `p_rpos` and
`p_wpos`, `wanted` what each reader still asks for. `dev_stdin_read` holds
interrupts off except while it sleeps, so a stretch of its loop (`Loop`) is one
step. The interrupt takes one key a tick from the console and wakes all readers,
who then compete. A killed reader stays in the wait queue until it runs; a key
that comes first marks it `WT_KBD`, and then it goes on as if it were not killed.
`KeyStream` promises order, each key to one reader and none lost, until as many
keys wait as the smaller of the rings takes; from then on the console ring, whose
`wpos` wraps without a look at `rpos`, drops all it holds, and the buffer of
stdin overwrites its oldest key. `Clock` puts the interrupt handler around both
services: one tick counts the timers and moves a key, and `do_kill` may take a
process out of either sleep.

### Semaphores, SemaphoreLock

A semaphore is a record of `value` and `wait_queue`. `up` hands its unit to the
first waiter without counting it. `SemaphoreLock` lets processes take and give
units and be killed at any place; `wakeup_flags` tells how a sleeper was woken,
which is what `down` asserts (sync/sem.c:64).

### PhilosopherSema, PhilosopherCondvar, Dining, CheckSync

Each philosopher's place is a step between two operations that can block or that
another thread can observe. Kernel threads are switched out only where they
sleep or call `schedule()`; the models switch between any two operations, which
allows all of that and more. In `PhilosopherCondvar` the place inside a call of
`cond_signal` or `cond_wait` is `sub`, and the monitor's `mutex`, `next`,
`next_count` and the condition variables are variables of the model. `Dining` is
the promise of both: think, get hungry, eat, and no neighbours at the same time.
`init_main` of lab8 has its call of `check_sync` commented out
(process/proc.c:1067); it is compiled, and the only user of the monitors.

### Stride

`run_pool` is the real skew heap as a tree of records, merged by the recursive
`skew_heap_merge`; strides are `W`-bit numbers compared through `Signed`, with
`BIG_STRIDE` a quarter of the range, as in the code, which has W = 32 and
2^30 (schedule/default_sched_stride.c:11). `Schedule` is
`schedule()` in its three parts: put the current process back, pick, take out.
`Churn` adds processes that sleep, exit and are forked while others have run.

### Sfs, FileContents

`freemap`, `unused`, `entries` (a block read as a table of block numbers) and
`data` (a block read as units) are the disk; `disk` are the stored inodes and
`sin` the inodes in memory with their dirty flag, reference and open counts;
`file` are the open-file entries. Since calls are not preempted and the disk is
memory, each call is one action: `Open`, `OpenExcl`, `Dup`, `Close`, `Fsync`,
`Read`, `Write`, `Seek`. The helpers follow the functions of sfs_inode.c:
`Pointer`/`Mapped` for sfs_bmap_get_nolock, `Loaded` for sfs_bmap_load_nolock,
`LastFreed`, `Truncated` for sfs_truncfile, `Io` for sfs_io_nolock. `panic`
holds the assertion that stopped the kernel and `nospace` remembers that a call
has failed for want of a block.

What the code does and the model therefore does: `O_CREAT` truncates a file that
exists; `O_APPEND` positions only at the open; a write that fails for
space behind the end still raises the size to what it wrote; truncation keeps
the table block; `open` with `O_CREAT|O_EXCL` of an existing file fails and keeps a reference.
`vop_create` is absent, so that no call makes a file: the inodes are those of the image.

### FirstFit, Buddy, Slub, Pages

`Pages` is what `struct pmm_manager` promises (mm/pmm.h): `alloc_pages(n)` gives n
neighbouring pages that nobody holds. Its refinement mapping takes the pages handed out.

`FirstFit` keeps the list of list.h pointer by pointer (`links.next`,
`links.prev`), because `default_free_pages` leaves the sorted order there: having
put a block behind the last one it stays in its loop, finds the block itself as
the last one and adds it behind itself (default_pmm.c:147). What a pointer in a
page outside the list says does matter then. `fit` chooses the block as
`default_alloc_pages` or as `best_fit_alloc_pages` of lab2 does; the rest of the two
files is the same. `free_pages(base, n)` may be any part of what is held, as
check_alloc_page does. `damage` remembers how far it has come: `appended`, a block
is linked to itself; `torn`, `list_del` has used such a link.

`Buddy` is the tree `longest` over one zone, with the same recomputation up to the
root that the code does, `Slub` the three lists of each cache, the chain of
free objects (`bufctl`) of each slab, and caches that are objects themselves. In
`Slub` other callers take and free pages too. A zone is modelled as `init_memmap`
leaves it; `Fitting` names the sizes for which it ends.

### Kmalloc

`heap` is the circle of free blocks with `slobfree`, in units of 16 bytes. `slob_alloc` goes once
round, cuts, and if nothing fits frees a new page to the list and goes
round again. `kmalloc_pages` is the path for large blocks with its note
(`bigblock`), whose pages may not be had, in which case the note is freed.
`alloc_pages` is any run of pages the others leave, or none. `arena`, the list head, is
a block of one unit below all pages; no call asks for so little (a header and a byte are two).

### Swap, Cow

`Swap` is one address space as check_swap uses it. `do_pgfault` is cut at its calls of
`alloc_pages`, since each may go round the loop of `swap_out` (pmm.c:51 of lab3)
several times: `pgfault`, `get_pte`, `map_page`, with `swap_out` between them.
Contents are the page whose last write they are, or stale. For the
clock `PassesHead` stands for the `visited` flag read in the list head, which is no page: both
values are possible. `Cow` has processes that share pages after a fork, with the
count `ref` as the code keeps it, which is not the number of those that map the page.

### AddressSpace

`at` and `mm` are the processes and their spaces (areas, level-0 directories, page
tables, pages), `nr_free` what `alloc_pages` has left. Each call is one action with
all its failing paths: `Fork` may fail at the stack, the file table, the
directory, an area, a table; `Exec` at the directory, the header, an area, a page, a read.
A call builds its space in a record `m` from which it is committed. Three things
get lost, and the model counts them: `lost` tables and directories, and `stranded`
open-file tables. `programs` are what the file system holds; a program says which areas it
asks for and how many reads succeed. An assertion of the code (copy_range without a page,
the stack pages of load_icode, overlapping areas) sets `panicked`.

### Family

`pid` and `kin` (`parent`, `cptr`, `optr`, `yptr`) are the fields of those names. The
search of `get_pid` (`Scan`) is that of the code with its restart. `do_exit` moves the
children one by one (`Adopt`), and `do_wait` finds a child by its number or by going
through the list. Hash lists are one set: the hash only spreads processes.

## 3. Runs

All bounds are constants in the `.cfg` files. States are distinct ones, times those of
two workers.

| Run | Instance | Shows |
|---|---|---|
| `process` | 3 user blocks, MAX_PROCESS 5 (so that `do_fork` also fails), sleeps and slices of 1 tick, kills of one user and of `initproc`; 115,457 states, 80 s | `RunQueueExact`, `WaitersWillWake`, `SleepersConsistent`, `TreeSound`, `InitQuitsLast`, `ImplementsLifecycle`, `OrphanZombiesReaped`, `KilledSleeperDies` |
| `kill_lost` | 2 users | violation of `KilledDies` (section 6) |
| `clock` | 3 processes, timers of 1-4 ticks, 2 keys, a console ring of 3, a buffer of 2, reads of 1 or 2; 83,585 states, 55 s | `ListSound`, `ImplementsTimers`, `NobodyMissesKey`, `ImplementsKeyStream`, `KeysAreTaken` |
| `sync` | 4 processes with 2 units, or 4 philosophers with 2 meals in each version; 391,401 states, 100 s | `UnitsConserved`, `WaitQueueSound`, `FirstComeFirstServed`, `WaitersServed`; `InvitationsExact`, `MonitorSound`, `SignalledEats`, `ImplementsDining`, `MonitorImplementsDining`, `AllQuit` |
| `stride` | 3 processes, W = 4, of the default priority with churn, or staying with priorities 0, 2, 4; 104,759 states, 45 s | `HeapExact`, `FairShare`, `EveryoneRuns` |
| `sfs_blocks` | 2 files, 2 entries, 3 blocks of 1 unit, 1 direct block, positions to 3, one leaked reference | `BlocksExact`, `NodesHeld` |
| `sfs_contents` | 2 files, 2 entries, 3 blocks of 2 units, files to 4 units; 319,674 states, 70 s | `ImplementsFileContents` |
| `sfs_index` | as `sfs_blocks` | violation of `IndexInRange` (section 6) |
| `resources` | lists of 7 pages, a buddy zone of 13, slub on a zone of 5, kmalloc on 4 pages of 4 units, 5 pages swapped over 4 frames, 3 address spaces on 30 pages with five kinds of program, 6 processes over 6 numbers; 380,073 states, 80 s | `FreeListExact`, `BuddyExact`, `SlabsExact`, `SlobExact`, `SwapExact`, `EvictsOldest`, `FramesExact`, `LeaksExplained`, `PidsUnique`, `FamilyExact`, `ImplementsPages` |
| `first_fit` | 5 pages | violation of `Unlinked` (section 6) |
| `cow` | 3 processes, 1 page each, 6 frames | violation of `OwnPage` (section 6) |
| `all_returned` | the address spaces of `resources` | violation of `AllReturned` (section 6) |

Why the bounds are enough for what they are to show:

* Every hazard of `Process` needs at most a parent, its child, a grandchild that
  is adopted, and `initproc`; one of them kills or sleeps meanwhile. A freed block
  is used again while others still wait. A slice of one tick makes every tick ask
  for a switch. The theorems of section 5 remove these bounds for the safety properties.
* Three timers give a list with a first, a middle and a last entry, and four
  ticks give gaps of every size between them. Buffers of 2 and 3 fill up while
  readers of two keys have one, with two keys typed between two ticks.
* Four philosophers are the fewest with two that do not share a fork, so that
  two eat while the ones between wait; two meals let one come back before its
  neighbour has had its turn. The code has five and four meals (check_sync.c).
* Three processes give a skew heap with two children and a node below. W = 4 has
  a `BIG_STRIDE` of 4, so that the wrap-around comes after a few steps.
* One direct block and a table of three entries with three blocks cross the
  boundary between them, fill the disk in the middle of a call, and let a block
  freed by one file be used by the other. `sfs_contents` has two units to a
  block so that calls begin and end within blocks, and position 3 lies in the
  second block of an empty file. Its constraint `EnoughSpace` stops at the
  first failed allocation, after which the property promises nothing (section 6).
* Seven pages give three free blocks with held ones between and on both ends,
  merges on either side and the block appended behind the last (4 would do for each
  alone). 13 pages of a tree of 16 leave an excess node of 3, rounded up to 4,
  and nodes on four levels. A slab of one object and one of two pass all three
  lists and may skip `slabs_partial`. Units of which 4 make a page leave remainders of 1, the
  block that fits nothing, and blocks that join across neighbouring pages. Five
  pages with two page tables on four frames have to be swapped in and out in every order, within
  one fault too. 30 pages carry three small programs and not three large ones, so that
  both the failing and the succeeding paths occur. `MAX_PID` 7 makes numbers go
  round while six processes hold six of them.

`Resources` uses a `VIEW` so that states are told apart by what the code can still
read: links and sizes of pages outside the free list, contents of frames no longer mapped and
the names of blocks are left out. The constraint `Followed` ends an execution of
`FirstFit` when a link to itself has been used, as section 6 says; `Typed`, which
`FreeListExact` and `SwapExact` require anyway, excludes no state (it has TLC
evaluate what the view leaves out).

`CHECK_DEADLOCK FALSE` stands where the system may stop: `init_main` ends in a
panic by design, a failed assertion stops the file system and the address spaces, and
allocators stop in their dead ends.

## 4. Fairness

* `Process`: the kernel goes on whenever it can (weak fairness of its steps, of
  the idle loop and of `init_main`). The clock interrupt stays pending while
  interrupts are off, so it comes if they are on again and again: strong fairness
  of `Tick`. A process that is in the run queue at infinitely many calls of
  `schedule()` is picked: this is what the scheduling class owes, and `stride`
  checks it (`EveryoneRuns`) for three processes of the default priority. User
  programs owe nothing: there is no fairness on `Syscall`, they may compute for
  ever, and the clock takes the CPU from them.
* The limits of that: a chain of processes of which each forks the next and
  exits starves the others under stride scheduling, because a child starts with stride 0
  (process/proc.c:149). Both liveness properties of `Process` and `EveryoneRuns`
  therefore carry the premise `ForksEnd`. With priorities that differ, or more
  processes, a sleeper may come back with a stride more than half the range away
  and the order of the comparison is no longer what it should be; the fairness
  above is then an assumption.
* `Clock`: a woken reader gets the CPU, as a process in the run queue does. Keys,
  ticks, kills and new reads owe nothing.
* `SemaphoreLock` in `Sync`: a woken process runs (`Resume`) and a holder gives its
  unit back (`Up`), as every user of a semaphore in the kernel does. Nobody has to come.
* Philosophers: each step that can be taken is taken in the end; the kernel
  threads are scheduled fairly as above, and meals take `do_sleep`, which ends.
* `Stride`: the clock preempts the running process again and again.
* `Resources` has safety and action properties only: a caller never has to come.

## 5. Proofs

For every value of the constants under the named assumptions of the modules
(`DistinctProcs`, `KillAssumption`, `BoundAssumption`; `PermitsAssumption`,
`ProcAssumption`; `NAssumption`, `TimesAssumption`; `TicksAssumption`,
`BuffersAssumption`; `FamilyAssumption`, `ListAssumption`, `SlobAssumption`, `SwapAssumption`, `SpacesAssumption`; `BlocksAssumption`,
`ImageAssumption`, `SizeAssumption`, `FilesAssumption`, `PositionsAssumption`):

| Theorem | States |
|---|---|
| `ProcessProofs!TypeCorrect`, `RunQueueCorrect` | types; the run queue is exactly the runnable processes that wait for the CPU |
| `ProcessProofs!NoLostWakeups` | a process asleep in `do_wait` has a child it waits for, and none of these is dead |
| `ProcessProofs!ProcessTree` | every process has a living parent and there is no cycle |
| `ProcessProofs!SleepersHaveTimers` | a linked timer's owner is inside `do_sleep`; `wait_state` is set exactly while asleep |
| `ProcessProofs!LifecycleImplemented` | `Process` implements `Lifecycle` |
| `ProcessProofs!CountCorrect`, `InitEndsLast` | `nr_process` is right and limited; `init_main` ends last |
| `SyncProofs!SemaphoreTypes`, `UnitsNeverLost`, `WaitQueues`, `DownAlwaysSucceeds`, `ServedInOrder` | units are conserved, the queue is exactly the sleepers and no unit is idle, `down`'s assertion holds, service is first come, first served |
| `SyncProofs!PhilosopherTypes`, `Invitations`, `DiningImplemented` | the semaphore version implements `Dining` for any number of philosophers and meals |
| `SyncProofs!MonitorOwned`, `WaitersEat`, `MonitorDining` | the monitor has one owner or is on its way to one; who returns from `cond_wait` has its forks; the monitor version implements `Dining` |
| `ClockProofs!KeysWakeReaders` | no reader sleeps while a key is there for it, with keys, ticks and kills in any order |
| `ClockProofs!KeysInOrder` | standard input implements `KeyStream`: readers get the keys typed in their order, each once, and none is lost unless a buffer is full |
| `ClockProofs!TimersLinked`, `TimersCountDown` | the assertions of the timer list hold; the list of deltas implements `Timers`: each sleeper is woken at its own tick |
| `ResourceProofs!FreeListSound` | the list of first fit and best fit is in order, its blocks are disjoint, merged and exactly what nobody holds, until a block is put behind the last one; all but the merging goes on until the link of that block to itself is used |
| `ResourceProofs!SlobSound` | the free blocks of `kmalloc` are one circle in the order of addresses, none touching the next; each unit is free or handed out exactly once |
| `ResourceProofs!SwapSound`, `OldestEvicted` | nothing that was written is lost and the list of pages is exact; fifo evicts what came first, lru what no tick has found used for longest |
| `SpaceProofs!FramesSound` | every page is free, held by one process, or in a loss that the code is known to have; areas are in order and do not overlap, page tables hang together |
| `SpaceProofs!NumbersUnique`, `RelativesAgree` | no number is given twice; the sibling pointers make up the lists of children that the parents name |
| `SfsProofs!SfsSound`, `NodesCounted` | every block is free or in one place of one file and none is missing, through failed calls, evictions and reloads; an inode is counted once for every entry that holds it |

The types, `CountExact` (the count of processes) and `DownNotInterrupted` are
proved and not run as well: the proofs hold for all instances, and `WaitQueueSound` notices
any sleeper woken by other means. The philosophers' theorems are about `PhilosopherSema` and
`PhilosopherCondvar` with their own `Spec`, the lock's about `LockSpec`; `Sync` runs the
same actions. Those of `ResourceProofs` and `SpaceProofs` are about `ResourcesSpec`, as the runs are.

**Process.** The invariants come in layers, each inductive together with the
ones before it. `QueueInv` is the types, `RunQueueExact` and `CurrentRuns`; the
last is needed because `initproc` marks itself asleep and runs on until its
`schedule()`, the one moment when `current` is not runnable. `TreeInv` adds
`SleepInv` (who sleeps has a `wait_state`, whose timer is linked is in
`do_sleep`), `FamilyInv` (free blocks have no parent, `initproc` lives, parents
live, no cycle) and `WaitInv` (`NoLostChildWakeup`, `WaiterHasChild`, and that
`initproc` waits for any child). They need each other: that no waiter loses its
last child rests on parents being alive when a zombie is reaped, and that needs
adoption to be exact. That `initproc`'s target is "any child" is what makes
the adoption of a zombie while `initproc` sleeps safe: `do_exit` wakes it.
Acyclicity is stated over sets (every set of live processes has a member whose
parent is outside), which needs no recursion: a step that changes parents either
adds a leaf, removes a leaf, or hangs children under `initproc`. `EndInv` adds
the count and `HaltInv`: when `initproc` has no child left, the set of all live
processes has no member whose parent is outside it, so it is empty.

**Semaphores.** `LockInv` says that the wait queue is a sequence without
repetition of exactly the sleepers, that no unit is idle while one waits, and
that holders and value add up. A transfer moves a process from one side of the
sum to the other. `QueueLemmas` has what `Tail` and `Append` do to the set and
the order of such a queue.

**Philosophers.** `TableInv` is the types, `MutexInv` (one philosopher at most is
between `down(&mutex)` and `up(&mutex)`, none while the mutex has a unit),
`InvitationInv` (a philosopher's place fits its state on the table, and its own
semaphore has a unit exactly from being made `EATING` to coming through its
`down`) and `MealsInv` (who has not left has meals to go). `phi_test_sema` is
called for neighbours, so the step that makes somebody eat is often another's:
the lemmas speak of the philosopher tested and of the one who tests. The mutex is
needed in one place only: who is about to test itself has not been tested by a
neighbour since it became hungry.

**Monitor.** `CondvarInv` follows the right to be in the monitor. `Has(i)` says that
philosopher i owns it or that its condition variable holds it ready; `TokenInv` that it is
in `mutex`, in `next`, or with exactly one philosopher, never in two places and never in
none. `SignallerInv` allows one signaller at a time: a second `cond_signal` would have to come from an
owner, and while somebody waits in `next` the owner is the one it signalled. `CondInv`
ties `count`, the unit and the queue of a condition variable to the place and the
state of its philosopher: whoever has been made `EATING` has been signalled, which is why
the `if` before `cond_wait` is enough. A step is a change of place, a step into the
monitor, a hand-over or a leave, and there is one lemma for each.

**Timers.** The entries of the list add up to what each sleeper has left.
`TicksTo` is that sum as the limit of a loop over the list; that an insertion splits one gap and a
removal joins two leaves all the sums behind it as they were. `TimerInv` adds to
`ListSound` that no sum is above `MaxTicks` and that whoever has fired is not linked. The
tick counts down the first entry and takes off all that stand at 0.

**Loops.** Three functions of the code are loops over lists, and induction over data
is not to be had as a theorem with an operator for a parameter. `QueueLemmas!SetInduction`
states it over sets instead (a set of numbers with 0 that is closed under + 1 has
them all), and `LoopEnds`, `LoopResult`, `Repeats` and `Repeated` say for any function that is
a recursion on its rounds that it ends, and what holds of its last value. The search of `get_pid`,
the adoption in `do_exit`, the walk to a timer's place, the ticks of lru and the loops of
`sfs_truncfile` are instances.

**Standard input.** `KeyInv` has `NobodyMissesKey` with the types of both buffers. What makes
it inductive is that the queue holds exactly the readers that have not been woken; a key
wakes them all, and one that finds the buffer empty again queues itself anew.

The refinement of `KeyStream` is about the keys left, those of both
buffers one behind the other. While no buffer is full they stay in order; a full one
drops keys, and the abstract specification then says, by counting, that none is doubled. For that
the proof finds each key left after a step at a place of its own among those before it
and the new ones (`FoundAt`); an injection never makes a count greater (`NoneDoubled`).

**Numbers and relatives.** `get_pid` gives `last_pid + 1` unseen while it is below
`next_safe`. `NumbersInv` says why: no process has a number strictly between the two. A search sets
this up, and each of its rounds either ends with a number nobody has or
goes on to a greater one; that it ends at all is a pigeonhole argument, more numbers than processes
(`FamilyAssumption`, as proc.c:201 asserts). `KinInv` names the list of children of
every process: `cptr` is its first, `optr` and `yptr` lead along it and back, and its members are those whose
`parent` it is. `JoinsList` and `LeavesList` say what `set_links` and `remove_links`
do to such a list; a round of `do_exit` is both at once.

**Address spaces.** `SpacesInv` is `FramesExact` with the types, that the areas of each process
are in order and disjoint (`Apart`), and that every entry has its table and every table its
directory (`Hangs`). Fork, exec and exit work on one record, memory under
construction; `Total` is what it holds with what is free and what is lost. For
each operation, down to the page, there is a lemma that it keeps `Total` (`Built`), also when
it runs out of memory half way, and for the clearing and the freeing of all
of a space that they give back what they say (`Regained`). `copy_range`, `load_icode`, `exit_mmap` and
`exit_range` are folds over pages, areas and tables: `Folded` says that such a fold runs through its
list step by step, and the lemmas on loops below carry an invariant through it. `HeldSum` is the sum over
all processes, of which a step changes one or two members (a parent that forks, one that
reaps). Areas in order are needed for fork: a page the child already has would be taken
twice and counted once.

**Lists of free blocks.** `Chained` says that `next` leads from the head through the blocks in the order of
their addresses and back, and `Sized` that they do not overlap and cover what nobody holds;
`LeadsBack` says the same of `prev`, but for blocks that are linked to themselves. With these
a walk passes every block in order (`WalkInOrder`, by induction over its steps), so that a
loop stops at the first block that meets its condition (`EndsInList`), `free_pages` finds the
place of a block and `alloc_pages` a block of the list (`InsertedGood`, `ChosenIs`). Then
`TakenOff`, `PutBehind` and `JoinGood` say what one `list_del`, one `list_add` and one merge do to a good
list, and each call is two or three of them. That a block touches the next is allowed between them for
the new block and the one before it only (`Apart`), and `MergedGood` says that the two merges remove
just these. `FreeListInv` holds in three grades: types always, `ListGood` until a link of a block
to itself is used, and `AllBack` with `Apart` until there is one.

**kmalloc.** `Ring` says of the free blocks that `next` leads from each to the one above it and
from the last to the lowest, `Gaps` that a block ends before the next begins. From
these alone: a set that is closed under `next` is the whole ring, so that the walk of
`slob_alloc` comes to every block, and the search of `slob_free` stops in front of the
place where the block belongs, wherever `slobfree` stood (`WalkCovers`, `SearchStops`). Freeing is then four cases, joined to the block
below, to the one above, to both or to neither (`BlockFreed`); taking is two, the whole block or
its front (`BlockCut`). `Kept` ties the ring to who has which unit; in the middle of a call a block is neither free
nor handed out, and the lemmas between `UnitsToSmall` and `NoteToUnits` each move it from
one owner to another. `kfree` tells large blocks from small ones by the address alone:
`SmallNotNoted` says that this is never wrong. `SlobExact` counts spans instead of naming owners; `Spread` says that spans which do
not meet are as many as their blocks.

**Page replacement.** `SwapInv` says that the list has each mapped frame once, that the
page table and the frames agree, and that what a page holds is its last write; it holds in the
middle of a fault as well, where a page may be out of the table and not yet in. `AgesInv`
adds, for fifo and lru, that the list is in the order of age. For lru that is the work of
`_lru_tick_event`, which takes the pages that were used to the front one by one; `Ticked` says what the
list has come to after any number of its rounds.

**Simple FS.** Of a volume, the disk as one inode sees it, `Good(v, O)` says that each
block is free, or in one place of the inode, or in `O`, the blocks of the others, and
never in two of these, and that no block of the file is missing. For every operation there is a lemma
that it keeps a volume good, leaves the tables of others alone, and gives a clean
inode no place that the stored one does not have (`Follows`): `Fills` for the three
ways in which `sfs_bmap_get_nolock` gets a block, `FreesLast`, and from these the loops of
`sfs_truncfile` (`TruncatedKept`) and `sfs_io_nolock` (`IoKept`) with all that
may fail within them. `SfsInv` says that the view of each file is good with the
blocks of the others for `O`; `MapsStep` carries that over when one file takes a step. Its
part `CachedInv` is what eviction needs: a clean inode may be ahead of the
stored one in its count of blocks only, so that dropping it forgets a block that
its table goes on naming, and loses none. The places are finite and there are fewer blocks
(`ImageAssumption`), so that a file never asks for a place beyond them.

**Left to TLC.** Liveness (the prover does no ENABLED or fairness); everything of
`Stride`, whose heap is a recursive operator (`HeapExact`, `FairShare`); the allocators of lab2 and the
leaks of address spaces (`BuddyExact`, `SlabsExact`, `LeaksExplained`,
`ImplementsPages`), whose calls are sums and folds over lists and trees; and the
refinement `ImplementsFileContents`, which is about sequences of units. Each is checked by the runs of section 3, within their bounds.

## 6. Where code and promise differ

Found by the runs:

* **`kill_lost`**: `trap()` looks at `PF_EXITING` (trap/trap.c:288) before it
  calls `schedule()` (trap/trap.c:292) and not again behind it, and neither
  `do_wait` nor `do_sleep` looks before it sleeps. A process preempted there,
  killed while in the run queue, that then
  calls `waitpid`, sleeps with the flag set. A second kill returns `-E_KILLED` and
  wakes nobody. `KilledSleeperDies` says what does hold: who is killed while asleep dies.
* **`sfs_index`**: of two entries of one file, one writes on at a position
  behind the end that the other's truncation left: sfs_inode.c:396 asserts, and the kernel stops.
* **`first_fit`**: a block freed behind all others is linked to itself
  (default_pmm.c:147, the same lines in lab2 and lab3). While it is the only block
  or gets merged this does no harm; but when another block is then freed or the
  block is taken, `list_del` writes through its stale links, and in the end a page of a listed block is
  handed out. `FreeListExact` shows how far the harm goes: until a link of that
  block to itself is used, nothing is lost and nothing handed out twice.
* **`cow`**: `page_insert` counts the old page down, and `do_pgfault` of lab5 does
  so again (kern/mm/vmm.c:470). With three sharers the count is 1 while two map the page.
* **`all_returned`**: a process that loses its address space in a failing `exec`
  exits without `put_files` (process/proc.c:567); the open-file table stays taken.
  `FramesExact` and `LeaksExplained` say what does hold: every page is accounted for, and with
  memory left only such processes, and programs with several page tables in one directory, lose some.

Met while modelling, kept as hazards with the line where they bite, or here:

* `exit_range` frees a directory when every entry of one area's range was valid
  (mm/pmm.c:431), whatever else hangs below it; those tables are lost. No user
  program of the repository is large enough.
* An allocation that fails in the middle of a truncation to a longer file leaves
  the size and the number of blocks apart, and the next open with `O_TRUNC`
  asserts (sfs_inode.c:1019). A block counted in an inode that stays clean is
  forgotten when the inode is evicted (sfs_inode.c:405), and old units show when
  it is counted again. `BlocksExact` holds throughout; `ImplementsFileContents`
  ends at the first such failure.
* `vfs_open` keeps a reference when it refuses `O_CREAT|O_EXCL` (vfsfile.c:53).
* Stride scheduling starves others behind an endless chain of forks, and its
  comparison may be wrong for sleepers that come back late (section 4). A priority
  above `BIG_STRIDE` makes the pass 0 and the process keeps the CPU
  (default_sched_stride.c:131).
* Out of memory, `copy_range` (mm/pmm.c:473) and the stack of `load_icode` assert, and
  `cache_grow` writes through NULL (slub_pmm.c:235 of lab2).
* The clock of lab3 walks through the head of its list, which is no page, and
  starts there after the hand has passed the newest page: no victim although pages are
  listed (swap_clock.c:83, 106). It never sets `visited` at a use, so it is FIFO with a delay.
* `mm_map` looks only at the area that holds the first address (mm/vmm.c:172); a request that
  ends in the next area meets the assertion of `insert_vma_struct`.
* `buddy_system_init_memmap` does not end for a zone of a power of two
  (buddy_system_pmm.c:64), and `copy_range` of lab5 takes a page it never uses (pmm.c:391).
* `find_order` (mm/kmalloc.c:213) rounds down: 8193 bytes get two pages, and sizes from 4064 to 4079
  are refused by an assertion. No call of the kernel asks for these.
* `sfs_io_nolock` writes the aligned middle as if its blocks were neighbours on the
  disk (sfs_inode.c:683), and SFS_MAX_FILE_SIZE allows indexes the block map refuses
  (sfs_inode.c:319): callers cut requests into blocks, and the image is too small.

## 7. Not modelled

Of lab8: directories and mounts (no call changes the one flat directory of the
image, so a lookup is a function of its argument), devices (disk0 is a `memcpy`,
stdout prints), system-call dispatch, boot, console output, the debugger and strings (straight-line
code), the swap files, which lab8 compiles and never starts, and user programs
(`Process`, `Sfs` and `AddressSpace` let any process make any call at any time). `ksize` has no caller.

In what is modelled: `Process` leaves memory and files of fork and exit to
`AddressSpace` and `Sfs`; `AddressSpace` has no permissions of areas, no `mm_count` above 1
(only `kernel_thread` passes `CLONE_VM`, and its callers have no address space) and no
contents of ELF headers; `Cow` has one area and no page tables; the inodes of `Sfs` are those of the image, as `vop_create` is absent.

Of the other labs: labs 0.5, 1 and 4, and of labs 2, 3 and 5 all but the exercises
named above, are earlier states of the files in lab8, most of them the same line for
line. They are why the map, which names one place for each definition, covers a
small share of the repository: it holds six copies of `libs/`, of the drivers and of the
boot code, several of proc.c, vmm.c, pmm.c and the user programs, and long headers of
register names (riscv.h alone has 1,500 lines in each). Of the files that keep
state and take decisions, all but those named in this section are mapped.

## 8. Plan

Done, in this order because the rest of the kernel runs on it: processes and
their proofs, timers, semaphores and monitors, stride scheduling, the file
system; standard input and the clock; the allocators, address spaces, process numbers
and family lists, page replacement, copy on write, `kmalloc`.

Left, if a composition of larger parts pays: `Process` with `Family` in place of its
parent pointers, and working directories and the open-file table of each
process (`Process` with `Sfs`) in place of the flat set of entries.

Theorems that could come next: `ImplementsFileContents` (over `SfsInv`, what each
unit of a file is after `Io` and `Truncated`); `LeaksExplained` (over `SpacesInv`); `ImplementsPages` of first fit and best fit (over `FreeListInv`); the comparison of strides (for `a`, `b` within half the range the
sign of the difference modulo 2^W is the order of the unwrapped numbers), in a module apart from
the recursive heap, which `HeapExact` would need as a recursive function.
