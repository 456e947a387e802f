# A TLA+ verification of Aegis

Aegis is a small capability-based kernel for x86-64 (with an arm64 port) and
its userland.  This directory holds TLA+ modules that model the kernel
and the stateful programs of the userland, the TLC configurations that check them on small instances, and theorems whose
proofs TLAPS checks for every instance.

`PROJECT.json` lists the components, the runs, the source lines behind every
definition, one mutant per property, the hazards of the code and the theorems.

## 1. The system

### How it executes

The facts every module rests on:

- **One processor runs tasks.**  The application processors are started and
  take interrupts, but their `current_task` stays NULL and `sched_tick` returns
  at once there (`sched.c:630`).  All task code is executed by the bootstrap
  processor.
- **System calls are not preempted.**  SYSCALL masks IF and nothing on the way
  enables it, so a system call runs to its end or to a point where it gives the
  processor up: `sched_block`, `sched_stop` on itself, `sched_exit`,
  `sched_yield_to_next`.  A module's action is the piece of a handler between
  two such points.  (Two places enable interrupts inside the kernel:
  `usb_mouse.c:95` and the ARP wait in `eth.c:230`.)
- **User code is preempted anywhere**, by the timer (`pit_handler`,
  `pit.c:56`), and so is `task_idle`.
- **Signals are looked for on the way back to user mode**, one per return
  (`signal_deliver`, `signal_deliver_sysret`).  They are sent by system calls,
  and by the ACPI power-button interrupt.
- **Pids are never reused**, and `kva_alloc_pages` panics rather than fail.

### Parts, their state and their operations

| Part | State | Operations | What makes it hard |
|---|---|---|---|
| scheduler (`sched/sched.c`) | ring of all tasks, doubly linked run list with a sentinel, current task, CR3/FS/RSP0 | add, start, block, wake, stop, resume, exit, yield, tick | pointers re-linked while others walk them; four ways out and four ways in |
| processes (`sys_process.c`, `proc.c`) | parent, thread group, page-table owner, states, what a waiter waits for | fork, clone, vfork, exec, exit, exit_group, waitpid, kill | a child changes state between the scan and the block; shared address spaces |
| signals (`signal.c`, `sys_signal.c`) | pending set, mask, actions, frames on the user stack, registers | send, deliver on two return paths, sigreturn, sigprocmask, sigsuspend | nesting; two layouts of saved registers |
| pipes, descriptors, wait queues, poll | ring buffer, two reference counts, two waiting slots, wait queues | read, write, poll, dup, close, fork, exit | lost wakeups, ring arithmetic, counts kept by hooks |
| futexes and sleeping | pool of waiters, words in user memory, deadlines | wait, wake, clear_child_tid, nanosleep, tick | a wait ended by something other than its wake |
| physical memory | bitmap and reference counts | boot map, alloc, ref, free | unaligned, overlapping firmware regions |
| kernel addresses | bump pointer, bounded free list | alloc, free, map | merging neighbours in a bounded list |
| mapping tables (VMA) | sorted table of bounded size | insert, remove, change protection, clone, share, free | splits; a full table |
| user memory | page table, mapping table, free addresses, break, memfd pages | mmap, munmap, mprotect, brk, memfd, fork, clone, spawn, execve, exit, reap | failure half way; who owns a frame |
| AF_UNIX, epoll, TCP, UDP/IP/ARP, sockets | tables of fixed size, rings, ready lists, timers | connect, accept, send, receive, close, tick, packet in | slots that are reused, packets lost, repeated and late |
| ext2 and its cache, VFS, ramfs | bitmaps, inodes, directories, dirty blocks, open files | create, write, unlink, rename, truncate, sync | several blocks per operation, crashes between writes |
| terminals | line buffer, foreground group, pty rings | input, read, write, ioctl, hang-up | job control against readers that block |
| capabilities | table of kinds and rights per process, policy files | grant, check, inherit on fork, spawn, exec | what survives which call |
| drivers | rings shared with devices, event queues | submit, complete, interrupt | producers and consumers at different speeds |
| vigil, lumen, shells, installers | services, windows, jobs, steps | start, restart, draw, run, install | processes that die at any moment |

The components with the files they consist of, and the reason where a part is
not modelled, are listed in `PROJECT.json`.

## 2. Modules

State and actions are named after the code.  Every module's header says which
files it models and what it abstracts; `map` in `PROJECT.json` gives the lines of
every definition.

| MC module | Composes | Runs |
|---|---|---|
| `MCIpc` | `Sched`, `Pipe`, `Signal` | `ipc`, `pipe_exit` |
| `MCFutex` | `Futex` | `futex` |
| `MCProc` | `Proc` | `proc`, `proc_leader_reaped` |
| `MCMm` | `Pmm`, `Kva`, `Vma` | `mm` |
| `MCMemory` | `Memory` | `memory`, `mem_threads` |
| `MCNet` | `UnixSock`, `Inet`, `Epoll` | `net` |
| `MCIo` | `Ext2`, `Tty`, `Xhci`, `Nic`, `Disk` | `io`, `install_copy` |
| `MCSystem` | `Files`, `Exec`, `Tables`, `Lumen`, `Glyph`, `Session`, `Vigil`, `Dhcp`, `Shell` | `system` |

A composed run is a sum, not a product: a behaviour concerns one part, chosen in
`Init` with a workload (the record `load` of `Workload`, which says which calls the
programs make and which failures happen), and the other parts keep their initial
state.  Parts that interact are in one module: `Inet` has TCP, UDP and the socket
calls over them, `Disk` the driver, the cache, the partitions and the installer,
`Lumen` the display server and its clients.

### Tasks

**`Sched`** is `kernel/sched/sched.c` at the level of its pointers: `next` is the
ring of every task, `next_run` and `prev_run` the run list anchored at
`s_run_sentinel`, `cur` the current task, `cr3`, `fs_base` and `rsp0` the registers a
switch must restore.  Each entry point is an action, and `sched_tick`, which the
code runs as one loop over the ring, is one action per task scanned.

**`SchedAbs`** says what the scheduler promises: a round-robin queue with a current
task.  `RefinesQueue`, checked and proved, says that `Sched` implements it, with the
queue read off the pointers: the refinement mapping is at the end of `Sched`.  **`SchedOps`** gives the same promise as functions on a record
`[st, rq, cur]`, and the modules of the system calls use these functions
wherever the code calls the scheduler.  That is how the modules compose: the
pointers are checked once, and the others rest on the queue.

**`Proc`**: processes, threads, vfork children and init with the scheduler's queue.
Each system call is an action by the current task; `waitpid` is split where it
blocks.  The part of `signal.c` that sends signals and takes default actions
is here; handlers are in `Signal`.

**`Signal`**: one process, its mask, its handlers, and the frames and registers of
x86-64's two return paths (`sysret` after a system call, `iretq` after an
interrupt).  `prog_mask` is the mask the program asked for, which
`ContextRestored` compares with the kernel's.

**`Pipe`**: one pipe with its ring, reference counts, waiting slots and wait queues,
and processes that read, write, poll, duplicate, close, fork and exit.  Bytes are
numbered modulo `Mod`, which is larger than the ring, so a byte lost, repeated
or swapped shows.

**`Futex`**: threads, futex words, the pool of waiting slots, `clear_child_tid` at a
thread's exit with the joiner that waits on it, nanosleep and the timer.

### Memory

**`Pmm`** is the frame allocator: the boot map computed from firmware regions, then
allocation, reference and free.  **`Kva`** is the allocator of kernel addresses.
**`RangeList`** holds what works on lists of ranges: the free lists of `kva.c` and of
mmap, and the functions of `vma.c`, whose loop over a table that shifts under it is
the function `Turns`, one `Turn` per entry visited.  **`Vma`** checks the mapping
table against the pages it has to show.  **`Memory`** has user address spaces: what
mmap, munmap, mprotect, brk, memfd, fork, clone, spawn, execve, exit and reap do to
page table, mapping table, free list and frames, with the failure path of each loop.
**`Tables`** goes below it, to the trees of tables of `vmm.c`.

### Network

**`UnixSock`**: the slots of AF_UNIX sockets, the name table, backlog, one ring per
direction, waiters and passed descriptors.  **`Inet`**: the socket table, TCP and UDP
with the loopback queue.  Segments are handled in the timer interrupt, between any
two calls; those of the other machine are lost, repeated and reordered.  **`Epoll`**:
watches, ready lists, the notification from the interrupt and the wait with its
deadline.

### Files and devices

**`Ext2`**: every call is one action under `ext2_lock`; when a changed block reaches
the disk is left open, so a crash finds any mixture of old and new blocks.
**`Tty`**: line discipline, pseudo-terminal pairs, keyboard and console.  **`Xhci`**:
command, event and transfer rings, slots, ports, HID reports, PS/2.  **`Nic`**: both
network cards, ARP and the polling `arp_resolve` nests.  **`Disk`**: NVMe queues,
RAM disks, GPT, the block cache, the disk calls, and the installer of `libinstall`
with each of its system calls a step, between any two of which the power may fail.  Devices are external: they answer at
any time, in the ways the drivers provide for.

### System calls and userland

**`Files`**: descriptor tables, path dispatch, ramfs, procfs, initrd.  **`Exec`**:
every failure point of execve and spawn, capabilities, policy files, identity.
**`Lumen`**: compositor, server, event loop and client library.  **`Glyph`**: the
widget toolkit, and what of its changes the compositor brings to the screen.  **`Session`**: login, greeter and libauth.  **`Vigil`**: the
supervisor and vigictl, which talk through a file and a signal.  **`Dhcp`**: the
DHCP client, whose transactions are numbered by the second, and the time client.  **`Shell`**: stsh with its parser, pipelines, editor and history.

### Proofs

`Task_proofs` (over `Sched` and `Signal`), `SchedOps_proofs`, `Futex_proofs`,
`Pipe_lemmas` and `Pipe_proofs`, `Proc_proofs`, `Mm_proofs` (over `Pmm` and `Kva`),
`Vma_proofs`.

## 3. What the runs check

| Run | Distinct states | What it shows |
|---|---|---|
| `ipc` | 301,023 | scheduler: lists sound (`RunListSound`, `RingSound`), panics unreachable (`NeverPanics`), registers restored (`CpuMatchesCurrent`), a round-robin queue implemented (`RefinesQueue`); pipe: stream, wakeups, counts (`StreamIntact`, `NobodyForgotten`, `RefsCountDescriptors`); signals: contexts and masks come back (`ContextRestored`); sleepers wake, readers return, SIGKILL kills unless a handler masks it or SIGINT goes first for ever (`EveryWaitEnds`) |
| `futex` | 137,938 | slots belong to sleepers, no waiter is forgotten, no sleep ends early, join returns |
| `proc` | 97,490 | a waiter misses no event, nobody is orphaned by exit, the run list matches the states and memory outlives its users, the dead stay dead, waitpid returns |
| `mm` | 214,382 | the boot map is exact, counts equal owners, kernel ranges neither overlap nor get lost, the mapping table shows the pages |
| `memory` | 231,086 | free addresses are unmapped, no frame leaks or has two owners, the mapping table shows the pages, images stay, tables and descriptors are counted |
| `net` | 82,248 | streams intact (`NetStreams`), nobody sleeps on what has happened (`NetNobodyForgotten`), slots, references and ready lists sound (`NetTables`), calls return (`NetReturns`) |
| `io` | 157,160 | what is read is what was written, on disk, terminal, USB and network card (`IoIntact`), tables sound (`IoTables`), nobody sleeps on input (`IoNobodyForgotten`), readers, devices and senders get on (`IoReturns`) |
| `system` | 80,594 | files, programs and page tables (`KernelIntact`), the userland programs (`UserIntact`), whatever is begun ends (`SystemReturns`) |
| `pipe_exit` | violation | an exit that closes a pipe takes `sched_lock` twice |
| `mem_threads` | violation | two threads that map are given the same address |
| `proc_leader_reaped` | violation | reaping a group leader frees the page tables of its live threads |
| `install_copy` | violation | the installed root lacks what the installer wrote before it copied |

The properties of `net`, `io` and `system` are conjunctions with one conjunct per
part, named after it (`UnixStreamIntact`, `Ext2Content`, `LumenIntact`, ...) and stated with
its comment in the part's module.

A property that the code breaks in a known way (section 5) is not kept true by leaving
the way out of the workload.  The call happens, the model records it, and the property
says what it still promises: a ghost variable for calls that break memory (`odd`, after
which no further call is made), for slots reused while somebody holds them (`istale`,
`ustale`, `eold`) and for answers taken late (`late`); counts of what is lost, by kind,
so that anything more would show (`xk.lost` in `Exec`, `stuck` in `Files`, `torn` in
`Shell`, `missed` in `Glyph`).  The comment of the property lists the exceptions.

### Bounds

- `ipc`: two user tasks and `task_idle`.  Every list operation touches a node
  and its two neighbours, and with the sentinel there are four nodes.  A ring of
  two bytes fills, empties and wraps, with up to three processes.  SIGINT,
  SIGKILL, SIGCHLD and SIGSTOP (caught or fatal, unmaskable, ignored by default,
  stopping), handlers nested two deep, one of whose masks has all four.  Sleeps are at most two ticks.  The theorems hold for any number.
- `futex`: three threads, two words and two slots, so the pool overflows.
- `proc`: up to four pids, as a workload allows (init, a parent, and two
  children or threads), and `MAX_PROCESSES` 4, so the limit is reached.
- `mm`: pages of three bytes, so that region boundaries fall on every offset;
  four frames, eight kernel pages, a free list of two entries, a table of four
  entries over four pages.
- `memory`: two tasks, eight workloads, and few enough frames in them that every
  allocation can fail in the middle of a call; a mapping table of 7, a free list of 2, one memfd of two pages.
- `net`: five AF_UNIX slots, rings of 4, a backlog of 2 and two passed
  descriptors; four sockets and TCP connections, a loopback queue of 2, sequence
  numbers modulo 16 that start near the wrap, two retransmissions; two threads and
  two watches in epoll.  Slots are reused and tables fill.
- `io`: four blocks and inodes, blocks of four entries with two direct ones, so that
  the indirect block is reached; two pty pairs with rings of 4; xHCI rings of 4, 5
  and 9 entries that wrap; queues of 2 and 3; a cache of two slots, so that it evicts.
- `system`: three descriptors, four pids, twelve capability slots; page tables of
  three levels of three entries; two display clients and three windows; two DHCP
  servers; pipelines of three stages.

Six configurations have no deadlock check, because the system may really stop: `Mm` (a
full allocator has no step left), `Memory` (no call follows one that broke memory), and `Net`, `Io`, `InstallCopy` and `System`
(the programs of a workload end).

### Fairness

- Timer: strong fairness of the tick (`ipc`, `futex`, `proc`).  Ticks come for ever and
  only find interrupts masked for the length of a system call.
- The kernel: weak fairness of the steps a handler takes once it started
  (`KernelStep`, `TickScan`, `TickPick`, `Deliver`), of timer interrupts in `net` and
  `io`, and of the call of a process that was woken.  For TCP and UDP the last is
  strong (`InetFairness`): an interrupt may take the processor from the call again and
  again, and each time gives it back.
- The USB controller: weak fairness of the execution of the commands it was given
  (`UsbFair`).  The controller is taken to execute them at some time; that it may be
  late is what the driver's time-out is for, and the time-out is modelled.
- `system`: weak fairness of the daemon, server or shell that is running, and of each
  client that is in a conversation with the display server: they are runnable
  processes under the round-robin queue.
- Users, packets, crashes, failures and what a program does next get no
  fairness: a writer may never write again.  Liveness properties are conditional
  on what programs have to do for them.

## 4. What is proved

Eight modules hold proofs, for every value of the constants that satisfies the
named assumptions of the modules they are about.

| Theorem | Module | Property of a run |
|---|---|---|
| `RunListCorrect`, `RingCorrect`, `NoPanic`, `CpuCorrect` | `Task_proofs` | `RunListSound`, `RingSound`, `NeverPanics`, `CpuMatchesCurrent` |
| `SchedRefinesQueue` | `Task_proofs` | `RefinesQueue` |
| `SignalContextRestored` | `Task_proofs` | `ContextRestored` |
| `FutexPool`, `FutexNobodyForgotten`, `FutexNoEarlyWake` | `Futex_proofs` | `PoolHoldsSleepers`, `NobodyForgotten`, `NoEarlyWake` |
| `PipeStream`, `PipeNobodyForgotten`, `PipeRefsCount` | `Pipe_proofs` | `StreamIntact`, `NobodyForgotten`, `RefsCountDescriptors` |
| `ProcNoOrphans`, `ProcLiveTasksSound`, `ProcWaiterMissesNothing`, `ProcDeadStayDead` | `Proc_proofs` | `NoOrphans`, `LiveTasksSound`, `WaiterMissesNothing`, `DeadStayDead` |
| `OwnersCounted`, `BootMap` | `Mm_proofs` | `CountsOwners`, `BootMapExact` |
| `KvaNoOverlap`, `KvaNothingForgotten` | `Mm_proofs` | `NoOverlap`, `NothingForgotten` |
| `VmaShowsPages` | `Vma_proofs` | `ShowsPages` |

`TypeCorrect`, `PmmTypeCorrect` and `KvaTypeCorrect` state the type invariants.

### Assumptions

- `TaskAssumption`, `SleepAssumption`: the idle task, the sentinel, NULL and the
  kernel's address space are no user tasks; idle task, sentinel and NULL differ.
- `SignalAssumption`: actions and masks are over the signals that exist.
- `FutexAssumption`, `PipeAssumption`: finitely many threads or processes, which are
  neither the idle task nor NULL; a ring of at least one byte, and more byte numbers
  than the ring holds.
- `ProcAssumption`: at least one pid.
- `PmmAssumption`: sizes are naturals, page size and count limit positive, and an empty
  reserved region lies at a page boundary (it stands for an absent boot module, whose
  address `arch_mm.c` leaves 0).
- `KvaAssumption`, `VmaAssumption`: bounds are naturals, the first address positive,
  and "none" is no type of mapping.

### The arguments

- **Scheduler.**  The invariant `IInv` of `Sched` joins the type invariant, the linking of
  both lists, "on the run list exactly when RUNNING", that `task_idle` is at the head of
  the run list (so it never leaves), and what the CPU and the saved frames hold,
  inside the timer interrupt too (`CpuInv`).  It is not inductive by itself: that
  the successor of a task that leaves differs from it needs the run list to be
  one cycle.  `Ordered` says so without recursion, by a numbering of the nodes
  that grows along the list, and `InsertOrdered` and `RemoveOrdered` renumber.
  `FullInv == IInv /\ Ordered(next_run)` is inductive, with one lemma per
  action (`LeaveInv`, `LinkInv`, `ExitInv`, `TickInv`, `ReapInv`, ...).
- **The ring of tasks.**  That it is one cycle is said without recursion: no set of allocated
  tasks but all of them is closed under `next` (`RingComplete`).  If a set is closed
  after `sched_add`, the set without the new task was closed before (`RingGrows`); if
  it is closed after a reap, it or it with the reaped task was (`RingShrinks`).
- **The queue.**  `Lists(nr, q)` says that the sequence `q` has the tasks of a run list once each
  and in the order of its pointers.  `InsertLists` and `RemoveLists` show that an
  insertion at the sentinel appends to `q`, and that a removal drops one entry.
  `QueueOf` follows the pointers by a recursive function, and `QueueOfIs` shows that it
  gives `q` back, so the queue of a list is unique; `NextFollows` that the pointer the code
  follows is the next entry of the queue, cyclically.  With the invariant
  `RefInv == FullInv /\ Listed(next_run)`, each action is then a step of `SchedAbs` or none
  (`StepRefines`): the step of the timer's scan that wakes nobody, the start of the
  interrupt and power-off are none.
- **Signals.**  `SInv`: types, what each frame saved of the context below it (`SCore`), that
  a signal being handled is masked (`SMasked`) so that none has two frames
  (`NoReentry`), and that the masks saved in the frames lead back to the mask the
  program asked for (`SMask`).
- **Queue functions.**  `SchedOps_proofs` shows what block, wake, exit and yield do to the
  set of queued tasks, and what the loop over the wakeups of a tick does, which
  needs induction: see below.
- **Futexes.**  `FInv`: every waiting thread has a slot with its address, and only the joiner
  waits for a thread's end (`FSlots`); a word that changed has its wake still to come.  `FQuiet` says that a used
  slot belongs to a thread that waits at its address, that no thread has two, and
  that a deadline is set only while its thread is blocked in nanosleep.  It holds without
  signals only, and so do `FutexPool` and `FutexNoEarlyWake`, as their properties say.
- **Pipe.**  `PInv`: the ring between its two positions holds the consecutive byte numbers
  not yet read (`PRing`, with the arithmetic of the wrap in `Pipe_lemmas`), the counts
  equal the descriptors (`PRefs`), and who is blocked is in the slot or queue that will
  wake it (`PWaits`).  The slots hold one task, so `NobodyForgotten` is stated where
  there is one reader and one writer (`OnlyOne`).
- **Processes.**  `PrInv`, in eight parts: queue and states, pids, thread groups, owners of
  memory, the tree of parents, and what a waiter was told.  It is an invariant under
  `ZombiesUnlinked`: exit_group leaves the zombies it makes in the run list
  (section 5), so the workload must not have both threads and exit_group.
- **Frames and kernel addresses.**  For `BootMap`, rounding inwards and outwards at
  every page size.  For `Kva` the difficulty is the merge in `freelist_insert`:
  `MergeBeforeInserts`, `MergeAfterInserts` and `AppendInserts` show that each case adds
  exactly the freed range, `GrowKeeps` that what was disjoint stays so, and
  `Remembered` that no page below the bump pointer is lost except by a full list.
- **Mapping tables.**  The loops of `vma_remove` and `vma_update_prot` go over a table
  that they cut and shift.  `VmaIInv == Matches(table, page)`: the table is in order, its
  entries lie apart, and some entry shows a page with a protection and type exactly
  when the page is so mapped.  One turn of the loop is described by what it does to
  the pages of its entry (`Turned`), `WalkDoes` extends that over the loop, and `Joined`
  and `Adds` describe the merging insertion.  The premise `[]Room(table)` says that a call
  begins with room for the two entries it may add.  In the run it always holds
  (`VMA_CAPACITY = MaxVa`); in the code the table has 170 entries, and when it is full
  the change is dropped (section 5), so the theorem would be false without it.

The prover has no induction over data.  The inductions here (over a queue, the turns of a
loop, a finite set, the pointers of the run list) go by minimal counterexample: `NatMin` gets the least element of
a set of naturals from the well-foundedness of `<`, `SetInduction` states induction
with a set in place of a predicate, and recursive functions are unfolded after their
existence is shown (`WakeStepsDef`, `TurnsDef`, `QueueOfIs`).

### Only model-checked

- Every liveness property: `EveryWaitEnds`, `JoinReturns`, `WaitReturns`, `NetReturns`,
  `IoReturns`, `SystemReturns`.  Fairness is out of the prover's reach.
- The invariants of `Memory`, of the parts of `net`, `io` and `system`: conjunctions over
  modules that are an order of magnitude larger, several of which use recursive operators.

## 5. Where code and comments disagree

Four disagreements have a run of their own (`proc_leader_reaped`, `pipe_exit`,
`mem_threads`, `install_copy`).  The others were met while modelling.  The models contain the
behaviour; where a property would fail on it, the property names it as an exception
(section 3), or the workload does without the call, and the hazard at the line says so.  What the code does, and what it says:

### Tasks and memory

- `syscall/futex.c:74`: sys_futex returns after sched_block without freeing its slot, also when a signal (signal/signal.c:426) or a stale sleep_deadline woke it, so the pool fills with slots of threads that no longer wait; syscall/futex.c:75 says "Woken — slot freed by futex_wake_addr".
- `syscall/futex.c:27`: futex_wake_addr calls sched_wake on the task of a stale slot, which sets a TASK_ZOMBIE task to TASK_RUNNING and links it into the run list; sched/sched.c:344 says "unreachable — zombie never resumes".
- `syscall/sys_time.c:36`: sys_nanosleep does not clear sleep_deadline when something other than the timer wakes it, so sched_tick later wakes whatever the task is blocked in; sched/sched.h:23 says "PIT tick when nanosleep expires; 0 = not sleeping".
- `mm/kva.c:96`: When the freed range precedes entry i, freelist_insert merges it and returns without looking for an entry that ends where the range began, so adjacent entries stay apart and a larger allocation cannot use them; mm/kva.c:28 says "Adjacent entries are coalesced on insert."
- `mm/vmm.c:744`: vmm_unmap_user_page clears only an entry that is present, so munmap of a PROT_NONE page frees the frame and leaves it in the page table, where execve or exit frees it again after somebody else got it; syscall/sys_memory.c:418 says "use vmm_phys_of_user_raw to find physical frames even when PRESENT is cleared (PROT_NONE pages from mprotect). Without this, munmap leaks physical frames".
- `syscall/sys_memory.c:248`: The MAP_FIXED loop looks pages up with vmm_phys_of_user, which does not find a PROT_NONE page, and the new entry overwrites the old one, whose frame is lost; syscall/sys_memory.c:201 says "map at exact address; silently unmap existing pages first".
- `mm/vmm.c:1160`: vmm_free_user_pages (execve) and vmm_free_user_pml4 (waitpid) free every leaf frame, those of shared mappings too; mm/vma.h:16 says "MAP_SHARED mapping — phys pages owned by memfd".
- `fs/memfd.c:97`: memfd_vfs_close and memfd_truncate free the frames without regard to mappings, which hold no reference; mm/vma.h:16 says "MAP_SHARED mapping — phys pages owned by memfd", and programs map, close the descriptor and go on using the mapping.
- `syscall/sys_memory.c:409`: vma_insert merges adjacent shared mappings, so the test v->base == arg1 fails for the second and munmap frees its frames; syscall/sys_memory.c:403 says "Check if this is a shared mapping — don't free physical pages (they belong to the memfd, not this process)".
- `syscall/sys_process.c:529`: vmm_copy_user_pages gives the child private copies of the shared pages while vma_clone copies the VMA_SHARED entry, so munmap in the child frees nothing; syscall/sys_memory.c:403 says "don't free physical pages (they belong to the memfd, not this process)".
- `syscall/sys_memory.c:239`: MAP_FIXED neither takes its range off the free list nor moves mmap_base, so a later mmap is given mapped addresses and vmm_map_user_page_nolock panics (mm/vmm.c:509); syscall/sys_memory.c:201 says "MAP_FIXED (addr != 0, MAP_FIXED set): map at exact address".
- `syscall/sys_process.c:226`: sys_clone copies mmap_base and the free list to the thread, which shares the page table, so two threads that map are given the same address and the kernel panics; proc/proc.h:43 says the lock "guards mmap_free[] for CLONE_VM threads on SMP" and syscall/sys_memory.c:117 "Two threads sharing a VM (CLONE_VM) can race on the freelist".
- `mm/vma.c:307`: vma_share increments the caller's count and copies it, so every task counts on its own and vma_free does not see the references of the others; mm/vma.h:58 says "decrement refcount; free kva page if refcount reaches 0".
- `syscall/sys_process.c:532`: The failure paths call vma_clear, which sets the count to 0 and frees nothing (mm/vma.c:284); syscall/sys_process.c:505 says "free fd_table + VMA allocated above".
- `syscall/sys_process.c:531`: The failure paths free the page of the copied descriptor table without closing its descriptors, whose dup hooks ran in fd_table_copy; syscall/sys_process.c:505 says "free fd_table + VMA allocated above", and the same failure in sys_clone is undone because "Leaking any of these corrupts the parent's bookkeeping permanently" (syscall/sys_process.c:287).
- `syscall/sys_memory.c:55`: When frames run out sys_brk returns with the pages mapped so far still mapped above the break, and the next brk maps them again, which panics (mm/vmm.c:509); syscall/sys_memory.c:17 says "On OOM, returns the current break unchanged".
- `proc/elf.c:186`: elf_load records the segments in the table of sched_current(), which during sys_spawn is the parent (syscall/sys_exec.c:689); proc/elf.c:181 says "Record VMA for this PT_LOAD segment" and names proc_spawn as the only known gap.
- `fs/memfd.c:202`: memfd_truncate returns -ENOMEM with frames stored beyond page_count, which neither close nor a later truncate frees; fs/memfd.c:97 says "Free all physical pages".
- `fs/pipe.c:126`: reader_waiting holds one task, so the second reader that blocks replaces the first, which a later write or close then never wakes; fs/pipe.c:94 says "If empty and write end open: block until data arrives or write end closes."
- `sched/sched.c:263`: sched_exit holds sched_lock (taken at line 228) while fd_table_unref runs the close hooks, whose sched_wake takes the same non-recursive ticket lock; sched/sched.h:80 says sched_wake is "safe to call from any caller that does NOT already hold sched_lock" and sched/sched.c:473 "Most callers (pipe close, ...) do not hold sched_lock".
- `syscall/sys_process.c:104`: sys_exit_group sets t->state = TASK_ZOMBIE for the other threads without run_list_remove_locked, so a runnable thread of the group stays in the run list as a zombie and is scheduled again; sched/sched.h:34 says "a task is in the run list IFF state == TASK_RUNNING AND next_run != NULL".
- `syscall/sys_process.c:104`: sys_exit_group makes the group leader a zombie without SIGCHLD to the leader's parent, and its own sched_exit notifies only the caller's ppid, a thread of the same group; the parent stays blocked in waitpid(leader). syscall/sys_process.c:676 says of sys_waitpid: "blocks until a child exits (sched_block), then retries via goto".
- `syscall/sys_process.c:79`: sys_exit changes ppid of a child that is already a zombie to 1 and sends init no SIGCHLD, so an init blocked in waitpid(-1) stays blocked next to a child it could reap; syscall/sys_process.c:71 says "Reparent orphan children to init (PID 1) so they can be reaped by waitpid instead of staying as zombies forever".
- `signal/signal.c:222`: signal_deliver terminates a process by calling sched_exit directly, which reparents nobody; once the killed process is reaped its children have a ppid nobody owns and can never be reaped. syscall/sys_process.c:71 says "Reparent orphan children to init (PID 1) so they can be reaped by waitpid instead of staying as zombies forever".
- `syscall/sys_process.c:738`: sys_waitpid frees the PML4 when tgid == pid, also when the leader called exit and its threads are alive; syscall/sys_process.c:735 says "Freeing it here would destroy the address space of all sibling threads still running."
- `syscall/sys_process.c:705`: sys_waitpid clears stop_signum but tests state == TASK_STOPPED only, so the next waitpid(WUNTRACED) reports the child again with status 0x007f; syscall/sys_process.c:704 says "Clear stop_signum so repeated waitpid doesn't re-report".
- `signal/signal.c:424`: signal_send_pid wakes only TASK_BLOCKED tasks, so kill(pid, SIGCONT) leaves a stopped process stopped; only signal_send_pgrp calls sched_resume. signal/signal.c:219 says of sched_stop "yields; returns on SIGCONT".
- `syscall/sys_process.c:436`: s_fork_count is incremented on every creation and never decremented, so after MAX_PROCESSES creations every fork fails although the earlier processes were reaped; syscall/sys_process.c:435 says "Prevent fork bombs — cap total process count".
- `syscall/sys_process.c:406`: sys_clone calls sched_block once and does not test why it was woken, so any signal to the parent ends the wait while the child has neither exited nor called exec (and exec does not end it); syscall/sys_process.c:403 says "CLONE_VFORK: block parent until child exits or execs".
- `signal/signal.c:403`: signal_deliver_sysret (and signal_deliver, line 292) add sa_mask to signal_mask without removing SIGKILL and SIGSTOP, unlike the arm64 version (line 172); syscall/sys_signal.c:97 says "SIGKILL and SIGSTOP cannot be masked".
- `syscall/sys_signal.c:181`: sys_rt_sigreturn never reads gregs[REG_RAX] (nor RDI, RSI, RDX) and returns SIGRETURN_MAGIC, which syscall_entry.asm leaves in rax; signal/signal.c:382 says "C6: save syscall return value (rax) so sigreturn restores it."
- `syscall/sys_signal.c:223`: sys_rt_sigsuspend puts the old mask back before the return path looks for deliverable signals, so a signal that only the temporary mask lets through is not delivered and the next sigsuspend returns at once; syscall/sys_signal.c:221 says "Restore original mask before returning — signal_deliver_sysret then fires the pending handler".
- `mm/vma.c:245`: When the table has no room for the pieces of a split, vma_update_prot and vma_remove skip the entry (and vma_insert drops the mapping) without telling the caller, which has already changed the page tables; mm/vma.h:42 says "change permissions for [base, base+len). Splits entries at boundaries if needed."


### Network

- `net/unix_socket.c:516` says of a closed peer that "its ring buffer is kept alive until we
  close too"; the slot is free for the next socket at once, which then is the peer of the
  old end.  A socket has one waiting slot, a writer blocked on a full ring is not woken
  when its peer closes, and closing a listener leaves the connections nobody accepted.
- `syscall/sys_socket.c:297` says "Block until ESTABLISHED"; `sys_connect` blocks once, and when
  something else wakes it, it returns ECONNREFUSED while the connection goes on.
- TCP: a retransmitted SYN carries its sequence number plus one; sent data is never
  retransmitted and the window of the peer is not looked at; a FIN is accepted without a look
  at its sequence number; CLOSE_WAIT has no way out through close; a receive ring filled
  to the last byte reads as empty.  `sys_bind` of an internet socket looks at no state, so a
  connected or listening socket becomes a bound one (`sys_socket.c:132`).
- `net/eth.c:215` says that "syscall-context callers like tcp_connect also hold spinlocks with
  IRQs disabled — those callers CAN safely block here"; `tcp_conn_send` and `tcp_conn_close` hold
  `tcp_lock` (`net/tcp.c:637-672`) while `arp_resolve` enables interrupts and halts, and the
  timer interrupt that comes then takes `tcp_lock` in `tcp_tick`, so the processor spins for
  ever.  `tcp_connect` gives the lock up first, "because ip_send → arp_resolve may block"
  (`net/tcp.c:578`).
- epoll: `epoll_notify` is given socket numbers, which `Epoll` therefore keeps apart
  from descriptors; `waitq_wake_all` does not end with 64 waiters or more.

### Files and devices

- ext2: unlink follows symbolic links and frees the inode of an open file; rename, mkdir,
  symlink and create onto a name that exists give two entries of it; O_TRUNC keeps the blocks;
  the free counts are not written; a crash between two write-backs can leave a block in
  two files; an open directory is read by index, which shifts when an entry is removed.
- Block cache and NVMe: a slot whose read failed keeps its new number with the old
  content; a failed write-back clears the dirty mark; after one time-out the completion that
  comes late stays at the head of the queue and every later command fails.
  `drivers/nvme.c:278` says "CAP[55:52]" where the code takes bits 35 to 32.
- USB: the event ring is polled again from inside a wait, which skips the events of
  others; the Link entry of a ring that wraps gets the wrong cycle bit; a failed enumeration keeps its slot; the last
  report is shared by all keyboards.
- Network cards: `arp_resolve` polls the card and may be entered again from a frame
  it received; requests for the own address are not answered.
- Terminals: the second open of a slave resets its count; each side has one waiting slot, which
  an interrupted reader leaves set; a newline is dropped when the line buffer is full; a
  master reads the end of file until the slave has been opened.

### Files, programs and page tables

- `syscall/sys_file.c:77` says "Normalize absolute path: collapse "//", ".", ".."";
  "/a/b/../c" becomes "/a//c".  Only open normalises: stat, access and chdir do not.
- `fs/vfs.h:71` says of the dup hook "Increment any reference counts held by this driver.
  NULL = stateless driver"; procfs has none, and its close hook frees pages.
- A ramfs file is replaced by every write (`fs/ramfs.c:101`), and the write calls hand over
  256 bytes at a time, so only the last piece of a longer write is kept.
- `cap/cap_policy.c:107` says "unknown tier — skip line"; the parser goes on at the next word
  of the same line, and takes it for a tier.  Policy files are read to 511 bytes, and ramfs
  names are cut at 63.
- execve and spawn never close the file they read; an exit after the point of no return
  keeps the buffers, and a spawn or fork that fails late its mapping table; the standard descriptors that spawn gives its child keep the mark
  close-on-exec.
- `mm/vmm.c:664` says of PROT_NONE pages that "munmap leaks them", from before munmap looked for
  them in another way; mprotect drops the copy-on-write mark, and nothing calls the path
  that would use it.  `mm/vmm.h:149` says that sys_fork uses vmm_cow_user_pages, which has no caller.

### Userland

- Lumen: a window beyond MAX_WINDOWS is refused by the compositor but kept by the server; when a
  window goes, focus can pass to a hidden panel, where `lumen_server.c:242` says "Panels
  must not steal focus"; `main.c:544` says "Screen locked — discard all input", and mouse
  events still are processed; an event that does not fit in the socket is cut, and a client
  takes an event that is already queued for its answer.
- Glyph: the dirty rectangle is in the coordinates of the client area, and the compositor
  takes it for the window's (`window.c:233`, `compositor.c:310`), so the part of a change that
  border and title bar move out of it stays old on the screen until a full redraw; a widget that is removed
  may keep the focus.
- bastion: `main.c:4` says "Handles lock/unlock via SIGUSR1/2"; waitpid never fails with
  EINTR, so the lock screen is not reached.
- vigictl writes a command and its newline with two writes (`main.c:48`) to a ramfs file, so
  the second replaces the first and the command of `docs/vigil.md:22` is lost.
- chronos: `main.c:7` says "Retries on failure with 60-second backoff"; a reply that is lost
  leaves it in recv for ever.  A DHCP renewal does not apply the configuration it gets.
  The number of a transaction is the MAC address and the second (`dhcp/main.c:77`), so an
  acquisition in the second of a refused renewal may take its late ACK.
- stsh: `exec.c:38` says "Parent closes all pipe fds."; a fork that fails after the first stage
  leaves them open.  `exec.c:179` says children "are auto-reaped by the kernel", which it does not
  do, so background children stay zombies.  `exec.c:147` says "Forward SIGINT to
  children so Ctrl-C kills the foreground command", and only the last stage gets it.

## 6. What is not modelled, and why

- **No state over several steps**: drawing, fonts, the terminal emulator, text formatting,
  the coreutils, the password hash, header formats and checksums, ELF headers, the
  text of /proc, the calls that only read an identity or a limit.
- **Hardware and boot**: initialisation of devices, ACPI and PCI enumeration, register
  programming.  It is straight-line code that runs once.
- **The arm64 port**: it shares the modelled code; its own entry code and drivers are left out,
  and its return path delivers no signals.
- **Other processors**: they run no tasks and hold no user address space, so the TLB
  shootdown reaches nobody.
- **Random numbers**: arithmetic on words, out of reach of small instances.
- **Programs with little of their own**: the installers' dialogs (the library they drive is in
  `Disk`), the web server, the small shell `user/bin/shell`, and bastion's lock screen,
  which cannot be reached.
- **Within modelled parts**: poll on several descriptors or with a timeout, wait queues
  longer than one batch, page contents below a value per page, doubly and triply
  indirect blocks, socket options, ICMP beyond the echo that makes the receive path
  send.
