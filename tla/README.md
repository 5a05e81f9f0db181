# Specifications of nixvm

nixvm runs a Linux userland without a guest kernel: every system call of a guest
traps to `Kernel` (`src/src/kernel/`), which keeps the state of processes, memory,
descriptors, signals, files and sockets; the guest's instructions run on a software
CPU or a hardware backend (`src/src/vcpu/`). These modules model the parts whose
correctness depends on the order in which several tasks, workers or calls act, and the
software CPUs.

Throughout, *serial* means the cooperative scheduler (`schedule_serial`), in which
the running task is taken out of the task table for its slice, and *SMP* the worker
pool (`schedule_smp`), in which several tasks are serviced at once and each leaves
a **stand-in** (a copy of its record) in the table during its service step.

## The parts and their modules

| Part | Source | Modules | What makes it hard |
|---|---|---|---|
| mmap arena | `kernel/mod.rs` 1009–1156 | `Arena`, `ArenaSpec`, `ArenaList` | merging at the cursor, at both neighbours and at the top |
| address space calls | `mod.rs`, `mem_syscalls.rs`, `ipc.rs` | `AddressSpace` | fixed mappings over free pages, a break per thread, failures half way |
| task table, serial scheduler | `mod.rs` 1700–2665, 4693–6182 | `Tasks`, `SerialTasks` | slots freed once, orphans, shared tables, pids that wrap |
| SMP scheduler | `mod.rs` 1245, 2982–3362 | `SmpTasks` | results for reaped tasks, stand-ins changed by others |
| futexes | `futex.rs` | `Futex`, `FutexTasks` | lost wakes, timeouts, signals, dead owners |
| pipes and stalls | `mod.rs` 6817–6929, both schedulers | `Pipe`, `PipeTasks` | partial and atomic writes, a stall told from a deadlock |
| signals, job control | `signal.rs`, `mod.rs` 656–741 | `Signals`, `SignalTasks` | masks that must come back, stop and continue, the queue's limit |
| tmpfs, overlay | `fs/tmpfs.rs`, `fs/overlay.rs` | `Tmpfs`, `Overlay` | quota, hard links, copy-up, whiteouts |
| descriptors, locks, open files after unlink | `fd.rs`, `fcntl.rs`, `orphan.rs` | `Files`, `Objects` | ranges that split and merge, release by any close, last user |
| mounts | `fs/mount.rs`, `fs_ext.rs` | `Mounts`, `Containers` | descriptors name files by path; propagation |
| namespaces, cgroups, ids | `pidns.rs`, `userns.rs`, `ns.rs`, `cgroup.rs` | `Namespaces`, `Containers` | counts at every level, a dying init |
| System V IPC, message queues | `ipc.rs`, `mqueue.rs` | `SysvIpc`, `Services` | all-or-nothing, undo of the dead, removal under a waiter |
| sockets | `net.rs`, `sockopt.rs` | `Sockets`, `Services` | passed descriptors, closes from both sides |
| splice, terminals | `splice.rs`, `pty.rs` | `Streams`, `Services` | bytes held between two ends, hang-up |
| poll, epoll, timers | `poll.rs`, `ptimer.rs` | `Events`, `Services` | stale watches, a timer nobody looks at |
| guest memory | `vcpu/mem.rs`, `phys.rs`, `pagetable.rs`, `pagecache.rs`, `pagelocks.rs` | `Memory` | copy on write, cached translations, a pool that runs dry |
| x86-64 interpreter | `interp_x86.rs`, `x87.rs`, `sse.rs`, `avx.rs`, `softfloat.rs` | `Words`, `X86`, `X87`, `Sse` | faults half way, flags, rounding |
| AArch64 interpreter | `interp.rs`, `interp/*` | `Words`, `A64`, `Neon` | exclusives, cached code, rounding |
| both | | `Interp`, `Means` | restart after a fault; `Means` is the reference for what instructions compute |

`AddressSpaceProofs`, `ArenaListProofs`, `PipeProofs`, `FutexProofs` and `SignalProofs` hold
the theorems. `MCSpace`, `MCFiles`, `MCContainers`, `MCServices`, `MCMemory` and `MCInterp` give the
other modules small instances, and `MCSignals` runs the signals under both schedulers; the modules
of tasks, futexes, pipes and signals define their workloads themselves, in a last section.

`PROJECT.json` maps every definition to its lines, lists the components with what is left
out of each, and the hazards with the line where each one bites. A helper whose lines lie
inside those of its caller is covered by the caller's entry.

### How state and actions correspond to the code

*Arena and address space.* Addresses are page numbers. `Arena` keeps `cursor` and the set
of free pages, as operators; `ArenaSpec` is the state machine of these operators.
`ArenaList` keeps the sorted, coalesced vector of the code and does the surgery of
`claim` and `free_range` step by step; it implements `ArenaSpec` by mapping the list to
its pages. In `AddressSpace` one action is one call. `brk` is per thread (as in
`ProcInfo`) in units smaller than a page, so that rounding is real; `heap` records the
pages mapped by `brk`; `placed` is where the last call put new pages, for the
properties. A call that fails leaves what the code leaves. `MCSpace` runs all calls for one thread,
and `brk`, `execve`, `munmap` and fixed mappings of the heap for two.

*Task table.* `sh` has the fields of `Shared` that matter: `procs`, the free lists of
slots, spaces and tables, the tables (the number of pipe ends in each, `NoTable` while
checked out or freed), the pid counter with its wrap, the ids in the books of the pid
namespace and the cgroup. Slots are reused from the end of the free list, as
`pop` does. In `SerialTasks` the running task is `cur` and its slot is empty. In `SmpTasks`
a worker's job goes through phases run, called (checked out: a stand-in is in the slot),
served and done; results come back through a queue; the main loop fills, receives,
stalls and ends. `fault` records an `expect` of the code that fails. Two variables are history and
only name exceptions: `twins` (a clone returned its caller's id) and `torn` (a stand-in was reaped
while its task was in a slice).

*Futexes.* `table[t]` is the record in the task table, `out[t]` the one a running
service step owns. With `Smp` false a record that is out is not seen by others; with
`Smp` true its stand-in is, and the check-in folds in only what the code folds in. A
blocked call is issued again when its task runs again, as the kernel does by leaving the
program counter on the trap. Stores by guest threads, and the uncontended lock and unlock
of a PI mutex, happen in the guest and are external. `reported` counts the wakes that calls
said they made, `consumed` those that waits returned for, and `holds` who holds which lock
by what the calls returned.

*Pipes.* A byte is its writer and its number, so that a lost, doubled or reordered byte is
visible. `progress` is `io_progress`. A workload says which scheduler runs it; the
schedulers are reduced to what decides a stall: who waits, who is in flight, whether
a sweep or an epoch saw progress.

*Signals.* Signals are few but keep their kinds: SIGKILL, SIGCHLD, SIGCONT, SIGSTOP,
SIGTSTP, ordinary ones and a real-time one that queues. `hist` is what the properties
compare with: what a task is owed, what was queued, what was delivered, the masks its
guest set at each depth of handlers.

*Files, containers, services, memory.* Each of these has one variable `k`, the part of
the kernel (or machine) it is about; a handler is an operator from `k` and the calling
task to the state it leaves, error paths included, with the outcome in `k.out` (`k.ok` in
`Memory`). The actions run one handler to its end, because the code holds the kernel lock
for it; what interleaves is the order of calls, the retries of blocked ones, the sweeps
of the scheduler, the clock and, for sockets, the host. Descriptors name files by
path, as in the code, and carry as history what they named when they were opened. Other history
(`loose`, `apart`, `unborn`, `stray`, `unseen`, `untracked`, `behind`, `astray`) marks that a call was made after
which a property does not hold any more; "Where the code and its comments differ" lists these calls.
`Overlay` also holds the abstract tree of files that the layered one is compared with.
`Memory` keeps, beside frames, tables and cached translations, what each process should see.

*Software CPUs.* An instruction is its decoded record. Bytes have `B` bits instead of 8,
and formats of floating point fewer bits, so every width, carry and rounding position scales;
memory has pages that may be shut, and a kernel step opens them, so each instruction is
tried with a fault at each of its accesses. The goals of the programs are stated in
`Means`, with exact integers and not in terms of the interpreter's own helpers.

## Runs

Every passing run is exhaustive for its constants. Deadlock is checked except in `files`,
`containers`, `services` and `memory`, where tasks have a bounded number of calls and simply stop.

Most modules have a constant `Workloads` or `Cases`: a behaviour starts by choosing one
(which calls the tasks make, how many, with which arguments) and keeps it, so that one run
covers several combinations that would be too large together. Where the code does not keep a promise in all
cases, the property states the condition under which it holds and its comment says what the code does
otherwise. Most of these cases are in the workloads, so that without its condition the property fails; the section on
differences says which are not.

| Run | Checks | States |
|---|---|---|
| `space` | no page that can be handed out is mapped; calls place on fresh pages; a break that no other thread's exceeds grows on fresh pages; the free list stays sorted, disjoint, coalesced, and implements `ArenaSpec` | 33 518 |
| `serial_tasks` | ids accounted for also after they wrap (until a clone returns its caller's id), everything freed exactly once, pipe ends counted and held by the living, spaces retired, orphans adopted, no parent parked over a zombie child | 250 328 |
| `smp_tasks` | a result is the one its dispatch record names; checking out and in loses, doubles and orphans no task, and each has one vcpu; a worker finds its task and its table; a `wait4` returns once a child is a zombie (liveness) | 106 396 |
| `futex` | each wake reported reaches one waiter; a changed word ends a wait; the holder of a PI lock is the owner in the word and knows it; waiters are marked, also when owners die; `EDEADLK` is told to the owner only | 456 868 |
| `pipes` | bytes intact, short writes atomic, a reported deadlock is one, under both schedulers; a blocked call that could go on does (liveness) | 142 945 |
| `signals` | signals kept, mask restored, queue in order, stops and continues cancel, each event reported once, a parked task has nothing to do; and on the worker pool (handlers, masks, `sigsuspend`) the same of the stand-ins and their check-in | 776 648 |
| `files` | a descriptor keeps its file, hidden files live as long as their descriptors, quota and link counts exact; locks do not conflict and their waiters must wait; seals hold; the overlay acts as one tree | 162 706 |
| `containers` | open files keep their meaning over pivot_root, `umount -l` and setns; peers show the same mounts; cgroup counts, freezing, pid tables and id maps agree with the tasks | 260 849 |
| `services` | IPC waiters must wait; undos, attachments, quotas, references, routes, bytes, expirations and watches are exact; a declared deadlock is one, as far as deadlines are kept | 259 755 |
| `memory` | frames counted exactly, each process sees its memory and readers of a file what is stored in its mappings, no stale translation of what a thread changed itself, the reserve suffices | 142 849 |
| `cpu` | an instruction stopped by a fault can be run again, but for four; programs compute what `Means` says; cached code is current, atomic updates are kept | 112 965 |
| `smp_false_deadlock` | *violation*: a deadlock is declared while a call could go on | |

**Bounds.** The arena has four pages and ranges of up to four: enough for a free entry with
free, used and cursor neighbours on both sides. Two or three forks give a parent, a child
and a grandchild or thread, and the reuse of every kind of slot; two workers are enough for
two service steps to overlap, the only way workers interact. Two futex words and three tasks are
needed for requeueing. Pipes hold two bytes and writes up to three, so that both a partial write and
an atomic one happen. Signal workloads have a shell and a job and a budget of three or four calls; one of them also runs on the worker pool.
Each case of `files`, `containers`, `services` and `memory` has two or three tasks with four or
five calls between them, chosen around one object. The CPUs have bytes of two bits (a quadword has
16), formats of 4, 8, 16 and 20 bits, and pages of eight bytes, so that every access
can span two. The counters that only bound a run are the fields `forks`, `calls`, `signals`,
`budget` and `left` of a workload, and `MaxAttaches`, `MaxVal`, `MaxUts` and `MaxMountNs`. `PidMax` is small, and one
workload of `serial_tasks` starts when all ids but those of two processes have been given and given back, so that
ids wrap for every caller; a behaviour in which a clone returned its caller's id is not followed further.

**Fairness.** Only `SmpTasks` and `PipeTasks` state it: as long as the machine can take a step it takes
one. The schedulers are loops that run until the guest ends, so this is no more than their
running on. Guests whose calls are bounded then come to every step that stays possible; no choice among
tasks is assumed to be fair.

## Where the code and its comments differ

`smp_false_deadlock` is a violation: the property is a comment of the code, and TLC shows how the code breaks
it (`PROJECT.json` quotes the line). `run_slice_smp`, unlike `run_slice`, does not count a write that
moved bytes without returning as progress, so the forced retry after a stall can end a guest whose
reader could go on. `ReportedDeadlocksAreReal` below proves that for pipes this is the only way: without such writes, and under the
serial scheduler with them, a reported deadlock is one.

The other differences are the reasons for the conditions in the properties. Those marked (c) are stated in the comment of the property and kept
out of its workloads; of the others with a name in brackets the runs contain the case, and without the condition TLC shows how the property fails.

- *Memory calls* (`BreakMapsFreshPages`). "Map from the first page NOT already backing the heap" (`mod.rs:9120`): the break is per task while the
  heap is shared, so a thread that grows the heap after its sibling maps (and zeroes) pages that already back it. Not in a
  property: `munmap` of a range that `free_range` refuses (partly free, or reaching past the arena) unmaps pages that are
  not placed again; an `execve` that fails after `exec_image` has reset the space leaves the caller without its pages.
- *Tasks, serial* (`twins`). `alloc_pid` starts over "skipping any still in use" (`mod.rs:1787`), but does not see the running caller, which is out
  of the table, and can give its id away. `exit_group_with` empties the tables of the threads it kills without asking who else uses them
  (`CLONE_FILES` without `CLONE_THREAD`), and turns them into zombies without passing on their children. An orphan
  that is a zombie already does not wake the parent that adopts it (`adopted`): it is reaped when that parent is next
  woken or at the next stall.
- *Tasks, SMP* (`torn`). `exit_group` marks stand-ins of tasks in flight as zombies, its caller's own included; a parent, or the reaping at the start of
  a clone, may remove them before their step is over. The worker then finds no task, or another one in the slot, and the check-in writes the
  record back. A process cloned with `CLONE_FILES` alone has a space of its own, so
  that the lock of the space does not keep its table from being checked out twice. An exiting task sees its own stand-in among the
  users of its descriptor table and does not close the descriptors.
- *Futexes.* A wait that is restarted after a handler keeps `futex_wait` set while the handler runs, so a wait made by the handler is
  taken for a requeued one and parks without comparing; and a handler's wait can swallow the hand-over of a PI lock whose
  call is to be restarted, which then fails with `EDEADLK` (`HandlersApart`, c). A waiter that was killed takes a wake until it is
  reaped (`WaitersSurvive`). Under the worker pool a wake or a hand-over of a PI lock that marks a stand-in is lost (c: the
  passing run is serial).
- *Pipes.* `io_progress` of an interrupted write is still set when the handler writes, so the handler's write starts
  that many bytes in (`WritesApart`, c).
- *Signals.* A stop inside `rt_sigsuspend` leaves `sigsuspend_prev` and the temporary mask in place: `deliver_pending_signals` returns before the
  restore. If the guest then sets another mask, the next scan puts the old one back (`SuspendsUnstopped`). Under the worker pool
  the fold-in leaves out a signal that was pending at the check-out, so a second instance that is posted to the stand-in
  after the step delivered the first is lost (`Owes`). Not in the pool's part of the run (c): there a group signal reaches its sender twice, stop
  and continue do not cancel, and one continue can be reported twice. In no property: a stopped task does not run to die of
  SIGKILL, and a mask may hold SIGKILL back.
- *Files.* `link_orphan` repoints the descriptors of its caller only; those that another process has of the hidden file name nothing
  afterwards (`DescriptorKeepsFile`). `exit_group` does not release the descriptor locks of the tables it empties (`LocksSound`, c). The overlay has no record of three
  calls (`Untracked`): a directory renamed away from the lower layer and made again shows its old children (`Lifts`); a
  rename of a directory that exists in both layers leaves the children of the lower one behind (`Splits`); a directory renamed over the whiteouts of deleted
  children loses its own of these names (`Hides`). `fallocate` grows a file past its seal (`SealsHold`, c).
- *Containers* (`loose`, `apart`, `unborn`). A mount or move over an open file, a plain `umount`, and any change that reaches another namespace through
  a peer rewrite no path; `pivot_root` rewrites a table once per task that has it, zombies included, so that a shared one is rewritten
  twice. `move_mount` tells no peer, and the unmount of a mount passes by a peer's copy that has mounts on it. `do_clone` promises that
  "a task that can't be created fails with EAGAIN and leaves the caller exactly as it was" (`mod.rs:4722`), but a late failure leaves the
  child booked in the pid namespace and the cgroup.
- *Services.* `munmap`, a fixed mapping or `mremap` over a part of an attached segment does not touch the attachment, which is then counted for pages that are not there, or
  lost at the detach (`stray`, against `ipc.rs:18`). `wait_for_timer` says "a genuine deadlock" (`mod.rs:1837`) when no task holds a deadline: `select` keeps none,
  and neither does a wait for a timerfd. `sys_writev` and `sys_readv` on a socket or terminal keep no progress: what was moved before the block
  counts as none, so a deadlock may be declared (`unseen`), and the vector is started again (`StreamsIntact`, c). `semctl`'s `IPC_SET` wakes nobody, so a task that
  loses its access stays parked (`IpcWaitersMustWait`, c). In no property: `SO_SNDTIMEO` leaves `io_progress` behind for the next write.
- *Guest memory.* The write-back of shared mappings "still persists the contents" (`pagecache.rs:22`), except when the mapping is cut by a
  `munmap` of a part, is replaced by `MAP_FIXED` or `mremap`, was made read-only, or is in the list of another thread; then the pages leave the
  cache unwritten (`Loosens`, `Lost`). A `pc_map_shared` that runs out of frames half way leaves cached pages unfilled. `tlb_dirty` is "set whenever a present page-table leaf is
  cleared or changed" (`mem.rs:131`): not by `GuestMemory::map`, and it reaches only the vcpu of the thread that called (`behind`, `astray`). The interpreters have no such cache; this is about the hardware backend.
- *CPU* (`HeldInStore`). XADD, ADC, SBB, RCL and RCR on memory that faults at the store have changed a register or the carry that they read
  already, and do not restart.

Most of the SMP ones have one cause: the stand-in. Other workers act on a copy, and
the check-in keeps of it only new signals, the parent and the freezer state. `Futex` and `Signals` model it
(`Smp = TRUE`).

## Proofs

The theorems hold for every value of the constants; the runs above show the same properties on small instances. They rest on the
assumptions named in the modules: `ArenaAssumption`, `LayoutAssumption` and `SizeAssumption` (the layout is ordered, as `arena_top` and
`exec_image` make it), `PipeAssumption` and `NWorkersAssumption` (a pipe has room for a byte, there is a worker, and a workload has the fields its
comment lists), `FutexAssumption` (finitely many tasks, plain words are not PI words, `Private` and `Smp` are truth values), `SignalsAssumption` and
`WorkloadsAssumption` (signals are numbers from 1 to 64, a task is not its own parent, and a workload has the fields its comment lists).

| Theorem | States | For |
|---|---|---|
| `ArenaSafe` | `[]AvailableUnmapped` | every layout, any number of threads |
| `FreshPlacement` | `PlacedOnFreshPages`, an action property | the same |
| `FreshBreak` | `BreakMapsFreshPages`, an action property | every layout, any number of threads |
| `TypeCorrect` | `[]TypeOK` of `AddressSpace` | every layout, any number of threads |
| `ListStaysWellFormed` | `[]ListWellFormed` | every size of arena and request |
| `ListImplementsArena` | `ImplementsArena`, the refinement of `ArenaSpec` by `ArenaList` | the same |
| `CapacityKept` | no pipe exceeds its capacity | any tasks, pipes, capacity and workload, both schedulers |
| `StreamKept` | `[]StreamIntact` | the same, handlers that keep apart from blocked writes |
| `ShortWritesWhole` | `[]ShortWritesAtomic` | the same |
| `ReportedDeadlocksAreReal` | `DeadlockIsReal` | serial machines with any workload, SMP ones whose writes go in whole |
| `LocksSound` | `[]PiLocksSound` | serial, any finite set of tasks, any words and workloads |
| `WaitsSeeTheWord` | `ChangedWordEndsWait`, an action property | both schedulers, any tasks and words |
| `WakesArrive` | `NoWakeLost` | serial, guests whose waiters survive and whose handlers leave restarted lock calls alone |
| `NoSignalLost` | `[]SignalsKept` | serial, any tasks, family tree, signals, queue limit and workload |
| `QueueInOrder` | `[]QueuedOnceInOrder` | the same |
| `JobControlIsSound` | `[]JobControlSound` | the same |
| `MasksComeBack` | `[]MaskRestored` | the same, guests that are not stopped inside a `sigsuspend` |
| `NoneSleepsThroughASignal` | `[]ParkedHasNothingToDo` | the same guests |

*Address space.* The inductive invariant `IInv` is `TypeOK`, `AvailableUnmapped` and `ArenaOK(arena)`: the arena has its type and every
page on its free list lies at or above the cursor. Without the last part `AvailableUnmapped` is not inductive: a page both below
the cursor and on the free list would be handed out once and stay available through the other. Lemmas say what `Alloc`, `Claim` and
`FreeRange` do to the available pages: `Alloc` and `Claim` take exactly their range out, `FreeRange`
adds at most its range. Each action then follows from one lemma per arena call it makes. `FreshPlacement` needs the same invariant: what `Alloc`
returns was available, so unmapped. `FreshBreak` has the invariant that every page of the heap lies below some thread's break.

*Free list.* The invariant `ListInv` is the property itself, in the form `Ordered`: entries in order, with a gap between any two, above the
cursor and below the top. The work is in the list surgery. Every change of the vector is a *splice*, the replacement of the entries
`p+1..q` by a short list; one lemma says that a splice that fits between its neighbours keeps the list ordered, another which pages the
result covers. `partition_point` is characterised by what lies on either side of it, `alloc` by its first fit, `free_range` by the four ways of merging,
`claim` by what it cuts off the entries it overlaps, and the absorption of the first entry by the cursor. The refinement mapping sends the list to the
set of pages it covers; each call of `ArenaList` is then the call of `ArenaSpec` with the same result.

*Pipes.* The invariant has three layers. `CapacityInv`: types and capacity. `StreamInv`: the progress of a blocked write is what it put in, and in
the stream of a pipe (what was read, then what is in it) the bytes of each writer are numbered from one without gap, up to what its
writes returned or hold as progress. `StuckInv`: in the last round before a report, as long as no slice in flight made progress, everyone
found blocked is still stuck; this carries the finding of the retry over to the moment of the report, through results that
have not been received yet. It fails, as the run shows, when a slice changes a pipe and is not counted.

*Futexes.* `LockInv` says where a record is (`SerialInv`: at most one task is out, and its slot is empty), how the flags of a record go together (`ModesInv`:
`pi`, `woken` and the key agree with the call that is to be issued again), and who owns what (`LocksInv`: a holder is the owner in the word; a task
with the hand-over flag set is the owner; a live owner is one of the two; a PI waiter without the flag has the waiters bit set). The owners must be part of
it: `futex_unlock_pi` trusts the word, and `futex_lock_pi` trusts the flag. `WaitInv` is about one record at a time (`Good`): a task that has a key is at a wait on
it, or was requeued. Because it speaks of both the record and the stand-in it needs no assumption on the scheduler. `CountInv`: the wakes reported are those
consumed plus the tasks flagged and not yet returned; it needs the flags' part, since a flag on a task that is parked or that has just blocked would be counted and
never consumed.

*Signals.* `SignalInv` says of every record, in the table or out, that it is sound with its history (`Sound`): what is owed is pending; no stop is beside a pending
SIGCONT; an event still to be reported is one more than was reported; the entries delivered, then those queued, are increasing and with the dropped ones are all that
were sent; the masks saved in the frames and in `sigsuspend_prev` are those the guest set, depth by depth. None of the five properties is inductive alone: a record that is out is not in
the table, and `MaskRestored` speaks of the mask in force only, while it is a frame further down that `rt_sigreturn` will install. Inside a call `sigsuspend_prev` may be set
(`Core`); the scan at the end of the call leaves it clear in all but the dead (`Undone`). Each helper (`raise`, `apply_stop_cont`, `take_siginfo`, the drop of ignored signals, entering a
handler, a stop) has a lemma that it keeps a record sound; `deliver_pending_signals` and the end of `service` follow, and every call is then a `Step`: it leaves all records sound, and
unparks those it gives something to do. `ParkInv` is about the latter: the call a parked task will issue again would block again (`Waits`), and the children of one parked in `wait4`
have nothing to report. It has to hold already of a task that is still out with a call that blocked, and to know that the parent of a task about to be checked in stopped or dead is not parked.

**Only model-checked.** The task table and the SMP scheduler: their properties are about sequences built by folds and filters
(`SelectSeq`, `FoldLeft`), and what such a definition computes for every input is an induction over data, which the provers do not
do. Files, containers, services, memory and the CPUs: most of these use recursive operators or bit operations, which the proof system does not
handle. All liveness (`WaitReturns`, `BlockedCallRetried`): fairness and ENABLED are outside what the proof system handles.
Signals under the worker pool are model-checked, for guests without stops and queued signals; futexes have no passing run there. Neither has a theorem about the pool,
but for `WaitsSeeTheWord`: the differences listed above break their properties there.

## Not modelled

Seccomp filters, the hardware backends, the loader, the ABI tables, egress to the host, host and archive file systems and the rendering of
`/proc` and `/sys`: sequential code, data or I/O with no state of their own to get out of step. Within the modelled parts, `PROJECT.json`
says for each component which calls are left out. Permissions, credentials (other than id maps) and the wording of
results are left out of every model.
