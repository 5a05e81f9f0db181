----------------------------- MODULE SerialTasks -----------------------------
(***************************************************************************)
(* The task table under the serial scheduler (schedule_serial,             *)
(* serial_sweep): one task at a time is taken out of its slot together     *)
(* with its descriptor table, makes system calls, and is put back.         *)
(* Which runnable task is next is left open; the scheduler's choice, the   *)
(* least virtual runtime, only adds fairness.                              *)
(***************************************************************************)
EXTENDS Tasks

CONSTANTS Workloads  \* what guests do: the flag combinations they pass to clone
                     \* (clones), what may run out during one (failures), the
                     \* other calls they make (options: "subreaper", "nocld",
                     \* "setsid"), a bound on the ids they use (forks), and
                     \* whether the ids have gone round before (wrapped)

VARIABLES load,    \* the workload of this behaviour
          sh,      \* Shared
          cur,     \* the task checked out, or NoTask
          slot,    \* the slot it was taken from
          fds,     \* its checked-out descriptor table
          flow,    \* how its last call ended: "next", "blocked" or "ended"
          waits,   \* ids of the tasks whose wait4 will be re-issued
          born,    \* every id clone returned, and 1
          reaped,  \* ids taken out of the table for good
          adopted, \* ids whose parent died before them
          twins    \* a clone has returned the id of its caller

vars == <<load, sh, cur, slot, fds, flow, waits, born, reaped, adopted, twins>>

InTable(s) == {t.pid : t \in Listed(s)}

\* The first process with one child, after all other ids have been given and
\* given back.
WrappedShared ==
    [DoClone(FirstShared, FirstTask, 1, Flags["fork"], "none").sh
        EXCEPT !.nextPid = 2, !.wrapped = TRUE]

Init ==
    /\ load \in Workloads
    /\ sh = IF load.wrapped THEN WrappedShared ELSE FirstShared
    /\ cur = NoTask /\ slot = 0 /\ fds = 0 /\ flow = "next"
    /\ waits = {} /\ born = InTable(sh) /\ reaped = {} /\ adopted = {} /\ twins = FALSE

\* The tasks that have another parent in r than in s.
Reparented(s, r) ==
    {t.pid : t \in {u \in Listed(r) : \E v \in Listed(s) : v.pid = u.pid /\ v.ppid # u.ppid}}

------------------------------------------------------------------------------

Runnable(t) == t.run = "Running" /\ ~t.parked /\ t.vcpu

Halted == \E t \in Listed(sh) : t.pid = Init1 /\ t.run = "Zombie"

\* The pick of serial_sweep: the slot is left empty, check_out_files takes the
\* descriptor table.
Pick(i) ==
    /\ cur = NoTask /\ ~Halted /\ ~twins
    /\ i \in Slots(sh) /\ Runnable(sh.procs[i])
    /\ cur' = sh.procs[i] /\ slot' = i
    /\ fds' = sh.tables[sh.procs[i].files]
    /\ sh' = [sh EXCEPT !.procs[i] = NoTask, !.tables[sh.procs[i].files] = NoTable]
    /\ flow' = "next"
    /\ UNCHANGED <<load, waits, born, reaped, adopted, twins>>

\* The end of a slice: the table and the task go back, parked if it blocked.
CheckIn ==
    /\ cur # NoTask
    /\ cur.pid \notin waits \/ flow = "blocked"
    /\ sh' = [sh EXCEPT
                !.tables[cur.files] = fds,
                !.procs[slot] = [cur EXCEPT
                    !.parked = flow = "blocked" /\ cur.run = "Running"]]
    /\ cur' = NoTask /\ slot' = 0 /\ fds' = 0 /\ flow' = "next"
    /\ UNCHANGED <<load, waits, born, reaped, adopted, twins>>

\* The running task is at a call other than the wait4 it is blocked in.
Calls == cur # NoTask /\ flow = "next" /\ cur.pid \notin waits

SysClone ==
    /\ Calls /\ sh.nextPid < 2 + load.forks
    /\ \E f \in load.clones, failure \in load.failures :
          LET r == DoClone(sh, cur, fds, Flags[f], failure)
          IN  /\ sh' = r.sh
              /\ born' = IF r.ret = 0 THEN born ELSE born \cup {r.ret}
              /\ reaped' = (reaped \cup (InTable(sh) \ InTable(r.sh))) \ {r.ret}
              /\ twins' = (twins \/ r.ret = cur.pid)
    /\ UNCHANGED <<load, cur, slot, fds, flow, waits, adopted>>

SysExit ==
    /\ Calls
    /\ LET r == ExitTask(sh, cur, fds)
       IN  /\ sh' = r.sh /\ cur' = r.cur /\ fds' = r.fds
           /\ adopted' = adopted \cup Reparented(sh, r.sh)
    /\ flow' = "ended"
    /\ UNCHANGED <<load, slot, waits, born, reaped, twins>>

\* exit_group, or a fatal signal at a system call boundary (die_of_signal).
SysExitGroup ==
    /\ Calls
    /\ LET r == ExitGroupWith(sh, cur, fds)
       IN  /\ sh' = r.sh /\ cur' = r.cur /\ fds' = r.fds
           /\ adopted' = adopted \cup Reparented(sh, r.sh)
    /\ flow' = "ended"
    /\ UNCHANGED <<load, slot, waits, born, reaped, twins>>

SysWait4 ==
    /\ cur # NoTask /\ flow = "next"
    /\ LET r == Wait4(sh, cur, {})
       IN  /\ sh' = r.sh
           /\ reaped' = reaped \cup (InTable(sh) \ InTable(r.sh))
           /\ flow' = IF r.ret = Blocks THEN "blocked" ELSE "next"
           /\ waits' = IF r.ret = Blocks THEN waits \cup {cur.pid} ELSE waits \ {cur.pid}
    /\ UNCHANGED <<load, cur, slot, fds, born, adopted, twins>>

\* prctl(PR_SET_CHILD_SUBREAPER)
SysSubreaper ==
    /\ Calls /\ "subreaper" \in load.options
    /\ ~cur.thread /\ ~cur.subreaper /\ cur.pid # Init1
    /\ cur' = [cur EXCEPT !.subreaper = TRUE]
    /\ UNCHANGED <<load, sh, slot, fds, flow, waits, born, reaped, adopted, twins>>

\* rt_sigaction(SIGCHLD, SIG_IGN), for every task sharing the handlers.
SysIgnoreChld ==
    /\ Calls /\ "nocld" \in load.options /\ cur.tgid \notin sh.nocld
    /\ sh' = [sh EXCEPT !.nocld = @ \cup {cur.tgid}]
    /\ UNCHANGED <<load, cur, slot, fds, flow, waits, born, reaped, adopted, twins>>

SysSetsid ==
    /\ Calls /\ "setsid" \in load.options /\ cur.sid # cur.pid
    /\ cur' = [cur EXCEPT !.sid = cur.pid, !.pgid = cur.pid]
    /\ UNCHANGED <<load, sh, slot, fds, flow, waits, born, reaped, adopted, twins>>

\* The machine stops: pid 1 has ended, or no task is left; a behaviour with twins is
\* not followed further.  (Tasks that only wait
\* for children never stall schedule_serial: the last of a chain of waiters waits
\* for a task that runs.  A state in which all are parked would be a deadlock of
\* this specification; module PipeTasks has stalls.)
Stopped ==
    /\ cur = NoTask
    /\ Halted \/ twins \/ ~\E t \in Listed(sh) : t.run = "Running"
    /\ UNCHANGED vars

Next ==
    \/ \E i \in DOMAIN sh.procs : Pick(i)
    \/ CheckIn
    \/ SysClone \/ SysExit \/ SysExitGroup \/ SysWait4
    \/ SysSubreaper \/ SysIgnoreChld \/ SysSetsid
    \/ Stopped

Spec == Init /\ [][Next]_vars

------------------------------------------------------------------------------
(* Properties.                                                             *)

\* The tasks there are: those in the table and the one checked out of it.
Existing == Listed(sh) \cup ({cur} \ {NoTask})

TypeOK ==
    /\ sh.procs \in Seq(Task \cup {NoTask})
    /\ cur \in Task \cup {NoTask} /\ slot \in 0..Len(sh.procs)
    /\ fds \in {NoTable, 0, 1} /\ sh.tables \in Seq({NoTable, 0, 1})
    /\ flow \in {"next", "blocked", "ended"}
    /\ sh.nextPid \in Pids /\ sh.wrapped \in BOOLEAN
    /\ sh.writers \in Nat /\ sh.registered \subseteq Pids
    /\ \A t \in Existing : t.mm \in 1..sh.spaces /\ t.files \in DOMAIN sh.tables

\* No task is lost and none is reaped twice: every id clone returned is held by
\* exactly one task, in the table or checked out, until it is reaped.  The
\* condition: no clone has returned the id of its caller.  alloc_pid starts over
\* "skipping any still in use", but looks for them in the table, where the caller
\* is not during its own slice.
Accounted ==
    ~twins => \A p \in born :
        Cardinality({i \in Slots(sh) : sh.procs[i].pid = p})
          + (IF cur.pid = p THEN 1 ELSE 0) + (IF p \in reaped THEN 1 ELSE 0) = 1

\* free_task_slot gives everything back once: nothing is on a free list twice; a
\* slot, an address space or a descriptor table is there exactly when no task, the
\* running one included, uses it, so clone hands none to two owners and a
\* long-lived process tree does not use them up; and the pid namespace and cgroup
\* books hold the ids of the existing tasks.  The books only where no fork runs out
\* of memory: do_clone enters the id before try_fork and leaves it when that fails.
FreedExactlyOnce ==
    /\ IsInjective(sh.freeProcs) /\ IsInjective(sh.freeMms) /\ IsInjective(sh.freeTables)
    /\ Range(sh.freeProcs) = DOMAIN sh.procs \ (Slots(sh) \cup {slot})
    /\ Range(sh.freeMms) = 1..sh.spaces \ {t.mm : t \in Existing}
    /\ Range(sh.freeTables) = DOMAIN sh.tables \ {t.files : t \in Existing}
    /\ "memory" \notin load.failures => sh.registered = {t.pid : t \in Existing}

\* The pipe end is counted exactly: once for each descriptor table holding it.
PipeEndsCounted ==
    sh.writers = Cardinality({f \in DOMAIN sh.tables : sh.tables[f] = 1})
                   + (IF cur # NoTask /\ fds = 1 THEN 1 ELSE 0)

Threaded == \E f \in load.clones : Flags[f].thread

\* The references in the table of task t, which the running task may have
\* checked out.
Held(t) == IF cur # NoTask /\ t.files = cur.files THEN fds ELSE sh.tables[t.files]

\* The pipe end, which no guest here closes, is held exactly by the living: a
\* table that counts it has a live user, so readers see end of file once the
\* holders are dead, and every live task still has it (exit_task: "Only close the
\* fds when this is the last user of the shared table").  The second part is about
\* guests without threads: an exit_group empties the tables of the threads it
\* kills whoever else uses them.
LivingHoldPipe ==
    /\ \A f \in DOMAIN sh.tables :
          sh.tables[f] = 1 => \E t \in Existing : Alive(t) /\ t.files = f
    /\ ~Threaded => \A t \in Existing : Alive(t) => Held(t) = 1

\* A live task's address space has not been given back, and a space only dead
\* tasks use has.
SpacesRetired ==
    \A t \in Existing :
        t.mm \in sh.retired <=> ~\E u \in Existing : u.mm = t.mm /\ Alive(u)

\* An exit leaves no orphan behind: the parent of every process that has one is
\* alive, so its zombie will be waited for (exit_task: "its eventual zombie must be reaped
\* rather than stranding forever").  Of guests without threads: an exit_group
\* does not pass on the children of the threads it kills.
OrphansAdopted ==
    ~Threaded /\ (\E t \in Existing : t.pid = Init1 /\ Alive(t)) =>
        \A t \in Existing : t.thread \/ t.ppid = 0 \/
            \E p \in Existing : p.pid = t.ppid /\ Alive(p)

\* What clone took exit and wait4 give back, once each: slots, spaces, tables,
\* pipe ends and parents; under the condition of Accounted.
ResourcesExact ==
    ~twins => /\ FreedExactlyOnce /\ SpacesRetired
              /\ PipeEndsCounted /\ LivingHoldPipe /\ OrphansAdopted

\* A child's exit wakes the parent that waits for it: between two slices no task
\* is parked in wait4 beside a zombie of its own.  (A zombie it adopts later does
\* not wake it: it is reaped at the next wake-up or stall.)  Under the condition
\* of Accounted.
ParkedHasNoZombie ==
    cur = NoTask /\ ~twins =>
        \A t, z \in Listed(sh) :
            t.parked /\ t.pid \in waits /\ z.ppid = t.pid /\ ~z.thread /\ ~Alive(z)
              => z.pid \in adopted
------------------------------------------------------------------------------
(* Workloads for model checking.                                           *)

\* Every way to clone; a deeper tree of processes, whose clones may fail; and
\* processes that start others when the ids have gone round.
SmallLoads ==
    {[clones |-> DOMAIN Flags, failures |-> {"none"},
      options |-> {"subreaper", "nocld"}, forks |-> 2, wrapped |-> FALSE],
     [clones |-> {"fork", "sibling", "forkFiles"}, failures |-> {"none", "vcpu", "memory"},
      options |-> {"subreaper"}, forks |-> 3, wrapped |-> FALSE],
     [clones |-> {"fork"}, failures |-> {"none"}, options |-> {"setsid"}, forks |-> 3,
      wrapped |-> TRUE]}
=============================================================================
