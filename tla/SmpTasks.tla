------------------------------- MODULE SmpTasks -------------------------------
(***************************************************************************)
(* The task table under the SMP scheduler (schedule_smp, run_slice_smp,    *)
(* smp_service_step).  The main loop hands runnable tasks to worker        *)
(* threads and takes back one finished slice at a time; a worker runs its  *)
(* guest and services its system calls itself, in three steps that other   *)
(* workers interleave with:                                                *)
(*    check-out   under the kernel lock, leaving a stand-in in the slot;   *)
(*    the call    taking the kernel lock again;                            *)
(*    check-in    under the kernel lock, folding the stand-in's changes in.*)
(* The memory lock of the task's address space is held across all three.   *)
(*                                                                         *)
(* blocked_at maps a slot to the progress epoch it blocked at, and is only *)
(* ever compared with the current epoch: the set of slots blocked at it    *)
(* says as much.                                                           *)
(***************************************************************************)
EXTENDS Tasks

CONSTANTS NWorkers,    \* ncpus
          Workloads    \* what guests do: the flags of the first, second... clone
                       \* that succeeds (clones) and the ways tasks end (ends:
                       \* "exit", "exit_group")

VARIABLES load,        \* the workload of this behaviour
          sh,          \* Shared
          jobs,        \* the slices queued at each worker, its current one first
          results,     \* the channel of finished slices
          dispatched,  \* slot -> ids its in-flight runs are for, in order
          blockedNow,  \* slots blocked at the current epoch
          stalled,
          main,        \* the main loop: "fill", "recv" or "stop"
          waits,       \* ids of the tasks whose wait4 will be re-issued
          born, reaped,
          torn,        \* a task was reaped in the middle of its slice
          fault        \* the expect that failed, if one did

vars == <<load, sh, jobs, results, dispatched, blockedNow, stalled, main, waits, born, reaped, torn, fault>>

Workers == 0..(NWorkers - 1)
MaxSlot == Len(load.clones) + 1

Init ==
    /\ load \in Workloads
    /\ sh = FirstShared
    /\ jobs = [w \in Workers |-> <<>>] /\ results = <<>>
    /\ dispatched = [i \in 1..MaxSlot |-> <<>>]
    /\ blockedNow = {} /\ stalled = FALSE /\ main = "fill"
    /\ waits = {} /\ born = {Init1} /\ reaped = {} /\ torn = FALSE /\ fault = "none"

\* A panic in a worker takes the scope down with it.
Up == fault = "none"

InTable(s) == {t.pid : t \in Listed(s)}

Inflight == Len(results) + FoldLeft(LAMBDA n, w : n + Len(jobs[w]), 0,
                                    SetToSeq(Workers))

------------------------------------------------------------------------------
(* The main loop.                                                          *)

Pid1Ended == \E t \in Listed(sh) : t.pid = Init1 /\ t.run = "Zombie"

\* pick_smp_runnable
Dispatchable(i) ==
    /\ i \in Slots(sh) \ blockedNow
    /\ sh.procs[i].run = "Running" /\ sh.procs[i].vcpu

NewJob(i) == [slot |-> i, pid |-> sh.procs[i].pid, mm |-> sh.procs[i].mm,
              phase |-> "run", made |-> FALSE]

\* The worker with the shortest queue instead of the home worker.
Shortest(i) == CHOOSE w \in Workers : \A v \in Workers : Len(jobs[w]) <= Len(jobs[v])

Home(i) == i % NWorkers

\* No retry before the deadlock error.
GivesUpAtOnce == TRUE

\* Whether a stall is final: the blocked tasks have been retried, or there are none.
GivesUp == stalled \/ ~\E t \in Listed(sh) : t.run = "Running"

\* One batch of dispatches: as many runnable tasks as there are idle workers,
\* each queued at its home worker.  With none and nothing in flight, the stall:
\* one forced retry, then the deadlock error.
Fill ==
    /\ Up /\ main = "fill" /\ ~Pid1Ended
    /\ LET ready == {i \in DOMAIN sh.procs : Dispatchable(i)}
           room == NWorkers - Inflight
           size == IF Cardinality(ready) < room THEN Cardinality(ready) ELSE room
       IN  \E batch \in {s \in SUBSET ready : Cardinality(s) = size} :
           \E order \in SetToSeqs(batch) :
              /\ jobs' = [w \in Workers |-> jobs[w] \o
                            FoldLeft(LAMBDA q, i : Append(q, NewJob(i)), <<>>,
                                     SelectSeq(order, LAMBDA i : Home(i) = w))]
              /\ dispatched' = [i \in 1..MaxSlot |->
                                  IF i \in batch THEN Append(dispatched[i], sh.procs[i].pid)
                                  ELSE dispatched[i]]
              /\ sh' = [sh EXCEPT !.procs = [i \in DOMAIN @ |->
                          IF i \in batch THEN [@[i] EXCEPT !.vcpu = FALSE] ELSE @[i]]]
              /\ IF size + Inflight > 0
                 THEN main' = "recv" /\ UNCHANGED <<blockedNow, stalled>>
                 ELSE IF GivesUp
                 THEN main' = "stop" /\ UNCHANGED <<blockedNow, stalled>>
                 ELSE main' = "fill" /\ blockedNow' = {} /\ stalled' = TRUE
    /\ UNCHANGED <<load, results, waits, born, reaped, torn, fault>>

EndRun ==
    /\ Up /\ main = "fill" /\ Pid1Ended
    /\ main' = "stop"
    /\ UNCHANGED <<load, sh, jobs, results, dispatched, blockedNow, stalled, waits, born, reaped, torn, fault>>

\* The result is for a task that is gone, or whose slot now holds another one.
Orphaned(i, ran) ==
    \/ sh.procs[i] = NoTask
    \/ sh.procs[i].pid # ran
    \/ sh.procs[i].vcpu

Reattached(i, r) == [sh EXCEPT !.procs[i].vcpu = TRUE]

Receive ==
    /\ Up /\ main \in {"recv", "stop"} /\ results # <<>>
    /\ LET r == Head(results)
           i == r.slot
           ran == Head(dispatched[i])
           dropped == Orphaned(i, ran)
           progress == dropped \/ r.out # "blocked"
       IN  /\ results' = Tail(results)
           /\ dispatched' = [dispatched EXCEPT ![i] = Tail(@)]
           /\ sh' = IF dropped THEN sh ELSE Reattached(i, r)
           /\ IF main = "stop" THEN UNCHANGED <<blockedNow, stalled>>
              ELSE /\ blockedNow' =
                        (IF progress \/ r.made THEN {} ELSE blockedNow)
                          \cup (IF ~dropped /\ r.out = "blocked" THEN {i} ELSE {})
                   /\ stalled' = (stalled /\ ~progress /\ ~r.made)
           /\ main' = IF main = "stop" THEN "stop" ELSE "fill"
    /\ UNCHANGED <<load, jobs, waits, born, reaped, torn, fault>>

------------------------------------------------------------------------------
(* A worker.                                                               *)

Busy(w, phase) == Up /\ jobs[w] # <<>> /\ Head(jobs[w]).phase = phase

SetJob(w, j) == jobs' = [jobs EXCEPT ![w] = <<j>> \o Tail(@)]

\* Tasks of one address space are serviced at the same time.
NeverLocked(mm) == FALSE

\* Some worker is inside a service step on this address space.
MemoryLocked(mm) == \E w \in Workers : jobs[w] # <<>>
    /\ Head(jobs[w]).phase \in {"called", "served"} /\ Head(jobs[w]).mm = mm

\* The guest trapped.  Whatever task is in the slot is taken out, its stand-in
\* and check_out_files left behind.
CheckOut(w) ==
    /\ Busy(w, "run") /\ ~MemoryLocked(Head(jobs[w]).mm)
    /\ LET j == Head(jobs[w])
           task == sh.procs[j.slot]
       IN  IF task = NoTask
           THEN fault' = "task missing" /\ UNCHANGED <<sh, jobs>>
           ELSE IF sh.tables[task.files] = NoTable
           THEN fault' = "table missing" /\ UNCHANGED <<sh, jobs>>
           ELSE /\ sh' = [sh EXCEPT !.procs[j.slot].vcpu = FALSE,
                                    !.tables[task.files] = NoTable]
                /\ SetJob(w, [phase |-> "called", cur |-> task,
                              fds |-> sh.tables[task.files], flow |-> "next",
                              ppid |-> task.ppid] @@ j)
                /\ fault' = fault
    /\ UNCHANGED <<load, results, dispatched, blockedNow, stalled, main, waits, born, reaped, torn>>

\* The ids of the tasks whose slice is not over.
Underway == {r.pid : r \in {q \in UNION {Range(jobs[w]) : w \in Workers} : q.phase # "done"}}

\* A call by the task checked out at w changes sh and cur, and ends with flow; a
\* task that is a zombie after its call, whoever made it one, is through.
Serve(w, r, flow) ==
    /\ sh' = r.sh
    /\ SetJob(w, [Head(jobs[w]) EXCEPT !.phase = "served", !.cur = r.cur, !.fds = r.fds,
                       !.flow = IF r.cur.run = "Zombie" THEN "ended" ELSE flow])
    /\ reaped' = (reaped \cup (InTable(sh) \ InTable(r.sh))) \ {r.new}
    /\ torn' = (torn \/ \E p \in Underway : p \in InTable(sh) \ InTable(r.sh))
    /\ born' = born \cup ({r.new} \ {0})
    /\ UNCHANGED <<load, results, dispatched, blockedNow, stalled, main, fault>>

Calls(w) == Busy(w, "called") /\ Head(jobs[w]).cur.pid \notin waits

SysClone(w) ==
    /\ Calls(w) /\ Cardinality(born) < MaxSlot
    /\ LET j == Head(jobs[w])
           r == DoClone(sh, j.cur, j.fds, Flags[load.clones[Cardinality(born)]], "none")
       IN  Serve(w, [sh |-> r.sh, cur |-> j.cur, fds |-> j.fds, new |-> r.ret], "next")
    /\ UNCHANGED waits

SysExit(w) ==
    /\ Calls(w) /\ "exit" \in load.ends
    /\ LET j == Head(jobs[w])
       IN  Serve(w, [new |-> 0] @@ ExitTask(sh, j.cur, j.fds), "ended")
    /\ UNCHANGED waits

SysExitGroup(w) ==
    /\ Calls(w) /\ "exit_group" \in load.ends
    /\ LET j == Head(jobs[w])
       IN  Serve(w, [new |-> 0] @@ ExitGroupWith(sh, j.cur, j.fds), "ended")
    /\ UNCHANGED waits

\* Guests here wait for children they have.
HasChild(t) == \E c \in Listed(sh) : c.ppid = t.pid /\ ~c.thread

SysWait4(w) ==
    /\ Busy(w, "called")
    /\ Head(jobs[w]).cur.pid \in waits \/ HasChild(Head(jobs[w]).cur)
    /\ LET j == Head(jobs[w])
           r == Wait4(sh, j.cur, {})
           me == {j.cur.pid}
       IN  /\ Serve(w, [sh |-> r.sh, cur |-> j.cur, fds |-> j.fds, new |-> 0],
                    IF r.ret = Blocks THEN "blocked" ELSE "next")
           /\ waits' = IF r.ret = Blocks THEN waits \cup me ELSE waits \ me

\* The stand-in is thrown away.
CheckInForgets(w) ==
    LET j == Head(jobs[w])
        s == [sh EXCEPT !.tables[j.cur.files] = j.fds, !.procs[j.slot] = j.cur]
        Woken(t) == IF t.pid = j.cur.ppid THEN [t EXCEPT !.parked = FALSE] ELSE t
    IN  sh' = IF j.cur.run = "Zombie" THEN EachTask(s, Woken) ELSE s

\* Put the task back, with the parent its stand-in was given meanwhile; a task
\* that ended wakes its parent again.
CheckIn(w) ==
    LET j == Head(jobs[w])
        standIn == sh.procs[j.slot]
        reparented == standIn # NoTask /\ standIn.ppid # j.ppid
        task == IF reparented THEN [j.cur EXCEPT !.ppid = standIn.ppid] ELSE j.cur
        s == [sh EXCEPT !.tables[task.files] = j.fds, !.procs[j.slot] = task]
        Woken(t) == IF t.pid = task.ppid THEN [t EXCEPT !.parked = FALSE] ELSE t
    IN  sh' = IF task.run = "Zombie" THEN EachTask(s, Woken) ELSE s

\* The worker runs the same vcpu on.
GoOn(w) ==
    /\ Busy(w, "served") /\ Head(jobs[w]).flow = "next"
    /\ CheckIn(w)
    /\ LET j == Head(jobs[w])
       IN  SetJob(w, [slot |-> j.slot, pid |-> j.pid, mm |-> j.mm, phase |-> "run", made |-> TRUE])
    /\ UNCHANGED <<load, results, dispatched, blockedNow, stalled, main, waits, born, reaped, torn, fault>>

\* The slice ends: blocked, ended, or (with flow "next") yielded or preempted.
EndSlice(w) ==
    /\ Busy(w, "served")
    /\ CheckIn(w)
    /\ LET j == Head(jobs[w])
       IN  SetJob(w, [slot |-> j.slot, pid |-> j.pid, phase |-> "done", out |-> j.flow, made |-> j.made])
    /\ UNCHANGED <<load, results, dispatched, blockedNow, stalled, main, waits, born, reaped, torn, fault>>

\* The locks are gone when the worker sends the result and takes its next run.
Send(w) ==
    /\ Busy(w, "done")
    /\ results' = Append(results, Head(jobs[w]))
    /\ jobs' = [jobs EXCEPT ![w] = Tail(@)]
    /\ UNCHANGED <<load, sh, dispatched, blockedNow, stalled, main, waits, born, reaped, torn, fault>>

\* The machine has stopped, or a worker has panicked.
Finished == fault # "none" \/ (main = "stop" /\ Inflight = 0)
Done == Finished /\ UNCHANGED vars

Next ==
    \/ Fill \/ EndRun \/ Receive
    \/ \E w \in Workers : CheckOut(w) \/ GoOn(w) \/ EndSlice(w) \/ Send(w)
    \/ \E w \in Workers : SysClone(w) \/ SysExit(w) \/ SysExitGroup(w) \/ SysWait4(w)
    \/ Done

Spec == Init /\ [][Next]_vars

\* Workers and the main loop keep going: until the machine has stopped some step is
\* taken, whichever it is (WF_vars(Next), for Next is enabled until then).  Guests
\* make a bounded number of calls and then exit or block.
Fairness == []<>Finished \/ []<><<TRUE>>_vars

FairSpec == Spec /\ Fairness

------------------------------------------------------------------------------
(* Properties.                                                             *)

\* The in-flight runs of slot i in the order they will come back.
RunsOf(i) ==
    LET all == FoldLeft(LAMBDA q, w : q \o jobs[w], results, SetToSortSeq(Workers, <))
        mine == SelectSeq(all, LAMBDA r : r.slot = i)
    IN  [n \in DOMAIN mine |-> mine[n].pid]

\* "A slot's runs go to one worker and come back in order, so the front is the
\* task the next result for that slot belongs to" (schedule_smp).
FrontIsNextResult == \A i \in 1..MaxSlot : RunsOf(i) = dispatched[i]

\* A vcpu is in one place: a live task either holds it or is in flight once, so
\* no task runs on two workers and none loses its vcpu and never runs again.
OneVcpuPerTask ==
    \A t \in Listed(sh) : Alive(t) =>
        Cardinality({<<i, n>> \in (1..MaxSlot) \X (1..NWorkers) :
                       n <= Len(dispatched[i]) /\ dispatched[i][n] = t.pid})
          + (IF t.vcpu THEN 1 ELSE 0) = 1

\* Every id clone returned is held by exactly one slot until it is reaped, and
\* none is reaped twice or comes back.
Accounted ==
    \A p \in born :
        Cardinality({i \in Slots(sh) : sh.procs[i].pid = p})
          + (IF p \in reaped THEN 1 ELSE 0) = 1

\* The parent of every process in the table is alive: the one an exit gave it
\* while it was checked out too (smp_service_step: "Fold in what other workers
\* did to the stand-in meanwhile: ... a new parent").
OrphansAdopted ==
    \A t \in Listed(sh) : t.thread \/ t.ppid = 0 \/ Pid1Ended
                          \/ \E p \in Listed(sh) : p.pid = t.ppid /\ Alive(p)

\* Checking tasks out and in loses none: each has one record, one vcpu and a
\* living parent.  The conditions: tasks end one by one, for an exit_group makes
\* zombies of stand-ins, its own included, whose check-in puts back what may have
\* been reaped or is running again; and for the vcpu, that no stand-in was reaped
\* like that, for its worker then goes on with whatever task has the slot by now.
TasksExact ==
    /\ torn \/ OneVcpuPerTask
    /\ "exit_group" \in load.ends \/ (Accounted /\ OrphansAdopted)

\* What smp_service_step expects of the table it shares with the other workers:
\* the "dispatched task is in the table", and its descriptor table is there, for
\* it "can never be checked out twice at once".  The conditions: no task was
\* reaped in the middle of its slice, as a wait4 or a clone may do once an
\* exit_group has made a zombie of its stand-in; and the tasks with one descriptor
\* table have one address space too, whose lock keeps their calls apart, unlike
\* those of a clone with CLONE_FILES and without CLONE_VM.
CheckOutFindsAll ==
    /\ fault = "task missing" => torn
    /\ fault = "table missing" =>
          torn \/ \E t, u \in Listed(sh) : t.files = u.files /\ t.mm # u.mm

\* A parent blocked in wait4 with a zombie child reaps it: the wake-up is not
\* lost between the exit's check-in, the waiter's and the epoch it parks at, and
\* the run does not end in the deadlock error instead.
WaitReturns ==
    \A p \in Init1..MaxTasks :
        (p \in waits /\ \E t \in Listed(sh) : t.ppid = p /\ ~t.thread /\ t.run = "Zombie")
        ~> (p \notin waits \/ Pid1Ended \/ ~Up)
------------------------------------------------------------------------------
(* Workloads for model checking.                                           *)

Processes == [clones |-> <<"fork", "fork", "fork">>, ends |-> {"exit"}]
Threads == [clones |-> <<"thread", "thread">>, ends |-> {"exit", "exit_group"}]
OneTable == [clones |-> <<"forkFiles", "fork">>, ends |-> {"exit"}]
Killed == [clones |-> <<"fork", "thread", "fork">>, ends |-> {"exit_group"}]

\* Processes that exit one by one; threads, which exit_group ends together; two
\* processes with one descriptor table; and a process whose threads exit_group
\* ends while its parent reaps them.
SmallLoads == {Processes, Threads, OneTable, Killed}
=============================================================================
