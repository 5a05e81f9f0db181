------------------------------ MODULE PipeTasks ------------------------------
(***************************************************************************)
(* Tasks on pipes under either scheduler.                                  *)
(*                                                                         *)
(* Serial (schedule_serial, serial_sweep, run_slice): one slice after      *)
(* another, a task that blocks parks, and a sweep without progress wakes   *)
(* every parked task for one more sweep before the machine is declared     *)
(* deadlocked.  Which runnable task is picked, by virtual runtime in the   *)
(* code, is left open.                                                     *)
(*                                                                         *)
(* SMP (schedule_smp, run_slice_smp): workers run slices side by side, a   *)
(* task whose slice blocked is not dispatched again before some slice is   *)
(* known to have made progress (the epoch), and a machine with nothing in  *)
(* flight is retried once before it is declared deadlocked.  Module        *)
(* SmpTasks has the workers' queues and the task table; here a dispatched  *)
(* slice is simply in flight.                                              *)
(***************************************************************************)
EXTENDS Pipe

CONSTANT NWorkers

ASSUME NWorkersAssumption == NWorkers \in Nat \ {0}

VARIABLES main,      \* "loop", "recheck" (the sweep after unpark_all), "deadlock", "done"
          flight,    \* the slices in flight: [state, made] of their tasks
          waiting,   \* the parked tasks; on SMP those with blocked_at = epoch
          stalled    \* SMP's flag of that name

vars == <<load, task, buf, taken, sent, signals, main, flight, waiting, stalled>>

Idle == [state |-> "idle", made |-> FALSE]
Inflight == {t \in Tasks : flight[t] # Idle}
Running(t) == flight[t].state = "run"

Init ==
    /\ PipeInit
    /\ main = "loop" /\ flight = [t \in Tasks |-> Idle]
    /\ waiting = {} /\ stalled = FALSE

------------------------------------------------------------------------------
(* The pick of a task: pick_serial_runnable and pick_smp_runnable.         *)

Dispatchable == {t \in Tasks \ Inflight : Live(t) /\ t \notin waiting}

\* Each turn of the SMP loop fills the workers before it looks at results.
CanFill == Dispatchable # {} /\ Cardinality(Inflight) < NWorkers

Start(t) ==
    /\ flight' = [flight EXCEPT ![t] = [state |-> "run", made |-> FALSE]]
    /\ UNCHANGED <<pipeVars, main, waiting, stalled>>

Pick(t) == ~load.smp /\ main \in {"loop", "recheck"} /\ Inflight = {} /\ t \in Dispatchable /\ Start(t)
Fill(t) == load.smp /\ main = "loop" /\ CanFill /\ t \in Dispatchable /\ Start(t)

------------------------------------------------------------------------------
(* A slice.                                                                *)

\* The end of a serial slice: a sweep that made progress starts the loop over, one
\* that did not goes on to the next task.
EndSweepTurn(t, made, blocked) ==
    /\ flight' = [flight EXCEPT ![t] = Idle]
    /\ waiting' = IF blocked THEN waiting \cup {t} ELSE waiting \ {t}
    /\ main' = IF made THEN "loop" ELSE main
    /\ UNCHANGED stalled

\* The end of a worker's: its result is on its way to the main loop.
SendResult(t, outcome, made) ==
    /\ flight' = [flight EXCEPT ![t] = [state |-> outcome, made |-> made]]
    /\ UNCHANGED <<main, waiting, stalled>>

EndSlice(t, outcome, made) ==
    IF load.smp THEN SendResult(t, outcome, made) ELSE EndSweepTurn(t, made, outcome = "blocked")

GoOn(t) ==
    /\ flight' = [flight EXCEPT ![t] = [state |-> "run", made |-> TRUE]]
    /\ UNCHANGED <<main, stalled>>

\* Only calls that returned count.
ProgressedReturns(t) == flight[t].made

\* Whether a slice that ends in a blocking call made progress: run_slice counts
\* data the blocking write moved, run_slice_smp does not.
Progressed(t) == flight[t].made \/ (~load.smp /\ Moved(t))

\* One system call, on SMP under the pipes lock.
SysReadWrite(t) ==
    /\ Running(t)
    /\ \E c \in Calls(t) :
          /\ Issue(t, c)
          /\ IF task'[t].ended THEN EndSlice(t, "ended", TRUE)
             ELSE IF task'[t].call # NoCall THEN EndSlice(t, "blocked", Progressed(t))
             ELSE GoOn(t) /\ UNCHANGED waiting

SysClose(t) == Running(t) /\ Close(t) /\ GoOn(t) /\ UNCHANGED waiting
SysSigreturn(t) == Running(t) /\ Sigreturn(t) /\ GoOn(t) /\ UNCHANGED waiting
SysExit(t) == Running(t) /\ Exit(t) /\ EndSlice(t, "ended", TRUE)

\* post_signal wakes its target if it is parked; SMP parks nobody.
SysKill(t) ==
    /\ Running(t)
    /\ \E u \in Tasks \ {t} : Kill(t, u) /\ waiting' = IF load.smp THEN waiting ELSE waiting \ {u}
    /\ GoOn(t)

\* The slice's quantum is over (slice_cap, a timer interrupt, sched_yield).
Preempt(t) ==
    /\ Running(t) /\ ~IsBlocked(t) /\ flight[t].made
    /\ EndSlice(t, "preempted", TRUE)
    /\ UNCHANGED pipeVars

------------------------------------------------------------------------------
(* The main loops.                                                         *)

\* The result of a slice that blocked: progress starts an epoch, and the task
\* waits for the next.
Received(t) ==
    /\ flight[t].state = "blocked"
    /\ waiting' = IF flight[t].made THEN {t} ELSE waiting \cup {t}
    /\ stalled' = (stalled /\ ~flight[t].made)

ReceiveBlocked(t) ==
    /\ main = "loop" /\ ~CanFill
    /\ Received(t)
    /\ flight' = [flight EXCEPT ![t] = Idle]
    /\ UNCHANGED <<pipeVars, main>>

\* Of one that ended or is to go on.
ReceiveOther(t) ==
    /\ main = "loop" /\ ~CanFill
    /\ flight[t].state \in {"ended", "preempted"}
    /\ waiting' = {} /\ stalled' = FALSE
    /\ flight' = [flight EXCEPT ![t] = Idle]
    /\ UNCHANGED <<pipeVars, main>>

AllDone == \A t \in Tasks : ~Live(t)

\* A sweep that found nothing to run, without timers and host sockets.
StallSerial ==
    /\ ~load.smp /\ main \in {"loop", "recheck"} /\ Inflight = {} /\ Dispatchable = {}
    /\ main' = IF AllDone THEN "done"
               ELSE IF main = "loop" /\ waiting # {} THEN "recheck"
               ELSE "deadlock"
    /\ waiting' = IF main = "loop" THEN {} ELSE waiting
    /\ UNCHANGED <<pipeVars, flight, stalled>>

\* The stall is taken for a wait for results.
StallWaits ==
    /\ load.smp /\ main = "loop" /\ Inflight = {} /\ Dispatchable = {}
    /\ main' = IF AllDone THEN "done" ELSE "loop"
    /\ UNCHANGED <<pipeVars, flight, waiting, stalled>>

\* Nothing runnable and nothing in flight, without timers and host sockets.
StallSmp ==
    /\ load.smp /\ main = "loop" /\ Inflight = {} /\ Dispatchable = {}
    /\ main' = IF AllDone THEN "done" ELSE IF stalled THEN "deadlock" ELSE "loop"
    /\ stalled' = TRUE /\ waiting' = {}
    /\ UNCHANGED <<pipeVars, flight>>

Halted == main \in {"done", "deadlock"} /\ UNCHANGED vars

Next ==
    \/ \E t \in Tasks : Pick(t) \/ Fill(t) \/ SysReadWrite(t) \/ SysClose(t) \/ SysSigreturn(t)
    \/ \E t \in Tasks : SysExit(t) \/ SysKill(t) \/ Preempt(t)
    \/ \E t \in Tasks : ReceiveBlocked(t) \/ ReceiveOther(t)
    \/ StallSerial \/ StallSmp \/ Halted

Spec == Init /\ [][Next]_vars

\* Workers and the main loops keep going: some step is taken while there is one,
\* whichever it is.  Guests make a bounded number of calls and then exit.
Fairness == WF_vars(Next)

FairSpec == Spec /\ Fairness
------------------------------------------------------------------------------
(* Properties.                                                             *)

TypeOK ==
    /\ main \in {"loop", "recheck", "deadlock", "done"} /\ stalled \in BOOLEAN
    /\ flight \in [Tasks -> [state : {"idle", "run", "blocked", "ended", "preempted"}, made : BOOLEAN]]
    /\ waiting \subseteq Tasks

\* Pipes keep to their capacity (PIPE_CAPACITY), whatever the writers' sizes and
\* however often a blocked write is issued again.
WithinCapacity == \A p \in Pipes : Len(buf[p]) <= Capacity

\* "deadlock: every process is blocked" is only reported of a machine in which no
\* blocked call could return or move a byte.  On the serial scheduler, and on the
\* pool of guests whose writes go in at once or not at all: a write that moved a part
\* is no progress to run_slice_smp.
DeadlockIsReal == main = "deadlock" => \A t \in Tasks : Live(t) => ~CouldProceed(t)

\* How much of its write to p a task that is not done with it has put in.
Partial(t, p) == IF WritesTo(task[t].call, p) \/ WritesTo(task[t].saved, p) THEN task[t].progress ELSE 0

\* Guests whose handlers cannot be in the way of a write that blocked: io_progress is
\* one per task, and a write made by a handler that will restart an interrupted write
\* goes on from how far that one got, unless writes go in at once or not at all.
ShortOnly == \A n \in load.sizes : n <= load.atomic
WritesApart == "restart" \notin load.handlers \/ ShortOnly

\* "the guest sees one complete write, as on Linux" (pipe_write_from): each writer's
\* bytes go through a pipe in order, none twice and none left out, and its writes
\* returned as many as went in, but for those of a write still going on.  Of guests
\* whose handlers leave interrupted writes alone.
StreamIntact ==
    WritesApart => \A p \in Pipes, t \in Tasks :
        /\ \A i, j \in DOMAIN Stream(p) :
              i < j /\ Stream(p)[i].by = t /\ Stream(p)[j].by = t => Stream(p)[i].n < Stream(p)[j].n
        /\ {Stream(p)[i].n : i \in {j \in DOMAIN Stream(p) : Stream(p)[j].by = t}}
             = 1..(sent[t][p] + Partial(t, p))

\* A write of at most PIPE_ATOMIC_WRITE bytes is not mixed with others: a task's
\* blocked short write has put nothing in the pipe.  Of the same guests.
ShortWritesAtomic ==
    WritesApart => \A t \in Tasks :
        task[t].call # NoCall /\ task[t].call.op = "w" /\ task[t].call.n <= load.atomic
            => task[t].progress = 0

\* A blocked call that could return is issued again: neither parking nor the epoch
\* hides from its task the progress another slice made while its own result was on
\* its way.
BlockedCallRetried ==
    \A t \in Tasks : (IsBlocked(t) /\ CouldProceed(t)) ~> (Running(t) \/ ~CouldProceed(t))

------------------------------------------------------------------------------
(* Workloads for model checking.                                           *)

\* Two writers and a reader on one pipe.
TwoWriters ==
    [ends |-> [v |-> {<<"w", "p">>}, w |-> {<<"w", "p">>}, r |-> {<<"r", "p">>}],
     nonblock |-> {}, sigpipe |-> TRUE, handlers |-> {}, signals |-> 0,
     atomic |-> 2, sizes |-> {2, 3}, calls |-> 2, smp |-> FALSE]

\* The same with O_NONBLOCK writers and SIGPIPE ignored.
NonBlockWriters ==
    [TwoWriters EXCEPT !.nonblock = {"w"}, !.sigpipe = FALSE, !.atomic = 1, !.sizes = {1, 3}]

\* v reads p and writes q, w reads q and writes p, and they interrupt each other.
Ring ==
    [TwoWriters EXCEPT !.ends = [v |-> {<<"r", "p">>, <<"w", "q">>},
                                 w |-> {<<"r", "q">>, <<"w", "p">>}],
                       !.sigpipe = FALSE, !.handlers = {"eintr"}, !.signals = 1,
                       !.atomic = 1, !.sizes = {3}]

\* On SMP a writer and a reader, whose writes go in at once or not at all.
OneWriter ==
    [TwoWriters EXCEPT !.ends = [w |-> {<<"w", "p">>}, r |-> {<<"r", "p">>}], !.sizes = {1, 2}, !.smp = TRUE]

\* The same, interrupting each other.
Interrupted == [OneWriter EXCEPT !.sizes = {2}, !.handlers = {"restart", "eintr"}, !.signals = 1]

SmallLoads == {TwoWriters, NonBlockWriters, Ring, OneWriter, Interrupted}

\* On SMP a writer whose writes are larger than the pipe.
LongWrites == {[OneWriter EXCEPT !.atomic = 1, !.sizes = {2, 3}]}
==============================================================================
