----------------------------- MODULE SignalTasks -----------------------------
(***************************************************************************)
(* Tasks that signal each other, change their masks and dispositions, wait *)
(* for signals and for their children's stops, continues and deaths.       *)
(*                                                                         *)
(* A step of a task is check-out, one call, check-in.  With Smp false one  *)
(* task is out at a time; with Smp true several are, each leaving a        *)
(* stand-in that posts reach and the check-in folds in                     *)
(* (Kernel::smp_service_step).  Which task that can run does is open.      *)
(***************************************************************************)
EXTENDS Signals

CONSTANTS Workloads  \* what guests do: the calls they make (ops), the signals they
                     \* post (sigs), those whose disposition they change (caught)
                     \* and to what (disps), the masks they pass to sigprocmask
                     \* and sigsuspend (masks), and a bound on the calls that
                     \* post and the sigactions (budget)

ASSUME WorkloadsAssumption ==
    /\ \A t \in Tids : Parent[t] # t
    /\ \A l \in Workloads : /\ l.sigs \subseteq Sigs /\ l.caught \subseteq AllSigs
                            /\ l.disps \subseteq {"dfl", "ign", "eintr", "restart"}
                            /\ l.masks \subseteq SUBSET AllSigs

VARIABLES load,      \* the workload of this behaviour
          spent      \* of the budget

vars == <<load, table, out, hist, spent>>

Init ==
    /\ load \in Workloads
    /\ table = [t \in Tids |-> NewTask] /\ out = [t \in Tids |-> NotOut]
    /\ hist = [t \in Tids |-> NewHist] /\ spent = 0

InFlight(u) == out[u] # NotOut
Record(t) == IF InFlight(t) THEN out[t] ELSE table[t]

\* The guest of t makes a call of its own, or has one issued again.
Free(t, op) == InFlight(t) /\ out[t].served = "no" /\ out[t].call = NoCall /\ op \in load.ops
Again(t, op) == InFlight(t) /\ out[t].served = "no" /\ out[t].call.op = op

\* The step of t ends with the record and history r; a stop or a death it
\* brought about reaches the parent's slot.
Serviced(t, r, tb, hs) ==
    LET ends == r.me.run # "run" /\ Parent[t] \in Seen
        par == Parent[t]
    IN  /\ out' = [out EXCEPT ![t] = r.me]
        /\ table' = IF ends THEN [tb EXCEPT ![par] = Informed(@, InFlight(par))] ELSE tb
        /\ hist' = IF ends THEN [hs EXCEPT ![t] = r.h, ![par] = OwedChild(@, tb[par], InFlight(par))]
                   ELSE [hs EXCEPT ![t] = r.h]

------------------------------------------------------------------------------
(* kill, tgkill, sigqueue.                                                 *)

\* sigqueue_full: what the user's tasks have queued, the caller as itself.
QueueFull(t) == MapThenSumSet(LAMBDA u : Len(IF u = t THEN out[t].rt ELSE table[u].rt),
                              Seen \cup {t}) >= QueueMax

\* post_signal: s with queue entry n[u] to the caller if self, and to the slots
\* of S; a continued task's parent is told.
PostSignal(t, self, S, s, n) ==
    LET resumed == {u \in S : Resumes(table[u], s)}
        told == {Parent[u] : u \in resumed}
        me == IF self THEN Posted(out[t], FALSE, s, n[t]) ELSE out[t]
        tb == [u \in Tids |-> IF u \in S THEN Posted(table[u], InFlight(u), s, n[u]) ELSE table[u]]
        hs == [u \in Tids |->
                 LET h == IF u \in S THEN OwedPosted(hist[u], table[u], InFlight(u), s)
                          ELSE IF self /\ u = t THEN OwedPosted(hist[u], out[u], FALSE, s)
                          ELSE hist[u]
                 IN  IF u \in S \/ (self /\ u = t) THEN [h EXCEPT !.sent = Max({@, n[u]})] ELSE h]
        toldOthers == {u \in told \ {t} : u \in Seen}
    IN  Serviced(t,
                 AfterCall(IF t \in told THEN Raise(me, FALSE, CHLD) ELSE me,
                           IF t \in told THEN OwedChild(hs[t], me, FALSE) ELSE hs[t], NoCall, "ok"),
                 [u \in Tids |-> IF u \in toldOthers THEN Informed(tb[u], InFlight(u)) ELSE tb[u]],
                 [u \in Tids |-> IF u \in toldOthers THEN OwedChild(hs[u], tb[u], InFlight(u)) ELSE hs[u]])

\* The entry a post of s to u would add to its queue.
Entry(u, p, inFlight, s) == IF s = RT /\ ~Discards(p, inFlight, s) THEN hist[u].sent + 1 ELSE 0

\* kill of one task, or tgkill: past the limit the signal is posted without info.
SysKill(t, u, s) ==
    /\ Free(t, "kill") /\ spent < load.budget /\ Record(u).run # "gone"
    /\ LET n == [v \in Tids |-> IF v = u /\ ~QueueFull(t) THEN Entry(v, Record(v), InFlight(v) /\ v # t, s) ELSE 0]
       IN  PostSignal(t, u = t, {u} \ {t}, s, n)
    /\ spent' = spent + 1 /\ UNCHANGED load

\* rt_sigqueueinfo of the real-time signal: past the limit it fails with EAGAIN.
SysSigqueue(t, u) ==
    /\ Free(t, "sigqueue") /\ RT \in load.sigs /\ spent < load.budget /\ Record(u).run # "gone"
    /\ IF QueueFull(t) THEN PostSignal(t, FALSE, {}, RT, [v \in Tids |-> 0])
       ELSE PostSignal(t, u = t, {u} \ {t}, RT,
                       [v \in Tids |-> IF v = u THEN Entry(v, Record(v), InFlight(v) /\ v # t, RT) ELSE 0])
    /\ spent' = spent + 1 /\ UNCHANGED load

\* kill of the caller's process group, every task here: "The caller is out of
\* sh.procs for its slice, so test it separately."
SysKillGroup(t, s) ==
    /\ Free(t, "killpg") /\ spent < load.budget
    /\ PostSignal(t, TRUE, {u \in Seen : table[u].run # "gone"}, s,
                  [v \in Tids |-> Entry(v, Record(v), InFlight(v) /\ v # t, s)])
    /\ spent' = spent + 1 /\ UNCHANGED load

------------------------------------------------------------------------------
(* The mask, the dispositions, and the calls that wait.                    *)

\* rt_sigaction: a pending signal that is now ignored is flushed, blocked or not.
SysSigaction(t, s, d) ==
    /\ Free(t, "sigaction") /\ spent < load.budget /\ out[t].disp[s] # d
    /\ LET p == [out[t] EXCEPT !.disp[s] = d]
           r == IF Ignores(p, s) THEN Drop(p, hist[t], {s}) ELSE [me |-> p, h |-> hist[t]]
       IN  Serviced(t, AfterCall(r.me, r.h, NoCall, "ok"), table, hist)
    /\ spent' = spent + 1 /\ UNCHANGED load

SysSigprocmask(t, m) ==
    /\ Free(t, "sigprocmask") /\ out[t].blocked # m
    /\ Serviced(t, AfterCall([out[t] EXCEPT !.blocked = m],
                             [hist[t] EXCEPT !.masks[1] = m], NoCall, "ok"), table, hist)
    /\ UNCHANGED <<load, spent>>

\* rt_sigsuspend: the mask before the call is saved on the first entry only.
SysSigsuspend(t, m) ==
    /\ IF Again(t, "suspend") THEN m = out[t].call.mask ELSE Free(t, "suspend")
    /\ LET p == [out[t] EXCEPT !.prev = IF @ = NoMask THEN out[t].blocked ELSE @, !.blocked = m]
       IN  Serviced(t, AfterCall(p, hist[t], [op |-> "suspend", mask |-> m],
                                 IF Deliverable(p) = {} THEN "block" ELSE "EINTR"), table, hist)
    /\ UNCHANGED <<load, spent>>

\* rt_sigtimedwait: the lowest pending signal of the set, blocked or not.
SysSigtimedwait(t, S) ==
    /\ IF Again(t, "timedwait") THEN S = out[t].call.set ELSE Free(t, "timedwait") /\ S # {}
    /\ LET ready == (out[t].pending \cap S) \ {KILL, STOP}
           r == Take(out[t], hist[t], Min(ready))
       IN  Serviced(t, IF ready = {}
                       THEN AfterCall(out[t], hist[t], [op |-> "timedwait", set |-> S], "block")
                       ELSE AfterCall(r.me, r.h, NoCall, "ok"), table, hist)
    /\ UNCHANGED <<load, spent>>

Children(t) == {u \in Seen : Parent[u] = t /\ table[u].run # "gone"}

\* The stop of u is latched as reported, its continue is taken.
ToldStop(tb, u) == [tb EXCEPT ![u].stopReported = TRUE]
ToldContinue(tb, u) == [tb EXCEPT ![u].continued = FALSE]

\* wait4 with WUNTRACED and WCONTINUED: a zombie is reaped first, then a stop is
\* reported, then a continue.
SysWait4(t) ==
    /\ Again(t, "wait4") \/ Free(t, "wait4")
    /\ LET zombies == {u \in Children(t) : table[u].run = "dead"}
           stopped == {u \in Children(t) : table[u].run = "stop" /\ ~table[u].stopReported}
           continued == {u \in Children(t) : table[u].continued}
           back(tb, hs) == Serviced(t, AfterCall(out[t], hist[t], NoCall, "ok"), tb, hs)
       IN  \/ /\ zombies # {}
              /\ back([table EXCEPT ![Min(zombies)].run = "gone"], hist)
           \/ /\ zombies = {} /\ stopped # {}
              /\ back(ToldStop(table, Min(stopped)), [hist EXCEPT ![Min(stopped)].stopsTold = @ + 1])
           \/ /\ zombies = {} /\ stopped = {} /\ continued # {}
              /\ back(ToldContinue(table, Min(continued)),
                      [hist EXCEPT ![Min(continued)].contsTold = @ + 1])
           \/ /\ Children(t) = {}
              /\ back(table, hist)
           \/ /\ Children(t) # {} /\ zombies = {} /\ stopped = {} /\ continued = {}
              /\ Serviced(t, AfterCall(out[t], hist[t], [op |-> "wait4"], "block"), table, hist)
    /\ UNCHANGED <<load, spent>>

\* rt_sigreturn: the frame's mask, and the call it interrupted if that restarts.
SysSigreturn(t) ==
    /\ InFlight(t) /\ out[t].served = "no" /\ out[t].call = NoCall /\ out[t].frames # <<>>
    /\ LET f == Head(out[t].frames)
           p == [out[t] EXCEPT !.blocked = f.mask, !.frames = Tail(@)]
           r == AfterCall(p, [hist[t] EXCEPT !.masks = Tail(@)], NoCall, "ok")
       IN  \* A handler entered at once returns to the call to issue again.
           Serviced(t, IF Len(r.me.frames) = Len(out[t].frames)
                       THEN [r EXCEPT !.me.frames[1].call = f.call]
                       ELSE [r EXCEPT !.me.call = f.call], table, hist)
    /\ UNCHANGED <<load, spent>>

\* Exit::Interrupted: what is pending is delivered between two instructions.
Interrupted(t) ==
    /\ InFlight(t) /\ out[t].served = "no" /\ out[t].call = NoCall /\ Deliverable(out[t]) # {}
    /\ Serviced(t, Deliver([out[t] EXCEPT !.served = "returned"], hist[t], NoCall), table, hist)
    /\ UNCHANGED <<load, spent>>

------------------------------------------------------------------------------
(* The scheduler's side.                                                   *)

CheckOut(t) ==
    /\ table[t].run = "run" /\ ~table[t].parked /\ ~InFlight(t)
    /\ Smp \/ \A u \in Tids : ~InFlight(u)
    /\ out' = [out EXCEPT ![t] = [table[t] EXCEPT !.had = table[t].pending, !.hadRt = Len(table[t].rt)]]
    /\ table' = [table EXCEPT ![t] = IF Smp THEN @ ELSE NewTask]
    /\ UNCHANGED <<load, hist, spent>>

\* Only the queues of the stand-in are taken over.
FoldedQueues(p, standIn) ==
    [p EXCEPT !.rt = @ \o SubSeq(standIn.rt, p.hadRt + 1, Len(standIn.rt))]

\* smp_service_step: what was posted to the stand-in since the check-out.
Folded(p, standIn) ==
    [p EXCEPT !.pending = @ \cup (standIn.pending \ p.had),
              !.rt = @ \o SubSeq(standIn.rt, p.hadRt + 1, Len(standIn.rt))]

\* A serial task that blocks parks until it is unparked or a stall retries it;
\* a dead one has its parent woken again.
CheckIn(t) ==
    /\ InFlight(t) /\ out[t].served # "no"
    /\ LET p == IF Smp THEN Folded(out[t], table[t]) ELSE out[t]
           q == [p EXCEPT !.served = "no", !.had = {}, !.hadRt = 0,
                          !.parked = ~Smp /\ p.run = "run" /\ p.served = "blocks"]
       IN  table' = [u \in Tids |-> IF u = t THEN q
                                    ELSE IF p.run = "dead" /\ u = Parent[t]
                                    THEN [table[u] EXCEPT !.parked = FALSE]
                                    ELSE table[u]]
    /\ out' = [out EXCEPT ![t] = NotOut]
    /\ UNCHANGED <<load, hist, spent>>

\* A stall of the serial scheduler: every parked task re-checks its wait.
Stall ==
    /\ ~Smp /\ \A t \in Tids : ~InFlight(t) /\ (table[t].parked \/ table[t].run # "run")
    /\ \E t \in Tids : table[t].parked
    /\ table' = [t \in Tids |-> [table[t] EXCEPT !.parked = FALSE]]
    /\ UNCHANGED <<load, out, hist, spent>>

\* The tasks have ended, or are stopped with none left to continue them.
NoneRuns == (\A t \in Tids : ~InFlight(t) /\ table[t].run # "run") /\ UNCHANGED vars

Next ==
    \/ Stall \/ NoneRuns
    \/ \E t \in Tids : CheckOut(t) \/ CheckIn(t) \/ SysWait4(t) \/ SysSigreturn(t) \/ Interrupted(t)
    \/ \E t, u \in Tids : SysSigqueue(t, u) \/ \E s \in load.sigs : SysKill(t, u, s)
    \/ \E t \in Tids, s \in load.sigs : SysKillGroup(t, s)
    \/ \E t \in Tids, s \in load.caught, d \in load.disps : SysSigaction(t, s, d)
    \/ \E t \in Tids, m \in load.masks : SysSigprocmask(t, m) \/ SysSigsuspend(t, m) \/ SysSigtimedwait(t, m)

Spec == Init /\ [][Next]_vars

------------------------------------------------------------------------------
(* Properties: of the tasks whose record is in the table.                  *)

Settled(t) == ~InFlight(t) /\ table[t].run \in {"run", "stop"}

TypeOK ==
    \A t \in Tids :
        /\ Record(t).run \in {"run", "stop", "dead", "gone"}
        /\ Record(t).pending \subseteq AllSigs /\ Record(t).blocked \subseteq AllSigs
        /\ Record(t).prev = NoMask \/ Record(t).prev \subseteq AllSigs
        /\ Record(t).rt \in Seq(1..load.budget)

\* A SIGCONT and a stop never wait for delivery together, and no task stays
\* stopped with a SIGCONT pending: the last of them sent wins (apply_stop_cont:
\* "they annihilate").  On the serial scheduler: of a stand-in the check-in takes
\* the new signals and not the ones they cancelled.
StopsAndContinuesAnnihilate ==
    \A t \in Tids : Settled(t) /\ CONT \in table[t].pending =>
        table[t].run = "run" /\ table[t].pending \cap Stops = {}

\* No signal is lost: one that was posted and not yet acted on, cancelled or
\* flushed is pending, after a check-in too (smp_service_step: "Fold in what other
\* workers did to the stand-in meanwhile: signals posted to this task").  Under the
\* worker pool, of guests without stops and except one thing: the fold-in leaves
\* out the signals that were pending at the check-out, so an instance posted to
\* the stand-in after the step has delivered the earlier one is gone (see Owes).
SignalsKept == \A t \in Tids : Settled(t) => hist[t].owed \subseteq table[t].pending

\* Every queued instance of a real-time signal is delivered once and in the
\* order posted ("each delivery is distinct", post_siginfo), or dropped because
\* the signal is ignored; and a queued one is pending.  On the serial scheduler:
\* under the pool a group signal reaches its sender's stand-in as well.
QueuedOnceInOrder ==
    \A t \in Tids : Settled(t) =>
        LET all == hist[t].got \o table[t].rt
        IN  /\ \A i, j \in DOMAIN all : i < j => all[i] < all[j]
            /\ {all[i] : i \in DOMAIN all} \cup hist[t].dropped = 1..hist[t].sent
            /\ table[t].rt # <<>> => RT \in table[t].pending

\* Guests that are not stopped inside a sigsuspend: deliver_pending_signals returns
\* at a stop without undoing the mask, which then is in force after the continue, and
\* the next scan puts the old one back whatever the guest has set meanwhile.
SuspendsUnstopped == "suspend" \notin load.ops \/ load.sigs \cap Stops = {}

\* With no sigsuspend in progress the mask is the one the guest set at this
\* depth of handlers: rt_sigsuspend and handlers leave no trace ("then restore
\* the pre-call mask"), for guests that are not stopped inside a sigsuspend.
MaskRestored ==
    SuspendsUnstopped => \A t \in Tids : Settled(t) /\ table[t].prev = NoMask =>
        table[t].blocked = Head(hist[t].masks)

\* A parked task has nothing to act on: no signal that a handler, a stop or a
\* death awaits, under the mask its call installs, and none its sigtimedwait
\* accepts.  A post that does not unpark would leave it asleep until a stall.
\* Again of guests that are not stopped inside a sigsuspend.
ParkedHasNothingToDo ==
    SuspendsUnstopped => \A t \in Tids : Settled(t) /\ table[t].parked =>
        LET c == table[t].call
            mask == IF c.op = "suspend" THEN c.mask ELSE table[t].blocked
        IN  /\ \A s \in table[t].pending \ mask : Ignores(table[t], s)
            /\ c.op = "timedwait" => (table[t].pending \cap c.set) \subseteq {KILL, STOP}
            /\ c.op = "wait4" => \A u \in Tids : Parent[u] = t /\ Settled(u) =>
                   ~table[u].continued /\ (table[u].run = "stop" => table[u].stopReported)

\* wait4 reports no stop and no continue more often than it happened
\* ("so the same stop isn't reported again on a later wait"; continued is
\* "Cleared when reported").
EventsReportedOnce ==
    \A t \in Tids : hist[t].stopsTold <= hist[t].stops /\ hist[t].contsTold <= hist[t].conts

\* Stops and continues cancel each other, and each is reported once, on the serial
\* scheduler.
JobControlSound == StopsAndContinuesAnnihilate /\ EventsReportedOnce

------------------------------------------------------------------------------
(* Workloads for model checking: a shell and its job.                      *)

OneJob == <<0, 1>>

USR1 == 10

\* A signal that is caught, ignored and blocked, and SIGKILL.
Handlers ==
    [ops |-> {"kill", "sigaction", "sigprocmask", "suspend"}, sigs |-> {KILL, USR1},
     caught |-> {USR1}, disps |-> {"restart", "eintr", "ign"}, masks |-> SUBSET {USR1},
     budget |-> 3]

\* A real-time signal, posted to the limit of the queue.
Queue ==
    [ops |-> {"kill", "sigqueue", "killpg", "sigaction", "sigprocmask", "timedwait"},
     sigs |-> {RT}, caught |-> {RT}, disps |-> {"restart", "ign"}, masks |-> SUBSET {RT},
     budget |-> 4]

\* Stops and continues, which the job may catch or hold back.
JobControl ==
    [ops |-> {"kill", "killpg", "sigaction", "sigprocmask", "wait4"},
     sigs |-> {CONT, STOP, TSTP}, caught |-> {CHLD, CONT, TSTP}, disps |-> {"restart"},
     masks |-> {{}, {CONT, TSTP}}, budget |-> 3]

\* Stops and continues of tasks that wait in a sigsuspend.
Suspended ==
    [ops |-> {"kill", "sigaction", "suspend"}, sigs |-> {CONT, STOP, USR1},
     caught |-> {USR1}, disps |-> {"eintr"}, masks |-> SUBSET {USR1}, budget |-> 3]

SmallLoads == {Handlers, Queue, JobControl, Suspended}
=============================================================================
