------------------------------- MODULE Signals -------------------------------
(***************************************************************************)
(* Signals and job control (src/src/kernel/signal.rs): posting, the mask   *)
(* and the dispositions, delivery at the end of a serviced call, stops and *)
(* continues, and the calls that wait for a signal or for a child's event. *)
(*                                                                         *)
(* A signal is its number.  The standard signals share one pending bit     *)
(* each; the real-time signal also has a queue, whose entries are numbered *)
(* in the order they were posted.  The tasks are processes, none of them   *)
(* the init of a pid namespace, all of one user.                           *)
(***************************************************************************)
EXTENDS Integers, Sequences, FiniteSetsExt

CONSTANTS Tids,      \* the tasks
          Parent,    \* the parent of each, 0 outside the model
          Sigs,      \* the signals posted
          QueueMax,  \* RLIMIT_SIGPENDING
          Smp        \* whether workers leave a stand-in in the table

ASSUME SignalsAssumption ==
    /\ Tids \subseteq Nat \ {0} /\ Parent \in [Tids -> Tids \cup {0}]
    /\ Sigs \subseteq 1..64 /\ QueueMax \in Nat /\ Smp \in BOOLEAN

VARIABLES table,  \* the signal part of each task's record in procs
          out,    \* the record a task is serviced with, NotOut when it is not
          hist    \* history: what happened to the signals of each task

KILL == 9
CHLD == 17
CONT == 18
STOP == 19
TSTP == 20
RT == 34
Stops == {STOP, TSTP}
AllSigs == Sigs \cup {CHLD}

NotOut == [run |-> "not out"]
NoCall == [op |-> "none"]
NoMask == {0}

\* ProcInfo::new, with the default disposition for every signal.
NewTask == [run |-> "run", pending |-> {}, rt |-> <<>>, blocked |-> {},
            disp |-> [s \in AllSigs |-> "dfl"],
            prev |-> NoMask,        \* sigsuspend_prev
            frames |-> <<>>,        \* the signal frames on the guest's stack
            call |-> NoCall,        \* the call to issue again
            parked |-> FALSE, continued |-> FALSE, stopReported |-> FALSE,
            served |-> "no",        \* out: the call of this step returned, or blocks
            had |-> {}, hadRt |-> 0]  \* out: out_pending and out_rt_lens

NewHist == [owed |-> {}, sent |-> 0, got |-> <<>>, dropped |-> {}, masks |-> <<{}>>,
            stops |-> 0, stopsTold |-> 0, conts |-> 0, contsTold |-> 0]

\* The tasks a scan of sh.procs meets.
Seen == {u \in Tids : Smp \/ out[u] = NotOut}

------------------------------------------------------------------------------
(* Posting.                                                                *)

IsDefaultIgnored(s) == s \in {CHLD, CONT}
Catches(p, s) == p.disp[s] \in {"eintr", "restart"}
Ignores(p, s) == s \notin {KILL, STOP} /\ (p.disp[s] = "ign" \/ (p.disp[s] = "dfl" /\ IsDefaultIgnored(s)))

\* ProcInfo::discards: the mask or the handler may change before it is unblocked.
Discards(p, inFlight, s) == ~inFlight /\ s \notin p.blocked /\ Ignores(p, s)

\* Raise, in a record that keeps its task parked.
RaiseParked(p, inFlight, s) ==
    IF Discards(p, inFlight, s) THEN p ELSE [p EXCEPT !.pending = @ \cup {s}]

\* ProcInfo::raise, and the unparking of a slot that was raised.
Raise(p, inFlight, s) ==
    IF Discards(p, inFlight, s) THEN p
    ELSE [p EXCEPT !.pending = @ \cup {s}, !.parked = FALSE]

\* ProcInfo::raise_with: entry n of the real-time queue goes with it.
RaiseWith(p, inFlight, s, n) ==
    IF s = RT /\ ~Discards(p, inFlight, s)
    THEN [Raise(p, inFlight, s) EXCEPT !.rt = Append(@, n)]
    ELSE Raise(p, inFlight, s)

Resumes(p, s) == s = CONT /\ p.run = "stop"

\* A stop leaves a pending SIGCONT pending.
ApplyContOnly(p, s) ==
    IF s # CONT THEN p
    ELSE IF p.run = "stop"
    THEN [p EXCEPT !.pending = @ \ Stops, !.run = "run", !.continued = TRUE,
                   !.stopReported = FALSE, !.parked = FALSE]
    ELSE [p EXCEPT !.pending = @ \ Stops]

\* apply_stop_cont
ApplyStopCont(p, s) ==
    CASE Resumes(p, s) -> [p EXCEPT !.pending = @ \ Stops, !.run = "run", !.continued = TRUE,
                                    !.stopReported = FALSE, !.parked = FALSE]
      [] s = CONT /\ ~Resumes(p, s) -> [p EXCEPT !.pending = @ \ Stops]
      [] s \in Stops -> [p EXCEPT !.pending = @ \ {CONT}]
      [] OTHER -> p

\* A signal without info, or with entry n of the queue, posted to a record.
Posted(p, inFlight, s, n) ==
    ApplyStopCont(IF n = 0 THEN Raise(p, inFlight, s) ELSE RaiseWith(p, inFlight, s, n), s)

\* The parent learns of a child's event: SIGCHLD, and a parked wait re-runs.
Informed(p, inFlight) == [Raise(p, inFlight, CHLD) EXCEPT !.parked = FALSE]

\* An ignored signal is owed only while it is blocked or its task in flight.  One
\* that the stand-in shows as pending already is no second signal.
Owes(p, inFlight, s) ==
    IF inFlight THEN {s} \ p.pending
    ELSE IF s \in p.blocked \/ ~Ignores(p, s) THEN {s} ELSE {}

\* What posting s to a record the history h belongs to adds to what its task is owed.
OwedPosted(h, p, inFlight, s) ==
    LET cancelled == IF s = CONT THEN Stops ELSE IF s \in Stops THEN {CONT} ELSE {}
    IN  [h EXCEPT !.owed = (@ \ cancelled) \cup Owes(p, inFlight, s),
                  !.conts = @ + (IF Resumes(p, s) THEN 1 ELSE 0)]

OwedChild(h, p, inFlight) ==
    [h EXCEPT !.owed = @ \cup Owes(p, inFlight, CHLD)]

------------------------------------------------------------------------------
(* Delivery: on the serviced record p and its history h.                   *)

Deliverable(p) == p.pending \ p.blocked
Actionable(p) == {s \in Deliverable(p) : ~Ignores(p, s)}

\* first_handled_signal
FirstHandled(p) == Actionable(p) # {} /\ Catches(p, Min(Actionable(p)))

\* The queue is dropped with an ignored real-time signal (drain_rt).
Drop(p, h, S) ==
    [me |-> [p EXCEPT !.pending = @ \ S, !.rt = IF RT \in S THEN <<>> ELSE @],
     h |-> [h EXCEPT !.owed = @ \ S, !.dropped = @ \cup (IF RT \in S THEN {p.rt[i] : i \in DOMAIN p.rt} ELSE {})]]

\* The entry queued last is taken first.
TakeLast(p, h, s) ==
    LET more == s = RT /\ Len(p.rt) > 1
        took == s = RT /\ p.rt # <<>>
    IN  [me |-> [p EXCEPT !.pending = IF more THEN @ ELSE @ \ {s},
                          !.rt = IF took THEN SubSeq(@, 1, Len(@) - 1) ELSE @],
         h |-> [h EXCEPT !.owed = IF more THEN @ ELSE @ \ {s},
                         !.got = IF took THEN Append(@, p.rt[Len(p.rt)]) ELSE @]]

\* take_siginfo: one entry of the queue; more of them keep the signal pending.
Take(p, h, s) ==
    LET more == s = RT /\ Len(p.rt) > 1
        took == s = RT /\ p.rt # <<>>
    IN  [me |-> [p EXCEPT !.pending = IF more THEN @ ELSE @ \ {s}, !.rt = IF took THEN Tail(@) ELSE @],
         h |-> [h EXCEPT !.owed = IF more THEN @ ELSE @ \ {s},
                         !.got = IF took THEN Append(@, Head(p.rt)) ELSE @]]

\* A handler returns to the mask of the sigsuspend it ended.
EnterHandlerSuspended(r, s, saved) ==
    [me |-> [r.me EXCEPT !.frames = <<[mask |-> r.me.blocked, call |-> saved]>> \o @,
                         !.blocked = @ \cup {s}, !.prev = NoMask],
     h |-> [r.h EXCEPT !.masks = <<r.me.blocked \cup {s}>> \o @]]

\* deliver_async_signal, push_sigframe, enter_handler_mask.
EnterHandler(r, s, saved) ==
    [me |-> [r.me EXCEPT
                !.frames = <<[mask |-> IF r.me.prev = NoMask THEN r.me.blocked ELSE r.me.prev,
                              call |-> saved]>> \o @,
                !.blocked = @ \cup {s}, !.prev = NoMask],
     h |-> [r.h EXCEPT !.masks = <<r.me.blocked \cup {s}>> \o @]]

StopsHere(r, s) ==
    [me |-> [r.me EXCEPT !.run = "stop", !.stopReported = FALSE, !.pending = @ \ {s, CONT}],
     h |-> [r.h EXCEPT !.owed = @ \ {s, CONT}, !.stops = @ + 1]]

\* die_of_signal
DiesOf(r, s) == [me |-> [r.me EXCEPT !.run = "dead"], h |-> [r.h EXCEPT !.owed = {}]]

\* deliver_pending_signals: the ignored ones are dropped up to the first that is
\* acted on, which ends the scan; without one a sigsuspend's mask is undone.
Deliver(p, h, saved) ==
    LET acts == Actionable(p)
        s == Min(acts)
        passed == {d \in Deliverable(p) : acts = {} \/ d < s}
        r == Drop(p, h, passed)
    IN  CASE p.run # "run" -> [me |-> p, h |-> h]
          [] p.run = "run" /\ acts = {} ->
                [me |-> IF p.prev = NoMask THEN r.me
                        ELSE [r.me EXCEPT !.blocked = p.prev, !.prev = NoMask],
                 h |-> r.h]
          [] p.run = "run" /\ acts # {} /\ s \in Stops /\ ~Catches(p, s) -> StopsHere(r, s)
          [] p.run = "run" /\ acts # {} /\ Catches(p, s) -> EnterHandler(Take(r.me, r.h, s), s, saved)
          [] OTHER -> DiesOf(r, s)

\* Kernel::service after the call c returned ret: a block with a handler to run
\* is restarted after it or ended with EINTR, and what is pending is delivered.
AfterCall(p, h, c, ret) ==
    LET interrupted == ret = "block" /\ FirstHandled(p)
        restarts == /\ interrupted /\ p.disp[Min(Actionable(p))] = "restart"
                    /\ c.op # "timedwait"
        blocks == ret = "block" /\ ~interrupted
    IN  Deliver([p EXCEPT !.call = IF blocks THEN c ELSE NoCall,
                         !.served = IF blocks THEN "blocks" ELSE "returned"], h,
                IF restarts THEN c ELSE NoCall)
=============================================================================
