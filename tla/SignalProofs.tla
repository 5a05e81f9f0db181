----------------------------- MODULE SignalProofs -----------------------------
(***************************************************************************)
(* On the serial scheduler, for any number of tasks, any family tree and   *)
(* any workload: no signal is lost or delivered twice, masks come back,    *)
(* stops and continues cancel, and a parked task has nothing to act on.    *)
(***************************************************************************)
EXTENDS SignalTasks, TLAPS, NaturalsInduction, WellFoundedInduction

------------------------------------------------------------------------------
(* Records and histories.                                                  *)

Masks == SUBSET AllSigs

\* What can be pending.
Posts == load.sigs \cup {CHLD}

SuspendCall == {c \in [op : {"suspend"}, mask : Masks] : "suspend" \in load.ops}
TimedwaitCall == [op : {"timedwait"}, set : Masks]
Wait4Call == [op |-> "wait4"]
Calls == SuspendCall \cup TimedwaitCall \cup {Wait4Call, NoCall}

Disps == {"dfl", "ign", "eintr", "restart"}

Frame == [mask : Masks, call : Calls]

Rec == [run : {"run", "stop", "dead", "gone"}, pending : SUBSET Posts, rt : Seq(Nat),
        blocked : Masks, disp : [AllSigs -> Disps], prev : Masks \cup {NoMask},
        frames : Seq(Frame), call : Calls, parked : BOOLEAN, continued : BOOLEAN,
        stopReported : BOOLEAN, served : {"no", "returned", "blocks"},
        had : SUBSET Posts, hadRt : Nat]

Hist == [owed : SUBSET AllSigs, sent : Nat, got : Seq(Nat), dropped : SUBSET Nat,
         masks : Seq(Masks), stops : Nat, stopsTold : Nat, conts : Nat, contsTold : Nat]

Lives(p) == p.run \in {"run", "stop"}

\* What is owed is pending.
Kept(p, h) == Lives(p) => h.owed \subseteq p.pending

\* No stop and no stopped task beside a pending SIGCONT.
Cancelled(p) == Lives(p) /\ CONT \in p.pending => p.run = "run" /\ p.pending \cap Stops = {}

\* An event that is still to be reported has not been.
Told(p, h) ==
    /\ h.stopsTold <= h.stops /\ h.contsTold <= h.conts
    /\ p.run = "stop" /\ ~p.stopReported => h.stopsTold < h.stops
    /\ p.continued => h.contsTold < h.conts

\* The numbers of q are increasing, and among 1..n.
Rising(q, n) ==
    /\ \A i \in 1..Len(q) : q[i] \in 1..n
    /\ \A i, j \in 1..Len(q) : i < j => q[i] < q[j]

In(n, q) == \E i \in 1..Len(q) : q[i] = n

\* Every entry posted was delivered, dropped or is queued, in this order.
Queued(p, h) ==
    /\ Rising(h.got, h.sent) /\ Rising(p.rt, h.sent)
    /\ \A i \in 1..Len(h.got), j \in 1..Len(p.rt) : h.got[i] < p.rt[j]
    /\ h.dropped \subseteq 1..h.sent
    /\ \A n \in 1..h.sent : In(n, h.got) \/ In(n, p.rt) \/ n \in h.dropped
    /\ p.rt # <<>> => RT \in p.pending

\* The masks to go back to are those the guest set, at every depth.
Masked(p, h) ==
    /\ Len(h.masks) = Len(p.frames) + 1
    /\ SuspendsUnstopped =>
        /\ \A i \in 1..Len(p.frames) : p.frames[i].mask = h.masks[i + 1]
        /\ h.masks[1] = IF p.prev = NoMask THEN p.blocked ELSE p.prev

Core(p, h) ==
    /\ p \in Rec /\ h \in Hist
    /\ Kept(p, h) /\ Cancelled(p) /\ Told(p, h) /\ Queued(p, h) /\ Masked(p, h)
    /\ p.prev # NoMask => "suspend" \in load.ops

\* Outside a call no sigsuspend is in progress, but of the dead.
Undone(p) == SuspendsUnstopped /\ p.prev # NoMask => ~Lives(p)

Sound(p, h) == Core(p, h) /\ Undone(p)

SignalInv ==
    /\ load \in Workloads
    /\ table \in [Tids -> Rec] /\ out \in [Tids -> Rec \cup {NotOut}] /\ hist \in [Tids -> Hist]
    /\ \A t, u \in Tids : InFlight(t) /\ InFlight(u) => t = u
    /\ \A t \in Tids : InFlight(t) /\ out[t].served = "no" => out[t].run = "run"
    /\ \A t \in Tids : Sound(Record(t), hist[t])

------------------------------------------------------------------------------
(* Parked tasks.                                                           *)

\* The call p is to issue again would block again.
Waits(p) ==
    LET mask == IF p.call.op = "suspend" THEN p.call.mask ELSE p.blocked
    IN  /\ \A s \in p.pending \ mask : Ignores(p, s)
        /\ p.call.op = "timedwait" => (p.pending \cap p.call.set) \subseteq {KILL, STOP}

Quiet(p) == Lives(p) => ~p.continued /\ (p.run = "stop" => p.stopReported)

\* The children of t have nothing to report.
ChildrenQuiet(t) == \A u \in Tids : Parent[u] = t => Quiet(Record(u))

Parks(t) == Waits(Record(t)) /\ (Record(t).call.op = "wait4" => ChildrenQuiet(t))

ParkInv ==
    SuspendsUnstopped => \A t \in Tids :
        /\ ~InFlight(t) /\ table[t].parked => Parks(t)
        /\ InFlight(t) => ~out[t].parked
        /\ InFlight(t) /\ out[t].run = "run" /\ out[t].served = "blocks" => Parks(t)
        /\ InFlight(t) /\ out[t].run # "run" => \A u \in Tids : u = Parent[t] => ~table[u].parked
        /\ InFlight(t) => ~table[t].parked
        /\ ~InFlight(t) => table[t].served = "no"

------------------------------------------------------------------------------
(* What the operators of FiniteSetsExt choose.                             *)

LEMMA LeastOf ==
    ASSUME NEW S, S \subseteq Nat, S # {}
    PROVE  Min(S) \in S /\ \A y \in S : Min(S) <= y
<1>1. \E x \in S : \A y \in S : ~(<<y, x>> \in OpToRel(<, Nat))
  BY NatLessThanWellFounded, WFMin, Zenon
<1>2. PICK x \in S : \A y \in S : ~(y < x)
  BY <1>1, Zenon DEF OpToRel
<1>3. \A y \in S : x <= y
  BY <1>2
<1> QED BY <1>3, Zenon DEF Min

LEMMA GreaterOf ==
    ASSUME NEW a \in Nat, NEW b \in Nat, a <= b
    PROVE  Max({a, b}) = b
<1>1. b \in {a, b} /\ \A y \in {a, b} : b >= y
  OBVIOUS
<1>2. \A x \in {a, b} : (\A y \in {a, b} : x >= y) => x = b
  OBVIOUS
<1>3. Max({a, b}) \in {a, b} /\ \A y \in {a, b} : Max({a, b}) >= y
  BY <1>1, Zenon DEF Max
<1> QED BY <1>2, <1>3, Zenon

------------------------------------------------------------------------------
(* Posting to a record.                                                    *)

USE SignalsAssumption, WorkloadsAssumption

\* Signals have numbers, and what is posted is one of them.
LEMMA Numbers ==
    ASSUME load \in Workloads
    PROVE  /\ AllSigs \subseteq Nat /\ 0 \notin AllSigs /\ Posts \subseteq AllSigs
           /\ CHLD \in Posts /\ CHLD \notin Stops /\ CHLD # CONT /\ CHLD # RT
           /\ CONT \notin Stops /\ RT \notin Stops /\ RT # CONT
BY DEF AllSigs, Posts, CHLD, CONT, RT, Stops, STOP, TSTP

\* The empty set and the members of Masks are masks, NoMask is none.
LEMMA NoMaskIsNone ==
    ASSUME load \in Workloads
    PROVE  NoMask \notin Masks
BY Numbers DEF NoMask, Masks

\* raise and raise_with.
Raised(p, s, n) == IF n = 0 THEN Raise(p, FALSE, s) ELSE RaiseWith(p, FALSE, s, n)

\* The pending set of p with s raised.
With(p, s) == IF Discards(p, FALSE, s) THEN p.pending ELSE p.pending \cup {s}

RaiseOf(q, p, s, n) ==
    /\ q \in Rec
    /\ q.run = p.run /\ q.blocked = p.blocked /\ q.disp = p.disp /\ q.prev = p.prev
    /\ q.frames = p.frames /\ q.call = p.call /\ q.continued = p.continued
    /\ q.stopReported = p.stopReported /\ q.served = p.served
    /\ q.pending = With(p, s)
    /\ Discards(p, FALSE, s) => q.parked = p.parked
    /\ ~Discards(p, FALSE, s) => q.parked = FALSE
    /\ n = 0 => q.rt = p.rt
    /\ n # 0 => q.rt = Append(p.rt, n)

LEMMA RaiseFacts ==
    ASSUME load \in Workloads, NEW p \in Rec, NEW s \in Posts, NEW n \in Nat,
           n # 0 => s = RT /\ ~Discards(p, FALSE, s)
    PROVE  RaiseOf(Raised(p, s, n), p, s, n)
<1> DEFINE q == Raised(p, s, n)
           S == p.pending \cup {s}
           Q == Append(p.rt, n)
<1>0. S \in SUBSET Posts /\ Q \in Seq(Nat)
  BY DEF Rec
<1>1. CASE Discards(p, FALSE, s)
  <2>1. q = p
    BY <1>1, Zenon DEF Raised, Raise
  <2> QED BY <1>1, <2>1, Zenon DEF RaiseOf, With
<1>2. CASE ~Discards(p, FALSE, s) /\ n = 0
  <2>1. q = [p EXCEPT !.pending = S, !.parked = FALSE] /\ S = With(p, s)
    BY <1>2 DEF Raised, Raise, With
  <2> HIDE DEF S, q
  <2>2. q \in Rec
    BY <1>0, <2>1, Zenon DEF Rec
  <2>3. RaiseOf(q, p, s, n)
    BY <1>2, <2>1, <2>2, ZenonT(60) DEF Rec, RaiseOf
  <2> QED BY <2>3 DEF q
<1>3. CASE ~Discards(p, FALSE, s) /\ n # 0
  <2>0. S = With(p, s)
    BY <1>3 DEF With
  <2>1. q = [p EXCEPT !.pending = S, !.parked = FALSE, !.rt = Q]
    <3> DEFINE m == Raise(p, FALSE, s)
    <3>1. m = [p EXCEPT !.pending = S, !.parked = FALSE]
      BY <1>3 DEF Raise
    <3>2. q = [m EXCEPT !.rt = Append(m.rt, n)]
      BY <1>3 DEF Raised, RaiseWith
    <3> HIDE DEF m, S, q
    <3>3. m.rt = p.rt
      BY <3>1 DEF Rec
    <3>4. q = [m EXCEPT !.rt = Q]
      BY <3>2, <3>3
    <3> HIDE DEF Q
    <3> QED BY <3>1, <3>4 DEF Rec
  <2> HIDE DEF S, Q, q
  <2>2. q \in Rec
    BY <1>0, <2>1, Zenon DEF Rec
  <2>3. /\ q.run = p.run /\ q.blocked = p.blocked /\ q.disp = p.disp /\ q.prev = p.prev
        /\ q.frames = p.frames /\ q.call = p.call /\ q.continued = p.continued
        /\ q.stopReported = p.stopReported /\ q.served = p.served
        /\ q.pending = S /\ q.parked = FALSE /\ q.rt = Q
    BY <2>1 DEF Rec
  <2>4. RaiseOf(q, p, s, n)
    BY <1>3, <2>0, <2>2, <2>3, Zenon DEF RaiseOf, Q
  <2> QED BY <2>4 DEF q
<1> QED BY <1>1, <1>2, <1>3, Zenon

\* post_signal on one record: raise or raise_with, then apply_stop_cont.
PostOf(q, p, s, n) ==
    /\ q \in Rec
    /\ q.blocked = p.blocked /\ q.disp = p.disp /\ q.prev = p.prev
    /\ q.frames = p.frames /\ q.call = p.call /\ q.served = p.served
    /\ s = CONT => q.pending = With(p, s) \ Stops
    /\ s \in Stops => q.pending = With(p, s) \ {CONT}
    /\ s # CONT /\ s \notin Stops => q.pending = With(p, s)
    /\ Resumes(p, s) => /\ q.run = "run" /\ q.continued = TRUE
                        /\ q.stopReported = FALSE /\ q.parked = FALSE
    /\ ~Resumes(p, s) => /\ q.run = p.run /\ q.continued = p.continued
                         /\ q.stopReported = p.stopReported
    /\ ~Resumes(p, s) /\ Discards(p, FALSE, s) => q.parked = p.parked
    /\ ~Discards(p, FALSE, s) => q.parked = FALSE
    /\ n = 0 => q.rt = p.rt
    /\ n # 0 => q.rt = Append(p.rt, n)

LEMMA PostedFacts ==
    ASSUME load \in Workloads, NEW p \in Rec, NEW s \in Posts, NEW n \in Nat,
           n # 0 => s = RT /\ ~Discards(p, FALSE, s)
    PROVE  PostOf(Posted(p, FALSE, s, n), p, s, n)
<1> DEFINE r == Raised(p, s, n)
           q == Posted(p, FALSE, s, n)
<1>1. RaiseOf(r, p, s, n)
  BY RaiseFacts, Zenon
<1>2. q = ApplyStopCont(r, s)
  BY Zenon DEF Posted, Raised
<1>3. CONT \notin Stops
  BY Numbers
<1> SUFFICES PostOf(q, p, s, n)
  BY Zenon
<1> HIDE DEF r, q
<1>4. CASE Resumes(r, s)
  <2> DEFINE S == r.pending \ Stops
  <2>1. q = [r EXCEPT !.pending = S, !.run = "run", !.continued = TRUE, !.stopReported = FALSE, !.parked = FALSE]
    BY <1>2, <1>3, <1>4 DEF ApplyStopCont, Resumes
  <2>2. S \in SUBSET Posts /\ s = CONT /\ Resumes(p, s) /\ S = With(p, s) \ Stops
    BY <1>1, <1>4 DEF Rec, Resumes, RaiseOf
  <2> HIDE DEF S
  <2>3. q \in Rec
    BY <1>1, <2>1, <2>2, ZenonT(60) DEF Rec, RaiseOf
  <2> QED BY <1>1, <1>3, <2>1, <2>2, <2>3 DEF Rec, RaiseOf, PostOf
<1>5. CASE s = CONT /\ ~Resumes(r, s)
  <2> DEFINE S == r.pending \ Stops
  <2>1. q = [r EXCEPT !.pending = S]
    BY <1>2, <1>3, <1>5 DEF ApplyStopCont
  <2>2. S \in SUBSET Posts /\ ~Resumes(p, s) /\ S = With(p, s) \ Stops
    BY <1>1, <1>5 DEF Rec, Resumes, RaiseOf
  <2> HIDE DEF S
  <2>3. q \in Rec
    BY <1>1, <2>1, <2>2, Zenon DEF Rec, RaiseOf
  <2> QED BY <1>1, <1>3, <1>5, <2>1, <2>2, <2>3, ZenonT(60) DEF Rec, RaiseOf, PostOf
<1>6. CASE s \in Stops
  <2> DEFINE S == r.pending \ {CONT}
  <2>1. q = [r EXCEPT !.pending = S]
    BY <1>2, <1>3, <1>6 DEF ApplyStopCont, Resumes
  <2>2. S \in SUBSET Posts /\ ~Resumes(p, s) /\ S = With(p, s) \ {CONT}
    BY <1>1, <1>3, <1>6 DEF Rec, Resumes, RaiseOf
  <2> HIDE DEF S
  <2>3. q \in Rec
    BY <1>1, <2>1, <2>2, Zenon DEF Rec, RaiseOf
  <2> QED BY <1>1, <1>3, <1>6, <2>1, <2>2, <2>3, ZenonT(60) DEF Rec, RaiseOf, PostOf
<1>7. CASE s # CONT /\ s \notin Stops
  <2>1. q = r /\ ~Resumes(p, s)
    BY <1>2, <1>7 DEF ApplyStopCont, Resumes
  <2> QED BY <1>1, <1>7, <2>1, Zenon DEF RaiseOf, PostOf
<1> QED BY <1>4, <1>5, <1>6, <1>7, Zenon

\* The history of a task s was posted to, with entry n of its queue.
PostHist(k, h, p, s, n) ==
    /\ k \in Hist
    /\ k.got = h.got /\ k.dropped = h.dropped /\ k.masks = h.masks
    /\ k.stops = h.stops /\ k.stopsTold = h.stopsTold /\ k.contsTold = h.contsTold
    /\ k.conts = h.conts + (IF Resumes(p, s) THEN 1 ELSE 0)
    /\ k.sent = IF n = 0 THEN h.sent ELSE n
    /\ s = CONT => k.owed \subseteq (h.owed \ Stops) \cup {s}
    /\ s \in Stops => k.owed \subseteq (h.owed \ {CONT}) \cup {s}
    /\ k.owed \subseteq h.owed \cup {s}
    /\ Discards(p, FALSE, s) => k.owed \subseteq h.owed
    /\ Discards(p, FALSE, s) /\ s = CONT => k.owed \subseteq h.owed \ Stops
    /\ Discards(p, FALSE, s) /\ s \in Stops => k.owed \subseteq h.owed \ {CONT}

OwedSent(h, p, s, n) == [OwedPosted(h, p, FALSE, s) EXCEPT !.sent = Max({@, n})]

LEMMA PostHistFacts ==
    ASSUME load \in Workloads, NEW p \in Rec, NEW h \in Hist, NEW s \in Posts, NEW n \in Nat,
           n = 0 \/ n = h.sent + 1
    PROVE  PostHist(OwedSent(h, p, s, n), h, p, s, n)
<1> DEFINE gone == IF s = CONT THEN Stops ELSE IF s \in Stops THEN {CONT} ELSE {}
           O == (h.owed \ gone) \cup Owes(p, FALSE, s)
           C == h.conts + (IF Resumes(p, s) THEN 1 ELSE 0)
           N == IF n = 0 THEN h.sent ELSE n
           k == OwedSent(h, p, s, n)
<1>1. h.sent \in Nat /\ h.conts \in Nat /\ h.owed \subseteq AllSigs
  BY DEF Hist
<1>2. Max({h.sent, n}) = N
  <2>1. CASE n = 0
    <3>1. Max({n, h.sent}) = h.sent
      BY <1>1, <2>1, GreaterOf
    <3>2. {n, h.sent} = {h.sent, n}
      OBVIOUS
    <3> QED BY <2>1, <3>1, <3>2, Zenon
  <2>2. CASE n # 0
    BY <1>1, <2>2, GreaterOf
  <2> QED BY <2>1, <2>2
<1>3. O \in SUBSET AllSigs /\ C \in Nat /\ N \in Nat
  <2>1. Owes(p, FALSE, s) \subseteq AllSigs
    BY Numbers DEF Owes
  <2>2. C \in Nat /\ N \in Nat
    BY <1>1
  <2> HIDE DEF C, N, gone
  <2> QED BY <1>1, <2>1, <2>2, Zenon
<1>4. k = [h EXCEPT !.owed = O, !.conts = C, !.sent = N]
  <2>1. OwedPosted(h, p, FALSE, s) = [h EXCEPT !.owed = O, !.conts = C]
    BY Zenon DEF OwedPosted
  <2> HIDE DEF O, C, N
  <2>2. OwedPosted(h, p, FALSE, s).sent = h.sent
    BY <2>1, Zenon DEF Hist
  <2>3. k = [OwedPosted(h, p, FALSE, s) EXCEPT !.sent = N]
    BY <1>2, <2>2, Zenon DEF OwedSent
  <2> HIDE DEF k
  <2> QED BY <2>1, <2>3, Zenon DEF Hist
<1>5. /\ s = CONT => O \subseteq (h.owed \ Stops) \cup {s}
      /\ s \in Stops => O \subseteq (h.owed \ {CONT}) \cup {s}
      /\ O \subseteq h.owed \cup {s}
  BY Numbers DEF Owes
<1>6. Discards(p, FALSE, s) => /\ O \subseteq h.owed
                               /\ s = CONT => O \subseteq h.owed \ Stops
                               /\ s \in Stops => O \subseteq h.owed \ {CONT}
  BY Numbers DEF Owes, Discards
<1>7. N = IF n = 0 THEN h.sent ELSE n
  OBVIOUS
<1>8. C = h.conts + (IF Resumes(p, s) THEN 1 ELSE 0)
  OBVIOUS
<1> SUFFICES PostHist(k, h, p, s, n)
  BY Zenon
<1> HIDE DEF O, C, N, k
<1>9. k \in Hist
  BY <1>3, <1>4, Zenon DEF Hist
<1>10. /\ k.got = h.got /\ k.dropped = h.dropped /\ k.masks = h.masks
       /\ k.stops = h.stops /\ k.stopsTold = h.stopsTold /\ k.contsTold = h.contsTold
       /\ k.conts = C /\ k.sent = N /\ k.owed = O
  BY <1>4 DEF Hist
<1> QED BY <1>5, <1>6, <1>7, <1>8, <1>9, <1>10, Zenon DEF PostHist

\* The next entry is the greatest, and goes last.
LEMMA AppendRises ==
    ASSUME NEW q \in Seq(Nat), NEW m \in Nat, Rising(q, m)
    PROVE  /\ Rising(Append(q, m + 1), m + 1)
           /\ \A n \in Nat : In(n, q) => In(n, Append(q, m + 1))
           /\ In(m + 1, Append(q, m + 1))
<1> DEFINE r == Append(q, m + 1)
<1>1. /\ r \in Seq(Nat) /\ Len(r) = Len(q) + 1 /\ Len(q) \in Nat /\ r[Len(q) + 1] = m + 1
      /\ \A i \in 1..Len(q) : r[i] = q[i]
  OBVIOUS
<1>2. \A i \in 1..Len(q) : q[i] \in 1..m
  BY DEF Rising
<1> HIDE DEF r
<1>3. \A i \in 1..Len(r) : (i \in 1..Len(q) /\ r[i] = q[i]) \/ (i = Len(q) + 1 /\ r[i] = m + 1)
  BY <1>1, SMTT(60)
<1>4. \A i \in 1..Len(r) : r[i] \in 1..(m + 1)
  BY <1>2, <1>3, SMTT(60)
<1>5. \A i, j \in 1..Len(r) : i < j => r[i] < r[j]
  <2> SUFFICES ASSUME NEW i \in 1..Len(r), NEW j \in 1..Len(r), i < j PROVE r[i] < r[j]
    OBVIOUS
  <2>1. i \in 1..Len(q) /\ r[i] = q[i]
    BY <1>1, <1>3, SMTT(60)
  <2>2. CASE j \in 1..Len(q) /\ r[j] = q[j]
    BY <2>1, <2>2 DEF Rising
  <2>3. CASE j = Len(q) + 1 /\ r[j] = m + 1
    BY <1>2, <2>1, <2>3, SMTT(60)
  <2> QED BY <1>3, <2>2, <2>3
<1>6. \A n \in Nat : In(n, q) => In(n, r)
  BY <1>1, SMTT(60) DEF In
<1>7. In(m + 1, r)
  BY <1>1 DEF In
<1> QED BY <1>4, <1>5, <1>6, <1>7, Zenon DEF Rising, r

LEMMA Widens ==
    ASSUME NEW q \in Seq(Nat), NEW m \in Nat, Rising(q, m)
    PROVE  Rising(q, m + 1)
BY DEF Rising

\* A post of s, without an entry or with the next one.
LEMMA PostedQueued ==
    ASSUME load \in Workloads, NEW p \in Rec, NEW h \in Hist, NEW s \in Posts, NEW n \in Nat,
           NEW q, NEW k, PostOf(q, p, s, n), PostHist(k, h, p, s, n), Queued(p, h),
           n = 0 \/ (s = RT /\ ~Discards(p, FALSE, s) /\ n = h.sent + 1)
    PROVE  Queued(q, k)
<1>0. p.rt \in Seq(Nat) /\ h.got \in Seq(Nat) /\ h.sent \in Nat
  BY DEF Rec, Hist
<1>1. q.rt # <<>> => RT \in q.pending
  <2>1. RT \in p.pending => RT \in q.pending
    BY Numbers, ZenonT(60) DEF PostOf, With
  <2>2. n # 0 => RT \in q.pending
    BY Numbers, ZenonT(60) DEF PostOf, With
  <2> QED BY <2>1, <2>2 DEF Queued, PostOf
<1>2. CASE n = 0
  <2>1. q.rt = p.rt /\ k.sent = h.sent /\ k.got = h.got /\ k.dropped = h.dropped
    BY <1>2 DEF PostOf, PostHist
  <2> QED BY <1>1, <2>1, SMTT(60) DEF Queued
<1>3. CASE n # 0
  <2>1. q.rt = Append(p.rt, h.sent + 1) /\ k.sent = h.sent + 1 /\ k.got = h.got /\ k.dropped = h.dropped
    BY <1>3, Zenon DEF PostOf, PostHist
  <2>2. Rising(p.rt, h.sent) /\ Rising(h.got, h.sent)
    BY DEF Queued
  <2>3. Rising(q.rt, k.sent) /\ (\A m \in Nat : In(m, p.rt) => In(m, q.rt)) /\ In(h.sent + 1, q.rt)
    BY <1>0, <2>1, <2>2, AppendRises
  <2>4. Rising(k.got, k.sent)
    BY <1>0, <2>1, <2>2, Widens, SMTT(60)
  <2>5. \A i \in 1..Len(k.got), j \in 1..Len(q.rt) : k.got[i] < q.rt[j]
    <3> SUFFICES ASSUME NEW i \in 1..Len(h.got), NEW j \in 1..Len(q.rt) PROVE h.got[i] < q.rt[j]
      BY <2>1
    <3>1. h.got[i] \in 1..h.sent
      BY <2>2 DEF Rising
    <3>2. (j \in 1..Len(p.rt) /\ q.rt[j] = p.rt[j]) \/ q.rt[j] = h.sent + 1
      BY <1>0, <2>1, SMTT(60)
    <3>3. j \in 1..Len(p.rt) => h.got[i] < p.rt[j]
      BY DEF Queued
    <3>4. h.got[i] < h.sent + 1
      BY <1>0, <3>1, SMTT(60)
    <3> QED BY <3>2, <3>3, <3>4, Zenon
  <2>6. k.dropped \subseteq 1..k.sent
    BY <1>0, <2>1 DEF Queued
  <2>7. \A m \in 1..k.sent : In(m, k.got) \/ In(m, q.rt) \/ m \in k.dropped
    <3> SUFFICES ASSUME NEW m \in 1..(h.sent + 1) PROVE In(m, h.got) \/ In(m, q.rt) \/ m \in h.dropped
      BY <2>1
    <3>1. CASE m = h.sent + 1
      BY <2>3, <3>1
    <3>2. CASE m \in 1..h.sent
      BY <2>3, <3>2 DEF Queued
    <3>3. m = h.sent + 1 \/ m \in 1..h.sent
      BY <1>0
    <3> QED BY <3>1, <3>2, <3>3, Zenon
  <2> QED BY <1>1, <2>3, <2>4, <2>5, <2>6, <2>7, Zenon DEF Queued
<1> QED BY <1>2, <1>3

\* A post keeps a record sound.
LEMMA PostedSound ==
    ASSUME load \in Workloads, NEW p, NEW h, Sound(p, h), NEW s \in Posts, NEW n \in Nat,
           n = 0 \/ (s = RT /\ ~Discards(p, FALSE, s) /\ n = h.sent + 1)
    PROVE  /\ Sound(Posted(p, FALSE, s, n), OwedSent(h, p, s, n))
           /\ PostOf(Posted(p, FALSE, s, n), p, s, n)
<1> DEFINE q == Posted(p, FALSE, s, n)
           k == OwedSent(h, p, s, n)
<1>0. p \in Rec /\ h \in Hist /\ Core(p, h)
  BY DEF Sound, Core
<1>1. PostOf(q, p, s, n)
  BY <1>0, PostedFacts, Zenon
<1>2. PostHist(k, h, p, s, n)
  BY <1>0, PostHistFacts, Zenon
<1>3. Queued(q, k)
  BY <1>0, <1>1, <1>2, PostedQueued, Zenon DEF Core
<1> SUFFICES Sound(q, k)
  BY <1>1, Zenon
<1> HIDE DEF q, k
<1>4. q \in Rec /\ k \in Hist /\ p.pending \subseteq Posts /\ h.owed \subseteq AllSigs
  BY <1>0, <1>1, <1>2, Zenon DEF PostOf, PostHist, Rec, Hist
<1>5. Lives(q) <=> Lives(p)
  BY <1>1 DEF PostOf, Lives, Resumes
<1>6. Kept(q, k)
  <2> SUFFICES ASSUME Lives(p) PROVE k.owed \subseteq q.pending
    BY <1>5 DEF Kept
  <2>1. h.owed \subseteq p.pending
    BY <1>0 DEF Core, Kept
  <2>2. CASE Discards(p, FALSE, s)
    <3>1. With(p, s) = p.pending
      BY <2>2, Zenon DEF With
    <3> QED BY <1>1, <1>2, <2>1, <2>2, <3>1, Numbers DEF PostOf, PostHist
  <2>3. CASE ~Discards(p, FALSE, s)
    <3>1. With(p, s) = p.pending \cup {s}
      BY <2>3 DEF With
    <3> QED BY <1>1, <1>2, <2>1, <2>3, <3>1, Numbers DEF PostOf, PostHist
  <2> QED BY <2>2, <2>3, Zenon
<1>7. Cancelled(q)
  <2> SUFFICES ASSUME Lives(p), CONT \in q.pending PROVE q.run = "run" /\ q.pending \cap Stops = {}
    BY <1>5 DEF Cancelled
  <2>1. CASE s = CONT
    BY <1>1, <2>1, Numbers DEF PostOf, Resumes, Lives
  <2>2. CASE s \in Stops
    BY <1>1, <2>2 DEF PostOf
  <2>3. CASE s # CONT /\ s \notin Stops
    <3>0. q.pending \subseteq p.pending \cup {s} /\ q.run = p.run
      <4>1. q.pending = With(p, s) /\ q.run = p.run
        BY <1>1, <2>3 DEF PostOf, Resumes
      <4>2. With(p, s) \subseteq p.pending \cup {s}
        BY Zenon DEF With
      <4> QED BY <4>1, <4>2
    <3>1. CONT \in p.pending
      BY <2>3, <3>0
    <3>2. p.run = "run" /\ p.pending \cap Stops = {}
      BY <1>0, <3>1 DEF Core, Cancelled
    <3> QED BY <2>3, <3>0, <3>2
  <2> QED BY <2>1, <2>2, <2>3
<1>8. Told(q, k)
  <2>1. Told(p, h) /\ h.conts \in Nat /\ h.contsTold \in Nat /\ h.stops \in Nat /\ h.stopsTold \in Nat
    BY <1>0 DEF Core, Hist
  <2>2. CASE Resumes(p, s)
    BY <1>1, <1>2, <2>1, <2>2, SMTT(60) DEF Told, PostOf, PostHist
  <2>3. CASE ~Resumes(p, s)
    BY <1>1, <1>2, <2>1, <2>3 DEF Told, PostOf, PostHist
  <2> QED BY <2>2, <2>3
<1>9. q.prev = p.prev /\ q.blocked = p.blocked /\ q.frames = p.frames /\ k.masks = h.masks
  BY <1>1, <1>2, Zenon DEF PostOf, PostHist
<1>10. Masked(q, k)
  BY <1>0, <1>9, Zenon DEF Core, Masked
<1>11. Undone(q) /\ (q.prev # NoMask => "suspend" \in load.ops)
  BY <1>0, <1>5, <1>9 DEF Core, Undone, Sound
<1> QED BY <1>3, <1>4, <1>6, <1>7, <1>8, <1>10, <1>11, ZenonT(60) DEF Sound, Core

\* notify_parent_stopcont: SIGCHLD for the parent, parked or not.
LEMMA ChildSound ==
    ASSUME load \in Workloads, NEW p, NEW h, Sound(p, h)
    PROVE  /\ Sound(Raise(p, FALSE, CHLD), OwedChild(h, p, FALSE))
           /\ RaiseOf(Raise(p, FALSE, CHLD), p, CHLD, 0)
           /\ Sound(Informed(p, FALSE), OwedChild(h, p, FALSE))
           /\ Informed(p, FALSE).parked = FALSE
           /\ LET q == Informed(p, FALSE)
              IN  /\ q.run = p.run /\ q.continued = p.continued /\ q.stopReported = p.stopReported
                  /\ q.served = p.served
<1> DEFINE q == Raise(p, FALSE, CHLD)
           i == Informed(p, FALSE)
           k == OwedChild(h, p, FALSE)
           O == h.owed \cup Owes(p, FALSE, CHLD)
<1>0. p \in Rec /\ h \in Hist /\ Core(p, h)
  BY DEF Sound, Core
<1>1. RaiseOf(q, p, CHLD, 0)
  <2> DEFINE z == 0
  <2>1. z \in Nat /\ CHLD \in Posts /\ (z # 0 => CHLD = RT /\ ~Discards(p, FALSE, CHLD))
    BY Numbers, SMTT(60)
  <2> HIDE DEF z
  <2>2. RaiseOf(Raised(p, CHLD, z), p, CHLD, z)
    BY <1>0, <2>1, RaiseFacts, Zenon
  <2> QED BY <2>2, Zenon DEF z, Raised
<1>2. O \in SUBSET AllSigs /\ O \subseteq h.owed \cup {CHLD} /\ (Discards(p, FALSE, CHLD) => O \subseteq h.owed)
  BY <1>0, Numbers DEF Owes, Hist, Discards
<1>3. k = [h EXCEPT !.owed = O]
  BY Zenon DEF OwedChild
<1>4. i = [q EXCEPT !.parked = FALSE]
  BY Zenon DEF Informed
<1> SUFFICES /\ Sound(q, k) /\ Sound(i, k) /\ i.parked = FALSE /\ i.run = q.run
             /\ i.continued = q.continued /\ i.stopReported = q.stopReported /\ i.served = q.served
  BY <1>1, Zenon DEF RaiseOf
<1> HIDE DEF q, i, k, O
<1>5. /\ k \in Hist /\ k.owed = O /\ k.sent = h.sent /\ k.got = h.got /\ k.dropped = h.dropped
      /\ k.masks = h.masks /\ k.stops = h.stops /\ k.stopsTold = h.stopsTold
      /\ k.conts = h.conts /\ k.contsTold = h.contsTold
  BY <1>0, <1>2, <1>3, Zenon DEF Hist
<1>6. /\ q \in Rec /\ q.run = p.run /\ q.blocked = p.blocked /\ q.prev = p.prev /\ q.frames = p.frames
      /\ q.continued = p.continued /\ q.stopReported = p.stopReported
      /\ q.pending = With(p, CHLD) /\ q.rt = p.rt
  BY <1>1 DEF RaiseOf
<1>7. /\ i \in Rec /\ i.run = q.run /\ i.blocked = q.blocked /\ i.prev = q.prev /\ i.frames = q.frames
      /\ i.continued = q.continued /\ i.stopReported = q.stopReported
      /\ i.pending = q.pending /\ i.rt = q.rt /\ i.parked = FALSE /\ i.served = q.served
  BY <1>4, <1>6, Zenon DEF Rec
<1>8. p.pending \subseteq q.pending /\ q.pending \subseteq p.pending \cup {CHLD}
      /\ (~Discards(p, FALSE, CHLD) => CHLD \in q.pending)
  BY <1>6, Zenon DEF With
<1>9. Sound(q, k)
  <2>1. Kept(q, k)
    BY <1>0, <1>2, <1>5, <1>6, <1>8, Zenon DEF Core, Kept, Lives
  <2>2. Cancelled(q)
    BY <1>0, <1>6, <1>8, Numbers DEF Core, Cancelled, Lives
  <2>3. Told(q, k)
    BY <1>0, <1>5, <1>6, Zenon DEF Core, Told
  <2>4. Queued(q, k)
    BY <1>0, <1>5, <1>6, <1>8, Zenon DEF Core, Queued
  <2>5. Masked(q, k)
    BY <1>0, <1>5, <1>6 DEF Core, Masked
  <2>6. Undone(q) /\ (q.prev # NoMask => "suspend" \in load.ops)
    BY <1>0, <1>6, Zenon DEF Core, Undone, Sound, Lives
  <2> QED BY <1>5, <1>6, <2>1, <2>2, <2>3, <2>4, <2>5, <2>6, Zenon DEF Sound, Core
<1>10. Sound(i, k)
  <2>1. Kept(i, k) /\ Cancelled(i) /\ Told(i, k)
    BY <1>7, <1>9, Zenon DEF Sound, Core, Kept, Cancelled, Told, Lives
  <2>2. Queued(i, k)
    BY <1>7, <1>9, Zenon DEF Sound, Core, Queued
  <2>3. Masked(i, k) /\ Undone(i) /\ (i.prev # NoMask => "suspend" \in load.ops)
    BY <1>7, <1>9 DEF Sound, Core, Masked, Undone, Lives
  <2> QED BY <1>5, <1>7, <2>1, <2>2, <2>3, Zenon DEF Sound, Core
<1> QED BY <1>7, <1>9, <1>10

------------------------------------------------------------------------------
(* Delivery.                                                               *)

\* What taking and dropping signals leaves alone.
SameBut(q, p) ==
    /\ q.run = p.run /\ q.blocked = p.blocked /\ q.disp = p.disp /\ q.prev = p.prev
    /\ q.frames = p.frames /\ q.call = p.call /\ q.parked = p.parked /\ q.served = p.served
    /\ q.continued = p.continued /\ q.stopReported = p.stopReported

Pending(p, S, Q) == [p EXCEPT !.pending = S, !.rt = Q]

PendingOf(q, p, S, Q) == q \in Rec /\ q.pending = S /\ q.rt = Q /\ SameBut(q, p)

LEMMA PendingRt ==
    ASSUME NEW p \in Rec, NEW S \in SUBSET Posts, NEW Q \in Seq(Nat)
    PROVE  PendingOf(Pending(p, S, Q), p, S, Q)
<1>1. Pending(p, S, Q) \in Rec
  BY Zenon DEF Rec, Pending
<1>2. Pending(p, S, Q).pending = S /\ Pending(p, S, Q).rt = Q
  BY DEF Rec, Pending
<1>3. SameBut(Pending(p, S, Q), p)
  BY DEF Rec, SameBut, Pending
<1> QED BY <1>1, <1>2, <1>3, Zenon DEF PendingOf

\* Kept, Cancelled, Told and Masked of a record with fewer signals pending.
LEMMA FewerPending ==
    ASSUME load \in Workloads, NEW p, NEW h, Core(p, h), NEW q \in Rec, NEW k \in Hist, NEW S,
           SameBut(q, p), q.pending = p.pending \ S, k.owed = h.owed \ S,
           k.masks = h.masks, k.stops = h.stops, k.stopsTold = h.stopsTold,
           k.conts = h.conts, k.contsTold = h.contsTold, Queued(q, k)
    PROVE  Core(q, k)
<1>1. Kept(q, k)
  BY DEF Core, Kept, Lives, SameBut
<1>2. Cancelled(q)
  BY DEF Core, Cancelled, Lives, SameBut
<1>3. Told(q, k)
  BY SMTT(60) DEF Core, Told, SameBut
<1>4. Masked(q, k)
  BY DEF Core, Masked, SameBut
<1>5. q.prev # NoMask => "suspend" \in load.ops
  BY SMTT(60) DEF Core, SameBut
<1> QED BY <1>1, <1>2, <1>3, <1>4, <1>5, ZenonT(60) DEF Core

\* drain_rt: the ignored signals S are dropped, with the queue of a real-time one.
LEMMA DropCore ==
    ASSUME load \in Workloads, NEW p, NEW h, Core(p, h), NEW S
    PROVE  LET r == Drop(p, h, S)
           IN  Core(r.me, r.h) /\ SameBut(r.me, p) /\ r.me.pending = p.pending \ S
<1> DEFINE P == p.pending \ S
           Q == IF RT \in S THEN <<>> ELSE p.rt
           O == h.owed \ S
           D == h.dropped \cup (IF RT \in S THEN {p.rt[i] : i \in DOMAIN p.rt} ELSE {})
           q == [p EXCEPT !.pending = P, !.rt = Q]
           k == [h EXCEPT !.owed = O, !.dropped = D]
<1>0. p \in Rec /\ h \in Hist /\ p.rt \in Seq(Nat) /\ h.sent \in Nat /\ Queued(p, h)
  BY DEF Core, Rec, Hist
<1>1. Drop(p, h, S).me = q /\ Drop(p, h, S).h = k
  BY DEF Drop
<1>2. P \in SUBSET Posts /\ Q \in Seq(Nat) /\ O \in SUBSET AllSigs
  BY <1>0 DEF Rec, Hist
<1>3. D \in SUBSET Nat /\ D \subseteq 1..h.sent
  <2>1. h.dropped \subseteq 1..h.sent
    BY <1>0 DEF Queued
  <2>2. {p.rt[i] : i \in DOMAIN p.rt} \subseteq 1..h.sent
    BY <1>0, SMTT(60) DEF Queued, Rising
  <2>3. D \subseteq 1..h.sent
    BY <2>1, <2>2
  <2> HIDE DEF D
  <2> QED BY <1>0, <2>3
<1>4. /\ RT \in S => Q = <<>> /\ D = h.dropped \cup {p.rt[i] : i \in DOMAIN p.rt}
      /\ RT \notin S => Q = p.rt /\ D = h.dropped
  OBVIOUS
<1> SUFFICES Core(q, k) /\ SameBut(q, p) /\ q.pending = P
  BY <1>1
<1> HIDE DEF q, k, Q, D, O, P
<1>5. q \in Rec /\ q.pending = P /\ q.rt = Q /\ SameBut(q, p)
  <2>1. q = Pending(p, P, Q)
    BY DEF q, Pending
  <2>2. PendingOf(Pending(p, P, Q), p, P, Q)
    BY <1>0, <1>2, PendingRt
  <2> QED BY <2>1, <2>2, Zenon DEF PendingOf
<1>6. /\ k \in Hist /\ k.owed = O /\ k.dropped = D /\ k.got = h.got /\ k.sent = h.sent
      /\ k.masks = h.masks /\ k.stops = h.stops /\ k.stopsTold = h.stopsTold
      /\ k.conts = h.conts /\ k.contsTold = h.contsTold
  BY <1>0, <1>2, <1>3, Zenon DEF k, Hist
<1>7. Queued(q, k)
  <2>1. CASE RT \in S
    <3>1. q.rt = <<>> /\ k.dropped = h.dropped \cup {p.rt[i] : i \in DOMAIN p.rt}
      BY <1>4, <1>5, <1>6, <2>1, Zenon
    <3>2. Rising(q.rt, k.sent) /\ Len(q.rt) = 0
      BY <3>1 DEF Rising
    <3>3. \A n \in 1..k.sent : In(n, k.got) \/ n \in k.dropped
      <4> SUFFICES ASSUME NEW n \in 1..h.sent PROVE In(n, h.got) \/ n \in k.dropped
        BY <1>6
      <4>1. CASE In(n, p.rt)
        BY <1>0, <3>1, <4>1, SMTT(60) DEF In
      <4> QED BY <1>0, <3>1, <4>1, SMTT(60) DEF Queued
    <3>4. k.dropped \subseteq 1..k.sent /\ Rising(k.got, k.sent)
      BY <1>0, <1>3, <1>6, Zenon DEF Queued
    <3> QED BY <3>1, <3>2, <3>3, <3>4 DEF Queued
  <2>2. CASE RT \notin S
    <3>1. q.rt = p.rt /\ k.dropped = h.dropped /\ (RT \in p.pending => RT \in q.pending)
      BY <1>4, <1>5, <1>6, <2>2, Zenon DEF P
    <3> QED BY <1>0, <1>6, <3>1, Zenon DEF Queued
  <2> QED BY <2>1, <2>2
<1>8. Core(q, k)
  BY <1>5, <1>6, <1>7, FewerPending, SMTT(60) DEF P, O
<1> QED BY <1>5, <1>8, Zenon

\* take_siginfo: the first entry of a rising queue.
Below(g, q) == \A i \in 1..Len(g), j \in 1..Len(q) : g[i] < q[j]

LEMMA HeadTaken ==
    ASSUME NEW q \in Seq(Nat), NEW g \in Seq(Nat), NEW m \in Nat, q # <<>>,
           Rising(q, m), Rising(g, m), Below(g, q)
    PROVE  /\ Rising(Tail(q), m) /\ Rising(Append(g, Head(q)), m)
           /\ Below(Append(g, Head(q)), Tail(q))
           /\ \A n \in Nat : In(n, g) \/ In(n, q) => In(n, Append(g, Head(q))) \/ In(n, Tail(q))
<1> DEFINE t == Tail(q)
           a == Append(g, Head(q))
<1>1. /\ Len(q) \in Nat /\ Len(q) >= 1 /\ Len(t) = Len(q) - 1 /\ Head(q) = q[1]
      /\ \A i \in 1..Len(t) : t[i] = q[i + 1]
  OBVIOUS
<1>2. /\ Len(g) \in Nat /\ Len(a) = Len(g) + 1 /\ a[Len(g) + 1] = q[1]
      /\ \A i \in 1..Len(g) : a[i] = g[i]
  BY <1>1
<1>3. /\ \A i \in 1..Len(q) : q[i] \in 1..m
      /\ \A i, j \in 1..Len(q) : i < j => q[i] < q[j]
      /\ \A i \in 1..Len(g) : g[i] \in 1..m
      /\ \A i, j \in 1..Len(g) : i < j => g[i] < g[j]
  BY DEF Rising
<1>0. \A i \in 1..Len(g), j \in 1..Len(q) : g[i] < q[j]
  BY DEF Below
<1> SUFFICES /\ Rising(t, m) /\ Rising(a, m)
             /\ \A i \in 1..Len(a), j \in 1..Len(t) : a[i] < t[j]
             /\ \A n \in Nat : In(n, g) \/ In(n, q) => In(n, a) \/ In(n, t)
  BY DEF Below
<1> HIDE DEF t, a
<1>4. \A i \in 1..Len(a) : (i \in 1..Len(g) /\ a[i] = g[i]) \/ (i = Len(g) + 1 /\ a[i] = q[1])
  BY <1>2, SMTT(60)
<1>5. \A i \in 1..Len(t) : i + 1 \in 1..Len(q) /\ t[i] = q[i + 1]
  <2>1. \A i \in 1..(Len(q) - 1) : i + 1 \in 1..Len(q)
    BY <1>1, SMTT(60)
  <2> QED BY <1>1, <2>1
<1>6. 1 \in 1..Len(q) /\ q[1] \in 1..m
  BY <1>1, <1>3, SMTT(60)
<1>7. Rising(t, m)
  <2>1. \A i \in 1..Len(t) : t[i] \in 1..m
    BY <1>3, <1>5, Zenon
  <2>2. \A i, j \in 1..Len(t) : i < j => t[i] < t[j]
    <3> SUFFICES ASSUME NEW i \in 1..Len(t), NEW j \in 1..Len(t), i < j PROVE t[i] < t[j]
      OBVIOUS
    <3>1. i + 1 < j + 1 /\ i + 1 \in 1..Len(q) /\ j + 1 \in 1..Len(q)
      BY <1>5
    <3> QED BY <1>3, <1>5, <3>1
  <2> QED BY <2>1, <2>2 DEF Rising
<1>8. Rising(a, m)
  <2>1. \A i \in 1..Len(a) : a[i] \in 1..m
    BY <1>3, <1>4, <1>6, Zenon
  <2>2. \A i, j \in 1..Len(a) : i < j => a[i] < a[j]
    <3> SUFFICES ASSUME NEW i \in 1..Len(a), NEW j \in 1..Len(a), i < j PROVE a[i] < a[j]
      OBVIOUS
    <3>1. i \in 1..Len(g) /\ a[i] = g[i]
      BY <1>2, <1>4, SMTT(60)
    <3>2. CASE j \in 1..Len(g) /\ a[j] = g[j]
      BY <1>3, <3>1, <3>2, ZenonT(60)
    <3>3. CASE j = Len(g) + 1 /\ a[j] = q[1]
      BY <1>0, <1>6, <3>1, <3>3, ZenonT(60)
    <3> QED BY <1>4, <3>2, <3>3, SMTT(60)
  <2> QED BY <2>1, <2>2 DEF Rising
<1>9. ASSUME NEW i \in 1..Len(a), NEW j \in 1..Len(t) PROVE a[i] < t[j]
  <2>1. j + 1 \in 1..Len(q) /\ t[j] = q[j + 1] /\ 1 < j + 1
    BY <1>1, <1>5
  <2>2. CASE i \in 1..Len(g) /\ a[i] = g[i]
    BY <1>0, <2>1, <2>2, Zenon
  <2>3. CASE a[i] = q[1]
    BY <1>3, <1>6, <2>1, <2>3, ZenonT(60)
  <2> QED BY <1>4, <2>2, <2>3, SMTT(60)
<1>10. ASSUME NEW n \in Nat, In(n, g) \/ In(n, q) PROVE In(n, a) \/ In(n, t)
  <2>1. CASE In(n, g)
    BY <1>2, <2>1 DEF In
  <2>2. CASE In(n, q)
    <3>1. PICK i \in 1..Len(q) : q[i] = n
      BY <2>2 DEF In
    <3>2. CASE i = 1
      BY <1>2, <3>1, <3>2 DEF In
    <3>3. CASE i # 1
      <4>1. i - 1 \in 1..Len(t) /\ t[i - 1] = n
        BY <1>1, <3>1, <3>3, SMTT(60)
      <4> QED BY <4>1, SMTT(60) DEF In
    <3> QED BY <3>2, <3>3, SMTT(60)
  <2> QED BY <1>10, <2>1, <2>2, ZenonT(60)
<1> QED BY <1>7, <1>8, <1>9, <1>10, Zenon

LEMMA TakeCore ==
    ASSUME load \in Workloads, NEW p, NEW h, Core(p, h), NEW s \in Posts
    PROVE  LET r == Take(p, h, s)
           IN  /\ Core(r.me, r.h) /\ SameBut(r.me, p)
               /\ r.me.pending \subseteq p.pending
<1> DEFINE more == s = RT /\ Len(p.rt) > 1
           took == s = RT /\ p.rt # <<>>
           S == IF more THEN {} ELSE {s}
           P == IF more THEN p.pending ELSE p.pending \ {s}
           Q == IF took THEN Tail(p.rt) ELSE p.rt
           O == IF more THEN h.owed ELSE h.owed \ {s}
           G == IF took THEN Append(h.got, Head(p.rt)) ELSE h.got
           q == [p EXCEPT !.pending = P, !.rt = Q]
           k == [h EXCEPT !.owed = O, !.got = G]
<1>0. p \in Rec /\ h \in Hist /\ p.rt \in Seq(Nat) /\ h.sent \in Nat /\ h.got \in Seq(Nat) /\ Queued(p, h)
  BY Zenon DEF Core, Rec, Hist
<1>1. Take(p, h, s).me = q /\ Take(p, h, s).h = k
  BY DEF Take
<1>2. P \in SUBSET Posts /\ P = p.pending \ S
  BY <1>0 DEF Rec
<1>3. O \in SUBSET AllSigs /\ O = h.owed \ S
  BY <1>0 DEF Hist
<1>4. Q \in Seq(Nat) /\ G \in Seq(Nat)
  BY <1>0
<1>5. /\ took => Q = Tail(p.rt) /\ G = Append(h.got, Head(p.rt))
      /\ ~took => Q = p.rt /\ G = h.got
  OBVIOUS
<1>6. Q # <<>> => RT \notin S
  <2>1. CASE took
    <3>1. Len(Tail(p.rt)) = Len(p.rt) - 1 /\ Len(p.rt) \in Nat
      BY <1>0, <2>1, SMTT(60)
    <3>2. Q # <<>> => Len(p.rt) > 1
      BY <1>0, <1>5, <2>1, <3>1, SMTT(60)
    <3> QED BY <2>1, <3>2
  <2>2. CASE ~took
    BY <1>5, <2>2
  <2> QED BY <2>1, <2>2
<1> SUFFICES Core(q, k) /\ SameBut(q, p) /\ q.pending \subseteq p.pending
  BY <1>1
<1> HIDE DEF q, k, Q, G, O, P, S
<1>7. q \in Rec /\ q.pending = P /\ q.rt = Q /\ SameBut(q, p)
  <2>1. q = Pending(p, P, Q)
    BY DEF q, Pending
  <2>2. PendingOf(Pending(p, P, Q), p, P, Q)
    BY <1>0, <1>2, <1>4, PendingRt, SMTT(60)
  <2> QED BY <2>1, <2>2, Zenon DEF PendingOf
<1>8. /\ k \in Hist /\ k.owed = O /\ k.dropped = h.dropped /\ k.got = G /\ k.sent = h.sent
      /\ k.masks = h.masks /\ k.stops = h.stops /\ k.stopsTold = h.stopsTold
      /\ k.conts = h.conts /\ k.contsTold = h.contsTold
  BY <1>0, <1>3, <1>4, Zenon DEF k, Hist
<1>9. q.rt # <<>> => RT \in q.pending
  <2>1. p.rt = <<>> => Q = <<>>
    BY <1>5
  <2> QED BY <1>0, <1>2, <1>6, <1>7, <2>1, ZenonT(60) DEF Queued
<1>10. Queued(q, k)
  <2>1. CASE took
    <3>1. q.rt = Tail(p.rt) /\ k.got = Append(h.got, Head(p.rt)) /\ p.rt # <<>>
      BY <1>5, <1>7, <1>8, <2>1, Zenon
    <3>2. Rising(p.rt, h.sent) /\ Rising(h.got, h.sent)
          /\ Below(h.got, p.rt)
      BY <1>0, Zenon DEF Queued, Below
    <3>3. /\ Rising(q.rt, h.sent) /\ Rising(k.got, h.sent)
          /\ Below(k.got, q.rt)
          /\ \A n \in Nat : In(n, h.got) \/ In(n, p.rt) => In(n, k.got) \/ In(n, q.rt)
      BY <1>0, <3>1, <3>2, HeadTaken, SMTT(60)
    <3>4. \A n \in 1..k.sent : In(n, k.got) \/ In(n, q.rt) \/ n \in k.dropped
      BY <1>0, <1>8, <3>3, SMTT(60) DEF Queued
    <3>5. k.dropped \subseteq 1..k.sent
      BY <1>0, <1>8, Zenon DEF Queued
    <3> QED BY <1>8, <1>9, <3>3, <3>4, <3>5, Zenon DEF Queued, Below
  <2>2. CASE ~took
    <3>1. q.rt = p.rt /\ k.got = h.got
      BY <1>5, <1>7, <1>8, <2>2, Zenon
    <3> QED BY <1>0, <1>8, <1>9, <3>1, Zenon DEF Queued
  <2> QED BY <2>1, <2>2, Zenon
<1>11. Core(q, k)
  BY <1>2, <1>3, <1>7, <1>8, <1>10, FewerPending, SMTT(60)
<1> QED BY <1>2, <1>7, <1>11, SMTT(60)

\* A handler is entered: the frame's mask is the one to go back to.
LEMMA EnterHandlerSound ==
    ASSUME load \in Workloads, NEW r, Core(r.me, r.h), NEW s \in Posts, NEW saved \in Calls
    PROVE  LET e == EnterHandler(r, s, saved)
               p == r.me
           IN  /\ Sound(e.me, e.h) /\ e.me.run = p.run /\ e.me.disp = p.disp /\ e.me.call = p.call
               /\ e.me.served = p.served /\ e.me.parked = p.parked /\ e.me.continued = p.continued
<1> DEFINE p == r.me
           h == r.h
           f == [mask |-> IF p.prev = NoMask THEN p.blocked ELSE p.prev, call |-> saved]
           F == <<f>> \o p.frames
           B == p.blocked \cup {s}
           M == <<B>> \o h.masks
           q == [p EXCEPT !.frames = F, !.blocked = B, !.prev = NoMask]
           k == [h EXCEPT !.masks = M]
<1>0. p \in Rec /\ h \in Hist /\ Core(p, h)
  BY DEF Core
<1>1. EnterHandler(r, s, saved).me = q /\ EnterHandler(r, s, saved).h = k
  BY DEF EnterHandler
<1> SUFFICES /\ Sound(q, k) /\ q.run = p.run /\ q.disp = p.disp /\ q.call = p.call
             /\ q.served = p.served /\ q.parked = p.parked /\ q.continued = p.continued
  BY <1>1, ZenonT(60)
<1> HIDE DEF p, h
<1>2. p.frames \in Seq(Frame) /\ h.masks \in Seq(Masks) /\ p.blocked \in Masks /\ p.prev \in Masks \cup {NoMask}
  BY <1>0, SMTT(60) DEF Rec, Hist
<1>3. f \in Frame /\ f.mask = (IF p.prev = NoMask THEN p.blocked ELSE p.prev)
  BY <1>2 DEF Frame
<1>4. B \in Masks
  BY <1>2, Numbers DEF Masks
<1> HIDE DEF f, B
<1>5. F \in Seq(Frame) /\ Len(F) = Len(p.frames) + 1 /\ F[1] = f /\ \A i \in 1..Len(p.frames) : F[i + 1] = p.frames[i]
  BY <1>2, <1>3
<1>6. M \in Seq(Masks) /\ Len(M) = Len(h.masks) + 1 /\ M[1] = B /\ \A i \in 1..Len(h.masks) : M[i + 1] = h.masks[i]
  BY <1>2, <1>4
<1> HIDE DEF F, M, q, k
<1>7. q \in Rec
  BY <1>0, <1>4, <1>5, Zenon DEF q, Rec
<1>8. /\ q.frames = F /\ q.blocked = B /\ q.prev = NoMask
      /\ q.run = p.run /\ q.disp = p.disp /\ q.call = p.call /\ q.served = p.served
      /\ q.parked = p.parked /\ q.continued = p.continued /\ q.stopReported = p.stopReported
      /\ q.pending = p.pending /\ q.rt = p.rt
  BY <1>0 DEF q, Rec
<1>9. /\ k \in Hist /\ k.masks = M /\ k.owed = h.owed /\ k.dropped = h.dropped /\ k.got = h.got
      /\ k.sent = h.sent /\ k.stops = h.stops /\ k.stopsTold = h.stopsTold
      /\ k.conts = h.conts /\ k.contsTold = h.contsTold
  BY <1>0, <1>6, Zenon DEF k, Hist
<1>10. Kept(q, k) /\ Cancelled(q) /\ Told(q, k)
  BY <1>0, <1>8, <1>9, ZenonT(60) DEF Core, Kept, Cancelled, Told, Lives
<1>11. Queued(q, k)
  BY <1>0, <1>8, <1>9, Zenon DEF Core, Queued
<1>12. Masked(q, k)
  <2>1. /\ Len(h.masks) = Len(p.frames) + 1
        /\ SuspendsUnstopped => /\ \A i \in 1..Len(p.frames) : p.frames[i].mask = h.masks[i + 1]
                                /\ h.masks[1] = f.mask
    BY <1>0, <1>3, Zenon DEF Core, Masked
  <2>2. Len(p.frames) \in Nat
    BY <1>2
  <2>3. Len(M) = Len(F) + 1 /\ M[1] = B
    BY <1>5, <1>6, <2>1, <2>2, Zenon
  <2>4. ASSUME SuspendsUnstopped, NEW i \in 1..Len(F) PROVE F[i].mask = M[i + 1]
    <3>1. i \in Nat /\ i \in 1..Len(h.masks) /\ M[i + 1] = h.masks[i]
      BY <1>5, <1>6, <2>1, <2>2, SMTT(60)
    <3>2. CASE i = 1
      BY <1>5, <2>1, <2>4, <3>1, <3>2, Zenon
    <3>3. CASE i # 1
      <4>1. i - 1 \in 1..Len(p.frames) /\ (i - 1) + 1 = i
        BY <1>5, <2>2, <3>1, <3>3
      <4>2. F[i] = p.frames[i - 1] /\ p.frames[i - 1].mask = h.masks[i]
        BY <1>5, <2>1, <2>4, <4>1, Zenon
      <4> QED BY <3>1, <4>2, Zenon
    <3> QED BY <3>2, <3>3, Zenon
  <2> QED BY <1>8, <1>9, <2>3, <2>4, Zenon DEF Masked
<1>13. Undone(q)
  BY <1>8, Zenon DEF Undone
<1> QED BY <1>7, <1>8, <1>9, <1>10, <1>11, <1>12, <1>13, ZenonT(60) DEF Sound, Core

\* deliver_pending_signals returns at a stop.
LEMMA StopsHereSound ==
    ASSUME load \in Workloads, NEW r, Core(r.me, r.h), r.me.run = "run", NEW s \in Posts, s \in Stops
    PROVE  LET e == StopsHere(r, s)
               p == r.me
           IN  /\ Sound(e.me, e.h) /\ e.me.run = "stop" /\ e.me.disp = p.disp /\ e.me.call = p.call
               /\ e.me.served = p.served /\ e.me.parked = p.parked /\ e.me.continued = p.continued
<1> DEFINE p == r.me
           h == r.h
           P == p.pending \ {s, CONT}
           O == h.owed \ {s, CONT}
           C == h.stops + 1
           q == [p EXCEPT !.run = "stop", !.stopReported = FALSE, !.pending = P]
           k == [h EXCEPT !.owed = O, !.stops = C]
<1>0. p \in Rec /\ h \in Hist /\ Core(p, h) /\ p.run = "run"
  BY DEF Core
<1>1. StopsHere(r, s).me = q /\ StopsHere(r, s).h = k
  BY DEF StopsHere
<1> SUFFICES /\ Sound(q, k) /\ q.run = "stop" /\ q.disp = p.disp /\ q.call = p.call
             /\ q.served = p.served /\ q.parked = p.parked /\ q.continued = p.continued
  BY <1>1, Zenon
<1> HIDE DEF p, h
<1>2. P \in SUBSET Posts /\ O \in SUBSET AllSigs /\ C \in Nat /\ h.stops \in Nat /\ h.stopsTold \in Nat
  BY <1>0, SMTT(60) DEF Rec, Hist
<1> HIDE DEF P, O, C, q, k
<1>3. q \in Rec
  BY <1>0, <1>2, Zenon DEF q, Rec
<1>4. /\ q.frames = p.frames /\ q.blocked = p.blocked /\ q.prev = p.prev /\ q.pending = P
      /\ q.run = "stop" /\ q.disp = p.disp /\ q.call = p.call /\ q.served = p.served
      /\ q.parked = p.parked /\ q.continued = p.continued /\ q.rt = p.rt
  BY <1>0 DEF q, Rec
<1>5. /\ k \in Hist /\ k.masks = h.masks /\ k.owed = O /\ k.dropped = h.dropped /\ k.got = h.got
      /\ k.sent = h.sent /\ k.stops = C /\ k.stopsTold = h.stopsTold
      /\ k.conts = h.conts /\ k.contsTold = h.contsTold
  BY <1>0, <1>2, Zenon DEF k, Hist
<1>6. Kept(q, k)
  <2>1. O \subseteq P
    BY <1>0 DEF Core, Kept, Lives, O, P
  <2> QED BY <1>4, <1>5, <2>1, ZenonT(60) DEF Kept
<1>7. Cancelled(q)
  BY <1>4, ZenonT(60) DEF Cancelled, P
<1>8. Told(q, k)
  BY <1>0, <1>2, <1>4, <1>5, SMTT(60) DEF Core, Told, C
<1>9. Queued(q, k)
  <2>1. RT \in p.pending => RT \in P
    BY Numbers, ZenonT(60) DEF P
  <2> QED BY <1>0, <1>4, <1>5, <2>1, Zenon DEF Core, Queued
<1>10. Masked(q, k)
  BY <1>0, <1>4, <1>5, SMTT(60) DEF Core, Masked
<1>11. q.prev # NoMask => "suspend" \in load.ops
  BY <1>0, <1>4, Zenon DEF Core
<1>12. Undone(q)
  BY <1>11, Numbers, Zenon DEF Undone, SuspendsUnstopped, Posts
<1> QED BY <1>3, <1>4, <1>5, <1>6, <1>7, <1>8, <1>9, <1>10, <1>11, <1>12, ZenonT(60) DEF Sound, Core

\* die_of_signal: the dead are owed nothing.
LEMMA DiesOfSound ==
    ASSUME load \in Workloads, NEW r, Core(r.me, r.h), NEW s
    PROVE  LET e == DiesOf(r, s)
               p == r.me
           IN  /\ Sound(e.me, e.h) /\ e.me.run = "dead" /\ e.me.disp = p.disp /\ e.me.call = p.call
               /\ e.me.served = p.served /\ e.me.parked = p.parked /\ e.me.continued = p.continued
<1> DEFINE p == r.me
           h == r.h
           q == [p EXCEPT !.run = "dead"]
           k == [h EXCEPT !.owed = {}]
<1>0. p \in Rec /\ h \in Hist /\ Core(p, h)
  BY DEF Core
<1>1. DiesOf(r, s).me = q /\ DiesOf(r, s).h = k
  BY DEF DiesOf
<1> SUFFICES /\ Sound(q, k) /\ q.run = "dead" /\ q.disp = p.disp /\ q.call = p.call
             /\ q.served = p.served /\ q.parked = p.parked /\ q.continued = p.continued
  BY <1>1
<1> HIDE DEF p, h, q, k
<1>2. q \in Rec
  BY <1>0, Zenon DEF q, Rec
<1>3. /\ q.frames = p.frames /\ q.blocked = p.blocked /\ q.prev = p.prev /\ q.pending = p.pending
      /\ q.run = "dead" /\ q.disp = p.disp /\ q.call = p.call /\ q.served = p.served
      /\ q.parked = p.parked /\ q.continued = p.continued /\ q.rt = p.rt
  BY <1>0 DEF q, Rec
<1>4. /\ k \in Hist /\ k.masks = h.masks /\ k.dropped = h.dropped /\ k.got = h.got
      /\ k.sent = h.sent /\ k.stops = h.stops /\ k.stopsTold = h.stopsTold
      /\ k.conts = h.conts /\ k.contsTold = h.contsTold
  BY <1>0, Zenon DEF k, Hist
<1>5. Kept(q, k) /\ Cancelled(q) /\ Undone(q)
  BY <1>3, Zenon DEF Kept, Cancelled, Undone, Lives
<1>6. Told(q, k)
  BY <1>0, <1>3, <1>4, Zenon DEF Core, Told
<1>7. Queued(q, k)
  BY <1>0, <1>3, <1>4, ZenonT(60) DEF Core, Queued
<1>8. Masked(q, k)
  BY <1>0, <1>3, <1>4, SMTT(60) DEF Core, Masked
<1>9. q.prev # NoMask => "suspend" \in load.ops
  BY <1>0, <1>3 DEF Core
<1> QED BY <1>2, <1>3, <1>4, <1>5, <1>6, <1>7, <1>8, <1>9, ZenonT(60) DEF Sound, Core

\* Nothing to act on: a sigsuspend's mask is undone.
LEMMA UndoSound ==
    ASSUME load \in Workloads, NEW p, NEW h, Core(p, h)
    PROVE  LET q == IF p.prev = NoMask THEN p ELSE [p EXCEPT !.blocked = p.prev, !.prev = NoMask]
           IN  /\ Sound(q, h) /\ q.run = p.run /\ q.disp = p.disp /\ q.call = p.call
               /\ q.served = p.served /\ q.parked = p.parked /\ q.continued = p.continued
               /\ q.pending = p.pending /\ q.blocked = IF p.prev = NoMask THEN p.blocked ELSE p.prev
<1>1. CASE p.prev = NoMask
  BY <1>1, Zenon DEF Sound, Undone
<1>2. CASE p.prev # NoMask
  <2> DEFINE q == [p EXCEPT !.blocked = p.prev, !.prev = NoMask]
  <2>0. p \in Rec /\ p.prev \in Masks
    BY <1>2, Zenon DEF Core, Rec
  <2> SUFFICES /\ Sound(q, h) /\ q.run = p.run /\ q.disp = p.disp /\ q.call = p.call
               /\ q.served = p.served /\ q.parked = p.parked /\ q.continued = p.continued
               /\ q.pending = p.pending /\ q.blocked = p.prev
    BY <1>2
  <2> HIDE DEF q
  <2>1. q \in Rec
    BY <2>0, Zenon DEF q, Rec
  <2>2. /\ q.frames = p.frames /\ q.blocked = p.prev /\ q.prev = NoMask /\ q.pending = p.pending
        /\ q.run = p.run /\ q.disp = p.disp /\ q.call = p.call /\ q.served = p.served
        /\ q.parked = p.parked /\ q.continued = p.continued /\ q.rt = p.rt
        /\ q.stopReported = p.stopReported
    BY <2>0, Zenon DEF q, Rec
  <2>3. Kept(q, h) /\ Cancelled(q) /\ Told(q, h)
    BY <2>2, Zenon DEF Core, Kept, Cancelled, Told, Lives
  <2>4. Queued(q, h)
    BY <2>2, Zenon DEF Core, Queued
  <2>5. Masked(q, h)
    BY <1>2, <2>2, Zenon DEF Core, Masked
  <2>6. Undone(q)
    BY <2>2 DEF Undone
  <2> QED BY <2>1, <2>2, <2>3, <2>4, <2>5, <2>6, Zenon DEF Sound, Core
<1> QED BY <1>1, <1>2, SMTT(60)

\* What delivery does to a running task's record p: without a signal to act on it
\* runs on, under the mask it is to have; one that is not caught ends its run.
Delivered(q, p) ==
    /\ q.disp = p.disp /\ q.call = p.call /\ q.served = p.served
    /\ q.parked = p.parked /\ q.continued = p.continued
    /\ Actionable(p) = {} => /\ q.run = "run" /\ q.pending = p.pending \ Deliverable(p)
                             /\ q.blocked = IF p.prev = NoMask THEN p.blocked ELSE p.prev
    /\ Actionable(p) # {} /\ ~FirstHandled(p) => q.run # "run"

LEMMA DeliverSound ==
    ASSUME load \in Workloads, NEW p, NEW h, Core(p, h), p.run = "run", NEW saved \in Calls
    PROVE  LET r == Deliver(p, h, saved) IN Sound(r.me, r.h) /\ Delivered(r.me, p)
<1> DEFINE acts == Actionable(p)
           s == Min(acts)
           passed == {d \in Deliverable(p) : acts = {} \/ d < s}
           r == Drop(p, h, passed)
           e == Deliver(p, h, saved)
           undone == IF p.prev = NoMask THEN r.me ELSE [r.me EXCEPT !.blocked = p.prev, !.prev = NoMask]
<1>1. acts # {} => s \in acts /\ s \in Posts
  <2>1. acts \subseteq Posts /\ Posts \subseteq Nat
    BY Numbers DEF Actionable, Deliverable, Core, Rec
  <2> QED BY <2>1, LeastOf, Zenon
<1>2. acts = {} => passed = Deliverable(p)
  OBVIOUS
<1>3. /\ acts = {} => e = [me |-> undone, h |-> r.h]
      /\ acts # {} /\ s \in Stops /\ ~Catches(p, s) => e = StopsHere(r, s)
      /\ acts # {} /\ Catches(p, s) => e = EnterHandler(Take(r.me, r.h, s), s, saved)
      /\ acts # {} /\ s \notin Stops /\ ~Catches(p, s) => e = DiesOf(r, s)
  <2> DEFINE X1 == [me |-> undone, h |-> r.h]
             X2 == StopsHere(r, s)
             X3 == EnterHandler(Take(r.me, r.h, s), s, saved)
             X4 == DiesOf(r, s)
  <2>1. e = CASE p.run # "run" -> [me |-> p, h |-> h]
              [] p.run = "run" /\ acts = {} -> X1
              [] p.run = "run" /\ acts # {} /\ s \in Stops /\ ~Catches(p, s) -> X2
              [] p.run = "run" /\ acts # {} /\ Catches(p, s) -> X3
              [] OTHER -> X4
    BY Zenon DEF Deliver
  <2> HIDE DEF X1, X2, X3, X4, acts, s, e
  <2>2. /\ acts = {} => e = X1
        /\ acts # {} /\ s \in Stops /\ ~Catches(p, s) => e = X2
        /\ acts # {} /\ Catches(p, s) => e = X3
        /\ acts # {} /\ s \notin Stops /\ ~Catches(p, s) => e = X4
    BY <2>1, Zenon
  <2> QED BY <2>2, Zenon DEF X1, X2, X3, X4
<1>4. acts # {} /\ ~Catches(p, s) <=> acts # {} /\ ~FirstHandled(p)
  BY DEF FirstHandled
<1> SUFFICES Sound(e.me, e.h) /\ Delivered(e.me, p)
  BY Zenon
<1> HIDE DEF acts, s, passed, e
<1>5. Core(r.me, r.h) /\ SameBut(r.me, p) /\ r.me.pending = p.pending \ passed
  BY DropCore, Zenon
<1> HIDE DEF r
<1>6. /\ r.me.run = "run" /\ r.me.disp = p.disp /\ r.me.call = p.call /\ r.me.served = p.served
      /\ r.me.parked = p.parked /\ r.me.continued = p.continued /\ r.me.prev = p.prev
      /\ r.me.blocked = p.blocked
  BY <1>5, Zenon DEF SameBut
<1>7. CASE acts = {}
  <2>1. e.me = undone /\ e.h = r.h
    BY <1>3, <1>7
  <2>2. undone = IF r.me.prev = NoMask THEN r.me ELSE [r.me EXCEPT !.blocked = r.me.prev, !.prev = NoMask]
    BY <1>6, SMTT(60)
  <2> HIDE DEF undone
  <2>3. /\ Sound(undone, r.h) /\ undone.run = r.me.run /\ undone.disp = r.me.disp
        /\ undone.call = r.me.call /\ undone.served = r.me.served /\ undone.parked = r.me.parked
        /\ undone.continued = r.me.continued /\ undone.pending = r.me.pending
        /\ undone.blocked = IF r.me.prev = NoMask THEN r.me.blocked ELSE r.me.prev
    BY <1>5, <2>2, UndoSound, Zenon
  <2>4. r.me.pending = p.pending \ Deliverable(p)
    BY <1>2, <1>5, <1>7, Zenon
  <2> QED BY <1>6, <1>7, <2>1, <2>3, <2>4, Zenon DEF Delivered, acts
<1>8. CASE acts # {} /\ s \in Stops /\ ~Catches(p, s)
  <2>1. e = StopsHere(r, s)
    BY <1>3, <1>8, ZenonT(60)
  <2>2. /\ Sound(e.me, e.h) /\ e.me.run = "stop" /\ e.me.disp = r.me.disp /\ e.me.call = r.me.call
        /\ e.me.served = r.me.served /\ e.me.parked = r.me.parked /\ e.me.continued = r.me.continued
    BY <1>1, <1>5, <1>6, <1>8, <2>1, StopsHereSound, SMTT(60)
  <2> QED BY <1>6, <1>8, <2>2, Zenon DEF Delivered, acts
<1>9. CASE acts # {} /\ Catches(p, s)
  <2> DEFINE t == Take(r.me, r.h, s)
  <2>1. e = EnterHandler(t, s, saved)
    BY <1>3, <1>9, Zenon
  <2>2. Core(t.me, t.h) /\ SameBut(t.me, r.me)
    BY <1>1, <1>5, <1>9, TakeCore, ZenonT(60)
  <2> HIDE DEF t
  <2>3. /\ Sound(e.me, e.h) /\ e.me.run = t.me.run /\ e.me.disp = t.me.disp /\ e.me.call = t.me.call
        /\ e.me.served = t.me.served /\ e.me.parked = t.me.parked /\ e.me.continued = t.me.continued
    BY <1>1, <1>9, <2>1, <2>2, EnterHandlerSound, SMTT(60)
  <2> QED BY <1>4, <1>6, <1>9, <2>2, <2>3, Zenon DEF Delivered, acts, SameBut
<1>10. CASE acts # {} /\ s \notin Stops /\ ~Catches(p, s)
  <2>1. e = DiesOf(r, s)
    BY <1>3, <1>10, Zenon
  <2>2. /\ Sound(e.me, e.h) /\ e.me.run = "dead" /\ e.me.disp = r.me.disp /\ e.me.call = r.me.call
        /\ e.me.served = r.me.served /\ e.me.parked = r.me.parked /\ e.me.continued = r.me.continued
    BY <1>5, <2>1, DiesOfSound, SMTT(60)
  <2> QED BY <1>6, <1>10, <2>2, Zenon DEF Delivered, acts
<1> QED BY <1>7, <1>8, <1>9, <1>10, Zenon

\* Soundness is about these fields only.
Alike(q, p) ==
    /\ q.run = p.run /\ q.pending = p.pending /\ q.rt = p.rt /\ q.blocked = p.blocked
    /\ q.prev = p.prev /\ q.frames = p.frames
    /\ q.continued = p.continued /\ q.stopReported = p.stopReported

LEMMA AlikeCore ==
    ASSUME NEW p, NEW h, Core(p, h), NEW q \in Rec, Alike(q, p)
    PROVE  Core(q, h) /\ (Undone(p) => Sound(q, h))
<1>1. Kept(q, h) /\ Cancelled(q) /\ Told(q, h)
  BY Zenon DEF Alike, Core, Kept, Cancelled, Told, Lives
<1>2. Queued(q, h)
  BY Zenon DEF Alike, Core, Queued
<1>3. Masked(q, h)
  BY Zenon DEF Alike, Core, Masked
<1>4. (q.prev # NoMask => "suspend" \in load.ops) /\ (Undone(p) => Undone(q))
  BY Zenon DEF Alike, Core, Undone, Lives
<1> QED BY <1>1, <1>2, <1>3, <1>4, Zenon DEF Core, Sound

\* Kernel::service after a call of a running task: it blocks only with nothing to act on.
After(q, p, c, ret) ==
    /\ q.disp = p.disp /\ q.parked = p.parked /\ q.continued = p.continued
    /\ q.served # "no"
    /\ q.served = "blocks" /\ q.run = "run" =>
           /\ ret = "block" /\ q.call = c /\ q.pending = p.pending \ Deliverable(p)
           /\ q.blocked = IF p.prev = NoMask THEN p.blocked ELSE p.prev

LEMMA AfterCallSound ==
    ASSUME load \in Workloads, NEW p, NEW h, Core(p, h), p.run = "run", NEW c \in Calls, NEW ret
    PROVE  LET r == AfterCall(p, h, c, ret) IN Sound(r.me, r.h) /\ After(r.me, p, c, ret)
<1> DEFINE interrupted == ret = "block" /\ FirstHandled(p)
           restarts == /\ interrupted /\ p.disp[Min(Actionable(p))] = "restart"
                       /\ c.op # "timedwait"
           blocks == ret = "block" /\ ~interrupted
           C == IF blocks THEN c ELSE NoCall
           D == IF blocks THEN "blocks" ELSE "returned"
           saved == IF restarts THEN c ELSE NoCall
           u == [p EXCEPT !.call = C, !.served = D]
           r == AfterCall(p, h, c, ret)
<1>1. r = Deliver(u, h, saved)
  BY Zenon DEF AfterCall
<1>2. C \in Calls /\ D \in {"returned", "blocks"} /\ saved \in Calls
  BY DEF Calls
<1>3. D = "blocks" => ret = "block" /\ ~FirstHandled(p) /\ C = c
  OBVIOUS
<1> SUFFICES Sound(r.me, r.h) /\ After(r.me, p, c, ret)
  BY Zenon
<1> HIDE DEF C, D, saved, r
<1>4. p \in Rec
  BY DEF Core
<1>5. u \in Rec
  BY <1>2, <1>4, Zenon DEF Rec
<1>6. u.call = C /\ u.served = D /\ u.disp = p.disp /\ u.parked = p.parked /\ Alike(u, p)
  BY <1>4, Zenon DEF Rec, Alike
<1> HIDE DEF u
<1>7. Core(u, h) /\ u.run = "run"
  BY <1>5, <1>6, AlikeCore, Zenon DEF Alike
<1>8. Sound(r.me, r.h) /\ Delivered(r.me, u)
  BY <1>1, <1>2, <1>7, DeliverSound, Zenon
<1>9. u.pending = p.pending /\ u.blocked = p.blocked /\ u.prev = p.prev /\ u.continued = p.continued
  BY <1>6, Zenon DEF Alike
<1>10. Deliverable(u) = Deliverable(p)
  BY <1>9 DEF Deliverable
<1>11. Actionable(u) = Actionable(p)
  BY <1>6, <1>10, Zenon DEF Actionable, Ignores
<1>12. FirstHandled(u) <=> FirstHandled(p)
  BY <1>6, <1>11, Zenon DEF FirstHandled, Catches
<1>13. r.me.served = D /\ r.me.call = C /\ r.me.disp = p.disp /\ r.me.parked = p.parked /\ r.me.continued = p.continued
  BY <1>6, <1>8, <1>9, Zenon DEF Delivered
<1>14. ASSUME D = "blocks", r.me.run = "run"
       PROVE  /\ ret = "block" /\ r.me.call = c /\ r.me.pending = p.pending \ Deliverable(p)
              /\ r.me.blocked = IF p.prev = NoMask THEN p.blocked ELSE p.prev
  <2>1. Actionable(u) = {}
    BY <1>3, <1>8, <1>12, <1>14, Zenon DEF Delivered
  <2> QED BY <1>3, <1>8, <1>9, <1>10, <1>13, <1>14, <2>1, ZenonT(60) DEF Delivered
<1>15. After(r.me, p, c, ret)
  BY <1>2, <1>13, <1>14, Zenon DEF After
<1> QED BY <1>8, <1>15, SMTT(60)

------------------------------------------------------------------------------
(* The steps, on the serial scheduler.                                     *)

\* The workload does not change, and what depends on it does not.
LEMMA SameLoad ==
    ASSUME load' = load, NEW p, NEW h
    PROVE  (Sound(p, h)') <=> Sound(p, h)
<1>1. SuspendsUnstopped' <=> SuspendsUnstopped
  BY DEF SuspendsUnstopped
<1>2. Posts' = Posts /\ SuspendCall' = SuspendCall
  BY DEF Posts, SuspendCall
<1>3. Calls' = Calls
  BY <1>2, SMTT(60) DEF Calls
<1>4. Frame' = Frame
  BY <1>3, Zenon DEF Frame
<1>5. Rec' = Rec
  BY <1>2, <1>3, <1>4 DEF Rec
<1>6. (Masked(p, h)') <=> Masked(p, h)
  BY <1>1, Zenon DEF Masked
<1>7. (Core(p, h)') <=> Core(p, h)
  BY <1>5, <1>6, Zenon DEF Core
<1> QED BY <1>1, <1>7, Zenon DEF Sound, Undone

LEMMA SameRec ==
    ASSUME load' = load
    PROVE  Rec' = Rec
<1>1. Posts' = Posts /\ SuspendCall' = SuspendCall
  BY DEF Posts, SuspendCall
<1>2. Calls' = Calls
  BY <1>1 DEF Calls
<1>3. Frame' = Frame
  BY <1>2 DEF Frame
<1> QED BY <1>1, <1>2, <1>3 DEF Rec

LEMMA NotOutIsNone == NotOut \notin Rec
BY Zenon DEF NotOut, Rec

\* The end of a step: the parent of a task that stopped or died is told.
Ended(t, r, tb, hs) ==
    /\ out' = [out EXCEPT ![t] = r.me] /\ hist'[t] = r.h /\ table'[t] = tb[t]
    /\ \A u \in Tids : InFlight(u)' <=> u = t
    /\ \A u \in Tids \ {t} :
           \/ /\ table'[u] = tb[u] /\ hist'[u] = hs[u]
              /\ u = Parent[t] => r.me.run = "run"
           \/ /\ table'[u] = Informed(tb[u], FALSE) /\ hist'[u] = OwedChild(hs[u], tb[u], FALSE)
              /\ u = Parent[t] /\ r.me.run # "run"
    /\ table' = [u \in Tids |-> table'[u]] /\ hist' = [u \in Tids |-> hist'[u]]

LEMMA ServicedEnds ==
    ASSUME ~Smp, SignalInv, NEW t \in Tids, InFlight(t), NEW r, r.me \in Rec,
           NEW tb, NEW hs, tb = [u \in Tids |-> tb[u]], hs = [u \in Tids |-> hs[u]],
           Serviced(t, r, tb, hs)
    PROVE  Ended(t, r, tb, hs)
<1> DEFINE par == Parent[t]
           ends == r.me.run # "run" /\ par \in Seen
<1>1. out' = [out EXCEPT ![t] = r.me]
  BY Zenon DEF Serviced
<1>2. out \in [Tids -> Rec \cup {NotOut}] /\ \A u \in Tids : InFlight(u) => u = t
  BY DEF SignalInv
<1>3. \A u \in Tids : InFlight(u)' <=> u = t
  BY <1>1, <1>2, NotOutIsNone, Zenon DEF InFlight
<1>4. par # t /\ par \in Tids \cup {0} /\ (\A u \in Tids : u # 0) /\ (par \in Seen <=> par \in Tids)
  BY <1>2 DEF Seen, InFlight
<1>5. CASE ends
  <2>0. par \in Tids
    BY <1>4, <1>5, Zenon
  <2>f. InFlight(par) = FALSE
    BY <1>2, <1>4, <2>0 DEF InFlight
  <2>1. table' = [tb EXCEPT ![par] = Informed(@, FALSE)]
    BY <1>5, <2>f, Zenon DEF Serviced
  <2>2. hist' = [hs EXCEPT ![t] = r.h, ![par] = OwedChild(@, tb[par], FALSE)]
    BY <1>5, <2>f, Zenon DEF Serviced
  <2>3. table'[t] = tb[t] /\ hist'[t] = r.h
    BY <1>4, <2>0, <2>1, <2>2, Zenon
  <2>4. ASSUME NEW u \in Tids \ {t}, u # par PROVE table'[u] = tb[u] /\ hist'[u] = hs[u]
    BY <2>1, <2>2, <2>4, Zenon
  <2>5. table'[par] = Informed(tb[par], FALSE) /\ hist'[par] = OwedChild(hs[par], tb[par], FALSE)
    BY <1>4, <2>0, <2>1, <2>2, Zenon
  <2>6. table' = [u \in Tids |-> table'[u]] /\ hist' = [u \in Tids |-> hist'[u]]
    BY <2>1, <2>2, Zenon
  <2> QED BY <1>1, <1>3, <1>5, <2>3, <2>4, <2>5, <2>6, Zenon DEF Ended
<1>6. CASE ~ends
  <2>1. table' = tb
    BY <1>6, Zenon DEF Serviced
  <2>2. hist' = [hs EXCEPT ![t] = r.h]
    BY <1>6 DEF Serviced
  <2>3. table'[t] = tb[t] /\ hist'[t] = r.h /\ \A u \in Tids \ {t} : table'[u] = tb[u] /\ hist'[u] = hs[u]
    BY <2>1, <2>2, Zenon
  <2>4. \A u \in Tids : u = par => r.me.run = "run"
    BY <1>4, <1>6, Zenon
  <2>5. table' = [u \in Tids |-> table'[u]] /\ hist' = [u \in Tids |-> hist'[u]]
    BY <2>1, <2>2, Zenon
  <2> QED BY <1>1, <1>3, <2>3, <2>4, <2>5, Zenon DEF Ended
<1> QED BY <1>5, <1>6, Zenon

LEMMA ServicedSound ==
    ASSUME SignalInv, NEW t \in Tids, InFlight(t), NEW r, Sound(r.me, r.h), r.me.served # "no",
           NEW tb, NEW hs, Ended(t, r, tb, hs),
           tb[t] \in Rec, \A u \in Tids \ {t} : Sound(tb[u], hs[u]), load' = load
    PROVE  SignalInv'
<1>1. load \in Workloads /\ out \in [Tids -> Rec \cup {NotOut}]
  BY SMTT(60) DEF SignalInv
<1>2. r.me \in Rec /\ r.h \in Hist
  BY Zenon DEF Sound, Core
<1>3. \A u \in Tids \ {t} : Sound(table'[u], hist'[u])
  <2> TAKE u \in Tids \ {t}
  <2>1. Sound(tb[u], hs[u])
    BY Zenon
  <2>2. Sound(Informed(tb[u], FALSE), OwedChild(hs[u], tb[u], FALSE))
    BY <1>1, <2>1, ChildSound, Zenon
  <2>3. \/ table'[u] = tb[u] /\ hist'[u] = hs[u]
        \/ table'[u] = Informed(tb[u], FALSE) /\ hist'[u] = OwedChild(hs[u], tb[u], FALSE)
    BY Zenon DEF Ended
  <2> QED BY <2>1, <2>2, <2>3, Zenon
<1>4. \A u \in Tids : table'[u] \in Rec /\ hist'[u] \in Hist
  <2>1. table'[t] \in Rec /\ hist'[t] \in Hist
    BY <1>2, Zenon DEF Ended
  <2>2. \A u \in Tids \ {t} : table'[u] \in Rec /\ hist'[u] \in Hist
    BY <1>3, Zenon DEF Sound, Core
  <2> QED BY <2>1, <2>2, Zenon
<1>5. table' \in [Tids -> Rec] /\ hist' \in [Tids -> Hist]
  <2>1. table' = [u \in Tids |-> table'[u]] /\ hist' = [u \in Tids |-> hist'[u]]
    BY Zenon DEF Ended
  <2> QED BY <1>4, <2>1
<1>6. out' \in [Tids -> Rec \cup {NotOut}] /\ out'[t] = r.me
  BY <1>1, <1>2 DEF Ended
<1>7. \A u \in Tids : InFlight(u)' <=> u = t
  BY Zenon DEF Ended
<1>8. \A u \in Tids : Sound(Record(u)', hist'[u])
  <2>1. Record(t)' = r.me /\ hist'[t] = r.h
    BY <1>6, <1>7 DEF Record, Ended
  <2>2. \A u \in Tids \ {t} : Record(u)' = table'[u]
    BY <1>7, Zenon DEF Record
  <2> QED BY <1>3, <2>1, <2>2, Zenon
<1>9. \A u \in Tids : Sound(Record(u), hist[u])'
  BY <1>8, SameLoad, Zenon
<1>10. (table \in [Tids -> Rec])' /\ (out \in [Tids -> Rec \cup {NotOut}])'
  BY <1>5, <1>6, SameRec, Zenon
<1>11. \A u \in Tids : InFlight(u)' /\ out'[u].served = "no" => out'[u].run = "run"
  BY <1>6, <1>7, Zenon
<1>12. \A u, v \in Tids : InFlight(u)' /\ InFlight(v)' => u = v
  BY <1>7, Zenon
<1> QED BY <1>1, <1>5, <1>9, <1>10, <1>11, <1>12, ZenonT(60) DEF SignalInv

\* The task t that makes a call, and the others.
LEMMA Caller ==
    ASSUME SignalInv, NEW t \in Tids, InFlight(t), out[t].served = "no"
    PROVE  /\ load \in Workloads /\ out[t].run = "run" /\ Core(out[t], hist[t]) /\ Sound(out[t], hist[t])
           /\ out[t] \in Rec /\ hist[t] \in Hist /\ table[t] \in Rec
           /\ SuspendsUnstopped => out[t].prev = NoMask
           /\ \A u \in Tids \ {t} : InFlight(u) = FALSE /\ Sound(table[u], hist[u]) /\ table[u] \in Rec
           /\ table = [u \in Tids |-> table[u]] /\ hist = [u \in Tids |-> hist[u]]
<1>1. load \in Workloads /\ table \in [Tids -> Rec] /\ hist \in [Tids -> Hist] /\ out[t].run = "run"
  BY SMTT(60) DEF SignalInv
<1>2. \A u \in Tids : InFlight(u) => u = t
  BY Zenon DEF SignalInv
<1>3. \A u \in Tids : Sound(Record(u), hist[u])
  BY DEF SignalInv
<1>4. Record(t) = out[t]
  BY DEF Record
<1>5. Sound(out[t], hist[t])
  BY <1>3, <1>4
<1>6. \A u \in Tids \ {t} : InFlight(u) = FALSE /\ Record(u) = table[u]
  BY <1>2, Zenon DEF Record, InFlight
<1>7. out[t] \in Rec /\ Core(out[t], hist[t]) /\ (SuspendsUnstopped => out[t].prev = NoMask)
  BY <1>1, <1>5, Zenon DEF Sound, Core, Undone, Lives
<1> QED BY <1>1, <1>3, <1>5, <1>6, <1>7, ZenonT(60)

\* A step of t that ends in the record and history r, and leaves the others tb and
\* hs: it keeps records sound and unparks what has something to do.
Step(t, r, tb, hs) ==
    /\ Sound(r.me, r.h) /\ r.me.served # "no"
    /\ (r.me.parked => out[t].parked) /\ r.me.continued = out[t].continued
    /\ tb[t] = table[t]
    /\ \A u \in Tids \ {t} :
           /\ Sound(tb[u], hs[u]) /\ tb[u].served = table[u].served
           /\ tb[u].parked => /\ table[u].parked /\ tb[u].call = table[u].call
                              /\ Waits(table[u]) => Waits(tb[u])
    /\ \A u, v \in Tids \ {t} : tb[u].parked /\ Parent[v] = u /\ Quiet(table[v]) => Quiet(tb[v])
    /\ SuspendsUnstopped /\ r.me.run = "run" /\ r.me.served = "blocks" =>
           /\ Waits(r.me)
           /\ r.me.call.op = "wait4" => \A v \in Tids : Parent[v] = t => Quiet(tb[v])
    /\ tb = [u \in Tids |-> tb[u]] /\ hs = [u \in Tids |-> hs[u]]

LEMMA StepSound ==
    ASSUME ~Smp, SignalInv, NEW t \in Tids, InFlight(t), out[t].served = "no",
           NEW r, NEW tb, NEW hs, Step(t, r, tb, hs), Serviced(t, r, tb, hs), load' = load
    PROVE  SignalInv' /\ Ended(t, r, tb, hs)
<1>1. r.me \in Rec /\ Sound(r.me, r.h) /\ r.me.served # "no"
  BY DEF Step, Sound, Core
<1>2. tb = [u \in Tids |-> tb[u]] /\ hs = [u \in Tids |-> hs[u]]
  BY Zenon DEF Step
<1>3. Ended(t, r, tb, hs)
  BY <1>1, <1>2, ServicedEnds, Zenon
<1>4. tb[t] \in Rec
  BY Caller, Zenon DEF Step
<1>5. \A u \in Tids \ {t} : Sound(tb[u], hs[u])
  BY Zenon DEF Step
<1> QED BY <1>1, <1>3, <1>4, <1>5, ServicedSound, ZenonT(60)

LEMMA StepParks ==
    ASSUME SignalInv, ParkInv, NEW t \in Tids, InFlight(t), out[t].served = "no",
           NEW r, NEW tb, NEW hs, Step(t, r, tb, hs), Ended(t, r, tb, hs), load' = load
    PROVE  ParkInv'
<1> SUFFICES ASSUME SuspendsUnstopped, NEW u \in Tids
             PROVE  /\ ~InFlight(u)' /\ table'[u].parked => Parks(u)'
                    /\ InFlight(u)' => ~out'[u].parked
                    /\ InFlight(u)' /\ out'[u].run = "run" /\ out'[u].served = "blocks" => Parks(u)'
                    /\ InFlight(u)' /\ out'[u].run # "run" => \A v \in Tids : v = Parent[u] => ~table'[v].parked
                    /\ InFlight(u)' => ~table'[u].parked
                    /\ ~InFlight(u)' => table'[u].served = "no"
  BY SMTT(60) DEF ParkInv, SuspendsUnstopped
<1>0. load \in Workloads /\ out \in [Tids -> Rec \cup {NotOut}]
  BY DEF SignalInv
<1>1. /\ ~out[t].parked /\ ~table[t].parked
      /\ \A v \in Tids \ {t} : /\ table[v].parked => Parks(v) /\ Record(v) = table[v]
                              /\ table[v].served = "no"
  BY Caller, Zenon DEF ParkInv, Record
<1>2. /\ \A v \in Tids : InFlight(v)' <=> v = t
      /\ out'[t] = r.me /\ table'[t] = table[t]
  BY <1>0, Zenon DEF Ended, Step
<1>3. Record(t)' = r.me /\ \A v \in Tids \ {t} : Record(v)' = table'[v]
  BY <1>2, Zenon DEF Record
<1>4. \A v \in Tids \ {t} : /\ Quiet(tb[v]) => Quiet(table'[v])
                            /\ table'[v].parked => table'[v] = tb[v] /\ (v = Parent[t] => r.me.run = "run")
                            /\ table'[v].served = "no"
  <2> TAKE v \in Tids \ {t}
  <2>1. Sound(tb[v], hs[v]) /\ tb[v].served = table[v].served
    BY Zenon DEF Step
  <2>2. /\ Informed(tb[v], FALSE).parked = FALSE /\ Informed(tb[v], FALSE).served = tb[v].served
        /\ Informed(tb[v], FALSE).run = tb[v].run /\ Informed(tb[v], FALSE).continued = tb[v].continued
        /\ Informed(tb[v], FALSE).stopReported = tb[v].stopReported
    BY <1>0, <2>1, ChildSound, Zenon
  <2>3. \/ table'[v] = tb[v] /\ (v = Parent[t] => r.me.run = "run")
        \/ table'[v] = Informed(tb[v], FALSE)
    BY Zenon DEF Ended
  <2> QED BY <1>1, <2>1, <2>2, <2>3, Zenon DEF Quiet, Lives
<1>5. CASE u # t
  <2> SUFFICES ASSUME table'[u].parked PROVE Parks(u)'
    BY <1>2, <1>4, <1>5, Zenon
  <2>1. table'[u] = tb[u] /\ (u = Parent[t] => r.me.run = "run") /\ tb[u].parked
    BY <1>4, <1>5, Zenon
  <2>2. table[u].parked /\ tb[u].call = table[u].call /\ (Waits(table[u]) => Waits(tb[u]))
    BY <1>5, <2>1, SMTT(60) DEF Step
  <2>3. Waits(table[u]) /\ (table[u].call.op = "wait4" => ChildrenQuiet(u))
    BY <1>1, <1>5, <2>2, Zenon DEF Parks
  <2>4. Record(u)' = tb[u]
    BY <1>3, <1>5, <2>1, Zenon
  <2>5. ASSUME tb[u].call.op = "wait4", NEW v \in Tids, Parent[v] = u PROVE Quiet(Record(v)')
    <3>1. Quiet(Record(v))
      BY <2>2, <2>3, <2>5, Zenon DEF ChildrenQuiet
    <3>2. CASE v = t
      <4>1. Record(t) = out[t] /\ out[t].run = "run"
        BY Caller, Zenon DEF Record
      <4>2. ~out[t].continued
        BY <3>1, <3>2, <4>1, Zenon DEF Quiet, Lives
      <4>3. ~r.me.continued /\ r.me.run = "run"
        BY <2>1, <2>5, <3>2, <4>2, Zenon DEF Step
      <4> QED BY <1>3, <3>2, <4>3, Zenon DEF Quiet
    <3>3. CASE v # t
      <4>1. Record(v) = table[v]
        BY <3>3, Caller, Zenon DEF Record
      <4>2. Quiet(tb[v])
        BY <1>5, <2>1, <2>5, <3>1, <3>3, <4>1, ZenonT(60) DEF Step
      <4>3. Record(v)' = table'[v]
        BY <1>3, <3>3, SMTT(60)
      <4>4. Quiet(table'[v])
        BY <1>4, <3>3, <4>2, Zenon
      <4> QED BY <4>3, <4>4, Zenon
    <3> QED BY <3>2, <3>3, Zenon
  <2> QED BY <2>2, <2>3, <2>4, <2>5, Zenon DEF Parks, ChildrenQuiet
<1>6. CASE u = t
  <2>1. ~out'[u].parked /\ ~table'[u].parked
    BY <1>1, <1>2, <1>6, SMTT(60) DEF Step
  <2>2. ASSUME out'[u].run # "run", NEW v \in Tids, v = Parent[u] PROVE ~table'[v].parked
    BY <1>2, <1>4, <1>6, <2>2, Zenon
  <2>3. ASSUME out'[u].run = "run", out'[u].served = "blocks" PROVE Parks(u)'
    <3>1. Waits(r.me) /\ (r.me.call.op = "wait4" => \A v \in Tids : Parent[v] = t => Quiet(tb[v]))
      BY <1>2, <1>6, <2>3, SMTT(60) DEF Step
    <3>2. ASSUME r.me.call.op = "wait4", NEW v \in Tids, Parent[v] = t PROVE Quiet(Record(v)')
      BY <1>3, <1>4, <3>1, <3>2, SMTT(60)
    <3> QED BY <1>3, <1>6, <3>1, <3>2, ZenonT(60) DEF Parks, ChildrenQuiet
  <2> QED BY <1>2, <1>6, <2>1, <2>2, <2>3, ZenonT(60)
<1> QED BY <1>5, <1>6, ZenonT(60)

\* A step that leaves the other records alone.
LEMMA AloneStep ==
    ASSUME SignalInv, NEW t \in Tids, InFlight(t), out[t].served = "no",
           NEW r, Sound(r.me, r.h), r.me.served # "no",
           r.me.parked = out[t].parked, r.me.continued = out[t].continued,
           SuspendsUnstopped /\ r.me.run = "run" /\ r.me.served = "blocks" =>
               /\ Waits(r.me)
               /\ r.me.call.op = "wait4" => \A v \in Tids : Parent[v] = t => Quiet(table[v])
    PROVE  Step(t, r, table, hist)
<1>1. \A u \in Tids \ {t} : Sound(table[u], hist[u])
  BY Caller, Zenon
<1>2. table = [u \in Tids |-> table[u]] /\ hist = [u \in Tids |-> hist[u]]
  BY Caller, Zenon
<1>3. r.me.parked => out[t].parked
  OBVIOUS
<1> QED BY <1>1, <1>2, <1>3, Zenon DEF Step

\* A call that does not block.
LEMMA ReturnStep ==
    ASSUME SignalInv, NEW t \in Tids, InFlight(t), out[t].served = "no",
           NEW p, NEW h, Core(p, h), p.run = "run",
           p.parked = out[t].parked, p.continued = out[t].continued,
           NEW c \in Calls, NEW ret, ret # "block"
    PROVE  Step(t, AfterCall(p, h, c, ret), table, hist)
<1> DEFINE r == AfterCall(p, h, c, ret)
<1>1. Sound(r.me, r.h) /\ After(r.me, p, c, ret)
  BY Caller, AfterCallSound, Zenon
<1> SUFFICES Step(t, r, table, hist)
  BY Zenon
<1> HIDE DEF r
<1>2. /\ r.me.served # "no" /\ r.me.parked = out[t].parked /\ r.me.continued = out[t].continued
      /\ ~(r.me.run = "run" /\ r.me.served = "blocks")
  BY <1>1, SMTT(60) DEF After
<1> QED BY <1>1, <1>2, AloneStep, Zenon

\* A call that blocks, with no signal to act on under the mask it installs.
LEMMA BlockStep ==
    ASSUME SignalInv, NEW t \in Tids, InFlight(t), out[t].served = "no",
           NEW p, NEW h, Core(p, h), p.run = "run",
           p.parked = out[t].parked, p.continued = out[t].continued,
           NEW c \in Calls,
           SuspendsUnstopped => /\ c.op = "suspend" => c.mask = p.blocked
                                /\ c.op # "suspend" => p.prev = NoMask
                                /\ c.op = "timedwait" => (p.pending \cap c.set) \subseteq {KILL, STOP}
                                /\ c.op = "wait4" => \A v \in Tids : Parent[v] = t => Quiet(table[v])
    PROVE  Step(t, AfterCall(p, h, c, "block"), table, hist)
<1> DEFINE ret == "block"
           r == AfterCall(p, h, c, ret)
<1>1. Sound(r.me, r.h) /\ After(r.me, p, c, ret)
  <2> HIDE DEF ret
  <2> QED BY Caller, AfterCallSound, Zenon
<1> SUFFICES Step(t, r, table, hist)
  BY Zenon
<1> HIDE DEF r, ret
<1>2. r.me.served # "no" /\ r.me.parked = out[t].parked /\ r.me.continued = out[t].continued
  BY <1>1, Zenon DEF After
<1>3. ASSUME SuspendsUnstopped, r.me.run = "run", r.me.served = "blocks"
      PROVE  /\ Waits(r.me)
             /\ r.me.call.op = "wait4" => \A v \in Tids : Parent[v] = t => Quiet(table[v])
  <2>1. /\ r.me.call = c /\ r.me.pending = p.pending \ Deliverable(p)
        /\ r.me.blocked = IF p.prev = NoMask THEN p.blocked ELSE p.prev
    BY <1>1, <1>3, Zenon DEF After
  <2> DEFINE mask == IF r.me.call.op = "suspend" THEN r.me.call.mask ELSE r.me.blocked
  <2>2. mask = p.blocked
    BY <1>3, <2>1, Zenon
  <2>3. r.me.pending \ mask = {}
    BY <2>1, <2>2, Zenon DEF Deliverable
  <2>4. r.me.call.op = "timedwait" => (r.me.pending \cap r.me.call.set) \subseteq {KILL, STOP}
    BY <1>3, <2>1, Zenon
  <2>5. Waits(r.me)
    BY <2>3, <2>4, Zenon DEF Waits
  <2> QED BY <1>3, <2>1, <2>5, Zenon
<1> QED BY <1>1, <1>2, <1>3, AloneStep, Zenon

------------------------------------------------------------------------------
(* The calls.                                                              *)

Steps(t) ==
    /\ InFlight(t) /\ out[t].served = "no" /\ load' = load
    /\ \E r, tb, hs : Step(t, r, tb, hs) /\ Serviced(t, r, tb, hs)

LEMMA NoCallIsOne == NoCall \in Calls
BY DEF Calls

LEMMA NewTaskIsOne == NewTask \in Rec
<1>1. {} \in SUBSET Posts /\ {} \in Masks /\ 0 \in Nat
  BY DEF Masks
<1>2. <<>> \in Seq(Nat) /\ <<>> \in Seq(Frame)
  OBVIOUS
<1>3. [s \in AllSigs |-> "dfl"] \in [AllSigs -> Disps]
  BY DEF Disps
<1> QED BY <1>1, <1>2, <1>3, NoCallIsOne, Zenon DEF NewTask, Rec

LEMMA SigactionSteps ==
    ASSUME SignalInv, NEW t \in Tids, NEW s \in load.caught, NEW d \in load.disps, SysSigaction(t, s, d)
    PROVE  Steps(t)
<1> DEFINE p == [out[t] EXCEPT !.disp[s] = d]
           D == [out[t].disp EXCEPT ![s] = d]
           r == IF Ignores(p, s) THEN Drop(p, hist[t], {s}) ELSE [me |-> p, h |-> hist[t]]
<1>1. InFlight(t) /\ out[t].served = "no" /\ load' = load
  BY DEF SysSigaction, Free
<1>2. Serviced(t, AfterCall(r.me, r.h, NoCall, "ok"), table, hist)
  BY Zenon DEF SysSigaction
<1>3. /\ load \in Workloads /\ out[t].run = "run" /\ Core(out[t], hist[t]) /\ out[t] \in Rec
  BY <1>1, Caller, Zenon
<1>4. D \in [AllSigs -> Disps]
  BY <1>3, Zenon DEF Rec, Disps
<1>5. p = [out[t] EXCEPT !.disp = D]
  BY <1>3 DEF Rec
<1> HIDE DEF p, D
<1>6. p \in Rec
  BY <1>3, <1>4, <1>5, Zenon DEF Rec
<1>7. Alike(p, out[t]) /\ p.parked = out[t].parked
  BY <1>3, <1>5, Zenon DEF Rec, Alike
<1>8. Core(p, hist[t])
  BY <1>3, <1>6, <1>7, AlikeCore, Zenon
<1>9. Core(r.me, r.h) /\ r.me.run = "run" /\ r.me.parked = out[t].parked /\ r.me.continued = out[t].continued
  <2>1. CASE Ignores(p, s)
    <3> DEFINE e == Drop(p, hist[t], {s})
    <3>1. Core(e.me, e.h) /\ SameBut(e.me, p)
      BY <1>3, <1>8, DropCore, Zenon
    <3>2. r = e
      BY <2>1, Zenon
    <3> HIDE DEF e
    <3> QED BY <1>3, <1>7, <3>1, <3>2, ZenonT(60) DEF SameBut, Alike
  <2>2. CASE ~Ignores(p, s)
    BY <1>3, <1>7, <1>8, <2>2, ZenonT(60) DEF Alike
  <2> QED BY <2>1, <2>2, Zenon
<1> DEFINE ret == "ok"
<1>10. ret # "block"
  BY SMTT(60)
<1> HIDE DEF r, ret
<1>11. Step(t, AfterCall(r.me, r.h, NoCall, ret), table, hist)
  BY <1>1, <1>9, <1>10, NoCallIsOne, ReturnStep, ZenonT(60)
<1> QED BY <1>1, <1>2, <1>11, ZenonT(60) DEF Steps, ret

LEMMA SigprocmaskSteps ==
    ASSUME SignalInv, NEW t \in Tids, NEW m \in load.masks, SysSigprocmask(t, m)
    PROVE  Steps(t)
<1> DEFINE p == [out[t] EXCEPT !.blocked = m]
           M == [hist[t].masks EXCEPT ![1] = m]
           h == [hist[t] EXCEPT !.masks[1] = m]
           ret == "ok"
<1>1. InFlight(t) /\ out[t].served = "no" /\ load' = load
  BY DEF SysSigprocmask, Free
<1>2. Serviced(t, AfterCall(p, h, NoCall, ret), table, hist)
  BY Zenon DEF SysSigprocmask
<1>3. /\ load \in Workloads /\ out[t].run = "run" /\ Core(out[t], hist[t]) /\ out[t] \in Rec
      /\ hist[t] \in Hist /\ (SuspendsUnstopped => out[t].prev = NoMask)
  BY <1>1, Caller, Zenon
<1>4. m \in Masks
  BY <1>3, Zenon DEF Masks
<1>5. hist[t].masks \in Seq(Masks)
  BY <1>3, Zenon DEF Hist
<1>6. M \in Seq(Masks) /\ Len(M) = Len(hist[t].masks) /\ \A i \in 1..Len(M) : M[i] = IF i = 1 THEN m ELSE hist[t].masks[i]
  <2> DEFINE w == hist[t].masks
             f == [i \in 1..Len(w) |-> IF i = 1 THEN m ELSE w[i]]
  <2>1. M = f
    BY <1>5, SMTT(60)
  <2> HIDE DEF w
  <2>2. f \in Seq(Masks) /\ Len(f) = Len(w)
    <3>1. \A i \in 1..Len(w) : (IF i = 1 THEN m ELSE w[i]) \in Masks
      BY <1>4, <1>5, SMTT(60) DEF w
    <3>2. Len(w) \in Nat
      BY <1>5 DEF w
    <3> QED BY <3>1, <3>2
  <2>3. \A i \in 1..Len(f) : f[i] = IF i = 1 THEN m ELSE w[i]
    BY <2>2
  <2> HIDE DEF f, M
  <2> QED BY <2>1, <2>2, <2>3, Zenon DEF w
<1>7. h = [hist[t] EXCEPT !.masks = M]
  BY <1>3 DEF Hist
<1>8. ret # "block"
  OBVIOUS
<1> HIDE DEF p, h, M, ret
<1>9. p \in Rec
  BY <1>3, <1>4, Zenon DEF Rec, p
<1>10. /\ p.blocked = m /\ p.prev = out[t].prev /\ p.frames = out[t].frames /\ p.run = "run"
       /\ p.parked = out[t].parked /\ p.continued = out[t].continued
       /\ p.pending = out[t].pending /\ p.rt = out[t].rt /\ p.stopReported = out[t].stopReported
  BY <1>3 DEF Rec, p
<1>11. /\ h \in Hist /\ h.masks = M /\ h.owed = hist[t].owed /\ h.dropped = hist[t].dropped
       /\ h.got = hist[t].got /\ h.sent = hist[t].sent /\ h.stops = hist[t].stops
       /\ h.stopsTold = hist[t].stopsTold /\ h.conts = hist[t].conts /\ h.contsTold = hist[t].contsTold
  BY <1>3, <1>6, <1>7, Zenon DEF Hist
<1>12. Kept(p, h) /\ Cancelled(p) /\ Told(p, h)
  BY <1>3, <1>10, <1>11, Zenon DEF Core, Kept, Cancelled, Told, Lives
<1>13. Queued(p, h)
  BY <1>3, <1>10, <1>11, Zenon DEF Core, Queued
<1>14. Masked(p, h)
  <2>1. /\ Len(hist[t].masks) = Len(p.frames) + 1
        /\ SuspendsUnstopped => \A i \in 1..Len(p.frames) : p.frames[i].mask = hist[t].masks[i + 1]
    BY <1>3, <1>10, Zenon DEF Core, Masked
  <2>2. Len(p.frames) \in Nat
    <3>1. p.frames \in Seq(Frame)
      BY <1>9, Zenon DEF Rec
    <3> QED BY <3>1
  <2>3. Len(M) = Len(p.frames) + 1 /\ M[1] = m
    <3>1. Len(M) = Len(p.frames) + 1
      BY <1>6, <2>1, Zenon
    <3>2. 1 \in 1..Len(M)
      BY <2>2, <3>1
    <3> QED BY <1>6, <3>1, <3>2, Zenon
  <2>4. ASSUME SuspendsUnstopped, NEW i \in 1..Len(p.frames) PROVE p.frames[i].mask = M[i + 1]
    <3>1. i + 1 \in 1..Len(M) /\ i + 1 # 1
      BY <2>2, <2>3
    <3>2. M[i + 1] = hist[t].masks[i + 1]
      BY <1>6, <3>1, Zenon
    <3> QED BY <2>1, <2>4, <3>2, Zenon
  <2> QED BY <1>3, <1>10, <1>11, <2>3, <2>4, ZenonT(60) DEF Masked
<1>15. Core(p, h)
  BY <1>3, <1>9, <1>10, <1>11, <1>12, <1>13, <1>14, ZenonT(60) DEF Core
<1>16. Step(t, AfterCall(p, h, NoCall, ret), table, hist)
  BY <1>1, <1>8, <1>10, <1>15, NoCallIsOne, ReturnStep, ZenonT(60)
<1> QED BY <1>1, <1>2, <1>16, Zenon DEF Steps

LEMMA SigsuspendSteps ==
    ASSUME SignalInv, NEW t \in Tids, NEW m \in load.masks, SysSigsuspend(t, m)
    PROVE  Steps(t)
<1> DEFINE V == IF out[t].prev = NoMask THEN out[t].blocked ELSE out[t].prev
           p == [out[t] EXCEPT !.prev = IF @ = NoMask THEN out[t].blocked ELSE @, !.blocked = m]
           c == [op |-> "suspend", mask |-> m]
           ret == IF Deliverable(p) = {} THEN "block" ELSE "EINTR"
<1>1. InFlight(t) /\ out[t].served = "no" /\ load' = load
  BY DEF SysSigsuspend, Free, Again
<1>2. Serviced(t, AfterCall(p, hist[t], c, ret), table, hist)
  BY Zenon DEF SysSigsuspend
<1>3. /\ load \in Workloads /\ out[t].run = "run" /\ Core(out[t], hist[t]) /\ out[t] \in Rec
      /\ (SuspendsUnstopped => out[t].prev = NoMask)
  BY <1>1, Caller, Zenon
<1>4. "suspend" \in load.ops
  <2>1. CASE Again(t, "suspend")
    <3>1. out[t].call \in Calls /\ out[t].call.op = "suspend"
      BY <1>3, <2>1, Zenon DEF Rec, Again
    <3> QED BY <3>1, SMTT(60) DEF Calls, SuspendCall, TimedwaitCall, Wait4Call, NoCall
  <2>2. CASE ~Again(t, "suspend")
    BY <2>2, Zenon DEF SysSigsuspend, Free
  <2> QED BY <2>1, <2>2, Zenon
<1>5. m \in Masks
  BY <1>3, Zenon DEF Masks
<1>6. c \in Calls /\ c.op = "suspend" /\ c.mask = m
  BY <1>4, <1>5, Zenon DEF Calls, SuspendCall
<1>7. V \in Masks /\ V # NoMask
  BY <1>3, NoMaskIsNone, Zenon DEF Rec
<1>8. p = [out[t] EXCEPT !.prev = V, !.blocked = m]
  BY Zenon
<1>9. out[t].prev = NoMask => V = out[t].blocked
  BY Zenon
<1>10. out[t].prev # NoMask => V = out[t].prev
  OBVIOUS
<1> HIDE DEF V, c, ret, p
<1>11. p \in Rec
  BY <1>3, <1>5, <1>7, <1>8, ZenonT(60) DEF Rec
<1>12. /\ p.blocked = m /\ p.prev = V /\ p.frames = out[t].frames /\ p.run = "run"
       /\ p.parked = out[t].parked /\ p.continued = out[t].continued
       /\ p.pending = out[t].pending /\ p.rt = out[t].rt /\ p.stopReported = out[t].stopReported
  BY <1>3, <1>8, Zenon DEF Rec
<1>13. Kept(p, hist[t]) /\ Cancelled(p) /\ Told(p, hist[t])
  BY <1>3, <1>12, Zenon DEF Core, Kept, Cancelled, Told, Lives
<1>14. Queued(p, hist[t])
  BY <1>3, <1>12, Zenon DEF Core, Queued
<1>15. Masked(p, hist[t])
  BY <1>3, <1>7, <1>9, <1>12, ZenonT(60) DEF Core, Masked
<1>16. Core(p, hist[t])
  BY <1>3, <1>4, <1>11, <1>13, <1>14, <1>15, Zenon DEF Core
<1>17. Step(t, AfterCall(p, hist[t], c, ret), table, hist)
  <2>1. CASE ret # "block"
    BY <1>1, <1>6, <1>12, <1>16, <2>1, ReturnStep, ZenonT(60)
  <2>2. CASE ret = "block"
    <3>1. Step(t, AfterCall(p, hist[t], c, "block"), table, hist)
      BY <1>1, <1>6, <1>12, <1>16, BlockStep, ZenonT(60)
    <3> QED BY <2>2, <3>1, Zenon
  <2> QED BY <2>1, <2>2, Zenon
<1> QED BY <1>1, <1>2, <1>17, Zenon DEF Steps

LEMMA SigtimedwaitSteps ==
    ASSUME SignalInv, NEW t \in Tids, NEW S \in load.masks, SysSigtimedwait(t, S)
    PROVE  Steps(t)
<1> DEFINE ready == (out[t].pending \cap S) \ {KILL, STOP}
           r == Take(out[t], hist[t], Min(ready))
           c == [op |-> "timedwait", set |-> S]
           ret == "ok"
<1>1. InFlight(t) /\ out[t].served = "no" /\ load' = load
  BY Zenon DEF SysSigtimedwait, Free, Again
<1>2. /\ ready = {} => Serviced(t, AfterCall(out[t], hist[t], c, "block"), table, hist)
      /\ ready # {} => Serviced(t, AfterCall(r.me, r.h, NoCall, ret), table, hist)
  BY Zenon DEF SysSigtimedwait
<1>3. /\ load \in Workloads /\ out[t].run = "run" /\ Core(out[t], hist[t]) /\ out[t] \in Rec
      /\ (SuspendsUnstopped => out[t].prev = NoMask)
  BY <1>1, Caller, Zenon
<1>4. CASE ready = {}
  <2>1. c \in Calls /\ c.op = "timedwait" /\ c.set = S
    BY <1>3, Zenon DEF Calls, TimedwaitCall, Masks
  <2>2. (out[t].pending \cap S) \subseteq {KILL, STOP}
    BY <1>4, Zenon
  <2> HIDE DEF c
  <2>3. Step(t, AfterCall(out[t], hist[t], c, "block"), table, hist)
    BY <1>1, <1>3, <2>1, <2>2, BlockStep, ZenonT(60)
  <2> QED BY <1>1, <1>2, <1>4, <2>3, Zenon DEF Steps
<1>5. CASE ready # {}
  <2>1. ready \subseteq Posts /\ Posts \subseteq Nat
    BY <1>3, Numbers, Zenon DEF Rec
  <2>2. Min(ready) \in Posts
    BY <1>5, <2>1, LeastOf, Zenon
  <2>3. Core(r.me, r.h) /\ SameBut(r.me, out[t])
    BY <1>3, <2>2, TakeCore, Zenon
  <2>4. ret # "block"
    OBVIOUS
  <2> HIDE DEF r, ret
  <2>5. r.me.run = "run" /\ r.me.parked = out[t].parked /\ r.me.continued = out[t].continued
    BY <1>3, <2>3, Zenon DEF SameBut
  <2>6. Step(t, AfterCall(r.me, r.h, NoCall, ret), table, hist)
    BY <1>1, <2>3, <2>4, <2>5, NoCallIsOne, ReturnStep, ZenonT(60)
  <2> QED BY <1>1, <1>2, <1>5, <2>6, Zenon DEF Steps
<1> QED BY <1>4, <1>5, Zenon

\* What is pending is delivered between two instructions.
LEMMA InterruptedSteps ==
    ASSUME SignalInv, NEW t \in Tids, Interrupted(t)
    PROVE  Steps(t)
<1> DEFINE p == [out[t] EXCEPT !.served = "returned"]
           r == Deliver(p, hist[t], NoCall)
<1>1. InFlight(t) /\ out[t].served = "no" /\ load' = load
  BY DEF Interrupted
<1>2. Serviced(t, r, table, hist)
  BY Zenon DEF Interrupted
<1>3. /\ load \in Workloads /\ out[t].run = "run" /\ Core(out[t], hist[t]) /\ out[t] \in Rec
  BY <1>1, Caller, Zenon
<1> HIDE DEF p
<1>4. p \in Rec
  BY <1>3, Zenon DEF Rec, p
<1>5. Alike(p, out[t]) /\ p.parked = out[t].parked /\ p.served = "returned"
  BY <1>3, Zenon DEF Rec, Alike, p
<1>6. Core(p, hist[t]) /\ p.run = "run" /\ p.continued = out[t].continued
  BY <1>3, <1>4, <1>5, AlikeCore, ZenonT(60) DEF Alike
<1>7. Sound(r.me, r.h) /\ Delivered(r.me, p)
  BY <1>3, <1>6, NoCallIsOne, DeliverSound, Zenon
<1> HIDE DEF r
<1>8. r.me.served = "returned" /\ r.me.parked = out[t].parked /\ r.me.continued = out[t].continued
  BY <1>5, <1>6, <1>7, Zenon DEF Delivered
<1>9. Step(t, r, table, hist)
  BY <1>1, <1>7, <1>8, AloneStep, ZenonT(60)
<1> QED BY <1>1, <1>2, <1>9, Zenon DEF Steps

LEMMA DeliverPair ==
    ASSUME NEW p, NEW h, NEW saved
    PROVE  DOMAIN Deliver(p, h, saved) = {"me", "h"}
<1> DEFINE acts == Actionable(p)
           s == Min(acts)
           r == Drop(p, h, {d \in Deliverable(p) : acts = {} \/ d < s})
           u == IF p.prev = NoMask THEN r.me ELSE [r.me EXCEPT !.blocked = p.prev, !.prev = NoMask]
           X0 == [me |-> p, h |-> h]
           X1 == [me |-> u, h |-> r.h]
           X2 == StopsHere(r, s)
           X3 == EnterHandler(Take(r.me, r.h, s), s, saved)
           X4 == DiesOf(r, s)
           e == Deliver(p, h, saved)
<1>1. e = CASE p.run # "run" -> X0
            [] p.run = "run" /\ acts = {} -> X1
            [] p.run = "run" /\ acts # {} /\ s \in Stops /\ ~Catches(p, s) -> X2
            [] p.run = "run" /\ acts # {} /\ Catches(p, s) -> X3
            [] OTHER -> X4
  BY Zenon DEF Deliver
<1> HIDE DEF u, r, s, acts
<1>2. /\ DOMAIN X0 = {"me", "h"} /\ DOMAIN X1 = {"me", "h"} /\ DOMAIN X2 = {"me", "h"}
      /\ DOMAIN X3 = {"me", "h"} /\ DOMAIN X4 = {"me", "h"}
  BY DEF StopsHere, EnterHandler, DiesOf
<1> HIDE DEF X0, X1, X2, X3, X4, e
<1>3. e = X0 \/ e = X1 \/ e = X2 \/ e = X3 \/ e = X4
  BY <1>1
<1>4. DOMAIN e = {"me", "h"}
  BY <1>2, <1>3, Zenon
<1> QED BY <1>4 DEF e

LEMMA TailOf ==
    ASSUME NEW S, NEW q \in Seq(S), q # <<>>
    PROVE  /\ Tail(q) \in Seq(S) /\ Len(Tail(q)) = Len(q) - 1 /\ Len(q) \in Nat
           /\ \A i \in 1..Len(Tail(q)) : Tail(q)[i] = q[i + 1]
BY SMTT(60)

\* The call a frame goes back to is nothing to the masks.
SameMasks(G, g) == Len(G) = Len(g) /\ \A i \in 1..Len(G) : G[i].mask = g[i].mask

Reframed(p, G) == [p EXCEPT !.frames = G]

LEMMA FramesLike ==
    ASSUME NEW p, NEW h, Sound(p, h), NEW G \in Seq(Frame), SameMasks(G, p.frames)
    PROVE  LET q == Reframed(p, G)
           IN  /\ Sound(q, h) /\ q.run = p.run /\ q.served = p.served
               /\ q.parked = p.parked /\ q.continued = p.continued
<1> DEFINE q == Reframed(p, G)
<1>0. p \in Rec
  BY Zenon DEF Sound, Core
<1>1. q \in Rec
  BY <1>0, Zenon DEF Rec, Reframed
<1>2. /\ q.run = p.run /\ q.pending = p.pending /\ q.rt = p.rt /\ q.blocked = p.blocked
      /\ q.prev = p.prev /\ q.frames = G /\ q.served = p.served /\ q.parked = p.parked
      /\ q.continued = p.continued /\ q.stopReported = p.stopReported
  BY <1>0, SMTT(60) DEF Rec, Reframed
<1> HIDE DEF q
<1>3. Kept(q, h) /\ Cancelled(q) /\ Told(q, h)
  BY <1>2, Zenon DEF Sound, Core, Kept, Cancelled, Told, Lives
<1>4. Queued(q, h)
  BY <1>2, Zenon DEF Sound, Core, Queued
<1>5. Masked(q, h)
  BY <1>2, Zenon DEF Sound, Core, Masked, SameMasks
<1>6. (q.prev # NoMask => "suspend" \in load.ops) /\ Undone(q)
  BY <1>2, Zenon DEF Sound, Core, Undone, Lives
<1> QED BY <1>1, <1>2, <1>3, <1>4, <1>5, <1>6, ZenonT(60) DEF Core, Sound, q

\* rt_sigreturn: the mask of the frame, and the frame goes.
LEMMA SigreturnSteps ==
    ASSUME SignalInv, NEW t \in Tids, SysSigreturn(t)
    PROVE  Steps(t)
<1> DEFINE f == Head(out[t].frames)
           F == Tail(out[t].frames)
           M == Tail(hist[t].masks)
           B == f.mask
           p == [out[t] EXCEPT !.blocked = B, !.frames = F]
           h == [hist[t] EXCEPT !.masks = M]
           ret == "ok"
           r == AfterCall(p, h, NoCall, ret)
           e == IF Len(r.me.frames) = Len(out[t].frames)
                THEN [r EXCEPT !.me.frames[1].call = f.call]
                ELSE [r EXCEPT !.me.call = f.call]
<1>1. InFlight(t) /\ out[t].served = "no" /\ load' = load /\ out[t].frames # <<>>
  BY Zenon DEF SysSigreturn
<1>2. Serviced(t, e, table, hist)
  BY Zenon DEF SysSigreturn
<1>3. /\ load \in Workloads /\ out[t].run = "run" /\ Core(out[t], hist[t]) /\ out[t] \in Rec
      /\ hist[t] \in Hist /\ (SuspendsUnstopped => out[t].prev = NoMask)
  BY <1>1, Caller, Zenon
<1>4. out[t].frames \in Seq(Frame) /\ hist[t].masks \in Seq(Masks) /\ Len(hist[t].masks) = Len(out[t].frames) + 1
  BY <1>3, Zenon DEF Rec, Hist, Core, Masked
<1>5. f \in Frame /\ F \in Seq(Frame) /\ Len(F) = Len(out[t].frames) - 1 /\ Len(F) \in Nat
      /\ f = out[t].frames[1] /\ \A i \in 1..Len(F) : F[i] = out[t].frames[i + 1]
  BY <1>1, <1>4, SMTT(60)
<1>6. M \in Seq(Masks) /\ Len(M) = Len(F) + 1 /\ \A i \in 1..Len(M) : M[i] = hist[t].masks[i + 1]
  <2>1. Len(hist[t].masks) \in Nat /\ Len(hist[t].masks) # 0
    BY <1>1, <1>4, SMTT(60)
  <2>2. hist[t].masks # <<>>
    BY <1>4, <2>1
  <2>3. /\ M \in Seq(Masks) /\ Len(M) = Len(hist[t].masks) - 1
        /\ \A i \in 1..Len(M) : M[i] = hist[t].masks[i + 1]
    BY <1>4, <2>2, TailOf, ZenonT(60)
  <2>4. Len(out[t].frames) \in Nat
    BY <1>4, SMTT(60)
  <2> HIDE DEF M, F, f
  <2> QED BY <1>4, <1>5, <2>3, <2>4, SMTT(60)
<1>7. B \in Masks /\ f.call \in Calls
  BY <1>5 DEF Frame
<1>8. ret # "block"
  OBVIOUS
<1> HIDE DEF f, F, M, B, p, h, ret
<1>9. p \in Rec
  BY <1>3, <1>5, <1>7, Zenon DEF Rec, p
<1>10. /\ p.blocked = B /\ p.prev = out[t].prev /\ p.frames = F /\ p.run = "run"
       /\ p.parked = out[t].parked /\ p.continued = out[t].continued
       /\ p.pending = out[t].pending /\ p.rt = out[t].rt /\ p.stopReported = out[t].stopReported
  BY <1>3 DEF Rec, p
<1>11. /\ h \in Hist /\ h.masks = M /\ h.owed = hist[t].owed /\ h.dropped = hist[t].dropped
       /\ h.got = hist[t].got /\ h.sent = hist[t].sent /\ h.stops = hist[t].stops
       /\ h.stopsTold = hist[t].stopsTold /\ h.conts = hist[t].conts /\ h.contsTold = hist[t].contsTold
  BY <1>3, <1>6, Zenon DEF Hist, h
<1>12. Kept(p, h) /\ Cancelled(p) /\ Told(p, h)
  BY <1>3, <1>10, <1>11, Zenon DEF Core, Kept, Cancelled, Told, Lives
<1>13. Queued(p, h)
  BY <1>3, <1>10, <1>11, ZenonT(60) DEF Core, Queued
<1>14. Masked(p, h)
  <2>1. SuspendsUnstopped => \A i \in 1..Len(out[t].frames) : out[t].frames[i].mask = hist[t].masks[i + 1]
    BY <1>3, Zenon DEF Core, Masked
  <2>2. ASSUME SuspendsUnstopped, NEW i \in 1..Len(F) PROVE F[i].mask = M[i + 1]
    <3>1. i + 1 \in 1..Len(out[t].frames) /\ i + 1 \in 1..Len(M) /\ i \in Nat
      BY <1>4, <1>5, <1>6, SMTT(60)
    <3>2. F[i] = out[t].frames[i + 1] /\ M[i + 1] = hist[t].masks[(i + 1) + 1]
      BY <1>5, <1>6, <3>1, ZenonT(60)
    <3> QED BY <2>1, <2>2, <3>1, <3>2, ZenonT(60)
  <2>3. SuspendsUnstopped => M[1] = B
    <3>1. 1 \in 1..Len(out[t].frames) /\ 1 \in 1..Len(M)
      BY <1>4, <1>5, <1>6, SMTT(60)
    <3>2. M[1] = hist[t].masks[1 + 1]
      BY <1>6, <3>1
    <3> QED BY <1>5, <2>1, <3>1, <3>2, ZenonT(60) DEF B
  <2> QED BY <1>3, <1>6, <1>10, <1>11, <2>2, <2>3, ZenonT(60) DEF Masked
<1>15. Core(p, h)
  BY <1>3, <1>9, <1>10, <1>11, <1>12, <1>13, <1>14, ZenonT(60) DEF Core
<1>16. Sound(r.me, r.h) /\ After(r.me, p, NoCall, ret)
  BY <1>3, <1>10, <1>15, NoCallIsOne, AfterCallSound, ZenonT(60)
<1>17. DOMAIN r = {"me", "h"}
  <2>1. \E x, y, z : r = Deliver(x, y, z)
    BY Zenon DEF AfterCall
  <2> QED BY <2>1, DeliverPair, Zenon
<1> HIDE DEF r
<1>18. /\ r.me \in Rec /\ r.h \in Hist /\ r.me.served # "no" /\ r.me.parked = out[t].parked
       /\ r.me.continued = out[t].continued /\ ~(r.me.run = "run" /\ r.me.served = "blocks")
  BY <1>8, <1>10, <1>16, ZenonT(60) DEF After, Sound, Core
<1>19. /\ Sound(e.me, e.h) /\ e.me.run = r.me.run /\ e.me.served = r.me.served
       /\ e.me.parked = r.me.parked /\ e.me.continued = r.me.continued
  <2>1. CASE Len(r.me.frames) = Len(out[t].frames)
    <3> DEFINE g == r.me.frames
               G == [g EXCEPT ![1].call = f.call]
    <3>1. g \in Seq(Frame) /\ Len(g) \in Nat /\ Len(g) >= 1
      <4>1. g \in Seq(Frame)
        BY <1>18, Zenon DEF Rec
      <4>2. Len(out[t].frames) \in Nat /\ Len(out[t].frames) >= 1
        BY <1>5
      <4> QED BY <2>1, <4>1, <4>2, Zenon
    <3>2. e = [r EXCEPT !.me.frames[1].call = f.call]
      BY <2>1
    <3>3. e.me = [r.me EXCEPT !.frames = G] /\ e.h = r.h
      <4> HIDE DEF e
      <4> QED BY <1>17, <3>2, Zenon
    <3> HIDE DEF g, e
    <3> DEFINE k == [i \in 1..Len(g) |-> IF i = 1 THEN [g[1] EXCEPT !.call = f.call] ELSE g[i]]
    <3>4. G = k
      BY <3>1, SMTT(60)
    <3>5. /\ \A i \in 1..Len(g) : g[i] \in Frame
          /\ [g[1] EXCEPT !.call = f.call] \in Frame /\ [g[1] EXCEPT !.call = f.call].mask = g[1].mask
      <4>1. \A i \in 1..Len(g) : g[i] \in Frame
        BY <3>1, SMTT(60)
      <4>2. g[1] \in Frame
        BY <3>1
      <4> QED BY <1>7, <4>1, <4>2 DEF Frame
    <3>6. k \in Seq(Frame) /\ SameMasks(k, g)
      <4>1. \A i \in 1..Len(g) : k[i] \in Frame /\ k[i].mask = g[i].mask
        BY <3>5
      <4>2. k \in [1..Len(g) -> Frame]
        BY <3>5, SMTT(60)
      <4> HIDE DEF k
      <4> QED BY <3>1, <4>1, <4>2, SMTT(60) DEF SameMasks
    <3> HIDE DEF k, G
    <3>7. e.me = Reframed(r.me, k)
      BY <3>3, <3>4, Zenon DEF Reframed
    <3> QED BY <1>16, <3>3, <3>6, <3>7, FramesLike, SMTT(60) DEF g
  <2>2. CASE Len(r.me.frames) # Len(out[t].frames)
    <3> DEFINE q == [r.me EXCEPT !.call = f.call]
    <3>1. e = [r EXCEPT !.me.call = f.call]
      BY <2>2
    <3>2. e.me = q /\ e.h = r.h
      <4> HIDE DEF e
      <4> QED BY <1>17, <3>1, Zenon
    <3> HIDE DEF q, e
    <3>3. q \in Rec
      BY <1>7, <1>18, Zenon DEF Rec, q
    <3>4. Alike(q, r.me) /\ q.parked = r.me.parked /\ q.served = r.me.served
      BY <1>18, Zenon DEF Rec, q, Alike
    <3>5. Sound(q, r.h)
      BY <1>16, <3>3, <3>4, AlikeCore, ZenonT(60) DEF Sound
    <3> QED BY <3>2, <3>4, <3>5, Zenon DEF Alike
  <2> QED BY <2>1, <2>2
<1> HIDE DEF e
<1>20. Step(t, e, table, hist)
  BY <1>1, <1>18, <1>19, AloneStep, ZenonT(60)
<1> QED BY <1>1, <1>2, <1>20, ZenonT(60) DEF Steps

\* wait4 returns with an event of the child m, whose record and history are now q and k.
LEMMA ChildStep ==
    ASSUME SignalInv, NEW t \in Tids, InFlight(t), out[t].served = "no",
           NEW m \in Tids, m # t, NEW q, NEW k, Sound(q, k),
           q.parked = table[m].parked, q.call = table[m].call, q.served = table[m].served,
           Waits(table[m]) => Waits(q), Quiet(table[m]) => Quiet(q)
    PROVE  Step(t, AfterCall(out[t], hist[t], NoCall, "ok"), [table EXCEPT ![m] = q], [hist EXCEPT ![m] = k])
<1> DEFINE ret == "ok"
           r == AfterCall(out[t], hist[t], NoCall, ret)
           tb == [table EXCEPT ![m] = q]
           hs == [hist EXCEPT ![m] = k]
<1>1. ret # "block"
  BY SMTT(60)
<1> SUFFICES Step(t, r, tb, hs)
  BY Zenon
<1> HIDE DEF ret
<1>2. Step(t, r, table, hist)
  BY <1>1, Caller, NoCallIsOne, ReturnStep, ZenonT(60)
<1>3. Sound(r.me, r.h) /\ After(r.me, out[t], NoCall, ret)
  BY Caller, NoCallIsOne, AfterCallSound, Zenon
<1> HIDE DEF r
<1>4. ~(r.me.run = "run" /\ r.me.served = "blocks")
  BY <1>1, <1>3, Zenon DEF After
<1>5. /\ table = [u \in Tids |-> table[u]] /\ hist = [u \in Tids |-> hist[u]]
      /\ \A u \in Tids \ {t} : Sound(table[u], hist[u])
  BY Caller, Zenon
<1>6. tb = [u \in Tids |-> IF u = m THEN q ELSE table[u]]
  BY <1>5, Zenon
<1>7. hs = [u \in Tids |-> IF u = m THEN k ELSE hist[u]]
  BY <1>5, Zenon
<1> HIDE DEF tb, hs
<1>8. /\ \A u \in Tids : u # m => tb[u] = table[u] /\ hs[u] = hist[u]
      /\ tb[m] = q /\ hs[m] = k
  BY <1>6, <1>7, Zenon
<1>9. tb = [u \in Tids |-> tb[u]] /\ hs = [u \in Tids |-> hs[u]]
  BY <1>6, <1>7, Zenon
<1>10. ASSUME NEW u \in Tids \ {t}
       PROVE  /\ Sound(tb[u], hs[u]) /\ tb[u].served = table[u].served
              /\ tb[u].parked => /\ table[u].parked /\ tb[u].call = table[u].call
                                 /\ Waits(table[u]) => Waits(tb[u])
              /\ Quiet(table[u]) => Quiet(tb[u])
  <2>1. CASE u = m
    BY <1>8, <2>1, Zenon
  <2>2. CASE u # m
    BY <1>5, <1>8, <2>2, Zenon
  <2> QED BY <2>1, <2>2, Zenon
<1>11. /\ r.me.served # "no" /\ (r.me.parked => out[t].parked) /\ r.me.continued = out[t].continued
  BY <1>2, Zenon DEF Step
<1> QED BY <1>3, <1>4, <1>8, <1>9, <1>10, <1>11, ZenonT(60) DEF Step

LEMMA Wait4Steps ==
    ASSUME SignalInv, NEW t \in Tids, SysWait4(t)
    PROVE  Steps(t)
<1> DEFINE zombies == {u \in Children(t) : table[u].run = "dead"}
           stopped == {u \in Children(t) : table[u].run = "stop" /\ ~table[u].stopReported}
           continued == {u \in Children(t) : table[u].continued}
           r == AfterCall(out[t], hist[t], NoCall, "ok")
<1>1. InFlight(t) /\ out[t].served = "no" /\ load' = load
  BY DEF SysWait4, Free, Again
<1>2. \/ zombies # {} /\ Serviced(t, r, [table EXCEPT ![Min(zombies)].run = "gone"], hist)
      \/ stopped # {} /\ Serviced(t, r, ToldStop(table, Min(stopped)), [hist EXCEPT ![Min(stopped)].stopsTold = @ + 1])
      \/ continued # {} /\ Serviced(t, r, ToldContinue(table, Min(continued)),
                                    [hist EXCEPT ![Min(continued)].contsTold = @ + 1])
      \/ Serviced(t, r, table, hist)
      \/ /\ stopped = {} /\ continued = {}
         /\ Serviced(t, AfterCall(out[t], hist[t], [op |-> "wait4"], "block"), table, hist)
  BY Zenon DEF SysWait4
<1>3. /\ load \in Workloads /\ out[t].run = "run" /\ Core(out[t], hist[t]) /\ out[t] \in Rec
      /\ (SuspendsUnstopped => out[t].prev = NoMask)
      /\ \A u \in Tids \ {t} : InFlight(u) = FALSE /\ Sound(table[u], hist[u]) /\ table[u] \in Rec
      /\ table = [u \in Tids |-> table[u]] /\ hist = [u \in Tids |-> hist[u]]
  BY <1>1, Caller, ZenonT(60)
<1>4. \A u \in Children(t) : u \in Tids /\ u # t
  BY DEF Children, Seen
<1>5. zombies \subseteq Nat /\ stopped \subseteq Nat /\ continued \subseteq Nat
  BY <1>4, Zenon
<1>6. ASSUME zombies # {}, Serviced(t, r, [table EXCEPT ![Min(zombies)].run = "gone"], hist)
      PROVE  Steps(t)
  <2> DEFINE m == Min(zombies)
             p == table[m]
             k == hist[m]
             q == [p EXCEPT !.run = "gone"]
  <2>1. m \in Tids /\ m # t /\ p.run = "dead"
    BY <1>4, <1>5, <1>6, LeastOf, ZenonT(60)
  <2> HIDE DEF m
  <2>2. [table EXCEPT ![m].run = "gone"] = [table EXCEPT ![m] = q] /\ [hist EXCEPT ![m] = k] = hist
    BY <1>3, <2>1, Zenon
  <2>3. Sound(p, k) /\ p \in Rec
    BY <1>3, <2>1, Zenon
  <2> HIDE DEF p, k, q
  <2>4. q \in Rec
    BY <2>3, Zenon DEF Rec, q
  <2>5. /\ q.run = "gone" /\ q.pending = p.pending /\ q.rt = p.rt /\ q.blocked = p.blocked /\ q.disp = p.disp
        /\ q.prev = p.prev /\ q.frames = p.frames /\ q.call = p.call /\ q.parked = p.parked
        /\ q.continued = p.continued /\ q.served = p.served
    BY <2>3, Zenon DEF Rec, q
  <2>6. Sound(q, k)
    <3>1. Kept(q, k) /\ Cancelled(q) /\ Told(q, k) /\ Undone(q)
      BY <2>1, <2>3, <2>5, ZenonT(60) DEF Sound, Core, Kept, Cancelled, Told, Lives, Undone
    <3>2. Queued(q, k)
      BY <2>3, <2>5, Zenon DEF Sound, Core, Queued
    <3>3. Masked(q, k) /\ (q.prev # NoMask => "suspend" \in load.ops)
      BY <2>3, <2>5, ZenonT(60) DEF Sound, Core, Masked
    <3> QED BY <2>3, <2>4, <3>1, <3>2, <3>3, ZenonT(60) DEF Sound, Core
  <2>7. Quiet(q)
    BY <2>5, SMTT(60) DEF Quiet, Lives
  <2>8. Waits(p) => Waits(q)
    BY <2>5, SMTT(60) DEF Waits, Ignores
  <2>9. Step(t, r, [table EXCEPT ![m] = q], [hist EXCEPT ![m] = k])
    BY <1>1, <2>1, <2>5, <2>6, <2>7, <2>8, ChildStep, Zenon DEF p
  <2> QED BY <1>1, <1>6, <2>2, <2>9, ZenonT(60) DEF Steps, m
<1>7. ASSUME stopped # {}, Serviced(t, r, ToldStop(table, Min(stopped)),
                                  [hist EXCEPT ![Min(stopped)].stopsTold = @ + 1])
      PROVE  Steps(t)
  <2> DEFINE m == Min(stopped)
             p == table[m]
             h == hist[m]
             n == h.stopsTold + 1
             q == [p EXCEPT !.stopReported = TRUE]
             k == [h EXCEPT !.stopsTold = n]
  <2>1. m \in Tids /\ m # t /\ p.run = "stop" /\ ~p.stopReported
    BY <1>4, <1>5, <1>7, LeastOf, ZenonT(60)
  <2> HIDE DEF m
  <2>2. ToldStop(table, m) = [table EXCEPT ![m] = q] /\ [hist EXCEPT ![m].stopsTold = @ + 1] = [hist EXCEPT ![m] = k]
    BY <1>3, <2>1, ZenonT(60) DEF ToldStop
  <2>3. Sound(p, h) /\ p \in Rec /\ h \in Hist
    BY <1>3, <2>1, ZenonT(60) DEF Sound, Core
  <2> HIDE DEF p, h
  <2>4. h.stops \in Nat /\ h.stopsTold \in Nat /\ h.conts \in Nat /\ h.contsTold \in Nat /\ n \in Nat
    BY <2>3 DEF Hist
  <2> HIDE DEF q, k, n
  <2>5. q \in Rec
    BY <2>3, Zenon DEF Rec, q
  <2>6. /\ q.run = p.run /\ q.pending = p.pending /\ q.rt = p.rt /\ q.blocked = p.blocked /\ q.disp = p.disp
        /\ q.prev = p.prev /\ q.frames = p.frames /\ q.call = p.call /\ q.parked = p.parked
        /\ q.served = p.served /\ q.stopReported = TRUE /\ q.continued = p.continued
    BY <2>3 DEF Rec, q
  <2>7. /\ k \in Hist /\ k.stopsTold = n /\ k.contsTold = h.contsTold
        /\ k.masks = h.masks /\ k.owed = h.owed /\ k.dropped = h.dropped /\ k.got = h.got
        /\ k.sent = h.sent /\ k.stops = h.stops /\ k.conts = h.conts
    BY <2>3, <2>4, Zenon DEF Hist, k
  <2>8. Sound(q, k)
    <3>1. Kept(q, k) /\ Cancelled(q) /\ Undone(q)
      BY <2>3, <2>6, <2>7, Zenon DEF Sound, Core, Kept, Cancelled, Lives, Undone
    <3>2. Told(q, k)
      <4>1. h.stopsTold < h.stops /\ h.contsTold <= h.conts /\ (p.continued => h.contsTold < h.conts)
        BY <2>1, <2>3, Zenon DEF Sound, Core, Told
      <4>2. n <= h.stops
        BY <2>4, <4>1 DEF n
      <4> QED BY <2>6, <2>7, <4>1, <4>2, Zenon DEF Told
    <3>3. Queued(q, k)
      BY <2>3, <2>6, <2>7, ZenonT(60) DEF Sound, Core, Queued
    <3>4. Masked(q, k) /\ (q.prev # NoMask => "suspend" \in load.ops)
      BY <2>3, <2>6, <2>7, SMTT(60) DEF Sound, Core, Masked
    <3> QED BY <2>5, <2>7, <3>1, <3>2, <3>3, <3>4, ZenonT(60) DEF Sound, Core
  <2>9. Quiet(p) => Quiet(q)
    BY <2>6, ZenonT(60) DEF Quiet, Lives
  <2>10. Waits(p) => Waits(q)
    BY <2>6, SMTT(60) DEF Waits, Ignores
  <2>11. Step(t, r, [table EXCEPT ![m] = q], [hist EXCEPT ![m] = k])
    BY <1>1, <2>1, <2>6, <2>8, <2>9, <2>10, ChildStep, ZenonT(60) DEF p
  <2> QED BY <1>1, <1>7, <2>2, <2>11, ZenonT(60) DEF Steps, m
<1>8. ASSUME continued # {}, Serviced(t, r, ToldContinue(table, Min(continued)),
                                  [hist EXCEPT ![Min(continued)].contsTold = @ + 1])
      PROVE  Steps(t)
  <2> DEFINE m == Min(continued)
             p == table[m]
             h == hist[m]
             n == h.contsTold + 1
             q == [p EXCEPT !.continued = FALSE]
             k == [h EXCEPT !.contsTold = n]
  <2>1. m \in Tids /\ m # t /\ p.continued
    BY <1>4, <1>5, <1>8, LeastOf, ZenonT(60)
  <2> HIDE DEF m
  <2>2. ToldContinue(table, m) = [table EXCEPT ![m] = q] /\ [hist EXCEPT ![m].contsTold = @ + 1] = [hist EXCEPT ![m] = k]
    BY <1>3, <2>1, SMTT(60) DEF ToldContinue
  <2>3. Sound(p, h) /\ p \in Rec /\ h \in Hist
    BY <1>3, <2>1, ZenonT(60) DEF Sound, Core
  <2> HIDE DEF p, h
  <2>4. h.stops \in Nat /\ h.stopsTold \in Nat /\ h.conts \in Nat /\ h.contsTold \in Nat /\ n \in Nat
    BY <2>3, SMTT(60) DEF Hist
  <2> HIDE DEF q, k, n
  <2>5. q \in Rec
    BY <2>3, Zenon DEF Rec, q
  <2>6. /\ q.run = p.run /\ q.pending = p.pending /\ q.rt = p.rt /\ q.blocked = p.blocked /\ q.disp = p.disp
        /\ q.prev = p.prev /\ q.frames = p.frames /\ q.call = p.call /\ q.parked = p.parked
        /\ q.served = p.served /\ q.continued = FALSE /\ q.stopReported = p.stopReported
    BY <2>3, SMTT(60) DEF Rec, q
  <2>7. /\ k \in Hist /\ k.contsTold = n /\ k.stopsTold = h.stopsTold
        /\ k.masks = h.masks /\ k.owed = h.owed /\ k.dropped = h.dropped /\ k.got = h.got
        /\ k.sent = h.sent /\ k.stops = h.stops /\ k.conts = h.conts
    BY <2>3, <2>4, ZenonT(60) DEF Hist, k
  <2>8. Sound(q, k)
    <3>1. Kept(q, k) /\ Cancelled(q) /\ Undone(q)
      BY <2>3, <2>6, <2>7, ZenonT(60) DEF Sound, Core, Kept, Cancelled, Lives, Undone
    <3>2. Told(q, k)
      <4>1. /\ h.stopsTold <= h.stops /\ h.contsTold < h.conts
            /\ p.run = "stop" /\ ~p.stopReported => h.stopsTold < h.stops
        BY <2>1, <2>3, ZenonT(60) DEF Sound, Core, Told
      <4>2. n <= h.conts
        BY <2>4, <4>1 DEF n
      <4> QED BY <2>6, <2>7, <4>1, <4>2, ZenonT(60) DEF Told
    <3>3. Queued(q, k)
      BY <2>3, <2>6, <2>7, ZenonT(60) DEF Sound, Core, Queued
    <3>4. Masked(q, k) /\ (q.prev # NoMask => "suspend" \in load.ops)
      BY <2>3, <2>6, <2>7, ZenonT(60) DEF Sound, Core, Masked
    <3> QED BY <2>5, <2>7, <3>1, <3>2, <3>3, <3>4, ZenonT(60) DEF Sound, Core
  <2>9. Quiet(p) => Quiet(q)
    BY <2>6, ZenonT(60) DEF Quiet, Lives
  <2>10. Waits(p) => Waits(q)
    BY <2>6, SMTT(60) DEF Waits, Ignores
  <2>11. Step(t, r, [table EXCEPT ![m] = q], [hist EXCEPT ![m] = k])
    BY <1>1, <2>1, <2>6, <2>8, <2>9, <2>10, ChildStep, ZenonT(60) DEF p
  <2> QED BY <1>1, <1>8, <2>2, <2>11, ZenonT(60) DEF Steps, m
<1>9. ASSUME Serviced(t, r, table, hist) PROVE Steps(t)
  <2> DEFINE ret == "ok"
  <2>1. ret # "block"
    OBVIOUS
  <2>2. r = AfterCall(out[t], hist[t], NoCall, ret)
    BY Zenon
  <2> HIDE DEF ret
  <2>3. Step(t, AfterCall(out[t], hist[t], NoCall, ret), table, hist)
    BY <1>1, <1>3, <2>1, NoCallIsOne, ReturnStep, ZenonT(60)
  <2> HIDE DEF r
  <2> QED BY <1>1, <1>9, <2>2, <2>3, Zenon DEF Steps
<1>10. ASSUME stopped = {}, continued = {},
              Serviced(t, AfterCall(out[t], hist[t], [op |-> "wait4"], "block"), table, hist)
       PROVE  Steps(t)
  <2> DEFINE c == [op |-> "wait4"]
  <2>1. c \in Calls /\ c.op = "wait4"
    BY Zenon DEF Calls, Wait4Call
  <2>2. ASSUME NEW v \in Tids, Parent[v] = t PROVE Quiet(table[v])
    <3>1. v # t /\ v \in Seen
      BY <1>3, <2>2, ZenonT(60) DEF Seen, InFlight
    <3>2. Lives(table[v]) => v \in Children(t)
      BY <2>2, <3>1, Zenon DEF Children, Lives
    <3> QED BY <1>10, <3>2, ZenonT(60) DEF Quiet
  <2> HIDE DEF c
  <2>3. Step(t, AfterCall(out[t], hist[t], c, "block"), table, hist)
    BY <1>1, <1>3, <2>1, <2>2, BlockStep, ZenonT(60)
  <2> QED BY <1>1, <1>10, <2>3, ZenonT(60) DEF Steps, c
<1> QED BY <1>2, <1>6, <1>7, <1>8, <1>9, <1>10, ZenonT(60)

------------------------------------------------------------------------------
(* kill, tgkill, sigqueue.                                                 *)

\* The slot p of a task that s is posted to, or that is told of a child's event,
\* is now q with the history k: one that stays parked has nothing new to do.
SlotOf(q, k, p, s) ==
    /\ Sound(q, k) /\ q.served = p.served
    /\ q.parked => p.parked /\ q.call = p.call /\ (Waits(p) => Waits(q))
    /\ ~Resumes(p, s) /\ Quiet(p) => Quiet(q)

\* The next entry of the queue of a task with the history h, or none.
EntryOf(m, p, h, s) == m \in Nat /\ (m = 0 \/ (s = RT /\ ~Discards(p, FALSE, s) /\ m = h.sent + 1))

LEMMA PostedSlot ==
    ASSUME load \in Workloads, NEW p, NEW h, Sound(p, h), NEW s \in Posts, NEW m, EntryOf(m, p, h, s)
    PROVE  SlotOf(Posted(p, FALSE, s, m), OwedSent(h, p, s, m), p, s)
<1> DEFINE q == Posted(p, FALSE, s, m)
           k == OwedSent(h, p, s, m)
<1>1. m \in Nat /\ (m = 0 \/ (s = RT /\ ~Discards(p, FALSE, s) /\ m = h.sent + 1))
  BY Zenon DEF EntryOf
<1>2. Sound(q, k) /\ PostOf(q, p, s, m)
  BY <1>1, PostedSound, Zenon
<1> SUFFICES SlotOf(q, k, p, s)
  BY ZenonT(60)
<1> HIDE DEF q, k
<1>3. ASSUME q.parked PROVE p.parked /\ q.call = p.call /\ (Waits(p) => Waits(q))
  <2>1. Discards(p, FALSE, s) /\ ~Resumes(p, s)
    BY <1>2, <1>3, Zenon DEF PostOf
  <2>2. q.parked = p.parked /\ q.call = p.call /\ q.blocked = p.blocked /\ q.disp = p.disp
    BY <1>2, <2>1, Zenon DEF PostOf
  <2>3. q.pending \subseteq p.pending
    BY <1>2, <2>1, Zenon DEF PostOf, With
  <2> QED BY <1>3, <2>2, <2>3, SMTT(60) DEF Waits, Ignores
<1>4. (~Resumes(p, s) /\ Quiet(p) => Quiet(q)) /\ q.served = p.served
  BY <1>2, Zenon DEF PostOf, Quiet, Lives
<1> QED BY <1>2, <1>3, <1>4, ZenonT(60) DEF SlotOf

LEMMA InformedSlot ==
    ASSUME load \in Workloads, NEW q, NEW k, NEW p, NEW s, SlotOf(q, k, p, s)
    PROVE  SlotOf(Informed(q, FALSE), OwedChild(k, q, FALSE), p, s) /\ Informed(q, FALSE).parked = FALSE
<1> DEFINE i == Informed(q, FALSE)
           o == OwedChild(k, q, FALSE)
<1>1. Sound(q, k)
  BY SMTT(60) DEF SlotOf
<1>2. /\ Sound(i, o) /\ i.parked = FALSE /\ i.served = q.served
      /\ i.run = q.run /\ i.continued = q.continued /\ i.stopReported = q.stopReported
  BY <1>1, ChildSound, Zenon
<1> HIDE DEF i, o
<1>3. Quiet(q) => Quiet(i)
  BY <1>2, Zenon DEF Quiet, Lives
<1>4. SlotOf(i, o, p, s)
  BY <1>2, <1>3, Zenon DEF SlotOf
<1> QED BY <1>2, <1>4, ZenonT(60) DEF i, o

\* What a post leaves of the caller's own record.
SelfOf(m, k, p) ==
    Sound(m, k) /\ m.run = "run" /\ (m.parked => p.parked) /\ m.continued = p.continued

LEMMA PostedSelf ==
    ASSUME load \in Workloads, NEW p, NEW h, Sound(p, h), p.run = "run", NEW s \in Posts,
           NEW m, EntryOf(m, p, h, s)
    PROVE  SelfOf(Posted(p, FALSE, s, m), OwedSent(h, p, s, m), p)
<1> DEFINE q == Posted(p, FALSE, s, m)
           k == OwedSent(h, p, s, m)
<1>1. m \in Nat /\ (m = 0 \/ (s = RT /\ ~Discards(p, FALSE, s) /\ m = h.sent + 1))
  BY Zenon DEF EntryOf
<1>2. Sound(q, k) /\ PostOf(q, p, s, m)
  BY <1>1, PostedSound, Zenon
<1> SUFFICES SelfOf(q, k, p)
  BY Zenon
<1> HIDE DEF q, k
<1>3. ~Resumes(p, s)
  BY SMTT(60) DEF Resumes
<1>4. q.run = "run" /\ q.continued = p.continued /\ (q.parked => p.parked)
  BY <1>2, <1>3, Zenon DEF PostOf
<1> QED BY <1>2, <1>4, Zenon DEF SelfOf

LEMMA RaisedSelf ==
    ASSUME load \in Workloads, NEW m, NEW k, NEW p, SelfOf(m, k, p)
    PROVE  SelfOf(Raise(m, FALSE, CHLD), OwedChild(k, m, FALSE), p)
<1> DEFINE q == Raise(m, FALSE, CHLD)
           o == OwedChild(k, m, FALSE)
<1>1. Sound(m, k) /\ m.run = "run" /\ (m.parked => p.parked) /\ m.continued = p.continued
  BY Zenon DEF SelfOf
<1>2. Sound(q, o) /\ RaiseOf(q, m, CHLD, 0)
  BY <1>1, ChildSound, Zenon
<1> SUFFICES SelfOf(q, o, p)
  BY Zenon
<1> HIDE DEF q, o
<1>3. q.run = "run" /\ q.continued = p.continued /\ (q.parked => p.parked)
  BY <1>1, <1>2, Zenon DEF RaiseOf
<1> QED BY <1>2, <1>3, Zenon DEF SelfOf

\* post_signal, when no record it reaches is out: the slots of S, the caller if self.
LEMMA PostSteps ==
    ASSUME ~Smp, SignalInv, NEW t \in Tids, InFlight(t), out[t].served = "no", load' = load,
           NEW self, NEW S, S \subseteq Tids \ {t}, NEW s \in Posts, NEW n,
           \A u \in S : EntryOf(n[u], table[u], hist[u], s),
           self => EntryOf(n[t], out[t], hist[t], s),
           PostSignal(t, self, S, s, n)
    PROVE  Steps(t)
<1> DEFINE resumed == {u \in S : Resumes(table[u], s)}
           told == {Parent[u] : u \in resumed}
           me == IF self THEN Posted(out[t], FALSE, s, n[t]) ELSE out[t]
           tb == [u \in Tids |-> IF u \in S THEN Posted(table[u], InFlight(u), s, n[u]) ELSE table[u]]
           hs == [u \in Tids |->
                    LET h == IF u \in S THEN OwedPosted(hist[u], table[u], InFlight(u), s)
                             ELSE IF self /\ u = t THEN OwedPosted(hist[u], out[u], FALSE, s)
                             ELSE hist[u]
                    IN  IF u \in S \/ (self /\ u = t) THEN [h EXCEPT !.sent = Max({@, n[u]})] ELSE h]
           toldOthers == {u \in told \ {t} : u \in Seen}
           m == IF t \in told THEN Raise(me, FALSE, CHLD) ELSE me
           k == IF t \in told THEN OwedChild(hs[t], me, FALSE) ELSE hs[t]
           r == AfterCall(m, k, NoCall, "ok")
           ta == [u \in Tids |-> IF u \in toldOthers THEN Informed(tb[u], InFlight(u)) ELSE tb[u]]
           ha == [u \in Tids |-> IF u \in toldOthers THEN OwedChild(hs[u], tb[u], InFlight(u)) ELSE hs[u]]
<1>1. Serviced(t, r, ta, ha)
  BY Zenon DEF PostSignal
<1>2. /\ load \in Workloads /\ out[t].run = "run" /\ Sound(out[t], hist[t])
      /\ \A u \in Tids \ {t} : InFlight(u) = FALSE /\ Sound(table[u], hist[u])
  BY Caller, Zenon
<1>3. ASSUME NEW u \in S
      PROVE  tb[u] = Posted(table[u], FALSE, s, n[u]) /\ hs[u] = OwedSent(hist[u], table[u], s, n[u])
  <2>1. u \in Tids /\ u # t /\ InFlight(u) = FALSE
    BY <1>2, Zenon
  <2>2. tb[u] = Posted(table[u], InFlight(u), s, n[u])
    BY <2>1, Zenon
  <2>3. hs[u] = [OwedPosted(hist[u], table[u], InFlight(u), s) EXCEPT !.sent = Max({@, n[u]})]
    BY <2>1, Zenon
  <2> QED BY <2>1, <2>2, <2>3, Zenon DEF OwedSent
<1>4. ASSUME NEW u \in Tids, u \notin S, u # t PROVE tb[u] = table[u] /\ hs[u] = hist[u]
  BY <1>4, Zenon
<1>5. tb[t] = table[t] /\ (~self => hs[t] = hist[t])
  BY Zenon
<1>6. self => hs[t] = OwedSent(hist[t], out[t], s, n[t])
  BY Zenon DEF OwedSent
<1>7. ASSUME NEW u \in toldOthers
      PROVE  ta[u] = Informed(tb[u], FALSE) /\ ha[u] = OwedChild(hs[u], tb[u], FALSE)
  <2>1. u \in Tids /\ u # t
    BY Zenon DEF Seen
  <2>2. InFlight(u) = FALSE
    BY <1>2, <2>1, Zenon
  <2> HIDE DEF toldOthers, tb, hs
  <2>3. ta[u] = Informed(tb[u], InFlight(u)) /\ ha[u] = OwedChild(hs[u], tb[u], InFlight(u))
    BY <2>1, Zenon
  <2> QED BY <2>2, <2>3, Zenon
<1>8. ASSUME NEW u \in Tids, u \notin toldOthers PROVE ta[u] = tb[u] /\ ha[u] = hs[u]
  BY <1>8, Zenon
<1>9. ta = [u \in Tids |-> ta[u]] /\ ha = [u \in Tids |-> ha[u]]
  BY ZenonT(60)
<1>10. \A u \in S : Resumes(table[u], s) => Parent[u] \in told
  BY Zenon
<1>11. \A u \in Tids : u \in told /\ u # t => u \in toldOthers
  BY <1>2, Zenon DEF Seen, InFlight
<1>12. SelfOf(m, k, out[t])
  <2>1. SelfOf(me, hs[t], out[t])
    <3> HIDE DEF hs
    <3>1. CASE self
      <4>1. SelfOf(Posted(out[t], FALSE, s, n[t]), OwedSent(hist[t], out[t], s, n[t]), out[t])
        BY <1>2, <3>1, PostedSelf, Zenon
      <4> QED BY <1>6, <3>1, <4>1, Zenon
    <3>2. CASE ~self
      BY <1>2, <1>5, <3>2, Zenon DEF SelfOf
    <3> QED BY <3>1, <3>2, Zenon
  <2> HIDE DEF me, hs, told
  <2>2. SelfOf(Raise(me, FALSE, CHLD), OwedChild(hs[t], me, FALSE), out[t])
    BY <1>2, <2>1, RaisedSelf, Zenon
  <2> QED BY <2>1, <2>2, Zenon
<1> HIDE DEF m, k, me, resumed
<1>13. /\ Sound(r.me, r.h) /\ r.me.served # "no" /\ (r.me.parked => out[t].parked)
       /\ r.me.continued = out[t].continued /\ ~(r.me.run = "run" /\ r.me.served = "blocks")
  <2> DEFINE ret == "ok"
             a == AfterCall(m, k, NoCall, ret)
  <2>1. ret # "block" /\ r = a
    BY Zenon
  <2> HIDE DEF ret, r
  <2>2. Core(m, k) /\ m.run = "run" /\ (m.parked => out[t].parked) /\ m.continued = out[t].continued
    BY <1>12, Zenon DEF SelfOf, Sound
  <2>3. Sound(a.me, a.h) /\ After(a.me, m, NoCall, ret)
    BY <1>2, <2>2, NoCallIsOne, AfterCallSound, ZenonT(60)
  <2> HIDE DEF a
  <2> QED BY <2>1, <2>2, <2>3, Zenon DEF After
<1> HIDE DEF r, tb, hs, ta, ha, told, toldOthers
<1>14. ASSUME NEW u \in Tids \ {t} PROVE SlotOf(tb[u], hs[u], table[u], s)
  <2>1. CASE u \in S
    <3>1. EntryOf(n[u], table[u], hist[u], s) /\ Sound(table[u], hist[u])
      BY <1>2, <2>1, Zenon
    <3>2. SlotOf(Posted(table[u], FALSE, s, n[u]), OwedSent(hist[u], table[u], s, n[u]), table[u], s)
      BY <1>2, <3>1, PostedSlot, Zenon
    <3> QED BY <1>3, <2>1, <3>2, Zenon
  <2>2. CASE u \notin S
    <3>1. tb[u] = table[u] /\ hs[u] = hist[u] /\ Sound(table[u], hist[u])
      BY <1>2, <1>4, <2>2, Zenon
    <3> QED BY <3>1, Zenon DEF SlotOf
  <2> QED BY <2>1, <2>2, Zenon
<1>15. ASSUME NEW u \in Tids \ {t}
       PROVE  SlotOf(ta[u], ha[u], table[u], s) /\ (u \in told => ta[u].parked = FALSE)
  <2>1. SlotOf(tb[u], hs[u], table[u], s)
    BY <1>14, Zenon
  <2>2. CASE u \in toldOthers
    <3>1. /\ SlotOf(Informed(tb[u], FALSE), OwedChild(hs[u], tb[u], FALSE), table[u], s)
          /\ Informed(tb[u], FALSE).parked = FALSE
      BY <1>2, <2>1, InformedSlot, Zenon
    <3> QED BY <1>7, <2>2, <3>1, Zenon
  <2>3. CASE u \notin toldOthers
    BY <1>8, <1>11, <2>1, <2>3, Zenon
  <2> QED BY <2>2, <2>3, Zenon
<1>16. ASSUME NEW u \in Tids \ {t}, NEW v \in Tids \ {t}, ta[u].parked, Parent[v] = u, Quiet(table[v])
       PROVE  Quiet(ta[v])
  <2>1. u \notin told
    BY <1>15, <1>16, Zenon
  <2>2. CASE v \in S
    <3>1. ~Resumes(table[v], s)
      BY <1>10, <1>16, <2>1, <2>2, Zenon
    <3> QED BY <1>15, <1>16, <3>1, Zenon DEF SlotOf
  <2>3. CASE v \notin S
    <3>1. tb[v] = table[v] /\ hs[v] = hist[v] /\ Sound(tb[v], hs[v])
      BY <1>2, <1>4, <2>3, Zenon
    <3>2. ta[v] = tb[v] \/ ta[v] = Informed(tb[v], FALSE)
      BY <1>7, <1>8, Zenon
    <3>3. /\ Informed(tb[v], FALSE).run = tb[v].run /\ Informed(tb[v], FALSE).continued = tb[v].continued
          /\ Informed(tb[v], FALSE).stopReported = tb[v].stopReported
      BY <1>2, <3>1, ChildSound, Zenon
    <3> QED BY <1>16, <3>1, <3>2, <3>3, ZenonT(60) DEF Quiet, Lives
  <2> QED BY <2>2, <2>3, Zenon
<1>17. ta[t] = table[t]
  <2>1. t \notin toldOthers
    BY Zenon DEF toldOthers
  <2> QED BY <1>5, <1>8, <2>1, Zenon
<1>18. Step(t, r, ta, ha)
  <2>1. \A u \in Tids \ {t} :
           /\ Sound(ta[u], ha[u]) /\ ta[u].served = table[u].served
           /\ ta[u].parked => table[u].parked /\ ta[u].call = table[u].call /\ (Waits(table[u]) => Waits(ta[u]))
    BY <1>15, Zenon DEF SlotOf
  <2> QED BY <1>9, <1>13, <1>16, <1>17, <2>1, Zenon DEF Step
<1> QED BY <1>1, <1>18, Zenon DEF Steps

\* The entries that kill, tgkill and sigqueue number.
LEMMA EntryIs ==
    ASSUME SignalInv, NEW t \in Tids, InFlight(t), out[t].served = "no", NEW u \in Tids, NEW s
    PROVE  /\ u # t => EntryOf(Entry(u, Record(u), InFlight(u) /\ u # t, s), table[u], hist[u], s)
           /\ u = t => EntryOf(Entry(u, Record(u), InFlight(u) /\ u # t, s), out[t], hist[t], s)
<1>1. /\ \A v \in Tids \ {t} : InFlight(v) = FALSE
      /\ hist[u].sent \in Nat
  <2>1. hist[u] \in Hist
    BY Zenon DEF SignalInv
  <2> QED BY <2>1, Caller, Zenon DEF Hist
<1>2. (InFlight(u) /\ u # t) = FALSE
  BY <1>1
<1>3. Entry(u, Record(u), InFlight(u) /\ u # t, s) = Entry(u, Record(u), FALSE, s)
  BY <1>2, Zenon
<1>4. EntryOf(Entry(u, Record(u), FALSE, s), Record(u), hist[u], s)
  <2> DEFINE p == Record(u)
             h == hist[u]
             next == h.sent + 1
             e == Entry(u, p, FALSE, s)
  <2>1. next \in Nat /\ 0 \in Nat
    BY <1>1
  <2>2. CASE s = RT /\ ~Discards(p, FALSE, s)
    <3>1. e = next
      BY <2>2, Zenon DEF Entry
    <3> QED BY <2>1, <2>2, <3>1, Zenon DEF EntryOf
  <2>3. CASE ~(s = RT /\ ~Discards(p, FALSE, s))
    <3>1. e = 0
      BY <2>3, Zenon DEF Entry
    <3> QED BY <2>1, <3>1, Zenon DEF EntryOf
  <2> QED BY <2>2, <2>3, Zenon
<1>5. (u # t => Record(u) = table[u]) /\ (u = t => Record(u) = out[t])
  BY <1>1, Zenon DEF Record
<1> QED BY <1>3, <1>4, <1>5, Zenon

LEMMA NoEntry ==
    ASSUME NEW p, NEW h, NEW s
    PROVE  EntryOf(0, p, h, s)
BY DEF EntryOf

LEMMA KillSteps ==
    ASSUME ~Smp, SignalInv, NEW t \in Tids, NEW u \in Tids, NEW s \in load.sigs, SysKill(t, u, s)
    PROVE  Steps(t)
<1> DEFINE n == [v \in Tids |-> IF v = u /\ ~QueueFull(t) THEN Entry(v, Record(v), InFlight(v) /\ v # t, s) ELSE 0]
           self == u = t
           S == {u} \ {t}
<1>1. InFlight(t) /\ out[t].served = "no" /\ load' = load
  BY DEF SysKill, Free
<1>2. PostSignal(t, self, S, s, n)
  BY Zenon DEF SysKill
<1>3. s \in Posts
  BY DEF Posts
<1>4. n[u] = 0 \/ n[u] = Entry(u, Record(u), InFlight(u) /\ u # t, s)
  BY Zenon
<1>5. u # t => EntryOf(n[u], table[u], hist[u], s)
  BY <1>1, <1>4, EntryIs, NoEntry, Zenon
<1>6. u = t => EntryOf(n[u], out[t], hist[t], s)
  BY <1>1, <1>4, EntryIs, NoEntry, Zenon
<1> HIDE DEF n
<1>7. \A v \in S : EntryOf(n[v], table[v], hist[v], s)
  BY <1>5, Zenon
<1>8. self => EntryOf(n[t], out[t], hist[t], s)
  BY <1>6, Zenon
<1>9. S \subseteq Tids \ {t}
  BY Zenon
<1> HIDE DEF self, S
<1> QED BY <1>1, <1>2, <1>3, <1>7, <1>8, <1>9, PostSteps, ZenonT(60)

LEMMA SigqueueSteps ==
    ASSUME ~Smp, SignalInv, NEW t \in Tids, NEW u \in Tids, SysSigqueue(t, u)
    PROVE  Steps(t)
<1>1. InFlight(t) /\ out[t].served = "no" /\ load' = load
  BY Zenon DEF SysSigqueue, Free
<1>2. RT \in Posts
  BY DEF SysSigqueue, Posts
<1>3. CASE QueueFull(t)
  <2> DEFINE n == [v \in Tids |-> 0]
             S == {}
             self == FALSE
  <2>1. PostSignal(t, self, S, RT, n)
    BY <1>3, Zenon DEF SysSigqueue
  <2>2. S \subseteq Tids \ {t} /\ (\A v \in S : EntryOf(n[v], table[v], hist[v], RT)) /\ ~self
    OBVIOUS
  <2> HIDE DEF n, S, self
  <2> QED BY <1>1, <1>2, <2>1, <2>2, PostSteps, Zenon
<1>4. CASE ~QueueFull(t)
  <2> DEFINE n == [v \in Tids |-> IF v = u THEN Entry(v, Record(v), InFlight(v) /\ v # t, RT) ELSE 0]
             self == u = t
             S == {u} \ {t}
  <2>1. PostSignal(t, self, S, RT, n)
    BY <1>4, Zenon DEF SysSigqueue
  <2>2. n[u] = Entry(u, Record(u), InFlight(u) /\ u # t, RT)
    BY Zenon
  <2>3. u # t => EntryOf(n[u], table[u], hist[u], RT)
    BY <1>1, <2>2, EntryIs, Zenon
  <2>4. u = t => EntryOf(n[u], out[t], hist[t], RT)
    BY <1>1, <2>2, EntryIs, Zenon
  <2> HIDE DEF n
  <2>5. \A v \in S : EntryOf(n[v], table[v], hist[v], RT)
    BY <2>3, Zenon
  <2>6. self => EntryOf(n[t], out[t], hist[t], RT)
    BY <2>4, Zenon
  <2>7. S \subseteq Tids \ {t}
    BY SMTT(60)
  <2> HIDE DEF self, S
  <2> QED BY <1>1, <1>2, <2>1, <2>5, <2>6, <2>7, PostSteps, ZenonT(60)
<1> QED BY <1>3, <1>4, Zenon

LEMMA KillGroupSteps ==
    ASSUME ~Smp, SignalInv, NEW t \in Tids, NEW s \in load.sigs, SysKillGroup(t, s)
    PROVE  Steps(t)
<1> DEFINE n == [v \in Tids |-> Entry(v, Record(v), InFlight(v) /\ v # t, s)]
           S == {u \in Seen : table[u].run # "gone"}
           self == TRUE
<1>1. InFlight(t) /\ out[t].served = "no" /\ load' = load
  BY Zenon DEF SysKillGroup, Free
<1>2. PostSignal(t, self, S, s, n)
  BY Zenon DEF SysKillGroup
<1>3. s \in Posts
  BY DEF Posts
<1>4. \A v \in Tids : n[v] = Entry(v, Record(v), InFlight(v) /\ v # t, s)
  BY Zenon
<1>5. S \subseteq Tids \ {t}
  BY <1>1, Zenon DEF Seen, InFlight
<1> HIDE DEF n, S
<1>6. ASSUME NEW v \in S PROVE EntryOf(n[v], table[v], hist[v], s)
  <2>1. v \in Tids /\ v # t
    BY <1>5, Zenon
  <2>2. n[v] = Entry(v, Record(v), InFlight(v) /\ v # t, s)
    BY <1>4, <2>1, Zenon
  <2>3. EntryOf(Entry(v, Record(v), InFlight(v) /\ v # t, s), table[v], hist[v], s)
    BY <1>1, <2>1, EntryIs, Zenon
  <2> QED BY <2>2, <2>3, Zenon
<1>7. EntryOf(n[t], out[t], hist[t], s)
  <2>1. n[t] = Entry(t, Record(t), InFlight(t) /\ t # t, s)
    BY <1>4, Zenon
  <2>2. EntryOf(Entry(t, Record(t), InFlight(t) /\ t # t, s), out[t], hist[t], s)
    BY <1>1, EntryIs, ZenonT(60)
  <2> QED BY <2>1, <2>2, Zenon
<1> HIDE DEF self
<1> QED BY <1>1, <1>2, <1>3, <1>5, <1>6, <1>7, PostSteps, Zenon

------------------------------------------------------------------------------
(* The scheduler's side.                                                   *)

\* Records that differ in what the scheduler keeps only.
Kin(q, p) == Alike(q, p) /\ q.call = p.call /\ q.disp = p.disp

LEMMA KinFacts ==
    ASSUME NEW q, NEW p, Kin(q, p)
    PROVE  (Quiet(p) => Quiet(q)) /\ (Waits(p) => Waits(q))
BY SMTT(60) DEF Kin, Alike, Quiet, Lives, Waits, Ignores

LEMMA SchedSound ==
    ASSUME SignalInv, load' = load, hist' = hist, table' \in [Tids -> Rec],
           out' \in [Tids -> Rec \cup {NotOut}],
           \A u, v \in Tids : InFlight(u)' /\ InFlight(v)' => u = v,
           \A u \in Tids : InFlight(u)' /\ out'[u].served = "no" => out'[u].run = "run",
           \A u \in Tids : Kin(Record(u)', Record(u)) /\ Record(u)' \in Rec
    PROVE  SignalInv' /\ \A u \in Tids : Parks(u) => Parks(u)'
<1>1. load \in Workloads /\ hist \in [Tids -> Hist] /\ \A u \in Tids : Sound(Record(u), hist[u])
  BY Zenon DEF SignalInv
<1>2. ASSUME NEW u \in Tids PROVE Sound(Record(u)', hist'[u])
  <2> DEFINE q == Record(u)'
  <2>1. Core(Record(u), hist[u]) /\ Undone(Record(u)) /\ Alike(q, Record(u)) /\ q \in Rec
    BY <1>1, Zenon DEF Sound, Kin
  <2> HIDE DEF q
  <2>2. Sound(q, hist[u])
    BY <2>1, AlikeCore, Zenon
  <2> QED BY <2>2, Zenon DEF q
<1>3. \A u \in Tids : Sound(Record(u), hist[u])'
  BY <1>2, SameLoad, Zenon
<1>4. (table \in [Tids -> Rec])' /\ (out \in [Tids -> Rec \cup {NotOut}])' /\ (hist \in [Tids -> Hist])'
  BY <1>1, SameRec, Zenon
<1>5. SignalInv'
  BY <1>1, <1>3, <1>4, Zenon DEF SignalInv
<1>6. ASSUME NEW u \in Tids, Parks(u) PROVE Parks(u)'
  <2>1. Waits(Record(u)')
    BY <1>6, KinFacts, Zenon DEF Parks
  <2>2. Record(u)'.call = Record(u).call
    BY Zenon DEF Kin
  <2>3. ASSUME Record(u).call.op = "wait4", NEW v \in Tids, Parent[v] = u PROVE Quiet(Record(v)')
    BY <1>6, <2>3, KinFacts, Zenon DEF Parks, ChildrenQuiet
  <2> QED BY <2>1, <2>2, <2>3, Zenon DEF Parks, ChildrenQuiet
<1> QED BY <1>5, <1>6, ZenonT(60)

LEMMA CheckOutKeeps ==
    ASSUME ~Smp, SignalInv, NEW t \in Tids, CheckOut(t)
    PROVE  SignalInv' /\ (ParkInv => ParkInv')
<1> DEFINE p == table[t]
           q == [p EXCEPT !.had = p.pending, !.hadRt = Len(p.rt)]
<1>1. /\ p.run = "run" /\ ~p.parked /\ out' = [out EXCEPT ![t] = q] /\ table' = [table EXCEPT ![t] = NewTask]
      /\ load' = load /\ hist' = hist /\ \A u \in Tids : ~InFlight(u)
  BY Zenon DEF CheckOut
<1>2. load \in Workloads /\ table \in [Tids -> Rec] /\ out \in [Tids -> Rec \cup {NotOut}]
  BY SMTT(60) DEF SignalInv
<1>3. NewTask \in Rec /\ ~NewTask.parked
  BY NewTaskIsOne, Zenon DEF NewTask
<1>4. p \in Rec /\ p.pending \subseteq Posts /\ Len(p.rt) \in Nat
  <2>1. p \in Rec
    BY <1>2, Zenon
  <2> HIDE DEF p
  <2>2. p.pending \in SUBSET Posts /\ p.rt \in Seq(Nat)
    BY <2>1, Zenon DEF Rec
  <2> QED BY <2>1, <2>2
<1> HIDE DEF p
<1>5. q \in Rec
  BY <1>4, Zenon DEF Rec
<1>6. Kin(q, p) /\ q.parked = p.parked /\ q.run = p.run /\ q.served = p.served
  BY <1>4, Zenon DEF Rec, Kin, Alike
<1> HIDE DEF q
<1>7. /\ table' \in [Tids -> Rec] /\ out' \in [Tids -> Rec \cup {NotOut}] /\ out'[t] = q
      /\ table'[t] = NewTask
      /\ \A u \in Tids \ {t} : out'[u] = out[u] /\ table'[u] = table[u]
  BY <1>1, <1>2, <1>3, <1>5, ZenonT(60)
<1>8. \A u \in Tids : InFlight(u)' <=> u = t
  BY <1>1, <1>5, <1>7, NotOutIsNone, ZenonT(60) DEF InFlight
<1>9. /\ Record(t) = p /\ Record(t)' = q
      /\ \A u \in Tids \ {t} : Record(u) = table[u] /\ Record(u)' = table[u]
  BY <1>1, <1>7, <1>8, Zenon DEF Record, p
<1>10. \A u \in Tids : Kin(Record(u)', Record(u)) /\ Record(u)' \in Rec
  <2>1. ASSUME NEW u \in Tids \ {t} PROVE Record(u)' = Record(u) /\ Record(u)' \in Rec
    <3>1. u \in Tids /\ table[u] \in Rec
      BY <1>2, Zenon
    <3> QED BY <1>9, <3>1, Zenon
  <2>2. \A w : Kin(w, w)
    BY Zenon DEF Kin, Alike
  <2> QED BY <1>5, <1>6, <1>9, <2>1, <2>2, ZenonT(60)
<1>11. \A u, v \in Tids : InFlight(u)' /\ InFlight(v)' => u = v
  BY <1>8, Zenon
<1>12. \A u \in Tids : InFlight(u)' /\ out'[u].served = "no" => out'[u].run = "run"
  BY <1>1, <1>6, <1>7, <1>8, Zenon
<1>13. SignalInv' /\ \A u \in Tids : Parks(u) => Parks(u)'
  BY <1>1, <1>7, <1>10, <1>11, <1>12, SchedSound, ZenonT(60)
<1>14. ASSUME ParkInv PROVE ParkInv'
  <2> SUFFICES ASSUME SuspendsUnstopped, NEW u \in Tids
               PROVE  /\ ~InFlight(u)' /\ table'[u].parked => Parks(u)'
                      /\ InFlight(u)' => ~out'[u].parked
                      /\ InFlight(u)' /\ out'[u].run = "run" /\ out'[u].served = "blocks" => Parks(u)'
                      /\ InFlight(u)' /\ out'[u].run # "run" => \A v \in Tids : v = Parent[u] => ~table'[v].parked
                      /\ InFlight(u)' => ~table'[u].parked
                      /\ ~InFlight(u)' => table'[u].served = "no"
    BY <1>1, Zenon DEF ParkInv, SuspendsUnstopped
  <2>1. \A v \in Tids : (table[v].parked => Parks(v)) /\ table[v].served = "no"
    BY <1>1, <1>14, Zenon DEF ParkInv
  <2>2. CASE u = t
    BY <1>1, <1>3, <1>6, <1>7, <1>8, <2>1, <2>2, ZenonT(60) DEF p
  <2>3. CASE u # t
    BY <1>7, <1>8, <1>13, <2>1, <2>3, ZenonT(60)
  <2> QED BY <2>2, <2>3, ZenonT(60)
<1> QED BY <1>13, <1>14, Zenon

LEMMA CheckInKeeps ==
    ASSUME ~Smp, SignalInv, NEW t \in Tids, CheckIn(t)
    PROVE  SignalInv' /\ (ParkInv => ParkInv')
<1> DEFINE p == out[t]
           parks == p.run = "run" /\ p.served = "blocks"
           q == [p EXCEPT !.served = "no", !.had = {}, !.hadRt = 0, !.parked = parks]
           wakes(u) == p.run = "dead" /\ u = Parent[t]
<1>1. /\ InFlight(t) /\ out' = [out EXCEPT ![t] = NotOut] /\ load' = load /\ hist' = hist
  BY DEF CheckIn
<1>2. table' = [u \in Tids |-> IF u = t THEN q ELSE IF wakes(u) THEN [table[u] EXCEPT !.parked = FALSE] ELSE table[u]]
  BY Zenon DEF CheckIn
<1>3. load \in Workloads /\ table \in [Tids -> Rec] /\ out \in [Tids -> Rec \cup {NotOut}]
  BY DEF SignalInv
<1>4. p \in Rec /\ parks \in BOOLEAN
  BY <1>1, <1>3, Zenon DEF InFlight
<1>5. (q.parked => parks) /\ q.served = "no" /\ Kin(q, p) /\ q \in Rec
  <2> HIDE DEF p, parks
  <2>1. q \in Rec
    BY <1>4, Zenon DEF Rec
  <2>2. q.parked = parks
    BY <1>4, Zenon DEF Rec
  <2> QED BY <1>4, <2>1, <2>2, ZenonT(60) DEF Rec, Kin, Alike
<1> HIDE DEF q, parks, wakes
<1>6. ASSUME NEW u \in Tids \ {t}
      PROVE  /\ table'[u] \in Rec /\ Kin(table'[u], table[u]) /\ table'[u].served = table[u].served
             /\ table'[u].parked => table[u].parked
  <2>1. table[u] \in Rec
    BY <1>3, Zenon
  <2> DEFINE w == [table[u] EXCEPT !.parked = FALSE]
  <2>2. w \in Rec /\ w.parked = FALSE /\ Kin(w, table[u]) /\ w.served = table[u].served
    BY <2>1, Zenon DEF Rec, Kin, Alike
  <2> HIDE DEF w
  <2>3. table'[u] = w \/ table'[u] = table[u]
    BY <1>2, Zenon DEF w
  <2>4. Kin(table[u], table[u])
    BY DEF Kin, Alike
  <2> QED BY <2>1, <2>2, <2>3, <2>4, ZenonT(60)
<1>7. table'[t] = q
  BY <1>2, Zenon
<1>8. table' \in [Tids -> Rec]
  <2>1. table' = [u \in Tids |-> table'[u]]
    BY <1>2, Zenon
  <2>2. \A u \in Tids : table'[u] \in Rec
    BY <1>5, <1>6, <1>7, Zenon
  <2> QED BY <2>1, <2>2
<1>9. out' \in [Tids -> Rec \cup {NotOut}] /\ \A u \in Tids : ~InFlight(u)'
  <2>1. \A u \in Tids : InFlight(u) => u = t
    BY <1>1, SMTT(60) DEF SignalInv
  <2> QED BY <1>1, <1>3, <2>1, ZenonT(60) DEF InFlight
<1>10. /\ Record(t) = p /\ \A u \in Tids \ {t} : Record(u) = table[u]
       /\ \A u \in Tids : Record(u)' = table'[u]
  <2>1. \A u \in Tids : InFlight(u) => u = t
    BY <1>1 DEF SignalInv
  <2> QED BY <1>1, <1>9, <2>1, ZenonT(60) DEF Record
<1>11. \A u \in Tids : Kin(Record(u)', Record(u)) /\ Record(u)' \in Rec
  BY <1>5, <1>6, <1>7, <1>10, SMTT(60)
<1>12. SignalInv' /\ \A u \in Tids : Parks(u) => Parks(u)'
  BY <1>1, <1>8, <1>9, <1>11, SchedSound, Zenon
<1>13. ASSUME ParkInv PROVE ParkInv'
  <2> SUFFICES ASSUME SuspendsUnstopped, NEW u \in Tids
               PROVE  (table'[u].parked => Parks(u)') /\ table'[u].served = "no"
    BY <1>1, <1>9, Zenon DEF ParkInv, SuspendsUnstopped
  <2>1. CASE u = t
    <3>1. parks => Parks(t)
      BY <1>1, <1>13, Zenon DEF ParkInv, parks
    <3> QED BY <1>5, <1>7, <1>12, <2>1, <3>1, ZenonT(60)
  <2>2. CASE u # t
    <3>1. ~InFlight(u)
      BY <1>1, <2>2, Zenon DEF SignalInv
    <3>2. (table[u].parked => Parks(u)) /\ table[u].served = "no"
      BY <1>13, <3>1, Zenon DEF ParkInv
    <3> QED BY <1>6, <1>12, <2>2, <3>2, Zenon
  <2> QED BY <2>1, <2>2, Zenon
<1> QED BY <1>12, <1>13

LEMMA StallKeeps ==
    ASSUME SignalInv, Stall
    PROVE  SignalInv' /\ (ParkInv => ParkInv')
<1>1. /\ load' = load /\ hist' = hist /\ out' = out /\ \A u \in Tids : ~InFlight(u)
      /\ table' = [u \in Tids |-> [table[u] EXCEPT !.parked = FALSE]]
  BY Zenon DEF Stall
<1>2. load \in Workloads /\ table \in [Tids -> Rec] /\ out \in [Tids -> Rec \cup {NotOut}]
  BY DEF SignalInv
<1>3. ASSUME NEW u \in Tids
      PROVE  /\ table'[u] \in Rec /\ Kin(table'[u], table[u]) /\ table'[u].served = table[u].served
             /\ table'[u].parked = FALSE
  <2>1. table[u] \in Rec /\ table'[u] = [table[u] EXCEPT !.parked = FALSE]
    BY <1>1, <1>2
  <2> QED BY <2>1, Zenon DEF Rec, Kin, Alike
<1>4. table' \in [Tids -> Rec]
  BY <1>1, <1>3, Zenon
<1>5. \A u \in Tids : ~InFlight(u)'
  BY <1>1 DEF InFlight
<1>6. \A u \in Tids : Record(u) = table[u] /\ Record(u)' = table'[u]
  BY <1>1, <1>5 DEF Record
<1>7. SignalInv'
  BY <1>1, <1>2, <1>3, <1>4, <1>5, <1>6, SchedSound, ZenonT(60)
<1>8. ASSUME ParkInv PROVE ParkInv'
  <2>1. SuspendsUnstopped => \A u \in Tids : table'[u].served = "no"
    BY <1>1, <1>3, <1>8, Zenon DEF ParkInv
  <2> QED BY <1>1, <1>3, <1>5, <2>1, Zenon DEF ParkInv, SuspendsUnstopped
<1> QED BY <1>7, <1>8, Zenon

------------------------------------------------------------------------------
(* The invariants.                                                         *)

LEMMA InitSound == Init => SignalInv /\ ParkInv
<1> SUFFICES ASSUME Init PROVE SignalInv /\ ParkInv
  BY Zenon
<1>1. /\ load \in Workloads /\ table = [t \in Tids |-> NewTask] /\ out = [t \in Tids |-> NotOut]
      /\ hist = [t \in Tids |-> NewHist]
  BY Zenon DEF Init
<1>2. NewTask \in Rec
  BY NewTaskIsOne
<1>3. NewHist \in Hist
  <2>1. <<{}>> \in Seq(Masks)
    BY SMTT(60) DEF Masks
  <2>2. <<>> \in Seq(Nat) /\ {} \in SUBSET AllSigs /\ {} \in SUBSET Nat /\ 0 \in Nat
    OBVIOUS
  <2> QED BY <2>1, <2>2, Zenon DEF NewHist, Hist
<1>4. \A t \in Tids : ~InFlight(t) /\ Record(t) = NewTask /\ table[t] = NewTask /\ hist[t] = NewHist
  BY <1>1, Zenon DEF InFlight, Record
<1>5. Sound(NewTask, NewHist)
  <2>1. Kept(NewTask, NewHist) /\ Cancelled(NewTask) /\ Told(NewTask, NewHist)
    <3>1. NewTask.pending = {} /\ NewTask.run = "run" /\ ~NewTask.continued /\ NewHist.owed = {}
      BY Zenon DEF NewTask, NewHist
    <3>2. /\ NewHist.stops = 0 /\ NewHist.stopsTold = 0 /\ NewHist.conts = 0 /\ NewHist.contsTold = 0
      BY Zenon DEF NewHist
    <3> QED BY <3>1, <3>2 DEF Kept, Cancelled, Told
  <2>2. Queued(NewTask, NewHist)
    <3> DEFINE e == <<>>
    <3>1. Len(e) = 0 /\ NewHist.got = e /\ NewTask.rt = e /\ NewHist.sent = 0 /\ NewHist.dropped = {}
      BY Zenon DEF NewTask, NewHist
    <3>2. Rising(e, 0)
      BY <3>1, SMTT(60) DEF Rising
    <3> HIDE DEF e
    <3> QED BY <3>1, <3>2 DEF Queued, e
  <2>3. Masked(NewTask, NewHist)
    <3> DEFINE f == NewTask.frames
               m == NewHist.masks
    <3>1. f = <<>> /\ m = <<{}>> /\ NewTask.prev = NoMask /\ NewTask.blocked = {}
      BY Zenon DEF NewTask, NewHist
    <3>2. Len(f) = 0 /\ Len(m) = 1 /\ m[1] = {}
      BY <3>1
    <3> HIDE DEF f, m
    <3>3. Len(m) = Len(f) + 1 /\ 1..Len(f) = {}
      BY <3>2
    <3> QED BY <3>1, <3>2, <3>3, Zenon DEF Masked, f, m
  <2>4. NewTask.prev = NoMask
    BY Zenon DEF NewTask
  <2> QED BY <1>2, <1>3, <2>1, <2>2, <2>3, <2>4, ZenonT(60) DEF Sound, Core, Undone
<1>6. table \in [Tids -> Rec] /\ out \in [Tids -> Rec \cup {NotOut}] /\ hist \in [Tids -> Hist]
  BY <1>1, <1>2, <1>3, Zenon
<1>7. SignalInv
  BY <1>1, <1>4, <1>5, <1>6, ZenonT(60) DEF SignalInv
<1>8. ~NewTask.parked /\ NewTask.served = "no"
  BY Zenon DEF NewTask
<1>9. ParkInv
  BY <1>4, <1>8, Zenon DEF ParkInv
<1> QED BY <1>7, <1>9, Zenon

\* Every call is a step in the sense of Step.
LEMMA NextSteps ==
    ASSUME ~Smp, SignalInv, Next
    PROVE  \/ \E t \in Tids : Steps(t) \/ CheckOut(t) \/ CheckIn(t)
           \/ Stall \/ UNCHANGED vars
<1>1. ASSUME NEW t \in Tids, SysWait4(t) \/ SysSigreturn(t) \/ Interrupted(t) PROVE Steps(t)
  BY <1>1, Wait4Steps, SigreturnSteps, InterruptedSteps, Zenon
<1>2. ASSUME NEW t \in Tids, NEW u \in Tids, SysSigqueue(t, u) \/ \E s \in load.sigs : SysKill(t, u, s)
      PROVE  Steps(t)
  BY <1>2, SigqueueSteps, KillSteps, Zenon
<1>3. ASSUME NEW t \in Tids, NEW s \in load.sigs, SysKillGroup(t, s) PROVE Steps(t)
  BY <1>3, KillGroupSteps, Zenon
<1>4. ASSUME NEW t \in Tids, NEW s \in load.caught, NEW d \in load.disps, SysSigaction(t, s, d) PROVE Steps(t)
  BY <1>4, SigactionSteps, Zenon
<1>5. ASSUME NEW t \in Tids, NEW m \in load.masks,
             SysSigprocmask(t, m) \/ SysSigsuspend(t, m) \/ SysSigtimedwait(t, m)
      PROVE  Steps(t)
  BY <1>5, SigprocmaskSteps, SigsuspendSteps, SigtimedwaitSteps, Zenon
<1> QED BY <1>1, <1>2, <1>3, <1>4, <1>5, ZenonT(60) DEF Next, NoneRuns

LEMMA NextSound ==
    ASSUME ~Smp, SignalInv, [Next]_vars
    PROVE  SignalInv' /\ (ParkInv => ParkInv')
<1>1. ASSUME UNCHANGED vars PROVE SignalInv' /\ (ParkInv => ParkInv')
  <2>1. load' = load /\ table' = table /\ out' = out /\ hist' = hist
    BY <1>1, Zenon DEF vars
  <2>2. \A u \in Tids : (InFlight(u)' <=> InFlight(u)) /\ Record(u)' = Record(u)
    BY <2>1, Zenon DEF InFlight, Record
  <2>3. \A u \in Tids : Kin(Record(u)', Record(u)) /\ Record(u)' \in Rec
    <3>1. \A u \in Tids : Record(u) \in Rec
      BY Zenon DEF SignalInv, Sound, Core
    <3> QED BY <2>2, <3>1, Zenon DEF Kin, Alike
  <2>4. SignalInv' /\ \A u \in Tids : Parks(u) => Parks(u)'
    BY <2>1, <2>2, <2>3, SchedSound, ZenonT(60) DEF SignalInv
  <2>5. ParkInv => ParkInv'
    BY <2>1, <2>2, <2>4, Zenon DEF ParkInv, SuspendsUnstopped
  <2> QED BY <2>4, <2>5, Zenon
<1>2. ASSUME NEW t \in Tids, Steps(t) PROVE SignalInv' /\ (ParkInv => ParkInv')
  <2>1. InFlight(t) /\ out[t].served = "no" /\ load' = load
    BY <1>2, Zenon DEF Steps
  <2>2. PICK r, tb, hs : Step(t, r, tb, hs) /\ Serviced(t, r, tb, hs)
    BY <1>2, Zenon DEF Steps
  <2>3. SignalInv' /\ Ended(t, r, tb, hs)
    BY <2>1, <2>2, StepSound, Zenon
  <2>4. ParkInv => ParkInv'
    BY <2>1, <2>2, <2>3, StepParks, Zenon
  <2> QED BY <2>3, <2>4, Zenon
<1>3. \/ \E t \in Tids : Steps(t) \/ CheckOut(t) \/ CheckIn(t)
      \/ Stall \/ UNCHANGED vars
  BY NextSteps, Zenon
<1> QED BY <1>1, <1>2, <1>3, CheckOutKeeps, CheckInKeeps, StallKeeps, ZenonT(60)

LEMMA Invariance == ~Smp => (Spec => [](SignalInv /\ ParkInv))
<1> SUFFICES ASSUME ~Smp PROVE Spec => [](SignalInv /\ ParkInv)
  BY Zenon
<1>1. Init => SignalInv /\ ParkInv
  BY InitSound, Zenon
<1>2. SignalInv /\ ParkInv /\ [Next]_vars => (SignalInv /\ ParkInv)'
  BY NextSound, Zenon
<1> QED BY <1>1, <1>2, PTL DEF Spec

------------------------------------------------------------------------------
(* What the invariants say of the tasks in the table.                      *)

LEMMA SettledSound ==
    ASSUME SignalInv, NEW t \in Tids, Settled(t)
    PROVE  Sound(table[t], hist[t]) /\ Lives(table[t])
BY DEF SignalInv, Settled, Record, Lives

\* No signal that was posted is lost: until it is acted on, cancelled or flushed it
\* is pending, whatever the tasks do (raise, apply_stop_cont, deliver_pending_signals,
\* the flush of rt_sigaction), with any number of tasks and any workload.
THEOREM NoSignalLost == ~Smp => (Spec => []SignalsKept)
<1> SUFFICES ASSUME ~Smp PROVE Spec => []SignalsKept
  BY Zenon
<1>1. SignalInv => SignalsKept
  BY SettledSound, ZenonT(60) DEF SignalsKept, Sound, Core, Kept
<1> QED BY <1>1, Invariance, PTL

\* A SIGCONT and a stop cancel each other, and wait4 reports each stop and each
\* continue at most once (apply_stop_cont, the latches that wait4 clears).
THEOREM JobControlIsSound == ~Smp => (Spec => []JobControlSound)
<1> SUFFICES ASSUME ~Smp PROVE Spec => []JobControlSound
  OBVIOUS
<1>1. SignalInv => StopsAndContinuesAnnihilate
  BY SettledSound, Zenon DEF StopsAndContinuesAnnihilate, Sound, Core, Cancelled
<1>2. SignalInv => EventsReportedOnce
  BY Zenon DEF SignalInv, EventsReportedOnce, Sound, Core, Told
<1>3. SignalInv => JobControlSound
  BY <1>1, <1>2, SMTT(60) DEF JobControlSound
<1> QED BY <1>3, Invariance, PTL

\* rt_sigsuspend, the handlers' masks and rt_sigreturn leave the mask the guest set
\* (sigsuspend_prev, the mask of the signal frame), at any depth of handlers.
THEOREM MasksComeBack == ~Smp => (Spec => []MaskRestored)
<1> SUFFICES ASSUME ~Smp PROVE Spec => []MaskRestored
  OBVIOUS
<1>1. SignalInv => MaskRestored
  <2> SUFFICES ASSUME SignalInv, SuspendsUnstopped, NEW t \in Tids, Settled(t), table[t].prev = NoMask
               PROVE  table[t].blocked = Head(hist[t].masks)
    BY SMTT(60) DEF MaskRestored
  <2>1. Masked(table[t], hist[t]) /\ hist[t] \in Hist /\ table[t] \in Rec
    BY SettledSound, Zenon DEF Sound, Core
  <2>2. hist[t].masks[1] = table[t].blocked /\ Len(hist[t].masks) = Len(table[t].frames) + 1
    BY <2>1, SMTT(60) DEF Masked
  <2>3. hist[t].masks \in Seq(Masks) /\ Len(table[t].frames) \in Nat
    <3>1. hist[t].masks \in Seq(Masks)
      BY <2>1, SMTT(60) DEF Hist
    <3>2. table[t].frames \in Seq(Frame)
      BY <2>1, SMTT(60) DEF Rec
    <3> QED BY <3>1, <3>2, SMTT(60)
  <2> QED BY <2>2, <2>3, SMTT(60)
<1> QED BY <1>1, Invariance, PTL

\* Every entry of a real-time signal's queue is delivered once, in the order posted,
\* or dropped with the signal when that is ignored (raise_with, take_siginfo, drain_rt).
THEOREM QueueInOrder == ~Smp => (Spec => []QueuedOnceInOrder)
<1> SUFFICES ASSUME ~Smp PROVE Spec => []QueuedOnceInOrder
  OBVIOUS
<1>1. SignalInv => QueuedOnceInOrder
  <2> SUFFICES ASSUME SignalInv, NEW t \in Tids, Settled(t)
               PROVE  LET all == hist[t].got \o table[t].rt
                      IN  /\ \A i, j \in DOMAIN all : i < j => all[i] < all[j]
                          /\ {all[i] : i \in DOMAIN all} \cup hist[t].dropped = 1..hist[t].sent
                          /\ table[t].rt # <<>> => RT \in table[t].pending
    BY Zenon DEF QueuedOnceInOrder
  <2> DEFINE g == hist[t].got
             q == table[t].rt
             n == hist[t].sent
             d == hist[t].dropped
             all == g \o q
  <2>1. Queued(table[t], hist[t]) /\ hist[t] \in Hist /\ table[t] \in Rec
    BY SettledSound, Zenon DEF Sound, Core
  <2>2. g \in Seq(Nat) /\ q \in Seq(Nat) /\ n \in Nat /\ d \subseteq 1..n
    BY <2>1, Zenon DEF Hist, Rec, Queued
  <2>3. /\ Rising(g, n) /\ Rising(q, n) /\ (\A i \in 1..Len(g), j \in 1..Len(q) : g[i] < q[j])
        /\ (\A m \in 1..n : In(m, g) \/ In(m, q) \/ m \in d)
        /\ (q # <<>> => RT \in table[t].pending)
    BY <2>1, SMTT(60) DEF Queued
  <2> HIDE DEF g, q, n, d
  <2>4. /\ Len(g) \in Nat /\ Len(q) \in Nat /\ DOMAIN all = 1..(Len(g) + Len(q))
        /\ \A i \in 1..Len(g) : all[i] = g[i]
        /\ \A i \in 1..Len(q) : all[Len(g) + i] = q[i]
    BY <2>2, SMTT(60)
  <2> HIDE DEF all
  <2>5. \A i \in DOMAIN all : \/ i \in 1..Len(g) /\ all[i] = g[i]
                              \/ /\ i - Len(g) \in 1..Len(q) /\ all[i] = q[i - Len(g)] /\ i > Len(g)
    <3> TAKE i \in DOMAIN all
    <3>1. CASE i <= Len(g)
      BY <2>4, <3>1, SMTT(60)
    <3>2. CASE i > Len(g)
      <4> DEFINE j == i - Len(g)
      <4>1. j \in 1..Len(q) /\ i = Len(g) + j
        BY <2>4, <3>2, SMTT(60)
      <4> QED BY <2>4, <3>2, <4>1, SMTT(60)
    <3> QED BY <2>4, <3>1, <3>2, SMTT(60)
  <2>6. ASSUME NEW i \in DOMAIN all, NEW j \in DOMAIN all, i < j PROVE all[i] < all[j]
    <3>1. i \in Int /\ j \in Int
      BY <2>4, SMTT(60)
    <3>2. CASE j \in 1..Len(g) /\ all[j] = g[j]
      <4>1. i \in 1..Len(g) /\ all[i] = g[i]
        BY <2>4, <2>5, <2>6, <3>1, <3>2, SMTT(60)
      <4> QED BY <2>3, <2>6, <3>2, <4>1, ZenonT(60) DEF Rising
    <3>3. CASE j - Len(g) \in 1..Len(q) /\ all[j] = q[j - Len(g)] /\ j > Len(g)
      <4>1. CASE i \in 1..Len(g) /\ all[i] = g[i]
        BY <2>3, <3>3, <4>1, Zenon
      <4>2. CASE i - Len(g) \in 1..Len(q) /\ all[i] = q[i - Len(g)]
        <5>1. i - Len(g) < j - Len(g)
          BY <2>4, <2>6, <3>1, SMTT(60)
        <5> QED BY <2>3, <3>3, <4>2, <5>1, ZenonT(60) DEF Rising
      <4> QED BY <2>5, <4>1, <4>2, Zenon
    <3> QED BY <2>5, <3>2, <3>3, ZenonT(60)
  <2>7. {all[i] : i \in DOMAIN all} \cup d \subseteq 1..n
    <3>1. \A i \in DOMAIN all : all[i] \in 1..n
      BY <2>3, <2>5, Zenon DEF Rising
    <3> QED BY <2>2, <3>1, ZenonT(60)
  <2>8. ASSUME NEW m \in 1..n PROVE m \in {all[i] : i \in DOMAIN all} \cup d
    <3>1. CASE In(m, g)
      <4>1. PICK i \in 1..Len(g) : g[i] = m
        BY <3>1, Zenon DEF In
      <4>2. i \in DOMAIN all /\ all[i] = m
        BY <2>4, <4>1, SMTT(60)
      <4> QED BY <4>2, Zenon
    <3>2. CASE In(m, q)
      <4>1. PICK i \in 1..Len(q) : q[i] = m
        BY <3>2 DEF In
      <4>2. Len(g) + i \in DOMAIN all /\ all[Len(g) + i] = m
        BY <2>4, <4>1, SMTT(60)
      <4> QED BY <4>2, Zenon
    <3> QED BY <2>3, <3>1, <3>2, Zenon
  <2>9. {all[i] : i \in DOMAIN all} \cup d = 1..n
    BY <2>7, <2>8, Zenon
  <2> QED BY <2>3, <2>6, <2>9, Zenon DEF g, q, n, d, all
<1> QED BY <1>1, Invariance, PTL

\* A task the serial scheduler keeps parked has nothing to act on: every post that
\* it has to act on, and every event of a child it waits for, unparks it (raise,
\* apply_stop_cont, the wakes of the parent).
THEOREM NoneSleepsThroughASignal == ~Smp => (Spec => []ParkedHasNothingToDo)
<1> SUFFICES ASSUME ~Smp PROVE Spec => []ParkedHasNothingToDo
  OBVIOUS
<1>1. SignalInv /\ ParkInv => ParkedHasNothingToDo
  <2> SUFFICES ASSUME ParkInv, SuspendsUnstopped, NEW t \in Tids, Settled(t), table[t].parked
               PROVE  LET c == table[t].call
                          mask == IF c.op = "suspend" THEN c.mask ELSE table[t].blocked
                      IN  /\ \A s \in table[t].pending \ mask : Ignores(table[t], s)
                          /\ c.op = "timedwait" => (table[t].pending \cap c.set) \subseteq {KILL, STOP}
                          /\ c.op = "wait4" => \A u \in Tids : Parent[u] = t /\ Settled(u) =>
                                 ~table[u].continued /\ (table[u].run = "stop" => table[u].stopReported)
    BY Zenon DEF ParkedHasNothingToDo
  <2>1. Parks(t) /\ Record(t) = table[t]
    BY Zenon DEF ParkInv, Settled, Record
  <2>2. Waits(table[t]) /\ (table[t].call.op = "wait4" => ChildrenQuiet(t))
    BY <2>1, Zenon DEF Parks
  <2>3. ASSUME table[t].call.op = "wait4", NEW u \in Tids, Parent[u] = t, Settled(u)
        PROVE  ~table[u].continued /\ (table[u].run = "stop" => table[u].stopReported)
    <3>1. Record(u) = table[u] /\ Lives(table[u])
      BY <2>3, Zenon DEF Settled, Record, Lives
    <3>2. Quiet(table[u])
      BY <2>2, <2>3, <3>1 DEF ChildrenQuiet
    <3> QED BY <3>1, <3>2, Zenon DEF Quiet
  <2> QED BY <2>2, <2>3, Zenon DEF Waits
<1> QED BY <1>1, Invariance, PTL
==============================================================================
