------------------------------ MODULE PipeProofs ------------------------------
(***************************************************************************)
(* For any number of tasks and pipes, any capacity and any workload:       *)
(* a pipe keeps to its capacity, its stream is what its writers sent, and  *)
(* a reported deadlock is one.                                             *)
(***************************************************************************)
EXTENDS PipeTasks, TLAPS

USE PipeAssumption

Call == [op : {"r", "w"}, pipe : Pipes, n : load.sizes]

TaskRec == [call : Call \cup {NoCall}, progress : Nat, ends : SUBSET ({"r", "w"} \X Pipes),
            calls : Nat, sig : {"none"} \cup load.handlers, handler : BOOLEAN,
            saved : Call \cup {NoCall}, ended : BOOLEAN]

Byte == [by : Tasks, n : Nat]

Result == [ret : Int, block : BOOLEAN, progress : Nat]

Typed ==
    /\ load \in Workloads
    /\ task \in [Tasks -> TaskRec]
    /\ buf \in [Pipes -> Seq(Byte)] /\ taken \in [Pipes -> Seq(Byte)]
    /\ sent \in [Tasks -> [Pipes -> Nat]]

\* What a workload says.
LEMMA LoadTypes ==
    ASSUME load \in Workloads
    PROVE  /\ load.sizes \subseteq Nat \ {0} /\ load.atomic \in Nat
           /\ load.handlers \subseteq {"restart", "eintr"}
           /\ \A t \in DOMAIN load.ends : load.ends[t] \subseteq {"r", "w"} \X Pipes
OBVIOUS

\* A call is not the absence of one.
LEMMA CallIsCall == \A c \in Call : c # NoCall /\ c.op \in {"r", "w"} /\ c.pipe \in Pipes /\ c.n \in load.sizes
BY DEF Call, NoCall

\* pipe_write_from, whatever the progress it goes on from: it puts in no more
\* than there is room for, and a write that blocks keeps count of what it put in.
LEMMA WriteResult ==
    ASSUME Typed, NEW t \in Tasks, NEW c \in Call, Len(buf[c.pipe]) <= Capacity
    PROVE  LET w == PipeWriteFrom(t, c)
           IN  /\ w.r \in Result /\ w.n \in Nat /\ w.from = task[t].progress
               /\ Len(buf[c.pipe]) + w.n <= Capacity
               /\ w.r.block => w.r.ret = 0 /\ w.r.progress = task[t].progress + w.n
               /\ ~w.r.block => w.r.progress = 0
<1> DEFINE d == task[t].progress
           k == Len(buf[c.pipe])
           room == Capacity - k
           rest == IF c.n > d THEN c.n - d ELSE 0
           m == Accepted(rest, room)
           broken == Open("r", c.pipe) = {}
           w == PipeWriteFrom(t, c)
<1>1. d \in Nat /\ k \in Nat /\ c.n \in Nat /\ load.atomic \in Nat /\ Capacity \in Nat
  <2>1. load \in Workloads /\ task[t] \in TaskRec /\ buf[c.pipe] \in Seq(Byte) /\ c.n \in load.sizes
    BY CallIsCall DEF Typed
  <2>2. d \in Nat
    BY <2>1 DEF TaskRec
  <2>3. c.n \in Nat /\ load.atomic \in Nat
    BY <2>1, LoadTypes
  <2> QED BY <2>1, <2>2, <2>3
<1>2. room \in Nat /\ rest \in Nat
  BY <1>1
<1>3. w = [r |-> IF broken THEN Returned(IF d > 0 THEN d ELSE -1)
                 ELSE IF d + m >= c.n THEN Returned(c.n)
                 ELSE IF "w" \in load.nonblock THEN Returned(IF d + m > 0 THEN d + m ELSE -1)
                 ELSE Blocked(d + m),
           n |-> IF broken THEN 0 ELSE m, from |-> d]
  BY DEF PipeWriteFrom
<1> HIDE DEF d, k, room, rest, broken, w
<1>4. m \in Nat /\ m <= room
  BY <1>1, <1>2 DEF Accepted
<1>5. k + m <= Capacity
  BY <1>1, <1>4 DEF room
<1> HIDE DEF m
<1>6. w.n = (IF broken THEN 0 ELSE m) /\ w.from = d
  BY <1>3
<1>7. w.r = IF broken THEN Returned(IF d > 0 THEN d ELSE -1)
            ELSE IF d + m >= c.n THEN Returned(c.n)
            ELSE IF "w" \in load.nonblock THEN Returned(IF d + m > 0 THEN d + m ELSE -1)
            ELSE Blocked(d + m)
  BY <1>3
<1>8. /\ \A x \in Int : Returned(x) \in Result /\ ~Returned(x).block /\ Returned(x).progress = 0
      /\ \A x \in Nat : /\ Blocked(x) \in Result /\ Blocked(x).block
                        /\ Blocked(x).ret = 0 /\ Blocked(x).progress = x
  BY DEF Returned, Blocked, Result
<1>9. w.r \in Result
  BY <1>1, <1>4, <1>7, <1>8
<1>10. w.n \in Nat /\ k + w.n <= Capacity
  BY <1>1, <1>4, <1>5, <1>6
<1>11. w.r.block => w.r.ret = 0 /\ w.r.progress = d + w.n
  BY <1>1, <1>4, <1>6, <1>7, <1>8
<1>12. ~w.r.block => w.r.progress = 0
  BY <1>1, <1>4, <1>7, <1>8
<1> QED BY <1>6, <1>9, <1>10, <1>11, <1>12 DEF w, d, k

\* read_pipe: a read that blocks finds the pipe empty, and no read counts as a write.
LEMMA ReadResult ==
    ASSUME Typed, NEW t \in Tasks, NEW c \in Call
    PROVE  LET d == ReadPipe(t, c)
           IN  /\ d.r \in Result /\ d.n \in Nat /\ d.n <= Len(buf[c.pipe])
               /\ d.r.progress = task[t].progress
               /\ d.r.block => d.r.ret = 0 /\ d.n = 0
<1> DEFINE g == task[t].progress
           k == Len(buf[c.pipe])
           m == IF c.n < k THEN c.n ELSE k
           d == ReadPipe(t, c)
           back(x) == [ret |-> x, block |-> FALSE, progress |-> g]
<1>1. g \in Nat /\ k \in Nat /\ c.n \in Nat
  <2>1. load \in Workloads /\ task[t] \in TaskRec /\ buf[c.pipe] \in Seq(Byte) /\ c.n \in load.sizes
    BY CallIsCall DEF Typed
  <2>2. g \in Nat
    BY <2>1 DEF TaskRec
  <2>3. c.n \in Nat
    BY <2>1, LoadTypes
  <2> QED BY <2>1, <2>2, <2>3
<1>2. m \in Nat /\ m <= k
  BY <1>1
<1>3. d = IF k > 0 THEN [r |-> back(m), n |-> m]
          ELSE IF Open("w", c.pipe) = {} \/ "r" \in load.nonblock
          THEN [r |-> back(0), n |-> 0]
          ELSE [r |-> Blocked(g), n |-> 0]
  BY DEF ReadPipe
<1>4. /\ \A x \in Nat : back(x) \in Result /\ ~back(x).block /\ back(x).progress = g
      /\ Blocked(g) \in Result /\ Blocked(g).ret = 0 /\ Blocked(g).progress = g
  <2> HIDE DEF g
  <2> QED BY <1>1 DEF Blocked, Result
<1> HIDE DEF g, k, m, d, back
<1>5. CASE k > 0
  <2>1. d.r = back(m) /\ d.n = m
    BY <1>3, <1>5
  <2>2. back(m) \in Result /\ ~back(m).block /\ back(m).progress = g
    BY <1>2, <1>4
  <2> QED BY <1>2, <2>1, <2>2 DEF d, k, g
<1>6. CASE ~(k > 0)
  <2>1. d.n = 0 /\ (d.r = back(0) \/ d.r = Blocked(g))
    BY <1>3, <1>6
  <2>2. back(0) \in Result /\ ~back(0).block /\ back(0).progress = g
    BY <1>4
  <2> QED BY <1>1, <1>4, <2>1, <2>2 DEF d, k, g
<1> QED BY <1>5, <1>6

\* Kernel::service: the record and the count a call leaves.  A call that stays
\* blocked keeps its progress; one that is over forgets it and returns it.
LEMMA ServiceResult ==
    ASSUME load \in Workloads, NEW me \in TaskRec, NEW c \in Call, NEW r \in Result,
           r.block => r.ret = 0
    PROVE  LET a == AfterCall(me, c, r)
           IN  /\ a.me \in TaskRec /\ a.ret \in Int /\ a.me.calls = me.calls
               /\ a.me.call # NoCall =>
                     /\ a.me.call = c /\ r.block /\ a.me.progress = r.progress /\ a.ret = 0
                     /\ a.me.ends = me.ends /\ a.me.ended = me.ended /\ a.me.saved = me.saved
               /\ a.me.call = NoCall =>
                     \/ /\ a.me.saved \in {me.saved, NoCall}
                        /\ a.me.progress = (IF r.block THEN 0 ELSE r.progress)
                        /\ a.ret = (IF r.block THEN r.progress ELSE r.ret)
                     \/ me.sig = "restart" /\ r.block /\ a.me.progress = r.progress /\ a.ret = 0
<1> DEFINE delivers == me.sig # "none" /\ ~me.handler
           broken == c.op = "w" /\ r.ret = -1 /\ Open("r", c.pipe) = {}
           restarts == r.block /\ delivers /\ me.sig = "restart"
           cut == r.block /\ delivers /\ ~restarts
           ret == IF cut THEN r.progress ELSE r.ret
           m == [me EXCEPT !.progress = IF cut THEN 0 ELSE r.progress]
           a == AfterCall(me, c, r)
           b == [me |-> [m EXCEPT !.call = NoCall, !.ended = TRUE, !.ends = {}], ret |-> -1]
           k == [me |-> [m EXCEPT !.call = c], ret |-> 0]
           h == [me |-> [m EXCEPT !.call = NoCall, !.sig = "none", !.handler = TRUE,
                                  !.saved = IF restarts THEN c ELSE NoCall],
                 ret |-> IF restarts THEN 0 ELSE ret]
           e == [me |-> [m EXCEPT !.call = NoCall], ret |-> ret]
<1>1. a = IF broken /\ load.sigpipe THEN b
          ELSE IF r.block /\ ~delivers THEN k ELSE IF delivers THEN h ELSE e
  BY DEF AfterCall
<1>2. /\ r.ret \in Int /\ r.block \in BOOLEAN /\ r.progress \in Nat
      /\ ret \in Int /\ c # NoCall
  BY CallIsCall DEF Result
<1>3. /\ m \in TaskRec /\ m.progress = (IF cut THEN 0 ELSE r.progress)
      /\ m.calls = me.calls /\ m.ends = me.ends /\ m.ended = me.ended /\ m.saved = me.saved
  BY <1>2 DEF TaskRec
<1> HIDE DEF m
<1>4. CASE broken /\ load.sigpipe
  <2>1. a = b /\ ~r.block /\ ~cut /\ r.ret = -1
    BY <1>1, <1>2, <1>4
  <2>2. /\ b.me \in TaskRec /\ b.ret = -1 /\ b.me.calls = m.calls /\ b.me.call = NoCall
        /\ b.me.saved = m.saved /\ b.me.progress = m.progress
    BY <1>3, Zenon DEF TaskRec
  <2> HIDE DEF b
  <2> QED BY <1>2, <1>3, <2>1, <2>2
<1>5. CASE ~(broken /\ load.sigpipe) /\ r.block /\ ~delivers
  <2>1. a = k /\ ~cut
    BY <1>1, <1>5
  <2>2. /\ k.me \in TaskRec /\ k.ret = 0 /\ k.me.calls = m.calls /\ k.me.call = c
        /\ k.me.saved = m.saved /\ k.me.progress = m.progress /\ k.me.ends = m.ends
        /\ k.me.ended = m.ended
    BY <1>3 DEF TaskRec
  <2> HIDE DEF k
  <2> QED BY <1>2, <1>3, <1>5, <2>1, <2>2
<1>6. CASE ~(broken /\ load.sigpipe) /\ delivers
  <2>1. a = h
    BY <1>1, <1>6
  <2>2. /\ h.me \in TaskRec /\ h.ret \in Int /\ h.me.calls = m.calls /\ h.me.call = NoCall
        /\ h.me.progress = m.progress
    BY <1>2, <1>3, Zenon DEF TaskRec
  <2>3. ~restarts => h.ret = ret /\ h.me.saved = NoCall /\ (cut <=> r.block)
    BY <1>3, <1>6, Zenon DEF TaskRec
  <2>4. restarts => h.ret = 0 /\ ~cut /\ r.block /\ me.sig = "restart"
    BY <1>3, <1>6 DEF TaskRec
  <2> HIDE DEF h
  <2> QED BY <1>2, <1>3, <2>1, <2>2, <2>3, <2>4
<1>7. CASE ~(broken /\ load.sigpipe) /\ ~r.block /\ ~delivers
  <2>1. a = e /\ ~cut
    BY <1>1, <1>7
  <2>2. /\ e.me \in TaskRec /\ e.ret = ret /\ e.me.calls = m.calls /\ e.me.call = NoCall
        /\ e.me.saved = m.saved /\ e.me.progress = m.progress
    BY <1>3 DEF TaskRec
  <2> HIDE DEF e
  <2> QED BY <1>2, <1>3, <1>7, <2>1, <2>2
<1> QED BY <1>4, <1>5, <1>6, <1>7, Zenon

\* What one call does to the record of its task: w is what the pipe did, ret what
\* the guest gets.
TaskEffect(t, c, r, ret) ==
    /\ load' = load /\ task'[t] \in TaskRec /\ ret \in Int
    /\ task' = [task EXCEPT ![t] = task'[t]]
    /\ task'[t].call # NoCall =>
          /\ task'[t].call = c /\ r.block /\ task'[t].progress = r.progress /\ ret = 0
          /\ task'[t].ends = task[t].ends /\ task'[t].ended = task[t].ended
          /\ task'[t].saved = task[t].saved
    /\ task'[t].call = NoCall =>
          \/ /\ task'[t].saved \in {task[t].saved, NoCall}
             /\ task'[t].progress = (IF r.block THEN 0 ELSE r.progress)
             /\ ret = (IF r.block THEN r.progress ELSE r.ret)
          \/ task[t].sig = "restart" /\ r.block /\ task'[t].progress = r.progress /\ ret = 0

WriteEffect(t, c, n, ret) ==
    /\ taken' = taken
    /\ buf' = [buf EXCEPT ![c.pipe] = @ \o Bytes(t, c.pipe, task[t].progress, n)]
    /\ sent' = IF ret > 0 THEN [sent EXCEPT ![t][c.pipe] = @ + ret] ELSE sent

ReadEffect(c, n) ==
    /\ sent' = sent
    /\ buf' = [buf EXCEPT ![c.pipe] = SubSeq(@, n + 1, Len(@))]
    /\ taken' = [taken EXCEPT ![c.pipe] = @ \o SubSeq(buf[c.pipe], 1, n)]

\* The calls a task issues are calls.
LEMMA CallsAreCalls ==
    ASSUME Typed, NEW t \in Tasks
    PROVE  Calls(t) \subseteq Call
<1>1. task[t].call \in Call \cup {NoCall}
  BY DEF Typed, TaskRec
<1> QED BY <1>1 DEF Calls, Call

LEMMA IssueTask ==
    ASSUME Typed, NEW t \in Tasks, NEW c \in Call, Issue(t, c), NEW r \in Result,
           r = IF c.op = "w" THEN PipeWriteFrom(t, c).r ELSE ReadPipe(t, c).r,
           r.block => r.ret = 0
    PROVE  TaskEffect(t, c, r, AfterCall(task[t], c, r).ret)
<1> DEFINE a == AfterCall(task[t], c, r)
           new == [a.me EXCEPT !.calls = @ + (IF task[t].call = NoCall THEN 1 ELSE 0)]
           me == task[t]
<1>1. load \in Workloads /\ me \in TaskRec /\ task \in [Tasks -> TaskRec]
  BY DEF Typed
<1>2. task' = [task EXCEPT ![t] = new] /\ load' = load
  BY DEF Issue
<1>3. a.me \in TaskRec /\ a.ret \in Int
  BY <1>1, ServiceResult
<1>4. a.me.call # NoCall =>
         /\ a.me.call = c /\ r.block /\ a.me.progress = r.progress /\ a.ret = 0
         /\ a.me.ends = me.ends /\ a.me.ended = me.ended /\ a.me.saved = me.saved
  BY <1>1, ServiceResult
<1>5. a.me.call = NoCall =>
         \/ /\ a.me.saved \in {me.saved, NoCall}
            /\ a.me.progress = (IF r.block THEN 0 ELSE r.progress)
            /\ a.ret = (IF r.block THEN r.progress ELSE r.ret)
         \/ me.sig = "restart" /\ r.block /\ a.me.progress = r.progress /\ a.ret = 0
  BY <1>1, ServiceResult
<1> HIDE DEF a
<1>6. /\ new \in TaskRec /\ new.call = a.me.call /\ new.progress = a.me.progress
      /\ new.ends = a.me.ends /\ new.ended = a.me.ended /\ new.saved = a.me.saved
  BY <1>3 DEF TaskRec
<1> HIDE DEF new
<1>7. task'[t] = new
  BY <1>1, <1>2
<1> QED BY <1>2, <1>3, <1>4, <1>5, <1>6, <1>7, Zenon DEF TaskEffect, a

LEMMA IssueWrite ==
    ASSUME Typed, WithinCapacity, NEW t \in Tasks, NEW c \in Call, c.op = "w", Issue(t, c)
    PROVE  LET w == PipeWriteFrom(t, c)
               ret == AfterCall(task[t], c, w.r).ret
           IN  TaskEffect(t, c, w.r, ret) /\ WriteEffect(t, c, w.n, ret)
<1> DEFINE w == PipeWriteFrom(t, c)
           ret == AfterCall(task[t], c, w.r).ret
<1>1. Len(buf[c.pipe]) <= Capacity
  BY CallIsCall DEF WithinCapacity
<1>2. w.r \in Result
  BY <1>1, WriteResult
<1>3. w.r.block => w.r.ret = 0
  BY <1>1, WriteResult
<1>4. w.from = task[t].progress
  BY <1>1, WriteResult
<1>5. TaskEffect(t, c, w.r, ret)
  BY <1>2, <1>3, IssueTask
<1>6. WriteEffect(t, c, w.n, ret)
  BY <1>4 DEF Issue, WriteEffect
<1> QED BY <1>5, <1>6

LEMMA IssueRead ==
    ASSUME Typed, NEW t \in Tasks, NEW c \in Call, c.op # "w", Issue(t, c)
    PROVE  LET d == ReadPipe(t, c)
           IN  TaskEffect(t, c, d.r, AfterCall(task[t], c, d.r).ret) /\ ReadEffect(c, d.n)
<1> DEFINE d == ReadPipe(t, c)
<1>1. d.r \in Result
  BY ReadResult
<1>2. d.r.block => d.r.ret = 0
  BY ReadResult
<1>3. TaskEffect(t, c, d.r, AfterCall(task[t], c, d.r).ret)
  BY <1>1, <1>2, IssueTask
<1>4. ReadEffect(c, d.n)
  BY DEF Issue, ReadEffect
<1> QED BY <1>3, <1>4

\* The steps of either scheduler that touch tasks and pipes.
PipeStep ==
    \E t \in Tasks : \/ \E c \in Calls(t) : Issue(t, c)
                     \/ Close(t) \/ Exit(t) \/ Sigreturn(t)
                     \/ \E u \in Tasks : Kill(t, u)

LEMMA StepsOfPipes == [Next]_vars => PipeStep \/ UNCHANGED pipeVars
<1> SUFFICES ASSUME [Next]_vars PROVE PipeStep \/ UNCHANGED pipeVars
  OBVIOUS
<1>1. ASSUME NEW t \in Tasks, Pick(t) \/ Fill(t) PROVE UNCHANGED pipeVars
  BY <1>1 DEF Pick, Fill, Start
<1>2. ASSUME NEW t \in Tasks, SysReadWrite(t) PROVE PipeStep
  BY <1>2 DEF SysReadWrite, PipeStep
<1>3. ASSUME NEW t \in Tasks, SysClose(t) \/ SysSigreturn(t) \/ SysExit(t) PROVE PipeStep
  BY <1>3, Zenon DEF SysClose, SysSigreturn, SysExit, PipeStep
<1>4. ASSUME NEW t \in Tasks, SysKill(t) PROVE PipeStep
  BY <1>4 DEF SysKill, PipeStep
<1>5. ASSUME NEW t \in Tasks, Preempt(t) \/ ReceiveBlocked(t) \/ ReceiveOther(t)
      PROVE  UNCHANGED pipeVars
  BY <1>5, Zenon DEF Preempt, ReceiveBlocked, ReceiveOther
<1>6. ASSUME StallSerial \/ StallSmp PROVE UNCHANGED pipeVars
  BY <1>6 DEF StallSerial, StallSmp
<1>7. ASSUME Halted \/ UNCHANGED vars PROVE UNCHANGED pipeVars
  BY <1>7 DEF Halted, vars, pipeVars
<1> QED BY <1>1, <1>2, <1>3, <1>4, <1>5, <1>6, <1>7, Zenon DEF Next

\* The types depend on the workload alone.
LEMMA SameLoad ==
    ASSUME load' = load
    PROVE  Call' = Call /\ TaskRec' = TaskRec
BY DEF Call, TaskRec

\* Sequences, glued and cut.
LEMMA Glued ==
    ASSUME NEW S, NEW x \in Seq(S), NEW y \in Seq(S)
    PROVE  /\ x \o y \in Seq(S) /\ Len(x \o y) = Len(x) + Len(y)
           /\ \A i \in 1..Len(x) : (x \o y)[i] = x[i]
           /\ \A i \in 1..Len(y) : (x \o y)[Len(x) + i] = y[i]
OBVIOUS

LEMMA CutInTwo ==
    ASSUME NEW S, NEW x \in Seq(S), NEW n \in 0..Len(x)
    PROVE  /\ SubSeq(x, 1, n) \in Seq(S) /\ Len(SubSeq(x, 1, n)) = n
           /\ SubSeq(x, n + 1, Len(x)) \in Seq(S)
           /\ Len(SubSeq(x, n + 1, Len(x))) = Len(x) - n
           /\ \A i \in 1..n : SubSeq(x, 1, n)[i] = x[i]
           /\ \A i \in 1..(Len(x) - n) : SubSeq(x, n + 1, Len(x))[i] = x[n + i]
<1>1. Len(x) \in Nat /\ n \in Nat /\ n <= Len(x) /\ \A i \in 1..Len(x) : x[i] \in S
  OBVIOUS
<1>2. \A i \in 1..n : x[i] \in S
  BY <1>1
<1>3. \A i \in (n + 1)..Len(x) : x[i] \in S
  BY <1>1
<1>4. SubSeq(x, 1, n) \in Seq(S) /\ Len(SubSeq(x, 1, n)) = n
  BY <1>1, <1>2
<1>5. SubSeq(x, n + 1, Len(x)) \in Seq(S)
  BY <1>1, <1>3
<1>6. Len(SubSeq(x, n + 1, Len(x))) = Len(x) - n
  BY <1>1, <1>3
<1>7. \A i \in 1..n : SubSeq(x, 1, n)[i] = x[i]
  BY <1>1
<1>8. \A i \in 1..(Len(x) - n) : SubSeq(x, n + 1, Len(x))[i] = x[n + i]
  BY <1>1
<1> QED BY <1>4, <1>5, <1>6, <1>7, <1>8

\* The bytes of a write.
LEMMA BytesTyped ==
    ASSUME Typed, NEW t \in Tasks, NEW p \in Pipes, NEW d \in Nat, NEW n \in Nat
    PROVE  /\ Bytes(t, p, d, n) \in Seq(Byte) /\ Len(Bytes(t, p, d, n)) = n
           /\ \A i \in 1..n : Bytes(t, p, d, n)[i] = [by |-> t, n |-> sent[t][p] + d + i]
<1>1. sent[t][p] \in Nat
  BY DEF Typed
<1>2. \A i \in 1..n : [by |-> t, n |-> sent[t][p] + d + i] \in Byte
  BY <1>1 DEF Byte
<1> QED BY <1>2 DEF Bytes

LEMMA IssueBounded ==
    ASSUME Typed, WithinCapacity, NEW t \in Tasks, NEW c \in Call, Issue(t, c)
    PROVE  Typed' /\ WithinCapacity'
<1>1. /\ load \in Workloads /\ task \in [Tasks -> TaskRec] /\ c.pipe \in Pipes
      /\ buf \in [Pipes -> Seq(Byte)] /\ taken \in [Pipes -> Seq(Byte)]
      /\ sent \in [Tasks -> [Pipes -> Nat]] /\ task[t].progress \in Nat
  BY CallIsCall DEF Typed, TaskRec
<1>2. CASE c.op = "w"
  <2> DEFINE w == PipeWriteFrom(t, c)
             ret == AfterCall(task[t], c, w.r).ret
             b == Bytes(t, c.pipe, task[t].progress, w.n)
  <2>1. TaskEffect(t, c, w.r, ret)
    BY <1>2, IssueWrite
  <2>2. WriteEffect(t, c, w.n, ret)
    BY <1>2, IssueWrite
  <2>3. Len(buf[c.pipe]) <= Capacity
    BY <1>1 DEF WithinCapacity
  <2>4. w.n \in Nat /\ Len(buf[c.pipe]) + w.n <= Capacity
    BY <2>3, WriteResult
  <2> HIDE DEF w, ret
  <2>5. b \in Seq(Byte) /\ Len(b) = w.n
    <3>1. b \in Seq(Byte)
      BY <1>1, <2>4, BytesTyped, Zenon
    <3>2. Len(b) = w.n
      BY <2>4 DEF Bytes
    <3> QED BY <3>1, <3>2
  <2>6. buf' = [buf EXCEPT ![c.pipe] = @ \o b] /\ taken' = taken
    BY <2>2 DEF WriteEffect
  <2>7. load' = load /\ task'[t] \in TaskRec /\ ret \in Int /\ task' = [task EXCEPT ![t] = task'[t]]
    BY <2>1 DEF TaskEffect
  <2>8. sent' \in [Tasks -> [Pipes -> Nat]]
    <3>1. CASE ret > 0
      <4>1. sent' = [sent EXCEPT ![t][c.pipe] = @ + ret]
        BY <2>2, <3>1 DEF WriteEffect
      <4> QED BY <1>1, <2>7, <3>1, <4>1
    <3>2. CASE ~(ret > 0)
      BY <1>1, <2>2, <3>2 DEF WriteEffect
    <3> QED BY <3>1, <3>2
  <2> HIDE DEF b
  <2>9. buf' \in [Pipes -> Seq(Byte)] /\ \A p \in Pipes : Len(buf'[p]) <= Capacity
    <3>1. buf[c.pipe] \o b \in Seq(Byte) /\ Len(buf[c.pipe] \o b) = Len(buf[c.pipe]) + w.n
      <4>1. buf[c.pipe] \in Seq(Byte)
        BY <1>1
      <4>2. buf[c.pipe] \o b \in Seq(Byte)
        BY <2>5, <4>1, Glued
      <4>3. Len(buf[c.pipe] \o b) = Len(buf[c.pipe]) + Len(b)
        <5> DEFINE q == buf[c.pipe]
        <5> HIDE DEF q
        <5>1. q \in Seq(Byte) /\ b \in Seq(Byte)
          BY <2>5, <4>1 DEF q
        <5>2. Len(q \o b) = Len(q) + Len(b)
          BY <5>1
        <5> QED BY <5>2 DEF q
      <4> QED BY <2>5, <4>2, <4>3
    <3>2. \A p \in Pipes : buf'[p] = IF p = c.pipe THEN buf[c.pipe] \o b ELSE buf[p]
      BY <1>1, <2>6
    <3>3. buf' \in [Pipes -> Seq(Byte)]
      BY <1>1, <2>6, <3>1
    <3> QED BY <2>4, <3>1, <3>2, <3>3 DEF WithinCapacity
  <2>10. task' \in [Tasks -> TaskRec']
    BY <1>1, <2>7, SameLoad, Zenon
  <2> QED BY <1>1, <2>6, <2>7, <2>8, <2>9, <2>10 DEF Typed, WithinCapacity
<1>3. CASE c.op # "w"
  <2> DEFINE d == ReadPipe(t, c)
             ret == AfterCall(task[t], c, d.r).ret
             q == buf[c.pipe]
  <2>1. TaskEffect(t, c, d.r, ret)
    BY <1>3, IssueRead
  <2>2. ReadEffect(c, d.n)
    BY <1>3, IssueRead
  <2>3. d.n \in Nat /\ d.n <= Len(q)
    BY ReadResult
  <2> HIDE DEF d, ret
  <2>4. load' = load /\ task'[t] \in TaskRec /\ task' = [task EXCEPT ![t] = task'[t]]
    BY <2>1 DEF TaskEffect
  <2>5. /\ SubSeq(q, d.n + 1, Len(q)) \in Seq(Byte) /\ SubSeq(q, 1, d.n) \in Seq(Byte)
        /\ Len(SubSeq(q, d.n + 1, Len(q))) = Len(q) - d.n /\ Len(q) - d.n <= Len(q)
    <3>1. q \in Seq(Byte) /\ d.n \in 0..Len(q) /\ Len(q) \in Nat
      BY <1>1, <2>3
    <3>2. Len(q) - d.n <= Len(q)
      BY <3>1
    <3> QED BY <3>1, <3>2, CutInTwo
  <2>6. taken[c.pipe] \o SubSeq(q, 1, d.n) \in Seq(Byte)
    BY <1>1, <2>5, Glued
  <2>7. buf' \in [Pipes -> Seq(Byte)] /\ taken' \in [Pipes -> Seq(Byte)] /\ sent' = sent
    BY <1>1, <2>2, <2>5, <2>6, Zenon DEF ReadEffect
  <2>8. \A p \in Pipes : buf'[p] = IF p = c.pipe THEN SubSeq(q, d.n + 1, Len(q)) ELSE buf[p]
    BY <1>1, <2>2 DEF ReadEffect
  <2>9. \A p \in Pipes : Len(buf'[p]) <= Capacity
    <3>1. Len(q) <= Capacity /\ Len(q) \in Nat
      BY <1>1 DEF WithinCapacity
    <3>2. Len(SubSeq(q, d.n + 1, Len(q))) <= Capacity
      BY <2>3, <2>5, <3>1
    <3> QED BY <2>8, <3>2, Zenon DEF WithinCapacity
  <2>10. task' \in [Tasks -> TaskRec']
    BY <1>1, <2>4, SameLoad
  <2> QED BY <1>1, <2>4, <2>7, <2>9, <2>10 DEF Typed, WithinCapacity
<1> QED BY <1>2, <1>3

\* The other calls change records only.
LEMMA OthersTyped ==
    ASSUME Typed, NEW t \in Tasks, Close(t) \/ Exit(t) \/ Sigreturn(t) \/ \E u \in Tasks : Kill(t, u)
    PROVE  /\ Typed' /\ load' = load /\ buf' = buf /\ taken' = taken /\ sent' = sent
           /\ \A u \in Tasks : /\ task'[u].progress = task[u].progress
                               /\ task[u].call # NoCall => task'[u].call = task[u].call
                               /\ task[u].saved = NoCall =>
                                     task'[u].call = task[u].call /\ task'[u].saved = NoCall
<1>1. load \in Workloads /\ task \in [Tasks -> TaskRec]
  BY DEF Typed
<1>2. load' = load /\ buf' = buf /\ taken' = taken /\ sent' = sent
  BY DEF Close, Exit, Sigreturn, Kill
<1>3. \A u \in Tasks :
         /\ task[u].call \in Call \cup {NoCall} /\ task[u].saved \in Call \cup {NoCall}
         /\ task[u].ends \in SUBSET ({"r", "w"} \X Pipes)
  BY <1>1 DEF TaskRec
<1>4. CASE Close(t)
  <2>1. PICK e \in task[t].ends : task' = [task EXCEPT ![t].ends = @ \ {e}]
    BY <1>4, Zenon DEF Close
  <2>2. task[t].ends \ {e} \in SUBSET ({"r", "w"} \X Pipes)
    BY <1>3
  <2>3. task' \in [Tasks -> TaskRec]
    BY <1>1, <2>1, <2>2 DEF TaskRec
  <2>4. \A u \in Tasks : /\ task'[u].progress = task[u].progress
                         /\ task'[u].call = task[u].call /\ task'[u].saved = task[u].saved
    BY <1>1, <2>1 DEF TaskRec
  <2> QED BY <1>2, <2>3, <2>4, SameLoad, Zenon DEF Typed
<1>5. CASE Exit(t)
  <2>1. task' = [task EXCEPT ![t].ended = TRUE, ![t].ends = {}]
    BY <1>5 DEF Exit
  <2>2. task' \in [Tasks -> TaskRec]
    <3> DEFINE me == task[t]
               new == [me EXCEPT !.ended = TRUE, !.ends = {}]
    <3>0. me \in TaskRec
      BY <1>1
    <3>1. new \in TaskRec
      <4> HIDE DEF me
      <4> QED BY <3>0, Zenon DEF TaskRec
    <3>2. task' = [task EXCEPT ![t] = new]
      BY <2>1, Zenon
    <3> QED BY <1>1, <3>1, <3>2
  <2>3. \A u \in Tasks : /\ task'[u].progress = task[u].progress
                         /\ task'[u].call = task[u].call /\ task'[u].saved = task[u].saved
    BY <1>1, <2>1 DEF TaskRec
  <2> QED BY <1>2, <2>2, <2>3, SameLoad DEF Typed
<1>6. CASE Sigreturn(t)
  <2>1. /\ task' = [task EXCEPT ![t].handler = FALSE, ![t].call = task[t].saved, ![t].saved = NoCall]
        /\ task[t].call = NoCall
    BY <1>6 DEF Sigreturn
  <2>2. task' \in [Tasks -> TaskRec]
    <3> DEFINE me == task[t]
               new == [me EXCEPT !.handler = FALSE, !.call = me.saved, !.saved = NoCall]
    <3>0. me \in TaskRec
      BY <1>1
    <3>1. new \in TaskRec
      <4> HIDE DEF me
      <4> QED BY <3>0, Zenon DEF TaskRec
    <3>2. task' = [task EXCEPT ![t] = new]
      BY <2>1, Zenon
    <3> QED BY <1>1, <3>1, <3>2
  <2>3. \A u \in Tasks :
           /\ task'[u].progress = task[u].progress
           /\ task'[u].call = (IF u = t THEN task[t].saved ELSE task[u].call)
           /\ task'[u].saved = (IF u = t THEN NoCall ELSE task[u].saved)
    BY <1>1, <2>1 DEF TaskRec
  <2> QED BY <1>2, <2>1, <2>2, <2>3, SameLoad DEF Typed
<1>7. CASE \E u \in Tasks : Kill(t, u)
  <2>1. PICK u \in Tasks, h \in load.handlers : task' = [task EXCEPT ![u].sig = h]
    BY <1>7, Zenon DEF Kill
  <2>2. task' \in [Tasks -> TaskRec]
    BY <1>1, <2>1 DEF TaskRec
  <2>3. \A v \in Tasks : /\ task'[v].progress = task[v].progress
                         /\ task'[v].call = task[v].call /\ task'[v].saved = task[v].saved
    BY <1>1, <2>1 DEF TaskRec
  <2> QED BY <1>2, <2>2, <2>3, SameLoad DEF Typed
<1> QED BY <1>4, <1>5, <1>6, <1>7

CapacityInv == Typed /\ WithinCapacity

LEMMA CapacityInit == Init => CapacityInv
<1> SUFFICES ASSUME Init PROVE CapacityInv
  OBVIOUS
<1>1. load \in Workloads
  BY DEF Init, PipeInit
<1>2. \A t \in Tasks : Fresh(t) \in TaskRec
  BY <1>1, LoadTypes DEF Fresh, TaskRec, NoCall
<1>3. task \in [Tasks -> TaskRec]
  BY <1>2 DEF Init, PipeInit
<1>4. /\ buf \in [Pipes -> Seq(Byte)] /\ taken \in [Pipes -> Seq(Byte)]
      /\ sent \in [Tasks -> [Pipes -> Nat]] /\ \A p \in Pipes : Len(buf[p]) = 0
  BY DEF Init, PipeInit
<1>5. Capacity \in Nat
  OBVIOUS
<1> QED BY <1>1, <1>3, <1>4, <1>5 DEF CapacityInv, Typed, WithinCapacity

LEMMA CapacityStep == CapacityInv /\ [Next]_vars => CapacityInv'
<1> SUFFICES ASSUME CapacityInv, [Next]_vars PROVE CapacityInv'
  OBVIOUS
<1>1. Typed /\ WithinCapacity
  BY DEF CapacityInv
<1>2. CASE UNCHANGED pipeVars
  BY <1>1, <1>2, SameLoad DEF pipeVars, CapacityInv, Typed, WithinCapacity
<1>3. ASSUME NEW t \in Tasks, NEW c \in Calls(t), Issue(t, c) PROVE CapacityInv'
  <2>1. c \in Call
    BY <1>1, CallsAreCalls
  <2> QED BY <1>1, <1>3, <2>1, IssueBounded DEF CapacityInv
<1>4. ASSUME NEW t \in Tasks, Close(t) \/ Exit(t) \/ Sigreturn(t) \/ \E u \in Tasks : Kill(t, u)
      PROVE  CapacityInv'
  <2>1. Typed' /\ buf' = buf
    BY <1>1, <1>4, OthersTyped, Zenon
  <2> QED BY <1>1, <2>1 DEF CapacityInv, WithinCapacity
<1> QED BY <1>2, <1>3, <1>4, StepsOfPipes, Zenon DEF PipeStep

\* For every capacity and every workload, no pipe ever holds more than its capacity:
\* neither pipe_write_from's split between atomic and partial writes nor the calls
\* issued again after a block put in more than there is room for.
THEOREM CapacityKept == Spec => []WithinCapacity
<1>1. Spec => []CapacityInv
  BY CapacityInit, CapacityStep, PTL DEF Spec
<1> QED BY <1>1, PTL DEF CapacityInv

-------------------------------------------------------------------------------
(* The stream.                                                             *)

\* io_progress is what the blocked write put in, and is 0 outside of one.
ProgressIsWritten(t) ==
    /\ task[t].saved # NoCall => ShortOnly
    /\ task[t].call = NoCall \/ task[t].call.op = "r" => task[t].progress = 0
    /\ task[t].call # NoCall /\ task[t].call.op = "w" =>
          /\ task[t].progress < task[t].call.n
          /\ task[t].call.n <= load.atomic => task[t].progress = 0

\* The bytes of t in s are numbered 1..m, in order.
Numbered(s, t, m) ==
    /\ \A i \in 1..Len(s) : s[i].by = t => s[i].n \in 1..m
    /\ \A i, j \in 1..Len(s) : i < j /\ s[i].by = t /\ s[j].by = t => s[i].n < s[j].n
    /\ \A k \in 1..m : \E i \in 1..Len(s) : s[i].by = t /\ s[i].n = k

Written(t, p) == sent[t][p] + Partial(t, p)

StreamInv ==
    WritesApart => /\ \A t \in Tasks : ProgressIsWritten(t)
                   /\ \A t \in Tasks, p \in Pipes : Numbered(Stream(p), t, Written(t, p))

\* pipe_write_from on a write that goes on from what it put in before: the count it
\* returns or keeps is all it put in, and a short write that blocks put in nothing.
LEMMA WriteCounts ==
    ASSUME Typed, NEW t \in Tasks, NEW c \in Call, Len(buf[c.pipe]) <= Capacity,
           task[t].progress < c.n
    PROVE  LET w == PipeWriteFrom(t, c)
               d == task[t].progress
           IN  /\ w.r.block => d + w.n < c.n /\ (c.n <= load.atomic /\ d = 0 => w.n = 0)
               /\ ~w.r.block => w.r.ret = d + w.n \/ (w.r.ret = -1 /\ d + w.n = 0)
<1> DEFINE d == task[t].progress
           k == Len(buf[c.pipe])
           room == Capacity - k
           rest == IF c.n > d THEN c.n - d ELSE 0
           m == Accepted(rest, room)
           broken == Open("r", c.pipe) = {}
           w == PipeWriteFrom(t, c)
<1>1. d \in Nat /\ k \in Nat /\ c.n \in Nat /\ load.atomic \in Nat /\ Capacity \in Nat
  <2>1. load \in Workloads /\ task[t] \in TaskRec /\ buf[c.pipe] \in Seq(Byte) /\ c.n \in load.sizes
    BY CallIsCall DEF Typed
  <2>2. d \in Nat
    BY <2>1 DEF TaskRec
  <2>3. c.n \in Nat /\ load.atomic \in Nat
    BY <2>1, LoadTypes
  <2> QED BY <2>1, <2>2, <2>3
<1>2. room \in Nat /\ rest = c.n - d /\ rest \in Nat /\ d < c.n
  BY <1>1
<1>3. w = [r |-> IF broken THEN Returned(IF d > 0 THEN d ELSE -1)
                 ELSE IF d + m >= c.n THEN Returned(c.n)
                 ELSE IF "w" \in load.nonblock THEN Returned(IF d + m > 0 THEN d + m ELSE -1)
                 ELSE Blocked(d + m),
           n |-> IF broken THEN 0 ELSE m, from |-> d]
  BY DEF PipeWriteFrom
<1> HIDE DEF d, k, room, rest, broken, w
<1>4. m \in Nat /\ m <= rest /\ (rest <= load.atomic => m = 0 \/ m = rest)
  BY <1>1, <1>2 DEF Accepted
<1> HIDE DEF m
<1>5. d + m <= c.n /\ (c.n <= load.atomic /\ d = 0 => m = 0 \/ d + m = c.n)
  BY <1>1, <1>2, <1>4
<1>6. w.n = IF broken THEN 0 ELSE m
  BY <1>3
<1>7. w.r = IF broken THEN Returned(IF d > 0 THEN d ELSE -1)
            ELSE IF d + m >= c.n THEN Returned(c.n)
            ELSE IF "w" \in load.nonblock THEN Returned(IF d + m > 0 THEN d + m ELSE -1)
            ELSE Blocked(d + m)
  BY <1>3
<1>8. /\ \A x \in Int : ~Returned(x).block /\ Returned(x).ret = x
      /\ \A x \in Nat : Blocked(x).block
  BY DEF Returned, Blocked
<1>9. w.r.block => d + w.n < c.n /\ (c.n <= load.atomic /\ d = 0 => w.n = 0)
  BY <1>1, <1>4, <1>5, <1>6, <1>7, <1>8
<1>10. ~w.r.block => w.r.ret = d + w.n \/ (w.r.ret = -1 /\ d + w.n = 0)
  <2>1. CASE broken
    <3>1. w.n = 0 /\ w.r = Returned(IF d > 0 THEN d ELSE -1)
      BY <1>6, <1>7, <2>1
    <3>2. w.r.ret = IF d > 0 THEN d ELSE -1
      BY <1>1, <1>8, <3>1
    <3> QED BY <1>1, <3>1, <3>2
  <2>2. CASE ~broken /\ d + m >= c.n
    <3>1. w.n = m /\ w.r = Returned(c.n)
      BY <1>6, <1>7, <2>2
    <3>2. w.r.ret = c.n
      BY <1>1, <1>8, <3>1
    <3> QED BY <1>1, <1>4, <1>5, <2>2, <3>1, <3>2
  <2>3. CASE ~broken /\ ~(d + m >= c.n) /\ "w" \in load.nonblock
    <3>1. w.n = m /\ w.r = Returned(IF d + m > 0 THEN d + m ELSE -1)
      BY <1>6, <1>7, <2>3
    <3>2. w.r.ret = IF d + m > 0 THEN d + m ELSE -1
      BY <1>1, <1>4, <1>8, <3>1
    <3> QED BY <1>1, <1>4, <3>1, <3>2
  <2>4. CASE ~broken /\ ~(d + m >= c.n) /\ "w" \notin load.nonblock
    BY <1>1, <1>4, <1>7, <1>8, <2>4
  <2> QED BY <2>1, <2>2, <2>3, <2>4
<1> QED BY <1>9, <1>10 DEF w, d

LEMMA SameSeq ==
    ASSUME NEW S, NEW x \in Seq(S), NEW y \in Seq(S), Len(x) = Len(y),
           \A i \in 1..Len(x) : x[i] = y[i]
    PROVE  x = y
OBVIOUS

LEMMA Regroup ==
    ASSUME NEW S, NEW x \in Seq(S), NEW y \in Seq(S), NEW z \in Seq(S)
    PROVE  x \o (y \o z) = (x \o y) \o z
<1> DEFINE l == x \o (y \o z)
           r == (x \o y) \o z
<1>1. Len(x) \in Nat /\ Len(y) \in Nat /\ Len(z) \in Nat
  OBVIOUS
<1>2. x \o y \in Seq(S) /\ Len(x \o y) = Len(x) + Len(y)
  OBVIOUS
<1>3. y \o z \in Seq(S) /\ Len(y \o z) = Len(y) + Len(z)
  OBVIOUS
<1>4. l \in Seq(S) /\ r \in Seq(S) /\ Len(l) = Len(x) + (Len(y) + Len(z)) /\ Len(r) = (Len(x) + Len(y)) + Len(z)
  BY <1>2, <1>3
<1>5. ASSUME NEW i \in 1..Len(l) PROVE l[i] = r[i]
  BY <1>1, <1>2, <1>3, <1>4
<1> HIDE DEF l, r
<1>6. Len(l) = Len(r)
  BY <1>1, <1>4
<1>7. l = r
  BY <1>4, <1>5, <1>6, SameSeq, Zenon
<1> QED BY <1>7 DEF l, r

LEMMA Rejoined ==
    ASSUME NEW S, NEW x \in Seq(S), NEW y \in Seq(S), NEW n \in 0..Len(y)
    PROVE  (x \o SubSeq(y, 1, n)) \o SubSeq(y, n + 1, Len(y)) = x \o y
<1> DEFINE a == SubSeq(y, 1, n)
           b == SubSeq(y, n + 1, Len(y))
<1>1. a \in Seq(S) /\ Len(a) = n /\ \A i \in 1..n : a[i] = y[i]
  BY CutInTwo
<1>2. b \in Seq(S) /\ Len(b) = Len(y) - n /\ \A i \in 1..(Len(y) - n) : b[i] = y[n + i]
  BY CutInTwo
<1> HIDE DEF a, b
<1>0. a \in Seq(S) /\ b \in Seq(S)
  BY <1>1, <1>2
<1>3. a \o b \in Seq(S) /\ Len(a \o b) = Len(a) + Len(b)
  BY <1>0
<1>4. Len(y) \in Nat /\ n \in Nat /\ n <= Len(y) /\ Len(a \o b) = Len(y)
  BY <1>1, <1>2, <1>3
<1>5. ASSUME NEW i \in 1..Len(y) PROVE (a \o b)[i] = y[i]
  <2>1. CASE i <= n
    BY <1>1, <1>2, <1>4, <2>1
  <2>2. CASE i > n
    <3>1. (a \o b)[i] = b[i - n]
      BY <1>1, <1>2, <1>4, <2>2
    <3>2. i - n \in 1..(Len(y) - n) /\ n + (i - n) = i
      BY <1>4, <2>2
    <3> QED BY <1>2, <3>1, <3>2
  <2> QED BY <1>4, <2>1, <2>2
<1>6. a \o b = y
  BY <1>3, <1>4, <1>5, SameSeq, Zenon
<1>7. (x \o a) \o b = x \o (a \o b)
  BY <1>0, Regroup, SMTT(60)
<1> QED BY <1>6, <1>7, Zenon DEF a, b

\* Bytes of u behind a stream: u's numbering goes on, the others' stands.
LEMMA NumberedOn ==
    ASSUME NEW s \in Seq(Byte), NEW b \in Seq(Byte), NEW u, NEW m \in Nat, Numbered(s, u, m),
           \A i \in 1..Len(b) : b[i].by = u /\ b[i].n = m + i
    PROVE  Numbered(s \o b, u, m + Len(b))
<1> DEFINE x == s \o b
           l == Len(s)
           k == Len(b)
<1>1. l \in Nat /\ k \in Nat /\ Len(x) = l + k
  OBVIOUS
<1>2. \A i \in 1..l : x[i] = s[i]
  OBVIOUS
<1>3. \A i \in 1..(l + k) : i > l => x[i].by = u /\ x[i].n = m + (i - l)
  <2> SUFFICES ASSUME NEW i \in 1..(l + k), i > l PROVE x[i].by = u /\ x[i].n = m + (i - l)
    OBVIOUS
  <2>1. x[i] = b[i - l] /\ i - l \in 1..Len(b)
    BY <1>1
  <2> QED BY <2>1
<1> HIDE DEF x, k
<1>4. ASSUME NEW i \in 1..Len(x), x[i].by = u PROVE x[i].n \in 1..(m + k)
  <2>1. CASE i <= l
    <3>1. x[i] = s[i] /\ i \in 1..Len(s)
      BY <1>1, <1>2, <2>1
    <3>2. s[i].n \in 1..m
      BY <1>4, <3>1 DEF Numbered
    <3> QED BY <1>1, <3>1, <3>2
  <2>2. CASE i > l
    BY <1>1, <1>3, <2>2
  <2> QED BY <1>1, <2>1, <2>2
<1>5. ASSUME NEW i \in 1..Len(x), NEW j \in 1..Len(x), i < j, x[i].by = u, x[j].by = u
      PROVE  x[i].n < x[j].n
  <2>1. CASE j <= l
    <3>1. x[i] = s[i] /\ i \in 1..Len(s) /\ x[j] = s[j] /\ j \in 1..Len(s)
      BY <1>1, <1>2, <1>5, <2>1
    <3> QED BY <1>5, <3>1 DEF Numbered
  <2>2. CASE j > l /\ i <= l
    <3>1. x[i] = s[i] /\ i \in 1..Len(s)
      BY <1>1, <1>2, <2>2
    <3>2. s[i].n \in 1..m
      BY <1>5, <3>1 DEF Numbered
    <3>3. x[j].n = m + (j - l)
      BY <1>1, <1>3, <2>2
    <3> QED BY <1>1, <2>2, <3>1, <3>2, <3>3
  <2>3. CASE j > l /\ i > l
    <3>1. x[j].n = m + (j - l) /\ x[i].n = m + (i - l)
      BY <1>1, <1>3, <2>3
    <3> QED BY <1>1, <1>5, <3>1
  <2> QED BY <1>1, <2>1, <2>2, <2>3
<1>6. ASSUME NEW n \in 1..(m + k) PROVE \E i \in 1..Len(x) : x[i].by = u /\ x[i].n = n
  <2>1. CASE n <= m
    <3>1. n \in 1..m
      BY <1>1, <2>1
    <3>2. PICK i \in 1..Len(s) : s[i].by = u /\ s[i].n = n
      BY <3>1 DEF Numbered
    <3>3. i \in 1..Len(x) /\ x[i] = s[i]
      BY <1>1, <1>2
    <3> QED BY <3>2, <3>3
  <2>2. CASE n > m
    <3>1. l + (n - m) \in 1..(l + k) /\ l + (n - m) > l /\ m + ((l + (n - m)) - l) = n
      BY <1>1, <2>2
    <3>2. x[l + (n - m)].by = u /\ x[l + (n - m)].n = n
      BY <1>3, <3>1
    <3> QED BY <1>1, <3>1, <3>2
  <2> QED BY <1>1, <2>1, <2>2
<1>7. Numbered(x, u, m + k)
  BY <1>4, <1>5, <1>6 DEF Numbered
<1> QED BY <1>7 DEF x, k

LEMMA NumberedStill ==
    ASSUME NEW s \in Seq(Byte), NEW b \in Seq(Byte), NEW u, NEW t, t # u, NEW m \in Nat,
           Numbered(s, t, m), \A i \in 1..Len(b) : b[i].by = u
    PROVE  Numbered(s \o b, t, m)
<1> DEFINE x == s \o b
           l == Len(s)
<1>1. l \in Nat /\ Len(b) \in Nat /\ Len(x) = l + Len(b)
  OBVIOUS
<1>2. \A i \in 1..l : x[i] = s[i]
  OBVIOUS
<1>3. \A i \in 1..Len(x) : x[i].by = t => i \in 1..l
  <2> SUFFICES ASSUME NEW i \in 1..Len(x), i > l PROVE x[i].by = u
    BY <1>1
  <2>1. x[i] = b[i - l] /\ i - l \in 1..Len(b)
    BY <1>1
  <2> QED BY <2>1
<1> HIDE DEF x
<1>4. \A i \in 1..Len(x) : x[i].by = t => x[i].n \in 1..m
  BY <1>2, <1>3 DEF Numbered
<1>5. \A i, j \in 1..Len(x) : i < j /\ x[i].by = t /\ x[j].by = t => x[i].n < x[j].n
  BY <1>2, <1>3 DEF Numbered
<1>6. \A n \in 1..m : \E i \in 1..Len(x) : x[i].by = t /\ x[i].n = n
  <2> SUFFICES ASSUME NEW n \in 1..m PROVE \E i \in 1..Len(x) : x[i].by = t /\ x[i].n = n
    OBVIOUS
  <2>1. PICK i \in 1..Len(s) : s[i].by = t /\ s[i].n = n
    BY DEF Numbered
  <2>2. i \in 1..Len(x) /\ x[i] = s[i]
    BY <1>1, <1>2
  <2> QED BY <2>1, <2>2
<1>7. Numbered(x, t, m)
  BY <1>4, <1>5, <1>6 DEF Numbered
<1> QED BY <1>7 DEF x

\* Where only short writes are made, none is ever under way.
LEMMA ShortIsZero ==
    ASSUME Typed, NEW t \in Tasks, ProgressIsWritten(t), ShortOnly
    PROVE  task[t].progress = 0
<1>1. task[t].call \in Call \cup {NoCall}
  BY DEF Typed, TaskRec
<1>2. CASE task[t].call \in Call
  BY <1>2, CallIsCall DEF ProgressIsWritten, ShortOnly
<1>3. CASE task[t].call = NoCall
  BY <1>3 DEF ProgressIsWritten
<1> QED BY <1>1, <1>2, <1>3

\* A write goes on from what it put in before.
LEMMA WriteGoesOn ==
    ASSUME Typed, NEW t \in Tasks, ProgressIsWritten(t), NEW c \in Calls(t), c.op = "w"
    PROVE  /\ c \in Call /\ task[t].progress < c.n
           /\ c.n <= load.atomic => task[t].progress = 0
           /\ \A q \in Pipes : Partial(t, q) = IF q = c.pipe THEN task[t].progress ELSE 0
<1>1. c \in Call
  BY CallsAreCalls
<1>2. c.n \in Nat /\ c.n > 0
  <2>1. load \in Workloads /\ c.n \in load.sizes
    BY <1>1, CallIsCall DEF Typed
  <2> QED BY <2>1, LoadTypes
<1>3. CASE task[t].call = NoCall
  <2>1. task[t].progress = 0
    BY <1>3 DEF ProgressIsWritten
  <2> QED BY <1>1, <1>2, <2>1 DEF Partial
<1>4. CASE task[t].call # NoCall
  <2>1. c = task[t].call
    BY <1>4 DEF Calls
  <2>2. task[t].progress < c.n /\ (c.n <= load.atomic => task[t].progress = 0)
    BY <1>4, <2>1 DEF ProgressIsWritten
  <2>3. task[t].saved # NoCall => task[t].progress = 0
    BY ShortIsZero DEF ProgressIsWritten
  <2>4. ASSUME NEW q \in Pipes PROVE Partial(t, q) = IF q = c.pipe THEN task[t].progress ELSE 0
    BY <1>4, <2>1, <2>3 DEF Partial, WritesTo
  <2> QED BY <1>1, <2>2, <2>4
<1> QED BY <1>3, <1>4

\* A restarting handler runs only where writes are short.
LEMMA RestartsAreShort ==
    ASSUME Typed, WritesApart, NEW t \in Tasks, task[t].sig = "restart"
    PROVE  ShortOnly
<1>1. task[t].sig \in {"none"} \cup load.handlers
  BY DEF Typed, TaskRec
<1> QED BY <1>1 DEF WritesApart

\* What the guest was told and what is under way, after one more write call.
LEMMA WriteAccount ==
    ASSUME Typed, WithinCapacity, WritesApart, NEW t \in Tasks, ProgressIsWritten(t),
           NEW c \in Calls(t), c.op = "w", Issue(t, c)
    PROVE  /\ ProgressIsWritten(t)'
           /\ \A q \in Pipes : Written(t, q)' =
                 IF q = c.pipe THEN Written(t, q) + PipeWriteFrom(t, c).n ELSE Written(t, q)
<1> DEFINE w == PipeWriteFrom(t, c)
           r == w.r
           n == w.n
           d == task[t].progress
           ret == AfterCall(task[t], c, w.r).ret
           new == task'[t]
<1>1. c \in Call /\ d < c.n /\ (c.n <= load.atomic => d = 0)
  BY WriteGoesOn
<1>2. \A q \in Pipes : Partial(t, q) = IF q = c.pipe THEN d ELSE 0
  BY WriteGoesOn
<1>3. Len(buf[c.pipe]) <= Capacity /\ c.pipe \in Pipes
  BY <1>1, CallIsCall DEF WithinCapacity
<1>4. n \in Nat /\ (r.block => r.progress = d + n) /\ (~r.block => r.progress = 0)
  BY <1>1, <1>3, WriteResult, Zenon
<1>5. r.block => d + n < c.n /\ (c.n <= load.atomic /\ d = 0 => n = 0)
  BY <1>1, <1>3, WriteCounts, Zenon
<1>6. ~r.block => r.ret = d + n \/ (r.ret = -1 /\ d + n = 0)
  BY <1>1, <1>3, WriteCounts
<1>7. TaskEffect(t, c, r, ret)
  BY <1>1, IssueWrite, Zenon
<1>8. WriteEffect(t, c, n, ret)
  BY <1>1, IssueWrite, Zenon
<1>9. d \in Nat /\ c.n \in Nat /\ load.atomic \in Nat
  <2>1. load \in Workloads /\ c.n \in load.sizes /\ task[t] \in TaskRec
    BY <1>1, CallIsCall DEF Typed
  <2> QED BY <2>1, LoadTypes DEF TaskRec
<1> HIDE DEF w, ret
<1>10. load' = load /\ ret \in Int /\ new \in TaskRec
  BY <1>7 DEF TaskEffect
<1>11. ShortOnly' = ShortOnly
  BY <1>10 DEF ShortOnly
<1>12. /\ sent \in [Tasks -> [Pipes -> Nat]]
       /\ sent' = IF ret > 0 THEN [sent EXCEPT ![t][c.pipe] = @ + ret] ELSE sent
  BY <1>8, Zenon DEF Typed, WriteEffect
<1>13. \A q \in Pipes : sent'[t][q] = IF q = c.pipe /\ ret > 0 THEN sent[t][q] + ret ELSE sent[t][q]
  BY <1>3, <1>12
<1>14. \A q \in Pipes : sent[t][q] \in Nat
  BY <1>12
<1>15. ShortOnly => c.n <= load.atomic
  BY <1>1, CallIsCall DEF ShortOnly
<1>16. CASE new.call # NoCall
  <2>1. new.call = c /\ r.block /\ new.progress = d + n /\ ret = 0 /\ new.saved = task[t].saved
    BY <1>4, <1>7, <1>16, Zenon DEF TaskEffect
  <2>2. new.progress < c.n /\ (c.n <= load.atomic => new.progress = 0)
    BY <1>1, <1>4, <1>5, <2>1, SMTT(60)
  <2>3. ProgressIsWritten(t)'
    BY <1>10, <1>11, <1>16, <2>1, <2>2 DEF ProgressIsWritten
  <2>4. new.saved # NoCall => new.progress = 0
    BY <1>15, <2>1, <2>2, Zenon DEF ProgressIsWritten
  <2>5. \A q \in Pipes : Partial(t, q)' = IF q = c.pipe THEN d + n ELSE 0
    BY <1>16, <2>1, <2>4 DEF Partial, WritesTo
  <2>6. \A q \in Pipes : sent'[t][q] = sent[t][q]
    BY <1>13, <2>1
  <2>7. \A q \in Pipes : Written(t, q)' = IF q = c.pipe THEN Written(t, q) + n ELSE Written(t, q)
    BY <1>2, <1>4, <1>9, <1>14, <2>5, <2>6, SMTT(60) DEF Written
  <2> QED BY <2>3, <2>7 DEF w
<1>17. CASE new.call = NoCall
  <2>1. \/ /\ new.saved \in {task[t].saved, NoCall} /\ new.progress = 0
           /\ ret = (IF r.block THEN d + n ELSE r.ret)
        \/ ShortOnly /\ r.block /\ new.progress = d + n /\ ret = 0
    <3>1. task[t].sig = "restart" => ShortOnly
      BY RestartsAreShort
    <3>2. \/ /\ new.saved \in {task[t].saved, NoCall}
             /\ new.progress = (IF r.block THEN 0 ELSE r.progress)
             /\ ret = (IF r.block THEN r.progress ELSE r.ret)
          \/ task[t].sig = "restart" /\ r.block /\ new.progress = r.progress /\ ret = 0
      BY <1>7, <1>17 DEF TaskEffect
    <3> QED BY <1>4, <3>1, <3>2
  <2>2. new.progress = 0 /\ (ret = d + n \/ (d + n = 0 /\ ret = -1)) /\ (new.saved # NoCall => ShortOnly)
    <3>1. task[t].saved # NoCall => ShortOnly
      BY DEF ProgressIsWritten
    <3> QED BY <1>1, <1>4, <1>5, <1>6, <1>9, <1>15, <2>1, <3>1
  <2>3. ProgressIsWritten(t)'
    BY <1>11, <1>17, <2>2 DEF ProgressIsWritten
  <2>4. \A q \in Pipes : Partial(t, q)' = 0
    BY <2>2, Zenon DEF Partial
  <2>5. \A q \in Pipes : sent'[t][q] = IF q = c.pipe THEN sent[t][q] + (d + n) ELSE sent[t][q]
    BY <1>4, <1>9, <1>13, <1>14, <2>2
  <2>6. \A q \in Pipes : Written(t, q)' = IF q = c.pipe THEN Written(t, q) + n ELSE Written(t, q)
    BY <1>2, <1>4, <1>9, <1>14, <2>4, <2>5, SMTT(60) DEF Written
  <2> QED BY <2>3, <2>6 DEF w
<1> QED BY <1>16, <1>17

\* A read leaves them alone.
LEMMA ReadAccount ==
    ASSUME Typed, WritesApart, NEW t \in Tasks, ProgressIsWritten(t),
           NEW c \in Calls(t), c.op # "w", Issue(t, c)
    PROVE  ProgressIsWritten(t)' /\ \A q \in Pipes : Written(t, q)' = Written(t, q)
<1> DEFINE r == ReadPipe(t, c).r
           ret == AfterCall(task[t], c, r).ret
           new == task'[t]
<1>1. c \in Call /\ c.op = "r" /\ c # NoCall
  BY CallsAreCalls, CallIsCall
<1>2. task[t].progress = 0
  BY <1>1 DEF ProgressIsWritten, Calls
<1>3. TaskEffect(t, c, r, ret)
  BY <1>1, IssueRead, Zenon
<1>4. sent' = sent
  BY <1>1, IssueRead, Zenon DEF ReadEffect
<1>5. r.progress = 0
  BY <1>1, <1>2, ReadResult
<1> HIDE DEF r, ret
<1>6. new.progress = 0 /\ (new.call = NoCall \/ new.call = c)
  BY <1>3, <1>5 DEF TaskEffect
<1>7. new.saved # NoCall => ShortOnly
  <2>1. new.saved \in {task[t].saved, NoCall} \/ task[t].sig = "restart"
    BY <1>3 DEF TaskEffect
  <2> QED BY <2>1, RestartsAreShort DEF ProgressIsWritten
<1>8. ShortOnly' = ShortOnly
  BY <1>3 DEF TaskEffect, ShortOnly
<1>9. ProgressIsWritten(t)'
  BY <1>1, <1>6, <1>7, <1>8, Zenon DEF ProgressIsWritten
<1>10. \A q \in Pipes : Partial(t, q)' = 0 /\ Partial(t, q) = 0
  BY <1>2, <1>6, Zenon DEF Partial
<1> QED BY <1>4, <1>9, <1>10 DEF Written

\* Whoever does not take the step keeps their account.
LEMMA OtherAccount ==
    ASSUME NEW u \in Tasks, load' = load, task'[u] = task[u], sent'[u] = sent[u]
    PROVE  ProgressIsWritten(u)' = ProgressIsWritten(u) /\ \A q \in Pipes : Written(u, q)' = Written(u, q)
<1>1. ProgressIsWritten(u)' = ProgressIsWritten(u)
  BY DEF ProgressIsWritten, ShortOnly
<1>2. \A q \in Pipes : Partial(u, q)' = Partial(u, q)
  BY DEF Partial, WritesTo
<1> QED BY <1>1, <1>2 DEF Written

LEMMA WrittenNat ==
    ASSUME Typed, NEW t \in Tasks, NEW p \in Pipes
    PROVE  Written(t, p) \in Nat
<1>1. sent[t][p] \in Nat /\ task[t].progress \in Nat
  BY DEF Typed, TaskRec
<1>2. Partial(t, p) \in Nat
  BY <1>1 DEF Partial
<1> QED BY <1>1, <1>2 DEF Written

LEMMA WriteStream ==
    ASSUME Typed, WithinCapacity, StreamInv, WritesApart, NEW t \in Tasks,
           NEW c \in Calls(t), c.op = "w", Issue(t, c)
    PROVE  StreamInv'
<1> DEFINE w == PipeWriteFrom(t, c)
           n == w.n
           d == task[t].progress
           p == c.pipe
           b == Bytes(t, p, d, n)
           ret == AfterCall(task[t], c, w.r).ret
<1>1. /\ \A u \in Tasks : ProgressIsWritten(u)
      /\ \A u \in Tasks, q \in Pipes : Numbered(Stream(q), u, Written(u, q))
  BY DEF StreamInv
<1>2. c \in Call /\ p \in Pipes
  BY <1>1, WriteGoesOn, CallIsCall
<1>3. Len(buf[p]) <= Capacity
  BY <1>2 DEF WithinCapacity
<1>4. n \in Nat
  BY <1>2, <1>3, WriteResult, Zenon
<1>5. ProgressIsWritten(t)'
  BY <1>1, WriteAccount, Zenon
<1>6. \A q \in Pipes : Written(t, q)' = IF q = p THEN Written(t, q) + n ELSE Written(t, q)
  BY <1>1, WriteAccount
<1>7. TaskEffect(t, c, w.r, ret)
  BY <1>2, IssueWrite, Zenon
<1>8. WriteEffect(t, c, n, ret)
  BY <1>2, IssueWrite, Zenon
<1>9. Partial(t, p) = d
  BY <1>1, <1>2, WriteGoesOn, Zenon
<1> HIDE DEF w, ret
<1>10. d \in Nat /\ sent[t][p] \in Nat
  BY <1>2 DEF Typed, TaskRec
<1>11. Written(t, p) = sent[t][p] + d
  BY <1>9 DEF Written
<1>12. b \in Seq(Byte)
  BY <1>2, <1>4, <1>10, BytesTyped
<1>13. Len(b) = n /\ \A i \in 1..n : b[i].by = t /\ b[i].n = Written(t, p) + i
  <2>1. \A i \in 1..n : b[i] = [by |-> t, n |-> sent[t][p] + d + i]
    BY DEF Bytes
  <2>2. Len(b) = n
    BY <1>4 DEF Bytes
  <2> HIDE DEF b
  <2>3. \A i \in 1..n : sent[t][p] + d + i = Written(t, p) + i
    BY <1>10, <1>11
  <2>4. ASSUME NEW i \in 1..n PROVE b[i].by = t /\ b[i].n = sent[t][p] + d + i
    <3> DEFINE x == sent[t][p] + d + i
    <3>1. b[i] = [by |-> t, n |-> x]
      BY <2>1
    <3> HIDE DEF x
    <3>2. b[i].by = t /\ b[i].n = x
      BY <3>1
    <3> QED BY <3>2 DEF x
  <2> QED BY <2>2, <2>3, <2>4
<1>14. buf' = [buf EXCEPT ![p] = @ \o b] /\ taken' = taken
  BY <1>8 DEF WriteEffect
<1> HIDE DEF b
<1>15. \A q \in Pipes : buf[q] \in Seq(Byte) /\ taken[q] \in Seq(Byte) /\ Stream(q) \in Seq(Byte)
  <2>1. \A q \in Pipes : buf[q] \in Seq(Byte) /\ taken[q] \in Seq(Byte)
    BY DEF Typed
  <2> QED BY <2>1, Glued, Zenon DEF Stream
<1>16. Stream(p)' = Stream(p) \o b
  <2>1. buf'[p] = buf[p] \o b /\ taken'[p] = taken[p]
    BY <1>2, <1>14 DEF Typed
  <2>2. buf[p] \in Seq(Byte) /\ taken[p] \in Seq(Byte)
    BY <1>2, <1>15
  <2>3. taken[p] \o (buf[p] \o b) = (taken[p] \o buf[p]) \o b
    <3> DEFINE x == taken[p]
               y == buf[p]
    <3>1. x \in Seq(Byte) /\ y \in Seq(Byte)
      BY <2>2
    <3> HIDE DEF x, y
    <3>2. x \o (y \o b) = (x \o y) \o b
      BY <1>12, <3>1, Regroup
    <3> QED BY <3>2, Zenon DEF x, y
  <2> QED BY <2>1, <2>3, Zenon DEF Stream
<1>17. \A q \in Pipes : q # p => Stream(q)' = Stream(q)
  BY <1>14 DEF Stream, Typed
<1>18. \A u \in Tasks : u # t =>
          ProgressIsWritten(u)' = ProgressIsWritten(u) /\ \A q \in Pipes : Written(u, q)' = Written(u, q)
  <2> SUFFICES ASSUME NEW u \in Tasks, u # t
               PROVE  ProgressIsWritten(u)' = ProgressIsWritten(u)
                      /\ \A q \in Pipes : Written(u, q)' = Written(u, q)
    OBVIOUS
  <2>1. load' = load /\ task'[u] = task[u]
    BY <1>7, Zenon DEF TaskEffect, Typed
  <2>2. sent'[u] = sent[u]
    BY <1>8, Zenon DEF WriteEffect, Typed
  <2>3. ProgressIsWritten(u)' = ProgressIsWritten(u)
    BY <2>1, <2>2, OtherAccount
  <2>4. \A q \in Pipes : Written(u, q)' = Written(u, q)
    BY <2>1, <2>2, OtherAccount
  <2> QED BY <2>3, <2>4
<1>19. \A u \in Tasks : ProgressIsWritten(u)'
  BY <1>1, <1>5, <1>18, Zenon
<1>20. ASSUME NEW u \in Tasks, NEW q \in Pipes PROVE Numbered(Stream(q)', u, Written(u, q)')
  <2>1. Numbered(Stream(q), u, Written(u, q)) /\ Written(u, q) \in Nat /\ Stream(q) \in Seq(Byte)
    <3>1. Written(u, q) \in Nat
      BY WrittenNat
    <3> QED BY <1>1, <1>15, <3>1
  <2>2. CASE q # p
    <3>1. Stream(q)' = Stream(q) /\ Written(u, q)' = Written(u, q)
      BY <1>6, <1>17, <1>18, <2>2, Zenon
    <3> QED BY <2>1, <3>1
  <2>3. CASE q = p /\ u = t
    <3>1. Stream(q)' = Stream(q) \o b /\ Written(u, q)' = Written(u, q) + Len(b)
      BY <1>6, <1>13, <1>16, <2>3, Zenon
    <3>2. \A i \in 1..Len(b) : b[i].by = u /\ b[i].n = Written(u, q) + i
      BY <1>13, <2>3, Zenon
    <3>3. Numbered(Stream(q) \o b, u, Written(u, q) + Len(b))
      BY <1>12, <2>1, <3>2, NumberedOn, Zenon
    <3> QED BY <3>1, <3>3, Zenon
  <2>4. CASE q = p /\ u # t
    <3>1. Stream(q)' = Stream(q) \o b /\ Written(u, q)' = Written(u, q)
      BY <1>16, <1>18, <2>4, Zenon
    <3>2. \A i \in 1..Len(b) : b[i].by = t
      BY <1>13, Zenon
    <3>3. Numbered(Stream(q) \o b, u, Written(u, q))
      BY <1>12, <2>1, <2>4, <3>2, NumberedStill, Zenon
    <3> QED BY <3>1, <3>3, Zenon
  <2> QED BY <2>2, <2>3, <2>4, Zenon
<1> QED BY <1>19, <1>20, Zenon DEF StreamInv, Numbered

LEMMA ReadStream ==
    ASSUME Typed, StreamInv, WritesApart, NEW t \in Tasks,
           NEW c \in Calls(t), c.op # "w", Issue(t, c)
    PROVE  StreamInv'
<1> DEFINE d == ReadPipe(t, c)
           p == c.pipe
           q == buf[p]
           ret == AfterCall(task[t], c, d.r).ret
<1>1. /\ \A u \in Tasks : ProgressIsWritten(u)
      /\ \A u \in Tasks, x \in Pipes : Numbered(Stream(x), u, Written(u, x))
  BY Zenon DEF StreamInv
<1>2. c \in Call /\ p \in Pipes
  BY CallsAreCalls, CallIsCall
<1>3. d.n \in 0..Len(q)
  <2>1. d.n \in Nat /\ d.n <= Len(q)
    BY <1>2, ReadResult
  <2>2. q \in Seq(Byte)
    BY <1>2, Zenon DEF Typed
  <2> QED BY <2>1, <2>2
<1>4. TaskEffect(t, c, d.r, ret)
  BY <1>2, IssueRead
<1>5. ReadEffect(c, d.n)
  BY <1>2, IssueRead
<1>6. ProgressIsWritten(t)'
  BY <1>1, ReadAccount
<1>7. \A x \in Pipes : Written(t, x)' = Written(t, x)
  BY <1>1, ReadAccount
<1> HIDE DEF d, ret
<1>8. \A u \in Tasks : ProgressIsWritten(u)' /\ \A x \in Pipes : Written(u, x)' = Written(u, x)
  <2> SUFFICES ASSUME NEW u \in Tasks, u # t
               PROVE  ProgressIsWritten(u)' /\ \A x \in Pipes : Written(u, x)' = Written(u, x)
    BY <1>6, <1>7
  <2>1. load' = load /\ task'[u] = task[u] /\ sent'[u] = sent[u]
    BY <1>4, <1>5, Zenon DEF TaskEffect, ReadEffect, Typed
  <2> QED BY <1>1, <2>1, OtherAccount
<1>9. \A x \in Pipes : Stream(x)' = Stream(x)
  <2> SUFFICES ASSUME NEW x \in Pipes PROVE Stream(x)' = Stream(x)
    OBVIOUS
  <2>1. CASE x # p
    BY <1>5, <2>1 DEF ReadEffect, Typed, Stream
  <2>2. CASE x = p
    <3>1. buf'[p] = SubSeq(q, d.n + 1, Len(q)) /\ taken'[p] = taken[p] \o SubSeq(q, 1, d.n)
      BY <1>2, <1>5, Zenon DEF ReadEffect, Typed
    <3>2. q \in Seq(Byte) /\ taken[p] \in Seq(Byte)
      BY <1>2, Zenon DEF Typed
    <3>3. (taken[p] \o SubSeq(q, 1, d.n)) \o SubSeq(q, d.n + 1, Len(q)) = taken[p] \o q
      <4>1. \A x1, y \in Seq(Byte) : \A n \in 0..Len(y) :
              (x1 \o SubSeq(y, 1, n)) \o SubSeq(y, n + 1, Len(y)) = x1 \o y
        BY Rejoined, Zenon
      <4> QED BY <1>3, <3>2, <4>1, Zenon
    <3> QED BY <2>2, <3>1, <3>3, Zenon DEF Stream
  <2> QED BY <2>1, <2>2, Zenon
<1>10. \A u \in Tasks, x \in Pipes : Numbered(Stream(x)', u, Written(u, x)')
  BY <1>1, <1>8, <1>9, Zenon
<1> QED BY <1>8, <1>10, Zenon DEF StreamInv, Numbered

LEMMA OthersStream ==
    ASSUME Typed, StreamInv, WritesApart, NEW t \in Tasks,
           Close(t) \/ Exit(t) \/ Sigreturn(t) \/ \E u \in Tasks : Kill(t, u)
    PROVE  StreamInv'
<1>1. Typed'
  BY OthersTyped, Zenon
<1>2. load' = load /\ buf' = buf /\ taken' = taken /\ sent' = sent
  BY OthersTyped
<1>3. \A u \in Tasks : /\ task'[u].progress = task[u].progress
                       /\ task[u].saved = NoCall => task'[u].call = task[u].call /\ task'[u].saved = NoCall
  BY OthersTyped
<1>4. /\ \A u \in Tasks : ProgressIsWritten(u)
      /\ \A u \in Tasks, x \in Pipes : Numbered(Stream(x), u, Written(u, x))
  BY Zenon DEF StreamInv
<1>5. ShortOnly' = ShortOnly
  BY <1>2 DEF ShortOnly
<1>6. ASSUME NEW u \in Tasks
      PROVE  ProgressIsWritten(u)' /\ \A x \in Pipes : Written(u, x)' = Written(u, x)
  <2>1. CASE task[u].saved = NoCall
    <3>1. /\ task'[u].progress = task[u].progress /\ task'[u].call = task[u].call
          /\ task'[u].saved = NoCall /\ ProgressIsWritten(u)
      BY <1>3, <1>4, <2>1, Zenon
    <3>2. ProgressIsWritten(u)'
      BY <1>2, <1>5, <3>1, Zenon DEF ProgressIsWritten
    <3>3. \A x \in Pipes : Partial(u, x)' = Partial(u, x)
      BY <2>1, <3>1, Zenon DEF Partial, WritesTo
    <3> QED BY <1>2, <3>2, <3>3, Zenon DEF Written
  <2>2. CASE task[u].saved # NoCall
    <3>1. ShortOnly
      BY <1>4, <2>2, Zenon DEF ProgressIsWritten
    <3>2. task[u].progress = 0
      BY <1>4, <3>1, ShortIsZero, Zenon
    <3>3. task'[u].progress = 0
      BY <1>3, <3>2, Zenon
    <3>4. task'[u].call # NoCall => 0 < task'[u].call.n
      <4>1. task'[u].call \in Call \cup {NoCall}
        BY <1>1, <1>2, SameLoad, Zenon DEF Typed, TaskRec
      <4>2. load.sizes \subseteq Nat \ {0}
        BY LoadTypes, Zenon DEF Typed
      <4> QED BY <4>1, <4>2, CallIsCall
    <3>5. ProgressIsWritten(u)'
      BY <1>5, <3>1, <3>3, <3>4, Zenon DEF ProgressIsWritten
    <3>6. \A x \in Pipes : Partial(u, x)' = 0 /\ Partial(u, x) = 0
      BY <3>2, <3>3, Zenon DEF Partial
    <3> QED BY <1>2, <3>5, <3>6, Zenon DEF Written
  <2> QED BY <2>1, <2>2, Zenon
<1>7. \A x \in Pipes : Stream(x)' = Stream(x)
  BY <1>2, Zenon DEF Stream
<1>8. \A u \in Tasks, x \in Pipes : Numbered(Stream(x)', u, Written(u, x)')
  BY <1>4, <1>6, <1>7, Zenon
<1> QED BY <1>6, <1>8, Zenon DEF StreamInv, Numbered

LEMMA StreamInit == Init => StreamInv
<1> SUFFICES ASSUME Init PROVE StreamInv
  OBVIOUS
<1>1. ASSUME NEW t \in Tasks
      PROVE  /\ task[t].call = NoCall /\ task[t].saved = NoCall /\ task[t].progress = 0
             /\ \A p \in Pipes : sent[t][p] = 0
  BY Zenon DEF Init, PipeInit, Fresh
<1>2. \A t \in Tasks : ProgressIsWritten(t)
  BY <1>1, Zenon DEF ProgressIsWritten
<1>3. ASSUME NEW t \in Tasks, NEW p \in Pipes PROVE Numbered(Stream(p), t, Written(t, p))
  <2>1. buf[p] = <<>> /\ taken[p] = <<>>
    BY DEF Init, PipeInit
  <2>2. Len(Stream(p)) = 0
    BY <2>1 DEF Stream
  <2>3. Written(t, p) = 0
    BY <1>1 DEF Written, Partial
  <2> QED BY <2>2, <2>3 DEF Numbered
<1> QED BY <1>2, <1>3 DEF StreamInv

LEMMA StreamStep == CapacityInv /\ StreamInv /\ [Next]_vars => StreamInv'
<1> SUFFICES ASSUME CapacityInv, StreamInv, [Next]_vars PROVE StreamInv'
  OBVIOUS
<1>1. Typed /\ WithinCapacity
  BY DEF CapacityInv
<1>2. CASE UNCHANGED pipeVars
  <2>1. load' = load /\ task' = task /\ buf' = buf /\ taken' = taken /\ sent' = sent
    BY <1>2 DEF pipeVars
  <2>2. WritesApart' = WritesApart /\ \A t \in Tasks : ProgressIsWritten(t)' = ProgressIsWritten(t)
    BY <2>1, Zenon DEF WritesApart, ShortOnly, ProgressIsWritten
  <2>3. \A t \in Tasks, p \in Pipes : Written(t, p)' = Written(t, p) /\ Stream(p)' = Stream(p)
    BY <2>1, Zenon DEF Written, Partial, WritesTo, Stream
  <2>4. WritesApart => \A t \in Tasks, p \in Pipes : Numbered(Stream(p)', t, Written(t, p)')
    BY <2>3, Zenon DEF StreamInv
  <2> QED BY <2>2, <2>4, Zenon DEF StreamInv, Numbered
<1>3. ASSUME NEW t \in Tasks, NEW c \in Calls(t), Issue(t, c) PROVE StreamInv'
  <2>1. CASE ~WritesApart
    <3>1. load' = load
      BY <1>3 DEF Issue
    <3> QED BY <2>1, <3>1, Zenon DEF StreamInv, WritesApart, ShortOnly
  <2>2. CASE WritesApart /\ c.op = "w"
    BY <1>1, <1>3, <2>2, WriteStream, Zenon
  <2>3. CASE WritesApart /\ c.op # "w"
    BY <1>1, <1>3, <2>3, ReadStream
  <2> QED BY <2>1, <2>2, <2>3
<1>4. ASSUME NEW t \in Tasks, Close(t) \/ Exit(t) \/ Sigreturn(t) \/ \E u \in Tasks : Kill(t, u)
      PROVE  StreamInv'
  <2>1. CASE ~WritesApart
    <3>1. load' = load
      BY <1>4 DEF Close, Exit, Sigreturn, Kill
    <3> QED BY <2>1, <3>1, Zenon DEF StreamInv, WritesApart, ShortOnly
  <2>2. CASE WritesApart
    BY <1>1, <1>4, <2>2, OthersStream, Zenon
  <2> QED BY <2>1, <2>2
<1> QED BY <1>2, <1>3, <1>4, StepsOfPipes, Zenon DEF PipeStep

LEMMA StreamAlways == Spec => []StreamInv
<1>1. Spec => []CapacityInv
  BY CapacityInit, CapacityStep, PTL DEF Spec
<1> QED BY <1>1, StreamInit, StreamStep, PTL DEF Spec

\* For every workload whose handlers keep apart from blocked writes, on either
\* scheduler: pipe_write_from, its retries, short counts, EINTR and EPIPE together
\* lose no byte of a writer, repeat none and report as many as went in.
THEOREM StreamKept == Spec => []StreamIntact
<1>1. ASSUME CapacityInv, StreamInv PROVE StreamIntact
  <2> SUFFICES ASSUME WritesApart, NEW p \in Pipes, NEW t \in Tasks
               PROVE  LET D == DOMAIN Stream(p)
                      IN  /\ \A i, j \in D : i < j /\ Stream(p)[i].by = t /\ Stream(p)[j].by = t
                                               => Stream(p)[i].n < Stream(p)[j].n
                          /\ {Stream(p)[i].n : i \in {j \in D : Stream(p)[j].by = t}}
                               = 1..(sent[t][p] + Partial(t, p))
    BY DEF StreamIntact
  <2> DEFINE s == Stream(p)
             m == sent[t][p] + Partial(t, p)
             own == {j \in DOMAIN s : s[j].by = t}
  <2>1. Numbered(s, t, m)
    BY <1>1, Zenon DEF StreamInv, Written
  <2>2. DOMAIN s = 1..Len(s)
    <3>1. buf[p] \in Seq(Byte) /\ taken[p] \in Seq(Byte)
      BY <1>1 DEF CapacityInv, Typed
    <3>2. s \in Seq(Byte)
      BY <3>1, Glued DEF Stream
    <3> QED BY <3>2
  <2> HIDE DEF s, m
  <2>3. \A i, j \in DOMAIN s : i < j /\ s[i].by = t /\ s[j].by = t => s[i].n < s[j].n
    BY <2>1, <2>2 DEF Numbered
  <2>4. \A x \in {s[i].n : i \in own} : x \in 1..m
    BY <2>1, <2>2 DEF Numbered
  <2>5. \A k \in 1..m : k \in {s[i].n : i \in own}
    BY <2>1, <2>2 DEF Numbered
  <2>6. {s[i].n : i \in own} = 1..m
    BY <2>4, <2>5
  <2> QED BY <2>3, <2>6, Zenon DEF s, m
<1>2. Spec => []CapacityInv
  BY CapacityInit, CapacityStep, PTL DEF Spec
<1> QED BY <1>1, <1>2, StreamAlways, PTL

\* For the same workloads: a blocked write of at most PIPE_ATOMIC_WRITE bytes has put
\* nothing in its pipe, so that no other writer's bytes can come between its own.
THEOREM ShortWritesWhole == Spec => []ShortWritesAtomic
<1>1. StreamInv => ShortWritesAtomic
  BY Zenon DEF StreamInv, ProgressIsWritten, ShortWritesAtomic
<1> QED BY <1>1, StreamAlways, PTL

-------------------------------------------------------------------------------
(* Deadlock.                                                               *)

\* Some slice in flight is known to have made progress.
Active == \E t \in Tasks : flight[t].made

\* The last round of tries before a deadlock is declared.
LastRound == IF load.smp THEN main = "loop" /\ stalled ELSE main = "recheck"

Slice == [state : {"idle", "run", "blocked", "ended", "preempted"}, made : BOOLEAN]

FlightOK(f) ==
    /\ f \in Slice
    /\ f.state = "idle" => f = Idle
    /\ f.state \in {"ended", "preempted"} => f.made
    /\ f.state \notin {"idle", "run"} => load.smp

SchedulerInv ==
    /\ main \in {"loop", "recheck", "deadlock", "done"}
    /\ load.smp => main # "recheck"
    /\ main \in {"deadlock", "done"} => Inflight = {}
    /\ DOMAIN flight = Tasks /\ \A t \in Tasks : FlightOK(flight[t])
    /\ flight = [t \in Tasks |-> flight[t]]

\* In the last round, as long as no slice made progress, whoever was found blocked
\* is still stuck.
StuckInv ==
    /\ LastRound /\ ~Active => \A t \in Tasks : t \in waiting \/ flight[t].state = "blocked" => ~CouldProceed(t)
    /\ DeadlockIsReal

\* The machines whose deadlock reports are right: serial ones, and SMP ones on which
\* a write goes in at once or not at all (run_slice_smp does not count what a write
\* that blocks put in).
WholeWrites == ~load.smp \/ ShortOnly

\* One slice changes.
FlightTo(t, f) == load' = load /\ FlightOK(f) /\ flight' = [flight EXCEPT ![t] = f]

LEMMA OneSlice ==
    ASSUME SchedulerInv, NEW t \in Tasks, NEW f, FlightTo(t, f)
    PROVE  /\ DOMAIN flight' = Tasks /\ \A u \in Tasks : FlightOK(flight[u])'
           /\ flight' = [u \in Tasks |-> flight'[u]]
           /\ flight'[t] = f /\ \A u \in Tasks \ {t} : flight'[u] = flight[u]
<1>1. flight = [u \in Tasks |-> flight[u]] /\ \A u \in Tasks : FlightOK(flight[u])
  BY DEF SchedulerInv
<1>2. flight'[t] = f /\ \A u \in Tasks \ {t} : flight'[u] = flight[u]
  BY <1>1 DEF FlightTo
<1>3. \A u \in Tasks : FlightOK(flight[u])'
  BY <1>1, <1>2 DEF FlightTo, FlightOK
<1>4. DOMAIN flight' = Tasks
  BY <1>1 DEF FlightTo
<1>5. flight' = [u \in Tasks |-> flight'[u]]
  BY <1>1 DEF FlightTo
<1> QED BY <1>2, <1>3, <1>4, <1>5

\* What the steps of a slice do to the scheduler.
LEMMA StartEffect ==
    ASSUME NEW t \in Tasks, Start(t)
    PROVE  /\ FlightTo(t, [state |-> "run", made |-> FALSE])
           /\ main' = main /\ waiting' = waiting /\ stalled' = stalled
BY DEF Start, FlightTo, FlightOK, Slice, Idle, pipeVars

LEMMA GoOnEffect ==
    ASSUME NEW t \in Tasks, load' = load, GoOn(t)
    PROVE  FlightTo(t, [state |-> "run", made |-> TRUE]) /\ main' = main /\ stalled' = stalled
BY Zenon DEF GoOn, FlightTo, FlightOK, Slice

LEMMA EndMadeEffect ==
    ASSUME NEW t \in Tasks, load' = load, NEW o \in {"ended", "preempted"}, EndSlice(t, o, TRUE)
    PROVE  /\ load.smp => FlightTo(t, [state |-> o, made |-> TRUE]) /\ main' = main
           /\ ~load.smp => FlightTo(t, Idle) /\ main' = "loop"
<1>1. CASE load.smp
  <2>1. flight' = [flight EXCEPT ![t] = [state |-> o, made |-> TRUE]] /\ main' = main
    BY <1>1 DEF EndSlice, SendResult
  <2>2. FlightOK([state |-> o, made |-> TRUE])
    BY <1>1 DEF FlightOK, Slice
  <2> QED BY <1>1, <2>1, <2>2, Zenon DEF FlightTo
<1>2. CASE ~load.smp
  <2>1. flight' = [flight EXCEPT ![t] = Idle] /\ main' = "loop"
    BY <1>2 DEF EndSlice, EndSweepTurn
  <2>2. FlightOK(Idle)
    BY DEF FlightOK, Slice, Idle
  <2> QED BY <1>2, <2>1, <2>2 DEF FlightTo
<1> QED BY <1>1, <1>2, Zenon

LEMMA EndBlockedEffect ==
    ASSUME SchedulerInv, NEW t \in Tasks, load' = load, EndSlice(t, "blocked", Progressed(t))
    PROVE  /\ load.smp => /\ FlightTo(t, [state |-> "blocked", made |-> flight[t].made])
                          /\ main' = main /\ waiting' = waiting /\ stalled' = stalled
           /\ ~load.smp => /\ FlightTo(t, Idle) /\ waiting' = waiting \cup {t}
                           /\ main' \in {main, "loop"}
                           /\ main' # "loop" => ~flight[t].made /\ ~Moved(t)
<1>1. CASE load.smp
  <2> DEFINE m == flight[t].made
  <2>0. m \in BOOLEAN
    BY DEF SchedulerInv, FlightOK, Slice
  <2>1. flight' = [flight EXCEPT ![t] = [state |-> "blocked", made |-> m]]
    <3>1. flight' = [flight EXCEPT ![t] = [state |-> "blocked", made |-> Progressed(t)]]
      BY <1>1, Zenon DEF EndSlice, SendResult
    <3>2. Progressed(t) = m
      BY <1>1, <2>0, Zenon DEF Progressed
    <3> QED BY <3>1, <3>2, Zenon
  <2>2. main' = main /\ waiting' = waiting /\ stalled' = stalled
    BY <1>1 DEF EndSlice, SendResult
  <2>3. FlightOK([state |-> "blocked", made |-> m])
    <3> HIDE DEF m
    <3> QED BY <1>1, <2>0 DEF FlightOK, Slice
  <2> QED BY <1>1, <2>1, <2>2, <2>3 DEF FlightTo
<1>2. CASE ~load.smp
  <2>1. flight' = [flight EXCEPT ![t] = Idle] /\ waiting' = waiting \cup {t}
    BY <1>2, Zenon DEF EndSlice, EndSweepTurn
  <2>2. main' = IF flight[t].made \/ Moved(t) THEN "loop" ELSE main
    BY <1>2, Zenon DEF EndSlice, EndSweepTurn, Progressed
  <2>3. FlightOK(Idle)
    BY DEF FlightOK, Slice, Idle
  <2> QED BY <1>2, <2>1, <2>2, <2>3 DEF FlightTo
<1> QED BY <1>1, <1>2, Zenon

\* A task in flight keeps the main loop from stopping.
LEMMA InFlightGoesOn ==
    ASSUME SchedulerInv, NEW t \in Tasks, flight[t].state # "idle"
    PROVE  main \in {"loop", "recheck"}
<1>1. flight[t] # Idle
  BY DEF Idle
<1>2. Inflight # {}
  BY <1>1 DEF Inflight
<1> QED BY <1>2 DEF SchedulerInv

LEMMA SliceKeepsScheduler ==
    ASSUME SchedulerInv, NEW t \in Tasks, NEW f, FlightTo(t, f), main \in {"loop", "recheck"},
           main' \in {main, "loop"}
    PROVE  SchedulerInv'
<1>1. DOMAIN flight' = Tasks
  BY OneSlice
<1>2. \A u \in Tasks : FlightOK(flight[u])'
  BY OneSlice
<1>3. flight' = [u \in Tasks |-> flight'[u]]
  BY OneSlice
<1>4. load' = load
  BY DEF FlightTo
<1>5. main' \in {"loop", "recheck"} /\ (load.smp => main' # "recheck")
  BY DEF SchedulerInv
<1> QED BY <1>1, <1>2, <1>3, <1>4, <1>5 DEF SchedulerInv

LEMMA SchedulerInit == Init => SchedulerInv
<1> SUFFICES ASSUME Init PROVE SchedulerInv
  OBVIOUS
<1>1. main = "loop" /\ flight = [t \in Tasks |-> Idle]
  BY DEF Init
<1>2. FlightOK(Idle)
  BY DEF FlightOK, Slice, Idle
<1> QED BY <1>1, <1>2 DEF SchedulerInv

LEMMA SchedulerStep == SchedulerInv /\ [Next]_vars => SchedulerInv'
<1> SUFFICES ASSUME SchedulerInv, [Next]_vars PROVE SchedulerInv'
  OBVIOUS
<1>1. ASSUME NEW t \in Tasks, Pick(t) \/ Fill(t) PROVE SchedulerInv'
  <2>1. Start(t) /\ main \in {"loop", "recheck"}
    BY <1>1 DEF Pick, Fill
  <2>2. FlightTo(t, [state |-> "run", made |-> FALSE])
    BY <2>1, StartEffect
  <2>3. main' = main
    BY <2>1 DEF Start
  <2> QED BY <2>1, <2>2, <2>3, SliceKeepsScheduler
<1>2. ASSUME NEW t \in Tasks, Running(t), load' = load, GoOn(t) PROVE SchedulerInv'
  <2>1. FlightTo(t, [state |-> "run", made |-> TRUE])
    BY <1>2, GoOnEffect
  <2>2. main' = main
    BY <1>2 DEF GoOn
  <2>3. main \in {"loop", "recheck"}
    BY <1>2, InFlightGoesOn DEF Running
  <2> QED BY <2>1, <2>2, <2>3, SliceKeepsScheduler
<1>3. ASSUME NEW t \in Tasks, Running(t), load' = load, NEW o \in {"ended", "preempted"},
             EndSlice(t, o, TRUE)
      PROVE  SchedulerInv'
  <2>1. main \in {"loop", "recheck"}
    BY <1>3, InFlightGoesOn DEF Running
  <2>2. CASE load.smp
    <3>1. FlightTo(t, [state |-> o, made |-> TRUE])
      BY <1>3, <2>2, EndMadeEffect, Zenon
    <3>2. main' = main
      BY <1>3, <2>2, EndMadeEffect, Zenon
    <3> QED BY <2>1, <3>1, <3>2, SliceKeepsScheduler
  <2>3. CASE ~load.smp
    <3>1. FlightTo(t, Idle)
      BY <1>3, <2>3, EndMadeEffect, Zenon
    <3>2. main' = "loop"
      BY <1>3, <2>3, EndMadeEffect, Zenon
    <3> QED BY <2>1, <3>1, <3>2, SliceKeepsScheduler
  <2> QED BY <2>2, <2>3
<1>4. ASSUME NEW t \in Tasks, Running(t), load' = load, EndSlice(t, "blocked", Progressed(t))
      PROVE  SchedulerInv'
  <2>1. main \in {"loop", "recheck"}
    BY <1>4, InFlightGoesOn DEF Running
  <2>2. CASE load.smp
    <3>1. FlightTo(t, [state |-> "blocked", made |-> flight[t].made])
      BY <1>4, <2>2, EndBlockedEffect, Zenon
    <3>2. main' = main
      BY <1>4, <2>2, EndBlockedEffect, Zenon
    <3> QED BY <2>1, <3>1, <3>2, SliceKeepsScheduler
  <2>3. CASE ~load.smp
    <3>1. FlightTo(t, Idle)
      BY <1>4, <2>3, EndBlockedEffect, Zenon
    <3>2. main' \in {main, "loop"}
      BY <1>4, <2>3, EndBlockedEffect, Zenon
    <3> QED BY <2>1, <3>1, <3>2, SliceKeepsScheduler
  <2> QED BY <2>2, <2>3
<1>5. ASSUME NEW t \in Tasks, SysReadWrite(t) PROVE SchedulerInv'
  <2>1. Running(t) /\ load' = load
    BY <1>5 DEF SysReadWrite, Issue
  <2>2. EndSlice(t, "ended", TRUE) \/ EndSlice(t, "blocked", Progressed(t)) \/ GoOn(t)
    BY <1>5, Zenon DEF SysReadWrite
  <2> QED BY <1>2, <1>3, <1>4, <2>1, <2>2, Zenon
<1>6. ASSUME NEW t \in Tasks, SysClose(t) \/ SysSigreturn(t) \/ SysKill(t) PROVE SchedulerInv'
  <2>1. Running(t) /\ GoOn(t)
    BY <1>6 DEF SysClose, SysSigreturn, SysKill
  <2>2. load' = load
    BY <1>6 DEF SysClose, SysSigreturn, SysKill, Close, Sigreturn, Kill
  <2> QED BY <1>2, <2>1, <2>2
<1>7. ASSUME NEW t \in Tasks, SysExit(t) \/ Preempt(t) PROVE SchedulerInv'
  <2>1. Running(t) /\ (EndSlice(t, "ended", TRUE) \/ EndSlice(t, "preempted", TRUE))
    BY <1>7, Zenon DEF SysExit, Preempt
  <2>2. load' = load
    BY <1>7, Zenon DEF SysExit, Exit, Preempt, pipeVars
  <2> QED BY <1>3, <2>1, <2>2, Zenon
<1>8. ASSUME NEW t \in Tasks, ReceiveBlocked(t) \/ ReceiveOther(t) PROVE SchedulerInv'
  <2>1. main = "loop" /\ main' = main /\ load' = load /\ flight' = [flight EXCEPT ![t] = Idle]
    BY <1>8 DEF ReceiveBlocked, ReceiveOther, pipeVars
  <2>2. FlightTo(t, Idle)
    BY <2>1 DEF FlightTo, FlightOK, Slice, Idle
  <2> QED BY <2>1, <2>2, SliceKeepsScheduler
<1>9. ASSUME StallSerial \/ StallSmp PROVE SchedulerInv'
  <2>1. Inflight = {} /\ flight' = flight /\ load' = load
    BY <1>9 DEF StallSerial, StallSmp, pipeVars
  <2>2. Inflight' = {} /\ \A t \in Tasks : FlightOK(flight[t])'
    BY <2>1, Zenon DEF Inflight, FlightOK, SchedulerInv
  <2>3. main' \in {"loop", "recheck", "deadlock", "done"} /\ (load.smp => main' # "recheck")
    BY <1>9 DEF StallSerial, StallSmp
  <2> QED BY <2>1, <2>2, <2>3 DEF SchedulerInv
<1>10. ASSUME Halted \/ UNCHANGED vars PROVE SchedulerInv'
  <2>1. main' = main /\ flight' = flight /\ load' = load
    BY <1>10 DEF Halted, vars
  <2> QED BY <2>1 DEF SchedulerInv, FlightOK, Inflight
<1> QED BY <1>1, <1>5, <1>6, <1>7, <1>8, <1>9, <1>10, Zenon DEF Next

-------------------------------------------------------------------------------
(* Who is stuck stays stuck.                                               *)

\* What a call would do depends on the pipes, on who has them open and on how far
\* its task got.
LEMMA SameOutcome ==
    ASSUME NEW u \in Tasks, load' = load, buf' = buf, \A v \in Tasks : task'[v].ends = task[v].ends,
           task'[u].call = task[u].call, task'[u].progress = task[u].progress
    PROVE  CouldProceed(u)' <=> CouldProceed(u)
<1>1. \A side, p : Open(side, p)' = Open(side, p)
  BY Zenon DEF Open
<1>2. PICK c : c = task[u].call
  BY Zenon
<1>3. PipeWriteFrom(u, c)' = PipeWriteFrom(u, c)
  BY <1>1, Zenon DEF PipeWriteFrom, Accepted, Blocked, Returned
<1>4. ReadPipe(u, c)' = ReadPipe(u, c)
  BY <1>1, Zenon DEF ReadPipe, Blocked
<1>5. CouldProceed(u) <=>
         (c # NoCall => LET r == IF c.op = "w" THEN PipeWriteFrom(u, c) ELSE ReadPipe(u, c)
                        IN  ~r.r.block \/ r.n > 0)
  BY <1>2, Zenon DEF CouldProceed, IsBlocked
<1>6. CouldProceed(u)' <=>
         (c # NoCall => LET r == IF c.op = "w" THEN PipeWriteFrom(u, c)' ELSE ReadPipe(u, c)'
                        IN  ~r.r.block \/ r.n > 0)
  BY <1>2 DEF CouldProceed, IsBlocked
<1> QED BY <1>3, <1>4, <1>5, <1>6, Zenon

\* A call that blocks without getting any further leaves the pipes as they were, and
\* its task stuck.
LEMMA BlockedWithoutMoving ==
    ASSUME Typed, WithinCapacity, NEW t \in Tasks, NEW c \in Calls(t), Issue(t, c),
           task'[t].call # NoCall, ~Moved(t)
    PROVE  /\ load' = load /\ buf' = buf /\ \A u \in Tasks : task'[u].ends = task[u].ends
           /\ \A u \in Tasks \ {t} : task'[u] = task[u]
           /\ ~CouldProceed(t)'
<1>1. c \in Call /\ c # NoCall
  BY CallsAreCalls, CallIsCall, Zenon
<1>2. c.pipe \in Pipes /\ buf \in [Pipes -> Seq(Byte)] /\ task \in [Tasks -> TaskRec]
  BY <1>1, CallIsCall, Zenon DEF Typed
<1>3. task'[t].progress = task[t].progress /\ task[t].progress \in Nat
  BY <1>2 DEF Moved, TaskRec
<1> DEFINE b == buf[c.pipe]
           w == PipeWriteFrom(t, c)
           d == ReadPipe(t, c)
<1>4. b \in Seq(Byte)
  BY <1>2
<1>5. CASE c.op = "w"
  <2>1. TaskEffect(t, c, w.r, AfterCall(task[t], c, w.r).ret)
    BY <1>1, <1>5, IssueWrite, Zenon
  <2>2. WriteEffect(t, c, w.n, AfterCall(task[t], c, w.r).ret)
    BY <1>1, <1>5, IssueWrite, Zenon
  <2>3. Len(buf[c.pipe]) <= Capacity
    BY <1>2 DEF WithinCapacity
  <2>4. w.n \in Nat
    BY <1>1, <2>3, WriteResult, Zenon
  <2>5. w.r.block => w.r.progress = task[t].progress + w.n
    BY <1>1, <2>3, WriteResult, Zenon
  <2>6. w.r.block /\ task'[t].progress = w.r.progress /\ task'[t].call = c
    BY <2>1, Zenon DEF TaskEffect
  <2>7. w.n = 0
    <3> HIDE DEF w
    <3> QED BY <1>3, <2>4, <2>5, <2>6, SMTT(60)
  <2>8. b \o Bytes(t, c.pipe, task[t].progress, 0) = b
    <3> DEFINE e == Bytes(t, c.pipe, task[t].progress, 0)
    <3>1. e \in Seq(Byte)
      BY <1>2, <1>3, BytesTyped, Zenon
    <3>2. Len(e) = 0
      BY <1>2, <1>3, BytesTyped, SMTT(60)
    <3> HIDE DEF e, b
    <3>3. b \o e = b
      BY <1>4, <3>1, <3>2
    <3> QED BY <3>3 DEF e
  <2>9. buf' = buf
    BY <1>2, <2>2, <2>7, <2>8, Zenon DEF WriteEffect
  <2>10. load' = load /\ task' = [task EXCEPT ![t] = task'[t]] /\ task'[t].ends = task[t].ends
    BY <2>1, Zenon DEF TaskEffect
  <2>11. \A u \in Tasks \ {t} : task'[u] = task[u]
    BY <1>2, <2>10, Zenon
  <2>12. \A u \in Tasks : task'[u].ends = task[u].ends
    BY <2>10, <2>11
  <2>13. PipeWriteFrom(t, c)' = w
    <3>1. \A side, p : Open(side, p)' = Open(side, p)
      BY <2>12, Zenon DEF Open
    <3> QED BY <1>3, <2>9, <2>10, <3>1, Zenon DEF PipeWriteFrom, Accepted, Blocked, Returned
  <2>14. ~CouldProceed(t)'
    <3> HIDE DEF w
    <3> QED BY <1>1, <1>5, <2>6, <2>7, <2>13, SMTT(60) DEF CouldProceed, IsBlocked
  <2> QED BY <2>9, <2>10, <2>11, <2>12, <2>14
<1>6. CASE c.op # "w"
  <2>1. TaskEffect(t, c, d.r, AfterCall(task[t], c, d.r).ret)
    BY <1>1, <1>6, IssueRead, Zenon
  <2>2. ReadEffect(c, d.n)
    BY <1>1, <1>6, IssueRead, Zenon
  <2>3. d.r.block => d.n = 0
    BY <1>1, ReadResult, Zenon
  <2>4. d.r.block /\ task'[t].call = c
    BY <2>1, Zenon DEF TaskEffect
  <2>5. d.n = 0
    BY <2>3, <2>4, Zenon
  <2>6. SubSeq(b, 1, Len(b)) = b
    <3> HIDE DEF b
    <3> QED BY <1>4
  <2>7. buf' = buf
    <3>1. buf' = [buf EXCEPT ![c.pipe] = SubSeq(b, 0 + 1, Len(b))]
      BY <2>2, <2>5, Zenon DEF ReadEffect
    <3> QED BY <1>2, <2>6, <3>1
  <2>8. load' = load /\ task' = [task EXCEPT ![t] = task'[t]] /\ task'[t].ends = task[t].ends
    BY <2>1, Zenon DEF TaskEffect
  <2>9. \A u \in Tasks \ {t} : task'[u] = task[u]
    BY <1>2, <2>8, Zenon
  <2>10. \A u \in Tasks : task'[u].ends = task[u].ends
    BY <2>8, <2>9
  <2>11. ReadPipe(t, c)' = d
    <3>1. \A side, p : Open(side, p)' = Open(side, p)
      BY <2>10, Zenon DEF Open
    <3> QED BY <1>3, <2>7, <2>8, <3>1, Zenon DEF ReadPipe, Blocked
  <2>12. ~CouldProceed(t)'
    <3> HIDE DEF d
    <3> QED BY <1>1, <1>6, <2>4, <2>5, <2>11, SMTT(60) DEF CouldProceed, IsBlocked
  <2> QED BY <2>7, <2>8, <2>9, <2>10, <2>12
<1> QED BY <1>5, <1>6, Zenon

\* A step that leaves the last round, or in which some slice made progress, owes
\* nothing.
LEMMA NothingOwed ==
    ASSUME main' # "deadlock", ~LastRound' \/ Active'
    PROVE  StuckInv'
BY Zenon DEF StuckInv, DeadlockIsReal

LEMMA GoOnStuck ==
    ASSUME SchedulerInv, NEW t \in Tasks, Running(t), load' = load, GoOn(t)
    PROVE  StuckInv'
<1> DEFINE f == [state |-> "run", made |-> TRUE]
<1>1. FlightTo(t, f)
  BY GoOnEffect
<1>2. main' = main
  BY GoOnEffect
<1>3. flight'[t] = f
  BY <1>1, OneSlice
<1>4. Active'
  BY <1>3 DEF Active
<1>5. main' # "deadlock"
  BY <1>2, InFlightGoesOn DEF Running
<1> QED BY <1>4, <1>5, NothingOwed

LEMMA EndMadeStuck ==
    ASSUME SchedulerInv, NEW t \in Tasks, Running(t), load' = load,
           NEW o \in {"ended", "preempted"}, EndSlice(t, o, TRUE)
    PROVE  StuckInv'
<1>1. main \in {"loop", "recheck"}
  BY InFlightGoesOn DEF Running
<1>2. CASE load.smp
  <2> DEFINE f == [state |-> o, made |-> TRUE]
  <2>1. FlightTo(t, f)
    BY <1>2, EndMadeEffect, Zenon
  <2>2. main' = main
    BY <1>2, EndMadeEffect, Zenon
  <2>3. flight'[t] = f
    BY <2>1, OneSlice
  <2>4. Active'
    BY <2>3 DEF Active
  <2> QED BY <1>1, <2>2, <2>4, NothingOwed
<1>3. CASE ~load.smp
  <2>1. main' = "loop"
    BY <1>3, EndMadeEffect, Zenon
  <2> QED BY <1>3, <2>1, NothingOwed DEF LastRound
<1> QED BY <1>2, <1>3

\* The slice of t ends in a call that blocks.
LEMMA EndBlockedStuck ==
    ASSUME CapacityInv, StreamInv, SchedulerInv, StuckInv, WholeWrites,
           CapacityInv', StreamInv', NEW t \in Tasks, Running(t),
           NEW c \in Calls(t), Issue(t, c), task'[t].call # NoCall,
           EndSlice(t, "blocked", Progressed(t))
    PROVE  StuckInv'
<1>1. Typed /\ WithinCapacity /\ load' = load
  BY DEF CapacityInv, Issue
<1>2. main \in {"loop", "recheck"}
  BY InFlightGoesOn DEF Running
<1>3. CASE load.smp
  <2> DEFINE f == [state |-> "blocked", made |-> flight[t].made]
  <2>1. FlightTo(t, f)
    BY <1>1, <1>3, EndBlockedEffect, Zenon
  <2>2. main' = main /\ waiting' = waiting /\ stalled' = stalled
    BY <1>1, <1>3, EndBlockedEffect, Zenon
  <2>3. flight'[t] = f
    BY <2>1, OneSlice
  <2>4. \A u \in Tasks \ {t} : flight'[u] = flight[u]
    BY <2>1, OneSlice
  <2>5. SUFFICES ASSUME LastRound', ~Active', NEW u \in Tasks,
                        u \in waiting' \/ flight'[u].state = "blocked"
                 PROVE  ~CouldProceed(u)'
    BY <1>2, <2>2, Zenon DEF StuckInv, DeadlockIsReal
  <2>6. ~flight[t].made
    BY <2>3, <2>5, SMTT(60) DEF Active
  <2>7. LastRound /\ ~Active
    BY <1>1, <2>2, <2>4, <2>5, <2>6, Zenon DEF LastRound, Active
  <2>8. ShortOnly /\ ShortOnly'
    BY <1>1, <1>3, Zenon DEF WholeWrites, ShortOnly
  <2>9. ~Moved(t)
    <3>1. ProgressIsWritten(t)
      BY <2>8, Zenon DEF StreamInv, WritesApart
    <3>2. ProgressIsWritten(t)'
      BY <2>8, Zenon DEF StreamInv, WritesApart
    <3>3. task[t].progress = 0
      BY <1>1, <2>8, <3>1, ShortIsZero, Zenon
    <3>4. (Typed /\ ProgressIsWritten(t) /\ ShortOnly => task[t].progress = 0)'
      BY ShortIsZero, PTL
    <3> QED BY <2>8, <3>2, <3>3, <3>4, Zenon DEF Moved, CapacityInv
  <2>10. CASE u = t
    BY <1>1, <2>9, <2>10, BlockedWithoutMoving, Zenon
  <2>11. CASE u # t
    <3>1. buf' = buf
      BY <1>1, <2>9, BlockedWithoutMoving, Zenon
    <3>2. \A v \in Tasks : task'[v].ends = task[v].ends
      BY <1>1, <2>9, BlockedWithoutMoving, Zenon
    <3>3. task'[u] = task[u]
      BY <1>1, <2>9, <2>11, BlockedWithoutMoving, Zenon
    <3>4. ~CouldProceed(u)
      BY <2>2, <2>4, <2>5, <2>7, <2>11, Zenon DEF StuckInv
    <3> QED BY <1>1, <3>1, <3>2, <3>3, <3>4, SameOutcome, Zenon
  <2> QED BY <2>10, <2>11, Zenon
<1>4. CASE ~load.smp
  <2>1. FlightTo(t, Idle)
    BY <1>1, <1>4, EndBlockedEffect, Zenon
  <2>2. waiting' = waiting \cup {t} /\ main' \in {main, "loop"}
    BY <1>1, <1>4, EndBlockedEffect, Zenon
  <2>3. main' # "loop" => ~flight[t].made /\ ~Moved(t)
    BY <1>1, <1>4, EndBlockedEffect, Zenon
  <2>4. flight'[t] = Idle
    BY <2>1, OneSlice
  <2>5. \A u \in Tasks \ {t} : flight'[u] = flight[u]
    BY <2>1, OneSlice
  <2>6. SUFFICES ASSUME LastRound', ~Active', NEW u \in Tasks,
                        u \in waiting' \/ flight'[u].state = "blocked"
                 PROVE  ~CouldProceed(u)'
    BY <1>2, <2>2, Zenon DEF StuckInv, DeadlockIsReal
  <2>7. main' = "recheck" /\ main = "recheck"
    BY <1>1, <1>4, <2>2, <2>6, Zenon DEF LastRound
  <2>8. ~flight[t].made /\ ~Moved(t)
    BY <2>3, <2>7, Zenon
  <2>9. LastRound /\ ~Active
    BY <1>4, <2>5, <2>6, <2>7, <2>8, Zenon DEF LastRound, Active
  <2>10. CASE u = t
    BY <1>1, <2>8, <2>10, BlockedWithoutMoving, Zenon
  <2>11. CASE u # t
    <3>1. buf' = buf
      BY <1>1, <2>8, BlockedWithoutMoving, Zenon
    <3>2. \A v \in Tasks : task'[v].ends = task[v].ends
      BY <1>1, <2>8, BlockedWithoutMoving, Zenon
    <3>3. task'[u] = task[u]
      BY <1>1, <2>8, <2>11, BlockedWithoutMoving, Zenon
    <3>4. ~CouldProceed(u)
      BY <2>2, <2>5, <2>6, <2>9, <2>11, Zenon DEF StuckInv
    <3> QED BY <1>1, <3>1, <3>2, <3>3, <3>4, SameOutcome, Zenon
  <2> QED BY <2>10, <2>11, Zenon
<1> QED BY <1>3, <1>4

\* The steps of the main loops that leave tasks and pipes alone.
LEMMA SameTasks ==
    ASSUME UNCHANGED pipeVars
    PROVE  /\ \A u \in Tasks : CouldProceed(u)' <=> CouldProceed(u)
           /\ load' = load /\ task' = task
<1>1. load' = load /\ buf' = buf /\ task' = task
  BY DEF pipeVars
<1> QED BY <1>1, SameOutcome, Zenon

LEMMA StartStuck ==
    ASSUME SchedulerInv, StuckInv, NEW t \in Dispatchable, main # "deadlock", Start(t)
    PROVE  StuckInv'
<1> DEFINE f == [state |-> "run", made |-> FALSE]
<1>1. t \in Tasks /\ t \notin waiting /\ flight[t] = Idle
  BY Zenon DEF Dispatchable, Inflight
<1>2. FlightTo(t, f)
  BY <1>1, StartEffect, Zenon
<1>3. main' = main /\ waiting' = waiting /\ stalled' = stalled /\ UNCHANGED pipeVars
  BY DEF Start
<1>4. flight'[t] = f
  BY <1>1, <1>2, OneSlice
<1>5. \A u \in Tasks \ {t} : flight'[u] = flight[u]
  BY <1>1, <1>2, OneSlice
<1>6. SUFFICES ASSUME LastRound', ~Active', NEW u \in Tasks,
                      u \in waiting' \/ flight'[u].state = "blocked"
               PROVE  ~CouldProceed(u)'
  BY <1>3, Zenon DEF StuckInv, DeadlockIsReal
<1>7. ~Active
  BY <1>1, <1>5, <1>6, SMTT(60) DEF Active, Idle
<1>8. LastRound
  BY <1>3, <1>6, Zenon DEF LastRound, pipeVars
<1>9. u # t
  BY <1>1, <1>3, <1>4, <1>6
<1>10. ~CouldProceed(u)
  BY <1>3, <1>5, <1>6, <1>7, <1>8, <1>9 DEF StuckInv
<1> QED BY <1>3, <1>10, SameTasks, Zenon

LEMMA ReceiveStuck ==
    ASSUME SchedulerInv, StuckInv, NEW t \in Tasks, ReceiveBlocked(t) \/ ReceiveOther(t)
    PROVE  StuckInv'
<1>1. main = "loop" /\ main' = main /\ UNCHANGED pipeVars /\ flight' = [flight EXCEPT ![t] = Idle]
  BY DEF ReceiveBlocked, ReceiveOther
<1>2. load' = load
  BY <1>1 DEF pipeVars
<1>3. load.smp
  BY DEF ReceiveBlocked, ReceiveOther, Received, SchedulerInv, FlightOK
<1>4. CASE ReceiveOther(t) \/ flight[t].made
  <2>1. stalled' = FALSE
    BY <1>4, Zenon DEF ReceiveOther, ReceiveBlocked, Received
  <2> QED BY <1>1, <1>2, <1>3, <2>1, NothingOwed, Zenon DEF LastRound
<1>5. CASE ReceiveBlocked(t) /\ ~flight[t].made
  <2>1. FlightTo(t, Idle)
    BY <1>1, <1>2, Zenon DEF FlightTo, FlightOK, Slice, Idle
  <2>2. flight'[t] = Idle
    BY <2>1, OneSlice
  <2>3. \A u \in Tasks \ {t} : flight'[u] = flight[u]
    BY <2>1, OneSlice
  <2>4. waiting' = waiting \cup {t} /\ (stalled' => stalled) /\ flight[t].state = "blocked"
    BY <1>5, Zenon DEF ReceiveBlocked, Received
  <2>5. SUFFICES ASSUME LastRound', ~Active', NEW u \in Tasks,
                        u \in waiting' \/ flight'[u].state = "blocked"
                 PROVE  ~CouldProceed(u)'
    BY <1>1, Zenon DEF StuckInv, DeadlockIsReal
  <2>6. LastRound
    BY <1>1, <1>2, <1>3, <2>4, <2>5 DEF LastRound
  <2>7. ~Active
    BY <1>5, <2>3, <2>5 DEF Active
  <2>8. u \in waiting \/ flight[u].state = "blocked"
    BY <2>3, <2>4, <2>5
  <2>9. ~CouldProceed(u)
    BY <2>6, <2>7, <2>8 DEF StuckInv
  <2> QED BY <1>1, <2>9, SameTasks, Zenon
<1> QED BY <1>4, <1>5

\* The machine stalls: nothing is in flight and nothing can be picked.
LEMMA StallStuck ==
    ASSUME SchedulerInv, StuckInv, StallSerial \/ StallSmp
    PROVE  StuckInv'
<1>1. Inflight = {} /\ Dispatchable = {} /\ UNCHANGED pipeVars /\ flight' = flight
  BY Zenon DEF StallSerial, StallSmp
<1>2. load' = load /\ task' = task
  BY <1>1 DEF pipeVars
<1>3. \A t \in Tasks : flight[t] = Idle
  BY <1>1 DEF Inflight
<1>4. ~Active
  BY <1>3 DEF Active, Idle
<1>5. \A t \in Tasks : Live(t) => t \in waiting
  BY <1>1 DEF Dispatchable
<1>6. CASE main' = "deadlock"
  <2>1. LastRound
    <3>1. CASE StallSerial
      <4>1. ~AllDone /\ (main = "recheck" \/ waiting = {})
        BY <1>6, <3>1 DEF StallSerial
      <4>2. waiting # {}
        BY <1>5, <4>1 DEF AllDone
      <4> QED BY <3>1, <4>1, <4>2 DEF StallSerial, LastRound
    <3>2. CASE StallSmp
      BY <1>6, <3>2 DEF StallSmp, LastRound
    <3> QED BY <3>1, <3>2
  <2>2. \A t \in Tasks : Live(t) => ~CouldProceed(t)
    BY <1>4, <1>5, <2>1 DEF StuckInv
  <2>3. \A t \in Tasks : Live(t)' => ~CouldProceed(t)'
    BY <1>1, <1>2, <2>2, SameTasks DEF Live
  <2>4. ~LastRound'
    BY <1>6 DEF LastRound
  <2> QED BY <2>3, <2>4 DEF StuckInv, DeadlockIsReal
<1>7. CASE main' # "deadlock"
  <2>1. SUFFICES ASSUME LastRound' PROVE \A t \in Tasks : t \notin waiting' /\ flight'[t].state # "blocked"
    BY <1>7 DEF StuckInv, DeadlockIsReal
  <2>2. waiting' = {}
    <3>1. CASE StallSerial
      <4>1. main' = "recheck"
        BY <1>2, <2>1, <3>1 DEF StallSerial, LastRound
      <4> QED BY <3>1, <4>1 DEF StallSerial
    <3>2. CASE StallSmp
      BY <3>2 DEF StallSmp
    <3> QED BY <3>1, <3>2
  <2>3. \A t \in Tasks : flight'[t].state # "blocked"
    BY <1>1, <1>3 DEF Idle
  <2> QED BY <2>2, <2>3
<1> QED BY <1>6, <1>7

LEMMA StuckStep ==
    /\ CapacityInv /\ StreamInv /\ SchedulerInv /\ (WholeWrites => StuckInv) /\ [Next]_vars
    => (WholeWrites => StuckInv)'
<1> SUFFICES ASSUME CapacityInv, StreamInv, SchedulerInv, WholeWrites => StuckInv, [Next]_vars,
                    WholeWrites'
             PROVE  StuckInv'
  OBVIOUS
<1>1. CapacityInv' /\ StreamInv' /\ Typed
  BY CapacityStep, StreamStep DEF CapacityInv
<1>2. load' = load
  <2>1. PipeStep \/ UNCHANGED pipeVars
    BY StepsOfPipes
  <2> QED BY <2>1, Zenon DEF PipeStep, pipeVars, Issue, Close, Exit, Sigreturn, Kill
<1>3. WholeWrites /\ StuckInv
  BY <1>2 DEF WholeWrites, ShortOnly
<1>4. ASSUME NEW t \in Tasks, Pick(t) \/ Fill(t) PROVE StuckInv'
  <2>1. t \in Dispatchable /\ main # "deadlock" /\ Start(t)
    BY <1>4 DEF Pick, Fill
  <2> QED BY <1>3, <2>1, StartStuck
<1>5. ASSUME NEW t \in Tasks, SysReadWrite(t) PROVE StuckInv'
  <2>1. PICK c \in Calls(t) :
          /\ Issue(t, c)
          /\ IF task'[t].ended THEN EndSlice(t, "ended", TRUE)
             ELSE IF task'[t].call # NoCall THEN EndSlice(t, "blocked", Progressed(t))
             ELSE GoOn(t) /\ UNCHANGED waiting
    BY <1>5, Zenon DEF SysReadWrite
  <2>2. Running(t)
    BY <1>5, Zenon DEF SysReadWrite
  <2>3. CASE EndSlice(t, "ended", TRUE)
    BY <1>2, <2>2, <2>3, EndMadeStuck, Zenon
  <2>4. CASE task'[t].call # NoCall /\ EndSlice(t, "blocked", Progressed(t))
    BY <1>1, <1>3, <2>1, <2>2, <2>4, EndBlockedStuck, Zenon
  <2>5. CASE GoOn(t)
    BY <1>2, <2>2, <2>5, GoOnStuck, Zenon
  <2> QED BY <2>1, <2>3, <2>4, <2>5, Zenon
<1>6. ASSUME NEW t \in Tasks, SysClose(t) \/ SysSigreturn(t) \/ SysKill(t) PROVE StuckInv'
  <2>1. Running(t) /\ GoOn(t)
    BY <1>6, Zenon DEF SysClose, SysSigreturn, SysKill
  <2> QED BY <1>2, <2>1, GoOnStuck, Zenon
<1>7. ASSUME NEW t \in Tasks, SysExit(t) \/ Preempt(t) PROVE StuckInv'
  <2>1. Running(t) /\ (EndSlice(t, "ended", TRUE) \/ EndSlice(t, "preempted", TRUE))
    BY <1>7, Zenon DEF SysExit, Preempt
  <2> QED BY <1>2, <2>1, EndMadeStuck, Zenon
<1>8. ASSUME NEW t \in Tasks, ReceiveBlocked(t) \/ ReceiveOther(t) PROVE StuckInv'
  BY <1>3, <1>8, ReceiveStuck
<1>9. ASSUME StallSerial \/ StallSmp PROVE StuckInv'
  BY <1>3, <1>9, StallStuck
<1>10. ASSUME Halted \/ UNCHANGED vars PROVE StuckInv'
  <2>1. UNCHANGED pipeVars /\ main' = main /\ flight' = flight /\ waiting' = waiting /\ stalled' = stalled
    BY <1>10 DEF Halted, vars, pipeVars
  <2>2. \A u \in Tasks : CouldProceed(u)' <=> CouldProceed(u)
    BY <2>1, SameTasks
  <2>3. task' = task
    BY <2>1 DEF pipeVars
  <2>4. LastRound' = LastRound /\ Active' = Active
    BY <1>2, <2>1 DEF LastRound, Active
  <2>5. DeadlockIsReal'
    BY <1>3, <2>1, <2>2, <2>3 DEF StuckInv, DeadlockIsReal, Live
  <2> QED BY <1>3, <2>1, <2>2, <2>4, <2>5 DEF StuckInv
<1> QED BY <1>4, <1>5, <1>6, <1>7, <1>8, <1>9, <1>10, Zenon DEF Next

\* On serial machines whatever their workload, and on SMP machines whose writes go in
\* at once or not at all: when schedule_serial or schedule_smp reports "deadlock: every
\* process is blocked", no blocked pipe call could return or move a byte.  The epoch,
\* the results in flight and the one retry before the report lose no progress.
THEOREM ReportedDeadlocksAreReal == Spec => [](WholeWrites => DeadlockIsReal)
<1>1. Spec => []CapacityInv
  BY CapacityInit, CapacityStep, PTL DEF Spec
<1>2. Spec => []SchedulerInv
  BY SchedulerInit, SchedulerStep, PTL DEF Spec
<1>3. Init => (WholeWrites => StuckInv)
  <2> SUFFICES ASSUME Init PROVE StuckInv
    OBVIOUS
  <2>1. main = "loop" /\ stalled = FALSE
    BY DEF Init
  <2> QED BY <2>1 DEF StuckInv, LastRound, DeadlockIsReal
<1>4. Spec => [](WholeWrites => StuckInv)
  BY <1>1, <1>2, <1>3, StreamAlways, StuckStep, PTL DEF Spec
<1>5. (WholeWrites => StuckInv) => (WholeWrites => DeadlockIsReal)
  BY DEF StuckInv
<1> QED BY <1>4, <1>5, PTL
=============================================================================
