--------------------------------- MODULE Pipe ---------------------------------
(***************************************************************************)
(* Pipes (src/src/kernel/mod.rs, read_pipe and pipe_write_from) and the    *)
(* calls of the tasks that share them.  A write that does not fit blocks   *)
(* its task, which keeps how far it got in io_progress; the call is issued *)
(* again from the start whenever the task runs and carries on from there.  *)
(*                                                                         *)
(* Every byte is tagged with its writer and its place in what that writer  *)
(* means to send: guests advance by what the calls return, so a call that  *)
(* returns a wrong count shows as a gap or a repetition.                   *)
(***************************************************************************)
EXTENDS Integers, Sequences, FiniteSets

CONSTANTS Tasks,
          Pipes,
          Capacity,
          Workloads  \* what guests do: the ends each task has open, as sets of
                     \* <<"r" or "w", pipe>> (ends, for the tasks there are), the
                     \* sides with O_NONBLOCK (nonblock), whether SIGPIPE has its
                     \* default action (sigpipe), the restart flags of the
                     \* handlers that signals run (handlers); PIPE_ATOMIC_WRITE
                     \* (atomic), the sizes of writes and reads (sizes), the
                     \* calls of a task and signals of all that bound them, and
                     \* which scheduler runs them (smp)

ASSUME PipeAssumption ==
    /\ Capacity \in Nat \ {0}
    /\ \A l \in Workloads :
          /\ DOMAIN l.ends \subseteq Tasks
          /\ \A t \in DOMAIN l.ends : l.ends[t] \subseteq {"r", "w"} \X Pipes
          /\ l.sizes \subseteq Nat \ {0} /\ l.atomic \in Nat
          /\ l.nonblock \subseteq {"r", "w"} /\ l.handlers \subseteq {"restart", "eintr"}
          /\ l.smp \in BOOLEAN /\ l.sigpipe \in BOOLEAN

VARIABLES load,      \* the workload of this behaviour
          task,      \* what each task is doing
          buf,       \* the bytes in each pipe
          taken,     \* the bytes read from each pipe so far
          sent,      \* how many bytes each task's writes to each pipe returned
          signals    \* sent so far

pipeVars == <<load, task, buf, taken, sent, signals>>

NoCall == [op |-> "none"]

Fresh(t) == [call |-> NoCall,
             progress |-> 0,      \* io_progress
             ends |-> IF t \in DOMAIN load.ends THEN load.ends[t] ELSE {},  \* its fds
             calls |-> 0,
             sig |-> "none",      \* a pending signal: its handler's restart flag
             handler |-> FALSE,
             saved |-> NoCall,    \* the call the handler interrupted
             ended |-> t \notin DOMAIN load.ends]

PipeInit ==
    /\ load \in Workloads
    /\ task = [t \in Tasks |-> Fresh(t)]
    /\ buf = [p \in Pipes |-> <<>>] /\ taken = [p \in Pipes |-> <<>>]
    /\ sent = [t \in Tasks |-> [p \in Pipes |-> 0]]
    /\ signals = 0

Live(t) == ~task[t].ended
Open(side, p) == {t \in Tasks : <<side, p>> \in task[t].ends}

------------------------------------------------------------------------------
(* The calls.                                                              *)

\* A short write takes what room there is.
AcceptedPartly(remaining, room) == IF remaining < room THEN remaining ELSE room

\* How much of a write goes in: all or nothing up to PIPE_ATOMIC_WRITE, what fits
\* beyond.
Accepted(remaining, room) ==
    IF remaining <= load.atomic /\ room < remaining THEN 0
    ELSE IF remaining < room THEN remaining ELSE room

\* The bytes of a write of t to p from offset done on.
Bytes(t, p, done, n) == [i \in 1..n |-> [by |-> t, n |-> sent[t][p] + done + i]]

Blocked(done) == [ret |-> 0, block |-> TRUE, progress |-> done]
Returned(n) == [ret |-> n, block |-> FALSE, progress |-> 0]

\* The writer forgets how far it got.
PipeWriteFromStart(t, c) ==
    LET n == Accepted(c.n, Capacity - Len(buf[c.pipe]))
        r == IF Open("r", c.pipe) = {} THEN Returned(-1)
             ELSE IF n = c.n THEN Returned(c.n)
             ELSE IF "w" \in load.nonblock THEN Returned(IF n > 0 THEN n ELSE -1)
             ELSE Blocked(0)
    IN  [r |-> r, n |-> IF Open("r", c.pipe) = {} THEN 0 ELSE n, from |-> 0]

\* pipe_write_from: the result, how many bytes go in and the offset they start
\* at.  -1 is an error (EPIPE, EAGAIN).
PipeWriteFrom(t, c) ==
    LET done == task[t].progress
        remaining == IF c.n > done THEN c.n - done ELSE 0
        n == Accepted(remaining, Capacity - Len(buf[c.pipe]))
        short == IF done + n > 0 THEN done + n ELSE -1
        broken == Open("r", c.pipe) = {}
        r == IF broken THEN Returned(IF done > 0 THEN done ELSE -1)
             ELSE IF done + n >= c.n THEN Returned(c.n)
             ELSE IF "w" \in load.nonblock THEN Returned(short)
             ELSE Blocked(done + n)
    IN  [r |-> r, n |-> IF broken THEN 0 ELSE n, from |-> done]

\* read_pipe: the result and how many bytes come out.
ReadPipe(t, c) ==
    LET have == Len(buf[c.pipe])
        n == IF c.n < have THEN c.n ELSE have
        Got(m) == [ret |-> m, block |-> FALSE, progress |-> task[t].progress]
    IN  IF have > 0 THEN [r |-> Got(n), n |-> n]
        ELSE IF Open("w", c.pipe) = {} \/ "r" \in load.nonblock
        THEN [r |-> Got(0), n |-> 0]
        ELSE [r |-> Blocked(task[t].progress), n |-> 0]

\* Kernel::service on the result: a call that would block while a signal with a
\* handler is pending is restarted after the handler or returns what it did, and
\* the handler starts.  The record, and what the call returned.
AfterCall(me, c, r) ==
    LET delivers == me.sig # "none" /\ ~me.handler
        broken == c.op = "w" /\ r.ret = -1 /\ Open("r", c.pipe) = {}    \* raise_sigpipe
        restarts == r.block /\ delivers /\ me.sig = "restart"
        cut == r.block /\ delivers /\ ~restarts
        ret == IF cut THEN r.progress ELSE r.ret
        m == [me EXCEPT !.progress = IF cut THEN 0 ELSE r.progress]
    IN  IF broken /\ load.sigpipe
        THEN [me |-> [m EXCEPT !.call = NoCall, !.ended = TRUE, !.ends = {}], ret |-> -1]
        ELSE IF r.block /\ ~delivers THEN [me |-> [m EXCEPT !.call = c], ret |-> 0]
        ELSE IF delivers
        THEN [me |-> [m EXCEPT !.call = NoCall, !.sig = "none", !.handler = TRUE,
                               !.saved = IF restarts THEN c ELSE NoCall],
              ret |-> IF restarts THEN 0 ELSE ret]
        ELSE [me |-> [m EXCEPT !.call = NoCall], ret |-> ret]

\* The calls t may issue: the one it is blocked in, or a new one.
Calls(t) ==
    IF task[t].call # NoCall THEN {task[t].call}
    ELSE {c \in [op : {"r", "w"}, pipe : Pipes, n : load.sizes] :
            <<c.op, c.pipe>> \in task[t].ends /\ task[t].calls < load.calls}

\* One call of t; whether it blocked and whether it moved data without returning.
Issue(t, c) ==
    LET w == PipeWriteFrom(t, c)
        d == ReadPipe(t, c)
        r == IF c.op = "w" THEN w.r ELSE d.r
        a == AfterCall(task[t], c, r)
        counted == IF task[t].call = NoCall THEN 1 ELSE 0
    IN  /\ task' = [task EXCEPT ![t] = [a.me EXCEPT !.calls = @ + counted]]
        /\ buf' = [buf EXCEPT ![c.pipe] = IF c.op = "w" THEN @ \o Bytes(t, c.pipe, w.from, w.n)
                                          ELSE SubSeq(@, d.n + 1, Len(@))]
        /\ taken' = IF c.op = "w" THEN taken
                    ELSE [taken EXCEPT ![c.pipe] = @ \o SubSeq(buf[c.pipe], 1, d.n)]
        /\ sent' = IF c.op = "w" /\ a.ret > 0 THEN [sent EXCEPT ![t][c.pipe] = @ + a.ret] ELSE sent
        /\ UNCHANGED <<load, signals>>

IsBlocked(t) == task[t].call # NoCall
Moved(t) == task'[t].progress # task[t].progress

\* t closes an end, outside of a blocked call.
Close(t) ==
    /\ task[t].call = NoCall
    /\ \E e \in task[t].ends : task' = [task EXCEPT ![t].ends = @ \ {e}]
    /\ UNCHANGED <<load, buf, taken, sent, signals>>

\* t exits, which closes its ends.
Exit(t) ==
    /\ task[t].call = NoCall
    /\ task' = [task EXCEPT ![t].ended = TRUE, ![t].ends = {}]
    /\ UNCHANGED <<load, buf, taken, sent, signals>>

\* The handler of t returns; a call to be restarted is issued again.
Sigreturn(t) ==
    /\ task[t].call = NoCall /\ task[t].handler
    /\ task' = [task EXCEPT ![t].handler = FALSE, ![t].call = task[t].saved, ![t].saved = NoCall]
    /\ UNCHANGED <<load, buf, taken, sent, signals>>

\* t sends u a signal.
Kill(t, u) ==
    /\ task[t].call = NoCall /\ signals < load.signals /\ Live(u) /\ task[u].sig = "none"
    /\ \E h \in load.handlers : task' = [task EXCEPT ![u].sig = h]
    /\ signals' = signals + 1
    /\ UNCHANGED <<load, buf, taken, sent>>

------------------------------------------------------------------------------
(* What tasks and properties can tell.                                     *)

\* The call t is blocked in could return, or move data, as things are.
CouldProceed(t) ==
    LET c == task[t].call
        r == IF c.op = "w" THEN PipeWriteFrom(t, c) ELSE ReadPipe(t, c)
    IN  IsBlocked(t) => ~r.r.block \/ r.n > 0

\* Everything that went through p, in order.
Stream(p) == taken[p] \o buf[p]

WritesTo(c, p) == c # NoCall /\ c.op = "w" /\ c.pipe = p
=============================================================================
