-------------------------------- MODULE Futex --------------------------------
(***************************************************************************)
(* Futexes (src/src/kernel/futex.rs): plain waits, wakes and requeues,     *)
(* priority-inheritance locks, and the way Kernel::service drives a        *)
(* blocking call.  A waiter is not queued anywhere: it parks with the key  *)
(* it waits for in its own record, a waker scans the task table, and the   *)
(* blocked call is issued again from the start whenever its task runs.     *)
(*                                                                         *)
(* A step of a task is check-out, call, check-in, as in module SmpTasks;   *)
(* with Smp false only one task is out at a time and its slot is empty     *)
(* meanwhile, with Smp true several are, each leaving a stand-in in the    *)
(* table that scans see and whose futex fields the check-in overwrites.    *)
(* When a task that can run does run is left open.                         *)
(***************************************************************************)
EXTENDS Integers, Sequences, FiniteSets

CONSTANTS Tids,         \* the tasks, 1..n in the order of the table
          SharedSpace,  \* those that share one address space
          Keys,         \* the plain futex words
          PiKeys,       \* the words of priority-inheritance locks
          Private,      \* whether the calls pass FUTEX_PRIVATE_FLAG
          Smp,
          MaxVal        \* bound: the largest value of a plain word

ASSUME FutexAssumption ==
    /\ Tids \subseteq Nat \ {0} /\ IsFiniteSet(Tids) /\ SharedSpace \subseteq Tids
    /\ Private \in BOOLEAN /\ Smp \in BOOLEAN /\ MaxVal \in Nat
    /\ Keys \cap PiKeys = {} /\ "no key" \notin Keys \cup PiKeys

VARIABLES table,   \* the futex part of each task's record in procs
          out,     \* the record a task is serviced with, NotOut when it is not
          word     \* the futex words

NoKey == "no key"
NotOut == [call |-> [op |-> "not out"]]
NoCall == [op |-> "none"]

Ready == [wait |-> NoKey, woken |-> FALSE, pi |-> FALSE, parked |-> FALSE,
          dead |-> FALSE, deadline |-> "none", call |-> NoCall,
          blocked |-> FALSE,     \* cx.block: the slice ends, the call is issued again
          sig |-> "none",        \* a pending signal: its handler's restart flag, or "kill"
          handler |-> FALSE,     \* inside a signal handler
          saved |-> NoCall]      \* the call that handler interrupted

MmOf(t) == IF t \in SharedSpace THEN 0 ELSE t

\* The tasks a scan of sh.procs meets during a call.
Seen == {u \in Tids : Smp \/ out[u] = NotOut}

------------------------------------------------------------------------------
(* The calls: on the caller's record me, the table tb and the words w.     *)

\* futex_could_wake, of the other tasks.
FutexCouldWake(t, tb) ==
    \E u \in Seen : ~tb[u].dead /\ (Private => MmOf(u) = MmOf(t))

\* futex_done
FutexDone(me) == [me EXCEPT !.wait = NoKey, !.woken = FALSE, !.pi = FALSE]

Waiting(tb, k) == {u \in Seen : tb[u].wait = k /\ ~tb[u].woken /\ ~tb[u].pi}

\* The first n of a set of tasks, in the order of the table.
FirstN(S, n) == {u \in S : Cardinality({v \in S : v < u}) < n}

WakeUp(tb, S) == [u \in Tids |-> IF u \in S THEN [tb[u] EXCEPT !.woken = TRUE, !.parked = FALSE]
                                ELSE tb[u]]

Return(me, ret) == [me |-> FutexDone(me), ret |-> ret]
Block(me) == [me |-> me, ret |-> "block"]

\* A wait whose word moved on parks all the same.
FutexWaitNoCompare(t, me, c) ==
    IF me.woken THEN Return(me, "ok")
    ELSE IF me.deadline = "due" THEN Return(me, "ETIMEDOUT")
    ELSE Block([me EXCEPT !.wait = c.key,
                          !.deadline = IF c.timed /\ @ = "none" THEN "armed" ELSE @])

\* futex_wait, futex2's wait: a timed wait arms its deadline on the first run.
FutexWait(t, me, c) ==
    LET armed == [me EXCEPT !.deadline = IF c.timed /\ @ = "none" THEN "armed" ELSE @]
    IN  IF me.woken THEN Return(me, "ok")
        ELSE IF me.deadline = "due" THEN Return(me, "ETIMEDOUT")
        ELSE IF me.wait \notin {NoKey, c.key} THEN Block(armed)
        ELSE IF word[c.key] # c.val THEN Return(armed, "EAGAIN")
        ELSE IF ~c.timed /\ ~FutexCouldWake(t, table) THEN Return(me, "ok")
        ELSE Block([armed EXCEPT !.wait = c.key])

\* futex_wake_key: how many were woken, and the table.
FutexWakeKey(tb, k, n) ==
    LET woken == FirstN(Waiting(tb, k), n)
    IN  [n |-> Cardinality(woken), table |-> WakeUp(tb, woken)]

\* The rest is requeued from the first waiter on, the woken one included.
FutexRequeueKeysAgain(tb, from, to, nrWake, nrRequeue) ==
    LET waiters == {u \in Seen : tb[u].wait = from /\ ~tb[u].woken}
        woken == FirstN(waiters, nrWake)
        moved == FirstN(waiters, nrRequeue)
        tb2 == WakeUp(tb, woken)
    IN  [n |-> Cardinality(woken) + Cardinality(moved),
         table |-> [u \in Tids |-> IF u \in moved THEN [tb2[u] EXCEPT !.wait = to, !.woken = FALSE]
                                   ELSE tb2[u]]]

\* futex_requeue_keys
FutexRequeueKeys(tb, from, to, nrWake, nrRequeue) ==
    LET waiters == {u \in Seen : tb[u].wait = from /\ ~tb[u].woken}
        woken == FirstN(waiters, nrWake)
        moved == FirstN(waiters \ woken, nrRequeue)
        tb2 == WakeUp(tb, woken)
    IN  [n |-> Cardinality(woken),
         table |-> [u \in Tids |-> IF u \in moved THEN [tb2[u] EXCEPT !.wait = to] ELSE tb2[u]]]

------------------------------------------------------------------------------
(* The priority-inheritance calls.  An unlocking task writes the tid of    *)
(* the first waiter into the word and flags it as woken; the waiter finds  *)
(* the lock already its own when its call is issued again.                 *)

Unlocked == [owner |-> 0, waiters |-> FALSE, died |-> FALSE]

\* tid_alive
TidAlive(t, u) == u = t \/ (u \in Seen /\ ~table[u].dead)

\* The waiters parked on the lock, as lock and unlock find them.
Parked(tb, k) == {u \in Seen : tb[u].pi /\ tb[u].wait = k /\ ~tb[u].woken}

Take(t, k, died) == [owner |-> t, waiters |-> Parked(table, k) # {}, died |-> died]

\* futex_lock_pi: the caller's record, what it returns and the word.
FutexLockPi(t, me, c) ==
    LET w == word[c.key]
        armed == [me EXCEPT !.deadline = IF c.timed /\ @ = "none" THEN "armed" ELSE @]
        Is(r, new) == [me |-> r.me, ret |-> r.ret, word |-> new]
    IN  IF me.woken THEN Is(Return(me, "ok"), w)
        ELSE IF w.owner = 0 THEN Is(Return(me, "ok"), Take(t, c.key, FALSE))
        ELSE IF w.owner = t THEN Is(Return(me, "EDEADLK"), w)
        ELSE IF ~TidAlive(t, w.owner) THEN Is(Return(me, "ok"), Take(t, c.key, TRUE))
        ELSE IF c.op = "trylock" THEN [me |-> me, ret |-> "EAGAIN", word |-> w]
        ELSE IF me.deadline = "due" THEN Is(Return(me, "ETIMEDOUT"), w)
        ELSE Is(Block([armed EXCEPT !.wait = c.key, !.pi = TRUE]), [w EXCEPT !.waiters = TRUE])

\* Every waiter is woken as if the lock were its own.
FutexUnlockPiWakesAll(k) ==
    LET waiting == Parked(table, k)
    IN  [table |-> WakeUp(table, waiting),
         word  |-> IF waiting = {} THEN Unlocked
                   ELSE [owner |-> CHOOSE u \in FirstN(waiting, 1) : TRUE,
                         waiters |-> FALSE, died |-> FALSE]]

\* futex_unlock_pi, by the owner: the table and the word.
FutexUnlockPi(k) ==
    LET waiting == Parked(table, k)
        first == FirstN(waiting, 1)
    IN  [table |-> WakeUp(table, first),
         word  |-> IF waiting = {} THEN Unlocked
                   ELSE [owner |-> CHOOSE u \in first : TRUE,
                         waiters |-> Cardinality(waiting) > 1, died |-> FALSE]]

------------------------------------------------------------------------------
(* Service: the check-out, the treatment of a call that blocks while a     *)
(* handled signal is pending, and the check-in.                            *)

CanCheckOut(t) ==
    /\ out[t] = NotOut /\ ~table[t].dead
    /\ \A u \in Tids : out[u] # NotOut => Smp /\ MmOf(u) # MmOf(t)

\* The record after a call that returned ret: a block with a handler to run is
\* restarted after it or abandoned; the handler runs after a completed call too.
\* A returning call forgets its deadline.  A fatal signal ends the task with its
\* futex fields as the call left them.
AfterCall(me, c, ret) ==
    LET delivers == me.sig # "none" /\ ~me.handler
        restarts == ret = "block" /\ delivers /\ me.sig = "restart"
        blocks == ret = "block" /\ ~delivers
        m == IF ret = "block" /\ delivers /\ ~restarts THEN FutexDone(me) ELSE me
    IN  IF me.sig = "kill" THEN [me EXCEPT !.call = NoCall, !.dead = TRUE]
        ELSE IF blocks THEN [m EXCEPT !.call = c, !.blocked = TRUE]
        ELSE IF delivers
        THEN [m EXCEPT !.call = NoCall, !.deadline = "none", !.sig = "none",
                       !.handler = TRUE, !.saved = IF restarts THEN c ELSE NoCall]
        ELSE [m EXCEPT !.call = NoCall, !.deadline = "none"]

\* sig of the stand-in is what is posted to it from then on.
CheckOut(t) ==
    /\ CanCheckOut(t)
    /\ Smp \/ ~table[t].parked
    /\ out' = [out EXCEPT ![t] = table[t]]
    /\ table' = [table EXCEPT ![t] = IF Smp THEN [@ EXCEPT !.sig = "none"] ELSE Ready]
    /\ UNCHANGED word

\* A blocked task parks.  Of the stand-in only a new signal is folded in.
CheckIn(t) ==
    /\ out[t] # NotOut /\ (out[t].blocked \/ out[t].call = NoCall)
    /\ LET signalled == Smp /\ table[t].sig # "none"
           me == IF signalled THEN [out[t] EXCEPT !.sig = table[t].sig] ELSE out[t]
       IN  table' = [table EXCEPT ![t] = [me EXCEPT !.parked = ~Smp /\ me.blocked,
                                                          !.blocked = FALSE]]
    /\ out' = [out EXCEPT ![t] = NotOut]
    /\ UNCHANGED word

\* A stall of the serial scheduler: every parked task re-checks its wait.
Stall ==
    /\ \A t \in Tids : out[t] = NotOut /\ (table[t].parked \/ table[t].dead)
    /\ \E t \in Tids : ~table[t].dead
    /\ table' = [t \in Tids |-> [table[t] EXCEPT !.parked = FALSE]]
    /\ UNCHANGED <<out, word>>

\* The clock passes the deadline of a parked wait, which wakes its task.
Tick(t) ==
    /\ table[t].deadline = "armed" /\ out[t] = NotOut
    /\ table' = [table EXCEPT ![t].deadline = "due", ![t].parked = FALSE]
    /\ UNCHANGED <<out, word>>
=============================================================================
