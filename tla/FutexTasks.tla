------------------------------ MODULE FutexTasks ------------------------------
(***************************************************************************)
(* Tasks using futexes: FUTEX_WAIT with and without a timeout, FUTEX_WAKE  *)
(* and FUTEX_REQUEUE on plain words that guests change themselves;         *)
(* FUTEX_LOCK_PI, FUTEX_TRYLOCK_PI and FUTEX_UNLOCK_PI beside the guests'  *)
(* own fast paths on the lock word (an atomic 0 -> tid to lock, tid -> 0   *)
(* to unlock); signals, whose handlers may wait themselves, and deaths.    *)
(***************************************************************************)
EXTENDS Futex

CONSTANTS Workloads  \* what guests do: the tasks there are (tids), the calls they
                     \* make (ops), what signals do to them (handlers: "restart",
                     \* "eintr", or "kill"), and a bound on waking calls, stores
                     \* and signals (budget)

VARIABLES load,      \* the workload of this behaviour
          reported,  \* waiters the waking calls said they woke
          consumed,  \* waits that returned because they were woken
          moved,     \* tasks whose wait was requeued
          holds,     \* <<t, k>>: by what its calls returned, t holds lock k
          spurious,  \* tasks told EDEADLK about a lock they do not hold
          spent      \* of the budget

plain == <<reported, consumed, moved>>
locks == <<holds, spurious>>
vars == <<load, table, out, word, reported, consumed, moved, holds, spurious, spent>>

Init ==
    /\ load \in Workloads
    /\ table = [t \in Tids |-> [Ready EXCEPT !.dead = t \notin load.tids]]
    /\ out = [t \in Tids |-> NotOut]
    /\ word = [k \in Keys \cup PiKeys |-> IF k \in Keys THEN 0 ELSE Unlocked]
    /\ reported = 0 /\ consumed = 0 /\ moved = {}
    /\ holds = {} /\ spurious = {} /\ spent = 0

\* The guest of t issues a call, or touches its memory.
InGuest(t) == out[t] # NotOut /\ out[t].call = NoCall /\ ~out[t].dead

\* The same outside of signal handlers, which take no locks (that would not be
\* async-signal-safe).
InMain(t) == InGuest(t) /\ ~out[t].handler

\* The record of t, wherever it is.
Record(t) == IF out[t] = NotOut THEN table[t] ELSE out[t]

------------------------------------------------------------------------------
(* The scheduler and the clock.                                            *)

Begin(t) == CheckOut(t) /\ UNCHANGED <<load, plain, locks, spent>>
End(t) == CheckIn(t) /\ UNCHANGED <<load, plain, locks, spent>>
Clock(t) == Tick(t) /\ UNCHANGED <<load, plain, locks, spent>>
Retry == ~Smp /\ Stall /\ UNCHANGED <<load, plain, locks, spent>>

\* Every task has ended.
AllDead == (\A t \in Tids : table[t].dead /\ out[t] = NotOut) /\ UNCHANGED vars

------------------------------------------------------------------------------
(* Plain futexes.                                                          *)

Wait(k, v, timed) == [op |-> "wait", key |-> k, val |-> v, timed |-> timed]
WaitCalls == {Wait(k, v, timed) : k \in Keys, v \in 0..MaxVal, timed \in BOOLEAN}

\* The wait t is blocked in is issued again, or a new one is, with the value the
\* guest loaded from the word, which may have been changed since (words only
\* grow, see Store).
SysWait(t) ==
    /\ out[t] # NotOut /\ ~out[t].blocked /\ ~out[t].dead
    /\ \E c \in WaitCalls :
          /\ IF out[t].call # NoCall THEN c = out[t].call
             ELSE /\ (IF c.timed THEN "timed" ELSE "wait") \in load.ops
                  /\ c.val <= word[c.key]
          /\ LET r == FutexWait(t, out[t], c)
                 me == AfterCall(r.me, c, r.ret)
             IN  /\ out' = [out EXCEPT ![t] = me]
                 /\ moved' = IF me.wait = NoKey THEN moved \ {t} ELSE moved
                 /\ consumed' = consumed + (IF out[t].woken THEN 1 ELSE 0)
    /\ UNCHANGED <<load, table, word, reported, locks, spent>>

SysWake(t) ==
    /\ InGuest(t)
    /\ "wake" \in load.ops /\ spent < load.budget
    /\ \E k \in Keys :
          LET r == FutexWakeKey(table, k, 1)
          IN  /\ table' = r.table
              /\ reported' = reported + r.n
    /\ out' = [out EXCEPT ![t] = AfterCall(out[t], NoCall, "ok")]
    /\ spent' = spent + 1
    /\ UNCHANGED <<load, word, consumed, moved, locks>>

SysRequeue(t) ==
    /\ InGuest(t)
    /\ "requeue" \in load.ops /\ spent < load.budget
    /\ \E from, to \in Keys :
          LET r == FutexRequeueKeys(table, from, to, 1, 1)
          IN  /\ from # to
              /\ table' = r.table
              /\ moved' = moved \cup {u \in Tids : r.table[u].wait # table[u].wait}
              /\ reported' = reported + r.n
    /\ out' = [out EXCEPT ![t] = AfterCall(out[t], NoCall, "ok")]
    /\ spent' = spent + 1
    /\ UNCHANGED <<load, word, consumed, locks>>

\* The guest running as t changes a word.
Store(t) ==
    /\ InGuest(t) /\ spent < load.budget /\ {"wait", "timed"} \cap load.ops # {}
    /\ \E k \in Keys : word[k] < MaxVal /\ word' = [word EXCEPT ![k] = @ + 1]
    /\ spent' = spent + 1
    /\ UNCHANGED <<load, table, out, plain, locks>>

------------------------------------------------------------------------------
(* Locks.                                                                  *)

\* A locking call has a timeout in the workloads that have timed calls.
PiCalls ==
    {[op |-> op, key |-> k, timed |-> "timedlock" \in load.ops] :
        op \in {"lock", "trylock"}, k \in PiKeys}

SysLockPi(t) ==
    /\ out[t] # NotOut /\ ~out[t].blocked /\ ~out[t].dead /\ ~out[t].handler
    /\ \E c \in PiCalls :
          /\ IF out[t].call # NoCall THEN c = out[t].call
             ELSE "lock" \in load.ops /\ <<t, c.key>> \notin holds
          /\ LET r == FutexLockPi(t, out[t], c)
             IN  /\ out' = [out EXCEPT ![t] = AfterCall(r.me, c, r.ret)]
                 /\ word' = [word EXCEPT ![c.key] = r.word]
                 /\ holds' = IF r.ret = "ok" THEN holds \cup {<<t, c.key>>} ELSE holds
                 /\ spurious' = IF r.ret = "EDEADLK" /\ <<t, c.key>> \notin holds
                                THEN spurious \cup {t} ELSE spurious
    /\ UNCHANGED <<load, table, plain, spent>>

\* FUTEX_UNLOCK_PI by its owner; by anyone else it returns EPERM and changes nothing.
SysUnlockPi(t) ==
    /\ InMain(t)
    /\ \E k \in PiKeys :
          /\ word[k].owner = t
          /\ LET r == FutexUnlockPi(k)
             IN  table' = r.table /\ word' = [word EXCEPT ![k] = r.word]
          /\ holds' = holds \ {<<t, k>>}
    /\ out' = [out EXCEPT ![t] = AfterCall(out[t], NoCall, "ok")]
    /\ UNCHANGED <<load, plain, spurious, spent>>

\* The guest's compare-and-swaps on the word.
FastLock(t) ==
    /\ InMain(t) /\ "lock" \in load.ops
    /\ \E k \in PiKeys : /\ word[k] = Unlocked
                         /\ word' = [word EXCEPT ![k] = [Unlocked EXCEPT !.owner = t]]
                         /\ holds' = holds \cup {<<t, k>>}
    /\ UNCHANGED <<load, table, out, plain, spurious, spent>>

FastUnlock(t) ==
    /\ InMain(t)
    /\ \E k \in PiKeys : /\ word[k] = [Unlocked EXCEPT !.owner = t]
                         /\ word' = [word EXCEPT ![k] = Unlocked]
                         /\ holds' = holds \ {<<t, k>>}
    /\ UNCHANGED <<load, table, out, plain, spurious, spent>>

------------------------------------------------------------------------------
(* Signals and deaths.                                                     *)

\* A signal arrives for t, from a task or a timer.
Post(t) ==
    /\ spent < load.budget /\ table[t].sig = "none" /\ ~table[t].dead /\ (Smp \/ out[t] = NotOut)
    /\ \E h \in load.handlers : table' = [table EXCEPT ![t].sig = h, ![t].parked = FALSE]
    /\ spent' = spent + 1
    /\ UNCHANGED <<load, out, word, plain, locks>>

\* The handler returns: an interrupted call that restarts is issued again.
Sigreturn(t) ==
    /\ InGuest(t) /\ out[t].handler
    /\ out' = [out EXCEPT ![t].handler = FALSE, ![t].call = out[t].saved,
                          ![t].saved = NoCall]
    /\ UNCHANGED <<load, table, word, plain, locks, spent>>

\* exit, with or without locks held.
SysExit(t) ==
    /\ InGuest(t) /\ "exit" \in load.ops
    /\ out' = [out EXCEPT ![t].dead = TRUE]
    /\ UNCHANGED <<load, table, word, plain, locks, spent>>

Next ==
    \/ \E t \in Tids : Begin(t) \/ End(t) \/ Clock(t)
    \/ \E t \in Tids : SysWait(t) \/ SysWake(t) \/ SysRequeue(t) \/ Store(t)
    \/ \E t \in Tids : SysLockPi(t) \/ SysUnlockPi(t) \/ FastLock(t) \/ FastUnlock(t)
    \/ \E t \in Tids : Post(t) \/ Sigreturn(t) \/ SysExit(t)
    \/ Retry \/ AllDead

Spec == Init /\ [][Next]_vars

------------------------------------------------------------------------------
(* Properties.                                                             *)

\* The fields have their types, and a deadline belongs to the call its task is
\* blocked in: no later call inherits it.
TypeOK ==
    /\ \A k \in Keys : word[k] \in 0..MaxVal
    /\ \A k \in PiKeys : word[k] \in
          [owner : Tids \cup {0}, waiters : BOOLEAN, died : BOOLEAN]
    /\ \A t \in Tids : /\ Record(t).wait \in Keys \cup PiKeys \cup {NoKey}
                       /\ Record(t).deadline \in {"none", "armed", "due"}
                       /\ Record(t).deadline # "none" => Record(t).call # NoCall

\* No wake-up is lost or counted twice: every waiter a FUTEX_WAKE or
\* FUTEX_REQUEUE reported as woken has returned from its wait or will, being
\* flagged; and none that was flagged is left parked until a stall, which never
\* comes while other tasks are busy.
WakesDelivered ==
    /\ (\A t \in Tids : out[t] = NotOut) =>
          reported = consumed + Cardinality({t \in Tids :
              table[t].woken /\ ~table[t].pi /\ ~table[t].dead})
    /\ \A t \in Tids : table[t].woken => ~table[t].parked

\* A task flagged or findable by a waker is at the wait that consumes the wake,
\* so the wake is not spent on a task that has moved on (Kernel::service drops
\* the bookkeeping "so a later FUTEX_WAKE on the old address can't spuriously
\* flag this now-running task").
WakeFindsWaiter ==
    \A t \in Tids : table[t].wait # NoKey /\ out[t] = NotOut /\ ~table[t].dead
        => table[t].call # NoCall \/ table[t].saved # NoCall

\* Guests whose handlers do not wait on plain words while a lock call that will be
\* restarted is pending: futex_wait, called by the handler, would take the hand-over
\* of the lock for its own wake-up.
HandlersApart == "restart" \notin load.handlers \/ {"wait", "timed"} \cap load.ops = {}

Waits == {"wait", "timed"} \cap load.ops # {}

\* Guests whose waiters are not killed and do not exit while they wait: a wake-up
\* given to a task that dies is gone.
WaitersSurvive == ~Waits \/ ("kill" \notin load.handlers /\ "exit" \notin load.ops)

WakesCount == WaitersSurvive /\ (HandlersApart \/ "lock" \notin load.ops)

\* A wake is neither lost, doubled nor spent on a task that does not wait, for
\* waiters that survive and handlers that leave restarted lock calls alone; on the
\* serial scheduler, for a flag set on a stand-in is not folded in.
NoWakeLost == WakesCount => WakesDelivered /\ WakeFindsWaiter

\* "a changed word ends the wait even if the wake itself was lost" (futex.rs):
\* a wait that was not requeued blocks only while its word holds its value.
\* Of guests whose handlers do not wait on other words while a restarted wait is
\* pending: such a wait would be taken for a requeued one.
ChangedWordEndsWait ==
    [][\A t \in Tids :
         (/\ out[t] # NotOut /\ out'[t] # NotOut /\ ~out[t].blocked /\ out'[t].blocked
          /\ out'[t].call.op = "wait" /\ out'[t].saved = NoCall)
           => word[out'[t].call.key] = out'[t].call.val \/ t \in moved]_vars

\* Whoever a locking call or a compare-and-swap told that it holds a lock is the
\* owner in the word until it unlocks or dies, so no two live tasks hold it; and
\* a live owner in the word holds the lock or is about to find that it does, so
\* no lock is handed to a task that is not waiting for it.
OwnerIsHolder ==
    /\ \A h \in holds : table[h[1]].dead \/ (out[h[1]] # NotOut /\ out[h[1]].dead)
                        \/ word[h[2]].owner = h[1]
    /\ \A k \in PiKeys :
          LET o == word[k].owner
          IN  o # 0 /\ ~table[o].dead /\ out[o] = NotOut
                => <<o, k>> \in holds \/ (table[o].woken /\ table[o].wait = k)

\* A lock with a waiter parked on it is marked, so that its owner's fast unlock
\* cannot leave the waiter behind.
WaitersMarked ==
    \A t \in Tids : (out[t] = NotOut /\ ~table[t].dead /\ table[t].pi /\ ~table[t].woken)
        => word[table[t].wait].waiters

\* "held by us -> EDEADLK" (futex_lock_pi): only the holder is told so.
DeadlockErrorIsReal == spurious = {}

\* The word of a lock, its holder and its waiters agree, and so do the errors; under
\* the conditions of NoWakeLost on handlers and scheduler.
PiLocksSound == HandlersApart => OwnerIsHolder /\ WaitersMarked /\ DeadlockErrorIsReal
------------------------------------------------------------------------------
(* Workloads for model checking.                                           *)

Load(n, ops, handlers, budget) ==
    [tids |-> 1..n, ops |-> ops, handlers |-> handlers, budget |-> budget]

\* Three tasks that wait, wake and requeue; two whose waits are interrupted; two of
\* which one may be killed in its wait; three
\* competing for a lock with timeouts and signals; three that die holding it; and
\* two that use plain words and a lock.
SmallLoads ==
    {Load(3, {"wait", "timed", "wake", "requeue"}, {}, 2),
     Load(2, {"wait", "timed", "wake"}, {"restart", "eintr"}, 2),
     Load(2, {"wait", "timed", "wake"}, {"kill"}, 2),
     Load(3, {"lock", "timedlock"}, {"restart", "eintr"}, 2),
     Load(3, {"lock", "exit"}, {"kill"}, 2),
     Load(2, {"wait", "wake", "lock"}, {"eintr"}, 2)}
=============================================================================
