------------------------------ MODULE FutexProofs ------------------------------
(***************************************************************************)
(* Futexes, for any number of tasks and words: on the serial scheduler the *)
(* word of a priority-inheritance lock names the task that holds it and no *)
(* wake is lost, and on either scheduler a wait whose word moved on does   *)
(* not block.                                                              *)
(***************************************************************************)
EXTENDS FutexTasks, FiniteSetTheorems, WellFoundedInduction, TLAPS

WaitCall == [op : {"wait"}, key : Keys, val : 0..MaxVal, timed : BOOLEAN]
LockCall == [op : {"lock"}, key : PiKeys, timed : BOOLEAN]
Call == WaitCall \cup LockCall

Rec == [wait : Keys \cup PiKeys \cup {NoKey}, woken : BOOLEAN, pi : BOOLEAN, parked : BOOLEAN,
        dead : BOOLEAN, deadline : {"none", "armed", "due"}, call : Call \cup {NoCall},
        blocked : BOOLEAN, sig : {"none"} \cup load.handlers, handler : BOOLEAN,
        saved : Call \cup {NoCall}]

Lock == [owner : Tids \cup {0}, waiters : BOOLEAN, died : BOOLEAN]

\* A record is not the absence of one, and a call not the absence of one.
LEMMA RecIsRec == \A r \in Rec : r # NotOut
<1> SUFFICES ASSUME NEW r \in Rec PROVE r.call.op # NotOut.call.op
  OBVIOUS
<1>1. r.call \in Call \cup {NoCall}
  BY DEF Rec
<1>2. \A c \in Call \cup {NoCall} : c.op \in {"wait", "lock", "none"}
  BY DEF Call, WaitCall, LockCall, NoCall
<1>3. r.call.op \in {"wait", "lock", "none"}
  BY <1>1, <1>2
<1> QED BY <1>3, Zenon DEF NotOut

LEMMA CallIsCall ==
    /\ \A c \in WaitCall : c # NoCall /\ c.op = "wait" /\ c.key \in Keys /\ c \notin LockCall
    /\ \A c \in LockCall : c # NoCall /\ c.op = "lock" /\ c.key \in PiKeys /\ c \notin WaitCall
<1>1. \A c \in WaitCall : c.op = "wait" /\ c.key \in Keys
  BY DEF WaitCall
<1>2. \A c \in LockCall : c.op = "lock" /\ c.key \in PiKeys
  BY DEF LockCall
<1>3. NoCall.op = "none"
  BY DEF NoCall
<1> QED BY <1>1, <1>2, <1>3

LEMMA ReadyIsRec == Ready \in Rec
BY DEF Ready, Rec, NoKey, NoCall

\* futex_done
LEMMA DoneRec ==
    ASSUME NEW me \in Rec
    PROVE  LET d == FutexDone(me)
           IN  /\ d \in Rec /\ d.wait = NoKey /\ d.woken = FALSE /\ d.pi = FALSE /\ d.dead = me.dead
               /\ d.call = me.call /\ d.saved = me.saved /\ d.handler = me.handler /\ d.sig = me.sig
BY Zenon DEF FutexDone, Rec

\* What a call leaves of its task's record, as far as locks can tell.
Kept(a, me) == a.wait = me.wait /\ a.woken = me.woken /\ a.pi = me.pi
Dropped(a) == a.wait = NoKey /\ a.woken = FALSE /\ a.pi = FALSE

\* The record after a call: the task is dead, or the call returned, and a handler
\* may have started, or it blocks, or a handler started that abandons or restarts it.
ServiceEffect(a, me, c, ret) ==
    \/ a.dead
    \/ /\ ret # "block" /\ Kept(a, me) /\ a.call = NoCall
       /\ \/ a.saved = me.saved /\ a.handler = me.handler
          \/ a.saved = NoCall /\ a.handler /\ ~me.handler
    \/ /\ ret = "block" /\ Kept(a, me) /\ a.call = c
       /\ a.saved = me.saved /\ a.handler = me.handler
    \/ ret = "block" /\ Dropped(a) /\ a.call = NoCall /\ a.saved = NoCall /\ a.handler /\ ~me.handler
    \/ /\ ret = "block" /\ Kept(a, me) /\ a.call = NoCall /\ a.saved = c /\ a.handler
       /\ ~me.handler /\ me.sig = "restart"

LEMMA ServiceRec ==
    ASSUME NEW me \in Rec, NEW c, NEW ret, ret = "block" => c \in Call
    PROVE  LET a == AfterCall(me, c, ret)
           IN  a \in Rec /\ ServiceEffect(a, me, c, ret) /\ (me.dead => a.dead)
<1> DEFINE delivers == me.sig # "none" /\ ~me.handler
           restarts == ret = "block" /\ delivers /\ me.sig = "restart"
           blocks == ret = "block" /\ ~delivers
           cut == ret = "block" /\ delivers /\ ~restarts
           back == IF restarts THEN c ELSE NoCall
           m == IF cut THEN FutexDone(me) ELSE me
           a == AfterCall(me, c, ret)
           k == [me EXCEPT !.call = NoCall, !.dead = TRUE]
           b == [m EXCEPT !.call = c, !.blocked = TRUE]
           h == [m EXCEPT !.call = NoCall, !.deadline = "none", !.sig = "none",
                          !.handler = TRUE, !.saved = back]
           e == [m EXCEPT !.call = NoCall, !.deadline = "none"]
<1>1. a = IF me.sig = "kill" THEN k ELSE IF blocks THEN b ELSE IF delivers THEN h ELSE e
  BY DEF AfterCall
<1>2. /\ m \in Rec /\ m.dead = me.dead /\ m.saved = me.saved /\ m.handler = me.handler
      /\ cut => Dropped(m)
      /\ ~cut => m = me
  BY DoneRec, Zenon DEF Dropped
<1> HIDE DEF m
<1>3. CASE me.sig = "kill"
  <2>1. a = k
    BY <1>1, <1>3
  <2>2. k \in Rec /\ k.dead
    BY Zenon DEF Rec
  <2> QED BY <2>1, <2>2 DEF ServiceEffect
<1>4. CASE me.sig # "kill" /\ blocks
  <2>1. a = b /\ ~cut
    BY <1>1, <1>4
  <2>2. b \in Rec /\ Kept(b, m) /\ b.call = c /\ b.saved = m.saved /\ b.handler = m.handler /\ b.dead = m.dead
    BY <1>2, <1>4, Zenon DEF Rec, Kept
  <2> HIDE DEF b
  <2> QED BY <1>2, <1>4, <2>1, <2>2 DEF ServiceEffect
<1>5. CASE me.sig # "kill" /\ ~blocks /\ delivers
  <2>1. a = h /\ back \in Call \cup {NoCall}
    BY <1>1, <1>5
  <2> HIDE DEF back
  <2>2. h \in Rec /\ Kept(h, m) /\ h.call = NoCall /\ h.handler /\ h.dead = m.dead
    BY <1>2, <2>1, ZenonT(60) DEF Rec, Kept
  <2>3. h.saved = back
    BY <1>2, <2>1 DEF Rec
  <2> HIDE DEF h
  <2>4. CASE ret # "block"
    BY <1>2, <1>5, <2>1, <2>2, <2>3, <2>4, Zenon DEF ServiceEffect, back
  <2>5. CASE cut
    BY <1>2, <1>5, <2>1, <2>2, <2>3, <2>5, Zenon DEF ServiceEffect, back, Kept, Dropped
  <2>6. CASE restarts
    BY <1>2, <1>5, <2>1, <2>2, <2>3, <2>6, Zenon DEF ServiceEffect, back
  <2> QED BY <1>5, <2>4, <2>5, <2>6
<1>6. CASE me.sig # "kill" /\ ~blocks /\ ~delivers
  <2>1. a = e /\ ret # "block"
    BY <1>1, <1>6
  <2>2. e \in Rec /\ Kept(e, m) /\ e.call = NoCall /\ e.saved = m.saved /\ e.handler = m.handler /\ e.dead = m.dead
    BY <1>2, Zenon DEF Rec, Kept
  <2> HIDE DEF e
  <2> QED BY <1>2, <1>6, <2>1, <2>2 DEF ServiceEffect
<1> QED BY <1>3, <1>4, <1>5, <1>6

-------------------------------------------------------------------------------
(* The invariant.                                                          *)

IdleMode(r) == r.call = NoCall /\ r.saved = NoCall /\ Dropped(r)

\* In a plain wait, possibly requeued.
PlainMode(r) == r.call \in WaitCall /\ r.saved = NoCall /\ ~r.pi /\ r.wait \in Keys /\ Waits

\* Waiting for a lock, or in a handler that will go back to that.
LockMode(r) ==
    /\ r.pi /\ r.wait \in PiKeys
    /\ \/ r.call \in LockCall /\ r.call.key = r.wait /\ r.saved = NoCall /\ ~r.handler
       \/ /\ r.call = NoCall /\ r.saved \in LockCall /\ r.saved.key = r.wait /\ r.handler
          /\ "restart" \in load.handlers

Mode(r) ==
    /\ IdleMode(r) \/ PlainMode(r) \/ LockMode(r)
    /\ ~r.handler => r.saved = NoCall

\* One task is out at a time, and its slot in the table is an empty one.
SerialInv ==
    /\ load \in Workloads
    /\ table \in [Tids -> Rec] /\ out \in [Tids -> Rec \cup {NotOut}]
    /\ \A t, u \in Tids : out[t] # NotOut /\ out[u] # NotOut => t = u
    /\ \A t \in Tids : out[t] # NotOut => ~table[t].dead
    /\ DOMAIN word = Keys \cup PiKeys /\ \A k \in PiKeys : word[k] \in Lock
    /\ holds \subseteq Tids \X PiKeys

ModesInv == \A t \in Tids : ~Record(t).dead => Mode(Record(t))

\* A live task that found out it holds a lock is its owner.
HoldersOwn == \A t \in Tids, k \in PiKeys : <<t, k>> \in holds /\ ~Record(t).dead => word[k].owner = t

\* A task the lock was handed to is its owner.
HandedOwn ==
    \A t \in Tids : Record(t).pi /\ Record(t).woken /\ ~Record(t).dead => word[Record(t).wait].owner = t

\* A live owner holds the lock or is about to find out.
OwnersHold ==
    \A t \in Tids, k \in PiKeys : word[k].owner = t /\ ~Record(t).dead =>
        <<t, k>> \in holds \/ (Record(t).pi /\ Record(t).woken /\ Record(t).wait = k)

\* A waiter's lock is marked.
WaitersShow ==
    \A t \in Tids : Record(t).pi /\ ~Record(t).woken /\ ~Record(t).dead => word[Record(t).wait].waiters

LocksInv == HoldersOwn /\ HandedOwn /\ OwnersHold /\ WaitersShow /\ spurious = {}

LockInv == SerialInv /\ (HandlersApart => ModesInv /\ LocksInv)

LEMMA InvImpliesSound == LockInv => PiLocksSound
<1> SUFFICES ASSUME LockInv, HandlersApart
             PROVE  OwnerIsHolder /\ WaitersMarked /\ DeadlockErrorIsReal
  BY DEF PiLocksSound
<1>1. SerialInv /\ LocksInv
  BY DEF LockInv
<1>2. \A t \in Tids : out[t] = NotOut => Record(t) = table[t]
  BY DEF Record
<1>3. \A t \in Tids : Record(t).dead => table[t].dead \/ (out[t] # NotOut /\ out[t].dead)
  BY DEF Record
<1>4. ASSUME NEW h \in holds
      PROVE  table[h[1]].dead \/ (out[h[1]] # NotOut /\ out[h[1]].dead) \/ word[h[2]].owner = h[1]
  <2>1. PICK t \in Tids, k \in PiKeys : h = <<t, k>>
    BY <1>1, <1>4 DEF SerialInv
  <2> QED BY <1>1, <1>3, <2>1 DEF LocksInv, HoldersOwn
<1>5. ASSUME NEW k \in PiKeys
      PROVE  LET o == word[k].owner
             IN  o # 0 /\ ~table[o].dead /\ out[o] = NotOut
                   => <<o, k>> \in holds \/ (table[o].woken /\ table[o].wait = k)
  <2> DEFINE o == word[k].owner
  <2>1. o \in Tids \cup {0}
    BY <1>1, <1>5 DEF SerialInv, Lock
  <2> HIDE DEF o
  <2>2. SUFFICES ASSUME o \in Tids, ~table[o].dead, out[o] = NotOut
                 PROVE  <<o, k>> \in holds \/ (table[o].woken /\ table[o].wait = k)
    BY <2>1 DEF o
  <2>3. Record(o) = table[o]
    BY <1>2, <2>2
  <2> QED BY <1>1, <2>2, <2>3 DEF LocksInv, OwnersHold, o
<1>6. OwnerIsHolder
  BY <1>4, <1>5 DEF OwnerIsHolder
<1>7. WaitersMarked
  BY <1>1, <1>2 DEF WaitersMarked, LocksInv, WaitersShow
<1> QED BY <1>1, <1>6, <1>7 DEF LocksInv, DeadlockErrorIsReal

LEMMA LockInit == Init => LockInv
<1> SUFFICES ASSUME Init PROVE LockInv
  OBVIOUS
<1> DEFINE R(t) == [Ready EXCEPT !.dead = t \notin load.tids]
<1>1. \A t \in Tids : /\ table[t] = R(t) /\ out[t] = NotOut
  BY DEF Init
<1>2. \A t \in Tids : R(t) \in Rec /\ IdleMode(R(t)) /\ ~R(t).pi
  <2> TAKE t \in Tids
  <2> DEFINE d == t \notin load.tids
  <2>1. d \in BOOLEAN
    OBVIOUS
  <2> HIDE DEF d
  <2>2. LET r == [Ready EXCEPT !.dead = d] IN r \in Rec /\ IdleMode(r) /\ ~r.pi
    BY <2>1, ReadyIsRec, Zenon DEF Ready, Rec, IdleMode, Dropped
  <2> QED BY <2>2 DEF d
<1>3. \A t \in Tids : Record(t) = R(t)
  BY <1>1 DEF Record
<1>4. /\ table \in [Tids -> Rec] /\ out \in [Tids -> Rec \cup {NotOut}]
  BY <1>1, <1>2 DEF Init
<1>5. DOMAIN word = Keys \cup PiKeys /\ \A k \in PiKeys : word[k] = Unlocked
  BY FutexAssumption, Zenon DEF Init
<1>6. Unlocked \in Lock /\ Unlocked.owner = 0
  BY DEF Unlocked, Lock
<1>7. SerialInv
  BY <1>1, <1>4, <1>5, <1>6 DEF SerialInv, Init
<1>8. ModesInv
  BY <1>2, <1>3, Zenon DEF ModesInv, Mode, IdleMode
<1>9. LocksInv
  <2>1. HoldersOwn /\ spurious = {}
    BY DEF HoldersOwn, Init
  <2>2. HandedOwn /\ WaitersShow
    BY <1>2, <1>3, Zenon DEF HandedOwn, WaitersShow
  <2>3. OwnersHold
    BY <1>5, <1>6, FutexAssumption, Zenon DEF OwnersHold
  <2> QED BY <2>1, <2>2, <2>3 DEF LocksInv
<1> QED BY <1>7, <1>8, <1>9 DEF LockInv

-------------------------------------------------------------------------------
(* Records.                                                                *)

LEMMA Records ==
    ASSUME SerialInv, NEW t \in Tids
    PROVE  Record(t) \in Rec
BY DEF SerialInv, Record

\* While t is out every other task is in the table.
LEMMA OthersIn ==
    ASSUME SerialInv, NEW t \in Tids, out[t] # NotOut
    PROVE  /\ Record(t) = out[t] /\ out[t] \in Rec
           /\ \A u \in Tids \ {t} : out[u] = NotOut /\ Record(u) = table[u]
           /\ ~Smp => Seen = Tids \ {t}
<1>1. out[t] \in Rec
  BY DEF SerialInv
<1>2. \A u \in Tids \ {t} : out[u] = NotOut
  BY DEF SerialInv
<1>3. ~Smp => Seen = Tids \ {t}
  BY <1>2 DEF Seen
<1> QED BY <1>1, <1>2, <1>3 DEF Record

\* The record of t changes while it is out, the others in the table.
LEMMA Serves ==
    ASSUME SerialInv, NEW t \in Tids, out[t] # NotOut, NEW a \in Rec, out' = [out EXCEPT ![t] = a],
           table' \in [Tids -> Rec], table'[t].dead = table[t].dead, load' = load
    PROVE  /\ Record(t)' = a /\ \A u \in Tids \ {t} : Record(u)' = table'[u]
           /\ out' \in [Tids -> Rec \cup {NotOut}]
           /\ \A v, u \in Tids : out'[v] # NotOut /\ out'[u] # NotOut => v = u
           /\ \A u \in Tids : out'[u] # NotOut => ~table'[u].dead
<1>1. out \in [Tids -> Rec \cup {NotOut}] /\ a # NotOut
  BY RecIsRec DEF SerialInv
<1>2. out'[t] = a /\ \A u \in Tids \ {t} : out'[u] = out[u] /\ out[u] = NotOut
  BY <1>1, OthersIn
<1>3. out' \in [Tids -> Rec \cup {NotOut}]
  BY <1>1
<1>4. ~table'[t].dead
  BY DEF SerialInv
<1> QED BY <1>1, <1>2, <1>3, <1>4 DEF Record

\* The parts of SerialInv that do not concern records.
LEMMA SerialStill ==
    ASSUME SerialInv, load' = load, table' \in [Tids -> Rec], out' \in [Tids -> Rec \cup {NotOut}],
           \A v, u \in Tids : out'[v] # NotOut /\ out'[u] # NotOut => v = u,
           \A u \in Tids : out'[u] # NotOut => ~table'[u].dead,
           DOMAIN word' = DOMAIN word, \A k \in PiKeys : word'[k] \in Lock,
           holds' \subseteq Tids \X PiKeys
    PROVE  SerialInv'
<1>1. Rec' = Rec
  BY DEF Rec
<1> QED BY <1>1 DEF SerialInv

CoreSame(a, r) ==
    /\ Kept(a, r) /\ a.dead = r.dead
    /\ a.call = r.call /\ a.saved = r.saved /\ a.handler = r.handler

PiSame(u) ==
    \/ Record(u)'.dead
    \/ /\ ~Record(u).dead /\ (Record(u)'.pi <=> Record(u).pi)
       /\ Record(u).pi => Record(u)'.wait = Record(u).wait /\ (Record(u)'.woken <=> Record(u).woken)

\* A lock's waiters wait for locks.
LEMMA PiWaits ==
    ASSUME ModesInv, NEW t \in Tids, ~Record(t).dead, Record(t).pi
    PROVE  Record(t).wait \in PiKeys
BY DEF ModesInv, Mode, IdleMode, PlainMode, LockMode, Dropped

LEMMA LocksUntouched ==
    ASSUME LocksInv, ModesInv, \A u \in Tids : PiSame(u), \A k \in PiKeys : word'[k] = word[k],
           holds' = holds, spurious' = spurious
    PROVE  LocksInv'
<1>1. HoldersOwn'
  BY DEF HoldersOwn, LocksInv, PiSame
<1>2. HandedOwn'
  BY PiWaits DEF HandedOwn, LocksInv, PiSame
<1>3. OwnersHold'
  BY DEF OwnersHold, LocksInv, PiSame
<1>4. WaitersShow'
  BY PiWaits DEF WaitersShow, LocksInv, PiSame
<1> QED BY <1>1, <1>2, <1>3, <1>4 DEF LocksInv

LEMMA SameModes ==
    ASSUME load' = load
    PROVE  /\ HandlersApart' <=> HandlersApart
           /\ \A r : Mode(r)' <=> Mode(r)
BY DEF HandlersApart, Mode, IdleMode, PlainMode, LockMode, Waits, Dropped

LEMMA CoreStep ==
    ASSUME LockInv, SerialInv', load' = load, \A u \in Tids : CoreSame(Record(u)', Record(u)),
           \A k \in PiKeys : word'[k] = word[k], holds' = holds, spurious' = spurious
    PROVE  LockInv'
<1>1. SUFFICES ASSUME HandlersApart PROVE ModesInv' /\ LocksInv'
  BY SameModes DEF LockInv
<1>2. ModesInv /\ LocksInv
  BY <1>1, Zenon DEF LockInv
<1>3. ASSUME NEW u \in Tids PROVE Record(u)'.dead \/ (~Record(u).dead /\ Mode(Record(u)'))
  BY <1>2 DEF ModesInv, CoreSame, Kept, Mode, IdleMode, PlainMode, LockMode, Dropped
<1>4. ModesInv'
  BY <1>3, SameModes DEF ModesInv
<1>5. \A u \in Tids : PiSame(u)
  BY DEF PiSame, CoreSame, Kept
<1> QED BY <1>2, <1>4, <1>5, LocksUntouched

-------------------------------------------------------------------------------
(* The scheduler, the clock and signals: nothing a lock could tell.        *)

LEMMA BeginStep ==
    ASSUME ~Smp, LockInv, NEW t \in Tids, Begin(t)
    PROVE  LockInv'
<1>1. SerialInv
  BY DEF LockInv
<1>2. /\ out' = [out EXCEPT ![t] = table[t]] /\ table' = [table EXCEPT ![t] = Ready]
      /\ word' = word /\ load' = load /\ holds' = holds /\ spurious' = spurious
  BY DEF Begin, CheckOut, locks
<1>3. ~table[t].dead /\ \A u \in Tids : out[u] = NotOut
  BY DEF Begin, CheckOut, CanCheckOut
<1>4. table \in [Tids -> Rec] /\ out \in [Tids -> Rec \cup {NotOut}] /\ table[t] # NotOut
  BY <1>1, RecIsRec DEF SerialInv
<1>5. table' \in [Tids -> Rec] /\ out' \in [Tids -> Rec \cup {NotOut}]
  BY <1>2, <1>4, ReadyIsRec
<1>6. /\ out'[t] = table[t] /\ table'[t] = Ready
      /\ \A u \in Tids \ {t} : out'[u] = NotOut /\ table'[u] = table[u]
  BY <1>2, <1>3, <1>4
<1>7. \A u \in Tids : Record(u)' = Record(u)
  BY <1>3, <1>4, <1>6 DEF Record
<1>8. ~Ready.dead
  BY DEF Ready
<1>9. SerialInv'
  BY <1>1, <1>2, <1>5, <1>6, <1>8, SerialStill, Zenon DEF SerialInv
<1> QED BY <1>2, <1>7, <1>9, CoreStep DEF CoreSame, Kept

\* A step in which the records in the table change in what locks do not see.
LEMMA TableStep ==
    ASSUME LockInv, load' = load, out' = out, holds' = holds, spurious' = spurious,
           DOMAIN word' = DOMAIN word, \A k \in PiKeys : word'[k] = word[k],
           table' \in [Tids -> Rec], \A u \in Tids : CoreSame(table'[u], table[u])
    PROVE  LockInv'
<1>1. SerialInv
  BY DEF LockInv
<1>2. \A u \in Tids : CoreSame(Record(u)', Record(u))
  BY DEF Record, CoreSame, Kept
<1>3. \A u \in Tids : out'[u] # NotOut => ~table'[u].dead
  BY <1>1 DEF SerialInv, CoreSame
<1>4. SerialInv'
  BY <1>1, <1>3, SerialStill DEF SerialInv
<1> QED BY <1>2, <1>4, CoreStep, Zenon

LEMMA EndStep ==
    ASSUME ~Smp, LockInv, NEW t \in Tids, End(t)
    PROVE  LockInv'
<1> DEFINE a == [out[t] EXCEPT !.parked = ~Smp /\ out[t].blocked, !.blocked = FALSE]
<1>1. SerialInv
  BY DEF LockInv
<1>2. /\ out' = [out EXCEPT ![t] = NotOut] /\ table' = [table EXCEPT ![t] = a] /\ out[t] # NotOut
      /\ word' = word /\ load' = load /\ holds' = holds /\ spurious' = spurious
  BY DEF End, CheckIn, locks
<1>3. table \in [Tids -> Rec] /\ out \in [Tids -> Rec \cup {NotOut}]
  BY <1>1 DEF SerialInv
<1>4. out[t] \in Rec /\ Record(t) = out[t]
  BY <1>1, <1>2, OthersIn
<1>5. \A u \in Tids \ {t} : out[u] = NotOut
  BY <1>1, <1>2, OthersIn
<1>6. ASSUME NEW r \in Rec, NEW b, b \in BOOLEAN
      PROVE  LET x == [r EXCEPT !.parked = b, !.blocked = FALSE] IN x \in Rec /\ CoreSame(x, r)
  <2> DEFINE x == [r EXCEPT !.parked = b, !.blocked = FALSE]
  <2>1. x \in Rec
    BY <1>6, Zenon DEF Rec
  <2>2. CoreSame(x, r)
    BY DEF Rec, CoreSame, Kept
  <2> QED BY <2>1, <2>2
<1>7. a \in Rec /\ CoreSame(a, out[t])
  <2> DEFINE b == ~Smp /\ out[t].blocked
  <2>1. b \in BOOLEAN
    OBVIOUS
  <2> HIDE DEF b
  <2>2. LET x == [out[t] EXCEPT !.parked = b, !.blocked = FALSE] IN x \in Rec /\ CoreSame(x, out[t])
    BY <1>4, <1>6, <2>1, Zenon
  <2> QED BY <2>2 DEF b
<1> HIDE DEF a
<1>8. /\ out'[t] = NotOut /\ table'[t] = a
      /\ \A u \in Tids \ {t} : out'[u] = NotOut /\ table'[u] = table[u]
  BY <1>2, <1>3, <1>5
<1>9. table' \in [Tids -> Rec] /\ out' \in [Tids -> Rec \cup {NotOut}]
  BY <1>2, <1>3, <1>7, Zenon
<1>10. \A u \in Tids : CoreSame(Record(u)', Record(u))
  BY <1>4, <1>5, <1>7, <1>8, Zenon DEF Record, CoreSame, Kept
<1>11. SerialInv'
  BY <1>1, <1>2, <1>8, <1>9, SerialStill, Zenon DEF SerialInv
<1> QED BY <1>2, <1>10, <1>11, CoreStep

Quiet == (\E t \in Tids : Clock(t) \/ Store(t) \/ Post(t)) \/ Retry \/ AllDead \/ UNCHANGED vars

LEMMA QuietTable ==
    ASSUME table \in [Tids -> Rec], DOMAIN word = Keys \cup PiKeys, Quiet
    PROVE  /\ load' = load /\ out' = out /\ holds' = holds /\ spurious' = spurious
           /\ moved' = moved /\ reported' = reported /\ consumed' = consumed
           /\ DOMAIN word' = DOMAIN word /\ \A k \in PiKeys : word'[k] = word[k]
           /\ table' \in [Tids -> Rec] /\ \A u \in Tids : CoreSame(table'[u], table[u])
           /\ \A u \in Tids : (table'[u].parked => table[u].parked) /\ table'[u].blocked = table[u].blocked
<1>1. /\ load' = load /\ out' = out /\ holds' = holds /\ spurious' = spurious
      /\ moved' = moved /\ reported' = reported /\ consumed' = consumed
  BY Zenon DEF Quiet, Clock, Tick, Store, Post, Retry, Stall, AllDead, vars, locks, plain
<1>2. DOMAIN word' = DOMAIN word /\ \A k \in PiKeys : word'[k] = word[k]
  BY FutexAssumption, Zenon DEF Quiet, Clock, Tick, Store, Post, Retry, Stall, AllDead, vars
<1> DEFINE Like(a, r) == a \in Rec /\ CoreSame(a, r) /\ (a.parked => r.parked) /\ a.blocked = r.blocked
           Same == table' \in [Tids -> Rec] /\ \A u \in Tids : Like(table'[u], table[u])
<1>3. ASSUME NEW t \in Tids, NEW a, Like(a, table[t]), table' = [table EXCEPT ![t] = a] PROVE Same
  BY <1>3 DEF CoreSame, Kept
<1>4. ASSUME NEW t \in Tids, Clock(t) PROVE Same
  <2> DEFINE a == [table[t] EXCEPT !.deadline = "due", !.parked = FALSE]
  <2>1. table' = [table EXCEPT ![t] = a]
    BY <1>4, Zenon DEF Clock, Tick
  <2>2. a \in Rec
    BY ZenonT(60) DEF Rec
  <2>3. CoreSame(a, table[t]) /\ a.parked = FALSE /\ a.blocked = table[t].blocked
    BY DEF Rec, CoreSame, Kept
  <2> HIDE DEF a
  <2> QED BY <1>3, <2>1, <2>2, <2>3, Zenon
<1>5. ASSUME NEW t \in Tids, Post(t) PROVE Same
  <2>1. PICK h \in load.handlers :
          table' = [table EXCEPT ![t] = [table[t] EXCEPT !.sig = h, !.parked = FALSE]]
    BY <1>5, Zenon DEF Post
  <2> DEFINE a == [table[t] EXCEPT !.sig = h, !.parked = FALSE]
  <2>2. a \in Rec
    <3>1. \A r \in Rec : [r EXCEPT !.sig = h, !.parked = FALSE] \in Rec
      BY ZenonT(60) DEF Rec
    <3> QED BY <3>1, Zenon
  <2>3. CoreSame(a, table[t]) /\ a.parked = FALSE /\ a.blocked = table[t].blocked
    BY DEF Rec, CoreSame, Kept
  <2> HIDE DEF a
  <2>4. table' = [table EXCEPT ![t] = a]
    BY <2>1 DEF a
  <2> QED BY <1>3, <2>2, <2>3, <2>4, Zenon
<1>6. ASSUME Retry PROVE Same
  <2> DEFINE b(r) == [r EXCEPT !.parked = FALSE]
  <2>1. \A r \in Rec : b(r) \in Rec /\ CoreSame(b(r), r) /\ b(r).parked = FALSE /\ b(r).blocked = r.blocked
    BY ZenonT(60) DEF Rec, CoreSame, Kept
  <2>2. table' = [t \in Tids |-> b(table[t])]
    BY <1>6 DEF Retry, Stall
  <2> HIDE DEF b
  <2> QED BY <2>1, <2>2
<1>7. ASSUME (\E t \in Tids : Store(t)) \/ AllDead \/ UNCHANGED vars PROVE Same
  <2>1. table' = table
    BY <1>7 DEF Store, AllDead, vars
  <2> QED BY <2>1 DEF CoreSame, Kept
<1>8. Same
  BY <1>4, <1>5, <1>6, <1>7, Zenon DEF Quiet
<1> QED BY <1>1, <1>2, <1>8

LEMMA QuietSteps ==
    ASSUME LockInv, Quiet
    PROVE  LockInv'
<1>1. table \in [Tids -> Rec] /\ DOMAIN word = Keys \cup PiKeys
  BY DEF LockInv, SerialInv
<1>2. /\ load' = load /\ out' = out /\ holds' = holds /\ spurious' = spurious
      /\ DOMAIN word' = DOMAIN word /\ \A k \in PiKeys : word'[k] = word[k]
  BY <1>1, QuietTable
<1>3. table' \in [Tids -> Rec] /\ \A u \in Tids : CoreSame(table'[u], table[u])
  BY <1>1, QuietTable
<1> QED BY <1>2, <1>3, TableStep

-------------------------------------------------------------------------------
(* Calls that do not touch a lock.                                         *)

\* What a step leaves of a record, as far as the locks can tell.
PiKept(a, r) ==
    \/ a.dead
    \/ /\ ~r.dead /\ Mode(a) /\ (a.pi <=> r.pi)
       /\ r.pi => a.wait = r.wait /\ (a.woken <=> r.woken)

LEMMA ServeStep ==
    ASSUME LockInv, NEW t \in Tids, out[t] # NotOut, NEW a \in Rec, out' = [out EXCEPT ![t] = a],
           table' \in [Tids -> Rec], \A u \in Tids : table'[u].dead = table[u].dead,
           load' = load, word' = word, holds' = holds, spurious' = spurious,
           HandlersApart => PiKept(a, out[t]),
           HandlersApart => \A u \in Tids \ {t} : PiKept(table'[u], table[u])
    PROVE  LockInv'
<1>1. SerialInv
  BY DEF LockInv
<1>2. Record(t)' = a /\ \A u \in Tids \ {t} : Record(u)' = table'[u]
  BY <1>1, Serves, Zenon
<1>3. SerialInv'
  <2>1. /\ out' \in [Tids -> Rec \cup {NotOut}]
        /\ \A v, u \in Tids : out'[v] # NotOut /\ out'[u] # NotOut => v = u
        /\ \A u \in Tids : out'[u] # NotOut => ~table'[u].dead
    BY <1>1, Serves, Zenon
  <2> QED BY <1>1, <2>1, SerialStill DEF SerialInv
<1>4. Record(t) = out[t] /\ \A u \in Tids \ {t} : Record(u) = table[u]
  BY <1>1, OthersIn
<1>5. SUFFICES ASSUME HandlersApart PROVE ModesInv' /\ LocksInv'
  BY <1>3, SameModes DEF LockInv
<1>6. ModesInv /\ LocksInv
  BY <1>5 DEF LockInv
<1>7. \A u \in Tids : PiKept(Record(u)', Record(u))
  BY <1>2, <1>4, <1>5, Zenon
<1>8. ModesInv'
  BY <1>7, SameModes, Zenon DEF ModesInv, PiKept
<1>9. \A u \in Tids : PiSame(u)
  BY <1>7 DEF PiSame, PiKept
<1> QED BY <1>6, <1>8, <1>9, LocksUntouched

\* A call that leaves its caller's record alone.
LEMMA CallerMode ==
    ASSUME NEW me \in Rec, me.call = NoCall, ~me.dead
    PROVE  LET a == AfterCall(me, NoCall, "ok")
           IN  /\ a \in Rec
               /\ Mode(me) => PiKept(a, me)
               /\ a.dead \/ Kept(a, me)
<1> DEFINE a == AfterCall(me, NoCall, "ok")
<1>1. a \in Rec /\ ServiceEffect(a, me, NoCall, "ok")
  BY ServiceRec
<1> HIDE DEF a
<1>2. \/ a.dead
      \/ /\ Kept(a, me) /\ a.call = NoCall
         /\ \/ a.saved = me.saved /\ a.handler = me.handler
            \/ a.saved = NoCall /\ a.handler /\ ~me.handler
  BY <1>1 DEF ServiceEffect
<1>3. ASSUME Mode(me) PROVE PiKept(a, me)
  <2>1. CASE a.dead
    BY <2>1 DEF PiKept
  <2>2. CASE Kept(a, me) /\ a.call = NoCall /\ a.saved = me.saved /\ a.handler = me.handler
    <3>1. Mode(a)
      BY <1>3, <2>2 DEF Mode, IdleMode, PlainMode, LockMode, Kept, Dropped
    <3> QED BY <2>2, <3>1 DEF PiKept, Kept
  <2>3. CASE Kept(a, me) /\ a.call = NoCall /\ a.saved = NoCall /\ a.handler /\ ~me.handler
    <3>1. IdleMode(me)
      BY <1>3, <2>3, CallIsCall, Zenon DEF Mode, IdleMode, PlainMode, LockMode
    <3>2. Mode(a)
      BY <2>3, <3>1 DEF Mode, IdleMode, Kept, Dropped
    <3> QED BY <2>3, <3>2 DEF PiKept, Kept
  <2> QED BY <1>2, <2>1, <2>2, <2>3
<1> QED BY <1>1, <1>2, <1>3 DEF a

\* The waiters a wake or a requeue touches wait on plain words.
LEMMA WaiterMode ==
    ASSUME NEW r \in Rec, NEW a \in Rec, r.wait \in Keys, a.wait \in Keys, a.pi = r.pi, a.dead = r.dead,
           a.call = r.call, a.saved = r.saved, a.handler = r.handler, ~r.dead => Mode(r)
    PROVE  PiKept(a, r)
<1>1. r.wait # NoKey /\ r.wait \notin PiKeys
  BY FutexAssumption, Zenon DEF NoKey
<1>2. SUFFICES ASSUME ~r.dead PROVE PiKept(a, r)
  BY DEF PiKept
<1>3. PlainMode(r)
  BY <1>1, <1>2 DEF Mode, IdleMode, LockMode, Dropped
<1>4. PlainMode(a) /\ (~a.handler => a.saved = NoCall)
  BY <1>3 DEF PlainMode
<1> QED BY <1>2, <1>3, <1>4 DEF PiKept, Mode, PlainMode

\* What wake_up makes of a table.
Woke(w, tb, S) ==
    /\ w \in [Tids -> Rec]
    /\ \A u \in Tids : u \notin S => w[u] = tb[u]
    /\ \A u \in S \cap Tids : w[u].woken
    /\ \A u \in Tids : w[u].dead = tb[u].dead /\ w[u].call = tb[u].call
                       /\ w[u].saved = tb[u].saved /\ w[u].handler = tb[u].handler
                       /\ w[u].wait = tb[u].wait /\ w[u].pi = tb[u].pi

LEMMA WakeUpRec ==
    ASSUME NEW tb \in [Tids -> Rec], NEW S
    PROVE  Woke(WakeUp(tb, S), tb, S)
<1> DEFINE w == WakeUp(tb, S)
           b(r) == [r EXCEPT !.woken = TRUE, !.parked = FALSE]
<1>1. \A r \in Rec : b(r) \in Rec
  BY Zenon DEF Rec
<1>2. \A r \in Rec : b(r).woken /\ b(r).wait = r.wait /\ b(r).pi = r.pi /\ b(r).dead = r.dead
                     /\ b(r).call = r.call /\ b(r).saved = r.saved /\ b(r).handler = r.handler
  BY DEF Rec
<1>3. w = [u \in Tids |-> IF u \in S THEN b(tb[u]) ELSE tb[u]]
  BY DEF WakeUp
<1> HIDE DEF b, w
<1>4. w \in [Tids -> Rec]
  BY <1>1, <1>3
<1>5. \A u \in Tids : w[u] = IF u \in S THEN b(tb[u]) ELSE tb[u]
  BY <1>3
<1>6. \A u \in Tids : u \notin S => w[u] = tb[u]
  BY <1>5
<1>7. \A u \in S \cap Tids : w[u].woken
  BY <1>2, <1>5
<1>8. \A u \in Tids : w[u].dead = tb[u].dead /\ w[u].call = tb[u].call
                      /\ w[u].saved = tb[u].saved /\ w[u].handler = tb[u].handler
                      /\ w[u].wait = tb[u].wait /\ w[u].pi = tb[u].pi
  BY <1>2, <1>5
<1> QED BY <1>4, <1>6, <1>7, <1>8, Zenon DEF w, Woke

\* The records of others while t makes a call.
LEMMA OtherModes ==
    ASSUME LockInv, HandlersApart, NEW t \in Tids, out[t] # NotOut
    PROVE  /\ ~out[t].dead => Mode(out[t])
           /\ \A u \in Tids \ {t} : ~table[u].dead => Mode(table[u])
BY OthersIn DEF LockInv, ModesInv

LEMMA WakeStep ==
    ASSUME LockInv, NEW t \in Tids, SysWake(t)
    PROVE  LockInv'
<1> DEFINE a == AfterCall(out[t], NoCall, "ok")
<1>1. SerialInv /\ table \in [Tids -> Rec]
  BY DEF LockInv, SerialInv
<1>2. /\ out[t] # NotOut /\ out[t].call = NoCall /\ ~out[t].dead
      /\ out' = [out EXCEPT ![t] = a] /\ load' = load /\ word' = word /\ holds' = holds /\ spurious' = spurious
  BY Zenon DEF SysWake, InGuest, locks
<1>3. PICK k \in Keys : table' = WakeUp(table, FirstN(Waiting(table, k), 1))
  BY DEF SysWake, FutexWakeKey
<1> DEFINE S == FirstN(Waiting(table, k), 1)
<1>4. \A u \in S : u \in Tids /\ table[u].wait = k
  BY DEF FirstN, Waiting, Seen
<1> HIDE DEF S, a
<1>5. table' = WakeUp(table, S)
  BY <1>3 DEF S
<1>6. table' \in [Tids -> Rec]
  <2>1. Woke(table', table, S)
    BY <1>1, <1>5, WakeUpRec, Zenon
  <2> QED BY <2>1, Zenon DEF Woke
<1>7. \A u \in Tids : u \notin S => table'[u] = table[u]
  <2>1. Woke(table', table, S)
    BY <1>1, <1>5, WakeUpRec, Zenon
  <2> QED BY <2>1, Zenon DEF Woke
<1>8. \A u \in Tids : /\ table'[u].dead = table[u].dead /\ table'[u].call = table[u].call
                      /\ table'[u].saved = table[u].saved /\ table'[u].handler = table[u].handler
                      /\ table'[u].wait = table[u].wait /\ table'[u].pi = table[u].pi
  <2>1. Woke(table', table, S)
    BY <1>1, <1>5, WakeUpRec, Zenon
  <2> QED BY <2>1, Zenon DEF Woke
<1>9. out[t] \in Rec
  BY <1>1, <1>2, OthersIn
<1>10. a \in Rec
  BY <1>2, <1>9, CallerMode, Zenon DEF a
<1>11. HandlersApart => PiKept(a, out[t])
  BY <1>2, <1>9, CallerMode, OtherModes, Zenon DEF a
<1>12. ASSUME HandlersApart, NEW u \in Tids \ {t} PROVE PiKept(table'[u], table[u])
  <2>1. ~table[u].dead => Mode(table[u])
    BY <1>2, <1>12, OtherModes
  <2>2. CASE u \in S
    BY <1>1, <1>4, <1>6, <1>8, <2>1, <2>2, WaiterMode
  <2>3. CASE u \notin S
    BY <1>7, <2>1, <2>3 DEF PiKept
  <2> QED BY <2>2, <2>3
<1> QED BY <1>2, <1>6, <1>8, <1>10, <1>11, <1>12, ServeStep, Zenon

LEMMA RequeueStep ==
    ASSUME LockInv, NEW t \in Tids, SysRequeue(t)
    PROVE  LockInv'
<1> DEFINE a == AfterCall(out[t], NoCall, "ok")
           waiters(f) == {u \in Seen : table[u].wait = f /\ ~table[u].woken}
           woke(f) == FirstN(waiters(f), 1)
           gone(f) == FirstN(waiters(f) \ woke(f), 1)
<1>1. SerialInv /\ table \in [Tids -> Rec]
  BY DEF LockInv, SerialInv
<1>2. /\ out[t] # NotOut /\ out[t].call = NoCall /\ ~out[t].dead
      /\ out' = [out EXCEPT ![t] = a] /\ load' = load /\ word' = word /\ holds' = holds /\ spurious' = spurious
  BY DEF SysRequeue, InGuest, locks
<1>3. PICK from, to \in Keys :
        table' = [u \in Tids |-> IF u \in gone(from) THEN [WakeUp(table, woke(from))[u] EXCEPT !.wait = to]
                                 ELSE WakeUp(table, woke(from))[u]]
  BY Zenon DEF SysRequeue, FutexRequeueKeys
<1> DEFINE S == woke(from)
           M == gone(from)
           w == WakeUp(table, S)
           b(r) == [r EXCEPT !.wait = to]
<1>4. \A u \in S \cup M : u \in Tids /\ table[u].wait = from
  BY DEF FirstN, Seen
<1>5. table' = [u \in Tids |-> IF u \in M THEN b(w[u]) ELSE w[u]]
  BY <1>3
<1>6. \A r \in Rec : /\ b(r) \in Rec /\ b(r).wait = to /\ b(r).pi = r.pi /\ b(r).dead = r.dead
                     /\ b(r).call = r.call /\ b(r).saved = r.saved /\ b(r).handler = r.handler
  BY DEF Rec
<1> HIDE DEF S, M, a, w, b
<1>7. w \in [Tids -> Rec]
  <2>1. Woke(w, table, S)
    BY <1>1, WakeUpRec, Zenon DEF w
  <2> QED BY <2>1, Zenon DEF Woke
<1>8. \A u \in Tids : u \notin S => w[u] = table[u]
  <2>1. Woke(w, table, S)
    BY <1>1, WakeUpRec, Zenon DEF w
  <2> QED BY <2>1, Zenon DEF Woke
<1>9. \A u \in Tids : /\ w[u].dead = table[u].dead /\ w[u].call = table[u].call
                      /\ w[u].saved = table[u].saved /\ w[u].handler = table[u].handler
                      /\ w[u].wait = table[u].wait /\ w[u].pi = table[u].pi
  <2>1. Woke(w, table, S)
    BY <1>1, WakeUpRec, Zenon DEF w
  <2> QED BY <2>1, Zenon DEF Woke
<1>10. table' \in [Tids -> Rec]
  BY <1>5, <1>6, <1>7, ZenonT(60)
<1>11. \A u \in Tids : /\ table'[u].dead = table[u].dead /\ table'[u].call = table[u].call
                       /\ table'[u].saved = table[u].saved /\ table'[u].handler = table[u].handler
                       /\ table'[u].pi = table[u].pi /\ table'[u].wait \in {table[u].wait, to}
  BY <1>5, <1>6, <1>7, <1>9
<1>12. \A u \in Tids : u \notin S \cup M => table'[u] = table[u]
  BY <1>5, <1>8
<1>13. out[t] \in Rec
  BY <1>1, <1>2, OthersIn, Zenon
<1>14. a \in Rec
  BY <1>2, <1>13, CallerMode, Zenon DEF a
<1>15. HandlersApart => PiKept(a, out[t])
  BY <1>2, <1>13, CallerMode, OtherModes, Zenon DEF a
<1>16. ASSUME HandlersApart, NEW u \in Tids \ {t} PROVE PiKept(table'[u], table[u])
  <2>1. ~table[u].dead => Mode(table[u])
    BY <1>2, <1>16, OtherModes
  <2>2. CASE u \in S \cup M
    <3>1. table[u] \in Rec /\ table'[u] \in Rec /\ table[u].wait \in Keys /\ table'[u].wait \in Keys
      BY <1>1, <1>4, <1>10, <1>11, <2>2, Zenon
    <3> QED BY <1>11, <2>1, <3>1, WaiterMode, Zenon
  <2>3. CASE u \notin S \cup M
    BY <1>12, <2>1, <2>3 DEF PiKept
  <2> QED BY <2>2, <2>3
<1> QED BY <1>2, <1>10, <1>11, <1>14, <1>15, <1>16, ServeStep, ZenonT(60)

\* What futex_wait makes of its caller's record.
WaitLeaves(r, me, c) ==
    /\ r.me \in Rec /\ r.me.dead = me.dead /\ r.me.saved = me.saved
    /\ r.me.handler = me.handler /\ r.me.sig = me.sig
    /\ r.ret # "block" => Dropped(r.me)
    /\ r.ret = "block" => r.me.pi = me.pi /\ r.me.wait # NoKey /\ r.me.wait \in {me.wait, c.key}

LEMMA FutexWaitRec ==
    ASSUME NEW t, NEW me \in Rec, NEW c \in WaitCall
    PROVE  WaitLeaves(FutexWait(t, me, c), me, c)
<1> DEFINE d == IF c.timed /\ me.deadline = "none" THEN "armed" ELSE me.deadline
           armed == [me EXCEPT !.deadline = d]
           b == [armed EXCEPT !.wait = c.key]
           r == FutexWait(t, me, c)
<1>1. d \in {"none", "armed", "due"}
  BY DEF Rec
<1>2. c.key \in Keys /\ c.key # NoKey
  BY CallIsCall, FutexAssumption, Zenon DEF NoKey
<1>3. \/ r = Return(me, "ok") \/ r = Return(me, "ETIMEDOUT") \/ r = Return(armed, "EAGAIN")
      \/ r = Block(armed) /\ me.wait # NoKey
      \/ r = Block(b)
  BY DEF FutexWait
<1> SUFFICES WaitLeaves(r, me, c)
  BY Zenon
<1> HIDE DEF d, r
<1>4. armed \in Rec /\ armed.dead = me.dead /\ armed.saved = me.saved /\ armed.handler = me.handler
      /\ armed.sig = me.sig /\ armed.pi = me.pi /\ armed.wait = me.wait
  BY <1>1 DEF Rec
<1> HIDE DEF armed
<1>5. b \in Rec /\ b.dead = me.dead /\ b.saved = me.saved /\ b.handler = me.handler
      /\ b.sig = me.sig /\ b.pi = me.pi /\ b.wait = c.key
  BY <1>2, <1>4 DEF Rec
<1> HIDE DEF b
<1>6. \A m \in Rec, e \in {"ok", "ETIMEDOUT", "EAGAIN"} :
         LET x == Return(m, e)
         IN  /\ x.me \in Rec /\ Dropped(x.me) /\ x.me.dead = m.dead /\ x.me.saved = m.saved
             /\ x.me.handler = m.handler /\ x.me.sig = m.sig /\ x.ret # "block"
  BY DoneRec, ZenonT(60) DEF Return, Dropped
<1>7. CASE \E m \in {me, armed}, e \in {"ok", "ETIMEDOUT", "EAGAIN"} : r = Return(m, e)
  BY <1>4, <1>6, <1>7 DEF WaitLeaves
<1>8. CASE r = Block(armed) /\ me.wait # NoKey
  <2>1. r.me = armed /\ r.ret = "block"
    BY <1>8, Zenon DEF Block
  <2> QED BY <1>4, <1>8, <2>1, Zenon DEF WaitLeaves
<1>9. CASE r = Block(b)
  <2>1. r.me = b /\ r.ret = "block"
    BY <1>9 DEF Block
  <2> QED BY <1>2, <1>5, <2>1, Zenon DEF WaitLeaves
<1> QED BY <1>3, <1>7, <1>8, <1>9, Zenon

\* The call of SysWait.
LEMMA WaitIsCall == WaitCalls \subseteq WaitCall
<1>1. \A k \in Keys, v \in 0..MaxVal, d \in BOOLEAN : Wait(k, v, d) \in WaitCall
  BY DEF Wait, WaitCall
<1> QED BY <1>1 DEF WaitCalls

LEMMA WaitStep ==
    ASSUME LockInv, NEW t \in Tids, SysWait(t)
    PROVE  LockInv'
<1>1. SerialInv /\ table \in [Tids -> Rec]
  BY DEF LockInv, SerialInv
<1>2. /\ out[t] # NotOut /\ ~out[t].dead
      /\ load' = load /\ table' = table /\ word' = word /\ holds' = holds /\ spurious' = spurious
  BY DEF SysWait, locks
<1>3. PICK c \in WaitCall :
        /\ out[t].call # NoCall => c = out[t].call
        /\ out[t].call = NoCall => Waits
        /\ out' = [out EXCEPT ![t] = AfterCall(FutexWait(t, out[t], c).me, c, FutexWait(t, out[t], c).ret)]
  <2>1. PICK c \in WaitCalls :
          /\ out[t].call # NoCall => c = out[t].call
          /\ out[t].call = NoCall => Waits
          /\ out' = [out EXCEPT ![t] = AfterCall(FutexWait(t, out[t], c).me, c, FutexWait(t, out[t], c).ret)]
    BY Zenon DEF SysWait, Waits
  <2>2. c \in WaitCall
    BY WaitIsCall
  <2> QED BY <2>1, <2>2, Zenon
<1> DEFINE r == FutexWait(t, out[t], c)
           m == r.me
           a == AfterCall(m, c, r.ret)
<1>4. out[t] \in Rec
  BY <1>1, <1>2, OthersIn, Zenon
<1>5. /\ m \in Rec /\ m.dead = out[t].dead /\ m.saved = out[t].saved
      /\ m.handler = out[t].handler /\ m.sig = out[t].sig
  <2>1. WaitLeaves(r, out[t], c)
    BY <1>4, FutexWaitRec, Zenon
  <2> QED BY <2>1, Zenon DEF WaitLeaves
<1>6. r.ret # "block" => Dropped(m)
  <2>1. WaitLeaves(r, out[t], c)
    BY <1>4, FutexWaitRec, Zenon
  <2> QED BY <2>1, Zenon DEF WaitLeaves
<1>7. r.ret = "block" => m.pi = out[t].pi /\ m.wait # NoKey /\ m.wait \in {out[t].wait, c.key}
  <2>1. WaitLeaves(r, out[t], c)
    BY <1>4, FutexWaitRec, Zenon
  <2> QED BY <2>1, Zenon DEF WaitLeaves
<1> HIDE DEF r
<1>8. a \in Rec /\ ServiceEffect(a, m, c, r.ret)
  BY <1>5, ServiceRec DEF Call
<1>9. out' = [out EXCEPT ![t] = a]
  BY <1>3, Zenon DEF r
<1> HIDE DEF m, a
<1>10. ASSUME HandlersApart PROVE PiKept(a, out[t])
  <2>1. Mode(out[t])
    BY <1>2, <1>10, OtherModes
  <2>2. out[t].call # NoCall => PlainMode(out[t])
    BY <1>3, <2>1, CallIsCall, Zenon DEF Mode, IdleMode, LockMode
  <2>3. Waits
    BY <1>3, <2>2, Zenon DEF PlainMode
  <2>4. "restart" \notin load.handlers
    BY <1>10, <2>3, Zenon DEF HandlersApart, Waits
  <2>5. out[t].call = NoCall => IdleMode(out[t])
    BY <2>1, <2>4, CallIsCall, Zenon DEF Mode, PlainMode, LockMode
  <2>6. ~out[t].pi /\ out[t].saved = NoCall /\ out[t].wait \in Keys \cup {NoKey}
    BY <2>2, <2>5 DEF PlainMode, IdleMode, Dropped
  <2>7. m.sig # "restart"
    BY <1>4, <1>5, <2>4, Zenon DEF Rec
  <2>8. r.ret = "block" => m.wait \in Keys /\ ~m.pi
    BY <1>7, <2>6, CallIsCall
  <2>9. a.dead \/ IdleMode(a) \/ PlainMode(a)
    <3>1. CASE a.dead
      BY <3>1, Zenon
    <3>2. CASE r.ret # "block" /\ Kept(a, m) /\ a.call = NoCall /\ (a.saved = m.saved \/ a.saved = NoCall)
      BY <1>5, <1>6, <2>6, <3>2, Zenon DEF IdleMode, Kept, Dropped
    <3>3. CASE r.ret = "block" /\ Kept(a, m) /\ a.call = c /\ a.saved = m.saved
      BY <1>5, <2>3, <2>6, <2>8, <3>3, Zenon DEF PlainMode, Kept
    <3>4. CASE Dropped(a) /\ a.call = NoCall /\ a.saved = NoCall
      BY <3>4 DEF IdleMode
    <3> QED BY <1>8, <2>7, <3>1, <3>2, <3>3, <3>4, Zenon DEF ServiceEffect
  <2> QED BY <1>2, <2>6, <2>9, Zenon DEF PiKept, Mode, IdleMode, PlainMode, Dropped
<1>11. ASSUME HandlersApart, NEW u \in Tids \ {t} PROVE PiKept(table'[u], table[u])
  BY <1>2, <1>11, OtherModes DEF PiKept
<1> QED BY <1>1, <1>2, <1>8, <1>9, <1>10, <1>11, ServeStep, ZenonT(60)

LEMMA ReturnStep ==
    ASSUME LockInv, NEW t \in Tids, Sigreturn(t) \/ SysExit(t)
    PROVE  LockInv'
<1>1. SerialInv /\ table \in [Tids -> Rec] /\ out \in [Tids -> Rec \cup {NotOut}]
  BY DEF LockInv, SerialInv
<1>2. /\ out[t] # NotOut /\ ~out[t].dead /\ out[t].call = NoCall
      /\ load' = load /\ table' = table /\ word' = word /\ holds' = holds /\ spurious' = spurious
  BY DEF Sigreturn, SysExit, InGuest, locks
<1>3. out[t] \in Rec
  BY <1>1, <1>2, OthersIn, Zenon
<1>4. ASSUME HandlersApart, NEW u \in Tids \ {t} PROVE PiKept(table'[u], table[u])
  BY <1>2, <1>4, OtherModes DEF PiKept
<1>5. CASE SysExit(t)
  <2> DEFINE a == [out[t] EXCEPT !.dead = TRUE]
  <2>1. out' = [out EXCEPT ![t] = a]
    BY <1>5 DEF SysExit
  <2>2. a \in Rec /\ a.dead
    BY <1>3, Zenon DEF Rec
  <2> HIDE DEF a
  <2>3. PiKept(a, out[t])
    BY <2>2 DEF PiKept
  <2> QED BY <1>1, <1>2, <1>4, <2>1, <2>2, <2>3, ServeStep, Zenon
<1>6. CASE Sigreturn(t)
  <2> DEFINE c == out[t].saved
             a == [out[t] EXCEPT !.handler = FALSE, !.call = c, !.saved = NoCall]
  <2>1. out' = [out EXCEPT ![t] = a]
    BY <1>6, Zenon DEF Sigreturn
  <2>2. c \in Call \cup {NoCall}
    BY <1>3 DEF Rec
  <2> HIDE DEF c
  <2>3. a \in Rec /\ Kept(a, out[t]) /\ a.dead = out[t].dead /\ ~a.handler /\ a.call = c /\ a.saved = NoCall
    BY <1>3, <2>2, ZenonT(60) DEF Rec, Kept
  <2> HIDE DEF a
  <2>4. ASSUME HandlersApart PROVE PiKept(a, out[t])
    <3>1. Mode(out[t])
      BY <1>2, <2>4, OtherModes, Zenon
    <3>2. IdleMode(out[t]) \/ LockMode(out[t])
      BY <1>2, <3>1, CallIsCall, Zenon DEF Mode, PlainMode
    <3>3. IdleMode(out[t]) => IdleMode(a)
      BY <2>3, Zenon DEF IdleMode, Kept, Dropped, c
    <3>4. LockMode(out[t]) => LockMode(a)
      BY <1>2, <2>3, CallIsCall DEF LockMode, Kept, c
    <3> QED BY <1>2, <2>3, <3>2, <3>3, <3>4, Zenon DEF PiKept, Mode, Kept
  <2> QED BY <1>1, <1>2, <1>4, <2>1, <2>3, <2>4, ServeStep, ZenonT(60)
<1> QED BY <1>5, <1>6

-------------------------------------------------------------------------------
(* Calls on a lock.                                                        *)

\* t takes lock k.
LEMMA Acquires ==
    ASSUME LocksInv, ModesInv, NEW t \in Tids, NEW k \in PiKeys, spurious' = spurious,
           \A j \in PiKeys \ {k} : word'[j] = word[j], word'[k].owner = t,
           holds' = holds \cup {<<t, k>>}, ~Record(t).dead,
           Record(t)'.dead \/ ~Record(t)'.pi,
           Record(t).pi /\ Record(t).woken => Record(t).wait = k,
           \A u \in Tids \ {t} : Record(u)' = Record(u),
           \A u \in Tids \ {t} : word[k].owner = u => Record(u).dead,
           \A u \in Tids \ {t} : Record(u).pi /\ ~Record(u).woken /\ ~Record(u).dead /\ Record(u).wait = k
                                   => word'[k].waiters
    PROVE  LocksInv'
<1>1. HoldersOwn /\ HandedOwn /\ OwnersHold /\ WaitersShow /\ spurious = {}
  BY Zenon DEF LocksInv
<1>2. \A u \in Tids \ {t} : Record(u).pi /\ ~Record(u).dead => Record(u).wait \in PiKeys
  BY PiWaits, ZenonT(60)
<1>3. HoldersOwn'
  BY <1>1 DEF HoldersOwn
<1>4. HandedOwn'
  BY <1>1, <1>2 DEF HandedOwn
<1>5. OwnersHold'
  BY <1>1 DEF OwnersHold
<1>6. WaitersShow'
  BY <1>1, <1>2 DEF WaitersShow
<1> QED BY <1>1, <1>3, <1>4, <1>5, <1>6, Zenon DEF LocksInv

\* t asks for a lock and does not get it, or gives up on it.
LEMMA Keeps ==
    ASSUME LocksInv, ModesInv, NEW t \in Tids, spurious' = spurious, holds' = holds,
           \A j \in PiKeys : word'[j].owner = word[j].owner /\ (word[j].waiters => word'[j].waiters),
           ~Record(t).dead, ~Record(t).pi \/ ~Record(t).woken,
           \A u \in Tids \ {t} : Record(u)' = Record(u),
           \/ Record(t)'.dead \/ ~Record(t)'.pi
           \/ ~Record(t)'.woken /\ word'[Record(t)'.wait].waiters
    PROVE  LocksInv'
<1>1. HoldersOwn /\ HandedOwn /\ OwnersHold /\ WaitersShow /\ spurious = {}
  BY DEF LocksInv
<1>2. \A u \in Tids \ {t} : Record(u).pi /\ ~Record(u).dead => Record(u).wait \in PiKeys
  BY PiWaits, Zenon
<1>3. HoldersOwn'
  BY <1>1, Zenon DEF HoldersOwn
<1>4. HandedOwn'
  BY <1>1, <1>2, ZenonT(60) DEF HandedOwn
<1>5. OwnersHold'
  BY <1>1 DEF OwnersHold
<1>6. WaitersShow'
  BY <1>1, <1>2, ZenonT(60) DEF WaitersShow
<1> QED BY <1>1, <1>3, <1>4, <1>5, <1>6, ZenonT(60) DEF LocksInv

\* t releases lock k; it goes to no one, or to o, which waits for it.
LEMMA Releases ==
    ASSUME LocksInv, ModesInv, NEW t \in Tids, NEW k \in PiKeys, NEW o \in Tids \cup {0}, o # t,
           spurious' = spurious, holds' = holds \ {<<t, k>>},
           \A j \in PiKeys \ {k} : word'[j] = word[j], word[k].owner = t, word'[k].owner = o,
           ~Record(t).dead, ~Record(t).pi, Record(t)'.dead \/ ~Record(t)'.pi,
           \A u \in Tids \ {t, o} : Record(u)' = Record(u),
           o # 0 => /\ Record(o).pi /\ ~Record(o).woken /\ Record(o).wait = k
                    /\ Record(o)'.pi /\ Record(o)'.woken /\ Record(o)'.wait = k
                    /\ Record(o)'.dead = Record(o).dead,
           \A u \in Tids \ {t, o} : Record(u).pi /\ ~Record(u).woken /\ ~Record(u).dead /\ Record(u).wait = k
                                      => word'[k].waiters
    PROVE  LocksInv'
<1>1. HoldersOwn /\ HandedOwn /\ OwnersHold /\ WaitersShow /\ spurious = {}
  BY DEF LocksInv
<1>2. \A u \in Tids \ {t} : Record(u).pi /\ ~Record(u).dead => Record(u).wait \in PiKeys
  BY PiWaits, Zenon
<1>3. 0 \notin Tids
  BY FutexAssumption, Zenon
<1>4. HoldersOwn'
  BY <1>1, <1>3 DEF HoldersOwn
<1>5. HandedOwn'
  BY <1>1, <1>2, <1>3 DEF HandedOwn
<1>6. OwnersHold'
  BY <1>1, <1>3 DEF OwnersHold
<1>7. WaitersShow'
  BY <1>1, <1>2, <1>3 DEF WaitersShow
<1> QED BY <1>1, <1>4, <1>5, <1>6, <1>7 DEF LocksInv

PiCall == [op : {"lock", "trylock"}, key : PiKeys, timed : BOOLEAN]

\* The outcomes of futex_lock_pi: the caller got the lock, it was turned away, or it blocks.
Taken(t, me, k, r) ==
    /\ r.ret = "ok" /\ Dropped(r.me)
    /\ \/ me.woken /\ r.word = word[k]
       \/ /\ ~me.woken
          /\ word[k].owner = 0 \/ (word[k].owner # t /\ ~TidAlive(t, word[k].owner))
          /\ r.word.owner = t /\ (Parked(table, k) # {} => r.word.waiters)

Refused(t, me, c, r) ==
    /\ r.ret \notin {"ok", "block"} /\ ~me.woken /\ r.word = word[c.key]
    /\ Dropped(r.me) \/ (r.me = me /\ c.op = "trylock")
    /\ r.ret = "EDEADLK" => word[c.key].owner = t

Waited(t, me, c, r) ==
    /\ r.ret = "block" /\ ~me.woken /\ c.op = "lock"
    /\ r.me.pi /\ r.me.wait = c.key /\ ~r.me.woken
    /\ r.word.owner = word[c.key].owner /\ r.word.waiters

LEMMA FutexLockPiRec ==
    ASSUME NEW t \in Tids, NEW me \in Rec, NEW c \in PiCall, word[c.key] \in Lock
    PROVE  LET r == FutexLockPi(t, me, c)
           IN  /\ r.me \in Rec /\ r.me.dead = me.dead /\ r.me.saved = me.saved
               /\ r.me.handler = me.handler /\ r.me.sig = me.sig
               /\ r.word \in Lock
               /\ Taken(t, me, c.key, r) \/ Refused(t, me, c, r) \/ Waited(t, me, c, r)
<1> DEFINE r == FutexLockPi(t, me, c)
           w == word[c.key]
           d == IF c.timed /\ me.deadline = "none" THEN "armed" ELSE me.deadline
           b == [[me EXCEPT !.deadline = d] EXCEPT !.wait = c.key, !.pi = TRUE]
           v == [w EXCEPT !.waiters = TRUE]
           Got(m, e, x) == r.me = m /\ r.ret = e /\ r.word = x
           done == FutexDone(me)
<1>1. \/ me.woken /\ Got(done, "ok", w)
      \/ ~me.woken /\ w.owner = 0 /\ Got(done, "ok", Take(t, c.key, FALSE))
      \/ ~me.woken /\ w.owner = t /\ Got(done, "EDEADLK", w)
      \/ ~me.woken /\ w.owner # t /\ ~TidAlive(t, w.owner) /\ Got(done, "ok", Take(t, c.key, TRUE))
      \/ ~me.woken /\ c.op = "trylock" /\ Got(me, "EAGAIN", w)
      \/ ~me.woken /\ Got(done, "ETIMEDOUT", w)
      \/ ~me.woken /\ c.op # "trylock" /\ Got(b, "block", v)
  BY ZenonT(60) DEF FutexLockPi, Return, Block
<1>2. done \in Rec /\ Dropped(done) /\ done.dead = me.dead /\ done.saved = me.saved
      /\ done.handler = me.handler /\ done.sig = me.sig
  BY DoneRec, Zenon DEF Dropped
<1>3. d \in {"none", "armed", "due"} /\ c.key \in PiKeys /\ c.op \in {"lock", "trylock"}
  BY DEF Rec, PiCall
<1> HIDE DEF d, r, done
<1>4. b \in Rec /\ b.dead = me.dead /\ b.saved = me.saved
      /\ b.handler = me.handler /\ b.sig = me.sig
  BY <1>3, Zenon DEF Rec
<1>5. b.pi /\ b.wait = c.key /\ b.woken = me.woken
  BY <1>3 DEF Rec
<1>6. v \in Lock /\ v.owner = w.owner /\ v.waiters
  BY Zenon DEF Lock
<1>7. ASSUME NEW e \in BOOLEAN
      PROVE  LET x == Take(t, c.key, e) IN x \in Lock /\ x.owner = t /\ (Parked(table, c.key) # {} => x.waiters)
  <2> DEFINE q == Parked(table, c.key) # {}
  <2>1. q \in BOOLEAN
    OBVIOUS
  <2> HIDE DEF q
  <2>2. LET x == [owner |-> t, waiters |-> q, died |-> e] IN x \in Lock /\ x.owner = t /\ (q => x.waiters)
    BY <2>1, Zenon DEF Lock
  <2> QED BY <2>2, Zenon DEF Take, q
<1> HIDE DEF b, v
<1>8. CASE me.woken /\ Got(done, "ok", w)
  BY <1>2, <1>8, Zenon DEF Taken, r
<1>9. CASE \E e \in BOOLEAN : /\ ~me.woken /\ Got(done, "ok", Take(t, c.key, e))
                              /\ w.owner = 0 \/ (w.owner # t /\ ~TidAlive(t, w.owner))
  BY <1>2, <1>7, <1>9, Zenon DEF Taken, r
<1>10. CASE /\ ~me.woken /\ Got(done, "EDEADLK", w) /\ w.owner = t
  BY <1>2, <1>10, Zenon DEF Refused, r
<1>11. CASE ~me.woken /\ Got(done, "ETIMEDOUT", w)
  BY <1>2, <1>11, Zenon DEF Refused, r
<1>12. CASE ~me.woken /\ c.op = "trylock" /\ Got(me, "EAGAIN", w)
  BY <1>12, Zenon DEF Refused, r
<1>13. CASE ~me.woken /\ c.op # "trylock" /\ Got(b, "block", v)
  BY <1>3, <1>4, <1>5, <1>6, <1>13, Zenon DEF Waited, r
<1> QED BY <1>1, <1>8, <1>9, <1>10, <1>11, <1>12, <1>13, ZenonT(60)

LEMMA LockPiStep ==
    ASSUME ~Smp, LockInv, NEW t \in Tids, SysLockPi(t)
    PROVE  LockInv'
<1>1. /\ SerialInv /\ table \in [Tids -> Rec] /\ DOMAIN word = Keys \cup PiKeys
      /\ \A k \in PiKeys : word[k] \in Lock
      /\ holds \subseteq Tids \X PiKeys
  BY Zenon DEF LockInv, SerialInv
<1>2. out[t] # NotOut /\ ~out[t].dead /\ ~out[t].handler /\ load' = load /\ table' = table
  BY Zenon DEF SysLockPi
<1> DEFINE R(c) == FutexLockPi(t, out[t], c)
           Does(c) ==
               /\ out[t].call # NoCall => c = out[t].call
               /\ out' = [out EXCEPT ![t] = AfterCall(R(c).me, c, R(c).ret)]
               /\ word' = [word EXCEPT ![c.key] = R(c).word]
               /\ holds' = IF R(c).ret = "ok" THEN holds \cup {<<t, c.key>>} ELSE holds
               /\ spurious' = IF R(c).ret = "EDEADLK" /\ <<t, c.key>> \notin holds
                              THEN spurious \cup {t} ELSE spurious
<1>3. PICK c \in PiCall : Does(c)
  <2>1. \E c \in PiCalls : Does(c)
    BY Zenon DEF SysLockPi
  <2> DEFINE timed == "timedlock" \in load.ops
  <2>2. timed \in BOOLEAN
    OBVIOUS
  <2> HIDE DEF timed, Does
  <2>3. PiCalls \subseteq PiCall
    <3>1. {[op |-> op, key |-> k, timed |-> timed] : op \in {"lock", "trylock"}, k \in PiKeys} \subseteq PiCall
      BY <2>2 DEF PiCall
    <3> QED BY <3>1 DEF PiCalls, timed
  <2> QED BY <2>1, <2>3
<1> DEFINE me == out[t]
           k == c.key
           r == FutexLockPi(t, me, c)
           m == r.me
           a == AfterCall(m, c, r.ret)
<1>4. me \in Rec /\ k \in PiKeys /\ c.op \in {"lock", "trylock"}
  BY <1>1, <1>2, OthersIn DEF PiCall
<1>5. /\ m \in Rec /\ m.dead = me.dead /\ m.saved = me.saved /\ m.handler = me.handler /\ m.sig = me.sig
      /\ r.word \in Lock
  BY <1>1, <1>4, FutexLockPiRec, Zenon
<1>6. Taken(t, me, k, r) \/ Refused(t, me, c, r) \/ Waited(t, me, c, r)
  BY <1>1, <1>4, FutexLockPiRec, Zenon
<1> HIDE DEF r
<1>7. c.op = "lock" => c \in LockCall
  BY Zenon DEF PiCall, LockCall
<1>8. r.ret = "block" => c \in LockCall
  BY <1>6, <1>7 DEF Taken, Refused, Waited
<1>9. a \in Rec /\ ServiceEffect(a, m, c, r.ret)
  BY <1>5, <1>8, ServiceRec, Zenon DEF Call
<1>10. out' = [out EXCEPT ![t] = a] /\ word' = [word EXCEPT ![k] = r.word]
  BY <1>3, Zenon DEF r
<1>11. holds' = IF r.ret = "ok" THEN holds \cup {<<t, k>>} ELSE holds
  BY <1>3 DEF r
<1>12. spurious' = IF r.ret = "EDEADLK" /\ <<t, k>> \notin holds THEN spurious \cup {t} ELSE spurious
  BY <1>3, Zenon DEF r
<1> HIDE DEF a, m
<1>13. word'[k] = r.word /\ \A j \in PiKeys \ {k} : word'[j] = word[j]
  BY <1>1, <1>4, <1>10, Zenon
<1> HIDE DEF k
<1>14. Record(t)' = a /\ \A u \in Tids \ {t} : Record(u)' = table[u]
  BY <1>1, <1>2, <1>9, <1>10, Serves, Zenon
<1>15. Record(t) = me /\ \A u \in Tids \ {t} : Record(u) = table[u]
  BY <1>1, <1>2, OthersIn, Zenon
<1>16. SerialInv'
  <2>1. /\ out' \in [Tids -> Rec \cup {NotOut}]
        /\ \A v, u \in Tids : out'[v] # NotOut /\ out'[u] # NotOut => v = u
        /\ \A u \in Tids : out'[u] # NotOut => ~table'[u].dead
    BY <1>1, <1>2, <1>9, <1>10, Serves, Zenon
  <2>2. \A j \in PiKeys : word'[j] \in Lock
    BY <1>1, <1>5, <1>13, Zenon
  <2>3. DOMAIN word' = DOMAIN word /\ holds' \subseteq Tids \X PiKeys
    BY <1>1, <1>4, <1>10, <1>11
  <2> QED BY <1>1, <1>2, <2>1, <2>2, <2>3, SerialStill, Zenon
<1>17. SUFFICES ASSUME HandlersApart PROVE ModesInv' /\ LocksInv'
  BY <1>2, <1>16, SameModes, Zenon DEF LockInv
<1>18. ModesInv /\ LocksInv /\ Mode(me)
  BY <1>2, <1>17, OtherModes, Zenon DEF LockInv
\* The caller is idle or waits for this lock.
<1>19. me.saved = NoCall
  BY <1>2, <1>18, Zenon DEF Mode
<1>20. IdleMode(me) \/ (LockMode(me) /\ me.call = c /\ me.wait = k)
  <2>1. CASE me.call = NoCall
    BY <1>18, <1>19, <2>1, CallIsCall, Zenon DEF Mode, PlainMode, LockMode
  <2>2. CASE me.call # NoCall
    <3>1. c = me.call /\ c \notin WaitCall
      BY <1>3, <1>4, <2>2, CallIsCall, Zenon
    <3> QED BY <1>18, <1>19, <2>2, <3>1, CallIsCall, Zenon DEF Mode, IdleMode, PlainMode, LockMode, k
  <2> QED BY <2>1, <2>2
<1>21. c.op = "trylock" => Dropped(me)
  BY <1>2, <1>20, CallIsCall, Zenon DEF LockMode, IdleMode
<1>22. r.ret # "block" => Dropped(m)
  BY <1>6, <1>21, Zenon DEF Taken, Refused, Waited, m
<1>23. r.ret = "block" => Waited(t, me, c, r)
  BY <1>6, Zenon DEF Taken, Refused

<1>24. a.dead \/ Mode(a)
  <2>1. CASE a.dead
    BY <2>1, Zenon
  <2>2. CASE r.ret # "block" /\ Kept(a, m) /\ a.call = NoCall /\ (a.saved = m.saved \/ a.saved = NoCall)
    BY <1>5, <1>19, <1>22, <2>2, Zenon DEF Mode, IdleMode, Dropped, Kept
  <2>3. CASE /\ r.ret = "block" /\ Kept(a, m) /\ a.call = c
             /\ a.saved = m.saved /\ a.handler = m.handler
    <3>1. LockMode(a)
      BY <1>2, <1>4, <1>5, <1>8, <1>19, <1>23, <2>3, ZenonT(60) DEF LockMode, Kept, Waited, m, k
    <3> QED BY <1>5, <1>19, <2>3, <3>1, Zenon DEF Mode
  <2>4. CASE Dropped(a) /\ a.call = NoCall /\ a.saved = NoCall
    BY <2>4, Zenon DEF Mode, IdleMode
  <2>5. CASE r.ret = "block" /\ Kept(a, m) /\ a.call = NoCall /\ a.saved = c /\ a.handler /\ m.sig = "restart"
    <3>1. "restart" \in load.handlers
      BY <1>4, <1>5, <2>5, Zenon DEF Rec
    <3>2. LockMode(a)
      BY <1>4, <1>8, <1>23, <2>5, <3>1, Zenon DEF LockMode, Kept, Waited, m, k
    <3> QED BY <2>5, <3>2, Zenon DEF Mode
  <2> QED BY <1>9, <2>1, <2>2, <2>3, <2>4, <2>5, Zenon DEF ServiceEffect
<1>25. ModesInv'
  BY <1>2, <1>14, <1>15, <1>18, <1>24, SameModes, Zenon DEF ModesInv
<1>26. a.dead \/ ~a.pi \/ (r.ret = "block" /\ ~a.woken /\ a.wait = k)
  BY <1>9, <1>22, <1>23, Zenon DEF ServiceEffect, Kept, Dropped, Waited, m, k
<1>27. ~Record(t).dead /\ \A u \in Tids \ {t} : Record(u)' = Record(u)
  BY <1>2, <1>14, <1>15, Zenon
<1>28. CASE Taken(t, me, k, r)
  <2>1. holds' = holds \cup {<<t, k>>} /\ spurious' = spurious /\ ~(r.ret = "block")
    BY <1>11, <1>12, <1>28, Zenon DEF Taken
  <2>2. me.woken => me.pi /\ me.wait = k
    BY <1>20, Zenon DEF IdleMode, Dropped, LockMode
  <2>3. me.woken => word[k].owner = t
    BY <1>15, <1>18, <1>27, <2>2, ZenonT(60) DEF LocksInv, HandedOwn
  <2>4. word'[k].owner = t
    BY <1>13, <1>28, <2>3 DEF Taken
  <2>5. \A u \in Tids \ {t} : word[k].owner = u => Record(u).dead
    <3>1. CASE me.woken
      BY <2>3, <3>1, Zenon
    <3>2. CASE ~me.woken /\ word[k].owner = 0
      BY <3>2, FutexAssumption, Zenon
    <3>3. CASE ~TidAlive(t, word[k].owner)
      BY <1>1, <1>2, <1>15, <3>3, OthersIn, Zenon DEF TidAlive
    <3> QED BY <1>28, <3>1, <3>2, <3>3, Zenon DEF Taken
  <2>6. ASSUME NEW u \in Tids \ {t}, Record(u).pi, ~Record(u).woken, ~Record(u).dead, Record(u).wait = k
        PROVE  word'[k].waiters
    <3>1. CASE me.woken
      <4>1. word[k].waiters
        BY <1>18, <2>6 DEF LocksInv, WaitersShow
      <4> QED BY <1>13, <1>28, <3>1, <4>1, ZenonT(60) DEF Taken
    <3>2. CASE ~me.woken
      <4>1. u \in Parked(table, k)
        BY <1>1, <1>2, <1>15, <2>6, OthersIn, Zenon DEF Parked
      <4> QED BY <1>13, <1>28, <3>2, <4>1, Zenon DEF Taken
    <3> QED BY <3>1, <3>2, Zenon
  <2>7. Record(t)'.dead \/ ~Record(t)'.pi
    BY <1>14, <1>26, <2>1, ZenonT(60)
  <2>8. Record(t).pi /\ Record(t).woken => Record(t).wait = k
    BY <1>15, <2>2
  <2> HIDE DEF me
  <2>9. LocksInv'
    BY <1>4, <1>13, <1>18, <1>27, <2>1, <2>4, <2>5, <2>6, <2>7, <2>8, Acquires, ZenonT(60)
  <2> QED BY <1>25, <2>9
<1>29. CASE Refused(t, me, c, r)
  <2>1. holds' = holds /\ ~me.woken
    BY <1>11, <1>29 DEF Refused
  <2>2. r.ret = "EDEADLK" => <<t, k>> \in holds
    BY <1>4, <1>15, <1>18, <1>27, <1>29, <2>1, Zenon DEF Refused, LocksInv, OwnersHold, k
  <2>3. spurious' = spurious
    BY <1>12, <2>2, Zenon
  <2>4. \A j \in PiKeys : word'[j].owner = word[j].owner /\ (word[j].waiters => word'[j].waiters)
    BY <1>13, <1>29, Zenon DEF Refused, k
  <2>5. Record(t)'.dead \/ ~Record(t)'.pi
    BY <1>14, <1>26, <1>29, Zenon DEF Refused
  <2>6. LocksInv'
    BY <1>15, <1>18, <1>27, <2>1, <2>3, <2>4, <2>5, Keeps, ZenonT(60)
  <2> QED BY <1>25, <2>6
<1>30. CASE Waited(t, me, c, r)
  <2>1. holds' = holds /\ spurious' = spurious /\ ~me.woken
    BY <1>11, <1>12, <1>30, Zenon DEF Waited
  <2>2. \A j \in PiKeys : word'[j].owner = word[j].owner /\ (word[j].waiters => word'[j].waiters)
    BY <1>13, <1>30, Zenon DEF Waited, k
  <2>3. word'[k].waiters
    BY <1>13, <1>30, Zenon DEF Waited
  <2>4. Record(t)'.dead \/ ~Record(t)'.pi \/ (~Record(t)'.woken /\ word'[Record(t)'.wait].waiters)
    BY <1>14, <1>26, <2>3, Zenon
  <2>5. LocksInv'
    BY <1>15, <1>18, <1>27, <2>1, <2>2, <2>4, Keeps, ZenonT(60)
  <2> QED BY <1>25, <2>5
<1> QED BY <1>6, <1>28, <1>29, <1>30, Zenon

LEMMA FastLockStep ==
    ASSUME LockInv, NEW t \in Tids, FastLock(t)
    PROVE  LockInv'
<1>1. /\ SerialInv /\ table \in [Tids -> Rec] /\ DOMAIN word = Keys \cup PiKeys
      /\ \A k \in PiKeys : word[k] \in Lock
      /\ holds \subseteq Tids \X PiKeys
  BY DEF LockInv, SerialInv
<1>2. PICK k \in PiKeys : /\ word[k] = Unlocked
                          /\ word' = [word EXCEPT ![k] = [Unlocked EXCEPT !.owner = t]]
                          /\ holds' = holds \cup {<<t, k>>}
  BY Zenon DEF FastLock
<1>3. /\ out[t] # NotOut /\ ~out[t].dead /\ ~out[t].handler /\ out[t].call = NoCall
      /\ load' = load /\ table' = table /\ out' = out /\ spurious' = spurious
  BY DEF FastLock, InMain, InGuest
<1> DEFINE w == [Unlocked EXCEPT !.owner = t]
<1>4. Unlocked.owner = 0 /\ ~Unlocked.waiters /\ w \in Lock /\ w.owner = t
  BY Zenon DEF Unlocked, Lock
<1>5. word' = [word EXCEPT ![k] = w]
  BY <1>2, Zenon
<1> HIDE DEF w
<1>6. word'[k] = w /\ \A j \in PiKeys \ {k} : word'[j] = word[j]
  BY <1>1, <1>5
<1>7. Record(t) = out[t] /\ \A u \in Tids : Record(u)' = Record(u)
  BY <1>1, <1>3, OthersIn, Zenon DEF Record
<1>8. SerialInv'
  <2>1. DOMAIN word' = DOMAIN word /\ \A j \in PiKeys : word'[j] \in Lock
    BY <1>1, <1>4, <1>5, <1>6, Zenon
  <2>2. holds' \subseteq Tids \X PiKeys
    BY <1>1, <1>2
  <2> QED BY <1>1, <1>3, <2>1, <2>2, SerialStill, Zenon DEF SerialInv
<1>9. SUFFICES ASSUME HandlersApart PROVE ModesInv' /\ LocksInv'
  BY <1>3, <1>8, SameModes, Zenon DEF LockInv
<1>10. ModesInv /\ LocksInv /\ Mode(out[t])
  BY <1>3, <1>9, OtherModes, Zenon DEF LockInv
<1>11. IdleMode(out[t])
  BY <1>3, <1>10, CallIsCall, Zenon DEF Mode, PlainMode, LockMode
<1>12. ~Record(t).pi /\ ~Record(t)'.pi /\ ~Record(t).dead
  BY <1>3, <1>7, <1>11, Zenon DEF IdleMode, Dropped
<1>13. ModesInv'
  BY <1>3, <1>7, <1>10, SameModes, Zenon DEF ModesInv
<1>14. \A u \in Tids \ {t} : word[k].owner = u => Record(u).dead
  BY <1>2, <1>4, FutexAssumption, Zenon
<1>15. \A u \in Tids : ~(Record(u).pi /\ ~Record(u).woken /\ ~Record(u).dead /\ Record(u).wait = k)
  BY <1>2, <1>4, <1>10, Zenon DEF LocksInv, WaitersShow
<1>16. LocksInv'
  BY <1>2, <1>3, <1>4, <1>6, <1>7, <1>10, <1>12, <1>14, <1>15, Acquires
<1> QED BY <1>13, <1>16, Zenon

LEMMA FastUnlockStep ==
    ASSUME LockInv, NEW t \in Tids, FastUnlock(t)
    PROVE  LockInv'
<1>1. /\ SerialInv /\ table \in [Tids -> Rec] /\ DOMAIN word = Keys \cup PiKeys
      /\ \A k \in PiKeys : word[k] \in Lock
      /\ holds \subseteq Tids \X PiKeys
  BY DEF LockInv, SerialInv
<1>2. PICK k \in PiKeys : /\ word[k] = [Unlocked EXCEPT !.owner = t]
                          /\ word' = [word EXCEPT ![k] = Unlocked]
                          /\ holds' = holds \ {<<t, k>>}
  BY Zenon DEF FastUnlock
<1>3. /\ out[t] # NotOut /\ ~out[t].dead /\ ~out[t].handler /\ out[t].call = NoCall
      /\ load' = load /\ table' = table /\ out' = out /\ spurious' = spurious
  BY DEF FastUnlock, InMain, InGuest
<1>4. Unlocked \in Lock /\ Unlocked.owner = 0 /\ word[k].owner = t /\ ~word[k].waiters
  BY <1>2 DEF Unlocked, Lock
<1>5. word'[k] = Unlocked /\ \A j \in PiKeys \ {k} : word'[j] = word[j]
  BY <1>1, <1>2, ZenonT(60)
<1>6. Record(t) = out[t] /\ \A u \in Tids : Record(u)' = Record(u)
  BY <1>1, <1>3, OthersIn, Zenon DEF Record
<1>7. SerialInv'
  <2>1. DOMAIN word' = DOMAIN word /\ \A j \in PiKeys : word'[j] \in Lock
    BY <1>1, <1>2, <1>4, <1>5, Zenon
  <2>2. holds' \subseteq Tids \X PiKeys
    BY <1>1, <1>2, Zenon
  <2> QED BY <1>1, <1>3, <2>1, <2>2, SerialStill, Zenon DEF SerialInv
<1>8. SUFFICES ASSUME HandlersApart PROVE ModesInv' /\ LocksInv'
  BY <1>3, <1>7, SameModes DEF LockInv
<1>9. ModesInv /\ LocksInv /\ Mode(out[t])
  BY <1>3, <1>8, OtherModes DEF LockInv
<1>10. IdleMode(out[t])
  BY <1>3, <1>9, CallIsCall, Zenon DEF Mode, PlainMode, LockMode
<1>11. ~Record(t).pi /\ ~Record(t)'.pi /\ ~Record(t).dead
  BY <1>3, <1>6, <1>10 DEF IdleMode, Dropped
<1>12. ModesInv'
  BY <1>3, <1>6, <1>9, SameModes DEF ModesInv
<1>13. \A u \in Tids : ~(Record(u).pi /\ ~Record(u).woken /\ ~Record(u).dead /\ Record(u).wait = k)
  BY <1>4, <1>9 DEF LocksInv, WaitersShow
<1>14. 0 # t
  BY FutexAssumption, Zenon
<1>15. LocksInv'
  <2>1. 0 \in Tids \cup {0} /\ word'[k].owner = 0
    BY <1>4, <1>5, Zenon
  <2>2. \A u \in Tids \ {t, 0} : Record(u)' = Record(u)
    BY <1>6, Zenon
  <2>3. \A u \in Tids \ {t, 0} : Record(u).pi /\ ~Record(u).woken /\ ~Record(u).dead /\ Record(u).wait = k
                                  => word'[k].waiters
    BY <1>13
  <2> QED BY <1>2, <1>3, <1>4, <1>5, <1>9, <1>11, <1>14, <2>1, <2>2, <2>3, Releases, ZenonT(60)
<1> QED BY <1>12, <1>15

-------------------------------------------------------------------------------
(* The hand-over.                                                          *)

\* The first waiter is one task, the one of least tid.
LEMMA FirstOne ==
    ASSUME NEW S \in SUBSET Tids, S # {}
    PROVE  \E o \in S : FirstN(S, 1) = {o}
<1>1. S \subseteq Nat /\ IsFiniteSet(S)
  BY FutexAssumption, FS_Subset, Zenon
<1>2. PICK o \in S : \A u \in S : ~(u < o)
  <2>1. \E o \in S : \A u \in S : ~(<<u, o>> \in OpToRel(<, Nat))
    BY <1>1, NatLessThanWellFounded, WFMin, Zenon
  <2> QED BY <1>1, <2>1, Zenon DEF OpToRel
<1>3. {v \in S : v < o} = {}
  BY <1>2
<1>4. o \in FirstN(S, 1)
  BY <1>3, FS_EmptySet DEF FirstN
<1>5. ASSUME NEW u \in FirstN(S, 1) PROVE u = o
  <2> DEFINE B == {v \in S : v < u}
  <2>1. u \in S /\ Cardinality(B) < 1
    BY <1>5 DEF FirstN
  <2>2. IsFiniteSet(B)
    BY <1>1, FS_Subset, Zenon
  <2>3. B = {}
    <3> HIDE DEF B
    <3>1. Cardinality(B) \in Nat
      BY <2>2, FS_CardinalityType, Zenon
    <3>2. Cardinality(B) = 0
      BY <2>1, <3>1
    <3> QED BY <2>2, <3>2, FS_EmptySet, Zenon
  <2>4. ~(o < u)
    BY <2>3
  <2> QED BY <1>1, <1>2, <2>1, <2>4
<1> QED BY <1>4, <1>5

LEMMA SeveralWait ==
    ASSUME NEW S \in SUBSET Tids, NEW o \in S, NEW u \in S, u # o
    PROVE  Cardinality(S) > 1
<1>1. IsFiniteSet(S) /\ IsFiniteSet(S \ {o})
  BY FutexAssumption, FS_Subset, Zenon
<1>2. Cardinality(S \ {o}) = Cardinality(S) - 1 /\ Cardinality(S) \in Nat
  BY <1>1, FS_RemoveElement, FS_CardinalityType, Zenon
<1>3. Cardinality(S \ {o}) \in Nat /\ Cardinality(S \ {o}) # 0
  BY <1>1, FS_EmptySet, FS_CardinalityType, SMTT(60)
<1> QED BY <1>2, <1>3

LEMMA UnlockPiStep ==
    ASSUME ~Smp, LockInv, NEW t \in Tids, SysUnlockPi(t)
    PROVE  LockInv'
<1>1. /\ SerialInv /\ table \in [Tids -> Rec] /\ DOMAIN word = Keys \cup PiKeys
      /\ \A k \in PiKeys : word[k] \in Lock
      /\ holds \subseteq Tids \X PiKeys
  BY DEF LockInv, SerialInv
<1> DEFINE a == AfterCall(out[t], NoCall, "ok")
<1>2. /\ out[t] # NotOut /\ ~out[t].dead /\ ~out[t].handler /\ out[t].call = NoCall
      /\ load' = load /\ spurious' = spurious /\ out' = [out EXCEPT ![t] = a]
  BY Zenon DEF SysUnlockPi, InMain, InGuest
<1>3. PICK k \in PiKeys :
        /\ word[k].owner = t /\ table' = FutexUnlockPi(k).table
        /\ word' = [word EXCEPT ![k] = FutexUnlockPi(k).word]
        /\ holds' = holds \ {<<t, k>>}
  BY Zenon DEF SysUnlockPi
<1> DEFINE S == Parked(table, k)
           F == FirstN(S, 1)
           w == FutexUnlockPi(k).word
<1>4. S \in SUBSET (Tids \ {t}) /\ \A u \in S : table[u].pi /\ table[u].wait = k /\ ~table[u].woken
  BY <1>1, <1>2, OthersIn, Zenon DEF Parked
<1>5. \A u \in Tids \ {t} : table[u].pi /\ table[u].wait = k /\ ~table[u].woken => u \in S
  BY <1>1, <1>2, OthersIn, Zenon DEF Parked
<1>6. table' = WakeUp(table, F)
  BY <1>3, Zenon DEF FutexUnlockPi
<1>7. w = IF S = {} THEN Unlocked
          ELSE [owner |-> CHOOSE u \in F : TRUE, waiters |-> Cardinality(S) > 1, died |-> FALSE]
  BY Zenon DEF FutexUnlockPi
<1>8. F \subseteq S
  BY Zenon DEF FirstN
<1> HIDE DEF w, S, a
<1>9. PICK o \in Tids \cup {0} : /\ o # t /\ w \in Lock /\ w.owner = o /\ F = {o} \ {0}
                                 /\ o # 0 => o \in S
                                 /\ \A u \in S \ {o} : w.waiters
  <2>1. 0 \notin Tids
    BY FutexAssumption, Zenon
  <2>2. CASE S = {}
    <3>1. w = Unlocked /\ F = {}
      BY <1>7, <1>8, <2>2, Zenon
    <3>2. Unlocked \in Lock /\ Unlocked.owner = 0
      BY DEF Unlocked, Lock
    <3> QED BY <2>1, <2>2, <3>1, <3>2, Zenon
  <2>3. CASE S # {}
    <3>1. PICK o \in S : F = {o}
      BY <1>4, <2>3, FirstOne, Zenon
    <3>2. (CHOOSE u \in F : TRUE) = o
      BY <3>1, Zenon
    <3> DEFINE many == Cardinality(S) > 1
    <3>3. many \in BOOLEAN /\ \A u \in S \ {o} : many
      BY <1>4, SeveralWait
    <3>4. w = [owner |-> o, waiters |-> many, died |-> FALSE]
      BY <1>7, <2>3, <3>2, Zenon
    <3> HIDE DEF many
    <3>5. o \in Tids /\ o # t /\ o # 0
      BY <1>4, <2>1, Zenon
    <3>6. w \in Lock /\ w.owner = o /\ w.waiters = many
      BY <3>3, <3>4, <3>5, Zenon DEF Lock
    <3> QED BY <3>1, <3>3, <3>5, <3>6, Zenon
  <2> QED BY <2>2, <2>3, Zenon
<1> HIDE DEF F
<1>10. word' = [word EXCEPT ![k] = w]
  BY <1>3, Zenon DEF w
<1>11. word'[k] = w /\ \A j \in PiKeys \ {k} : word'[j] = word[j]
  BY <1>1, <1>10, Zenon
<1>12. table' \in [Tids -> Rec]
  <2>1. Woke(table', table, F)
    BY <1>1, <1>6, WakeUpRec, Zenon
  <2> QED BY <2>1, Zenon DEF Woke
<1>13. \A u \in Tids : u # o => table'[u] = table[u]
  <2>1. Woke(table', table, F)
    BY <1>1, <1>6, WakeUpRec, Zenon
  <2> QED BY <1>9, <2>1, Zenon DEF Woke
<1>14. o # 0 => table'[o].woken
  <2>1. Woke(table', table, F)
    BY <1>1, <1>6, WakeUpRec, Zenon
  <2> QED BY <1>9, <2>1, ZenonT(60) DEF Woke
<1>15. \A u \in Tids : /\ table'[u].dead = table[u].dead /\ table'[u].call = table[u].call
                       /\ table'[u].saved = table[u].saved /\ table'[u].handler = table[u].handler
                       /\ table'[u].wait = table[u].wait /\ table'[u].pi = table[u].pi
  <2>1. Woke(table', table, F)
    BY <1>1, <1>6, WakeUpRec, Zenon
  <2> QED BY <2>1, Zenon DEF Woke
<1>16. out[t] \in Rec /\ Record(t) = out[t] /\ \A u \in Tids \ {t} : Record(u) = table[u]
  BY <1>1, <1>2, OthersIn, Zenon
<1>17. a \in Rec
  BY <1>2, <1>16, CallerMode, Zenon DEF a
<1>18. Mode(out[t]) => PiKept(a, out[t])
  BY <1>2, <1>16, CallerMode, Zenon DEF a
<1>19. Record(t)' = a /\ \A u \in Tids \ {t} : Record(u)' = table'[u]
  BY <1>1, <1>2, <1>12, <1>15, <1>17, Serves, ZenonT(60)
<1>20. SerialInv'
  <2>1. /\ out' \in [Tids -> Rec \cup {NotOut}]
        /\ \A v, u \in Tids : out'[v] # NotOut /\ out'[u] # NotOut => v = u
        /\ \A u \in Tids : out'[u] # NotOut => ~table'[u].dead
    BY <1>1, <1>2, <1>12, <1>15, <1>17, Serves, ZenonT(60)
  <2>2. DOMAIN word' = DOMAIN word /\ \A j \in PiKeys : word'[j] \in Lock
    BY <1>1, <1>9, <1>10, <1>11, ZenonT(60)
  <2>3. holds' \subseteq Tids \X PiKeys
    BY <1>1, <1>3, Zenon
  <2> QED BY <1>1, <1>2, <1>12, <2>1, <2>2, <2>3, SerialStill, ZenonT(60)
<1>21. SUFFICES ASSUME HandlersApart PROVE ModesInv' /\ LocksInv'
  BY <1>2, <1>20, SameModes, Zenon DEF LockInv
<1>22. ModesInv /\ LocksInv /\ Mode(out[t]) /\ \A u \in Tids \ {t} : ~table[u].dead => Mode(table[u])
  BY <1>2, <1>21, OtherModes, Zenon DEF LockInv
<1>23. IdleMode(out[t])
  BY <1>2, <1>22, CallIsCall, Zenon DEF Mode, PlainMode, LockMode
<1>24. ~Record(t).pi /\ ~Record(t).dead /\ (Record(t)'.dead \/ ~Record(t)'.pi)
  BY <1>2, <1>16, <1>18, <1>19, <1>22, <1>23, ZenonT(60) DEF IdleMode, Dropped, PiKept
\* The waiter stays in its lock call.
<1>25. ASSUME NEW u \in Tids \ {t}, ~table'[u].dead PROVE Mode(table'[u])
  <2>1. Mode(table[u])
    BY <1>15, <1>22, <1>25, Zenon
  <2>2. CASE u # o
    BY <1>13, <2>1, <2>2, Zenon
  <2>3. CASE u = o
    <3>1. LockMode(table[u])
      BY <1>4, <1>9, <1>25, <2>1, <2>3, FutexAssumption, ZenonT(60) DEF Mode, IdleMode, PlainMode, Dropped
    <3> QED BY <1>15, <2>1, <3>1, ZenonT(60) DEF Mode, LockMode
  <2> QED BY <2>2, <2>3
<1>26. ModesInv'
  BY <1>2, <1>18, <1>19, <1>22, <1>25, SameModes, ZenonT(60) DEF ModesInv, PiKept
<1>27. \A u \in Tids \ {t, o} : Record(u)' = Record(u)
  BY <1>13, <1>16, <1>19, ZenonT(60)
<1>28. o # 0 => /\ Record(o).pi /\ ~Record(o).woken /\ Record(o).wait = k
                /\ Record(o)'.pi /\ Record(o)'.woken /\ Record(o)'.wait = k
                /\ Record(o)'.dead = Record(o).dead
  <2> SUFFICES ASSUME o # 0 PROVE /\ Record(o).pi /\ ~Record(o).woken /\ Record(o).wait = k
                                  /\ Record(o)'.pi /\ Record(o)'.woken /\ Record(o)'.wait = k
                                  /\ Record(o)'.dead = Record(o).dead
    BY Zenon
  <2>1. o \in S /\ o \in Tids \ {t}
    BY <1>9, Zenon
  <2>2. Record(o) = table[o] /\ Record(o)' = table'[o]
    BY <1>16, <1>19, <2>1, Zenon
  <2>3. table[o].pi /\ table[o].wait = k /\ ~table[o].woken /\ table'[o].woken
    BY <1>4, <1>14, <2>1, Zenon
  <2>4. table'[o].dead = table[o].dead /\ table'[o].wait = table[o].wait /\ table'[o].pi = table[o].pi
    BY <1>15, <2>1, Zenon
  <2> QED BY <2>2, <2>3, <2>4, Zenon
<1>29. \A u \in Tids \ {t, o} : Record(u).pi /\ ~Record(u).woken /\ ~Record(u).dead /\ Record(u).wait = k
                                  => word'[k].waiters
  <2> SUFFICES ASSUME NEW u \in Tids \ {t, o},
                      Record(u).pi, ~Record(u).woken, Record(u).wait = k
               PROVE  word'[k].waiters
    BY Zenon
  <2>1. u \in Tids \ {t} /\ u # o
    BY Zenon
  <2>2. Record(u) = table[u]
    BY <1>16, <2>1, Zenon
  <2>3. u \in S
    BY <1>5, <2>1, <2>2, Zenon
  <2> QED BY <1>9, <1>11, <2>1, <2>3, Zenon
<1>30. LocksInv'
  <2>1. word[k].owner = t /\ holds' = holds \ {<<t, k>>} /\ spurious' = spurious
    BY <1>2, <1>3, Zenon
  <2>2. o # t /\ word'[k].owner = o /\ \A j \in PiKeys \ {k} : word'[j] = word[j]
    BY <1>9, <1>11, Zenon
  <2> QED BY <1>22, <1>24, <1>27, <1>28, <1>29, <2>1, <2>2, Releases, ZenonT(60)
<1> QED BY <1>26, <1>30

-------------------------------------------------------------------------------

LEMMA LockNext ==
    ASSUME ~Smp, LockInv, [Next]_vars
    PROVE  LockInv'
<1>1. ASSUME NEW t \in Tids, Begin(t) PROVE LockInv'
  BY <1>1, BeginStep
<1>2. ASSUME NEW t \in Tids, End(t) PROVE LockInv'
  BY <1>2, EndStep
<1>3. ASSUME Quiet PROVE LockInv'
  BY <1>3, QuietSteps
<1>4. ASSUME NEW t \in Tids, SysWait(t) PROVE LockInv'
  BY <1>4, WaitStep
<1>5. ASSUME NEW t \in Tids, SysWake(t) PROVE LockInv'
  BY <1>5, WakeStep, ZenonT(60)
<1>6. ASSUME NEW t \in Tids, SysRequeue(t) PROVE LockInv'
  BY <1>6, RequeueStep
<1>7. ASSUME NEW t \in Tids, SysLockPi(t) PROVE LockInv'
  BY <1>7, LockPiStep
<1>8. ASSUME NEW t \in Tids, SysUnlockPi(t) PROVE LockInv'
  BY <1>8, UnlockPiStep
<1>9. ASSUME NEW t \in Tids, FastLock(t) PROVE LockInv'
  BY <1>9, FastLockStep
<1>10. ASSUME NEW t \in Tids, FastUnlock(t) PROVE LockInv'
  BY <1>10, FastUnlockStep
<1>11. ASSUME NEW t \in Tids, Sigreturn(t) \/ SysExit(t) PROVE LockInv'
  BY <1>11, ReturnStep
<1> QED BY <1>1, <1>2, <1>3, <1>4, <1>5, <1>6, <1>7, <1>8, <1>9, <1>10, <1>11, ZenonT(60) DEF Next, Quiet

\* Priority-inheritance locks are sound on the serial scheduler (futex_lock_pi and
\* futex_unlock_pi, driven by Kernel::service), for any number of tasks, words and
\* workloads: the word of a lock names its holder, a waiter's lock is marked, and
\* EDEADLK is only for the holder.
THEOREM LocksSound == ~Smp => (Spec => []PiLocksSound)
<1> SUFFICES ASSUME ~Smp PROVE Spec => []PiLocksSound
  OBVIOUS
<1>1. Init => LockInv
  BY LockInit
<1>2. LockInv /\ [Next]_vars => LockInv'
  BY LockNext
<1>3. LockInv => PiLocksSound
  BY InvImpliesSound
<1> QED BY <1>1, <1>2, <1>3, PTL DEF Spec

-------------------------------------------------------------------------------
(* Plain waits, on either scheduler.                                       *)

\* What a record waits for: a lock or a plain word.
WaitShape(r) ==
    /\ r.pi <=> r.wait \in PiKeys
    /\ r.woken => r.wait # NoKey
    /\ r.wait \in Keys => Waits
    /\ "lock" \notin load.ops => ~r.pi
    /\ WaitersSurvive /\ r.dead => r.wait \notin Keys

\* The call it is in, and the one its handler interrupted.
CallShape(r) ==
    /\ r.call \in WaitCall => Waits
    /\ r.saved \in WaitCall => Waits
    /\ "lock" \notin load.ops => r.call \notin LockCall /\ r.saved \notin LockCall
    /\ ~r.handler => r.saved = NoCall

\* A task waits for the word of its call, unless it was requeued.
AtWait(t, r, M) ==
    /\ r.call = NoCall /\ r.saved = NoCall => r.wait = NoKey
    /\ r.call \in WaitCall /\ r.saved = NoCall => r.wait \in {NoKey, r.call.key} \/ t \in M
    /\ r.call = NoCall /\ r.saved \in WaitCall => r.wait \in {NoKey, r.saved.key} \/ t \in M

Good(t, r, M) == WaitShape(r) /\ CallShape(r) /\ (~r.dead => AtWait(t, r, M))

TypeInv ==
    /\ load \in Workloads
    /\ table \in [Tids -> Rec] /\ out \in [Tids -> Rec \cup {NotOut}]
    /\ DOMAIN word = Keys \cup PiKeys /\ \A k \in PiKeys : word[k] \in Lock

WaitInv == TypeInv /\ \A t \in Tids : Good(t, Record(t), moved)

LEMMA GoodInit == Init => WaitInv
<1> SUFFICES ASSUME Init PROVE WaitInv
  OBVIOUS
<1>1. TypeInv
  BY LockInit, Zenon DEF LockInv, SerialInv, TypeInv
<1>2. ASSUME NEW t \in Tids PROVE Good(t, Record(t), moved)
  <2> DEFINE d == t \notin load.tids
             r == [Ready EXCEPT !.dead = d]
  <2>1. Record(t) = r
    BY DEF Init, Record
  <2>2. /\ r.wait = NoKey /\ r.woken = FALSE /\ r.pi = FALSE /\ r.call = NoCall /\ r.saved = NoCall
    BY DEF Ready
  <2> HIDE DEF r
  <2>3. WaitShape(r)
    BY <2>2, FutexAssumption, Zenon DEF WaitShape, NoKey
  <2>4. CallShape(r)
    BY <2>2, CallIsCall, Zenon DEF CallShape
  <2>5. AtWait(t, r, moved)
    BY <2>2, CallIsCall, Zenon DEF AtWait
  <2> QED BY <2>1, <2>3, <2>4, <2>5, Zenon DEF Good
<1> QED BY <1>1, <1>2, Zenon DEF WaitInv

\* The invariant is about records, the load and who was requeued.
LEMMA GoodStep ==
    ASSUME TypeInv', load' = load, \A u \in Tids : Good(u, Record(u)', moved')
    PROVE  WaitInv'
<1>1. \A u, r, M : Good(u, r, M)' <=> Good(u, r, M)
  BY SMTT(60) DEF Good, WaitShape, CallShape, AtWait, Waits, WaitersSurvive
<1> QED BY <1>1, ZenonT(60) DEF WaitInv

LEMMA TypeStill ==
    ASSUME TypeInv, load' = load, table' \in [Tids -> Rec], out' \in [Tids -> Rec \cup {NotOut}],
           DOMAIN word' = DOMAIN word, \A k \in PiKeys : word'[k] \in Lock
    PROVE  TypeInv'
<1>1. Rec' = Rec
  BY Zenon DEF Rec
<1> QED BY <1>1 DEF TypeInv

\* Records that differ in what waits do not see.
LEMMA GoodSame ==
    ASSUME NEW u, NEW r, NEW a, NEW M, Good(u, r, M), CoreSame(a, r)
    PROVE  Good(u, a, M)
BY ZenonT(60) DEF Good, WaitShape, CallShape, AtWait, CoreSame, Kept

\* A step that changes records only in what waits do not see.
LEMMA SameGood ==
    ASSUME WaitInv, TypeInv', load' = load, moved' = moved, \A u \in Tids : CoreSame(Record(u)', Record(u))
    PROVE  WaitInv'
<1>1. \A u \in Tids : Good(u, Record(u)', moved)
  BY GoodSame DEF WaitInv
<1> QED BY <1>1, GoodStep, Zenon

\* The record of t changes while it is out.
LEMMA Changes ==
    ASSUME TypeInv, NEW t \in Tids, out[t] # NotOut, NEW a \in Rec, out' = [out EXCEPT ![t] = a]
    PROVE  /\ Record(t) = out[t] /\ out[t] \in Rec /\ Record(t)' = a
           /\ out' \in [Tids -> Rec \cup {NotOut}]
           /\ \A u \in Tids \ {t} : Record(u)' = Record(u) \/ (Record(u) = table[u] /\ Record(u)' = table'[u])
<1>1. out \in [Tids -> Rec \cup {NotOut}] /\ a # NotOut
  BY RecIsRec DEF TypeInv
<1>2. out'[t] = a /\ \A u \in Tids \ {t} : out'[u] = out[u]
  BY <1>1
<1>3. out' \in [Tids -> Rec \cup {NotOut}]
  BY <1>1
<1> QED BY <1>1, <1>2, <1>3, Zenon DEF Record

-------------------------------------------------------------------------------

\* The record of a task killed by a signal.
LEMMA KilledRec ==
    ASSUME NEW me \in Rec, NEW c, NEW ret, ~me.dead, AfterCall(me, c, ret).dead, ret = "block" => c \in Call
    PROVE  LET a == AfterCall(me, c, ret)
           IN  me.sig = "kill" /\ Kept(a, me) /\ a.call = NoCall /\ a.saved = me.saved /\ a.handler = me.handler
<1> DEFINE a == AfterCall(me, c, ret)
           k == [me EXCEPT !.call = NoCall, !.dead = TRUE]
<1>1. CASE me.sig = "kill"
  <2>1. a = k
    BY <1>1 DEF AfterCall
  <2>2. Kept(k, me) /\ k.call = NoCall /\ k.saved = me.saved /\ k.handler = me.handler
    BY Zenon DEF Kept, Rec
  <2> QED BY <1>1, <2>1, <2>2, Zenon
<1>2. CASE me.sig # "kill"
  <2> DEFINE m == IF ret = "block" /\ (me.sig # "none" /\ ~me.handler) /\ me.sig # "restart"
                  THEN FutexDone(me) ELSE me
  <2>1. m \in Rec /\ ~m.dead
    BY DoneRec, Zenon
  <2> HIDE DEF m
  <2>2. \/ a = [m EXCEPT !.call = c, !.blocked = TRUE]
        \/ \E x : a = [m EXCEPT !.call = NoCall, !.deadline = "none", !.sig = "none", !.handler = TRUE, !.saved = x]
        \/ a = [m EXCEPT !.call = NoCall, !.deadline = "none"]
    BY <1>2, Zenon DEF AfterCall, m
  <2>3. ~a.dead
    BY <2>1, <2>2, ZenonT(60) DEF Rec
  <2> QED BY <2>3
<1> QED BY <1>1, <1>2, Zenon

\* A call leaves its task in a good state when it leaves the wait in one.
LEMMA GoodCall ==
    ASSUME NEW t, NEW M, NEW m \in Rec, ~m.dead, NEW c, NEW ret, WaitShape(m),
           m.saved \in WaitCall => Waits, "lock" \notin load.ops => m.saved \notin LockCall,
           ~m.handler => m.saved = NoCall,
           ret # "block" => m.wait = NoKey \/ (m.call = NoCall /\ AtWait(t, m, M)),
           ret = "block" => /\ c \in Call /\ (c \in WaitCall => Waits) /\ (c \in LockCall => "lock" \in load.ops)
                            /\ c \in WaitCall /\ m.saved = NoCall => m.wait \in {NoKey, c.key} \/ t \in M
    PROVE  LET a == AfterCall(m, c, ret)
           IN  a \in Rec /\ Good(t, a, M)
<1> DEFINE a == AfterCall(m, c, ret)
<1>1. a \in Rec /\ ServiceEffect(a, m, c, ret)
  BY ServiceRec, Zenon
<1>2. a.dead => m.sig = "kill" /\ Kept(a, m) /\ a.call = NoCall /\ a.saved = m.saved /\ a.handler = m.handler
  BY KilledRec, ZenonT(60)
<1> HIDE DEF a
<1>3. CASE a.dead
  <2>1. "kill" \in load.handlers
    BY <1>2, <1>3, Zenon DEF Rec
  <2>2. WaitShape(a)
    BY <1>2, <1>3, <2>1, Zenon DEF WaitShape, WaitersSurvive, Kept
  <2>3. CallShape(a)
    BY <1>2, <1>3, CallIsCall, Zenon DEF CallShape
  <2> QED BY <1>1, <1>3, <2>2, <2>3, Zenon DEF Good, a
<1>4. CASE /\ ~a.dead /\ ret # "block" /\ Kept(a, m) /\ a.call = NoCall
           /\ \/ a.saved = m.saved /\ a.handler = m.handler
              \/ a.saved = NoCall /\ a.handler /\ ~m.handler
  <2>1. a.saved = m.saved /\ (~a.handler => a.saved = NoCall)
    BY <1>4, Zenon
  <2>2. WaitShape(a)
    BY <1>4, Zenon DEF WaitShape, Kept
  <2>3. CallShape(a)
    BY <1>4, <2>1, CallIsCall, Zenon DEF CallShape
  <2>4. AtWait(t, a, M)
    BY <1>4, <2>1, CallIsCall, ZenonT(60) DEF AtWait, Kept
  <2> QED BY <1>1, <2>2, <2>3, <2>4, Zenon DEF Good, a
<1>5. CASE ~a.dead /\ ret = "block" /\ Kept(a, m) /\ a.call = c /\ a.saved = m.saved /\ a.handler = m.handler
  <2>1. WaitShape(a)
    BY <1>5, Zenon DEF WaitShape, Kept
  <2>2. CallShape(a)
    BY <1>5, Zenon DEF CallShape
  <2>3. AtWait(t, a, M)
    BY <1>5, CallIsCall, ZenonT(60) DEF AtWait, Kept, Call
  <2> QED BY <1>1, <2>1, <2>2, <2>3, Zenon DEF Good, a
<1>6. CASE ~a.dead /\ Dropped(a) /\ a.call = NoCall /\ a.saved = NoCall
  <2>1. WaitShape(a)
    BY <1>6, FutexAssumption, Zenon DEF WaitShape, Dropped, NoKey
  <2>2. CallShape(a)
    BY <1>6, CallIsCall, Zenon DEF CallShape
  <2>3. AtWait(t, a, M)
    BY <1>6, ZenonT(60) DEF AtWait, Dropped
  <2> QED BY <1>1, <2>1, <2>2, <2>3, Zenon DEF Good, a
<1>7. CASE ~a.dead /\ ret = "block" /\ Kept(a, m) /\ a.call = NoCall /\ a.saved = c /\ a.handler /\ ~m.handler
  <2>1. WaitShape(a)
    BY <1>7, Zenon DEF WaitShape, Kept
  <2>2. CallShape(a)
    BY <1>7, CallIsCall, Zenon DEF CallShape
  <2>3. AtWait(t, a, M)
    BY <1>7, CallIsCall, Zenon DEF AtWait, Kept, Call
  <2> QED BY <1>1, <2>1, <2>2, <2>3, Zenon DEF Good, a
<1> QED BY <1>1, <1>3, <1>4, <1>5, <1>6, <1>7, Zenon DEF ServiceEffect

-------------------------------------------------------------------------------
(* Each step leaves every record good.                                     *)

LEMMA BeginGood ==
    ASSUME WaitInv, NEW t \in Tids, Begin(t)
    PROVE  WaitInv'
<1> DEFINE b == IF Smp THEN [table[t] EXCEPT !.sig = "none"] ELSE Ready
<1>1. /\ TypeInv /\ table \in [Tids -> Rec] /\ out \in [Tids -> Rec \cup {NotOut}]
      /\ \A k \in PiKeys : word[k] \in Lock
  BY DEF WaitInv, TypeInv
<1>2. /\ out' = [out EXCEPT ![t] = table[t]] /\ table' = [table EXCEPT ![t] = b]
      /\ out[t] = NotOut /\ word' = word /\ load' = load /\ moved' = moved
  BY DEF Begin, CheckOut, CanCheckOut, plain
<1>3. b \in Rec
  <2>1. \A r \in Rec : [r EXCEPT !.sig = "none"] \in Rec
    BY ZenonT(60) DEF Rec
  <2> QED BY <1>1, <2>1, ReadyIsRec, Zenon
<1> HIDE DEF b
<1>4. table' \in [Tids -> Rec] /\ out' \in [Tids -> Rec \cup {NotOut}]
  BY <1>1, <1>2, <1>3, Zenon
<1>5. out'[t] = table[t] /\ \A u \in Tids \ {t} : out'[u] = out[u] /\ table'[u] = table[u]
  BY <1>1, <1>2, Zenon
<1>6. \A u \in Tids : Record(u)' = Record(u)
  BY <1>1, <1>2, <1>5, RecIsRec, ZenonT(60) DEF Record
<1>7. TypeInv'
  BY <1>1, <1>2, <1>4, TypeStill, ZenonT(60)
<1> QED BY <1>2, <1>6, <1>7, SameGood, ZenonT(60) DEF CoreSame, Kept

LEMMA EndGood ==
    ASSUME WaitInv, NEW t \in Tids, End(t)
    PROVE  WaitInv'
<1> DEFINE me == IF Smp /\ table[t].sig # "none" THEN [out[t] EXCEPT !.sig = table[t].sig] ELSE out[t]
           q == ~Smp /\ me.blocked
           a == [me EXCEPT !.parked = q, !.blocked = FALSE]
<1>1. /\ TypeInv /\ table \in [Tids -> Rec] /\ out \in [Tids -> Rec \cup {NotOut}]
      /\ \A k \in PiKeys : word[k] \in Lock
  BY DEF WaitInv, TypeInv
<1>2. /\ out' = [out EXCEPT ![t] = NotOut] /\ table' = [table EXCEPT ![t] = a]
      /\ out[t] # NotOut /\ word' = word /\ load' = load /\ moved' = moved
  BY DEF End, CheckIn, plain
<1>3. out[t] \in Rec /\ table[t] \in Rec
  BY <1>1, <1>2, Zenon
<1>4. me \in Rec /\ CoreSame(me, out[t])
  <2>1. \A r \in Rec, x \in {"none"} \cup load.handlers :
           [r EXCEPT !.sig = x] \in Rec /\ CoreSame([r EXCEPT !.sig = x], r)
    BY ZenonT(60) DEF Rec, CoreSame, Kept
  <2>2. table[t].sig \in {"none"} \cup load.handlers
    BY <1>3, Zenon DEF Rec
  <2>3. CoreSame(out[t], out[t])
    BY DEF CoreSame, Kept
  <2> QED BY <1>3, <2>1, <2>2, <2>3, ZenonT(60)
<1>5. q \in BOOLEAN
  OBVIOUS
<1> HIDE DEF me, q
<1>6. a \in Rec
  BY <1>4, <1>5, ZenonT(60) DEF Rec
<1>7. CoreSame(a, me)
  BY <1>4, Zenon DEF Rec, CoreSame, Kept
<1> HIDE DEF a
<1>8. table' \in [Tids -> Rec] /\ out' \in [Tids -> Rec \cup {NotOut}]
  BY <1>1, <1>2, <1>6, Zenon
<1>9. out'[t] = NotOut /\ table'[t] = a /\ \A u \in Tids \ {t} : out'[u] = out[u] /\ table'[u] = table[u]
  BY <1>1, <1>2, ZenonT(60)
<1>10. \A u \in Tids : CoreSame(Record(u)', Record(u))
  BY <1>2, <1>4, <1>7, <1>9 DEF Record, CoreSame, Kept
<1>11. TypeInv'
  BY <1>1, <1>2, <1>8, TypeStill, Zenon
<1> QED BY <1>2, <1>10, <1>11, SameGood, ZenonT(60)

LEMMA QuietGood ==
    ASSUME WaitInv, Quiet
    PROVE  WaitInv'
<1>1. /\ TypeInv /\ table \in [Tids -> Rec] /\ out \in [Tids -> Rec \cup {NotOut}]
      /\ DOMAIN word = Keys \cup PiKeys /\ \A k \in PiKeys : word[k] \in Lock
  BY DEF WaitInv, TypeInv
<1>2. /\ load' = load /\ out' = out /\ moved' = moved
      /\ DOMAIN word' = DOMAIN word /\ \A k \in PiKeys : word'[k] = word[k]
  BY <1>1, QuietTable, Zenon
<1>3. table' \in [Tids -> Rec] /\ \A u \in Tids : CoreSame(table'[u], table[u])
  BY <1>1, QuietTable, Zenon
<1>4. TypeInv'
  BY <1>1, <1>2, <1>3, TypeStill, ZenonT(60)
<1>5. \A u \in Tids : CoreSame(Record(u)', Record(u))
  BY <1>2, <1>3, Zenon DEF Record, CoreSame, Kept
<1> QED BY <1>2, <1>4, <1>5, SameGood, ZenonT(60)

LEMMA FastGood ==
    ASSUME WaitInv, NEW t \in Tids, FastLock(t) \/ FastUnlock(t)
    PROVE  WaitInv'
<1>1. /\ TypeInv /\ table \in [Tids -> Rec] /\ out \in [Tids -> Rec \cup {NotOut}]
      /\ DOMAIN word = Keys \cup PiKeys /\ \A k \in PiKeys : word[k] \in Lock
  BY DEF WaitInv, TypeInv
<1>2. load' = load /\ out' = out /\ table' = table /\ moved' = moved
  BY DEF FastLock, FastUnlock, plain
<1> DEFINE w == [Unlocked EXCEPT !.owner = t]
<1>3. w \in Lock /\ Unlocked \in Lock
  BY Zenon DEF Unlocked, Lock
<1>4. PICK k \in PiKeys, x \in {w, Unlocked} : word' = [word EXCEPT ![k] = x]
  BY DEF FastLock, FastUnlock
<1> HIDE DEF w
<1>5. DOMAIN word' = DOMAIN word /\ \A j \in PiKeys : word'[j] \in Lock
  BY <1>1, <1>3, <1>4, Zenon
<1>6. TypeInv'
  BY <1>1, <1>2, <1>5, TypeStill, ZenonT(60)
<1>7. \A u \in Tids : Record(u)' = Record(u)
  BY <1>2, Zenon DEF Record
<1> QED BY <1>2, <1>6, <1>7, SameGood, ZenonT(60) DEF CoreSame, Kept

LEMMA ReturnGood ==
    ASSUME WaitInv, NEW t \in Tids, Sigreturn(t) \/ SysExit(t)
    PROVE  WaitInv'
<1>1. /\ TypeInv /\ table \in [Tids -> Rec] /\ out \in [Tids -> Rec \cup {NotOut}]
      /\ \A k \in PiKeys : word[k] \in Lock
  BY DEF WaitInv, TypeInv
<1>2. /\ out[t] # NotOut /\ out[t].call = NoCall /\ ~out[t].dead
      /\ load' = load /\ table' = table /\ word' = word /\ moved' = moved
  BY DEF Sigreturn, SysExit, InGuest, plain
<1>3. out[t] \in Rec
  BY <1>1, <1>2
<1>4. Good(t, out[t], moved)
  BY <1>2, Zenon DEF WaitInv, Record
<1>5. ASSUME NEW a \in Rec, out' = [out EXCEPT ![t] = a], Good(t, a, moved) PROVE WaitInv'
  <2>1. Record(t)' = a /\ out' \in [Tids -> Rec \cup {NotOut}] /\ \A u \in Tids \ {t} : Record(u)' = Record(u)
    BY <1>1, <1>2, <1>5, Changes, Zenon
  <2>2. TypeInv'
    BY <1>1, <1>2, <2>1, TypeStill, Zenon
  <2>3. \A u \in Tids : Good(u, Record(u)', moved')
    BY <1>2, <1>5, <2>1, Zenon DEF WaitInv
  <2> QED BY <1>2, <2>2, <2>3, GoodStep, Zenon
<1>6. CASE SysExit(t)
  <2> DEFINE a == [out[t] EXCEPT !.dead = TRUE]
  <2>1. out' = [out EXCEPT ![t] = a] /\ "exit" \in load.ops
    BY <1>6 DEF SysExit
  <2>2. a \in Rec
    BY <1>3, Zenon DEF Rec
  <2>3. a.dead /\ Kept(a, out[t]) /\ a.call = out[t].call /\ a.saved = out[t].saved /\ a.handler = out[t].handler
    BY <1>3 DEF Rec, Kept
  <2> HIDE DEF a
  <2>4. Good(t, a, moved)
    BY <1>4, <2>1, <2>3, Zenon DEF Good, WaitShape, CallShape, WaitersSurvive, Kept
  <2> QED BY <1>5, <2>1, <2>2, <2>4, Zenon
<1>7. CASE Sigreturn(t)
  <2> DEFINE c == out[t].saved
             a == [out[t] EXCEPT !.handler = FALSE, !.call = c, !.saved = NoCall]
  <2>1. out' = [out EXCEPT ![t] = a]
    BY <1>7, Zenon DEF Sigreturn
  <2>2. c \in Call \cup {NoCall}
    BY <1>3 DEF Rec
  <2> HIDE DEF c
  <2>3. a \in Rec /\ Kept(a, out[t]) /\ a.dead = out[t].dead /\ ~a.handler /\ a.call = c /\ a.saved = NoCall
    BY <1>3, <2>2, Zenon DEF Rec, Kept
  <2> HIDE DEF a
  <2>4. WaitShape(a)
    BY <1>4, <2>3, Zenon DEF Good, WaitShape, Kept
  <2>5. CallShape(a)
    BY <1>4, <2>3, CallIsCall, Zenon DEF Good, CallShape, c
  <2>6. AtWait(t, a, moved)
    BY <1>2, <1>4, <2>3, CallIsCall, Zenon DEF Good, AtWait, Kept, c
  <2> QED BY <1>5, <2>1, <2>3, <2>4, <2>5, <2>6, ZenonT(60) DEF Good
<1> QED BY <1>6, <1>7

LEMMA CallerGood ==
    ASSUME NEW t, NEW M, NEW me \in Rec, me.call = NoCall, ~me.dead, Good(t, me, M)
    PROVE  LET a == AfterCall(me, NoCall, "ok") IN a \in Rec /\ Good(t, a, M)
<1>1. WaitShape(me) /\ CallShape(me) /\ AtWait(t, me, M)
  BY DEF Good
<1>2. /\ me.saved \in WaitCall => Waits
      /\ "lock" \notin load.ops => me.saved \notin LockCall
      /\ ~me.handler => me.saved = NoCall
  BY <1>1, Zenon DEF CallShape
<1> QED BY <1>1, <1>2, GoodCall, Zenon

LEMMA MoreMoved ==
    ASSUME NEW t, NEW r, NEW M, NEW N, M \subseteq N, Good(t, r, M)
    PROVE  Good(t, r, N)
BY Zenon DEF Good, AtWait

\* A waiter that is woken.
LEMMA WokenGood ==
    ASSUME NEW u, NEW r, NEW a, NEW M, Good(u, r, M), a.dead = r.dead, a.call = r.call, a.saved = r.saved,
           a.handler = r.handler, a.wait = r.wait, a.pi = r.pi, a.wait # NoKey
    PROVE  Good(u, a, M)
BY Zenon DEF Good, WaitShape, CallShape, AtWait

LEMMA WakeUpGood ==
    ASSUME WaitInv, NEW S, table' = WakeUp(table, S), \A u \in S : table[u].wait # NoKey
    PROVE  /\ table' \in [Tids -> Rec]
           /\ \A u \in Tids : Good(u, table[u], moved) => Good(u, table'[u], moved)
<1>1. table \in [Tids -> Rec]
  BY DEF WaitInv, TypeInv
<1>2. table' \in [Tids -> Rec]
  <2>1. Woke(table', table, S)
    BY <1>1, WakeUpRec, Zenon
  <2> QED BY <2>1, Zenon DEF Woke
<1>3. \A u \in Tids : u \notin S => table'[u] = table[u]
  <2>1. Woke(table', table, S)
    BY <1>1, WakeUpRec, Zenon
  <2> QED BY <2>1, ZenonT(60) DEF Woke
<1>4. \A u \in Tids : /\ table'[u].dead = table[u].dead /\ table'[u].call = table[u].call
                      /\ table'[u].saved = table[u].saved /\ table'[u].handler = table[u].handler
                      /\ table'[u].wait = table[u].wait /\ table'[u].pi = table[u].pi
  <2>1. Woke(table', table, S)
    BY <1>1, WakeUpRec, Zenon
  <2> QED BY <2>1, ZenonT(60) DEF Woke
<1>5. ASSUME NEW u \in Tids, Good(u, table[u], moved) PROVE Good(u, table'[u], moved)
  <2>1. CASE u \in S
    BY <1>4, <1>5, <2>1, WokenGood, ZenonT(60)
  <2>2. CASE u \notin S
    BY <1>3, <1>5, <2>2, ZenonT(60)
  <2> QED BY <2>1, <2>2, Zenon
<1> QED BY <1>2, <1>5, Zenon

\* A call of t that leaves every other task's record good.
LEMMA CallGood ==
    ASSUME WaitInv, NEW t \in Tids, out[t] # NotOut, out[t].call = NoCall, ~out[t].dead,
           out' = [out EXCEPT ![t] = AfterCall(out[t], NoCall, "ok")], load' = load,
           moved \subseteq moved', table' \in [Tids -> Rec],
           \A u \in Tids : Good(u, table[u], moved) => Good(u, table'[u], moved'),
           DOMAIN word' = DOMAIN word, \A k \in PiKeys : word'[k] \in Lock
    PROVE  WaitInv'
<1> DEFINE a == AfterCall(out[t], NoCall, "ok")
<1>1. TypeInv /\ out[t] \in Rec
  BY Zenon DEF WaitInv, TypeInv
<1>2. Good(t, out[t], moved)
  BY Zenon DEF WaitInv, Record
<1>3. a \in Rec /\ Good(t, a, moved)
  BY <1>1, <1>2, CallerGood, Zenon
<1> HIDE DEF a
<1>4. out' = [out EXCEPT ![t] = a]
  BY Zenon DEF a
<1>5. Record(t)' = a /\ out' \in [Tids -> Rec \cup {NotOut}]
  BY <1>1, <1>3, <1>4, Changes, Zenon
<1>6. \A u \in Tids \ {t} : Record(u)' = Record(u) \/ (Record(u) = table[u] /\ Record(u)' = table'[u])
  BY <1>1, <1>3, <1>4, Changes, Zenon
<1>7. Good(t, Record(t)', moved')
  BY <1>3, <1>5, MoreMoved, Zenon
<1>8. ASSUME NEW u \in Tids \ {t} PROVE Good(u, Record(u)', moved')
  <2>1. Good(u, Record(u), moved)
    BY Zenon DEF WaitInv
  <2>2. Good(u, Record(u), moved')
    BY <2>1, MoreMoved, Zenon
  <2> QED BY <1>6, <2>1, <2>2, Zenon
<1>9. TypeInv'
  BY <1>1, <1>5, TypeStill, Zenon
<1> QED BY <1>7, <1>8, <1>9, GoodStep, ZenonT(60)

LEMMA WakeGood ==
    ASSUME WaitInv, NEW t \in Tids, SysWake(t)
    PROVE  WaitInv'
<1>1. /\ out[t] # NotOut /\ out[t].call = NoCall /\ ~out[t].dead
      /\ out' = [out EXCEPT ![t] = AfterCall(out[t], NoCall, "ok")]
      /\ load' = load /\ word' = word /\ moved' = moved
  BY Zenon DEF SysWake, InGuest
<1>2. PICK k \in Keys : table' = WakeUp(table, FirstN(Waiting(table, k), 1))
  BY DEF SysWake, FutexWakeKey
<1> DEFINE S == FirstN(Waiting(table, k), 1)
<1>3. \A u \in S : table[u].wait # NoKey
  BY FutexAssumption, Zenon DEF FirstN, Waiting, NoKey
<1> HIDE DEF S
<1>4. table' = WakeUp(table, S)
  BY <1>2 DEF S
<1>5. table' \in [Tids -> Rec] /\ \A u \in Tids : Good(u, table[u], moved) => Good(u, table'[u], moved)
  BY <1>3, <1>4, WakeUpGood, Zenon
<1>6. DOMAIN word' = DOMAIN word /\ \A j \in PiKeys : word'[j] \in Lock
  BY <1>1, Zenon DEF WaitInv, TypeInv
<1> QED BY <1>1, <1>5, <1>6, CallGood, Zenon

LEMMA UnlockWord ==
    ASSUME NEW k
    PROVE  FutexUnlockPi(k).word \in Lock
<1> DEFINE S == Parked(table, k)
           F == FirstN(S, 1)
           w == FutexUnlockPi(k).word
<1>1. S \in SUBSET Tids
  BY DEF Parked, Seen
<1>2. w = IF S = {} THEN Unlocked
          ELSE [owner |-> CHOOSE u \in F : TRUE, waiters |-> Cardinality(S) > 1, died |-> FALSE]
  BY Zenon DEF FutexUnlockPi
<1> HIDE DEF S, w
<1>3. CASE S = {}
  BY <1>2, <1>3, SMTT(60) DEF Unlocked, Lock, w
<1>4. CASE S # {}
  <2>1. PICK o \in S : F = {o}
    BY <1>1, <1>4, FirstOne, Zenon
  <2>2. (CHOOSE u \in F : TRUE) = o
    BY <2>1, Zenon
  <2> DEFINE many == Cardinality(S) > 1
  <2>3. many \in BOOLEAN
    OBVIOUS
  <2>4. w = [owner |-> o, waiters |-> many, died |-> FALSE]
    BY <1>2, <1>4, <2>2, Zenon
  <2> HIDE DEF many
  <2> QED BY <1>1, <2>3, <2>4 DEF Lock, w
<1> QED BY <1>3, <1>4, Zenon

LEMMA UnlockGood ==
    ASSUME WaitInv, NEW t \in Tids, SysUnlockPi(t)
    PROVE  WaitInv'
<1>1. /\ out[t] # NotOut /\ out[t].call = NoCall /\ ~out[t].dead
      /\ out' = [out EXCEPT ![t] = AfterCall(out[t], NoCall, "ok")]
      /\ load' = load /\ moved' = moved
  BY Zenon DEF SysUnlockPi, InMain, InGuest, plain
<1>2. PICK k \in PiKeys : /\ table' = FutexUnlockPi(k).table
                          /\ word' = [word EXCEPT ![k] = FutexUnlockPi(k).word]
  BY Zenon DEF SysUnlockPi
<1> DEFINE S == FirstN(Parked(table, k), 1)
           w == FutexUnlockPi(k).word
<1>3. table' = WakeUp(table, S)
  BY <1>2, Zenon DEF FutexUnlockPi
<1>4. \A u \in S : table[u].wait # NoKey
  BY FutexAssumption, Zenon DEF FirstN, Parked, NoKey
<1>5. w \in Lock
  BY UnlockWord, Zenon
<1> HIDE DEF S, w
<1>6. table' \in [Tids -> Rec] /\ \A u \in Tids : Good(u, table[u], moved) => Good(u, table'[u], moved)
  BY <1>3, <1>4, WakeUpGood, Zenon
<1>7. word' = [word EXCEPT ![k] = w]
  BY <1>2, Zenon DEF w
<1>8. DOMAIN word' = DOMAIN word /\ \A j \in PiKeys : word'[j] \in Lock
  BY <1>5, <1>7, Zenon DEF WaitInv, TypeInv
<1> QED BY <1>1, <1>6, <1>8, CallGood, Zenon

\* A waiter that is moved to another word.
LEMMA MovedGood ==
    ASSUME NEW u, NEW r, NEW a, NEW M, Good(u, r, M), a.dead = r.dead, a.call = r.call, a.saved = r.saved,
           a.handler = r.handler, a.pi = r.pi, r.wait \in Keys, a.wait \in Keys
    PROVE  Good(u, a, M \cup {u})
<1>1. /\ r.wait # NoKey /\ r.wait \notin PiKeys
      /\ a.wait # NoKey /\ a.wait \notin PiKeys
  BY FutexAssumption, Zenon DEF NoKey
<1>2. WaitShape(a)
  BY <1>1, Zenon DEF Good, WaitShape
<1>3. CallShape(a)
  BY Zenon DEF Good, CallShape
<1>4. ~a.dead => AtWait(u, a, M \cup {u})
  BY <1>1, Zenon DEF Good, AtWait
<1> QED BY <1>2, <1>3, <1>4, ZenonT(60) DEF Good

LEMMA RequeueGood ==
    ASSUME WaitInv, NEW t \in Tids, SysRequeue(t)
    PROVE  WaitInv'
<1> DEFINE waiters(f) == {u \in Seen : table[u].wait = f /\ ~table[u].woken}
           woke(f) == FirstN(waiters(f), 1)
           gone(f) == FirstN(waiters(f) \ woke(f), 1)
           T(f, g) == FutexRequeueKeys(table, f, g, 1, 1).table
<1>1. table \in [Tids -> Rec] /\ DOMAIN word = Keys \cup PiKeys /\ \A k \in PiKeys : word[k] \in Lock
  BY DEF WaitInv, TypeInv
<1>2. /\ out[t] # NotOut /\ out[t].call = NoCall /\ ~out[t].dead
      /\ out' = [out EXCEPT ![t] = AfterCall(out[t], NoCall, "ok")]
      /\ load' = load /\ word' = word
  BY Zenon DEF SysRequeue, InGuest
<1>3. PICK from, to \in Keys :
        table' = T(from, to) /\ moved' = moved \cup {u \in Tids : T(from, to)[u].wait # table[u].wait}
  BY Zenon DEF SysRequeue
<1> DEFINE S == woke(from)
           M == gone(from)
           w == WakeUp(table, S)
           b(r) == [r EXCEPT !.wait = to]
<1>4. \A u \in S \cup M : u \in Tids /\ table[u].wait = from
  BY DEF FirstN, Seen
<1>5. table' = [u \in Tids |-> IF u \in M THEN b(w[u]) ELSE w[u]]
  BY <1>3, Zenon DEF FutexRequeueKeys
<1>6. moved' = moved \cup {u \in Tids : table'[u].wait # table[u].wait}
  BY <1>3, Zenon
<1>7. \A r \in Rec : /\ b(r) \in Rec /\ b(r).wait = to /\ b(r).pi = r.pi /\ b(r).dead = r.dead
                     /\ b(r).call = r.call /\ b(r).saved = r.saved /\ b(r).handler = r.handler
  BY DEF Rec
<1> HIDE DEF S, M, w, b, T
<1>8. w \in [Tids -> Rec]
  <2>1. Woke(w, table, S)
    BY <1>1, WakeUpRec, Zenon DEF w
  <2> QED BY <2>1, Zenon DEF Woke
<1>9. \A u \in Tids : u \notin S => w[u] = table[u]
  <2>1. Woke(w, table, S)
    BY <1>1, WakeUpRec, Zenon DEF w
  <2> QED BY <2>1, ZenonT(60) DEF Woke
<1>10. \A u \in Tids : /\ w[u].dead = table[u].dead /\ w[u].call = table[u].call
                       /\ w[u].saved = table[u].saved /\ w[u].handler = table[u].handler
                       /\ w[u].wait = table[u].wait /\ w[u].pi = table[u].pi
  <2>1. Woke(w, table, S)
    BY <1>1, WakeUpRec, Zenon DEF w
  <2> QED BY <2>1, ZenonT(60) DEF Woke
<1>11. table' \in [Tids -> Rec]
  BY <1>5, <1>7, <1>8
<1>12. \A u \in Tids : /\ table'[u].dead = table[u].dead /\ table'[u].call = table[u].call
                       /\ table'[u].saved = table[u].saved /\ table'[u].handler = table[u].handler
                       /\ table'[u].pi = table[u].pi /\ table'[u].wait \in {table[u].wait, to}
  BY <1>5, <1>7, <1>8, <1>10
<1>13. \A u \in Tids : u \notin S \cup M => table'[u] = table[u]
  BY <1>5, <1>9
<1>14. ASSUME NEW u \in Tids, Good(u, table[u], moved) PROVE Good(u, table'[u], moved')
  <2>1. CASE u \notin S \cup M
    BY <1>6, <1>13, <1>14, <2>1, MoreMoved, ZenonT(60)
  <2>2. CASE u \in S \cup M /\ table'[u].wait = table[u].wait
    <3>1. table'[u].wait # NoKey
      BY <1>4, <2>2, FutexAssumption, ZenonT(60) DEF NoKey
    <3>2. Good(u, table'[u], moved)
      BY <1>12, <1>14, <2>2, <3>1, WokenGood, ZenonT(60)
    <3> QED BY <1>6, <3>2, MoreMoved, ZenonT(60)
  <2>3. CASE u \in S \cup M /\ table'[u].wait # table[u].wait
    <3>1. table[u].wait \in Keys /\ table'[u].wait \in Keys /\ moved \cup {u} \subseteq moved'
      BY <1>4, <1>6, <1>12, <2>3, ZenonT(60)
    <3>2. Good(u, table'[u], moved \cup {u})
      BY <1>12, <1>14, <3>1, MovedGood, ZenonT(60)
    <3> QED BY <3>1, <3>2, MoreMoved, Zenon
  <2> QED BY <2>1, <2>2, <2>3, Zenon
<1>15. moved \subseteq moved' /\ DOMAIN word' = DOMAIN word /\ \A k \in PiKeys : word'[k] \in Lock
  BY <1>1, <1>2, <1>6, Zenon
<1> QED BY <1>2, <1>11, <1>14, <1>15, CallGood, ZenonT(60)

\* The call SysWait makes.
WaitOf(t, c) ==
    /\ out[t].call # NoCall => c = out[t].call
    /\ out[t].call = NoCall => Waits
    /\ LET r == FutexWait(t, out[t], c)
           me == AfterCall(r.me, c, r.ret)
       IN  /\ out' = [out EXCEPT ![t] = me]
           /\ moved' = IF me.wait = NoKey THEN moved \ {t} ELSE moved
           /\ consumed' = consumed + (IF out[t].woken THEN 1 ELSE 0)

LEMMA WaitMade ==
    ASSUME NEW t, SysWait(t)
    PROVE  \E c \in WaitCall : WaitOf(t, c)
<1>1. PICK c \in WaitCalls :
        /\ IF out[t].call # NoCall THEN c = out[t].call
           ELSE /\ (IF c.timed THEN "timed" ELSE "wait") \in load.ops
                /\ c.val <= word[c.key]
        /\ LET r == FutexWait(t, out[t], c)
               me == AfterCall(r.me, c, r.ret)
           IN  /\ out' = [out EXCEPT ![t] = me]
               /\ moved' = IF me.wait = NoKey THEN moved \ {t} ELSE moved
               /\ consumed' = consumed + (IF out[t].woken THEN 1 ELSE 0)
  BY Zenon DEF SysWait
<1>2. c \in WaitCall
  BY WaitIsCall
<1>3. out[t].call = NoCall => Waits
  BY <1>1, Zenon DEF Waits
<1>4. WaitOf(t, c)
  BY <1>1, <1>3, Zenon DEF WaitOf
<1> QED BY <1>2, <1>4

\* What futex_wait leaves in the record, and why it blocks.
LEMMA WaitRecord ==
    ASSUME NEW t, NEW M, NEW me \in Rec, ~me.dead, Good(t, me, M), NEW c \in WaitCall, Waits,
           me.call # NoCall => c = me.call
    PROVE  LET r == FutexWait(t, me, c)
           IN  /\ WaitShape(r.me)
               /\ r.ret = "block" /\ me.saved = NoCall => r.me.wait \in {NoKey, c.key} \/ t \in M
               /\ r.ret = "block" /\ me.saved = NoCall => word[c.key] = c.val \/ t \in M
<1> DEFINE r == FutexWait(t, me, c)
           m == r.me
<1>1. /\ m \in Rec /\ m.dead = me.dead /\ m.saved = me.saved
      /\ m.handler = me.handler /\ m.sig = me.sig
  <2>1. WaitLeaves(r, me, c)
    BY FutexWaitRec, Zenon
  <2> QED BY <2>1, Zenon DEF WaitLeaves
<1>2. r.ret # "block" => Dropped(m)
  <2>1. WaitLeaves(r, me, c)
    BY FutexWaitRec, Zenon
  <2> QED BY <2>1, Zenon DEF WaitLeaves
<1>3. r.ret = "block" => m.pi = me.pi /\ m.wait # NoKey /\ m.wait \in {me.wait, c.key}
  <2>1. WaitLeaves(r, me, c)
    BY FutexWaitRec, Zenon
  <2> QED BY <2>1, Zenon DEF WaitLeaves
<1>4. r.ret = "block" => me.wait \notin {NoKey, c.key} \/ word[c.key] = c.val
  BY DEF FutexWait, Return, Block
<1>5. r.ret = "block" => m.wait = me.wait \/ me.wait = NoKey
  <2> DEFINE armed == [me EXCEPT !.deadline = IF c.timed /\ @ = "none" THEN "armed" ELSE @]
  <2>1. r.ret = "block" => m = armed \/ (me.wait \in {NoKey, c.key} /\ m = [armed EXCEPT !.wait = c.key])
    BY DEF FutexWait, Return, Block
  <2>2. armed.wait = me.wait /\ [armed EXCEPT !.wait = c.key].wait = c.key
    BY DEF Rec
  <2> HIDE DEF armed, r
  <2> QED BY <2>1, <2>2, ZenonT(60)
<1> HIDE DEF r, m
<1>6. c.key \in Keys /\ c.key # NoKey /\ c.key \notin PiKeys
  BY CallIsCall, FutexAssumption, ZenonT(60) DEF NoKey
<1>7. WaitShape(me) /\ AtWait(t, me, M)
  BY DEF Good
<1>8. WaitShape(m)
  <2>1. CASE r.ret # "block"
    BY <1>1, <1>2, <2>1, FutexAssumption, ZenonT(60) DEF WaitShape, Dropped, NoKey
  <2>2. CASE r.ret = "block"
    BY <1>1, <1>3, <1>5, <1>6, <1>7, <2>2, FutexAssumption, ZenonT(60) DEF WaitShape, NoKey
  <2> QED BY <2>1, <2>2, Zenon
<1>9. me.saved = NoCall => me.wait \in {NoKey, c.key} \/ t \in M
  BY <1>7, ZenonT(60) DEF AtWait
<1> QED BY <1>3, <1>4, <1>8, <1>9, ZenonT(60) DEF m, r

LEMMA WaitGood ==
    ASSUME WaitInv, NEW t \in Tids, SysWait(t)
    PROVE  WaitInv'
<1>1. TypeInv /\ table \in [Tids -> Rec] /\ \A k \in PiKeys : word[k] \in Lock
  BY DEF WaitInv, TypeInv
<1>2. out[t] # NotOut /\ ~out[t].dead /\ load' = load /\ table' = table /\ word' = word
  BY Zenon DEF SysWait
<1>3. PICK c \in WaitCall : WaitOf(t, c)
  BY WaitMade, Zenon
<1> DEFINE me == out[t]
           r == FutexWait(t, me, c)
           m == r.me
           a == AfterCall(m, c, r.ret)
<1>4. me \in Rec /\ Good(t, me, moved)
  BY <1>1, <1>2, ZenonT(60) DEF WaitInv, TypeInv, Record
<1>5. /\ me.call # NoCall => c = me.call
      /\ me.call = NoCall => Waits
  BY <1>3 DEF WaitOf
<1>6. out' = [out EXCEPT ![t] = a] /\ moved' = IF a.wait = NoKey THEN moved \ {t} ELSE moved
  BY <1>3, Zenon DEF WaitOf
<1>7. Waits
  BY <1>4, <1>5, ZenonT(60) DEF Good, CallShape
<1>8. m \in Rec /\ m.dead = me.dead /\ m.saved = me.saved /\ m.handler = me.handler
  <2>1. WaitLeaves(r, me, c)
    BY <1>4, FutexWaitRec, Zenon
  <2> QED BY <2>1, Zenon DEF WaitLeaves
<1>9. r.ret # "block" => m.wait = NoKey
  <2>1. WaitLeaves(r, me, c)
    BY <1>4, FutexWaitRec, Zenon
  <2> QED BY <2>1, Zenon DEF WaitLeaves, Dropped
<1>10. WaitShape(m)
  BY <1>2, <1>4, <1>5, <1>7, WaitRecord, ZenonT(60)
<1>11. r.ret = "block" /\ me.saved = NoCall => m.wait \in {NoKey, c.key} \/ t \in moved
  BY <1>2, <1>4, <1>5, <1>7, WaitRecord, ZenonT(60)
<1> HIDE DEF r, m
<1>12. /\ m.saved \in WaitCall => Waits
       /\ "lock" \notin load.ops => m.saved \notin LockCall
       /\ ~m.handler => m.saved = NoCall
  BY <1>4, <1>8, Zenon DEF Good, CallShape
<1>13. c \in Call /\ c \notin LockCall
  BY CallIsCall, Zenon DEF Call
<1>14. a \in Rec /\ Good(t, a, moved)
  BY <1>2, <1>7, <1>8, <1>9, <1>10, <1>11, <1>12, <1>13, GoodCall, ZenonT(60)
<1> HIDE DEF a
<1>15. Good(t, a, moved')
  BY <1>6, <1>14, Zenon DEF Good, AtWait
<1>16. Record(t)' = a /\ out' \in [Tids -> Rec \cup {NotOut}] /\ \A u \in Tids \ {t} : Record(u)' = Record(u)
  BY <1>1, <1>2, <1>6, <1>14, Changes, ZenonT(60)
<1>17. \A u \in Tids \ {t} : Good(u, Record(u), moved')
  BY <1>6, Zenon DEF WaitInv, Good, AtWait
<1>18. TypeInv'
  BY <1>1, <1>2, <1>16, TypeStill, Zenon
<1> QED BY <1>2, <1>15, <1>16, <1>17, <1>18, GoodStep, ZenonT(60)

\* The call SysLockPi makes.
LockOf(t, c) ==
    /\ out[t].call # NoCall => c = out[t].call
    /\ out[t].call = NoCall => "lock" \in load.ops
    /\ LET r == FutexLockPi(t, out[t], c)
       IN  /\ out' = [out EXCEPT ![t] = AfterCall(r.me, c, r.ret)]
           /\ word' = [word EXCEPT ![c.key] = r.word]

LEMMA LockMade ==
    ASSUME NEW t, SysLockPi(t)
    PROVE  \E c \in PiCall : LockOf(t, c)
<1>1. \E c \in PiCalls : LockOf(t, c)
  BY Zenon DEF SysLockPi, LockOf
<1> DEFINE timed == "timedlock" \in load.ops
<1>2. timed \in BOOLEAN
  OBVIOUS
<1> HIDE DEF timed
<1>3. PiCalls \subseteq PiCall
  <2>1. {[op |-> op, key |-> k, timed |-> timed] : op \in {"lock", "trylock"}, k \in PiKeys} \subseteq PiCall
    BY <1>2 DEF PiCall
  <2> QED BY <2>1 DEF PiCalls, timed
<1> QED BY <1>1, <1>3, ZenonT(60)

LEMMA LockGood ==
    ASSUME WaitInv, NEW t \in Tids, SysLockPi(t)
    PROVE  WaitInv'
<1>1. /\ TypeInv /\ table \in [Tids -> Rec] /\ DOMAIN word = Keys \cup PiKeys
      /\ \A k \in PiKeys : word[k] \in Lock
  BY DEF WaitInv, TypeInv
<1>2. out[t] # NotOut /\ ~out[t].dead /\ load' = load /\ table' = table /\ moved' = moved
  BY Zenon DEF SysLockPi, plain
<1>3. PICK c \in PiCall : LockOf(t, c)
  BY LockMade
<1> DEFINE me == out[t]
           r == FutexLockPi(t, me, c)
           m == r.me
           a == AfterCall(m, c, r.ret)
<1>4. me \in Rec /\ Good(t, me, moved) /\ c.key \in PiKeys /\ c.op \in {"lock", "trylock"}
  BY <1>1, <1>2, Zenon DEF WaitInv, TypeInv, Record, PiCall
<1>5. /\ me.call # NoCall => c = me.call
      /\ me.call = NoCall => "lock" \in load.ops
  BY <1>3, Zenon DEF LockOf
<1>6. out' = [out EXCEPT ![t] = a] /\ word' = [word EXCEPT ![c.key] = r.word]
  BY <1>3, Zenon DEF LockOf
<1>7. m \in Rec /\ m.dead = me.dead /\ m.saved = me.saved /\ m.handler = me.handler /\ r.word \in Lock
  BY <1>1, <1>4, FutexLockPiRec, Zenon
<1>8. Taken(t, me, c.key, r) \/ Refused(t, me, c, r) \/ Waited(t, me, c, r)
  BY <1>1, <1>4, FutexLockPiRec, Zenon
<1> HIDE DEF r, m
<1>9. c.op = "lock" => c \in LockCall
  BY DEF PiCall, LockCall
<1>10. c \notin WaitCall
  BY <1>4, CallIsCall, Zenon
<1>11. me.call \in Call \cup {NoCall}
  BY <1>4, Zenon DEF Rec
<1>12. c.op = "trylock" => me.call = NoCall
  BY <1>5, <1>11, CallIsCall, ZenonT(60) DEF Call
<1>13. "lock" \in load.ops
  BY <1>4, <1>5, <1>9, <1>12, Zenon DEF Good, CallShape
<1>14. Dropped(m) \/ (r.ret # "block" /\ m = me /\ me.call = NoCall)
         \/ (r.ret = "block" /\ c.op = "lock" /\ m.pi /\ m.wait = c.key /\ ~m.woken)
  BY <1>8, <1>12, Zenon DEF Taken, Refused, Waited, m
<1>15. r.ret = "block" => c \in LockCall
  BY <1>8, <1>9, Zenon DEF Taken, Refused, Waited
<1>16. WaitShape(m)
  <2>1. CASE Dropped(m)
    BY <2>1, FutexAssumption, Zenon DEF WaitShape, Dropped, NoKey
  <2>2. CASE m = me
    BY <1>4, <2>2, Zenon DEF Good
  <2>3. CASE m.pi /\ m.wait = c.key /\ ~m.woken
    BY <1>4, <1>13, <2>3, FutexAssumption, ZenonT(60) DEF WaitShape, NoKey
  <2> QED BY <1>14, <2>1, <2>2, <2>3, ZenonT(60)
<1>17. /\ m.saved \in WaitCall => Waits
       /\ "lock" \notin load.ops => m.saved \notin LockCall
       /\ ~m.handler => m.saved = NoCall
  BY <1>4, <1>7, Zenon DEF Good, CallShape
<1>18. r.ret # "block" => m.wait = NoKey \/ (m.call = NoCall /\ AtWait(t, m, moved))
  BY <1>2, <1>4, <1>14, Zenon DEF Dropped, Good
<1>19. a \in Rec /\ Good(t, a, moved)
  BY <1>2, <1>7, <1>10, <1>13, <1>15, <1>16, <1>17, <1>18, GoodCall, ZenonT(60) DEF Call
<1> HIDE DEF a
<1>20. Record(t)' = a /\ out' \in [Tids -> Rec \cup {NotOut}] /\ \A u \in Tids \ {t} : Record(u)' = Record(u)
  BY <1>1, <1>2, <1>6, <1>19, Changes, ZenonT(60)
<1>21. DOMAIN word' = DOMAIN word /\ \A k \in PiKeys : word'[k] \in Lock
  BY <1>1, <1>4, <1>6, <1>7, Zenon
<1>22. TypeInv'
  BY <1>1, <1>2, <1>20, <1>21, TypeStill, ZenonT(60)
<1>23. \A u \in Tids : Good(u, Record(u)', moved')
  BY <1>2, <1>19, <1>20, Zenon DEF WaitInv
<1> QED BY <1>2, <1>22, <1>23, GoodStep, ZenonT(60)

LEMMA WaitNext ==
    ASSUME WaitInv, [Next]_vars
    PROVE  WaitInv'
<1>1. ASSUME NEW t \in Tids, Begin(t) PROVE WaitInv'
  BY <1>1, BeginGood, Zenon
<1>2. ASSUME NEW t \in Tids, End(t) PROVE WaitInv'
  BY <1>2, EndGood, Zenon
<1>3. ASSUME Quiet PROVE WaitInv'
  BY <1>3, QuietGood, Zenon
<1>4. ASSUME NEW t \in Tids, SysWait(t) PROVE WaitInv'
  BY <1>4, WaitGood
<1>5. ASSUME NEW t \in Tids, SysWake(t) PROVE WaitInv'
  BY <1>5, WakeGood
<1>6. ASSUME NEW t \in Tids, SysRequeue(t) PROVE WaitInv'
  BY <1>6, RequeueGood
<1>7. ASSUME NEW t \in Tids, SysLockPi(t) PROVE WaitInv'
  BY <1>7, LockGood
<1>8. ASSUME NEW t \in Tids, SysUnlockPi(t) PROVE WaitInv'
  BY <1>8, UnlockGood
<1>9. ASSUME NEW t \in Tids, FastLock(t) \/ FastUnlock(t) PROVE WaitInv'
  BY <1>9, FastGood, Zenon
<1>10. ASSUME NEW t \in Tids, Sigreturn(t) \/ SysExit(t) PROVE WaitInv'
  BY <1>10, ReturnGood, Zenon
<1> QED BY <1>1, <1>2, <1>3, <1>4, <1>5, <1>6, <1>7, <1>8, <1>9, <1>10, ZenonT(60) DEF Next, Quiet

-------------------------------------------------------------------------------
(* Who blocks.                                                             *)

\* A call that leaves its task blocked is the one it is blocked in.
LEMMA BlocksIn ==
    ASSUME NEW m \in Rec, ~m.blocked, NEW c, NEW ret, AfterCall(m, c, ret).blocked
    PROVE  LET a == AfterCall(m, c, ret)
           IN  ret = "block" /\ a.call = c /\ a.saved = m.saved
<1> DEFINE a == AfterCall(m, c, ret)
           cut == ret = "block" /\ (m.sig # "none" /\ ~m.handler) /\ m.sig # "restart"
           d == IF cut THEN FutexDone(m) ELSE m
<1>1. d \in Rec /\ ~d.blocked /\ (~cut => d = m)
  <2>1. FutexDone(m).blocked = m.blocked
    BY DEF FutexDone, Rec
  <2> QED BY <2>1, DoneRec, Zenon
<1>2. \/ a = [m EXCEPT !.call = NoCall, !.dead = TRUE]
      \/ ret = "block" /\ ~cut /\ a = [d EXCEPT !.call = c, !.blocked = TRUE]
      \/ \E x : a = [d EXCEPT !.call = NoCall, !.deadline = "none", !.sig = "none", !.handler = TRUE, !.saved = x]
      \/ a = [d EXCEPT !.call = NoCall, !.deadline = "none"]
  BY Zenon DEF AfterCall
<1> HIDE DEF a, d, cut
<1>3. a # [m EXCEPT !.call = NoCall, !.dead = TRUE]
  BY Zenon DEF Rec, a
<1>4. ~ \E x : a = [d EXCEPT !.call = NoCall, !.deadline = "none", !.sig = "none", !.handler = TRUE, !.saved = x]
  BY <1>1, Zenon DEF Rec, a
<1>5. a # [d EXCEPT !.call = NoCall, !.deadline = "none"]
  BY <1>1, Zenon DEF Rec, a
<1>6. ret = "block" /\ d = m /\ a = [m EXCEPT !.call = c, !.blocked = TRUE]
  BY <1>1, <1>2, <1>3, <1>4, <1>5, Zenon
<1>7. a.call = c /\ a.saved = m.saved
  BY <1>6 DEF Rec
<1> QED BY <1>6, <1>7, Zenon DEF a

\* The calls leave it to Kernel::service to block their task.
LEMMA BlockedKept ==
    ASSUME NEW t, NEW me \in Rec, NEW c
    PROVE  FutexWait(t, me, c).me.blocked = me.blocked /\ FutexLockPi(t, me, c).me.blocked = me.blocked
<1> DEFINE r == FutexWait(t, me, c)
           q == FutexLockPi(t, me, c)
           d == IF c.timed /\ me.deadline = "none" THEN "armed" ELSE me.deadline
           armed == [me EXCEPT !.deadline = d]
<1>1. r.me \in {FutexDone(me), armed, FutexDone(armed), [armed EXCEPT !.wait = c.key]}
  BY DEF FutexWait, Return, Block
<1>2. q.me \in {FutexDone(me), me, [armed EXCEPT !.wait = c.key, !.pi = TRUE]}
  BY DEF FutexLockPi, Return, Block
<1>3. d \in {"none", "armed", "due"}
  BY DEF Rec
<1> HIDE DEF r, q, d
<1>4. armed \in Rec /\ armed.blocked = me.blocked
  BY <1>3 DEF Rec
<1> HIDE DEF armed
<1>5. \A m \in Rec : FutexDone(m).blocked = m.blocked
  BY DEF FutexDone, Rec
<1>6. [armed EXCEPT !.wait = c.key].blocked = me.blocked
  BY <1>4 DEF Rec
<1>7. [armed EXCEPT !.wait = c.key, !.pi = TRUE].blocked = me.blocked
  BY <1>4 DEF Rec
<1>8. r.me.blocked = me.blocked
  BY <1>1, <1>4, <1>5, <1>6, Zenon
<1>9. q.me.blocked = me.blocked
  BY <1>2, <1>5, <1>7, Zenon
<1> QED BY <1>8, <1>9, Zenon DEF r, q

\* A task gets blocked in a plain wait by futex_wait alone.
BlocksInWait(t) ==
    /\ out[t] # NotOut /\ out'[t] # NotOut /\ ~out[t].blocked /\ out'[t].blocked
    /\ out'[t].call.op = "wait" /\ out'[t].saved = NoCall

LEMMA NoBlock ==
    ASSUME WaitInv, [Next]_vars, NEW t \in Tids, BlocksInWait(t)
    PROVE  SysWait(t)
<1>1. out \in [Tids -> Rec \cup {NotOut}] /\ out[t] \in Rec
  BY Zenon DEF WaitInv, TypeInv, BlocksInWait
<1>2. out'[t] # out[t]
  BY DEF BlocksInWait
<1>3. ASSUME NEW u \in Tids, Begin(u) \/ End(u) PROVE FALSE
  BY <1>1, <1>2, <1>3, Zenon DEF Begin, End, CheckOut, CheckIn, CanCheckOut, BlocksInWait
<1>4. ASSUME Quiet PROVE FALSE
  BY <1>2, <1>4, QuietTable, Zenon DEF WaitInv, TypeInv
<1>5. ASSUME NEW u \in Tids, SysWait(u) PROVE SysWait(t)
  <2>1. PICK c \in WaitCall : WaitOf(u, c)
    BY <1>5, WaitMade, Zenon
  <2>2. u = t
    BY <1>1, <1>2, <2>1, Zenon DEF WaitOf
  <2> QED BY <1>5, <2>2, Zenon
<1>6. ASSUME NEW u \in Tids, SysWake(u) \/ SysRequeue(u) \/ SysUnlockPi(u) PROVE FALSE
  <2>1. out' = [out EXCEPT ![u] = AfterCall(out[u], NoCall, "ok")]
    BY <1>6, Zenon DEF SysWake, SysRequeue, SysUnlockPi
  <2>2. u = t /\ AfterCall(out[t], NoCall, "ok").blocked
    BY <1>1, <1>2, <2>1, Zenon DEF BlocksInWait
  <2> QED BY <1>1, <2>2, BlocksIn DEF BlocksInWait
<1>7. ASSUME NEW u \in Tids, SysLockPi(u) PROVE FALSE
  <2>1. PICK c \in PiCall : LockOf(u, c)
    BY <1>7, LockMade
  <2> DEFINE r == FutexLockPi(t, out[t], c)
             m == r.me
             a == AfterCall(m, c, r.ret)
  <2>2. u = t /\ out'[t] = a
    BY <1>1, <1>2, <2>1, Zenon DEF LockOf
  <2>3. c.key \in PiKeys /\ word[c.key] \in Lock /\ c.op # "wait"
    BY DEF PiCall, WaitInv, TypeInv
  <2>4. m \in Rec
    BY <1>1, <2>3, FutexLockPiRec, Zenon
  <2>5. ~m.blocked
    BY <1>1, BlockedKept, SMTT(60) DEF BlocksInWait
  <2> HIDE DEF m, r
  <2>6. a.call = c
    BY <2>2, <2>4, <2>5, BlocksIn DEF BlocksInWait
  <2> QED BY <2>2, <2>3, <2>6, Zenon DEF BlocksInWait
<1>8. ASSUME NEW u \in Tids, FastLock(u) \/ FastUnlock(u) PROVE FALSE
  BY <1>2, <1>8, Zenon DEF FastLock, FastUnlock
<1>9. ASSUME NEW u \in Tids, Sigreturn(u) PROVE FALSE
  <2>1. out' = [out EXCEPT ![u].handler = FALSE, ![u].call = out[u].saved, ![u].saved = NoCall]
    BY <1>9 DEF Sigreturn
  <2>2. u = t
    BY <1>1, <1>2, <2>1, Zenon
  <2>3. out'[t].blocked = out[t].blocked
    BY <1>1, <2>1, <2>2, Zenon DEF Rec
  <2> QED BY <2>3 DEF BlocksInWait
<1>10. ASSUME NEW u \in Tids, SysExit(u) PROVE FALSE
  <2>1. out' = [out EXCEPT ![u].dead = TRUE]
    BY <1>10 DEF SysExit
  <2>2. u = t
    BY <1>1, <1>2, <2>1, Zenon
  <2>3. out'[t].blocked = out[t].blocked
    BY <1>1, <2>1, <2>2, Zenon DEF Rec
  <2> QED BY <2>3 DEF BlocksInWait
<1> QED BY <1>3, <1>4, <1>5, <1>6, <1>7, <1>8, <1>9, <1>10, ZenonT(60) DEF Next, Quiet

LEMMA BlocksUnchanged ==
    ASSUME WaitInv, [Next]_vars, NEW t \in Tids, BlocksInWait(t)
    PROVE  word[out'[t].call.key] = out'[t].call.val \/ t \in moved
<1>1. SysWait(t)
  BY NoBlock
<1>2. out \in [Tids -> Rec \cup {NotOut}] /\ out[t] \in Rec /\ ~out[t].blocked /\ ~out[t].dead
  BY <1>1, Zenon DEF WaitInv, TypeInv, BlocksInWait, SysWait
<1>3. PICK c \in WaitCall : WaitOf(t, c)
  BY <1>1, WaitMade, Zenon
<1> DEFINE me == out[t]
           r == FutexWait(t, me, c)
           m == r.me
           a == AfterCall(m, c, r.ret)
<1>4. out'[t] = a /\ (me.call # NoCall => c = me.call) /\ (me.call = NoCall => Waits)
  BY <1>2, <1>3, Zenon DEF WaitOf
<1>5. m \in Rec /\ m.saved = me.saved
  <2>1. WaitLeaves(r, me, c)
    BY <1>2, FutexWaitRec, Zenon
  <2> QED BY <2>1, Zenon DEF WaitLeaves
<1>6. ~m.blocked
  BY <1>2, BlockedKept
<1>7. r.ret = "block" /\ a.call = c /\ a.saved = m.saved
  <2> HIDE DEF m, r
  <2> QED BY <1>4, <1>5, <1>6, BlocksIn DEF BlocksInWait
<1>8. Good(t, me, moved)
  BY <1>2, Zenon DEF WaitInv, Record, BlocksInWait
<1>9. Waits
  BY <1>4, <1>8, Zenon DEF Good, CallShape
<1>10. me.saved = NoCall
  BY <1>4, <1>5, <1>7, Zenon DEF BlocksInWait
<1>11. word[c.key] = c.val \/ t \in moved
  BY <1>2, <1>4, <1>7, <1>8, <1>9, <1>10, WaitRecord, ZenonT(60)
<1> QED BY <1>4, <1>7, <1>11, Zenon

\* "a changed word ends the wait even if the wake itself was lost" (futex_wait), on
\* both schedulers and for any number of tasks and words.
THEOREM WaitsSeeTheWord == Spec => ChangedWordEndsWait
<1> DEFINE A == \A t \in Tids : BlocksInWait(t) => word[out'[t].call.key] = out'[t].call.val \/ t \in moved
<1>1. Init => WaitInv
  BY GoodInit
<1>2. WaitInv /\ [Next]_vars => WaitInv'
  BY WaitNext, Zenon
<1>3. WaitInv /\ [Next]_vars => A
  BY BlocksUnchanged
<1>4. A => \A t \in Tids :
         (/\ out[t] # NotOut /\ out'[t] # NotOut /\ ~out[t].blocked /\ out'[t].blocked
          /\ out'[t].call.op = "wait" /\ out'[t].saved = NoCall)
           => word[out'[t].call.key] = out'[t].call.val \/ t \in moved
  BY Zenon DEF BlocksInWait
<1> HIDE DEF A
<1> QED BY <1>1, <1>2, <1>3, <1>4, PTL DEF Spec, ChangedWordEndsWait

-------------------------------------------------------------------------------
(* The wake-ups the waking calls reported, on the serial scheduler.        *)

\* Tasks that were woken and have not returned from their wait yet.
IsOwed(r) == r.woken /\ ~r.pi /\ ~r.dead
Owed == {t \in Tids : IsOwed(Record(t))}

FlagsInv ==
    /\ \A t \in Tids : (table[t].woken => ~table[t].parked) /\ ~table[t].blocked
    /\ \A t \in Tids : out[t] # NotOut /\ out[t].blocked => ~out[t].woken /\ out[t].call # NoCall

CountInv ==
    /\ reported \in Nat /\ consumed \in Nat
    /\ reported = consumed + Cardinality(Owed)
    /\ FlagsInv

WakeInv == LockInv /\ WaitInv /\ (WakesCount => CountInv)

LEMMA OwedFinite == IsFiniteSet(Owed) /\ Cardinality(Owed) \in Nat
<1>1. IsFiniteSet(Owed)
  BY FutexAssumption, FS_Subset, Zenon DEF Owed
<1> QED BY <1>1, FS_CardinalityType, Zenon

LEMMA CountInit == Init => WakeInv
<1> SUFFICES ASSUME Init PROVE WakeInv
  OBVIOUS
<1>1. LockInv /\ WaitInv
  BY LockInit, GoodInit, Zenon
<1>2. \A t \in Tids : table[t].woken = FALSE /\ table[t].parked = FALSE /\ table[t].blocked = FALSE
  <2> TAKE t \in Tids
  <2> DEFINE d == t \notin load.tids
  <2>1. table[t] = [Ready EXCEPT !.dead = d]
    BY DEF Init
  <2> HIDE DEF d
  <2> QED BY <2>1, Zenon DEF Ready
<1>3. \A t \in Tids : out[t] = NotOut
  BY DEF Init
<1>4. Owed = {}
  BY <1>2, <1>3 DEF Owed, IsOwed, Record
<1>5. reported = 0 /\ consumed = 0 /\ Cardinality(Owed) = 0
  BY <1>4, FS_EmptySet DEF Init
<1>6. FlagsInv
  BY <1>2, <1>3, Zenon DEF FlagsInv
<1>7. CountInv
  BY <1>5, <1>6 DEF CountInv
<1> QED BY <1>1, <1>7, Zenon DEF WakeInv

LEMMA CountImplies == ~Smp /\ WakeInv => NoWakeLost
<1> SUFFICES ASSUME WakeInv, WakesCount PROVE WakesDelivered /\ WakeFindsWaiter
  BY DEF NoWakeLost
<1>1. CountInv /\ WaitInv /\ table \in [Tids -> Rec]
  BY Zenon DEF WakeInv, WaitInv, TypeInv
<1>2. ASSUME \A t \in Tids : out[t] = NotOut
      PROVE  Owed = {t \in Tids : table[t].woken /\ ~table[t].pi /\ ~table[t].dead}
  BY <1>2 DEF Owed, IsOwed, Record
<1>3. WakesDelivered
  BY <1>1, <1>2, Zenon DEF WakesDelivered, CountInv, FlagsInv
<1>4. WakeFindsWaiter
  <2> SUFFICES ASSUME NEW t \in Tids, table[t].wait # NoKey, out[t] = NotOut, ~table[t].dead,
                      table[t].call = NoCall, table[t].saved = NoCall
               PROVE  FALSE
    BY Zenon DEF WakeFindsWaiter
  <2>1. Good(t, table[t], moved)
    BY <1>1, Zenon DEF WaitInv, Record
  <2> QED BY <2>1, Zenon DEF Good, AtWait
<1> QED BY <1>3, <1>4, Zenon

\* A record whose wait is as it was is owed a wake-up as before, a task that dies included.
LEMMA StillOwed ==
    ASSUME WaitInv', WaitersSurvive', NEW u \in Tids, Kept(Record(u)', Record(u)),
           Record(u).dead => Record(u)'.dead
    PROVE  IsOwed(Record(u)') <=> IsOwed(Record(u))
<1> DEFINE a == Record(u)'
<1>1. WaitShape(Record(u))'
  BY DEF WaitInv, Good
<1>2. /\ a.pi <=> a.wait \in PiKeys
      /\ a.woken => a.wait # NoKey
      /\ a.dead => a.wait \notin Keys
  BY <1>1, Zenon DEF WaitShape
<1>3. a.wait \in Keys \cup PiKeys \cup {NoKey}
  <2>1. (Record(u) \in Rec)'
    BY Zenon DEF WaitInv, TypeInv, Record
  <2> QED BY <2>1, Zenon DEF Rec
<1> HIDE DEF a
<1>4. a.woken /\ ~a.pi => ~a.dead
  BY <1>2, <1>3, Zenon
<1> QED BY <1>4, Zenon DEF IsOwed, Kept, a

\* A step in which no wake-up is given or taken.
LEMMA CountStill ==
    ASSUME CountInv, reported' = reported, consumed' = consumed, FlagsInv',
           \A u \in Tids : IsOwed(Record(u)') <=> IsOwed(Record(u))
    PROVE  CountInv'
<1>1. Owed' = Owed
  BY Zenon DEF Owed, IsOwed
<1> QED BY <1>1, Zenon DEF CountInv

LEMMA CountSame ==
    ASSUME CountInv, reported' = reported, consumed' = consumed, FlagsInv',
           \A u \in Tids : CoreSame(Record(u)', Record(u))
    PROVE  CountInv'
<1>1. \A u \in Tids : IsOwed(Record(u)') <=> IsOwed(Record(u))
  BY Zenon DEF CoreSame, Kept, IsOwed
<1> QED BY <1>1, CountStill

-------------------------------------------------------------------------------

LEMMA BeginCount ==
    ASSUME ~Smp, LockInv, CountInv, NEW t \in Tids, Begin(t)
    PROVE  CountInv'
<1>1. /\ out' = [out EXCEPT ![t] = table[t]] /\ table' = [table EXCEPT ![t] = Ready]
      /\ reported' = reported /\ consumed' = consumed
  BY DEF Begin, CheckOut, plain
<1>2. /\ table \in [Tids -> Rec] /\ out \in [Tids -> Rec \cup {NotOut}] /\ table[t] # NotOut /\ out[t] = NotOut
  BY RecIsRec, Zenon DEF LockInv, SerialInv, Begin, CheckOut, CanCheckOut
<1>3. /\ out'[t] = table[t] /\ table'[t] = Ready
      /\ \A u \in Tids \ {t} : out'[u] = out[u] /\ table'[u] = table[u]
  BY <1>1, <1>2, Zenon
<1>4. \A u \in Tids : Record(u)' = Record(u)
  BY <1>2, <1>3, Zenon DEF Record
<1>5. ~Ready.woken /\ ~Ready.blocked
  BY Zenon DEF Ready
<1>6. FlagsInv'
  BY <1>3, <1>5, ZenonT(60) DEF CountInv, FlagsInv
<1> QED BY <1>1, <1>4, <1>6, CountSame, ZenonT(60) DEF CoreSame, Kept

LEMMA EndCount ==
    ASSUME ~Smp, LockInv, CountInv, NEW t \in Tids, End(t)
    PROVE  CountInv'
<1> DEFINE a == [out[t] EXCEPT !.parked = ~Smp /\ out[t].blocked, !.blocked = FALSE]
<1>1. /\ out' = [out EXCEPT ![t] = NotOut] /\ table' = [table EXCEPT ![t] = a] /\ out[t] # NotOut
      /\ reported' = reported /\ consumed' = consumed
  BY DEF End, CheckIn, plain
<1>2. /\ table \in [Tids -> Rec] /\ out \in [Tids -> Rec \cup {NotOut}] /\ out[t] \in Rec
  BY <1>1, Zenon DEF LockInv, SerialInv
<1>3. CoreSame(a, out[t]) /\ ~a.blocked /\ (a.parked => out[t].blocked)
  <2> DEFINE b == ~Smp /\ out[t].blocked
  <2>1. b => out[t].blocked
    OBVIOUS
  <2> HIDE DEF b
  <2>2. \A r \in Rec : LET x == [r EXCEPT !.parked = b, !.blocked = FALSE]
                       IN  CoreSame(x, r) /\ ~x.blocked /\ x.parked = b
    BY DEF Rec, CoreSame, Kept
  <2>3. LET x == [out[t] EXCEPT !.parked = b, !.blocked = FALSE]
        IN  CoreSame(x, out[t]) /\ ~x.blocked /\ x.parked = b
    BY <1>2, <2>2, Zenon
  <2> QED BY <2>1, <2>3, ZenonT(60) DEF b
<1> HIDE DEF a
<1>4. /\ out'[t] = NotOut /\ table'[t] = a
      /\ \A u \in Tids \ {t} : out'[u] = out[u] /\ table'[u] = table[u]
  BY <1>1, <1>2, ZenonT(60)
<1>5. \A u \in Tids : CoreSame(Record(u)', Record(u))
  BY <1>1, <1>3, <1>4, SMTT(60) DEF Record, CoreSame, Kept
<1>6. a.woken => ~a.parked
  BY <1>1, <1>3, Zenon DEF CountInv, FlagsInv, CoreSame, Kept
<1>7. FlagsInv'
  BY <1>3, <1>4, <1>6, Zenon DEF CountInv, FlagsInv
<1> QED BY <1>1, <1>5, <1>7, CountSame, ZenonT(60)

LEMMA QuietCount ==
    ASSUME LockInv, CountInv, Quiet
    PROVE  CountInv'
<1>1. table \in [Tids -> Rec] /\ DOMAIN word = Keys \cup PiKeys
  BY Zenon DEF LockInv, SerialInv
<1>2. out' = out /\ reported' = reported /\ consumed' = consumed
  BY <1>1, QuietTable, Zenon
<1>3. \A u \in Tids : CoreSame(table'[u], table[u])
  BY <1>1, QuietTable, Zenon
<1>4. \A u \in Tids : (table'[u].parked => table[u].parked) /\ table'[u].blocked = table[u].blocked
  BY <1>1, QuietTable, Zenon
<1>5. \A u \in Tids : CoreSame(Record(u)', Record(u))
  BY <1>2, <1>3, Zenon DEF Record, CoreSame, Kept
<1>6. FlagsInv'
  BY <1>2, <1>3, <1>4, Zenon DEF CountInv, FlagsInv, CoreSame, Kept
<1> QED BY <1>2, <1>5, <1>6, CountSame, Zenon

LEMMA FastCount ==
    ASSUME CountInv, NEW t \in Tids, FastLock(t) \/ FastUnlock(t)
    PROVE  CountInv'
<1>1. out' = out /\ table' = table /\ reported' = reported /\ consumed' = consumed
  BY Zenon DEF FastLock, FastUnlock, plain
<1>2. \A u \in Tids : Record(u)' = Record(u)
  BY <1>1 DEF Record
<1>3. FlagsInv'
  BY <1>1, Zenon DEF CountInv, FlagsInv
<1> QED BY <1>1, <1>2, <1>3, CountSame, ZenonT(60) DEF CoreSame, Kept

\* The caller's record when its wait is not touched.
LEMMA ReturnCount ==
    ASSUME WaitInv, WaitInv', WaitersSurvive, CountInv, NEW t \in Tids, Sigreturn(t) \/ SysExit(t)
    PROVE  CountInv'
<1>1. /\ out[t] # NotOut /\ out[t].call = NoCall /\ ~out[t].dead
      /\ load' = load /\ table' = table /\ reported' = reported /\ consumed' = consumed
  BY DEF Sigreturn, SysExit, InGuest, plain
<1>2. out \in [Tids -> Rec \cup {NotOut}] /\ out[t] \in Rec
  BY <1>1, Zenon DEF WaitInv, TypeInv
<1>3. /\ out' = [out EXCEPT ![t] = out'[t]] /\ Kept(out'[t], out[t])
      /\ out'[t].blocked = out[t].blocked /\ out'[t] # NotOut
  <2>1. CASE SysExit(t)
    <3>1. out' = [out EXCEPT ![t] = [out[t] EXCEPT !.dead = TRUE]]
      BY <2>1, Zenon DEF SysExit
    <3>2. out'[t] = [out[t] EXCEPT !.dead = TRUE]
      BY <1>2, <3>1, Zenon
    <3>3. Kept(out'[t], out[t]) /\ out'[t].blocked = out[t].blocked
      BY <1>2, <3>2, Zenon DEF Rec, Kept
    <3>4. out'[t] \in Rec
      BY <1>2, <3>2, Zenon DEF Rec
    <3> QED BY <3>1, <3>2, <3>3, <3>4, RecIsRec, ZenonT(60)
  <2>2. CASE Sigreturn(t)
    <3> DEFINE a == [out[t] EXCEPT !.handler = FALSE, !.call = out[t].saved, !.saved = NoCall]
    <3>1. out' = [out EXCEPT ![t] = a]
      BY <2>2, Zenon DEF Sigreturn
    <3>2. out'[t] = a
      BY <1>2, <3>1, Zenon
    <3>3. Kept(out'[t], out[t]) /\ out'[t].blocked = out[t].blocked
      BY <1>2, <3>2, Zenon DEF Rec, Kept
    <3>4. out'[t] \in Rec
      BY <1>2, <3>2, Zenon DEF Rec
    <3> QED BY <3>1, <3>2, <3>3, <3>4, RecIsRec, ZenonT(60)
  <2> QED BY <2>1, <2>2, Zenon
<1>4. \A u \in Tids \ {t} : out'[u] = out[u]
  BY <1>2, <1>3, Zenon
<1>5. ~out[t].blocked
  BY <1>1, Zenon DEF CountInv, FlagsInv
<1>6. FlagsInv'
  BY <1>1, <1>3, <1>4, <1>5, Zenon DEF CountInv, FlagsInv
<1>7. Record(t) = out[t] /\ \A u \in Tids \ {t} : Record(u)' = Record(u)
  BY <1>1, <1>4, Zenon DEF Record
<1>8. Record(t)' = out'[t]
  BY <1>3, Zenon DEF Record
<1>9. WaitersSurvive'
  BY <1>1, Zenon DEF WaitersSurvive, Waits
<1>10. IsOwed(Record(t)') <=> IsOwed(Record(t))
  BY <1>1, <1>3, <1>7, <1>8, <1>9, StillOwed, ZenonT(60)
<1>11. \A u \in Tids : IsOwed(Record(u)') <=> IsOwed(Record(u))
  BY <1>7, <1>10, Zenon
<1> QED BY <1>1, <1>6, <1>11, CountStill, Zenon

\* What waking does to flags.
LEMMA WakeUpFlags ==
    ASSUME NEW tb \in [Tids -> Rec], NEW S
    PROVE  LET w == WakeUp(tb, S)
           IN  /\ \A u \in Tids : w[u].blocked = tb[u].blocked
               /\ \A u \in S \cap Tids : ~w[u].parked
<1> DEFINE w == WakeUp(tb, S)
           b(r) == [r EXCEPT !.woken = TRUE, !.parked = FALSE]
<1>1. \A r \in Rec : b(r).blocked = r.blocked /\ ~b(r).parked
  BY Zenon DEF Rec
<1>2. w = [u \in Tids |-> IF u \in S THEN b(tb[u]) ELSE tb[u]]
  BY DEF WakeUp
<1> HIDE DEF b, w
<1>3. \A u \in Tids : w[u] = IF u \in S THEN b(tb[u]) ELSE tb[u]
  BY <1>2
<1> QED BY <1>1, <1>3, Zenon DEF w

\* A call of t that wakes the tasks of W.
LEMMA CallCount ==
    ASSUME SerialInv, WaitInv, WaitInv', WaitersSurvive, CountInv, NEW t \in Tids,
           out[t] # NotOut, out[t].call = NoCall, ~out[t].dead,
           out' = [out EXCEPT ![t] = AfterCall(out[t], NoCall, "ok")], load' = load,
           table' \in [Tids -> Rec], consumed' = consumed,
           NEW W, W \subseteq Tids \ {t}, reported' = reported + Cardinality(W),
           \A u \in W : ~IsOwed(table[u]) /\ IsOwed(table'[u]),
           \A u \in Tids \ W : IsOwed(table'[u]) <=> IsOwed(table[u]),
           \A u \in Tids : (table'[u].woken => ~table'[u].parked) /\ ~table'[u].blocked
    PROVE  CountInv'
<1> DEFINE a == AfterCall(out[t], NoCall, "ok")
<1>1. out[t] \in Rec /\ Record(t) = out[t] /\ \A u \in Tids \ {t} : out[u] = NotOut /\ Record(u) = table[u]
  BY OthersIn, Zenon
<1>2. a \in Rec
  BY <1>1, CallerMode, Zenon
<1>3. a.dead \/ Kept(a, out[t])
  BY <1>1, CallerMode, Zenon
<1>4. a.dead => Kept(a, out[t])
  BY <1>1, KilledRec, Zenon
<1>5. ~out[t].blocked
  BY Zenon DEF CountInv, FlagsInv
<1>6. ~a.blocked
  BY <1>1, <1>5, BlocksIn
<1> HIDE DEF a
<1>7. out' = [out EXCEPT ![t] = a] /\ out \in [Tids -> Rec \cup {NotOut}] /\ a # NotOut
  BY <1>2, RecIsRec, Zenon DEF a, SerialInv
<1>8. out'[t] = a /\ \A u \in Tids \ {t} : out'[u] = NotOut
  BY <1>1, <1>7, Zenon
<1>9. Record(t)' = a /\ \A u \in Tids \ {t} : Record(u)' = table'[u]
  BY <1>7, <1>8, Zenon DEF Record
<1>10. WaitersSurvive'
  BY Zenon DEF WaitersSurvive, Waits
<1>11. IsOwed(Record(t)') <=> IsOwed(Record(t))
  BY <1>1, <1>3, <1>4, <1>9, <1>10, StillOwed, ZenonT(60)
<1>12. Owed' = Owed \cup W
  <2>1. Owed' = {u \in Tids : IsOwed(Record(u)')}
    BY Zenon DEF Owed, IsOwed
  <2>2. \A u \in Tids : IsOwed(Record(u)') <=> u \in Owed \cup W
    BY <1>1, <1>9, <1>11, Zenon DEF Owed
  <2> QED BY <2>1, <2>2, Zenon DEF Owed
<1>13. Owed \cap W = {}
  BY <1>1, ZenonT(60) DEF Owed
<1>14. Cardinality(Owed \cup W) = Cardinality(Owed) + Cardinality(W)
  <2>1. IsFiniteSet(W)
    BY FutexAssumption, FS_Subset, Zenon
  <2>2. Cardinality(Owed \cup W) = Cardinality(Owed) + Cardinality(W) - Cardinality(Owed \cap W)
    BY <2>1, OwedFinite, FS_Union, ZenonT(60)
  <2>3. Cardinality(Owed \cap W) = 0 /\ Cardinality(W) \in Nat
    BY <1>13, <2>1, FS_EmptySet, FS_CardinalityType, ZenonT(60)
  <2> QED BY <2>2, <2>3, OwedFinite, SMTT(60)
<1>15. Cardinality(W) \in Nat
  BY FutexAssumption, FS_Subset, FS_CardinalityType, ZenonT(60)
<1>16. FlagsInv'
  BY <1>6, <1>8, ZenonT(60) DEF FlagsInv
<1>17. /\ reported' \in Nat /\ consumed' \in Nat
       /\ reported' = consumed' + Cardinality(Owed')
  BY <1>12, <1>14, <1>15, OwedFinite DEF CountInv
<1> QED BY <1>16, <1>17, Zenon DEF CountInv

\* A live task that waits on a plain word is not told apart by FUTEX_WAKE, and a dead
\* one of these guests does not wait.
LEMMA WaiterLives ==
    ASSUME WaitInv, SerialInv, WaitersSurvive, NEW t \in Tids, out[t] # NotOut,
           NEW u \in Tids \ {t}, table[u].wait \in Keys
    PROVE  ~table[u].dead /\ ~table[u].pi
<1>1. Record(u) = table[u]
  BY OthersIn, Zenon
<1>2. WaitShape(table[u])
  BY <1>1, Zenon DEF WaitInv, Good
<1> QED BY <1>2, FutexAssumption, Zenon DEF WaitShape

LEMMA WakeCount ==
    ASSUME ~Smp, LockInv, WaitInv, WaitInv', WaitersSurvive, CountInv, NEW t \in Tids, SysWake(t)
    PROVE  CountInv'
<1>1. SerialInv /\ table \in [Tids -> Rec]
  BY DEF LockInv, SerialInv
<1>2. /\ out[t] # NotOut /\ out[t].call = NoCall /\ ~out[t].dead
      /\ out' = [out EXCEPT ![t] = AfterCall(out[t], NoCall, "ok")]
      /\ load' = load /\ consumed' = consumed
  BY Zenon DEF SysWake, InGuest
<1>3. PICK k \in Keys : /\ table' = WakeUp(table, FirstN(Waiting(table, k), 1))
                        /\ reported' = reported + Cardinality(FirstN(Waiting(table, k), 1))
  BY Zenon DEF SysWake, FutexWakeKey
<1> DEFINE W == FirstN(Waiting(table, k), 1)
<1>4. W \subseteq Tids \ {t} /\ \A u \in W : table[u].wait = k /\ ~table[u].woken
  BY <1>1, <1>2, OthersIn, ZenonT(60) DEF FirstN, Waiting
<1> HIDE DEF W
<1>5. table' = WakeUp(table, W) /\ reported' = reported + Cardinality(W)
  BY <1>3 DEF W
<1>6. table' \in [Tids -> Rec]
  <2>1. Woke(table', table, W)
    BY <1>1, <1>5, WakeUpRec, Zenon
  <2> QED BY <2>1, Zenon DEF Woke
<1>7. \A u \in Tids : u \notin W => table'[u] = table[u]
  <2>1. Woke(table', table, W)
    BY <1>1, <1>5, WakeUpRec, Zenon
  <2> QED BY <2>1, ZenonT(60) DEF Woke
<1>8. \A u \in W \cap Tids : table'[u].woken /\ table'[u].pi = table[u].pi
  <2>1. Woke(table', table, W)
    BY <1>1, <1>5, WakeUpRec, Zenon
  <2> QED BY <2>1, ZenonT(60) DEF Woke
<1>9. \A u \in Tids : table'[u].dead = table[u].dead
  <2>1. Woke(table', table, W)
    BY <1>1, <1>5, WakeUpRec, Zenon
  <2> QED BY <2>1, ZenonT(60) DEF Woke
<1>10. \A u \in Tids : table'[u].blocked = table[u].blocked
  BY <1>1, <1>5, WakeUpFlags, Zenon
<1>11. \A u \in W \cap Tids : ~table'[u].parked
  BY <1>1, <1>5, WakeUpFlags, Zenon
<1>12. ASSUME NEW u \in W PROVE ~IsOwed(table[u]) /\ IsOwed(table'[u])
  <2>1. ~table[u].dead /\ ~table[u].pi
    BY <1>1, <1>2, <1>4, WaiterLives, ZenonT(60)
  <2> QED BY <1>4, <1>8, <1>9, <2>1, ZenonT(60) DEF IsOwed
<1>13. \A u \in Tids \ W : IsOwed(table'[u]) <=> IsOwed(table[u])
  BY <1>7, Zenon
<1>14. \A u \in Tids : (table'[u].woken => ~table'[u].parked) /\ ~table'[u].blocked
  BY <1>7, <1>10, <1>11, ZenonT(60) DEF CountInv, FlagsInv
<1> QED BY <1>1, <1>2, <1>4, <1>5, <1>6, <1>12, <1>13, <1>14, CallCount, ZenonT(60)

LEMMA UnlockCount ==
    ASSUME ~Smp, LockInv, WaitInv, WaitInv', WaitersSurvive, CountInv, NEW t \in Tids, SysUnlockPi(t)
    PROVE  CountInv'
<1>1. SerialInv /\ table \in [Tids -> Rec]
  BY DEF LockInv, SerialInv
<1>2. /\ out[t] # NotOut /\ out[t].call = NoCall /\ ~out[t].dead
      /\ out' = [out EXCEPT ![t] = AfterCall(out[t], NoCall, "ok")]
      /\ load' = load /\ consumed' = consumed /\ reported' = reported
  BY DEF SysUnlockPi, InMain, InGuest, plain
<1>3. PICK k \in PiKeys : table' = WakeUp(table, FirstN(Parked(table, k), 1))
  BY Zenon DEF SysUnlockPi, FutexUnlockPi
<1> DEFINE W == FirstN(Parked(table, k), 1)
           N == {}
<1>4. W \subseteq Tids /\ \A u \in W : table[u].pi
  BY Zenon DEF FirstN, Parked, Seen
<1>5. table' = WakeUp(table, W) /\ reported' = reported + Cardinality(N)
  BY <1>2, <1>3, FS_EmptySet, SMTT(60) DEF CountInv
<1> HIDE DEF W
<1>6. table' \in [Tids -> Rec]
  <2>1. Woke(table', table, W)
    BY <1>1, <1>5, WakeUpRec, ZenonT(60)
  <2> QED BY <2>1, Zenon DEF Woke
<1>7. \A u \in Tids : u \notin W => table'[u] = table[u]
  <2>1. Woke(table', table, W)
    BY <1>1, <1>5, WakeUpRec, Zenon
  <2> QED BY <2>1, Zenon DEF Woke
<1>8. \A u \in Tids : table'[u].pi = table[u].pi
  <2>1. Woke(table', table, W)
    BY <1>1, <1>5, WakeUpRec, Zenon
  <2> QED BY <2>1, ZenonT(60) DEF Woke
<1>9. \A u \in Tids : table'[u].blocked = table[u].blocked
  BY <1>1, <1>5, WakeUpFlags, Zenon
<1>10. \A u \in W \cap Tids : ~table'[u].parked
  BY <1>1, <1>5, WakeUpFlags, Zenon
<1>11. \A u \in Tids \ N : IsOwed(table'[u]) <=> IsOwed(table[u])
  BY <1>4, <1>7, <1>8, ZenonT(60) DEF IsOwed
<1>12. \A u \in Tids : (table'[u].woken => ~table'[u].parked) /\ ~table'[u].blocked
  BY <1>7, <1>9, <1>10, Zenon DEF CountInv, FlagsInv
<1>13. N \subseteq Tids \ {t} /\ \A u \in N : ~IsOwed(table[u]) /\ IsOwed(table'[u])
  OBVIOUS
<1> HIDE DEF N
<1> QED BY <1>1, <1>2, <1>5, <1>6, <1>11, <1>12, <1>13, CallCount, ZenonT(60)

LEMMA RequeueCount ==
    ASSUME ~Smp, LockInv, WaitInv, WaitInv', WaitersSurvive, CountInv, NEW t \in Tids, SysRequeue(t)
    PROVE  CountInv'
<1> DEFINE waiters(f) == {u \in Seen : table[u].wait = f /\ ~table[u].woken}
           woke(f) == FirstN(waiters(f), 1)
           gone(f) == FirstN(waiters(f) \ woke(f), 1)
<1>1. SerialInv /\ table \in [Tids -> Rec]
  BY DEF LockInv, SerialInv
<1>2. /\ out[t] # NotOut /\ out[t].call = NoCall /\ ~out[t].dead
      /\ out' = [out EXCEPT ![t] = AfterCall(out[t], NoCall, "ok")]
      /\ load' = load /\ consumed' = consumed
  BY Zenon DEF SysRequeue, InGuest
<1>3. PICK from, to \in Keys :
        /\ table' = [u \in Tids |-> IF u \in gone(from) THEN [WakeUp(table, woke(from))[u] EXCEPT !.wait = to]
                                    ELSE WakeUp(table, woke(from))[u]]
        /\ reported' = reported + Cardinality(woke(from))
  BY Zenon DEF SysRequeue, FutexRequeueKeys
<1> DEFINE W == woke(from)
           M == gone(from)
           w == WakeUp(table, W)
           b(r) == [r EXCEPT !.wait = to]
<1>4. W \subseteq Tids \ {t} /\ \A u \in W : table[u].wait = from /\ ~table[u].woken
  BY <1>1, <1>2, OthersIn, ZenonT(60) DEF FirstN
<1>5. table' = [u \in Tids |-> IF u \in M THEN b(w[u]) ELSE w[u]] /\ reported' = reported + Cardinality(W)
  BY <1>3
<1>6. \A r \in Rec : b(r) \in Rec /\ b(r).woken = r.woken /\ b(r).pi = r.pi /\ b(r).dead = r.dead
                     /\ b(r).parked = r.parked /\ b(r).blocked = r.blocked
  BY DEF Rec
<1> HIDE DEF W, M, w, b
<1>7. w \in [Tids -> Rec]
  <2>1. Woke(w, table, W)
    BY <1>1, WakeUpRec, Zenon DEF w
  <2> QED BY <2>1, Zenon DEF Woke
<1>8. \A u \in Tids : u \notin W => w[u] = table[u]
  <2>1. Woke(w, table, W)
    BY <1>1, WakeUpRec, Zenon DEF w
  <2> QED BY <2>1, ZenonT(60) DEF Woke
<1>9. \A u \in W \cap Tids : w[u].woken /\ w[u].pi = table[u].pi
  <2>1. Woke(w, table, W)
    BY <1>1, WakeUpRec, Zenon DEF w
  <2> QED BY <2>1, ZenonT(60) DEF Woke
<1>10. \A u \in Tids : w[u].dead = table[u].dead
  <2>1. Woke(w, table, W)
    BY <1>1, WakeUpRec, Zenon DEF w
  <2> QED BY <2>1, ZenonT(60) DEF Woke
<1>11. \A u \in Tids : w[u].blocked = table[u].blocked
  BY <1>1, WakeUpFlags, Zenon DEF w
<1>12. \A u \in W \cap Tids : ~w[u].parked
  BY <1>1, WakeUpFlags, Zenon DEF w
<1>13. table' \in [Tids -> Rec]
  BY <1>5, <1>6, <1>7, ZenonT(60)
<1>14. \A u \in Tids : table'[u].woken = w[u].woken /\ table'[u].pi = w[u].pi /\ table'[u].dead = w[u].dead
                       /\ table'[u].parked = w[u].parked /\ table'[u].blocked = w[u].blocked
  BY <1>5, <1>6, <1>7, ZenonT(60)
<1>15. ASSUME NEW u \in W PROVE ~IsOwed(table[u]) /\ IsOwed(table'[u])
  <2>1. ~table[u].dead /\ ~table[u].pi
    BY <1>1, <1>2, <1>4, WaiterLives, ZenonT(60)
  <2> QED BY <1>4, <1>9, <1>10, <1>14, <2>1, ZenonT(60) DEF IsOwed
<1>16. \A u \in Tids \ W : IsOwed(table'[u]) <=> IsOwed(table[u])
  BY <1>8, <1>14, ZenonT(60) DEF IsOwed
<1>17. \A u \in Tids : (table'[u].woken => ~table'[u].parked) /\ ~table'[u].blocked
  BY <1>8, <1>11, <1>12, <1>14, ZenonT(60) DEF CountInv, FlagsInv
<1> QED BY <1>1, <1>2, <1>4, <1>5, <1>13, <1>15, <1>16, <1>17, CallCount, ZenonT(60)

\* The two calls that wait leave no wake-up flag behind.
LEMMA FlagTaken ==
    ASSUME NEW t, NEW me \in Rec, NEW c
    PROVE  ~FutexWait(t, me, c).me.woken /\ ~FutexLockPi(t, me, c).me.woken
<1> DEFINE r == FutexWait(t, me, c)
           q == FutexLockPi(t, me, c)
           d == IF c.timed /\ me.deadline = "none" THEN "armed" ELSE me.deadline
           armed == [me EXCEPT !.deadline = d]
<1>1. \/ r.me \in {FutexDone(me), FutexDone(armed)}
      \/ ~me.woken /\ r.me \in {armed, [armed EXCEPT !.wait = c.key]}
  BY DEF FutexWait, Return, Block
<1>2. q.me = FutexDone(me) \/ (~me.woken /\ q.me \in {me, [armed EXCEPT !.wait = c.key, !.pi = TRUE]})
  BY DEF FutexLockPi, Return, Block
<1>3. d \in {"none", "armed", "due"}
  BY DEF Rec
<1> HIDE DEF r, q, d
<1>4. armed \in Rec /\ armed.woken = me.woken
  BY <1>3 DEF Rec
<1> HIDE DEF armed
<1>5. \A m \in Rec : FutexDone(m).woken = FALSE
  BY DEF FutexDone, Rec
<1>6. [armed EXCEPT !.wait = c.key].woken = me.woken
  BY <1>4 DEF Rec
<1>7. [armed EXCEPT !.wait = c.key, !.pi = TRUE].woken = me.woken
  BY <1>4 DEF Rec
<1>8. ~r.me.woken
  BY <1>1, <1>4, <1>5, <1>6, ZenonT(60)
<1>9. ~q.me.woken
  BY <1>2, <1>5, <1>7, ZenonT(60)
<1> QED BY <1>8, <1>9, Zenon DEF r, q

\* What Kernel::service makes of such a record.
LEMMA ServedUnflagged ==
    ASSUME NEW m \in Rec, ~m.dead, ~m.woken, ~m.blocked, NEW c, c # NoCall, NEW ret, ret = "block" => c \in Call
    PROVE  LET a == AfterCall(m, c, ret)
           IN  a \in Rec /\ ~a.woken /\ (a.blocked => a.call # NoCall)
<1> DEFINE a == AfterCall(m, c, ret)
<1>1. a \in Rec /\ ServiceEffect(a, m, c, ret)
  BY ServiceRec, Zenon
<1>2. a.dead => Kept(a, m)
  BY KilledRec, Zenon
<1>3. a.blocked => a.call = c
  BY BlocksIn, ZenonT(60)
<1> HIDE DEF a
<1>4. ~a.woken
  BY <1>1, <1>2, Zenon DEF ServiceEffect, Kept, Dropped
<1> QED BY <1>1, <1>3, <1>4, ZenonT(60) DEF a

\* The call of t leaves it with such a record.
LEMMA CallerUnflagged ==
    ASSUME SerialInv, CountInv, NEW t \in Tids, out[t] # NotOut, table' = table,
           NEW a \in Rec, out' = [out EXCEPT ![t] = a], ~a.woken, a.blocked => a.call # NoCall
    PROVE  FlagsInv' /\ Owed' = Owed \ {t}
<1>1. out \in [Tids -> Rec \cup {NotOut}] /\ a # NotOut
  BY RecIsRec, Zenon DEF SerialInv
<1>2. out'[t] = a /\ \A u \in Tids \ {t} : out'[u] = out[u]
  BY <1>1, Zenon
<1>3. FlagsInv'
  BY <1>2, Zenon DEF CountInv, FlagsInv
<1>4. Record(t)' = a /\ \A u \in Tids \ {t} : Record(u)' = Record(u)
  BY <1>1, <1>2, Zenon DEF Record
<1>5. Owed' = {u \in Tids : IsOwed(Record(u)')}
  BY Zenon DEF Owed, IsOwed
<1>6. \A u \in Tids : IsOwed(Record(u)') <=> u \in Owed \ {t}
  BY <1>4, Zenon DEF Owed, IsOwed
<1>7. Owed' = Owed \ {t}
  BY <1>5, <1>6, Zenon DEF Owed
<1> QED BY <1>3, <1>7, Zenon

\* A wake-up found by futex_wait is one it is owed.
LEMMA WaitTakesOwn ==
    ASSUME LockInv, WaitInv, WakesCount, NEW t \in Tids, out[t] # NotOut, ~out[t].dead,
           NEW c \in WaitCall, WaitOf(t, c)
    PROVE  ~out[t].pi
<1>1. Record(t) = out[t] /\ out[t] \in Rec
  BY OthersIn, Zenon DEF LockInv
<1>2. WaitShape(out[t]) /\ CallShape(out[t])
  BY <1>1, Zenon DEF WaitInv, Good
<1>3. CASE "lock" \notin load.ops
  BY <1>2, <1>3, ZenonT(60) DEF WaitShape
<1>4. CASE HandlersApart
  <2>1. Mode(out[t])
    BY <1>4, OtherModes, ZenonT(60)
  <2>2. out[t].call # NoCall => out[t].call \in WaitCall
    BY DEF WaitOf
  <2>3. Waits
    BY <1>2, <2>2, Zenon DEF WaitOf, CallShape
  <2>4. "restart" \notin load.handlers
    BY <1>4, <2>3, Zenon DEF HandlersApart, Waits
  <2> QED BY <2>1, <2>2, <2>4, CallIsCall, ZenonT(60) DEF Mode, IdleMode, PlainMode, LockMode, Dropped
<1> QED BY <1>3, <1>4, ZenonT(60) DEF WakesCount

LEMMA WaitCount ==
    ASSUME LockInv, WaitInv, WakesCount, CountInv, NEW t \in Tids, SysWait(t)
    PROVE  CountInv'
<1>1. SerialInv /\ out[t] # NotOut /\ ~out[t].dead /\ ~out[t].blocked /\ table' = table /\ reported' = reported
  BY Zenon DEF LockInv, SysWait
<1>2. PICK c \in WaitCall : WaitOf(t, c)
  BY WaitMade
<1> DEFINE me == out[t]
           r == FutexWait(t, me, c)
           m == r.me
           a == AfterCall(m, c, r.ret)
<1>3. out' = [out EXCEPT ![t] = a] /\ consumed' = consumed + (IF me.woken THEN 1 ELSE 0)
  BY <1>2, Zenon DEF WaitOf
<1>4. me \in Rec /\ Record(t) = me
  BY <1>1, OthersIn, Zenon
<1>5. m \in Rec /\ m.dead = me.dead
  <2>1. WaitLeaves(r, me, c)
    BY <1>4, FutexWaitRec, Zenon
  <2> QED BY <2>1, Zenon DEF WaitLeaves
<1>6. ~m.woken
  BY <1>4, FlagTaken
<1>7. ~m.blocked
  <2>1. m.blocked = me.blocked
    BY <1>4, BlockedKept
  <2> QED BY <1>1, <2>1, Zenon
<1>8. c \in Call /\ c # NoCall
  BY CallIsCall DEF Call
<1> HIDE DEF m, r
<1>9. a \in Rec /\ ~a.woken /\ (a.blocked => a.call # NoCall)
  BY <1>1, <1>5, <1>6, <1>7, <1>8, ServedUnflagged, ZenonT(60)
<1> HIDE DEF a
<1>10. FlagsInv' /\ Owed' = Owed \ {t}
  BY <1>1, <1>3, <1>9, CallerUnflagged, ZenonT(60)
<1>11. ~me.pi
  BY <1>1, <1>2, WaitTakesOwn, ZenonT(60)
<1>12. me.woken <=> t \in Owed
  BY <1>1, <1>4, <1>11, ZenonT(60) DEF Owed, IsOwed
<1>13. CASE me.woken
  <2>1. Cardinality(Owed \ {t}) = Cardinality(Owed) - 1
    BY <1>12, <1>13, OwedFinite, FS_RemoveElement, ZenonT(60)
  <2>2. consumed' = consumed + 1
    BY <1>3, <1>13, Zenon
  <2>3. Cardinality(Owed') = Cardinality(Owed) - 1
    BY <1>10, <2>1, ZenonT(60)
  <2>4. reported' \in Nat /\ consumed' \in Nat /\ reported' = consumed' + Cardinality(Owed')
    BY <1>1, <2>2, <2>3, OwedFinite, SMTT(60) DEF CountInv
  <2> QED BY <1>10, <2>4, Zenon DEF CountInv
<1>14. CASE ~me.woken
  <2>1. Owed' = Owed /\ consumed' = consumed
    BY <1>3, <1>10, <1>12, <1>14, SMTT(60) DEF CountInv
  <2> QED BY <1>1, <1>10, <2>1, ZenonT(60) DEF CountInv
<1> QED BY <1>13, <1>14, Zenon

\* The hand-over of a lock found by futex_lock_pi is no wake-up of a plain wait.
LEMMA LockTakesOwn ==
    ASSUME LockInv, WaitInv, WakesCount, NEW t \in Tids, out[t] # NotOut, ~out[t].dead, out[t].woken,
           NEW c \in PiCall, LockOf(t, c)
    PROVE  out[t].pi
<1>1. Record(t) = out[t] /\ out[t] \in Rec
  BY OthersIn, Zenon DEF LockInv
<1>2. WaitShape(out[t]) /\ CallShape(out[t])
  BY <1>1, Zenon DEF WaitInv, Good
<1>3. out[t].call \in WaitCall \cup LockCall \cup {NoCall}
  BY <1>1, Zenon DEF Rec, Call
<1>4. out[t].call \notin WaitCall
  BY CallIsCall, Zenon DEF LockOf, PiCall
<1>5. "lock" \in load.ops
  BY <1>2, <1>3, <1>4, Zenon DEF LockOf, CallShape
<1>6. Mode(out[t])
  BY <1>5, OtherModes, Zenon DEF WakesCount
<1> QED BY <1>4, <1>6, Zenon DEF Mode, IdleMode, PlainMode, LockMode, Dropped

LEMMA LockCount ==
    ASSUME LockInv, WaitInv, WakesCount, CountInv, NEW t \in Tids, SysLockPi(t)
    PROVE  CountInv'
<1>1. /\ SerialInv /\ out[t] # NotOut /\ ~out[t].dead /\ ~out[t].blocked
      /\ table' = table /\ reported' = reported /\ consumed' = consumed
  BY Zenon DEF LockInv, SysLockPi, plain
<1>2. PICK c \in PiCall : LockOf(t, c)
  BY LockMade
<1> DEFINE me == out[t]
           r == FutexLockPi(t, me, c)
           m == r.me
           a == AfterCall(m, c, r.ret)
<1>3. out' = [out EXCEPT ![t] = a]
  BY <1>2, Zenon DEF LockOf
<1>4. me \in Rec /\ Record(t) = me
  BY <1>1, OthersIn, ZenonT(60)
<1>5. c.key \in PiKeys /\ word[c.key] \in Lock /\ c # NoCall
  BY <1>1 DEF SerialInv, PiCall, NoCall
<1>6. m \in Rec /\ m.dead = me.dead
  BY <1>4, <1>5, FutexLockPiRec, ZenonT(60)
<1>7. Taken(t, me, c.key, r) \/ Refused(t, me, c, r) \/ Waited(t, me, c, r)
  BY <1>4, <1>5, FutexLockPiRec, ZenonT(60)
<1>8. ~m.woken
  BY <1>4, FlagTaken, Zenon
<1>9. ~m.blocked
  <2>1. m.blocked = me.blocked
    BY <1>4, BlockedKept, ZenonT(60)
  <2> QED BY <1>1, <2>1, Zenon
<1> HIDE DEF m, r
<1>10. r.ret = "block" => c \in Call
  BY <1>7, Zenon DEF Taken, Refused, Waited, PiCall, LockCall, Call
<1>11. a \in Rec /\ ~a.woken /\ (a.blocked => a.call # NoCall)
  BY <1>1, <1>5, <1>6, <1>8, <1>9, <1>10, ServedUnflagged, Zenon
<1> HIDE DEF a
<1>12. FlagsInv' /\ Owed' = Owed \ {t}
  BY <1>1, <1>3, <1>11, CallerUnflagged, ZenonT(60)
<1>13. t \notin Owed
  BY <1>1, <1>2, <1>4, LockTakesOwn, ZenonT(60) DEF Owed, IsOwed
<1>14. Owed' = Owed
  BY <1>12, <1>13, Zenon
<1> QED BY <1>1, <1>12, <1>14, Zenon DEF CountInv

LEMMA CountNext ==
    ASSUME ~Smp, WakeInv, [Next]_vars
    PROVE  WakeInv'
<1>1. LockInv /\ WaitInv /\ LockInv' /\ WaitInv'
  BY LockNext, WaitNext, ZenonT(60) DEF WakeInv
<1>2. load' = load
  BY Zenon DEF Next, vars, Begin, End, Clock, SysWait, SysWake, SysRequeue, Store, SysLockPi, SysUnlockPi,
         FastLock, FastUnlock, Post, Sigreturn, SysExit, Retry, AllDead
<1>3. WakesCount' <=> WakesCount
  BY <1>2, Zenon DEF WakesCount, WaitersSurvive, Waits, HandlersApart
<1>4. SUFFICES ASSUME WakesCount PROVE CountInv'
  BY <1>1, <1>3, Zenon DEF WakeInv
<1>5. CountInv /\ WaitersSurvive
  BY <1>4, Zenon DEF WakeInv, WakesCount
<1>6. ASSUME NEW t \in Tids, Begin(t) PROVE CountInv'
  BY <1>1, <1>5, <1>6, BeginCount, ZenonT(60)
<1>7. ASSUME NEW t \in Tids, End(t) PROVE CountInv'
  BY <1>1, <1>5, <1>7, EndCount, ZenonT(60)
<1>8. ASSUME Quiet PROVE CountInv'
  BY <1>1, <1>5, <1>8, QuietCount, ZenonT(60)
<1>9. ASSUME NEW t \in Tids, SysWait(t) PROVE CountInv'
  BY <1>1, <1>4, <1>5, <1>9, WaitCount, ZenonT(60)
<1>10. ASSUME NEW t \in Tids, SysWake(t) PROVE CountInv'
  BY <1>1, <1>5, <1>10, WakeCount, ZenonT(60)
<1>11. ASSUME NEW t \in Tids, SysRequeue(t) PROVE CountInv'
  BY <1>1, <1>5, <1>11, RequeueCount, ZenonT(60)
<1>12. ASSUME NEW t \in Tids, SysLockPi(t) PROVE CountInv'
  BY <1>1, <1>4, <1>5, <1>12, LockCount
<1>13. ASSUME NEW t \in Tids, SysUnlockPi(t) PROVE CountInv'
  BY <1>1, <1>5, <1>13, UnlockCount
<1>14. ASSUME NEW t \in Tids, FastLock(t) \/ FastUnlock(t) PROVE CountInv'
  BY <1>5, <1>14, FastCount, ZenonT(60)
<1>15. ASSUME NEW t \in Tids, Sigreturn(t) \/ SysExit(t) PROVE CountInv'
  BY <1>1, <1>5, <1>15, ReturnCount, ZenonT(60)
<1> QED BY <1>6, <1>7, <1>8, <1>9, <1>10, <1>11, <1>12, <1>13, <1>14, <1>15, ZenonT(60) DEF Next, Quiet

\* On the serial scheduler no wake-up of FUTEX_WAKE or FUTEX_REQUEUE is lost, counted
\* twice or spent on a task that does not wait, for any number of tasks and words, of
\* guests whose waiters survive and whose handlers leave restarted lock calls alone.
THEOREM WakesArrive == ~Smp => (Spec => []NoWakeLost)
<1> SUFFICES ASSUME ~Smp PROVE Spec => []NoWakeLost
  BY Zenon
<1>1. Init => WakeInv
  BY CountInit
<1>2. WakeInv /\ [Next]_vars => WakeInv'
  BY CountNext
<1>3. WakeInv => NoWakeLost
  BY CountImplies
<1> QED BY <1>1, <1>2, <1>3, PTL DEF Spec
=============================================================================
