------------------------------- MODULE Events -------------------------------
(***************************************************************************)
(* Waiting for things to happen: poll, select and epoll over every kind of *)
(* descriptor; eventfd, timerfd, signalfd and pidfd; POSIX timers, alarm,  *)
(* interval timers and sleeping.                                           *)
(*   k.pf            [events, timers, epolls, signals, pidfds], sequences  *)
(*   procs[t]        also alarm, alarm_every, ptimers, info (signal ->     *)
(*                   queued siginfo), blocked, handles, saved (the mask to *)
(*                   restore when a p-variant wait ends)                   *)
(* A watch of an epoll is [events, et, oneshot, last, disarmed, owner,     *)
(* file]; `file` is history: what the fd number named when it was added.   *)
(***************************************************************************)
EXTENDS Streams, SysvIpc

CONSTANTS CountMax,    \* u64::MAX, what an eventfd counter stays below
          MaxPoll      \* the most descriptors one poll takes

SigOrder == <<"SIGINT", "SIGQUIT", "SIGUSR1", "SIGPIPE", "SIGALRM", "SIGTSTP", "SIGRT">>
Lowest(S) == SigOrder[Min({i \in DOMAIN SigOrder : SigOrder[i] \in S})]
FirstHandled(k, t) ==
    LET p == k.procs[t] IN (p.pending \ p.blocked) \cap p.handles # {}

\* ------------------------------------------------- eventfd, timerfd, signalfd
SysEventfd2(k, t, count, sem, nb) ==
    Install([k EXCEPT !.pf.events = Append(@, [count |-> count, sem |-> sem, nb |-> nb])],
            t, [kind |-> "eventfd", ev |-> Len(k.pf.events) + 1])
ReadEventfd(k, i, count, writable) ==
    LET e == k.pf.events[i]
        taken == IF e.sem THEN 1 ELSE e.count
    IN  IF count < 8 THEN Answer(k, "EINVAL")
        ELSE IF e.count = 0 THEN WouldBlock(k, e.nb)
        ELSE Copied(Return([k EXCEPT !.pf.events[i].count = @ - taken], taken), writable)
WriteEventfd(k, i, v) ==
    LET e == k.pf.events[i]
    IN  IF v = CountMax THEN Answer(k, "EINVAL")
        ELSE IF e.count + v < CountMax THEN Return([k EXCEPT !.pf.events[i].count = @ + v], 8)
        ELSE WouldBlock(k, e.nb)

SysTimerfdCreate(k, t, nb) ==
    Install([k EXCEPT !.pf.timers = Append(@, [expiry |-> Never, interval |-> 0, count |-> 0, nb |-> nb])],
            t, [kind |-> "timerfd", tm |-> Len(k.pf.timers) + 1])
\* update_timerfd: fold in the expirations since the last look
Due(tm, now) == tm.expiry # Never /\ now >= tm.expiry
UpdatedTimer(tm, now) ==
    LET n == (now - tm.expiry) \div tm.interval + 1
    IN  IF ~Due(tm, now) THEN tm
        ELSE IF tm.interval = 0 THEN [tm EXCEPT !.expiry = Never, !.count = @ + 1]
        ELSE [tm EXCEPT !.count = @ + n, !.expiry = @ + n * tm.interval]
UpdateTimerfd(k, i) == [k EXCEPT !.pf.timers[i] = UpdatedTimer(@, k.now)]
\* `value` 0 disarms; `abs` is TFD_TIMER_ABSTIME
SysTimerfdSettime(k, t, n, value, interval, abs) ==
    LET i == Table(k, t)[n].tm
    IN  IF ~IsFd(k, t, n, "timerfd") THEN Answer(k, "EBADF")
        ELSE Return([k EXCEPT !.pf.timers[i] = [@ EXCEPT !.interval = interval, !.count = 0,
                        !.expiry = IF value = 0 THEN Never ELSE IF abs THEN value ELSE k.now + value]], 0)
SysTimerfdGettime(k, t, n) ==
    LET r == UpdateTimerfd(k, Table(k, t)[n].tm)
        tm == r.pf.timers[Table(k, t)[n].tm]
    IN  IF ~IsFd(k, t, n, "timerfd") THEN Answer(k, "EBADF")
        ELSE Return(r, <<tm.interval, IF tm.expiry = Never THEN 0 ELSE Max({0, tm.expiry - k.now})>>)
ReadTimerfd(k, i, count, writable) ==
    LET r == UpdateTimerfd(k, i)
        tm == r.pf.timers[i]
    IN  IF count < 8 THEN Answer(k, "EINVAL")
        ELSE IF tm.count = 0 THEN WouldBlock(r, tm.nb)
        ELSE Copied(Return([r EXCEPT !.pf.timers[i].count = 0], tm.count), writable)

\* signalfd4: `n` is Never to make a new one
SysSignalfd4(k, t, n, mask, nb) ==
    IF n = Never THEN
        Install([k EXCEPT !.pf.signals = Append(@, [mask |-> mask, nb |-> nb])],
                t, [kind |-> "signalfd", sg |-> Len(k.pf.signals) + 1])
    ELSE IF ~IsFd(k, t, n, "signalfd") THEN Answer(k, "EINVAL")
    ELSE Return([k EXCEPT !.pf.signals[Table(k, t)[n].sg].mask = mask], n)
\* take_siginfo: the oldest queued one; the signal stays pending while more are queued
Dequeue(k, t, sig) ==
    LET q == IF sig \in DOMAIN k.procs[t].info THEN k.procs[t].info[sig] ELSE << >>
        rest == IF q = << >> THEN << >> ELSE Tail(q)
    IN  [k EXCEPT !.procs[t].pending = IF rest = << >> THEN @ \ {sig} ELSE @,
                  !.procs[t].info = IF rest = << >> THEN Drop(@, {sig}) ELSE Put(@, sig, rest)]
ReadSignalfd(k, t, i, count, writable) ==
    LET mask == k.pf.signals[i].mask
        One(r, j) ==
            LET due == r.procs[t].pending \cap mask
            IN  IF due = {} \/ r.out # "ok" THEN r
                ELSE IF ~writable THEN Answer(Dequeue(r, t, Lowest(due)), "EFAULT")
                ELSE [Dequeue(r, t, Lowest(due)) EXCEPT !.val = Append(@, Lowest(due))]
    IN  IF count < 128 THEN Answer(k, "EINVAL")
        ELSE IF k.procs[t].pending \cap mask = {} THEN WouldBlock(k, k.pf.signals[i].nb)
        ELSE FoldLeft(One, Return(k, << >>), [j \in 1..(count \div 128) |-> j])

\* --------------------------------------------------------------- readiness
\* fd_ready: looking at a timerfd brings its count up to date.
Look(k, t, n) == IF IsFd(k, t, n, "timerfd") THEN UpdateTimerfd(k, Table(k, t)[n].tm) ELSE k
PipeReadReady(p) == IF p.buf # << >> THEN {"in"} ELSE IF p.writers = 0 THEN {"hup"} ELSE {}
PipeWriteReady(p) ==
    IF p.readers = 0 THEN {"out", "err"} ELSE IF PipeRoom(p) > 0 THEN {"out"} ELSE {}
FdReady(k, t, n) ==
    LET f == Table(k, t)[n]
        In(b) == IF b THEN {"in"} ELSE {}
    IN  IF n \notin DOMAIN Table(k, t) THEN {"nval"}
        ELSE CASE f.kind = "stdin" -> {"in"}
               [] f.kind \in {"stdout", "stderr"} -> {"out"}
               [] f.kind \in {"file", "dir", "tty"} -> {"in", "out"}
               [] f.kind = "socket" -> SockReadiness(k, f.sock, f.end)
               [] f.kind = "pipe_r" -> PipeReadReady(k.pipes[f.pipe])
               [] f.kind = "pipe_w" -> PipeWriteReady(k.pipes[f.pipe])
               [] f.kind = "eventfd" -> {"out"} \cup In(k.pf.events[f.ev].count > 0)
               [] f.kind = "timerfd" -> In(UpdatedTimer(k.pf.timers[f.tm], k.now).count > 0)
               [] f.kind = "signalfd" -> In(k.procs[t].pending \cap k.pf.signals[f.sg].mask # {})
               [] f.kind = "pidfd" -> In(k.pf.pidfds[f.pid].exited)
               [] f.kind = "mqueue" -> MqReady(k.mq[f.q])
               [] f.kind = "pty_m" -> MasterReady(k.ptys[f.pty])
               [] f.kind = "pty_s" -> SlaveReady(k.ptys[f.pty])
               [] OTHER -> {}
\* block_or_timeout: `ms` is Never to wait for ever
BlockOrTimeout(k, t, ms, v) ==
    CASE ms = 0 -> Return(k, v)
      [] ms = Never -> Answer(k, "block_once")
      [] ms > 0 /\ Expired(k, t) -> Return(Unseed(k, t), v)
      [] OTHER -> Answer(Seed(k, t, k.now + ms), "block_once")
\* install_poll_sigmask: `mask` is NoMask for the plain variants
NoMask == {"none"}
InstallSigmask(k, t, mask) ==
    IF mask = NoMask THEN k
    ELSE [k EXCEPT !.procs[t].saved = IF @ = NoMask THEN k.procs[t].blocked ELSE @,
                   !.procs[t].blocked = mask]

\* poll and ppoll: `fds` is a sequence of <<fd, events>>; the result pairs
\* each with what is ready.
SysPoll(k, t, fds, ms) ==
    LET looked == FoldLeft(LAMBDA r, w : Look(r, t, w[1]), k, fds)
        Revents(w) == IF w[1] < 0 THEN {} ELSE FdReady(k, t, w[1]) \cap (w[2] \cup {"err", "hup", "nval"})
        revents == [i \in DOMAIN fds |-> Revents(fds[i])]
    IN  IF Len(fds) > MaxPoll THEN Answer(k, "EINVAL")
        ELSE IF \E i \in DOMAIN fds : revents[i] # {} THEN Return(looked, revents)
        ELSE BlockOrTimeout(looked, t, ms, revents)
SysPpoll(k, t, fds, ms, mask) == SysPoll(InstallSigmask(k, t, mask), t, fds, ms)
\* select: of the timeout `ms` only 0 counts; for any other no deadline is kept
SysSelect(k, t, rd, wr, ex, ms) ==
    LET looked == FoldSet(LAMBDA n, r : Look(r, t, n), k, rd \cup wr \cup ex)
        Ready(S, bits) == {n \in S : FdReady(k, t, n) \cap bits # {}}
        hits == <<Ready(rd, {"in", "hup"}), Ready(wr, {"out"}), Ready(ex, {"err"})>>
    IN  IF ms = 0 \/ hits # <<{}, {}, {}>> THEN Return(looked, hits) ELSE Answer(looked, "block_once")
SysPselect6(k, t, rd, wr, ex, ms, mask) == SysSelect(InstallSigmask(k, t, mask), t, rd, wr, ex, ms)

\* ------------------------------------------------------------------- epoll
SysEpollCreate1(k, t) ==
    Install([k EXCEPT !.pf.epolls = Append(@, << >>)], t, [kind |-> "epoll", ep |-> Len(k.pf.epolls) + 1])
EpollForget(k, t, n) ==
    LET mine == {f.ep : f \in {g \in Range(Table(k, t)) : g.kind = "epoll"}}
    IN  [k EXCEPT !.pf.epolls = [i \in DOMAIN @ |->
            IF i \in mine /\ n \in DOMAIN @[i] /\ @[i][n].owner = k.procs[t].tgid
            THEN Drop(@[i], {n}) ELSE @[i]]]
SysEpollCtl(k, t, e, op, n, events, et, oneshot) ==
    LET i == Table(k, t)[e].ep
        watch == [events |-> events, et |-> et, oneshot |-> oneshot, last |-> 0, disarmed |-> FALSE,
                  owner |-> k.procs[t].tgid, file |-> Table(k, t)[n]]
        there == n \in DOMAIN k.pf.epolls[i]
    IN  IF ~IsFd(k, t, e, "epoll") \/ n \notin DOMAIN Table(k, t) THEN Answer(k, "EBADF")
        ELSE CASE op = "add" -> IF there THEN Answer(k, "EEXIST")
                                ELSE Return([k EXCEPT !.pf.epolls[i] = Put(@, n, watch)], 0)
               [] op = "mod" -> IF there THEN Return([k EXCEPT !.pf.epolls[i][n] = watch], 0)
                                ELSE Answer(k, "ENOENT")
               [] op = "del" -> IF there THEN Return([k EXCEPT !.pf.epolls[i] = Drop(@, {n})], 0)
                                ELSE Answer(k, "ENOENT")
               [] OTHER -> Answer(k, "EINVAL")
\* The bits of a mask as a number: what an edge is for most descriptors.
MaskLevel(S) == (IF "in" \in S THEN 1 ELSE 0) + (IF "out" \in S THEN 4 ELSE 0)
                + (IF "err" \in S THEN 8 ELSE 0) + (IF "hup" \in S THEN 16 ELSE 0)
                + (IF "nval" \in S THEN 32 ELSE 0)
Level(k, t, n, ready) ==
    CASE IsFd(k, t, n, "eventfd") -> k.pf.events[Table(k, t)[n].ev].count
      [] IsFd(k, t, n, "timerfd") -> k.pf.timers[Table(k, t)[n].tm].count
      [] OTHER -> MaskLevel(ready)
SysEpollWait(k, t, e, maxevents, ms) ==
    LET i == Table(k, t)[e].ep
        armed == SetToSortSeq({n \in DOMAIN k.pf.epolls[i] : ~k.pf.epolls[i][n].disarmed}, <)
        Ready(n) == FdReady(k, t, n) \cap (k.pf.epolls[i][n].events \cup {"err", "hup"})
        Tell(r, n, ready, level) ==
            LET w == r.pf.epolls[i][n]
                seen == IF w.et THEN [r EXCEPT !.pf.epolls[i][n].last = level] ELSE r
                told == [seen EXCEPT !.val = Append(@, <<n, ready>>)]
            IN  IF Len(r.val) >= maxevents THEN r
                ELSE IF ready = {} \/ (w.et /\ level = w.last) THEN seen
                ELSE IF w.oneshot THEN [told EXCEPT !.pf.epolls[i][n].disarmed = TRUE] ELSE told
        Poll(r, n, ready) == Tell(r, n, ready, Level(r, t, n, ready))
        One(r, n) == Poll(r, n, Ready(n))
        End(all) == IF all.val # << >> THEN all ELSE BlockOrTimeout(all, t, ms, << >>)
    IN  IF ~IsFd(k, t, e, "epoll") THEN Answer(k, "EBADF")
        ELSE IF maxevents = 0 THEN Answer(k, "EINVAL")
        ELSE End(FoldLeft(One, Return(FoldLeft(LAMBDA r, n : Look(r, t, n), k, armed), << >>), armed))
SysEpollPwait(k, t, e, maxevents, ms, mask) ==
    SysEpollWait(InstallSigmask(k, t, mask), t, e, maxevents, ms)

\* ------------------------------------------------------------ POSIX timers
\* A timer is [id, tgid, notify, sig, deadline, interval, overrun, missed,
\* total, told]: `missed` is overrun_pending, `overrun` overrun_last; total
\* and told are history, the expirations there were and those signals told.
TimersOf(k, g) == UNION {{<<t, i>> : i \in DOMAIN k.procs[t].ptimers} :
                         t \in {t \in Alive(k) : k.procs[t].tgid = g}}
TimerAt(k, x) == k.procs[x[1]].ptimers[x[2]]
PtimerOf(k, t, id) == {x \in TimersOf(k, k.procs[t].tgid) : TimerAt(k, x).id = id}
SignalQueued(p, tm) ==
    tm.sig \in p.pending /\ tm.sig \in DOMAIN p.info
    /\ \E q \in ToSet(p.info[tm.sig]) : q.code = "timer" /\ q.id = tm.id
\* raise_with: real-time signals queue, standard ones keep the newest siginfo
RaiseWith(k, t, sig, q) ==
    LET old == IF sig \in DOMAIN k.procs[t].info /\ sig = "SIGRT" THEN k.procs[t].info[sig] ELSE << >>
    IN  [Raise(k, t, sig) EXCEPT !.procs[t].info = Put(@, sig, Append(old, q))]
Overrun(tm, n) == tm.missed + n - 1
FirePtimer(k, t, i) ==
    LET tm == k.procs[t].ptimers[i]
        missed == (k.now - tm.deadline) \div tm.interval
        once == tm.interval = 0
        n == IF once THEN 1 ELSE missed + 1
        over == Overrun(tm, n)
        next == [tm EXCEPT !.deadline = IF once THEN Never ELSE @ + n * tm.interval, !.total = @ + n]
    IN  IF tm.deadline = Never \/ k.now < tm.deadline THEN k
        ELSE IF tm.notify = "none" THEN [k EXCEPT !.procs[t].ptimers[i] = [next EXCEPT !.told = @ + n]]
        ELSE IF SignalQueued(k.procs[t], tm) THEN [k EXCEPT !.procs[t].ptimers[i] = [next EXCEPT !.missed = @ + n]]
        ELSE RaiseWith([k EXCEPT !.procs[t].ptimers[i] =
                            [next EXCEPT !.overrun = over, !.missed = 0, !.told = @ + over + 1]],
                       t, tm.sig, [code |-> "timer", id |-> tm.id, over |-> over])
FirePtimers(k, t) == FoldLeft(LAMBDA r, i : FirePtimer(r, t, i), k, [i \in DOMAIN k.procs[t].ptimers |-> i])
\* fire_alarm_if_due: a periodic alarm skips the deadlines it missed
FireAlarm(k, t) ==
    LET p == k.procs[t]
        next == p.alarm + ((k.now - p.alarm) \div p.alarm_every + 1) * p.alarm_every
    IN  IF p.alarm = Never \/ k.now < p.alarm THEN k
        ELSE [Raise(k, t, "SIGALRM") EXCEPT !.procs[t].alarm = IF p.alarm_every = 0 THEN Never ELSE next]
FireTimers(k, t) == FirePtimers(FireAlarm(k, t), t)
\* Mutant: the idle loop forgets the POSIX timers.
TimerDeadlinesAlarm(p) == {p.alarm} \ {Never}
TimerDeadlines(p) ==
    ({p.alarm} \cup {p.ptimers[i].deadline : i \in DOMAIN p.ptimers}) \ {Never}

\* `tid` names the thread of the caller's group that SIGEV_THREAD_ID signals.
SysTimerCreate(k, t, notify, sig, tid) ==
    LET g == k.procs[t].tgid
        used == {TimerAt(k, x).id : x \in TimersOf(k, g)}
        id == Min((0..Cardinality(used)) \ used)
        on == IF notify = "thread" THEN tid ELSE t
        tm == [id |-> id, tgid |-> g, notify |-> notify, sig |-> sig, deadline |-> Never, interval |-> 0,
               overrun |-> 0, missed |-> 0, total |-> 0, told |-> 0]
    IN  IF on \notin Alive(k) THEN Answer(k, "EINVAL")
        ELSE IF k.procs[on].tgid # g THEN Answer(k, "EINVAL")
        ELSE Return([k EXCEPT !.procs[on].ptimers = Append(@, tm)], id)
SysTimerSettime(k, t, id, value, interval, abs) ==
    LET x == CHOOSE y \in PtimerOf(k, t, id) : TRUE
        at == IF value = 0 THEN Never ELSE IF abs THEN Max({k.now, value}) ELSE k.now + value
    IN  IF PtimerOf(k, t, id) = {} THEN Answer(k, "EINVAL")
        ELSE Return([k EXCEPT !.procs[x[1]].ptimers[x[2]] =
                        [@ EXCEPT !.interval = interval, !.missed = 0, !.deadline = at, !.total = 0, !.told = 0]],
                    0)
SysTimerGettime(k, t, id) ==
    LET tm == TimerAt(k, CHOOSE y \in PtimerOf(k, t, id) : TRUE)
    IN  IF PtimerOf(k, t, id) = {} THEN Answer(k, "EINVAL")
        ELSE Return(k, <<tm.interval, IF tm.deadline = Never THEN 0 ELSE Max({1, tm.deadline - k.now})>>)
SysTimerGetoverrun(k, t, id) ==
    IF PtimerOf(k, t, id) = {} THEN Answer(k, "EINVAL")
    ELSE Return(k, TimerAt(k, CHOOSE y \in PtimerOf(k, t, id) : TRUE).overrun)
SysTimerDelete(k, t, id) ==
    LET x == CHOOSE y \in PtimerOf(k, t, id) : TRUE
    IN  IF PtimerOf(k, t, id) = {} THEN Answer(k, "EINVAL")
        ELSE Return([k EXCEPT !.procs[x[1]].ptimers = RemoveAt(@, x[2])], 0)

SysAlarm(k, t, secs) ==
    LET old == k.procs[t].alarm
    IN  Return([k EXCEPT !.procs[t].alarm_every = 0,
                         !.procs[t].alarm = IF secs = 0 THEN Never ELSE k.now + secs],
               IF old = Never THEN 0 ELSE Max({0, old - k.now}))
SysSetitimer(k, t, real, value, interval) ==
    IF ~real THEN Return(k, 0)
    ELSE Return([k EXCEPT !.procs[t].alarm_every = interval,
                          !.procs[t].alarm = IF value = 0 THEN Never ELSE k.now + value], 0)
\* nanosleep and clock_nanosleep: `want` is a length, or with `abs` a time
SysNanosleep(k, t, want, abs) ==
    LET seeded == Seed(k, t, IF abs THEN want ELSE k.now + want)
    IN  IF k.procs[t].wake = Never /\ abs /\ want <= k.now THEN Return(k, 0)
        ELSE IF Expired(seeded, t) THEN Return(Unseed(k, t), 0)
        ELSE IF FirstHandled(k, t) THEN Answer(Unseed(k, t), "EINTR")
        ELSE Answer(seeded, "block_once")
=============================================================================
