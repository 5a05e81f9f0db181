------------------------------ MODULE Services ------------------------------
(***************************************************************************)
(* Tasks calling the services of the kernel: message queues, semaphores    *)
(* and shared memory, sockets, pipes and terminals, polls and timers, with *)
(* the signals that interrupt a wait.  Only the calls that unpark_all, a   *)
(* signal or a deadline make a parked task runnable; whatever else would   *)
(* end its wait is found by the sweep the scheduler makes before it says   *)
(* that every process is blocked.                                          *)
(***************************************************************************)
EXTENDS Events

CONSTANT Cases   \* name -> [calls, left, horizon, ...], see InitialKernel

\* --------------------------------------- one read or write, whatever the fd
ReadFd(k, t, n, count, writable) ==
    LET f == Table(k, t)[n]
    IN  IF n \notin DOMAIN Table(k, t) THEN Answer(k, "EBADF")
        ELSE CASE f.kind = "file" -> ReadFileFd(k, f, count)
               [] f.kind = "socket" -> ReadSocket(k, f.sock, f.end, count, writable)
               [] f.kind = "pipe_r" -> ReadPipe(k, f.pipe, count, writable)
               [] f.kind = "eventfd" -> ReadEventfd(k, f.ev, count, writable)
               [] f.kind = "timerfd" -> ReadTimerfd(k, f.tm, count, writable)
               [] f.kind = "signalfd" -> ReadSignalfd(k, t, f.sg, count, writable)
               [] f.kind \in {"pty_m", "pty_s"} -> ReadPtyFd(k, t, f, count, writable)
               [] f.kind \in {"pidfd", "namespace"} -> Answer(k, "EINVAL")
               [] OTHER -> ReadConsole(k, f, count, writable)
WriteFd(k, t, n, data) ==
    LET f == Table(k, t)[n]
    IN  IF n \notin DOMAIN Table(k, t) THEN Answer(k, "EBADF")
        ELSE CASE f.kind = "file" -> WriteFileFd(k, f, data)
               [] f.kind = "socket" -> WriteSocket(k, t, f.sock, f.end, data, FALSE, FALSE)
               [] f.kind = "pipe_w" -> PipeWriteFrom(k, t, f.pipe, data)
               [] f.kind = "eventfd" -> WriteEventfd(k, f.ev, data[1])
               [] f.kind \in {"pty_m", "pty_s"} -> WritePtyFd(k, f, data)
               [] f.kind \in {"stdout", "stderr", "tty"} ->
                    Return([k EXCEPT !.console = @ \o data], Len(data))
               [] OTHER -> Answer(k, "EBADF")
SysRead(k, t, n, count, writable) ==
    ApplySockTimeout(ReadFd(k, t, n, count, writable), t, n, "receive")
SysWrite(k, t, n, data) == ApplySockTimeout(WriteFd(k, t, n, data), t, n, "send")

\* readv and writev of streams, segment by segment: one that would block parks
\* the task, and the whole vector is read or written again.
VectorStart(k) == [k |-> k, got |-> << >>, out |-> "ok", stop |-> FALSE]
VectorEnd(a) ==
    IF a.out \in {"block", "block_once"} THEN Answer(a.k, a.out)
    ELSE IF a.out # "ok" /\ Len(a.got) = 0 THEN Answer(a.k, a.out) ELSE Return(a.k, a.got)
SysReadv(k, t, n, counts) ==
    LET Step(a, c, r) ==
            IF r.out # "ok" THEN [a EXCEPT !.k = r, !.out = r.out, !.stop = TRUE]
            ELSE [a EXCEPT !.k = r, !.got = @ \o r.val, !.stop = Len(r.val) < c]
        One(a, c) == IF a.stop \/ c = 0 THEN a ELSE Step(a, c, ReadFd(a.k, t, n, c, TRUE))
    IN  VectorEnd(FoldLeft(One, VectorStart(k), counts))
\* A pipe takes the vector as one write; a terminal carries on after a short one.
SysWritev(k, t, n, segs) ==
    LET pty == IsFd(k, t, n, "pty_m") \/ IsFd(k, t, n, "pty_s")
        Step(a, d, r) ==
            IF r.out # "ok" THEN [a EXCEPT !.k = r, !.out = r.out, !.stop = ~(pty /\ r.out = "block")]
            ELSE [a EXCEPT !.k = r, !.got = @ \o SubSeq(d, 1, r.val), !.stop = ~pty /\ r.val < Len(d)]
        One(a, d) == IF a.stop \/ d = << >> THEN a ELSE Step(a, d, WriteFd(a.k, t, n, d))
        Count(r) == IF r.out = "ok" THEN Return(r, Len(r.val)) ELSE r
    IN  IF IsFd(k, t, n, "pipe_w") THEN PipeWriteFrom(k, t, Table(k, t)[n].pipe, FlattenSeq(segs))
        ELSE Count(VectorEnd(FoldLeft(One, VectorStart(k), segs)))
EmptyPipe(k, t, n) ==
    LET p == k.pipes[Table(k, t)[n].pipe] IN p.buf = << >> /\ p.writers > 0
SysVmsplice(k, t, n, segs, counts, nb) ==
    CASE IsFd(k, t, n, "pipe_w") -> SysWritev(k, t, n, segs)
      [] IsFd(k, t, n, "pipe_r") ->
            IF nb /\ EmptyPipe(k, t, n) THEN Answer(k, "EAGAIN") ELSE SysReadv(k, t, n, counts)
      [] OTHER -> Answer(k, "EBADF")
\* preadv2 and pwritev2 at the current position; `flags` has "append", "nowait"
SysPreadv2(k, t, n, counts, flags) ==
    IF "nowait" \in flags /\ IsFd(k, t, n, "pipe_r") /\ EmptyPipe(k, t, n) THEN Answer(k, "EAGAIN")
    ELSE SysReadv(k, t, n, counts)
SysPwritev2(k, t, n, segs, flags) ==
    LET f == Table(k, t)[n]
        eof == Len(FileBytes(k, f))
        data == FlattenSeq(segs)
    IN  IF "append" \notin flags \/ ~IsFd(k, t, n, "file") THEN SysWritev(k, t, n, segs)
        ELSE IF ~f.w THEN Answer(k, "EBADF")
        ELSE Return(Advance([k EXCEPT !.files[k.ofds[f.ofd].file] = @ \o data], f, Never, eof + Len(data)),
                    Len(data))

\* ------------------------------------------------------------- descriptors
FdSetNonblock(k, f, nb) ==
    CASE f.kind = "socket" -> SockSetNonblock(k, f.sock, f.end, nb)
      [] f.kind = "eventfd" -> [k EXCEPT !.pf.events[f.ev].nb = nb]
      [] f.kind = "timerfd" -> [k EXCEPT !.pf.timers[f.tm].nb = nb]
      [] f.kind = "signalfd" -> [k EXCEPT !.pf.signals[f.sg].nb = nb]
      [] f.kind = "pty_m" -> [k EXCEPT !.ptys[f.pty].mnb = nb]
      [] f.kind = "pty_s" -> [k EXCEPT !.ptys[f.pty].snb = nb]
      [] f.kind = "pipe_r" -> [k EXCEPT !.pipes[f.pipe].rnb = nb]
      [] f.kind = "pipe_w" -> [k EXCEPT !.pipes[f.pipe].wnb = nb]
      [] OTHER -> k
Readable(k, f) ==
    CASE f.kind = "pipe_r" -> Len(k.pipes[f.pipe].buf)
      [] f.kind = "socket" -> SocketReadableBytes(k, f.sock, f.end)
      [] f.kind = "eventfd" -> IF k.pf.events[f.ev].count > 0 THEN 8 ELSE 0
      [] f.kind = "timerfd" -> IF k.pf.timers[f.tm].count > 0 THEN 8 ELSE 0
      [] OTHER -> 0
\* What the console's terminal keeps is left out: nothing else reads it.
ConsoleIoctl(k, t, req) ==
    CASE req = "TIOCGPGRP" -> Return(k, k.procs[t].pgid)
      [] req \in {"TCGETS", "TCSETS", "TIOCSPGRP", "TCFLSH"} -> Return(k, 0)
      [] OTHER -> Answer(k, "ENOTTY")
SysIoctl(k, t, n, req, v) ==
    LET f == Table(k, t)[n]
    IN  IF n \notin DOMAIN Table(k, t) THEN Answer(k, "EBADF")
        ELSE IF f.kind \in {"pty_m", "pty_s"} THEN PtyIoctl(k, f, req, v)
        ELSE IF f.kind = "tty" /\ req \notin {"FIONBIO", "FIONREAD"} THEN ConsoleIoctl(k, t, req)
        ELSE IF req \in {"SIOCGIFCONF", "SIOCSIFFLAGS", "SIOCGIFADDR", "SIOCGIFINDEX"} THEN
            IF f.kind = "socket" THEN IfaceIoctl(k, t, k.net.socks[f.sock].ns, req, v) ELSE Answer(k, "ENOTTY")
        ELSE CASE req = "FIONBIO" -> Return(FdSetNonblock(k, f, v), 0)
               [] req = "FIONREAD" -> Return(k, Readable(k, f))
               [] req = "SIOCOUTQ" /\ f.kind = "socket" -> Return(k, 0)
               [] OTHER -> Answer(k, "ENOTTY")

WithoutFd(k, t, n) == [k EXCEPT !.tables[k.procs[t].files] = Drop(@, {n})]
SysClose(k, t, n) ==
    LET f == Table(k, t)[n]
    IN  IF n \notin DOMAIN Table(k, t) THEN Answer(k, "EBADF")
        ELSE Return(ClosePty(EpollForget(BumpPipe(WithoutFd(k, t, n), f, FALSE), t, n), f), 0)
SysDup(k, t, n) ==
    IF n \notin DOMAIN Table(k, t) THEN Answer(k, "EBADF")
    ELSE Install(BumpPipe(k, Table(k, t)[n], TRUE), t, Table(k, t)[n])
\* dup2 over an open number closes it, but not as a terminal's end
SysDup2(k, t, n, new, dup3) ==
    LET f == Table(k, t)[n]
        freed == IF new \in DOMAIN Table(k, t)
                 THEN EpollForget(BumpPipe(WithoutFd(k, t, new), Table(k, t)[new], FALSE), t, new) ELSE k
        r == BumpPipe(freed, f, TRUE)
    IN  IF n = new /\ dup3 THEN Answer(k, "EINVAL")
        ELSE IF n \notin DOMAIN Table(k, t) THEN Answer(k, "EBADF")
        ELSE IF n = new THEN Return(k, new)
        ELSE Return([r EXCEPT !.tables[k.procs[t].files] = Put(@, new, f)], new)

\* ------------------------------------------------------------------- tasks
\* The part of clone and exit the services see.  A forked child shares no
\* table and no address space; a thread shares both.
SysClone(k, t, c, thread) ==
    LET p == k.procs[t]
        child == [k.procs[c] EXCEPT !.run = "running", !.files = IF thread THEN p.files ELSE c,
                    !.mm = IF thread THEN p.mm ELSE c, !.tgid = IF thread THEN p.tgid ELSE c,
                    !.ns = p.ns, !.blocked = p.blocked, !.handles = p.handles]
        r == [k EXCEPT !.procs[c] = child]
        copied == FoldSet(LAMBDA n, s : BumpPipe(s, Table(k, t)[n], TRUE), r, DOMAIN Table(k, t))
    IN  IF thread THEN Return(r, c)
        ELSE Return(ForkMm([copied EXCEPT !.tables = Put(@, c, Table(k, t)),
                                          !.mms = Put(@, c, k.mms[p.mm])], p.mm, c), c)
\* exit_task: descriptors, the address space, the group's semaphore undos,
\* the parent, and the pidfds of the group.
EmptyMm == [pages |-> << >>, taken |-> {}, stray |-> {}]
SharedBy(k, t, fld) == \E u \in Alive(k) \ {t} : k.procs[u][fld] = k.procs[t][fld]
CloseAll(k, t) ==
    LET tab == Table(k, t)
    IN  IF SharedBy(k, t, "files") THEN k
        ELSE FoldSet(LAMBDA n, s : BumpPipe(s, tab[n], FALSE),
                     [k EXCEPT !.tables[k.procs[t].files] = << >>], DOMAIN tab)
LeaveMm(k, t) ==
    IF SharedBy(k, t, "mm") THEN k
    ELSE [DetachMm(k, k.procs[t].mm) EXCEPT !.mms[k.procs[t].mm] = EmptyMm]
LeaveGroup(k, t) ==
    IF SharedBy(k, t, "tgid") THEN k
    ELSE [IpcExitGroup(k, k.procs[t].tgid) EXCEPT !.pf.pidfds[k.procs[t].tgid].exited = TRUE]
ExitTask(k, t) ==
    LET dead == [k.procs[t] EXCEPT !.run = "zombie", !.parked = FALSE, !.call = << >>,
                                   !.progress = 0, !.wake = Never, !.pending = {}]
        Buried(r) == [r EXCEPT !.procs = [u \in DOMAIN @ |->
                        IF u = t THEN dead
                        ELSE IF u = k.procs[t].parent THEN [@[u] EXCEPT !.parked = FALSE] ELSE @[u]]]
    IN  Return(Buried(LeaveGroup(LeaveMm(CloseAll(k, t), t), t)), 0)
SysKill(k, t, target, sig) ==
    IF target \in Alive(k) THEN Return(Raise(k, target, sig), 0) ELSE Answer(k, "ESRCH")
\* deliver_pending_signals, a handler running to its end; the mask a wait put
\* aside comes back.
Deliver(k, t) ==
    LET due == k.procs[t].pending \ k.procs[t].blocked
        handled == FoldSet(LAMBDA sig, r : Dequeue(r, t, sig), k, due \cap k.procs[t].handles)
        restored == [handled EXCEPT !.procs[t].saved = NoMask,
                                    !.procs[t].blocked = IF k.procs[t].saved = NoMask THEN @
                                                         ELSE k.procs[t].saved]
    IN  IF due \subseteq k.procs[t].handles THEN restored ELSE ExitTask(k, t)

VARIABLES kase,  \* the case
          k      \* the kernel
svcVars == <<kase, k>>
Case == Cases[kase]

IpcCalls == {"msgget", "msgsnd", "msgrcv", "msgctl", "semget", "semop", "semctl", "shmget", "shmat", "shmdt",
             "shmctl", "munmap", "mq_open", "mq_unlink", "mq_send", "mq_receive", "mq_notify", "mq_attr"}
PerformIpc(s, t, c) ==
    CASE c.op = "msgget" -> SysMsgget(s, t, c.key, c.flags, c.mode)
      [] c.op = "msgsnd" -> SysMsgsnd(s, t, c.id, c.type, c.text, c.nowait)
      [] c.op = "msgrcv" -> SysMsgrcv(s, t, c.id, c.size, c.type, c.flags, TRUE)
      [] c.op = "msgctl" -> SysMsgctl(s, t, c.id, c.cmd, c.new)
      [] c.op = "semget" -> SysSemget(s, t, c.key, c.nsems, c.flags, c.mode)
      [] c.op = "semop" -> SysSemtimedop(s, t, c.id, c.ops, c.timeout)
      [] c.op = "semctl" -> SysSemctl(s, t, c.id, c.cmd, c.num, c.arg)
      [] c.op = "shmget" -> SysShmget(s, t, c.key, c.size, c.flags, c.mode)
      [] c.op = "shmat" -> SysShmat(s, t, c.id, c.addr, c.flags, c.mapped)
      [] c.op = "shmdt" -> SysShmdt(s, t, c.addr)
      [] c.op = "shmctl" -> SysShmctl(s, t, c.id, c.cmd, c.new)
      [] c.op = "munmap" -> SysMunmap(s, t, c.addr, c.n)
      [] c.op = "mq_open" -> SysMqOpen(s, t, c.name, c.want, c.flags, c.mode, c.attr)
      [] c.op = "mq_unlink" -> SysMqUnlink(s, t, c.name)
      [] c.op = "mq_send" -> SysMqTimedsend(s, t, c.fd, c.prio, c.text, c.deadline)
      [] c.op = "mq_receive" -> SysMqTimedreceive(s, t, c.fd, c.size, c.deadline, TRUE)
      [] c.op = "mq_notify" -> SysMqNotify(s, t, c.fd, c.sig)
      [] c.op = "mq_attr" -> SysMqGetsetattr(s, t, c.fd, c.nb)
Perform(s, t, c) ==
    CASE c.op \in IpcCalls -> PerformIpc(s, t, c)
      [] c.op = "socket" -> SysSocket(s, t, c.dom, c.type, c.proto, c.nb)
      [] c.op = "socketpair" -> SysSocketpair(s, t, "unix", c.type, FALSE, TRUE)
      [] c.op = "bind" -> SysBind(s, t, c.fd, c.addr)
      [] c.op = "listen" -> SysListen(s, t, c.fd)
      [] c.op = "connect" -> SysConnect(s, t, c.fd, c.addr, c.how)
      [] c.op = "accept" -> ApplySockTimeout(SysAccept4(s, t, c.fd, FALSE), t, c.fd, "receive")
      [] c.op = "getsockname" -> SysGetsockname(s, t, c.fd)
      [] c.op = "getpeername" -> SysGetpeername(s, t, c.fd)
      [] c.op = "shutdown" -> SysShutdown(s, t, c.fd, c.how)
      [] c.op = "setsockopt" -> SysSetsockopt(s, t, c.fd, c.level, c.opt, c.len, c.v)
      [] c.op = "getsockopt" -> SysGetsockopt(s, t, c.fd, c.level, c.opt)
      [] c.op = "sendto" -> SysSendto(s, t, c.fd, c.data, c.dest, c.flags)
      [] c.op = "recvfrom" -> SysRecvfrom(s, t, c.fd, c.count, c.flags, TRUE)
      [] c.op = "sendmsg" -> SysSendmsg(s, t, c.fd, c.data, NoAddr, {}, c.fds)
      [] c.op = "recvmsg" -> SysRecvmsg(s, t, c.fd, c.count, c.flags, c.room, TRUE)
      [] c.op = "sendmmsg" -> SysSendmmsg(s, t, c.fd, c.texts)
      [] c.op = "recvmmsg" -> SysRecvmmsg(s, t, c.fd, c.count, c.vlen, c.flags)
      [] c.op = "read" -> SysRead(s, t, c.fd, c.count, TRUE)
      [] c.op = "write" -> SysWrite(s, t, c.fd, c.data)
      [] c.op = "readv" -> SysReadv(s, t, c.fd, c.counts)
      [] c.op = "writev" -> SysWritev(s, t, c.fd, c.segs)
      [] c.op = "vmsplice" -> SysVmsplice(s, t, c.fd, c.segs, c.counts, c.nb)
      [] c.op = "preadv2" -> SysPreadv2(s, t, c.fd, c.counts, c.flags)
      [] c.op = "pwritev2" -> SysPwritev2(s, t, c.fd, c.segs, c.flags)
      [] c.op = "splice" -> SysSplice(s, t, c.fd, c.at_in, c.to, c.at_out, c.len, c.nb)
      [] c.op = "tee" -> SysTee(s, t, c.fd, c.to, c.len, c.nb)
      [] c.op = "pipe" -> SysPipe2(s, t, FALSE, TRUE)
      [] c.op = "ptmx" -> OpenPtmx(s, t)
      [] c.op = "pts" -> OpenPts(s, t, c.pty)
      [] c.op = "tty" -> OpenTty(s, t, c.console)
      [] c.op = "ioctl" -> SysIoctl(s, t, c.fd, c.req, c.v)
      [] c.op = "close" -> SysClose(s, t, c.fd)
      [] c.op = "dup" -> SysDup(s, t, c.fd)
      [] c.op = "dup2" -> SysDup2(s, t, c.fd, c.new, c.dup3)
      [] c.op = "eventfd" -> SysEventfd2(s, t, c.count, c.sem, FALSE)
      [] c.op = "timerfd" -> SysTimerfdCreate(s, t, FALSE)
      [] c.op = "timerfd_settime" -> SysTimerfdSettime(s, t, c.fd, c.value, c.interval, c.abs)
      [] c.op = "timerfd_gettime" -> SysTimerfdGettime(s, t, c.fd)
      [] c.op = "signalfd" -> SysSignalfd4(s, t, c.fd, c.mask, FALSE)
      [] c.op = "poll" -> SysPpoll(s, t, c.fds, c.ms, c.mask)
      [] c.op = "select" -> SysPselect6(s, t, c.rd, c.wr, c.ex, c.ms, c.mask)
      [] c.op = "epoll" -> SysEpollCreate1(s, t)
      [] c.op = "epoll_ctl" -> SysEpollCtl(s, t, c.ep, c.cmd, c.fd, c.events, c.et, c.oneshot)
      [] c.op = "epoll_wait" -> SysEpollPwait(s, t, c.ep, c.max, c.ms, c.mask)
      [] c.op = "timer_create" -> SysTimerCreate(s, t, c.notify, c.sig, c.tid)
      [] c.op = "timer_settime" -> SysTimerSettime(s, t, c.id, c.value, c.interval, c.abs)
      [] c.op = "timer_gettime" -> SysTimerGettime(s, t, c.id)
      [] c.op = "timer_getoverrun" -> SysTimerGetoverrun(s, t, c.id)
      [] c.op = "timer_delete" -> SysTimerDelete(s, t, c.id)
      [] c.op = "alarm" -> SysAlarm(s, t, c.secs)
      [] c.op = "setitimer" -> SysSetitimer(s, t, c.real, c.value, c.interval)
      [] c.op = "nanosleep" -> SysNanosleep(s, t, c.want, c.abs)
      [] c.op = "clone" -> SysClone(s, t, c.child, c.thread)
      [] c.op = "kill" -> SysKill(s, t, c.target, c.sig)
      [] c.op = "exit" -> ExitTask(s, t)
Possible(s, c) == c.op = "clone" => s.procs[c.child].run = "none"

\* History of the case's stream: what writes said they sent, reads received.
Writes == {"write", "sendto", "sendmsg"}
Reads == {"read", "recvfrom", "recvmsg", "readv", "recvmmsg"}
Record(s, c) ==
    CASE Case.stream # << >> /\ s.out = "ok" /\ c.op \in Writes -> [s EXCEPT !.sent = @ \o SubSeq(c.data, 1, s.val)]
      [] Case.stream # << >> /\ s.out = "ok" /\ c.op \in Reads -> [s EXCEPT !.got = @ \o s.val]
      [] OTHER -> s

\* service: the call ends, parks the task, or is interrupted.
Ended(r, t, c, hit) ==
    LET again == hit /\ r.out = "block" /\ r.procs[t].restarts
        done == r.procs[t].progress
        cut == IF done > 0 THEN Return([r EXCEPT !.procs[t].progress = 0], done) ELSE Answer(r, "EINTR")
        kept == [r EXCEPT !.procs[t].call = c]
    IN  CASE r.out \in {"block", "block_once"} /\ ~hit -> [kept EXCEPT !.procs[t].parked = TRUE]
          [] again -> [kept EXCEPT !.procs[t].wake = Never]
          [] hit /\ ~again -> Record([cut EXCEPT !.procs[t].wake = Never], c)
          [] OTHER -> Record([r EXCEPT !.procs[t].wake = Never], c)
Told(s, t) == IF s.procs[t].run = "running" THEN Deliver(s, t) ELSE s
Served(s, t, c, r) ==
    LET blocks == r.out \in {"block", "block_once"}
        hit == blocks /\ FirstHandled(r, t)
        progressed == ~blocks \/ hit \/ r.procs[t].progress # s.procs[t].progress
        moved == c.op \in {"readv", "writev"} /\ <<r.net, r.pipes, r.ptys>> # <<s.net, s.pipes, s.ptys>>
    IN  [Told(Ended(r, t, c, hit), t) EXCEPT !.out = "ok", !.val = 0, !.panic = @ \/ r.out = "panic",
                                             !.swept = @ /\ ~progressed, !.unseen = @ \/ (moved /\ ~progressed)]
Serve(s, t, c) ==
    Served(s, t, c, Perform(Answer(FireTimers([s EXCEPT !.procs[t].call = << >>], t), "ok"), t, c))

DueAt(s, t) ==
    LET p == s.procs[t]
    IN  (IF p.wake = Never THEN {} ELSE {p.wake}) \cup TimerDeadlines(p)
IsDue(s, t) == \E d \in DueAt(s, t) : d <= s.now
AllParked(s) == Alive(s) # {} /\ \A t \in Alive(s) : s.procs[t].parked /\ ~IsDue(s, t)

\* The calls a task may make when it gets the processor: a new one, or the
\* one it is parked on.
Attempts(t) ==
    LET p == k.procs[t]
    IN  IF p.run # "running" THEN {}
        ELSE IF p.call # << >> THEN IF p.parked /\ ~IsDue(k, t) THEN {} ELSE {p.call}
        ELSE IF p.left = 0 THEN {} ELSE {c \in Case.calls[t] : Possible(k, c)}
SvcRun(t) ==
    /\ ~k.dead
    /\ \E c \in Attempts(t) :
        k' = Serve([k EXCEPT !.procs[t].left = IF k.procs[t].call = << >> THEN @ - 1 ELSE @,
                             !.procs[t].parked = FALSE], t, c)
    /\ UNCHANGED kase
\* serial_sweep: with everything parked, every task gets one more try; when
\* that moves nothing the machine sleeps to the next deadline, and with none,
\* and nothing expected from the host, every process is blocked.
SvcSweep ==
    /\ AllParked(k) /\ ~k.swept /\ ~k.dead
    /\ k' = [UnparkAll(k) EXCEPT !.swept = TRUE, !.unseen = FALSE]
    /\ UNCHANGED kase
WaitForTimer ==
    /\ AllParked(k) /\ k.swept /\ ~k.dead
    /\ LET deadlines == UNION {DueAt(k, t) : t \in Alive(k)}
       IN  IF deadlines # {}
           THEN Min(deadlines) <= Case.horizon /\ k' = [k EXCEPT !.now = Min(deadlines), !.swept = FALSE]
           ELSE k' = [k EXCEPT !.dead = ~HasPendingHostIo(k), !.swept = FALSE]
    /\ UNCHANGED kase
Tick ==
    /\ k.now < Case.horizon /\ ~k.dead
    /\ k' = [k EXCEPT !.now = @ + 1]
    /\ UNCHANGED kase
\* A program that has made its calls ends.
SvcEnd(t) ==
    /\ k.procs[t].run = "running" /\ k.procs[t].call = << >> /\ k.procs[t].left = 0 /\ ~k.dead
    /\ k' = [ExitTask(k, t) EXCEPT !.out = "ok", !.val = 0, !.swept = FALSE]
    /\ UNCHANGED kase
\* The host's side of a connection: it settles, sends a byte, closes, takes
\* what was sent to it; a datagram or a ping is answered.
HostMoves(h) ==
    /\ k.hostleft > 0
    /\ \/ k.hosts[h].state = "pending" /\ \E st \in {"up", "failed"} :
            k' = [k EXCEPT !.hosts[h].state = st, !.hostleft = @ - 1]
       \/ k.hosts[h].state = "up" /\ ~k.hosts[h].eof
            /\ k' = [k EXCEPT !.hosts[h].inb = Append(@, "h"), !.hostleft = @ - 1]
       \/ k.hosts[h].state = "up" /\ ~k.hosts[h].eof
            /\ k' = [k EXCEPT !.hosts[h].eof = TRUE, !.hostleft = @ - 1]
       \/ k.hosts[h].state = "up" /\ k.hosts[h].outb # << >>
            /\ k' = [k EXCEPT !.hosts[h].outb = << >>, !.hostleft = @ - 1]
       \/ k.hosts[h].state = "udp" /\ k.hosts[h].outb # << >>
            /\ LET m == Head(k.hosts[h].outb)
                   reply == [from |-> m.to, data |-> [m.data EXCEPT ![1] = IF @ = "echo" THEN "reply" ELSE @]]
               IN  k' = [k EXCEPT !.hosts[h].outb = Tail(@), !.hosts[h].inb = Append(@, reply), !.hostleft = @ - 1]
    /\ UNCHANGED kase

\* A case names its tasks' calls, who runs from the start, the last moment of
\* its clock, the places its stream runs through, and what differs from an
\* empty kernel.
InitialTask(c, t) ==
    c.procs[t] @@
    [tgid |-> t, files |-> t, mm |-> t, run |-> IF t \in c.running THEN "running" ELSE "none",
     parked |-> FALSE, call |-> << >>, wake |-> Never, pending |-> {}, euid |-> 0, egid |-> 0, ns |-> 0,
     semwait |-> << >>, progress |-> 0, pgid |-> 1, alarm |-> Never, alarm_every |-> 0, ptimers |-> << >>,
     info |-> << >>, blocked |-> {}, handles |-> {}, saved |-> NoMask, restarts |-> FALSE, parent |-> 1,
     left |-> c.left[t]]
InitialKernel(c) ==
    c.start @@
    [now |-> 0, out |-> "ok", val |-> 0, quota |-> 0, cmsg |-> << >>, swept |-> FALSE, unseen |-> FALSE, dead |-> FALSE,
     panic |-> FALSE, sent |-> << >>, got |-> << >>, hostleft |-> c.hostleft,
     procs |-> [t \in DOMAIN c.calls |-> InitialTask(c, t)],
     tables |-> [t \in DOMAIN c.calls |-> << >>],
     mms |-> [t \in DOMAIN c.calls |-> EmptyMm],
     ipc |-> [msq |-> << >>, sem |-> << >>, shm |-> << >>, next |-> 1, removed |-> {}, semadj |-> << >>],
     mq |-> << >>, mqnames |-> << >>, hosts |-> << >>, pipes |-> << >>, ptys |-> << >>, ofds |-> << >>,
     files |-> << >>, console |-> << >>, stdin |-> [buf |-> << >>, closed |-> TRUE],
     net |-> [socks |-> << >>, listeners |-> << >>, turn |-> 0, ports |-> << >>, paths |-> << >>,
              lo |-> << >>, ident |-> 0, egress |-> FALSE, tun |-> [up |-> FALSE, fams |-> {}]],
     pf |-> [events |-> << >>, timers |-> << >>, epolls |-> << >>, signals |-> << >>,
             pidfds |-> [t \in DOMAIN c.calls |-> [exited |-> FALSE]]]]

SvcInit ==
    /\ kase \in DOMAIN Cases
    /\ k = InitialKernel(Cases[kase])
SvcNext ==
    \/ \E t \in DOMAIN k.procs : SvcRun(t) \/ SvcEnd(t)
    \/ SvcSweep \/ WaitForTimer \/ Tick
    \/ \E h \in DOMAIN k.hosts : HostMoves(h)
SvcSpec == SvcInit /\ [][SvcNext]_svcVars

-----------------------------------------------------------------------------
Blocks(s, t) == PerformIpc(Answer(s, "ok"), t, s.procs[t].call).out \in {"block", "block_once"}

\* A task parked on a message queue or a semaphore still has to wait: what
\* lets it go on (a message, room, a value, the object's removal, a dead
\* process's undo) unparked it (ipc.rs, mqueue.rs: every change unpark_alls).
\* Of tasks that keep their access: semctl's IPC_SET, which may take it away,
\* wakes nobody.
IpcWaitersMustWait ==
    \A t \in Alive(k) :
        (k.procs[t].parked /\ ~IsDue(k, t)
            /\ k.procs[t].call.op \in {"msgsnd", "msgrcv", "semop", "mq_send", "mq_receive"})
        => Blocks(k, t)

\* What the living processes' undos would give back is what a semaphore is
\* away from the value it was set to, which for a new set is 0 (ipc.rs
\* RecordUndo, exit_group: SEM_UNDO of a batch, of several processes, of one
\* that dies).
UndoExact ==
    \A id \in DOMAIN k.ipc.sem : \A n \in DOMAIN k.ipc.sem[id].vals :
        k.ipc.sem[id].vals[n]
            + MapThenSumSet(LAMBDA x : k.ipc.semadj[x], {x \in DOMAIN k.ipc.semadj : x[2] = id /\ x[3] = n})
        = IF id = 1 THEN Case.base[n] ELSE 0

\* A page of shared memory is mapped only where its segment counts an
\* attachment, and a segment outlives what is attached to it (ipc.rs shmat,
\* fork_mm, detach_mm, unmapped).  Stray pages are the exception: those a
\* munmap of part of a segment leaves (unmapped counts the whole detached) and
\* those an shmat mapped before it ran out of memory, and copies of either.
AttachesExact ==
    \A mm \in DOMAIN k.mms : \A p \in DOMAIN Pages(k, mm) \ k.mms[mm].stray :
        LET id == Pages(k, mm)[p][1]
            base == p - Pages(k, mm)[p][2] + 1
        IN  id \in DOMAIN k.ipc.shm /\ Contains(k.ipc.shm[id].attaches, <<mm, base>>)

\* The quota is charged for exactly the bytes queued in messages (ipc.rs,
\* mqueue.rs: send charges; receive, removal and collection release).
MemoryQuotaExact ==
    k.quota = MapThenSumSet(LAMBDA id : Bytes(k.ipc.msq[id].msgs), DOMAIN k.ipc.msq)
              + MapThenSumSet(LAMBDA q : Bytes(k.mq[q].msgs), DOMAIN k.mq)

\* Every descriptor a table holds or a message carries is counted once at its
\* pipe or socket, and nothing else is (net.rs bump, scm_ref; mod.rs
\* bump_pipe at close, dup, clone, exit).
InFlight(f) ==
    LET pairs == {s \in DOMAIN k.net.socks : IsKind(k, s, "pair")}
        Riding(s, e) == FoldLeft(LAMBDA n, m : n + Cardinality({i \in DOMAIN m.fds : m.fds[i] = f}),
                                 0, St(k, s).scm[e])
    IN  MapThenSumSet(LAMBDA s : Riding(s, 0) + Riding(s, 1), pairs)
Awaiting(s) ==
    Cardinality({l \in DOMAIN k.net.socks : IsKind(k, l, "listener") /\ Contains(St(k, l).backlog, s)})
Refs(f) == Cardinality({d \in Descriptors(k) : FdAt(k, d) = f}) + InFlight(f)
RefsExact ==
    /\ \A i \in DOMAIN k.pipes : /\ k.pipes[i].readers = Refs([kind |-> "pipe_r", pipe |-> i])
                                 /\ k.pipes[i].writers = Refs([kind |-> "pipe_w", pipe |-> i])
    /\ \A s \in DOMAIN k.net.socks :
        IF IsKind(k, s, "pair") THEN /\ St(k, s).refs[0] = Refs(SocketFd(s, 0))
                                     /\ St(k, s).refs[1] = Refs(SocketFd(s, 1)) + Awaiting(s)
        ELSE k.net.socks[s].refs = Refs(SocketFd(s, 0))

\* A connection or a datagram is only ever routed to a socket somebody holds
\* open (net.rs release, unlisten; listeners and dgram_ports).
RoutesLive ==
    /\ \A key \in DOMAIN k.net.listeners : \A s \in ToSet(k.net.listeners[key]) :
        IsKind(k, s, "listener") /\ k.net.socks[s].refs > 0
    /\ \A key \in DOMAIN k.net.ports : \A s \in ToSet(k.net.ports[key]) :
        IsKind(k, s, "dgram") /\ k.net.socks[s].refs > 0

\* While somebody holds a stream's reading end: the bytes read, those still in
\* the stream, and nothing else, are the bytes writes have reported or are
\* part-way through (mod.rs pipe_write_from, net.rs write_socket, splice.rs:
\* io_progress across blocks and signals).  A vector that blocks at a socket or
\* a terminal is left out: sys_readv and sys_writev keep no progress of it and
\* start it again, so its segments may be moved twice.
Place(x) == IF x[1] = "pipe" THEN k.pipes[x[2]].buf ELSE St(k, x[2]).to[x[3]]
PartWay ==
    LET at == {t \in Alive(k) : k.procs[t].call # << >> /\ k.procs[t].progress > 0}
        p == k.procs[CHOOSE t \in at : TRUE]
    IN  IF at = {} THEN << >> ELSE SubSeq(p.call.data, 1, p.progress)
Heard(x) == IF x[1] = "pipe" THEN k.pipes[x[2]].readers > 0 ELSE St(k, x[2]).refs[x[3]] > 0
StreamsIntact ==
    Case.stream # << >> /\ (\A x \in ToSet(Case.stream) : Heard(x)) =>
        FoldLeft(LAMBDA r, x : r \o Place(x), k.got, Case.stream) = k.sent \o PartWay

\* Every expiration of a POSIX timer is told by a signal, by its overrun
\* count, or will be by the next (ptimer.rs fire_ptimers).
TimersAccount ==
    \A t \in Alive(k) : \A i \in DOMAIN k.procs[t].ptimers :
        LET tm == k.procs[t].ptimers[i] IN tm.total = tm.told + tm.missed

\* A process's watch in an epoll it can use names a descriptor that is open
\* on the file it was added for (poll.rs epoll_forget: close, dup2).
WatchesNameOpenFds ==
    \A t \in Alive(k) : \A f \in {g \in Range(Table(k, t)) : g.kind = "epoll"} :
        \A n \in DOMAIN k.pf.epolls[f.ep] :
            k.pf.epolls[f.ep][n].owner = k.procs[t].tgid =>
                n \in DOMAIN Table(k, t) /\ Table(k, t)[n] = k.pf.epolls[f.ep][n].file

\* A terminal nobody reads holds a bounded amount of input (pty.rs
\* master_write, MAX_QUEUED).
PtyBounded ==
    \A i \in DOMAIN k.ptys : Len(k.ptys[i].input) + Len(k.ptys[i].canon) <= MaxQueued

\* When the scheduler says that every process is blocked, waiting longer
\* would have helped nobody (mod.rs wait_for_timer: "a genuine deadlock") but
\* those whose wait it keeps no deadline of: a select with a timeout, and a
\* wait without one for an armed timerfd (sys_select, read_timerfd, fd_ready).
\* Nor is it one when a vector moved some of its segments before it blocked,
\* which run_slice does not see as progress (sys_writev of a socket).
Awaited(t) ==
    LET c == k.procs[t].call
    IN  CASE c.op \in {"read", "readv"} -> {c.fd}
          [] c.op = "poll" -> {c.fds[i][1] : i \in DOMAIN c.fds}
          [] c.op = "select" -> c.rd \cup c.wr \cup c.ex
          [] c.op = "epoll_wait" -> DOMAIN k.pf.epolls[Table(k, t)[c.ep].ep]
          [] OTHER -> {}
Selects(t) == k.procs[t].call.op = "select" /\ k.procs[t].call.ms > 0
AwaitsTimerfd(t) ==
    \E n \in Awaited(t) : IsFd(k, t, n, "timerfd") /\ k.pf.timers[Table(k, t)[n].tm].expiry # Never
HelpedByTime(t) ==
    Selects(t) \/ ~Serve([k EXCEPT !.now = Case.horizon, !.procs[t].parked = FALSE], t, k.procs[t].call).procs[t].parked
DeadlockIsReal ==
    k.dead /\ ~k.unseen => \A t \in Alive(k) : HelpedByTime(t) => Selects(t) \/ AwaitsTimerfd(t)

\* What the services count is what there is: undos, attachments, bytes, references,
\* routes, expirations, watches and queued input.
ServicesExact ==
    /\ UndoExact /\ AttachesExact /\ MemoryQuotaExact /\ RefsExact /\ RoutesLive
    /\ StreamsIntact /\ TimersAccount /\ WatchesNameOpenFds /\ PtyBounded
=============================================================================
