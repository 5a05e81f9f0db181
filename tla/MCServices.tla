----------------------------- MODULE MCServices -----------------------------
(***************************************************************************)
(* Small instances of Services: two or three tasks, each with a few calls, *)
(* one case for each kind of object.                                       *)
(***************************************************************************)
EXTENDS Services

Ports == <<7, 8>>
Blank == [calls |-> <<{}>>, left |-> <<0>>, running |-> {1}, horizon |-> 0, hostleft |-> 0,
          stream |-> << >>, base |-> << >>, start |-> << >>, procs |-> <<<< >>, << >>, << >>>>]
Close(n) == [op |-> "close", fd |-> n]
Fork(c) == [op |-> "clone", child |-> c, thread |-> FALSE]
Exit == [op |-> "exit"]
Open777 == [user |-> {"r", "w"}, group |-> {"r", "w"}, other |-> {"r", "w"}]
Perm1 == [ns |-> 0, key |-> 1, uid |-> 0, gid |-> 0, cuid |-> 0, cgid |-> 0, mode |-> Open777]
NoIpc == [msq |-> << >>, sem |-> << >>, shm |-> << >>, next |-> 2, removed |-> {}, semadj |-> << >>]

Snd(type, text) == [op |-> "msgsnd", id |-> 1, type |-> type, text |-> text, nowait |-> FALSE]
Rcv(type, flags) == [op |-> "msgrcv", id |-> 1, size |-> 2, type |-> type, flags |-> flags]
Msgctl(cmd) == [op |-> "msgctl", id |-> 1, cmd |-> cmd, new |-> [Perm1 EXCEPT !.uid = 0] @@ [qbytes |-> 2]]
Messages ==
    [Blank EXCEPT !.left = <<4, 3>>, !.running = {1, 2},
        !.start = [ipc |-> [NoIpc EXCEPT !.msq = <<[perm |-> Perm1, msgs |-> << >>, qbytes |-> 3]>>]],
        !.calls = <<{Snd(1, <<"a">>), Snd(2, <<"b", "b">>), Rcv(1, {}), Msgctl("rmid"), Msgctl("set"),
                     [op |-> "msgget", key |-> 1, flags |-> {"creat"}, mode |-> Open777]},
                    {Rcv(0, {}), Rcv(-2, {}), Rcv(1, {"except"}), Rcv(1, {"copy", "nowait"}), Snd(2, <<"c", "c">>)}>>]

Sop(num, n) == [num |-> num, op |-> n, undo |-> TRUE, nowait |-> FALSE]
Semop(ops, timeout) == [op |-> "semop", id |-> 1, ops |-> ops, timeout |-> timeout]
Semctl(cmd, num, arg) == [op |-> "semctl", id |-> 1, cmd |-> cmd, num |-> num, arg |-> arg]
Semget(key, n) == [op |-> "semget", key |-> key, nsems |-> n, flags |-> {"creat"}, mode |-> Open777]
Semaphores ==
    [Blank EXCEPT !.left = <<3, 3>>, !.running = {1, 2}, !.base = <<2, 3>>, !.horizon = 1,
        !.start = [ipc |-> [NoIpc EXCEPT !.sem = <<[perm |-> Perm1, vals |-> <<2, 3>>, pids |-> <<0, 0>>]>>]],
        !.calls = <<{Semop(<<Sop(1, -1), Sop(2, 1)>>, Never), Semop(<<Sop(1, -1), Sop(1, -1)>>, 1), Exit,
                     Semctl("setval", 1, 2), Semctl("rmid", 1, 0), Semget(1, 1), Semget(1, 2), Semget(2, 1)},
                    {Semop(<<Sop(1, -2)>>, 1), Semop(<<Sop(2, -1), Sop(1, -1)>>, Never), Semop(<<Sop(1, 0)>>, Never),
                     Semctl("setall", 1, <<2, 3>>), Semctl("getncnt", 1, 0)}>>]

Shmat(addr) == [op |-> "shmat", id |-> 1, addr |-> addr, flags |-> {}, mapped |-> 2]
Shmctl(cmd) == [op |-> "shmctl", id |-> 1, cmd |-> cmd, new |-> Perm1]
Segments ==
    [Blank EXCEPT !.left = <<6, 3>>,
        !.calls = <<{[op |-> "shmget", key |-> 1, size |-> 2, flags |-> {"creat"}, mode |-> Open777],
                     Shmat(0), Shmat(3), [Shmat(0) EXCEPT !.mapped = 1], [op |-> "shmdt", addr |-> 1], Shmctl("rmid"), Fork(2), Exit},
                    {[op |-> "shmdt", addr |-> 1], [Shmat(0) EXCEPT !.flags = {"rdonly"}],
                     [op |-> "munmap", addr |-> 1, n |-> 2], [op |-> "munmap", addr |-> 2, n |-> 1],
                     [op |-> "munmap", addr |-> 1, n |-> 4]}>>]

MqOpen(flags) == [op |-> "mq_open", name |-> "q", want |-> {"r", "w"}, flags |-> flags, mode |-> {"r", "w"},
                  attr |-> << >>]
MqSend(prio, text) == [op |-> "mq_send", fd |-> 0, prio |-> prio, text |-> text, deadline |-> Never]
Queues ==
    [Blank EXCEPT !.left = <<5, 2>>, !.horizon = 1,
        !.procs = <<[handles |-> {"SIGUSR1"}], << >>, << >>>>,
        !.calls = <<{MqOpen({"creat"}), MqSend(0, <<"a">>), MqSend(1, <<"b", "b">>), Fork(2), Close(0),
                     [op |-> "mq_unlink", name |-> "q"], [op |-> "mq_notify", fd |-> 0, sig |-> "SIGUSR1"]},
                    {[op |-> "mq_receive", fd |-> 0, size |-> 2, deadline |-> Never],
                     [op |-> "mq_receive", fd |-> 0, size |-> 2, deadline |-> 1],
                     MqSend(0, <<"c">>), [op |-> "mq_unlink", name |-> "q"], MqOpen({})}>>]
Pair1 == [op |-> "socketpair", type |-> "stream"]
Send(fd, data, fds) == [op |-> "sendmsg", fd |-> fd, data |-> data, fds |-> fds]
Recv(fd, count, room) == [op |-> "recvmsg", fd |-> fd, count |-> count, flags |-> {}, room |-> room]
Read(fd, count) == [op |-> "read", fd |-> fd, count |-> count]
Write(fd, data) == [op |-> "write", fd |-> fd, data |-> data]
Passing ==
    [Blank EXCEPT !.left = <<5, 2>>,
        !.calls = <<{Pair1, [op |-> "pipe"], Send(0, <<"x">>, <<2>>), Send(0, <<"y">>, <<3, 1>>), Fork(2),
                     Close(1), Close(2), [op |-> "dup", fd |-> 0]},
                    {Recv(1, 2, 0), Recv(1, 2, 1), Recv(1, 1, 2), Read(1, 2), Close(1),
                     [op |-> "dup2", fd |-> 1, new |-> 2, dup3 |-> FALSE], Exit}>>]

Stream == [op |-> "socket", dom |-> "inet", type |-> "stream", proto |-> "none", nb |-> FALSE]
Datagram == [op |-> "socket", dom |-> "inet", type |-> "dgram", proto |-> "none", nb |-> FALSE]
At(ip, port) == [fam |-> "inet", ip |-> ip, port |-> port]
Bind(fd, a) == [op |-> "bind", fd |-> fd, addr |-> a]
Connect(fd, a) == [op |-> "connect", fd |-> fd, addr |-> a, how |-> "pending"]
Connections ==
    [Blank EXCEPT !.left = <<5, 3>>, !.running = {1, 2},
        !.calls = <<{Stream, Bind(0, At("any", 5)), [op |-> "listen", fd |-> 0], [op |-> "accept", fd |-> 0],
                     Close(0), Close(1), Connect(0, At("lo", 5))},
                    {Stream, Connect(0, At("lo", 5)), Connect(0, At("lo", 7)), Write(0, <<"a">>), Read(0, 1),
                     Close(0), [op |-> "shutdown", fd |-> 0, how |-> "wr"], Exit}>>]
Datagrams ==
    [Blank EXCEPT !.left = <<4, 3>>, !.running = {1, 2},
        !.calls = <<{Datagram, Bind(0, At("any", 5)), Connect(0, At("lo", 6)), Close(0), Read(0, 1),
                     [op |-> "setsockopt", fd |-> 0, level |-> 1, opt |-> 2, len |-> 4, v |-> 1],
                     [op |-> "sendto", fd |-> 0, data |-> <<"a">>, dest |-> At("lo", 6), flags |-> {}]},
                    {Datagram, Bind(0, At("lo", 6)), Bind(0, At("any", 5)), Close(0),
                     [op |-> "sendto", fd |-> 0, data |-> <<"b">>, dest |-> At("lo", 5), flags |-> {}],
                     [op |-> "recvfrom", fd |-> 0, count |-> 1, flags |-> {"dontwait"}]}>>]
NoNet == [socks |-> << >>, listeners |-> << >>, turn |-> 0, ports |-> << >>, paths |-> << >>,
          lo |-> << >>, ident |-> 0, egress |-> FALSE, tun |-> [up |-> FALSE, fams |-> {}]]
Bridged ==
    [Blank EXCEPT !.left = <<5>>, !.hostleft = 3, !.horizon = 1,
        !.start = [net |-> [NoNet EXCEPT !.egress = TRUE, !.tun = [up |-> TRUE, fams |-> {"inet"}]]],
        !.calls = <<{Stream, Datagram, [Stream EXCEPT !.type = "dgram", !.proto = "icmp"],
                     Connect(0, At("far", 5)), Read(0, 1), Write(0, <<"echo", 1>>), Close(0),
                     [op |-> "poll", fds |-> <<<<0, {"in"}>>>>, ms |-> 1, mask |-> NoMask],
                     [op |-> "getsockopt", fd |-> 0, level |-> 1, opt |-> 4]}>>]
Request(type, index) == [type |-> type, dump |-> type # "setlink", ack |-> TRUE, fam |-> "any",
                         index |-> index, change |-> TRUE, up |-> FALSE]
Slot(dom, st) == [ns |-> 0, key |-> <<"none">>, dom |-> dom, st |-> st, nb |-> FALSE, refs |-> 1, opts |-> SockOpts]
Links ==
    [Blank EXCEPT !.left = <<5>>,
        !.start = [tables |-> <<(0 :> SocketFd(1, 0) @@ 1 :> SocketFd(2, 0))>>,
                   net |-> [Bridged.start.net EXCEPT !.socks =
                                <<Slot("netlink", [kind |-> "netlink", pid |-> 0, queue |-> << >>]), Slot("inet", Dgram)>>]],
        !.calls = <<{[Stream EXCEPT !.dom = "netlink", !.type = "raw", !.proto = "route"],
                     Write(0, <<Request("getlink", "lo"), Request("getaddr", "lo")>>), Read(0, 2),
                     Write(0, <<Request("setlink", "lo"), Request("getroute", "lo")>>),
                     [op |-> "sendto", fd |-> 1, data |-> <<"a">>, dest |-> At("lo", 6), flags |-> {}],
                     [op |-> "ioctl", fd |-> 1, req |-> "SIOCGIFADDR", v |-> [name |-> "tun0"]]}>>]

\* A writer that alarms interrupt, and a reader: a pipe, a socket, two pipes.
NewPipe == [buf |-> << >>, cap |-> 2, readers |-> 1, writers |-> 1, rnb |-> FALSE, wnb |-> FALSE]
ReadEnd(i) == [kind |-> "pipe_r", pipe |-> i]
WriteEnd(i) == [kind |-> "pipe_w", pipe |-> i]
PipeEnds == [tables |-> <<(0 :> WriteEnd(1)), (0 :> ReadEnd(1))>>, pipes |-> <<NewPipe>>]
SockEnds ==
    [tables |-> <<(0 :> SocketFd(1, 0)), (0 :> SocketFd(1, 1))>>,
     net |-> [NoNet EXCEPT !.socks = <<Slot("unix", Pair(FALSE))>>]]
Writing(restarts, start, place) ==
    [Blank EXCEPT !.left = <<3, 4>>, !.running = {1, 2}, !.horizon = 2, !.start = start, !.stream = <<place>>,
        !.procs = <<[handles |-> {"SIGALRM", "SIGPIPE"}, restarts |-> restarts], << >>, << >>>>,
        !.calls = <<{Write(0, <<"a", "b", "c">>), Write(0, <<"d">>), [op |-> "alarm", secs |-> 1]},
                    {Read(0, 1), Read(0, 2), Exit}>>]
Splice(len, nb) == [op |-> "splice", fd |-> 0, at_in |-> Never, to |-> 1, at_out |-> Never, len |-> len, nb |-> nb]
Splicing ==
    [Blank EXCEPT !.left = <<2, 2, 2>>, !.running = {1, 2, 3}, !.stream = <<<<"pipe", 2>>, <<"pipe", 1>>>>,
        !.start = [pipes |-> <<NewPipe, NewPipe>>,
                   tables |-> <<(0 :> WriteEnd(1)), (0 :> ReadEnd(1) @@ 1 :> WriteEnd(2)), (0 :> ReadEnd(2))>>],
        !.calls = <<{Write(0, <<"a", "b", "c">>), Write(0, <<"d">>)}, {Splice(2, FALSE), Splice(1, TRUE)},
                    {Read(0, 1), Read(0, 2)}>>]
Vectors ==
    [Blank EXCEPT !.left = <<2, 2>>, !.running = {1, 2},
        !.start = [SockEnds EXCEPT !.tables = <<@[1] @@ (1 :> ReadEnd(1) @@ 2 :> [kind |-> "file", ofd |-> 1, r |-> TRUE, w |-> TRUE]),
                                                @[2] @@ (1 :> WriteEnd(1) @@ 2 :> [kind |-> "file", ofd |-> 1, r |-> TRUE, w |-> TRUE])>>]
                  @@ [pipes |-> <<NewPipe>>, ofds |-> <<[file |-> "f", pos |-> 0, append |-> FALSE]>>,
                      files |-> [f |-> <<"x">>]],
        !.calls = <<{[op |-> "writev", fd |-> 0, segs |-> <<<<"a", "b">>, <<"c">>>>],
                     [op |-> "sendmmsg", fd |-> 0, texts |-> <<<<"a">>, <<"b", "c">>>>],
                     [op |-> "vmsplice", fd |-> 1, segs |-> << >>, counts |-> <<1, 1>>, nb |-> TRUE],
                     [op |-> "preadv2", fd |-> 1, counts |-> <<1>>, flags |-> {"nowait"}],
                     [op |-> "pwritev2", fd |-> 2, segs |-> <<<<"y">>, <<"z">>>>, flags |-> {"append"}]},
                    {[op |-> "readv", fd |-> 0, counts |-> <<1, 2>>],
                     [op |-> "recvmmsg", fd |-> 0, count |-> 1, vlen |-> 2, flags |-> {"dontwait"}],
                     [op |-> "vmsplice", fd |-> 1, segs |-> <<<<"p">>, <<"q">>>>, counts |-> << >>, nb |-> FALSE],
                     Read(2, 2), [op |-> "splice", fd |-> 2, at_in |-> 0, to |-> 1, at_out |-> Never, len |-> 2, nb |-> TRUE]}>>]
Ioctl(fd, req, v) == [op |-> "ioctl", fd |-> fd, req |-> req, v |-> v]
Terminals ==
    [Blank EXCEPT !.left = <<3, 2>>, !.horizon = 1, !.running = {1, 2},
        !.start = [tables |-> <<(0 :> [kind |-> "pty_m", pty |-> 1]), (0 :> [kind |-> "pty_s", pty |-> 1])>>,
                   ptys |-> <<[NewPty EXCEPT !.slaves = 1, !.locked = FALSE, !.fg = 1]>>],
        !.procs = <<[handles |-> {"SIGINT"}], [handles |-> {"SIGINT"}], << >>>>,
        !.calls = <<{Write(0, <<"a", "b", "nl">>), Write(0, <<"c", "intr">>), Write(0, <<"erase", "d", "kill", "nl">>),
                     Read(0, 4), Ioctl(0, "TCFLSH", 2), Close(0)},
                    {Read(0, 2), Write(0, <<"o", "nl">>), [op |-> "tty", console |-> FALSE],
                     Ioctl(0, "TCSETS", [flags |-> {"isig"}, vmin |-> 2, vtime |-> 1, cc |-> Specials])}>>]
Ctl(cmd, fd, et) == [op |-> "epoll_ctl", ep |-> 0, cmd |-> cmd, fd |-> fd, events |-> {"in"}, et |-> et, oneshot |-> FALSE]
Wait(ms) == [op |-> "epoll_wait", ep |-> 0, max |-> 2, ms |-> ms, mask |-> NoMask]
Watching ==
    [Blank EXCEPT !.left = <<4, 3>>, !.horizon = 1,
        !.start = [tables |-> <<(0 :> [kind |-> "epoll", ep |-> 1] @@ 1 :> [kind |-> "eventfd", ev |-> 1]), << >>>>,
                   pf |-> [events |-> <<[count |-> 0, sem |-> FALSE, nb |-> FALSE]>>, timers |-> << >>,
                           epolls |-> <<<< >>>>, signals |-> << >>, pidfds |-> <<[exited |-> FALSE], [exited |-> FALSE]>>]],
        !.calls = <<{Ctl("add", 1, FALSE), Ctl("add", 1, TRUE), Fork(2), [op |-> "clone", child |-> 2, thread |-> TRUE],
                     Close(1), [op |-> "dup2", fd |-> 0, new |-> 1, dup3 |-> FALSE], [op |-> "dup", fd |-> 1], Wait(1)},
                    {Wait(Never), Wait(1), Write(1, <<1>>), Read(1, 8), Close(1), Ctl("add", 2, FALSE), Ctl("del", 1, FALSE)}>>]
Timers ==
    [Blank EXCEPT !.left = <<5>>, !.horizon = 4,
        !.procs = <<[blocked |-> {"SIGRT"}, handles |-> {"SIGRT"}], << >>, << >>>>,
        !.start = [tables |-> <<(0 :> [kind |-> "signalfd", sg |-> 1] @@ 1 :> [kind |-> "timerfd", tm |-> 1])>>,
                   pf |-> [events |-> << >>, timers |-> <<[expiry |-> 1, interval |-> 1, count |-> 0, nb |-> TRUE]>>,
                           epolls |-> << >>, signals |-> <<[mask |-> {"SIGRT"}, nb |-> TRUE]>>, pidfds |-> <<[exited |-> FALSE]>>]],
        !.calls = <<{[op |-> "timer_create", notify |-> "signal", sig |-> "SIGRT", tid |-> 1],
                     [op |-> "timer_settime", id |-> 0, value |-> 1, interval |-> 1, abs |-> FALSE],
                     [op |-> "timer_settime", id |-> 0, value |-> 2, interval |-> 0, abs |-> TRUE],
                     [op |-> "timer_getoverrun", id |-> 0], [op |-> "timer_delete", id |-> 0],
                     [op |-> "nanosleep", want |-> 1, abs |-> FALSE], Read(0, 128), Read(1, 8),
                     [op |-> "poll", fds |-> << >>, ms |-> Never, mask |-> {}]}>>]
\* A timer as a descriptor, waited for with and without a deadline, beside a
\* task with an alarm.
Poll(fds, ms) == [op |-> "poll", fds |-> fds, ms |-> ms, mask |-> NoMask]
Select(rd, ms) == [op |-> "select", rd |-> rd, wr |-> {}, ex |-> {}, ms |-> ms, mask |-> NoMask]
TimerFds ==
    [Blank EXCEPT !.left = <<3, 2>>, !.horizon = 3, !.running = {1, 2},
        !.procs = <<<< >>, [handles |-> {"SIGALRM"}], << >>>>,
        !.start = [tables |-> <<(0 :> [kind |-> "timerfd", tm |-> 1] @@ 1 :> ReadEnd(1)), (1 :> WriteEnd(1))>>,
                   pipes |-> <<NewPipe>>,
                   pf |-> [events |-> << >>, timers |-> <<[expiry |-> Never, interval |-> 0, count |-> 0, nb |-> FALSE]>>,
                           epolls |-> << >>, signals |-> << >>, pidfds |-> <<[exited |-> FALSE], [exited |-> FALSE]>>]],
        !.calls = <<{[op |-> "timerfd_settime", fd |-> 0, value |-> 2, interval |-> 0, abs |-> FALSE], Read(0, 8), Read(1, 1),
                     Poll(<<<<0, {"in"}>>, <<1, {"in"}>>>>, Never), Poll(<<<<1, {"in"}>>>>, 1),
                     Select({0, 1}, 1), Select({1}, Never), Select({0}, 0)},
                    {[op |-> "alarm", secs |-> 1], Poll(<< >>, Never), Write(1, <<"a">>), Close(1)}>>]
AllCases ==
    [messages |-> Messages, semaphores |-> Semaphores, segments |-> Segments, queues |-> Queues,
     passing |-> Passing, connections |-> Connections, datagrams |-> Datagrams, bridged |-> Bridged,
     links |-> Links, interrupted |-> Writing(FALSE, PipeEnds, <<"pipe", 1>>),
     restarted |-> Writing(TRUE, PipeEnds, <<"pipe", 1>>),
     socket_interrupted |-> Writing(FALSE, SockEnds, <<"sock", 1, 1>>),
     socket_restarted |-> Writing(TRUE, SockEnds, <<"sock", 1, 1>>),
     splicing |-> Splicing, vectors |-> Vectors, terminals |-> Terminals, watching |-> Watching, timers |-> Timers,
     timerfds |-> TimerFds]
SvcCases == LET cases == AllCases IN cases
=============================================================================
