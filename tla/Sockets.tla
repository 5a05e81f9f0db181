------------------------------ MODULE Sockets ------------------------------
(***************************************************************************)
(* Local sockets (src/kernel/net.rs, src/kernel/sockopt.rs): socket pairs, *)
(* AF_UNIX and AF_INET streams and datagrams, descriptors passed over a    *)
(* stream, multicast, ping and netlink sockets, and the streams bridged to *)
(* the host.                                                               *)
(*   net      [socks, listeners, turn, ports, paths, lo, ident, egress]:   *)
(*            the socket slots, the tables that route to them, lo's state  *)
(*            in each namespace, and whether an egress backend exists      *)
(*   hosts    the host's end of every bridged connection (external)        *)
(*   pipes    the pipes, whose ends a message may carry                    *)
(*   cmsg     the descriptors the call just made has received              *)
(* An address is [fam, ip, port] or [fam |-> "unix", name, abstract]; `ip` *)
(* is one of "any", "lo", "all" (the all-hosts group), "group", "far".     *)
(* Flags are sets of names, and the two ends of a pair are 0 and 1.        *)
(***************************************************************************)
EXTENDS SysvIpc

CONSTANTS Ephemeral,      \* the ephemeral ports, in order
          Backlog,        \* connections a listener queues
          DgramRoom,      \* datagrams a socket queues
          SndbufMin, SndbufMax, SndbufDefault,
          MaxGroups, NlQueue, HostRoom

NoAddr == [fam |-> "none"]
Nowhere == [fam |-> "inet", ip |-> "any", port |-> 0]
Inet == {"inet", "inet6"}
Ends == {0, 1}
Both(v) == [e \in Ends |-> v]

\* ------------------------------------------------------------- addresses
IsMulticast(a) == a.ip \in {"all", "group"}
ValidBind(a) == a.ip \in {"any", "lo"}
RouteKey(ns, proto, a) == <<proto, ns, a.fam, a.port>>
UnixKey(ns, a) == IF a.abstract THEN <<"abstract", ns, a.name>> ELSE <<"path", a.name>>
LoUp(net, ns) == IF ns \in DOMAIN net.lo THEN net.lo[ns] ELSE ns = 0
LoopbackUnreachable(net, s, dest) ==
    ValidBind(dest) /\ ~LoUp(net, net.socks[s].ns)
Unreachable(dest) == IF dest.fam = "inet6" THEN "EADDRNOTAVAIL" ELSE "ENETUNREACH"
EgressFor(net, s) == net.egress /\ net.socks[s].ns = 0

\* ---------------------------------------------------------- socket slots
SockOpts == [reuseaddr |-> FALSE, reuseport |-> FALSE, sndbuf |-> SndbufDefault,
             rcvtimeo |-> 0, sndtimeo |-> 0, reset |-> FALSE, mloop |-> TRUE,
             mall |-> TRUE, error |-> "ok"]
Sock(k, t, dom, nb, st) ==
    [ns |-> k.procs[t].ns, key |-> <<"none">>, dom |-> dom, st |-> st, nb |-> nb,
     refs |-> 1, opts |-> SockOpts]
Idle == [kind |-> "idle", bound |-> NoAddr]
Dgram == [kind |-> "dgram", local |-> NoAddr, peer |-> NoAddr, partner |-> 0,
          queue |-> << >>, host |-> 0, icmp |-> "no", ident |-> 0, groups |-> {}]
Pair(nb) == [kind |-> "pair", to |-> Both(<< >>), refs |-> Both(1), shut_wr |-> Both(FALSE),
             shut_rd |-> Both(FALSE), nb |-> Both(nb), addrs |-> Both(NoAddr),
             scm |-> Both(<< >>), cred |-> Both(0)]

SocketFd(s, e) == [kind |-> "socket", sock |-> s, end |-> e]
SockOf(k, t, n) == Table(k, t)[n].sock
EndOf(k, t, n) == Table(k, t)[n].end
St(k, s) == k.net.socks[s].st
IsKind(k, s, kind) == St(k, s).kind = kind
WouldBlock(k, nb) == Answer(k, IF nb THEN "EAGAIN" ELSE "block")
RaiseSigpipe(k, t) == [k EXCEPT !.procs[t].pending = @ \cup {"SIGPIPE"}]

SockSetNonblock(k, s, e, nb) ==
    LET flagged == [k EXCEPT !.net.socks[s].nb = nb]
    IN  CASE IsKind(k, s, "pair") -> [flagged EXCEPT !.net.socks[s].st.nb[e] = nb]
          [] IsKind(k, s, "host") -> [flagged EXCEPT !.net.socks[s].st.nb = nb]
          [] OTHER -> flagged
HasPendingHostIo(k) ==
    \E s \in DOMAIN k.net.socks :
        IsKind(k, s, "host") \/ (IsKind(k, s, "dgram") /\ St(k, s).host # 0)

\* A group of sockets shares a key; an empty group leaves the table.
Leave(table, s) ==
    LET left == [key \in DOMAIN table |-> SelectSeq(table[key], LAMBDA i : i # s)]
    IN  Restrict(left, {key \in DOMAIN left : left[key] # << >>})
Join(table, key, s) ==
    Put(table, key, Append(IF key \in DOMAIN table THEN table[key] ELSE << >>, s))

\* release: what a socket whose last descriptor is gone gives up
SockRelease(k, s) ==
    LET old == St(k, s)
        idle == [k EXCEPT !.net.socks[s].st = Idle]
    IN  CASE old.kind = "listener" ->
                [idle EXCEPT !.net.listeners = Leave(@, s),
                             !.net.socks = [i \in DOMAIN @ |->
                                IF Contains(old.backlog, i) /\ @[i].st.kind = "pair"
                                THEN [@[i] EXCEPT !.st.refs[1] = 0] ELSE @[i]]]
          [] old.kind = "host" /\ ~old.wr_shut /\ ~k.net.socks[s].opts.reset ->
                [idle EXCEPT !.hosts[old.conn].shut = TRUE]
          [] old.kind = "dgram" -> [idle EXCEPT !.net.ports = Leave(@, s)]
          [] OTHER -> idle

\* Net::bump and bump_pipe: a descriptor appears or goes away.
SockBump(k, s, e, inc) ==
    IF IsKind(k, s, "pair") THEN
        [k EXCEPT !.net.socks[s].st.refs[e] = IF inc THEN @ + 1 ELSE Max({0, @ - 1})]
    ELSE LET r == [k EXCEPT !.net.socks[s].refs = IF inc THEN @ + 1 ELSE Max({0, @ - 1})]
         IN  IF ~inc /\ r.net.socks[s].refs = 0 THEN SockRelease(r, s) ELSE r
BumpPipe(k, f, inc) ==
    CASE f.kind = "pipe_r" -> [k EXCEPT !.pipes[f.pipe].readers = IF inc THEN @ + 1 ELSE Max({0, @ - 1})]
      [] f.kind = "pipe_w" -> [k EXCEPT !.pipes[f.pipe].writers = IF inc THEN @ + 1 ELSE Max({0, @ - 1})]
      [] f.kind = "socket" -> SockBump(k, f.sock, f.end, inc)
      [] OTHER -> k
ScmRef(k, fds, inc) == FoldLeft(LAMBDA r, f : BumpPipe(r, f, inc), k, fds)

\* ---------------------------------------------------------------- routing
AddrInUse(net, ns, proto, a, exclude) ==
    LET key == RouteKey(ns, proto, a)
        mine == IF exclude = 0 THEN [reuseaddr |-> FALSE, reuseport |-> FALSE]
                ELSE net.socks[exclude].opts
        At(s) == CASE s.st.kind = "idle" /\ proto = "tcp" -> s.st.bound
                   [] s.st.kind = "listener" /\ proto = "tcp" -> s.st.addr
                   [] s.st.kind = "dgram" /\ proto = "udp" -> s.st.local
                   [] OTHER -> NoAddr
    IN  \E i \in DOMAIN net.socks \ {exclude} :
            LET s == net.socks[i]
            IN  /\ At(s).fam \in Inet
                /\ RouteKey(s.ns, proto, At(s)) = key
                /\ ~(mine.reuseport /\ s.opts.reuseport)
                /\ ~(mine.reuseaddr /\ s.opts.reuseaddr /\ s.st.kind # "listener")
ListenConflict(net, a, s) ==
    LET key == RouteKey(net.socks[s].ns, "tcp", a)
    IN  key \in DOMAIN net.listeners
        /\ \E i \in ToSet(net.listeners[key]) \ {s} :
              ~(net.socks[s].opts.reuseport /\ net.socks[i].opts.reuseport)
EphemeralPort(net, ns, proto, fam) ==
    LET free == SelectSeq(Ephemeral, LAMBDA p :
                    ~AddrInUse(net, ns, proto, [fam |-> fam, ip |-> "any", port |-> p], 0))
    IN  IF free = << >> THEN 0 ELSE Head(free)
FreshLocal(net, ns, fam) ==
    [fam |-> fam, ip |-> "lo", port |-> EphemeralPort(net, ns, "tcp", fam)]
PickListener(net, key) == net.listeners[key][(net.turn % Len(net.listeners[key])) + 1]
\* pick_dgram_target: 0 when nobody takes the datagram
PickDgramTarget(net, key, port) ==
    LET group == IF key \notin DOMAIN net.ports THEN << >>
                 ELSE SelectSeq(net.ports[key], LAMBDA i :
                        ~(net.socks[i].st.kind = "dgram" /\ net.socks[i].st.local.fam \in Inet
                          /\ IsMulticast(net.socks[i].st.local)))
    IN  IF group = << >> THEN 0
        ELSE IF \A i \in ToSet(group) : net.socks[i].opts.reuseport
             THEN group[(port % Len(group)) + 1] ELSE Last(group)
MulticastReceivers(net, s, dest) ==
    LET ns == net.socks[s].ns
        group == [dest EXCEPT !.port = 0]
        Joined(i) == net.socks[i].st.kind = "dgram" /\ group \in net.socks[i].st.groups
        anyone == dest.ip = "all" \/ \E i \in DOMAIN net.socks : net.socks[i].ns = ns /\ Joined(i)
        key == RouteKey(ns, "udp", dest)
    IN  IF key \notin DOMAIN net.ports THEN << >>
        ELSE SelectSeq(net.ports[key], LAMBDA i :
                /\ net.socks[i].st.kind = "dgram"
                /\ net.socks[i].st.local.ip \in {"any", dest.ip}
                /\ Joined(i) \/ dest.ip = "all" \/ (net.socks[i].opts.mall /\ anyone))

\* A datagram that finds the queue full is dropped.
Enqueue(k, s, from, data) ==
    IF s # 0 /\ IsKind(k, s, "dgram") /\ Len(St(k, s).queue) < DgramRoom
    THEN [k EXCEPT !.net.socks[s].st.queue = Append(@, [from |-> from, data |-> data])] ELSE k
EnsureDgramBound(k, s) ==
    LET sk == k.net.socks[s]
        fam == IF sk.dom = "inet6" THEN "inet6" ELSE "inet"
        local == [fam |-> fam, ip |-> "lo", port |-> EphemeralPort(k.net, sk.ns, "udp", fam)]
    IN  IF sk.st.local # NoAddr THEN k
        ELSE [k EXCEPT !.net.socks[s].st.local = local,
                       !.net.ports = Join(@, RouteKey(sk.ns, "udp", local), s)]
MulticastFrom(r, s, data, dest) ==
    LET local == St(r, s).local
        src == IF local.ip = "any" \/ IsMulticast(local) THEN [local EXCEPT !.ip = "lo"] ELSE local
    IN  FoldLeft(LAMBDA q, i : Enqueue(q, i, src, data), r,
                 IF r.net.socks[s].opts.mloop THEN MulticastReceivers(r.net, s, dest) ELSE << >>)
MulticastSend(k, s, data, dest) ==
    IF ~LoUp(k.net, k.net.socks[s].ns) THEN Answer(k, "ENETUNREACH")
    ELSE Return(MulticastFrom(EnsureDgramBound(k, s), s, data, dest), Len(data))
LocalFrom(r, s, data, dest) ==
    LET src == St(r, s).local
    IN  Enqueue(r, PickDgramTarget(r.net, RouteKey(r.net.socks[s].ns, "udp", dest), src.port), src, data)
LocalSend(k, s, data, dest) == Return(LocalFrom(EnsureDgramBound(k, s), s, data, dest), Len(data))

\* ------------------------------------------------ naming and connecting
NewHost(state) == [state |-> state, inb |-> << >>, outb |-> << >>, eof |-> FALSE, shut |-> FALSE]
NewSocket(k, t, sk) ==
    Install([k EXCEPT !.net.socks = Append(@, sk)], t, SocketFd(Len(k.net.socks) + 1, 0))
SysSocket(k, t, dom, type, proto, nb) ==
    LET icmp == dom \in Inet
                /\ (type = "raw" \/ (type = "dgram" /\ proto = "icmp"))
        ident == k.net.ident + 1
        opened == k.net.egress /\ k.procs[t].ns = 0
        host == IF opened THEN Len(k.hosts) + 1 ELSE 0
    IN  IF dom = "netlink" THEN
            IF type \notin {"raw", "dgram"} THEN Answer(k, "EOPNOTSUPP")
            ELSE IF proto # "route" THEN Answer(k, "EPROTONOSUPPORT")
            ELSE NewSocket(k, t, Sock(k, t, dom, nb,
                               [kind |-> "netlink", pid |-> 0, queue |-> << >>]))
        ELSE IF dom \notin {"unix", "inet", "inet6"} THEN Answer(k, "EAFNOSUPPORT")
        ELSE IF icmp THEN
            IF proto # "icmp" THEN Answer(k, "EPROTONOSUPPORT")
            ELSE NewSocket([k EXCEPT !.net.ident = ident,
                                     !.hosts = IF opened THEN Append(@, NewHost("udp")) ELSE @],
                           t, Sock(k, t, dom, nb, [Dgram EXCEPT !.icmp = IF type = "raw" THEN "raw" ELSE "ping",
                                                                !.ident = ident, !.host = host]))
        ELSE IF type \notin {"stream", "dgram"} THEN Answer(k, "EOPNOTSUPP")
        ELSE NewSocket(k, t, Sock(k, t, dom, nb, IF type = "dgram" THEN Dgram ELSE Idle))
\* Both descriptors stay installed even when telling the caller fails.
SysSocketpair(k, t, dom, type, nb, writable) ==
    LET a == Len(k.net.socks) + 1
        slots == IF type = "dgram"
                 THEN <<Sock(k, t, dom, nb, [Dgram EXCEPT !.partner = a + 1]),
                        Sock(k, t, dom, nb, [Dgram EXCEPT !.partner = a])>>
                 ELSE <<Sock(k, t, dom, nb, [Pair(nb) EXCEPT !.cred = Both(t)])>>
        one == Install([k EXCEPT !.net.socks = @ \o slots], t, SocketFd(a, 0))
        two == Install(one, t, IF type = "dgram" THEN SocketFd(a + 1, 0) ELSE SocketFd(a, 1))
    IN  IF dom # "unix" THEN Answer(k, "EAFNOSUPPORT")
        ELSE IF type \notin {"stream", "dgram"} THEN Answer(k, "EOPNOTSUPP")
        ELSE IF ~writable THEN Answer(two, "EFAULT")
        ELSE Return(two, <<one.val, two.val>>)

BindNetlink(k, s, pid) ==
    Return([k EXCEPT !.net.socks[s].st.pid = IF pid = 0 THEN s ELSE pid], 0)
BindUnix(k, s, a) ==
    LET key == UnixKey(k.net.socks[s].ns, a)
        named == [k EXCEPT !.net.socks[s].key = key]
    IN  CASE IsKind(k, s, "idle") -> Return([named EXCEPT !.net.socks[s].st.bound = a], 0)
          [] IsKind(k, s, "dgram") -> Return([named EXCEPT !.net.paths = Put(@, key, s)], 0)
          [] OTHER -> Answer(named, "EINVAL")
BindInet(k, s, a) ==
    LET sk == k.net.socks[s]
        proto == IF sk.st.kind = "idle" THEN "tcp" ELSE "udp"
        at == IF a.port # 0 THEN a
              ELSE [a EXCEPT !.port = EphemeralPort(k.net, sk.ns, proto, a.fam)]
        key == RouteKey(sk.ns, "udp", at)
        group == IF key \in DOMAIN k.net.ports
                 THEN SelectSeq(k.net.ports[key], LAMBDA i : i # s) ELSE << >>
    IN  IF sk.st.kind \notin {"idle", "dgram"} THEN Answer(k, "EINVAL")
        ELSE IF ~ValidBind(a) /\ (proto # "udp" \/ ~IsMulticast(a)) THEN Answer(k, "EADDRNOTAVAIL")
        ELSE IF a.port # 0 /\ AddrInUse(k.net, sk.ns, proto, a, s) THEN Answer(k, "EADDRINUSE")
        ELSE IF proto = "tcp" THEN Return([k EXCEPT !.net.socks[s].st.bound = at], 0)
        ELSE Return([k EXCEPT !.net.socks[s].st.local = at,
                              !.net.ports = Put(@, key, Append(group, s))], 0)
SysBind(k, t, n, a) ==
    LET s == SockOf(k, t, n)
    IN  IF ~IsFd(k, t, n, "socket") THEN Answer(k, "ENOTSOCK")
        ELSE IF k.net.socks[s].dom = "netlink" THEN BindNetlink(k, s, a.port)
        ELSE IF a.fam # k.net.socks[s].dom THEN Answer(k, "EINVAL")
        ELSE IF a.fam = "unix" THEN BindUnix(k, s, a) ELSE BindInet(k, s, a)
SysListen(k, t, n) ==
    LET s == SockOf(k, t, n)
        sk == k.net.socks[s]
        bound == IF sk.st.bound = NoAddr /\ sk.dom # "unix"
                 THEN [fam |-> sk.dom, ip |-> "any", port |-> EphemeralPort(k.net, sk.ns, "tcp", sk.dom)]
                 ELSE sk.st.bound
        r == [k EXCEPT !.net.socks[s].st =
                [kind |-> "listener", addr |-> bound, backlog |-> << >>, cred |-> t]]
    IN  IF ~IsFd(k, t, n, "socket") THEN Answer(k, "ENOTSOCK")
        ELSE IF sk.st.kind = "listener" THEN Return(k, 0)
        ELSE IF sk.st.kind # "idle" THEN Answer(k, "EINVAL")
        ELSE IF bound.fam \in Inet /\ ListenConflict(k.net, bound, s) THEN Answer(k, "EADDRINUSE")
        ELSE CASE bound.fam = "none" -> Return(r, 0)
               [] bound.fam = "unix" -> Return([r EXCEPT !.net.listeners = Join(@, sk.key, s)], 0)
               [] OTHER -> Return([r EXCEPT !.net.listeners =
                                        Join(@, RouteKey(sk.ns, "tcp", bound), s)], 0)

\* What the host's connection says of its handshake.
HostConnect(k, s, h) ==
    LET conn == k.hosts[h.conn]
        settled == [k EXCEPT !.net.socks[s].st.connecting = FALSE]
    IN  CASE ~h.connecting -> Answer(k, "EISCONN")
          [] h.connecting /\ conn.state = "pending" ->
                Answer(k, IF h.nb THEN "EALREADY" ELSE "block")
          [] h.connecting /\ conn.state = "up" -> Return(settled, 0)
          [] OTHER -> Answer(settled, "ECONNREFUSED")
ConnectHost(k, s, e, dest, how) ==
    LET nb == k.net.socks[s].nb
        r == [k EXCEPT !.hosts = Append(@, NewHost(how)),
                       !.net.socks[s].st = [kind |-> "host", conn |-> Len(k.hosts) + 1, peer |-> dest,
                                            wr_shut |-> FALSE, nb |-> nb, connecting |-> how = "pending"]]
    IN  IF ~(IsKind(k, s, "idle") /\ e = 0) THEN Answer(k, "EINVAL")
        ELSE IF ~EgressFor(k.net, s) THEN Answer(k, "ENETUNREACH")
        ELSE CASE how = "failed" -> Answer(k, "ECONNREFUSED")
               [] how = "up" -> Return(r, 0)
               [] OTHER -> Answer(r, IF nb THEN "EINPROGRESS" ELSE "block")
ConnectPair(k, t, s, key, dom) ==
    LET l == PickListener(k.net, key)
        turned == [k EXCEPT !.net.turn = @ + 1]
        to == St(k, l).addr
        peer == CASE dom = "unix" -> NoAddr
                  [] dom # "unix" /\ to.ip = "any" -> [to EXCEPT !.ip = "lo"]
                  [] OTHER -> to
        local == IF dom = "unix" THEN NoAddr
                 ELSE FreshLocal(k.net, k.net.socks[s].ns, dom)
        pair == [Pair(FALSE) EXCEPT !.nb[0] = k.net.socks[s].nb, !.addrs = (0 :> local @@ 1 :> peer),
                                    !.refs[0] = k.net.socks[s].refs,
                                    !.cred = (0 :> t @@ 1 :> St(k, l).cred)]
        r == [turned EXCEPT !.net.socks[s].st = pair,
                            !.net.socks[l].st.backlog = Append(@, s)]
    IN  IF key \notin DOMAIN k.net.listeners THEN Answer(k, "ECONNREFUSED")
        ELSE IF Len(St(k, l).backlog) >= Backlog THEN Answer(turned, "EAGAIN")
        ELSE IF dom # "unix" /\ k.net.socks[s].nb THEN Answer(r, "EINPROGRESS") ELSE Return(r, 0)
Peered(k, s, dest) == Return([EnsureDgramBound(k, s) EXCEPT !.net.socks[s].st.peer = dest], 0)
\* connect: `how` is what the host makes of a connection that leaves the VM,
\* "panic" the unreachable!("validated above") of a datagram socket.
SysConnect(k, t, n, a, how) ==
    LET s == SockOf(k, t, n)
        e == EndOf(k, t, n)
        sk == k.net.socks[s]
        far == a.fam # "unix" /\ ~ValidBind(a)
    IN  IF ~IsFd(k, t, n, "socket") THEN Answer(k, "ENOTSOCK")
        ELSE IF sk.st.kind = "host" THEN HostConnect(k, s, sk.st)
        ELSE IF a.fam # sk.dom THEN Answer(k, "EINVAL")
        ELSE IF a.fam # "unix" /\ LoopbackUnreachable(k.net, s, a) THEN Answer(k, Unreachable(a))
        ELSE IF sk.st.kind = "dgram" THEN
            IF a.fam = "unix" THEN Answer(k, "panic")
            ELSE IF far /\ ~(IsMulticast(a) /\ sk.st.icmp = "no") /\ ~EgressFor(k.net, s)
                 THEN Answer(k, "ENETUNREACH") ELSE Peered(k, s, a)
        ELSE IF far THEN ConnectHost(k, s, e, a, how)
        ELSE IF ~(sk.st.kind = "idle" /\ e = 0) THEN Answer(k, "EINVAL")
        ELSE ConnectPair(k, t, s, IF a.fam = "unix" THEN UnixKey(sk.ns, a)
                                  ELSE RouteKey(sk.ns, "tcp", a), sk.dom)
SysAccept4(k, t, n, nb) ==
    LET s == SockOf(k, t, n)
        p == Head(St(k, s).backlog)
        popped == [k EXCEPT !.net.socks[s].st.backlog = Tail(@)]
    IN  IF ~IsFd(k, t, n, "socket") THEN Answer(k, "ENOTSOCK")
        ELSE IF ~IsKind(k, s, "listener") THEN Answer(k, "EINVAL")
        ELSE IF St(k, s).backlog = << >> THEN WouldBlock(k, k.net.socks[s].nb)
        ELSE Install(IF IsKind(k, p, "pair") THEN [popped EXCEPT !.net.socks[p].st.nb[1] = nb] ELSE popped,
                     t, SocketFd(p, 1))
SysGetsockname(k, t, n) ==
    LET st == St(k, SockOf(k, t, n))
    IN  IF ~IsFd(k, t, n, "socket") THEN Answer(k, "ENOTSOCK")
        ELSE Return(k, CASE st.kind = "idle" -> st.bound
                         [] st.kind = "listener" -> st.addr
                         [] st.kind = "pair" -> st.addrs[EndOf(k, t, n)]
                         [] st.kind = "dgram" -> st.local
                         [] st.kind = "netlink" -> [fam |-> "netlink", port |-> st.pid]
                         [] OTHER -> NoAddr)
SysGetpeername(k, t, n) ==
    LET st == St(k, SockOf(k, t, n))
    IN  IF ~IsFd(k, t, n, "socket") THEN Answer(k, "ENOTSOCK")
        ELSE CASE st.kind = "pair" -> Return(k, st.addrs[1 - EndOf(k, t, n)])
               [] st.kind = "host" \/ (st.kind = "dgram" /\ st.peer # NoAddr) -> Return(k, st.peer)
               [] OTHER -> Answer(k, "ENOTCONN")
SysShutdown(k, t, n, how) ==
    LET s == SockOf(k, t, n)
        e == EndOf(k, t, n)
    IN  IF ~IsFd(k, t, n, "socket") THEN Answer(k, "ENOTSOCK")
        ELSE CASE IsKind(k, s, "pair") ->
                    IF how \notin {"rd", "wr", "rdwr"} THEN Answer(k, "EINVAL")
                    ELSE Return([k EXCEPT !.net.socks[s].st.shut_rd[e] = @ \/ how # "wr",
                                          !.net.socks[s].st.shut_wr[e] = @ \/ how # "rd"], 0)
               [] IsKind(k, s, "host") ->
                    IF how \in {"wr", "rdwr"}
                    THEN Return([k EXCEPT !.net.socks[s].st.wr_shut = TRUE,
                                          !.hosts[St(k, s).conn].shut = TRUE], 0)
                    ELSE Return(k, 0)
               [] OTHER -> Answer(k, "ENOTCONN")

\* ---------------------------------------------------------------- options
\* Levels: 1 socket, 0 ip, 6 tcp, 17 udp, 41 ipv6, 58 icmpv6, 255 raw,
\* 263 packet, 270 netlink.
KnownOpt(level, n) ==
    CASE level = 1 -> n \in 1..21 \/ n \in (25..77) \ {54, 58}
      [] level = 0 -> n \in 1..27 \/ n \in 32..51
      [] level = 6 -> n \in 1..43
      [] level = 17 -> n \in {1} \cup 100..104
      [] level = 41 -> n \in 1..80
      [] level \in {58, 255} -> n = 1
      [] level = 270 -> n \in 1..12
      [] level = 263 -> n \in 1..23
      [] OTHER -> FALSE
RefusedOpt(level, n) ==
    CASE level = 1 /\ n \in {25, 32, 33, 36, 62} -> "EPERM"
      [] level = 0 /\ n \in {3, 5, 15, 16, 17, 19} -> "EPERM"
      [] level = 41 /\ n \in {22, 34, 35, 75, 78} -> "EPERM"
      [] level = 6 /\ n \in (19..22) \cup {29, 42} -> "EPERM"
      [] level = 1 /\ n \in {26, 27, 44, 50, 51, 52, 68} -> "ENOPROTOOPT"
      [] level = 6 /\ n \in {14, 31, 32, 38, 39, 40, 41} -> "ENOPROTOOPT"
      [] level = 263 -> "ENOPROTOOPT"
      [] OTHER -> "ok"
IsIntOpt(level, n) ==
    CASE level = 1 -> n \notin {13, 20, 21, 25, 26, 28, 31, 37, 55, 59, 61, 65, 66, 67}
      [] level = 6 -> n \notin {11, 13, 14, 26, 28, 29, 31, 32, 33, 35}
      [] level = 0 -> n \notin {4, 32} \cup 35..48
      [] level = 41 -> n \notin {17, 20, 21, 50, 57}
      [] OTHER -> TRUE
ReadOnlyOpts == {3, 4, 17, 28, 30, 31, 38, 39, 57, 59, 71, 77}
ClampSockBuf(n) == Max({SndbufMin, Min({n, SndbufMax})})
\* set_membership: `v` is the group's address
IsMembership(level, n) ==
    <<level, n>> \in {<<0, 35>>, <<0, 36>>, <<41, 20>>, <<41, 21>>}
                     \cup ({0, 41} \X {42, 45})
SetMembership(k, s, n, v) ==
    LET join == n \in {35, 20, 42}
        g == [v EXCEPT !.port = 0]
        had == g \in St(k, s).groups
    IN  IF k.net.socks[s].dom \notin Inet THEN Answer(k, "ENOPROTOOPT")
        ELSE IF ~IsKind(k, s, "dgram") THEN Answer(k, "EPROTO")
        ELSE IF ~IsMulticast(v) THEN Answer(k, "EINVAL")
        ELSE IF join /\ had THEN Answer(k, "EADDRINUSE")
        ELSE IF join /\ Cardinality(St(k, s).groups) >= MaxGroups THEN Answer(k, "ENOBUFS")
        ELSE IF ~join /\ ~had THEN Answer(k, "EADDRNOTAVAIL")
        ELSE Return([k EXCEPT !.net.socks[s].st.groups = IF join THEN @ \cup {g} ELSE @ \ {g}], 0)
\* setsockopt of `len` bytes holding `v`; a timeout of -1 has microseconds
\* that make a second, and `reset` is a linger of zero seconds.
SysSetsockopt(k, t, n, level, opt, len, v) ==
    LET s == SockOf(k, t, n)
        least == IF level = 0 THEN 1 ELSE 4
        timeout == level = 1 /\ opt \in {20, 21, 66, 67}
    IN  IF ~IsFd(k, t, n, "socket") THEN Answer(k, "ENOTSOCK")
        ELSE IF ~KnownOpt(level, opt) \/ (level = 1 /\ opt \in ReadOnlyOpts) THEN Answer(k, "ENOPROTOOPT")
        ELSE IF RefusedOpt(level, opt) # "ok" THEN Answer(k, RefusedOpt(level, opt))
        ELSE IF IsIntOpt(level, opt) /\ len < least THEN Answer(k, "EINVAL")
        ELSE IF level = 1 /\ opt = 12 /\ v \notin 0..6 THEN Answer(k, "EPERM")
        ELSE IF timeout /\ len < 16 THEN Answer(k, "EINVAL")
        ELSE IF timeout /\ v < 0 THEN Answer(k, "EDOM")
        ELSE IF level = 6 /\ ((opt \in {4, 5} /\ v \notin 1..32767) \/ (opt = 6 /\ v \notin 1..127))
             THEN Answer(k, "EINVAL")
        ELSE IF IsMembership(level, opt) THEN SetMembership(k, s, opt, v)
        ELSE LET o == k.net.socks[s].opts
                 new == CASE level = 1 /\ opt = 2 -> [o EXCEPT !.reuseaddr = v # 0]
                          [] level = 1 /\ opt = 15 -> [o EXCEPT !.reuseport = v # 0]
                          [] level = 1 /\ opt = 7 -> [o EXCEPT !.sndbuf = ClampSockBuf(v)]
                          [] level = 1 /\ opt = 13 /\ len >= 8 -> [o EXCEPT !.reset = v = "reset"]
                          [] level = 1 /\ opt \in {20, 66} -> [o EXCEPT !.rcvtimeo = v]
                          [] level = 1 /\ opt \in {21, 67} -> [o EXCEPT !.sndtimeo = v]
                          [] <<level, opt>> \in {<<0, 34>>, <<41, 19>>} -> [o EXCEPT !.mloop = v # 0]
                          [] <<level, opt>> \in {<<0, 49>>, <<41, 29>>} -> [o EXCEPT !.mall = v # 0]
                          [] OTHER -> o
             IN  Return([k EXCEPT !.net.socks[s].opts = new], 0)
SysGetsockopt(k, t, n, level, opt) ==
    LET s == SockOf(k, t, n)
        st == St(k, s)
        o == k.net.socks[s].opts
        conn == k.hosts[st.conn]
        asked == IF st.kind = "host" /\ st.connecting /\ conn.state # "pending"
                 THEN [k EXCEPT !.net.socks[s].st.connecting = FALSE] ELSE k
        error == IF st.kind = "host" /\ st.connecting /\ conn.state = "failed"
                 THEN "ECONNREFUSED" ELSE o.error
    IN  IF ~IsFd(k, t, n, "socket") THEN Answer(k, "ENOTSOCK")
        ELSE CASE level = 1 /\ opt = 4 ->
                    Return([asked EXCEPT !.net.socks[s].opts.error = "ok"], error)
               [] level = 1 /\ opt = 3 ->
                    Return(k, IF st.kind = "dgram" /\ st.icmp # "raw" THEN "dgram"
                              ELSE IF st.kind \in {"dgram", "netlink"} THEN "raw" ELSE "stream")
               [] level = 1 /\ opt = 2 -> Return(k, o.reuseaddr)
               [] level = 1 /\ opt = 15 -> Return(k, o.reuseport)
               [] level = 1 /\ opt = 7 -> Return(k, 2 * o.sndbuf)
               [] level = 1 /\ opt \in {20, 66} -> Return(k, o.rcvtimeo)
               [] level = 1 /\ opt \in {21, 67} -> Return(k, o.sndtimeo)
               [] level = 1 /\ opt = 30 -> Return(k, st.kind = "listener")
               [] level = 1 /\ opt = 17 ->
                    Return(k, IF st.kind = "pair" THEN st.cred[1 - EndOf(k, t, n)] ELSE 0)
               [] OTHER -> IF KnownOpt(level, opt) THEN Return(k, "value") ELSE Answer(k, "ENOPROTOOPT")
\* A call that would block on a socket with a timeout fails once it is over.
ApplySockTimeout(k, t, n, dir) ==
    LET o == k.net.socks[SockOf(k, t, n)].opts
        timeout == IF dir = "receive" THEN o.rcvtimeo ELSE o.sndtimeo
    IN  IF ~IsFd(k, t, n, "socket") \/ timeout <= 0 \/ k.out # "block" THEN k
        ELSE IF Expired(k, t) THEN Answer(Unseed(k, t), "EAGAIN")
        ELSE Answer(Seed(k, t, k.now + timeout), "block_once")

\* ---------------------------------------------------------------- sending
\* An ICMP message is <<type, identifier, ...>>.
ShapeIcmp(st, msg) == st.icmp = "raw" \/ (msg[1] = "reply" /\ msg[2] = st.ident)
IcmpSend(k, s, data, dest) ==
    LET st == St(k, s)
        msg == IF st.icmp = "ping" THEN [data EXCEPT ![2] = st.ident] ELSE data
        reply == [msg EXCEPT ![1] = "reply"]
        from == [dest EXCEPT !.port = 0, !.ip = IF @ = "any" THEN "lo" ELSE @]
    IN  IF Len(data) < 2 \/ (st.icmp = "ping" /\ data[1] # "echo") THEN Answer(k, "EINVAL")
        ELSE IF ValidBind(dest) THEN
            Return(IF msg[1] = "echo" /\ ShapeIcmp(st, reply) THEN Enqueue(k, s, from, reply) ELSE k, Len(data))
        ELSE IF st.host = 0 THEN Answer(k, "ENETUNREACH")
        ELSE Return([k EXCEPT !.hosts[st.host].outb = Append(@, [to |-> dest, data |-> msg])], Len(data))
HostUdpSend(k, s, data, dest) ==
    LET r == IF St(k, s).host # 0 THEN k
             ELSE [k EXCEPT !.hosts = Append(@, NewHost("udp")),
                            !.net.socks[s].st.host = Len(k.hosts) + 1]
    IN  IF St(k, s).host = 0 /\ ~EgressFor(k.net, s) THEN Answer(k, "ENETUNREACH")
        ELSE Return([r EXCEPT !.hosts[St(r, s).host].outb = Append(@, [to |-> dest, data |-> data])], Len(data))
HostUdpDrain(k, s) ==
    LET h == St(k, s).host
        kept == SelectSeq(k.hosts[h].inb, LAMBDA m : St(k, s).icmp = "no" \/ ShapeIcmp(St(k, s), m.data))
    IN  IF h = 0 THEN k
        ELSE FoldLeft(LAMBDA r, m : Enqueue(r, s, m.from, m.data), [k EXCEPT !.hosts[h].inb = << >>], kept)
DgramTo(k, s, data, dest) ==
    CASE St(k, s).icmp # "no" -> IcmpSend(k, s, data, dest)
      [] St(k, s).icmp = "no" /\ IsMulticast(dest) -> MulticastSend(k, s, data, dest)
      [] St(k, s).icmp = "no" /\ dest.ip = "far" -> HostUdpSend(k, s, data, dest)
      [] OTHER -> LocalSend(k, s, data, dest)

\* ---------------------------------------------------------------- netlink
\* A request is [type, dump, ack, fam, index, change, up].
Ifaces(net, ns) ==
    LET lo == [name |-> "lo", up |-> LoUp(net, ns), fams |-> IF LoUp(net, ns) THEN Inet ELSE {}]
    IN  IF ns = 0 /\ net.tun.up THEN <<lo, [name |-> "tun0", up |-> TRUE, fams |-> net.tun.fams]>>
        ELSE <<lo>>
SetLink(k, t, ns, m) ==
    LET tun == m.index = "tun0" /\ ns = 0 /\ k.net.tun.up
    IN  IF m.index # "lo" /\ ~tun THEN Answer(k, "ENODEV")
        ELSE IF ~Privileged(k, t) THEN Answer(k, "EPERM")
        ELSE IF ~m.change THEN Return(k, 0)
        ELSE IF tun THEN Answer(k, IF m.up THEN "ok" ELSE "EPERM")
        ELSE Return([k EXCEPT !.net.lo = Put(@, ns, m.up)], 0)
HandleNetlinkRequest(k, t, s, msgs) ==
    LET ns == k.net.socks[s].ns
        Wants(m, f) == m.fam = "any" \/ m.fam = f
        Addrs(i, m) == [j \in 1..Cardinality({f \in i.fams : Wants(m, f)}) |-> <<"addr", i.name>>]
        Routes(m) == [j \in 1..(2 * Cardinality({f \in k.net.tun.fams : Wants(m, f)})) |-> <<"route", "tun0">>]
        All(F(_)) == FoldLeft(LAMBDA r, i : r \o F(i), << >>, Ifaces(k.net, ns))
        done == <<"done", "ok">>
        Replies(r, m) ==
            CASE m.type \in {"newlink", "setlink"} /\ ~m.dump ->
                    IF r.out # "ok" \/ m.ack THEN <<<<"error", r.out>>>> ELSE << >>
              [] m.type = "getlink" /\ m.dump -> Append(All(LAMBDA i : <<<<"link", i.name>>>>), done)
              [] m.type = "getaddr" /\ m.dump -> Append(All(LAMBDA i : Addrs(i, m)), done)
              [] m.type = "getroute" /\ m.dump ->
                    Append(IF ns = 0 /\ k.net.tun.up THEN Routes(m) ELSE << >>, done)
              [] m.type = "getroute" -> <<done>>
              [] OTHER -> <<<<"error", IF m.ack THEN "ok" ELSE "EOPNOTSUPP">>>>
        One(r, m) ==
            LET c == IF m.type \in {"newlink", "setlink"} /\ ~m.dump
                     THEN SetLink(Answer(r, "ok"), t, ns, m) ELSE Answer(r, "ok")
            IN  IF r.out = "ENOBUFS" THEN r
                ELSE IF Len(St(c, s).queue) + Len(Replies(c, m)) > NlQueue THEN Answer(c, "ENOBUFS")
                ELSE Return([c EXCEPT !.net.socks[s].st.queue = @ \o Replies(c, m)], Len(msgs))
    IN  FoldLeft(One, Return(k, Len(msgs)), msgs)
\* drain_netlink: whole messages, or the first one cut short
DrainNetlink(k, s, want) ==   \* `want` counts messages
    LET q == St(k, s).queue
        n == Max({1, Min({want, Len(q)})})
    IN  Return([k EXCEPT !.net.socks[s].st.queue = SubSeq(@, n + 1, Len(@))],
               IF want = 0 THEN << >> ELSE SubSeq(q, 1, n))

\* ------------------------------------------------- streams and messages
Room(k, s, e) == Max({0, 2 * k.net.socks[s].opts.sndbuf - Len(St(k, s).to[1 - e])})
WritePair(k, t, s, e, data, nosignal, dontwait) ==
    LET p == St(k, s)
        done0 == Min({k.procs[t].progress, Len(data)})
        n == Min({Room(k, s, e), Len(data) - done0})
        done == done0 + n
        idle == [k EXCEPT !.procs[t].progress = 0]
        moved == [idle EXCEPT !.net.socks[s].st.to[1 - e] = @ \o SubSeq(data, done0 + 1, done)]
    IN  IF p.shut_wr[e] \/ p.refs[1 - e] = 0
        THEN Answer(IF nosignal THEN idle ELSE RaiseSigpipe(idle, t), "EPIPE")
        ELSE IF done = Len(data) THEN Return(moved, done)
        ELSE IF p.nb[e] \/ dontwait THEN IF done > 0 THEN Return(moved, done) ELSE Answer(moved, "EAGAIN")
        ELSE Answer([moved EXCEPT !.procs[t].progress = done], "block")
WriteHost(k, t, s, data, nosignal) ==
    LET h == St(k, s)
        n == Min({HostRoom - Len(k.hosts[h.conn].outb), Len(data)})
    IN  IF h.wr_shut THEN Answer(IF nosignal THEN k ELSE RaiseSigpipe(k, t), "EPIPE")
        ELSE IF k.hosts[h.conn].state = "failed" THEN Answer(k, "ECONNRESET")
        ELSE IF n = 0 /\ data # << >> THEN WouldBlock(k, h.nb)
        ELSE Return([k EXCEPT !.hosts[h.conn].outb = @ \o SubSeq(data, 1, n)], n)
WriteSocket(k, t, s, e, data, nosignal, dontwait) ==
    LET st == St(k, s)
    IN  CASE st.kind = "netlink" -> HandleNetlinkRequest(k, t, s, data)
          [] st.kind = "dgram" ->
                IF st.partner # 0 THEN Return(Enqueue(k, st.partner, Nowhere, data), Len(data))
                ELSE IF st.peer = NoAddr THEN Answer(k, "ENOTCONN")
                ELSE DgramTo(k, s, data, st.peer)
          [] st.kind = "host" -> WriteHost(k, t, s, data, nosignal)
          [] st.kind = "pair" -> WritePair(k, t, s, e, data, nosignal, dontwait)
          [] OTHER -> Answer(k, "EINVAL")
\* send_bytes: `dest` is NoAddr when the caller names no destination
SendBytes(k, t, n, data, dest, flags) ==
    LET s == SockOf(k, t, n)
        key == UnixKey(k.net.socks[s].ns, dest)
    IN  IF ~IsFd(k, t, n, "socket") THEN Answer(k, "ENOTSOCK")
        ELSE IF dest = NoAddr \/ k.net.socks[s].dom = "netlink"
             THEN WriteSocket(k, t, s, EndOf(k, t, n), data, "nosignal" \in flags, "dontwait" \in flags)
        ELSE IF ~IsKind(k, s, "dgram") THEN Answer(k, "EINVAL")
        ELSE IF dest.fam = "unix" THEN
            Return(IF key \in DOMAIN k.net.paths THEN Enqueue(k, k.net.paths[key], Nowhere, data) ELSE k, Len(data))
        ELSE IF LoopbackUnreachable(k.net, s, dest) THEN Answer(k, Unreachable(dest))
        ELSE IF dest.ip = "far" /\ St(k, s).icmp = "no" /\ ~EgressFor(k.net, s) THEN Answer(k, "ENETUNREACH")
        ELSE DgramTo(k, s, data, dest)

\* scm_read_len and scm_take: descriptors ride on the bytes they were sent
\* with, and one recvmsg never reads past the next ones.
ScmReadLen(q, want) ==
    IF q = << >> THEN want
    ELSE IF Head(q).pos > 0 THEN Min({want, Head(q).pos})
    ELSE IF Len(q) > 1 THEN Min({want, q[2].pos}) ELSE want
ScmTake(k, s, e, n) ==
    LET q == St(k, s).scm[e]
        ripe == SelectSeq(q, LAMBDA m : m.pos < Max({n, 1}))
        left == [i \in 1..(Len(q) - Len(ripe)) |->
                    [q[Len(ripe) + i] EXCEPT !.pos = Max({0, @ - n})]]
    IN  [k EXCEPT !.net.socks[s].st.scm[e] = left,
                  !.cmsg = FoldLeft(LAMBDA r, m : r \o m.fds, << >>, ripe)]
HostRecv(k, s, want, dontwait) ==
    LET h == St(k, s)
        conn == k.hosts[h.conn]
        n == Min({want, Len(conn.inb)})
    IN  IF conn.state = "failed" THEN Answer(k, "ECONNRESET")
        ELSE IF conn.inb = << >> /\ ~conn.eof THEN WouldBlock(k, h.nb \/ dontwait)
        ELSE Return([k EXCEPT !.hosts[h.conn].inb = SubSeq(@, n + 1, Len(@))], SubSeq(conn.inb, 1, n))
PeerOpen(p, e) == p.refs[1 - e] > 0 /\ ~p.shut_wr[1 - e]
\* The bytes a reader gets, `n` of them, with the descriptors riding on them.
TakeBytes(k, s, e, n, peek) ==
    LET r == [k EXCEPT !.net.socks[s].st.to[e] = SubSeq(@, n + 1, Len(@))]
        data == SubSeq(St(k, s).to[e], 1, n)
    IN  IF peek THEN Return(k, data) ELSE Return(ScmTake(r, s, e, n), data)
\* recv_stream: what read and recvfrom get; descriptors are let go.
RecvStream(k, s, e, count, flags, writable) ==
    LET p == St(k, s)
        nb == p.nb[e] \/ "dontwait" \in flags
        avail == Len(p.to[e])
        short == "waitall" \in flags /\ ~nb /\ avail > 0 /\ avail < count /\ PeerOpen(p, e)
        got == TakeBytes(k, s, e, Min({count, avail}), "peek" \in flags)
        let_go == [ScmRef(got, got.cmsg, FALSE) EXCEPT !.cmsg = << >>]
    IN  IF p.kind = "host" THEN
            LET r == HostRecv(k, s, count, "dontwait" \in flags)
            IN  IF r.out = "ok" /\ ~writable THEN Answer(r, "EFAULT") ELSE r
        ELSE IF p.kind # "pair" THEN Answer(k, "EINVAL")
        ELSE IF p.shut_rd[e] THEN Return(k, << >>)
        ELSE IF avail = 0 \/ short THEN
            IF PeerOpen(p, e) THEN WouldBlock(k, nb) ELSE Return(k, << >>)
        ELSE IF writable THEN let_go ELSE Answer(let_go, "EFAULT")
RecvStreamBytes(k, s, e, count, flags) ==
    LET p == St(k, s)
        scm_ready == p.scm[e] # << >> /\ Head(p.scm[e]).pos = 0
        want == Min({count, Len(p.to[e])})
    IN  IF p.kind # "pair" THEN Answer(k, "EINVAL")
        ELSE IF p.shut_rd[e] THEN Return(k, << >>)
        ELSE IF p.to[e] = << >> /\ ~scm_ready THEN
            IF PeerOpen(p, e) THEN WouldBlock(k, p.nb[e] \/ "dontwait" \in flags) ELSE Return(k, << >>)
        ELSE TakeBytes(k, s, e, ScmReadLen(p.scm[e], want), "peek" \in flags)
\* recv_dgram_msg: the next datagram, what the host has sent queued first
RecvDgramMsg(k, s, count, flags) ==
    LET r == HostUdpDrain(k, s)
        q == St(r, s).queue
        data == Head(q).data
        popped == IF "peek" \in flags THEN r ELSE [r EXCEPT !.net.socks[s].st.queue = Tail(@)]
    IN  IF q = << >> THEN WouldBlock(r, k.net.socks[s].nb \/ "dontwait" \in flags)
        ELSE Return(popped, SubSeq(data, 1, Min({count, Len(data)})))
RecvNetlink(k, s, count, flags) ==
    IF St(k, s).queue = << >> THEN WouldBlock(k, k.net.socks[s].nb \/ "dontwait" \in flags)
    ELSE DrainNetlink(k, s, count)
RecvMessage(k, t, n, cap, flags) ==
    LET s == SockOf(k, t, n)
    IN  IF ~IsFd(k, t, n, "socket") THEN Answer(k, "ENOTSOCK")
        ELSE CASE IsKind(k, s, "netlink") -> RecvNetlink(k, s, cap, flags)
               [] IsKind(k, s, "dgram") -> RecvDgramMsg(k, s, cap, flags)
               [] IsKind(k, s, "host") -> HostRecv(k, s, cap, "dontwait" \in flags)
               [] OTHER -> RecvStreamBytes(k, s, EndOf(k, t, n), cap, flags)
LetGo(r) == [ScmRef(r, r.cmsg, FALSE) EXCEPT !.cmsg = << >>]
RecvFdBytes(k, t, n, cap, flags) == LetGo(RecvMessage(k, t, n, cap, flags))
Copied(r, writable) == IF r.out = "ok" /\ ~writable THEN Answer(r, "EFAULT") ELSE r
ReadSocket(k, s, e, count, writable) ==
    CASE IsKind(k, s, "dgram") -> Copied(RecvDgramMsg(k, s, count, {}), writable)
      [] IsKind(k, s, "netlink") -> Copied(RecvNetlink(k, s, count, {}), writable)
      [] OTHER -> RecvStream(k, s, e, count, {}, writable)
SysSendto(k, t, n, data, dest, flags) ==
    ApplySockTimeout(SendBytes(k, t, n, data, dest, flags), t, n, "send")
RecvFrom(k, t, n, count, flags, writable) ==
    LET s == SockOf(k, t, n)
    IN  IF ~IsFd(k, t, n, "socket") THEN Answer(k, "ENOTSOCK")
        ELSE CASE IsKind(k, s, "netlink") -> Copied(RecvNetlink(k, s, count, flags), writable)
               [] IsKind(k, s, "dgram") -> Copied(RecvDgramMsg(k, s, count, flags), writable)
               [] OTHER -> RecvStream(k, s, EndOf(k, t, n), count, flags, writable)
SysRecvfrom(k, t, n, count, flags, writable) ==
    ApplySockTimeout(RecvFrom(k, t, n, count, flags, writable), t, n, "receive")
\* sendmsg: the descriptors are queued by the pass that completes the send.
Ride(r, s, to, fds) ==
    IF r.out # "ok" \/ fds = << >> \/ ~IsKind(r, s, "pair") THEN r
    ELSE [ScmRef(r, fds, TRUE) EXCEPT
            !.net.socks[s].st.scm[to] = Append(@, [pos |-> Max({0, Len(St(r, s).to[to]) - r.val}), fds |-> fds])]
SendMsg(k, t, n, data, dest, flags, nums) ==
    LET tab == Table(k, t)
        fds == [i \in 1..Len(nums) |-> tab[nums[i]]]
    IN  IF ~(ToSet(nums) \subseteq DOMAIN tab) THEN Answer(k, "EBADF")
        ELSE Ride(SendBytes(k, t, n, data, dest, flags), SockOf(k, t, n), 1 - EndOf(k, t, n), fds)
SysSendmsg(k, t, n, data, dest, flags, nums) ==
    ApplySockTimeout(SendMsg(k, t, n, data, dest, flags, nums), t, n, "send")
\* Mutant: descriptors that do not fit are forgotten, not closed.
EmitScmRightsKept(k, t, room) ==
    LET given == FoldLeft(LAMBDA r, f : Install(r, t, f), k, SubSeq(k.cmsg, 1, Min({room, Len(k.cmsg)})))
    IN  [given EXCEPT !.cmsg = << >>, !.val = k.val]
\* emit_scm_rights: `room` descriptors fit the caller's control buffer.
EmitScmRights(k, t, room) ==
    LET n == Min({room, Len(k.cmsg)})
        dropped == ScmRef(k, SubSeq(k.cmsg, n + 1, Len(k.cmsg)), FALSE)
        given == FoldLeft(LAMBDA r, f : Install(r, t, f), dropped, SubSeq(k.cmsg, 1, n))
    IN  [given EXCEPT !.cmsg = << >>, !.val = k.val]
Scattered(r, t, room, writable) ==
    IF r.out # "ok" THEN r
    ELSE IF r.val # << >> /\ ~writable THEN [Answer(r, "EFAULT") EXCEPT !.cmsg = << >>]
    ELSE EmitScmRights(r, t, room)
RecvMsg(k, t, n, cap, flags, room, writable) ==
    Scattered(RecvMessage(k, t, n, cap, flags), t, room, writable)
SysRecvmsg(k, t, n, cap, flags, room, writable) ==
    ApplySockTimeout(RecvMsg(k, t, n, cap, flags, room, writable), t, n, "receive")
\* sendmmsg: a message that would block parks the task when the loop is over,
\* and the whole of it is made again.
BatchStart(k) == [k |-> k, stop |-> FALSE, blocked |-> FALSE, got |-> << >>, n |-> 0]
BatchStep(a, m) ==
    LET stop == m.out \notin {"ok", "block"}
    IN  [k |-> m, stop |-> stop, blocked |-> a.blocked \/ m.out = "block",
         got |-> IF m.out = "ok" THEN Append(a.got, m.val) ELSE a.got, n |-> IF stop THEN a.n ELSE a.n + 1]
BatchEnd(a, done) ==
    IF a.blocked THEN Answer(a.k, "block") ELSE IF a.stop /\ a.n = 0 THEN a.k ELSE Return(a.k, done)
SysSendmmsg(k, t, n, texts) ==
    LET One(a, d) ==
            IF a.stop THEN a ELSE BatchStep(a, SendMsg(Answer(a.k, "ok"), t, n, d, NoAddr, {}, << >>))
        End(a) == BatchEnd(a, a.n)
    IN  ApplySockTimeout(End(FoldLeft(One, BatchStart(k), texts)), t, n, "send")
\* recvmmsg: a message that would block counts as an empty one, and parks
\* the task when the loop is over.
SysRecvmmsg(k, t, n, cap, vlen, flags) ==
    LET One(a, i) ==
            IF a.stop THEN a ELSE BatchStep(a, RecvMsg(Answer(a.k, "ok"), t, n, cap, flags, 0, TRUE))
        End(a) == BatchEnd(a, FlattenSeq(a.got))
    IN  ApplySockTimeout(End(FoldLeft(One, BatchStart(k), [i \in 1..vlen |-> i])), t, n, "receive")

\* -------------------------------------------------------------- readiness
HostSocketReadiness(k, s) ==
    LET h == St(k, s)
        conn == k.hosts[h.conn]
    IN  IF h.connecting /\ conn.state = "pending" THEN {}
        ELSE IF h.connecting /\ conn.state = "failed" THEN {"out", "err"}
        ELSE (IF h.wr_shut THEN {} ELSE {"out"}) \cup (IF conn.inb # << >> \/ conn.eof THEN {"in"} ELSE {})
SockReadiness(k, s, e) ==
    LET st == St(k, s)
        gone == st.refs[1 - e] = 0
        over == gone \/ st.shut_wr[1 - e] \/ st.shut_rd[e]
    IN  CASE st.kind = "host" -> HostSocketReadiness(k, s)
          [] st.kind = "pair" ->
                (IF st.to[e] # << >> \/ over THEN {"in"} ELSE {})
                \cup (IF ~st.shut_wr[e] /\ Room(k, s, e) > 0 THEN {"out"} ELSE {})
                \cup (IF gone THEN {"hup"} ELSE {})
          [] st.kind = "listener" -> IF st.backlog = << >> THEN {} ELSE {"in"}
          [] st.kind = "dgram" ->
                {"out"} \cup (IF St(HostUdpDrain(k, s), s).queue = << >> THEN {} ELSE {"in"})
          [] st.kind = "netlink" -> {"in", "out"}
          [] OTHER -> {"out"}
SocketReadableBytes(k, s, e) ==
    LET st == IF IsKind(k, s, "dgram") THEN St(HostUdpDrain(k, s), s) ELSE St(k, s)
    IN  CASE st.kind = "host" -> Len(k.hosts[st.conn].inb)
          [] st.kind = "pair" -> Len(st.to[e])
          [] st.kind = "dgram" -> IF st.queue = << >> THEN 0 ELSE Len(Head(st.queue).data)
          [] OTHER -> 0
\* iface_ioctl: `v` names the interface, and for SIOCSIFFLAGS whether it is up
IfaceIoctl(k, t, ns, req, v) ==
    LET all == Ifaces(k.net, ns)
        with_v4 == SelectSeq(all, LAMBDA i : "inet" \in i.fams)
        i == {j \in ToSet(all) : j.name = v.name}
        v4 == \A j \in i : "inet" \in j.fams
    IN  IF req = "SIOCGIFCONF" THEN Return(k, Len(with_v4))
        ELSE IF i = {} THEN Answer(k, "ENODEV")
        ELSE CASE req = "SIOCSIFFLAGS" ->
                    IF ~Privileged(k, t) THEN Answer(k, "EPERM")
                    ELSE IF v.name = "lo" THEN Return([k EXCEPT !.net.lo = Put(@, ns, v.up)], 0)
                    ELSE IF v.up THEN Return(k, 0) ELSE Answer(k, "EPERM")
               [] req \in {"SIOCGIFADDR", "SIOCGIFNETMASK"} ->
                    IF v4 THEN Return(k, 0) ELSE Answer(k, "EADDRNOTAVAIL")
               [] OTHER -> Return(k, 0)
=============================================================================
