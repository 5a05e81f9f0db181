----------------------------- MODULE Containers -----------------------------
(***************************************************************************)
(* Tasks that build containers: namespaces (src/kernel/{ns,attrs}.rs), the *)
(* namespace side of do_clone, exit and wait (src/kernel/mod.rs), ids      *)
(* (src/kernel/{userns,sys_misc}.rs), the cgroup control files             *)
(* (src/kernel/cgroup.rs) and the mount calls of Mounts, as one machine.   *)
(* Each handler is an operator from the kernel record k and the calling    *)
(* task to the new record, its answer in k.out.                            *)
(*   procs  task -> [tgid, parent, thread, run, killed, frozen, ns, ids,   *)
(*                   nsCaps, root, exe, files, fs]                         *)
(*   uts    UTS namespace -> host name                                     *)
(*   unborn history: the ids of clones that failed after booking the child *)
(* A workload (one case of Cases) says what each task may still call.      *)
(***************************************************************************)
EXTENDS Mounts

CONSTANTS Cases, MaxTasks, MaxUts,
          MaxPid        \* bound: task ids a case can reach

VARIABLES kase, k
ctrVars == <<kase, k>>

Living(s) == {t \in DOMAIN s.procs : s.procs[t].run = "run"}
Threads(s, t) == {u \in Living(s) : s.procs[u].tgid = s.procs[t].tgid}
\* held: frozen, but a task about to die still runs.
Held(s, t) == s.procs[t].frozen /\ ~s.procs[t].killed
Kill(s, doomed) ==
    [s EXCEPT !.procs = [u \in DOMAIN @ |-> IF u \in doomed /\ @[u].run = "run"
                                            THEN [@[u] EXCEPT !.killed = TRUE] ELSE @[u]]]

\* ------------------------------------------------------------ namespaces
NsKinds == <<"user", "uts", "ipc", "net", "mnt", "cgroup", "pidc", "timec">>
\* enter_new_namespaces: [err, k, ns]; ids are handed out in this order, and
\* each new namespace is owned by the user namespace it was made in.
EnterNewNamespaces(s, t, old, flags, movesSelf) ==
    LET made == SelectSeq(NsKinds, LAMBDA x : x \in flags)
        id(x) == s.nextNs + (CHOOSE i \in DOMAIN made : made[i] = x) - 1
        new == [x \in DOMAIN old |->
                    IF x \in flags THEN id(x)
                    ELSE IF movesSelf /\ x = "pid" /\ "pidc" \in flags THEN id("pidc")
                    ELSE IF movesSelf /\ x = "time" /\ "timec" \in flags THEN id("timec")
                    ELSE old[x]]
        used == {s.procs[u].ns.uts : u \in DOMAIN s.procs} \cup {0}
        uts == Without(s.uts, DOMAIN s.uts \ used)
        owned == FoldLeft(LAMBDA u, x : IF x = "user" THEN u ELSE SetOwner(u, id(x), new.user),
                          s.users, made)
    IN  IF "uts" \in flags /\ Cardinality(DOMAIN uts) >= MaxUts
        THEN [err |-> "ENOSPC", ns |-> old, k |-> [s EXCEPT !.uts = uts, !.nextNs =
                                                    IF "user" \in flags THEN @ + 1 ELSE @]]
        ELSE [err |-> "ok", ns |-> new,
              k |-> [s EXCEPT !.nextNs = @ + Len(made), !.users = owned,
                              !.uts = IF "uts" \in flags THEN Set(uts, id("uts"), s.uts[old.uts]) ELSE @,
                              !.cg.roots = IF "cgroup" \in flags THEN Set(@, id("cgroup"), NodeOf(s.cg, t))
                                           ELSE @]]
NoIds == [x \in {"uid", "gid"} |-> [r |-> OverflowId, e |-> OverflowId, s |-> OverflowId, f |-> OverflowId]]
\* enter_user_namespace, of a task whose record is p: [err, users, p].
EnterUserNs(users, p, ns, parent) ==
    IF TooDeep(users.table, parent) THEN [err |-> "ENOSPC", users |-> users, p |-> p]
    ELSE [err |-> "ok", users |-> CreateUser(users, ns, parent, p.ids["uid"].e, p.ids["gid"].e),
          p |-> [p EXCEPT !.ids = NoIds, !.nsCaps = TRUE]]
\* The copy of the mounts a new mount namespace starts with: [err, mt].
CopyMounts(s, t, old, new, user) ==
    LET used == {s.procs[u].ns.mnt : u \in DOMAIN s.procs \ {t}} \cup {old}
        mt == IF Cardinality(DOMAIN s.mt.lists) >= MaxMountNs THEN CollectNamespaces(s.mt, used) ELSE s.mt
    IN  IF Cardinality(DOMAIN mt.lists) >= MaxMountNs THEN [err |-> "ENOSPC", mt |-> mt]
        ELSE [err |-> "ok", mt |-> CopyNamespace(mt, old, new, user # OwnerOf(s.users, old))]
\* The checks of sys_unshare.
UnshareError(s, t, flags) ==
    IF /\ flags \ {"user", "files", "fs"} # {} /\ ~Privileged(s, t) /\ "user" \notin flags
    THEN "EPERM"
    ELSE IF "user" \in flags /\ s.procs[t].root # << >> THEN "EPERM"
    ELSE IF flags \cap {"user", "pidc"} # {} /\ Threads(s, t) # {t} THEN "EINVAL"
    ELSE "ok"
\* Move to tables of its own what it shares with another task.
PrivateTables(s, t, flags) ==
    LET p == s.procs[t]
        shared(f) == \E u \in DOMAIN s.procs \ {t} : s.procs[u][f] = p[f]
        nf == 1 + Max(DOMAIN s.files)
        nc == 1 + Max(DOMAIN s.cwds)
        a == IF "files" \in flags /\ shared("files")
             THEN [s EXCEPT !.files = Set(@, nf, @[p.files]), !.procs[t].files = nf] ELSE s
    IN  IF "fs" \in flags /\ shared("fs")
        THEN [a EXCEPT !.cwds = Set(@, nc, @[p.fs]), !.procs[t].fs = nc] ELSE a
\* sys_unshare: what an error in the middle leaves behind stays.
UnshareMounts(s, c, old, t, flags) ==
    LET s1 == IF "mnt" \notin flags THEN s ELSE [s EXCEPT !.mt = c.mt]
    IN  IF "mnt" \in flags /\ c.err # "ok" THEN [Answer(s1, c.err) EXCEPT !.procs[t].ns.mnt = old.mnt]
        ELSE Answer(PrivateTables(s1, t, flags), "ok")
UnsharePids(s, old, t, flags) ==
    LET ns == s.procs[t].ns
        s1 == IF "pidc" \notin flags THEN s ELSE [s EXCEPT !.pids = CreatePidNs(@, ns.pidc, old.pidc)]
    IN  IF "pidc" \in flags /\ TooDeep(s.pids, old.pidc)
        THEN [Answer(s, "ENOSPC") EXCEPT !.procs[t].ns.pidc = old.pidc]
        ELSE UnshareMounts(s1, CopyMounts(s1, t, old.mnt, ns.mnt, ns.user), old, t, flags)
UnshareUser(s, u, old, t, flags) ==
    IF "user" \notin flags THEN UnsharePids(s, old, t, flags)
    ELSE IF u.err # "ok" THEN [Answer(s, u.err) EXCEPT !.procs[t].ns.user = old.user]
    ELSE UnsharePids([s EXCEPT !.users = u.users, !.procs[t] = u.p], old, t, flags)
UnshareInto(n, old, t, flags) ==
    LET s == [n.k EXCEPT !.procs[t].ns = n.ns]
    IN  IF n.err # "ok" THEN Answer(n.k, n.err)
        ELSE UnshareUser(s, EnterUserNs(s.users, s.procs[t], n.ns.user, old.user), old, t, flags)
SysUnshare(s, t, flags) ==
    LET old == s.procs[t].ns
    IN  IfOk(UnshareError(s, t, flags), s,
             UnshareInto(EnterNewNamespaces(s, t, old, flags, FALSE), old, t, flags))
\* join_user_namespace: the ids stay the same ids, seen through the new maps.
JoinUserNs(s, t, id) ==
    LET p == s.procs[t]
        view(x, v) == LET g == ToGlobalId(s.users, p.ns.user, x, v)
                      IN  SeenFromGlobal(s.users, id, x, IF g = None THEN v ELSE g)
    IN  IF id = p.ns.user THEN Answer(s, "EINVAL")
        ELSE IF ~(/\ UserWithin(s.users, id, p.ns.user)
                  /\ Privileged(s, t) \/ CreatedBy(s.users, id, p.ns.user, p.ids["uid"].e))
        THEN Answer(s, "EPERM")
        ELSE [Answer(s, "ok") EXCEPT
                !.procs[t] = [p EXCEPT !.ns.user = id, !.nsCaps = TRUE,
                    !.ids = [x \in DOMAIN @ |-> [f \in DOMAIN @[x] |-> view(x, @[x][f])]]]]
JoinNamespace(ns, kind, id) ==
    IF kind \in {"pid", "pidc"} THEN [ns EXCEPT !.pidc = id]
    ELSE IF kind \in {"time", "timec"} THEN [ns EXCEPT !.timec = id] ELSE [ns EXCEPT ![kind] = id]
ResetToNewRoot(s, t) == [s EXCEPT !.procs[t].root = << >>, !.cwds[s.procs[t].fs] = << >>]
\* sys_setns with a namespace descriptor, as opened from /proc/<who>/ns/<kind>.
SysSetns(s, t, kind, id) ==
    LET threaded == Threads(s, t) # {t} /\ kind \in {"mnt", "user"}
        old == s.procs[t].ns.mnt
        joined == [Answer(s, "ok") EXCEPT !.procs[t].ns = JoinNamespace(@, kind, id)]
    IN  IF kind # "user" /\ ~Privileged(s, t) THEN Answer(s, "EPERM")
        ELSE IF threaded THEN Answer(s, "EINVAL")
        ELSE IF kind = "user" THEN JoinUserNs(s, t, id)
        ELSE IF ~MayAdminister(s, t, id) THEN Answer(s, "EPERM")
        ELSE IF kind \in {"pid", "pidc"} /\ ~PidWithin(s.pids, id, s.procs[t].ns.pid)
        THEN Answer(s, "EINVAL")
        ELSE IF kind = "mnt" THEN CarryOpenFiles(ResetToNewRoot(joined, t), t, old)
        ELSE joined
SysSethostname(s, t, name) ==
    IF ~MayAdminister(s, t, s.procs[t].ns.uts) THEN Answer(s, "EPERM")
    ELSE [Answer(s, "ok") EXCEPT !.uts[s.procs[t].ns.uts] = name]

\* ----------------------------------------------------- clone, exit, wait
\* free_task_slot, of what containers keep of a task.
FreeTask(s, t) ==
    LET p == s.procs[t]
        rest == Without(s.procs, {t})
        used(f, id) == \E u \in DOMAIN rest : rest[u][f] = id
    IN  [s EXCEPT !.procs = rest, !.pids = RemoveTask(@, t, p.ns.pid), !.cg = CgRelease(@, t),
                  !.files = IF used("files", p.files) THEN @ ELSE [@ EXCEPT ![p.files] = << >>]]
ReapUnwaited(s) ==
    FoldSet(LAMBDA u, x : FreeTask(x, u), s,
            {u \in DOMAIN s.procs : s.procs[u].run = "zombie" /\ s.procs[u].thread})
CloneError(s, t, flags) ==
    LET ns == s.procs[t].ns
    IN  IF "fs" \in flags /\ flags \cap {"mnt", "user"} # {} THEN "EINVAL"
        ELSE IF Cardinality(DOMAIN s.procs) - 1 >= MaxTasks THEN "EAGAIN"
        ELSE IF "thread" \in flags /\ ("pidc" \in flags \/ ns.pid # ns.pidc) THEN "EINVAL"
        ELSE IF /\ flags \cap {"mnt", "cgroup", "uts", "ipc", "pidc", "net"} # {}
                /\ ~Privileged(s, t) /\ "user" \notin flags
        THEN "EPERM"
        ELSE IF "user" \in flags /\ s.procs[t].root # << >> THEN "EPERM" ELSE "ok"
\* do_clone: the number in each PID namespace and the cgroup's charge are made
\* before the steps that can still fail: a new user or mount namespace, and
\* copying the address space (`mem` FALSE: no memory for it).
CloneTables(s, born, t, c, flags) ==
    LET nf == 1 + Max(DOMAIN s.files)
        nc == 1 + Max(DOMAIN s.cwds)
    IN  [Answer(s, "ok") EXCEPT
            !.files = IF "files" \in flags THEN @ ELSE Set(@, nf, @[born.files]),
            !.cwds = IF "fs" \in flags THEN @ ELSE Set(@, nc, @[born.fs]),
            !.procs = Set(@, c, [born EXCEPT !.files = IF "files" \in flags THEN @ ELSE nf,
                                             !.fs = IF "fs" \in flags THEN @ ELSE nc])]
CloneMounts(s, m, born, t, c, flags, mem) ==
    LET s1 == IF "mnt" \in flags THEN [s EXCEPT !.mt = m.mt] ELSE s
    IN  IF "mnt" \in flags /\ m.err # "ok" THEN Answer(s1, m.err)
        ELSE IF ~mem /\ "thread" \notin flags THEN Answer(s1, "ENOMEM")
        ELSE CloneTables(s1, born, t, c, flags)
CloneUser(s, u, child, t, c, flags, mem) ==
    LET s1 == IF "user" \in flags THEN [s EXCEPT !.users = u.users] ELSE s
    IN  IF "user" \in flags /\ u.err # "ok" THEN Answer(s, u.err)
        ELSE CloneMounts(s1, CopyMounts(s1, t, s.procs[t].ns.mnt, child.ns.mnt, child.ns.user),
                         IF "user" \in flags THEN u.p ELSE child, t, c, flags, mem)
CloneChild(s, ns, node, t, c, flags, mem) ==
    LET p == s.procs[t]
        child == [p EXCEPT !.ns = ns, !.killed = FALSE, !.frozen = Frozen(s.cg, node),
                           !.thread = "thread" \in flags,
                           !.tgid = IF "thread" \in flags THEN @ ELSE c,
                           !.parent = IF "thread" \in flags THEN @ ELSE t]
    IN  CloneUser(s, EnterUserNs(s.users, child, ns.user, p.ns.user), child, t, c, flags, mem)
CloneCharged(s, fork, ns, node, t, flags, mem) ==
    LET c == s.nextPid
        own(a) == IF ns.cgroup = s.procs[t].ns.cgroup THEN a
                  ELSE [a EXCEPT !.roots = Set(@, ns.cgroup, NodeOf(a, c))]
        booked == [s EXCEPT !.nextPid = @ + 1, !.pids = AddTask(@, c, ns.pid),
                            !.cg = own(AttachNew(fork.c, c, node))]
        born(x) == IF x.out = "ok" THEN x ELSE [x EXCEPT !.unborn = @ \cup {c}]
    IN  IF fork.err # "ok" THEN [Answer(s, fork.err) EXCEPT !.cg = fork.c]
        ELSE born(CloneChild(booked, ns, node, t, c, flags, mem))
CloneInto(s, ns, t, flags, into, mem) ==
    LET node == IF into = None THEN NodeOf(s.cg, t) ELSE into
    IN  IF ~AcceptsTasks(s.pids, ns.pid) THEN Answer(s, "ENOMEM")
        ELSE CloneCharged(s, CanFork(s.cg, node, into # None), ns, node, t, flags, mem)
CloneInNew(n, t, flags, into, mem) ==
    LET at == n.k.procs[t].ns.pidc
    IN  IF n.err # "ok" THEN Answer(n.k, n.err)
        ELSE IF "pidc" \notin flags THEN CloneInto(n.k, n.ns, t, flags, into, mem)
        ELSE IF TooDeep(n.k.pids, at) THEN Answer(n.k, "ENOSPC")
        ELSE CloneInto([n.k EXCEPT !.pids = CreatePidNs(@, n.ns.pid, at)], n.ns, t, flags, into, mem)
CloneFrom(s, t, flags, into, mem) ==
    LET ns == s.procs[t].ns
    IN  IfOk(CloneError(s, t, flags), s,
             CloneInNew(EnterNewNamespaces(s, t, [ns EXCEPT !.pid = ns.pidc, !.time = ns.timec], flags, TRUE),
                        t, flags, into, mem))
SysClone(s, t, flags, into, mem) == CloneFrom(ReapUnwaited(s), t, flags, into, mem)
\* close_pid_namespace_if_init, of a task that is exiting.
CloseIfInit(s, t) ==
    LET ns == s.procs[t].ns.pid
        tg == s.procs[t].tgid
    IN  IF \/ ns = 0 \/ InitOf(s.pids, ns) # tg
           \/ \E u \in Living(s) \ {t} : s.procs[u].tgid = tg
        THEN s
        ELSE [Kill(s, MembersOf(s.pids, ns) \ {t}) EXCEPT !.pids = ClosePidNs(@, ns)]
\* exit_group_with and exit_task: the threads go first; the last to use a
\* table closes what is in it; children go to their namespace's init.
SysExitGroup(s, t) ==
    LET group == Threads(s, t)
        p == s.procs[t]
        s1 == [s EXCEPT !.procs = [u \in DOMAIN @ |-> IF u \in group THEN [@[u] EXCEPT !.run = "zombie"]
                                                      ELSE @[u]]]
        dropped == {f \in DOMAIN s.files : ~\E u \in Living(s1) : s.procs[u].files = f}
        s2 == CloseIfInit([s1 EXCEPT !.files = [f \in DOMAIN @ |-> IF f \in dropped THEN << >> ELSE @[f]]], t)
        init == InitOf(s2.pids, p.ns.pid)
        to == IF init \in {None, p.tgid} THEN 1 ELSE init
    IN  [Answer(s2, "ok") EXCEPT
            !.procs = [u \in DOMAIN @ |-> IF @[u].parent \in group THEN [@[u] EXCEPT !.parent = to]
                                          ELSE @[u]]]
ZombieChildren(s, t) == {u \in DOMAIN s.procs : s.procs[u].run = "zombie" /\ s.procs[u].parent = t
                                                /\ ~s.procs[u].thread}
SysReap(s, t) ==
    IF ZombieChildren(s, t) = {} THEN Answer(s, "ECHILD")
    ELSE Answer(FreeTask(s, Min(ZombieChildren(s, t))), "ok")

\* ------------------------------------------------------------------- ids
\* write_id_map, by t for the namespace of `who`: everyone there gets the
\* creator's id.
WriteIdMap(s, t, who, kind, ext) ==
    LET ns == s.procs[who].ns.user
        e == s.users.table[ns]
        priv == s.procs[t].ns.user = e.parent /\ Privileged(s, t)
        r == WriteMap(s.users, ns, kind, ext, priv)
        own == ToInside(MapOf(r.u, ns, kind), IF kind = "uid" THEN e.uid ELSE e.gid)
        seen == IF own = None THEN OverflowId ELSE own
    IN  IF ns \notin DOMAIN s.users.table \/ (~priv /\ s.procs[t].ns.user # ns) THEN Answer(s, "EPERM")
        ELSE IF r.err # "ok" THEN Answer(s, r.err)
        ELSE [Answer(s, "ok") EXCEPT !.users = r.u,
                !.procs = [u \in DOMAIN @ |-> IF @[u].ns.user = ns /\ @[u].run = "run"
                    THEN [@[u] EXCEPT !.ids[kind] = [f \in DOMAIN @ |-> seen]] ELSE @[u]]]
WriteSetgroupsFile(s, t, who, text) ==
    LET r == WriteSetgroups(s.users, s.procs[who].ns.user, text)
    IN  [Answer(s, r.err) EXCEPT !.users = r.u]
Unchanged == IdMax
\* dispatch_in_user_ns: an id asked for must be mapped.
IdsAllowed(s, t, kind, ids) ==
    LET ns == s.procs[t].ns.user
    IN  ns = 0 \/ \A i \in DOMAIN ids : ids[i] = Unchanged \/ IsMapped(s.users, ns, kind, ids[i])
SysSetid(s, t, kind, v) ==
    LET c == s.procs[t].ids[kind]
    IN  IF ~IdsAllowed(s, t, kind, <<v>>) THEN Answer(s, "EINVAL")
        ELSE IF Privileged(s, t)
        THEN [Answer(s, "ok") EXCEPT !.procs[t].ids[kind] = [f \in DOMAIN c |-> v]]
        ELSE IF v \in {c.r, c.s} THEN [Answer(s, "ok") EXCEPT !.procs[t].ids[kind] = [c EXCEPT !.e = v, !.f = v]]
        ELSE Answer(s, "EPERM")
Or(v, old) == IF v = Unchanged THEN old ELSE v
Root(s, t) == s.procs[t].ids["uid"].e = 0
SysSetres(s, t, kind, r, e, sv) ==
    LET c == s.procs[t].ids[kind]
    IN  IF ~IdsAllowed(s, t, kind, <<r, e, sv>>) THEN Answer(s, "EINVAL")
        ELSE IF ~Root(s, t) /\ \E v \in {r, e, sv} \ {Unchanged} : v \notin {c.r, c.e, c.s}
        THEN Answer(s, "EPERM")
        ELSE [Answer(s, "ok") EXCEPT !.procs[t].ids[kind] =
                [r |-> Or(r, c.r), e |-> Or(e, c.e), s |-> Or(sv, c.s), f |-> Or(e, c.f)]]
SysSetre(s, t, kind, r, e) ==
    LET c == s.procs[t].ids[kind]
        ne == Or(e, c.e)
    IN  IF ~IdsAllowed(s, t, kind, <<r, e>>) THEN Answer(s, "EINVAL")
        ELSE IF ~Root(s, t) /\ (r \notin {Unchanged, c.r, c.e} \/ e \notin {Unchanged, c.r, c.e, c.s})
        THEN Answer(s, "EPERM")
        ELSE [Answer(s, "ok") EXCEPT !.procs[t].ids[kind] =
                [r |-> Or(r, c.r), e |-> ne, f |-> Or(e, c.f),
                 s |-> IF r # Unchanged \/ e \notin {Unchanged, c.r} THEN ne ELSE c.s]]
SysSetfs(s, t, kind, v) ==
    LET c == s.procs[t].ids[kind]
    IN  IF ~IdsAllowed(s, t, kind, <<v>>) THEN Answer(s, "EINVAL")
        ELSE IF v # Unchanged /\ (Root(s, t) \/ v \in {c.r, c.e, c.s, c.f})
        THEN [Answer(s, "ok") EXCEPT !.procs[t].ids[kind].f = v] ELSE Answer(s, "ok")

\* --------------------------------------------------------------- cgroups
CgAnswer(s, r) == [Answer(s, r.err) EXCEPT !.cg = r.c]
\* cgroup_move: a write of a pid (as t numbers it) to cgroup.procs.
CgroupMove(s, t, node, local, thread) ==
    LET g == IF local = 0 THEN t ELSE ToGlobalPid(s.pids, local, s.procs[t].ns.pid)
        c == SyncExits(s.cg, Living(s))
        from == NodeOf(c, g)
        root == NsRoot(c, s.procs[t].ns.cgroup)
        ok == CheckAttach(c, node)
        tasks == {u \in DOMAIN s.procs : s.procs[u].tgid = s.procs[g].tgid}
        moved == FoldSet(LAMBDA u, d : Migrate(d, u, u \in Living(s), node), c, tasks)
    IN  IF g \notin Living(s) THEN Answer(s, "ESRCH")
        ELSE IF ~CgWithin(c, node, root) \/ ~CgWithin(c, from, root)
        THEN [Answer(s, "ENOENT") EXCEPT !.cg = c]
        ELSE IF thread THEN [Answer(s, IF from = node THEN "ok" ELSE "EOPNOTSUPP") EXCEPT !.cg = c]
        ELSE IF ok # "ok" THEN [Answer(s, ok) EXCEPT !.cg = c]
        ELSE IF ~Privileged(s, t)
                /\ c.nodes[CommonAncestor(c, from, node)].uid # s.procs[t].ids["uid"].e
        THEN [Answer(s, "EACCES") EXCEPT !.cg = c]
        ELSE [Answer(s, "ok") EXCEPT !.cg = moved,
                !.procs = [u \in DOMAIN @ |-> IF u \in tasks
                                THEN [@[u] EXCEPT !.frozen = Frozen(moved, node)] ELSE @[u]]]
CgroupKill(s, t, node) ==
    Answer(Kill(s, {u \in DOMAIN s.procs : NodeOf(s.cg, u) \in Subtree(s.cg, node)}), "ok")
CgroupFreeze(s, t, node, on) ==
    LET c == [s.cg EXCEPT !.nodes[node].freeze = on]
    IN  IF node \notin DOMAIN s.cg.nodes \/ s.cg.nodes[node].freeze = on THEN Answer(s, "ok")
        ELSE [Answer(s, "ok") EXCEPT !.cg = c,
                !.procs = [u \in DOMAIN @ |-> IF NodeOf(c, u) \in Subtree(c, node)
                    THEN [@[u] EXCEPT !.frozen = Frozen(c, NodeOf(c, u))] ELSE @[u]]]
\* cgroup_refresh, when a task opens a file of a cgroup2 mount.
CgroupRefresh(s, t) == [Answer(s, "ok") EXCEPT !.cg = SyncExits(@, Living(s))]

\* ------------------------------------------------------------ the machine
Perform(s, t, c) ==
    CASE c.op = "open" -> SysOpenAt(s, t, c.fd, c.path)
      [] c.op = "close" -> SysCloseAt(s, t, c.fd)
      [] c.op = "chdir" -> SysChdirAt(s, t, c.path)
      [] c.op = "chroot" -> SysChroot(s, t, c.path)
      [] c.op = "mount" -> SysMountFs(s, t, c.path, c.fstype)
      [] c.op = "remount" -> SysRemount(s, t, c.path, c.ro)
      [] c.op = "bind" -> SysBindOrMove(s, t, c.src, c.path, TRUE, c.rec)
      [] c.op = "move" -> SysBindOrMove(s, t, c.src, c.path, FALSE, FALSE)
      [] c.op = "propagate" -> SysPropagation(s, t, c.path, c.kind, c.rec)
      [] c.op = "pivot" -> SysPivotRoot(s, t, c.path, c.old)
      [] c.op = "umount" -> SysUmount2(s, t, c.path, c.detach)
      [] c.op = "unshare" -> SysUnshare(s, t, c.flags)
      [] c.op = "setns" -> SysSetns(s, t, c.kind, s.procs[c.who].ns[c.kind])
      [] c.op = "sethostname" -> SysSethostname(s, t, c.name)
      [] c.op = "clone" -> SysClone(s, t, c.flags, c.into, c.mem)
      [] c.op = "exit" -> SysExitGroup(s, t)
      [] c.op = "wait" -> SysReap(s, t)
      [] c.op = "idmap" -> WriteIdMap(s, t, c.who, c.kind, c.ext)
      [] c.op = "setgroups" -> WriteSetgroupsFile(s, t, c.who, c.text)
      [] c.op = "setid" -> SysSetid(s, t, c.kind, c.v)
      [] c.op = "setres" -> SysSetres(s, t, c.kind, c.r, c.e, c.s)
      [] c.op = "setre" -> SysSetre(s, t, c.kind, c.r, c.e)
      [] c.op = "setfs" -> SysSetfs(s, t, c.kind, c.v)
      [] c.op = "cgmkdir" -> CgAnswer(s, CgMkdir(s.cg, c.node, c.name))
      [] c.op = "cgrmdir" -> CgAnswer(s, CgRmdir(s.cg, c.node))
      [] c.op = "cglimit" -> CgAnswer(s, CgLimit(s.cg, c.node, c.file, c.v))
      [] c.op = "cgsubtree" -> CgAnswer(s, SubtreeControl(s.cg, c.node, c.on))
      [] c.op = "cgmove" -> CgroupMove(s, t, c.node, c.pid, c.thread)
      [] c.op = "cgkill" -> CgroupKill(s, t, c.node)
      [] c.op = "cgfreeze" -> CgroupFreeze(s, t, c.node, c.on)
      [] c.op = "cgread" -> CgroupRefresh(s, t)
\* The calls a path lookup would not reach: another task's /proc files, and
\* the files of a cgroup that is not there.
Reachable(s, c) ==
    CASE c.op \in {"setns", "idmap", "setgroups"} -> c.who \in Living(s)
      [] c.op \in {"cgmkdir", "cgrmdir", "cglimit", "cgsubtree", "cgmove", "cgkill", "cgfreeze"} ->
            c.node \in DOMAIN s.cg.nodes
      [] OTHER -> TRUE

\* History: what task t's call c left loose in s2, the state it made of s.
\* Mounting, moving and a plain umount rewrite no path; what a call changes in
\* another namespace is rewritten there by no one; pivot_root rewrites a table
\* (but the caller's own) once per task that has it, the unreaped included;
\* and a table used from two mount namespaces has one path for two meanings.
ChangedPoints(a, b) == {m.point : m \in (ToSet(a) \ ToSet(b)) \cup (ToSet(b) \ ToSet(a))}
Loosened(s, s2, t, c) ==
    LET ns(x, u) == x.procs[u].ns.mnt
        users(x, f) == {u \in DOMAIN x.procs : x.procs[u].files = f}
        plain == c.op \in {"mount", "bind", "move"} \/ (c.op = "umount" /\ ~c.detach)
        points(n) == IF n = ns(s, t) /\ ~plain THEN {}
                     ELSE ChangedPoints(GetOr(s.mt.lists, n, << >>), GetOr(s2.mt.lists, n, << >>))
        under(f, p) == \E u \in users(s, f) : \E q \in points(ns(s, u)) : IsPrefix(q, p)
        twice(f) == c.op = "pivot" /\ t \notin users(s, f)
                    /\ Cardinality({u \in users(s, f) : ns(s, u) = ns(s, t)}) > 1
        split(f) == Cardinality({ns(s2, u) : u \in users(s2, f)}) > 1
        loose(f, d) == \/ split(f) \/ twice(f)
                       \/ /\ f \in DOMAIN s.files /\ d \in DOMAIN s.files[f]
                          /\ under(f, s.files[f][d].path)
    IN  [s2 EXCEPT !.files = [f \in DOMAIN @ |-> [d \in DOMAIN @[f] |->
            [@[f][d] EXCEPT !.loose = @ \/ loose(f, d)]]]]
\* A call by a task that may run and is not about to die.
CtrCall(t) ==
    /\ t \in Living(k) /\ ~Held(k, t) /\ ~k.procs[t].killed
    /\ k.left[t] > 0
    /\ \E c \in Cases[kase].calls[t] :
        /\ Reachable(k, c)
        /\ k' = [Loosened(k, Perform(k, t, c), t, c) EXCEPT !.left[t] = @ - 1, !.out = "ok"]
    /\ UNCHANGED kase
\* A task with SIGKILL pending runs only to die.
CtrDie(t) ==
    /\ t \in Living(k) /\ k.procs[t].killed
    /\ k' = SysExitGroup(k, t)
    /\ UNCHANGED kase

CtrInit == \E c \in DOMAIN Cases : kase = c /\ k = Cases[c].start
CtrNext == \E t \in 1..MaxPid : CtrCall(t) \/ CtrDie(t)
CtrSpec == CtrInit /\ [][CtrNext]_ctrVars


\* Mounts of one peer group have the same shared mounts on them, in every
\* namespace: a mount or umount on one is repeated on the others (attach,
\* propagate_unmount), but at or below a place that a move left or took, and on
\* the moved mount (move_mount tells no peer), and a place whose mount was
\* detached while a peer's copy of it had mounts on it (propagate_unmount
\* passes a busy copy by).
MountedOn(ns, i) ==
    LET list == k.mt.lists[ns]
        under(x) == {y \in DOMAIN list : \/ Below(list[x].point, list[y].point)
                                         \/ list[x].point = list[y].point /\ y < x}
        detached(x) == IsHidden(list[x].point) /\ Len(list[x].point) = 1
    IN  {[at |-> FsPath(list[i], list[x].point), fs |-> list[x].fs, shared |-> list[x].peer # 0] :
            x \in {y \in DOMAIN list : ~detached(y) /\ Longest(list, under(y)) = i}}
Apart(fs, at) == \E x \in k.mt.apart : x.fs = fs /\ IsPrefix(x.path, at)

\* pids.current is exact: every cgroup below the root counts the tasks in it
\* and below that have not been reaped, and as live those the tree has not
\* seen exit (attach_new, exit, release, migrate, rmdir).  A child that a clone
\* booked before it failed counts too, and for ever: do_clone takes nothing
\* back.
CgroupsExact ==
    \A n \in DOMAIN k.cg.nodes \ {0} :
        LET in == {t \in DOMAIN k.procs \cup k.unborn : NodeOf(k.cg, t) \in Subtree(k.cg, n)}
        IN  /\ k.cg.nodes[n].tasks = Cardinality(in)
            /\ k.cg.nodes[n].live = Cardinality({t \in in : k.cg.members[t].live})
            /\ k.cg.nodes[n].live >= Cardinality(in \cap Living(k))

\* A living task is held back exactly when its cgroup, or one above, is frozen
\* (cgroup_freeze, cgroup_move, attach_new).
FrozenAgrees == \A t \in Living(k) : k.procs[t].frozen = Frozen(k.cg, NodeOf(k.cg, t))

\* When a PID namespace's init has gone, what lives in it or below is about to
\* die, or is in a namespace whose own init is (close_pid_namespace_if_init).
DeadNamespaceDoomed ==
    \A t \in Living(k) : \A n \in DOMAIN k.pids :
        k.pids[n].dead /\ PidWithin(k.pids, k.procs[t].ns.pid, n)
        => \/ k.procs[t].killed
           \/ LET i == InitOf(k.pids, k.procs[t].ns.pid) IN i \in Living(k) /\ k.procs[i].killed

\* The ids a task in a user namespace holds are mapped there, or the overflow
\* id (dispatch_in_user_ns, write_id_map, join_user_namespace).
IdsMapped ==
    \A t \in Living(k) : \A x \in {"uid", "gid"} : \A f \in {"r", "e", "s", "f"} :
        LET v == k.procs[t].ids[x][f]
        IN  v = OverflowId \/ IsMapped(k.users, k.procs[t].ns.user, x, v)

\* An id seen from outside and back is the same id, through every level of
\* maps (to_global, seen_from_global, write_map).
IdsRoundTrip ==
    \A ns \in DOMAIN k.users.table : \A x \in {"uid", "gid"} : \A id \in 0..(IdMax - 1) :
        LET g == ToGlobalId(k.users, ns, x, id)
        IN  g # None => SeenFromGlobal(k.users, ns, x, g) = id

\* Namespaces and cgroups agree with the tasks in them: counts, freezing, the
\* death of an init, and ids.
NamespacesExact ==
    CgroupsExact /\ FrozenAgrees /\ DeadNamespaceDoomed /\ IdsMapped /\ IdsRoundTrip
=============================================================================
