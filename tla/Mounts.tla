------------------------------- MODULE Mounts -------------------------------
(***************************************************************************)
(* The mount table (src/fs/mount.rs) and the calls that change it          *)
(* (src/kernel/fs_ext.rs).  A path is a sequence of names; 0 is "..".      *)
(*   mt    [lists: mount namespace -> sequence of mounts, cur, root,       *)
(*          pivots, detached, groups, apart]; `cur` is the list swapped in *)
(*   disks filesystem -> its nodes: path -> [kind, abs, to]                *)
(* A stored path is a name, not a reference, so a call that moves mounts   *)
(* rewrites the paths the kernel holds: k.files (table -> fd -> [kind,     *)
(* path, at, loose]), k.cwds and each task's exe and root.  Three fields   *)
(* are history, which the code does not keep: `at`, what a path named when *)
(* it was opened; `loose`, that a call changed what the path names and     *)
(* left it as it was (Loosened of Containers); and mt.apart, the places of *)
(* a filesystem where a move, or an unmount its peers were too busy for,   *)
(* left a peer group's mounts with different mounts on them.               *)
(***************************************************************************)
EXTENDS Namespaces

CONSTANTS SymlinkMax, MaxMountNs

Hidden(n) == <<500 + n>>
IsHidden(p) == p # << >> /\ p[1] >= 500
Mount(point, fs, guest) ==
    [point |-> point, fs |-> fs, subdir |-> << >>, guest |-> guest, ro |-> FALSE, locked |-> FALSE,
     side |-> 0, peer |-> 0, master |-> 0, unbindable |-> FALSE]
Rel(p, base) == SubSeq(p, Len(base) + 1, Len(p))
Below(p, base) == IsPrefix(base, p) /\ p # base
\* rebase a path at or below `from`.
Rebase(p, from, to) == IF IsPrefix(from, p) THEN to \o Rel(p, from) ELSE p
Normalize(p) ==
    FoldLeft(LAMBDA acc, c : IF c # 0 THEN Append(acc, c) ELSE IF acc = << >> THEN acc ELSE Front(acc),
             << >>, p)
FsPath(m, p) == m.subdir \o Rel(p, m.point)
\* best_mount, and carry_from's owner: the longest point, the latest of equals.
Longest(list, hits) ==
    IF hits = {} THEN 0
    ELSE CHOOSE i \in hits : \A j \in hits : Len(list[j].point) < Len(list[i].point)
                                          \/ (list[j].point = list[i].point /\ j <= i)
Owner(list, p) == Longest(list, {i \in DOMAIN list : IsPrefix(list[i].point, p)})
LastAt(list, p) ==
    LET hits == {i \in DOMAIN list : list[i].point = p} IN IF hits = {} THEN 0 ELSE Max(hits)
List(mt) == mt.lists[mt.cur]
BestMount(mt, p) == Owner(List(mt), p)
\* MountTable::enter; a namespace with no list is an empty one.
Enter(mt, ns, root) ==
    [mt EXCEPT !.lists = IF ns \in DOMAIN @ THEN @ ELSE Set(@, ns, << >>), !.cur = ns, !.root = root]

NoNode == [kind |-> "none", abs |-> FALSE, to |-> << >>]
NodeOn(disks, m, p) == GetOr(disks[m.fs], FsPath(m, p), NoNode)
StatRaw(mt, disks, p) ==
    LET on(i) == IF i = 0 THEN NoNode ELSE NodeOn(disks, List(mt)[i], p) IN on(BestMount(mt, p))
\* canonical: follow the links among p's directories, not the last name.
RECURSIVE Walk(_, _, _, _, _, _)
Walk(mt, disks, p, done, rest, hops) ==
    IF rest = << >> THEN done
    ELSE IF rest[1] = 0
    THEN Walk(mt, disks, p, IF Len(done) > Len(mt.root) THEN Front(done) ELSE done, Tail(rest), hops)
    ELSE LET cand == Append(done, rest[1])
             through(node) ==
                IF node.kind = "none" THEN Normalize(done \o rest)
                ELSE IF node.kind # "link" THEN Walk(mt, disks, p, cand, Tail(rest), hops)
                ELSE IF hops = SymlinkMax THEN p
                ELSE Walk(mt, disks, p, IF node.abs THEN mt.root ELSE done, node.to \o Tail(rest), hops + 1)
         IN  IF Len(rest) = 1 THEN cand ELSE through(StatRaw(mt, disks, cand))
CanonicalFrom(mt, disks, p) ==
    IF Len(p) < 2 \/ StatRaw(mt, disks, Front(p)).kind = "dir" THEN p
    ELSE Walk(mt, disks, p, << >>, p, 0)
Canonical(mt, disks, path) == CanonicalFrom(mt, disks, Normalize(path))
StatAt(mt, disks, p) == StatRaw(mt, disks, Canonical(mt, disks, p))
\* What a path names: identity(), as filesystem and path in it.
IdentityOn(list, i, p) ==
    IF i = 0 THEN [fs |-> None, path |-> p] ELSE [fs |-> list[i].fs, path |-> FsPath(list[i], p)]
IdentityIn(mt, p) == IdentityOn(List(mt), BestMount(mt, p), p)
IdentityOf(mt, disks, path) == IdentityIn(mt, Canonical(mt, disks, path))
\* follow_symlinks: the links of the last name.  `loop` stands for ELOOP.
RECURSIVE FollowLinks(_, _, _, _)
FollowLinks(mt, disks, p, left) ==
    LET through(node) ==
            IF node.kind # "link" THEN [loop |-> FALSE, path |-> p]
            ELSE IF left = 0 THEN [loop |-> TRUE, path |-> p]
            ELSE FollowLinks(mt, disks,
                             Normalize(IF node.abs THEN mt.root \o node.to ELSE Front(p) \o node.to), left - 1)
    IN  through(StatAt(mt, disks, p))

\* ---------------------------------------------- the table's operations
\* copy_namespace; what goes to a less privileged owner is locked.
CopyNamespace(mt, from, new, lock) ==
    LET copy(m) == IF ~lock THEN m
                   ELSE [m EXCEPT !.locked = @ \/ m.point # << >>,
                                  !.master = IF m.peer # 0 THEN m.peer ELSE @, !.peer = 0]
    IN  [mt EXCEPT !.lists = Set(@, new, LET l == GetOr(@, from, << >>)
                                         IN  [i \in DOMAIN l |-> copy(l[i])])]
CollectNamespaces(mt, used) ==
    [mt EXCEPT !.lists = Without(@, DOMAIN @ \ (used \cup {0, mt.cur}))]
\* all_mounts: the list swapped in, then the parked ones by namespace.
AllMounts(mt) ==
    FlattenSeq([i \in DOMAIN SetToSortSeq(DOMAIN mt.lists, <) |->
        LET order == <<mt.cur>> \o SelectSeq(SetToSortSeq(DOMAIN mt.lists, <), LAMBDA n : n # mt.cur)
        IN  [j \in DOMAIN mt.lists[order[i]] |-> [ns |-> order[i], m |-> mt.lists[order[i]][j]]]])
\* attach's loop: one peer group at a time, last queued first.
RECURSIVE Spread(_, _, _, _, _, _)
Spread(mt, tree, parent, queue, seen, copies) ==
    IF queue = << >> THEN [groups |-> mt.groups, copies |-> copies]
    ELSE LET e == Last(queue)
             at == FsPath(parent, tree[1].point)
             none == [i \in DOMAIN tree |-> 0]
             place(x, peers, masters) ==
                IF ~IsPrefix(x.m.subdir, at) THEN << >>
                ELSE [i \in DOMAIN tree |-> [ns |-> x.ns, m |->
                        [tree[i] EXCEPT !.point = x.m.point \o Rel(at, x.m.subdir) \o Rel(@, tree[1].point),
                                        !.guest = TRUE, !.locked = FALSE, !.side = x.m.side,
                                        !.peer = peers[i], !.master = masters[i]]]]
             source(x) == x.ns = mt.cur /\ x.m.point = parent.point
             peer(x) == x.m.peer = e.group /\ ~source(x)
             same == SelectSeq(AllMounts(mt), LAMBDA x : x.m.fs = parent.fs)
             new == FlattenSeq([j \in DOMAIN same |->
                        IF peer(same[j]) THEN place(same[j], e.peers, e.masters)
                        ELSE IF same[j].m.master = e.group /\ same[j].m.peer = 0
                        THEN place(same[j], none, e.peers) ELSE << >>])
             slaves == SelectSeq(same, LAMBDA x :
                        ~peer(x) /\ x.m.master = e.group /\ x.m.peer # 0)
             more == [j \in DOMAIN slaves |->
                        [group |-> slaves[j].m.peer, masters |-> e.peers,
                         peers |-> [i \in DOMAIN tree |-> mt.groups + (j - 1) * Len(tree) + i]]]
         IN  IF e.group \in seen THEN Spread(mt, tree, parent, Front(queue), seen, copies)
             ELSE Spread([mt EXCEPT !.groups = @ + Len(slaves) * Len(tree)], tree, parent,
                         Front(queue) \o more, seen \cup {e.group}, copies \o new)
\* attach: add a tree of mounts, and under a shared mount a copy for each
\* peer and slave.
Attach(mt, new) ==
    LET i == BestMount(mt, new[1].point)
        parent == List(mt)[i]
        fresh(j) == Cardinality({h \in 1..j : new[h].peer = 0})
        tree == [j \in DOMAIN new |-> [new[j] EXCEPT !.peer = IF @ = 0 THEN mt.groups + fresh(j) ELSE @]]
        made(s) == FoldLeft(LAMBDA t, c : [t EXCEPT !.lists[c.ns] = Append(@, c.m)],
                            [mt EXCEPT !.lists[mt.cur] = @ \o tree, !.groups = s.groups], s.copies)
    IN  IF i = 0 \/ parent.peer = 0 THEN [mt EXCEPT !.lists[mt.cur] = @ \o new]
        ELSE made(Spread([mt EXCEPT !.groups = @ + fresh(Len(new))], tree, parent,
                         <<[group |-> parent.peer, peers |-> [j \in DOMAIN tree |-> tree[j].peer],
                            masters |-> [j \in DOMAIN tree |-> 0]]>>, {}, << >>))
BindFrom(mt, source, i, target, rec) ==
    LET top == List(mt)[i]
        clone(m, point, sub) == [m EXCEPT !.point = point, !.subdir = sub, !.guest = TRUE, !.locked = FALSE]
        under == SelectSeq(List(mt), LAMBDA m : rec /\ Below(m.point, source) /\ ~m.unbindable)
    IN  IF i = 0 THEN [err |-> "ENOENT", mt |-> mt]
        ELSE IF top.unbindable THEN [err |-> "EINVAL", mt |-> mt]
        ELSE [err |-> "ok", mt |-> Attach(mt,
                <<clone(top, target, FsPath(top, source))>> \o
                [j \in DOMAIN under |->
                    clone(under[j], target \o Rel(under[j].point, source), under[j].subdir)])]
TableBind(mt, disks, src, target, rec) ==
    LET from(source) == BindFrom(mt, source, BestMount(mt, source), target, rec)
    IN  from(Canonical(mt, disks, src))
\* Where in a filesystem a mount at p is mounted: parent is the longest point
\* above it.
ParentOf(list, p) == Longest(list, {i \in DOMAIN list : Below(p, list[i].point)})
PlaceOf(list, p) == IdentityOn(list, ParentOf(list, p), p)
MoveMount(mt, from, to) ==
    IF ~\E i \in DOMAIN List(mt) : List(mt)[i].point = from /\ ~List(mt)[i].locked
    THEN [err |-> "EINVAL", mt |-> mt]
    ELSE [err |-> "ok", mt |-> [mt EXCEPT
            !.lists[mt.cur] = [i \in DOMAIN @ |-> [@[i] EXCEPT !.point = Rebase(@, from, to)]],
            !.apart = @ \cup UNION {{PlaceOf(List(mt), p), IdentityIn(mt, p)} : p \in {from, to}}]]
SetReadOnly(mt, p, ro) ==
    LET i == LastAt(List(mt), p)
        m == List(mt)[i]
    IN  IF i = 0 THEN [err |-> "EINVAL", mt |-> mt]
        ELSE IF m.locked /\ m.ro /\ ~ro THEN [err |-> "EPERM", mt |-> mt]
        ELSE [err |-> "ok", mt |-> [mt EXCEPT !.lists[mt.cur][i].ro = ro]]
SetPropagation(mt, p, kind, rec) ==
    LET top == LastAt(List(mt), p)
        hit(i) == i = top \/ (rec /\ Below(List(mt)[i].point, p))
        others(t, g) == Len(SelectSeq(AllMounts(t), LAMBDA x : x.m.peer = g)) > 1
        change(t, i) ==
            LET m == List(t)[i]
            IN  IF ~hit(i) THEN t
                ELSE CASE kind = "shared" ->
                            [t EXCEPT !.groups = IF m.peer = 0 THEN @ + 1 ELSE @,
                                      !.lists[t.cur][i].peer = IF @ = 0 THEN t.groups + 1 ELSE @,
                                      !.lists[t.cur][i].unbindable = FALSE]
                       [] kind \in {"private", "unbindable"} ->
                            [t EXCEPT !.lists[t.cur][i] =
                                [m EXCEPT !.peer = 0, !.master = 0, !.unbindable = kind = "unbindable"]]
                       [] kind = "slave" ->
                            [t EXCEPT !.lists[t.cur][i] =
                                [m EXCEPT !.master = IF m.peer # 0 /\ others(t, m.peer) THEN m.peer ELSE @,
                                          !.peer = 0, !.unbindable = FALSE]]
    IN  IF top = 0 THEN [err |-> "EINVAL", mt |-> mt]
        ELSE [err |-> "ok", mt |-> FoldLeft(change, mt, [i \in DOMAIN List(mt) |-> i])]
\* pivot_root: what is on top at new_root, or was mounted there since, is
\* kept; the rest goes to put_old, on top of it.
PivotTable(mt, newRoot, putOld) ==
    LET list == List(mt)
        top == LastAt(list, newRoot)
        old == Rel(putOld, newRoot)
        kept(i) == i >= top /\ IsPrefix(newRoot, list[i].point)
        ids(keep) == SelectSeq([i \in DOMAIN list |-> i], LAMBDA i : kept(i) = keep)
    IN  IF top = 0 \/ ~IsPrefix(newRoot, putOld) \/ newRoot = << >> THEN [err |-> "EINVAL", mt |-> mt]
        ELSE [err |-> "ok",
              mt |-> [mt EXCEPT !.pivots = @ + 1,
                !.lists[mt.cur] =
                    [j \in DOMAIN ids(TRUE) |->
                        [list[ids(TRUE)[j]] EXCEPT !.point = Rel(@, newRoot)]]
                    \o [j \in DOMAIN ids(FALSE) |->
                        [list[ids(FALSE)[j]] EXCEPT !.point = old \o @, !.side = mt.pivots + 1]]]]
PivotTranslate(newRoot, putOld, p) ==
    IF IsPrefix(newRoot, p) THEN Rel(p, newRoot) ELSE Rel(putOld, newRoot) \o p
\* receivers: every mount that hears of what happens below group g.
RECURSIVE Receivers(_, _, _, _)
Receivers(all, queue, seen, out) ==
    LET g == Last(queue)
        hit == SelectSeq(all, LAMBDA x : x.m.peer = g \/ x.m.master = g)
        down == SelectSeq(hit, LAMBDA x : x.m.master = g /\ x.m.peer # 0)
    IN  IF queue = << >> THEN out
        ELSE IF g \in seen THEN Receivers(all, Front(queue), seen, out)
        ELSE Receivers(all, Front(queue) \o [j \in DOMAIN down |-> down[j].m.peer], seen \cup {g}, out \o hit)
PropagateUnmount(mt, i) ==
    LET list == List(mt)
        gone == list[i]
        j == ParentOf(list, gone.point)
        parent == list[j]
        at == FsPath(parent, gone.point)
        drop(t, x) ==
            LET point == x.m.point \o Rel(at, x.m.subdir)
                l == t.lists[x.ns]
                k == {n \in DOMAIN l : l[n].point = point /\ l[n].fs = gone.fs}
            IN  IF \/ x.ns = mt.cur /\ x.m.point = parent.point
                   \/ x.m.fs # parent.fs \/ ~IsPrefix(x.m.subdir, at)
                THEN t
                ELSE IF \E n \in DOMAIN l : Below(l[n].point, point)
                THEN [t EXCEPT !.apart = @ \cup {PlaceOf(list, gone.point)}]
                ELSE IF k = {} THEN t ELSE [t EXCEPT !.lists[x.ns] = RemoveAt(@, Max(k))]
    IN  IF j = 0 \/ parent.peer = 0 THEN mt
        ELSE FoldLeft(drop, mt, Receivers(AllMounts(mt), <<parent.peer>>, {}, << >>))
\* unmount: [err, mt, moved]; the copies go before the call can still fail.
NotUnmounted(e, mt) == [err |-> e, mt |-> mt, moved |-> FALSE]
UnmountFrom(t, p, detach) ==
    LET l == List(t)
        h == LastAt(l, p)
        child(x) == Below(x.point, p) /\ x.side = l[h].side
        rest == RemoveAt(l, h)
        to == Hidden(t.detached)
    IN  IF h = 0 THEN NotUnmounted("EINVAL", t)
        ELSE IF ~detach /\ \E x \in DOMAIN l : child(l[x]) THEN NotUnmounted("EBUSY", t)
        ELSE IF ~detach THEN [err |-> "ok", mt |-> [t EXCEPT !.lists[t.cur] = rest], moved |-> FALSE]
        ELSE [err |-> "ok", moved |-> TRUE, mt |-> [t EXCEPT !.detached = @ + 1, !.lists[t.cur] =
                Append([x \in DOMAIN rest |-> IF child(rest[x])
                            THEN [rest[x] EXCEPT !.point = Rebase(@, p, to)] ELSE rest[x]],
                       [l[h] EXCEPT !.point = to])]]
Unmount(mt, p, detach) ==
    LET i == LastAt(List(mt), p)
    IN  IF i = 0 \/ List(mt)[i].locked THEN NotUnmounted("EINVAL", mt)
        ELSE IF ~List(mt)[i].guest /\ mt.cur = 0 THEN NotUnmounted("EBUSY", mt)
        ELSE UnmountFrom(PropagateUnmount(mt, i), p, detach)
\* carry_from: [mt, to]; each path's mount is shared under a hidden name.
CarryFrom(mt, from, paths) ==
    LET list == mt.lists[from]
        order == SetToSortSeq({Owner(list, paths[i]) : i \in DOMAIN paths} \ {0},
                    LAMBDA a, b : Min({i \in DOMAIN paths : Owner(list, paths[i]) = a})
                                  < Min({i \in DOMAIN paths : Owner(list, paths[i]) = b}))
        hid(i) == Hidden(mt.detached + (CHOOSE n \in DOMAIN order : order[n] = i) - 1)
        to(p) == LET i == Owner(list, p) IN IF i = 0 THEN p ELSE hid(i) \o Rel(p, list[i].point)
    IN  IF from = mt.cur \/ from \notin DOMAIN mt.lists
        THEN [mt |-> mt, to |-> [p \in ToSet(paths) |-> p]]
        ELSE [mt |-> [mt EXCEPT !.detached = @ + Len(order), !.lists[mt.cur] =
                        @ \o [n \in DOMAIN order |-> [list[order[n]] EXCEPT !.point = hid(order[n])]]],
              to |-> [p \in ToSet(paths) |-> to(p)]]
CollectDetached(mt, used) ==
    [mt EXCEPT !.lists[mt.cur] =
        SelectSeq(@, LAMBDA m : IsHidden(m.point) => \E p \in used : IsPrefix(<<m.point[1]>>, p))]

\* ------------------------------------------------------------ the calls
Answer(k, e) == [k EXCEPT !.out = e]
Privileged(k, t) == k.procs[t].ids["uid"].e = 0 \/ k.procs[t].nsCaps
\* may_administer: over namespace ns.
MayAdminister(k, t, ns) ==
    Privileged(k, t) /\ (k.procs[t].ns.user = 0
                         \/ UserWithin(k.users, OwnerOf(k.users, ns), k.procs[t].ns.user))
VfsFor(k, t) == Enter(k.mt, k.procs[t].ns.mnt, k.procs[t].root)
Cwd(k, t) == k.cwds[k.procs[t].fs]
\* resolve_path; a path that starts with -1 is relative to the directory.
ResolvePath(k, t, p) ==
    LET root == k.procs[t].root
        base == Cwd(k, t)
    IN  IF p = << >> \/ p[1] # -1 THEN root \o Normalize(p)
        ELSE IF root # << >> /\ IsPrefix(root, base)
        THEN root \o Normalize(Rel(base, root) \o Tail(p))
        ELSE Normalize(base \o Tail(p))
Reach(k, t, p) == FollowLinks(VfsFor(k, t), k.disks, ResolvePath(k, t, p), SymlinkMax)
KindAt(k, t, p) == StatAt(VfsFor(k, t), k.disks, p).kind
\* What each call does with the table's answer.
Apply(k, r) == IF r.err = "ok" THEN [Answer(k, "ok") EXCEPT !.mt = r.mt]
               ELSE [Answer(k, r.err) EXCEPT !.mt = r.mt]
\* sys_mount, up to the kind of mount asked for.
DirError(r, kind, bind) ==
    IF r.loop THEN "ELOOP" ELSE IF kind = "none" THEN "ENOENT"
    ELSE IF kind # "dir" /\ ~bind THEN "ENOTDIR" ELSE "ok"
ReachedError(k, t, r, bind) == DirError(r, KindAt(k, t, r.path), bind)
MountError(k, t, target, bind) ==
    IF ~MayAdminister(k, t, k.procs[t].ns.mnt) THEN "EPERM"
    ELSE ReachedError(k, t, Reach(k, t, target), bind)
\* The call goes on if it may.
IfOk(e, k, new) == IF e # "ok" THEN Answer(k, e) ELSE new
SysRemount(k, t, target, ro) ==
    IfOk(MountError(k, t, target, FALSE), k,
         Apply(k, SetReadOnly(VfsFor(k, t), Reach(k, t, target).path, ro)))
SysBindOrMove(k, t, source, target, bind, rec) ==
    LET from(s, to) ==
            IfOk(ReachedError(k, t, s, TRUE), k,
                 Apply(k, IF bind THEN TableBind(VfsFor(k, t), k.disks, s.path, to, rec)
                          ELSE MoveMount(VfsFor(k, t), s.path, to)))
    IN  IfOk(MountError(k, t, target, bind), k, from(Reach(k, t, source), Reach(k, t, target).path))
SysPropagation(k, t, target, kind, rec) ==
    IfOk(MountError(k, t, target, FALSE), k,
         Apply(k, SetPropagation(VfsFor(k, t), Reach(k, t, target).path, kind, rec)))
\* A new filesystem of a kind that really mounts; its root is a directory.
SysMountFs(k, t, target, fstype) ==
    LET fs == 1 + Max(DOMAIN k.disks)
        dir == [kind |-> "dir", abs |-> FALSE, to |-> << >>]
        new == IF fstype = "accepted" THEN Answer(k, "ok")
               ELSE IF fstype # "tmpfs" THEN Answer(k, "ENODEV")
               ELSE [Answer(k, "ok") EXCEPT
                        !.disks = Set(@, fs, [p \in {<< >>} |-> dir]),
                        !.mt = Attach(VfsFor(k, t), <<Mount(Reach(k, t, target).path, fs, TRUE)>>)]
    IN  IfOk(MountError(k, t, target, FALSE), k, new)
SysChroot(k, t, p) ==
    LET to(r) == IfOk(ReachedError(k, t, r, FALSE), k, [Answer(k, "ok") EXCEPT !.procs[t].root = r.path])
    IN  IF ~Privileged(k, t) THEN Answer(k, "EPERM") ELSE to(Reach(k, t, p))
Opened(k, t, path) ==
    [path |-> path, at |-> IdentityOf(VfsFor(k, t), k.disks, path), loose |-> FALSE]
SysOpenAt(k, t, fd, p) ==
    LET at(r) == IfOk(ReachedError(k, t, r, TRUE), k,
                      [Answer(k, "ok") EXCEPT !.files[k.procs[t].files] = Set(@, fd, Opened(k, t, r.path))])
    IN  at(Reach(k, t, p))
SysCloseAt(k, t, fd) ==
    IF fd \notin DOMAIN k.files[k.procs[t].files] THEN Answer(k, "EBADF")
    ELSE [Answer(k, "ok") EXCEPT !.files[k.procs[t].files] = Without(@, {fd})]
SysChdirAt(k, t, p) ==
    LET to(r) == IfOk(ReachedError(k, t, r, FALSE), k, [Answer(k, "ok") EXCEPT !.cwds[k.procs[t].fs] = r.path])
    IN  to(Reach(k, t, p))
\* rewrite_paths over a descriptor table.
RewriteTable(k, id, F(_)) ==
    [k EXCEPT !.files[id] = [fd \in DOMAIN @ |-> [@[fd] EXCEPT !.path = F(@)]]]
\* The other tasks of the caller's mount namespace, in slot order.
Sharers(k, t) ==
    SetToSortSeq({u \in DOMAIN k.procs \ {t} : k.procs[u].ns.mnt = k.procs[t].ns.mnt}, <)
\* Rewrite what the namespace's tasks hold: each table once per task that has
\* it; the caller's own is checked out, so it is rewritten once.
RewriteHeld(k, t, F(_), D(_)) ==
    LET own == [RewriteTable(k, k.procs[t].files, F) EXCEPT !.cwds[k.procs[t].fs] = D(@)]
        one(s, u) ==
            LET a == IF s.procs[u].files = s.procs[t].files THEN s ELSE RewriteTable(s, s.procs[u].files, F)
            IN  IF s.procs[u].fs = s.procs[t].fs THEN a
                ELSE [a EXCEPT !.cwds[s.procs[u].fs] = D(@)]
    IN  FoldLeft(one, own, Sharers(k, t))
\* Everything the namespace's tasks hold is renamed with the mounts.
Pivoted(k, t, n, o, r) ==
    LET move(p) == PivotTranslate(n, o, p)
        held == RewriteHeld(k, t, move, LAMBDA p : IF p = << >> THEN p ELSE move(p))
    IN  IF r.err # "ok" THEN Answer(k, r.err)
        ELSE [Answer(held, "ok") EXCEPT
                !.mt = r.mt,
                !.procs = [u \in DOMAIN @ |-> IF @[u].ns.mnt = k.procs[t].ns.mnt
                                              THEN [@[u] EXCEPT !.exe = move(@)] ELSE @[u]]]
SysPivotRoot(k, t, newRoot, putOld) ==
    LET ns == k.procs[t].ns.mnt
        from(n, o) ==
            IF n.loop \/ o.loop THEN Answer(k, "ELOOP")
            ELSE IfOk(ReachedError(k, t, n, FALSE), k,
                      IfOk(ReachedError(k, t, o, FALSE), k,
                           Pivoted(k, t, n.path, o.path, PivotTable(VfsFor(k, t), n.path, o.path))))
    IN  IF ~MayAdminister(k, t, ns) THEN Answer(k, "EPERM")
        ELSE IF k.procs[t].root # << >> \/ ns = 0 THEN Answer(k, "EINVAL")
        ELSE from(Reach(k, t, newRoot), Reach(k, t, putOld))
HeldPaths(k) ==
    UNION {{k.files[f][d].path : d \in DOMAIN k.files[f]} : f \in DOMAIN k.files}
    \cup {k.cwds[c] : c \in DOMAIN k.cwds}
CollectUnusedHiddenMounts(k) == [k EXCEPT !.mt = CollectDetached(@, HeldPaths(k))]
SysUmount2(k, t, target, detach) ==
    LET p == ResolvePath(k, t, target)
        move(q) == Rebase(q, p, Hidden(k.mt.detached))
        held == RewriteHeld(k, t, move, move)
        done(r) == IF ~r.moved THEN Apply(k, r)
                   ELSE CollectUnusedHiddenMounts([Answer(held, "ok") EXCEPT !.mt = r.mt])
    IN  IF ~MayAdminister(k, t, k.procs[t].ns.mnt) THEN Answer(k, "EPERM")
        ELSE done(Unmount(VfsFor(k, t), p, detach))
\* carry_open_files, after the task joined its mount namespace from `old`.
CarryOpenFiles(k, t, old) ==
    LET table == k.files[k.procs[t].files]
        paths == SetToSortSeq({table[d].path : d \in DOMAIN table},
                    LAMBDA a, b : Len(a) < Len(b)
                        \/ (Len(a) = Len(b) /\ \E i \in DOMAIN a : a[i] < b[i] /\ SubSeq(a, 1, i - 1) = SubSeq(b, 1, i - 1)))
        moved(c) == RewriteTable([k EXCEPT !.mt = c.mt], k.procs[t].files, LAMBDA p : c.to[p])
    IN  IF old = k.procs[t].ns.mnt THEN k
        ELSE CollectUnusedHiddenMounts(moved(CarryFrom(VfsFor(k, t), old, paths)))
=============================================================================
