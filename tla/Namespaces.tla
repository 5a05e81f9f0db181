----------------------------- MODULE Namespaces -----------------------------
(***************************************************************************)
(* User namespaces, PID namespaces and the cgroup hierarchy                *)
(* (src/kernel/{userns,pidns,cgroup}.rs, src/fs/cgroupfs.rs) as operators  *)
(* on their tables.                                                        *)
(*   users  [table: ns -> [parent, uids, gids, denied, uid, gid],          *)
(*           owners: ns -> user namespace]; a map is [set, ext]            *)
(*   pids   ns -> [parent, local: task -> number, gone, next, init, dead]  *)
(*   cg     [nodes, next, members: task -> [node, live], roots: ns -> node]*)
(* Namespace 0 of every kind, and cgroup 0, are the VM's own.              *)
(***************************************************************************)
EXTENDS Integers, Sequences, FiniteSets, SequencesExt, FiniteSetsExt, TLC

CONSTANTS IdMax,        \* u32::MAX
          OverflowId,   \* OVERFLOW_ID
          MaxDepth,     \* MAX_DEPTH of user and of PID namespaces
          MaxGone       \* MAX_GONE
None == -1
Set(f, x, v) == [y \in DOMAIN f \cup {x} |-> IF y = x THEN v ELSE f[y]]
Without(f, S) == [y \in DOMAIN f \ S |-> f[y]]
GetOr(f, x, d) == IF x \in DOMAIN f THEN f[x] ELSE d

\* chain: a namespace and its ancestors below the initial one.
RECURSIVE Chain(_, _)
Chain(table, ns) ==
    IF ns \in DOMAIN table THEN <<ns>> \o Chain(table, table[ns].parent) ELSE << >>
TooDeep(table, parent) == Len(Chain(table, parent)) + 1 >= MaxDepth

\* ---------------------------------------------------------------- userns
NoMap == [set |-> FALSE, ext |-> << >>]
\* IdMap::to_outside and to_inside: the first extent that covers the id.
ToOutside(map, id) ==
    LET hit == SelectSeq(map.ext, LAMBDA e : id >= e.inside /\ id - e.inside < e.count)
    IN  IF hit = << >> THEN None ELSE hit[1].outside + (id - hit[1].inside)
ToInside(map, id) ==
    LET hit == SelectSeq(map.ext, LAMBDA e : id >= e.outside /\ id - e.outside < e.count)
    IN  IF hit = << >> THEN None ELSE hit[1].inside + (id - hit[1].outside)
MapOf(u, ns, kind) == IF kind = "uid" THEN u.table[ns].uids ELSE u.table[ns].gids
ToGlobalId(u, ns, kind, id) ==
    FoldLeft(LAMBDA x, n : IF x = None THEN None ELSE ToOutside(MapOf(u, n, kind), x), id,
             Chain(u.table, ns))
SeenFromGlobal(u, ns, kind, id) ==
    LET seen == FoldRight(LAMBDA n, x : IF x = None THEN None ELSE ToInside(MapOf(u, n, kind), x),
                          Chain(u.table, ns), id)
    IN  IF seen = None THEN OverflowId ELSE seen
IsMapped(u, ns, kind, id) == ToGlobalId(u, ns, kind, id) # None
UserWithin(u, inner, outer) ==
    outer = 0 \/ inner = outer \/ Contains(Chain(u.table, inner), outer)
OwnerOf(u, ns) == GetOr(u.owners, ns, 0)
SetOwner(u, ns, user) == [u EXCEPT !.owners = Set(@, ns, user)]
CreatedBy(u, ns, parent, uid) ==
    ns \in DOMAIN u.table /\ u.table[ns].parent = parent /\ u.table[ns].uid = uid
\* UserNamespaces::create; setgroups stays denied below.
CreateUser(u, ns, parent, uid, gid) ==
    [u EXCEPT !.table = Set(@, ns,
        [parent |-> parent, uids |-> NoMap, gids |-> NoMap, uid |-> uid, gid |-> gid,
         denied |-> parent \in DOMAIN @ /\ @[parent].denied])]
\* write_setgroups: [err, u]
WriteSetgroups(u, ns, text) ==
    IF ns \notin DOMAIN u.table THEN [err |-> "EPERM", u |-> u]
    ELSE IF text = "deny" THEN [err |-> "ok", u |-> [u EXCEPT !.table[ns].denied = TRUE]]
    ELSE IF ~u.table[ns].denied /\ ~u.table[ns].gids.set THEN [err |-> "ok", u |-> u]
    ELSE [err |-> "EPERM", u |-> u]
Saturate(x) == IF x > IdMax THEN IdMax ELSE x
\* parse_extents, of a text whose fields are numbers.
CheckExtents(ext) ==
    LET over(a, n, b, m) == a < Saturate(b + m) /\ b < Saturate(a + n)
    IN  IF \/ ext = << >>
           \/ \E i \in DOMAIN ext : ext[i].count = 0 \/ ext[i].inside + ext[i].count - 1 > IdMax
           \/ \E i \in DOMAIN ext : \E j \in 1..(i - 1) :
                \/ over(ext[i].inside, ext[i].count, ext[j].inside, ext[j].count)
                \/ over(ext[i].outside, ext[i].count, ext[j].outside, ext[j].count)
        THEN "EINVAL" ELSE "ok"
\* write_map: once; only the ends of an extent are looked up in the parent.
WriteMap(u, ns, kind, ext, priv) ==
    LET e == u.table[ns]
        own == IF kind = "uid" THEN e.uid ELSE e.gid
        mapped(id) == ToGlobalId(u, e.parent, kind, id) # None
        new == [set |-> TRUE, ext |-> ext]
        fail(x) == [err |-> x, u |-> u]
    IN  IF CheckExtents(ext) # "ok" THEN fail("EINVAL")
        ELSE IF ns \notin DOMAIN u.table \/ MapOf(u, ns, kind).set THEN fail("EPERM")
        ELSE IF ~priv /\ ~(/\ Len(ext) = 1 /\ ext[1].count = 1 /\ ext[1].outside = own
                           /\ kind = "uid" \/ e.denied)
        THEN fail("EPERM")
        ELSE IF \E i \in DOMAIN ext : ext[i].outside + ext[i].count - 1 > IdMax THEN fail("EINVAL")
        ELSE IF \E i \in DOMAIN ext :
                  ~mapped(ext[i].outside) \/ ~mapped(ext[i].outside + ext[i].count - 1)
        THEN fail("EPERM")
        ELSE [err |-> "ok", u |-> IF kind = "uid" THEN [u EXCEPT !.table[ns].uids = new]
                                  ELSE [u EXCEPT !.table[ns].gids = new]]

\* ---------------------------------------------------------------- pidns
CreatePidNs(p, ns, parent) ==
    Set(p, ns, [parent |-> parent, local |-> << >>, gone |-> << >>, next |-> 1, init |-> None,
                dead |-> FALSE])
AcceptsTasks(p, ns) == ns = 0 \/ (ns \in DOMAIN p /\ ~p[ns].dead)
AddTask(p, g, ns) ==
    [id \in DOMAIN p |->
        IF ~Contains(Chain(p, ns), id) THEN p[id]
        ELSE [p[id] EXCEPT !.local = Set(@, g, p[id].next), !.next = @ + 1,
                           !.gone = Without(@, {g}),
                           !.init = IF id = ns /\ @ = None THEN g ELSE @]]
\* remove_task; past MaxGone the lowest number is forgotten.
RemoveTask(p, g, ns) ==
    LET trim(f) == IF Cardinality(DOMAIN f) <= MaxGone THEN f
                   ELSE Without(f, {x \in DOMAIN f : \A y \in DOMAIN f : f[x] <= f[y]})
    IN  [id \in DOMAIN p |->
            IF ~Contains(Chain(p, ns), id) \/ g \notin DOMAIN p[id].local THEN p[id]
            ELSE [p[id] EXCEPT !.local = Without(@, {g}),
                               !.gone = trim(Set(@, g, p[id].local[g]))]]
\* PidNamespaces::to_global: None if nothing has that number.
ToGlobalPid(p, l, ns) ==
    LET hit == IF ns \in DOMAIN p THEN {g \in DOMAIN p[ns].local : p[ns].local[g] = l} ELSE {}
    IN  IF ns = 0 THEN l ELSE IF hit = {} THEN None ELSE CHOOSE g \in hit : TRUE
InitOf(p, ns) == IF ns \in DOMAIN p THEN p[ns].init ELSE None
PidWithin(p, inner, outer) == outer = 0 \/ Contains(Chain(p, inner), outer)
MembersOf(p, ns) == IF ns \in DOMAIN p THEN DOMAIN p[ns].local ELSE {}
ClosePidNs(p, ns) == IF ns \in DOMAIN p THEN [p EXCEPT ![ns].dead = TRUE] ELSE p

\* -------------------------------------------------------------- cgroups
NewNode(parent, name) ==
    [parent |-> parent, name |-> name, below |-> FALSE, max |-> None, depth |-> None, desc |-> None,
     events |-> 0, freeze |-> FALSE, tasks |-> 0, live |-> 0, uid |-> 0]
NewTree == [nodes |-> [n \in {0} |-> NewNode(None, 0)], next |-> 1, members |-> << >>, roots |-> << >>]
NodeOf(c, t) == IF t \in DOMAIN c.members THEN c.members[t].node ELSE 0
\* CgroupTree::chain: the node itself even if it is gone.
RECURSIVE CgChain(_, _)
CgChain(c, n) ==
    <<n>> \o (IF n \in DOMAIN c.nodes /\ c.nodes[n].parent # None THEN CgChain(c, c.nodes[n].parent)
              ELSE << >>)
Above(c, n) == ToSet(CgChain(c, n))
CgWithin(c, inner, outer) == outer \in Above(c, inner)
Subtree(c, n) == {m \in DOMAIN c.nodes : CgWithin(c, m, n)} \cup {n}
CgChildren(c, n) == {m \in DOMAIN c.nodes : c.nodes[m].parent = n}
CommonAncestor(c, a, b) ==
    LET both == SelectSeq(CgChain(c, a), LAMBDA n : CgWithin(c, b, n))
    IN  IF both = << >> THEN 0 ELSE both[1]
Frozen(c, n) == \E m \in Above(c, n) : m \in DOMAIN c.nodes /\ c.nodes[m].freeze
HasPopulatedChild(c, n) == \E m \in CgChildren(c, n) : c.nodes[m].live > 0
HasOwnTasks(c, n) == \E t \in DOMAIN c.members : c.members[t].node = n /\ c.members[t].live
CheckAttach(c, n) ==
    IF n \notin DOMAIN c.nodes THEN "ENOENT"
    ELSE IF n # 0 /\ c.nodes[n].below /\ HasPopulatedChild(c, n) THEN "EBUSY" ELSE "ok"
\* can_fork: the first cgroup on the way up that is full counts the failure.
CanFork(c, n, explicit) ==
    LET full == SelectSeq(CgChain(c, n), LAMBDA m :
                    m \notin DOMAIN c.nodes
                    \/ (c.nodes[m].max # None /\ c.nodes[m].tasks + 1 > c.nodes[m].max))
    IN  IF explicit /\ CheckAttach(c, n) # "ok" THEN [err |-> CheckAttach(c, n), c |-> c]
        ELSE IF full = << >> THEN [err |-> "ok", c |-> c]
        ELSE IF full[1] \notin DOMAIN c.nodes THEN [err |-> "ENOENT", c |-> c]
        ELSE [err |-> "EAGAIN", c |-> [c EXCEPT !.nodes[full[1]].events = @ + 1]]
Sat0(x) == IF x < 0 THEN 0 ELSE x
CgCharge(c, n, tasks, live) ==
    [c EXCEPT !.nodes = [m \in DOMAIN @ |->
        IF m \in Above(c, n) THEN [@[m] EXCEPT !.tasks = Sat0(@ + tasks), !.live = Sat0(@ + live)]
        ELSE @[m]]]
AttachNew(c, t, n) ==
    LET d == CgCharge(c, n, 1, 1)
    IN  IF n = 0 THEN d ELSE [d EXCEPT !.members = Set(@, t, [node |-> n, live |-> TRUE])]
\* Mutant: an exit leaves the cgroup populated.
CgExitSilent(c, t) == [c EXCEPT !.members = IF t \in DOMAIN @ THEN [@ EXCEPT ![t].live = FALSE] ELSE @]
CgExit(c, t) ==
    IF t \in DOMAIN c.members /\ ~c.members[t].live THEN c
    ELSE CgCharge([c EXCEPT !.members = IF t \in DOMAIN @ THEN [@ EXCEPT ![t].live = FALSE] ELSE @],
                  NodeOf(c, t), 0, -1)
CgRelease(c, t) ==
    LET d == IF t \in DOMAIN c.members /\ c.members[t].live THEN CgExit(c, t) ELSE c
    IN  CgCharge([d EXCEPT !.members = Without(@, {t})], NodeOf(c, t), -1, 0)
\* migrate one task, `alive` or not.
Migrate(c, t, alive, n) ==
    LET was == t \notin DOMAIN c.members \/ c.members[t].live
        live == IF alive /\ was THEN 1 ELSE 0
        d == CgCharge(CgCharge(c, NodeOf(c, t), -1, -live), n, 1, live)
    IN  IF NodeOf(c, t) = n THEN c
        ELSE [d EXCEPT !.members = IF n = 0 THEN Without(@, {t})
                                   ELSE Set(@, t, [node |-> n, live |-> live = 1])]
CgMkdir(c, parent, name) ==
    LET depth(n) == Len(CgChain(c, n)) - 1
        full(n) == LET x == c.nodes[n]
                   IN  \/ x.depth # None /\ depth(parent) + 1 - depth(n) > x.depth
                       \/ x.desc # None /\ Cardinality(Subtree(c, n)) > x.desc
    IN  IF parent \notin DOMAIN c.nodes THEN [err |-> "ENOENT", c |-> c]
        ELSE IF \E m \in CgChildren(c, parent) : c.nodes[m].name = name THEN [err |-> "EEXIST", c |-> c]
        ELSE IF \E n \in Above(c, parent) : full(n) THEN [err |-> "EAGAIN", c |-> c]
        ELSE [err |-> "ok", c |-> [c EXCEPT !.nodes = Set(@, c.next, NewNode(parent, name)),
                                            !.next = @ + 1]]
\* rmdir: zombies still charged there move up.
CgRmdir(c, n) ==
    LET up == c.nodes[n].parent
    IN  IF n \notin DOMAIN c.nodes THEN [err |-> "ENOENT", c |-> c]
        ELSE IF up = None \/ CgChildren(c, n) # {} \/ c.nodes[n].live > 0
        THEN [err |-> "EBUSY", c |-> c]
        ELSE [err |-> "ok", c |-> [c EXCEPT
                !.members = [t \in DOMAIN @ |-> IF @[t].node = n THEN [@[t] EXCEPT !.node = up] ELSE @[t]],
                !.nodes = Without(@, {n}),
                !.roots = Without(@, {r \in DOMAIN @ : @[r] = n})]]
\* write_file: the limits, and +pids or -pids in cgroup.subtree_control.
CgLimit(c, n, file, v) ==
    [err |-> "ok", c |-> CASE file = "max.depth" -> [c EXCEPT !.nodes[n].depth = v]
                           [] file = "max.descendants" -> [c EXCEPT !.nodes[n].desc = v]
                           [] file = "pids.max" -> [c EXCEPT !.nodes[n].max = v]]
HandedDown(c, n) == c.nodes[n].parent = None \/ c.nodes[c.nodes[n].parent].below
SubtreeControl(c, n, on) ==
    IF on /\ ~HandedDown(c, n) THEN [err |-> "ENOENT", c |-> c]
    ELSE IF on = c.nodes[n].below THEN [err |-> "ok", c |-> c]
    ELSE IF (on /\ n # 0 /\ HasOwnTasks(c, n) /\ HasPopulatedChild(c, n))
            \/ (~on /\ \E m \in CgChildren(c, n) : c.nodes[m].below)
    THEN [err |-> "EBUSY", c |-> c]
    ELSE [err |-> "ok", c |-> [c EXCEPT !.nodes[n].below = on]]
NsRoot(c, ns) == LET r == GetOr(c.roots, ns, 0) IN IF r \in DOMAIN c.nodes THEN r ELSE 0
\* sync_exits: the tasks that have exited since the tree last looked.
SyncExits(c, living) ==
    FoldSet(LAMBDA t, d : CgExit(d, t), c,
            {t \in DOMAIN c.members : c.members[t].live /\ t \notin living})
=============================================================================
