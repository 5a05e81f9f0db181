------------------------------- MODULE Tmpfs -------------------------------
(***************************************************************************)
(* The in-memory filesystem (src/fs/tmpfs.rs) and the quota it charges     *)
(* (src/limits.rs).  A filesystem is a value, so that the overlay can hold *)
(* one as its upper layer:                                                 *)
(*   nodes   path -> [kind, ino, tgt]     a path is a sequence of names    *)
(*   files   inode -> [data, cap, links]  the regular files                *)
(*   meta    inode -> [mode, owner, time, xattrs]   of every kind of node  *)
(*   next    the next inode number                                         *)
(*   used, limit   the quota                                               *)
(* An operation returns [err, fs]; a failed one returns the filesystem as  *)
(* the code leaves it.  Lengths stand for themselves: a name costs 1, the  *)
(* fixed cost of an entry is Overhead, a byte costs 1.                     *)
(***************************************************************************)
EXTENDS Naturals, Sequences, FiniteSets, SequencesExt, FiniteSetsExt

CONSTANTS Overhead,     \* NODE_OVERHEAD
          MaxFileSize   \* MAX_FILE_SIZE
ASSUME TmpfsAssumption == Overhead \in Nat /\ MaxFileSize \in Nat

Root == << >>
Parent(p) == IF p = Root THEN Root ELSE Front(p)
\* q is p or lies below it (`starts_with("{from}/")`).
Under(p, q) == IsPrefix(p, q)
Rebase(p, from, to) == to \o SubSeq(p, Len(from) + 1, Len(p))

Done(e, s) == [err |-> e, fs |-> s]
Set(f, x, v) == [y \in DOMAIN f \cup {x} |-> IF y = x THEN v ELSE f[y]]
Without(f, S) == [y \in DOMAIN f \ S |-> f[y]]

\* limits.rs: Quota::try_charge has room; release saturates at zero.
Room(s, n) == s.used + n <= s.limit
Charge(s, n) == [s EXCEPT !.used = @ + n]
Release(s, n) == [s EXCEPT !.used = IF @ >= n THEN @ - n ELSE 0]

NewTmpfs(limit) ==
    [nodes |-> [p \in {Root} |-> [kind |-> "dir", ino |-> 1, tgt |-> Root]],
     files |-> << >>,
     meta |-> [i \in {1} |-> [mode |-> 0, owner |-> 0, time |-> 0, xattrs |-> << >>]],
     next |-> 2, used |-> 0, limit |-> limit]

Exists(s, p) == p \in DOMAIN s.nodes
KindAt(s, p) == IF Exists(s, p) THEN s.nodes[p].kind ELSE "none"
Ino(s, p) == s.nodes[p].ino
Children(s, p) == {q \in DOMAIN s.nodes : q # Root /\ Parent(q) = p}
Data(s, p) == s.files[Ino(s, p)].data

\* xattr_cost, FileData::cost and node_cost: a regular file's bytes and
\* attributes are charged once, to its inode.
XattrCost(m) == MapThenSumSet(LAMBDA x : 1 + m.xattrs[x] + Overhead, DOMAIN m.xattrs)
FileCost(s, i) == s.files[i].cap + XattrCost(s.meta[i])
NodeCost(s, p, n) ==
    Overhead + Len(p) + (IF n.kind = "file" THEN 0 ELSE Len(n.tgt) + XattrCost(s.meta[n.ino]))

\* ancestors_are_dirs and require_parent.
AncestorsAreDirs(s, p) ==
    \A q \in {SubSeq(p, 1, k) : k \in 1..(Len(p) - 1)} : KindAt(s, q) \in {"dir", "none"}
RequireParent(s, p) ==
    IF ~AncestorsAreDirs(s, p) THEN "ENOTDIR"
    ELSE CASE KindAt(s, Parent(p)) = "dir" -> "ok"
           [] KindAt(s, Parent(p)) = "none" -> "ENOENT"
           [] OTHER -> "ENOTDIR"

\* insert_node: the entry, if the quota has room for it.
InsertNode(s, p, n) ==
    IF Room(s, NodeCost(s, p, n))
    THEN Done("ok", Charge([s EXCEPT !.nodes = Set(@, p, n)], NodeCost(s, p, n)))
    ELSE Done("ENOSPC", s)

\* new_meta: a fresh inode number, spent even when the insertion then fails.
NewMeta(s, mode) ==
    [s EXCEPT !.next = @ + 1,
              !.meta = Set(@, s.next, [mode |-> mode, owner |-> 0, time |-> 1, xattrs |-> << >>])]
\* new_file
NewFile(s, mode) ==
    LET t == NewMeta(s, mode)
    IN  [t EXCEPT !.files = Set(@, s.next, [data |-> << >>, cap |-> 0, links |-> 1])]
\* Dropping an inode releases what it holds.
DropInode(s, i) ==
    LET t == IF i \in DOMAIN s.files THEN Release(s, FileCost(s, i)) ELSE s
    IN  [t EXCEPT !.files = Without(@, {i}), !.meta = Without(@, {i})]

\* create, mkdir, mknod and symlink: one fresh node of a kind at `p`.
MakeNode(s, p, kind, mode, tgt) ==
    LET fresh == IF kind = "file" THEN NewFile(s, mode) ELSE NewMeta(s, mode)
        made == InsertNode(fresh, p, [kind |-> kind, ino |-> s.next, tgt |-> tgt])
    IN  IF RequireParent(s, p) # "ok" THEN Done(RequireParent(s, p), s)
        ELSE IF Exists(s, p) THEN Done("EEXIST", s)
        ELSE IF made.err = "ok" THEN made
        ELSE Done(made.err, DropInode(fresh, s.next))
Create(s, p, mode) == MakeNode(s, p, "file", mode, Root)
Mkdir(s, p) == MakeNode(s, p, "dir", 0, Root)
Mknod(s, p, typ, mode) ==
    IF typ \in {"file", "fifo"} THEN MakeNode(s, p, typ, mode, Root) ELSE Done("EPERM", s)
Symlink(s, tgt, p) == MakeNode(s, p, "link", 0, tgt)

\* remove_entry: the name goes, and with the last name the file.
RemoveEntry(s, p) ==
    LET n == s.nodes[p]
        t == Release([s EXCEPT !.nodes = Without(@, {p})], NodeCost(s, p, n))
        u == [t EXCEPT !.files[n.ino].links = @ - 1]
    IN  IF n.kind # "file" THEN DropInode(t, n.ino)
        ELSE IF u.files[n.ino].links = 0 THEN DropInode(u, n.ino) ELSE u

Unlink(s, p) ==
    IF ~AncestorsAreDirs(s, p) THEN Done("ENOTDIR", s)
    ELSE IF KindAt(s, p) = "dir" THEN Done("EISDIR", s)
    ELSE IF ~Exists(s, p) THEN Done("ENOENT", s)
    ELSE Done("ok", RemoveEntry(s, p))
Rmdir(s, p) ==
    IF ~AncestorsAreDirs(s, p) THEN Done("ENOTDIR", s)
    ELSE IF ~Exists(s, p) THEN Done("ENOENT", s)
    ELSE IF KindAt(s, p) # "dir" THEN Done("ENOTDIR", s)
    ELSE IF Children(s, p) # {} THEN Done("ENOTEMPTY", s)
    ELSE Done("ok", RemoveEntry(s, p))

NoMemory == 99
\* grow_file to `end` bytes: capacity doubles if the quota allows it, else
\* grows to fit; the allocator may add `slack` on top, charged regardless,
\* or refuse.
GrowFile(s, i, end, slack) ==
    LET cap == s.files[i].cap
        twice == Max({end, 2 * cap})
        target == IF Room(s, twice - cap) THEN twice ELSE end
    IN  IF end <= cap THEN Done("ok", s)
        ELSE IF ~Room(s, target - cap) \/ slack = NoMemory THEN Done("ENOSPC", s)
        ELSE Done("ok", Charge([s EXCEPT !.files[i].cap = target + slack], target + slack - cap))
Resized(d, n) == [k \in 1..n |-> IF k <= Len(d) THEN d[k] ELSE 0]
Overwrite(d, off, buf) ==
    [k \in 1..Max({Len(d), off + Len(buf)}) |->
        IF k > off /\ k <= off + Len(buf) THEN buf[k - off]
        ELSE IF k <= Len(d) THEN d[k] ELSE 0]

WriteAt(s, p, off, buf, slack) ==
    LET i == Ino(s, p)
        end == off + Len(buf)
        grown == IF Len(s.files[i].data) < end THEN GrowFile(s, i, end, slack) ELSE Done("ok", s)
    IN  IF ~Exists(s, p) THEN Done("ENOENT", s)
        ELSE IF KindAt(s, p) # "file" THEN Done("EISDIR", s)
        ELSE IF end > MaxFileSize THEN Done("EFBIG", s)
        ELSE IF grown.err # "ok" THEN grown
        ELSE Done("ok", [grown.fs EXCEPT !.files[i].data = Overwrite(@, off, buf),
                                         !.meta[i].time = 1])
\* truncate: a file shrunk below half its capacity gives the excess back
\* (the allocator may keep `keep` of it).
Truncate(s, p, len, slack, keep) ==
    LET i == Ino(s, p)
        grown == GrowFile(s, i, len, slack)
        cut == [grown.fs EXCEPT !.files[i].data = Resized(@, len), !.meta[i].time = 1]
        cap == cut.files[i].cap
        kept == Min({cap, len + keep})
    IN  IF ~Exists(s, p) THEN Done("ENOENT", s)
        ELSE IF KindAt(s, p) # "file"
        THEN Done(IF KindAt(s, p) = "dir" THEN "EISDIR" ELSE "EINVAL", s)
        ELSE IF len > MaxFileSize THEN Done("EFBIG", s)
        ELSE IF grown.err # "ok" THEN grown
        ELSE IF len >= cap \div 2 THEN Done("ok", cut)
        ELSE Done("ok", Release([cut EXCEPT !.files[i].cap = kept], cap - kept))

\* set_mode (files and fifos only), set_owner and set_times.
SetMode(s, p, mode) ==
    IF ~Exists(s, p) THEN Done("ENOENT", s)
    ELSE IF KindAt(s, p) \in {"file", "fifo"}
    THEN Done("ok", [s EXCEPT !.meta[Ino(s, p)].mode = mode])
    ELSE Done("ok", s)
SetOwner(s, p, owner) ==
    IF ~Exists(s, p) THEN Done("ENOENT", s)
    ELSE Done("ok", [s EXCEPT !.meta[Ino(s, p)].owner = owner])
SetTimes(s, p, time) ==
    IF ~Exists(s, p) THEN Done("ENOENT", s)
    ELSE Done("ok", [s EXCEPT !.meta[Ino(s, p)].time = time])

\* setxattr charges the new value before it gives back the one it replaces.
SetXattr(s, p, x, len) ==
    LET i == Ino(s, p)
        cost(n) == 1 + n + Overhead
        t == Charge([s EXCEPT !.meta[i].xattrs = Set(@, x, len)], cost(len))
        old == s.meta[i].xattrs
    IN  IF ~Exists(s, p) THEN Done("ENOENT", s)
        ELSE IF ~Room(s, cost(len)) THEN Done("ENOSPC", s)
        ELSE Done("ok", IF x \in DOMAIN old THEN Release(t, cost(old[x])) ELSE t)
RemoveXattr(s, p, x) ==
    LET i == Ino(s, p)
    IN  IF ~Exists(s, p) THEN Done("ENOENT", s)
        ELSE IF x \notin DOMAIN s.meta[i].xattrs THEN Done("ENODATA", s)
        ELSE Done("ok", Release([s EXCEPT !.meta[i].xattrs = Without(@, {x})],
                                1 + s.meta[i].xattrs[x] + Overhead))

\* Mutant: the new name is not counted.
LinkUncounted(s, old, new) ==
    IF KindAt(s, old) # "file" THEN Done("ENOENT", s)
    ELSE IF RequireParent(s, new) # "ok" \/ Exists(s, new) THEN Done("EEXIST", s)
    ELSE InsertNode(s, new, s.nodes[old])
\* link: a second name for a regular file's inode.
Link(s, old, new) ==
    LET made == InsertNode(s, new, s.nodes[old])
    IN  IF ~Exists(s, old) THEN Done("ENOENT", s)
        ELSE IF KindAt(s, old) # "file"
        THEN Done(IF KindAt(s, old) = "dir" THEN "EPERM" ELSE "EOPNOTSUPP", s)
        ELSE IF RequireParent(s, new) # "ok" THEN Done(RequireParent(s, new), s)
        ELSE IF Exists(s, new) THEN Done("EEXIST", s)
        ELSE IF made.err # "ok" THEN made
        ELSE Done("ok", [made.fs EXCEPT !.files[Ino(s, old)].links = @ + 1])

\* Move `from` and everything below it to `to`; longer names are charged even
\* over the limit.
MoveEntries(s, from, to) ==
    LET moved == {q \in DOMAIN s.nodes : Under(from, q)}
        rest == DOMAIN s.nodes \ moved
        new == {Rebase(q, from, to) : q \in moved}
        longer == Cardinality(moved) * Len(to)
        shorter == Cardinality(moved) * Len(from)
    IN  Release(Charge([s EXCEPT !.nodes = [q \in rest \cup new |->
                            IF q \in new THEN s.nodes[Rebase(q, to, from)] ELSE s.nodes[q]]],
                       longer), shorter)
Rename(s, from, to) ==
    LET dir == KindAt(s, from) = "dir"
        over == KindAt(s, to)
        cleared == IF Exists(s, to) THEN RemoveEntry(s, to) ELSE s
        same == from = to \/ (~dir /\ over = "file" /\ Ino(s, from) = Ino(s, to))
    IN  IF ~Exists(s, from) THEN Done("ENOENT", s)
        ELSE IF same THEN Done("ok", s)
        ELSE IF dir /\ Under(from, to) THEN Done("EINVAL", s)
        ELSE IF RequireParent(s, to) # "ok" THEN Done(RequireParent(s, to), s)
        ELSE IF dir /\ over \notin {"dir", "none"} THEN Done("ENOTDIR", s)
        ELSE IF ~dir /\ over = "dir" THEN Done("EISDIR", s)
        ELSE IF dir /\ Children(s, to) # {} THEN Done("ENOTEMPTY", s)
        ELSE Done("ok", MoveEntries(cleared, from, to))

\* attach_quota: charge everything already held to a new quota.
Held(s) ==
    MapThenSumSet(LAMBDA p : NodeCost(s, p, s.nodes[p]), DOMAIN s.nodes)
      + MapThenSumSet(LAMBDA i : FileCost(s, i), DOMAIN s.files)
AttachQuota(s, limit) == [s EXCEPT !.used = Held(s), !.limit = limit]
=============================================================================
