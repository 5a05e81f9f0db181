------------------------------- MODULE Overlay -------------------------------
(***************************************************************************)
(* What a filesystem promises, as a program sees it: a tree of nodes, and  *)
(* for each call the error it gives or the tree it leaves; then the        *)
(* overlay (fs/overlay.rs), checked against it.  A tree is a function from *)
(* paths to [kind, data, mode, xattrs, names], where names is the set of   *)
(* paths that share the node (hard links).                                 *)
(***************************************************************************)
EXTENDS Tmpfs

Kind(t, p) == IF p \in DOMAIN t THEN t[p].kind ELSE "none"
Below(t, p) == {q \in DOMAIN t : q # p /\ Under(p, q)}
FileNode(p, kind, mode) ==
    [kind |-> kind, data |-> << >>, mode |-> mode, xattrs |-> << >>, names |-> {p}]

Unname(t, S) == [p \in DOMAIN t \ S |-> [t[p] EXCEPT !.names = @ \ S]]
\* Change a node under every name it has.
Change(t, p, n) == [q \in DOMAIN t |-> IF q \in t[p].names THEN n ELSE t[q]]
Move(t, from, to) ==
    LET d == Unname(t, {to})
        moved == {q \in DOMAIN d : Under(from, q)}
        new == {Rebase(q, from, to) : q \in moved}
        renamed(n) == [n EXCEPT !.names = {IF Under(from, x) THEN Rebase(x, from, to) ELSE x : x \in @}]
    IN  [q \in (DOMAIN d \ moved) \cup new |->
            renamed(IF q \in new THEN d[Rebase(q, to, from)] ELSE d[q])]

MakeErr(t, p) ==
    IF Kind(t, p) # "none" THEN "EEXIST"
    ELSE IF Kind(t, Parent(p)) # "dir" THEN "EPARENT" ELSE "ok"
RenameErr(t, from, to) ==
    IF Kind(t, from) = "none" THEN "ENOENT"
    ELSE IF from = to THEN "ok"
    ELSE IF Kind(t, from) = "dir" /\ Under(from, to) THEN "EINVAL"
    ELSE IF Kind(t, from) = "dir" /\ Kind(t, to) \notin {"none", "dir"} THEN "ENOTDIR"
    ELSE IF Kind(t, from) # "dir" /\ Kind(t, to) = "dir" THEN "EISDIR"
    ELSE IF Below(t, to) # {} THEN "ENOTEMPTY"
    ELSE IF Kind(t, Parent(to)) # "dir" THEN "EPARENT" ELSE "ok"

TreeErr(t, c) ==
    CASE c.op \in {"create", "mkdir", "symlink"} -> MakeErr(t, c.p)
      [] c.op = "mknod" -> IF MakeErr(t, c.p) = "ok" /\ c.x \notin {"file", "fifo"} THEN "EPERM" ELSE MakeErr(t, c.p)
      [] c.op = "unlink" -> CASE Kind(t, c.p) = "none" -> "ENOENT"
                              [] Kind(t, c.p) = "dir" -> "EISDIR"
                              [] OTHER -> "ok"
      [] c.op = "rmdir" -> CASE Kind(t, c.p) = "none" -> "ENOENT"
                             [] Kind(t, c.p) = "dir" -> IF Below(t, c.p) = {} THEN "ok" ELSE "ENOTEMPTY"
                             [] OTHER -> "ENOTDIR"
      [] c.op = "write" -> CASE Kind(t, c.p) = "none" -> "ENOENT"
                             [] Kind(t, c.p) = "file" -> "ok"
                             [] OTHER -> "EISDIR"
      [] c.op = "truncate" -> CASE Kind(t, c.p) = "none" -> "ENOENT"
                                [] Kind(t, c.p) = "file" -> "ok"
                                [] Kind(t, c.p) = "dir" -> "EISDIR"
                                [] OTHER -> "EINVAL"
      [] c.op \in {"chmod", "chown", "utimes", "setxattr"} -> IF Kind(t, c.p) = "none" THEN "ENOENT" ELSE "ok"
      [] c.op = "removexattr" -> CASE Kind(t, c.p) = "none" -> "ENOENT"
                                   [] c.x \in DOMAIN t[c.p].xattrs -> "ok"
                                   [] OTHER -> "ENODATA"
      [] c.op = "link" -> CASE Kind(t, c.q) = "none" -> "ENOENT"
                            [] Kind(t, c.q) = "dir" -> "EPERM"
                            [] Kind(t, c.q) \in {"link", "fifo"} /\ MakeErr(t, c.p) = "ok" -> "EOPNOTSUPP"
                            [] OTHER -> MakeErr(t, c.p)
      [] c.op = "rename" -> RenameErr(t, c.q, c.p)

TreeAfter(t, c) ==
    CASE c.op = "create" -> Set(t, c.p, FileNode(c.p, "file", 1))
      [] c.op = "mkdir" -> Set(t, c.p, FileNode(c.p, "dir", 0))
      [] c.op = "mknod" -> Set(t, c.p, FileNode(c.p, c.x, IF c.x = "file" THEN 1 ELSE 0))
      [] c.op = "symlink" -> Set(t, c.p, FileNode(c.p, "link", 0))
      [] c.op \in {"unlink", "rmdir"} -> Unname(t, {c.p})
      [] c.op = "write" -> Change(t, c.p, [t[c.p] EXCEPT !.data = Overwrite(@, c.n, c.x)])
      [] c.op = "truncate" -> Change(t, c.p, [t[c.p] EXCEPT !.data = Resized(@, c.n)])
      [] c.op = "chmod" -> IF t[c.p].kind = "file" THEN Change(t, c.p, [t[c.p] EXCEPT !.mode = c.n]) ELSE t
      [] c.op \in {"chown", "utimes"} -> t
      [] c.op = "setxattr" -> Change(t, c.p, [t[c.p] EXCEPT !.xattrs = Set(@, c.x, c.n)])
      [] c.op = "removexattr" -> Change(t, c.p, [t[c.p] EXCEPT !.xattrs = Without(@, {c.x})])
      [] c.op = "link" -> LET n == [t[c.q] EXCEPT !.names = @ \cup {c.p}]
                          IN  Set(Change(t, c.q, n), c.p, n)
      [] c.op = "rename" -> IF c.q = c.p THEN t ELSE Move(t, c.q, c.p)

\* One call: it is refused with the error the tree calls for, or for want of
\* memory, and changes nothing; or it does exactly what it says.
TreeCall(t, c, err, u) ==
    \/ err = "ok" /\ TreeErr(t, c) = "ok" /\ u = TreeAfter(t, c)
    \/ err # "ok" /\ err \in {TreeErr(t, c), "ENOSPC"} /\ u = t

------------------------------------------------------------------------------
(***************************************************************************)
(* The copy-on-write overlay (src/fs/overlay.rs): a writable upper layer   *)
(* (a tmpfs) over a read-only lower one, with whiteouts for what was       *)
(* deleted.  One action per filesystem call; the calls come straight from  *)
(* the mount table, which checks nothing about the path first              *)
(* (src/fs/mount.rs).  `layers` names the lower layer, the quota and the  *)
(* calls a behaviour is made of.                                           *)
(***************************************************************************)

CONSTANTS OverlayCases,   \* name -> [lower, limit, calls, plain, steps]
          Slacks          \* what the allocator adds to a growing file
VARIABLES layers,         \* the case being run
          lower, upper, whiteouts,
          seen,           \* the tree a program sees, MergedTree(upper, whiteouts)
          call,           \* the last call and what it answered, and whether a
                          \* call so far was untracked (see Untracked)
          steps           \* calls made so far, bounded by the case's
overlayVars == <<layers, lower, upper, whiteouts, seen, call, steps>>


\* is_whited: the path or an ancestor of it has a whiteout.
IsWhited(w, p) == \E k \in 1..Len(p) : SubSeq(p, 1, k) \in w
\* stat and readdir of the merged view.
StatIn(u, w, p) ==
    IF IsWhited(w, p) THEN "none" ELSE IF Exists(u, p) THEN KindAt(u, p) ELSE KindAt(lower, p)
Stat(p) == StatIn(upper, whiteouts, p)
ReaddirIn(u, w, p) ==
    {q \in Children(lower, p) : ~IsWhited(w, q) /\ KindAt(lower, p) = "dir"}
      \cup (IF KindAt(u, p) = "dir" THEN Children(u, p) ELSE {})

\* ensure_dir_in_upper: mkdir whatever is missing, ignoring failures.
EnsureDir(u, dir) ==
    FoldLeft(LAMBDA s, k : LET p == SubSeq(dir, 1, k)
                           IN  IF Exists(s, p) THEN s ELSE Mkdir(s, p).fs,
             u, [k \in 1..Len(dir) |-> k])

\* copy_up_xattrs: failures are ignored.
CopyUpXattrs(u, p) ==
    LET xs == lower.meta[Ino(lower, p)].xattrs
    IN  FoldSet(LAMBDA x, s : SetXattr(s, p, x, xs[x]).fs, u, DOMAIN xs)

\* copy_up: bring a lower-only node, and all of a directory's visible subtree,
\* into the upper layer; the first failure ends it where it stands.
Then(r, Apply(_)) == IF r.err # "ok" THEN r ELSE Apply(r.fs)
RECURSIVE CopyUp(_, _, _)
CopyUp(u, w, p) ==
    LET kind == KindAt(lower, p)
        based == EnsureDir(u, Parent(p))
        child(r, q) == IF r.err # "ok" \/ IsWhited(w, q) THEN r ELSE CopyUp(r.fs, w, q)
        copied ==
          CASE kind = "dir" -> FoldLeft(child, Done("ok", EnsureDir(based, p)),
                                        SetToSortSeq(Children(lower, p), LAMBDA q, r : Last(q) < Last(r)))
            [] kind = "link" -> Symlink(based, lower.nodes[p].tgt, p)
            [] kind = "file" -> Then(Create(based, p, lower.meta[Ino(lower, p)].mode),
                                     LAMBDA v : WriteAt(v, p, 0, Data(lower, p), 0))
    IN  IF Exists(u, p) \/ kind = "none" THEN Done("ok", u)
        ELSE Then(copied, LAMBDA v : Done("ok", CopyUpXattrs(v, p)))
\* copy_up_node: a directory comes up without its subtree.
CopyUpNode(u, w, p) ==
    IF ~Exists(u, p) /\ KindAt(lower, p) = "dir"
    THEN Done("ok", CopyUpXattrs(EnsureDir(u, p), p))
    ELSE CopyUp(u, w, p)

\* What a call leaves: its error, the upper layer and the whiteouts.
Left(e, u, w) == [err |-> e, upper |-> u, white |-> w]
Fail(e) == Left(e, upper, whiteouts)
\* Copy up, then apply an operation of the upper layer.
LeftBy(r, w) == Left(r.err, r.fs, w)
Through(up, w, Apply(_)) == LeftBy(Then(up, Apply), w)

\* create, mkdir, mknod, symlink: the whiteout of the name goes first.
OvMake(p, Apply(_)) ==
    IF Stat(p) # "none" THEN Fail("EEXIST")
    ELSE Through(Done("ok", EnsureDir(upper, Parent(p))), whiteouts \ {p}, Apply)
OvCreate(p, mode) == OvMake(p, LAMBDA u : Create(u, p, mode))
OvMkdir(p) == OvMake(p, LAMBDA u : Mkdir(u, p))
OvMknod(p, typ) == OvMake(p, LAMBDA u : Mknod(u, p, typ, 1))
OvSymlink(tgt, p) == OvMake(p, LAMBDA u : Symlink(u, tgt, p))

\* Mutant: the upper name goes, the lower one is not hidden.
OvUnlinkNoWhiteout(p) ==
    IF Stat(p) \in {"none", "dir"} THEN Fail("ENOENT")
    ELSE Left("ok", Unlink(upper, p).fs, whiteouts)
OvUnlink(p) ==
    IF Stat(p) \in {"none", "dir"} THEN Fail(IF Stat(p) = "none" THEN "ENOENT" ELSE "EISDIR")
    ELSE Left("ok", Unlink(upper, p).fs, whiteouts \cup {p})
OvRmdir(p) ==
    IF Stat(p) # "dir" THEN Fail(IF Stat(p) = "none" THEN "ENOENT" ELSE "ENOTDIR")
    ELSE IF ReaddirIn(upper, whiteouts, p) # {} THEN Fail("ENOTEMPTY")
    ELSE Left("ok", Rmdir(upper, p).fs, whiteouts \cup {p})

\* write_at and truncate copy up without looking at the whiteouts first.
OvWrite(p, off, buf, slack) ==
    Through(CopyUp(upper, whiteouts, p), whiteouts, LAMBDA u : WriteAt(u, p, off, buf, slack))
OvTruncate(p, len, slack) ==
    Through(CopyUp(upper, whiteouts, p), whiteouts, LAMBDA u : Truncate(u, p, len, slack, 0))
OvSetMode(p, mode) ==
    IF Stat(p) = "none" THEN Fail("ENOENT")
    ELSE Through(CopyUp(upper, whiteouts, p), whiteouts, LAMBDA u : SetMode(u, p, mode))
OvSetOwner(p, owner) ==
    IF Stat(p) = "none" THEN Fail("ENOENT")
    ELSE Through(CopyUp(upper, whiteouts, p), whiteouts, LAMBDA u : SetOwner(u, p, owner))
OvSetTimes(p, time) ==
    IF Stat(p) = "none" THEN Fail("ENOENT")
    ELSE Through(CopyUp(upper, whiteouts, p), whiteouts, LAMBDA u : SetTimes(u, p, time))
OvSetXattr(p, x, len) ==
    IF Stat(p) = "none" THEN Fail("ENOENT")
    ELSE Through(CopyUpNode(upper, whiteouts, p), whiteouts, LAMBDA u : SetXattr(u, p, x, len))
OvRemoveXattr(p, x) ==
    IF Stat(p) = "none" THEN Fail("ENOENT")
    ELSE IF ~Exists(upper, p) /\ x \notin DOMAIN lower.meta[Ino(lower, p)].xattrs THEN Fail("ENODATA")
    ELSE Through(IF Exists(upper, p) THEN Done("ok", upper) ELSE CopyUpNode(upper, whiteouts, p),
                 whiteouts, LAMBDA u : RemoveXattr(u, p, x))

\* link: the source comes up before the target's whiteout goes.
OvLink(old, new) ==
    LET linked(up) ==
          IF up.err # "ok" THEN LeftBy(up, whiteouts)
          ELSE LeftBy(Link(EnsureDir(up.fs, Parent(new)), old, new), whiteouts \ {new})
    IN  IF Stat(old) \in {"none", "dir"} THEN Fail(IF Stat(old) = "none" THEN "ENOENT" ELSE "EPERM")
        ELSE IF Stat(new) # "none" THEN Fail("EEXIST")
        ELSE linked(CopyUp(upper, whiteouts, old))

\* rename: clear the target in the upper layer, copy the source up, move it
\* there and hide the lower source.
OvRename(from, to) ==
    LET dir == Stat(from) = "dir"
        cleared == CASE Stat(to) = "none" -> upper
                     [] Stat(to) = "dir" -> Rmdir(upper, to).fs
                     [] OTHER -> Unlink(upper, to).fs
        hidden(r) == LeftBy(r, (whiteouts \ {to}) \cup IF r.err = "ok" THEN {from} ELSE {})
        moved(up) ==
          IF up.err # "ok" THEN LeftBy(up, whiteouts)
          ELSE hidden(Rename(EnsureDir(up.fs, Parent(to)), from, to))
    IN  IF Stat(from) = "none" THEN Fail("ENOENT")
        ELSE IF from = to THEN Fail("ok")
        ELSE IF dir /\ Under(from, to) THEN Fail("EINVAL")
        ELSE IF dir /\ Stat(to) \notin {"none", "dir"} THEN Fail("ENOTDIR")
        ELSE IF ~dir /\ Stat(to) = "dir" THEN Fail("EISDIR")
        ELSE IF dir /\ Stat(to) = "dir" /\ ReaddirIn(upper, whiteouts, to) # {} THEN Fail("ENOTEMPTY")
        ELSE moved(CopyUp(cleared, whiteouts, from))

OvPerform(c, slack) ==
    CASE c.op = "create" -> OvCreate(c.p, 1)
      [] c.op = "mkdir" -> OvMkdir(c.p)
      [] c.op = "mknod" -> OvMknod(c.p, c.x)
      [] c.op = "symlink" -> OvSymlink(c.q, c.p)
      [] c.op = "unlink" -> OvUnlink(c.p)
      [] c.op = "rmdir" -> OvRmdir(c.p)
      [] c.op = "write" -> OvWrite(c.p, c.n, c.x, slack)
      [] c.op = "truncate" -> OvTruncate(c.p, c.n, slack)
      [] c.op = "chmod" -> OvSetMode(c.p, c.n)
      [] c.op = "chown" -> OvSetOwner(c.p, c.n)
      [] c.op = "utimes" -> OvSetTimes(c.p, c.n)
      [] c.op = "setxattr" -> OvSetXattr(c.p, c.x, c.n)
      [] c.op = "removexattr" -> OvRemoveXattr(c.p, c.x)
      [] c.op = "link" -> OvLink(c.q, c.p)
      [] c.op = "rename" -> OvRename(c.q, c.p)

\* What a program sees: the visible paths, and for a regular file the bytes,
\* the mode and the names that share it.
Layer(u, p) == IF Exists(u, p) THEN u ELSE lower
NodeSeen(u, p) ==
    LET s == Layer(u, p)
        kind == KindAt(s, p)
    IN  [kind |-> kind,
         data |-> IF kind = "file" THEN Data(s, p) ELSE << >>,
         mode |-> IF kind = "file" THEN s.meta[Ino(s, p)].mode ELSE 0,
         xattrs |-> s.meta[Ino(s, p)].xattrs,
         names |-> IF kind # "file" THEN {p} ELSE {q \in DOMAIN s.nodes : Ino(s, q) = Ino(s, p)}]
MergedTree(u, w) ==
    [p \in {q \in DOMAIN u.nodes \cup DOMAIN lower.nodes : StatIn(u, w, q) # "none"} |-> NodeSeen(u, p)]

OverlayInit ==
    /\ layers \in Range(OverlayCases)
    /\ lower = layers.lower
    /\ upper = AttachQuota(NewTmpfs(0), layers.limit)
    /\ whiteouts = {}
    /\ seen = MergedTree(upper, whiteouts)
    /\ call = [c |-> [op |-> "none"], err |-> "ok", untracked |-> FALSE]
    /\ steps = 0
\* A call on names the program can see: what it creates goes into a visible
\* directory, what it changes is visible.
Plain(c) ==
    IF c.op \in {"create", "mkdir", "mknod", "symlink", "link", "rename"}
    THEN Stat(Parent(c.p)) = "dir" ELSE Stat(c.p) # "none"
\* Entries of the lower layer below p that no whiteout of their own hides.
LowerBelow(p) ==
    {q \in DOMAIN lower.nodes : q # p /\ Under(p, q) /\ ~IsWhited(whiteouts \ {p}, q)}
\* Three calls the layers have no record for.  A name is made again that a directory
\* of the lower layer was renamed away from: its whiteout goes and nothing makes
\* the new directory opaque.  A directory of both layers is renamed: copy_up
\* returns at once, and its children that are below only stay behind.  And a
\* directory is renamed to where whiteouts of deleted children hide its own.
Lifts(c) == c.p \in whiteouts /\ LowerBelow(c.p) # {}
Splits(c) == /\ c.op = "rename" /\ Stat(c.q) = "dir" /\ Exists(upper, c.q)
             /\ \E q \in LowerBelow(c.q) : ~Exists(upper, q)
Hides(c) == /\ c.op = "rename" /\ Stat(c.q) = "dir"
            /\ \E q \in whiteouts : q # c.p /\ Under(c.p, q) /\ Stat(Rebase(q, c.p, c.q)) # "none"
Untracked(c) == Lifts(c) \/ Splits(c) \/ Hides(c)

OvCall(c) ==
    /\ steps < layers.steps
    /\ layers.plain => Plain(c)
    /\ \E slack \in IF c.op \in {"write", "truncate"} THEN Slacks ELSE {0} :
         \E r \in {OvPerform(c, slack)} :
             /\ upper' = r.upper
             /\ whiteouts' = r.white
             /\ seen' = MergedTree(r.upper, r.white)
             /\ call' = [c |-> c, err |-> r.err, untracked |-> call.untracked \/ Untracked(c)]
    /\ steps' = steps + 1
    /\ UNCHANGED <<layers, lower>>
OverlayNext == \E c \in layers.calls : OvCall(c)
(***************************************************************************)
(* Properties                                                              *)
(***************************************************************************)
\* The two layers and the whiteouts act as one tree ("deletions record a whiteout
\* that hides the lower entry", overlay.rs).  For a program that stays on names it
\* can see and has memory enough (the cases called plain), and until
\* it lifts, splits or hides a directory, every call either fails with the error the
\* merged tree calls for and leaves that tree alone, or makes exactly the change
\* it names: nothing deleted comes back through the lower layer, nothing of the
\* lower layer is lost by a copy-up, and hard links stay links.
ActsAsTree ==
    steps' # steps /\ layers.plain /\ ~call'.untracked =>
        TreeCall(seen, call'.c, call'.err, seen')
\* Quota accounting of the tmpfs: after any calls, failed ones included, what
\* is charged is exactly what the names, bytes and attributes held cost, so
\* memory is neither leaked from the quota nor given back twice.
QuotaExact == upper.used = Held(upper)
\* A regular file lives as long as it has a name: its link count is the number
\* of entries naming it, every entry has its inode, and no entry hangs from
\* anything but a directory.
LinksCounted ==
    /\ \A i \in DOMAIN upper.files :
         upper.files[i].links = Cardinality({p \in DOMAIN upper.nodes : Ino(upper, p) = i})
    /\ \A i \in DOMAIN upper.files : upper.files[i].links > 0
    /\ \A p \in DOMAIN upper.nodes :
         /\ Ino(upper, p) \in DOMAIN upper.meta
         /\ p # Root => KindAt(upper, Parent(p)) = "dir"
==============================================================================
