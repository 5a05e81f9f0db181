------------------------------ MODULE MCFiles ------------------------------
(***************************************************************************)
(* Small instances of the two halves of the file system: tasks that share  *)
(* descriptors, locks and hidden files (Objects), and the calls that reach *)
(* a copy-on-write root (Overlay).  A behaviour exercises one of them and  *)
(* leaves the other in an initial state.                                   *)
(***************************************************************************)
EXTENDS Objects, Overlay

VARIABLE half  \* which of the two this behaviour exercises

vars == <<half, objVars, overlayVars>>

Init ==
    /\ half \in {"objects", "overlay"}
    /\ half = "overlay" => kase = "names"
    /\ half = "objects" => layers = OverlayCases["names"]
    /\ ObjInit /\ OverlayInit

Next ==
    \/ half = "objects" /\ ObjNext /\ UNCHANGED <<half, overlayVars>>
    \/ half = "overlay" /\ OverlayNext /\ UNCHANGED <<half, objVars>>

Spec == Init /\ [][Next]_vars

\* Names, descriptors and hidden files agree, and what the tmpfs charges is
\* what it holds.
FilesExact == DescriptorKeepsFile /\ OrphansHeld /\ QuotaExact /\ LinksCounted

\* A sealed file keeps what its seals promise, and an overlay acts as one tree.
ContentsKept == [][SealsHold /\ ActsAsTree]_vars

-----------------------------------------------------------------------------
(* Tasks and descriptors: two or three tasks, offsets up to three.         *)

A == <<1>>
B == <<2>>
D == <<3>>
DA == <<3, 1>>
Limit == 1000
Put(s, p) == Create(s, p, 0).fs
Base == Put(Put(Mkdir(NewTmpfs(Limit), D).fs, A), DA)

Open(p, flags) == [op |-> "open", path |-> p, flags |-> flags]
Close(n) == [op |-> "close", fd |-> n]
Ren(p, q, flag) == [op |-> "rename", path |-> p, new |-> q, flag |-> flag]
Fork(c) == [op |-> "clone", child |-> c, thread |-> FALSE, share |-> FALSE]
Thread(c) == [op |-> "clone", child |-> c, thread |-> TRUE, share |-> TRUE]
PLock(n, typ, start, len, wait) ==
    [op |-> "lock", fd |-> n, ofd |-> FALSE, typ |-> typ, whence |-> "set", start |-> start,
     len |-> len, wait |-> wait]
OLock(n, typ, wait) ==
    [op |-> "lock", fd |-> n, ofd |-> TRUE, typ |-> typ, whence |-> "set", start |-> 0,
     len |-> 0, wait |-> wait]
FLock(n, kind, nb) == [op |-> "flock", fd |-> n, kind |-> kind, nb |-> nb]

RdWr == {"rdwr", "creat"}

AllCases ==
    [names |->
        [fs |-> Base, rootWritable |-> TRUE, left |-> <<5, 2>>,
         calls |-> <<{Open(A, RdWr), Open(DA, {"wronly"}), Open(B, {"rdwr", "creat", "excl"}),
                      [op |-> "unlink", path |-> A], [op |-> "unlink", path |-> DA],
                      Ren(A, DA, "none"), Ren(D, B, "none"), Ren(A, DA, "exchange"),
                      Ren(DA, B, "noreplace"), Close(0), Fork(2),
                      [op |-> "link", fd |-> -1, path |-> A, new |-> B]},
                     {Close(0), [op |-> "unlink", path |-> A], [op |-> "unlink", path |-> B],
                      Ren(B, A, "none"), Open(A, RdWr), [op |-> "rmdir", path |-> D]}>>],
     subtree |->
        [fs |-> Base, rootWritable |-> FALSE, left |-> <<5, 2>>,
         calls |-> <<{Open(DA, RdWr), [op |-> "unlink", path |-> DA], Close(0), Thread(2),
                      [op |-> "tmpfile", path |-> D, flags |-> {"rdwr"}],
                      [op |-> "tmpfile", path |-> A, flags |-> {"rdwr"}],
                      [op |-> "link", fd |-> 0, path |-> Root, new |-> DA],
                      Ren(A, DA, "none")},
                     {Close(0), [op |-> "rmdir", path |-> D], [op |-> "exit"]}>>],
     unnamed |->
        [fs |-> Base, rootWritable |-> TRUE, left |-> <<5, 3>>,
         calls |-> <<{[op |-> "tmpfile", path |-> D, flags |-> {"rdwr"}], Fork(2), Open(A, RdWr),
                      [op |-> "unlink", path |-> A], [op |-> "link", fd |-> 0, path |-> Root, new |-> B],
                      Close(0)},
                     {[op |-> "link", fd |-> 0, path |-> Root, new |-> DA],
                      [op |-> "link", fd |-> 0, path |-> Root, new |-> A],
                      [op |-> "write", fd |-> 0, buf |-> <<7>>], [op |-> "unlink", path |-> B], Close(0)}>>],
     locks |->
        [fs |-> Base, rootWritable |-> TRUE, left |-> <<6, 3>>,
         calls |-> <<{Open(A, {"rdwr"}), Fork(2), PLock(0, "w", 0, 2, TRUE), PLock(0, "r", 1, 2, TRUE),
                      PLock(0, "u", 1, 1, FALSE), Close(0), Close(1), [op |-> "exit"]},
                     {Open(A, {"rdwr"}), PLock(0, "w", 1, 0, TRUE), PLock(0, "r", 0, 1, FALSE),
                      PLock(1, "w", 2, -1, TRUE), Close(0), [op |-> "exit_group"]}>>],
     flocks |->
        [fs |-> Base, rootWritable |-> TRUE, left |-> <<6, 3>>,
         calls |-> <<{Open(A, {"rdwr"}), Fork(2), FLock(0, "ex", FALSE), FLock(0, "sh", FALSE),
                      FLock(0, "un", FALSE), OLock(0, "w", TRUE), Close(0), [op |-> "exit"]},
                     {Open(A, {"rdwr"}), FLock(1, "ex", FALSE), FLock(1, "sh", TRUE), Close(0),
                      OLock(1, "r", TRUE), [op |-> "dup2", fd |-> 1, new |-> 0, cloexec |-> FALSE,
                      dup3 |-> FALSE]}>>],
     memfd |->
        [fs |-> Base, rootWritable |-> TRUE, left |-> <<6, 2>>,
         calls |-> <<{[op |-> "memfd"], [op |-> "write", fd |-> 0, buf |-> <<7>>], Fork(2),
                      [op |-> "seal", fd |-> 0, seals |-> {"write"}],
                      [op |-> "seal", fd |-> 0, seals |-> {"grow", "seal"}],
                      [op |-> "seal", fd |-> 0, seals |-> {"shrink"}],
                      [op |-> "ftruncate", fd |-> 0, len |-> 2],
                      [op |-> "fallocate", fd |-> 0, punch |-> TRUE, off |-> 0, len |-> 2]},
                     {[op |-> "pwrite", fd |-> 0, off |-> 0, buf |-> <<8, 9>>],
                      [op |-> "ftruncate", fd |-> 0, len |-> 0],
                      Close(0)}>>],
     io |->
        [fs |-> Base, rootWritable |-> TRUE, left |-> <<5, 0>>,
         calls |-> <<{Open(A, {"rdwr"}), Open(DA, {"rdwr", "append"}),
                      [op |-> "write", fd |-> 0, buf |-> <<5, 6>>],
                      [op |-> "sendfile", fd |-> 1, in |-> 0, count |-> 2],
                      [op |-> "copy", fd |-> 1, in |-> 0, count |-> 1],
                      [op |-> "lseek", fd |-> 0, off |-> 0, whence |-> "set"],
                      [op |-> "lseek", fd |-> 0, off |-> -1, whence |-> "end"],
                      [op |-> "lseek", fd |-> 0, off |-> 0, whence |-> "hole"],
                      [op |-> "read", fd |-> 0, count |-> 1],
                      [op |-> "setfl", fd |-> 0, on |-> TRUE],
                      [op |-> "pwritev", fd |-> 0, off |-> 1, bufs |-> <<<<1>>, <<2, 3>>>>],
                      [op |-> "fallocate", fd |-> 0, punch |-> FALSE, off |-> 1, len |-> 2],
                      [op |-> "truncate", path |-> A, len |-> 1]},
                     {}>>],
     inherit |->
        [fs |-> Base, rootWritable |-> TRUE, left |-> <<5, 2>>,
         calls |-> <<{Open(A, {"rdwr", "cloexec"}), Open(D, {"directory"}), Fork(2), Thread(2),
                      [op |-> "dup", fd |-> 0, min |-> 2, cloexec |-> FALSE],
                      FLock(0, "ex", TRUE), [op |-> "exec"], [op |-> "unlink", path |-> A],
                      [op |-> "dup2", fd |-> 0, new |-> 1, cloexec |-> TRUE, dup3 |-> TRUE],
                      [op |-> "close_range", first |-> 1, last |-> 2, flag |-> "none"],
                      [op |-> "exit_group"]},
                     {[op |-> "exec"], [op |-> "setfd", fd |-> 0, on |-> FALSE],
                      [op |-> "close_range", first |-> 0, last |-> 2, flag |-> "cloexec"],
                      [op |-> "lease", fd |-> 0, typ |-> "w"], [op |-> "exit"]}>>]]
MCCases == LET cases == AllCases IN cases

-----------------------------------------------------------------------------
(* A lower layer with a directory, a file in it and one beside it.         *)

Filled(s, p) == WriteAt(Create(s, p, 2).fs, p, 0, <<7>>, 0).fs
LowerTree == SetXattr(Filled(Filled(Mkdir(NewTmpfs(Limit), <<1>>).fs, <<1, 1>>), <<2>>), <<2>>, 1, 1).fs
OverlaySlacks == {0, 1, NoMemory}
Ask(op, p, q, n, x) == [op |-> op, p |-> p, q |-> q, n |-> n, x |-> x]
Each(op, S) == {Ask(op, p, Root, 0, 0) : p \in S}
Pairs(op, S) == {Ask(op, p, q, 0, 0) : p \in S, q \in S}
AA == <<1, 1>>
AB == <<1, 2>>
Writes(S) == {Ask("write", p, Root, 0, <<1>>) : p \in S}
BA == <<2, 1>>
CA == <<3, 1>>
AllOverlays ==
  [names |-> [lower |-> LowerTree, limit |-> 1000, plain |-> TRUE, steps |-> 4,
              calls |-> Each("create", {AA, B}) \cup Each("unlink", {AA, AB, B}) \cup Writes({AA, B})
                          \cup Pairs("rename", {AA, AB, B})],
   links |-> [lower |-> LowerTree, limit |-> 1000, plain |-> TRUE, steps |-> 4,
              calls |-> Each("unlink", {AA, AB, B}) \cup Writes({AA, AB, B})
                          \cup Pairs("link", {AA, AB, B})],
   dirs |-> [lower |-> LowerTree, limit |-> 1000, plain |-> TRUE, steps |-> 6,
             calls |-> Each("mkdir", {A, B}) \cup Each("rmdir", {A, B}) \cup Each("create", {A, AA, AB, BA})
                   \cup Each("unlink", {A, B, AA, AB, BA})],
   moves |-> [lower |-> LowerTree, limit |-> 1000, plain |-> TRUE, steps |-> 5,
              calls |-> Pairs("rename", {A, <<3>>}) \cup Writes({AA, CA}) \cup Each("mkdir", {A})
                          \cup Each("unlink", {AA, CA}) \cup Each("create", {AB})],
   attrs |-> [lower |-> LowerTree, limit |-> 1000, plain |-> TRUE, steps |-> 3,
              calls |-> Each("symlink", {AA, AB}) \cup {Ask("mknod", AB, Root, 0, t) : t \in {"file", "fifo", "dev"}}
                   \cup {Ask("chmod", p, Root, 3, 0) : p \in {A, B}} \cup Each("chown", {A}) \cup Each("utimes", {AA})
                   \cup {Ask("setxattr", p, Root, n, 1) : p \in {A, B}, n \in {1, 2}}
                   \cup {Ask("removexattr", p, Root, 0, 1) : p \in {A, B}}
                   \cup {Ask("truncate", p, Root, n, 0) : p \in {A, B}, n \in {0, 3}}],
   quota |-> [lower |-> LowerTree, limit |-> 16, plain |-> FALSE, steps |-> 3,
              calls |-> Each("create", {<<1, 3>>, BA}) \cup Each("unlink", {AA, B}) \cup Each("rmdir", {B})
                   \cup Pairs("rename", {A, AB, B}) \cup Pairs("link", {AB, B})
                   \cup {Ask("setxattr", B, Root, n, 1) : n \in {1, 2}}
                   \cup {Ask("truncate", B, Root, n, 0) : n \in {0, 1, 3}}
                   \cup {Ask("write", B, Root, 2, <<1>>), Ask("write", AA, Root, 4, <<1>>)}]
  ]
SmallOverlays == LET cases == AllOverlays IN cases
=============================================================================
