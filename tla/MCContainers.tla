---------------------------- MODULE MCContainers ----------------------------
(***************************************************************************)
(* The workloads of Containers for model checking: one container technique *)
(* each, with the tasks that race in it.                                   *)
(***************************************************************************)
EXTENDS Containers

Dir == [kind |-> "dir", abs |-> FALSE, to |-> << >>]
Reg == [kind |-> "file", abs |-> FALSE, to |-> << >>]
Link(to) == [kind |-> "link", abs |-> TRUE, to |-> to]
Disk(dirs, files) == [p \in {<< >>} \cup dirs \cup files |-> IF p \in files THEN Reg ELSE Dir]
Ids(v) == [x \in {"uid", "gid"} |-> [r |-> v, e |-> v, s |-> v, f |-> v]]
NoNs == [x \in {"user", "uts", "ipc", "net", "mnt", "cgroup", "pid", "pidc", "time", "timec"} |-> 0]
Task(t, mnt, uid) ==
    [tgid |-> t, parent |-> IF t = 1 THEN 0 ELSE 1, thread |-> FALSE, run |-> "run", killed |-> FALSE,
     frozen |-> FALSE, ns |-> [NoNs EXCEPT !.mnt = mnt], ids |-> Ids(uid), nsCaps |-> FALSE,
     root |-> << >>, exe |-> << >>, files |-> t, fs |-> t]
Boot(tasks, lists, disks, left) ==
    [procs |-> tasks, files |-> [t \in DOMAIN tasks |-> << >>], cwds |-> [t \in DOMAIN tasks |-> << >>],
     disks |-> disks, uts |-> [n \in {0} |-> 0], nextNs |-> 10, nextPid |-> 1 + Max(DOMAIN tasks),
     users |-> [table |-> << >>, owners |-> << >>], pids |-> << >>, cg |-> NewTree,
     mt |-> [lists |-> lists, cur |-> 0, root |-> << >>, pivots |-> 0, detached |-> 0, groups |-> 1,
            apart |-> {}],
     left |-> [t \in 1..MaxPid |-> IF t \in DOMAIN left THEN left[t] ELSE 0],
     unborn |-> {}, out |-> "ok"]
For(calls) == [t \in 1..MaxPid |-> IF t \in DOMAIN calls THEN calls[t] ELSE {}]

Open(fd, p) == [op |-> "open", fd |-> fd, path |-> p]
Umount(p, detach) == [op |-> "umount", path |-> p, detach |-> detach]
MountTmp(p) == [op |-> "mount", path |-> p, fstype |-> "tmpfs"]
Clone(flags) == [op |-> "clone", flags |-> flags, into |-> None, mem |-> TRUE]
Unshare(flags) == [op |-> "unshare", flags |-> flags]
Setns(kind, who) == [op |-> "setns", kind |-> kind, who |-> who]
Op(name) == [op |-> name]

\* A container's root is made ready at /1 and pivoted to, the old one dropped,
\* while another task of the namespace has files open.
RootDisk == Disk({<<1>>, <<5>>}, {<<3>>})
NewDisk == Disk({<<2>>}, {<<4>>})
TmpDisk == Disk({}, {<<6>>})
PivotDisks == <<RootDisk, NewDisk, TmpDisk>>
PivotList == <<Mount(<< >>, 1, FALSE), Mount(<<5>>, 3, TRUE), Mount(<<1>>, 2, TRUE)>>
PivotCase ==
    [start |-> Boot([t \in {1, 2} |-> Task(t, 1, 0)], [n \in {0, 1} |-> PivotList], PivotDisks, <<6, 3>>),
     calls |-> For(<<{Open(0, <<3>>), Open(1, <<1, 4>>), [op |-> "chdir", path |-> <<1>>],
                      [op |-> "pivot", path |-> <<1>>, old |-> <<1, 2>>],
                      Umount(<<2>>, TRUE), [op |-> "close", fd |-> 0]},
                     {Open(0, <<5, 6>>), Open(1, <<3>>), [op |-> "chdir", path |-> <<5>>]}>>)]
\* Two mount namespaces; a task takes its open files from one to the other.
JoinCase ==
    [start |-> Boot([t \in {1, 2} |-> Task(t, t, 0)],
                    [n \in {0, 1, 2} |-> <<Mount(<< >>, 1, FALSE), Mount(<<5>>, IF n = 2 THEN 2 ELSE 3, TRUE)>>],
                    PivotDisks, <<4, 3>>),
     calls |-> For(<<{Open(0, <<5, 6>>), Open(1, <<3>>), Setns("mnt", 2), Umount(<<5>>, TRUE),
                      Clone({}), [op |-> "close", fd |-> 1]},
                     {Open(0, <<5, 4>>), Setns("mnt", 1), Unshare({"mnt", "files", "fs"}), Umount(<<5>>, TRUE),
                      [op |-> "chroot", path |-> <<1>>]}>>)]
\* Files open where a namespace's mounts come and go by calls that rewrite no
\* path, and in a table that two tasks share.
HeldCase ==
    [start |-> [Boot([t \in 1..3 |-> Task(t, 1, 0)], [n \in {0, 1} |-> PivotList], PivotDisks, <<3, 2, 2>>)
                    EXCEPT !.procs[3].files = 2],
     calls |-> For(<<{Open(0, <<5, 6>>), Umount(<<5>>, FALSE), Umount(<<5>>, TRUE), MountTmp(<<5>>),
                      [op |-> "move", src |-> <<5>>, path |-> <<1, 2>>],
                      [op |-> "pivot", path |-> <<1>>, old |-> <<1, 2>>]},
                     {Open(0, <<5, 6>>), Open(1, <<1, 4>>), Open(2, <<3>>),
                      [op |-> "pivot", path |-> <<1>>, old |-> <<1, 2>>]},
                     {Umount(<<5>>, TRUE), Open(0, <<3>>), Unshare({"mnt"}), Op("exit")}>>)]
\* Shared mounts, in two namespaces.
SharedRoot == <<[Mount(<< >>, 1, FALSE) EXCEPT !.peer = 1]>>
Propagate(p, kind, rec) == [op |-> "propagate", path |-> p, kind |-> kind, rec |-> rec]
SharedCase ==
    [start |-> Boot([t \in 1..4 |-> Task(t, IF t = 2 THEN 1 ELSE 0, 0)], [n \in {0, 1} |-> SharedRoot],
                    <<Disk({<<1>>, <<1, 2>>, <<5>>}, {})>>, <<2, 3, 1, 1>>),
     calls |-> For(<<{Umount(<<1, 2>>, FALSE), Umount(<<5, 2>>, TRUE), Propagate(<<5>>, "slave", FALSE),
                      Open(0, <<5, 2>>), Umount(<<5>>, TRUE), [op |-> "move", src |-> <<1, 2>>, path |-> <<5>>]},
                     {Umount(<<1, 2>>, TRUE), Umount(<<5, 2>>, FALSE), Unshare({"mnt"}),
                      Propagate(<<5>>, "private", TRUE), Propagate(<<5>>, "shared", FALSE)},
                     {MountTmp(<<1, 2>>)}, {[op |-> "bind", src |-> <<1>>, path |-> <<5>>, rec |-> TRUE]}>>)]
\* Cgroups: two levels, tasks born into them, moved, frozen and killed.
OneRoot == [n \in {0} |-> <<Mount(<< >>, 1, FALSE)>>]
OneDisk == <<Disk({<<1>>}, {})>>
Cg(op, node) == [op |-> op, node |-> node]
Under(op, node, x, v) == [y \in {"op", "node", x} |-> IF y = "op" THEN op ELSE IF y = "node" THEN node ELSE v]
Tree2 == CgMkdir(CgMkdir(NewTree, 0, 1).c, 1, 1).c
CgroupCase ==
    [start |-> [Boot([t \in {1} |-> Task(1, 0, 0)], OneRoot, OneDisk, <<4, 2, 1>>) EXCEPT
                    !.cg = [Tree2 EXCEPT !.nodes[0].tasks = 1, !.nodes[0].live = 1]],
     calls |-> For(<<{Clone({}), [Clone({}) EXCEPT !.into = 2], Op("wait"),
                      [Clone({}) EXCEPT !.into = 2, !.mem = FALSE],
                      [op |-> "cgmove", node |-> 1, pid |-> 2, thread |-> FALSE],
                      [op |-> "cgmove", node |-> 0, pid |-> 2, thread |-> FALSE],
                      Under("cgfreeze", 1, "on", TRUE), Under("cgfreeze", 2, "on", TRUE),
                      Under("cgfreeze", 2, "on", FALSE), Cg("cgkill", 1), Cg("cgrmdir", 2)},
                     {Clone({"thread", "files", "fs"}), Clone({}), Op("exit"),
                      [op |-> "cgmove", node |-> 2, pid |-> 0, thread |-> FALSE]},
                     {Op("exit"), [op |-> "cgmove", node |-> 2, pid |-> 0, thread |-> FALSE]}>>)]
\* Cgroup limits, controllers handed down, and cgroup namespaces.
LimitCase ==
    [start |-> [CgroupCase.start EXCEPT !.left = [t \in 1..MaxPid |-> IF t = 1 THEN 6 ELSE IF t = 2 THEN 2 ELSE 0]],
     calls |-> For(<<{Clone({"cgroup"}), Op("cgread"), Op("wait"),
                      [op |-> "cgmkdir", node |-> 1, name |-> 2],
                      [op |-> "cglimit", node |-> 1, file |-> "pids.max", v |-> 1],
                      [op |-> "cglimit", node |-> 1, file |-> "max.descendants", v |-> 1],
                      [op |-> "cglimit", node |-> 0, file |-> "max.depth", v |-> 2],
                      Under("cgsubtree", 0, "on", TRUE), Under("cgsubtree", 1, "on", TRUE),
                      Under("cgsubtree", 0, "on", FALSE),
                      [op |-> "cgmove", node |-> 1, pid |-> 0, thread |-> FALSE],
                      [op |-> "cgmove", node |-> 2, pid |-> 2, thread |-> FALSE],
                      [op |-> "cgmove", node |-> 2, pid |-> 2, thread |-> TRUE]},
                     {Op("exit"), Clone({}), Cg("cgrmdir", 2)}>>)]
\* PID namespaces, nested, whose inits exit.
PidCase ==
    [start |-> [Boot([t \in {1} |-> Task(1, 0, 0)], OneRoot, OneDisk, <<3, 3, 2, 1>>) EXCEPT
                    !.procs[1].ns.pidc = 10, !.nextNs = 11, !.users.owners = Set(@, 10, 0),
                    !.pids = CreatePidNs(@, 10, 0)],
     calls |-> For(<<{Clone({}), Setns("pid", 2), Setns("pid", 3), Op("wait")},
                     {Clone({}), Clone({"pidc"}), Unshare({"pidc"}), Op("wait"), Op("exit"),
                      Clone({"thread", "files", "fs"})},
                     {Clone({}), Op("exit"), Clone({"pidc"})},
                     {Op("exit"), Clone({})}, {Op("exit")}>>)]
\* User namespaces: maps written from inside and outside, then ids taken on.
Ext(i, o, n) == [inside |-> i, outside |-> o, count |-> n]
IdMapCall(who, kind, ext) == [op |-> "idmap", who |-> who, kind |-> kind, ext |-> ext]
UserCase ==
    [start |-> Boot([t \in {1, 2} |-> Task(t, 0, IF t = 1 THEN 0 ELSE 1)], OneRoot, OneDisk, <<2, 5>>),
     calls |-> For(<<{IdMapCall(2, "uid", <<Ext(0, 1, 2), Ext(3, 4, 1)>>),
                      IdMapCall(2, "gid", <<Ext(0, 0, 3)>>), IdMapCall(2, "uid", <<Ext(0, 1, 1), Ext(0, 2, 1)>>),
                      [op |-> "setgroups", who |-> 2, text |-> "deny"]},
                     {Unshare({"user"}), Unshare({"user", "uts"}), Clone({"user"}),
                      IdMapCall(2, "uid", <<Ext(0, 1, 1)>>), IdMapCall(2, "uid", <<Ext(0, 2, 1)>>),
                      IdMapCall(2, "gid", <<Ext(0, 1, 1)>>),
                      [op |-> "setgroups", who |-> 2, text |-> "deny"],
                      [op |-> "setgroups", who |-> 2, text |-> "allow"],
                      [op |-> "sethostname", name |-> 1],
                      [op |-> "setres", kind |-> "uid", r |-> IdMax, e |-> 1, s |-> 2],
                      [op |-> "setres", kind |-> "uid", r |-> 1, e |-> 0, s |-> 0],
                      [op |-> "setre", kind |-> "uid", r |-> 1, e |-> IdMax],
                      [op |-> "setid", kind |-> "uid", v |-> 1], [op |-> "setid", kind |-> "gid", v |-> 0],
                      [op |-> "setfs", kind |-> "uid", v |-> 2], Setns("user", 3)}>>)]
\* Everything at once: the mounts a new user namespace inherits are locked.
LockedCase ==
    [start |-> Boot([t \in {1} |-> Task(1, 0, 1)], [n \in {0} |-> PivotList], PivotDisks, <<5>>),
     calls |-> For(<<{Unshare({"user", "mnt"}), Umount(<<5>>, TRUE), Umount(<<5>>, FALSE), MountTmp(<<5>>),
                      [op |-> "move", src |-> <<5>>, path |-> <<1, 2>>],
                      [op |-> "mount", path |-> <<5>>, fstype |-> "accepted"],
                      [op |-> "mount", path |-> <<5>>, fstype |-> "ext4"],
                      [op |-> "remount", path |-> <<5>>, ro |-> TRUE],
                      [op |-> "remount", path |-> <<5>>, ro |-> FALSE]}>>)]
AllCases == [pivot |-> PivotCase, join |-> JoinCase, held |-> HeldCase, shared |-> SharedCase, cgroup |-> CgroupCase,
             limit |-> LimitCase, pid |-> PidCase, user |-> UserCase, locked |-> LockedCase]
CtrCases == LET cases == AllCases IN cases
=============================================================================
