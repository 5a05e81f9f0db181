------------------------------- MODULE Files -------------------------------
(***************************************************************************)
(* Open files (src/kernel/{fd,fcntl,orphan}.rs and the file calls of       *)
(* mod.rs and fs_ext.rs) over one tmpfs mount.  A handler maps the state   *)
(* `k` of the kernel and the calling task to the state it leaves, with the *)
(* outcome in k.out.  Fields of k used here:                               *)
(*   fs       the filesystem                                               *)
(*   tables   id -> [map: fd -> descriptor, cloexec, lease]; a descriptor  *)
(*            names its file by path and shares an open file description   *)
(*   ofds     description -> [pos, append, ino]; ino, the file opened, is  *)
(*            history: the code keeps none                                 *)
(*   orphans, seq, memfds   hidden names of unlinked files, name counters  *)
(*   stale    history: hidden names that a linkat took from other tables   *)
(*   records, flocks, seals the locks (keyed by inode) and memfd seals     *)
(*   procs    task -> [tgid, files, run, parked, call, wait]               *)
(* Offsets are small numbers; I64Max stands for i64::MAX.                  *)
(***************************************************************************)
EXTENDS Tmpfs, Integers, TLC

CONSTANTS OfdIds,       \* addresses of open file descriptions
          I64Max,
          FsizeLimit    \* RLIMIT_FSIZE of every process
ToEof == 2 * I64Max + 1 \* u64::MAX

Answer(k, e) == [k EXCEPT !.out = e]
FsAnswer(k, r) == [k EXCEPT !.fs = r.fs, !.out = r.err]
UnparkAll(k) == [k EXCEPT !.procs = [t \in DOMAIN @ |-> [@[t] EXCEPT !.parked = FALSE]]]
Alive(k) == {t \in DOMAIN k.procs : k.procs[t].run = "running"}

\* --------------------------------------------------- descriptor tables
Table(k, t) == k.tables[k.procs[t].files]
IsOpen(k, t, n) == n \in DOMAIN Table(k, t).map
FdOf(k, t, n) == Table(k, t).map[n]
IsFile(k, t, n) == IsOpen(k, t, n) /\ FdOf(k, t, n).kind = "file"
PutTable(k, t, tab) == [k EXCEPT !.tables[k.procs[t].files] = tab]
EmptyTable == [map |-> << >>, cloexec |-> {}, lease |-> << >>]

\* alloc_from: the lowest free number from min up.
LowestFree(tab, min) ==
    CHOOSE n \in min..(min + Cardinality(DOMAIN tab.map)) :
        n \notin DOMAIN tab.map /\ \A m \in min..(n - 1) : m \in DOMAIN tab.map
Alloc(tab, f, min) == [tab EXCEPT !.map = Set(@, LowestFree(tab, min), f)]
\* insert, set_cloexec and close
Insert(tab, n, f) ==
    [map |-> Set(tab.map, n, f), cloexec |-> tab.cloexec \ {n}, lease |-> Without(tab.lease, {n})]
SetCloexec(tab, n, on) ==
    IF n \notin DOMAIN tab.map THEN tab
    ELSE [tab EXCEPT !.cloexec = IF on THEN @ \cup {n} ELSE @ \ {n}]
CloseFd(tab, n) ==
    [map |-> Without(tab.map, {n}), cloexec |-> tab.cloexec \ {n}, lease |-> Without(tab.lease, {n})]

\* FileOffset::refs: the descriptors of every table that share description o.
Refs(k, o) ==
    Cardinality({d \in UNION {{i} \X DOMAIN k.tables[i].map : i \in DOMAIN k.tables} :
                    LET f == k.tables[d[1]].map[d[2]] IN f.kind = "file" /\ f.ofd = o})
\* An Arc is freed with its last descriptor.
FreeOfds(k) == [k EXCEPT !.ofds = Without(@, {o \in DOMAIN @ : Refs(k, o) = 0})]
\* FileOffset::new: the allocator may hand out an address just freed.
NewOfd(k) == CHOOSE o \in OfdIds \ DOMAIN k.ofds : \A p \in OfdIds \ DOMAIN k.ofds : o <= p
OpenFile(k, t, path, r, w, append, cloexec) ==
    LET o == NewOfd(k)
        tab == Table(k, t)
        f == [kind |-> "file", path |-> path, ofd |-> o, r |-> r, w |-> w]
    IN  Answer(PutTable([k EXCEPT !.ofds = Set(@, o, [pos |-> 0, append |-> append,
                                                      ino |-> Ino(k.fs, path)])],
                        t, SetCloexec(Alloc(tab, f, 0), LowestFree(tab, 0), cloexec)), "ok")

\* ------------------------------------------------------ locks and seals
\* lock_key: the inode behind a path, if it exists.
LockKey(k, path) == IF Exists(k.fs, path) THEN {Ino(k.fs, path)} ELSE {}
\* conflict
Conflicts(k, key, owner, write, start, end) ==
    {l \in k.records : l.key = key /\ l.owner # owner /\ l.start < end /\ start < l.end
                        /\ (write \/ l.write)}
\* Mutant: a lock is replaced only where the range covers all of it.
SetLockWhole(records, key, owner, typ, start, end) ==
    LET hit == {l \in records : l.key = key /\ l.owner = owner /\ start <= l.start /\ l.end <= end}
        new == [key |-> key, owner |-> owner, write |-> typ = "w", start |-> start, end |-> end]
    IN  (records \ hit) \cup (IF typ = "u" THEN {} ELSE {new})
\* set: the owner's own locks are trimmed around the range, then replaced.
SetLock(records, key, owner, typ, start, end) ==
    LET hit == {l \in records : l.key = key /\ l.owner = owner /\ start < l.end /\ l.start < end}
        left == {[l EXCEPT !.end = start] : l \in {x \in hit : x.start < start}}
        right == {[l EXCEPT !.start = end] : l \in {x \in hit : end < x.end}}
        new == [key |-> key, owner |-> owner, write |-> typ = "w", start |-> start, end |-> end]
    IN  (records \ hit) \cup left \cup right \cup (IF typ = "u" THEN {} ELSE {new})
\* Mutant: the locks go, their waiters sleep on.
ReleaseFdLocksSilently(k, t, f) ==
    LET last == Refs(k, f.ofd) = 0
        mine(x) == x.key \in LockKey(k, f.path)
    IN  IF f.kind # "file" THEN k
        ELSE [k EXCEPT !.records = {l \in @ : ~(mine(l) /\ (l.owner = <<"process", k.procs[t].tgid>>
                                                \/ (last /\ l.owner = <<"ofd", f.ofd>>)))},
                       !.flocks = {l \in @ : ~(mine(l) /\ last /\ l.ofd = f.ofd)}]
\* release_fd_locks_with, for a descriptor just removed from task t's table;
\* a file that no longer has a name there has no key, and every key matches.
ReleaseFdLocks(k, t, f) ==
    LET key == LockKey(k, f.path)
        last == Refs(k, f.ofd) = 0
        mine(x) == key = {} \/ x.key \in key
        recs == {l \in k.records : mine(l) /\ (l.owner = <<"process", k.procs[t].tgid>>
                                               \/ (last /\ l.owner = <<"ofd", f.ofd>>))}
        fls == {l \in k.flocks : mine(l) /\ last /\ l.ofd = f.ofd}
        freed == [k EXCEPT !.records = @ \ recs, !.flocks = @ \ fls]
    IN  IF f.kind # "file" THEN k
        ELSE IF recs \cup fls = {} THEN k ELSE UnparkAll(freed)
\* release_process_locks
ReleaseProcessLocks(k, tgid) ==
    LET gone == {l \in k.records : l.owner = <<"process", tgid>>}
    IN  IF gone = {} THEN k ELSE UnparkAll([k EXCEPT !.records = @ \ gone])

Seals(k, path) == IF path \in DOMAIN k.seals THEN k.seals[path] ELSE {}
Size(k, path) == IF KindAt(k.fs, path) = "file" THEN Len(Data(k.fs, path)) ELSE 0
SealBlocksWrite(k, path, off, len) ==
    \/ Seals(k, path) \cap {"write", "future_write"} # {}
    \/ "grow" \in Seals(k, path) /\ off + len > Size(k, path)
SealBlocksTruncate(k, path, len) ==
    \/ "shrink" \in Seals(k, path) /\ len < Size(k, path)
    \/ "grow" \in Seals(k, path) /\ len > Size(k, path)

\* ------------------------------------------- orphans: open, yet unlinked
\* names: the path itself or something below it.
Names(p, path) == Under(path, p)
HasPath(f) == f.kind \in {"file", "dir"}
PathIsOpen(k, path) ==
    \E i \in DOMAIN k.tables : \E n \in DOMAIN k.tables[i].map :
        LET f == k.tables[i].map[n] IN HasPath(f) /\ Names(f.path, path)
RepointTable(tab, from, to) ==
    [tab EXCEPT !.map = [n \in DOMAIN @ |->
        IF HasPath(@[n]) /\ Names(@[n].path, from) THEN [@[n] EXCEPT !.path = Rebase(@, from, to)]
        ELSE @[n]]]
Repoint(k, from, to) ==
    [k EXCEPT !.tables = [i \in DOMAIN @ |-> RepointTable(@[i], from, to)]]
\* orphan_homes: a hidden name at the mount's root and one in the directory;
\* both sequence numbers are spent.
OrphanHomes(k, dir) == <<Append(Root, 100 + k.seq), Append(dir, 101 + k.seq)>>
\* orphan_move.  The root refuses when only a subtree of the mount is writable.
OrphanMove(k, path) ==
    LET homes == OrphanHomes(k, Parent(path))
        hidden == IF k.rootWritable THEN homes[1] ELSE homes[2]
        r == Rename(k.fs, path, hidden)
    IN  [err |-> r.err, hidden |-> hidden, k |-> [k EXCEPT !.fs = r.fs, !.seq = @ + 2]]
\* orphan_move, repoint and the insertion into the set of orphans.
MakeOrphan(k, path) ==
    LET named(m) == [Repoint(m.k, path, m.hidden) EXCEPT !.orphans = @ \cup {m.hidden}]
        done(m) == IF m.err # "ok" THEN m ELSE [m EXCEPT !.k = named(m)]
    IN  done(OrphanMove(k, path))
\* reap_orphans
Reap(k) ==
    LET dead == {o \in k.orphans : ~PathIsOpen(k, o)}
    IN  [k EXCEPT !.fs = FoldSet(LAMBDA o, s : Unlink(s, o).fs, @, dead), !.orphans = @ \ dead]

\* sys_unlink_keep_open (unlink) and sys_unlinkat with AT_REMOVEDIR (rmdir)
SysUnlink(k, t, path) ==
    LET answer(m) == Answer(m.k, m.err)
    IN  IF KindAt(k.fs, path) \notin {"dir", "none"} /\ PathIsOpen(k, path)
        THEN answer(MakeOrphan(k, path)) ELSE FsAnswer(k, Unlink(k.fs, path))
SysRmdir(k, t, path) ==
    FsAnswer(k, Rmdir(k.fs, path))
SysMkdir(k, t, path) ==
    FsAnswer(k, Mkdir(k.fs, path))

\* sys_renameat: RENAME_EXCHANGE swaps through a temporary name, and stops
\* where one of the three renames fails.
SysRenameat(k, from, to, flag) ==
    LET tmp == Append(Parent(to), 300)
        move(r, p) == IF r.err # "ok" THEN Done("EIO", r.fs) ELSE Rename(r.fs, p[1], p[2])
        swapped == FoldLeft(move, Done("ok", k.fs), <<<<from, tmp>>, <<to, from>>, <<tmp, to>>>>)
        io(r) == IF r.err # "ok" THEN Done("EIO", r.fs) ELSE r
    IN  IF flag = "noreplace" /\ Exists(k.fs, to) THEN Answer(k, "EEXIST")
        ELSE IF flag = "exchange"
        THEN IF ~Exists(k.fs, from) \/ ~Exists(k.fs, to) THEN Answer(k, "ENOENT")
             ELSE FsAnswer(k, io(swapped))
        ELSE FsAnswer(k, Rename(k.fs, from, to))
\* sys_rename_keep_open: an open file about to be replaced becomes an orphan
\* before the rename is tried.
SysRename(k, t, from, to, flag) ==
    LET tmp == Append(Parent(to), 301)
        replaces == /\ flag # "noreplace"
                    /\ KindAt(k.fs, to) \notin {"dir", "none"}
                    /\ KindAt(k.fs, from) \notin {"dir", "none"}
                    /\ PathIsOpen(k, to)
        ready == IF replaces THEN MakeOrphan(k, to).k ELSE k
        named(s) ==
          IF s.out # "ok" THEN s
          ELSE IF flag = "exchange" THEN Repoint(Repoint(Repoint(s, from, tmp), to, from), tmp, to)
          ELSE IF from = to THEN s ELSE Repoint(s, from, to)
    IN  named(SysRenameat(IF from = to \/ flag = "exchange" THEN k ELSE ready, from, to, flag))

\* link_orphan (the caller's own table only) and sys_linkat; flags with
\* AT_EMPTY_PATH let `fd` name the source.
LinkOrphan(k, t, old, new) ==
    LET r == Rename(k.fs, old, new)
        tab == Table(k, t)
        named == [tab EXCEPT !.map = [n \in DOMAIN @ |->
                    IF @[n].kind = "file" /\ @[n].path = old THEN [@[n] EXCEPT !.path = new]
                    ELSE @[n]]]
    IN  IF Exists(k.fs, new) THEN Answer(k, "EEXIST")
        ELSE IF r.err # "ok" THEN Answer(k, r.err)
        ELSE Answer(PutTable([k EXCEPT !.fs = r.fs, !.orphans = @ \ {old},
                                       !.stale = @ \cup {old}], t, named), "ok")
SysLinkat(k, t, fd, path, new) ==
    LET old == IF fd = -1 THEN path ELSE FdOf(k, t, fd).path
        r == Link(k.fs, old, new)
    IN  IF fd # -1 /\ ~IsFile(k, t, fd) THEN Answer(k, "EBADF")
        ELSE IF old \in k.orphans THEN LinkOrphan(k, t, old, new)
        ELSE IF ~Exists(k.fs, old) THEN Answer(k, "ENOENT")
        ELSE IF KindAt(k.fs, old) = "dir" THEN Answer(k, "EPERM")
        ELSE IF Exists(k.fs, new) THEN Answer(k, "EEXIST")
        ELSE FsAnswer(k, r)

\* ---------------------------------------------------------- file contents
\* vfs_write and vfs_truncate: seals first, then the backend.
VfsWrite(k, path, off, buf) ==
    LET r == WriteAt(k.fs, path, off, buf, 0)
    IN  IF SealBlocksWrite(k, path, off, Len(buf)) THEN Done("EPERM", k.fs) ELSE r
VfsTruncate(k, path, len) ==
    IF SealBlocksTruncate(k, path, len) THEN Done("EPERM", k.fs)
    ELSE Truncate(k.fs, path, len, 0, 0)
VfsRead(k, path, off, count) ==
    LET d == Data(k.fs, path)
    IN  IF KindAt(k.fs, path) # "file" THEN << >>
        ELSE SubSeq(d, off + 1, Min({Len(d), off + count}))

\* fsize_allows: how much of a write at pos may proceed (-1: EFBIG).
FsizeAllows(pos, count) ==
    IF count = 0 THEN 0 ELSE IF pos >= FsizeLimit THEN -1 ELSE Min({count, FsizeLimit - pos})

MovePos(k, o, pos) == [k EXCEPT !.ofds[o].pos = pos]
\* read_file_fd
SysRead(k, t, fd, count) ==
    LET f == FdOf(k, t, fd)
        got == VfsRead(k, f.path, k.ofds[f.ofd].pos, count)
    IN  IF ~IsFile(k, t, fd) \/ ~f.r THEN Answer(k, "EBADF")
        ELSE IF ~Exists(k.fs, f.path) THEN Answer(k, "ENOENT")
        ELSE Answer(MovePos(k, f.ofd, k.ofds[f.ofd].pos + Len(got)), "ok")
\* write_file_fd: O_APPEND writes at the end of file.
SysWrite(k, t, fd, buf) ==
    LET f == FdOf(k, t, fd)
        d == k.ofds[f.ofd]
        off == IF d.append THEN Size(k, f.path) ELSE d.pos
        n == FsizeAllows(off, Len(buf))
        r == VfsWrite(k, f.path, off, SubSeq(buf, 1, n))
    IN  IF ~IsFile(k, t, fd) \/ ~f.w THEN Answer(k, "EBADF")
        ELSE IF n = -1 THEN Answer(k, "EFBIG")
        ELSE IF r.err # "ok" THEN Answer(k, r.err)
        ELSE Answer(MovePos([k EXCEPT !.fs = r.fs], f.ofd, off + n), "ok")
\* sys_pwrite (the limit is checked before the descriptor)
SysPwrite(k, t, fd, off, buf) ==
    LET f == FdOf(k, t, fd)
        n == FsizeAllows(off, Len(buf))
        r == VfsWrite(k, f.path, off, SubSeq(buf, 1, n))
    IN  IF n = -1 THEN Answer(k, "EFBIG")
        ELSE IF ~IsFile(k, t, fd) THEN Answer(k, "ESPIPE")
        ELSE IF ~f.w THEN Answer(k, "EBADF")
        ELSE FsAnswer(k, r)
\* sys_pwritev: piece by piece, ending with the first short or failing one.
SysPwritev(k, t, fd, off, bufs) ==
    LET piece(s, b) ==
            LET r == SysPwrite(s.k, t, fd, s.off, b)
                n == IF r.out = "ok" THEN FsizeAllows(s.off, Len(b)) ELSE 0
            IN  IF s.over THEN s
                ELSE [k |-> IF s.off > off THEN Answer(r, "ok") ELSE r,
                      off |-> s.off + n, over |-> n < Len(b)]
    IN  FoldLeft(piece, [k |-> k, off |-> off, over |-> FALSE], bufs).k
SysFtruncate(k, t, fd, len) ==
    LET f == FdOf(k, t, fd)
        r == VfsTruncate(k, f.path, len)
    IN  IF FsizeAllows(len, 1) = -1 THEN Answer(k, "EFBIG")
        ELSE IF ~IsFile(k, t, fd) \/ ~f.w THEN Answer(k, "EBADF")
        ELSE FsAnswer(k, r)
SysTruncate(k, t, path, len) ==
    LET r == VfsTruncate(k, path, len)
    IN  IF FsizeAllows(len, 1) = -1 THEN Answer(k, "EFBIG")
        ELSE FsAnswer(k, r)
\* sys_fallocate: growing goes to the backend directly, unlike ftruncate.
SysFallocate(k, t, fd, punch, off, len) ==
    LET f == FdOf(k, t, fd)
        size == Size(k, f.path)
        end == Min({off + len, size})
        zeroed == VfsWrite(k, f.path, off, [i \in 1..(end - off) |-> 0])
        grown == Truncate(k.fs, f.path, off + len, 0, 0)
    IN  IF ~IsFile(k, t, fd) \/ ~f.w THEN Answer(k, "EBADF")
        ELSE IF punch
        THEN IF end <= off THEN Answer(k, "ok") ELSE FsAnswer(k, zeroed)
        ELSE IF off + len > size THEN FsAnswer(k, grown)
        ELSE Answer(k, "ok")
\* sys_sendfile (between files, without an offset pointer); the source's
\* position moves by what was written.
SysSendfile(k, t, out, in, count) ==
    LET src == FdOf(k, t, in)
        dst == FdOf(k, t, out)
        pos == k.ofds[src.ofd].pos
        buf == VfsRead(k, src.path, pos, count)
        r == VfsWrite(k, dst.path, k.ofds[dst.ofd].pos, buf)
        wrote == MovePos([k EXCEPT !.fs = r.fs], dst.ofd, k.ofds[dst.ofd].pos + Len(buf))
    IN  IF ~IsFile(k, t, in) THEN Answer(k, "EINVAL")
        ELSE IF ~src.r \/ ~IsFile(k, t, out) \/ ~dst.w THEN Answer(k, "EBADF")
        ELSE IF r.err # "ok" THEN Answer(k, r.err)
        ELSE Answer(MovePos(wrote, src.ofd, wrote.ofds[src.ofd].pos + Len(buf)), "ok")
\* sys_copy_file_range with both positions taken from the descriptions.
SysCopyFileRange(k, t, in, out, len) ==
    LET src == FdOf(k, t, in)
        dst == FdOf(k, t, out)
        buf == VfsRead(k, src.path, k.ofds[src.ofd].pos, len)
        r == VfsWrite(k, dst.path, k.ofds[dst.ofd].pos, buf)
        read == MovePos([k EXCEPT !.fs = r.fs], src.ofd, k.ofds[src.ofd].pos + Len(buf))
    IN  IF ~IsFile(k, t, in) \/ ~src.r \/ ~IsFile(k, t, out) \/ ~dst.w THEN Answer(k, "EBADF")
        ELSE IF r.err # "ok" THEN Answer(k, r.err)
        ELSE Answer(MovePos(read, dst.ofd, read.ofds[dst.ofd].pos + Len(buf)), "ok")
\* sys_lseek: whence is "set", "cur", "end", "data" or "hole".
SysLseek(k, t, fd, off, whence) ==
    LET f == FdOf(k, t, fd)
        size == Size(k, f.path)
        new == off + CASE whence = "set" -> 0 [] whence = "cur" -> k.ofds[f.ofd].pos
                       [] whence = "end" -> size [] OTHER -> 0
        to == IF whence = "hole" THEN size ELSE new
    IN  IF ~IsFile(k, t, fd) THEN Answer(k, "ESPIPE")
        ELSE IF whence \in {"data", "hole"} /\ (off < 0 \/ off >= size) THEN Answer(k, "ENXIO")
        ELSE IF new < 0 THEN Answer(k, "EINVAL")
        ELSE Answer(MovePos(k, f.ofd, to), "ok")

\* --------------------------------------------- opening, closing, copying
\* open_path for a path without symlinks; flags is a set of names.
SysOpen(k, t, path, flags) ==
    LET made == Create(k.fs, path, 0)
        cut == VfsTruncate(k, path, 0)
        kind == KindAt(k.fs, path)
        fs == IF kind = "none" THEN made.fs ELSE IF "trunc" \in flags THEN cut.fs ELSE k.fs
        k1 == [k EXCEPT !.fs = fs]
        writes == flags \cap {"wronly", "rdwr"} # {}
        dirfd == [kind |-> "dir", path |-> path]
        tab == Table(k, t)
    IN  IF kind = "none" /\ "creat" \notin flags
        THEN Answer(k, IF AncestorsAreDirs(k.fs, path) THEN "ENOENT" ELSE "ENOTDIR")
        ELSE IF kind = "none" /\ made.err # "ok" THEN Answer(k, made.err)
        ELSE IF kind # "none" /\ {"creat", "excl"} \subseteq flags THEN Answer(k, "EEXIST")
        ELSE IF "directory" \in flags /\ KindAt(fs, path) # "dir" THEN Answer(k1, "ENOTDIR")
        ELSE IF KindAt(fs, path) = "dir" /\ writes THEN Answer(k1, "EISDIR")
        ELSE IF KindAt(fs, path) = "dir"
        THEN Answer(PutTable(k1, t, SetCloexec(Alloc(tab, dirfd, 0), LowestFree(tab, 0),
                                               "cloexec" \in flags)), "ok")
        ELSE OpenFile(k1, t, path, "wronly" \notin flags, writes, "append" \in flags,
                      "cloexec" \in flags)
\* open_tmpfile
SysTmpfile(k, t, dir, flags) ==
    LET homes == OrphanHomes(k, dir)
        hidden == IF k.rootWritable THEN homes[1] ELSE homes[2]
        made == Create(k.fs, hidden, 0)
        k1 == [k EXCEPT !.seq = @ + 2]
    IN  IF flags \cap {"wronly", "rdwr"} = {} THEN Answer(k, "EINVAL")
        ELSE IF KindAt(k.fs, dir) # "dir"
        THEN Answer(k, IF Exists(k.fs, dir) THEN "ENOTDIR" ELSE "ENOENT")
        ELSE IF made.err # "ok" THEN Answer(k1, made.err)
        ELSE OpenFile([k1 EXCEPT !.fs = made.fs, !.orphans = @ \cup {hidden}], t, hidden,
                      "rdwr" \in flags, TRUE, FALSE, "cloexec" \in flags)
\* sys_memfd_create and memfd_register
SysMemfd(k, t, sealable, cloexec) ==
    LET path == Append(Root, 200 + k.memfds)
        made == Create(k.fs, path, 0)
        k1 == [k EXCEPT !.memfds = @ + 1]
    IN  IF made.err # "ok" THEN Answer(k1, "ENOSPC")
        ELSE OpenFile([k1 EXCEPT !.fs = made.fs, !.orphans = @ \cup {path},
                                 !.seals = Set(@, path, IF sealable THEN {} ELSE {"seal"})],
                      t, path, TRUE, TRUE, FALSE, cloexec)
\* fcntl_seals(F_ADD_SEALS)
SysAddSeals(k, t, fd, new) ==
    LET f == FdOf(k, t, fd)
    IN  IF ~IsOpen(k, t, fd) THEN Answer(k, "EBADF")
        ELSE IF f.kind # "file" \/ f.path \notin DOMAIN k.seals THEN Answer(k, "EINVAL")
        ELSE IF ~f.w \/ "seal" \in k.seals[f.path] THEN Answer(k, "EPERM")
        ELSE Answer([k EXCEPT !.seals[f.path] = @ \cup new], "ok")

\* The removal of one descriptor, with the locks that go with it.
Drop(k, t, fd) == ReleaseFdLocks(PutTable(k, t, CloseFd(Table(k, t), fd)), t, FdOf(k, t, fd))
\* The Close arm of dispatch_shared: close, release the locks, reap.
SysClose(k, t, fd) ==
    IF IsOpen(k, t, fd) THEN Answer(FreeOfds(Reap(Drop(k, t, fd))), "ok")
    ELSE Answer(Reap(k), "EBADF")
\* sys_close_range
SysCloseRange(k, t, first, last, flag) ==
    LET hit == {n \in DOMAIN Table(k, t).map : n \in first..last}
        marked == PutTable(k, t, [Table(k, t) EXCEPT !.cloexec = @ \cup hit])
        closed == FoldSet(LAMBDA n, s : Drop(s, t, n), k, hit)
    IN  IF first > last THEN Answer(k, "EINVAL")
        ELSE Answer(FreeOfds(Reap(IF flag = "cloexec" THEN marked ELSE closed)), "ok")
\* sys_dup, fcntl(F_DUPFD)
SysDup(k, t, fd, min, cloexec) ==
    LET tab == Table(k, t)
    IN  IF ~IsOpen(k, t, fd) THEN Answer(k, "EBADF")
        ELSE Answer(PutTable(k, t, SetCloexec(Alloc(tab, FdOf(k, t, fd), min), LowestFree(tab, min),
                                              cloexec)), "ok")
\* The Dup2/Dup3 arm with sys_dup2; the replaced descriptor's locks go last.
SysDup2(k, t, old, new, cloexec, dup3) ==
    LET tab == Table(k, t)
        placed == PutTable(k, t, SetCloexec(Insert(tab, new, FdOf(k, t, old)), new, cloexec))
        freed == IF IsOpen(k, t, new) THEN ReleaseFdLocks(placed, t, FdOf(k, t, new)) ELSE placed
    IN  IF dup3 /\ old = new THEN Answer(Reap(k), "EINVAL")
        ELSE IF ~IsOpen(k, t, old) THEN Answer(Reap(k), "EBADF")
        ELSE IF old = new THEN Answer(Reap(k), "ok")
        ELSE Answer(FreeOfds(Reap(freed)), "ok")
\* fcntl(F_SETFD), fcntl(F_SETFL) and fcntl(F_SETLEASE)
SysSetfd(k, t, fd, on) ==
    IF ~IsOpen(k, t, fd) THEN Answer(k, "EBADF")
    ELSE Answer(PutTable(k, t, SetCloexec(Table(k, t), fd, on)), "ok")
SysSetfl(k, t, fd, append) ==
    IF ~IsOpen(k, t, fd) THEN Answer(k, "EBADF")
    ELSE IF ~IsFile(k, t, fd) THEN Answer(k, "ok")
    ELSE Answer([k EXCEPT !.ofds[FdOf(k, t, fd).ofd].append = append], "ok")
SysSetlease(k, t, fd, typ) ==
    IF ~IsFile(k, t, fd) THEN Answer(k, IF IsOpen(k, t, fd) THEN "EINVAL" ELSE "EBADF")
    ELSE IF typ = "w" /\ Refs(k, FdOf(k, t, fd).ofd) > 1 THEN Answer(k, "EAGAIN")
    ELSE Answer(PutTable(k, t, [Table(k, t) EXCEPT !.lease = Set(@, fd, typ)]), "ok")

\* ------------------------------------------------------------- lock calls
Wrap64(x) == IF x < -(I64Max + 1) THEN x + 2 * (I64Max + 1) ELSE x
\* read_flock: [err, start, end] of a request relative to `base`.
ReadFlock(base, start, len) ==
    LET s == base + start
        low == IF len < 0 THEN Wrap64(s + len) ELSE s
        e == IF len = 0 THEN I64Max ELSE IF len > 0 THEN s + len ELSE s
    IN  [err |-> IF s > I64Max \/ (len > 0 /\ e > I64Max) THEN "EOVERFLOW"
                 ELSE IF low < 0 THEN "EINVAL" ELSE "ok",
         start |-> low, end |-> IF e = I64Max THEN ToEof ELSE e]
\* fcntl_lock: F_SETLK, F_SETLKW and their OFD forms.
SysLock(k, t, fd, ofd, typ, whence, start, len, wait) ==
    LET f == FdOf(k, t, fd)
        base == CASE whence = "set" -> 0 [] whence = "cur" -> k.ofds[f.ofd].pos
                  [] whence = "end" -> Size(k, f.path)
        r == ReadFlock(base, start, len)
        key == Ino(k.fs, f.path)
        owner == IF ofd THEN <<"ofd", f.ofd>> ELSE <<"process", k.procs[t].tgid>>
        new == [k EXCEPT !.records = SetLock(@, key, owner, typ, r.start, r.end)]
        want == [key |-> key, owner |-> owner, write |-> typ = "w", start |-> r.start, end |-> r.end]
    IN  IF ~IsOpen(k, t, fd) THEN Answer(k, "EBADF")
        ELSE IF f.kind # "file" THEN Answer(k, "ok")
        ELSE IF ~Exists(k.fs, f.path) THEN Answer(k, "EBADF")
        ELSE IF r.err # "ok" THEN Answer(k, r.err)
        ELSE IF (typ = "r" /\ ~f.r) \/ (typ = "w" /\ ~f.w) THEN Answer(k, "EBADF")
        ELSE IF typ # "u" /\ Conflicts(k, key, owner, typ = "w", r.start, r.end) # {}
        THEN IF wait THEN Answer([k EXCEPT !.procs[t].wait = {want}], "block")
             ELSE Answer(k, "EAGAIN")
        ELSE Answer(IF typ = "w" THEN new ELSE UnparkAll(new), "ok")
\* sys_flock: a description's own lock is converted, not queued behind.
SysFlock(k, t, fd, kind, nb) ==
    LET f == FdOf(k, t, fd)
        key == Ino(k.fs, f.path)
        ex == kind = "ex"
        own == {l \in k.flocks : l.key = key /\ l.ofd = f.ofd}
        held == {l \in k.flocks : l.key = key /\ l.ofd # f.ofd /\ (ex \/ l.ex)}
        mine == [key |-> key, ofd |-> f.ofd, ex |-> ex]
        new == [k EXCEPT !.flocks = (@ \ own) \cup (IF kind = "un" THEN {} ELSE {mine})]
    IN  IF ~IsOpen(k, t, fd) THEN Answer(k, "EBADF")
        ELSE IF f.kind # "file" THEN Answer(k, "ok")
        ELSE IF ~Exists(k.fs, f.path) THEN Answer(k, "EBADF")
        ELSE IF kind # "un" /\ held # {}
        THEN IF nb THEN Answer(k, "EAGAIN") ELSE Answer([k EXCEPT !.procs[t].wait = {mine}], "block")
        ELSE Answer(IF ex THEN new ELSE UnparkAll(new), "ok")

\* ------------------------------------------------------------- processes
\* do_clone: task `child` starts, in the caller's thread group or its own,
\* with the caller's table (CLONE_FILES) or a copy of it.
SysClone(k, t, child, thread, share) ==
    LET p == k.procs[t]
        c == [p EXCEPT !.tgid = IF thread THEN @ ELSE child, !.files = IF share THEN @ ELSE child,
                       !.call = << >>, !.wait = {}]
    IN  Answer([k EXCEPT !.procs[child] = [c EXCEPT !.left = k.procs[child].left],
                         !.tables[child] = IF share THEN @ ELSE Table(k, t)], "ok")
\* exec_image closes what is marked close-on-exec.
SysExec(k, t) ==
    Answer(FreeOfds(Reap(FoldSet(LAMBDA n, s : Drop(s, t, n), k, Table(k, t).cloexec))), "ok")
\* The descriptors and locks exit_task lets go of.
ExitFiles(k, t) ==
    LET p == k.procs[t]
        gone == [k EXCEPT !.procs[t].run = "zombie", !.procs[t].parked = FALSE]
        drained == Reap(FoldSet(LAMBDA n, s : Drop(s, t, n), gone, DOMAIN Table(k, t).map))
        k1 == IF \E q \in Alive(gone) : k.procs[q].files = p.files THEN gone ELSE drained
    IN  FreeOfds(IF \E q \in Alive(gone) : k.procs[q].tgid = p.tgid THEN k1
                 ELSE ReleaseProcessLocks(k1, p.tgid))
\* exit_group_with: the other threads are gone and their own tables emptied;
\* only the caller's descriptors give their locks back.
ExitGroup(k, t) ==
    LET p == k.procs[t]
        others == {q \in Alive(k) \ {t} : k.procs[q].tgid = p.tgid}
        theirs == {k.procs[q].files : q \in others} \ {p.files}
        gone == [k EXCEPT !.procs = [q \in DOMAIN @ |->
                              IF q \in others THEN [@[q] EXCEPT !.run = "zombie", !.parked = FALSE]
                              ELSE @[q]],
                          !.tables = [i \in DOMAIN @ |-> IF i \in theirs THEN EmptyTable ELSE @[i]]]
    IN  ExitFiles(FreeOfds(gone), t)
=============================================================================
