------------------------------ MODULE Objects ------------------------------
(***************************************************************************)
(* Tasks calling into the kernel objects they share.  A task makes one of  *)
(* the calls its case allows; a call that blocks parks the task, which     *)
(* re-traps (makes the call afresh) once something has unparked it, or     *)
(* when the serial scheduler finds every task parked and re-polls them all.*)
(***************************************************************************)
EXTENDS Files

CONSTANT Cases  \* name -> [fs, rootWritable, calls: task -> set, left: task -> number]

VARIABLES kase,  \* the case
          k      \* the kernel
objVars == <<kase, k>>

Perform(s, t, c) ==
    CASE c.op = "open" -> SysOpen(s, t, c.path, c.flags)
      [] c.op = "tmpfile" -> SysTmpfile(s, t, c.path, c.flags)
      [] c.op = "memfd" -> SysMemfd(s, t, TRUE, FALSE)
      [] c.op = "seal" -> SysAddSeals(s, t, c.fd, c.seals)
      [] c.op = "close" -> SysClose(s, t, c.fd)
      [] c.op = "close_range" -> SysCloseRange(s, t, c.first, c.last, c.flag)
      [] c.op = "dup" -> SysDup(s, t, c.fd, c.min, c.cloexec)
      [] c.op = "dup2" -> SysDup2(s, t, c.fd, c.new, c.cloexec, c.dup3)
      [] c.op = "setfd" -> SysSetfd(s, t, c.fd, c.on)
      [] c.op = "setfl" -> SysSetfl(s, t, c.fd, c.on)
      [] c.op = "lease" -> SysSetlease(s, t, c.fd, c.typ)
      [] c.op = "lock" -> SysLock(s, t, c.fd, c.ofd, c.typ, c.whence, c.start, c.len, c.wait)
      [] c.op = "flock" -> SysFlock(s, t, c.fd, c.kind, c.nb)
      [] c.op = "read" -> SysRead(s, t, c.fd, c.count)
      [] c.op = "write" -> SysWrite(s, t, c.fd, c.buf)
      [] c.op = "pwrite" -> SysPwrite(s, t, c.fd, c.off, c.buf)
      [] c.op = "pwritev" -> SysPwritev(s, t, c.fd, c.off, c.bufs)
      [] c.op = "lseek" -> SysLseek(s, t, c.fd, c.off, c.whence)
      [] c.op = "ftruncate" -> SysFtruncate(s, t, c.fd, c.len)
      [] c.op = "truncate" -> SysTruncate(s, t, c.path, c.len)
      [] c.op = "fallocate" -> SysFallocate(s, t, c.fd, c.punch, c.off, c.len)
      [] c.op = "sendfile" -> SysSendfile(s, t, c.fd, c.in, c.count)
      [] c.op = "copy" -> SysCopyFileRange(s, t, c.in, c.fd, c.count)
      [] c.op = "link" -> SysLinkat(s, t, c.fd, c.path, c.new)
      [] c.op = "unlink" -> SysUnlink(s, t, c.path)
      [] c.op = "mkdir" -> SysMkdir(s, t, c.path)
      [] c.op = "rmdir" -> SysRmdir(s, t, c.path)
      [] c.op = "rename" -> SysRename(s, t, c.path, c.new, c.flag)
      [] c.op = "clone" -> SysClone(s, t, c.child, c.thread, c.share)
      [] c.op = "exec" -> SysExec(s, t)
      [] c.op = "exit" -> ExitFiles(s, t)
      [] c.op = "exit_group" -> ExitGroup(s, t)

\* A clone needs a task that has not started, an open a free description.
Possible(s, c) ==
    /\ c.op = "clone" => s.procs[c.child].run = "none"
    /\ c.op \in {"open", "tmpfile", "memfd"} => OfdIds \ DOMAIN s.ofds # {}

Case == Cases[kase]

InitialKernel(c) ==
    [fs |-> c.fs, rootWritable |-> c.rootWritable, orphans |-> {}, stale |-> {}, seq |-> 0, memfds |-> 0,
     tables |-> [t \in DOMAIN c.calls |-> EmptyTable], ofds |-> << >>,
     records |-> {}, flocks |-> {}, seals |-> << >>, out |-> "ok",
     procs |-> [t \in DOMAIN c.calls |->
        [tgid |-> t, files |-> t, run |-> IF t = 1 THEN "running" ELSE "none", parked |-> FALSE,
         call |-> << >>, wait |-> {}, left |-> c.left[t]]]]

ObjInit ==
    /\ kase \in DOMAIN Cases
    /\ k = InitialKernel(Cases[kase])

\* The task's call runs to its end, or leaves it parked to make it again.
Make(s, t, c) ==
    \E r \in {Perform([s EXCEPT !.procs[t].wait = {}, !.procs[t].call = << >>], t, c)} :
        /\ k' = IF r.out = "block" THEN [r EXCEPT !.procs[t].parked = TRUE, !.procs[t].call = c,
                                                 !.out = "ok"]
                ELSE [r EXCEPT !.out = "ok"]
        /\ UNCHANGED kase

Call(t) ==
    /\ k.procs[t].run = "running" /\ k.procs[t].call = << >> /\ k.procs[t].left > 0
    /\ \E c \in Case.calls[t] : Possible(k, c) /\ Make([k EXCEPT !.procs[t].left = @ - 1], t, c)
Retry(t) ==
    /\ k.procs[t].run = "running" /\ k.procs[t].call # << >> /\ ~k.procs[t].parked
    /\ Make(k, t, k.procs[t].call)
\* Every living task parked: unpark_all and another sweep.
Stall ==
    /\ Alive(k) # {} /\ \A t \in Alive(k) : k.procs[t].parked
    /\ k' = UnparkAll(k)
    /\ UNCHANGED kase

ObjNext == (\E t \in DOMAIN k.procs : Call(t) \/ Retry(t)) \/ Stall
-----------------------------------------------------------------------------
Descriptors == UNION {{i} \X DOMAIN k.tables[i].map : i \in DOMAIN k.tables}
FileFd(d) == k.tables[d[1]].map[d[2]].kind = "file"

\* A descriptor keeps naming the file it was opened on, whatever is unlinked,
\* renamed, replaced or linked meanwhile (orphan.rs: unlink and rename
\* repoint every table).  Except for one: a linkat that names a hidden file
\* repoints the descriptors of its caller only ("the orphan was this process's
\* to begin with", link_orphan), and those another table holds name nothing.
DescriptorKeepsFile ==
    \A d \in Descriptors : FileFd(d) =>
        LET f == k.tables[d[1]].map[d[2]]
        IN  \/ Exists(k.fs, f.path) /\ Ino(k.fs, f.path) = k.ofds[f.ofd].ino
            \/ f.path \in k.stale

\* A task parked in F_SETLKW or flock still has a conflicting lock ahead of
\* it: whatever released one unparked the waiters (fcntl.rs release_fd_locks,
\* release_process_locks, unlocking and downgrading).
LockWaitersMustWait ==
    \A t \in Alive(k) : k.procs[t].parked =>
        \A w \in k.procs[t].wait :
            IF "owner" \in DOMAIN w
            THEN Conflicts(k, w.key, w.owner, w.write, w.start, w.end) # {}
            ELSE \E l \in k.flocks : l.key = w.key /\ l.ofd # w.ofd /\ (w.ex \/ l.ex)

\* No two owners hold conflicting locks, and every lock belongs to a living
\* process or to an open file description some descriptor still shares
\* (fcntl.rs set, sys_flock, release_fd_locks_with).  Of threads that use their
\* group's table: exit_group_with empties another one without releasing its locks.
LocksSound ==
    /\ \A a, b \in k.records :
        (a # b /\ a.key = b.key /\ a.start < b.end /\ b.start < a.end)
            => a.owner # b.owner /\ ~a.write /\ ~b.write
    /\ \A a, b \in k.flocks : (a # b /\ a.key = b.key) => a.ofd # b.ofd /\ ~a.ex /\ ~b.ex
    /\ \A l \in k.records :
        IF l.owner[1] = "ofd" THEN l.owner[2] \in DOMAIN k.ofds
        ELSE \E t \in Alive(k) : k.procs[t].tgid = l.owner[2]
    /\ \A l \in k.flocks : l.ofd \in DOMAIN k.ofds

\* A hidden file exists exactly as long as some descriptor names it
\* (orphan.rs reap_orphans; an unlinked file's space comes back at its last
\* close).
OrphansHeld ==
    /\ \A o \in k.orphans : Exists(k.fs, o) /\ PathIsOpen(k, o)
    /\ \A p \in DOMAIN k.fs.nodes : (p # Root /\ Last(p) >= 100) => p \in k.orphans

\* A sealed memfd keeps what its seals promise: its bytes, or its size,
\* (fcntl.rs seal_blocks_write, seal_blocks_truncate).  Growing by fallocate,
\* which asks neither, is not among the calls of the case with seals.
SealsHold ==
    \A p \in DOMAIN k.seals : (Exists(k.fs, p) /\ Exists(k'.fs, p)) =>
        LET was == Data(k.fs, p)
            now == Data(k'.fs, p)
            held == Min({Len(was), Len(now)})
        IN  /\ "write" \in k.seals[p] => SubSeq(now, 1, held) = SubSeq(was, 1, held)
            /\ "shrink" \in k.seals[p] => Len(now) >= Len(was)
            /\ "grow" \in k.seals[p] => Len(now) <= Len(was)
=============================================================================
