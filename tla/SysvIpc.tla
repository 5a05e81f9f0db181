------------------------------- MODULE SysvIpc -------------------------------
(***************************************************************************)
(* What the handlers of the kernel's services share.  A handler maps the   *)
(* state `k` of the kernel and the calling task to the state it leaves,    *)
(* with the outcome in k.out and the value returned in k.val.  The outcome *)
(* "block" parks the task until its call is made again; "block_once" does  *)
(* too, but such a call ends with EINTR even under SA_RESTART.             *)
(*   now      the clock                                                    *)
(*   procs    task -> [tgid, files, mm, run, parked, call, wake, pending,  *)
(*            euid, egid, ns, ...]; wake is wake_deadline (Never: none)    *)
(*   tables   id -> (fd -> descriptor)                                     *)
(*   quota    bytes charged to the VM's memory_quota                       *)
(***************************************************************************)
EXTENDS Integers, FiniteSets, SequencesExt, TLC

CONSTANT QuotaLimit     \* the limit of memory_quota

Never == -1             \* no deadline, no timer
Answer(k, e) == [k EXCEPT !.out = e]
Return(k, v) == [k EXCEPT !.out = "ok", !.val = v]
Put(f, x, v) == (x :> v) @@ f
Drop(f, S) == Restrict(f, DOMAIN f \ S)

Alive(k) == {t \in DOMAIN k.procs : k.procs[t].run = "running"}
UnparkAll(k) == [k EXCEPT !.procs = [t \in DOMAIN @ |-> [@[t] EXCEPT !.parked = FALSE]]]
\* raise: the signal becomes pending and its task runnable
Raise(k, t, sig) == [k EXCEPT !.procs[t].pending = @ \cup {sig}, !.procs[t].parked = FALSE]
PostSignal(k, tgid, sig) ==
    IF tgid \in Alive(k) THEN Raise(k, tgid, sig) ELSE k
Privileged(k, t) == k.procs[t].euid = 0

\* A deadline is read from the caller once and kept across re-traps.
Seed(k, t, dl) == [k EXCEPT !.procs[t].wake = IF @ = Never THEN dl ELSE @]
Expired(k, t) == k.procs[t].wake # Never /\ k.now >= k.procs[t].wake
Unseed(k, t) == [k EXCEPT !.procs[t].wake = Never]

Table(k, t) == k.tables[k.procs[t].files]
IsFd(k, t, n, kind) == n \in DOMAIN Table(k, t) /\ Table(k, t)[n].kind = kind
LowestFree(tab) ==
    CHOOSE n \in 0..Cardinality(DOMAIN tab) :
        n \notin DOMAIN tab /\ \A m \in 0..(n - 1) : m \in DOMAIN tab
Install(k, t, f) ==
    LET n == LowestFree(Table(k, t))
    IN  Return([k EXCEPT !.tables[k.procs[t].files] = Put(@, n, f)], n)
Descriptors(k) == UNION {{i} \X DOMAIN k.tables[i] : i \in DOMAIN k.tables}
FdAt(k, d) == k.tables[d[1]][d[2]]

\* MemoryQuota::try_charge and release
CanCharge(k, n) == k.quota + n <= QuotaLimit
Charge(k, n) == [k EXCEPT !.quota = @ + n]
Release(k, n) == [k EXCEPT !.quota = Max({0, @ - n})]
Bytes(s) == FoldLeft(LAMBDA n, m : n + Len(m.text), 0, s)

------------------------------------------------------------------------------
(***************************************************************************)
(* System V message queues, semaphores and shared memory (src/kernel/      *)
(* ipc.rs) and POSIX message queues (src/kernel/mqueue.rs).                *)
(*   ipc      [msq, sem, shm: id -> object, next, removed, semadj]; ids    *)
(*            are never used twice                                         *)
(*   mms      address space -> [pages: page -> <<segment, index>>, taken,  *)
(*            stray], taken being what the mmap arena has handed out;      *)
(*            stray is history, the pages of segments that are mapped and  *)
(*            have no attachment                                           *)
(*   mq       the POSIX queues, a sequence of slots                        *)
(*   mqnames  <<ipc namespace, name>> -> slot                              *)
(* A message is [type or prio, text]; a page is a number.                  *)
(***************************************************************************)

CONSTANTS MsgMax, MsgMnb, IpcMni,   \* limits of a message, a queue, a table
          SemVmx, SemMsl, SemMns,   \* of a value, a set, all sets
          FramePool,                \* frames of memory
          LastPage,                 \* pages of an address space
          RlimitMsgqueue, MqPrioMax, MqMaxmsg, MqMsgsize

\* ------------------------------------------------------------------ Perm
PermNew(k, t, key, mode) ==
    [ns |-> k.procs[t].ns, key |-> key, uid |-> k.procs[t].euid, gid |-> k.procs[t].egid,
     cuid |-> k.procs[t].euid, cgid |-> k.procs[t].egid, mode |-> mode]
Allows(k, t, perm, want) ==
    LET p == k.procs[t]
        class == IF p.euid \in {perm.uid, perm.cuid} THEN "user"
                 ELSE IF p.egid \in {perm.gid, perm.cgid} THEN "group" ELSE "other"
    IN  p.euid = 0 \/ want \subseteq perm.mode[class]
Owner(k, t, perm) == k.procs[t].euid \in {0, perm.uid, perm.cuid}
SetFrom(perm, new) == [perm EXCEPT !.uid = new.uid, !.gid = new.gid, !.mode = new.mode]

IpcGone(k, id) == Answer(k, IF id \in k.ipc.removed THEN "EIDRM" ELSE "EINVAL")
\* An id of another IPC namespace is turned away before the handler runs.
IpcIsForeign(k, t, id) ==
    \E fld \in {"msq", "sem", "shm"} :
        id \in DOMAIN k.ipc[fld] /\ k.ipc[fld][id].perm.ns # k.procs[t].ns

\* ipc_get!: `fits` are the objects large enough, `fail` why none can be made.
IpcGet(k, t, fld, key, flags, mode, fits, fail, new) ==
    LET m == k.ipc[fld]
        found == IF key = 0 THEN {}
                 ELSE {i \in DOMAIN m : m[i].perm.key = key /\ m[i].perm.ns = k.procs[t].ns}
        id == k.ipc.next
        stepped == [k EXCEPT !.ipc.next = @ + 1]
    IN  IF found # {} THEN
            IF {"creat", "excl"} \subseteq flags THEN Answer(k, "EEXIST")
            ELSE IF ~Allows(k, t, m[Min(found)].perm, mode.user) THEN Answer(k, "EACCES")
            ELSE IF Min(found) \notin fits THEN Answer(k, "EINVAL")
            ELSE Return(k, Min(found))
        ELSE IF key # 0 /\ "creat" \notin flags THEN Answer(k, "ENOENT")
        ELSE IF Cardinality(DOMAIN m) >= IpcMni THEN Answer(k, "ENOSPC")
        ELSE IF fail # "ok" THEN Answer(stepped, fail)
        ELSE Return([stepped EXCEPT
                        !.ipc[fld] = Put(@, id, [perm |-> PermNew(k, t, key, mode)] @@ new)], id)

\* -------------------------------------------------------- message queues
SysMsgget(k, t, key, flags, mode) ==
    IpcGet(k, t, "msq", key, flags, mode, DOMAIN k.ipc.msq, "ok",
           [msgs |-> << >>, qbytes |-> MsgMnb])

SysMsgsnd(k, t, id, type, text, nowait) ==
    LET q == k.ipc.msq[id]
    IN  IF Len(text) > MsgMax \/ type < 1 \/ IpcIsForeign(k, t, id) THEN Answer(k, "EINVAL")
        ELSE IF id \notin DOMAIN k.ipc.msq THEN IpcGone(k, id)
        ELSE IF ~Allows(k, t, q.perm, {"w"}) THEN Answer(k, "EACCES")
        ELSE IF Bytes(q.msgs) + Len(text) > q.qbytes \/ Len(q.msgs) >= q.qbytes THEN
            Answer(k, IF nowait THEN "EAGAIN" ELSE "block_once")
        ELSE IF ~CanCharge(k, Len(text)) THEN Answer(k, "ENOMEM")
        ELSE Answer(UnparkAll(Charge([k EXCEPT !.ipc.msq[id].msgs =
                                        Append(@, [type |-> type, text |-> text])], Len(text))), "ok")

\* The messages a receiver may take, of which it takes the first.
Pick(msgs, typ, flags) ==
    LET lowest == {i \in DOMAIN msgs : msgs[i].type <= -typ}
    IN  IF "copy" \in flags THEN {i \in DOMAIN msgs : i - 1 = typ}
        ELSE IF typ = 0 THEN DOMAIN msgs
        ELSE IF typ > 0 THEN {i \in DOMAIN msgs : (msgs[i].type = typ) # ("except" \in flags)}
        ELSE {i \in lowest : \A j \in lowest : msgs[i].type <= msgs[j].type}
\* `writable`: the guest's buffer can be written
SysMsgrcv(k, t, id, size, typ, flags, writable) ==
    LET q == k.ipc.msq[id]
        pick == Pick(q.msgs, typ, flags)
        m == q.msgs[Min(pick)]
    IN  IF ("copy" \in flags /\ ("nowait" \notin flags \/ "except" \in flags))
            \/ IpcIsForeign(k, t, id) THEN Answer(k, "EINVAL")
        ELSE IF id \notin DOMAIN k.ipc.msq THEN IpcGone(k, id)
        ELSE IF ~Allows(k, t, q.perm, {"r"}) THEN Answer(k, "EACCES")
        ELSE IF pick = {} THEN Answer(k, IF "nowait" \in flags THEN "ENOMSG" ELSE "block_once")
        ELSE IF Len(m.text) > size /\ "noerror" \notin flags THEN Answer(k, "E2BIG")
        ELSE IF ~writable THEN Answer(k, "EFAULT")
        ELSE IF "copy" \in flags THEN Return(k, Len(m.text))
        ELSE Return(UnparkAll(Release([k EXCEPT !.ipc.msq[id].msgs = RemoveAt(@, Min(pick))],
                                      Len(m.text))), Min({size, Len(m.text)}))

\* Mutant: a queue goes without a word to those waiting on it.
SysMsgctlSilent(k, t, id, cmd, new) ==
    IF id \notin DOMAIN k.ipc.msq \/ cmd # "rmid" THEN Answer(k, "EINVAL")
    ELSE Answer(Release([k EXCEPT !.ipc.msq = Drop(@, {id}), !.ipc.removed = @ \cup {id}],
                        Bytes(k.ipc.msq[id].msgs)), "ok")
\* IPC_INFO and IPC_STAT, which report, change nothing.
SysMsgctl(k, t, id, cmd, new) ==
    LET q == k.ipc.msq[id]
    IN  IF id \notin DOMAIN k.ipc.msq \/ IpcIsForeign(k, t, id) THEN Answer(k, "EINVAL")
        ELSE IF cmd = "stat" THEN Answer(k, IF Allows(k, t, q.perm, {"r"}) THEN "ok" ELSE "EACCES")
        ELSE IF ~Owner(k, t, q.perm) THEN Answer(k, "EPERM")
        ELSE IF cmd = "set" THEN
            IF new.qbytes > MsgMnb /\ ~Privileged(k, t) THEN Answer(k, "EPERM")
            ELSE Answer(UnparkAll([k EXCEPT !.ipc.msq[id].perm = SetFrom(@, new),
                                            !.ipc.msq[id].qbytes = Min({new.qbytes, 4096 * MsgMnb})]), "ok")
        ELSE Answer(UnparkAll(Release([k EXCEPT !.ipc.msq = Drop(@, {id}),
                                                !.ipc.removed = @ \cup {id}],
                                      Bytes(q.msgs))), "ok")

\* ------------------------------------------------------------ semaphores
\* The limit of all sets is looked at before the key is.
SysSemget(k, t, key, nsems, flags, mode) ==
    IF nsems > SemMsl THEN Answer(k, "EINVAL")
    ELSE IF nsems + MapThenSumSet(LAMBDA i : Len(k.ipc.sem[i].vals), DOMAIN k.ipc.sem) > SemMns
    THEN Answer(k, "ENOSPC")
    ELSE IpcGet(k, t, "sem", key, flags, mode,
           {i \in DOMAIN k.ipc.sem : nsems <= Len(k.ipc.sem[i].vals)},
           IF nsems = 0 THEN "EINVAL" ELSE "ok",
           [vals |-> [i \in 1..nsems |-> 0], pids |-> [i \in 1..nsems |-> 0]])

\* The batch on a copy of the values: it stops at the first operation that
\* cannot proceed, or overflows.
TryBatch(vals, ops) ==
    FoldLeft(LAMBDA a, o :
                LET v == a.vals[o.num]
                IN  IF a.stop # "none" THEN a
                    ELSE IF o.op > 0 /\ v + o.op > SemVmx THEN [a EXCEPT !.stop = "ERANGE"]
                    ELSE IF (o.op < 0 /\ v < -o.op) \/ (o.op = 0 /\ v # 0)
                    THEN [a EXCEPT !.stop = "blocked", !.at = o]
                    ELSE [a EXCEPT !.vals[o.num] = v + o.op],
             [vals |-> vals, stop |-> "none", at |-> << >>], ops)
Adj(k, key) == IF key \in DOMAIN k.ipc.semadj THEN k.ipc.semadj[key] ELSE 0
RecordUndo(k, t, id, ops) ==
    FoldLeft(LAMBDA s, o :
                LET key == <<k.procs[t].tgid, id, o.num>>
                IN  IF ~o.undo \/ o.op = 0 THEN s
                    ELSE [s EXCEPT !.ipc.semadj = Put(@, key, Adj(s, key) - o.op)],
             k, ops)
\* sys_semtimedop; `timeout` is Never for semop.
SysSemtimedop(k0, t, id, ops, timeout) ==
    LET k == IF timeout = Never THEN k0 ELSE Seed(k0, t, k0.now + timeout)
        set == k.ipc.sem[id]
        alters == \E i \in DOMAIN ops : ops[i].op # 0
        r == TryBatch(set.vals, ops)
        done == RecordUndo([Unseed(k, t) EXCEPT !.procs[t].semwait = << >>,
                    !.ipc.sem[id].vals = r.vals,
                    !.ipc.sem[id].pids = [n \in DOMAIN @ |->
                        IF \E i \in DOMAIN ops : ops[i].num = n THEN k.procs[t].tgid ELSE @[n]]],
                    t, id, ops)
    IN  IF ops = << >> \/ IpcIsForeign(k0, t, id) THEN Answer(k0, "EINVAL")
        ELSE IF id \notin DOMAIN k.ipc.sem THEN IpcGone(k, id)
        ELSE IF ~Allows(k, t, set.perm, IF alters THEN {"w"} ELSE {"r"}) THEN Answer(k, "EACCES")
        ELSE IF \E i \in DOMAIN ops : ops[i].num > Len(set.vals) THEN Answer(k, "EFBIG")
        ELSE IF r.stop = "ERANGE" THEN Answer(k, "ERANGE")
        ELSE IF r.stop = "blocked" THEN
            IF r.at.nowait \/ (timeout # Never /\ Expired(k, t)) THEN Answer(Unseed(k, t), "EAGAIN")
            ELSE Answer([k EXCEPT !.procs[t].semwait = <<id, r.at.num, r.at.op = 0>>], "block_once")
        ELSE Answer(IF alters THEN UnparkAll(done) ELSE done, "ok")

WaitersOn(k, id, num, zero) ==
    Cardinality({p \in DOMAIN k.procs : k.procs[p].semwait = <<id, num, zero>> /\ k.procs[p].parked})
\* GETPID, GETALL and the STATs only report, as GETVAL does.
SysSemctl(k, t, id, cmd, num, arg) ==
    LET set == k.ipc.sem[id]
        forget(mine) == [k.ipc EXCEPT !.semadj = Drop(@, {x \in DOMAIN @ : x[2] = id /\ x[3] \in mine})]
    IN  IF IpcIsForeign(k, t, id) THEN Answer(k, "EINVAL")
        ELSE IF id \notin DOMAIN k.ipc.sem THEN IpcGone(k, id)
        ELSE IF cmd \in {"getval", "getncnt", "getzcnt", "setval"} /\ num > Len(set.vals)
        THEN Answer(k, "EINVAL")
        ELSE IF cmd \in {"getval", "getncnt", "getzcnt"} /\ ~Allows(k, t, set.perm, {"r"})
        THEN Answer(k, "EACCES")
        ELSE IF cmd \in {"setval", "setall"} /\ ~Allows(k, t, set.perm, {"w"}) THEN Answer(k, "EACCES")
        ELSE IF cmd \in {"set", "rmid"} /\ ~Owner(k, t, set.perm) THEN Answer(k, "EPERM")
        ELSE CASE cmd = "getval" -> Return(k, set.vals[num])
               [] cmd = "getncnt" -> Return(k, WaitersOn(k, id, num, FALSE))
               [] cmd = "getzcnt" -> Return(k, WaitersOn(k, id, num, TRUE))
               [] cmd = "setval" ->
                    IF arg \notin 0..SemVmx THEN Answer(k, "ERANGE")
                    ELSE Answer(UnparkAll([k EXCEPT !.ipc = [forget({num}) EXCEPT
                                                                !.sem[id].vals[num] = arg]]), "ok")
               [] cmd = "setall" ->
                    IF \E i \in DOMAIN set.vals : arg[i] > SemVmx THEN Answer(k, "ERANGE")
                    ELSE Answer(UnparkAll([k EXCEPT !.ipc = [forget(DOMAIN set.vals) EXCEPT
                                                                !.sem[id].vals = arg]]), "ok")
               [] cmd = "set" -> Answer([k EXCEPT !.ipc.sem[id].perm = SetFrom(@, arg)], "ok")
               [] cmd = "rmid" ->
                    Answer(UnparkAll([k EXCEPT !.ipc = [forget(DOMAIN set.vals) EXCEPT
                                        !.sem = Drop(@, {id}), !.removed = @ \cup {id}]]), "ok")

Clamp(n) == Min({Max({n, 0}), SemVmx})
\* Ipc::exit_group: the group's adjustments are applied and forgotten.
IpcExitGroup(k, tgid) ==
    LET mine == {x \in DOMAIN k.ipc.semadj : x[1] = tgid}
        undone(id) == [n \in DOMAIN k.ipc.sem[id].vals |->
            IF <<tgid, id, n>> \in mine
            THEN Clamp(k.ipc.sem[id].vals[n] + k.ipc.semadj[<<tgid, id, n>>])
            ELSE k.ipc.sem[id].vals[n]]
    IN  IF mine = {} THEN k
        ELSE UnparkAll([k EXCEPT !.ipc.semadj = Drop(@, mine),
                !.ipc.sem = [id \in DOMAIN @ |-> [@[id] EXCEPT !.vals = undone(id)]]])

\* --------------------------------------------------------- shared memory
Pages(k, mm) == k.mms[mm].pages
\* A frame lives while its segment or some mapping refers to it.
FramesInUse(k) ==
    UNION {{id} \X (1..k.ipc.shm[id].size) : id \in DOMAIN k.ipc.shm}
        \cup UNION {{Pages(k, mm)[p] : p \in DOMAIN Pages(k, mm)} : mm \in DOMAIN k.mms}
SysShmget(k, t, key, size, flags, mode) ==
    IpcGet(k, t, "shm", key, flags, mode,
           {i \in DOMAIN k.ipc.shm : size <= k.ipc.shm[i].size},
           IF size = 0 THEN "EINVAL"
           ELSE IF Cardinality(FramesInUse(k)) + size > FramePool THEN "ENOMEM" ELSE "ok",
           [size |-> size, attaches |-> << >>, removed |-> FALSE])

\* A removed segment goes with its last attachment.
Reap(k, ids) ==
    [k EXCEPT !.ipc.shm = Drop(@, {i \in ids : @[i].removed /\ @[i].attaches = << >>})]
Span(base, n) == base..(base + n - 1)
\* `addr` 0 asks the arena; `flags` has "remap", "rdonly"; `mapped` is how many
\* pages the page tables had room for.
SysShmat(k, t, id, addr, flags, mapped) ==
    LET seg == k.ipc.shm[id]
        mm == k.procs[t].mm
        free == {b \in 1..(LastPage - seg.size + 1) : Span(b, seg.size) \cap k.mms[mm].taken = {}}
        base == IF addr = 0 THEN Min(free) ELSE addr
        claimed == [k EXCEPT !.mms[mm].taken = @ \cup Span(base, seg.size)]
        map(n) == [claimed EXCEPT
                    !.mms[mm].pages = [p \in Span(base, n) |-> <<id, p - base + 1>>] @@ @,
                    !.mms[mm].stray = @ \ Span(base, n)]
    IN  IF id \notin DOMAIN k.ipc.shm \/ IpcIsForeign(k, t, id) THEN Answer(k, "EINVAL")
        ELSE IF ~Allows(k, t, seg.perm, IF "rdonly" \in flags THEN {"r"} ELSE {"r", "w"})
        THEN Answer(k, "EACCES")
        ELSE IF addr = 0 /\ "remap" \in flags THEN Answer(k, "EINVAL")
        ELSE IF addr = 0 /\ free = {} THEN Answer(k, "ENOMEM")
        ELSE IF addr # 0 /\ "remap" \notin flags /\ Span(addr, seg.size) \cap DOMAIN Pages(k, mm) # {}
        THEN Answer(k, "EINVAL")
        ELSE IF mapped < seg.size
        THEN Answer([map(mapped) EXCEPT !.mms[mm].stray = @ \cup Span(base, mapped)], "ENOMEM")
        ELSE Return([map(seg.size) EXCEPT !.ipc.shm[id].attaches = Append(@, <<mm, base>>)], base)
SysShmdt(k, t, addr) ==
    LET mm == k.procs[t].mm
        at == {i \in DOMAIN k.ipc.shm : Contains(k.ipc.shm[i].attaches, <<mm, addr>>)}
        id == Min(at)
        span == Span(addr, k.ipc.shm[id].size)
    IN  IF at = {} THEN Answer(k, "EINVAL")
        ELSE Answer(Reap([k EXCEPT !.mms[mm].pages = Drop(@, span), !.mms[mm].taken = @ \ span,
                            !.mms[mm].stray = @ \ span, !.ipc.shm[id].attaches = RemoveFirst(@, <<mm, addr>>)], {id}), "ok")
\* SHM_LOCK and the STATs change nothing.
SysShmctl(k, t, id, cmd, new) ==
    LET seg == k.ipc.shm[id]
    IN  IF id \notin DOMAIN k.ipc.shm \/ IpcIsForeign(k, t, id) THEN Answer(k, "EINVAL")
        ELSE IF cmd = "lock" THEN Answer(k, "ok")
        ELSE IF cmd = "stat" THEN Answer(k, IF Allows(k, t, seg.perm, {"r"}) THEN "ok" ELSE "EACCES")
        ELSE IF ~Owner(k, t, seg.perm) THEN Answer(k, "EPERM")
        ELSE IF cmd = "set" THEN Answer([k EXCEPT !.ipc.shm[id].perm = SetFrom(@, new)], "ok")
        ELSE Answer(Reap([k EXCEPT !.ipc.shm[id].removed = TRUE, !.ipc.shm[id].perm.key = 0],
                         {id}), "ok")

\* Ipc::detach_mm, when an address space ends
DetachMm(k, mm) ==
    Reap([k EXCEPT !.ipc.shm = [i \in DOMAIN @ |->
            [@[i] EXCEPT !.attaches = SelectSeq(@, LAMBDA a : a[1] # mm)]]], DOMAIN k.ipc.shm)
\* Ipc::fork_mm: the child is attached wherever the parent is
ForkMm(k, parent, child) ==
    [k EXCEPT !.ipc.shm = [i \in DOMAIN @ |->
        [@[i] EXCEPT !.attaches = @ \o [j \in DOMAIN SelectSeq(@, LAMBDA a : a[1] = parent) |->
                        <<child, SelectSeq(@, LAMBDA a : a[1] = parent)[j][2]>>]]]]
\* Ipc::unmapped, after munmap of a range
Unmapped(k, mm, addr, n) ==
    Reap([k EXCEPT !.ipc.shm = [i \in DOMAIN @ |->
            [@[i] EXCEPT !.attaches = SelectSeq(@, LAMBDA a :
                ~(a[1] = mm /\ a[2] < addr + n /\ addr < a[2] + k.ipc.shm[i].size))]]],
         DOMAIN k.ipc.shm)
\* The part of sys_munmap that shared memory sees.
SysMunmap(k, t, addr, n) ==
    LET mm == k.procs[t].mm
        span == Span(addr, n)
        cut == UNION {Span(a[2], k.ipc.shm[i].size) : <<i, a>> \in
                    {x \in (DOMAIN k.ipc.shm) \X ({mm} \X (1..LastPage)) :
                        Contains(k.ipc.shm[x[1]].attaches, x[2])
                        /\ Span(x[2][2], k.ipc.shm[x[1]].size) \cap span # {}}}
    IN  Answer(Unmapped([k EXCEPT !.mms[mm].pages = Drop(@, span), !.mms[mm].taken = @ \ span,
                                  !.mms[mm].stray = (@ \cup (cut \cap DOMAIN Pages(k, mm))) \ span],
                        mm, addr, n), "ok")

\* --------------------------------------------------- POSIX message queues
\* A descriptor of any table keeps its queue's hold alive.
Held(k, q) ==
    \E d \in Descriptors(k) : FdAt(k, d).kind = "mqueue" /\ FdAt(k, d).q = q
MqBytes(maxmsg, msgsize) == maxmsg * (msgsize + 1)
\* mq_collect: unlinked queues no descriptor holds are freed
MqCollect(k) ==
    LET gone == {q \in DOMAIN k.mq : ~k.mq[q].dead /\ ~k.mq[q].linked /\ ~Held(k, q)}
    IN  Release([k EXCEPT !.mq = [q \in DOMAIN @ |-> IF q \in gone
                    THEN [@[q] EXCEPT !.msgs = << >>, !.notify = << >>, !.dead = TRUE] ELSE @[q]]],
                MapThenSumSet(LAMBDA q : Bytes(k.mq[q].msgs), gone))
MqFull(m) == Len(m.msgs) >= m.maxmsg
MqReady(m) == (IF m.msgs # << >> THEN {"in"} ELSE {}) \cup (IF MqFull(m) THEN {} ELSE {"out"})

\* `want` is what the access mode asks for; `attr` << >> takes the defaults.
SysMqOpen(k0, t, name, want, flags, mode, attr) ==
    LET k == MqCollect(k0)
        p == k.procs[t]
        key == <<p.ns, name>>
        size == IF attr = << >> THEN <<MqMaxmsg, MqMsgsize>> ELSE attr
        held == MapThenSumSet(LAMBDA q : k.mq[q].charge,
                              {q \in DOMAIN k.mq : ~k.mq[q].dead /\ k.mq[q].uid = p.euid})
        new == [msgs |-> << >>, maxmsg |-> size[1], msgsize |-> size[2], mode |-> mode,
                notify |-> << >>, linked |-> TRUE, uid |-> p.euid,
                charge |-> MqBytes(size[1], size[2]), dead |-> FALSE]
        dead == {q \in DOMAIN k.mq : k.mq[q].dead}
        slot == IF dead = {} THEN Len(k.mq) + 1 ELSE Min(dead)
        made == [k EXCEPT !.mq = IF dead = {} THEN Append(@, new) ELSE [@ EXCEPT ![slot] = new],
                          !.mqnames = Put(@, key, slot)]
        fd(q) == [kind |-> "mqueue", q |-> q, r |-> "r" \in want, w |-> "w" \in want,
                  nb |-> "nonblock" \in flags]
    IN  IF key \in DOMAIN k.mqnames THEN
            IF {"creat", "excl"} \subseteq flags THEN Answer(k, "EEXIST")
            ELSE IF ~Privileged(k, t) /\ ~(want \subseteq k.mq[k.mqnames[key]].mode)
            THEN Answer(k, "EACCES")
            ELSE Install(k, t, fd(k.mqnames[key]))
        ELSE IF "creat" \notin flags THEN Answer(k, "ENOENT")
        ELSE IF attr # << >> /\ (0 \in {attr[1], attr[2]} \/ (~Privileged(k, t)
                    /\ (attr[1] > MqMaxmsg \/ attr[2] > MqMsgsize))) THEN Answer(k, "EINVAL")
        ELSE IF held + new.charge > RlimitMsgqueue THEN Answer(k, "EMFILE")
        ELSE Install(made, t, fd(slot))
SysMqUnlink(k, t, name) ==
    LET key == <<k.procs[t].ns, name>>
    IN  IF key \notin DOMAIN k.mqnames THEN Answer(k, "ENOENT")
        ELSE Answer(MqCollect([k EXCEPT !.mqnames = Drop(@, {key}),
                                        !.mq[k.mqnames[key]].linked = FALSE]), "ok")

\* Where a message of a priority goes: behind those at least as urgent.
Behind(msgs, prio) ==
    LET lower == {i \in DOMAIN msgs : msgs[i].prio < prio}
    IN  IF lower = {} THEN Len(msgs) + 1 ELSE Min(lower)
\* `deadline` is absolute, or Never.
SysMqTimedsend(k0, t, n, prio, text, deadline) ==
    LET f == Table(k0, t)[n]
        k == IF deadline = Never THEN k0 ELSE Seed(k0, t, deadline)
        m == k.mq[f.q]
        sent == [Unseed(Charge(k, Len(text)), t) EXCEPT
                    !.mq[f.q].msgs = InsertAt(@, Behind(@, prio), [prio |-> prio, text |-> text]),
                    !.mq[f.q].notify = IF m.msgs = << >> THEN << >> ELSE @]
        noted == IF m.msgs = << >> /\ m.notify # << >> /\ m.notify[2] # "none"
                 THEN PostSignal(sent, m.notify[1], m.notify[2]) ELSE sent
    IN  IF ~IsFd(k0, t, n, "mqueue") \/ ~f.w THEN Answer(k0, "EBADF")
        ELSE IF prio >= MqPrioMax THEN Answer(k0, "EINVAL")
        ELSE IF Len(text) > m.msgsize THEN Answer(k, "EMSGSIZE")
        ELSE IF MqFull(m) THEN
            IF f.nb THEN Answer(k, "EAGAIN")
            ELSE IF deadline # Never /\ Expired(k, t) THEN Answer(Unseed(k, t), "ETIMEDOUT")
            ELSE Answer(k, "block")
        ELSE IF ~CanCharge(k, Len(text)) THEN Answer(k, "ENOMEM")
        ELSE Answer(UnparkAll(noted), "ok")
SysMqTimedreceive(k0, t, n, size, deadline, writable) ==
    LET f == Table(k0, t)[n]
        k == IF deadline = Never THEN k0 ELSE Seed(k0, t, deadline)
        m == k.mq[f.q]
    IN  IF ~IsFd(k0, t, n, "mqueue") \/ ~f.r THEN Answer(k0, "EBADF")
        ELSE IF size < m.msgsize THEN Answer(k, "EMSGSIZE")
        ELSE IF m.msgs = << >> THEN
            IF f.nb THEN Answer(k, "EAGAIN")
            ELSE IF deadline # Never /\ Expired(k, t) THEN Answer(Unseed(k, t), "ETIMEDOUT")
            ELSE Answer(k, "block")
        ELSE IF ~writable THEN Answer(Unseed(k, t), "EFAULT")
        ELSE Return(UnparkAll(Release([Unseed(k, t) EXCEPT !.mq[f.q].msgs = Tail(@)],
                                      Len(m.msgs[1].text))), Len(m.msgs[1].text))
\* `sig` is "none" for SIGEV_NONE, "cancel" for a null sigevent.
SysMqNotify(k, t, n, sig) ==
    LET q == Table(k, t)[n].q
        me == k.procs[t].tgid
    IN  IF ~IsFd(k, t, n, "mqueue") THEN Answer(k, "EBADF")
        ELSE IF sig = "cancel" THEN
            Answer([k EXCEPT !.mq[q].notify = IF @ # << >> /\ @[1] = me THEN << >> ELSE @], "ok")
        ELSE IF k.mq[q].notify # << >> THEN Answer(k, "EBUSY")
        ELSE Answer([k EXCEPT !.mq[q].notify = <<me, sig>>], "ok")
SysMqGetsetattr(k, t, n, nb) ==
    IF ~IsFd(k, t, n, "mqueue") THEN Answer(k, "EBADF")
    ELSE Answer([k EXCEPT !.tables[k.procs[t].files][n].nb = nb], "ok")
==============================================================================
