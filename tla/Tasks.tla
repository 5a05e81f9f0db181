-------------------------------- MODULE Tasks --------------------------------
(***************************************************************************)
(* The task table of the kernel (Shared in src/src/kernel/mod.rs) and the  *)
(* calls that change it: clone, exit, exit_group, wait4.                   *)
(*                                                                         *)
(* A call is an operator on the state behind the kernel lock, sh, and on   *)
(* the calling task's own record, cur, which the schedulers check out of   *)
(* the table for the call (ServiceCtx::cur).  The serial scheduler leaves  *)
(* the caller's slot empty meanwhile, the SMP one leaves a copy in it: the *)
(* same operators serve both, as the same code does.                       *)
(*                                                                         *)
(* The contents of a descriptor table are abstracted to the references it  *)
(* holds on the write end of one pipe, 0 or 1; an address space to whether *)
(* it has been given back.  cwd tables are handled in the code line by     *)
(* line like descriptor tables and are left out; the signals an exit sends *)
(* are the subject of module Signals.                                      *)
(***************************************************************************)
EXTENDS Integers, Sequences, FiniteSets, SequencesExt

CONSTANTS PidMax,   \* PID_MAX: task ids stay below it
          MaxTasks  \* max_tasks: how many tasks the embedder allows

\* A wrap of the ids always finds a free one: each task holds up to four.
ASSUME TasksAssumption ==
    MaxTasks \in Nat \ {0} /\ PidMax \in Nat /\ PidMax > 4 * MaxTasks + 2

NoTask == [pid |-> 0]
NoTable == -1   \* an entry of file_tables that is None

Init1 == 1      \* the first process

Pids == 1..PidMax

\* ProcInfo, the fields these calls read or write.
Task == [pid : Pids, tgid : Pids, pgid : Pids, sid : Pids, ppid : 0..PidMax, thread : BOOLEAN,
         mm : Nat, files : Nat, run : {"Running", "Stopped", "Zombie"},
         parked : BOOLEAN, exitSignal : BOOLEAN, subreaper : BOOLEAN,
         stopReported : BOOLEAN, continued : BOOLEAN,
         vcpu : BOOLEAN]            \* the vcpu is attached to the slot

FirstTask ==
    [pid |-> Init1, tgid |-> Init1, pgid |-> Init1, sid |-> Init1, ppid |-> 0,
     thread |-> FALSE, mm |-> 1,
     files |-> 1, run |-> "Running", parked |-> FALSE, exitSignal |-> TRUE,
     subreaper |-> FALSE, stopReported |-> FALSE,
     continued |-> FALSE, vcpu |-> TRUE]

\* Kernel::run / boot: pid 1 in the first slot, holding one pipe end.
FirstShared ==
    [procs |-> <<FirstTask>>, freeProcs |-> <<>>,
     spaces |-> 1, freeMms |-> <<>>, retired |-> {},
     tables |-> <<1>>, freeTables |-> <<>>, writers |-> 1,
     nextPid |-> 2, wrapped |-> FALSE,
     registered |-> {Init1},  \* in the pid namespace and cgroup books
     nocld |-> {}]            \* processes that discard their children's status

------------------------------------------------------------------------------
(* Looking tasks up.                                                       *)

Slots(sh) == {i \in DOMAIN sh.procs : sh.procs[i] # NoTask}

Listed(sh) == {sh.procs[i] : i \in Slots(sh)}

Alive(t) == t.run # "Zombie"

\* The first slot holding a task that satisfies P, 0 when there is none.
FirstSlot(sh, P(_)) ==
    LET found == {i \in Slots(sh) : P(sh.procs[i])}
    IN  IF found = {} THEN 0 ELSE CHOOSE i \in found : \A j \in found : i <= j

\* Apply F to every task in the table.
EachTask(sh, F(_)) ==
    [sh EXCEPT !.procs =
        [i \in DOMAIN sh.procs |->
            IF sh.procs[i] = NoTask THEN NoTask ELSE F(sh.procs[i])]]

------------------------------------------------------------------------------
(* Freeing a slot (free_task_slot), and the zombies nobody waits for.      *)

\* The tasks that may use a space or a descriptor table: those in the table and
\* the running one.
Users(sh, cur) == Listed(sh) \cup {cur}

\* The entry itself, and what the pid namespace and cgroup books say of it.
Vacated(sh, i) ==
    [sh EXCEPT !.procs[i] = NoTask, !.freeProcs = Append(@, i),
               !.registered = @ \ {sh.procs[i].pid}]

\* The address space is not given back.
FreeTaskSlotKeepsMm(sh, cur, i) ==
    LET gone == sh.procs[i]
        s == Vacated(sh, i)
        tableIdle == gone.files \notin {t.files : t \in Users(s, cur)}
    IN  IF gone = NoTask THEN sh
        ELSE [s EXCEPT !.tables[gone.files] = IF tableIdle THEN NoTable ELSE @,
                       !.freeTables = IF tableIdle THEN Append(@, gone.files) ELSE @]

FreeTaskSlot(sh, cur, i) ==
    LET gone == sh.procs[i]
        s == Vacated(sh, i)
        mmIdle == gone.mm \notin {t.mm : t \in Users(s, cur)}
        tableIdle == gone.files \notin {t.files : t \in Users(s, cur)}
    IN  IF gone = NoTask THEN sh
        ELSE [s EXCEPT
                !.freeMms = IF mmIdle THEN Append(@, gone.mm) ELSE @,
                !.tables[gone.files] = IF tableIdle THEN NoTable ELSE @,
                !.freeTables = IF tableIdle THEN Append(@, gone.files) ELSE @]

\* remove_task
RemoveTask(sh, cur, pid) ==
    LET i == FirstSlot(sh, LAMBDA t : t.pid = pid)
    IN  IF i = 0 THEN sh ELSE FreeTaskSlot(sh, cur, i)

\* A zombie nobody will wait for: a thread, or a child that signals SIGCHLD to
\* a parent discarding it.  The parent is cur or looked up in the table.
Unwaited(sh, cur, t) ==
    LET i == FirstSlot(sh, LAMBDA p : p.pid = t.ppid)
        parent == IF t.ppid = cur.pid THEN cur.tgid
                  ELSE IF i = 0 THEN 0 ELSE sh.procs[i].tgid
    IN  t.run = "Zombie" /\ (t.thread \/ (t.exitSignal /\ parent \in sh.nocld))

\* reap_unwaited_zombies: the slots are collected first, then freed in order.
ReapUnwaitedZombies(sh, cur) ==
    LET gone == SetToSortSeq({i \in Slots(sh) : Unwaited(sh, cur, sh.procs[i])}, <)
    IN  FoldLeft(LAMBDA s, i : FreeTaskSlot(s, cur, i), sh, gone)

------------------------------------------------------------------------------
(* clone.                                                                  *)

PidInUse(sh, pid) == \E t \in Listed(sh) : pid \in {t.pid, t.tgid, t.pgid, t.sid}

After(pid) == IF pid + 1 >= PidMax THEN 2 ELSE pid + 1

\* After a wrap ids are handed out again without looking who has them.
AllocPidUnchecked(sh) ==
    [pid |-> sh.nextPid,
     sh |-> [sh EXCEPT !.nextPid = After(@), !.wrapped = @ \/ sh.nextPid + 1 >= PidMax]]

\* alloc_pid: the first id from next_pid on, which after the first wrap must
\* not be in the table.
AllocPid(sh) ==
    LET Nth[n \in 0..PidMax] == IF n = 0 THEN sh.nextPid ELSE After(Nth[n - 1])
        Wrapped(n) == sh.wrapped \/ \E k \in 0..n : Nth[k] + 1 >= PidMax
        Ok(n) == ~(Wrapped(n) /\ PidInUse(sh, Nth[n]))
        n == CHOOSE k \in 0..PidMax : Ok(k) /\ \A j \in 0..(k - 1) : ~Ok(j)
    IN  [pid |-> Nth[n],
         sh |-> [sh EXCEPT !.nextPid = After(Nth[n]), !.wrapped = Wrapped(n)]]

\* Take a slot off a free list, or the next new one.
Taken(free, len) == IF free = <<>> THEN len + 1 ELSE Last(free)
Rest(free) == IF free = <<>> THEN free ELSE Front(free)

\* clone flags by name: fork, vfork, a pthread, CLONE_PARENT, CLONE_FILES or
\* CLONE_VM alone, and a thread without CLONE_FILES.
Flags ==
    LET f == [vm |-> FALSE, thread |-> FALSE, files |-> FALSE, vfork |-> FALSE,
              parent |-> FALSE]
    IN  [fork |-> f,
         vfork |-> [f EXCEPT !.vm = TRUE, !.vfork = TRUE],
         thread |-> [f EXCEPT !.vm = TRUE, !.thread = TRUE, !.files = TRUE],
         sibling |-> [f EXCEPT !.parent = TRUE],
         forkFiles |-> [f EXCEPT !.files = TRUE],
         forkVm |-> [f EXCEPT !.vm = TRUE],
         threadOwnFiles |-> [f EXCEPT !.vm = TRUE, !.thread = TRUE]]

ShareVm(f) == f.vm /\ (f.thread \/ ~f.vfork)

\* The child's record: everything else is inherited from the caller.
Child(cur, f, pid, mm, files) ==
    [cur EXCEPT !.pid = pid, !.mm = mm, !.files = files,
                !.tgid = IF f.thread THEN cur.tgid ELSE pid,
                !.ppid = IF f.thread \/ f.parent THEN cur.ppid ELSE cur.pid,
                !.thread = f.thread,
                !.exitSignal = ~f.thread,
                !.subreaper = f.thread /\ @,
                !.run = "Running", !.vcpu = TRUE]

\* A copied space takes a free slot, or a new one.
GiveSpace(sh, mm) ==
    [sh EXCEPT !.spaces = IF mm > @ THEN mm ELSE @,
               !.freeMms = Rest(@),
               !.retired = @ \ {mm}]

\* So does a copied descriptor table; the copies count as pipe ends.
GiveTable(sh, files, fds) ==
    [sh EXCEPT !.writers = @ + fds,
               !.freeTables = Rest(@),
               !.tables = IF files > Len(@) THEN Append(@, fds)
                          ELSE [@ EXCEPT ![files] = fds]]

\* And so does the child.
GiveSlot(sh, child) ==
    LET slot == Taken(sh.freeProcs, Len(sh.procs))
    IN  [sh EXCEPT !.freeProcs = Rest(@),
                   !.procs = IF slot > Len(@) THEN Append(@, child)
                             ELSE [@ EXCEPT ![slot] = child]]

\* do_clone by cur, whose descriptor table holds fds references.  failure is
\* what runs out: nothing, the host's vcpus (before anything is booked) or its
\* memory (try_fork, after the new id is).
DoClone(sh, cur, fds, f, failure) ==
    LET s1 == ReapUnwaitedZombies(sh, cur)
        pid == AllocPid(s1).pid
        s2 == [AllocPid(s1).sh EXCEPT !.registered = @ \cup {pid}]
        mm == IF ShareVm(f) THEN cur.mm ELSE Taken(s2.freeMms, s2.spaces)
        files == IF f.files THEN cur.files ELSE Taken(s2.freeTables, Len(s2.tables))
        s3 == IF ShareVm(f) THEN s2 ELSE GiveSpace(s2, mm)
        s4 == IF f.files THEN s3 ELSE GiveTable(s3, files, fds)
        s5 == [s4 EXCEPT !.nocld = IF ~f.thread /\ cur.tgid \in @
                                   THEN @ \cup {pid} ELSE @]
    IN  IF Cardinality(Slots(s1)) >= MaxTasks \/ failure = "vcpu"
        THEN [sh |-> s1, ret |-> 0]
        ELSE IF failure = "memory" /\ ~ShareVm(f)
        THEN [sh |-> s2, ret |-> 0]
        ELSE [sh |-> GiveSlot(s5, Child(cur, f, pid, mm, files)), ret |-> pid]

------------------------------------------------------------------------------
(* exit and exit_group.                                                    *)

\* The nearest living ancestor that is a child subreaper, else pid 1: the walk
\* follows ppid through the table and stops where a task is not found.
NewParent(sh, cur) ==
    LET At(pid) == FirstSlot(sh, LAMBDA t : t.pid = pid)
        Up[n \in 0..Len(sh.procs)] ==
            IF n = 0 THEN cur.ppid
            ELSE IF At(Up[n - 1]) = 0 THEN 0 ELSE sh.procs[At(Up[n - 1])].ppid
        Is(n) == /\ At(Up[n]) # 0
                 /\ sh.procs[At(Up[n])].subreaper
                 /\ Alive(sh.procs[At(Up[n])])
        reapers == {n \in 0..Len(sh.procs) : Is(n)}
    IN  IF reapers = {} THEN Init1
        ELSE Up[CHOOSE n \in reapers : \A m \in reapers : n <= m]

\* Whether another live task in the table uses the same descriptors.
OthersShare(sh, cur) == \E t \in Listed(sh) : t.files = cur.files /\ Alive(t)

HasCowaiter(sh, mm) == \E t \in Listed(sh) : t.mm = mm /\ Alive(t)

\* The parent is not woken.
NotNotified(cur, t) == t

Notified(cur, t) == IF t.pid = cur.ppid THEN [t EXCEPT !.parked = FALSE] ELSE t

\* exit_task by cur, holding fds in its checked-out table.  The new cur is a
\* zombie; fds is what the table is checked in with.
ExitTask(sh, cur, fds) ==
    LET shared == OthersShare(sh, cur)
        newParent == NewParent(sh, cur)
        Adopted(t) == IF t.ppid = cur.pid /\ t.pid # cur.pid
                      THEN [t EXCEPT !.ppid = newParent] ELSE t
        s == EachTask(sh, LAMBDA t : Adopted(Notified(cur, t)))
    IN  [sh |-> [s EXCEPT !.writers = IF shared THEN @ ELSE @ - fds,
                          !.retired = IF HasCowaiter(sh, cur.mm) THEN @ ELSE @ \cup {cur.mm}],
         cur |-> [cur EXCEPT !.run = "Zombie"],
         fds |-> IF shared THEN fds ELSE 0]

\* exit_group_with: every live task of the group becomes a zombie, the tables
\* they leave in file_tables are emptied, and the caller exits last.
ExitGroupWith(sh, cur, fds) ==
    LET Dies(t) == t.tgid = cur.tgid /\ Alive(t)
        ids == {t.files : t \in {u \in Listed(sh) : Dies(u)}}
        drained == {f \in ids : sh.tables[f] # NoTable}
        s == EachTask(sh, LAMBDA t : IF Dies(t) THEN [t EXCEPT !.run = "Zombie"] ELSE t)
    IN  ExitTask([s EXCEPT
                    !.tables = [f \in DOMAIN @ |-> IF f \in drained THEN 0 ELSE @[f]],
                    !.writers = @ - Cardinality({f \in drained : sh.tables[f] = 1})],
                 cur, fds)

------------------------------------------------------------------------------
(* wait4(-1): the first zombie child is reaped; failing that an unreported *)
(* stop, then a continuation, is reported when asked for.                  *)

Blocks == -1   \* the call parks its task
ECHILD == -2

Wait4(sh, cur, options) ==
    LET Wanted(t) == t.ppid = cur.pid /\ ~t.thread
        zombie == FirstSlot(sh, LAMBDA t : Wanted(t) /\ t.run = "Zombie")
        stopped == FirstSlot(sh, LAMBDA t : Wanted(t) /\ t.run = "Stopped"
                                                      /\ ~t.stopReported)
        continued == FirstSlot(sh, LAMBDA t : Wanted(t) /\ t.continued)
    IN  IF zombie # 0
        THEN [ret |-> sh.procs[zombie].pid,
              sh |-> RemoveTask(sh, cur, sh.procs[zombie].pid)]
        ELSE IF "WUNTRACED" \in options /\ stopped # 0
        THEN [ret |-> sh.procs[stopped].pid,
              sh |-> [sh EXCEPT !.procs[stopped].stopReported = TRUE]]
        ELSE IF "WCONTINUED" \in options /\ continued # 0
        THEN [ret |-> sh.procs[continued].pid,
              sh |-> [sh EXCEPT !.procs[continued].continued = FALSE]]
        ELSE [sh |-> sh,
              ret |-> IF ~\E t \in Listed(sh) : Wanted(t) THEN ECHILD
                      ELSE IF "WNOHANG" \in options THEN 0 ELSE Blocks]
=============================================================================
