------------------------------- MODULE Interp -------------------------------
(***************************************************************************)
(* The software CPUs at work: a guest program run by one thread, or by two *)
(* that share an address space, under the kernel that schedules them.      *)
(*                                                                         *)
(* A thread executes only inside run() (on = the thread, which holds the   *)
(* address space); it leaves it to be preempted between two instructions,  *)
(* at a fault or at a trap, and enters it again later.  A fault may be     *)
(* resolved: the kernel, or the guest's signal handler, opens some of the  *)
(* pages shut so far and the instruction is run again.                     *)
(*                                                                         *)
(* was[t] is the CPU before the first attempt of the instruction t is held *)
(* up in.  Pages are opened, never shut, while a program runs.             *)
(***************************************************************************)
EXTENDS Means

CONSTANT Cases     \* name -> [isa, cpus, ends, slices, goal]

VARIABLES kase, from, was, cpu, on
vars == <<kase, from, was, cpu, on>>

Case == Cases[kase]
Threads == DOMAIN cpu
Free == 0
None == [out |-> "none"]

Init ==
    /\ kase \in DOMAIN Cases
    /\ from \in Cases[kase].cpus
    /\ cpu = from
    /\ was = [t \in DOMAIN from |-> None]
    /\ on = Free

StepOf(d) == IF Case.isa = "x86" THEN X!Steps(d) ELSE A!Step(d)
EnterOf(d) == IF Case.isa = "x86" THEN X!Enters(d) ELSE A!Enters(d)
Runs(t) == OK(cpu[t]) /\ cpu[t].ip # Case.ends[t]

\* run() is entered with the address space free.
Enter(t) ==
    /\ on = Free /\ Runs(t)
    /\ on' = t
    /\ cpu' = [cpu EXCEPT ![t] = EnterOf(@)]
    /\ UNCHANGED <<kase, from, was>>

\* One instruction; all but a completed one leave run().
Execute(t) ==
    /\ on = t /\ Runs(t)
    /\ \E d \in {StepOf(cpu[t])} :
        /\ cpu' = [u \in Threads |-> IF u = t THEN d ELSE [cpu[u] EXCEPT !.m = d.m]]
        /\ was' = [u \in Threads |->
               IF u # t THEN IF was[u] = None THEN None ELSE [was[u] EXCEPT !.m = d.m]
               ELSE IF d.out # "fault" THEN None
               ELSE IF was[u] = None THEN cpu[u] ELSE was[u]]
        /\ on' = IF OK(d) /\ d.ip # Case.ends[t] THEN t ELSE Free
    /\ UNCHANGED <<kase, from>>

\* The slice ends between two instructions.
Preempt(t) ==
    /\ on = t /\ Case.slices
    /\ on' = Free
    /\ UNCHANGED <<kase, from, was, cpu>>

Shut(d) == { p \in DOMAIN d.prot : d.prot[p] # d.full[p] }
Open(d, Q) == [d EXCEPT !.prot = [p \in DOMAIN d.prot |-> IF p \in Q THEN d.full[p] ELSE d.prot[p]]]
\* The fault is handled: some of the pages the guest may use are opened, if
\* the other thread's fault did not open them all.
Resolve(t) ==
    /\ cpu[t].out = "fault"
    /\ \E Q \in SUBSET Shut(cpu[t]) :
        /\ Q # {} \/ Shut(cpu[t]) = {}
        /\ cpu' = [u \in Threads |-> IF u = t THEN [Open(cpu[u], Q) EXCEPT !.out = "ok"] ELSE Open(cpu[u], Q)]
    /\ UNCHANGED <<kase, from, was, on>>

\* The kernel answers a call.
Answer(t) ==
    /\ cpu[t].out = "syscall"
    /\ cpu' = [cpu EXCEPT ![t] = IF Case.isa = "x86" THEN X!SetSyscallRet(@, [len |-> 1], 5)
                             ELSE A!SetSyscallRet(@, 5)]
    /\ UNCHANGED <<kase, from, was, on>>

Over(t) == (OK(cpu[t]) /\ ~Runs(t)) \/ cpu[t].out \in {"divide", "gp", "illegal", "trap", "misaligned", "x87", "simd"}
Ended == \A t \in Threads : Over(t)
Finished == Ended /\ UNCHANGED vars

Next ==
    \/ \E t \in Threads : Enter(t) \/ Execute(t) \/ Preempt(t) \/ Resolve(t) \/ Answer(t)
    \/ Finished
Spec == Init /\ [][Next]_vars

(***************************************************************************)
(* Faults.                                                                 *)
(***************************************************************************)

\* What the guest can see of a CPU.
View(d) ==
    LET e == [d EXCEPT !.addr = 0, !.write = FALSE]
    IN  IF Case.isa = "x86" THEN [e EXCEPT !.cp = NoPage, !.code = <<>>]
        ELSE [e EXCEPT !.tag = <<>>, !.copy = <<>>]
\* The instruction run again with every page open.
Redone(d) == View(StepOf(EnterOf(Open(d, DOMAIN d.prot))))

\* A faulting instruction can be run again: from the state the fault leaves,
\* the re-run with the pages open ends exactly as a run of the instruction
\* from its start does (x87.rs "the instruction restarts after the page
\* fault", ENTER's local stack pointer, the resume state of the strings,
\* write-backs after the access).  Four do not restart from a fault of their
\* store: XADD has replaced its register by then, and ADC, SBB and a rotate
\* through the carry have replaced the carry they read (interp_x86.rs xadd,
\* alu_modrm, group2).
FeedsItself(i) ==
    \/ i.op = "xadd"
    \/ i.op \in {"alu", "group1"} /\ i.x \in {"adc", "sbb"}
    \/ i.op = "shift" /\ i.x \in {"rcl", "rcr"}
HeldInStore(d) == Case.isa = "x86" /\ d.write /\ FeedsItself(X!Fetched(d))
Restartable ==
    \A t \in Threads : cpu[t].out = "fault" /\ ~HeldInStore(cpu[t]) => Cardinality({ Redone(d) : d \in {cpu[t], was[t]} }) = 1

(***************************************************************************)
(* Fetching.                                                               *)
(***************************************************************************)

\* While a thread runs, the code it holds copies of is the code in memory,
\* whoever stored into it and however the store lay across the pages
\* (FetchCache::invalidate, X86Interpreter::store, the reset on entering).
Coherent ==
    on # Free =>
        IF Case.isa = "x86"
        THEN cpu[on].cp # NoPage => \A x \in DOMAIN cpu[on].code : cpu[on].code[x] = cpu[on].m[x]
        ELSE \A y \in DOMAIN cpu[on].tag : cpu[on].tag[y] # NoPage =>
                 \A x \in DOMAIN cpu[on].copy[y] : cpu[on].copy[y][x] = cpu[on].m[x]

\* The program has computed what its instructions say, for every input, and
\* whatever pages were shut on the way: orders from flags, carries across
\* words, quotients and remainders, rotations and fields, copies that
\* overlap, frames, saved state, structures taken apart and put together.
Computes ==
    Ended /\ DOMAIN cpu = {1} =>
        IF Case.goal \in ArmGoals THEN MeansN(Case.goal, cpu[1].p, from[1], cpu[1])
        ELSE IF Case.goal \in VectorGoals THEN MeansV(Case.goal, cpu[1].p, from[1], cpu[1])
        ELSE IF Case.isa = "x86" THEN MeansX(Case.goal, cpu[1].p, from[1], cpu[1])
        ELSE MeansA(Case.goal, cpu[1].p, from[1], cpu[1])

\* Threads that add to a shared word with exclusives, compare-and-swap or an
\* atomic add, preempted anywhere, lose no update: a store exclusive succeeds
\* only if no other thread has run since its load (run() clears the monitor).
UpdatesKept ==
    Ended /\ Cardinality(DOMAIN cpu) = 2 /\ Case.goal = "counted" =>
        Val(cpu[1], cpu[1].g[1], 2) = MaskW(Val(from[1], from[1].g[1], 2) + 2, 2)

\* Code and data are the same to every thread: no stale copy runs, no update is
\* lost.  The threads that share a word are AArch64 ones.
MemoryCoherent == Coherent /\ UpdatesKept
=============================================================================
