----------------------------- MODULE MCSignals -----------------------------
(* The tasks of module SignalTasks under both schedulers: the serial one, and *)
(* in the behaviours with pool the worker pool, whose stand-ins are posted to *)
(* and folded in at the check-in.                                             *)
EXTENDS SignalTasks

VARIABLE pool

Pool == INSTANCE SignalTasks WITH Smp <- TRUE

\* The pool runs the workload with handlers, masks and sigsuspend.
MCInit == Init /\ pool \in {p \in BOOLEAN : p => load = Handlers}

PoolNext ==
    \/ Pool!NoneRuns
    \/ \E t \in Tids : Pool!CheckOut(t) \/ Pool!CheckIn(t) \/ Pool!SysSigreturn(t) \/ Pool!Interrupted(t)
    \/ \E t, u \in Tids, s \in load.sigs : Pool!SysKill(t, u, s)
    \/ \E t \in Tids, s \in load.caught, d \in load.disps : Pool!SysSigaction(t, s, d)
    \/ \E t \in Tids, m \in load.masks : Pool!SysSigprocmask(t, m) \/ Pool!SysSigsuspend(t, m)

MCNext == UNCHANGED pool /\ IF pool THEN PoolNext ELSE Next

MCSpec == MCInit /\ [][MCNext]_<<vars, pool>>
=============================================================================
