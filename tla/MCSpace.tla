------------------------------- MODULE MCSpace -------------------------------
(***************************************************************************)
(* Small instances of the address space (AddressSpace) and of the list its *)
(* arena keeps (ArenaList).  A behaviour exercises the calls of one thread *)
(* ("space"), the heap that several threads move ("heap"), or the list,    *)
(* and leaves the rest in its initial state.                               *)
(***************************************************************************)
EXTENDS AddressSpace, ArenaList

VARIABLE part  \* what this behaviour exercises

Caller == CHOOSE t \in Threads : TRUE

HeapNext ==
    \/ \E t \in Threads, addr \in 0..(Floor * PageUnits) : Brk(t, addr)
    \/ \E t \in Threads, loads \in BOOLEAN : Exec(t, loads)
    \/ \E p \in HeapStart..(Floor - 1) : Munmap(p, 1) \/ MmapFixed(p, 1, 1, TRUE)

MCInit == part \in {"space", "heap", "list"} /\ Init /\ ListInit

MCNext ==
    /\ UNCHANGED part
    /\ \/ /\ part = "space"
          /\ Next
          /\ \A t \in Threads \ {Caller} : brk'[t] = brk[t]
          /\ UNCHANGED listVars
       \/ part = "heap" /\ HeapNext /\ UNCHANGED listVars
       \/ part = "list" /\ ListNext /\ UNCHANGED vars

MCSpec == MCInit /\ [][MCNext]_<<part, vars, listVars>>
=============================================================================
