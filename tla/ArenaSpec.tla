------------------------------ MODULE ArenaSpec ------------------------------
(***************************************************************************)
(* What the arena promises its callers: any sequence of alloc, claim,      *)
(* is_free and free_range calls, with the page-level meaning module Arena  *)
(* gives them.  ret is what the last call answered.                        *)
(***************************************************************************)
EXTENDS Arena

CONSTANT MaxSize \* bound: pages per call

VARIABLES arena, ret

vars == <<arena, ret>>

Init == arena = NewArena /\ ret = NoAddr

CallAlloc(len) ==
    /\ arena' = Alloc(arena, len).arena
    /\ ret' = Alloc(arena, len).base

CallClaim(addr, len) == arena' = Claim(arena, addr, len) /\ ret' = NoAddr

CallFreeRange(addr, len) == arena' = FreeRange(arena, addr, len) /\ ret' = NoAddr

CallIsFree(addr, len) ==
    /\ ret' = IF IsFree(arena, addr, len) THEN 1 ELSE 0
    /\ UNCHANGED arena

Next ==
    \E len \in 1..MaxSize :
        \/ CallAlloc(len)
        \/ \E addr \in 0..Top :
              \/ CallClaim(addr, len)
              \/ CallFreeRange(addr, len)
              \/ CallIsFree(addr, len)

Spec == Init /\ [][Next]_vars
=============================================================================
