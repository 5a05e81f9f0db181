-------------------------------- MODULE Arena --------------------------------
(***************************************************************************)
(* The anonymous-mmap arena of one address space (struct Arena of          *)
(* kernel/mod.rs), as the set of pages it may still hand out.  An arena is *)
(* a record [cursor, free]: the pages Floor..cursor-1 were never used (the *)
(* bump region), free holds the pages given back inside [cursor, Top).     *)
(* The code keeps the second part as a sorted, coalesced list of ranges;   *)
(* module ArenaList models that list and shows that it implements this.    *)
(* Addresses and lengths are in pages.                                     *)
(***************************************************************************)
EXTENDS Integers

CONSTANTS Floor, Top \* the bounds of the arena (Arena::floor, Arena::top)

ASSUME ArenaAssumption ==
    /\ Floor \in Nat
    /\ Top \in Nat
    /\ Floor <= Top

NoAddr == -1

Pages(a, l) == a..(a + l - 1)

NewArena == [cursor |-> Top, free |-> {}]

ArenaType == [cursor : Floor..Top, free : SUBSET (Floor..(Top - 1))]

\* The pages a later Alloc may hand out.
Available(A) == Floor..(A.cursor - 1) \cup A.free

\* The entries of the coalesced list: the maximal runs of free pages.
Entries(A) ==
    {e \in A.free \X (1..(Top - Floor)) :
        /\ Pages(e[1], e[2]) \subseteq A.free
        /\ e[1] - 1 \notin A.free
        /\ e[1] + e[2] \notin A.free}

FirstFit(A, len) ==
    CHOOSE e \in Entries(A) :
        /\ e[2] >= len
        /\ \A f \in Entries(A) : f[2] >= len => e[1] <= f[1]

\* Carve len pages: the high part of the first free run that is long enough,
\* else the pages below the cursor, else nothing.
Alloc(A, len) ==
    IF \E e \in Entries(A) : e[2] >= len
    THEN LET e == FirstFit(A, len)
             base == e[1] + e[2] - len
         IN [base |-> base, arena |-> [A EXCEPT !.free = @ \ Pages(base, len)]]
    ELSE IF A.cursor - len >= Floor
    THEN [base |-> A.cursor - len, arena |-> [A EXCEPT !.cursor = @ - len]]
    ELSE [base |-> NoAddr, arena |-> A]

\* Whether the range lies inside one freed range.
IsFree(A, addr, len) == Pages(addr, len) \subseteq A.free

\* Mutant of Claim: only the free list is cut, the bump region is forgotten.
ClaimFreeListOnly(A, addr, len) == [A EXCEPT !.free = @ \ Pages(addr, len)]

\* Take a range out of the arena: a mapping now sits there that Alloc did not
\* place.  Below the cursor, the cursor drops to the range and what was
\* between the range and the old cursor becomes free.
Claim(A, addr, len) ==
    LET end == addr + len
        kept == A.free \ Pages(addr, len)
    IN IF len = 0 THEN A
       ELSE IF addr < A.cursor /\ end > Floor
       THEN [cursor |-> IF addr > Floor THEN addr ELSE Floor,
             free |-> kept \cup end..(A.cursor - 1)]
       ELSE [A EXCEPT !.free = kept]

\* The first page at or above c that is not free.
Absorb(A, c) ==
    CHOOSE d \in c..Top : d \notin A.free /\ c..(d - 1) \subseteq A.free

\* Give a range back.  Ignored unless it lies in the window [cursor, Top) and
\* touches no free page; right on the cursor it joins the bump region, with
\* every free page that has become adjacent to it.
FreeRange(A, addr, len) ==
    IF \/ len = 0
       \/ addr < A.cursor
       \/ addr + len > Top
       \/ Pages(addr, len) \cap A.free # {}
    THEN A
    ELSE IF addr = A.cursor
    THEN LET c == Absorb(A, addr + len)
         IN [cursor |-> c, free |-> A.free \ addr..c]
    ELSE [A EXCEPT !.free = @ \cup Pages(addr, len)]
=============================================================================
