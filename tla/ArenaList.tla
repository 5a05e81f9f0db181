------------------------------ MODULE ArenaList ------------------------------
(***************************************************************************)
(* The arena at the level of its data structure: a bump cursor and a       *)
(* vector of freed ranges (addr, len), sorted by address and coalesced.    *)
(* free_range inserts, then merges with the next and the previous entry;   *)
(* claim cuts entries in two; alloc shrinks the first entry that fits.     *)
(***************************************************************************)
EXTENDS Arena, Sequences

CONSTANT MaxSize \* bound: pages per call

ASSUME SizeAssumption == MaxSize \in Nat

VARIABLES cursor, free, ret

listVars == <<cursor, free, ret>>

Rng(a, l) == [a |-> a, l |-> l]

VecInsert(f, i, e) == SubSeq(f, 1, i - 1) \o <<e>> \o SubSeq(f, i, Len(f))

VecSet(f, i, e) == [f EXCEPT ![i] = e]

VecRemove(f, i) == SubSeq(f, 1, i - 1) \o SubSeq(f, i + 1, Len(f))

\* The number of entries below addr (Vec::partition_point).
PartitionPoint(f, addr) == CHOOSE n \in 0..Len(f) : \A i \in DOMAIN f : i <= n <=> f[i].a < addr

\* The first entry of at least len pages (Iterator::position).
FirstFitIndex(len) ==
    CHOOSE i \in DOMAIN free :
        free[i].l >= len /\ \A j \in DOMAIN free : free[j].l >= len => i <= j

ListInit ==
    /\ cursor = Top
    /\ free = <<>>
    /\ ret = NoAddr

\* Mutant of ListAlloc: hands back the low part and keeps the high part.
ListAllocLowPart(len) ==
    IF \E i \in DOMAIN free : free[i].l >= len
    THEN LET i == FirstFitIndex(len)
             r == free[i]
         IN /\ free' = IF r.l = len THEN VecRemove(free, i)
                       ELSE VecSet(free, i, Rng(r.a + len, r.l - len))
            /\ ret' = r.a
            /\ UNCHANGED cursor
    ELSE /\ cursor - len >= Floor
         /\ ret' = cursor - len /\ cursor' = cursor - len
         /\ UNCHANGED free

\* Carve len pages: the first entry that fits, else the bump region.
ListAlloc(len) ==
    IF \E i \in DOMAIN free : free[i].l >= len
    THEN LET i == FirstFitIndex(len)
             r == free[i]
         IN /\ free' = IF r.l = len THEN VecRemove(free, i)
                       ELSE VecSet(free, i, Rng(r.a, r.l - len))
            /\ ret' = r.a + (r.l - len)
            /\ UNCHANGED cursor
    ELSE /\ UNCHANGED free
         /\ IF cursor < len \/ cursor - len < Floor
            THEN ret' = NoAddr /\ UNCHANGED cursor
            ELSE ret' = cursor - len /\ cursor' = cursor - len

ListIsFree(addr, len) ==
    /\ ret' = IF \E i \in DOMAIN free :
                    free[i].a <= addr /\ addr + len <= free[i].a + free[i].l
              THEN 1 ELSE 0
    /\ UNCHANGED <<cursor, free>>

\* What the loop of claim keeps of a sorted list: the entries below the range
\* addr..end-1, what it leaves of the first and of the last entry it meets, and
\* the entries above.
Cut(f, addr, end) ==
    LET lo == CHOOSE n \in 0..Len(f) : \A i \in DOMAIN f : i <= n <=> f[i].a + f[i].l <= addr
        hi == PartitionPoint(f, end)
        low == IF lo < hi /\ f[lo + 1].a < addr
               THEN <<Rng(f[lo + 1].a, addr - f[lo + 1].a)>> ELSE <<>>
        high == IF lo < hi /\ f[hi].a + f[hi].l > end
                THEN <<Rng(end, f[hi].a + f[hi].l - end)>> ELSE <<>>
    IN  SubSeq(f, 1, lo) \o (low \o high) \o SubSeq(f, hi + 1, Len(f))

ListClaim(addr, len) ==
    LET end == addr + len
        kept == Cut(free, addr, end)
    IN /\ ret' = NoAddr
       /\ IF len = 0 THEN UNCHANGED <<cursor, free>>
          ELSE IF addr < cursor /\ end > Floor
          THEN /\ cursor' = IF addr > Floor THEN addr ELSE Floor
               /\ free' = IF end < cursor
                          THEN VecInsert(kept, PartitionPoint(kept, end) + 1,
                                        Rng(end, cursor - end))
                          ELSE kept
          ELSE free' = kept /\ UNCHANGED cursor

\* Where the cursor is once it has swallowed the first n entries, from c.
Reached(c, n) == IF n = 0 THEN c ELSE free[n].a + free[n].l

\* The entries the cursor swallows from c, one after the other: as long as the
\* next one starts right at it.
Swallowed(c) ==
    CHOOSE n \in 0..Len(free) :
        /\ \A i \in 1..n : free[i].a = Reached(c, i - 1)
        /\ n < Len(free) => free[n + 1].a # Reached(c, n)

MergeNext(f, i) ==
    IF i < Len(f) /\ f[i].a + f[i].l = f[i + 1].a
    THEN VecRemove(VecSet(f, i, Rng(f[i].a, f[i].l + f[i + 1].l)), i + 1)
    ELSE f

\* Mutant of MergePrevious: a freed range is not merged downward.
NoMerge(f, i) == f

MergePrevious(f, i) ==
    IF i > 1 /\ f[i - 1].a + f[i - 1].l = f[i].a
    THEN VecRemove(VecSet(f, i - 1, Rng(f[i - 1].a, f[i - 1].l + f[i].l)), i)
    ELSE f

ListFreeRange(addr, len) ==
    LET end == addr + len
        i == PartitionPoint(free, addr) + 1
    IN /\ ret' = NoAddr
       /\ IF \/ len = 0
             \/ addr < cursor
             \/ end > Top
             \/ \E j \in DOMAIN free : addr < free[j].a + free[j].l /\ free[j].a < end
          THEN UNCHANGED <<cursor, free>>
          ELSE IF addr = cursor
          THEN LET n == Swallowed(end)
               IN /\ cursor' = Reached(end, n)
                  /\ free' = SubSeq(free, n + 1, Len(free))
          ELSE /\ free' = MergePrevious(MergeNext(VecInsert(free, i, Rng(addr, len)), i), i)
               /\ UNCHANGED cursor

ListNext ==
    \E len \in 1..MaxSize :
        \/ ListAlloc(len)
        \/ \E addr \in 0..Top :
              \/ ListClaim(addr, len)
              \/ ListFreeRange(addr, len)
              \/ ListIsFree(addr, len)

ListSpec == ListInit /\ [][ListNext]_listVars

-----------------------------------------------------------------------------
\* The free list stays as its declaration says ("sorted by address and
\* coalesced"), inside the window of used addresses: entries are non-empty,
\* in order, with a gap between neighbours, strictly above the cursor (so
\* free_range never meets an entry the cursor should have swallowed), and
\* below Top.
ListWellFormed ==
    /\ cursor \in Floor..Top
    /\ \A i \in DOMAIN free :
          free[i].l > 0 /\ free[i].a > cursor /\ free[i].a + free[i].l <= Top
    /\ \A i \in 1..(Len(free) - 1) : free[i].a + free[i].l < free[i + 1].a

\* Every call on the list has the page-level effect and answer that module
\* ArenaSpec states.
Listed == {p \in Floor..(Top - 1) :
              \E i \in DOMAIN free : free[i].a <= p /\ p < free[i].a + free[i].l}

Abstract == INSTANCE ArenaSpec WITH arena <- [cursor |-> cursor, free |-> Listed]

ImplementsArena == Abstract!Spec
=============================================================================
