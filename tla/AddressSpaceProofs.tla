------------------------- MODULE AddressSpaceProofs -------------------------
(***************************************************************************)
(* For every layout and every number of threads, the mmap arena never      *)
(* counts a mapped page as available, and a mapping the kernel places      *)
(* itself never lands on a mapped page.                                    *)
(***************************************************************************)
EXTENDS AddressSpace, NaturalsInduction, WellFoundedInduction, TLAPS

USE ArenaAssumption, LayoutAssumption

\* The free pages lie above the bump region.
ArenaOK(A) == A \in ArenaType /\ \A p \in A.free : p >= A.cursor

\* A set of naturals that is not empty has a least element.
LEMMA LeastElement ==
    ASSUME NEW S, S \subseteq Nat, S # {}
    PROVE  \E m \in S : \A n \in S : m <= n
<1>1. PICK x \in S : \A y \in S : ~(<<y, x>> \in OpToRel(<, Nat))
  BY NatLessThanWellFounded, WFMin, Zenon
<1>2. \A y \in S : ~(y < x)
  BY <1>1, Zenon DEF OpToRel
<1> QED BY <1>2

\* alloc hands out only available pages, and counts them out.
LEMMA AllocFacts ==
    ASSUME NEW A, ArenaOK(A), NEW len \in Nat \ {0}
    PROVE  /\ ArenaOK(Alloc(A, len).arena)
           /\ Alloc(A, len).base # NoAddr =>
                 /\ Alloc(A, len).base \in Nat
                 /\ Pages(Alloc(A, len).base, len) \subseteq Available(A)
                 /\ Available(Alloc(A, len).arena) \cap Pages(Alloc(A, len).base, len) = {}
                 /\ Available(Alloc(A, len).arena) \subseteq Available(A)
<1> DEFINE r == Alloc(A, len)
<1> SUFFICES /\ ArenaOK(r.arena)
             /\ r.base # NoAddr =>
                   /\ r.base \in Nat
                   /\ Pages(r.base, len) \subseteq Available(A)
                   /\ Available(r.arena) \cap Pages(r.base, len) = {}
                   /\ Available(r.arena) \subseteq Available(A)
  BY Zenon
<1>1. CASE \E e \in Entries(A) : e[2] >= len
  <2> DEFINE Fit == {a \in A.free : \E l \in 1..(Top - Floor) : <<a, l>> \in Entries(A) /\ l >= len}
  <2> DEFINE Good(e) == e[2] >= len /\ \A f \in Entries(A) : f[2] >= len => e[1] <= f[1]
  <2>1. Fit # {} /\ Fit \subseteq Nat
    BY <1>1 DEF ArenaOK, ArenaType, Entries
  <2>2. PICK m \in Fit : \A n \in Fit : m <= n
    BY <2>1, LeastElement, Zenon
  <2>3. PICK l \in 1..(Top - Floor) : <<m, l>> \in Entries(A) /\ l >= len
    OBVIOUS
  <2>4. \A f \in Entries(A) : f[2] >= len => f[1] \in Fit
    BY DEF Entries
  <2>5. Good(<<m, l>>)
    BY <2>2, <2>3, <2>4
  <2>6. FirstFit(A, len) \in Entries(A) /\ Good(FirstFit(A, len))
    BY <2>3, <2>5, Zenon DEF FirstFit
  <2> DEFINE e == FirstFit(A, len)
  <2> HIDE DEF e
  <2>7. /\ e[1] \in A.free /\ e[2] \in 1..(Top - Floor) /\ e[2] >= len
        /\ Pages(e[1], e[2]) \subseteq A.free
    BY <2>6 DEF Entries, e
  <2> DEFINE b == e[1] + e[2] - len
  <2>8. b \in Nat /\ Pages(b, len) \subseteq A.free
    BY <2>7 DEF Pages, ArenaOK, ArenaType
  <2>9. r = [base |-> b, arena |-> [A EXCEPT !.free = @ \ Pages(b, len)]]
    BY <1>1 DEF Alloc, e
  <2> HIDE DEF b, r
  <2>10. ArenaOK(r.arena)
    BY <2>9 DEF ArenaOK, ArenaType
  <2>11. /\ Pages(b, len) \subseteq Available(A)
         /\ Available(r.arena) \cap Pages(b, len) = {}
         /\ Available(r.arena) \subseteq Available(A)
    BY <2>8, <2>9 DEF ArenaOK, ArenaType, Available
  <2> QED BY <2>8, <2>9, <2>10, <2>11, Zenon
<1>2. CASE ~(\E e \in Entries(A) : e[2] >= len) /\ A.cursor - len >= Floor
  <2>1. r = [base |-> A.cursor - len, arena |-> [A EXCEPT !.cursor = @ - len]]
    BY <1>2 DEF Alloc
  <2> HIDE DEF r
  <2> QED BY <1>2, <2>1 DEF ArenaOK, ArenaType, Available, Pages
<1>3. CASE ~(\E e \in Entries(A) : e[2] >= len) /\ ~(A.cursor - len >= Floor)
  BY <1>3 DEF Alloc, NoAddr
<1> QED BY <1>1, <1>2, <1>3

\* claim takes the whole range out of what is available, and adds nothing.
LEMMA ClaimFacts ==
    ASSUME NEW A, ArenaOK(A), NEW addr \in Nat, NEW len \in Nat
    PROVE  /\ ArenaOK(Claim(A, addr, len))
           /\ Available(Claim(A, addr, len)) \subseteq Available(A) \ Pages(addr, len)
<1>1. CASE len = 0
  BY <1>1 DEF Claim, Pages, ArenaOK, ArenaType, Available
<1>2. CASE len # 0 /\ addr < A.cursor /\ addr + len > Floor
  <2> DEFINE c == IF addr > Floor THEN addr ELSE Floor
             f == (A.free \ Pages(addr, len)) \cup (addr + len)..(A.cursor - 1)
  <2>1. Claim(A, addr, len) = [cursor |-> c, free |-> f]
    BY <1>2 DEF Claim
  <2>2. c \in Floor..Top /\ c <= A.cursor /\ c <= addr + len
    BY <1>2 DEF ArenaOK, ArenaType
  <2>3. f \subseteq Floor..(Top - 1) /\ \A p \in f : p >= c
    BY <1>2, <2>2 DEF ArenaOK, ArenaType
  <2>4. Floor..(c - 1) \cup f \subseteq Available(A) \ Pages(addr, len)
    BY <1>2, <2>2 DEF ArenaOK, ArenaType, Available, Pages
  <2> HIDE DEF c, f
  <2>5. ArenaOK([cursor |-> c, free |-> f])
    BY <2>2, <2>3 DEF ArenaOK, ArenaType
  <2>6. Available([cursor |-> c, free |-> f]) = Floor..(c - 1) \cup f
    BY DEF Available
  <2> QED BY <2>1, <2>4, <2>5, <2>6
<1>3. CASE len # 0 /\ ~(addr < A.cursor /\ addr + len > Floor)
  <2>1. Claim(A, addr, len) = [A EXCEPT !.free = A.free \ Pages(addr, len)]
    BY <1>3 DEF Claim
  <2>2. Pages(addr, len) \cap Floor..(A.cursor - 1) = {}
    BY <1>3 DEF Pages, ArenaOK, ArenaType
  <2>3. ArenaOK(Claim(A, addr, len))
    BY <2>1 DEF ArenaOK, ArenaType
  <2> QED BY <2>1, <2>2, <2>3 DEF ArenaOK, ArenaType, Available
<1> QED BY <1>1, <1>2, <1>3

\* The cursor finds a page that is not free, at Top if nowhere else.
LEMMA AbsorbFacts ==
    ASSUME NEW A, ArenaOK(A), NEW c \in Floor..Top
    PROVE  /\ Absorb(A, c) \in c..Top
           /\ c..(Absorb(A, c) - 1) \subseteq A.free
           /\ Absorb(A, c) \notin A.free
<1> DEFINE S == {d \in c..Top : d \notin A.free}
<1>1. Top \in S /\ S \subseteq Nat
  BY DEF ArenaOK, ArenaType
<1>2. PICK m \in S : \A n \in S : m <= n
  BY <1>1, LeastElement, Zenon
<1>3. m \in c..Top /\ m \notin A.free /\ c..(m - 1) \subseteq A.free
  BY <1>2
<1> QED BY <1>3 DEF Absorb

\* free_range makes no page available beyond the range it is given.
LEMMA FreeRangeFacts ==
    ASSUME NEW A, ArenaOK(A), NEW addr \in Nat, NEW len \in Nat
    PROVE  /\ ArenaOK(FreeRange(A, addr, len))
           /\ Available(FreeRange(A, addr, len)) \subseteq Available(A) \cup Pages(addr, len)
<1> DEFINE Refused == \/ len = 0 \/ addr < A.cursor \/ addr + len > Top
                      \/ Pages(addr, len) \cap A.free # {}
<1>1. CASE Refused
  BY <1>1 DEF FreeRange
<1>2. CASE ~Refused /\ addr = A.cursor
  <2> DEFINE c == Absorb(A, addr + len)
  <2>1. addr + len \in Floor..Top
    BY <1>2 DEF ArenaOK, ArenaType
  <2>2. /\ c \in (addr + len)..Top
        /\ (addr + len)..(c - 1) \subseteq A.free
        /\ c \notin A.free
    BY <2>1, AbsorbFacts
  <2>3. FreeRange(A, addr, len) = [cursor |-> c, free |-> A.free \ addr..c]
    BY <1>2 DEF FreeRange
  <2> HIDE DEF c
  <2> QED BY <1>2, <2>1, <2>2, <2>3 DEF ArenaOK, ArenaType, Available, Pages
<1>3. CASE ~Refused /\ addr # A.cursor
  <2>1. FreeRange(A, addr, len) = [A EXCEPT !.free = @ \cup Pages(addr, len)]
    BY <1>3 DEF FreeRange
  <2> QED BY <1>3, <2>1 DEF ArenaOK, ArenaType, Available, Pages
<1> QED BY <1>1, <1>2, <1>3

-----------------------------------------------------------------------------
\* The inductive invariant: the types, the shape of the arena, and no mapped
\* page among the available ones.
IInv ==
    /\ TypeOK
    /\ ArenaOK(arena)
    /\ AvailableUnmapped

\* The first pages of a range are pages of it.
LEMMA FirstPages ==
    ASSUME NEW base \in Nat, NEW len \in Nat, NEW got \in 0..len
    PROVE  Pages(base, got) \subseteq Pages(base, len)
BY DEF Pages

\* A break rounds up to a page number.
LEMMA PageUpNat == ASSUME NEW u \in Nat PROVE PageUp(u) \in Nat
<1>1. PageUnits \in Nat /\ PageUnits > 0
  OBVIOUS
<1>2. (u + PageUnits - 1) \div PageUnits \in Nat
  BY <1>1
<1> QED BY <1>2 DEF PageUp

\* The break a program starts with.
LEMMA StartBreak == HeapStart * PageUnits \in Nat
  OBVIOUS

\* The states the space starts in satisfy the invariant.
LEMMA InitIInv == Init => IInv
<1> SUFFICES ASSUME Init PROVE IInv
  OBVIOUS
<1>1. brk \in [Threads -> Nat]
  BY StartBreak DEF Init
<1>2. ArenaOK(NewArena) /\ Available(NewArena) = Floor..(Top - 1)
  BY DEF ArenaOK, ArenaType, NewArena, Available
<1>3. High - 1 \in Space /\ High - 1 \notin Floor..(Top - 1)
  BY DEF Space
<1>4. arena = NewArena /\ mapped = {High - 1} /\ heap = {} /\ attaches = {}
      /\ placed = {}
  BY DEF Init
<1>5. TypeOK
  BY <1>1, <1>2, <1>3, <1>4 DEF TypeOK, ArenaOK
<1>6. AvailableUnmapped
  BY <1>2, <1>3, <1>4 DEF AvailableUnmapped
<1> QED BY <1>2, <1>4, <1>5, <1>6 DEF IInv

\* Every call preserves the invariant: what it makes available it has just
\* unmapped, and what it maps it has taken from what was available.
LEMMA NextIInv == IInv /\ [Next]_vars => IInv'
<1> SUFFICES ASSUME IInv, [Next]_vars PROVE IInv'
  OBVIOUS
<1> USE DEF IInv, AvailableUnmapped, TypeOK, Space, Lens
<1>0. /\ ArenaOK(arena) /\ Available(arena) \cap mapped = {}
      /\ Available(arena) \subseteq Space
  BY DEF ArenaOK, ArenaType, Available
<1>l. \A len \in Lens : len \in Nat \ {0}
  OBVIOUS
<1>1. ASSUME NEW len \in Lens, NEW got \in 0..len, MmapAnywhere(len, got)
      PROVE  IInv'
  <2> DEFINE r == Alloc(arena, len)
  <2>1. /\ r.base # NoAddr /\ arena' = r.arena
        /\ UNCHANGED <<brk, heap, attaches>>
        /\ mapped' = mapped \cup Pages(r.base, got)
        /\ placed' = Pages(r.base, got)
    BY <1>1 DEF MmapAnywhere, Map
  <2>2. /\ ArenaOK(r.arena) /\ r.base \in Nat
        /\ Pages(r.base, len) \subseteq Available(arena)
        /\ Available(r.arena) \cap Pages(r.base, len) = {}
        /\ Available(r.arena) \subseteq Available(arena)
    BY <1>0, <1>l, <2>1, AllocFacts, Zenon
  <2> HIDE DEF r
  <2>3. Pages(r.base, got) \subseteq Pages(r.base, len)
    BY <1>l, <2>2, FirstPages
  <2> QED BY <1>0, <2>1, <2>2, <2>3, Zenon DEF ArenaOK
<1>2. ASSUME NEW len \in Lens, ShmatAnywhere(len)
      PROVE  IInv'
  <2> DEFINE r == Alloc(arena, len)
  <2>1. /\ r.base # NoAddr /\ arena' = r.arena
        /\ UNCHANGED <<brk, heap>>
        /\ attaches' = attaches \cup {<<r.base, len>>}
        /\ mapped' = mapped \cup Pages(r.base, len)
        /\ placed' = Pages(r.base, len)
    BY <1>2 DEF ShmatAnywhere, Map
  <2>2. /\ ArenaOK(r.arena) /\ r.base \in Nat
        /\ Pages(r.base, len) \subseteq Available(arena)
        /\ Available(r.arena) \cap Pages(r.base, len) = {}
        /\ Available(r.arena) \subseteq Available(arena)
    BY <1>0, <1>l, <2>1, AllocFacts, Zenon
  <2> HIDE DEF r
  <2>3. attaches' \subseteq Nat \X Nat
    BY <1>l, <2>1, <2>2
  <2> QED BY <1>0, <2>1, <2>2, <2>3, Zenon DEF ArenaOK
<1>3. ASSUME NEW rg \in Ranges, NEW got \in 0..rg[2], NEW b \in BOOLEAN,
             \/ MmapFixed(rg[1], rg[2], got, b)
             \/ ShmatFixed(rg[1], rg[2], b) /\ got = rg[2]
      PROVE  IInv'
  <2>1. rg[1] \in Nat /\ rg[2] \in Nat /\ Pages(rg[1], rg[2]) \subseteq Space
    BY DEF Ranges, Pages
  <2>2. /\ ArenaOK(Claim(arena, rg[1], rg[2]))
        /\ Available(Claim(arena, rg[1], rg[2])) \subseteq Available(arena) \ Pages(rg[1], rg[2])
    BY <1>0, <2>1, ClaimFacts, Zenon
  <2>3. /\ arena' = Claim(arena, rg[1], rg[2])
        /\ mapped' = mapped \cup Pages(rg[1], got)
        /\ heap' = heap \ Pages(rg[1], got)
        /\ Called /\ UNCHANGED brk
        /\ attaches' \subseteq attaches \cup {<<rg[1], rg[2]>>}
    BY <1>3, Zenon DEF MmapFixed, ShmatFixed, Map
  <2>4. attaches' \subseteq Nat \X Nat
    BY <2>1, <2>3
  <2>5. Pages(rg[1], got) \subseteq Pages(rg[1], rg[2])
    BY <2>1, FirstPages
  <2> QED BY <1>0, <2>1, <2>2, <2>3, <2>4, <2>5, Zenon DEF Called, ArenaOK
<1>4. ASSUME NEW rg \in Ranges, Munmap(rg[1], rg[2])
      PROVE  IInv'
  <2>1. rg[1] \in Nat /\ rg[2] \in Nat
    BY DEF Ranges
  <2>2. /\ ArenaOK(FreeRange(arena, rg[1], rg[2]))
        /\ Available(FreeRange(arena, rg[1], rg[2])) \subseteq Available(arena) \cup Pages(rg[1], rg[2])
    BY <1>0, <2>1, FreeRangeFacts, Zenon
  <2> QED BY <1>0, <1>4, <2>1, <2>2, Zenon DEF Munmap, Unmap, Called, ArenaOK
<1>5. ASSUME NEW rg \in Ranges, NEW new \in Lens, MremapShrink(rg[1], rg[2], new)
      PROVE  IInv'
  <2> DEFINE a == rg[1] + new
             l == rg[2] - new
  <2>1. a \in Nat /\ l \in Nat
    BY <1>5 DEF Ranges, MremapShrink
  <2>2. /\ ArenaOK(FreeRange(arena, a, l))
        /\ Available(FreeRange(arena, a, l)) \subseteq Available(arena) \cup Pages(a, l)
    BY <1>0, <2>1, FreeRangeFacts, Zenon
  <2>3. /\ arena' = FreeRange(arena, a, l) /\ mapped' = mapped \ Pages(a, l)
        /\ heap' = heap \ Pages(a, l) /\ Called /\ UNCHANGED <<brk, attaches>>
    BY <1>5 DEF MremapShrink, Unmap
  <2> HIDE DEF a, l
  <2> QED BY <1>0, <2>2, <2>3, Zenon DEF Called, ArenaOK
<1>6. ASSUME NEW rg \in Ranges, NEW new \in Lens, MremapGrow(rg[1], rg[2], new)
      PROVE  IInv'
  <2> DEFINE a == rg[1] + rg[2]
             l == new - rg[2]
  <2>1. a \in Nat /\ l \in Nat
    BY <1>6 DEF Ranges, MremapGrow
  <2>2. Pages(a, l) \subseteq Space
    BY <1>0, <1>6 DEF MremapGrow, IsFree, Available
  <2>3. /\ ArenaOK(Claim(arena, a, l))
        /\ Available(Claim(arena, a, l)) \subseteq Available(arena) \ Pages(a, l)
    BY <1>0, <2>1, ClaimFacts, Zenon
  <2>4. /\ arena' = Claim(arena, a, l) /\ mapped' = mapped \cup Pages(a, l)
        /\ Called /\ UNCHANGED <<brk, heap, attaches>>
    BY <1>6 DEF MremapGrow, Map
  <2> HIDE DEF a, l
  <2> QED BY <1>0, <2>2, <2>3, <2>4, Zenon DEF Called, ArenaOK
<1>7. ASSUME NEW rg \in Ranges, NEW new \in Lens, NEW keep \in BOOLEAN,
             MremapMove(rg[1], rg[2], new, keep)
      PROVE  IInv'
  <2> DEFINE r == Alloc(arena, new)
             old == Pages(rg[1], rg[2])
  <2>1. /\ r.base # NoAddr
        /\ placed' = Pages(r.base, new)
        /\ mapped' = (mapped \cup Pages(r.base, new)) \ (IF keep THEN {} ELSE old)
        /\ heap' = heap \ old
        /\ arena' = IF keep THEN r.arena ELSE FreeRange(r.arena, rg[1], rg[2])
        /\ UNCHANGED <<brk, attaches>>
        /\ old \subseteq mapped
    BY <1>7 DEF MremapMove
  <2>2. /\ ArenaOK(r.arena)
        /\ Pages(r.base, new) \subseteq Available(arena)
        /\ Available(r.arena) \cap Pages(r.base, new) = {}
        /\ Available(r.arena) \subseteq Available(arena)
    BY <1>0, <1>l, <2>1, AllocFacts, Zenon
  <2>3. rg[1] \in Nat /\ rg[2] \in Nat
    BY DEF Ranges
  <2>4. /\ ArenaOK(FreeRange(r.arena, rg[1], rg[2]))
        /\ Available(FreeRange(r.arena, rg[1], rg[2])) \subseteq Available(r.arena) \cup old
    BY <2>2, <2>3, FreeRangeFacts, Zenon
  <2> HIDE DEF r, old
  <2> QED BY <1>0, <2>1, <2>2, <2>4, Zenon DEF ArenaOK
<1>8. ASSUME NEW rg \in Ranges, NEW new \in Lens, NEW keep \in BOOLEAN,
             NEW to \in 0..(High - new), MremapFixed(rg[1], rg[2], to, new, keep)
      PROVE  IInv'
  <2> DEFINE C == Claim(arena, to, new)
             old == Pages(rg[1], rg[2])
  <2>1. /\ mapped' = (mapped \cup Pages(to, new)) \ (IF keep THEN {} ELSE old)
        /\ heap' = heap \ (old \cup Pages(to, new))
        /\ arena' = IF keep THEN C ELSE FreeRange(C, rg[1], rg[2])
        /\ Called /\ UNCHANGED <<brk, attaches>>
    BY <1>8 DEF MremapFixed
  <2>2. to \in Nat /\ new \in Nat /\ Pages(to, new) \subseteq Space
    BY DEF Pages
  <2>3. ArenaOK(C) /\ Available(C) \subseteq Available(arena) \ Pages(to, new)
    BY <1>0, <2>2, ClaimFacts
  <2>4. rg[1] \in Nat /\ rg[2] \in Nat
    BY DEF Ranges
  <2>5. /\ ArenaOK(FreeRange(C, rg[1], rg[2]))
        /\ Available(FreeRange(C, rg[1], rg[2])) \subseteq Available(C) \cup old
    BY <2>3, <2>4, FreeRangeFacts, Zenon
  <2> HIDE DEF C, old
  <2> QED BY <1>0, <2>1, <2>2, <2>3, <2>5, Zenon DEF Called, ArenaOK
<1>9. ASSUME NEW t \in Threads, NEW addr \in 0..((Floor + 1) * PageUnits), Brk(t, addr)
      PROVE  IInv'
  <2>1. addr \in Nat /\ brk[t] \in Nat
    OBVIOUS
  <2>2. PageUp(addr) \in Nat /\ PageUp(brk[t]) \in Nat
    BY <2>1, PageUpNat
  <2>3. CASE addr > brk[t]
    <3>1. PageUp(addr) <= Floor /\ mapped' = mapped \cup HeapStep(brk[t], addr)
          /\ heap' = heap \cup HeapStep(brk[t], addr)
      BY <1>9, <2>1, <2>3 DEF Brk, Map
    <3>2. /\ HeapStep(brk[t], addr) \subseteq Space
          /\ HeapStep(brk[t], addr) \cap Available(arena) = {}
      BY <2>2, <3>1 DEF HeapStep, Available, ArenaOK, ArenaType
    <3> QED BY <1>0, <1>9, <2>1, <3>1, <3>2, Zenon DEF Brk, Called, ArenaOK
  <2>4. CASE addr <= brk[t]
    <3>1. /\ mapped' = mapped \ HeapStep(addr, brk[t])
          /\ heap' = heap \ HeapStep(addr, brk[t])
      BY <1>9, <2>1, <2>4 DEF Brk, Unmap
    <3> QED BY <1>0, <1>9, <2>1, <3>1, Zenon DEF Brk, Called, ArenaOK
  <2> QED BY <2>1, <2>3, <2>4
<1>10. ASSUME NEW a \in attaches, Shmdt(a)
      PROVE  IInv'
  <2>1. a[1] \in Nat /\ a[2] \in Nat
    OBVIOUS
  <2>2. /\ ArenaOK(FreeRange(arena, a[1], a[2]))
        /\ Available(FreeRange(arena, a[1], a[2])) \subseteq Available(arena) \cup Pages(a[1], a[2])
    BY <1>0, <2>1, FreeRangeFacts, Zenon
  <2> QED BY <1>0, <1>10, <2>2, Zenon DEF Shmdt, Unmap, Called, ArenaOK
<1>11. ASSUME NEW page \in Space, GrowStack(page)
      PROVE  IInv'
  <2> DEFINE ok(e) == (e = High \/ e \in mapped) /\ page..(e - 1) \cap mapped = {}
             end == CHOOSE e \in page..High : ok(e)
             S == {e \in page..High : e = High \/ e \in mapped}
  <2>1. High \in S /\ S \subseteq Nat
    OBVIOUS
  <2>2. PICK m \in S : \A n \in S : m <= n
    BY <2>1, LeastElement, Zenon
  <2>3. m \in page..High /\ ok(m)
    BY <2>2
  <2>4. end \in page..High
    BY <2>3
  <2>5. mapped' = mapped \cup page..(end - 1) /\ page \in StackLimit..(High - 1)
    BY <1>11 DEF GrowStack, Map
  <2> HIDE DEF end
  <2>6. /\ page..(end - 1) \subseteq Space
        /\ page..(end - 1) \cap Available(arena) = {}
    BY <2>4, <2>5 DEF Available, ArenaOK, ArenaType
  <2> QED BY <1>0, <1>11, <2>5, <2>6, Zenon DEF GrowStack, Called, ArenaOK
<1>12. ASSUME NEW t \in Threads, NEW loads \in BOOLEAN, Exec(t, loads)
      PROVE  IInv'
  <2>1. ArenaOK(NewArena) /\ Available(NewArena) = Floor..(Top - 1)
    BY DEF ArenaOK, ArenaType, NewArena, Available
  <2>2. CASE loads
    <3>1. /\ arena' = NewArena /\ mapped' = {High - 1} /\ heap' = {} /\ attaches' = {}
          /\ placed' = {} /\ brk' = [brk EXCEPT ![t] = HeapStart * PageUnits]
      BY <1>12, <2>2 DEF Exec
    <3>2. High - 1 \in Space /\ High - 1 \notin Floor..(Top - 1)
      OBVIOUS
    <3>3. brk' \in [Threads -> Nat]
      BY <3>1, StartBreak
    <3> QED BY <2>1, <3>1, <3>2, <3>3 DEF ArenaOK
  <2>3. CASE ~loads
    BY <1>0, <1>12, <2>3 DEF Exec, ArenaOK
  <2> QED BY <2>2, <2>3
<1>13. CASE UNCHANGED vars
  BY <1>0, <1>13 DEF vars, ArenaOK
<1>14. \A rg \in Ranges : rg[2] \in 0..rg[2]
  BY DEF Ranges
<1>15. ASSUME NEW rg \in Ranges, NEW b \in BOOLEAN, ShmatFixed(rg[1], rg[2], b)
       PROVE  IInv'
  BY <1>3, <1>14, <1>15, Zenon
<1> QED
  BY <1>1, <1>2, <1>3, <1>4, <1>5, <1>6, <1>7, <1>8, <1>9, <1>10, <1>11, <1>12, <1>13,
     <1>15, Zenon DEF Next

\* For every layout, the arena never counts a mapped page as available: no
\* sequence of mmap, munmap, mremap, brk, shmat, shmdt, execve and stack
\* faults makes mmap hand out a page that is in use.
THEOREM ArenaSafe == Spec => []AvailableUnmapped
<1>1. IInv => AvailableUnmapped
  BY DEF IInv
<1> QED BY <1>1, InitIInv, NextIInv, PTL DEF Spec

\* The variables keep their types.
THEOREM TypeCorrect == Spec => []TypeOK
<1>1. IInv => TypeOK
  BY DEF IInv
<1> QED BY <1>1, InitIInv, NextIInv, PTL DEF Spec

-----------------------------------------------------------------------------
\* A call places new pages, if it places any, on pages that were available.
LEMMA NextPlaced == IInv /\ Next => placed' \cap mapped = {}
<1> SUFFICES ASSUME IInv, Next, placed' # {} PROVE placed' \cap mapped = {}
  OBVIOUS
<1>0. ArenaOK(arena) /\ Available(arena) \cap mapped = {}
  BY DEF IInv, AvailableUnmapped
<1> DEFINE P(len) == /\ Alloc(arena, len).base # NoAddr
                     /\ \E got \in 0..len : placed' = Pages(Alloc(arena, len).base, got)
<1>1. \E len \in Lens : P(len)
  <2>0. \A len \in Lens : len \in 0..len
    BY DEF Lens
  <2>1. ASSUME NEW len \in Lens, NEW got \in 0..len, MmapAnywhere(len, got)
        PROVE  P(len)
    BY <2>1, Zenon DEF MmapAnywhere
  <2>2. ASSUME NEW len \in Lens, ShmatAnywhere(len)
        PROVE  P(len)
    BY <2>0, <2>2, Zenon DEF ShmatAnywhere
  <2>3. ASSUME NEW rg \in Ranges, NEW new \in Lens, NEW keep \in BOOLEAN,
               MremapMove(rg[1], rg[2], new, keep)
        PROVE  P(new)
    BY <2>0, <2>3, Zenon DEF MremapMove
  <2>4. \A base, len, got, b : ~MmapFixed(base, len, got, b) /\ ~ShmatFixed(base, len, b)
    BY DEF MmapFixed, ShmatFixed, Called
  <2>5. \A base, old, new : ~Munmap(base, old) /\ ~MremapShrink(base, old, new) /\ ~MremapGrow(base, old, new)
    BY DEF Munmap, MremapShrink, MremapGrow, Called
  <2>6. \A base, old, to, new, keep : ~MremapFixed(base, old, to, new, keep)
    BY DEF MremapFixed, Called
  <2>7. \A x, y : ~Brk(x, y) /\ ~Shmdt(x) /\ ~GrowStack(x) /\ ~Exec(x, y)
    BY DEF Brk, Shmdt, GrowStack, Exec, Called
  <2> HIDE DEF P
  <2> QED BY <2>1, <2>2, <2>3, <2>4, <2>5, <2>6, <2>7, Zenon DEF Next
<1>2. PICK len \in Lens : P(len)
  BY <1>1
<1>3. len \in Nat \ {0}
  BY DEF Lens
<1>4. /\ Alloc(arena, len).base \in Nat
      /\ Pages(Alloc(arena, len).base, len) \subseteq Available(arena)
  BY <1>0, <1>2, <1>3, AllocFacts, Zenon
<1>5. PICK got \in 0..len : placed' = Pages(Alloc(arena, len).base, got)
  BY <1>2
<1>6. Pages(Alloc(arena, len).base, got) \subseteq Pages(Alloc(arena, len).base, len)
  BY <1>3, <1>4, FirstPages
<1> QED BY <1>0, <1>4, <1>5, <1>6, Zenon

\* For every layout and any number of threads, mmap, shmat and mremap that
\* choose the place themselves never choose pages that are mapped, so they
\* never wipe or alias memory in use.
THEOREM FreshPlacement == Spec => PlacedOnFreshPages
<1>1. IInv /\ [Next]_vars => [placed' \cap mapped = {}]_vars
  BY NextPlaced
<1> QED BY <1>1, InitIInv, NextIInv, PTL DEF Spec, PlacedOnFreshPages

-----------------------------------------------------------------------------
\* Rounding to a page keeps the order.
LEMMA DivMonotone ==
    ASSUME NEW a \in Nat, NEW b \in Nat, a <= b
    PROVE  a \div PageUnits <= b \div PageUnits
<1>1. PageUnits \in Nat /\ PageUnits > 0
  OBVIOUS
<1> QED BY <1>1

\* A higher break ends at the same or a higher page.
LEMMA PageUpMonotone ==
    ASSUME NEW a \in Nat, NEW b \in Nat, a <= b
    PROVE  PageUp(a) <= PageUp(b)
<1>1. /\ a + PageUnits - 1 \in Nat /\ b + PageUnits - 1 \in Nat
      /\ a + PageUnits - 1 <= b + PageUnits - 1
  OBVIOUS
<1> QED BY <1>1, DivMonotone DEF PageUp

\* Every page of the heap lies below some thread's break, rounded up.
HeapBelowBreak == \A p \in heap : \E t \in Threads : p < PageUp(brk[t])

\* brk keeps the heap below the highest break.
LEMMA BrkHeap ==
    ASSUME TypeOK, HeapBelowBreak,
           NEW t \in Threads, NEW addr \in Nat, Brk(t, addr)
    PROVE  HeapBelowBreak'
<1>1. brk \in [Threads -> Nat] /\ brk' = [brk EXCEPT ![t] = addr]
  BY DEF TypeOK, Brk
<1>2. PageUp(addr) \in Nat /\ PageUp(brk[t]) \in Nat /\ heap \subseteq Nat
  BY <1>1, PageUpNat DEF TypeOK, Space
<1>3. SUFFICES ASSUME NEW p \in heap'
               PROVE  \E u \in Threads : p < PageUp(brk'[u])
  BY Zenon DEF HeapBelowBreak
<1>4. brk'[t] = addr
  BY <1>1
<1>5. \/ p \in heap
      \/ addr > brk[t] /\ p \in HeapStep(brk[t], addr)
  BY <1>3 DEF Brk, Unmap
<1>6. CASE p \notin heap
  <2>1. p < PageUp(addr)
    BY <1>2, <1>5, <1>6 DEF HeapStep
  <2> QED BY <1>4, <2>1
<1>7. CASE p \in heap
  <2>1. PICK u \in Threads : p < PageUp(brk[u])
    BY <1>7 DEF HeapBelowBreak
  <2>2. CASE u # t
    <3>1. brk'[u] = brk[u]
      BY <1>1, <2>2
    <3> QED BY <2>1, <3>1
  <2>3. CASE u = t /\ addr > brk[t]
    <3>1. PageUp(brk[t]) <= PageUp(addr)
      BY <1>1, <2>3, PageUpMonotone
    <3>2. p < PageUp(addr)
      BY <1>2, <1>7, <2>1, <2>3, <3>1
    <3> QED BY <1>4, <3>2
  <2>4. CASE u = t /\ ~(addr > brk[t])
    <3>1. heap' = heap \ HeapStep(addr, brk[t])
      BY <1>1, <2>4 DEF Brk, Unmap
    <3>2. p < PageUp(addr)
      BY <1>2, <1>3, <1>7, <2>1, <2>4, <3>1 DEF HeapStep
    <3> QED BY <1>4, <3>2
  <2> QED BY <2>2, <2>3, <2>4
<1> QED BY <1>6, <1>7

\* No other call adds to the heap or moves a break but execve, which empties
\* the heap.
LEMMA NextHeap ==
    ASSUME TypeOK, HeapBelowBreak, [Next]_vars
    PROVE  HeapBelowBreak'
<1>1. ASSUME NEW t \in Threads, NEW addr \in 0..((Floor + 1) * PageUnits), Brk(t, addr)
      PROVE  HeapBelowBreak'
  <2>1. addr \in Nat
    OBVIOUS
  <2> QED BY <1>1, <2>1, BrkHeap
<1>2. ASSUME NEW t \in Threads, NEW loads \in BOOLEAN, Exec(t, loads)
      PROVE  HeapBelowBreak'
  BY <1>2 DEF Exec, HeapBelowBreak
<1>3. CASE heap' \subseteq heap /\ brk' = brk
  BY <1>3 DEF HeapBelowBreak
<1>4. ASSUME Next
      PROVE  \/ \E t \in Threads, addr \in 0..((Floor + 1) * PageUnits) : Brk(t, addr)
             \/ \E t \in Threads, loads \in BOOLEAN : Exec(t, loads)
             \/ heap' \subseteq heap /\ brk' = brk
  <2> DEFINE Q == heap' \subseteq heap /\ brk' = brk
  <2>1. \A base, len, got, b : (MmapAnywhere(len, got) \/ ShmatAnywhere(len) \/ MmapFixed(base, len, got, b)
                                \/ ShmatFixed(base, len, b)) => Q
    BY DEF MmapAnywhere, ShmatAnywhere, MmapFixed, ShmatFixed
  <2>2. \A base, old, new : (Munmap(base, old) \/ MremapShrink(base, old, new) \/ MremapGrow(base, old, new)) => Q
    BY DEF Munmap, MremapShrink, MremapGrow, Unmap
  <2>3. \A base, old, to, new, keep : (MremapMove(base, old, new, keep) \/ MremapFixed(base, old, to, new, keep)) => Q
    BY DEF MremapMove, MremapFixed
  <2>4. \A x : (Shmdt(x) \/ GrowStack(x)) => Q
    BY DEF Shmdt, GrowStack, Unmap
  <2> HIDE DEF Q
  <2>5. \/ \E t \in Threads, addr \in 0..((Floor + 1) * PageUnits) : Brk(t, addr)
        \/ \E t \in Threads, loads \in BOOLEAN : Exec(t, loads)
        \/ Q
    BY <1>4, <2>1, <2>2, <2>3, <2>4, Zenon DEF Next
  <2> QED BY <2>5 DEF Q
<1>5. ASSUME UNCHANGED vars PROVE heap' \subseteq heap /\ brk' = brk
  BY <1>5 DEF vars
<1> QED BY <1>1, <1>2, <1>3, <1>4, <1>5

\* For every layout and any number of threads, a thread whose break no other
\* thread's exceeds grows it over pages only that do not back the heap yet.
THEOREM FreshBreak == Spec => BreakMapsFreshPages
<1> DEFINE Inv == IInv /\ HeapBelowBreak
           Fresh == \A t \in Threads :
                       /\ brk'[t] > brk[t]
                       /\ \A u \in Threads : brk[u] <= brk[t]
                       => HeapStep(brk[t], brk'[t]) \cap heap = {}
<1>1. Init => Inv
  BY InitIInv DEF Init, HeapBelowBreak
<1>2. Inv /\ [Next]_vars => Inv'
  BY NextIInv, NextHeap DEF IInv
<1>3. Inv => Fresh
  <2> SUFFICES ASSUME Inv, NEW t \in Threads, \A u \in Threads : brk[u] <= brk[t],
                      NEW p \in heap, p \in HeapStep(brk[t], brk'[t])
               PROVE  FALSE
    BY Zenon
  <2>1. PICK u \in Threads : p < PageUp(brk[u])
    BY DEF HeapBelowBreak
  <2>2. brk[t] \in Nat /\ brk[u] \in Nat /\ p \in Nat
    BY DEF IInv, TypeOK, Space
  <2>3. PageUp(brk[u]) <= PageUp(brk[t])
    BY <2>2, PageUpMonotone
  <2>4. PageUp(brk[t]) \in Nat /\ PageUp(brk[u]) \in Nat
    BY <2>2, PageUpNat
  <2> QED BY <2>1, <2>2, <2>3, <2>4 DEF HeapStep
<1>4. Inv => [Fresh]_vars
  BY <1>3
<1> HIDE DEF Inv
<1> QED BY <1>1, <1>2, <1>4, PTL DEF Spec, BreakMapsFreshPages
=============================================================================
