-------------------------- MODULE ArenaListProofs --------------------------
(***************************************************************************)
(* For every arena, the sorted list of freed ranges keeps its order and    *)
(* its gaps, and each call on it has the effect on pages that ArenaSpec    *)
(* states.                                                                 *)
(***************************************************************************)
EXTENDS ArenaList, NaturalsInduction, WellFoundedInduction, TLAPS

USE ArenaAssumption, SizeAssumption

\* A set of naturals that is not empty has a least element.
LEMMA Least ==
    ASSUME NEW S, S \subseteq Nat, S # {}
    PROVE  \E m \in S : \A n \in S : m <= n
<1>1. PICK x \in S : \A y \in S : ~(<<y, x>> \in OpToRel(<, Nat))
  BY NatLessThanWellFounded, WFMin, Zenon
<1>2. \A y \in S : ~(y < x)
  BY <1>1, Zenon DEF OpToRel
<1> QED BY <1>2

Entry == [a : Nat, l : Nat \ {0}]

\* The fields of the entries.
LEMMA EntryTypes ==
    ASSUME NEW f \in Seq(Entry)
    PROVE  \A i \in 1..Len(f) : f[i].a \in Nat /\ f[i].l \in Nat /\ f[i].l > 0
<1>1. ASSUME NEW e \in Entry PROVE e.a \in Nat /\ e.l \in Nat /\ e.l > 0
  BY DEF Entry
<1>2. \A i \in 1..Len(f) : f[i] \in Entry
  OBVIOUS
<1> QED BY <1>1, <1>2

\* f with the entries p+1..q replaced by g.
Splice(f, p, q, g) ==
    [k \in 1..(p + Len(g) + (Len(f) - q)) |->
        IF k <= p THEN f[k]
        ELSE IF k <= p + Len(g) THEN g[k - p]
        ELSE f[k - p - Len(g) + q]]

\* The pages of a list of ranges.
Cover(f) == {x \in Nat : \E i \in 1..Len(f) : f[i].a <= x /\ x < f[i].a + f[i].l}

\* Ranges in order, with gaps, above lo and up to hi.
Ordered(f, lo, hi) ==
    /\ f \in Seq(Entry)
    /\ \A i \in 1..Len(f) : f[i].a > lo /\ f[i].a + f[i].l <= hi
    /\ \A i, j \in 1..Len(f) : i < j => f[i].a + f[i].l < f[j].a

\* Concatenation.
LEMMA Concat2 ==
    ASSUME NEW S, NEW u \in Seq(S), NEW v \in Seq(S)
    PROVE  /\ u \o v \in Seq(S)
           /\ Len(u \o v) = Len(u) + Len(v)
           /\ \A k \in 1..(Len(u) + Len(v)) :
                 (u \o v)[k] = IF k <= Len(u) THEN u[k] ELSE v[k - Len(u)]
OBVIOUS

\* Appending nothing.
LEMMA ConcatEmpty ==
    ASSUME NEW S, NEW u \in Seq(S)
    PROVE  u \o <<>> = u
OBVIOUS

\* Three sequences in a row, entry by entry.
LEMMA Concat3 ==
    ASSUME NEW S, NEW u \in Seq(S), NEW g \in Seq(S), NEW v \in Seq(S)
    PROVE  /\ u \o g \o v \in Seq(S)
           /\ Len(u \o g \o v) = Len(u) + Len(g) + Len(v)
           /\ \A k \in 1..(Len(u) + Len(g) + Len(v)) :
                 (u \o g \o v)[k] = IF k <= Len(u) THEN u[k]
                                    ELSE IF k <= Len(u) + Len(g) THEN g[k - Len(u)]
                                    ELSE v[k - (Len(u) + Len(g))]
<1> DEFINE w == u \o g
           h == w \o v
<1>1. Len(u) \in Nat /\ Len(g) \in Nat /\ Len(v) \in Nat
  OBVIOUS
<1>2. /\ w \in Seq(S) /\ Len(w) = Len(u) + Len(g)
      /\ \A k \in 1..(Len(u) + Len(g)) : w[k] = IF k <= Len(u) THEN u[k] ELSE g[k - Len(u)]
  BY Concat2
<1> HIDE DEF w
<1>3. /\ h \in Seq(S) /\ Len(h) = Len(w) + Len(v)
      /\ \A k \in 1..(Len(w) + Len(v)) : h[k] = IF k <= Len(w) THEN w[k] ELSE v[k - Len(w)]
  BY <1>2, Concat2, Zenon
<1> HIDE DEF h
<1>4. ASSUME NEW k \in 1..(Len(w) + Len(v))
      PROVE  h[k] = IF k <= Len(u) THEN u[k]
                    ELSE IF k <= Len(u) + Len(g) THEN g[k - Len(u)]
                    ELSE v[k - (Len(u) + Len(g))]
  BY <1>1, <1>2, <1>3
<1> QED BY <1>2, <1>3, <1>4 DEF h, w

\* The operations on the vector, as splices.
LEMMA ConcatSplice ==
    ASSUME NEW f \in Seq(Entry), NEW g \in Seq(Entry), NEW p \in 0..Len(f), NEW q \in p..Len(f)
    PROVE  SubSeq(f, 1, p) \o g \o SubSeq(f, q + 1, Len(f)) = Splice(f, p, q, g)
<1>1. Len(f) \in Nat /\ Len(g) \in Nat
  OBVIOUS
<1> DEFINE u == SubSeq(f, 1, p)
           v == SubSeq(f, q + 1, Len(f))
<1>2. u \in Seq(Entry) /\ Len(u) = p /\ \A k \in 1..p : u[k] = f[k]
  BY <1>1
<1>3. v \in Seq(Entry) /\ Len(v) = Len(f) - q /\ \A k \in 1..(Len(f) - q) : v[k] = f[q + k]
  BY <1>1
<1> HIDE DEF u, v
<1> DEFINE h == u \o g \o v
<1>4. /\ h \in Seq(Entry)
      /\ Len(h) = p + Len(g) + (Len(f) - q)
      /\ \A k \in 1..(p + Len(g) + (Len(f) - q)) :
             h[k] = IF k <= p THEN u[k]
                    ELSE IF k <= p + Len(g) THEN g[k - p]
                    ELSE v[k - (p + Len(g))]
  <2>1. /\ h \in Seq(Entry)
        /\ Len(h) = Len(u) + Len(g) + Len(v)
        /\ \A k \in 1..(Len(u) + Len(g) + Len(v)) :
               h[k] = IF k <= Len(u) THEN u[k]
                      ELSE IF k <= Len(u) + Len(g) THEN g[k - Len(u)]
                      ELSE v[k - (Len(u) + Len(g))]
    <3>1. u \in Seq(Entry) /\ g \in Seq(Entry) /\ v \in Seq(Entry)
      BY <1>2, <1>3
    <3>2. h \in Seq(Entry) BY <3>1, Concat3
    <3>3. Len(h) = Len(u) + Len(g) + Len(v) BY <3>1, Concat3
    <3>4. \A k \in 1..(Len(u) + Len(g) + Len(v)) :
               h[k] = IF k <= Len(u) THEN u[k]
                      ELSE IF k <= Len(u) + Len(g) THEN g[k - Len(u)]
                      ELSE v[k - (Len(u) + Len(g))] 
       BY <3>1, Concat3, Z3
    <3> QED BY <3>2, <3>3, <3>4
  <2> QED BY <1>2, <1>3, <2>1, Zenon
<1> HIDE DEF h
<1>5. ASSUME NEW k \in 1..(p + Len(g) + (Len(f) - q))
      PROVE  h[k] = Splice(f, p, q, g)[k]
  <2>1. Splice(f, p, q, g)[k] = IF k <= p THEN f[k]
                                ELSE IF k <= p + Len(g) THEN g[k - p]
                                ELSE f[k - p - Len(g) + q]
    BY DEF Splice
  <2>2. CASE k <= p
    BY <1>1, <1>2, <1>4, <2>1, <2>2
  <2>3. CASE k > p /\ k <= p + Len(g)
    BY <1>1, <1>4, <2>1, <2>3
  <2>4. CASE k > p + Len(g)
    <3> DEFINE j == k - (p + Len(g))
    <3>1. j \in 1..(Len(f) - q) /\ q + j = k - p - Len(g) + q /\ ~(k <= p) /\ ~(k <= p + Len(g))
      BY <1>1, <2>4
    <3>2. h[k] = v[j]
      BY <1>4, <3>1
    <3> HIDE DEF j
    <3> QED BY <1>3, <2>1, <3>1, <3>2, Zenon
  <2> QED BY <1>1, <2>2, <2>3, <2>4
<1>6. h = Splice(f, p, q, g)
  BY <1>4, <1>5 DEF Splice
<1> QED BY <1>6, Zenon DEF h, u, v

\* A splice is a list of entries.
LEMMA SpliceType ==
    ASSUME NEW f \in Seq(Entry), NEW g \in Seq(Entry), NEW p \in 0..Len(f), NEW q \in p..Len(f)
    PROVE  /\ Splice(f, p, q, g) \in Seq(Entry)
           /\ Len(Splice(f, p, q, g)) = p + Len(g) + (Len(f) - q)
           /\ \A k \in 1..p : Splice(f, p, q, g)[k] = f[k]
           /\ \A k \in 1..Len(g) : Splice(f, p, q, g)[p + k] = g[k]
           /\ \A k \in (q + 1)..Len(f) : Splice(f, p, q, g)[k - q + p + Len(g)] = f[k]
<1> DEFINE n == p + Len(g) + (Len(f) - q)
           h == Splice(f, p, q, g)
<1>1. Len(f) \in Nat /\ Len(g) \in Nat /\ n \in Nat
  OBVIOUS
<1>2. h = [k \in 1..n |-> h[k]]
  BY DEF Splice
<1>3. \A k \in 1..n : h[k] = IF k <= p THEN f[k]
                             ELSE IF k <= p + Len(g) THEN g[k - p]
                             ELSE f[k - p - Len(g) + q]
  BY DEF Splice
<1> HIDE DEF h
<1>4. ASSUME NEW k \in 1..p PROVE h[k] = f[k] /\ k \in 1..n
  BY <1>1, <1>3
<1>5. ASSUME NEW k \in 1..Len(g) PROVE h[p + k] = g[k] /\ p + k \in 1..n
  BY <1>1, <1>3
<1>6. ASSUME NEW k \in (q + 1)..Len(f)
      PROVE  h[k - q + p + Len(g)] = f[k] /\ k - q + p + Len(g) \in 1..n
  <2> DEFINE j == k - q + p + Len(g)
  <2>1. j \in 1..n /\ ~(j <= p) /\ ~(j <= p + Len(g)) /\ j - p - Len(g) + q = k
    BY <1>1
  <2> HIDE DEF j
  <2>2. h[j] = f[k]
    BY <1>3, <2>1
  <2> QED BY <2>1, <2>2 DEF j
<1>7. ASSUME NEW k \in 1..n PROVE h[k] \in Entry
  <2>1. CASE k <= p
    BY <1>1, <1>3, <2>1, SMTT(60)
  <2>2. CASE k > p /\ k <= p + Len(g)
    <3>1. k - p \in 1..Len(g) /\ ~(k <= p)
      BY <1>1, <2>2
    <3> QED BY <1>3, <2>2, <3>1, SMTT(60)
  <2>3. CASE k > p + Len(g)
    <3>1. k - p - Len(g) + q \in 1..Len(f) /\ ~(k <= p) /\ ~(k <= p + Len(g))
      BY <1>1, <2>3
    <3> QED BY <1>3, <3>1, SMTT(60)
  <2> QED BY <1>1, <2>1, <2>2, <2>3
<1>8. h \in Seq(Entry) /\ Len(h) = n
  <2> HIDE DEF n
  <2>1. h \in [1..n -> Entry]
    BY <1>2, <1>7
  <2> QED BY <1>1, <2>1
<1> QED BY <1>4, <1>5, <1>6, <1>8 DEF h

\* Vec::insert, as a splice.
LEMMA InsertSplice ==
    ASSUME NEW f \in Seq(Entry), NEW i \in 1..(Len(f) + 1), NEW e \in Entry
    PROVE  VecInsert(f, i, e) = Splice(f, i - 1, i - 1, <<e>>)
<1>1. i - 1 \in 0..Len(f) /\ i - 1 \in (i - 1)..Len(f) /\ (i - 1) + 1 = i
  OBVIOUS
<1>2. <<e>> \in Seq(Entry)
  OBVIOUS
<1>3. SubSeq(f, 1, i - 1) \o <<e>> \o SubSeq(f, (i - 1) + 1, Len(f)) = Splice(f, i - 1, i - 1, <<e>>)
  BY <1>1, <1>2, ConcatSplice, Zenon
<1> QED BY <1>1, <1>3, Zenon DEF VecInsert

\* Vec::remove, as a splice.
LEMMA RemoveSplice ==
    ASSUME NEW f \in Seq(Entry), NEW i \in 1..Len(f)
    PROVE  VecRemove(f, i) = Splice(f, i - 1, i, <<>>)
<1>1. i - 1 \in 0..Len(f) /\ i \in (i - 1)..Len(f)
  OBVIOUS
<1>2. <<>> \in Seq(Entry) /\ SubSeq(f, 1, i - 1) \in Seq(Entry)
  OBVIOUS
<1>3. SubSeq(f, 1, i - 1) \o <<>> = SubSeq(f, 1, i - 1)
  BY <1>2, ConcatEmpty
<1>4. SubSeq(f, 1, i - 1) \o <<>> \o SubSeq(f, i + 1, Len(f)) = Splice(f, i - 1, i, <<>>)
  BY <1>1, <1>2, ConcatSplice, Zenon
<1> QED BY <1>3, <1>4, Zenon DEF VecRemove

\* An assignment to one entry, as a splice.
LEMMA ReplaceSplice ==
    ASSUME NEW f \in Seq(Entry), NEW i \in 1..Len(f), NEW e \in Entry
    PROVE  VecSet(f, i, e) = Splice(f, i - 1, i, <<e>>)
<1>1. VecSet(f, i, e) = [k \in 1..Len(f) |-> IF k = i THEN e ELSE f[k]]
  BY DEF VecSet
<1>2. Splice(f, i - 1, i, <<e>>) = [k \in 1..Len(f) |-> IF k = i THEN e ELSE f[k]]
  BY DEF Splice
<1> QED BY <1>1, <1>2

\* The pages of the entries of f up to p and past q.
Around(f, p, q) ==
    {x \in Nat : \E i \in 1..Len(f) : (i <= p \/ i > q) /\ f[i].a <= x /\ x < f[i].a + f[i].l}

\* Where each entry of a splice comes from and goes to.
LEMMA SpliceIndex ==
    ASSUME NEW f \in Seq(Entry), NEW g \in Seq(Entry), NEW p \in 0..Len(f), NEW q \in p..Len(f),
           NEW n, n = p + Len(g) + (Len(f) - q), NEW h, h = Splice(f, p, q, g)
    PROVE  /\ \A k \in 1..n :
                 \/ k <= p /\ k \in 1..Len(f) /\ h[k] = f[k]
                 \/ k > p /\ k <= p + Len(g) /\ k - p \in 1..Len(g) /\ h[k] = g[k - p]
                 \/ /\ k > p + Len(g) /\ k - p - Len(g) + q \in (q + 1)..Len(f)
                    /\ h[k] = f[k - p - Len(g) + q]
           /\ \A k \in 1..p : k \in 1..n /\ h[k] = f[k]
           /\ \A k \in 1..Len(g) : p + k \in 1..n /\ h[p + k] = g[k]
           /\ \A k \in (q + 1)..Len(f) : /\ k - q + p + Len(g) \in 1..n
                                         /\ h[k - q + p + Len(g)] = f[k]
<1> DEFINE To(k) == k - p - Len(g) + q
<1>1. f \in Seq(Entry) /\ g \in Seq(Entry)
  OBVIOUS
<1>2. Len(f) \in Nat /\ Len(g) \in Nat /\ n \in Nat
  OBVIOUS
<1>4. \A k \in 1..n : \/ k <= p /\ k \in 1..Len(f) /\ h[k] = f[k]
                      \/ k > p /\ k <= p + Len(g) /\ k - p \in 1..Len(g) /\ h[k] = g[k - p]
                      \/ k > p + Len(g) /\ To(k) \in (q + 1)..Len(f) /\ h[k] = f[To(k)]
  <2>1. \A k \in 1..n : h[k] = IF k <= p THEN f[k]
                               ELSE IF k <= p + Len(g) THEN g[k - p] ELSE f[To(k)]
    BY DEF Splice
  <2>2. \A k \in 1..n : \/ k <= p /\ k \in 1..Len(f)
                        \/ k > p /\ ~(k <= p) /\ k <= p + Len(g) /\ k - p \in 1..Len(g)
                        \/ k > p + Len(g) /\ ~(k <= p) /\ ~(k <= p + Len(g)) /\ To(k) \in (q + 1)..Len(f)
    <3> SUFFICES ASSUME NEW k \in 1..n
                 PROVE  \/ k <= p /\ k \in 1..Len(f)
                        \/ k > p /\ ~(k <= p) /\ k <= p + Len(g) /\ k - p \in 1..Len(g)
                        \/ k > p + Len(g) /\ ~(k <= p) /\ ~(k <= p + Len(g)) /\ To(k) \in (q + 1)..Len(f)
      OBVIOUS
    <3>1. p \in Nat /\ q \in Nat /\ q <= Len(f) /\ p <= q /\ k \in Nat /\ k >= 1 /\ k <= n
      BY <1>2
    <3>2. CASE k <= p
      BY <1>2, <3>1, <3>2
    <3>3. CASE ~(k <= p) /\ k <= p + Len(g)
      BY <1>2, <3>1, <3>3
    <3>4. CASE ~(k <= p + Len(g))
      BY <1>2, <3>1, <3>4
    <3> QED BY <3>2, <3>3, <3>4
  <2> HIDE DEF To
  <2> QED BY <2>1, <2>2, Zenon
<1>5. /\ \A k \in 1..p : k \in 1..n /\ h[k] = f[k]
      /\ \A k \in 1..Len(g) : p + k \in 1..n /\ h[p + k] = g[k]
      /\ \A k \in (q + 1)..Len(f) : /\ k - q + p + Len(g) \in 1..n
                                    /\ h[k - q + p + Len(g)] = f[k]
  <2>1. \A k \in 1..p : k \in 1..n
    BY <1>2
  <2>2. \A k \in 1..Len(g) : p + k \in 1..n
    BY <1>2
  <2>3. \A k \in (q + 1)..Len(f) : k - q + p + Len(g) \in 1..n
    BY <1>2
  <2>4. \A k \in 1..p : h[k] = f[k]
    BY <1>1, SpliceType, Zenon
  <2>5. \A k \in 1..Len(g) : h[p + k] = g[k]
    BY <1>1, SpliceType, Zenon
  <2>6. \A k \in (q + 1)..Len(f) : h[k - q + p + Len(g)] = f[k]
    BY <1>1, SpliceType, Zenon
  <2> QED BY <2>1, <2>2, <2>3, <2>4, <2>5, <2>6
<1> QED BY <1>4, <1>5

\* A splice that leaves gaps on both sides keeps a list ordered.
LEMMA OrderedSplice ==
    ASSUME NEW lo \in Nat, NEW hi \in Nat, NEW f, Ordered(f, lo, hi), NEW g, Ordered(g, lo, hi),
           NEW p \in 0..Len(f), NEW q \in p..Len(f),
           \A i \in 1..p, j \in 1..Len(g) : f[i].a + f[i].l < g[j].a,
           \A i \in (q + 1)..Len(f), j \in 1..Len(g) : g[j].a + g[j].l < f[i].a
    PROVE  Ordered(Splice(f, p, q, g), lo, hi)
<1> DEFINE n == p + Len(g) + (Len(f) - q)
           h == Splice(f, p, q, g)
           To(k) == k - p - Len(g) + q
<1>1. f \in Seq(Entry) /\ g \in Seq(Entry)
  BY DEF Ordered
<1>2. Len(f) \in Nat /\ Len(g) \in Nat /\ n \in Nat
  BY <1>1
<1>3. h \in Seq(Entry) /\ Len(h) = n
  BY <1>1, SpliceType
<1>4. \A k \in 1..n : \/ k <= p /\ k \in 1..Len(f) /\ h[k] = f[k]
                      \/ k > p /\ k <= p + Len(g) /\ k - p \in 1..Len(g) /\ h[k] = g[k - p]
                      \/ k > p + Len(g) /\ To(k) \in (q + 1)..Len(f) /\ h[k] = f[To(k)]
  BY <1>1, SpliceIndex
<1> HIDE DEF h
<1>6. \A i \in 1..Len(f) : f[i].a \in Nat /\ f[i].l \in Nat /\ f[i].l > 0
  BY <1>1, EntryTypes
<1>7. \A i \in 1..Len(g) : g[i].a \in Nat /\ g[i].l \in Nat /\ g[i].l > 0
  BY <1>1, EntryTypes
<1>8. \A k \in 1..n : h[k].a > lo /\ h[k].a + h[k].l <= hi
  <2> SUFFICES ASSUME NEW k \in 1..n PROVE h[k].a > lo /\ h[k].a + h[k].l <= hi
    OBVIOUS
  <2>1. CASE k <= p /\ k \in 1..Len(f) /\ h[k] = f[k]
    BY <2>1 DEF Ordered
  <2>2. CASE k - p \in 1..Len(g) /\ h[k] = g[k - p]
    BY <2>2 DEF Ordered
  <2>3. CASE To(k) \in (q + 1)..Len(f) /\ h[k] = f[To(k)]
    <3>1. To(k) \in 1..Len(f)
      BY <1>2, <2>3
    <3> QED BY <2>3, <3>1 DEF Ordered
  <2> QED BY <1>4, <2>1, <2>2, <2>3, Zenon
<1>9. ASSUME NEW i \in 1..n, NEW j \in 1..n, i < j
      PROVE  h[i].a + h[i].l < h[j].a
  <2>1. CASE i <= p /\ i \in 1..Len(f) /\ h[i] = f[i]
    <3>1. CASE j <= p /\ j \in 1..Len(f) /\ h[j] = f[j]
      BY <1>9, <2>1, <3>1 DEF Ordered
    <3>2. CASE j - p \in 1..Len(g) /\ h[j] = g[j - p]
      <4>1. i \in 1..p
        BY <2>1
      <4> QED BY <2>1, <3>2, <4>1, Zenon
    <3>3. CASE To(j) \in (q + 1)..Len(f) /\ h[j] = f[To(j)]
      <4>1. To(j) \in 1..Len(f) /\ i < To(j)
        BY <1>2, <2>1, <3>3, SMTT(60)
      <4> QED BY <2>1, <3>3, <4>1, Zenon DEF Ordered
    <3> QED BY <1>4, <3>1, <3>2, <3>3, Zenon
  <2>2. CASE i > p /\ i - p \in 1..Len(g) /\ h[i] = g[i - p]
    <3>1. CASE j <= p
      BY <1>2, <1>9, <2>2, <3>1
    <3>2. CASE j - p \in 1..Len(g) /\ h[j] = g[j - p]
      <4>1. i - p < j - p
        BY <1>2, <1>9
      <4> QED BY <2>2, <3>2, <4>1, Zenon DEF Ordered
    <3>3. CASE To(j) \in (q + 1)..Len(f) /\ h[j] = f[To(j)]
      BY <2>2, <3>3, Zenon
    <3> QED BY <1>4, <3>1, <3>2, <3>3, Zenon
  <2>3. CASE i > p + Len(g) /\ To(i) \in (q + 1)..Len(f) /\ h[i] = f[To(i)]
    <3>1. j > p + Len(g)
      BY <1>2, <1>9, <2>3
    <3>2. ~(j <= p) /\ ~(j <= p + Len(g))
      BY <1>2, <3>1
    <3>4. To(j) \in (q + 1)..Len(f) /\ h[j] = f[To(j)]
      BY <1>4, <3>2, Zenon
    <3>3. To(i) \in 1..Len(f) /\ To(j) \in 1..Len(f) /\ To(i) < To(j)
      <4>1. p \in Nat /\ q \in Nat /\ i \in Nat /\ j \in Nat
        BY <1>2
      <4>2. To(i) < To(j)
        BY <1>2, <1>9, <4>1
      <4>3. (q + 1)..Len(f) \subseteq 1..Len(f)
        BY <1>2, <4>1
      <4> QED BY <2>3, <3>4, <4>2, <4>3, Zenon
    <3> QED BY <2>3, <3>3, <3>4, Zenon DEF Ordered
  <2> QED BY <1>4, <2>1, <2>2, <2>3, Zenon
<1>10. Ordered(h, lo, hi)
  BY <1>3, <1>8, <1>9 DEF Ordered
<1> QED BY <1>10 DEF h

\* And its pages are those of what it keeps and of what it puts in.
LEMMA CoverSplice ==
    ASSUME NEW f \in Seq(Entry), NEW g \in Seq(Entry), NEW p \in 0..Len(f), NEW q \in p..Len(f)
    PROVE  Cover(Splice(f, p, q, g)) = Around(f, p, q) \cup Cover(g)
<1> DEFINE n == p + Len(g) + (Len(f) - q)
           h == Splice(f, p, q, g)
           To(k) == k - p - Len(g) + q
<1>2. Len(f) \in Nat /\ Len(g) \in Nat /\ n \in Nat
  OBVIOUS
<1>3. h \in Seq(Entry) /\ Len(h) = n
  BY SpliceType
<1>4. \A k \in 1..n : \/ k <= p /\ k \in 1..Len(f) /\ h[k] = f[k]
                      \/ k > p /\ k <= p + Len(g) /\ k - p \in 1..Len(g) /\ h[k] = g[k - p]
                      \/ k > p + Len(g) /\ To(k) \in (q + 1)..Len(f) /\ h[k] = f[To(k)]
  <2>1. n = p + Len(g) + (Len(f) - q) /\ h = Splice(f, p, q, g)
    OBVIOUS
  <2>2. f \in Seq(Entry) /\ g \in Seq(Entry)
    OBVIOUS
  <2> HIDE DEF n, h
  <2> QED BY <2>1, <2>2, SpliceIndex, SMTT(60)
<1>5. /\ \A k \in 1..p : k \in 1..n /\ h[k] = f[k]
      /\ \A k \in 1..Len(g) : p + k \in 1..n /\ h[p + k] = g[k]
      /\ \A k \in (q + 1)..Len(f) : /\ k - q + p + Len(g) \in 1..n
                                    /\ h[k - q + p + Len(g)] = f[k]
  <2>1. \A k \in 1..p : k \in 1..n /\ h[k] = f[k]
    BY SpliceIndex
  <2>2. \A k \in 1..Len(g) : p + k \in 1..n /\ h[p + k] = g[k]
    BY SpliceIndex
  <2>3. \A k \in (q + 1)..Len(f) : /\ k - q + p + Len(g) \in 1..n
                                   /\ h[k - q + p + Len(g)] = f[k]
    BY SpliceIndex
  <2> QED BY <2>1, <2>2, <2>3
<1> HIDE DEF h
<1>11. ASSUME NEW x \in Cover(h) PROVE x \in Around(f, p, q) \cup Cover(g)
  <2>1. PICK k \in 1..n : h[k].a <= x /\ x < h[k].a + h[k].l
    BY <1>3, <1>11 DEF Cover
  <2>2. x \in Nat
    BY <1>11 DEF Cover
  <2>3. CASE k <= p /\ k \in 1..Len(f) /\ h[k] = f[k]
    BY <2>1, <2>2, <2>3 DEF Around
  <2>4. CASE k - p \in 1..Len(g) /\ h[k] = g[k - p]
    BY <2>1, <2>2, <2>4 DEF Cover
  <2>5. CASE To(k) \in (q + 1)..Len(f) /\ h[k] = f[To(k)]
    <3>1. To(k) \in 1..Len(f) /\ To(k) > q
      BY <1>2, <2>5
    <3> QED BY <2>1, <2>2, <2>5, <3>1 DEF Around
  <2> QED BY <1>4, <2>3, <2>4, <2>5
<1>12. ASSUME NEW x \in Cover(g) PROVE x \in Cover(h)
  <2>1. PICK k \in 1..Len(g) : g[k].a <= x /\ x < g[k].a + g[k].l
    BY <1>12 DEF Cover
  <2>2. x \in Nat
    BY <1>12 DEF Cover
  <2> QED BY <1>3, <1>5, <2>1, <2>2, Zenon DEF Cover
<1>13. ASSUME NEW x \in Around(f, p, q) PROVE x \in Cover(h)
  <2>1. PICK k \in 1..Len(f) : (k <= p \/ k > q) /\ f[k].a <= x /\ x < f[k].a + f[k].l
    BY <1>13 DEF Around
  <2>2. x \in Nat
    BY <1>13 DEF Around
  <2>3. CASE k <= p
    <3>1. k \in 1..n /\ h[k] = f[k]
      BY <1>5, <2>3
    <3> QED BY <1>3, <2>1, <2>2, <3>1, Zenon DEF Cover
  <2>4. CASE k > q
    <3> DEFINE j == k - q + p + Len(g)
    <3>1. j \in 1..n /\ h[j] = f[k]
      BY <1>5, <2>4
    <3> HIDE DEF j
    <3> QED BY <1>3, <2>1, <2>2, <3>1 DEF Cover
  <2> QED BY <2>1, <2>3, <2>4
<1> QED BY <1>11, <1>12, <1>13 DEF h

\* The entries that satisfy a property of a prefix are counted by one number.
LEMMA Prefix ==
    ASSUME NEW n \in Nat, NEW S, S \subseteq 1..n, \A i \in S : \A j \in 1..i : j \in S
    PROVE  \E k \in 0..n : \A i \in 1..n : i <= k <=> i \in S
<1> DEFINE T == {i \in 1..(n + 1) : i \notin S}
<1>1. T \subseteq Nat /\ n + 1 \in T
  OBVIOUS
<1>2. PICK m \in T : \A i \in T : m <= i
  <2> HIDE DEF T
  <2> QED BY <1>1, Least, Zenon
<1>3. m - 1 \in 0..n
  OBVIOUS
<1>4. ASSUME NEW i \in 1..n PROVE i <= m - 1 <=> i \in S
  <2>1. ASSUME i <= m - 1 PROVE i \in S
    BY <1>2, <2>1
  <2>2. ASSUME i \in S, m <= i PROVE FALSE
    <3>1. m \in 1..i
      BY <2>2
    <3> QED BY <2>2, <3>1
  <2> QED BY <2>1, <2>2
<1> QED BY <1>3, <1>4

\* PartitionPoint counts the entries below addr.
LEMMA PartitionPoints ==
    ASSUME NEW lo \in Nat, NEW hi \in Nat, NEW f, Ordered(f, lo, hi), NEW addr \in Nat
    PROVE  /\ PartitionPoint(f, addr) \in 0..Len(f)
           /\ \A i \in 1..Len(f) : i <= PartitionPoint(f, addr) <=> f[i].a < addr
<1>1. f \in Seq(Entry) /\ Len(f) \in Nat /\ DOMAIN f = 1..Len(f)
  BY DEF Ordered
<1>2. \A i \in 1..Len(f) : f[i].a \in Nat /\ f[i].l \in Nat /\ f[i].l > 0
  BY <1>1, EntryTypes
<1> DEFINE S == {i \in 1..Len(f) : f[i].a < addr}
<1>3. \A i \in S : \A j \in 1..i : j \in S
  <2> SUFFICES ASSUME NEW i \in S, NEW j \in 1..i PROVE j \in S
    OBVIOUS
  <2>1. j \in 1..Len(f)
    BY <1>1
  <2>2. CASE j = i
    BY <2>2
  <2>3. CASE j < i
    <3>1. f[j].a + f[j].l < f[i].a
      BY <2>1, <2>3 DEF Ordered
    <3> QED BY <1>2, <2>1, <3>1
  <2> QED BY <1>1, <2>2, <2>3
<1>4. PICK k \in 0..Len(f) : \A i \in 1..Len(f) : i <= k <=> i \in S
  <2>1. S \subseteq 1..Len(f)
    OBVIOUS
  <2> HIDE DEF S
  <2> QED BY <1>1, <1>3, <2>1, Prefix, Zenon
<1>5. \A i \in DOMAIN f : i <= k <=> f[i].a < addr
  BY <1>1, <1>4
<1> QED BY <1>1, <1>5 DEF PartitionPoint

\* No two entries of an ordered list share a page.
LEMMA SameEntry ==
    ASSUME NEW lo \in Nat, NEW hi \in Nat, NEW f, Ordered(f, lo, hi), NEW x \in Nat,
           NEW i \in 1..Len(f), NEW j \in 1..Len(f),
           f[i].a <= x, x <= f[i].a + f[i].l, f[j].a <= x, x <= f[j].a + f[j].l
    PROVE  i = j
<1>1. f \in Seq(Entry) /\ Len(f) \in Nat
  BY DEF Ordered
<1>2. /\ f[i].a \in Nat /\ f[i].l \in Nat
      /\ f[j].a \in Nat /\ f[j].l \in Nat
  BY <1>1, EntryTypes
<1>3. CASE i < j
  <2>1. f[i].a + f[i].l < f[j].a
    BY <1>3 DEF Ordered
  <2> QED BY <1>2, <2>1, SMTT(60)
<1>4. CASE j < i
  <2>1. f[j].a + f[j].l < f[i].a
    BY <1>4 DEF Ordered
  <2> QED BY <1>2, <2>1
<1> QED BY <1>1, <1>3, <1>4

\* The pages next to an entry are not free.
LEMMA Bounded ==
    ASSUME NEW lo \in Nat, NEW hi \in Nat, NEW f, Ordered(f, lo, hi), NEW i \in 1..Len(f)
    PROVE  /\ f[i].a + f[i].l \notin Cover(f)
           /\ f[i].a - 1 \notin Cover(f)
<1>1. f \in Seq(Entry) /\ Len(f) \in Nat
  BY DEF Ordered
<1>2. \A j \in 1..Len(f) : f[j].a \in Nat /\ f[j].l \in Nat /\ f[j].l > 0
  BY <1>1, EntryTypes
<1>3. ASSUME NEW x \in Nat, NEW j \in 1..Len(f), f[j].a <= x, x < f[j].a + f[j].l,
             x = f[i].a + f[i].l
      PROVE  FALSE
  <2>1. f[i].a <= x /\ x <= f[i].a + f[i].l /\ x <= f[j].a + f[j].l
    BY <1>2, <1>3, SMTT(60)
  <2>2. i = j
    BY <1>3, <2>1, SameEntry
  <2> QED BY <1>2, <1>3, <2>2
<1>4. ASSUME NEW x \in Nat, NEW j \in 1..Len(f), f[j].a <= x, x < f[j].a + f[j].l,
             x = f[i].a - 1
      PROVE  FALSE
  <2> DEFINE y == f[i].a
             z == f[j].a
  <2>1. y \in Nat /\ f[i].l \in Nat /\ z \in Nat /\ f[j].l \in Nat
    BY <1>2
  <2>2. z <= x /\ x < z + f[j].l /\ x = y - 1
    BY <1>4
  <2>3. y <= y + f[i].l /\ z <= y /\ y <= z + f[j].l
    <3> HIDE DEF y, z
    <3> QED BY <2>1, <2>2, SMTT(60)
  <2>4. i = j
    BY <2>1, <2>3, SameEntry
  <2> QED BY <2>1, <2>2, <2>4
<1> QED BY <1>3, <1>4, Zenon DEF Cover

\* The pages of one entry.
LEMMA CoverOne ==
    ASSUME NEW e \in Entry
    PROVE  /\ Cover(<<e>>) = Pages(e.a, e.l)
           /\ <<e>> \in Seq(Entry) /\ Len(<<e>>) = 1 /\ <<e>>[1] = e
<1>1. e.a \in Nat /\ e.l \in Nat
  BY DEF Entry
<1>2. <<e>> \in Seq(Entry) /\ Len(<<e>>) = 1 /\ <<e>>[1] = e
  OBVIOUS
<1>3. \A x : x \in Cover(<<e>>) <=> x \in Nat /\ e.a <= x /\ x < e.a + e.l
  BY <1>2 DEF Cover
<1>4. \A x : x \in Pages(e.a, e.l) <=> x \in Nat /\ e.a <= x /\ x < e.a + e.l
  BY <1>1 DEF Pages
<1> QED BY <1>2, <1>3, <1>4

\* Entries outside p+1..q and those inside share no page.
LEMMA CoverSplit ==
    ASSUME NEW lo \in Nat, NEW hi \in Nat, NEW f, Ordered(f, lo, hi),
           NEW p \in 0..Len(f), NEW q \in p..Len(f)
    PROVE  Around(f, p, q) =
             Cover(f) \ {x \in Nat : \E i \in (p + 1)..q : f[i].a <= x /\ x < f[i].a + f[i].l}
<1> DEFINE In == {x \in Nat : \E i \in (p + 1)..q : f[i].a <= x /\ x < f[i].a + f[i].l}
<1>1. f \in Seq(Entry) /\ Len(f) \in Nat
  BY DEF Ordered
<1>2. \A j \in 1..Len(f) : f[j].a \in Nat /\ f[j].l \in Nat /\ f[j].l > 0
  BY <1>1, EntryTypes
<1>3. \A j : j \in (p + 1)..q <=> j \in 1..Len(f) /\ ~(j <= p \/ j > q)
  BY <1>1
<1>4. ASSUME NEW x \in Around(f, p, q) PROVE x \in Cover(f) /\ x \notin In
  <2>1. PICK i \in 1..Len(f) : (i <= p \/ i > q) /\ f[i].a <= x /\ x < f[i].a + f[i].l
    BY <1>4 DEF Around
  <2>2. x \in Nat
    BY <1>4 DEF Around
  <2>3. x \in Cover(f)
    BY <2>1, <2>2 DEF Cover
  <2>4. ASSUME NEW j \in (p + 1)..q, f[j].a <= x, x < f[j].a + f[j].l PROVE FALSE
    <3>1. j \in 1..Len(f) /\ ~(j <= p \/ j > q)
      BY <1>3
    <3>2. x <= f[j].a + f[j].l /\ x <= f[i].a + f[i].l
      <4>1. /\ f[i].a \in Nat /\ f[i].l \in Nat
            /\ f[j].a \in Nat /\ f[j].l \in Nat
        BY <1>2, <3>1
      <4>2. \A y, z \in Nat : x < y + z => x <= y + z
        BY <2>2
      <4> QED BY <2>1, <2>4, <4>1, <4>2, Zenon
    <3>3. i = j
      BY <2>1, <2>2, <2>4, <3>1, <3>2, SameEntry
    <3> QED BY <2>1, <3>1, <3>3
  <2> QED BY <2>3, <2>4
<1>5. ASSUME NEW x \in Cover(f), x \notin In PROVE x \in Around(f, p, q)
  <2>1. PICK i \in 1..Len(f) : f[i].a <= x /\ x < f[i].a + f[i].l
    BY DEF Cover
  <2>2. x \in Nat
    BY DEF Cover
  <2>3. i <= p \/ i > q
    BY <1>3, <1>5, <2>1, <2>2
  <2> QED BY <2>1, <2>2, <2>3 DEF Around
<1> QED BY <1>4, <1>5

\* The runs of free pages are the entries of the list.
LEMMA EntriesOfList ==
    ASSUME NEW c \in Floor..Top, NEW f, Ordered(f, c, Top)
    PROVE  /\ \A i \in 1..Len(f) :
                 <<f[i].a, f[i].l>> \in Entries([cursor |-> c, free |-> Cover(f)])
           /\ \A e \in Entries([cursor |-> c, free |-> Cover(f)]) :
                 \E i \in 1..Len(f) : e = <<f[i].a, f[i].l>>
<1> DEFINE A == [cursor |-> c, free |-> Cover(f)]
<1>1. f \in Seq(Entry) /\ Len(f) \in Nat /\ c \in Nat
  BY DEF Ordered
<1>2. \A j \in 1..Len(f) : f[j].a \in Nat /\ f[j].l \in Nat /\ f[j].l > 0
  BY <1>1, EntryTypes
<1>3. A.free = Cover(f)
  OBVIOUS
<1>4. ASSUME NEW i \in 1..Len(f) PROVE <<f[i].a, f[i].l>> \in Entries(A)
  <2>1. f[i].a \in Nat /\ f[i].l \in Nat /\ f[i].l > 0
    BY <1>2
  <2>2. f[i].a > c /\ f[i].a + f[i].l <= Top
    BY DEF Ordered
  <2>3. f[i].l \in 1..(Top - Floor)
    BY <1>1, <2>1, <2>2
  <2>4. Pages(f[i].a, f[i].l) \subseteq Cover(f)
    <3> SUFFICES ASSUME NEW x \in Pages(f[i].a, f[i].l) PROVE x \in Cover(f)
      OBVIOUS
    <3>1. x \in Nat /\ f[i].a <= x /\ x < f[i].a + f[i].l
      BY <2>1, SMTT(60) DEF Pages
    <3> QED BY <3>1 DEF Cover
  <2>5. f[i].a \in Cover(f)
    <3>1. f[i].a <= f[i].a /\ f[i].a < f[i].a + f[i].l
      BY <2>1
    <3> QED BY <2>1, <3>1 DEF Cover
  <2>6. f[i].a - 1 \notin Cover(f)
    BY <1>1, Bounded
  <2>7. f[i].a + f[i].l \notin Cover(f)
    BY <1>1, Bounded
  <2> HIDE DEF A
  <2> QED BY <1>3, <2>3, <2>4, <2>5, <2>6, <2>7 DEF Entries
<1>5. ASSUME NEW e \in Entries(A) PROVE \E i \in 1..Len(f) : e = <<f[i].a, f[i].l>>
  <2> HIDE DEF A
  <2>1. /\ e \in Cover(f) \X (1..(Top - Floor))
        /\ Pages(e[1], e[2]) \subseteq Cover(f)
        /\ e[1] - 1 \notin Cover(f)
        /\ e[1] + e[2] \notin Cover(f)
    BY <1>3 DEF Entries
  <2> DEFINE a == e[1]
             l == e[2]
  <2>2. e = <<a, l>> /\ a \in Nat /\ l \in Nat /\ l > 0 /\ a \in Cover(f)
    <3>1. e = <<a, l>> /\ a \in Cover(f) /\ l \in 1..(Top - Floor)
      BY <2>1
    <3>2. a \in Nat
      BY <3>1 DEF Cover
    <3> QED BY <3>1, <3>2
  <2>3. PICK i \in 1..Len(f) : f[i].a <= a /\ a < f[i].a + f[i].l
    BY <2>2 DEF Cover
  <2> HIDE DEF a, l
  <2>4. f[i].a \in Nat /\ f[i].l \in Nat /\ f[i].l > 0
    BY <1>2
  <2>5. ASSUME f[i].a < a PROVE FALSE
    <3>1. a - 1 \in Nat /\ f[i].a <= a - 1 /\ a - 1 < f[i].a + f[i].l
      BY <2>2, <2>3, <2>4, <2>5
    <3>2. a - 1 \in Cover(f)
      BY <3>1 DEF Cover
    <3> QED BY <2>1, <3>2 DEF a
  <2>6. ASSUME a + l < f[i].a + f[i].l PROVE FALSE
    <3>1. a + l \in Nat /\ f[i].a <= a + l
      BY <2>2, <2>3, <2>4
    <3>2. a + l \in Cover(f)
      BY <2>6, <3>1 DEF Cover
    <3> QED BY <2>1, <3>2 DEF a, l
  <2>7. ASSUME a + l > f[i].a + f[i].l PROVE FALSE
    <3>1. f[i].a + f[i].l \in Pages(a, l)
      BY <2>2, <2>3, <2>4, <2>7 DEF Pages
    <3>2. f[i].a + f[i].l \in Cover(f)
      BY <2>1, <3>1 DEF a, l
    <3> QED BY <1>1, <3>2, Bounded
  <2>8. a = f[i].a /\ l = f[i].l
    <3>1. ~(f[i].a < a) /\ ~(a + l < f[i].a + f[i].l) /\ ~(a + l > f[i].a + f[i].l)
      BY <2>5, <2>6, <2>7
    <3> QED BY <2>2, <2>3, <2>4, <3>1
  <2> QED BY <2>2, <2>8
<1> QED BY <1>4, <1>5

\* What is around one entry: everything else.
LEMMA AroundOne ==
    ASSUME NEW lo \in Nat, NEW hi \in Nat, NEW f, Ordered(f, lo, hi), NEW i \in 1..Len(f)
    PROVE  Around(f, i - 1, i) = Cover(f) \ Pages(f[i].a, f[i].l)
<1>1. f \in Seq(Entry) /\ Len(f) \in Nat
  BY DEF Ordered
<1>2. f[i].a \in Nat /\ f[i].l \in Nat
  BY <1>1, EntryTypes
<1>3. i - 1 \in 0..Len(f) /\ i \in (i - 1)..Len(f) /\ ((i - 1) + 1)..i = {i}
  BY <1>1
<1>4. Around(f, i - 1, i) =
        Cover(f) \ {x \in Nat : \E k \in ((i - 1) + 1)..i : f[k].a <= x /\ x < f[k].a + f[k].l}
  BY <1>3, CoverSplit
<1>5. {x \in Nat : \E k \in {i} : f[k].a <= x /\ x < f[k].a + f[k].l} = Pages(f[i].a, f[i].l)
  BY <1>2 DEF Pages
<1> QED BY <1>3, <1>4, <1>5

\* Carving the high part of an entry takes just those pages out of the list.
LEMMA Carve ==
    ASSUME NEW lo \in Nat, NEW hi \in Nat, NEW f, Ordered(f, lo, hi), NEW i \in 1..Len(f),
           NEW len \in Nat \ {0}, f[i].l >= len, NEW g,
           g = IF f[i].l = len THEN VecRemove(f, i)
               ELSE VecSet(f, i, Rng(f[i].a, f[i].l - len))
    PROVE  /\ Ordered(g, lo, hi)
           /\ Cover(g) = Cover(f) \ Pages(f[i].a + f[i].l - len, len)
<1>1. f \in Seq(Entry) /\ Len(f) \in Nat
  BY DEF Ordered
<1>2. \A j \in 1..Len(f) : f[j].a \in Nat /\ f[j].l \in Nat /\ f[j].l > 0
  BY <1>1, EntryTypes
<1> DEFINE a == f[i].a
           l == f[i].l
           e == Rng(a, l - len)
           s == IF l = len THEN <<>> ELSE <<e>>
<1>3. a \in Nat /\ l \in Nat /\ l > 0 /\ l >= len /\ a > lo /\ a + l <= hi
  BY <1>2 DEF Ordered
<1>4. Around(f, i - 1, i) = Cover(f) \ Pages(a, l)
  BY AroundOne
<1>5. Pages(a, l) \subseteq Cover(f)
  <2>1. \A x \in Pages(a, l) : x \in Nat /\ a <= x /\ x < a + l
    BY <1>3, SMTT(60) DEF Pages
  <2> QED BY <2>1 DEF Cover
<1>6. i - 1 \in 0..Len(f) /\ i \in (i - 1)..Len(f)
  BY <1>1
<1>7. \A j \in 1..(i - 1) : f[j].a + f[j].l < a
  <2>1. \A j \in 1..(i - 1) : j \in 1..Len(f) /\ j < i
    BY <1>1
  <2> QED BY <2>1 DEF Ordered
<1>8. \A j \in (i + 1)..Len(f) : a + l < f[j].a
  <2>1. \A j \in (i + 1)..Len(f) : j \in 1..Len(f) /\ i < j
    BY <1>1
  <2> QED BY <2>1 DEF Ordered
<1>9. CASE l = len
  <2>1. g = Splice(f, i - 1, i, <<>>)
    BY <1>1, <1>9, RemoveSplice
  <2>2. Len(<<>>) = 0 /\ 1..Len(<<>>) = {} /\ <<>> \in Seq(Entry)
    OBVIOUS
  <2>3. Ordered(<<>>, lo, hi) /\ Cover(<<>>) = {}
    BY <2>2 DEF Ordered, Cover
  <2>4. Ordered(Splice(f, i - 1, i, <<>>), lo, hi)
    BY <1>6, <2>2, <2>3, OrderedSplice
  <2>5. Cover(Splice(f, i - 1, i, <<>>)) = Around(f, i - 1, i) \cup Cover(<<>>)
    <3> DEFINE t == <<>>
    <3>1. t \in Seq(Entry)
      OBVIOUS
    <3> HIDE DEF t
    <3>2. Cover(Splice(f, i - 1, i, t)) = Around(f, i - 1, i) \cup Cover(t)
      BY <1>1, <1>6, <3>1, CoverSplice
    <3> QED BY <3>2 DEF t
  <2>6. a + l - len = a
    BY <1>3, <1>9
  <2> QED BY <1>4, <1>9, <2>1, <2>3, <2>4, <2>5, <2>6
<1>10. CASE l # len
  <2>1. e \in Entry /\ e.a = a /\ e.l = l - len
    BY <1>3, <1>10 DEF Rng, Entry
  <2>2. g = Splice(f, i - 1, i, <<e>>)
    BY <1>1, <1>10, <2>1, ReplaceSplice
  <2>3. <<e>> \in Seq(Entry) /\ Len(<<e>>) = 1 /\ <<e>>[1] = e /\ 1..Len(<<e>>) = {1}
    BY <2>1
  <2>4. Cover(<<e>>) = Pages(a, l - len)
    BY <2>1, CoverOne
  <2>5. e.a > lo /\ e.a + e.l <= hi /\ e.a + e.l < a + l
    BY <1>3, <2>1
  <2>6. Ordered(<<e>>, lo, hi)
    BY <2>3, <2>5, SMTT(60) DEF Ordered
  <2>7. \A j \in 1..(i - 1), k \in 1..Len(<<e>>) : f[j].a + f[j].l < <<e>>[k].a
    BY <1>7, <2>1, <2>3
  <2>8. \A j \in (i + 1)..Len(f), k \in 1..Len(<<e>>) : <<e>>[k].a + <<e>>[k].l < f[j].a
    <3>1. ASSUME NEW j \in (i + 1)..Len(f) PROVE e.a + e.l < f[j].a
      <4>1. j \in 1..Len(f)
        BY <1>1
      <4>2. f[j].a \in Nat
        BY <1>2, <4>1
      <4>3. a + l < f[j].a
        BY <1>8
      <4> HIDE DEF a, l
      <4> QED BY <1>3, <2>1, <4>2, <4>3, SMTT(60)
    <3> QED BY <2>3, <3>1
  <2> DEFINE t == <<e>>
  <2>9. /\ Ordered(t, lo, hi)
        /\ \A j \in 1..(i - 1), k \in 1..Len(t) : f[j].a + f[j].l < t[k].a
        /\ \A j \in (i + 1)..Len(f), k \in 1..Len(t) : t[k].a + t[k].l < f[j].a
    BY <2>6, <2>7, <2>8
  <2> HIDE DEF a, l, e, t
  <2>10. Ordered(Splice(f, i - 1, i, t), lo, hi)
    BY <1>6, <2>9, OrderedSplice
  <2>12. Cover(Splice(f, i - 1, i, t)) = Around(f, i - 1, i) \cup Cover(t)
    <3>1. t \in Seq(Entry)
      BY <2>9 DEF Ordered
    <3> QED BY <1>1, <1>6, <3>1, CoverSplice
  <2>11. /\ Pages(a, l - len) = Pages(a, l) \ Pages(a + l - len, len)
         /\ Pages(a + l - len, len) \subseteq Pages(a, l)
    BY <1>3, <1>10 DEF Pages
  <2> QED BY <1>4, <1>5, <2>2, <2>4, <2>10, <2>11, <2>12 DEF a, l, t
<1> QED BY <1>9, <1>10

\* The first run that fits is the first entry that fits.
LEMMA FirstFits ==
    ASSUME NEW c \in Floor..Top, NEW f, Ordered(f, c, Top), NEW len \in Nat,
           NEW i \in 1..Len(f), f[i].l >= len, \A j \in 1..Len(f) : f[j].l >= len => i <= j
    PROVE  FirstFit([cursor |-> c, free |-> Cover(f)], len) = <<f[i].a, f[i].l>>
<1> DEFINE A == [cursor |-> c, free |-> Cover(f)]
           P(e) == e[2] >= len /\ \A g \in Entries(A) : g[2] >= len => e[1] <= g[1]
           w == <<f[i].a, f[i].l>>
<1>1. f \in Seq(Entry) /\ Len(f) \in Nat
  BY DEF Ordered
<1>2. \A j \in 1..Len(f) : f[j].a \in Nat /\ f[j].l \in Nat /\ f[j].l > 0
  BY <1>1, EntryTypes
<1>3. \A j \in 1..Len(f) : <<f[j].a, f[j].l>> \in Entries(A)
  BY EntriesOfList, Zenon
<1>4. \A e \in Entries(A) : \E j \in 1..Len(f) : e = <<f[j].a, f[j].l>>
  BY EntriesOfList
<1> HIDE DEF A
<1>5. \A j \in 1..Len(f) : i < j => f[i].a < f[j].a
  <2>1. \A j \in 1..Len(f) : i < j => f[i].a + f[i].l < f[j].a
    BY DEF Ordered
  <2>2. f[i].a \in Nat /\ f[i].l \in Nat
    BY <1>2
  <2> QED BY <1>2, <2>1, <2>2, SMTT(60)
<1>6. w \in Entries(A) /\ P(w)
  <2>1. w[1] = f[i].a /\ w[2] = f[i].l
    OBVIOUS
  <2>2. ASSUME NEW g \in Entries(A), g[2] >= len PROVE w[1] <= g[1]
    <3>1. PICK j \in 1..Len(f) : g = <<f[j].a, f[j].l>>
      BY <1>4
    <3>2. i <= j /\ g[1] = f[j].a
      BY <2>2, <3>1
    <3>3. i = j \/ i < j
      BY <1>1, <3>2
    <3> QED BY <1>2, <1>5, <2>1, <3>2, <3>3
  <2> QED BY <1>3, <2>1, <2>2
<1>7. ASSUME NEW e \in Entries(A), P(e) PROVE e = w
  <2>1. PICK j \in 1..Len(f) : e = <<f[j].a, f[j].l>>
    BY <1>4
  <2>2. f[j].l >= len /\ e[1] = f[j].a
    BY <1>7, <2>1
  <2>3. e[1] <= w[1] /\ w[1] = f[i].a
    BY <1>6, <1>7
  <2>4. i <= j
    BY <2>2
  <2>5. ~(i < j)
    BY <1>2, <1>5, <2>2, <2>3
  <2>6. i = j
    BY <1>1, <2>4, <2>5
  <2> QED BY <2>1, <2>6
<1>8. FirstFit(A, len) = CHOOSE e \in Entries(A) : P(e)
  BY DEF FirstFit
<1> HIDE DEF P, w
<1>9. (CHOOSE e \in Entries(A) : P(e)) = w
  BY <1>6, <1>7
<1> QED BY <1>8, <1>9, Zenon DEF A, w

\* A range of free pages lies inside one entry.
LEMMA InsideOne ==
    ASSUME NEW lo \in Nat, NEW hi \in Nat, NEW f, Ordered(f, lo, hi),
           NEW addr \in Nat, NEW len \in Nat \ {0}
    PROVE  Pages(addr, len) \subseteq Cover(f)
             <=> \E i \in 1..Len(f) : f[i].a <= addr /\ addr + len <= f[i].a + f[i].l
<1>1. f \in Seq(Entry) /\ Len(f) \in Nat
  BY DEF Ordered
<1>2. \A j \in 1..Len(f) : f[j].a \in Nat /\ f[j].l \in Nat /\ f[j].l > 0
  BY <1>1, EntryTypes
<1>3. ASSUME NEW i \in 1..Len(f), f[i].a <= addr, addr + len <= f[i].a + f[i].l
      PROVE  Pages(addr, len) \subseteq Cover(f)
  <2>1. f[i].a \in Nat /\ f[i].l \in Nat
    BY <1>2
  <2>2. \A x \in Pages(addr, len) : x \in Nat /\ f[i].a <= x /\ x < f[i].a + f[i].l
    BY <1>3, <2>1 DEF Pages
  <2> QED BY <2>2 DEF Cover
<1>4. ASSUME Pages(addr, len) \subseteq Cover(f)
      PROVE  \E i \in 1..Len(f) : f[i].a <= addr /\ addr + len <= f[i].a + f[i].l
  <2>1. addr \in Pages(addr, len)
    BY DEF Pages
  <2>2. PICK i \in 1..Len(f) : f[i].a <= addr /\ addr < f[i].a + f[i].l
    BY <1>4, <2>1 DEF Cover
  <2>3. f[i].a \in Nat /\ f[i].l \in Nat
    BY <1>2
  <2>4. ASSUME ~(addr + len <= f[i].a + f[i].l) PROVE FALSE
    <3>1. f[i].a + f[i].l \in Pages(addr, len)
      BY <2>2, <2>3, <2>4 DEF Pages
    <3> QED BY <1>4, <3>1, Bounded
  <2> QED BY <2>2, <2>4
<1> QED BY <1>3, <1>4

\* A range touches a free page exactly when it overlaps an entry.
LEMMA Overlap ==
    ASSUME NEW lo \in Nat, NEW hi \in Nat, NEW f, Ordered(f, lo, hi),
           NEW addr \in Nat, NEW len \in Nat \ {0}
    PROVE  Pages(addr, len) \cap Cover(f) # {}
             <=> \E j \in 1..Len(f) : addr < f[j].a + f[j].l /\ f[j].a < addr + len
<1>1. f \in Seq(Entry) /\ Len(f) \in Nat
  BY DEF Ordered
<1>2. \A j \in 1..Len(f) : f[j].a \in Nat /\ f[j].l \in Nat /\ f[j].l > 0
  BY <1>1, EntryTypes
<1>3. ASSUME NEW j \in 1..Len(f), addr < f[j].a + f[j].l, f[j].a < addr + len
      PROVE  \E x \in Pages(addr, len) : x \in Cover(f)
  <2>1. f[j].a \in Nat /\ f[j].l \in Nat /\ f[j].l > 0
    BY <1>2
  <2> DEFINE x == IF addr < f[j].a THEN f[j].a ELSE addr
  <2>2. x \in Nat /\ f[j].a <= x /\ x < f[j].a + f[j].l /\ x \in Pages(addr, len)
    BY <1>3, <2>1 DEF Pages
  <2> HIDE DEF x
  <2> QED BY <2>2 DEF Cover
<1>4. ASSUME NEW x \in Pages(addr, len), x \in Cover(f)
      PROVE  \E j \in 1..Len(f) : addr < f[j].a + f[j].l /\ f[j].a < addr + len
  <2>1. x \in Nat /\ addr <= x /\ x < addr + len
    BY DEF Pages
  <2>2. PICK j \in 1..Len(f) : f[j].a <= x /\ x < f[j].a + f[j].l
    BY <1>4 DEF Cover
  <2>3. f[j].a \in Nat /\ f[j].l \in Nat
    BY <1>2
  <2>4. \A y, z \in Nat : y <= x /\ x < y + z => addr < y + z /\ y < addr + len
    BY <2>1
  <2> QED BY <2>2, <2>3, <2>4, Zenon
<1> QED BY <1>3, <1>4

\* The number of entries that end at or below addr.
LowerPoint(f, addr) ==
    CHOOSE n \in 0..Len(f) : \A i \in DOMAIN f : i <= n <=> f[i].a + f[i].l <= addr

\* The number of entries that end at or below addr, the first index claim keeps.
LEMMA LowerPoints ==
    ASSUME NEW lo \in Nat, NEW hi \in Nat, NEW f, Ordered(f, lo, hi), NEW addr \in Nat
    PROVE  /\ LowerPoint(f, addr) \in 0..Len(f)
           /\ \A i \in 1..Len(f) : i <= LowerPoint(f, addr) <=> f[i].a + f[i].l <= addr
<1>1. f \in Seq(Entry) /\ Len(f) \in Nat /\ DOMAIN f = 1..Len(f)
  BY DEF Ordered
<1>2. \A i \in 1..Len(f) : f[i].a \in Nat /\ f[i].l \in Nat /\ f[i].l > 0
  BY <1>1, EntryTypes
<1> DEFINE S == {i \in 1..Len(f) : f[i].a + f[i].l <= addr}
<1>3. \A i \in S : \A j \in 1..i : j \in S
  <2> SUFFICES ASSUME NEW i \in S, NEW j \in 1..i PROVE j \in S
    OBVIOUS
  <2>1. j \in 1..Len(f)
    BY <1>1
  <2>2. CASE j = i
    BY <2>2
  <2>3. CASE j < i
    <3>1. f[j].a + f[j].l < f[i].a
      BY <2>1, <2>3 DEF Ordered
    <3>2. /\ f[i].a \in Nat /\ f[i].l \in Nat
          /\ f[j].a \in Nat /\ f[j].l \in Nat
      BY <1>2, <2>1
    <3>3. f[j].a + f[j].l <= addr
      BY <3>1, <3>2, SMTT(60)
    <3> QED BY <2>1, <3>3
  <2> QED BY <1>1, <2>2, <2>3
<1>4. PICK k \in 0..Len(f) : \A i \in 1..Len(f) : i <= k <=> i \in S
  <2>1. S \subseteq 1..Len(f)
    OBVIOUS
  <2> HIDE DEF S
  <2> QED BY <1>1, <1>3, <2>1, Prefix, Zenon
<1>5. \A i \in DOMAIN f : i <= k <=> f[i].a + f[i].l <= addr
  BY <1>1, <1>4
<1> QED BY <1>1, <1>5 DEF LowerPoint

\* What Cut puts in place of the entries it meets.
LowPart(f, addr, end) ==
    LET lo == LowerPoint(f, addr)
    IN  IF lo < PartitionPoint(f, end) /\ f[lo + 1].a < addr
        THEN <<Rng(f[lo + 1].a, addr - f[lo + 1].a)>> ELSE <<>>

HighPart(f, addr, end) ==
    LET hi == PartitionPoint(f, end)
    IN  IF LowerPoint(f, addr) < hi /\ f[hi].a + f[hi].l > end
        THEN <<Rng(end, f[hi].a + f[hi].l - end)>> ELSE <<>>

\* g is e, if b, and then d, if c.
Pair(g, b, e, c, d) ==
    /\ g \in Seq(Entry)
    /\ \A k \in 1..Len(g) : (b /\ k = 1 /\ g[k] = e) \/ (c /\ k = Len(g) /\ g[k] = d)
    /\ b => 1 \in 1..Len(g) /\ g[1] = e
    /\ c => Len(g) \in 1..Len(g) /\ g[Len(g)] = d

\* Two lists of at most one entry each, one after the other.
LEMMA Optionals ==
    ASSUME NEW e, NEW s, s = <<>> \/ (s = <<e>> /\ e \in Entry),
           NEW d, NEW t, t = <<>> \/ (t = <<d>> /\ d \in Entry)
    PROVE  Pair(s \o t, s # <<>>, e, t # <<>>, d)
<1> DEFINE g == s \o t
<1>1. s \in Seq(Entry) /\ t \in Seq(Entry)
  <2>1. <<>> \in Seq(Entry) /\ \A x \in Entry : <<x>> \in Seq(Entry)
    OBVIOUS
  <2> QED BY <2>1, Zenon
<1>2. /\ s # <<>> => Len(s) = 1 /\ s[1] = e
      /\ t # <<>> => Len(t) = 1 /\ t[1] = d
      /\ s = <<>> => Len(s) = 0
      /\ t = <<>> => Len(t) = 0
  OBVIOUS
<1>4. g \in Seq(Entry)
  BY <1>1, Concat2
<1>5. Len(g) = Len(s) + Len(t)
  BY <1>1, Concat2
<1>6. \A k \in 1..(Len(s) + Len(t)) : g[k] = IF k <= Len(s) THEN s[k] ELSE t[k - Len(s)]
  BY <1>1, Concat2
<1> HIDE DEF g
<1>7. CASE s # <<>> /\ t # <<>>
  <2>0. Len(s) = 1 /\ Len(t) = 1
    BY <1>2, <1>7, Zenon
  <2>1. Len(s) = 1 /\ Len(t) = 1 /\ Len(g) = 2
    BY <1>5, <2>0
  <2>3. 1 \in 1..(Len(s) + Len(t)) /\ 2 \in 1..(Len(s) + Len(t)) /\ 1 <= Len(s) /\ ~(2 <= Len(s)) /\ 2 - Len(s) = 1
    BY <2>1
  <2>4. g[1] = s[1] /\ g[2] = t[1]
    BY <1>6, <2>3
  <2>2. g[1] = e /\ g[2] = d
    BY <1>2, <1>7, <2>4
  <2>5. /\ \A k \in 1..Len(g) : k = 1 \/ k = 2
        /\ 1 \in 1..Len(g) /\ Len(g) \in 1..Len(g)
    BY <2>1
  <2>6. \A k \in 1..Len(g) : (k = 1 /\ g[k] = e) \/ (k = Len(g) /\ g[k] = d)
    BY <2>1, <2>2, <2>5
  <2>7. g[Len(g)] = d
    BY <2>1, <2>2
  <2>8. \A k \in 1..Len(g) : \/ s # <<>> /\ k = 1 /\ g[k] = e
                             \/ t # <<>> /\ k = Len(g) /\ g[k] = d
    BY <1>7, <2>6, Zenon
  <2>9. Pair(g, s # <<>>, e, t # <<>>, d)
    BY <1>4, <2>2, <2>5, <2>7, <2>8 DEF Pair
  <2> QED BY <2>9 DEF g
<1>8. CASE s # <<>> /\ t = <<>>
  <2>1. Len(s) = 1 /\ Len(t) = 0 /\ Len(g) = 1
    BY <1>2, <1>5, <1>8
  <2>2. g[1] = e
    BY <1>2, <1>6, <1>8, <2>1
  <2> QED BY <1>4, <1>8, <2>1, <2>2 DEF Pair
<1>9. CASE s = <<>> /\ t # <<>>
  <2>1. Len(s) = 0 /\ Len(t) = 1 /\ Len(g) = 1
    BY <1>2, <1>5, <1>9
  <2>2. g[1] = d
    BY <1>2, <1>6, <1>9, <2>1
  <2> QED BY <1>4, <1>9, <2>1, <2>2 DEF Pair
<1>10. CASE s = <<>> /\ t = <<>>
  <2>1. Len(g) = 0
    BY <1>2, <1>5, <1>10
  <2> QED BY <1>4, <1>10, <2>1 DEF Pair
<1> QED BY <1>7, <1>8, <1>9, <1>10 DEF g

Between(f, addr, end) == LowPart(f, addr, end) \o HighPart(f, addr, end)

\* The pages of the entries p+1..q.
Inner(f, p, q) == {x \in Nat : \E i \in (p + 1)..q : f[i].a <= x /\ x < f[i].a + f[i].l}

\* The entries of g lie within those of p+1..q.
Within(g, f, p, q) ==
    \A j \in 1..Len(g) : /\ p < q
                         /\ g[j].a >= f[p + 1].a
                         /\ g[j].a + g[j].l <= f[q].a + f[q].l

\* The two parts, in order, between the entries around them, outside the range.
LEMMA Parts ==
    ASSUME NEW lo \in Nat, NEW hi \in Nat, NEW f, Ordered(f, lo, hi),
           NEW addr \in Nat, NEW end \in Nat, addr < end
    PROVE  /\ LowerPoint(f, addr) \in 0..Len(f)
           /\ PartitionPoint(f, end) \in LowerPoint(f, addr)..Len(f)
           /\ Ordered(Between(f, addr, end), lo, hi)
           /\ Within(Between(f, addr, end), f, LowerPoint(f, addr), PartitionPoint(f, end))
           /\ Cover(Between(f, addr, end))
                = Inner(f, LowerPoint(f, addr), PartitionPoint(f, end)) \ addr..(end - 1)
<1> DEFINE p == LowerPoint(f, addr)
           q == PartitionPoint(f, end)
           g == Between(f, addr, end)
           In == {x \in Nat : \E i \in (p + 1)..q : f[i].a <= x /\ x < f[i].a + f[i].l}
           low == LowPart(f, addr, end)
           high == HighPart(f, addr, end)
<1>1. f \in Seq(Entry) /\ Len(f) \in Nat
  BY DEF Ordered
<1>2. \A i \in 1..Len(f) : f[i].a \in Nat /\ f[i].l \in Nat /\ f[i].l > 0
  BY <1>1, EntryTypes
<1>3. p \in 0..Len(f) /\ \A i \in 1..Len(f) : i <= p <=> f[i].a + f[i].l <= addr
  BY LowerPoints
<1>4. q \in 0..Len(f) /\ \A i \in 1..Len(f) : i <= q <=> f[i].a < end
  BY PartitionPoints
<1> HIDE DEF p, q
<1>5. p <= q
  <2>1. CASE p = 0
    BY <1>4, <2>1
  <2>2. CASE p # 0
    <3>1. p \in 1..Len(f) /\ p <= p
      BY <1>3, <2>2
    <3>2. f[p].a + f[p].l <= addr /\ f[p].a \in Nat /\ f[p].l \in Nat
      BY <1>2, <1>3, <3>1
    <3>3. f[p].a < end
      BY <3>2
    <3> QED BY <1>4, <3>1, <3>3
  <2> QED BY <2>1, <2>2
<1>6. p \in 0..Len(f) /\ q \in p..Len(f)
  BY <1>1, <1>3, <1>4, <1>5
<1> DEFINE u == f[p + 1]
           v == f[q]
           b == p < q /\ u.a < addr
           c == p < q /\ v.a + v.l > end
           e == Rng(u.a, addr - u.a)
           d == Rng(end, v.a + v.l - end)
<1>7. ASSUME p < q
      PROVE  /\ u.a \in Nat /\ u.l \in Nat /\ v.a \in Nat /\ v.l \in Nat
             /\ u.a < end /\ u.a + u.l > addr /\ v.a < end /\ v.a + v.l > addr
             /\ u.a <= v.a /\ u.a + u.l <= v.a + v.l
             /\ u.a > lo /\ v.a + v.l <= hi
             /\ p + 1 \in 1..Len(f) /\ q \in 1..Len(f)
  <2>1. p + 1 \in 1..Len(f) /\ q \in 1..Len(f) /\ p + 1 <= q /\ ~(p + 1 <= p) /\ ~(q <= p) /\ q <= q
    BY <1>1, <1>6, <1>7
  <2>2. u.a \in Nat /\ u.l \in Nat /\ v.a \in Nat /\ v.l \in Nat
    BY <1>2, <2>1
  <2>3. u.a < end /\ v.a < end
    BY <1>4, <2>1
  <2>4. ~(u.a + u.l <= addr) /\ ~(v.a + v.l <= addr)
    BY <1>3, <2>1
  <2>5. u.a > lo /\ v.a + v.l <= hi
    BY <2>1 DEF Ordered
  <2>6. u = v \/ u.a + u.l < v.a
    <3>1. p + 1 = q \/ p + 1 < q
      BY <1>6, <2>1
    <3> QED BY <2>1, <3>1 DEF Ordered
  <2> HIDE DEF u, v
  <2>7. u.a <= v.a /\ u.a + u.l <= v.a + v.l
    <3>1. CASE u = v
      BY <2>2, <3>1
    <3>2. CASE u.a + u.l < v.a
      BY <2>2, <3>2
    <3> QED BY <2>6, <3>1, <3>2
  <2>8. u.a + u.l > addr /\ v.a + v.l > addr
    BY <2>2, <2>4
  <2> QED BY <2>1, <2>2, <2>3, <2>5, <2>7, <2>8
<1>8. b => e \in Entry /\ e.a = u.a /\ e.a + e.l = addr
  BY <1>7, SMTT(60) DEF Rng, Entry
<1>9. c => d \in Entry /\ d.a = end /\ d.a + d.l = v.a + v.l
  <2> SUFFICES ASSUME c PROVE d \in Entry /\ d.a = end /\ d.a + d.l = v.a + v.l
    OBVIOUS
  <2> DEFINE w == v.a + v.l
  <2>1. w \in Nat /\ w > end
    BY <1>7
  <2>2. d = Rng(end, w - end)
    <3>1. v.a \in Nat /\ v.l \in Nat
      BY <1>7
    <3> QED BY <3>1
  <2> HIDE DEF w, d
  <2>3. d \in Entry /\ d.a = end /\ d.a + d.l = w
    BY <2>1, <2>2 DEF Rng, Entry
  <2> QED BY <2>3 DEF w
<1>10. low = IF b THEN <<e>> ELSE <<>>
  BY DEF LowPart, p, q
<1>11. high = IF c THEN <<d>> ELSE <<>>
  BY DEF HighPart, p, q
<1>12. b \in BOOLEAN /\ c \in BOOLEAN /\ g = low \o high
  BY DEF Between
<1> HIDE DEF low, high, g
<1>13. ASSUME NEW x \in Nat
       PROVE  x \in In /\ x \notin addr..(end - 1)
                <=> \/ b /\ u.a <= x /\ x < addr
                    \/ c /\ end <= x /\ x < v.a + v.l
  <2>1. ASSUME b, u.a <= x, x < addr PROVE x \in In /\ x \notin addr..(end - 1)
    <3>1. p + 1 \in (p + 1)..q
      BY <1>6, <2>1
    <3>2. x < u.a + u.l
      BY <1>7, <2>1
    <3> QED BY <2>1, <3>1, <3>2
  <2>2. ASSUME c, end <= x, x < v.a + v.l PROVE x \in In /\ x \notin addr..(end - 1)
    <3>1. q \in (p + 1)..q
      BY <1>6, <2>2
    <3>2. v.a <= x
      BY <1>7, <2>2
    <3> QED BY <2>2, <3>1, <3>2
  <2>3. ASSUME x \in In, x \notin addr..(end - 1)
        PROVE  \/ b /\ u.a <= x /\ x < addr
               \/ c /\ end <= x /\ x < v.a + v.l
    <3>1. PICK i \in (p + 1)..q : f[i].a <= x /\ x < f[i].a + f[i].l
      BY <2>3
    <3>2. i \in 1..Len(f) /\ p < q /\ (i = p + 1 \/ p + 1 < i) /\ (i = q \/ i < q)
      BY <1>1, <1>6
    <3>3. f[i].a \in Nat /\ f[i].l \in Nat
      BY <1>2, <3>2
    <3>4. x < addr \/ end <= x
      BY <2>3
    <3>5. CASE x < addr
      <4>1. ASSUME p + 1 < i PROVE FALSE
        <5>1. u.a + u.l < f[i].a
          BY <1>7, <3>2, <4>1 DEF Ordered
        <5> DEFINE y == u.a + u.l
                   z == f[i].a
        <5>2. u.a \in Nat /\ u.l \in Nat /\ u.a + u.l > addr
          BY <1>7, <3>2
        <5>4. \A m, n \in Nat : m + n \in Nat
          OBVIOUS
        <5>3. y \in Nat /\ z \in Nat /\ y < z /\ y > addr /\ z <= x
          BY <3>1, <3>3, <5>1, <5>2, <5>4, Zenon
        <5> HIDE DEF y, z
        <5> QED BY <3>5, <5>3
      <4>2. u.a <= x
        BY <3>1, <3>2, <4>1
      <4>3. u.a \in Nat
        BY <1>7, <3>2
      <4>4. u.a < addr
        BY <3>5, <4>2, <4>3
      <4> QED BY <3>2, <3>5, <4>2, <4>4
    <3>6. CASE end <= x
      <4>1. ASSUME i < q PROVE FALSE
        <5>1. f[i].a + f[i].l < v.a
          BY <1>7, <3>2, <4>1 DEF Ordered
        <5> DEFINE y == f[i].a + f[i].l
                   z == v.a
        <5>2. v.a \in Nat /\ v.a < end
          BY <1>7, <3>2
        <5>4. \A m, n \in Nat : m + n \in Nat
          OBVIOUS
        <5>3. y \in Nat /\ z \in Nat /\ y < z /\ z < end /\ x < y
          BY <3>1, <3>3, <5>1, <5>2, <5>4, Zenon
        <5> HIDE DEF y, z
        <5> QED BY <3>6, <5>3
      <4>2. x < v.a + v.l
        BY <3>1, <3>2, <4>1
      <4>3. v.a \in Nat /\ v.l \in Nat
        BY <1>7, <3>2
      <4>4. v.a + v.l > end
        BY <3>6, <4>2, <4>3
      <4> QED BY <3>2, <3>6, <4>2, <4>4
    <3> QED BY <3>4, <3>5, <3>6
  <2> QED BY <2>1, <2>2, <2>3
<1> HIDE DEF e, d, u, v, In
<1>24. /\ low = <<>> \/ (low = <<e>> /\ e \in Entry)
       /\ high = <<>> \/ (high = <<d>> /\ d \in Entry)
       /\ b <=> low # <<>>
       /\ c <=> high # <<>>
  BY <1>8, <1>9, <1>10, <1>11
<1> HIDE DEF b, c
<1>25. Pair(g, low # <<>>, e, high # <<>>, d)
  <2>1. Pair(low \o high, low # <<>>, e, high # <<>>, d)
    BY <1>24, Optionals, Zenon
  <2> QED BY <1>12, <2>1
<1>14. g \in Seq(Entry)
  BY <1>25 DEF Pair
<1>15. \A k \in 1..Len(g) : (b /\ k = 1 /\ g[k] = e) \/ (c /\ k = Len(g) /\ g[k] = d)
  BY <1>24, <1>25, Zenon DEF Pair
<1>16. b => 1 \in 1..Len(g) /\ g[1] = e
  BY <1>24, <1>25, Zenon DEF Pair
<1>17. c => Len(g) \in 1..Len(g) /\ g[Len(g)] = d
  BY <1>24, <1>25, Zenon DEF Pair
<1>18. Len(g) \in Nat
  BY <1>14
<1>19. ASSUME NEW k \in 1..Len(g)
       PROVE  /\ p < q
              /\ g[k].a >= u.a
              /\ g[k].a + g[k].l <= v.a + v.l
              /\ g[k].a > lo
              /\ g[k].a + g[k].l <= hi
  <2>1. p < q
    BY <1>15 DEF b, c
  <2>4. /\ u.a \in Nat /\ u.l \in Nat /\ v.a \in Nat /\ v.l \in Nat
        /\ u.a < end /\ addr < v.a + v.l
        /\ u.a <= v.a /\ u.a > lo /\ v.a + v.l <= hi
    BY <1>7, <2>1
  <2>2. CASE b /\ g[k] = e
    <3>1. g[k].a = u.a /\ g[k].a + g[k].l = addr
      BY <1>8, <2>2
    <3> QED BY <2>1, <2>4, <3>1, SMTT(60)
  <2>3. CASE c /\ g[k] = d
    <3>1. g[k].a = end /\ g[k].a + g[k].l = v.a + v.l
      BY <1>9, <2>3
    <3>2. lo < end
      BY <2>4
    <3> QED BY <2>1, <2>4, <3>1, <3>2
  <2> QED BY <1>15, <2>2, <2>3
<1>20. ASSUME NEW i \in 1..Len(g), NEW j \in 1..Len(g), i < j
       PROVE  g[i].a + g[i].l < g[j].a
  <2>1. b /\ g[i] = e
    BY <1>15, <1>18, <1>20
  <2>2. c /\ g[j] = d
    BY <1>15, <1>18, <1>20
  <2> QED BY <1>8, <1>9, <2>1, <2>2
<1>21. Ordered(g, lo, hi)
  BY <1>14, <1>19, <1>20 DEF Ordered
<1>22. ASSUME NEW x \in Nat
       PROVE  x \in Cover(g) <=> \/ b /\ u.a <= x /\ x < addr
                                 \/ c /\ end <= x /\ x < v.a + v.l
  <2>1. x \in Cover(g) <=> \E k \in 1..Len(g) : g[k].a <= x /\ x < g[k].a + g[k].l
    BY DEF Cover
  <2> QED BY <1>8, <1>9, <1>15, <1>16, <1>17, <2>1, Zenon
<1>23. Cover(g) = In \ addr..(end - 1)
  <2>1. \A x : x \in Cover(g) => x \in Nat
    BY DEF Cover
  <2>2. \A x : x \in In => x \in Nat
    BY DEF In
  <2> QED BY <1>13, <1>22, <2>1, <2>2
<1> QED BY <1>6, <1>19, <1>21, <1>23 DEF In, u, v, Inner, Within, p, q, g

\* Cut keeps the order and takes out the pages of the range.
LEMMA Cuts ==
    ASSUME NEW lo \in Nat, NEW hi \in Nat, NEW f, Ordered(f, lo, hi),
           NEW addr \in Nat, NEW end \in Nat, addr < end
    PROVE  /\ Ordered(Cut(f, addr, end), lo, hi)
           /\ Cover(Cut(f, addr, end)) = Cover(f) \ addr..(end - 1)
<1> DEFINE p == LowerPoint(f, addr)
           q == PartitionPoint(f, end)
           g == Between(f, addr, end)
           In == {x \in Nat : \E i \in (p + 1)..q : f[i].a <= x /\ x < f[i].a + f[i].l}
<1>1. f \in Seq(Entry) /\ Len(f) \in Nat
  BY DEF Ordered
<1>2. \A i \in 1..Len(f) : f[i].a \in Nat /\ f[i].l \in Nat /\ f[i].l > 0
  BY <1>1, EntryTypes
<1>3. Cut(f, addr, end) = SubSeq(f, 1, p) \o g \o SubSeq(f, q + 1, Len(f))
  BY DEF Cut, LowerPoint, LowPart, HighPart, Between
<1>21. /\ p = LowerPoint(f, addr) /\ q = PartitionPoint(f, end)
       /\ g = Between(f, addr, end)
  OBVIOUS
<1>4. p \in 0..Len(f) /\ q \in p..Len(f)
  BY Parts, Zenon
<1>6. Ordered(g, lo, hi)
  BY Parts
<1>5. g \in Seq(Entry)
  BY <1>6 DEF Ordered
<1>7. \A j \in 1..Len(g) : /\ p < q
                           /\ g[j].a >= f[p + 1].a
                           /\ g[j].a + g[j].l <= f[q].a + f[q].l
  <2>1. Within(g, f, p, q)
    BY Parts
  <2> QED BY <2>1 DEF Within
<1>8. Cover(g) = In \ addr..(end - 1)
  <2>1. Cover(g) = Inner(f, p, q) \ addr..(end - 1)
    BY Parts
  <2> QED BY <2>1 DEF Inner
<1> HIDE DEF p, q, g
<1>9. \A i \in 1..Len(f) : i <= p <=> f[i].a + f[i].l <= addr
  <2>1. \A i \in 1..Len(f) : i <= LowerPoint(f, addr) <=> f[i].a + f[i].l <= addr
    BY LowerPoints
  <2> QED BY <1>21, <2>1
<1>10. \A i \in 1..Len(f) : i <= q <=> f[i].a < end
  <2>1. \A i \in 1..Len(f) : i <= PartitionPoint(f, end) <=> f[i].a < end
    BY PartitionPoints
  <2> QED BY <1>21, <2>1
<1>11. Cut(f, addr, end) = Splice(f, p, q, g)
  BY <1>1, <1>3, <1>4, <1>5, ConcatSplice, Zenon
<1>12. \A j \in 1..Len(g) : g[j].a \in Nat /\ g[j].l \in Nat
  BY <1>5, EntryTypes
<1>13. ASSUME NEW i \in 1..p, NEW j \in 1..Len(g) PROVE f[i].a + f[i].l < g[j].a
  <2>1. p < q /\ g[j].a >= f[p + 1].a
    BY <1>7
  <2>2. i \in 1..Len(f) /\ p + 1 \in 1..Len(f) /\ i < p + 1
    BY <1>1, <1>4, <2>1
  <2>3. f[i].a + f[i].l < f[p + 1].a
    BY <2>2 DEF Ordered
  <2> DEFINE y == f[i].a + f[i].l
             z == f[p + 1].a
             w == g[j].a
  <2>4. y \in Nat /\ z \in Nat /\ w \in Nat
    BY <1>2, <1>12, <2>2, SMTT(60)
  <2> HIDE DEF y, z, w
  <2>5. y < z /\ w >= z
    BY <2>1, <2>3 DEF y, z, w
  <2>6. y < w
    BY <2>4, <2>5
  <2> QED BY <2>6 DEF y, w
<1>14. ASSUME NEW i \in (q + 1)..Len(f), NEW j \in 1..Len(g) PROVE g[j].a + g[j].l < f[i].a
  <2>1. p < q /\ g[j].a + g[j].l <= f[q].a + f[q].l
    BY <1>7
  <2>2. i \in 1..Len(f) /\ q \in 1..Len(f) /\ q < i
    BY <1>1, <1>4, <2>1
  <2>3. f[q].a + f[q].l < f[i].a
    BY <2>2 DEF Ordered
  <2> DEFINE y == f[q].a + f[q].l
             z == f[i].a
             w == g[j].a + g[j].l
  <2>4. y \in Nat /\ z \in Nat /\ w \in Nat
    BY <1>2, <1>12, <2>2, SMTT(60)
  <2> HIDE DEF y, z, w
  <2>5. w <= y /\ y < z
    BY <2>1, <2>3 DEF y, z, w
  <2>6. w < z
    BY <2>4, <2>5
  <2> QED BY <2>6 DEF z, w
<1>15. Ordered(Splice(f, p, q, g), lo, hi)
  BY <1>4, <1>6, <1>13, <1>14, OrderedSplice
<1>16. Cover(Splice(f, p, q, g)) = Around(f, p, q) \cup Cover(g)
  BY <1>1, <1>4, <1>5, CoverSplice
<1>17. Around(f, p, q) = Cover(f) \ In
  BY <1>4, CoverSplit
<1>18. In \subseteq Cover(f)
  <2>1. \A i \in (p + 1)..q : i \in 1..Len(f)
    BY <1>1, <1>4
  <2> QED BY <2>1 DEF Cover
<1>19. ASSUME NEW x \in Cover(f), x \in addr..(end - 1) PROVE x \in In
  <2>1. PICK i \in 1..Len(f) : f[i].a <= x /\ x < f[i].a + f[i].l
    BY DEF Cover
  <2>2. x \in Nat /\ addr <= x /\ x < end /\ f[i].a \in Nat /\ f[i].l \in Nat
    BY <1>2, <1>19
  <2>3. f[i].a < end /\ ~(f[i].a + f[i].l <= addr)
    BY <2>1, <2>2
  <2>4. i <= q /\ ~(i <= p)
    BY <1>9, <1>10, <2>3
  <2>5. i \in (p + 1)..q
    BY <1>4, <2>4
  <2> QED BY <2>1, <2>2, <2>5
<1> HIDE DEF In
<1>20. Around(f, p, q) \cup Cover(g) = Cover(f) \ addr..(end - 1)
  BY <1>8, <1>17, <1>18, <1>19
<1> QED BY <1>11, <1>15, <1>16, <1>20

\* Replacing entries j+1 and on after an entry put in at p.
LEMMA MergeNextSplice ==
    ASSUME NEW f \in Seq(Entry), NEW p \in 0..(Len(f) - 1), NEW r \in Entry, NEW e \in Entry
    PROVE  Splice(Splice(f, p, p, <<r>>), p, p + 2, <<e>>) = Splice(f, p, p + 1, <<e>>)
<1> DEFINE h == Splice(f, p, p, <<r>>)
<1>1. Len(f) \in Nat /\ <<r>> \in Seq(Entry) /\ <<e>> \in Seq(Entry) /\ Len(<<r>>) = 1 /\ Len(<<e>>) = 1
  OBVIOUS
<1>2. p \in 0..Len(f) /\ p \in p..Len(f)
  BY <1>1
<1>3. Len(h) = Len(f) + 1
  <2>1. Len(h) = p + Len(<<r>>) + (Len(f) - p)
    BY <1>1, <1>2, SpliceType, Zenon
  <2> QED BY <1>1, <1>2, <2>1
<1>4. \A k \in 1..(Len(f) + 1) : h[k] = IF k <= p THEN f[k] ELSE IF k <= p + 1 THEN r ELSE f[k - 1]
  BY <1>1, <1>2 DEF Splice
<1> HIDE DEF h
<1>5. Splice(h, p, p + 2, <<e>>)
        = [k \in 1..Len(f) |-> IF k <= p THEN h[k] ELSE IF k <= p + 1 THEN e ELSE h[k + 1]]
  BY <1>1, <1>2, <1>3 DEF Splice
<1>6. Splice(f, p, p + 1, <<e>>)
        = [k \in 1..Len(f) |-> IF k <= p THEN f[k] ELSE IF k <= p + 1 THEN e ELSE f[k]]
  BY <1>1, <1>2 DEF Splice
<1>7. \A k \in 1..Len(f) : /\ k <= p => h[k] = f[k]
                           /\ ~(k <= p + 1) => h[k + 1] = f[k]
  <2>1. ASSUME NEW k \in 1..Len(f), k <= p PROVE h[k] = f[k]
    BY <1>1, <1>4, <2>1
  <2>2. ASSUME NEW k \in 1..Len(f), ~(k <= p + 1) PROVE h[k + 1] = f[k]
    <3>1. k + 1 \in 1..(Len(f) + 1) /\ ~(k + 1 <= p) /\ ~(k + 1 <= p + 1) /\ (k + 1) - 1 = k
      BY <1>1, <1>2, <2>2
    <3> QED BY <1>4, <3>1
  <2> QED BY <2>1, <2>2
<1> QED BY <1>5, <1>6, <1>7, Zenon DEF h

\* A merge downward after an insertion, as one splice.
LEMMA MergePreviousSplice ==
    ASSUME NEW f \in Seq(Entry), NEW p \in 1..Len(f), NEW q \in p..Len(f), NEW r \in Entry, NEW e \in Entry
    PROVE  Splice(Splice(f, p, q, <<r>>), p - 1, p + 1, <<e>>) = Splice(f, p - 1, q, <<e>>)
<1> DEFINE h == Splice(f, p, q, <<r>>)
           n == Len(f) - q
<1>1. Len(f) \in Nat /\ <<r>> \in Seq(Entry) /\ <<e>> \in Seq(Entry) /\ Len(<<r>>) = 1 /\ Len(<<e>>) = 1
  OBVIOUS
<1>2. p \in 0..Len(f) /\ q \in p..Len(f) /\ n \in Nat /\ p \in Nat /\ p >= 1 /\ q \in Nat
  BY <1>1
<1>3. Len(h) = p + 1 + n
  BY <1>1, <1>2, SpliceType, Zenon
<1>4. \A k \in 1..(p + 1 + n) : h[k] = IF k <= p THEN f[k] ELSE IF k <= p + 1 THEN r ELSE f[k - p - 1 + q]
  BY <1>1, <1>2 DEF Splice
<1> HIDE DEF h
<1>5. Splice(h, p - 1, p + 1, <<e>>)
        = [k \in 1..(p + n) |-> IF k <= p - 1 THEN h[k] ELSE IF k <= p THEN e ELSE h[k + 1]]
  <2>1. (p - 1) + 1 + (Len(h) - (p + 1)) = p + n /\ (p - 1) + 1 = p
    BY <1>2, <1>3
  <2>2. \A k \in 1..(p + n) : k - (p - 1) - 1 + (p + 1) = k + 1
    BY <1>2
  <2> QED BY <1>1, <2>1, <2>2, SMTT(40) DEF Splice
<1>6. Splice(f, p - 1, q, <<e>>)
        = [k \in 1..(p + n) |-> IF k <= p - 1 THEN f[k] ELSE IF k <= p THEN e ELSE f[k - p + q]]
  <2>1. (p - 1) + 1 + (Len(f) - q) = p + n /\ (p - 1) + 1 = p
    BY <1>2
  <2>2. \A k \in 1..(p + n) : k - (p - 1) - 1 + q = k - p + q
    BY <1>2
  <2> QED BY <1>1, <2>1, <2>2 DEF Splice
<1>7. \A k \in 1..(p + n) : /\ k <= p - 1 => h[k] = f[k]
                            /\ ~(k <= p) => h[k + 1] = f[k - p + q]
  <2>1. ASSUME NEW k \in 1..(p + n), k <= p - 1 PROVE h[k] = f[k]
    <3>1. k \in 1..(p + 1 + n) /\ k <= p
      BY <1>2, <2>1
    <3> QED BY <1>4, <3>1
  <2>2. ASSUME NEW k \in 1..(p + n), ~(k <= p) PROVE h[k + 1] = f[k - p + q]
    <3>1. k + 1 \in 1..(p + 1 + n) /\ ~(k + 1 <= p) /\ ~(k + 1 <= p + 1) /\ (k + 1) - p - 1 + q = k - p + q
      BY <1>2, <2>2
    <3> QED BY <1>4, <3>1
  <2> QED BY <2>1, <2>2, Zenon
<1> QED BY <1>5, <1>6, <1>7, Zenon DEF h

\* Two neighbours replaced by one entry.
LEMMA MergeSplice ==
    ASSUME NEW f \in Seq(Entry), NEW k \in 1..(Len(f) - 1), NEW e \in Entry
    PROVE  VecRemove(VecSet(f, k, e), k + 1) = Splice(f, k - 1, k + 1, <<e>>)
<1> DEFINE h == VecSet(f, k, e)
<1>1. Len(f) \in Nat /\ k \in 1..Len(f) /\ k + 1 \in 1..Len(f) /\ (k + 1) - 1 = k
  OBVIOUS
<1>2. h \in Seq(Entry) /\ Len(h) = Len(f) /\ \A j \in 1..Len(f) : h[j] = IF j = k THEN e ELSE f[j]
  BY <1>1 DEF VecSet
<1> HIDE DEF h
<1>3. VecRemove(h, k + 1) = Splice(h, k, k + 1, <<>>)
  BY <1>1, <1>2, RemoveSplice
<1>4. Splice(h, k, k + 1, <<>>) = [j \in 1..(Len(f) - 1) |-> IF j <= k THEN h[j] ELSE h[j + 1]]
  <2>1. Len(<<>>) = 0 /\ k + 0 = k /\ k + 0 + (Len(h) - (k + 1)) = Len(f) - 1
    BY <1>1, <1>2, SMTT(60)
  <2>2. \A j \in 1..(Len(f) - 1) : j - k - 0 + (k + 1) = j + 1
    BY <1>1
  <2> QED BY <2>1, <2>2 DEF Splice
<1>5. Splice(f, k - 1, k + 1, <<e>>)
        = [j \in 1..(Len(f) - 1) |-> IF j <= k - 1 THEN f[j] ELSE IF j <= k THEN e ELSE f[j + 1]]
  <2>1. Len(<<e>>) = 1 /\ (k - 1) + 1 = k /\ (k - 1) + 1 + (Len(f) - (k + 1)) = Len(f) - 1
    BY <1>1
  <2>2. \A j \in 1..(Len(f) - 1) : j - (k - 1) - 1 + (k + 1) = j + 1
    BY <1>1
  <2>3. \A j \in 1..(Len(f) - 1) : ~(j <= k - 1) /\ j <= k => <<e>>[j - (k - 1)] = e
    BY <1>1
  <2> QED BY <2>1, <2>2, <2>3 DEF Splice
<1>6. ASSUME NEW j \in 1..(Len(f) - 1)
      PROVE  (IF j <= k THEN h[j] ELSE h[j + 1])
               = (IF j <= k - 1 THEN f[j] ELSE IF j <= k THEN e ELSE f[j + 1])
  <2>1. j \in 1..Len(f) /\ j + 1 \in 1..Len(f)
    BY <1>1
  <2>2. CASE j <= k - 1
    <3>1. j # k /\ j <= k
      BY <1>1, <2>2
    <3> QED BY <1>2, <2>1, <2>2, <3>1
  <2>3. CASE j = k
    <3>1. ~(j <= k - 1) /\ j <= k
      BY <1>1, <2>3
    <3> QED BY <1>2, <2>1, <2>3, <3>1
  <2>4. CASE ~(j <= k)
    <3>1. j + 1 # k /\ ~(j <= k - 1)
      BY <1>1, <2>4
    <3> QED BY <1>2, <2>1, <2>4, <3>1
  <2> QED BY <1>1, <2>2, <2>3, <2>4
<1>7. [j \in 1..(Len(f) - 1) |-> IF j <= k THEN h[j] ELSE h[j + 1]]
        = [j \in 1..(Len(f) - 1) |-> IF j <= k - 1 THEN f[j] ELSE IF j <= k THEN e ELSE f[j + 1]]
  BY <1>6
<1> QED BY <1>3, <1>4, <1>5, <1>7, Zenon DEF h

\* What free_range makes of the list when the range does not touch the cursor.
Freed(f, addr, len) ==
    LET i == PartitionPoint(f, addr) + 1
    IN  MergePrevious(MergeNext(VecInsert(f, i, Rng(addr, len)), i), i)

Adjoins(f, addr, len, p) == p < Len(f) /\ addr + len = f[p + 1].a

\* Insertion and the merge with the next entry.
LEMMA MergeNexts ==
    ASSUME NEW f \in Seq(Entry), NEW addr \in Nat, NEW len \in Nat \ {0}, NEW p \in 0..Len(f)
    PROVE  MergeNext(VecInsert(f, p + 1, Rng(addr, len)), p + 1)
             = IF Adjoins(f, addr, len, p)
               THEN Splice(f, p, p + 1, <<Rng(addr, len + f[p + 1].l)>>)
               ELSE Splice(f, p, p, <<Rng(addr, len)>>)
<1> DEFINE r == Rng(addr, len)
           h == VecInsert(f, p + 1, r)
           e == Rng(addr, len + f[p + 1].l)
           nx == Adjoins(f, addr, len, p)
<1>1. Len(f) \in Nat /\ p + 1 \in 1..(Len(f) + 1) /\ (p + 1) - 1 = p /\ p \in p..Len(f)
  OBVIOUS
<1>2. \A j \in 1..Len(f) : f[j].a \in Nat /\ f[j].l \in Nat /\ f[j].l > 0
  BY EntryTypes
<1>3. r \in Entry /\ r.a = addr /\ r.l = len
  BY DEF Rng, Entry
<1>4. h = Splice(f, p, p, <<r>>)
  <2> HIDE DEF r
  <2>1. VecInsert(f, p + 1, r) = Splice(f, (p + 1) - 1, (p + 1) - 1, <<r>>)
    BY <1>1, <1>3, InsertSplice
  <2> QED BY <1>1, <2>1
<1> HIDE DEF r, h
<1>5. <<r>> \in Seq(Entry) /\ Len(<<r>>) = 1 /\ <<r>>[1] = r
  BY <1>3
<1>6. h \in Seq(Entry)
  BY <1>1, <1>4, <1>5, SpliceType, Zenon
<1>7. Len(h) = Len(f) + 1
  <2> DEFINE t == <<r>>
  <2>1. t \in Seq(Entry) /\ Len(t) = 1 /\ h = Splice(f, p, p, t)
    BY <1>4, <1>5
  <2> HIDE DEF t
  <2>2. Len(h) = p + Len(t) + (Len(f) - p)
    BY <1>1, <2>1, SpliceType, Zenon
  <2> QED BY <1>1, <2>1, <2>2
<1>8. h[p + 1] = r
  BY <1>1, <1>4 DEF Splice
<1>9. ASSUME p < Len(f) PROVE h[p + 2] = f[p + 1]
  BY <1>1, <1>4, <1>9 DEF Splice
<1>10. (p + 1 < Len(h) /\ h[p + 1].a + h[p + 1].l = h[(p + 1) + 1].a) <=> nx
  <2>1. (p + 1) + 1 = p + 2 /\ (p + 1 < Len(h) <=> p < Len(f))
    BY <1>1, <1>7
  <2> QED BY <1>3, <1>8, <1>9, <2>1 DEF Adjoins
<1>11. CASE nx
  <2>1. p < Len(f) /\ p + 1 \in 1..Len(f) /\ p \in 0..(Len(f) - 1)
    BY <1>1, <1>11 DEF Adjoins
  <2>2. e \in Entry
    BY <1>2, <2>1, SMTT(60) DEF Rng, Entry
  <2>3. Rng(h[p + 1].a, h[p + 1].l + h[(p + 1) + 1].l) = e
    <3>1. (p + 1) + 1 = p + 2
      BY <1>1
    <3> QED BY <1>3, <1>8, <1>9, <2>1, <3>1
  <2> HIDE DEF e
  <2>4. MergeNext(h, p + 1) = VecRemove(VecSet(h, p + 1, e), (p + 1) + 1)
    BY <1>10, <1>11, <2>3 DEF MergeNext
  <2>5. VecRemove(VecSet(h, p + 1, e), (p + 1) + 1) = Splice(h, (p + 1) - 1, (p + 1) + 1, <<e>>)
    <3>1. p + 1 \in 1..(Len(h) - 1)
      BY <1>1, <1>7, <2>1
    <3> QED BY <1>6, <2>2, <3>1, MergeSplice
  <2>6. Splice(Splice(f, p, p, <<r>>), p, p + 2, <<e>>) = Splice(f, p, p + 1, <<e>>)
    BY <1>3, <2>1, <2>2, MergeNextSplice
  <2>7. (p + 1) + 1 = p + 2
    BY <1>1
  <2> QED BY <1>1, <1>4, <1>11, <2>4, <2>5, <2>6, <2>7 DEF e, h, r
<1>12. CASE ~nx
  <2>1. MergeNext(h, p + 1) = h
    BY <1>10, <1>12 DEF MergeNext
  <2> QED BY <1>4, <1>12, <2>1 DEF h, r
<1> QED BY <1>11, <1>12

\* A non-empty range is an entry.
LEMMA RngEntry ==
    ASSUME NEW a \in Nat, NEW l \in Nat, l > 0
    PROVE  Rng(a, l) \in Entry /\ Rng(a, l).a = a /\ Rng(a, l).l = l
BY DEF Rng, Entry

\* A splice that puts in one entry.
LEMMA SpliceOne ==
    ASSUME NEW f \in Seq(Entry), NEW p \in 0..Len(f), NEW q \in p..Len(f), NEW e \in Entry
    PROVE  /\ Splice(f, p, q, <<e>>) \in Seq(Entry)
           /\ Len(Splice(f, p, q, <<e>>)) = p + 1 + (Len(f) - q)
           /\ Splice(f, p, q, <<e>>)[p + 1] = e
           /\ \A k \in 1..p : Splice(f, p, q, <<e>>)[k] = f[k]
<1> DEFINE t == <<e>>
           h == Splice(f, p, q, t)
<1>1. t \in Seq(Entry) /\ Len(t) = 1 /\ t[1] = e /\ 1 \in 1..Len(t)
  OBVIOUS
<1> HIDE DEF t
<1>2. h \in Seq(Entry)
  BY <1>1, SpliceType
<1>3. Len(h) = p + Len(t) + (Len(f) - q)
  BY <1>1, SpliceType, Zenon
<1>4. \A k \in 1..p : h[k] = f[k]
  BY <1>1, SpliceType
<1>5. \A k \in 1..Len(t) : h[p + k] = t[k]
  BY <1>1, SpliceType, Zenon
<1> HIDE DEF h
<1>6. Len(h) = p + 1 + (Len(f) - q) /\ h[p + 1] = e
  BY <1>1, <1>3, <1>5
<1> QED BY <1>2, <1>4, <1>6 DEF h, t

\* The list freed is f with k+1..q replaced by e: the range and the neighbours,
\* p and p+1, that it touches.
FreedAs(f, addr, len, p, k, q, e) ==
    /\ Freed(f, addr, len) = Splice(f, k, q, <<e>>)
    /\ IF p > 0 /\ f[p].a + f[p].l = addr
       THEN k = p - 1 /\ e.a = f[p].a ELSE k = p /\ e.a = addr
    /\ IF Adjoins(f, addr, len, p)
       THEN q = p + 1 /\ e.a + e.l = f[p + 1].a + f[p + 1].l
       ELSE q = p /\ e.a + e.l = addr + len

\* The range freed, with the neighbours it touches, replaces them.
LEMMA FreedSplice ==
    ASSUME NEW f \in Seq(Entry), NEW addr \in Nat, NEW len \in Nat \ {0},
           NEW p \in 0..Len(f), p = PartitionPoint(f, addr)
    PROVE  \E k \in 0..p, q \in p..Len(f), e \in Entry : FreedAs(f, addr, len, p, k, q, e)
<1> DEFINE nx == Adjoins(f, addr, len, p)
           pv == p > 0 /\ f[p].a + f[p].l = addr
           q == IF nx THEN p + 1 ELSE p
           e == Rng(addr, IF nx THEN len + f[p + 1].l ELSE len)
           m == MergeNext(VecInsert(f, p + 1, Rng(addr, len)), p + 1)
           end == IF nx THEN f[p + 1].a + f[p + 1].l ELSE addr + len
<1>1. Len(f) \in Nat /\ p + 1 \in 1..(Len(f) + 1) /\ (p + 1) - 1 = p
  OBVIOUS
<1>2. \A j \in 1..Len(f) : f[j].a \in Nat /\ f[j].l \in Nat /\ f[j].l > 0
  BY EntryTypes
<1>3. nx => p + 1 \in 1..Len(f) /\ addr + len = f[p + 1].a
  BY <1>1 DEF Adjoins
<1>4. q \in p..Len(f)
  BY <1>1, <1>3
<1>5. e \in Entry /\ e.a = addr /\ e.a + e.l = end
  <2>1. CASE nx
    <3> DEFINE n == len + f[p + 1].l
    <3>1. f[p + 1].l \in Nat /\ f[p + 1].a = addr + len
      BY <1>2, <1>3, <2>1
    <3>2. n \in Nat /\ n > 0 /\ addr + n = f[p + 1].a + f[p + 1].l
      BY <3>1, SMTT(60)
    <3>3. e = Rng(addr, n) /\ end = f[p + 1].a + f[p + 1].l
      BY <2>1
    <3> HIDE DEF n, e, end
    <3> QED BY <3>2, <3>3, RngEntry
  <2>2. CASE ~nx
    BY <2>2 DEF Rng, Entry
  <2> QED BY <2>1, <2>2
<1>6. m = Splice(f, p, q, <<e>>)
  BY MergeNexts, Zenon
<1>7. Freed(f, addr, len) = MergePrevious(m, p + 1)
  BY DEF Freed
<1>8. \A k \in 0..p, d \in Entry :
         /\ Freed(f, addr, len) = Splice(f, k, q, <<d>>)
         /\ (pv => k = p - 1 /\ d.a = f[p].a) /\ (~pv => k = p /\ d.a = addr)
         /\ d.a + d.l = end
         => FreedAs(f, addr, len, p, k, q, d)
  <2>1. nx => q = p + 1 /\ end = f[p + 1].a + f[p + 1].l
    OBVIOUS
  <2>2. ~nx => q = p /\ end = addr + len
    OBVIOUS
  <2> HIDE DEF q, end
  <2> QED BY <2>1, <2>2 DEF FreedAs
<1> HIDE DEF m, q, e, end
<1>10. m \in Seq(Entry)
  BY <1>4, <1>5, <1>6, SpliceOne, Zenon
<1>11. Len(m) = p + 1 + (Len(f) - q)
  BY <1>4, <1>5, <1>6, SpliceOne, Zenon
<1>12. m[p + 1] = e
  BY <1>4, <1>5, <1>6, SpliceOne, SMTT(60)
<1>13. ASSUME p > 0 PROVE m[p] = f[p]
  <2>1. \A k \in 1..p : m[k] = f[k]
    BY <1>4, <1>5, <1>6, SpliceOne
  <2> QED BY <1>1, <1>13, <2>1
<1>14. (p + 1 > 1 /\ m[(p + 1) - 1].a + m[(p + 1) - 1].l = m[p + 1].a) <=> pv
  <2>1. p + 1 > 1 <=> p > 0
    BY <1>1
  <2> QED BY <1>1, <1>5, <1>12, <1>13, <2>1
<1>15. CASE ~pv
  <2>1. MergePrevious(m, p + 1) = m
    BY <1>14, <1>15 DEF MergePrevious
  <2>2. p \in 0..p
    BY <1>1
  <2> HIDE DEF pv
  <2> QED BY <1>4, <1>5, <1>6, <1>7, <1>8, <1>15, <2>1, <2>2
<1>16. CASE pv
  <2> DEFINE d == Rng(f[p].a, f[p].l + e.l)
  <2>1. p \in 1..Len(f) /\ p > 0 /\ p - 1 \in 0..p /\ f[p].a \in Nat /\ f[p].l \in Nat
    BY <1>1, <1>2, <1>16
  <2>2. d \in Entry /\ d.a = f[p].a /\ d.a + d.l = end
    <3>1. e.l \in Nat \ {0} /\ f[p].a + f[p].l = addr
      BY <1>5, <1>16 DEF Entry
    <3>4. f[p].l + e.l \in Nat /\ f[p].l + e.l > 0
      BY <2>1, <3>1, SMTT(60)
    <3>2. d.a = f[p].a /\ d.l = f[p].l + e.l /\ d \in Entry
      BY <2>1, <3>4, RngEntry, Zenon
    <3> HIDE DEF d
    <3>3. d.a + d.l = addr + e.l
      BY <2>1, <3>1, <3>2
    <3> QED BY <1>5, <3>2, <3>3
  <2>3. Rng(m[(p + 1) - 1].a, m[(p + 1) - 1].l + m[p + 1].l) = d
    BY <1>1, <1>12, <1>13, <2>1
  <2> HIDE DEF d
  <2>4. MergePrevious(m, p + 1) = VecRemove(VecSet(m, p, d), p + 1)
    BY <1>1, <1>14, <1>16, <2>3 DEF MergePrevious
  <2>5. VecRemove(VecSet(m, p, d), p + 1) = Splice(m, p - 1, p + 1, <<d>>)
    <3>1. Len(m) - 1 = p + (Len(f) - q) /\ Len(f) - q \in Nat
      BY <1>1, <1>4, <1>11, <2>1, SMTT(60)
    <3>2. p \in 1..(Len(m) - 1)
      BY <1>1, <2>1, <3>1
    <3> QED BY <1>10, <2>2, <3>2, MergeSplice, Zenon
  <2>6. Splice(Splice(f, p, q, <<e>>), p - 1, p + 1, <<d>>) = Splice(f, p - 1, q, <<d>>)
    BY <1>4, <1>5, <2>1, <2>2, MergePreviousSplice
  <2> HIDE DEF pv
  <2> QED BY <1>4, <1>6, <1>7, <1>8, <1>16, <2>1, <2>2, <2>4, <2>5, <2>6, Zenon
<1> QED BY <1>15, <1>16

\* Putting one entry in place of p+1..q.
LEMMA PutOne ==
    ASSUME NEW lo \in Nat, NEW hi \in Nat, NEW f, Ordered(f, lo, hi),
           NEW p \in 0..Len(f), NEW q \in p..Len(f), NEW e \in Entry,
           e.a > lo, e.a + e.l <= hi,
           \A i \in 1..p : f[i].a + f[i].l < e.a,
           \A i \in (q + 1)..Len(f) : e.a + e.l < f[i].a
    PROVE  /\ Ordered(Splice(f, p, q, <<e>>), lo, hi)
           /\ Cover(Splice(f, p, q, <<e>>)) = (Cover(f) \ Inner(f, p, q)) \cup Pages(e.a, e.l)
<1> DEFINE t == <<e>>
<1>1. f \in Seq(Entry)
  BY DEF Ordered
<1>2. t \in Seq(Entry) /\ Len(t) = 1 /\ t[1] = e /\ 1..Len(t) = {1}
  OBVIOUS
<1>3. Cover(t) = Pages(e.a, e.l)
  BY CoverOne
<1> HIDE DEF t
<1>4. Ordered(t, lo, hi)
  BY <1>2 DEF Ordered
<1>5. \A i \in 1..p, j \in 1..Len(t) : f[i].a + f[i].l < t[j].a
  BY <1>2
<1>6. \A i \in (q + 1)..Len(f), j \in 1..Len(t) : t[j].a + t[j].l < f[i].a
  BY <1>2
<1>7. Ordered(Splice(f, p, q, t), lo, hi)
  BY <1>4, <1>5, <1>6, OrderedSplice
<1>8. Cover(Splice(f, p, q, t)) = Around(f, p, q) \cup Cover(t)
  BY <1>1, <1>2, CoverSplice
<1>9. Around(f, p, q) = Cover(f) \ Inner(f, p, q)
  BY CoverSplit DEF Inner
<1> QED BY <1>3, <1>7, <1>8, <1>9 DEF t

\* free_range keeps the order and the gaps, and adds the pages of the range.
LEMMA Coalesces ==
    ASSUME NEW lo \in Nat, NEW hi \in Nat, NEW f, Ordered(f, lo, hi),
           NEW addr \in Nat, NEW len \in Nat \ {0}, addr > lo, addr + len <= hi,
           \A j \in 1..Len(f) : ~(addr < f[j].a + f[j].l /\ f[j].a < addr + len)
    PROVE  /\ Ordered(Freed(f, addr, len), lo, hi)
           /\ Cover(Freed(f, addr, len)) = Cover(f) \cup Pages(addr, len)
<1> DEFINE p == PartitionPoint(f, addr)
           pv == p > 0 /\ f[p].a + f[p].l = addr
           nx == Adjoins(f, addr, len, p)
<1>1. f \in Seq(Entry) /\ Len(f) \in Nat
  BY DEF Ordered
<1>2. \A j \in 1..Len(f) : f[j].a \in Nat /\ f[j].l \in Nat /\ f[j].l > 0
  BY <1>1, EntryTypes
<1>3. p \in 0..Len(f)
  BY PartitionPoints
<1>4. \A i \in 1..Len(f) : i <= p <=> f[i].a < addr
  BY PartitionPoints
<1>26. p = PartitionPoint(f, addr)
  OBVIOUS
<1> HIDE DEF p
<1>5. PICK k \in 0..p, q \in p..Len(f), e \in Entry : FreedAs(f, addr, len, p, k, q, e)
  BY <1>1, <1>3, <1>26, FreedSplice, Zenon
<1>6. ASSUME NEW j \in 1..Len(f), j <= p PROVE f[j].a + f[j].l <= addr
  <2>1. f[j].a \in Nat /\ f[j].l \in Nat /\ f[j].a < addr
    BY <1>2, <1>4, <1>6
  <2>2. f[j].a < addr + len
    BY <2>1
  <2>3. ~(addr < f[j].a + f[j].l)
    BY <2>2
  <2> QED BY <2>1, <2>3
<1>7. ASSUME NEW j \in 1..Len(f), j > p PROVE f[j].a >= addr + len
  <2>1. f[j].a \in Nat /\ f[j].l \in Nat /\ f[j].l > 0 /\ ~(f[j].a < addr)
    <3>1. ~(j <= p)
      BY <1>3, <1>7
    <3> QED BY <1>2, <1>4, <3>1
  <2>2. addr < f[j].a + f[j].l
    BY <2>1, SMTT(60)
  <2>3. ~(f[j].a < addr + len)
    BY <2>2
  <2> QED BY <2>1, <2>3
<1>8. pv => p \in 1..Len(f) /\ f[p].a \in Nat /\ f[p].l \in Nat /\ f[p].a + f[p].l = addr
  BY <1>2, <1>3
<1>9. nx => p + 1 \in 1..Len(f) /\ f[p + 1].a \in Nat /\ f[p + 1].l \in Nat /\ f[p + 1].a = addr + len
  BY <1>1, <1>2, <1>3 DEF Adjoins
<1>10. e.a \in Nat /\ e.l \in Nat
  BY DEF Entry
<1>11. k \in 0..Len(f) /\ q \in k..Len(f)
  BY <1>1, <1>3
<1>12. /\ pv => k = p - 1 /\ e.a = f[p].a
       /\ ~pv => k = p /\ e.a = addr
       /\ nx => q = p + 1 /\ e.a + e.l = f[p + 1].a + f[p + 1].l
       /\ ~nx => q = p /\ e.a + e.l = addr + len
  BY <1>5 DEF FreedAs
<1>13. e.a > lo
  <2>1. CASE pv
    BY <1>8, <1>12, <2>1, Zenon DEF Ordered
  <2> QED BY <1>12, <2>1
<1>14. e.a + e.l <= hi
  <2>1. CASE nx
    BY <1>9, <1>12, <2>1 DEF Ordered
  <2> QED BY <1>12, <2>1
<1>15. \A i \in 1..k : f[i].a + f[i].l < e.a
  <2> SUFFICES ASSUME NEW i \in 1..k PROVE f[i].a + f[i].l < e.a
    OBVIOUS
  <2>0. i \in 1..Len(f) /\ f[i].a \in Nat /\ f[i].l \in Nat
    BY <1>1, <1>2, <1>11
  <2>1. CASE pv
    <3>1. i < p /\ p \in 1..Len(f)
      BY <1>3, <1>8, <1>12, <2>1
    <3>2. f[i].a + f[i].l < f[p].a
      BY <2>0, <3>1 DEF Ordered
    <3> QED BY <1>12, <2>1, <3>2
  <2>2. CASE ~pv
    <3>1. i <= p /\ e.a = addr /\ p \in 1..Len(f) /\ p > 0
      BY <1>3, <1>12, <2>0, <2>2
    <3>2. f[p].a + f[p].l <= addr /\ f[p].a + f[p].l # addr /\ f[p].a \in Nat /\ f[p].l \in Nat
      BY <1>2, <1>6, <2>2, <3>1
    <3>3. i = p \/ f[i].a + f[i].l < f[p].a
      <4>1. i = p \/ i < p
        BY <1>3, <2>0, <3>1
      <4> QED BY <2>0, <3>1, <4>1 DEF Ordered
    <3>4. CASE i = p
      <4> DEFINE y == f[p].a + f[p].l
      <4>1. y \in Nat /\ y <= addr /\ y # addr
        BY <3>2, SMTT(60)
      <4> HIDE DEF y
      <4>2. y < addr
        BY <4>1
      <4> QED BY <3>1, <3>4, <4>2 DEF y
    <3>5. CASE f[i].a + f[i].l < f[p].a
      <4> DEFINE y == f[i].a + f[i].l
      <4>1. y \in Nat /\ y < f[p].a
        BY <2>0, <3>5, SMTT(60)
      <4> HIDE DEF y
      <4>2. y < addr
        BY <3>2, <4>1, SMTT(60)
      <4> QED BY <3>1, <4>2 DEF y
    <3> QED BY <3>3, <3>4, <3>5
  <2> QED BY <2>1, <2>2
<1>16. \A i \in (q + 1)..Len(f) : e.a + e.l < f[i].a
  <2> SUFFICES ASSUME NEW i \in (q + 1)..Len(f) PROVE e.a + e.l < f[i].a
    OBVIOUS
  <2>0. i \in 1..Len(f) /\ f[i].a \in Nat /\ f[i].l \in Nat /\ i > q
    BY <1>1, <1>2, <1>11
  <2>1. CASE nx
    <3>1. p + 1 < i /\ p + 1 \in 1..Len(f)
      BY <1>3, <1>9, <1>12, <2>0, <2>1
    <3>2. f[p + 1].a + f[p + 1].l < f[i].a
      BY <2>0, <3>1 DEF Ordered
    <3> QED BY <1>12, <2>1, <3>2
  <2>2. CASE ~nx
    <3>1. i > p /\ e.a + e.l = addr + len /\ p + 1 \in 1..Len(f) /\ p < Len(f) /\ p + 1 > p
      BY <1>1, <1>3, <1>12, <2>0, <2>2
    <3>2. f[p + 1].a >= addr + len /\ f[p + 1].a # addr + len /\ f[p + 1].a \in Nat /\ f[p + 1].l \in Nat
      BY <1>2, <1>7, <2>2, <3>1 DEF Adjoins
    <3>3. i = p + 1 \/ f[p + 1].a + f[p + 1].l < f[i].a
      <4>1. i = p + 1 \/ p + 1 < i
        BY <1>3, <2>0, <3>1
      <4> QED BY <2>0, <3>1, <4>1 DEF Ordered
    <3>4. CASE i = p + 1
      <4>1. addr + len < f[p + 1].a
        BY <3>2
      <4> QED BY <3>1, <3>4, <4>1
    <3>5. CASE f[p + 1].a + f[p + 1].l < f[i].a
      <4> DEFINE y == f[i].a
                 z == f[p + 1].a
                 w == f[p + 1].l
      <4>1. y \in Nat /\ z \in Nat /\ w \in Nat /\ z + w < y /\ z >= addr + len
        BY <2>0, <3>2, <3>5
      <4> HIDE DEF y, z, w
      <4>2. addr + len < y
        BY <4>1
      <4> QED BY <3>1, <4>2 DEF y
    <3> QED BY <3>3, <3>4, <3>5
  <2> QED BY <2>1, <2>2
<1>17. Ordered(Splice(f, k, q, <<e>>), lo, hi)
  BY <1>11, <1>13, <1>14, <1>15, <1>16, PutOne
<1>18. Cover(Splice(f, k, q, <<e>>)) = (Cover(f) \ Inner(f, k, q)) \cup Pages(e.a, e.l)
  BY <1>11, <1>13, <1>14, <1>15, <1>16, PutOne
<1>19. e.a <= addr /\ addr + len <= e.a + e.l
  <2>1. e.a <= addr
    BY <1>8, <1>12, SMTT(60)
  <2>2. addr + len <= e.a + e.l
    BY <1>9, <1>12
  <2> QED BY <2>1, <2>2
<1>20. \A x : x \in Pages(e.a, e.l) <=> x \in Nat /\ e.a <= x /\ x < e.a + e.l
  BY <1>10, SMTT(60) DEF Pages
<1>21. \A x : x \in Pages(addr, len) <=> x \in Nat /\ addr <= x /\ x < addr + len
  BY DEF Pages
<1>22. ASSUME NEW x \in Inner(f, k, q) PROVE x \in Pages(e.a, e.l)
  <2>1. x \in Nat
    BY DEF Inner
  <2>2. PICK i \in (k + 1)..q : f[i].a <= x /\ x < f[i].a + f[i].l
    BY DEF Inner
  <2>3. (pv /\ i = p) \/ (nx /\ i = p + 1)
    BY <1>3, <1>11, <1>12
  <2>4. CASE pv /\ i = p
    <3>1. e.a <= x /\ x < addr
      BY <1>8, <1>12, <2>2, <2>4
    <3>2. x < e.a + e.l
      BY <1>10, <1>19, <2>1, <3>1
    <3> QED BY <1>20, <2>1, <3>1, <3>2
  <2>5. CASE nx /\ i = p + 1
    <3>1. addr + len <= x /\ x < e.a + e.l
      BY <1>9, <1>12, <2>2, <2>5
    <3>2. e.a <= x
      BY <1>10, <1>19, <2>1, <3>1
    <3> QED BY <1>20, <2>1, <3>1, <3>2
  <2> QED BY <2>3, <2>4, <2>5
<1>23. ASSUME NEW x \in Pages(addr, len) PROVE x \in Pages(e.a, e.l)
  <2>1. x \in Nat /\ addr <= x /\ x < addr + len
    BY <1>21
  <2>2. e.a <= x /\ x < e.a + e.l
    BY <1>10, <1>19, <2>1
  <2> QED BY <1>20, <2>1, <2>2
<1>24. ASSUME NEW x \in Pages(e.a, e.l) PROVE x \in Cover(f) \cup Pages(addr, len)
  <2>1. x \in Nat /\ e.a <= x /\ x < e.a + e.l
    BY <1>20
  <2>2. CASE x < addr
    <3>1. pv
      BY <1>12, <2>1, <2>2
    <3>2. p \in 1..Len(f) /\ f[p].a <= x /\ x < f[p].a + f[p].l
      BY <1>8, <1>12, <2>1, <2>2, <3>1
    <3> QED BY <2>1, <3>2 DEF Cover
  <2>3. CASE ~(x < addr) /\ x < addr + len
    BY <1>21, <2>1, <2>3
  <2>4. CASE ~(x < addr + len)
    <3>1. nx
      BY <1>12, <2>1, <2>4
    <3>2. p + 1 \in 1..Len(f) /\ f[p + 1].a <= x /\ x < f[p + 1].a + f[p + 1].l
      BY <1>9, <1>12, <2>1, <2>4, <3>1
    <3> QED BY <2>1, <3>2 DEF Cover
  <2> QED BY <2>2, <2>3, <2>4
<1>25. (Cover(f) \ Inner(f, k, q)) \cup Pages(e.a, e.l) = Cover(f) \cup Pages(addr, len)
  BY <1>22, <1>23, <1>24
<1> QED BY <1>5, <1>17, <1>18, <1>25 DEF FreedAs

-----------------------------------------------------------------------------
\* The inductive invariant: the list is ordered, with gaps, above the cursor.
ListInv == cursor \in Floor..Top /\ Ordered(free, cursor, Top)

\* The pages the list holds are those of its entries.
LEMMA InvListed ==
    ListInv => Listed = Cover(free)
<1> SUFFICES ASSUME ListInv PROVE Listed = Cover(free)
  OBVIOUS
<1>1. free \in Seq(Entry) /\ DOMAIN free = 1..Len(free) /\ cursor \in Floor..Top
  BY DEF ListInv, Ordered
<1>2. \A i \in 1..Len(free) : free[i].a \in Nat /\ free[i].l \in Nat
  BY <1>1, EntryTypes
<1>3. ASSUME NEW x \in Nat, NEW i \in 1..Len(free), free[i].a <= x, x < free[i].a + free[i].l
      PROVE  x \in Floor..(Top - 1)
  <2>1. free[i].a > cursor /\ free[i].a + free[i].l <= Top
    BY DEF ListInv, Ordered
  <2>2. free[i].a \in Nat /\ free[i].l \in Nat
    BY <1>2
  <2> DEFINE y == free[i].a
             z == free[i].a + free[i].l
  <2>3. y \in Nat /\ z \in Nat /\ y > cursor /\ z <= Top /\ y <= x /\ x < z
    BY <1>3, <2>1, <2>2
  <2> HIDE DEF y, z
  <2> QED BY <1>1, <2>3
<1>4. \A x \in Floor..(Top - 1) : x \in Nat
  OBVIOUS
<1> QED BY <1>1, <1>3, <1>4 DEF Listed, Cover

\* The lower bound of an ordered list can be any number below its entries.
LEMMA OrderedFrom ==
    ASSUME NEW lo \in Nat, NEW hi \in Nat, NEW f, Ordered(f, lo, hi), NEW c \in Nat,
           \A i \in 1..Len(f) : f[i].a > c
    PROVE  Ordered(f, c, hi)
BY DEF Ordered

\* A lower bound may be lowered.
LEMMA OrderedBelow ==
    ASSUME NEW lo \in Nat, NEW hi \in Nat, NEW f, Ordered(f, lo, hi), NEW c \in Nat, c <= lo
    PROVE  Ordered(f, c, hi)
<1>1. f \in Seq(Entry)
  BY DEF Ordered
<1>2. \A i \in 1..Len(f) : f[i].a \in Nat /\ f[i].a > lo
  BY <1>1, EntryTypes DEF Ordered
<1>3. \A i \in 1..Len(f) : f[i].a > c
  BY <1>2
<1> QED BY <1>3, OrderedFrom

\* What alloc does to the pages when it cuts the top off entry i.
CutEntry(c, f, i, len) ==
    [base |-> f[i].a + f[i].l - len,
     arena |-> [cursor |-> c, free |-> Cover(f) \ Pages(f[i].a + f[i].l - len, len)]]

Shown(c, f) == [cursor |-> c, free |-> Cover(f)]

\* The page-level meaning of alloc, when an entry fits and when none does.
LEMMA AllocFits ==
    ASSUME NEW c \in Floor..Top, NEW f, Ordered(f, c, Top), NEW len \in Nat,
           NEW i \in 1..Len(f), f[i].l >= len, \A j \in 1..Len(f) : f[j].l >= len => i <= j
    PROVE  Alloc(Shown(c, f), len) = CutEntry(c, f, i, len)
<1> DEFINE A == [cursor |-> c, free |-> Cover(f)]
           w == <<f[i].a, f[i].l>>
           b == f[i].a + f[i].l - len
<1>1. FirstFit(A, len) = w
  BY FirstFits
<1>2. w \in Entries(A) /\ w[2] >= len
  BY EntriesOfList
<1>3. w[1] + w[2] - len = b
  <2>1. w[1] = f[i].a /\ w[2] = f[i].l
    OBVIOUS
  <2> HIDE DEF w
  <2> QED BY <2>1
<1>4. [A EXCEPT !.free = @ \ Pages(b, len)] = [cursor |-> c, free |-> Cover(f) \ Pages(b, len)]
  <2>1. \A K : [A EXCEPT !.free = K] = [cursor |-> c, free |-> K]
    OBVIOUS
  <2>2. A.free = Cover(f)
    OBVIOUS
  <2> HIDE DEF A, b
  <2> QED BY <2>1, <2>2, Zenon
<1> HIDE DEF A, w, b
<1>5. Alloc(A, len) = [base |-> b, arena |-> [A EXCEPT !.free = @ \ Pages(b, len)]]
  BY <1>1, <1>2, <1>3, Zenon DEF Alloc
<1> QED BY <1>4, <1>5, Zenon DEF A, b, Shown, CutEntry

\* alloc when no entry fits: the bump region, or nothing.
LEMMA AllocBumps ==
    ASSUME NEW c \in Floor..Top, NEW f, Ordered(f, c, Top), NEW len \in Nat,
           \A j \in 1..Len(f) : ~(f[j].l >= len)
    PROVE  Alloc([cursor |-> c, free |-> Cover(f)], len) =
             IF c - len >= Floor
             THEN [base |-> c - len, arena |-> [cursor |-> c - len, free |-> Cover(f)]]
             ELSE [base |-> NoAddr, arena |-> [cursor |-> c, free |-> Cover(f)]]
<1> DEFINE A == [cursor |-> c, free |-> Cover(f)]
<1>1. \A e \in Entries(A) : \E j \in 1..Len(f) : e = <<f[j].a, f[j].l>>
  BY EntriesOfList
<1>2. \A e \in Entries(A) : ~(e[2] >= len)
  <2> HIDE DEF A
  <2> QED BY <1>1
<1>3. A.cursor = c /\ [A EXCEPT !.cursor = @ - len] = [cursor |-> c - len, free |-> Cover(f)]
  OBVIOUS
<1> HIDE DEF A
<1>4. Alloc(A, len) = IF c - len >= Floor
                      THEN [base |-> c - len, arena |-> [A EXCEPT !.cursor = @ - len]]
                      ELSE [base |-> NoAddr, arena |-> A]
  BY <1>2, <1>3 DEF Alloc
<1> QED BY <1>3, <1>4 DEF A

\* alloc keeps the list well formed and has the page-level meaning of Alloc.
LEMMA AllocStep ==
    ASSUME ListInv, NEW len \in 1..MaxSize, ListAlloc(len)
    PROVE  /\ ListInv'
           /\ Alloc([cursor |-> cursor, free |-> Cover(free)], len) =
                [base |-> ret', arena |-> [cursor |-> cursor', free |-> Cover(free')]]
<1> DEFINE A == [cursor |-> cursor, free |-> Cover(free)]
<1>1. /\ cursor \in Floor..Top /\ Ordered(free, cursor, Top)
      /\ free \in Seq(Entry) /\ DOMAIN free = 1..Len(free)
      /\ len \in Nat \ {0} /\ cursor \in Nat
  BY DEF ListInv, Ordered
<1>2. \A i \in 1..Len(free) : free[i].a \in Nat /\ free[i].l \in Nat /\ free[i].l > 0
  BY <1>1, EntryTypes
<1>3. CASE \E i \in DOMAIN free : free[i].l >= len
  <2> DEFINE S == {j \in 1..Len(free) : free[j].l >= len}
             i == FirstFitIndex(len)
  <2>1. S # {} /\ S \subseteq Nat
    BY <1>1, <1>3
  <2>2. \E m \in S : \A j \in S : m <= j
    <3> HIDE DEF S
    <3> QED BY <2>1, Least, Zenon
  <2>3. i \in S /\ \A j \in S : i <= j
    <3>1. \E m \in 1..Len(free) :
             free[m].l >= len /\ \A j \in 1..Len(free) : free[j].l >= len => m <= j
      BY <2>2
    <3> QED BY <1>1, <3>1, Zenon DEF FirstFitIndex
  <2>4. /\ free' = IF free[i].l = len THEN VecRemove(free, i)
                   ELSE VecSet(free, i, Rng(free[i].a, free[i].l - len))
        /\ ret' = free[i].a + (free[i].l - len)
        /\ cursor' = cursor
    BY <1>3 DEF ListAlloc
  <2>5. i \in 1..Len(free) /\ free[i].l >= len /\ \A j \in 1..Len(free) : free[j].l >= len => i <= j
    BY <2>3
  <2> HIDE DEF i
  <2>6. Ordered(free', cursor, Top)
    BY <1>1, <2>4, <2>5, Carve
  <2>7. Cover(free') = Cover(free) \ Pages(free[i].a + free[i].l - len, len)
    BY <1>1, <2>4, <2>5, Carve
  <2>8. free[i].a + free[i].l - len = ret'
    BY <1>1, <1>2, <2>4, <2>5
  <2>9. Alloc(A, len) =
          [base |-> free[i].a + free[i].l - len,
           arena |-> [cursor |-> cursor, free |-> Cover(free) \ Pages(free[i].a + free[i].l - len, len)]]
    <3>1. Alloc(Shown(cursor, free), len) = CutEntry(cursor, free, i, len)
      BY <1>1, <2>5, AllocFits, Zenon
    <3> QED BY <3>1, Zenon DEF Shown, CutEntry
  <2>10. ListInv'
    BY <1>1, <2>4, <2>6, Zenon DEF ListInv
  <2> QED BY <2>4, <2>7, <2>8, <2>9, <2>10, Zenon
<1>4. CASE ~\E i \in DOMAIN free : free[i].l >= len
  <2>1. /\ free' = free
        /\ IF cursor < len \/ cursor - len < Floor
           THEN ret' = NoAddr /\ cursor' = cursor
           ELSE ret' = cursor - len /\ cursor' = cursor - len
    BY <1>4 DEF ListAlloc
  <2>2. \A j \in 1..Len(free) : ~(free[j].l >= len)
    BY <1>1, <1>4
  <2>3. Alloc(A, len) =
          IF cursor - len >= Floor
          THEN [base |-> cursor - len, arena |-> [cursor |-> cursor - len, free |-> Cover(free)]]
          ELSE [base |-> NoAddr, arena |-> [cursor |-> cursor, free |-> Cover(free)]]
    BY <1>1, <2>2, AllocBumps
  <2>4. CASE cursor - len >= Floor
    <3>1. ret' = cursor - len /\ cursor' = cursor - len /\ cursor' \in Floor..Top /\ cursor' <= cursor
      BY <1>1, <2>1, <2>4
    <3>2. Ordered(free, cursor', Top)
      BY <1>1, <3>1, OrderedBelow
    <3>3. ListInv'
      BY <2>1, <3>1, <3>2 DEF ListInv
    <3> QED BY <2>1, <2>3, <2>4, <3>1, <3>3
  <2>5. CASE ~(cursor - len >= Floor)
    <3>1. ret' = NoAddr /\ cursor' = cursor
      BY <1>1, <2>1, <2>5
    <3>2. ListInv'
      BY <1>1, <2>1, <3>1 DEF ListInv
    <3> QED BY <2>1, <2>3, <2>5, <3>1, <3>2
  <2> QED BY <2>4, <2>5
<1> QED BY <1>3, <1>4

\* The same for claim.
LEMMA ClaimStep ==
    ASSUME ListInv, NEW len \in 1..MaxSize, NEW addr \in 0..Top, ListClaim(addr, len)
    PROVE  /\ ListInv' /\ ret' = NoAddr
           /\ Claim([cursor |-> cursor, free |-> Cover(free)], addr, len) =
                [cursor |-> cursor', free |-> Cover(free')]
<1> DEFINE A == [cursor |-> cursor, free |-> Cover(free)]
           end == addr + len
           kept == Cut(free, addr, end)
<1>1. /\ cursor \in Floor..Top /\ Ordered(free, cursor, Top)
      /\ len \in Nat /\ len # 0 /\ cursor \in Nat /\ addr \in Nat /\ end \in Nat /\ addr < end
  BY DEF ListInv
<1>2. Ordered(kept, cursor, Top)
  <2> HIDE DEF end
  <2> QED BY <1>1, Cuts
<1>3. Cover(kept) = Cover(free) \ Pages(addr, len)
  <2>1. addr..(end - 1) = Pages(addr, len)
    BY <1>1 DEF Pages
  <2> HIDE DEF end
  <2>2. Cover(kept) = Cover(free) \ addr..(end - 1)
    BY <1>1, Cuts
  <2> QED BY <2>1, <2>2, Zenon
<1>4. /\ ret' = NoAddr
      /\ IF addr < cursor /\ end > Floor
         THEN /\ cursor' = IF addr > Floor THEN addr ELSE Floor
              /\ free' = IF end < cursor
                         THEN VecInsert(kept, PartitionPoint(kept, end) + 1, Rng(end, cursor - end))
                         ELSE kept
         ELSE free' = kept /\ cursor' = cursor
  BY <1>1 DEF ListClaim
<1>5. Claim(A, addr, len) =
        IF addr < cursor /\ end > Floor
        THEN [cursor |-> IF addr > Floor THEN addr ELSE Floor,
              free |-> (Cover(free) \ Pages(addr, len)) \cup end..(cursor - 1)]
        ELSE [cursor |-> cursor, free |-> Cover(free) \ Pages(addr, len)]
  <2>1. A.cursor = cursor /\ A.free = Cover(free)
    OBVIOUS
  <2>2. \A K : [A EXCEPT !.free = K] = [cursor |-> cursor, free |-> K]
    OBVIOUS
  <2> HIDE DEF A
  <2>3. Claim(A, addr, len) =
          IF addr < A.cursor /\ end > Floor
          THEN [cursor |-> IF addr > Floor THEN addr ELSE Floor,
                free |-> (A.free \ Pages(addr, len)) \cup end..(A.cursor - 1)]
          ELSE [A EXCEPT !.free = A.free \ Pages(addr, len)]
    BY <1>1 DEF Claim
  <2> QED BY <2>1, <2>2, <2>3, Zenon
<1> HIDE DEF kept, end
<1>6. CASE ~(addr < cursor /\ end > Floor)
  <2>1. free' = kept /\ cursor' = cursor
    BY <1>4, <1>6
  <2>2. ListInv'
    BY <1>1, <1>2, <2>1 DEF ListInv
  <2> QED BY <1>3, <1>4, <1>5, <1>6, <2>1, <2>2, Zenon
<1>7. CASE addr < cursor /\ end > Floor
  <2> DEFINE c == IF addr > Floor THEN addr ELSE Floor
  <2>1. c \in Nat /\ c \in Floor..Top /\ c <= cursor /\ c < end /\ cursor' = c
    BY <1>1, <1>4, <1>7
  <2> HIDE DEF c
  <2>2. Ordered(kept, c, Top)
    BY <1>1, <1>2, <2>1, OrderedBelow
  <2>3. CASE ~(end < cursor)
    <3>1. free' = kept
      BY <1>4, <1>7, <2>3
    <3>2. end..(cursor - 1) = {}
      BY <1>1, <2>3
    <3>3. ListInv'
      BY <2>1, <2>2, <3>1 DEF ListInv
    <3> QED BY <1>3, <1>4, <1>5, <1>7, <2>1, <3>1, <3>2, <3>3, Zenon DEF c
  <2>4. CASE end < cursor
    <3> DEFINE e == Rng(end, cursor - end)
    <3>1. cursor - end \in Nat /\ cursor - end > 0 /\ end + (cursor - end) = cursor
      BY <1>1, <2>4
    <3>2. e \in Entry /\ e.a = end /\ e.l = cursor - end
      BY <1>1, <3>1, RngEntry
    <3>3. kept \in Seq(Entry) /\ Len(kept) \in Nat
      BY <1>2 DEF Ordered
    <3>4. \A j \in 1..Len(kept) : kept[j].a \in Nat /\ kept[j].a > cursor
      BY <1>2, <3>3, EntryTypes DEF Ordered
    <3>5. PartitionPoint(kept, end) = 0
      <4>1. PartitionPoint(kept, end) \in 0..Len(kept)
        BY <1>1, <1>2, PartitionPoints, Zenon
      <4>2. \A i \in 1..Len(kept) : i <= PartitionPoint(kept, end) <=> kept[i].a < end
        BY <1>1, <1>2, PartitionPoints
      <4>3. ASSUME PartitionPoint(kept, end) # 0 PROVE FALSE
        <5>1. 1 \in 1..Len(kept) /\ 1 <= PartitionPoint(kept, end)
          BY <3>3, <4>1, <4>3
        <5>2. kept[1].a < end /\ kept[1].a \in Nat /\ kept[1].a > cursor
          BY <3>4, <4>2, <5>1
        <5> QED BY <1>1, <2>4, <5>2
      <4> QED BY <4>3
    <3>6. free' = Splice(kept, 0, 0, <<e>>)
      <4>1. free' = VecInsert(kept, 0 + 1, e)
        BY <1>4, <1>7, <2>4, <3>5
      <4>2. 0 + 1 \in 1..(Len(kept) + 1) /\ (0 + 1) - 1 = 0 /\ 0 + 1 = 1
        BY <3>3
      <4> HIDE DEF e
      <4>3. VecInsert(kept, 1, e) = Splice(kept, 1 - 1, 1 - 1, <<e>>)
        BY <3>2, <3>3, <4>2, InsertSplice
      <4> QED BY <4>1, <4>2, <4>3
    <3>7. /\ 0 \in 0..Len(kept) /\ e.a > c /\ e.a + e.l <= Top
          /\ \A i \in 1..0 : kept[i].a + kept[i].l < e.a
          /\ \A i \in (0 + 1)..Len(kept) : e.a + e.l < kept[i].a
      BY <1>1, <2>1, <3>1, <3>2, <3>3, <3>4, SMTT(60)
    <3> HIDE DEF e
    <3>8. Ordered(Splice(kept, 0, 0, <<e>>), c, Top)
      BY <2>1, <2>2, <3>2, <3>7, PutOne, Zenon
    <3>9. Cover(Splice(kept, 0, 0, <<e>>)) = (Cover(kept) \ Inner(kept, 0, 0)) \cup Pages(e.a, e.l)
      <4> DEFINE z == 0
      <4>1. /\ z \in 0..Len(kept) /\ z \in z..Len(kept)
            /\ \A i \in 1..z : kept[i].a + kept[i].l < e.a
            /\ \A i \in (z + 1)..Len(kept) : e.a + e.l < kept[i].a
        BY <3>7
      <4> HIDE DEF z
      <4>2. /\ Ordered(Splice(kept, z, z, <<e>>), c, Top)
            /\ Cover(Splice(kept, z, z, <<e>>)) = (Cover(kept) \ Inner(kept, z, z)) \cup Pages(e.a, e.l)
        BY <2>1, <2>2, <3>2, <3>7, <4>1, PutOne, SMTT(60)
      <4> QED BY <4>2, Zenon DEF z
    <3>10. Inner(kept, 0, 0) = {} /\ Pages(e.a, e.l) = end..(cursor - 1)
      BY <1>1, <2>4, <3>1, <3>2 DEF Inner, Pages
    <3>11. ListInv'
      BY <2>1, <3>6, <3>8 DEF ListInv
    <3>12. Cover(free') = (Cover(free) \ Pages(addr, len)) \cup end..(cursor - 1)
      BY <1>3, <3>6, <3>9, <3>10
    <3> QED BY <1>4, <1>5, <1>7, <2>1, <3>11, <3>12 DEF c
  <2> QED BY <2>3, <2>4
<1> QED BY <1>6, <1>7

\* The same for is_free.
LEMMA IsFreeStep ==
    ASSUME ListInv, NEW len \in 1..MaxSize, NEW addr \in 0..Top, ListIsFree(addr, len)
    PROVE  /\ ListInv' /\ cursor' = cursor /\ free' = free
           /\ ret' = IF IsFree([cursor |-> cursor, free |-> Cover(free)], addr, len) THEN 1 ELSE 0
<1>1. /\ Ordered(free, cursor, Top) /\ DOMAIN free = 1..Len(free)
      /\ len \in Nat \ {0} /\ cursor \in Nat /\ addr \in Nat
  BY DEF ListInv, Ordered
<1>2. Pages(addr, len) \subseteq Cover(free)
        <=> \E i \in 1..Len(free) : free[i].a <= addr /\ addr + len <= free[i].a + free[i].l
  BY <1>1, InsideOne, Zenon
<1>3. cursor' = cursor /\ free' = free
  BY DEF ListIsFree
<1>4. ListInv'
  BY <1>3 DEF ListInv
<1>5. ret' = IF \E i \in 1..Len(free) : free[i].a <= addr /\ addr + len <= free[i].a + free[i].l
             THEN 1 ELSE 0
  BY <1>1 DEF ListIsFree
<1> QED BY <1>2, <1>3, <1>4, <1>5 DEF IsFree

\* Dropping the first n entries.
LEMMA Drops ==
    ASSUME NEW lo \in Nat, NEW hi \in Nat, NEW f, Ordered(f, lo, hi), NEW n \in 0..Len(f)
    PROVE  /\ Ordered(SubSeq(f, n + 1, Len(f)), lo, hi)
           /\ Cover(SubSeq(f, n + 1, Len(f))) = Cover(f) \ Inner(f, 0, n)
           /\ \A k \in 1..Len(SubSeq(f, n + 1, Len(f))) :
                 n + k \in 1..Len(f) /\ SubSeq(f, n + 1, Len(f))[k] = f[n + k]
<1> DEFINE g == SubSeq(f, n + 1, Len(f))
           t == <<>>
<1>1. f \in Seq(Entry) /\ Len(f) \in Nat
  BY DEF Ordered
<1>2. g \in Seq(Entry) /\ Len(g) = Len(f) - n /\ \A k \in 1..(Len(f) - n) : g[k] = f[n + k]
  BY <1>1
<1>3. \A k \in 1..(Len(f) - n) : n + k \in 1..Len(f)
  BY <1>1
<1> HIDE DEF g
<1>4. \A i \in 1..Len(g) : n + i \in 1..Len(f) /\ g[i] = f[n + i]
  BY <1>2, <1>3
<1>5. \A i, j \in 1..Len(g) : i < j => n + i < n + j
  BY <1>1, <1>2
<1>6. Ordered(g, lo, hi)
  <2>1. \A i \in 1..Len(g) : g[i].a > lo /\ g[i].a + g[i].l <= hi
    BY <1>4 DEF Ordered
  <2>2. \A i, j \in 1..Len(g) : i < j => g[i].a + g[i].l < g[j].a
    BY <1>4, <1>5, Zenon DEF Ordered
  <2> QED BY <1>2, <2>1, <2>2 DEF Ordered
<1>7. Cover(g) = Around(f, 0, n)
  <2>1. ASSUME NEW x \in Cover(g) PROVE x \in Around(f, 0, n)
    <3>1. PICK k \in 1..Len(g) : g[k].a <= x /\ x < g[k].a + g[k].l
      BY DEF Cover
    <3>2. x \in Nat /\ n + k > n
      BY <1>1, <1>2 DEF Cover
    <3> QED BY <1>4, <3>1, <3>2, Zenon DEF Around
  <2>2. ASSUME NEW x \in Around(f, 0, n) PROVE x \in Cover(g)
    <3>1. PICK j \in 1..Len(f) : (j <= 0 \/ j > n) /\ f[j].a <= x /\ x < f[j].a + f[j].l
      BY DEF Around
    <3> DEFINE k == j - n
    <3>2. x \in Nat /\ k \in 1..Len(g) /\ n + k = j
      BY <1>1, <1>2, <3>1 DEF Around
    <3> HIDE DEF k
    <3> QED BY <1>4, <3>1, <3>2, Zenon DEF Cover
  <2> QED BY <2>1, <2>2, Zenon
<1>8. Around(f, 0, n) = Cover(f) \ Inner(f, 0, n)
  <2>1. 0 \in 0..Len(f)
    BY <1>1
  <2> QED BY <2>1, CoverSplit DEF Inner
<1> QED BY <1>4, <1>6, <1>7, <1>8 DEF g

\* Right on the cursor, at most one entry touches the range.
LEMMA Swallows ==
    ASSUME NEW c \in Nat, NEW hi \in Nat, Ordered(free, c, hi), NEW end \in Nat
    PROVE  Swallowed(end) = IF Len(free) > 0 /\ free[1].a = end THEN 1 ELSE 0
<1> DEFINE P(n) == /\ \A i \in 1..n : free[i].a = Reached(end, i - 1)
                   /\ n < Len(free) => free[n + 1].a # Reached(end, n)
           w == IF Len(free) > 0 /\ free[1].a = end THEN 1 ELSE 0
<1>1. free \in Seq(Entry) /\ Len(free) \in Nat
  BY DEF Ordered
<1>2. \A i \in 1..Len(free) : free[i].a \in Nat /\ free[i].l \in Nat
  BY <1>1, EntryTypes
<1>3. Reached(end, 0) = end /\ Reached(end, 1) = free[1].a + free[1].l
  BY DEF Reached
<1>4. Len(free) > 1 => free[2].a # free[1].a + free[1].l
  <2> SUFFICES ASSUME Len(free) > 1 PROVE free[2].a # free[1].a + free[1].l
    OBVIOUS
  <2>1. 1 \in 1..Len(free) /\ 2 \in 1..Len(free) /\ 1 < 2
    BY <1>1
  <2>2. free[1].a + free[1].l < free[2].a
    BY <2>1 DEF Ordered
  <2>3. free[1].a \in Nat /\ free[1].l \in Nat /\ free[2].a \in Nat
    BY <1>2, <2>1
  <2> QED BY <2>2, <2>3
<1>5. w \in 0..Len(free)
  BY <1>1
<1>6. P(w)
  <2>1. CASE w = 1
    <3>1. free[1].a = Reached(end, 0) /\ 1 - 1 = 0 /\ 1 + 1 = 2 /\ 1..1 = {1}
      BY <1>3, <2>1
    <3>2. \A i \in 1..1 : free[i].a = Reached(end, i - 1)
      BY <3>1
    <3>3. 1 < Len(free) => free[1 + 1].a # Reached(end, 1)
      BY <1>1, <1>3, <1>4, <3>1
    <3> HIDE DEF w
    <3> QED BY <2>1, <3>2, <3>3
  <2>2. CASE w = 0
    <3>1. 1..0 = {} /\ 0 + 1 = 1 /\ ~(Len(free) > 0 /\ free[1].a = end)
      BY <2>2
    <3>2. 0 < Len(free) => free[0 + 1].a # Reached(end, 0)
      BY <1>1, <1>3, <3>1
    <3> HIDE DEF w
    <3> QED BY <2>2, <3>1, <3>2
  <2> QED BY <2>1, <2>2
<1>7. ASSUME NEW n \in 0..Len(free), P(n) PROVE n = w
  <2>1. ASSUME n >= 2 PROVE FALSE
    <3>1. 2 \in 1..n /\ 2 - 1 = 1 /\ Len(free) > 1
      BY <1>1, <2>1
    <3>2. free[2].a = Reached(end, 1)
      BY <1>7, <3>1
    <3> QED BY <1>3, <1>4, <3>1, <3>2
  <2>2. CASE n = 0
    <3>1. 0 < Len(free) => free[1].a # end
      BY <1>3, <1>7, <2>2
    <3> QED BY <1>1, <2>2, <3>1
  <2>3. CASE n = 1
    <3>1. 1 \in 1..n /\ 1 - 1 = 0 /\ Len(free) > 0
      BY <1>1, <2>3
    <3>2. free[1].a = end
      BY <1>3, <1>7, <3>1
    <3> QED BY <2>3, <3>1, <3>2
  <2> QED BY <1>1, <2>1, <2>2, <2>3
<1>8. Swallowed(end) = CHOOSE n \in 0..Len(free) : P(n)
  BY DEF Swallowed
<1> HIDE DEF P, w
<1>9. (CHOOSE n \in 0..Len(free) : P(n)) = w
  BY <1>5, <1>6, <1>7
<1> QED BY <1>8, <1>9 DEF w

\* The first page at or above c that is not free is unique.
LEMMA Absorbs ==
    ASSUME NEW A, NEW c \in Nat, NEW d \in c..Top, d \notin A.free, c..(d - 1) \subseteq A.free
    PROVE  Absorb(A, c) = d
<1>1. ASSUME NEW e \in c..Top, e \notin A.free, c..(e - 1) \subseteq A.free PROVE e = d
  <2>1. CASE e < d
    <3>1. e \in c..(d - 1)
      BY <2>1
    <3> QED BY <1>1, <3>1
  <2>2. CASE d < e
    <3>1. d \in c..(e - 1)
      BY <2>2
    <3> QED BY <1>1, <3>1
  <2> QED BY <2>1, <2>2
<1> QED BY <1>1 DEF Absorb

\* A range freed right on the cursor: the cursor ends above every page it took in.
LEMMA CursorSwallows ==
    ASSUME ListInv, NEW end \in Nat, cursor < end, end <= Top,
           \A j \in 1..Len(free) : ~(cursor < free[j].a + free[j].l /\ free[j].a < end),
           NEW d, d = Reached(end, Swallowed(end)),
           NEW n, n = Swallowed(end)
    PROVE  /\ n \in 0..Len(free) /\ d \in end..Top
           /\ \A j \in 1..Len(free) : j > n => free[j].a > d
           /\ \A j \in 1..n : j = 1 /\ free[j].a = end /\ free[j].a + free[j].l = d
           /\ end..(d - 1) \subseteq Cover(free) /\ d \notin Cover(free)
<1>1. /\ cursor \in Floor..Top /\ Ordered(free, cursor, Top) /\ cursor \in Nat
      /\ free \in Seq(Entry) /\ Len(free) \in Nat
  BY DEF ListInv, Ordered
<1>2. \A i \in 1..Len(free) : free[i].a \in Nat /\ free[i].l \in Nat /\ free[i].l > 0
  BY <1>1, EntryTypes
<1>3. n = IF Len(free) > 0 /\ free[1].a = end THEN 1 ELSE 0
  BY <1>1, Swallows
<1>4. \A j \in 1..Len(free) : free[j].a >= end
  <2>1. ASSUME NEW j \in 1..Len(free) PROVE free[j].a >= end
    <3>1. free[j].a > cursor /\ free[j].a \in Nat /\ free[j].l \in Nat /\ free[j].l > 0
      BY <1>1, <1>2 DEF Ordered
    <3>2. ~(cursor < free[j].a + free[j].l /\ free[j].a < end)
      OBVIOUS
    <3> QED BY <1>1, <3>1, <3>2
  <2> QED BY <2>1
<1>5. \A j \in 1..Len(free) : j > 1 => free[1].a + free[1].l < free[j].a
  <2>1. \A j \in 1..Len(free) : j > 1 => 1 \in 1..Len(free) /\ 1 < j
    BY <1>1
  <2> QED BY <1>1, <2>1 DEF Ordered
<1>6. CASE Len(free) > 0 /\ free[1].a = end
  <2>1. n = 1 /\ d = free[1].a + free[1].l /\ 1 \in 1..Len(free)
    BY <1>1, <1>3, <1>6, SMTT(60) DEF Reached
  <2>2. free[1].a \in Nat /\ free[1].l \in Nat /\ free[1].l > 0 /\ free[1].a + free[1].l <= Top
    BY <1>1, <1>2, <2>1 DEF Ordered
  <2>3. d \in end..Top /\ d \in Nat
    BY <1>6, <2>1, <2>2, ArenaAssumption
  <2>4. \A x \in end..(d - 1) : x \in Nat /\ free[1].a <= x /\ x < free[1].a + free[1].l
    BY <1>6, <2>1, <2>2, <2>3
  <2>5. end..(d - 1) \subseteq Cover(free)
    BY <2>1, <2>4 DEF Cover
  <2>6. d \notin Cover(free)
    BY <1>1, <2>1, Bounded
  <2>7. \A j \in 1..Len(free) : j > n => free[j].a > d
    <3>1. ASSUME NEW j \in 1..Len(free), j > 1 PROVE free[j].a > d
      <4>1. free[1].a + free[1].l < free[j].a /\ free[j].a \in Nat
        BY <1>2, <1>5, <3>1
      <4> QED BY <2>1, <2>3, <4>1
    <3> QED BY <2>1, <3>1
  <2>8. \A j \in 1..n : j = 1
    BY <2>1
  <2>9. n \in 0..Len(free)
    BY <1>1, <2>1
  <2>10. \A j \in 1..n : j = 1 /\ free[j].a = end /\ free[j].a + free[j].l = d
    BY <1>6, <2>1, <2>8
  <2> QED BY <2>3, <2>5, <2>6, <2>7, <2>9, <2>10
<1>7. CASE ~(Len(free) > 0 /\ free[1].a = end)
  <2>1. n = 0 /\ d = end /\ d \in end..Top /\ n \in 0..Len(free)
    BY <1>1, <1>3, <1>7 DEF Reached
  <2>2. ASSUME NEW j \in 1..Len(free) PROVE free[j].a > end
    <3>1. free[j].a >= end /\ free[j].a \in Nat
      BY <1>2, <1>4
    <3>2. CASE j = 1
      BY <1>1, <1>7, <3>1, <3>2
    <3>3. CASE j > 1
      <4>1. 1 \in 1..Len(free)
        BY <1>1
      <4>2. free[1].a >= end /\ free[1].a \in Nat /\ free[1].l \in Nat /\ free[1].l > 0
        BY <1>2, <1>4, <4>1
      <4>3. free[1].a + free[1].l < free[j].a
        BY <1>5, <3>3
      <4> QED BY <3>1, <4>2, <4>3
    <3> QED BY <3>2, <3>3
  <2>3. \A x \in end..(d - 1) : FALSE
    BY <2>1
  <2>4. \A j \in 1..n : FALSE
    BY <2>1
  <2>5. d \notin Cover(free)
    <3>1. \A j \in 1..Len(free) : ~(free[j].a <= end)
      BY <1>2, <2>2
    <3> QED BY <2>1, <3>1 DEF Cover
  <2> QED BY <2>1, <2>2, <2>3, <2>4, <2>5
<1> QED BY <1>6, <1>7

\* free_range keeps the list in order and gives its pages back to the arena.
LEMMA FreeRangeStep ==
    ASSUME ListInv, NEW len \in 1..MaxSize, NEW addr \in 0..Top, ListFreeRange(addr, len)
    PROVE  /\ ListInv' /\ ret' = NoAddr
           /\ FreeRange([cursor |-> cursor, free |-> Cover(free)], addr, len) =
                [cursor |-> cursor', free |-> Cover(free')]
<1> DEFINE A == [cursor |-> cursor, free |-> Cover(free)]
           hit == \E j \in 1..Len(free) : addr < free[j].a + free[j].l /\ free[j].a < addr + len
<1>1. /\ cursor \in Floor..Top /\ Ordered(free, cursor, Top)
      /\ free \in Seq(Entry) /\ DOMAIN free = 1..Len(free) /\ Len(free) \in Nat
      /\ len \in Nat \ {0} /\ cursor \in Nat /\ addr \in Nat /\ Top \in Nat
  BY DEF ListInv, Ordered
<1>2. ret' = NoAddr
  BY DEF ListFreeRange
<1>3. Pages(addr, len) \cap Cover(free) # {} <=> hit
  BY <1>1, Overlap, Zenon
<1>4. CASE addr < cursor \/ addr + len > Top \/ hit
  <2>1. cursor' = cursor /\ free' = free
    BY <1>1, <1>4 DEF ListFreeRange
  <2>2. FreeRange(A, addr, len) = A
    BY <1>3, <1>4 DEF FreeRange
  <2>3. ListInv'
    BY <2>1 DEF ListInv
  <2> QED BY <1>2, <2>1, <2>2, <2>3
<1>5. CASE ~(addr < cursor \/ addr + len > Top \/ hit) /\ addr = cursor
  <2> DEFINE end == addr + len
             n == Swallowed(end)
             d == Reached(end, n)
  <2>1. cursor' = d /\ free' = SubSeq(free, n + 1, Len(free))
    BY <1>1, <1>5, Zenon DEF ListFreeRange
  <2>2. end \in Nat /\ cursor < end /\ end <= Top
    BY <1>1, <1>5
  <2>3. \A j \in 1..Len(free) : ~(cursor < free[j].a + free[j].l /\ free[j].a < end)
    BY <1>5
  <2>4. FreeRange(A, addr, len) =
          [cursor |-> Absorb(A, end), free |-> Cover(free) \ addr..Absorb(A, end)]
    <3>1. ~(len = 0 \/ addr < A.cursor \/ addr + len > Top \/ Pages(addr, len) \cap A.free # {})
      BY <1>1, <1>3, <1>5, Zenon
    <3>2. addr = A.cursor
      BY <1>5
    <3> QED BY <3>1, <3>2 DEF FreeRange
  <2> HIDE DEF end, n, d
  <2>5. n = Swallowed(end) /\ d = Reached(end, Swallowed(end))
    BY DEF n, d
  <2>6. n \in 0..Len(free)
    BY <2>2, <2>3, <2>5, CursorSwallows
  <2>7. d \in end..Top
    BY <2>2, <2>3, <2>5, CursorSwallows
  <2>8. \A j \in 1..Len(free) : j > n => free[j].a > d
    BY <2>2, <2>3, <2>5, CursorSwallows
  <2>9. \A j \in 1..n : j = 1 /\ free[j].a = end /\ free[j].a + free[j].l = d
    BY <2>2, <2>3, <2>5, CursorSwallows
  <2>10. end..(d - 1) \subseteq Cover(free)
    BY <2>2, <2>3, <2>5, CursorSwallows
  <2>11. d \notin Cover(free)
    BY <2>2, <2>3, <2>5, CursorSwallows
  <2>12. Absorb(A, end) = d
    <3>1. A.free = Cover(free)
      OBVIOUS
    <3> HIDE DEF A
    <3> QED BY <2>2, <2>7, <2>10, <2>11, <3>1, Absorbs
  <2>13. d \in Nat /\ d \in Floor..Top /\ addr < end /\ end <= d
    BY <1>1, <2>2, <2>7, <1>5
  <2>14. ListInv'
    <3>1. Ordered(free', cursor, Top)
      BY <1>1, <2>1, <2>6, Drops
    <3>2. \A k \in 1..Len(free') : n + k \in 1..Len(free) /\ free'[k] = free[n + k]
      BY <1>1, <2>1, <2>6, Drops
    <3>3. \A k \in 1..Len(free') : n + k > n
      BY <1>1, <2>6
    <3>4. \A k \in 1..Len(free') : free'[k].a > d
      BY <2>8, <3>2, <3>3
    <3>5. Ordered(free', d, Top)
      BY <1>1, <2>13, <3>1, <3>4, OrderedFrom, Zenon
    <3> QED BY <2>1, <2>13, <3>5 DEF ListInv
  <2>15. Cover(free') = Cover(free) \ addr..d
    <3>1. Cover(free') = Cover(free) \ Inner(free, 0, n)
      BY <1>1, <2>1, <2>6, Drops
    <3>2. ASSUME NEW x \in Inner(free, 0, n) PROVE x \in addr..d
      <4>1. PICK j \in (0 + 1)..n : free[j].a <= x /\ x < free[j].a + free[j].l
        BY DEF Inner
      <4>2. x \in Nat /\ j \in 1..n
        BY <4>1 DEF Inner
      <4>3. end <= x /\ x < d
        BY <2>9, <4>1, <4>2
      <4> QED BY <1>1, <2>2, <2>13, <4>2, <4>3
    <3>3. ASSUME NEW x \in Cover(free), x \in addr..d PROVE x \in Inner(free, 0, n)
      <4>1. PICK j \in 1..Len(free) : free[j].a <= x /\ x < free[j].a + free[j].l
        BY DEF Cover
      <4>2. x \in Nat /\ x <= d
        BY <2>13, <3>3 DEF Cover
      <4>3. free[j].a \in Nat
        BY <1>1, EntryTypes
      <4>4. ~(j > n)
        BY <2>8, <2>13, <4>1, <4>2, <4>3
      <4>5. j \in (0 + 1)..n
        BY <1>1, <2>6, <4>4
      <4> QED BY <4>1, <4>2, <4>5 DEF Inner
    <3> QED BY <3>1, <3>2, <3>3
  <2> QED BY <1>2, <2>1, <2>4, <2>12, <2>14, <2>15, Zenon
<1>6. CASE ~(addr < cursor \/ addr + len > Top \/ hit) /\ addr # cursor
  <2>1. cursor' = cursor /\ free' = Freed(free, addr, len)
    BY <1>1, <1>6, Zenon DEF ListFreeRange, Freed
  <2>2. /\ addr > cursor /\ addr + len <= Top
        /\ \A j \in 1..Len(free) : ~(addr < free[j].a + free[j].l /\ free[j].a < addr + len)
    BY <1>1, <1>6
  <2>3. Ordered(free', cursor, Top)
    BY <1>1, <2>1, <2>2, Coalesces, Zenon
  <2>4. Cover(free') = Cover(free) \cup Pages(addr, len)
    BY <1>1, <2>1, <2>2, Coalesces
  <2>5. FreeRange(A, addr, len) = [cursor |-> cursor, free |-> Cover(free) \cup Pages(addr, len)]
    <3>1. ~(len = 0 \/ addr < A.cursor \/ addr + len > Top \/ Pages(addr, len) \cap A.free # {})
      BY <1>1, <1>3, <1>6
    <3>2. addr # A.cursor
      BY <1>6
    <3>3. FreeRange(A, addr, len) = [A EXCEPT !.free = @ \cup Pages(addr, len)]
      BY <3>1, <3>2 DEF FreeRange
    <3>4. \A K : [A EXCEPT !.free = K] = [cursor |-> cursor, free |-> K]
      OBVIOUS
    <3> QED BY <3>3, <3>4
  <2>6. ListInv'
    BY <1>1, <2>1, <2>3 DEF ListInv
  <2> QED BY <1>2, <2>1, <2>4, <2>5, <2>6
<1> QED BY <1>4, <1>5, <1>6, Zenon

\* Every call keeps the list in order.
LEMMA NextOrdered ==
    ListInv /\ [ListNext]_listVars => ListInv'
<1> SUFFICES ASSUME ListInv, [ListNext]_listVars PROVE ListInv'
  OBVIOUS
<1>1. ASSUME NEW len \in 1..MaxSize, ListAlloc(len) PROVE ListInv'
  BY <1>1, AllocStep
<1>2. ASSUME NEW len \in 1..MaxSize, NEW addr \in 0..Top, ListClaim(addr, len) PROVE ListInv'
  BY <1>2, ClaimStep
<1>3. ASSUME NEW len \in 1..MaxSize, NEW addr \in 0..Top, ListFreeRange(addr, len) PROVE ListInv'
  BY <1>3, FreeRangeStep
<1>4. ASSUME NEW len \in 1..MaxSize, NEW addr \in 0..Top, ListIsFree(addr, len) PROVE ListInv'
  BY <1>4, IsFreeStep
<1>5. ASSUME UNCHANGED listVars PROVE ListInv'
  BY <1>5 DEF listVars, ListInv
<1> QED BY <1>1, <1>2, <1>3, <1>4, <1>5 DEF ListNext

\* The empty list is in order.
LEMMA InitOrdered == ListInit => ListInv
BY DEF ListInit, ListInv, Ordered

\* Arena::free stays sorted, coalesced and inside the window of used
\* addresses, whatever sequence of alloc, claim and free_range calls is made,
\* for arenas and requests of any size.
THEOREM ListStaysWellFormed == ListSpec => []ListWellFormed
<1>1. ListInv => ListWellFormed
  <2> SUFFICES ASSUME ListInv PROVE ListWellFormed
    OBVIOUS
  <2>1. /\ cursor \in Floor..Top /\ Ordered(free, cursor, Top)
        /\ free \in Seq(Entry) /\ DOMAIN free = 1..Len(free) /\ Len(free) \in Nat
    BY DEF ListInv, Ordered
  <2>2. \A i \in 1..Len(free) : free[i].l > 0
    BY <2>1, EntryTypes
  <2>3. \A i \in 1..(Len(free) - 1) : i \in 1..Len(free) /\ i + 1 \in 1..Len(free) /\ i < i + 1
    BY <2>1
  <2>4. \A i \in 1..(Len(free) - 1) : free[i].a + free[i].l < free[i + 1].a
    BY <2>1, <2>3 DEF Ordered
  <2> QED BY <2>1, <2>2, <2>4 DEF ListWellFormed, Ordered
<1> QED BY <1>1, InitOrdered, NextOrdered, PTL DEF ListSpec

\* The operators of the instance are those of module Arena.
LEMMA AbstractAlloc == \A B, len : Abstract!Alloc(B, len) = Alloc(B, len)
BY DEF Abstract!Alloc, Alloc, Abstract!Entries, Entries, Abstract!FirstFit, FirstFit,
       Abstract!Pages, Pages, Abstract!NoAddr, NoAddr

LEMMA AbstractClaim == \A B, addr, len : Abstract!Claim(B, addr, len) = Claim(B, addr, len)
BY DEF Abstract!Claim, Claim, Abstract!Pages, Pages

LEMMA AbstractFreeRange ==
    \A B, addr, len : Abstract!FreeRange(B, addr, len) = FreeRange(B, addr, len)
BY DEF Abstract!FreeRange, FreeRange, Abstract!Pages, Pages, Abstract!Absorb, Absorb

LEMMA AbstractIsFree == \A B, addr, len : Abstract!IsFree(B, addr, len) = IsFree(B, addr, len)
BY DEF Abstract!IsFree, IsFree, Abstract!Pages, Pages

\* The list implements the arena of pages: what alloc, claim, free_range and
\* is_free answer, and which pages they leave free, is what module ArenaSpec
\* says, for arenas and requests of any size.
THEOREM ListImplementsArena == ListSpec => ImplementsArena
<1> DEFINE A == [cursor |-> cursor, free |-> Listed]
           C == [cursor |-> cursor, free |-> Cover(free)]
<1>1. ListInit => Abstract!Init
  <2>1. ListInit => Listed = {}
    BY DEF ListInit, Listed
  <2> QED BY <2>1 DEF ListInit, Abstract!Init, Abstract!NewArena, NewArena, Abstract!NoAddr, NoAddr
<1>2. (ListInv => Listed = Cover(free))'
  BY InvListed, PTL
<1>3. ListInv /\ ListInv' /\ [ListNext]_listVars => [Abstract!Next]_(Abstract!vars)
  <2> SUFFICES ASSUME ListInv, ListInv', [ListNext]_listVars PROVE [Abstract!Next]_(Abstract!vars)
    OBVIOUS
  <2>1. Listed = Cover(free) /\ Listed' = Cover(free')
    BY <1>2, InvListed
  <2>2. ASSUME NEW len \in 1..MaxSize, ListAlloc(len) PROVE Abstract!CallAlloc(len)
    <3>1. Alloc(C, len) = [base |-> ret', arena |-> [cursor |-> cursor', free |-> Cover(free')]]
      BY <2>2, AllocStep
    <3>2. Alloc(A, len) = [base |-> ret', arena |-> A']
      BY <2>1, <3>1
    <3> QED BY <3>2, AbstractAlloc DEF Abstract!CallAlloc
  <2>3. ASSUME NEW len \in 1..MaxSize, NEW addr \in 0..Top, ListClaim(addr, len)
        PROVE  Abstract!CallClaim(addr, len)
    <3>1. Claim(C, addr, len) = [cursor |-> cursor', free |-> Cover(free')] /\ ret' = NoAddr
      BY <2>3, ClaimStep
    <3>2. Claim(A, addr, len) = A'
      BY <2>1, <3>1
    <3> QED BY <3>1, <3>2, AbstractClaim DEF Abstract!CallClaim, Abstract!NoAddr, NoAddr
  <2>4. ASSUME NEW len \in 1..MaxSize, NEW addr \in 0..Top, ListFreeRange(addr, len)
        PROVE  Abstract!CallFreeRange(addr, len)
    <3>1. FreeRange(C, addr, len) = [cursor |-> cursor', free |-> Cover(free')] /\ ret' = NoAddr
      BY <2>4, FreeRangeStep
    <3>2. FreeRange(A, addr, len) = A'
      BY <2>1, <3>1
    <3> QED BY <3>1, <3>2, AbstractFreeRange DEF Abstract!CallFreeRange, Abstract!NoAddr, NoAddr
  <2>5. ASSUME NEW len \in 1..MaxSize, NEW addr \in 0..Top, ListIsFree(addr, len)
        PROVE  Abstract!CallIsFree(addr, len)
    <3>1. cursor' = cursor /\ free' = free /\ ret' = IF IsFree(C, addr, len) THEN 1 ELSE 0
      BY <2>5, IsFreeStep
    <3>2. A' = A /\ IsFree(C, addr, len) = IsFree(A, addr, len)
      BY <2>1, <3>1
    <3> QED BY <3>1, <3>2, AbstractIsFree DEF Abstract!CallIsFree
  <2>6. ASSUME UNCHANGED listVars PROVE UNCHANGED Abstract!vars
    BY <2>6 DEF listVars, Abstract!vars, Listed
  <2> QED BY <2>2, <2>3, <2>4, <2>5, <2>6 DEF ListNext, Abstract!Next
<1> QED BY <1>1, <1>3, InitOrdered, NextOrdered, PTL DEF ListSpec, ImplementsArena, Abstract!Spec
=============================================================================
