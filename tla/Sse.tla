--------------------------------- MODULE Sse ---------------------------------
(***************************************************************************)
(* MMX and SSE to SSE4.2: vcpu/interp_x86/sse.rs and sse/sse4.rs.          *)
(*                                                                         *)
(* A vector is a function from byte positions to bytes: c.v[r] the XMM     *)
(* registers; the MMX registers are the low bytes of the x87 stack.  c.mx  *)
(* is MXCSR as [rc, daz, ftz, mask, fl].  An instruction is                *)
(* [op |-> "sse", x, x2, w, mm, f, f2, lanes, imm, load, al, ...]: x the   *)
(* form, x2 the operation on lanes of w bytes, mm the MMX form, f the      *)
(* floating-point format.  Left out: the tables of RCPPS and RSQRTPS.      *)
(***************************************************************************)
EXTENDS X87

(***************************************************************************)
(* Lanes.                                                                  *)
(***************************************************************************)

Two(v, o) == v[o] + Mod(1) * v[o + 1]
Four(v, o) == Two(v, o) + Mod(2) * Two(v, o + 2)
Lane(v, w, k) ==
    CASE w = 1 -> v[k]
      [] w = 2 -> Two(v, 2 * k)
      [] w = 4 -> Four(v, 4 * k)
      [] w = 8 -> Four(v, 8 * k) + Mod(4) * Four(v, 8 * k + 4)
\* The lanes of L in place of those of v; L alone, zeros elsewhere.
Splice(v, w, L) == [b \in DOMAIN v |-> IF b \div w \in DOMAIN L THEN Byte(L[b \div w], b % w) ELSE v[b]]
Zeros(n) == [b \in 0 .. n - 1 |-> 0]
Vec(n, w, L) == Splice(Zeros(n), w, L)
SetLane(v, w, k, x) == [b \in DOMAIN v |-> IF b \div w = k THEN Byte(x, b % w) ELSE v[b]]
\* The low n bytes of v, zero-extended to a register.
LowBytes(v, n) == [b \in 0 .. 15 |-> IF b < n THEN v[b] ELSE 0]
LaneTop(v, w, k) == v[k * w + w - 1] >= Mod(1) \div 2
RECURSIVE BitsOf(_, _)
BitsOf(P, k) == IF k \notin DOMAIN P THEN 0 ELSE Num(P[k]) + 2 * BitsOf(P, k + 1)

SatS(x, w) ==
    LET top == Mod(w) \div 2 IN IF x >= top THEN top - 1 ELSE IF x < -top THEN -top ELSE x
SatU(x, w) == IF x < 0 THEN 0 ELSE IF x >= Mod(w) THEN Mod(w) - 1 ELSE x
All1(b, w) == IF b THEN Mod(w) - 1 ELSE 0
AbsDiff(x, y) == IF x >= y THEN x - y ELSE y - x
RECURSIVE SadBytes(_, _, _)
SadBytes(x, y, n) ==
    IF n = 0 THEN 0 ELSE AbsDiff(Byte(x, 0), Byte(y, 0)) + SadBytes(x \div Mod(1), y \div Mod(1), n - 1)

\* One lane of the element-wise integer operations: x and y are unsigned,
\* s and t the same signed.
IntLane(op, w, x, y, s, t) ==
    CASE op = "eq"    -> All1(x = y, w)
      [] op = "gt"    -> All1(s > t, w)
      [] op = "add"   -> x + y
      [] op = "sub"   -> x - y
      [] op = "adds"  -> SatS(s + t, w)
      [] op = "subs"  -> SatS(s - t, w)
      [] op = "addus" -> SatU(x + y, w)
      [] op = "subus" -> SatU(x - y, w)
      [] op = "mullo" -> x * y
      [] op = "mulhu" -> (x * y) \div Mod(w)
      [] op = "mulh"  -> (s * t) \div Mod(w)
      [] op = "mulhrs" -> (((s * t) \div 2 ^ (w * B - 2)) + 1) \div 2
      [] op = "minu"  -> IF x < y THEN x ELSE y
      [] op = "maxu"  -> IF x > y THEN x ELSE y
      [] op = "mins"  -> IF s < t THEN x ELSE y
      [] op = "maxs"  -> IF s > t THEN x ELSE y
      [] op = "avg"   -> (x + y + 1) \div 2
      [] op = "and"   -> x & y
      [] op = "andn"  -> (Mod(w) - 1 - x) & y
      [] op = "or"    -> x | y
      [] op = "xor"   -> x ^^ y
      [] op = "abs"   -> IF t < 0 THEN -t ELSE t
      [] op = "sign"  -> IF t < 0 THEN -s ELSE IF t = 0 THEN 0 ELSE x
      [] op = "muludq" -> MaskW(x, w \div 2) * MaskW(y, w \div 2)
      [] op = "muldq" -> SignExtendW(x, w \div 2) * SignExtendW(y, w \div 2)
      [] op = "madd"  ->
           SignExtendW(x, w \div 2) * SignExtendW(y, w \div 2)
               + SignExtendW(x \div Mod(w \div 2), w \div 2) * SignExtendW(y \div Mod(w \div 2), w \div 2)
      [] op = "maddubs" ->
           SatS(MaskW(x, 1) * SignExtendW(y, 1) + (x \div Mod(1)) * SignExtendW(y \div Mod(1), 1), w)
      [] op = "sad"   -> SadBytes(x, y, w)
Lanes(w, n) == 0 .. (n \div w) - 1
LaneOp(op, w, x, y) == IntLane(op, w, x, y, SignExtendW(x, w), SignExtendW(y, w))
Map2(op, a, b, w, n) == Vec(n, w, [k \in Lanes(w, n) |-> LaneOp(op, w, Lane(a, w, k), Lane(b, w, k))])

\* Counts of the lane's width or more clear it, or leave copies of its sign.
ShiftLane(op, w, x, k) ==
    CASE op = "srl" -> IF k >= w * B THEN 0 ELSE x \div 2 ^ k
      [] op = "sll" -> IF k >= w * B THEN 0 ELSE (x % 2 ^ (w * B - k)) * 2 ^ k
      [] op = "sra" -> SignExtendW(x, w) \div 2 ^ (IF k >= w * B THEN w * B - 1 ELSE k)
Shift(op, v, w, n, k) == Vec(n, w, [j \in Lanes(w, n) |-> ShiftLane(op, w, Lane(v, w, j), k)])
ShiftBytes(op, v, n, k) ==
    [b \in 0 .. n - 1 |->
        LET at == IF op = "srldq" THEN b + k ELSE b - k IN IF at \in 0 .. n - 1 THEN v[at] ELSE 0]

Interleave(a, b, w, n, high) ==
    Vec(n, w, [k \in Lanes(w, n) |->
        Lane(IF k % 2 = 0 THEN a ELSE b, w, (k \div 2) + (IF high THEN n \div (2 * w) ELSE 0))])
\* Both operands in lanes of half the width, saturated.
Narrowed(a, b, w, n, signed) ==
    Vec(n, w \div 2, [k \in Lanes(w \div 2, n) |->
        LET x == SignExtendW(Lane(IF k < n \div w THEN a ELSE b, w, k % (n \div w)), w)
        IN  IF signed THEN SatS(x, w \div 2) ELSE SatU(x, w \div 2)])
\* Neighbours of a, then of b.
Horizontal(op, a, b, w, n) ==
    Vec(n, w, [k \in Lanes(w, n) |->
        LET h == n \div (2 * w)
            v == IF k < h THEN a ELSE b
        IN  LaneOp(op, w, Lane(v, w, 2 * (k % h)), Lane(v, w, 2 * (k % h) + 1))])
\* Two bits of the immediate for each of four lanes from first on.
Sel(imm, k) == (imm \div 4 ^ k) % 4
Pshuf(v, w, imm, first) ==
    Splice(v, w, [k \in first .. first + 3 |-> Lane(v, w, first + Sel(imm, k - first))])
Pshufb(a, b, n) == [k \in 0 .. n - 1 |-> IF b[k] >= Mod(1) \div 2 THEN 0 ELSE a[b[k] % n]]
Palignr(a, b, imm, n) ==
    [k \in 0 .. n - 1 |->
        IF imm + k < n THEN b[imm + k] ELSE IF imm + k < 2 * n THEN a[imm + k - n] ELSE 0]
PmovExt(v, from, to, signed) ==
    Vec(16, to, [k \in Lanes(to, 16) |-> IF signed THEN SignExtendW(Lane(v, from, k), from) ELSE Lane(v, from, k)])
Shufp(a, b, w, imm) ==
    Vec(16, w, [k \in Lanes(w, 16) |->
        IF w = 4 THEN Lane(IF k < 2 THEN a ELSE b, 4, Sel(imm, k))
        ELSE Lane(IF k = 0 THEN a ELSE b, 8, (imm \div 2 ^ k) % 2)])
BlendImm(a, b, w, imm) == [k \in 0 .. 15 |-> IF Bit(imm, k \div w) THEN b[k] ELSE a[k]]
Blendv(a, b, m, w) == [k \in 0 .. 15 |-> IF LaneTop(m, w, k \div w) THEN b[k] ELSE a[k]]
\* The least word and the first lane that has it.
Phminposuw(b) ==
    LET at(k) == Lane(b, 2, k)
        low == CHOOSE k \in 0 .. 7 : \A j \in 0 .. 7 : at(k) < at(j) \/ (at(k) = at(j) /\ k <= j)
    IN  Vec(16, 2, [k \in 0 .. 1 |-> IF k = 0 THEN at(low) ELSE low])
Mpsadbw(a, b, imm) ==
    LET x == 4 * Num(Bit(imm, 2))
        y == 4 * (imm % 4)
        d(k, j) == AbsDiff(a[x + k + j], b[y + j])
    IN  Vec(16, 2, [k \in 0 .. 7 |-> d(k, 0) + d(k, 1) + d(k, 2) + d(k, 3)])

\* Everything that maps two vectors of n bytes to one and raises nothing:
\* m is the mask of the variable blends.
Pure(i, a, b, m, n) ==
    CASE i.x = "int"     -> Map2(i.x2, a, b, i.w, n)
      [] i.x = "shift"   -> Shift(i.x2, a, i.w, n, Lane(b, 8, 0))
      [] i.x = "unpack"  -> Interleave(a, b, i.w, n, i.high)
      [] i.x = "pack"    -> Narrowed(a, b, i.w, n, i.signed)
      [] i.x = "horiz"   -> Horizontal(i.x2, a, b, i.w, n)
      [] i.x = "pshuf"   -> Pshuf(b, i.w, i.imm, i.first)
      [] i.x = "pshufb"  -> Pshufb(a, b, n)
      [] i.x = "palignr" -> Palignr(a, b, i.imm, n)
      [] i.x = "pmov"    -> PmovExt(b, i.from, i.w, i.signed)
      [] i.x = "shufp"   -> Shufp(a, b, i.w, i.imm)
      [] i.x = "blend"   -> BlendImm(a, b, i.w, i.imm)
      [] i.x = "blendv"  -> Blendv(a, b, m, i.w)
      [] i.x = "phmin"   -> Phminposuw(b)
      [] i.x = "mpsad"   -> Mpsadbw(a, b, i.imm)
PureForms ==
    {"int", "shift", "unpack", "pack", "horiz", "pshuf", "pshufb", "palignr", "pmov", "shufp",
     "blend", "blendv", "phmin", "mpsad"}

(***************************************************************************)
(* Floating-point lanes: a value and the exceptions it raises.             *)
(***************************************************************************)

Bytes(f) == f.bits \div B
Result(f, r) == [v |-> Pack(f, r.v), f |-> r.flags]
Normal(f, x) == (x \div 2 ^ Frac(f)) % (EMask(f) + 1) \in 1 .. EMask(f) - 1
\* The host's arithmetic: correctly rounded to nearest.
Host(op, f, x, y) == ArithOf(op, x, y, f, "nearest").v
\* Below this a residue may not be exact (2^-960 in the code).
MinExactResidue == Emin(FMT64) + FMT64.prec + 1
SmallResidue(v) == v.class = "zero" \/ LeadExp(v) < MinExactResidue
HostFma(x, y, z) == Rounded(Fma(x, y, z, "nearest"), FMT64, "nearest").v
HostAdd(f, x, y) == Rounded(Add(x, y, "nearest"), f, "nearest").v
HostSub(f, x, y) == HostAdd(f, x, Neg(y))
HostMul(x, y) == Rounded(Mul(x, y, x.sign # y.sign), FMT64, "nearest").v
IsZero(v) == v.class = "zero"
\* Knuth's two-sum: the rounding error of s = x + y.
TwoSum(f, x, y, s, bb) ==
    HostAdd(f, HostSub(f, x, HostSub(f, s, bb)), HostSub(f, y, bb))
SumExact(f, x, y, s) == IsZero(TwoSum(f, x, y, s, HostSub(f, s, x)))
HostExact(op, f, x, y, s) ==
    CASE op \in {"add", "sub"} -> SumExact(f, x, IF op = "sub" THEN Neg(y) ELSE y, s)
      [] op = "mul" -> IF f = FMT64 THEN IsZero(HostFma(x, y, Neg(s))) ELSE Compare(s, HostMul(x, y)) = 0
      [] op = "div" -> IF f = FMT64 THEN IsZero(HostFma(Neg(s), y, x)) ELSE Compare(HostMul(s, y), x) = 0
\* The host computes the value, an exact residue says whether it is inexact.
FastOf(op, f, x, y, s) ==
    IF \/ f = FMT64 /\ ((op = "mul" /\ SmallResidue(s)) \/ (op = "div" /\ SmallResidue(x)))
       \/ s.class # "finite" \/ LeadExp(s) < Emin(f)
    THEN "soft"
    ELSE IF HostExact(op, f, x, y, s) THEN "exact" ELSE "inexact"
HostResult(f, s, fast) == [v |-> Pack(f, s), f |-> IF fast = "exact" THEN {} ELSE {"P"}]
FastResult(op, f, x, y, mx, s, fast) ==
    IF fast = "soft" THEN Result(f, SseArith(op, x, y, f, mx)) ELSE HostResult(f, s, fast)
FastArith(op, f, x, y, mx, ok, s) ==
    FastResult(op, f, x, y, mx, s, IF ok THEN FastOf(op, f, x, y, s) ELSE "soft")
ArithLane(op, f, x, y, mx) ==
    FastArith(op, f, Unpack(f, x), Unpack(f, y), mx, mx.mode = "nearest" /\ Normal(f, x) /\ Normal(f, y),
              Host(op, f, Unpack(f, x), Unpack(f, y)))
SqrtExact(f, x, s) ==
    IF f = FMT64 THEN IsZero(HostFma(s, s, Neg(x))) ELSE Compare(HostMul(s, s), x) = 0
FastSqrt(f, u, s) == HostResult(f, s, IF SqrtExact(f, u, s) THEN "exact" ELSE "inexact")
SqrtLane(f, x, u, mx) ==
    IF mx.mode = "nearest" /\ Normal(f, x) /\ ~u.sign /\ ~(f = FMT64 /\ SmallResidue(u))
    THEN FastSqrt(f, u, Rounded(Sqrt(u), f, "nearest").v)
    ELSE Result(f, SseSqrt(u, f, mx))

\* A NaN, two zeros or equal operands give the second.
Lesser(a, b) == ~(IsZero(a) /\ IsZero(b)) /\ Compare(a, b) = -1
MinmaxOf(op, f, y, a, b) ==
    IF IsNan(a.v) \/ IsNan(b.v)
    THEN [v |-> IF IsNan(b.v) THEN y ELSE Pack(f, b.v), f |-> {"I"} \cup a.flags \cup b.flags]
    ELSE [v |-> Pack(f, IF IF op = "min" THEN Lesser(a.v, b.v) ELSE Lesser(b.v, a.v) THEN a.v ELSE b.v),
          f |-> a.flags \cup b.flags]
InLane(mx, f, x) == Input(mx, Unpack(f, x), f)
MinmaxLane(op, f, x, y, mx) == MinmaxOf(op, f, y, InLane(mx, f, x), InLane(mx, f, y))

\* The sixteen predicates as the orderings they hold for (2 is unordered),
\* and the ones that signal on a quiet NaN while bit 4 is clear.
PredHolds(p) ==
    CASE p = 0 -> {0} [] p = 1 -> {-1} [] p = 2 -> {-1, 0} [] p = 3 -> {2} [] p = 4 -> {-1, 1, 2} [] p = 5 -> {0, 1, 2}
      [] p = 6 -> {1, 2} [] p = 7 -> {-1, 0, 1} [] p = 8 -> {0, 2} [] p = 9 -> {-1, 2} [] p = 10 -> {-1, 0, 2}
      [] p = 11 -> {} [] p = 12 -> {-1, 1} [] p = 13 -> {0, 1} [] p = 14 -> {1} [] p = 15 -> {-1, 0, 1, 2}
Signals(p) == (p % 16 \in {1, 2, 5, 6, 9, 10, 13, 14}) # (p >= 16)
Ordering(a, b) == IF IsNan(a) \/ IsNan(b) THEN 2 ELSE Compare(a, b)
CmpFlags(a, b, loud) ==
    a.flags \cup b.flags
        \cup (IF Ordering(a.v, b.v) = 2 /\ (loud \/ IsSnan(a.v) \/ IsSnan(b.v)) THEN {"I"} ELSE {})
CmpOf(f, a, b, pred) ==
    [v |-> All1(Ordering(a.v, b.v) \in PredHolds(pred % 16), Bytes(f)), f |-> CmpFlags(a, b, Signals(pred))]
CmpLane(f, x, y, mx, pred) == CmpOf(f, InLane(mx, f, x), InLane(mx, f, y), pred)

IntResult(u, r, w) ==
    IF u.class \in {"nan", "inf"} \/ ~r.fits THEN [v |-> Mod(w) \div 2, f |-> {"I"}]
    ELSE [v |-> MaskW(r.v, w), f |-> r.flags]
ToIntOfLane(u, w, mode) == IntResult(u, ToInt(u, w * B, mode), w)
ToIntLane(f, x, w, mx, trunc) == ToIntOfLane(InLane(mx, f, x).v, w, IF trunc THEN "zero" ELSE mx.mode)
FromIntLane(f, n, mx) == Result(f, RoundFp(FromInt(n), f, mx.mode))
QuietLane(f, u) == [v |-> Pack(f, Quieted(u)), f |-> IF IsSnan(u) THEN {"I"} ELSE {}]
CvtOf(to, d, mx) ==
    IF IsNan(d.v) THEN QuietLane(to, d.v)
    ELSE Result(to, Adding(Output(mx, RoundFp(d.v, to, mx.mode)), d.flags))
CvtLane(from, to, x, mx) == CvtOf(to, InLane(mx, from, x), mx)
\* ROUNDPS and its kin: bit 2 takes MXCSR's mode, bit 3 hides the inexact.
ImmMode(imm, mx) == IF Bit(imm, 2) THEN mx.mode ELSE <<"nearest", "down", "up", "zero">>[(imm % 4) + 1]
RoundOf(f, r, imm) == [v |-> Pack(f, RoundFp(r.v, f, "nearest").v), f |-> IF Bit(imm, 3) THEN {} ELSE r.flags]
RoundUnpacked(f, u, imm, mx) ==
    IF IsNan(u) THEN QuietLane(f, u) ELSE RoundOf(f, RoundToInt(u, ImmMode(imm, mx)), imm)
RoundLane(f, x, imm, mx) == RoundUnpacked(f, InLane(mx, f, x).v, imm, mx)

FpLane(i, op, x, y, mx) ==
    CASE op \in {"add", "sub", "mul", "div"} -> ArithLane(op, i.f, x, y, mx)
      [] op = "sqrt"           -> SqrtLane(i.f, y, Unpack(i.f, y), mx)
      [] op \in {"min", "max"} -> MinmaxLane(op, i.f, x, y, mx)
      [] op = "cmp"            -> CmpLane(i.f, x, y, mx, i.imm)
      [] op = "toint"          -> ToIntLane(i.f, y, 4, mx, i.trunc)
      [] op = "fromint"        -> FromIntLane(i.f, SignExtendW(y, 4), mx)
      [] op = "cvt"            -> CvtLane(i.f, i.f2, y, mx)
      [] op = "round"          -> RoundLane(i.f, y, i.imm, mx)
InW(i) == IF i.x2 = "fromint" THEN 4 ELSE Bytes(i.f)
OutW(i) == IF i.x2 = "toint" THEN 4 ELSE IF i.x2 = "cvt" THEN Bytes(i.f2) ELSE Bytes(i.f)
\* HADD and HSUB pair the lanes of a, then of b; ADDSUB subtracts the even.
LaneArg(i, a, b, w, k, h, y) ==
    IF ~i.pairs THEN Lane(IF y = 0 THEN a ELSE b, w, k)
    ELSE Lane(IF k < h THEN a ELSE b, w, 2 * (k % h) + y)
LaneOpOf(i, k) == IF i.x2 = "addsub" THEN IF k % 2 = 0 THEN "sub" ELSE "add" ELSE i.x2
FpLanes(i, a, b, mx, lanes) ==
    [k \in 0 .. lanes - 1 |->
        FpLane(i, LaneOpOf(i, k), LaneArg(i, a, b, InW(i), k, lanes \div 2, 0),
               LaneArg(i, a, b, InW(i), k, lanes \div 2, 1), mx)]
Raised(L) == UNION { L[k].f : k \in DOMAIN L }
Values(L) == [k \in DOMAIN L |-> L[k].v]
\* CVTDQ2PD and CVTPI2PD drop the flags of a conversion that is exact.
LaneFlags(i, L) == IF i.x2 = "fromint" /\ i.f = FMT64 THEN {} ELSE Raised(L)

\* The products the immediate selects, summed in pairs.
Products(f, w, a, b, imm, mx) ==
    [k \in 0 .. (16 \div w) - 1 |-> IF Bit(imm, 4 + k) THEN ArithLane("mul", f, Lane(a, w, k), Lane(b, w, k), mx)
                                    ELSE [v |-> 0, f |-> {}]]
JoinFlags(r, x, y) == [r EXCEPT !.f = @ \cup x.f \cup y.f]
RECURSIVE PairSum(_, _, _, _)
PairSum(f, L, n, mx) ==
    IF n = 1 THEN L[0]
    ELSE PairSum(f, [k \in 0 .. (n \div 2) - 1 |->
                        JoinFlags(ArithLane("add", f, L[2 * k].v, L[2 * k + 1].v, mx), L[2 * k], L[2 * k + 1])],
                 n \div 2, mx)
Dpp(f, a, b, imm, mx) == PairSum(f, Products(f, Bytes(f), a, b, imm, mx), 16 \div Bytes(f), mx)
DppSpread(f, s, imm) ==
    Vec(16, Bytes(f), [k \in Lanes(Bytes(f), 16) |-> IF Bit(imm, k) THEN s ELSE 0])

(***************************************************************************)
(* Registers, memory operands and exceptions.                              *)
(***************************************************************************)

MmGet(c, r) == [b \in 0 .. 7 |-> Byte(c.fp.st[r], b)]
\* The exponent of the x87 register becomes all ones.
MmSet(c, r, v) == [c EXCEPT !.fp.st[r] = (Mod(10) - Mod(8)) + Lane(v, 8, 0)]
MmxEnter(c) == IF FpuPending(c) THEN Trap(c, "x87") ELSE [c EXCEPT !.fp.top = 0, !.fp.tag = 0 .. 7]
Mx(c) == FromMxcsr(c.mx)
\* An unmasked exception stays recorded and traps.
SseFlags(c, F) ==
    LET d == [c EXCEPT !.mx.fl = @ \cup F] IN IF F \subseteq c.mx.mask THEN d ELSE Trap(d, "simd")
SetX(c, r, v) == IF OK(c) THEN [c EXCEPT !.v[r] = v] ELSE c
SetG(c, r, v) == IF OK(c) THEN [c EXCEPT !.g[r] = v] ELSE c

\* A misaligned address is a protection fault before the access is tried.
MemCheck(c, a, n, al) ==
    IF a % al # 0 THEN Trap(c, "gp") ELSE IF Allows(c, a, n, "r") THEN c ELSE RdFault(c, a)
MemVec(c, a, n, size) == [b \in 0 .. size - 1 |-> IF b < n THEN c.m[a + b] ELSE 0]
MemWrite(c, a, v, n, al) == IF a % al # 0 THEN Trap(c, "gp") ELSE StoreBytes(c, a, n, v)
AddrOf(c, i) == OpOf(c, i).r
\* xsrc: a whole vector in memory has to be aligned, unless the form says not.
SrcCheck(c, i, n) ==
    IF ~IsMem(i) THEN c ELSE MemCheck(c, AddrOf(c, i), n, IF i.al /\ n = 16 THEN 16 ELSE 1)
XSrc(c, i, n) == IF IsMem(i) THEN MemVec(c, AddrOf(c, i), n, 16) ELSE c.v[i.rm.r]
MSrc(c, i) == IF IsMem(i) THEN MemVec(c, AddrOf(c, i), 8, 8) ELSE MmGet(c, i.rm.r)

(***************************************************************************)
(* Operations of two vectors.                                              *)
(***************************************************************************)

\* The bytes a form reads: lanes that widen or a scalar read fewer.
SrcLen(i) ==
    CASE i.x = "pmov" -> (16 * i.from) \div i.w
      [] i.x = "fp"   -> i.lanes * InW(i)
      [] OTHER        -> 16
\* The MMX form reads its source before it takes over the x87 stack.
MmxOp(c, i) ==
    LET d == IF IsMem(i) THEN MemCheck(c, AddrOf(c, i), 8, 1) ELSE c
        e == MmxEnter(d)
    IN  IF ~OK(d) THEN d ELSE IF ~OK(e) THEN e
        ELSE MmSet(e, i.rg.r, Pure(i, MmGet(c, i.rg.r), MSrc(c, i), MmGet(c, 0), 8))
XmmOp(c, i) ==
    LET d == SrcCheck(c, i, SrcLen(i))
    IN  IF ~OK(d) THEN d ELSE SetX(c, i.rg.r, Pure(i, c.v[i.rg.r], XSrc(c, i, SrcLen(i)), c.v[0], 16))
\* An unmasked exception leaves the destination.
PutLanes(c, i, L) ==
    SetX(SseFlags(c, LaneFlags(i, L)), i.rg.r,
         Splice(IF i.lanes = 1 THEN c.v[i.rg.r] ELSE Zeros(16), OutW(i), Values(L)))
FpOp(c, i) ==
    LET d == SrcCheck(c, i, SrcLen(i))
    IN  IF OK(d) THEN PutLanes(c, i, FpLanes(i, c.v[i.rg.r], XSrc(c, i, SrcLen(i)), Mx(c), i.lanes)) ELSE d
PutDpp(c, i, s) == SetX(SseFlags(c, s.f), i.rg.r, DppSpread(i.f, s.v, i.imm))
DppOp(c, i) ==
    LET d == SrcCheck(c, i, 16)
    IN  IF OK(d) THEN PutDpp(c, i, Dpp(i.f, c.v[i.rg.r], XSrc(c, i, 16), i.imm, Mx(c))) ELSE d
ShiftImm(c, i) ==
    LET of(v, n) == IF i.x2 \in {"srldq", "slldq"} THEN ShiftBytes(i.x2, v, n, i.imm)
                    ELSE Shift(i.x2, v, i.w, n, i.imm)
        e == MmxEnter(c)
    IN  IF IsMem(i) THEN Trap(c, "illegal")
        ELSE IF ~i.mm THEN SetX(c, i.rm.r, of(c.v[i.rm.r], 16))
        ELSE IF ~OK(e) THEN e ELSE MmSet(e, i.rm.r, of(MmGet(c, i.rm.r), 8))

\* COMIS and UCOMIS.
OrderFlags(o) == [NoFlags EXCEPT !.cf = o \in {-1, 2}, !.pf = o = 2, !.zf = o \in {0, 2}]
Comis(c, i, x, y) ==
    LET d == SseFlags(c, CmpFlags(x, y, i.loud))
    IN  IF OK(d) THEN [d EXCEPT !.f = OrderFlags(Ordering(x.v, y.v))] ELSE d
LowOf(c, i, v) == InLane(Mx(c), i.f, Lane(v, Bytes(i.f), 0))
SseComis(c, i) ==
    LET d == SrcCheck(c, i, Bytes(i.f))
    IN  IF OK(d) THEN Comis(c, i, LowOf(c, i, c.v[i.rg.r]), LowOf(c, i, XSrc(c, i, Bytes(i.f)))) ELSE d
TestFlags(a, b) ==
    [NoFlags EXCEPT !.zf = \A k \in DOMAIN a : a[k] & b[k] = 0,
                    !.cf = \A k \in DOMAIN a : (Mod(1) - 1 - a[k]) & b[k] = 0]
Ptest(c, i) ==
    LET d == SrcCheck(c, i, 16)
    IN  IF OK(d) THEN [c EXCEPT !.f = TestFlags(c.v[i.rg.r], XSrc(c, i, 16))] ELSE d

(***************************************************************************)
(* Moves.                                                                  *)
(***************************************************************************)

\* MOVAPS, MOVUPS, MOVDQA, MOVDQU, MOVNT, MOVNTDQA and LDDQU: memonly are
\* the ones without a register form.
Mov128(c, i) ==
    LET al == IF i.al THEN 16 ELSE 1
        d == MemCheck(c, AddrOf(c, i), 16, al)
    IN  IF ~IsMem(i)
        THEN IF i.memonly THEN Trap(c, "illegal")
             ELSE IF i.load THEN SetX(c, i.rg.r, c.v[i.rm.r]) ELSE SetX(c, i.rm.r, c.v[i.rg.r])
        ELSE IF ~i.load THEN MemWrite(c, AddrOf(c, i), c.v[i.rg.r], 16, al)
        ELSE IF OK(d) THEN SetX(c, i.rg.r, MemVec(c, AddrOf(c, i), 16, 16)) ELSE d
\* MOVSS and MOVSD: between registers the rest stays, a load clears it.
SseMov10(c, i) ==
    LET dst == IF i.load THEN i.rg.r ELSE i.rm.r
        src == IF i.load THEN i.rm.r ELSE i.rg.r
        d == MemCheck(c, AddrOf(c, i), i.w, 1)
    IN  IF ~IsMem(i) THEN SetX(c, dst, [b \in 0 .. 15 |-> IF b < i.w THEN c.v[src][b] ELSE c.v[dst][b]])
        ELSE IF ~i.load THEN MemWrite(c, AddrOf(c, i), c.v[i.rg.r], i.w, 1)
        ELSE IF OK(d) THEN SetX(c, i.rg.r, MemVec(c, AddrOf(c, i), i.w, 16)) ELSE d
\* MOVLPS, MOVHPS, MOVHLPS and MOVLHPS.
SseMovHalf(c, i) ==
    LET x == c.v[i.rg.r]
        half(v, hi) == Lane(v, 8, Num(hi))
        d == MemCheck(c, AddrOf(c, i), 8, 1)
    IN  IF ~IsMem(i) THEN IF ~i.load THEN Trap(c, "illegal")
                          ELSE SetX(c, i.rg.r, SetLane(x, 8, Num(i.high), half(c.v[i.rm.r], ~i.high)))
        ELSE IF ~i.load THEN MemWrite(c, AddrOf(c, i), Vec(8, 8, [k \in {0} |-> half(x, i.high)]), 8, 1)
        ELSE IF OK(d) THEN SetX(c, i.rg.r, SetLane(x, 8, Num(i.high), Val(c, AddrOf(c, i), 8))) ELSE d
\* MOVSLDUP, MOVSHDUP and MOVDDUP.
MovDup(v, w, high) ==
    Vec(16, w, [k \in Lanes(w, 16) |-> Lane(v, w, IF w = 8 THEN 0 ELSE (k - (k % 2)) + Num(high))])
SseMovDup(c, i) ==
    LET n == IF i.w = 8 THEN 8 ELSE 16
        d == SrcCheck(c, i, n)
    IN  IF OK(d) THEN SetX(c, i.rg.r, MovDup(XSrc(c, i, n), i.w, i.high)) ELSE d

\* MOVD and MOVQ from and to a general register or memory.  The MMX store
\* takes over the stack before it is known to succeed.
MovFromG(c, i) ==
    LET o == OpOf(c, i)
        e == MmxEnter(c)
        v(n) == Vec(n, 8, [k \in {0} |-> ReadOperand(c, o, i.w)])
    IN  IF ~Readable(c, o, i.w) THEN RdFault(c, o.r)
        ELSE IF ~i.mm THEN SetX(c, i.rg.r, v(16))
        ELSE IF OK(e) THEN MmSet(e, i.rg.r, v(8)) ELSE e
MovToG(c, i) ==
    LET e == MmxEnter(c)
    IN  IF ~i.mm THEN WriteOperand(c, OpOf(c, i), Lane(c.v[i.rg.r], 8, 0), i.w)
        ELSE IF OK(e) THEN WriteOperand(e, OpOf(c, i), Lane(MmGet(c, i.rg.r), 8, 0), i.w) ELSE e
\* MOVQ between XMM registers and memory, upper half cleared.
MovqXmm(c, i) ==
    LET d == SrcCheck(c, i, 8)
    IN  IF i.load THEN IF OK(d) THEN SetX(c, i.rg.r, LowBytes(XSrc(c, i, 8), 8)) ELSE d
        ELSE IF IsMem(i) THEN MemWrite(c, AddrOf(c, i), c.v[i.rg.r], 8, 1)
        ELSE SetX(c, i.rm.r, LowBytes(c.v[i.rg.r], 8))
\* MOVQ and MOVNTQ of an MMX register.
MovqMmx(c, i) ==
    LET d == IF IsMem(i) THEN MemCheck(c, AddrOf(c, i), 8, 1) ELSE c
        e == MmxEnter(c)
    IN  IF i.memonly /\ ~IsMem(i) THEN Trap(c, "illegal")
        ELSE IF i.load /\ ~OK(d) THEN d ELSE IF ~OK(e) THEN e
        ELSE IF i.load THEN MmSet(e, i.rg.r, MSrc(c, i))
        ELSE IF IsMem(i) THEN MemWrite(e, AddrOf(c, i), MmGet(c, i.rg.r), 8, 1)
        ELSE MmSet(e, i.rm.r, MmGet(c, i.rg.r))
\* MOVQ2DQ (load) and MOVDQ2Q.
MovqCross(c, i) ==
    LET e == MmxEnter(c)
    IN  IF IsMem(i) THEN Trap(c, "illegal") ELSE IF ~OK(e) THEN e
        ELSE IF i.load THEN SetX(e, i.rg.r, Vec(16, 1, MmGet(c, i.rm.r)))
        ELSE MmSet(e, i.rg.r, c.v[i.rm.r])
Emms(c) == IF FpuPending(c) THEN Trap(c, "x87") ELSE [c EXCEPT !.fp.tag = {}]

\* MOVMSKPS, MOVMSKPD and PMOVMSKB: the top bits of the lanes.
Movmsk(v, w, n) == BitsOf([k \in Lanes(w, n) |-> LaneTop(v, w, k)], 0)
SseMovmsk(c, i) ==
    LET e == IF i.mm THEN MmxEnter(c) ELSE c
    IN  IF IsMem(i) THEN Trap(c, "illegal")
        ELSE SetG(e, i.rg.r, IF i.mm THEN Movmsk(MmGet(c, i.rm.r), i.w, 8) ELSE Movmsk(c.v[i.rm.r], i.w, 16))
\* MASKMOVDQU and MASKMOVQ store the bytes selected one at a time.
RECURSIVE MaskStore(_, _, _, _, _)
MaskStore(c, a, v, m, k) ==
    IF ~OK(c) \/ k \notin DOMAIN v THEN c
    ELSE IF LaneTop(m, 1, k) THEN MaskStore(Store(c, MaskW(a + k, 8), 1, v[k]), a, v, m, k + 1)
    ELSE MaskStore(c, a, v, m, k + 1)
Maskmov(c, i) ==
    LET e == IF i.mm THEN MmxEnter(c) ELSE c
        a == Lin(i, Sreg(c, i, RDI))
        v(r) == IF i.mm THEN MmGet(c, r) ELSE c.v[r]
    IN  IF IsMem(i) THEN Trap(c, "illegal") ELSE MaskStore(e, a, v(i.rg.r), v(i.rm.r), 0)

\* PINSRB/W/D/Q and PEXTRB/W/D/Q.
Pinsr(c, i) ==
    LET o == OpOf(c, i)
        e == MmxEnter(c)
        put(v, n) == SetLane(v, i.w, i.imm % (n \div i.w), ReadOperand(c, o, i.w))
    IN  IF ~Readable(c, o, i.w) THEN RdFault(c, o.r)
        ELSE IF ~i.mm THEN SetX(c, i.rg.r, put(c.v[i.rg.r], 16))
        ELSE IF OK(e) THEN MmSet(e, i.rg.r, put(MmGet(c, i.rg.r), 8)) ELSE e
\* The old word form (to) has no memory operand.
Pextr(c, i) ==
    LET e == IF i.mm THEN MmxEnter(c) ELSE c
        src == IF i.to THEN i.rm.r ELSE i.rg.r
        v == IF i.mm THEN Lane(MmGet(c, src), i.w, i.imm % (8 \div i.w))
             ELSE Lane(c.v[src], i.w, i.imm % (16 \div i.w))
    IN  IF IsMem(i) THEN IF i.to THEN Trap(c, "illegal") ELSE WriteMem(c, AddrOf(c, i), v, i.w)
        ELSE SetG(e, IF i.to THEN i.rg.r ELSE i.rm.r, v)
InsertLane(v, x, imm) ==
    [b \in 0 .. 15 |-> IF Bit(imm, b \div 4) THEN 0
                       ELSE IF b \div 4 = (imm \div 16) % 4 THEN Byte(x, b % 4) ELSE v[b]]
Insertps(c, i) ==
    LET x == IF IsMem(i) THEN Val(c, AddrOf(c, i), 4) ELSE Lane(c.v[i.rm.r], 4, i.imm \div 64)
    IN  IF IsMem(i) /\ ~Allows(c, AddrOf(c, i), 4, "r") THEN RdFault(c, AddrOf(c, i))
        ELSE SetX(c, i.rg.r, InsertLane(c.v[i.rg.r], x, i.imm))

(***************************************************************************)
(* Conversions to and from integers outside the XMM registers.             *)
(***************************************************************************)

\* CVTSI2SS and CVTSI2SD.
PutLow(c, i, r) == SetX(SseFlags(c, r.f), i.rg.r, SetLane(c.v[i.rg.r], Bytes(i.f), 0, r.v))
CvtFromG(c, i) ==
    LET o == OpOf(c, i)
    IN  IF ~Readable(c, o, i.w) THEN RdFault(c, o.r)
        ELSE PutLow(c, i, FromIntLane(i.f, SignExtendW(ReadOperand(c, o, i.w), i.w), Mx(c)))
\* CVTSS2SI, CVTSD2SI and the truncating forms.
PutG(e, i, v) == IF OK(e) THEN SetReg(e, i.rg.r, v, i.w) ELSE e
PutInt(c, i, r) == PutG(SseFlags(c, r.f), i, r.v)
CvtToG(c, i) ==
    LET d == SrcCheck(c, i, Bytes(i.f))
    IN  IF ~OK(d) THEN d
        ELSE PutInt(c, i, ToIntLane(i.f, Lane(XSrc(c, i, Bytes(i.f)), Bytes(i.f), 0), i.w, Mx(c), i.trunc))
\* CVTPI2PS and CVTPI2PD enter MMX mode only for a register source.
PutTwo(c, e, i, L) == SetX(SseFlags(e, LaneFlags(i, L)), i.rg.r, Splice(c.v[i.rg.r], Bytes(i.f), Values(L)))
CvtFromMm(c, i) ==
    LET d == IF IsMem(i) THEN MemCheck(c, AddrOf(c, i), 8, 1) ELSE c
        e == IF IsMem(i) THEN c ELSE MmxEnter(c)
    IN  IF ~OK(d) THEN d ELSE IF ~OK(e) THEN e
        ELSE PutTwo(c, e, i, [k \in 0 .. 1 |-> FromIntLane(i.f, SignExtendW(Lane(MSrc(c, i), 4, k), 4), Mx(c))])
\* CVTPS2PI and CVTPD2PI report the conversion before they touch the stack.
EnterAfter(e) == IF OK(e) THEN MmxEnter(e) ELSE e
PutMm(e, i, L) == IF OK(e) THEN MmSet(e, i.rg.r, Vec(8, 4, Values(L))) ELSE e
ConvMm(c, i, L) == PutMm(EnterAfter(SseFlags(c, Raised(L))), i, L)
CvtToMm(c, i) ==
    LET n == 2 * Bytes(i.f)
        d == SrcCheck(c, i, n)
    IN  IF ~OK(d) THEN d
        ELSE ConvMm(c, i, [k \in 0 .. 1 |-> ToIntLane(i.f, Lane(XSrc(c, i, n), Bytes(i.f), k), 4, Mx(c), i.trunc)])

(***************************************************************************)
(* The string comparisons and CRC32.                                       *)
(***************************************************************************)

StrLanes(imm) == IF Bit(imm, 0) THEN 8 ELSE 16
StrGet(v, imm, k) ==
    LET w == 16 \div StrLanes(imm) IN IF Bit(imm, 1) THEN SignExtendW(Lane(v, w, k), w) ELSE Lane(v, w, k)
ImplicitLen(v, imm) ==
    Least({ k \in 0 .. StrLanes(imm) - 1 : StrGet(v, imm, k) = 0 } \cup {StrLanes(imm)})
ExplicitLen(c, i, r) ==
    LET s == SignExtendW(c.g[r], i.w)
        m == IF s < 0 THEN -s ELSE s
    IN  IF m > StrLanes(i.imm) THEN StrLanes(i.imm) ELSE m
\* The four aggregations: any, ranges, each, ordered.
StrHit(a, b, la, lb, imm, j) ==
    LET n == StrLanes(imm)
        x(k) == StrGet(a, imm, k)
        y(k) == StrGet(b, imm, k)
        mode == (imm \div 4) % 4
    IN  CASE mode = 0 -> j < lb /\ \E k \in 0 .. la - 1 : x(k) = y(j)
          [] mode = 1 -> j < lb /\ \E k \in 0 .. (n \div 2) - 1 :
                                      2 * k + 1 < la /\ x(2 * k) <= y(j) /\ y(j) <= x(2 * k + 1)
          [] mode = 2 -> IF j < la /\ j < lb THEN x(j) = y(j) ELSE j >= la /\ j >= lb
          [] mode = 3 -> \A k \in 0 .. n - j - 1 : k < la => (j + k < lb /\ x(k) = y(j + k))
\* Bits 4 and 5 negate the result, all of it or where the second is valid.
StrResult(a, b, la, lb, imm) ==
    [j \in 0 .. StrLanes(imm) - 1 |->
        LET hit == StrHit(a, b, la, lb, imm, j)
            pol == (imm \div 16) % 4
        IN  IF pol = 1 \/ (pol = 3 /\ j < lb) THEN ~hit ELSE hit]
StrFlags(P, la, lb) ==
    LET n == Cardinality(DOMAIN P)
    IN  [NoFlags EXCEPT !.cf = \E j \in DOMAIN P : P[j], !.zf = lb < n, !.sf = la < n, !.of = P[0]]
\* An index in RCX, or a mask of bits or of lanes in XMM0.
StrAnswer(c, i, P, la, lb) ==
    LET n == StrLanes(i.imm)
        hits == { j \in DOMAIN P : P[j] }
        idx == IF hits = {} THEN n ELSE IF Bit(i.imm, 6) THEN Greatest(hits) ELSE Least(hits)
        w == 16 \div n
        d == [c EXCEPT !.f = StrFlags(P, la, lb)]
    IN  IF i.index THEN [d EXCEPT !.g[RCX] = idx]
        ELSE IF Bit(i.imm, 6) THEN SetX(d, 0, Vec(16, w, [k \in DOMAIN P |-> All1(P[k], w)]))
        ELSE SetX(d, 0, Vec(16, 8, [k \in {0} |-> BitsOf(P, 0)]))
PcmpstrRun(c, i, a, b, la, lb) == StrAnswer(c, i, StrResult(a, b, la, lb, i.imm), la, lb)
PcmpstrOf(c, i, a, b) ==
    IF i.explicit THEN PcmpstrRun(c, i, a, b, ExplicitLen(c, i, RAX), ExplicitLen(c, i, RDX))
    ELSE PcmpstrRun(c, i, a, b, ImplicitLen(a, i.imm), ImplicitLen(b, i.imm))
Pcmpstr(c, i) ==
    LET d == SrcCheck(c, i, 16) IN IF OK(d) THEN PcmpstrOf(c, i, c.v[i.rg.r], XSrc(c, i, 16)) ELSE d

\* The top bits of the reflected polynomial 0x82f63b78; CRC32C's
\* table entry for a byte is B steps of it.
Poly == 33526 \div 2 ^ (16 - 4 * B)
RECURSIVE CrcSteps(_, _)
CrcSteps(x, n) ==
    IF n = 0 THEN x ELSE CrcSteps(IF x % 2 = 1 THEN (x \div 2) ^^ Poly ELSE x \div 2, n - 1)
RECURSIVE CrcBytes(_, _, _)
CrcBytes(crc, v, w) ==
    IF w = 0 THEN crc
    ELSE CrcBytes((crc \div Mod(1)) ^^ CrcSteps(MaskW(crc, 1) ^^ MaskW(v, 1), B), v \div Mod(1), w - 1)
Crc32(c, i) ==
    LET o == OpOf(c, i)
    IN  IF ~Readable(c, o, i.w) THEN RdFault(c, o.r)
        ELSE SetG(c, i.rg.r, CrcBytes(MaskW(c.g[i.rg.r], 4), ReadOperand(c, o, i.w), i.w))

(***************************************************************************)
(* exec_simd, exec_0f38 and exec_0f3a.                                     *)
(***************************************************************************)

SseMove(c, i) ==
    CASE i.x = "mov128"  -> Mov128(c, i)
      [] i.x = "mov10"   -> SseMov10(c, i)
      [] i.x = "movhalf" -> SseMovHalf(c, i)
      [] i.x = "movdup"  -> SseMovDup(c, i)
      [] i.x = "movfrom" -> MovFromG(c, i)
      [] i.x = "movto"   -> MovToG(c, i)
      [] i.x = "movq"    -> IF i.mm THEN MovqMmx(c, i) ELSE MovqXmm(c, i)
      [] i.x = "cross"   -> MovqCross(c, i)
      [] i.x = "emms"    -> Emms(c)
      [] i.x = "movmsk"  -> SseMovmsk(c, i)
      [] i.x = "maskmov" -> Maskmov(c, i)
      [] i.x = "pinsr"   -> Pinsr(c, i)
      [] i.x = "pextr"   -> Pextr(c, i)
      [] i.x = "insertps" -> Insertps(c, i)
SseMoves ==
    {"mov128", "mov10", "movhalf", "movdup", "movfrom", "movto", "movq", "cross", "emms", "movmsk",
     "maskmov", "pinsr", "pextr", "insertps"}
SseOther(c, i) ==
    CASE i.x = "fp"      -> FpOp(c, i)
      [] i.x = "dpp"     -> DppOp(c, i)
      [] i.x = "shiftimm" -> ShiftImm(c, i)
      [] i.x = "comis"   -> SseComis(c, i)
      [] i.x = "ptest"   -> Ptest(c, i)
      [] i.x = "fromg"   -> CvtFromG(c, i)
      [] i.x = "tog"     -> CvtToG(c, i)
      [] i.x = "frommm"  -> CvtFromMm(c, i)
      [] i.x = "tomm"    -> CvtToMm(c, i)
      [] i.x = "pcmpstr" -> Pcmpstr(c, i)
      [] i.x = "crc32"   -> Crc32(c, i)
ExecSse(c, i) ==
    NextInsn(IF i.x \in PureForms THEN IF i.mm THEN MmxOp(c, i) ELSE XmmOp(c, i)
             ELSE IF i.x \in SseMoves THEN SseMove(c, i) ELSE SseOther(c, i), i)

------------------------------------------------------------------------------
(***************************************************************************)
(* The VEX-encoded instructions: AVX, AVX2, FMA, F16C, BMI1 and BMI2 of    *)
(* vcpu/interp_x86/sse/avx.rs.                                             *)
(*                                                                         *)
(* A YMM register is the pair of c.v[r] and c.hi[r]; Y is <<low, high>>.   *)
(* An instruction is [op |-> "vex", x, ...] with the fields of Sse, vv the *)
(* extra register and l the 256-bit form; a result of 128 bits clears the  *)
(* upper half.  Left out: the prefix bytes, and which forms W allows.      *)
(***************************************************************************)

CONSTANT FMT16

Yget(c, r) == <<c.v[r], c.hi[r]>>
Yset(c, r, y, l) ==
    IF OK(c) THEN [c EXCEPT !.v[r] = y[1], !.hi[r] = IF l THEN y[2] ELSE Zeros(16)] ELSE c
Size(i) == IF i.l THEN 32 ELSE 16
Clip(n) == IF n > 16 THEN 16 ELSE n
MemY(c, a, n) == <<MemVec(c, a, Clip(n), 16), MemVec(c, a + 16, n - 16, 16)>>
\* Memory operands need no alignment but in the moves that ask for it.
YCheck(c, i, n) == IF IsMem(i) THEN MemCheck(c, AddrOf(c, i), n, 1) ELSE c
Ysrc(c, i, n) == IF IsMem(i) THEN MemY(c, AddrOf(c, i), n) ELSE Yget(c, i.rm.r)
Flat(y) == [b \in 0 .. 31 |-> IF b < 16 THEN y[1][b] ELSE y[2][b - 16]]
Ylane(y, w, k) == Lane(y[(k * w) \div 16 + 1], w, k % (16 \div w))
Ypack(w, L) ==
    LET at(k) == Byte(L[k \div w], k % w)
        half(o) == [b \in 0 .. 15 |-> IF (b + o) \div w \in DOMAIN L THEN at(b + o) ELSE 0]
    IN  <<half(0), half(16)>>
Low(v) == <<v, Zeros(16)>>
YWrite(c, a, y, n, al) == MemWrite(c, a, Flat(y), n, al)
VStore(c, i, y, n, al, l) == IF IsMem(i) THEN YWrite(c, AddrOf(c, i), y, n, al) ELSE Yset(c, i.rm.r, y, l)

(***************************************************************************)
(* One operation on each half.                                             *)
(***************************************************************************)

\* vvvv has to be absent where there is one source.
OneSource(i) == i.x \in {"pshuf", "pmov", "phmin", "permilimm"} \/ (i.x = "int" /\ i.x2 = "abs")
PermilVar(a, b, w) ==
    Vec(16, w, [k \in Lanes(w, 16) |->
        Lane(a, w, IF w = 8 THEN (Lane(b, 8, k) \div 2) % 2 ELSE Lane(b, 4, k) % 4)])
PermilImm(b, w, imm) ==
    Vec(16, w, [k \in Lanes(w, 16) |-> Lane(b, w, IF w = 8 THEN (imm \div 2 ^ k) % 2 ELSE Sel(imm, k))])
ShiftVar(op, a, b, w) == Vec(16, w, [k \in Lanes(w, 16) |-> ShiftLane(op, w, Lane(a, w, k), Lane(b, w, k))])
\* The immediate the high half uses.
HalfImm(i, h) ==
    LET by == CASE i.x \in {"shufp", "permilimm"} /\ i.w = 8 -> 2
                [] i.x = "blend" /\ i.w = 4 -> 4
                [] i.x = "blend" /\ i.w = 8 -> 2
                [] i.x = "mpsad" -> 3
                [] OTHER -> 0
    IN  IF h = 1 THEN i.imm ELSE i.imm \div 2 ^ by
VHalf(j, a, b, m) ==
    CASE j.x = "permil"    -> PermilVar(a, b, j.w)
      [] j.x = "permilimm" -> PermilImm(b, j.w, j.imm)
      [] j.x = "shiftvar"  -> ShiftVar(j.x2, a, b, j.w)
      [] OTHER             -> Pure(j, a, b, m, 16)
HalfSrc(i, b, h) ==
    IF i.x = "shift" THEN b[1]
    ELSE IF i.x = "pmov" /\ h = 2 THEN ShiftBytes("srldq", b[1], 16, (16 * i.from) \div i.w)
    ELSE b[h]
VSrcLen(i) ==
    CASE i.x = "pmov"  -> (Size(i) * i.from) \div i.w
      [] i.x = "shift" -> 16
      [] OTHER         -> Size(i)
\* v_nds, v_un and the forms written out like them.
VPure(c, i) ==
    LET d == YCheck(c, i, VSrcLen(i))
        b == Ysrc(c, i, VSrcLen(i))
        a == Yget(c, i.vv)
        m == Yget(c, i.imm \div 16)
        y == [h \in 1 .. 2 |-> VHalf([i EXCEPT !.imm = HalfImm(i, h)], a[h], HalfSrc(i, b, h), m[h])]
    IN  IF (OneSource(i) /\ i.vv # 0) \/ (i.x = "phmin" /\ i.l) THEN Trap(c, "illegal")
        ELSE IF OK(d) THEN Yset(c, i.rg.r, y, i.l) ELSE d
VPureForms == PureForms \cup {"permil", "permilimm", "shiftvar"}

\* v_fp: the flags of both halves before either is written; a scalar takes
\* the rest of its low half from vvvv.
Alone(i) == i.lanes > 1 /\ i.x2 \in {"sqrt", "round", "toint", "fromint"}
PutHalf(i, v, L) == Splice(IF i.lanes = 1 THEN v ELSE Zeros(16), OutW(i), Values(L))
\* Y: the lanes of each half.
PutY(c, i, a, Y) ==
    Yset(SseFlags(c, UNION { LaneFlags(i, Y[h]) : h \in DOMAIN Y }), i.rg.r,
         <<PutHalf(i, a[1], Y[1]), IF DOMAIN Y = 1 .. 2 THEN PutHalf(i, a[2], Y[2]) ELSE a[2]>>, DOMAIN Y = 1 .. 2)
VFp(c, i) ==
    LET n == IF i.lanes = 1 THEN InW(i) ELSE Size(i)
        d == YCheck(c, i, n)
        a == Yget(c, i.vv)
    IN  IF Alone(i) /\ i.vv # 0 THEN Trap(c, "illegal") ELSE IF ~OK(d) THEN d
        ELSE PutY(c, i, a, [h \in 1 .. (IF i.l /\ i.lanes > 1 THEN 2 ELSE 1) |->
                               FpLanes(i, a[h], Ysrc(c, i, n)[h], Mx(c), i.lanes)])
\* VCVTPS2PD and VCVTDQ2PD; VCVTPD2PS and VCVTPD2DQ.
PutAll(c, r, w, l, L) == Yset(SseFlags(c, Raised(L)), r, Ypack(w, Values(L)), l)
VCvt(c, i) ==
    LET n == IF i.l THEN 4 ELSE 2
        d == YCheck(c, i, n * InW(i))
    IN  IF i.vv # 0 THEN Trap(c, "illegal") ELSE IF ~OK(d) THEN d
        ELSE PutAll(c, i.rg.r, OutW(i), i.l /\ OutW(i) = 8,
                    [k \in 0 .. n - 1 |-> FpLane(i, i.x2, 0, Ylane(Ysrc(c, i, n * InW(i)), InW(i), k), Mx(c))])
PutSums(c, i, Y) ==
    Yset(SseFlags(c, UNION { Y[h].f : h \in DOMAIN Y }), i.rg.r,
         <<DppSpread(i.f, Y[1].v, i.imm), IF i.l THEN DppSpread(i.f, Y[2].v, i.imm) ELSE Zeros(16)>>, i.l)
VDpp(c, i) ==
    LET d == YCheck(c, i, Size(i))
    IN  IF i.l /\ i.f = FMT64 THEN Trap(c, "illegal") ELSE IF ~OK(d) THEN d
        ELSE PutSums(c, i, [h \in 1 .. (IF i.l THEN 2 ELSE 1) |->
                               Dpp(i.f, Yget(c, i.vv)[h], Ysrc(c, i, Size(i))[h], i.imm, Mx(c))])

(***************************************************************************)
(* Fused multiply-add, halves.                                             *)
(***************************************************************************)

\* The operands of the 132, 213 and 231 orders as factor, factor, addend.
FmaOrder(form, x1, x2, x3) ==
    CASE form = 132 -> <<x1, x3, x2>> [] form = 213 -> <<x2, x1, x3>> [] form = 231 -> <<x2, x3, x1>>
FmaNan(f, u) ==
    LET first == CHOOSE k \in 1 .. 3 : IsNan(u[k]) /\ \A j \in 1 .. k - 1 : ~IsNan(u[j])
    IN  [v |-> Pack(f, Quieted(u[first])), f |-> IF \E k \in 1 .. 3 : IsSnan(u[k]) THEN {"I"} ELSE {}]
FmaInputs(f, x, negProd, negAdd, mx) ==
    Result(f, Adding(Output(mx, Rounded(Fma(IF negProd THEN Neg(x[1].v) ELSE x[1].v, x[2].v,
                                            IF negAdd THEN Neg(x[3].v) ELSE x[3].v, mx.mode), f, mx.mode)),
                     x[1].flags \cup x[2].flags \cup x[3].flags))
FmaLane(f, u, negProd, negAdd, mx) ==
    IF \E k \in 1 .. 3 : IsNan(u[k]) THEN FmaNan(f, u)
    ELSE FmaInputs(f, [k \in 1 .. 3 |-> Input(mx, u[k], f)], negProd, negAdd, mx)
\* FMADDSUB subtracts in the even lanes, FMSUBADD in the odd.
NegAdd(i, k) == CASE i.x2 = "addsub" -> k % 2 = 0 [] i.x2 = "subadd" -> k % 2 = 1 [] OTHER -> i.negadd
FmaArgs(c, i, w, x3, k) ==
    LET of(y) == Unpack(i.f, Ylane(y, w, k)) IN FmaOrder(i.form, of(Yget(c, i.rg.r)), of(Yget(c, i.vv)), of(x3))
PutFma(c, i, w, L) ==
    Yset(SseFlags(c, Raised(L)), i.rg.r,
         IF i.lanes = 1 THEN Low(Splice(c.v[i.rg.r], w, Values(L))) ELSE Ypack(w, Values(L)), i.l /\ i.lanes > 1)
VexFma(c, i) ==
    LET w == Bytes(i.f)
        n == IF i.lanes = 1 THEN w ELSE Size(i)
        d == YCheck(c, i, n)
    IN  IF ~OK(d) THEN d
        ELSE PutFma(c, i, w, [k \in 0 .. (n \div w) - 1 |->
                                 FmaLane(i.f, FmaArgs(c, i, w, Ysrc(c, i, n), k), i.negprod, NegAdd(i, k), Mx(c))])

HalfToSingle(u) == IF IsNan(u) THEN QuietLane(FMT32, u) ELSE [v |-> Pack(FMT32, u), f |-> {}]
\* DAZ applies, FTZ does not.
SingleToHalf(d, mode) ==
    IF IsNan(d.v) THEN QuietLane(FMT16, d.v) ELSE Result(FMT16, Adding(RoundFp(d.v, FMT16, mode), d.flags))
VFromHalf(c, i) ==
    LET n == Size(i) \div 4
        d == YCheck(c, i, 2 * n)
    IN  IF i.vv # 0 THEN Trap(c, "illegal") ELSE IF ~OK(d) THEN d
        ELSE PutAll(c, i.rg.r, 4, i.l,
                    [k \in 0 .. n - 1 |-> HalfToSingle(Unpack(FMT16, Lane(Ysrc(c, i, 2 * n)[1], 2, k)))])
\* VCVTPS2PH raises its exceptions before it stores.
StoreHalves(e, i, L, n) == IF OK(e) THEN VStore(e, i, Ypack(2, Values(L)), 2 * n, 1, FALSE) ELSE e
PutHalves(c, i, L, n) == StoreHalves(SseFlags(c, Raised(L)), i, L, n)
VToHalf(c, i) ==
    LET n == Size(i) \div 4
    IN  IF i.vv # 0 THEN Trap(c, "illegal")
        ELSE PutHalves(c, i, [k \in 0 .. n - 1 |->
                 SingleToHalf(InLane(Mx(c), FMT32, Ylane(Yget(c, i.rg.r), 4, k)), ImmMode(i.imm, Mx(c)))], n)

(***************************************************************************)
(* Moves.                                                                  *)
(***************************************************************************)

VZero(c, i) ==
    LET n == [r \in DOMAIN c.v |-> Zeros(16)]
    IN  IF i.vv # 0 THEN Trap(c, "illegal") ELSE [c EXCEPT !.hi = n, !.v = IF i.l THEN n ELSE @]
VMov(c, i) ==
    LET al == IF i.al THEN Size(i) ELSE 1
        d == IF IsMem(i) THEN MemCheck(c, AddrOf(c, i), Size(i), al) ELSE c
    IN  IF i.vv # 0 \/ (i.memonly /\ ~IsMem(i)) THEN Trap(c, "illegal")
        ELSE IF ~i.load THEN VStore(c, i, Yget(c, i.rg.r), Size(i), al, i.l)
        ELSE IF OK(d) THEN Yset(c, i.rg.r, Ysrc(c, i, Size(i)), i.l) ELSE d
\* VMOVSS and VMOVSD: the register form merges into vvvv.
VMovs(c, i) ==
    LET src == IF i.load THEN i.rm.r ELSE i.rg.r
        d == YCheck(c, i, i.w)
    IN  IF ~IsMem(i)
        THEN Yset(c, IF i.load THEN i.rg.r ELSE i.rm.r,
                  Low([b \in 0 .. 15 |-> IF b < i.w THEN c.v[src][b] ELSE c.v[i.vv][b]]), FALSE)
        ELSE IF i.vv # 0 THEN Trap(c, "illegal")
        ELSE IF ~i.load THEN YWrite(c, AddrOf(c, i), Yget(c, i.rg.r), i.w, 1)
        ELSE IF OK(d) THEN Yset(c, i.rg.r, Ysrc(c, i, i.w), FALSE) ELSE d
VMovHalf(c, i) ==
    LET d == YCheck(c, i, 8)
        s == Ysrc(c, i, 8)[1]
        from == IF IsMem(i) \/ i.high THEN 0 ELSE 1
        out == Vec(8, 8, [k \in {0} |-> Lane(c.v[i.rg.r], 8, Num(i.high))])
    IN  IF i.l \/ (~i.load /\ (i.vv # 0 \/ ~IsMem(i))) THEN Trap(c, "illegal")
        ELSE IF ~i.load THEN MemWrite(c, AddrOf(c, i), out, 8, 1)
        ELSE IF OK(d) THEN Yset(c, i.rg.r, Low(SetLane(c.v[i.vv], 8, Num(i.high), Lane(s, 8, from))), FALSE) ELSE d
VMovDup(c, i) ==
    LET n == IF i.w = 8 /\ ~i.l THEN 8 ELSE Size(i)
        d == YCheck(c, i, n)
        b == Ysrc(c, i, n)
    IN  IF i.vv # 0 THEN Trap(c, "illegal") ELSE IF ~OK(d) THEN d
        ELSE Yset(c, i.rg.r, <<MovDup(b[1], i.w, i.high), MovDup(b[2], i.w, i.high)>>, i.l)
VMovmsk(c, i) ==
    LET y == Yget(c, i.rm.r)
        P == [k \in 0 .. (Size(i) \div i.w) - 1 |-> LaneTop(Flat(y), i.w, k)]
    IN  IF i.vv # 0 \/ IsMem(i) THEN Trap(c, "illegal") ELSE SetG(c, i.rg.r, BitsOf(P, 0))
\* VMOVD and VMOVQ; the loads clear the rest of the register.
VMovG(c, i) ==
    LET o == OpOf(c, i)
    IN  IF i.l \/ i.vv # 0 THEN Trap(c, "illegal")
        ELSE IF ~i.load THEN WriteOperand(c, o, Lane(c.v[i.rg.r], 8, 0), i.w)
        ELSE IF ~Readable(c, o, i.w) THEN RdFault(c, o.r)
        ELSE Yset(c, i.rg.r, Ypack(8, [k \in {0} |-> ReadOperand(c, o, i.w)]), FALSE)
VMovq(c, i) ==
    LET d == YCheck(c, i, 8)
    IN  IF i.l \/ i.vv # 0 THEN Trap(c, "illegal")
        ELSE IF ~i.load THEN VStore(c, i, Low(LowBytes(c.v[i.rg.r], 8)), 8, 1, FALSE)
        ELSE IF OK(d) THEN Yset(c, i.rg.r, Low(LowBytes(Ysrc(c, i, 8)[1], 8)), FALSE) ELSE d
VShiftImm(c, i) ==
    LET of(v) == IF i.x2 \in {"srldq", "slldq"} THEN ShiftBytes(i.x2, v, 16, i.imm) ELSE Shift(i.x2, v, i.w, 16, i.imm)
        y == Yget(c, i.rm.r)
    IN  IF IsMem(i) THEN Trap(c, "illegal") ELSE Yset(c, i.vv, <<of(y[1]), of(y[2])>>, i.l)
VPinsr(c, i) ==
    LET o == OpOf(c, i)
    IN  IF i.l THEN Trap(c, "illegal") ELSE IF ~Readable(c, o, i.w) THEN RdFault(c, o.r)
        ELSE Yset(c, i.rg.r, Low(SetLane(c.v[i.vv], i.w, i.imm % (16 \div i.w), ReadOperand(c, o, i.w))), FALSE)
VInsertps(c, i) ==
    LET x == IF IsMem(i) THEN Val(c, AddrOf(c, i), 4) ELSE Lane(c.v[i.rm.r], 4, i.imm \div 64)
        d == YCheck(c, i, 4)
    IN  IF i.l THEN Trap(c, "illegal") ELSE IF ~OK(d) THEN d
        ELSE Yset(c, i.rg.r, Low(InsertLane(c.v[i.vv], x, i.imm)), FALSE)
PutMerged(c, i, r) == Yset(SseFlags(c, r.f), i.rg.r, Low(SetLane(c.v[i.vv], Bytes(i.f), 0, r.v)), FALSE)
VCvtFromG(c, i) ==
    LET o == OpOf(c, i)
    IN  IF ~Readable(c, o, i.w) THEN RdFault(c, o.r)
        ELSE PutMerged(c, i, FromIntLane(i.f, SignExtendW(ReadOperand(c, o, i.w), i.w), Mx(c)))
\* The forms that are the SSE ones where the 128-bit encoding has no vvvv.
VSame(c, i) ==
    IF i.vv # 0 \/ (i.l /\ i.x \in {"pextr", "maskmov", "pcmpstr"}) THEN Trap(c, "illegal")
    ELSE CASE i.x = "comis"   -> SseComis(c, i)
           [] i.x = "tog"     -> CvtToG(c, i)
           [] i.x = "pextr"   -> Pextr(c, i)
           [] i.x = "maskmov" -> Maskmov(c, i)
           [] i.x = "pcmpstr" ->
                LET d == Pcmpstr(c, i) IN IF OK(d) /\ ~i.index THEN [d EXCEPT !.hi[0] = Zeros(16)] ELSE d

\* VLDMXCSR and VSTMXCSR of the 16 bits MXCSR has.
MxNum(m) ==
    (FlagNum(m.fl) + 64 * Num(m.daz)) + (FlagNum(m.mask) * 128 + 32768 * Num(m.ftz))
        + 8192 * (CHOOSE k \in 0 .. 3 : <<"nearest", "down", "up", "zero">>[k + 1] = m.rc)
MxOf(n) ==
    [fl |-> FlagSet(n % 64), daz |-> Bit(n, 6), mask |-> FlagSet((n \div 128) % 64), ftz |-> Bit(n, 15),
     rc |-> <<"nearest", "down", "up", "zero">>[((n \div 8192) % 4) + 1]]
VMxcsr(c, i) ==
    LET a == AddrOf(c, i)
        d == MemCheck(c, a, W16, 1)
    IN  IF i.l \/ i.vv # 0 THEN Trap(c, "illegal")
        ELSE IF ~i.load THEN Store(c, a, W16, MxNum(c.mx))
        ELSE IF OK(d) THEN [c EXCEPT !.mx = MxOf(Val(c, a, W16))] ELSE d

\* VTESTPS and VTESTPD look at the signs, VPTEST at every bit.
Masked(v, w) == [b \in DOMAIN v |-> IF w = 0 THEN v[b] ELSE IF b % w = w - 1 THEN v[b] & (Mod(1) \div 2) ELSE 0]
VTest(c, i) ==
    LET d == YCheck(c, i, Size(i))
        all(y) == IF i.l THEN Flat(y) ELSE y[1]
    IN  IF i.vv # 0 THEN Trap(c, "illegal") ELSE IF ~OK(d) THEN d
        ELSE [c EXCEPT !.f = TestFlags(all(Yget(c, i.rg.r)), Masked(all(Ysrc(c, i, Size(i))), i.w))]

(***************************************************************************)
(* Permutations across the halves.                                         *)
(***************************************************************************)

Perm2x128(a, b, imm) ==
    LET pick(k) == IF Bit(k, 3) THEN Zeros(16) ELSE <<a[1], a[2], b[1], b[2]>>[(k % 4) + 1]
    IN  <<pick(imm % 16), pick(imm \div 16)>>
Repeat(x, w) == Vec(16, w, [k \in Lanes(w, 16) |-> x])
\* What a 256-bit permutation makes of vvvv and its source.
Crossed(i, a, b) ==
    CASE i.x = "permd"   -> Ypack(4, [k \in 0 .. 7 |-> Ylane(b, 4, Ylane(a, 4, k) % 8)])
      [] i.x = "permq"   -> Ypack(8, [k \in 0 .. 3 |-> Ylane(b, 8, Sel(i.imm, k))])
      [] i.x = "perm2"   -> Perm2x128(a, b, i.imm)
      [] i.x = "insert"  -> IF Bit(i.imm, 0) THEN <<a[1], b[1]>> ELSE <<b[1], a[2]>>
      [] i.x = "bcast"   -> LET v == Repeat(Lane(b[1], i.w, 0), i.w) IN <<v, v>>
      [] i.x = "bcast128" -> <<b[1], b[1]>>
      [] i.x = "blendd"  -> Ypack(4, [k \in 0 .. 7 |-> Ylane(IF Bit(i.imm, k) THEN b ELSE a, 4, k)])
CrossForms == {"permd", "permq", "perm2", "insert", "bcast", "bcast128", "blendd"}
CrossIllegal(i) ==
    \/ ~i.l /\ i.x \in {"permd", "permq", "perm2", "insert", "bcast128"}
    \/ i.vv # 0 /\ i.x \in {"permq", "bcast", "bcast128"}
    \/ ~IsMem(i) /\ i.x = "bcast128"
VCross(c, i) ==
    LET n == CASE i.x \in {"insert", "bcast128"} -> 16 [] i.x = "bcast" -> i.w [] OTHER -> Size(i)
        d == YCheck(c, i, n)
    IN  IF CrossIllegal(i) THEN Trap(c, "illegal") ELSE IF ~OK(d) THEN d
        ELSE Yset(c, i.rg.r, Crossed(i, Yget(c, i.vv), Ysrc(c, i, n)), i.l)
VExtract(c, i) ==
    IF ~i.l \/ i.vv # 0 THEN Trap(c, "illegal")
    ELSE VStore(c, i, Low(Yget(c, i.rg.r)[(i.imm % 2) + 1]), 16, 1, FALSE)

(***************************************************************************)
(* Masked moves and gathers: one element after the other.                  *)
(***************************************************************************)

Chosen(y, w, k) == LaneTop(Flat(y), w, k)
\* A lane that is masked off is never read and never faults.
VMaskLoad(c, i) ==
    LET a == AddrOf(c, i)
        m == Yget(c, i.vv)
        n == Size(i) \div i.w
        bad == { k \in 0 .. n - 1 : Chosen(m, i.w, k) /\ ~Allows(c, MaskW(a + k * i.w, 8), i.w, "r") }
        L == [k \in 0 .. n - 1 |-> IF Chosen(m, i.w, k) THEN Val(c, MaskW(a + k * i.w, 8), i.w) ELSE 0]
    IN  IF ~IsMem(i) THEN Trap(c, "illegal")
        ELSE IF bad # {} THEN RdFault(c, MaskW(a + Least(bad) * i.w, 8))
        ELSE Yset(c, i.rg.r, Ypack(i.w, L), i.l)
RECURSIVE VMaskStores(_, _, _, _)
VMaskStores(c, i, a, k) ==
    IF ~OK(c) \/ k * i.w >= Size(i) THEN c
    ELSE IF Chosen(Yget(c, i.vv), i.w, k)
    THEN VMaskStores(WriteMem(c, MaskW(a + k * i.w, 8), Ylane(Yget(c, i.rg.r), i.w, k), i.w), i, a, k + 1)
    ELSE VMaskStores(c, i, a, k + 1)
VMaskStore(c, i) == IF IsMem(i) THEN VMaskStores(c, i, AddrOf(c, i), 0) ELSE Trap(c, "illegal")

\* The index register takes the place of rm.index.
GatherAddr(c, i, k) ==
    LET ix == IF i.iw = 8 THEN Ylane(Yget(c, i.rm.index), 8, k)
              ELSE SignExtendW(Ylane(Yget(c, i.rm.index), 4, k), 4)
        b == IF i.rm.base = NoReg THEN 0 ELSE c.g[i.rm.base]
    IN  Lin(i, MaskW(b + ix * 2 ^ i.rm.scale + i.rm.disp, IF i.a32 THEN 4 ELSE 8))
SetYlane(c, r, w, k, x) ==
    IF k * w < 16 THEN [c EXCEPT !.v[r] = SetLane(@, w, k, x)]
    ELSE [c EXCEPT !.hi[r] = SetLane(@, w, k - 16 \div w, x)]
GatherCount(i) == Size(i) \div (IF i.iw > i.w THEN i.iw ELSE i.w)
DeliverTo(c, i, k, a) ==
    IF ~Allows(c, a, i.w, "r") THEN RdFault(c, a)
    ELSE SetYlane(SetYlane(c, i.rg.r, i.w, k, Val(c, a, i.w)), i.vv, i.w, k, 0)
\* Each element delivered clears its bit of the mask, so the instruction
\* goes on where it faulted.
DeliverElement(c, i, k) == DeliverTo(c, i, k, GatherAddr(c, i, k))
RECURSIVE GatherFrom(_, _, _)
GatherFrom(c, i, k) ==
    IF ~OK(c) \/ k = GatherCount(i) THEN c
    ELSE GatherFrom(IF Chosen(Yget(c, i.vv), i.w, k) THEN DeliverElement(c, i, k) ELSE c, i, k + 1)
Gathers(c, i) == GatherFrom(c, i, 0)
GatherEnd(c, i) ==
    LET span == i.l /\ ~(i.iw = 8 /\ i.w = 4)
        d == Yset(c, i.rg.r, <<LowBytes(c.v[i.rg.r], Clip(GatherCount(i) * i.w)), c.hi[i.rg.r]>>, span)
    IN  Yset(d, i.vv, Low(Zeros(16)), FALSE)
VexGather(c, i) ==
    IF Cardinality({i.rg.r, i.vv, i.rm.index}) < 3 THEN Trap(c, "illegal") ELSE GatherEnd(Gathers(c, i), i)

(***************************************************************************)
(* BMI1 and BMI2.                                                          *)
(***************************************************************************)

ZeroSign(r, w) == [NoFlags EXCEPT !.zf = r = 0, !.sf = SignBit(r, w)]
\* PEXT and PDEP: the bits of v at, or to, the places of the mask.
Rank1(m, k) == Cardinality({ j \in 0 .. k - 1 : Bit(m, j) })
PextOf(v, m, w) ==
    LET S == Ones(m, w) IN BitsOf([k \in 0 .. Cardinality(S) - 1 |-> Bit(v, CHOOSE j \in S : Rank1(m, j) = k)], 0)
PdepOf(v, m, w) == BitsOf([j \in 0 .. w * B - 1 |-> Bit(m, j) /\ Bit(v, Rank1(m, j))], 0)
RotateRight(x, w, k) == x \div 2 ^ k + (x % 2 ^ k) * 2 ^ (w * B - k)
BmiValue(i, v, s) ==
    LET w == i.w
        c == v % (w * B)
        n == MaskW(v, 1)
    IN  CASE i.x2 = "andn"   -> (Mod(w) - 1 - v) & s
          [] i.x2 = "blsr"   -> MaskW(s - 1, w) & s
          [] i.x2 = "blsmsk" -> MaskW(s - 1, w) ^^ s
          [] i.x2 = "blsi"   -> MaskW(-s, w) & s
          [] i.x2 = "bzhi"   -> IF n < w * B THEN s % 2 ^ n ELSE s
          [] i.x2 = "pext"   -> PextOf(v, s, w)
          [] i.x2 = "pdep"   -> PdepOf(v, s, w)
          [] i.x2 = "bextr"  ->
               IF n >= w * B THEN 0
               ELSE LET x == s \div 2 ^ n IN IF Byte(v, 1) >= 8 * B THEN x ELSE x % 2 ^ Byte(v, 1)
          [] i.x2 = "shlx"   -> (s % 2 ^ (w * B - c)) * 2 ^ c
          [] i.x2 = "sarx"   -> MaskW(SignExtendW(s, w) \div 2 ^ c, w)
          [] i.x2 = "shrx"   -> s \div 2 ^ c
          [] i.x2 = "rorx"   -> RotateRight(s, w, i.imm % (w * B))
BmiFlags(c, i, v, s, r) ==
    CASE i.x2 = "andn" -> ZeroSign(r, i.w)
      [] i.x2 \in {"blsr", "blsmsk"} -> [ZeroSign(r, i.w) EXCEPT !.cf = s = 0]
      [] i.x2 = "blsi"  -> [ZeroSign(r, i.w) EXCEPT !.cf = s # 0]
      [] i.x2 = "bzhi"  -> [ZeroSign(r, i.w) EXCEPT !.cf = MaskW(v, 1) >= i.w * B]
      [] i.x2 = "bextr" -> [NoFlags EXCEPT !.zf = r = 0]
      [] OTHER -> c.f
\* MULX writes the low half to vvvv, then the high half.
Mulx(c, i, s) ==
    LET p == MaskW(c.g[RDX], i.w) * s
    IN  SetReg(SetReg(c, i.vv, MaskW(p, i.w), i.w), i.rg.r, p \div Mod(i.w), i.w)
BmiRun(c, i, v, s) ==
    IF i.x2 = "mulx" THEN Mulx(c, i, s)
    ELSE LET r == BmiValue(i, v, s)
         IN  SetReg([c EXCEPT !.f = BmiFlags(c, i, v, s, r)],
                    IF i.x2 \in {"blsr", "blsmsk", "blsi"} THEN i.vv ELSE i.rg.r, r, i.w)
VexBmi(c, i) ==
    LET o == OpOf(c, i)
    IN  IF i.l \/ (i.x2 = "rorx" /\ i.vv # 0) THEN Trap(c, "illegal")
        ELSE IF ~Readable(c, o, i.w) THEN RdFault(c, o.r)
        ELSE BmiRun(c, i, MaskW(c.g[i.vv], i.w), ReadOperand(c, o, i.w))

(***************************************************************************)
(* vex_0f, vex_0f38 and vex_0f3a.                                          *)
(***************************************************************************)

VexMove(c, i) ==
    CASE i.x = "zero"     -> VZero(c, i)
      [] i.x = "mov128"   -> VMov(c, i)
      [] i.x = "mov10"    -> VMovs(c, i)
      [] i.x = "movhalf"  -> VMovHalf(c, i)
      [] i.x = "movdup"   -> VMovDup(c, i)
      [] i.x = "movmsk"   -> VMovmsk(c, i)
      [] i.x = "movg"     -> VMovG(c, i)
      [] i.x = "movq"     -> VMovq(c, i)
      [] i.x = "shiftimm" -> VShiftImm(c, i)
      [] i.x = "pinsr"    -> VPinsr(c, i)
      [] i.x = "insertps" -> VInsertps(c, i)
      [] i.x = "mxcsr"    -> VMxcsr(c, i)
      [] i.x = "extract"  -> VExtract(c, i)
      [] i.x = "maskload" -> VMaskLoad(c, i)
      [] i.x = "maskstore" -> VMaskStore(c, i)
      [] i.x = "gather"   -> VexGather(c, i)
      [] i.x = "bmi"      -> VexBmi(c, i)
VexMoves ==
    {"zero", "mov128", "mov10", "movhalf", "movdup", "movmsk", "movg", "movq", "shiftimm", "pinsr", "insertps",
     "mxcsr", "extract", "maskload", "maskstore", "gather", "bmi"}
VexFloat(c, i) ==
    CASE i.x = "fp"       -> VFp(c, i)
      [] i.x = "cvt"      -> VCvt(c, i)
      [] i.x = "dpp"      -> VDpp(c, i)
      [] i.x = "fma"      -> VexFma(c, i)
      [] i.x = "fromhalf" -> VFromHalf(c, i)
      [] i.x = "tohalf"   -> VToHalf(c, i)
      [] i.x = "fromg"    -> VCvtFromG(c, i)
      [] i.x = "test"     -> VTest(c, i)
VexFloats == {"fp", "cvt", "dpp", "fma", "fromhalf", "tohalf", "fromg", "test"}
ExecVex(c, i) ==
    NextInsn(CASE i.x \in VPureForms -> VPure(c, i)
               [] i.x \in CrossForms -> VCross(c, i)
               [] i.x \in VexMoves   -> VexMove(c, i)
               [] i.x \in VexFloats  -> VexFloat(c, i)
               [] OTHER              -> VSame(c, i), i)

\* The whole CPU: the opcodes of X86 and these.
Run(c, i) ==
    CASE i.op = "x87" -> ExecX87(c, i)
      [] i.op = "sse" -> ExecSse(c, i)
      [] i.op = "vex" -> ExecVex(c, i)
      [] OTHER        -> Decode(c, i)
Begins(c, i) == IF Straddles(c, i) THEN RdFault(c, PageOf(c.ip) + Page) ELSE Run(c, i)
Fetches(d) == IF OK(d) THEN Begins(d, Fetched(d)) ELSE d
Steps(c) == Fetches(FillIbuf(c))
==============================================================================
