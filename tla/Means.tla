-------------------------------- MODULE Means --------------------------------
(***************************************************************************)
(* Binary floating point as IEEE 754 and the x86 manuals define it, stated *)
(* on the encodings and with exact integers: the reference the software    *)
(* floating point is held against.                                         *)
(*                                                                         *)
(* A format is [bits, prec, emax].  Without its sign an encoding is a      *)
(* number whose successor encodes the next magnitude; the encoding of the  *)
(* infinity stands for the first power of two past the largest finite.     *)
(* Magnitudes are counted in units of the least denormal.                  *)
(***************************************************************************)
EXTENDS Integers, Words

Power(f) == 2 ^ (f.prec - 1)
Minus(f, x) == x >= 2 ^ (f.bits - 1)
Enc(f, x) == x % 2 ^ (f.bits - 1)
InfEnc(f) == (2 * f.emax + 1) * Power(f)
Inf(f, neg) == InfEnc(f) + (IF neg THEN 2 ^ (f.bits - 1) ELSE 0)
IsInf(f, x) == Enc(f, x) = InfEnc(f)
NotNum(f, x) == Enc(f, x) > InfEnc(f)
Noisy(f, x) == NotNum(f, x) /\ Enc(f, x) - InfEnc(f) < Power(f) \div 2
Hushed(f, x) == IF Noisy(f, x) THEN x + Power(f) \div 2 ELSE x
Default(f) == Inf(f, TRUE) + Power(f) \div 2
Denormal(f, x) == Enc(f, x) \in 1 .. Power(f) - 1
Units(f, e) ==
    IF e < Power(f) THEN e ELSE ((e % Power(f)) + Power(f)) * 2 ^ (e \div Power(f) - 1)
Signed(f, x) == IF Minus(f, x) THEN -Units(f, Enc(f, x)) ELSE Units(f, Enc(f, x))
\* The units in 1.0.
OneUnits(f) == Power(f) * 2 ^ (f.emax - 1)
Magn(n) == IF n < 0 THEN -n ELSE n

(***************************************************************************)
(* An exact result is n / d units, or the root of n; Versus compares h     *)
(* half-units with its magnitude.                                          *)
(***************************************************************************)

Ratio(n, d) == [n |-> IF d < 0 THEN -n ELSE n, d |-> Magn(d), root |-> FALSE]
Root(n) == [n |-> n, d |-> 1, root |-> TRUE]
Versus(x, h) == IF x.root THEN h * h - 4 * x.n ELSE h * x.d - 2 * Magn(x.n)

\* Which way a mode takes a magnitude.
Way(mode, neg) ==
    CASE mode = "nearest" -> "nearest"
      [] mode = "zero"    -> "zero"
      [] mode = "up"      -> IF neg THEN "zero" ELSE "away"
      [] mode = "down"    -> IF neg THEN "away" ELSE "zero"
\* e encodes the magnitude of x rounded that way: the neighbours of e are on
\* the other side, or farther, or as far and odd.
RoundsTo(f, way, x, e) ==
    LET u(k) == Units(f, k)
        near(k) == LET v == Versus(x, u(e) + u(k)) IN (v = 0 /\ e % 2 = 0) \/ (IF k > e THEN v > 0 ELSE v < 0)
    IN  CASE way = "zero" ->
               e < InfEnc(f) /\ Versus(x, 2 * u(e)) <= 0 /\ (e + 1 < InfEnc(f) => Versus(x, 2 * u(e + 1)) > 0)
          [] way = "away" ->
               (e < InfEnc(f) => Versus(x, 2 * u(e)) >= 0) /\ (e > 0 => Versus(x, 2 * u(e - 1)) < 0)
          [] way = "nearest" -> (e < InfEnc(f) => near(e + 1)) /\ (e > 0 => near(e - 1))

\* The exceptions of rounding x to e: inexact, overflow of the result with
\* an unbounded exponent, underflow as tininess after rounding.
Inexact(f, x, e) == e = InfEnc(f) \/ Versus(x, 2 * Units(f, e)) # 0
Overflows(f, way, x) ==
    LET max == Units(f, InfEnc(f) - 1)
        inf == Units(f, InfEnc(f))
    IN  CASE way = "nearest" -> Versus(x, max + inf) <= 0
          [] way = "zero"    -> Versus(x, 2 * inf) <= 0
          [] way = "away"    -> Versus(x, 2 * max) < 0
\* The least normal is Power units, the largest significand below it half a
\* unit less.
TinyBy(f, way, x) ==
    CASE way = "nearest" -> Versus([x EXCEPT !.n = IF x.root THEN 16 * @ ELSE 4 * @], 8 * Power(f) - 2) > 0
      [] way = "zero"    -> Versus(x, 2 * Power(f)) > 0
      [] way = "away"    -> Versus(x, 2 * Power(f) - 1) >= 0
RoundFlags(f, way, x, e) ==
    (IF Inexact(f, x, e) THEN {"P"} ELSE {}) \cup (IF Overflows(f, way, x) THEN {"O"} ELSE {})
        \cup (IF Inexact(f, x, e) /\ TinyBy(f, way, x) THEN {"U"} ELSE {})

(***************************************************************************)
(* The operations.  Operands have had denormals replaced by zeros if the   *)
(* mode says so.                                                           *)
(***************************************************************************)

Flushed(f, x, daz) == IF daz /\ Denormal(f, x) THEN x - (Enc(f, x) % Power(f)) ELSE x
Zero(f, x) == Enc(f, x) = 0
Senseless(op, f, a, b) ==
    CASE op = "add"  -> IsInf(f, a) /\ IsInf(f, b) /\ Minus(f, a) # Minus(f, b)
      [] op = "sub"  -> IsInf(f, a) /\ IsInf(f, b) /\ Minus(f, a) = Minus(f, b)
      [] op = "mul"  -> (IsInf(f, a) /\ Zero(f, b)) \/ (Zero(f, a) /\ IsInf(f, b))
      [] op = "div"  -> (IsInf(f, a) /\ IsInf(f, b)) \/ (Zero(f, a) /\ Zero(f, b))
      [] op = "sqrt" -> Minus(f, b) /\ ~Zero(f, b)
Ideal(op, f, a, b) ==
    LET x == Signed(f, a)
        y == Signed(f, b)
    IN  CASE op = "add"  -> Ratio(x + y, 1)
          [] op = "sub"  -> Ratio(x - y, 1)
          [] op = "mul"  -> Ratio(x * y, OneUnits(f))
          [] op = "div"  -> Ratio(x * OneUnits(f), y)
          [] op = "sqrt" -> Root(y * OneUnits(f))
\* The sign of a result that is not a NaN.
SignOf(op, f, mode, a, b) ==
    LET y == IF op = "sub" THEN ~Minus(f, b) ELSE Minus(f, b)
    IN  CASE op \in {"mul", "div"} -> Minus(f, a) # Minus(f, b)
          [] op = "sqrt" -> Minus(f, b)
          [] op \in {"add", "sub"} ->
               IF IsInf(f, a) THEN Minus(f, a) ELSE IF IsInf(f, b) THEN y
               ELSE IF Ideal(op, f, a, b).n # 0 THEN Ideal(op, f, a, b).n < 0
               ELSE IF Minus(f, a) = y THEN y ELSE mode = "down"
Infinite(op, f, a, b) ==
    CASE op = "sqrt" -> IsInf(f, b)
      [] op = "div"  -> IsInf(f, a) \/ Zero(f, b)
      [] OTHER       -> IsInf(f, a) \/ IsInf(f, b)
Nothing(op, f, a, b) == op = "div" /\ IsInf(f, b)

\* The result and its exceptions, e the magnitude a finite result is given;
\* ok tells that it is the right one.
Ref(v, F, ok) == [v |-> v, f |-> F, ok |-> ok]
Encoded(f, neg, e) == e + (IF neg THEN 2 ^ (f.bits - 1) ELSE 0)
RefFinite(f, mx, neg, x, D, e) ==
    LET way == Way(mx.rc, neg)
    IN  IF mx.ftz /\ x.n # 0 /\ TinyBy(f, way, x) THEN Ref(Encoded(f, neg, 0), {"U", "P"} \cup D, TRUE)
        ELSE Ref(Encoded(f, neg, e), D \cup RoundFlags(f, way, x, e), RoundsTo(f, way, x, e))
RefOp(op, f, mx, a, b, e) ==
    LET neg == SignOf(op, f, mx.rc, a, b)
        D   == IF Denormal(f, b) \/ (op # "sqrt" /\ Denormal(f, a)) THEN {"D"} ELSE {}
    IN  CASE Senseless(op, f, a, b) -> Ref(Default(f), {"I"} \cup (IF op = "sqrt" THEN D ELSE {}), TRUE)
          [] ~Senseless(op, f, a, b) /\ Infinite(op, f, a, b) ->
               Ref(Inf(f, neg), D \cup (IF op = "div" /\ ~IsInf(f, a) THEN {"Z"} ELSE {}), TRUE)
          [] ~Infinite(op, f, a, b) /\ Nothing(op, f, a, b) -> Ref(Encoded(f, neg, 0), D, TRUE)
          [] OTHER -> RefFinite(f, mx, neg, Ideal(op, f, a, b), D, e)
RefNan(f, S, v) == Ref(Hushed(f, v), IF \E x \in S : Noisy(f, x) THEN {"I"} ELSE {}, TRUE)
\* An operand that is not a number wins, the first one first.
RefArith(op, f, mx, a, b, e) ==
    IF op # "sqrt" /\ NotNum(f, a) THEN RefNan(f, {a, b}, a)
    ELSE IF NotNum(f, b) THEN RefNan(f, {b}, b)
    ELSE RefOp(op, f, mx, Flushed(f, a, mx.daz), Flushed(f, b, mx.daz), e)

\* a * b + c, rounded once.
RefFma(f, mx, a, b, c, e) ==
    LET nans == { x \in {a, b, c} : NotNum(f, x) }
        neg  == Minus(f, a) # Minus(f, b)
        inf  == IsInf(f, a) \/ IsInf(f, b)
        n    == Signed(f, a) * Signed(f, b) + Signed(f, c) * OneUnits(f)
        sum  == IF n # 0 THEN n < 0 ELSE IF neg = Minus(f, c) THEN neg ELSE mx.rc = "down"
        D    == IF \E x \in {a, b, c} : Denormal(f, x) THEN {"D"} ELSE {}
    IN  CASE nans # {} -> RefNan(f, nans, IF NotNum(f, a) THEN a ELSE IF NotNum(f, b) THEN b ELSE c)
          [] nans = {} /\ (Senseless("mul", f, a, b) \/ (inf /\ IsInf(f, c) /\ neg # Minus(f, c))) ->
               Ref(Default(f), {"I"}, TRUE)
          [] OTHER -> IF inf \/ IsInf(f, c) THEN Ref(Inf(f, IF inf THEN neg ELSE Minus(f, c)), D, TRUE)
                      ELSE RefFinite(f, mx, sum, Ratio(n, OneUnits(f)), D, e)

\* The integer i is n / d rounded that way, both at least 0.
IntRounds(way, n, d, i) ==
    CASE way = "zero"    -> i * d <= n /\ n < (i + 1) * d
      [] way = "away"    -> i * d >= n /\ n > (i - 1) * d
      [] way = "nearest" -> Magn(2 * i * d - 2 * n) < d \/ (Magn(2 * i * d - 2 * n) = d /\ i % 2 = 0)
      [] way = "ties"    -> 2 * i * d <= 2 * n + d /\ 2 * n + d < 2 * (i + 1) * d

(***************************************************************************)
(* The same as the Arm manual defines it, n the environment: the first     *)
(* signalling NaN wins, else the first; the default NaN is positive; a     *)
(* result is tiny before rounding; fz makes zeros of denormals and of tiny *)
(* results.                                                                *)
(***************************************************************************)

ArmDefault(f) == InfEnc(f) + Power(f) \div 2
\* A half that is flushed is not reported.
ArmFlushes(f, n, S) == IF n.fz /\ f.bits > 4 /\ \E x \in S : Denormal(f, x) THEN {"D"} ELSE {}
ArmNan(f, n, s, D) ==
    LET noisy == { j \in DOMAIN s : Noisy(f, s[j]) }
        nans  == { j \in DOMAIN s : NotNum(f, s[j]) }
        first == CHOOSE j \in nans : (noisy # {} => j \in noisy) /\ \A k \in IF noisy # {} THEN noisy ELSE nans : j <= k
    IN  Ref(IF n.dn THEN ArmDefault(f) ELSE Hushed(f, s[first]), D \cup (IF noisy # {} THEN {"I"} ELSE {}), TRUE)
ArmWay(n, neg) == IF n.rm = "away" THEN "ties" ELSE Way(IF n.rm = "even" THEN "nearest" ELSE n.rm, neg)
ArmFinite(f, n, neg, x, D, e) ==
    LET way  == ArmWay(n, neg)
        tiny == x.n # 0 /\ Versus(x, 2 * Power(f)) > 0
        inex == Inexact(f, x, e)
    IN  IF n.fz /\ tiny THEN Ref(Encoded(f, neg, 0), D \cup {"U"}, TRUE)
        ELSE Ref(Encoded(f, neg, e),
                 D \cup (IF inex THEN {"X"} ELSE {}) \cup (IF Overflows(f, way, x) THEN {"O"} ELSE {})
                     \cup (IF inex /\ tiny THEN {"U"} ELSE {}), RoundsTo(f, way, x, e))
ArmOp(op, f, n, a, b, D, e) ==
    LET neg == SignOf(op, f, n.rm, a, b)
    IN  CASE Senseless(op, f, a, b) -> Ref(ArmDefault(f), {"I"} \cup D, TRUE)
          [] ~Senseless(op, f, a, b) /\ Infinite(op, f, a, b) ->
               Ref(Inf(f, neg), D \cup (IF op = "div" /\ ~IsInf(f, a) THEN {"Z"} ELSE {}), TRUE)
          [] ~Infinite(op, f, a, b) /\ Nothing(op, f, a, b) -> Ref(Encoded(f, neg, 0), D, TRUE)
          [] OTHER -> ArmFinite(f, n, neg, Ideal(op, f, a, b), D, e)
\* a * b + c / d, c / d a number, over q.
ArmFused(f, n, a, b, c, q, D, e) ==
    LET neg == Minus(f, a) # Minus(f, b)
        inf == IsInf(f, a) \/ IsInf(f, b)
        sum == Signed(f, a) * Signed(f, b) + c * OneUnits(f)
    IN  IF inf THEN Ref(Inf(f, neg), D, TRUE)
        ELSE ArmFinite(f, n, IF sum # 0 THEN sum < 0 ELSE n.rm = "down", Ratio(sum, q * OneUnits(f)), D, e)
ArmFma(f, n, c, a, b, D, e) ==
    LET neg == Minus(f, a) # Minus(f, b)
        inf == IsInf(f, a) \/ IsInf(f, b)
    IN  IF Senseless("mul", f, a, b) \/ (inf /\ IsInf(f, c) /\ neg # Minus(f, c)) THEN Ref(ArmDefault(f), {"I"} \cup D, TRUE)
        ELSE IF IsInf(f, c) THEN Ref(c, D, TRUE)
        ELSE IF neg = Minus(f, c) /\ Zero(f, c) /\ (Zero(f, a) \/ Zero(f, b)) THEN Ref(c, D, TRUE)
        ELSE ArmFused(f, n, a, b, Signed(f, c), 1, D, e)
\* The larger, or the smaller; a zero with a sign is below one without.
ArmExtreme(f, max, a, b, D) ==
    LET key(x) == IF Minus(f, x) THEN -1 - Enc(f, x) ELSE Enc(f, x)
    IN  Ref(IF (key(a) > key(b)) = max THEN a ELSE b, D, TRUE)

------------------------------------------------------------------------------
(***************************************************************************)
(* The two CPUs, and what programs on them compute.                        *)
(***************************************************************************)

CONSTANTS MaxInsn, Ways, VBytes, VRegs, Granule,
          Half, Ext, FMT16, FMT32, FMT64, Radix, Est,
          Text      \* case -> parameter -> address -> content -> instruction

X == INSTANCE Sse
A == INSTANCE Neon

(***************************************************************************)
(* What the programs compute.                                              *)
(***************************************************************************)

U(d, r, w) == MaskW(d.g[r], w)
S(d, r, w) == SignExtendW(d.g[r], w)
Pair(d, lo, hi, w) == U(d, hi, w) * Mod(w) + U(d, lo, w)
\* The value v with its w-byte bits shifted left by n, and by -n right.
Shifted(v, n) == IF n >= 0 THEN v * 2 ^ n ELSE v \div 2 ^ (-n)
Abs(n) == IF n < 0 THEN -n ELSE n

\* A comparison's conditions are the order of the operands, on x86 ...
OrderX(a, z, w) ==
    LET au == U(a, 0, w)
        bu == U(a, 3, w)
        as == S(a, 0, w)
        bs == S(a, 3, w)
        holds(cc) == X!CondHolds(z.f, cc)
    IN  /\ holds(0) = ~FitsSigned(as - bs, w)
        /\ holds(2) = (au < bu) /\ holds(4) = (au = bu) /\ holds(6) = (au <= bu)
        /\ holds(8) = SignBit(as - bs, w)
        /\ holds(12) = (as < bs) /\ holds(14) = (as <= bs) /\ holds(15) = (as > bs)
\* ... and on AArch64.
OrderA(a, z, w) ==
    LET au == U(a, 0, w)
        bu == U(a, 1, w)
        as == S(a, 0, w)
        bs == S(a, 1, w)
        holds(cc) == A!CondHolds(z.f, cc)
    IN  /\ holds(0) = (au = bu) /\ holds(2) = (au >= bu) /\ holds(3) = (au < bu)
        /\ holds(6) = ~FitsSigned(as - bs, w)
        /\ holds(8) = (au > bu) /\ holds(10) = (as >= bs) /\ holds(12) = (as > bs)

\* REP MOVS and STOS one element after the other.
RECURSIVE Copied(_, _, _, _, _)
Copied(m, p, s, d, n) ==
    LET by == IF p.df THEN -p.w ELSE p.w
        e  == [x \in DOMAIN m |-> IF x \in d .. d + p.w - 1 THEN m[s + (x - d)] ELSE m[x]]
    IN  IF n = 0 THEN m ELSE Copied(e, p, s + by, d + by, n - 1)

\* Bits lo .. hi of v.
Field(v, lo, hi) == (v \div 2 ^ lo) % 2 ^ (hi - lo + 1)
\* The bitfield moves: immr .. imms down to 0, or 0 .. imms up to n - immr.
Moved(p, src, dst, n) ==
    LET up  == p.imms < p.immr
        f   == IF up THEN Field(src, 0, p.imms) ELSE Field(src, p.immr, p.imms)
        len == IF up THEN p.imms + 1 ELSE p.imms - p.immr + 1
        at  == IF up THEN n - p.immr ELSE 0
        sx  == IF Bit(f, len - 1) THEN f - 2 ^ len ELSE f
    IN  CASE p.x = "ubfm" -> f * 2 ^ at
          [] p.x = "sbfm" -> (sx * 2 ^ at) % 2 ^ n
          [] p.x = "bfm"  -> (dst - Field(dst, at, at + len - 1) * 2 ^ at) + f * 2 ^ at

\* A logical immediate: runs of imms' ones, rotated, in every element; an
\* element is the largest size the ones above imms leave.
Pattern(n, immr, imms) ==
    LET ok(e) == e \in {2, 4, 8, 16} /\ (IF e = 16 THEN n = 1 ELSE n = 0 /\ imms >= 16 - 2 * e /\ imms < 16 - e)
        e == CHOOSE k \in {2, 4, 8, 16} : ok(k)
        on1 == { j \in 0 .. 15 : ((j + immr) % e) <= imms % e }
    IN  IF ~(\E k \in {2, 4, 8, 16} : ok(k)) \/ imms % e = e - 1 THEN {} ELSE on1

(***************************************************************************)
(* a is the CPU at the start of the program, z at its end, p the case's    *)
(* parameter.                                                              *)
(***************************************************************************)

MeansX(goal, p, a, z) ==
    LET au == U(a, 0, p.w)
        bu == U(a, 3, p.w)
        as == S(a, 0, p.w)
        bs == S(a, 3, p.w)
        n  == p.w * B
    IN  CASE goal = "order" -> OrderX(a, z, p.w)
          [] goal = "wide" ->
               Pair(z, 0, 2, p.w) = (IF p.x = "add" THEN Pair(a, 0, 2, p.w) + Pair(a, 3, 1, p.w)
                                     ELSE Pair(a, 0, 2, p.w) - Pair(a, 3, 1, p.w)) % Mod(2 * p.w)
          [] goal = "muldiv" ->
               IF bu = 0 THEN z.out = "divide"
               ELSE z.out = "ok" /\ U(z, 0, p.w) = au /\ U(z, 2, p.w) = 0
          [] goal = "divmod" ->
               IF p.x = "div"
               THEN IF bu = 0 THEN z.out = "divide" ELSE U(z, 0, p.w) = au /\ U(z, 2, p.w) < bu
               ELSE IF bu = 0 \/ ~FitsSigned(Trunc(as, bs), p.w) THEN z.out = "divide"
               ELSE /\ U(z, 0, p.w) = au
                    /\ Abs(S(z, 2, p.w)) < Abs(bs)
                    /\ S(z, 2, p.w) = 0 \/ (S(z, 2, p.w) < 0) = (as < 0)
          [] goal = "rotate" -> U(z, 0, p.w) = au /\ (p.x = "rcl" => z.f.cf = a.f.cf)
          [] goal = "shift" ->
               /\ U(z, 0, p.w) = MaskW(Shifted(IF p.x = "sar" THEN as ELSE au,
                                               IF p.x = "shl" THEN p.n ELSE -p.n), p.w)
               /\ p.n # 0 => z.f.cf = IF p.x = "shl" THEN Bit(Shifted(au, p.n), n)
                                      ELSE Bit(IF p.x = "sar" THEN as ELSE au, p.n - 1)
          [] goal = "shiftd" ->
               U(z, 0, p.w) = IF p.x = "shld"
                              THEN MaskW(((au * Mod(p.w) + bu) * 2 ^ p.n) \div Mod(p.w), p.w)
                              ELSE MaskW((bu * Mod(p.w) + au) \div 2 ^ p.n, p.w)
          [] goal = "bits" ->
               \* bit k of the string around address p.at
               LET k == as
                   x == p.at + k \div B
                   old == Bit(a.m[x], k % B)
                   new == CASE p.x = "bt" -> old [] p.x = "bts" -> TRUE [] p.x = "btr" -> FALSE [] p.x = "btc" -> ~old
               IN  /\ z.f.cf = old
                   /\ \A y \in DOMAIN z.m, j \in 0 .. B - 1 :
                         Bit(z.m[y], j) = IF y = x /\ j = k % B THEN new ELSE Bit(a.m[y], j)
          [] goal = "count" ->
               LET v == U(z, 3, p.w)
               IN  (CASE p.x = "popcnt" -> v = Cardinality({ j \in 0 .. n - 1 : Bit(au, j) })
                     [] p.x = "bsf"    -> z.f.zf = (au = 0) /\ (au # 0 => au % 2 ^ (v + 1) = 2 ^ v)
                     [] p.x = "bsr"    -> z.f.zf = (au = 0) /\ (au # 0 => au \div 2 ^ v = 1)
                     [] p.x = "tzcnt"  -> IF au = 0 THEN v = n ELSE au % 2 ^ (v + 1) = 2 ^ v
                     [] p.x = "lzcnt"  -> IF au = 0 THEN v = n ELSE au \div 2 ^ (n - 1 - v) = 1)
          [] goal = "same"   -> U(z, 3, p.w) = au
          [] goal = "copied" ->
               /\ z.m = Copied(a.m, p, a.g[6], a.g[7], a.g[1])
               /\ z.g[1] = 0
               /\ z.g[7] = a.g[7] + (IF p.df THEN -p.w ELSE p.w) * a.g[1]
          [] goal = "found"  ->
               LET hit == { j \in 1 .. a.g[1] : (a.m[a.g[7] + j - 1] = au) # p.eq }
                   j   == IF hit = {} THEN a.g[1] ELSE Least(hit)
               IN  z.g[1] = a.g[1] - j /\ z.g[7] = a.g[7] + j
          [] goal = "balanced" ->
               z.g[4] = a.g[4] /\ z.g[5] = a.g[5] /\ z.g[3] = a.g[0]
          [] goal = "flags"  -> z.f = a.f /\ z.df = a.df /\ z.g[4] = a.g[4]
          [] goal = "xstate" ->
               \A x \in X!Xcr0 :
                   LET key == x
                   IN  z.x[key] = IF x \notin p.restore THEN p.other[key]
                                  ELSE IF x \in p.save THEN a.x[key]
                                  ELSE IF x = "x87" THEN X!InitX87 ELSE 0
          [] goal = "sum"    -> U(z, 0, 8) = (a.g[1] * (a.g[1] + 1)) \div 2
          [] goal = "least"  -> S(z, 0, p.w) = (IF as <= bs THEN as ELSE bs) /\ U(z, 2, 1) = Num(as > bs)
          [] goal = "widen"  -> S(z, 3, 8) = as /\ U(z, 1, 8) = au
          [] goal = "code"   -> z.g[3] = 1 + U(a, 0, 1)
          [] goal = "call"   -> z.g[0] = 5 /\ z.g[1] = 1 /\ z.out = "ok"
          [] goal = "any"    -> TRUE

(***************************************************************************)
(* The floating-point and vector programs; registers 0 and 1 are the       *)
(* operands, 0 the result.                                                 *)
(***************************************************************************)

L(d, r, w, k) == X!Ylane(X!Yget(d, r), w, k)
SL(d, r, w, k) == SignExtendW(L(d, r, w, k), w)
Mxr(mx) == [mx EXCEPT !.ftz = @ /\ "U" \in mx.mask]
\* The lanes are right and their exceptions recorded, or some exception is
\* unmasked and the registers are as before; refs(e) are the reference
\* results of the lanes given their magnitudes e.
FpAnswer(a, z, refs, vals) ==
    LET F == UNION { refs[k].f : k \in DOMAIN refs }
    IN  /\ z.mx.fl = a.mx.fl \cup F
        /\ IF F \subseteq a.mx.mask THEN z.out = "ok" /\ \A k \in DOMAIN refs : refs[k].ok /\ refs[k].v = vals[k]
           ELSE z.out = "simd" /\ z.v = a.v /\ z.hi = a.hi
\* The operands of lane k: straight, or the pairs of each 16-byte half.
ArgOf(p, a, k, y) ==
    LET w == X!Bytes(p.f)
        n == 16 \div w
        j == k % n
    IN  IF ~p.pairs THEN L(a, y, w, k)
        ELSE L(a, IF j < n \div 2 THEN 0 ELSE 1, w, (k - j) + 2 * (j % (n \div 2)) + y)
OpAt(p, k) == IF p.x = "addsub" THEN IF k % 2 = 0 THEN "sub" ELSE "add" ELSE p.x
\* A trap leaves no result to take a magnitude from: take the right one.
EncOf(f, mx, op, x, y, z, v) ==
    IF z.out = "ok" \/ NotNum(f, x) \/ NotNum(f, y) \/ Senseless(op, f, x, y) \/ Infinite(op, f, x, y) THEN Enc(f, v)
    ELSE CHOOSE e \in 0 .. InfEnc(f) :
           RoundsTo(f, Way(mx.rc, SignOf(op, f, mx.rc, x, y)), Ideal(op, f, x, y), e)
FpRef(p, a, z, k) ==
    LET x == ArgOf(p, a, k, 0)
        y == ArgOf(p, a, k, 1)
        daz(v) == Flushed(p.f, v, a.mx.daz)
    IN  RefArith(OpAt(p, k), p.f, Mxr(a.mx), x, y,
                 EncOf(p.f, a.mx, OpAt(p, k), daz(x), daz(y), z, L(z, 0, X!Bytes(p.f), k)))
FpMeans(p, a, z) ==
    /\ FpAnswer(a, z, [k \in 0 .. p.n - 1 |-> FpRef(p, a, z, k)], [k \in 0 .. p.n - 1 |-> L(z, 0, X!Bytes(p.f), k)])
    /\ z.out = "ok" => \A k \in p.n * X!Bytes(p.f) .. 31 : L(z, 0, 1, k) = IF p.n = 1 THEN L(a, 0, 1, k) ELSE 0
FmaRef(p, a, z, k) ==
    LET x(j) == L(a, j, 4, k)
        neg(v, s) == IF s /\ ~NotNum(p.f, v) THEN (v + 128) % 256 ELSE v
        o == CASE p.form = 132 -> <<0, 2, 1>> [] p.form = 213 -> <<1, 0, 2>> [] p.form = 231 -> <<1, 2, 0>>
    IN  RefFma(p.f, Mxr(a.mx), neg(x(o[1]), p.negprod), x(o[2]), neg(x(o[3]), p.negadd), Enc(p.f, L(z, 0, 4, k)))
\* v of format f in format g.
CvtRef(f, g, mx, v, e) ==
    IF NotNum(f, v)
    THEN Ref((IF Minus(f, v) THEN 2 ^ (g.bits - 1) ELSE 0) + InfEnc(g)
                 + (Shifted(Enc(f, Hushed(f, v)) - InfEnc(f), g.prec - f.prec)), IF Noisy(f, v) THEN {"I"} ELSE {}, TRUE)
    ELSE IF IsInf(f, v) THEN Ref(Inf(g, Minus(f, v)), {}, TRUE)
    ELSE RefFinite(g, mx, Minus(f, v), Ratio(Signed(f, v) * 2 ^ (IF g.emax > f.emax THEN (g.emax + g.prec) - (f.emax + f.prec) ELSE 0),
                                             2 ^ (IF g.emax < f.emax THEN (f.emax + f.prec) - (g.emax + g.prec) ELSE 0)), {}, e)
\* v of format f rounded to the integer i of w bytes, or the indefinite.
IntMeans(f, way, v, i, w, F) ==
    LET n == Magn(Signed(f, v))
        m == IF Minus(f, v) THEN -i ELSE i
    IN  IF IsInf(f, v) \/ NotNum(f, v) \/ (i = -(Mod(w) \div 2) /\ "I" \in F)
        THEN i = -(Mod(w) \div 2) /\ "I" \in F
             /\ (IsInf(f, v) \/ NotNum(f, v) \/ \A k \in -(Mod(w) \div 2) .. Mod(w) \div 2 - 1 :
                    ~IntRounds(way, n, OneUnits(f), IF Minus(f, v) THEN -k ELSE k))
        ELSE IntRounds(way, n, OneUnits(f), m) /\ ("P" \in F) = (n % OneUnits(f) # 0)

\* Two singles loaded, combined with the extended precision and stored as a
\* single: rounded twice, which the width of the extended makes harmless.
X87Means(p, a, z) ==
    LET x == Val(a, p.at, 4)
        y == Val(a, p.with, 4)
        v == Val(z, p.to, 4)
        mx == [rc |-> X!FpuRound(a), daz |-> FALSE, ftz |-> FALSE]
        r == RefArith(p.x, FMT32, mx, x, y, Enc(FMT32, v))
    IN  r.ok /\ r.v = v /\ z.fp.fl = r.f /\ z.fp.tag = {} /\ z.fp.top = a.fp.top

\* 2^n * a modulo b, and the low three bits of the quotient.
RECURSIVE Modulo(_, _, _, _)
Modulo(q, r, b, n) ==
    IF n = 0 THEN <<q % 8, r>> ELSE Modulo(2 * q + (2 * r) \div b, (2 * r) % b, b, n - 1)
\* p.a * 2^p.n reduced by p.b: the remainder, exact, and the quotient's low
\* bits in C0, C3 and C1, after as many FPREMs as it took.
Reduces(p, z) ==
    LET m == Modulo(p.a \div p.b, p.a % p.b, p.b, p.n)
        up == p.x = "fprem1" /\ (2 * m[2] > p.b \/ (2 * m[2] = p.b /\ m[1] % 2 = 1))
        r == IF up THEN p.b - m[2] ELSE m[2]
        q == IF up THEN (m[1] + 1) % 8 ELSE m[1]
        v == X!StGet(z, 0)
        e == X!ExpField(v) - (p.e + Half)
    IN  /\ ~z.fp.c2
        /\ 4 * Num(z.fp.c0) + 2 * Num(z.fp.c3) + Num(z.fp.c1) = q
        /\ IF r = 0 THEN v % 2 ^ (Ext.bits - 1) = 0
           ELSE X!Mant(v) * 2 ^ (IF e > 0 THEN e ELSE 0) = r * 2 ^ (IF e < 0 THEN -e ELSE 0)
        /\ r # 0 => (v >= 2 ^ (Ext.bits - 1)) = up

\* Programs over lanes of p.w bytes.
Clamped(x, lo, hi) == IF x < lo THEN lo ELSE IF x > hi THEN hi ELSE x
\* The lane operations whose value has another description.
IntMean(op, w, x, y, r) ==
    LET xs == SignExtendW(x, w)
        ys == SignExtendW(y, w)
        rs == SignExtendW(r, w)
        top == Mod(w) \div 2
    IN  CASE op = "avg"    -> 2 * r - (x + y) \in {0, 1}
          [] op = "adds"   -> rs = Clamped(xs + ys, -top, top - 1)
          [] op = "subs"   -> rs = Clamped(xs - ys, -top, top - 1)
          [] op = "mulhrs" -> xs # -top \/ ys # -top => (2 * (rs * top - xs * ys) > -top /\ 2 * (rs * top - xs * ys) <= top)
          [] op = "sign"   -> rs = xs * (IF ys > 0 THEN 1 ELSE IF ys < 0 THEN -1 ELSE 0) \/ xs = -top
          [] op = "maxs"   -> {xs, ys} = {rs} \cup {xs + ys - rs} /\ rs >= xs + ys - rs
          [] op = "minu"   -> {x, y} = {r} \cup {x + y - r} /\ r <= x + y - r
          [] op = "madd"   ->
               LET h == w \div 2
                   f(v, k) == SignExtendW(v \div Mod(h) ^ k, h)
               IN  r = MaskW(f(x, 0) * f(y, 0) + f(x, 1) * f(y, 1), w)
\* The comparisons by the name of the predicate: the order and what NaNs do.
PredRef(k, x, y, un) ==
    LET lt == ~un /\ Signed(FMT32, x) < Signed(FMT32, y)
        eq == ~un /\ Signed(FMT32, x) = Signed(FMT32, y)
        gt == ~un /\ ~lt /\ ~eq
    IN  CASE k = 0 -> eq [] k = 1 -> lt [] k = 2 -> lt \/ eq [] k = 3 -> un
          [] k = 4 -> ~eq [] k = 5 -> ~lt [] k = 6 -> ~(lt \/ eq) [] k = 7 -> ~un
          [] k = 8 -> eq \/ un [] k = 9 -> ~(gt \/ eq) [] k = 10 -> ~gt [] k = 11 -> FALSE
          [] k = 12 -> lt \/ gt [] k = 13 -> gt \/ eq [] k = 14 -> gt [] k = 15 -> TRUE
\* Where the zero-terminated string of register 0 first occurs in that of
\* register 1, an occurrence cut short by the end of the register counted.
StrEnd(d, r) == Least({ k \in 0 .. 15 : L(d, r, 1, k) = 0 } \cup {16})
Occurs(d, j) ==
    \A k \in 0 .. StrEnd(d, 0) - 1 : j + k > 15 \/ (j + k < StrEnd(d, 1) /\ L(d, 0, 1, k) = L(d, 1, 1, j + k))
\* Lane k of the sources of a gather or of a masked move.
PickedAt(p, a, k) == IF p.x = "gather" THEN a.g[5] + SL(a, 1, 4, k) ELSE a.g[5] + k * p.w
VectorMeans(goal, p, a, z) ==
    LET lanes == 0 .. (16 \div p.w) - 1
    IN  CASE goal = "ints" -> \A k \in lanes : IntMean(p.x, p.w, L(a, 0, p.w, k), L(a, 1, p.w, k), L(z, 0, p.w, k))
          [] goal = "wideprod" ->
               \A k \in lanes : IF p.x = "mulh"
                                THEN SL(z, 0, p.w, k) * Mod(p.w) + L(z, 2, p.w, k) = SL(a, 0, p.w, k) * SL(a, 1, p.w, k)
                                ELSE L(z, 0, p.w, k) * Mod(p.w) + L(z, 2, p.w, k) = L(a, 0, p.w, k) * L(a, 1, p.w, k)
          [] goal = "compared" ->
               \A k \in lanes :
                   LET x == L(a, 0, 4, k)
                       y == L(a, 1, 4, k)
                   IN  L(z, 0, 4, k) = IF PredRef(p.imm % 16, x, y, NotNum(FMT32, x) \/ NotNum(FMT32, y)) THEN Mod(4) - 1 ELSE 0
          [] goal = "occurs" -> z.g[1] = Least({ j \in 0 .. 15 : Occurs(a, j) } \cup {16})
          [] goal = "crc" -> z.g[0] = z.g[1]
          [] goal = "selected" ->
               \A k \in lanes :
                   L(z, 0, p.w, k) = IF X!LaneTop(a.v[2], p.w, k) THEN Val(a, PickedAt(p, a, k), p.w)
                                     ELSE IF p.x = "gather" THEN L(a, 0, p.w, k) ELSE 0
          [] goal = "masked" ->
               \A x \in DOMAIN z.m :
                   LET o == x - a.g[5]
                   IN  z.m[x] = IF o \in 0 .. 15 /\ X!LaneTop(a.v[2], p.w, o \div p.w) THEN a.v[0][o] ELSE a.m[x]
          [] goal = "halves" ->
               \* to halves and back: the half nearest, in the mode
               \A k \in lanes :
                   LET h == L(z, 1, 2, k)
                       r == CvtRef(FMT32, FMT16, a.mx, L(a, 0, 4, k), Enc(FMT16, h))
                       s == CvtRef(FMT16, FMT32, a.mx, h, Enc(FMT32, L(z, 0, 4, k)))
                   IN  r.ok /\ r.v = h /\ s.ok /\ s.v = L(z, 0, 4, k)
          [] goal = "dot" ->
               \* integers small enough for every product and sum to be exact
               LET u(r, k) == Signed(FMT32, L(a, r, 4, k)) \div OneUnits(FMT32)
                   t(k) == IF Bit(p.imm, 4 + k) THEN u(0, k) * u(1, k) ELSE 0
               IN  \A k \in lanes :
                       Signed(FMT32, L(z, 0, 4, k)) = IF Bit(p.imm, k) THEN (t(0) + t(1) + t(2) + t(3)) * OneUnits(FMT32) ELSE 0
          [] goal = "agree" -> z.out = "ok" /\ z.v[2] = z.v[3] /\ z.hi[2] = z.hi[3]
          [] goal = "aligned" ->
               IF p.at % 16 # 0 THEN z.out = "gp" /\ z.m = a.m
               ELSE z.out = "ok" /\ \A x \in 0 .. 15 : z.m[41 + x] = a.m[p.at + x]
          [] goal = "cleared" -> z.fp.tag = {} /\ z.m = [a.m EXCEPT ![40] = (a.m[18] + a.m[22]) % 4, ![41] = (a.m[19] + a.m[23]) % 4,
                ![42] = (a.m[20] + a.m[24]) % 4, ![43] = (a.m[21] + a.m[25]) % 4, ![44] = (a.m[22] + a.m[26]) % 4,
                ![45] = (a.m[23] + a.m[27]) % 4, ![46] = (a.m[24] + a.m[28]) % 4, ![47] = (a.m[25] + a.m[29]) % 4]
          [] goal = "bmi" ->
               LET x == U(a, 0, p.w)
                   y == U(a, 3, p.w)
                   r == U(z, 2, p.w)
                   ones == Ones(y, p.w)
               IN  CASE p.x = "pext"  -> r = U(z, 1, p.w)
                     [] p.x = "blsi"  -> U(z, 1, p.w) + r = y /\ r \in {0} \cup { 2 ^ j : j \in ones } /\ (y # 0 => r # 0 /\ y % (2 * r) = r)
                     [] p.x = "mulx"  -> U(z, 1, p.w) * Mod(p.w) + r = x * y
                     [] p.x = "rorx"  -> r = x
                     [] p.x = "bzhi"  -> r = IF MaskW(y, 1) < p.w * B THEN x % 2 ^ MaskW(y, 1) ELSE x
                     [] p.x = "bextr" -> r = (x \div 2 ^ MaskW(y, 1)) % 2 ^ Byte(y, 1)

MeansV(goal, p, a, z) ==
    CASE goal = "fp" -> FpMeans(p, a, z)
      [] goal = "fma" ->
           FpAnswer(a, z, [k \in 0 .. p.n - 1 |-> FmaRef(p, a, z, k)], [k \in 0 .. p.n - 1 |-> L(z, 0, 4, k)])
      [] goal = "via" ->
           LET r == RefArith(p.x, FMT32, a.mx, L(a, 0, 4, 0), L(a, 1, 4, 0), Enc(FMT32, L(z, 0, 4, 0)))
           IN  r.ok /\ r.v = L(z, 0, 4, 0) /\ z.mx.fl = r.f
      [] goal = "x87" -> X87Means(p, a, z)
      [] goal = "integer" ->
           LET v == Val(a, p.at, 4)
           IN  IntMeans(FMT32, Way(X!FpuRound(a), Minus(FMT32, v)), v, SignExtendW(Val(z, p.to, p.w), p.w), p.w, z.fp.fl)
      [] goal = "kept" -> \A x \in 0 .. p.w - 1 : z.m[p.to + x] = a.m[p.at + x]
      [] goal = "saved" -> z.fp = a.fp
      [] goal = "pushed" ->
           IF p.n <= 8 THEN z.fp.tag = { (8 - k) % 8 : k \in 1 .. p.n } /\ z.fp.fl = {}
           ELSE IF Bit(a.fp.cw, 0)
           THEN X!StGet(z, 0) = X!Indef80 /\ z.fp.fl = {"I", "S"} /\ z.fp.c1 /\ z.fp.tag = 0 .. 7
           ELSE z.out = "x87" /\ z.fp.top = 0 /\ \A r \in 0 .. 7 : z.fp.st[r] = X!One80
      [] goal = "reduced" -> Reduces(p, z)
      [] goal = "comi" ->
           LET x == Val(a, p.at, 4)
               y == Val(a, p.with, 4)
               un == NotNum(FMT32, x) \/ NotNum(FMT32, y)
           IN  /\ z.f.pf = un
               /\ z.f.zf = (un \/ Signed(FMT32, x) = Signed(FMT32, y))
               /\ z.f.cf = (un \/ Signed(FMT32, x) < Signed(FMT32, y))
      [] OTHER -> VectorMeans(goal, p, a, z)
VectorGoals == {"agree", "aligned", "ints", "wideprod", "compared", "occurs", "crc", "selected", "masked", "bmi", "halves", "dot", "cleared",
                "fp", "fma", "via", "x87", "integer", "kept", "saved", "pushed", "reduced", "comi"}

MeansA(goal, p, a, z) ==
    LET au == U(a, 0, p.w)
        bu == U(a, 1, p.w)
        as == S(a, 0, p.w)
        bs == S(a, 1, p.w)
        n  == p.w * B
        r  == U(z, 2, p.w)
    IN  CASE goal = "order" -> OrderA(a, z, p.w)
          [] goal = "wide" ->
               Pair(z, 0, 1, p.w) = (IF p.sub THEN Pair(a, 0, 1, p.w) - Pair(a, 2, 3, p.w)
                                     ELSE Pair(a, 0, 1, p.w) + Pair(a, 2, 3, p.w)) % Mod(2 * p.w)
          [] goal = "moved"  -> r = Moved(p, au, U(a, 2, p.w), n)
          [] goal = "pattern" ->
               IF Pattern(p.n, p.immr, p.imms) = {} THEN z.out = "illegal"
               ELSE Ones(z.g[2], 8) = Pattern(p.n, p.immr, p.imms)
          [] goal = "divmod" ->
               IF bu = 0 THEN U(z, 2, p.w) = 0 /\ U(z, 3, p.w) = au
               ELSE IF p.x = "udiv" THEN U(z, 3, p.w) = au % bu
               ELSE S(z, 3, p.w) = as - Trunc(as, bs) * bs
          [] goal = "lowest" ->
               \* CLZ of RBIT, and RBIT undone
               /\ U(z, 1, p.w) = au
               /\ IF au = 0 THEN r = n ELSE au % 2 ^ (r + 1) = 2 ^ r
          [] goal = "signs"  ->
               \* CLS: that many bits below the sign repeat it
               r = Greatest({ k \in 0 .. n - 1 : \A j \in 1 .. k : Bit(au, n - 1 - j) = SignBit(au, p.w) })
          [] goal = "swapped" -> \A k \in 0 .. p.w - 1 : Byte(r, k) = Byte(au, (k - (k % p.n)) + (p.n - 1 - (k % p.n)))
          [] goal = "rotated" -> r = MaskW(Shifted(au, n - p.n), p.w) + (au \div 2 ^ p.n)
          [] goal = "abs"    -> r = MaskW(Abs(as), p.w)
          [] goal = "both"   -> (r = 1) = (au = 3 /\ bs > -2)
          [] goal = "balanced" -> z.sp = a.sp /\ z.g[2] = a.g[0] /\ z.g[3] = a.g[1] /\ z.g[4] = a.g[1]
          [] goal = "spread" ->
               /\ \A x \in 0 .. p.total - 1 : z.m[p.to + x] = a.m[p.at + x]
               /\ \A s \in 0 .. p.selem - 1, e \in 0 .. (p.reg \div p.eb) - 1, b \in 0 .. p.eb - 1 :
                     z.v[(p.rt + s) % VRegs][e * p.eb + b] = a.m[p.at + (e * p.selem + s) * p.eb + b]
               /\ z.g[1] = p.at + p.total
          [] goal = "lanes"  ->
               \A s \in 0 .. p.selem - 1, b \in 0 .. VBytes - 1 :
                   z.v[s][b] = IF p.all \/ b \div p.eb = p.index THEN a.m[p.at + s * p.eb + (b % p.eb)]
                               ELSE a.v[s][b]
          [] goal = "recode" -> z.g[2] = 1 + a.g[0] \div 4 ^ (p.n - 1)
          [] goal = "zeroed" -> \A x \in DOMAIN z.m :
                                   z.m[x] = IF x \div Granule = a.g[1] \div Granule THEN 0 ELSE a.m[x]
          [] goal = "linked" -> z.g[2] = p.n /\ z.g[0] = 5
          [] goal = "built"  -> z.g[2] = p.n
          [] goal = "flags"  -> z.f = a.f
          [] goal = "any"    -> TRUE


(***************************************************************************)
(* The floating-point and vector programs of AArch64: registers 0 and 1    *)
(* are the operands, 2 the accumulator and the result.                     *)
(***************************************************************************)

AL(d, r, w, k) == A!ValOf(d.v[r], k * w, w)
ArmEnv(f, c) == [rm |-> c.rm, fz |-> IF f.bits = 4 THEN c.fz16 ELSE c.fz, dn |-> c.dn]
Flip(f, v) == (v + 2 ^ (f.bits - 1)) % 2 ^ f.bits
One1(f) == f.emax * Power(f)
\* Infinity times zero.
Null(f, a, b) == (IsInf(f, a) /\ Zero(f, b)) \/ (Zero(f, a) /\ IsInf(f, b))
Quiet(f, y) == NotNum(f, y) /\ ~Noisy(f, y)
\* x on numbers a and b, accumulated on c.
ArmNumbers(x, f, n, a, b, c, D, e) ==
    CASE x \in {"add", "sub", "mul", "mulx", "div", "sqrt"} -> ArmOp(IF x = "mulx" THEN "mul" ELSE x, f, n, a, b, D, e)
      [] x \in {"max", "min", "maxnm", "minnm"} -> ArmExtreme(f, x \in {"max", "maxnm"}, a, b, D)
      [] x \in {"recps", "rsqrts"} ->
           ArmFused(f, n, Flip(f, a), b, (IF x = "recps" THEN 2 ELSE 3) * OneUnits(f), IF x = "recps" THEN 1 ELSE 2, D, e)
      [] x = "mla" -> ArmFma(f, n, c, a, b, D, e)
\* The operands a NaN is taken from, in order, as u, v and c are given.
NanOrder(x, f, u, v, c) ==
    CASE x = "sqrt" -> <<v>> [] x = "mla" -> <<c, u, v>> [] x \in {"recps", "rsqrts"} -> <<Flip(f, u), v>> [] OTHER -> <<u, v>>
ArmArith(x, f, n, u, v, c, a, b, d, s, D, e) ==
    IF x \in {"maxnm", "minnm"} /\ Quiet(f, u) /\ ~NotNum(f, v) THEN Ref(b, D, TRUE)
    ELSE IF x \in {"maxnm", "minnm"} /\ Quiet(f, v) /\ ~NotNum(f, u) THEN Ref(a, D, TRUE)
    ELSE IF x = "mla" /\ Quiet(f, c) /\ Null(f, a, b) THEN Ref(ArmDefault(f), D \cup {"I"}, TRUE)
    ELSE IF \E j \in DOMAIN s : NotNum(f, s[j]) THEN ArmNan(f, n, s, D)
    ELSE IF x \in {"mulx", "recps", "rsqrts"} /\ Null(f, a, b)
    THEN Ref(Encoded(f, x = "mulx" /\ Minus(f, a) # Minus(f, b), One1(f) + (IF x = "rsqrts" THEN Power(f) \div 2 ELSE Power(f))), D, TRUE)
    ELSE ArmNumbers(x, f, n, a, b, d, D, e)
ArmSign(x, f, r) == IF x = "abd" THEN [r EXCEPT !.v = Enc(f, @)] ELSE IF x = "nmul" THEN [r EXCEPT !.v = Flip(f, @)] ELSE r
BaseOp(x) == CASE x = "abd" -> "sub" [] x = "nmul" -> "mul" [] x = "mls" -> "mla" [] OTHER -> x
ArmRef(x, f, n, u, v, c, r) ==
    ArmSign(x, f, ArmArith(BaseOp(x), f, n, u, v, c, Flushed(f, u, n.fz), Flushed(f, v, n.fz), Flushed(f, c, n.fz),
                           NanOrder(BaseOp(x), f, u, v, c),
                           ArmFlushes(f, n, CASE x = "sqrt" -> {v} [] x \in {"mla", "mls"} -> {u, v, c} [] OTHER -> {u, v}), Enc(f, r)))
ArmAnswer(p, a, z, refs) ==
    /\ z.out = "ok"
    /\ z.fpsr = a.fpsr \cup UNION { refs[k].f : k \in DOMAIN refs }
    /\ \A k \in DOMAIN refs : refs[k].ok /\ refs[k].v = AL(z, 2, p.w, k)
\* A comparison's lane, and whether it is invalid.
ArmTrue(x, f, u, v) ==
    LET un == NotNum(f, u) \/ NotNum(f, v)
    IN  CASE x = "eq" -> ~un /\ Signed(f, u) = Signed(f, v)
          [] x = "ge" -> ~un /\ Signed(f, u) >= Signed(f, v)
          [] x = "gt" -> ~un /\ Signed(f, u) > Signed(f, v)
ArmCompare(p, n, u, v) ==
    Ref(IF ArmTrue(p.x, p.t, Flushed(p.t, u, n.fz), Flushed(p.t, v, n.fz)) THEN Mod(p.w) - 1 ELSE 0,
        ArmFlushes(p.t, n, {u, v})
            \cup (IF (p.x = "eq" /\ (Noisy(p.t, u) \/ Noisy(p.t, v))) \/ (p.x # "eq" /\ (NotNum(p.t, u) \/ NotNum(p.t, v)))
                  THEN {"I"} ELSE {}), TRUE)
\* v to an integer with p.fb fraction bits, i the one given: the nearest of
\* those there are.
ArmInteger(p, n, v, r) ==
    LET x  == Signed(p.t, Flushed(p.t, v, n.fz))
        i  == IF p.u THEN r ELSE SignExtendW(r, p.w)
        lo == IF p.u THEN 0 ELSE -(Mod(p.w) \div 2)
        hi == IF p.u THEN Mod(p.w) - 1 ELSE Mod(p.w) \div 2 - 1
        N  == Magn(x) * 2 ^ p.fb
        way == ArmWay([rm |-> p.mode], x < 0)
        gone == IF x < 0 THEN ~IntRounds(way, N, OneUnits(p.t), -i) ELSE ~IntRounds(way, N, OneUnits(p.t), i)
        I  == ArmFlushes(p.t, n, {v}) \cup {"I"}
    IN  IF NotNum(p.t, v) THEN Ref(0, {"I"}, TRUE)
        ELSE IF IsInf(p.t, v) THEN Ref(MaskW(IF x < 0 THEN lo ELSE hi, p.w), {"I"}, TRUE)
        ELSE IF gone THEN Ref(MaskW(IF x < 0 THEN lo ELSE hi, p.w), I,
                              \A j \in lo .. hi : ~IntRounds(way, N, OneUnits(p.t), IF x < 0 THEN -j ELSE j))
        ELSE Ref(r, (I \ {"I"}) \cup (IF N % OneUnits(p.t) # 0 THEN {"X"} ELSE {}), TRUE)
\* The integral value nearest, as a float.
ArmIntegral(p, n, v, r) ==
    LET y == Flushed(p.t, v, n.fz)
        D == ArmFlushes(p.t, n, {v})
        m == Magn(Signed(p.t, y))
        one == OneUnits(p.t)
    IN  IF NotNum(p.t, v) THEN ArmNan(p.t, n, <<v>>, D)
        ELSE IF IsInf(p.t, y) THEN Ref(y, D, TRUE)
        ELSE Ref(Encoded(p.t, Minus(p.t, y), Enc(p.t, r)),
                 D \cup (IF p.exact /\ m % one # 0 THEN {"X"} ELSE {}),
                 Units(p.t, Enc(p.t, r)) % one = 0
                     /\ IntRounds(ArmWay([rm |-> p.mode], Minus(p.t, y)), m, one, Units(p.t, Enc(p.t, r)) \div one))
\* v of format f in format g.
ArmConvert(f, g, n, v, r) ==
    LET to == [n EXCEPT !.fz = @ /\ g.bits > 4]
        fr == [n EXCEPT !.fz = @ /\ f.bits > 4]
        y  == Flushed(f, v, fr.fz)
        c  == CvtRef(f, g, [rc |-> "nearest", ftz |-> FALSE, daz |-> FALSE], v, 0)
    IN  IF NotNum(f, v) THEN Ref(IF n.dn THEN ArmDefault(g) ELSE c.v, c.f, TRUE)
        ELSE IF IsInf(f, y) THEN Ref(Inf(g, Minus(f, y)), {}, TRUE)
        ELSE ArmFinite(g, to, Minus(f, y),
                       Ratio(Signed(f, y) * 2 ^ (IF g.emax > f.emax THEN (g.emax + g.prec) - (f.emax + f.prec) ELSE 0),
                             2 ^ (IF g.emax < f.emax THEN (f.emax + f.prec) - (g.emax + g.prec) ELSE 0)),
                       ArmFlushes(f, fr, {v}), Enc(g, r))
ArmGoals == {"arith", "compare", "toint", "fromint", "integral", "convert", "condition", "js", "twice"}
\* The lanes' references, with the values the program gave.
ArmLanes(goal, p, a, z) ==
    LET n == ArmEnv(p.t, a.fpcr)
    IN  [k \in 0 .. p.n - 1 |->
            CASE goal = "arith"    -> ArmRef(p.x, p.t, n, IF p.x = "mls" THEN Flip(p.t, AL(a, 0, p.w, k)) ELSE AL(a, 0, p.w, k),
                                           AL(a, 1, p.w, k), AL(a, 2, p.w, k), AL(z, 2, p.w, k))
              [] goal = "compare"  -> ArmCompare(p, n, AL(a, 0, p.w, k), AL(a, 1, p.w, k))
              [] goal = "toint"    -> ArmInteger(p, n, AL(a, 0, p.w, k), AL(z, 2, p.w, k))
              [] goal = "integral" -> ArmIntegral(p, n, AL(a, 0, p.w, k), AL(z, 2, p.w, k))
              [] goal = "convert"  -> ArmConvert(p.from, p.t, [n EXCEPT !.fz = a.fpcr.fz], AL(a, 0, p.from.bits \div B, k), AL(z, 2, p.w, k))
              [] goal = "fromint"  ->
                   LET i == IF p.u THEN AL(a, 0, p.w, k) ELSE SignExtendW(AL(a, 0, p.w, k), p.w)
                   IN  IF i = 0 THEN Ref(0, {}, TRUE)
                       ELSE ArmFinite(p.t, n, i < 0, Ratio(i * OneUnits(p.t), 2 ^ p.fb), {}, Enc(p.t, AL(z, 2, p.w, k)))]
MeansN(goal, p, a, z) ==
    CASE goal = "twice" -> z.out = "ok" /\ z.v[2] = z.v[3]
      [] goal = "js" -> z.g[2] = MaskW(p.n, 4) /\ z.f.z = FitsSigned(p.n, 4)
      [] goal = "condition" ->
           LET u == AL(a, 0, p.w, 0)
               v == AL(a, 1, p.w, 0)
               un == NotNum(p.t, u) \/ NotNum(p.t, v)
               holds(cc) == A!CondHolds(z.f, cc)
           IN  /\ holds(0) = ArmTrue("eq", p.t, u, v)
               /\ holds(4) = ArmTrue("gt", p.t, v, u)
               /\ holds(10) = ArmTrue("ge", p.t, u, v)
               /\ holds(12) = ArmTrue("gt", p.t, u, v)
               /\ holds(6) = un
               /\ AL(z, 2, p.w, 0) = IF ArmTrue("gt", p.t, u, v) THEN u ELSE v
      [] OTHER -> \E refs \in {ArmLanes(goal, p, a, z)} : ArmAnswer(p, a, z, refs)
==============================================================================
