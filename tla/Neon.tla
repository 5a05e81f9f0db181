-------------------------------- MODULE Neon ---------------------------------
(***************************************************************************)
(* The AArch64 CPU's floating point (interp/fpu.rs, interp/fp.rs): the     *)
(* arithmetic on bit patterns with FPCR's modes and FPSR's cumulative      *)
(* flags, and the scalar instructions over it.                             *)
(*                                                                         *)
(* A format t is [bits, prec, emax].  The environment n is FPCR's fields   *)
(* [rm, fz, fz16, dn, ahp] and whether FPSR's inexact flag is set (ixc).   *)
(* An operation gives a value with the flags it raises (Done), or an exact *)
(* result that is still to be rounded (Exactly).  The u128 the code works  *)
(* in has Wide bits.                                                       *)
(***************************************************************************)
EXTENDS A64

CONSTANTS FMT16, FMT32, FMT64,
          Est       \* bits of the reciprocal estimates' tables, 8 in the code

Wide == 30

(***************************************************************************)
(* Formats and the environment.                                            *)
(***************************************************************************)

Frac(t) == t.prec - 1
MinExp(t) == 1 - t.emax
MaxBiased(t) == 2 * t.emax + 1
SignUnit(t) == 2 ^ (t.bits - 1)
Signed(t, s, mag) == IF s THEN mag + SignUnit(t) ELSE mag
DefaultNan(t) == MaxBiased(t) * 2 ^ Frac(t) + 2 ^ (Frac(t) - 1)
Infinity(t, s) == Signed(t, s, MaxBiased(t) * 2 ^ Frac(t))
ZeroOf(t, s) == Signed(t, s, 0)
MaxNormal(t, s) == Signed(t, s, MaxBiased(t) * 2 ^ Frac(t) - 1)
Normal(t, s, exp, frac) == Signed(t, s, (exp + t.emax) * 2 ^ Frac(t) + frac)
Negated(t, v) == (v + SignUnit(t)) % 2 ^ t.bits
IsNan(t, v) == v % SignUnit(t) > MaxBiased(t) * 2 ^ Frac(t)

Fz(n, t) == IF t = FMT16 THEN n.fz16 ELSE n.fz
FzCv(n, t) == t # FMT16 /\ n.fz
Plain(n) == n.rm = "even" /\ ~n.fz
FastHost(n) == Plain(n) /\ n.ixc
\* host_ok: beyond the smallest normal, where no rounding was tiny.
HostOk(t, v) ==
    /\ v % SignUnit(t) < MaxBiased(t) * 2 ^ Frac(t)
    /\ v % SignUnit(t) > 2 ^ Frac(t)

Done(v, F) == [done |-> TRUE, v |-> v, fl |-> F]
Exactly(s, m, e, st, F) == [done |-> FALSE, s |-> s, m |-> m, e |-> e, st |-> st, fl |-> F]
Raised(r, F) == [r EXCEPT !.fl = @ \cup F]

(***************************************************************************)
(* Operands.                                                               *)
(***************************************************************************)

UnpackWith(v, t, fz, ahp) ==
    LET be   == (v \div 2 ^ Frac(t)) % (MaxBiased(t) + 1)
        frac == v % 2 ^ Frac(t)
        un(k, m, e, F) == [k |-> k, s |-> v >= SignUnit(t), m |-> m, e |-> e, v |-> v, fl |-> F]
    IN  CASE be = 0 /\ frac = 0 -> un("zero", 0, 0, {})
          [] be = 0 /\ frac # 0 /\ fz -> un("zero", 0, 0, IF t = FMT16 THEN {} ELSE {"D"})
          [] be = 0 /\ frac # 0 /\ ~fz -> un("finite", frac, MinExp(t) - Frac(t), {})
          [] be = MaxBiased(t) /\ ~(t = FMT16 /\ ahp) ->
               un(IF frac = 0 THEN "inf" ELSE IF Bit(frac, Frac(t) - 1) THEN "qnan" ELSE "snan", 0, 0, {})
          [] OTHER -> un("finite", frac + 2 ^ Frac(t), be - t.emax - Frac(t), {})
Unpack(v, t, n) == UnpackWith(v, t, Fz(n, t), FALSE)
UnpackCv(v, t, n) == UnpackWith(v, t, FzCv(n, t), n.ahp)

Nan(u) == u.k \in {"qnan", "snan"}
ProcessNan(u, t, n) ==
    Done(IF n.dn THEN DefaultNan(t) ELSE IF u.k = "snan" THEN u.v + 2 ^ (Frac(t) - 1) ELSE u.v,
         u.fl \cup (IF u.k = "snan" THEN {"I"} ELSE {}))
\* The operand process_nans2 and process_nans3 take: the first signalling
\* one, else the first quiet one.
FirstNan(us) ==
    LET noisy == { k \in DOMAIN us : us[k].k = "snan" }
    IN  us[Least(IF noisy # {} THEN noisy ELSE { k \in DOMAIN us : Nan(us[k]) })]
NanConvert(v, from, to) ==
    LET payload == v % 2 ^ (Frac(from) - 1)
    IN  Signed(to, v >= SignUnit(from),
               DefaultNan(to) + (IF to.prec >= from.prec THEN payload * 2 ^ (to.prec - from.prec)
                                 ELSE payload \div 2 ^ (from.prec - to.prec)))

(***************************************************************************)
(* Rounding.                                                               *)
(***************************************************************************)

Msb(m) == CHOOSE k \in 0 .. Wide - 1 : 2 ^ k <= m /\ m < 2 ^ (k + 1)

RestOf(rem, half, st) ==
    CASE rem = 0 /\ ~st -> "exact"
      [] rem > half \/ (rem = half /\ st) -> "above"
      [] rem = half /\ ~st -> "half"
      [] OTHER -> "below"
\* <<the bits kept, what was dropped against half a unit>>
ShiftRest(m, by, st) ==
    IF by <= 0 THEN <<m * 2 ^ (-by), "exact">>
    ELSE IF by > Wide THEN <<0, IF m # 0 \/ st THEN "below" ELSE "exact">>
    ELSE <<m \div 2 ^ by, RestOf(m % 2 ^ by, 2 ^ (by - 1), st)>>
RoundsUp(mode, s, odd, rest) ==
    CASE mode = "even" -> rest = "above" \/ (rest = "half" /\ odd)
      [] mode = "away" -> rest \in {"above", "half"}
      [] mode = "up"   -> rest # "exact" /\ ~s
      [] mode = "down" -> rest # "exact" /\ s
      [] mode \in {"zero", "odd"} -> FALSE
ToInf(mode, s) == mode \in {"even", "away"} \/ (mode = "up" /\ ~s) \/ (mode = "down" /\ s)

\* The kept bits in place, carries of the rounding included: the encoding's
\* magnitude, when nothing overflows.
Placed(t, mode, s, biased, k) ==
    LET up  == k[1] + Num(RoundsUp(mode, s, k[1] % 2 = 1, k[2]))
        odd == IF mode = "odd" /\ k[2] # "exact" /\ up % 2 = 0 THEN up + 1 ELSE up
    IN  IF biased = 0 THEN odd ELSE (biased - 1) * 2 ^ Frac(t) + odd
Bounded(t, mode, s, ahp, mag, F) ==
    IF ahp /\ mag >= 2 * (MaxBiased(t) + 1) * 2 ^ (Frac(t) - 1)
    THEN Done(Signed(t, s, SignUnit(t) - 1), (F \ {"X"}) \cup {"I"})
    ELSE IF ~ahp /\ mag >= MaxBiased(t) * 2 ^ Frac(t)
    THEN Done(IF ToInf(mode, s) THEN Infinity(t, s) ELSE MaxNormal(t, s), F \cup {"O", "X"})
    ELSE Done(Signed(t, s, mag), F)
\* biased is 0 for a magnitude below the smallest normal, where an inexact
\* result is an underflow (tininess is before rounding).
RoundAt(t, mode, s, ahp, biased, k, F) ==
    Bounded(t, mode, s, ahp, Placed(t, mode, s, biased, k),
            F \cup (IF k[2] = "exact" THEN {} ELSE {"X"} \cup (IF biased = 0 THEN {"U"} ELSE {})))
RoundFull(x, t, mode, fz, ahp) ==
    LET e    == x.e + Msb(x.m)
        tiny == e < MinExp(t)
    IN  IF fz /\ tiny THEN Done(ZeroOf(t, x.s), x.fl \cup {"U"})
        ELSE RoundAt(t, mode, x.s, ahp, IF tiny THEN 0 ELSE e - MinExp(t) + 1,
                     ShiftRest(x.m, (IF tiny THEN MinExp(t) ELSE e) - Frac(t) - x.e, x.st), x.fl)
\* An operation's result: rounded in the environment's mode; without the
\* flags when the host computed it (fast2!), which the code lets it do when
\* the inexact flag is already up.
Rounded(x, t, n) == IF x.done THEN x ELSE RoundFull(x, t, n.rm, Fz(n, t), FALSE)
HostFast(r, t, n, zero) ==
    IF FastHost(n) /\ t # FMT16 /\ (HostOk(t, r.v) \/ (zero /\ r.v % SignUnit(t) = 0)) THEN Done(r.v, {}) ELSE r

CancelZero(t, n, F) == Done(ZeroOf(t, n.rm = "down"), F)
\* add_exact on operands with their top bit at Wide - 3, the larger first.
Aligned(m, e) == [m |-> m * 2 ^ (Wide - 3 - Msb(m)), e |-> e - (Wide - 3 - Msb(m))]
SumOf(sa, a, sb, b, t, n, F) ==
    LET d  == a.e - b.e
        lo == IF d >= Wide - 1 THEN 0 ELSE b.m \div 2 ^ d
        st == IF d >= Wide - 1 THEN TRUE ELSE b.m % 2 ^ d # 0
        r  == IF sa = sb THEN a.m + lo ELSE a.m - lo - Num(st)
    IN  IF r = 0 /\ ~st THEN CancelZero(t, n, F) ELSE Exactly(sa, r, a.e, st, F)
Ordered2(sa, a, sb, b, t, n, F) ==
    IF b.e > a.e \/ (b.e = a.e /\ b.m > a.m) THEN SumOf(sb, b, sa, a, t, n, F) ELSE SumOf(sa, a, sb, b, t, n, F)
AddExact(sa, ma, ea, sb, mb, eb, t, n, F) == Ordered2(sa, Aligned(ma, ea), sb, Aligned(mb, eb), t, n, F)

(***************************************************************************)
(* Arithmetic, on unpacked operands.                                       *)
(***************************************************************************)

AddUn(a, b, neg, t, n) ==
    LET F  == a.fl \cup b.fl
        sb == b.s # neg
    IN  CASE Nan(a) \/ Nan(b) -> Raised(ProcessNan(FirstNan(<<a, b>>), t, n), F)
          [] a.k = "inf" /\ b.k = "inf" /\ a.s # sb -> Done(DefaultNan(t), F \cup {"I"})
          [] a.k = "inf" /\ ~Nan(b) /\ ~(b.k = "inf" /\ a.s # sb) -> Done(Infinity(t, a.s), F)
          [] a.k \in {"zero", "finite"} /\ b.k = "inf" -> Done(Infinity(t, sb), F)
          [] a.k = "zero" /\ b.k = "zero" -> IF a.s = sb THEN Done(ZeroOf(t, a.s), F) ELSE CancelZero(t, n, F)
          [] a.k = "zero" /\ b.k = "finite" -> Exactly(sb, b.m, b.e, FALSE, F)
          [] a.k = "finite" /\ b.k = "zero" -> Exactly(a.s, a.m, a.e, FALSE, F)
          [] OTHER -> AddExact(a.s, a.m, a.e, sb, b.m, b.e, t, n, F)
MulUn(a, b, mulx, t, n) ==
    LET F == a.fl \cup b.fl
        s == a.s # b.s
    IN  CASE Nan(a) \/ Nan(b) -> Raised(ProcessNan(FirstNan(<<a, b>>), t, n), F)
          [] {a.k, b.k} = {"inf", "zero"} ->
               IF mulx THEN Done(Normal(t, s, 1, 0), F) ELSE Done(DefaultNan(t), F \cup {"I"})
          [] {a.k, b.k} \in {{"inf"}, {"inf", "finite"}} -> Done(Infinity(t, s), F)
          [] {a.k, b.k} \in {{"zero"}, {"zero", "finite"}} -> Done(ZeroOf(t, s), F)
          [] OTHER -> Exactly(s, a.m * b.m, a.e + b.e, FALSE, F)
\* The numerator's top bit is moved to bit Wide - 2.
DivUn(a, b, t, n) ==
    LET F  == a.fl \cup b.fl
        s  == a.s # b.s
        sh == Wide - 2 - Msb(a.m)
    IN  CASE Nan(a) \/ Nan(b) -> Raised(ProcessNan(FirstNan(<<a, b>>), t, n), F)
          [] a.k = b.k /\ a.k \in {"inf", "zero"} -> Done(DefaultNan(t), F \cup {"I"})
          [] a.k = "inf" /\ b.k \in {"zero", "finite"} -> Done(Infinity(t, s), F)
          [] a.k = "finite" /\ b.k = "zero" -> Done(Infinity(t, s), F \cup {"Z"})
          [] (a.k = "zero" /\ b.k \in {"finite", "inf"}) \/ (a.k = "finite" /\ b.k = "inf") -> Done(ZeroOf(t, s), F)
          [] OTHER -> Exactly(s, (a.m * 2 ^ sh) \div b.m, a.e - sh - b.e, (a.m * 2 ^ sh) % b.m # 0, F)
\* isqrt: the root's bits one after the other.
RECURSIVE Isqrt(_, _, _)
Isqrt(x, r, k) ==
    IF k < 0 THEN <<r, x # 0>>
    ELSE IF x >= r + 4 ^ k THEN Isqrt(x - (r + 4 ^ k), r \div 2 + 4 ^ k, k - 1)
    ELSE Isqrt(x, r \div 2, k - 1)
SqrtUn(a, t, n) ==
    LET by == Wide - 4 - Msb(a.m)
        sh == by + ((a.e - by) % 2)
        q  == Isqrt(a.m * 2 ^ sh, 0, (Wide - 2) \div 2)
    IN  CASE Nan(a) -> ProcessNan(a, t, n)
          [] a.k = "zero" -> Done(ZeroOf(t, a.s), a.fl)
          [] a.k = "inf" /\ ~a.s -> Done(Infinity(t, FALSE), a.fl)
          [] a.k \in {"inf", "finite"} /\ a.s -> Done(DefaultNan(t), a.fl \cup {"I"})
          [] OTHER -> Exactly(FALSE, q[1], (a.e - sh) \div 2, q[2], a.fl)

\* The NaN of mul_add_mixed, the operands' format o narrower than t or t.
FmaNan(u, first, t, o, n) ==
    LET r == ProcessNan(u, IF first THEN t ELSE o, n)
    IN  IF n.dn THEN Done(DefaultNan(t), r.fl) ELSE IF first \/ t = o THEN r ELSE Done(NanConvert(r.v, o, t), r.fl)
FmaUn(z, a, b, t, o, n) ==
    LET F  == z.fl \cup a.fl \cup b.fl
        sp == a.s # b.s
        senseless == {a.k, b.k} = {"inf", "zero"}
        infp  == a.k = "inf" \/ b.k = "inf"
        zerop == a.k = "zero" \/ b.k = "zero"
        noisy == { k \in 1 .. 3 : <<z, a, b>>[k].k = "snan" }
        nans  == IF noisy # {} THEN noisy ELSE { k \in 1 .. 3 : Nan(<<z, a, b>>[k]) }
        nan   == FmaNan(<<z, a, b>>[Least(nans)], Least(nans) = 1, t, o, n)
    IN  CASE z.k = "qnan" /\ senseless -> Done(DefaultNan(t), F \cup {"I"})
          [] ~(z.k = "qnan" /\ senseless) /\ nans # {} -> Raised(nan, F)
          [] nans = {} /\ (senseless \/ (z.k = "inf" /\ infp /\ z.s # sp)) -> Done(DefaultNan(t), F \cup {"I"})
          [] nans = {} /\ ~senseless /\ (z.k = "inf" \/ infp) /\ (z.k = "inf" /\ infp => z.s = sp) ->
               Done(Infinity(t, IF infp THEN sp ELSE z.s), F)
          [] z.k = "zero" /\ zerop /\ ~infp -> IF z.s = sp THEN Done(ZeroOf(t, z.s), F) ELSE CancelZero(t, n, F)
          [] z.k = "finite" /\ zerop /\ ~infp /\ nans = {} -> Exactly(z.s, z.m, z.e, FALSE, F)
          [] OTHER -> IF z.k = "zero" THEN Exactly(sp, a.m * b.m, a.e + b.e, FALSE, F)
                      ELSE AddExact(z.s, z.m, z.e, sp, a.m * b.m, a.e + b.e, t, n, F)

\* 2 - a*b, or half of 3 - a*b, rounded once: a Newton step.
StepUn(a, b, rsqrt, t, n) ==
    LET F == a.fl \cup b.fl
        s == a.s # b.s
    IN  CASE Nan(a) \/ Nan(b) -> Raised(ProcessNan(FirstNan(<<a, b>>), t, n), F)
          [] {a.k, b.k} \in {{"inf", "zero"}, {"zero"}, {"zero", "finite"}} ->
               Done(IF rsqrt THEN Normal(t, FALSE, 0, 2 ^ (Frac(t) - 1)) ELSE Normal(t, FALSE, 1, 0), F)
          [] {a.k, b.k} \in {{"inf"}, {"inf", "finite"}} -> Done(Infinity(t, s), F)
          [] OTHER -> AddExact(FALSE, IF rsqrt THEN 3 ELSE 1, IF rsqrt THEN -1 ELSE 1,
                               s, a.m * b.m, a.e + b.e - Num(rsqrt), t, n, F)

(***************************************************************************)
(* Comparisons.                                                            *)
(***************************************************************************)

\* Below 0, 0 or above 0 as a is less than, equal to or greater than b.
Rank(u) == CASE u.k = "zero" -> 0 [] u.k = "inf" -> IF u.s THEN -2 ELSE 2 [] OTHER -> IF u.s THEN -1 ELSE 1
CmpValues(a, b) ==
    LET top(u) == u.e + Msb(u.m)
        ord == IF top(a) # top(b) THEN top(a) - top(b)
               ELSE a.m * 2 ^ (Wide - 2 - Msb(a.m)) - b.m * 2 ^ (Wide - 2 - Msb(b.m))
    IN  IF Rank(a) # Rank(b) THEN Rank(a) - Rank(b)
        ELSE IF a.k # "finite" THEN 0 ELSE IF a.s THEN -ord ELSE ord
\* NZCV.
NzcvOf(d) == IF d = 0 THEN 6 ELSE IF d < 0 THEN 8 ELSE 2
CompareUn(a, b, signal) ==
    LET F == a.fl \cup b.fl
    IN  IF Nan(a) \/ Nan(b) THEN Done(3, F \cup (IF signal \/ "snan" \in {a.k, b.k} THEN {"I"} ELSE {}))
        ELSE Done(NzcvOf(CmpValues(a, b)), F)
CompareOp(a, b, op) ==
    LET F == a.fl \cup b.fl
        d == CmpValues(a, b)
    IN  IF Nan(a) \/ Nan(b) THEN Done(FALSE, F \cup (IF op # "eq" \/ "snan" \in {a.k, b.k} THEN {"I"} ELSE {}))
        ELSE Done(CASE op = "eq" -> d = 0 [] op = "ge" -> d >= 0 [] op = "gt" -> d > 0, F)

\* The extreme u of a and b.
Extreme(u, a, b, max, t, F) ==
    CASE u.k = "inf"  -> Done(Infinity(t, u.s), F)
      [] u.k = "zero" -> Done(ZeroOf(t, IF max THEN a.s /\ b.s ELSE a.s \/ b.s), F)
      [] OTHER -> Exactly(u.s, u.m, u.e, FALSE, F)
MaxMinUn(a, b, max, t, n) ==
    IF Nan(a) \/ Nan(b) THEN Raised(ProcessNan(FirstNan(<<a, b>>), t, n), a.fl \cup b.fl)
    ELSE Extreme(IF CmpValues(IF max THEN a ELSE b, IF max THEN b ELSE a) > 0 THEN a ELSE b,
                 a, b, max, t, a.fl \cup b.fl)
\* FMAXNM and FMINNM put the infinity that loses in a lone quiet NaN's place.
QuietNan(t, v) == IsNan(t, v) /\ Bit(v, Frac(t) - 1)
NumOr(v, w, max, t) == IF QuietNan(t, v) /\ ~QuietNan(t, w) THEN Infinity(t, max) ELSE v

(***************************************************************************)
(* Conversions.                                                            *)
(***************************************************************************)

\* FRINT*: the integer k = <<magnitude, what was dropped>> in the format.
Integral(a, mode, k) == k[1] + Num(RoundsUp(mode, a.s, k[1] % 2 = 1, k[2]))
AsFloat(a, m, t, F) ==
    IF m = 0 THEN Done(ZeroOf(t, a.s), F)
    ELSE [RoundFull(Exactly(a.s, m, 0, FALSE, {}), t, "zero", FALSE, FALSE) EXCEPT !.fl = F]
RoundIntUn(a, mode, exact, t, n) ==
    LET k == ShiftRest(a.m, -a.e, FALSE)
    IN  CASE Nan(a) -> ProcessNan(a, t, n)
          [] a.k = "inf" -> Done(Infinity(t, a.s), a.fl)
          [] a.k = "zero" -> Done(ZeroOf(t, a.s), a.fl)
          [] a.k = "finite" /\ a.e >= 0 -> Done(a.v, a.fl)
          [] OTHER -> AsFloat(a, Integral(a, mode, k), t, a.fl \cup (IF exact /\ k[2] # "exact" THEN {"X"} ELSE {}))
\* FRINT32*, FRINT64*: what does not fit size bits is the most negative one.
RoundIntN(a, mode, size, t) ==
    LET k   == ShiftRest(a.m, -a.e, FALSE)
        m   == Integral(a, mode, k)
        out == Done(Normal(t, TRUE, size - 1, 0), a.fl \cup {"I"})
    IN  CASE Nan(a) \/ a.k = "inf" -> out
          [] a.k = "zero" -> Done(ZeroOf(t, a.s), a.fl)
          [] a.k = "finite" /\ a.e >= 0 /\ Msb(a.m) + 1 + a.e > Bits + 6 -> out
          [] OTHER -> IF IF a.s THEN m > 2 ^ (size - 1) ELSE m >= 2 ^ (size - 1) THEN out
                      ELSE AsFloat(a, m, t, a.fl \cup (IF k[2] # "exact" THEN {"X"} ELSE {}))

\* FJCVTZS: the low half-word of the truncated integer, and Z if that lost
\* nothing.
ToJs(a) ==
    LET js(v, z, F) == [v |-> v, z |-> z, fl |-> a.fl \cup F]
        k == ShiftRest(a.m, -a.e, FALSE)
        big == a.e >= Bits
        low == IF big THEN 0 ELSE MaskW(k[1], 4)
        over == big \/ k[1] > (IF a.s THEN Mod(4) \div 2 ELSE Mod(4) \div 2 - 1)
    IN  CASE Nan(a) \/ a.k = "inf" -> js(0, FALSE, {"I"})
          [] a.k = "zero" -> js(0, ~a.s /\ a.v % 2 ^ Frac(FMT64) = 0, {})
          [] OTHER -> js(MaskW(IF a.s THEN -low ELSE low, 4), ~over /\ k[2] = "exact",
                         IF over THEN {"I"} ELSE IF k[2] # "exact" THEN {"X"} ELSE {})

\* To an integer of w bytes with fb fraction bits, saturating.
Saturate(s, unsigned, w) ==
    IF unsigned THEN IF s THEN 0 ELSE Mod(w) - 1 ELSE IF s THEN Mod(w) \div 2 ELSE Mod(w) \div 2 - 1
FixedUn(a, fb, unsigned, w, mode) ==
    LET e    == a.e + fb
        k    == ShiftRest(a.m, -e, FALSE)
        m    == Integral(a, mode, k)
        over == IF unsigned THEN (a.s /\ m # 0) \/ m > Mod(w) - 1
                ELSE IF a.s THEN m > Mod(w) \div 2 ELSE m >= Mod(w) \div 2
        out  == Done(Saturate(a.s, unsigned, w), a.fl \cup {"I"})
    IN  CASE Nan(a) -> Done(0, a.fl \cup {"I"})
          [] a.k = "inf" -> out
          [] a.k = "zero" -> Done(0, a.fl)
          [] a.k = "finite" /\ e >= 0 /\ Msb(a.m) + 1 + e > Bits + 8 -> out
          [] OTHER -> IF over THEN out
                      ELSE Done(MaskW(IF a.s THEN -m ELSE m, w), a.fl \cup (IF k[2] # "exact" THEN {"X"} ELSE {}))
\* The host truncates a double it can hold in an i64, if that is exact or
\* the inexact flag is up.
HostTruncates(a, w, n) ==
    /\ Plain(n) /\ w >= 4 /\ a.k \in {"zero", "finite"}
    /\ a.k = "finite" => a.m >= 2 ^ Frac(FMT64) /\ Msb(a.m) + a.e < w * B - 1
    /\ n.ixc \/ a.k = "zero" \/ ShiftRest(a.m, -a.e, FALSE)[2] = "exact"
HostTruncated(a, unsigned, w) ==
    LET m == IF a.k = "zero" THEN 0 ELSE ShiftRest(a.m, -a.e, FALSE)[1]
    IN  Done(MaskW(IF a.s THEN -m ELSE m, w), {})
ToFixedUn(a, t, fb, unsigned, w, mode, n) ==
    IF t = FMT64 /\ fb = 0 /\ mode = "zero" /\ HostTruncates(a, w, n)
          /\ ~(unsigned /\ a.s /\ a.k = "finite" /\ ShiftRest(a.m, -a.e, FALSE)[1] # 0)
    THEN HostTruncated(a, unsigned, w) ELSE FixedUn(a, fb, unsigned, w, mode)
ToFixed(v, t, fb, unsigned, w, mode, n) == ToFixedUn(Unpack(v, t, n), t, fb, unsigned, w, mode, n)

\* From an integer of w bytes; what fits the fraction is exact on the host.
FromFixed(v, w, signed, fb, t, mode, n) ==
    LET s   == signed /\ SignBit(v, w)
        mag == IF s THEN Mod(w) - v ELSE v
        r   == RoundFull(Exactly(s, mag, -fb, FALSE, {}), t, mode, Fz(n, t), FALSE)
    IN  IF mag = 0 THEN Done(0, {})
        ELSE IF fb = 0 /\ mode = n.rm /\ Plain(n) /\ t # FMT16 /\ mag <= 2 ^ t.prec THEN Done(r.v, {})
        ELSE r

ConvertUn(u, from, to, mode, n) ==
    LET alt == to = FMT16 /\ n.ahp
    IN  CASE Nan(u) ->
               Done(IF alt THEN ZeroOf(to, u.s) ELSE IF n.dn THEN DefaultNan(to) ELSE NanConvert(u.v, from, to),
                    u.fl \cup (IF u.k = "snan" \/ alt THEN {"I"} ELSE {}))
          [] u.k = "inf" -> IF alt THEN Done(Signed(to, u.s, SignUnit(to) - 1), u.fl \cup {"I"})
                            ELSE Done(Infinity(to, u.s), u.fl)
          [] u.k = "zero" -> Done(ZeroOf(to, u.s), u.fl)
          [] OTHER -> RoundFull(Exactly(u.s, u.m, u.e, FALSE, u.fl), to, mode, FzCv(n, to), alt)
Convert(v, from, to, mode, n) == ConvertUn(UnpackCv(v, from, n), from, to, mode, n)

(***************************************************************************)
(* Estimates.                                                              *)
(***************************************************************************)

RecipEstimate(a) == ((2 ^ (2 * Est + 3)) \div (2 * a + 1) + 1) \div 2
RsqrtEstimate(a) ==
    LET x == IF a < 2 ^ Est THEN 2 * a + 1 ELSE 2 * (2 * (a \div 2) + 1)
    IN  ((CHOOSE b \in 2 ^ (Est + 1) .. 2 ^ (Est + 2) :
             x * (b + 1) * (b + 1) >= 2 ^ (3 * Est + 4)
                 /\ \A y \in 2 ^ (Est + 1) .. b - 1 : x * (y + 1) * (y + 1) < 2 ^ (3 * Est + 4)) + 1) \div 2

\* The fraction with its top bit dropped, at double's width, and the
\* exponent it leaves, of a finite number that may be subnormal.
Unit == 2 ^ Frac(FMT64)
Scaled(v, t) ==
    LET frac == (v % 2 ^ Frac(t)) * 2 ^ (Frac(FMT64) - Frac(t))
        exp  == (v % SignUnit(t)) \div 2 ^ Frac(t)
        sh   == Frac(FMT64) - Msb(frac)
    IN  IF exp # 0 THEN <<exp, frac>> ELSE <<1 - sh, (frac * 2 ^ sh) % Unit>>
RecipEst(a, t, n) ==
    LET top   == a.e + Msb(a.m)
        x     == Scaled(a.v, t)
        exp   == 2 * t.emax - 1 - x[1]
        frac  == (RecipEstimate(2 ^ Est + x[2] \div 2 ^ (Frac(FMT64) - Est)) % 2 ^ Est) * 2 ^ (Frac(FMT64) - Est)
        low   == IF exp > 0 THEN frac ELSE IF exp = 0 THEN Unit \div 2 + frac \div 2 ELSE Unit \div 4 + frac \div 4
    IN  CASE Nan(a) -> ProcessNan(a, t, n)
          [] a.k = "inf" -> Done(ZeroOf(t, a.s), a.fl)
          [] a.k = "zero" -> Done(Infinity(t, a.s), a.fl \cup {"Z"})
          [] a.k = "finite" /\ top < -(t.emax + 1) ->
               Done(IF ToInf(n.rm, a.s) THEN Infinity(t, a.s) ELSE MaxNormal(t, a.s), a.fl \cup {"O", "X"})
          [] OTHER -> IF Fz(n, t) /\ top >= t.emax - 1 THEN Done(ZeroOf(t, a.s), a.fl \cup {"U"})
                      ELSE Done(Signed(t, a.s, (IF exp > 0 THEN exp ELSE 0) * 2 ^ Frac(t)
                                                   + low \div 2 ^ (Frac(FMT64) - Frac(t))), a.fl)
RsqrtEst(a, t, n) ==
    LET x == Scaled(a.v, t)
        scaled == IF x[1] % 2 = 0 THEN 2 ^ Est + x[2] \div 2 ^ (Frac(FMT64) - Est)
                  ELSE 2 ^ (Est - 1) + x[2] \div 2 ^ (Frac(FMT64) - Est + 1)
    IN  CASE Nan(a) -> ProcessNan(a, t, n)
          [] a.k = "zero" -> Done(Infinity(t, a.s), a.fl \cup {"Z"})
          [] a.k \in {"inf", "finite"} /\ a.s -> Done(DefaultNan(t), a.fl \cup {"I"})
          [] a.k = "inf" /\ ~a.s -> Done(0, a.fl)
          [] OTHER -> Done(((3 * t.emax - 1 - x[1]) \div 2) * 2 ^ Frac(t)
                               + (RsqrtEstimate(scaled) % 2 ^ Est) * 2 ^ (Frac(t) - Est), a.fl)
Recpx(a, t, n) ==
    LET exp == (a.v % SignUnit(t)) \div 2 ^ Frac(t)
    IN  IF Nan(a) THEN ProcessNan(a, t, n)
        ELSE Done(Signed(t, a.s, (IF exp = 0 THEN MaxBiased(t) - 1 ELSE MaxBiased(t) - exp) * 2 ^ Frac(t)), a.fl)
\* On words of 4 bytes.
Urecpe(v) ==
    IF ~SignBit(v, 4) THEN Mod(4) - 1
    ELSE (RecipEstimate(v \div 2 ^ (4 * B - Est - 1)) % 2 ^ (Est + 1)) * 2 ^ (4 * B - Est - 1)
Ursqrte(v) ==
    IF v < Mod(4) \div 4 THEN Mod(4) - 1
    ELSE (RsqrtEstimate(v \div 2 ^ (4 * B - Est - 1)) % 2 ^ (Est + 1)) * 2 ^ (4 * B - Est - 1)

(***************************************************************************)
(* The scalar instructions (interp/fp.rs).                                 *)
(***************************************************************************)

BytesOf(t) == t.bits \div B
RECURSIVE ValOf(_, _, _)
ValOf(v, at, w) == IF w = 0 THEN 0 ELSE v[at] + Mod(1) * ValOf(v, at + 1, w - 1)
VReg(c, r, t) == ValOf(c.v[r], 0, BytesOf(t))
SetVReg(c, r, t, x) == [c EXCEPT !.v[r] = [b \in 0 .. VBytes - 1 |-> IF b < BytesOf(t) THEN Byte(x, b) ELSE 0]]
FpEnv(c) == [rm |-> c.fpcr.rm, fz |-> c.fpcr.fz, fz16 |-> c.fpcr.fz16, dn |-> c.fpcr.dn, ahp |-> c.fpcr.ahp,
             ixc |-> "X" \in c.fpsr]
SetFpEnv(c, F) == [c EXCEPT !.fpsr = @ \cup F]
Gives(c, r, t, x) == NextInsn(SetVReg(SetFpEnv(c, x.fl), r, t, x.v))

\* x on two operands; the operators below take the operands unpacked.
TwoUn(x, a, b, t, n) ==
    CASE x \in {"mul", "nmul", "mulx"} -> MulUn(a, b, x = "mulx", t, n)
      [] x = "div" -> DivUn(a, b, t, n)
      [] x \in {"add", "sub", "abd"} -> AddUn(a, b, x # "add", t, n)
      [] x \in {"max", "maxnm", "min", "minnm"} -> MaxMinUn(a, b, x \in {"max", "maxnm"}, t, n)
      [] x \in {"recps", "rsqrts"} -> StepUn(a, b, x = "rsqrts", t, n)
      [] x = "sqrt" -> SqrtUn(b, t, n)
Nm(x, v, w, t) == IF x \in {"maxnm", "minnm"} THEN NumOr(v, w, x = "maxnm", t) ELSE v
\* The fast path is add's, mul's, div's and sqrt's.
Hosted(x, r, t, n) ==
    IF x \in {"max", "min", "maxnm", "minnm", "recps", "rsqrts"} THEN r
    ELSE HostFast(r, t, n, x \in {"add", "sub", "abd"})
\* FNMUL negates the product, FABD clears the difference's sign.
SignAfter(x, r, t) ==
    CASE x = "nmul" -> [r EXCEPT !.v = Negated(t, @)]
      [] x = "abd"  -> [r EXCEPT !.v = @ % SignUnit(t)]
      [] OTHER -> r
FpTwo(x, v, w, t, n) ==
    SignAfter(x, Hosted(x, Rounded(TwoUn(x, Unpack(IF x = "recps" \/ x = "rsqrts" THEN Negated(t, v) ELSE Nm(x, v, w, t), t, n),
                            Unpack(Nm(x, w, v, t), t, n), t, n), t, n), t, n), t)
FpMulAdd(z, v, w, t, n) ==
    HostFast(Rounded(FmaUn(Unpack(z, t, n), Unpack(v, t, n), Unpack(w, t, n), t, t, n), t, n), t, n, FALSE)
NegIf(b, t, v) == IF b THEN Negated(t, v) ELSE v

\* FMADD, FMSUB, FNMADD, FNMSUB.
ExecFma(c, i) ==
    Gives(c, i.rd, i.t,
          FpMulAdd(NegIf(i.o1, i.t, VReg(c, i.ra, i.t)), NegIf(i.o1 # i.o0, i.t, VReg(c, i.rn, i.t)),
                   VReg(c, i.rm, i.t), i.t, FpEnv(c)))
ExecFpTwo(c, i) ==
    Gives(c, i.rd, i.t, FpTwo(i.x, VReg(c, i.rn, i.t), VReg(c, i.rm, i.t), i.t, FpEnv(c)))
Compared(c, r) == [SetFpEnv(c, r.fl) EXCEPT !.f = FromNzcv(r.v)]
\* FCMP(E), with zero too, and FCCMP(E), whose condition is "always" there.
ExecFcmp(c, i) ==
    NextInsn(IF ~CondHolds(c.f, i.cond) THEN [c EXCEPT !.f = FromNzcv(i.nzcv)]
             ELSE Compared(c, CompareUn(Unpack(VReg(c, i.rn, i.t), i.t, FpEnv(c)),
                                        Unpack(IF i.zero THEN 0 ELSE VReg(c, i.rm, i.t), i.t, FpEnv(c)), i.signal)))
ExecFcsel(c, i) ==
    NextInsn(SetVReg(c, i.rd, i.t, VReg(c, IF CondHolds(c.f, i.cond) THEN i.rn ELSE i.rm, i.t)))
VfpExpandImm(imm, t) ==
    LET e  == t.bits - t.prec
        b6 == Bit(imm, 6)
        exp == (IF b6 THEN (2 ^ (e - 3) - 1) * 4 ELSE 2 ^ (e - 1)) + ((imm \div 16) % 4)
    IN  Signed(t, Bit(imm, 7), exp * 2 ^ Frac(t) + (imm % 16) * 2 ^ (Frac(t) - 4))
ExecFmovImm(c, i) == NextInsn(SetVReg(c, i.rd, i.t, VfpExpandImm(i.imm, i.t)))

\* The rounding of an instruction: its own, or FPCR's.
ModeOf(i, n) == IF i.mode = "fpcr" THEN n.rm ELSE i.mode
FpOne(i, v, t, n) ==
    CASE i.x = "mov"  -> Done(v, {})
      [] i.x = "abs"  -> Done(v % SignUnit(t), {})
      [] i.x = "neg"  -> Done(Negated(t, v), {})
      [] i.x = "sqrt" -> FpTwo("sqrt", 0, v, t, n)
      [] i.x = "rint" -> RoundIntUn(Unpack(v, t, n), ModeOf(i, n), i.exact, t, n)
      [] i.x = "rintn" -> RoundIntN(Unpack(v, t, n), ModeOf(i, n), i.w * B, t)
      [] i.x = "recpe" -> RecipEst(Unpack(v, t, n), t, n)
      [] i.x = "rsqrte" -> RsqrtEst(Unpack(v, t, n), t, n)
      [] i.x = "recpx" -> Recpx(Unpack(v, t, n), t, n)
ExecFp1src(c, i) ==
    IF i.x = "cvt" THEN Gives(c, i.rd, i.to, Convert(VReg(c, i.rn, i.t), i.t, i.to, c.fpcr.rm, FpEnv(c)))
    ELSE Gives(c, i.rd, i.t, FpOne(i, VReg(c, i.rn, i.t), i.t, FpEnv(c)))

\* Between the register files, with fb fraction bits (exec_fp_fixed) or 0.
GivesX(c, r, x) == NextInsn(WriteX(SetFpEnv(c, x.fl), r, x.v, 8))
GivesJs(c, r, x) == [GivesX(c, r, x) EXCEPT !.f = FromNzcv(4 * Num(x.z))]
ExecFpInt(c, i) ==
    LET n == FpEnv(c)
    IN  CASE i.x = "to"   -> GivesX(c, i.rd, ToFixed(VReg(c, i.rn, i.t), i.t, i.fb, i.unsigned, i.w, i.mode, n))
          [] i.x = "from" -> Gives(c, i.rd, i.t, FromFixed(ReadX(c, i.rn, i.w), i.w, ~i.unsigned, i.fb, i.t, n.rm, n))
          [] i.x = "js"   -> GivesJs(c, i.rd, ToJs(Unpack(VReg(c, i.rn, FMT64), FMT64, n)))
          [] i.x = "out"  -> NextInsn(WriteX(c, i.rd, VReg(c, i.rn, i.t), 8))
          [] i.x = "in"   -> NextInsn(SetVReg(c, i.rd, i.t, MaskW(ReadX(c, i.rn, 8), BytesOf(i.t))))
          [] i.x = "outtop" -> NextInsn(WriteX(c, i.rd, ValOf(c.v[i.rn], 8, 8), 8))
          [] i.x = "intop"  -> NextInsn([c EXCEPT !.v[i.rd] =
                                   [b \in 0 .. VBytes - 1 |-> IF b < 8 THEN @[b] ELSE Byte(ReadX(c, i.rn, 8), b - 8)]])

ExecFp(c, i) ==
    CASE i.op = "fma"   -> ExecFma(c, i)
      [] i.op = "ftwo"  -> ExecFpTwo(c, i)
      [] i.op = "fcmp"  -> ExecFcmp(c, i)
      [] i.op = "fcsel" -> ExecFcsel(c, i)
      [] i.op = "fmovi" -> ExecFmovImm(c, i)
      [] i.op = "fone"  -> ExecFp1src(c, i)
      [] i.op = "fint"  -> ExecFpInt(c, i)

------------------------------------------------------------------------------
(***************************************************************************)
(* The AArch64 CPU's vector instructions (interp/simd.rs, simd_ext.rs), on *)
(* integer lanes, on floating-point lanes and on whole registers, and the  *)
(* run loop with every instruction in it.                                  *)
(*                                                                         *)
(* An instruction i has a family f and an operation x; w is the bytes of a *)
(* lane (of the narrow one, if they differ), q that it uses all of the     *)
(* register, sc that it is the scalar form, u that lanes are unsigned.     *)
(* Forms the decoder refuses are in no program.  A lane's result carries   *)
(* its flags (Done), saturation's QC as "Q"; the lanes of one instruction  *)
(* share the FPCR, and the flags an earlier lane raised change only which  *)
(* of two equal paths computes a later one.                                *)
(***************************************************************************)

\* Bytes a register adds to TBL's table: 16, here as small against an
\* index's range as a byte is.
TableBytes == 2

(***************************************************************************)
(* Lanes.                                                                  *)
(***************************************************************************)

Elem(v, k, w) == ValOf(v, k * w, w)
Ival(x, w, u) == IF u THEN x ELSE SignExtendW(x, w)
Plainly(v, w) == Done(MaskW(v, w), {})
Sat(v, w, u) ==
    LET lo == IF u THEN 0 ELSE -(Mod(w) \div 2)
        hi == IF u THEN Mod(w) - 1 ELSE Mod(w) \div 2 - 1
    IN  IF v < lo THEN Done(MaskW(lo, w), {"Q"}) ELSE IF v > hi THEN Done(MaskW(hi, w), {"Q"}) ELSE Plainly(v, w)
MaskIf(b, w) == Done(IF b THEN Mod(w) - 1 ELSE 0, {})
Truth(r, w) == Raised(MaskIf(r.v, w), r.fl)
Rounding(b, n) == IF b /\ n > 0 THEN 2 ^ (n - 1) ELSE 0
\* A count in the lane's low byte (the two lowest of these small bytes).
CountOf(b, w) == LET n == IF w = 1 THEN 1 ELSE 2 IN SignExtendW(MaskW(b, n), n)
ShiftLane(a, sh, w, u, round, sat) ==
    LET v == Ival(a, w, u)
        r == IF sh >= w * B THEN IF ~sat \/ v = 0 THEN 0 ELSE IF v > 0 THEN Mod(w) ELSE -Mod(w)
             ELSE IF sh >= 0 THEN v * 2 ^ sh
             ELSE (v + Rounding(round, -sh)) \div 2 ^ (-sh)
    IN  IF sat THEN Sat(r, w, u) ELSE Plainly(r, w)
RECURSIVE Pmul(_, _)
Pmul(a, b) == IF b = 0 THEN 0 ELSE (IF b % 2 = 1 THEN a ELSE 0) ^^ Pmul(2 * a, b \div 2)

LanesIn(i, w) == IF i.sc THEN 1 ELSE (IF i.q THEN 16 ELSE 8) \div w
\* The halves the long and the narrow forms read.
Upper(i) == IF i.q /\ ~i.sc THEN 8 ELSE 0
\* set_vec: the lanes in order and zeros, or the upper half below which the
\* register is kept.
SetVec(c, rd, w, lanes, upper) ==
    LET byte(b) == IF b \div w \in DOMAIN lanes THEN Byte(lanes[b \div w].v, b % w) ELSE 0
    IN  NextInsn([c EXCEPT !.fpsr = @ \cup UNION { lanes[k].fl : k \in DOMAIN lanes },
                           !.v[rd] = [b \in 0 .. VBytes - 1 |->
                               IF ~upper THEN byte(b) ELSE IF b < 8 THEN @[b] ELSE byte(b - 8)]])
SetBytes(c, rd, bytes, q) ==
    NextInsn([c EXCEPT !.v[rd] = [b \in 0 .. VBytes - 1 |-> IF q \/ b < 8 THEN bytes[b] ELSE 0]])

(***************************************************************************)
(* Three registers of the same kind.                                       *)
(***************************************************************************)

BitOf(x, n, m, d) ==
    CASE x = "and" -> n & m
      [] x = "bic" -> n & ((Mod(1) - 1) - m)
      [] x = "orr" -> n | m
      [] x = "orn" -> n | ((Mod(1) - 1) - m)
      [] x = "eor" -> n ^^ m
      [] x = "bsl" -> (d & n) | (((Mod(1) - 1) - d) & m)
      [] x = "bit" -> (d & ((Mod(1) - 1) - m)) | (n & m)
      [] x = "bif" -> (d & m) | (n & ((Mod(1) - 1) - m))
Bitwise3(c, i) ==
    SetBytes(c, i.rd, [b \in 0 .. VBytes - 1 |-> BitOf(i.x, c.v[i.rn][b], c.v[i.rm][b], c.v[i.rd][b])], i.q)

\* Rounded doubling multiplication, its high half (SQDMULH, SQRDMULH).
Qdmulh(a, b, w, round) ==
    Sat((2 * SignExtendW(a, w) * SignExtendW(b, w) + Rounding(round, w * B)) \div Mod(w), w, FALSE)
IntLane(i, w, a, b, d) ==
    LET ia == Ival(a, w, i.u)
        ib == Ival(b, w, i.u)
        dif == IF ia >= ib THEN ia - ib ELSE ib - ia
    IN  CASE i.x = "hadd" -> Plainly((ia + ib + Num(i.round)) \div 2, w)
          [] i.x = "hsub" -> Plainly((ia - ib) \div 2, w)
          [] i.x = "qadd" -> Sat(ia + ib, w, i.u)
          [] i.x = "qsub" -> Sat(ia - ib, w, i.u)
          [] i.x = "cmgt" -> MaskIf(ia > ib, w)
          [] i.x = "cmge" -> MaskIf(ia >= ib, w)
          [] i.x = "cmeq" -> MaskIf(a = b, w)
          [] i.x = "cmtst" -> MaskIf(a & b # 0, w)
          [] i.x = "shl" -> ShiftLane(a, CountOf(b, w), w, i.u, i.round, i.sat)
          [] i.x = "max" -> Done(IF ia >= ib THEN a ELSE b, {})
          [] i.x = "min" -> Done(IF ia <= ib THEN a ELSE b, {})
          [] i.x = "abd" -> Plainly(dif, w)
          [] i.x = "aba" -> Plainly(d + dif, w)
          [] i.x = "add" -> Plainly(a + b, w)
          [] i.x = "sub" -> Plainly(a - b, w)
          [] i.x = "mla" -> Plainly(d + MaskW(a, 4) * MaskW(b, 4), w)
          [] i.x = "mls" -> Plainly(d - MaskW(a, 4) * MaskW(b, 4), w)
          [] i.x = "mul" -> Plainly(MaskW(a, 4) * MaskW(b, 4), w)
          [] i.x = "pmul" -> Plainly(Pmul(a, b), w)
          [] i.x = "qdmulh" -> Qdmulh(a, b, w, i.round)

\* The pairwise forms take neighbours, of n first and then of m.
OperandsAt(i, n, m, k, w) ==
    LET half == LanesIn(i, w) \div 2
        src  == IF k < half THEN n ELSE m
    IN  IF i.pairs THEN <<Elem(src, 2 * (k % half), w), Elem(src, 2 * (k % half) + 1, w)>>
        ELSE <<Elem(n, k, w), Elem(m, k, w)>>
ThreeSame(c, i) ==
    SetVec(c, i.rd, i.w,
        [k \in 0 .. LanesIn(i, i.w) - 1 |->
            LET o == OperandsAt(i, c.v[i.rn], c.v[i.rm], k, i.w)
            IN  IntLane(i, i.w, o[1], o[2], Elem(c.v[i.rd], k, i.w))], FALSE)

FpCompared(x, a, b, t, n) == Truth(CompareOp(Unpack(a, t, n), Unpack(b, t, n), x), BytesOf(t))
FpLane(x, a, b, d, t, n) ==
    CASE x = "mla"  -> FpMulAdd(d, a, b, t, n)
      [] x = "mls"  -> FpMulAdd(d, Negated(t, a), b, t, n)
      [] x \in {"eq", "ge", "gt"} -> FpCompared(x, a, b, t, n)
      [] x = "acge" -> FpCompared("ge", a % SignUnit(t), b % SignUnit(t), t, n)
      [] x = "acgt" -> FpCompared("gt", a % SignUnit(t), b % SignUnit(t), t, n)
      [] OTHER      -> FpTwo(x, a, b, t, n)
FpThreeSame(c, i) ==
    LET w == BytesOf(i.t)
    IN  SetVec(c, i.rd, w,
            [k \in 0 .. LanesIn(i, w) - 1 |->
                LET o == OperandsAt(i, c.v[i.rn], c.v[i.rm], k, w)
                IN  FpLane(i.x, o[1], o[2], Elem(c.v[i.rd], k, w), i.t, FpEnv(c))], FALSE)
\* FMLAL, FMLSL: singles plus products of halves of one half's lanes, the
\* second factor a lane's own or one lane's for all (index >= 0).
Fmlal(c, i) ==
    LET n  == FpEnv(c)
        at == IF i.upper THEN (IF i.q THEN 8 ELSE 4) ELSE 0
        h  == BytesOf(FMT16)
        w  == BytesOf(FMT32)
    IN  SetVec(c, i.rd, w,
            [k \in 0 .. (IF i.q THEN 16 ELSE 8) \div w - 1 |->
                Rounded(FmaUn(Unpack(Elem(c.v[i.rd], k, w), FMT32, n),
                              Unpack(NegIf(i.x = "mls", FMT16, ValOf(c.v[i.rn], at + k * h, h)), FMT16, n),
                              Unpack(IF i.index >= 0 THEN Elem(c.v[i.rm], i.index, h)
                                     ELSE ValOf(c.v[i.rm], at + k * h, h), FMT16, n), FMT32, FMT16, n), FMT32, n)], FALSE)

(***************************************************************************)
(* Three registers, long, wide and narrow.                                 *)
(***************************************************************************)

\* SQDMLAL and its kin saturate the doubled product, then the sum.
QdLong(x, p, acc, w) ==
    LET d == Sat(2 * p, w, FALSE)
        v == SignExtendW(d.v, w)
    IN  CASE x = "qdmull" -> d
          [] x = "qdmlal" -> Raised(Sat(SignExtendW(acc, w) + v, w, FALSE), d.fl)
          [] x = "qdmlsl" -> Raised(Sat(SignExtendW(acc, w) - v, w, FALSE), d.fl)
LongLane(x, a, b, acc, w) ==
    CASE x \in {"addl", "addw"} -> Plainly(a + b, w)
      [] x \in {"subl", "subw"} -> Plainly(a - b, w)
      [] x = "abdl" -> Plainly(IF a >= b THEN a - b ELSE b - a, w)
      [] x = "abal" -> Plainly(acc + (IF a >= b THEN a - b ELSE b - a), w)
      [] x = "mlal" -> Plainly(acc + a * b, w)
      [] x = "mlsl" -> Plainly(acc - a * b, w)
      [] x = "mull" -> Plainly(a * b, w)
      [] x \in {"qdmlal", "qdmlsl", "qdmull"} -> QdLong(x, a * b, acc, w)
LongLanes(i) == IF i.sc THEN 1 ELSE 8 \div i.w
ThreeDiff(c, i) ==
    LET n == c.v[i.rn]
        m == c.v[i.rm]
        low(v, k) == ValOf(v, Upper(i) + k * i.w, i.w)
        high(k) == IF i.x = "addhn" THEN Elem(n, k, 2 * i.w) + Elem(m, k, 2 * i.w) ELSE Elem(n, k, 2 * i.w) - Elem(m, k, 2 * i.w)
    IN  CASE i.x = "pmull" ->
               SetVec(c, i.rd, 2 * i.w, [k \in 0 .. 8 \div i.w - 1 |-> Done(Pmul(low(n, k), low(m, k)), {})], FALSE)
          [] i.x \in {"addhn", "subhn"} ->
               SetVec(c, i.rd, i.w, [k \in 0 .. 8 \div i.w - 1 |->
                   Plainly((high(k) + Rounding(i.u, i.w * B)) \div Mod(i.w), i.w)], i.q)
          [] OTHER ->
               SetVec(c, i.rd, 2 * i.w, [k \in 0 .. LongLanes(i) - 1 |->
                   LongLane(i.x, IF i.x \in {"addw", "subw"} THEN Ival(Elem(n, k, 2 * i.w), 2 * i.w, i.u)
                                 ELSE Ival(low(n, k), i.w, i.u),
                            Ival(low(m, k), i.w, i.u), Elem(c.v[i.rd], k, 2 * i.w), 2 * i.w)], FALSE)

(***************************************************************************)
(* Two registers.                                                          *)
(***************************************************************************)

MiscLane(i, a, d) ==
    LET sa == SignExtendW(a, i.w)
    IN  CASE i.x = "suqadd" -> Sat(SignExtendW(d, i.w) + a, i.w, FALSE)
          [] i.x = "usqadd" -> Sat(d + sa, i.w, TRUE)
          [] i.x = "cls"  -> Plainly(Cls(a, i.w), i.w)
          [] i.x = "clz"  -> Plainly(Clz(a, i.w), i.w)
          [] i.x = "qabs" -> Sat(IF sa < 0 THEN -sa ELSE sa, i.w, FALSE)
          [] i.x = "qneg" -> Sat(-sa, i.w, FALSE)
          [] i.x = "gt0"  -> MaskIf(sa > 0, i.w)
          [] i.x = "ge0"  -> MaskIf(sa >= 0, i.w)
          [] i.x = "eq0"  -> MaskIf(sa = 0, i.w)
          [] i.x = "le0"  -> MaskIf(sa <= 0, i.w)
          [] i.x = "lt0"  -> MaskIf(sa < 0, i.w)
          [] i.x = "abs"  -> Plainly(IF sa < 0 THEN -sa ELSE sa, i.w)
          [] i.x = "neg"  -> Plainly(-sa, i.w)
          [] i.x = "cnt"  -> Plainly(Cardinality(Ones(a, 1)), 1)
          [] i.x = "not"  -> Plainly((Mod(i.w) - 1) - a, i.w)
          [] i.x = "rbit" -> Plainly(Rbit(a, B), 1)
\* XTN drops the high half; the saturating narrowings read it signed or not.
NarrowLane(i, x) ==
    CASE i.x = "xtn"   -> Plainly(x, i.w)
      [] i.x = "qxtun" -> Sat(SignExtendW(x, 2 * i.w), i.w, TRUE)
      [] i.x = "qxtn"  -> Sat(Ival(x, 2 * i.w, i.u), i.w, i.u)
\* Sums of neighbours, on top of the destination's or not.
PairSum(i, n, d, k) ==
    Plainly(Ival(Elem(n, 2 * k, i.w), i.w, i.u) + Ival(Elem(n, 2 * k + 1, i.w), i.w, i.u)
                + (IF i.x = "adalp" THEN Elem(d, k, 2 * i.w) ELSE 0), 2 * i.w)
TwoMisc(c, i) ==
    LET n == c.v[i.rn]
        d == c.v[i.rd]
        per == i.box \div i.w
    IN  CASE i.x \in {"xtn", "qxtun", "qxtn"} ->
               SetVec(c, i.rd, i.w, [k \in 0 .. LongLanes(i) - 1 |-> NarrowLane(i, Elem(n, k, 2 * i.w))], i.q /\ ~i.sc)
          [] i.x = "shll" ->
               SetVec(c, i.rd, 2 * i.w,
                      [k \in 0 .. 8 \div i.w - 1 |-> Plainly(ValOf(n, Upper(i) + k * i.w, i.w) * Mod(i.w), 2 * i.w)], FALSE)
          [] i.x = "rev" ->
               SetVec(c, i.rd, i.w, [k \in 0 .. LanesIn(i, i.w) - 1 |->
                   Plainly(Elem(n, (k - (k % per)) + (per - 1 - (k % per)), i.w), i.w)], FALSE)
          [] i.x \in {"addlp", "adalp"} ->
               SetVec(c, i.rd, 2 * i.w, [k \in 0 .. LanesIn(i, i.w) \div 2 - 1 |-> PairSum(i, n, d, k)], FALSE)
          [] OTHER ->
               SetVec(c, i.rd, i.w,
                      [k \in 0 .. LanesIn(i, i.w) - 1 |-> MiscLane(i, Elem(n, k, i.w), Elem(d, k, i.w))], FALSE)

\* FCVTN, FCVTXN (which rounds to odd) and FCVTL.
FcvtNarrowLong(c, i) ==
    LET fw == BytesOf(i.t)
        tw == BytesOf(i.to)
        at == IF fw < tw THEN Upper(i) ELSE 0
        n  == FpEnv(c)
    IN  SetVec(c, i.rd, tw,
            [k \in 0 .. (IF i.sc THEN 1 ELSE IF fw < tw THEN 16 \div tw ELSE 8 \div tw) - 1 |->
                Convert(ValOf(c.v[i.rn], at + k * fw, fw), i.t, i.to, ModeOf(i, n), n)],
            fw > tw /\ i.q /\ ~i.sc)
FpMiscLane(i, v, t, n) ==
    CASE i.x \in {"eq", "ge", "gt"} -> IF i.zero THEN FpCompared(i.x, 0, v, t, n) ELSE FpCompared(i.x, v, 0, t, n)
      [] i.x = "to"   -> ToFixed(v, t, i.fb, i.u, BytesOf(t), ModeOf(i, n), n)
      [] i.x = "from" -> FromFixed(v, BytesOf(t), ~i.u, i.fb, t, n.rm, n)
      [] i.x = "urecpe"  -> Done(Urecpe(v), {})
      [] i.x = "ursqrte" -> Done(Ursqrte(v), {})
      [] OTHER -> FpOne(i, v, t, n)
FpMisc(c, i) ==
    LET w == BytesOf(i.t)
    IN  SetVec(c, i.rd, w,
               [k \in 0 .. LanesIn(i, w) - 1 |-> FpMiscLane(i, Elem(c.v[i.rn], k, w), i.t, FpEnv(c))], FALSE)

(***************************************************************************)
(* Across the lanes, and the scalar pairs.                                 *)
(***************************************************************************)

RECURSIVE SumUp(_, _, _, _)
SumUp(v, k, w, u) == IF k = 0 THEN 0 ELSE Ival(Elem(v, k - 1, w), w, u) + SumUp(v, k - 1, w, u)
\* reduce_minmax: lanes lo .. lo + n - 1 halved, and halved again.
RECURSIVE Reduce(_, _, _, _, _, _)
Reduce(x, v, lo, n, t, env) ==
    IF n = 1 THEN Done(Elem(v, lo, BytesOf(t)), {})
    ELSE LET a == Reduce(x, v, lo, n \div 2, t, env)
             b == Reduce(x, v, lo + n \div 2, n \div 2, t, env)
         IN  Raised(FpTwo(x, a.v, b.v, t, env), a.fl \cup b.fl)
Across(c, i) ==
    LET n  == c.v[i.rn]
        ks == LanesIn(i, i.w)
        S1 == { Ival(Elem(n, k, i.w), i.w, i.u) : k \in 0 .. ks - 1 }
    IN  CASE i.x = "addlv" -> SetVec(c, i.rd, 2 * i.w, [k \in {0} |-> Plainly(SumUp(n, ks, i.w, i.u), 2 * i.w)], FALSE)
          [] i.x = "addv" -> SetVec(c, i.rd, i.w, [k \in {0} |-> Plainly(SumUp(n, ks, i.w, i.u), i.w)], FALSE)
          [] i.x = "maxv" -> SetVec(c, i.rd, i.w, [k \in {0} |-> Plainly(Greatest(S1), i.w)], FALSE)
          [] i.x = "minv" -> SetVec(c, i.rd, i.w, [k \in {0} |-> Plainly(Least(S1), i.w)], FALSE)
FpAcross(c, i) ==
    SetVec(c, i.rd, BytesOf(i.t),
           [k \in {0} |-> Reduce(i.x, c.v[i.rn], 0, LanesIn(i, BytesOf(i.t)), i.t, FpEnv(c))], FALSE)
ScalarPair(c, i) ==
    LET w == IF i.x = "addp" THEN 8 ELSE BytesOf(i.t)
        a == Elem(c.v[i.rn], 0, w)
        b == Elem(c.v[i.rn], 1, w)
    IN  SetVec(c, i.rd, w, [k \in {0} |-> IF i.x = "addp" THEN Plainly(a + b, 8) ELSE FpTwo(i.x, a, b, i.t, FpEnv(c))], FALSE)

(***************************************************************************)
(* Copies, immediates, permutations.                                       *)
(***************************************************************************)

Inserted(c, i, x) ==
    SetBytes(c, i.rd, [b \in 0 .. VBytes - 1 |-> IF b \div i.w = i.index THEN Byte(x, b % i.w) ELSE c.v[i.rd][b]], TRUE)
SimdCopy(c, i) ==
    LET x == Elem(c.v[i.rn], IF i.x = "inse" THEN i.src ELSE i.index, i.w)
        g == MaskW(ReadX(c, i.rn, 8), i.w)
    IN  CASE i.x = "dup"  -> SetVec(c, i.rd, i.w, [k \in 0 .. LanesIn(i, i.w) - 1 |-> Done(x, {})], FALSE)
          [] i.x = "dupg" -> SetVec(c, i.rd, i.w, [k \in 0 .. LanesIn(i, i.w) - 1 |-> Done(g, {})], FALSE)
          [] i.x = "inse" -> Inserted(c, i, x)
          [] i.x = "insg" -> Inserted(c, i, g)
          [] i.x = "smov" -> NextInsn(WriteX(c, i.rd, MaskW(SignExtendW(x, i.w), IF i.q THEN 8 ELSE 4), 8))
          [] i.x = "umov" -> NextInsn(WriteX(c, i.rd, x, 8))

\* The eight bytes a modified immediate stands for.
ExpandImm(op, cmode, imm) ==
    LET full == Mod(1) - 1
        byte(b) ==
            CASE cmode \div 2 \in 0 .. 3 -> IF b % 4 = cmode \div 2 THEN imm ELSE 0
              [] cmode \div 2 \in {4, 5} -> IF b % 2 = cmode \div 2 - 4 THEN imm ELSE 0
              [] cmode \in {12, 13} -> IF b % 4 < cmode - 11 THEN full ELSE IF b % 4 = cmode - 11 THEN imm ELSE 0
              [] cmode = 14 -> IF op = 0 THEN imm ELSE IF Bit(imm, b) THEN full ELSE 0
              [] cmode = 15 -> IF op = 0 THEN Byte(VfpExpandImm(imm, FMT32), b % 4) ELSE Byte(VfpExpandImm(imm, FMT64), b)
    IN  [b \in 0 .. 7 |-> byte(b)]
ModImm(c, i) ==
    LET imm == ExpandImm(i.o, i.cmode, i.imm)
        to(b) == CASE i.cmode < 12 /\ i.cmode % 2 = 1 ->
                        IF i.o = 0 THEN c.v[i.rd][b] | imm[b % 8] ELSE c.v[i.rd][b] & ((Mod(1) - 1) - imm[b % 8])
                   [] ~(i.cmode < 12 /\ i.cmode % 2 = 1) /\ i.o = 1 /\ i.cmode < 14 -> (Mod(1) - 1) - imm[b % 8]
                   [] OTHER -> imm[b % 8]
    IN  SetBytes(c, i.rd, [b \in 0 .. VBytes - 1 |-> to(b)], i.q)

Permute(c, i) ==
    LET lanes == LanesIn(i, i.w)
        two(k) == IF k < lanes THEN Elem(c.v[i.rn], k, i.w) ELSE Elem(c.v[i.rm], k - lanes, i.w)
        side(k, j) == Elem(IF k % 2 = 0 THEN c.v[i.rn] ELSE c.v[i.rm], j, i.w)
        at(k) == CASE i.x = "uzp" -> two(2 * k + i.second)
                   [] i.x = "trn" -> side(k, (k - (k % 2)) + i.second)
                   [] i.x = "zip" -> side(k, i.second * (lanes \div 2) + k \div 2)
    IN  SetVec(c, i.rd, i.w, [k \in 0 .. lanes - 1 |-> Done(at(k), {})], FALSE)
SimdExt(c, i) ==
    LET n == IF i.q THEN 16 ELSE 8
    IN  SetBytes(c, i.rd, [b \in 0 .. VBytes - 1 |->
            IF b + i.imm < n THEN c.v[i.rn][b + i.imm] ELSE c.v[i.rm][(b + i.imm - n) % 16]], i.q)
SimdTbl(c, i) ==
    LET to(b) == IF c.v[i.rm][b] < i.len * TableBytes
                 THEN c.v[(i.rn + c.v[i.rm][b] \div TableBytes) % VRegs][c.v[i.rm][b] % TableBytes]
                 ELSE IF i.x = "tbx" THEN c.v[i.rd][b] ELSE 0
    IN  SetBytes(c, i.rd, [b \in 0 .. VBytes - 1 |-> to(b)], i.q)

(***************************************************************************)
(* Shifts by an immediate.                                                 *)
(***************************************************************************)

\* To the narrow lane: SHRN takes the bits, the others saturate.
ShrnLane(i, x) ==
    LET v == (Ival(x, 2 * i.w, i.x = "shrn" \/ (i.x = "qshrn" /\ i.u)) + Rounding(i.round, i.sh)) \div 2 ^ i.sh
    IN  IF i.x = "shrn" THEN Plainly(v, i.w) ELSE Sat(v, i.w, i.x = "qshrun" \/ i.u)
ShiftImmLane(i, x, acc) ==
    LET s == (Ival(x, i.w, i.u) + Rounding(i.round, i.sh)) \div 2 ^ i.sh
        inserted(v, lo, hi) == v + (acc % 2 ^ lo) + (acc - (acc % 2 ^ hi))
    IN  CASE i.x = "shr" -> Plainly(s, i.w)
          [] i.x = "sra" -> Plainly(acc + s, i.w)
          [] i.x = "shl" -> Plainly(MaskW(x, i.w) * 2 ^ i.sh, i.w)
          [] i.x = "sri" -> Plainly(inserted(x \div 2 ^ i.sh, 0, i.w * B - i.sh), i.w)
          [] i.x = "sli" -> Plainly(inserted(MaskW(x * 2 ^ i.sh, i.w), i.sh, i.w * B), i.w)
          [] i.x = "qshlu" -> Sat(SignExtendW(x, i.w) * 2 ^ i.sh, i.w, TRUE)
          [] i.x = "qshl"  -> Sat(Ival(x, i.w, i.u) * 2 ^ i.sh, i.w, i.u)
ShiftImm(c, i) ==
    LET n == c.v[i.rn]
    IN  CASE i.x = "shll" ->
               SetVec(c, i.rd, 2 * i.w, [k \in 0 .. 8 \div i.w - 1 |->
                   Plainly(Ival(ValOf(n, Upper(i) + k * i.w, i.w), i.w, i.u) * 2 ^ i.sh, 2 * i.w)], FALSE)
          [] i.x \in {"shrn", "qshrun", "qshrn"} ->
               SetVec(c, i.rd, i.w, [k \in 0 .. LongLanes(i) - 1 |-> ShrnLane(i, Elem(n, k, 2 * i.w))], i.q /\ ~i.sc)
          [] OTHER ->
               SetVec(c, i.rd, i.w,
                      [k \in 0 .. LanesIn(i, i.w) - 1 |-> ShiftImmLane(i, Elem(n, k, i.w), Elem(c.v[i.rd], k, i.w))], FALSE)

(***************************************************************************)
(* By one element of the second register.                                  *)
(***************************************************************************)

FpByElem(c, i) ==
    LET w == BytesOf(i.t)
        b == Elem(c.v[i.rm], i.index, w)
    IN  SetVec(c, i.rd, w, [k \in 0 .. LanesIn(i, w) - 1 |->
            FpLane(i.x, Elem(c.v[i.rn], k, w), b, Elem(c.v[i.rd], k, w), i.t, FpEnv(c))], FALSE)
LongByElem(c, i) ==
    LET y == Ival(Elem(c.v[i.rm], i.index, i.w), i.w, i.u)
    IN  SetVec(c, i.rd, 2 * i.w, [k \in 0 .. LongLanes(i) - 1 |->
            LongLane(i.x, Ival(ValOf(c.v[i.rn], Upper(i) + k * i.w, i.w), i.w, i.u), y,
                     Elem(c.v[i.rd], k, 2 * i.w), 2 * i.w)], FALSE)
IntByElem(c, i) ==
    SetVec(c, i.rd, i.w, [k \in 0 .. LanesIn(i, i.w) - 1 |->
        IntLane(i, i.w, Elem(c.v[i.rn], k, i.w), Elem(c.v[i.rm], i.index, i.w), Elem(c.v[i.rd], k, i.w))], FALSE)

(***************************************************************************)
(* The later extensions (simd_ext.rs).                                     *)
(***************************************************************************)

\* SQRDMLAH, SQRDMLSH: the sum is rounded once, before it saturates.
Sqrdmlah(d, n, m, w, sub) ==
    LET p == 2 * SignExtendW(n, w) * SignExtendW(m, w)
    IN  Sat((SignExtendW(d, w) * Mod(w) + (IF sub THEN -p ELSE p) + Rounding(TRUE, w * B)) \div Mod(w), w, FALSE)
RdMulAdd(c, i) ==
    SetVec(c, i.rd, i.w, [k \in 0 .. LanesIn(i, i.w) - 1 |->
        Sqrdmlah(Elem(c.v[i.rd], k, i.w), Elem(c.v[i.rn], k, i.w),
                 Elem(c.v[i.rm], IF i.index >= 0 THEN i.index ELSE k, i.w), i.w, i.x = "sub")], FALSE)
\* The products of n bytes from byte a of v and byte b of x, summed.
RECURSIVE Dot(_, _, _, _, _, _, _)
Dot(v, a, vu, x, b, xu, n) ==
    IF n = 0 THEN 0 ELSE Ival(v[a], 1, vu) * Ival(x[b], 1, xu) + Dot(v, a + 1, vu, x, b + 1, xu, n - 1)
DotProd(c, i) ==
    SetVec(c, i.rd, 4, [k \in 0 .. (IF i.q THEN 4 ELSE 2) - 1 |->
        Plainly(Elem(c.v[i.rd], k, 4)
                    + Dot(c.v[i.rn], 4 * k, i.u, c.v[i.rm], 4 * (IF i.index >= 0 THEN i.index ELSE k), i.mu, 4), 4)], FALSE)
\* SMMLA and its kin: rows of eight bytes, a two by two matrix of sums.
MatMul(c, i) ==
    SetVec(c, i.rd, 4, [k \in 0 .. 3 |->
        Plainly(Elem(c.v[i.rd], k, 4) + Dot(c.v[i.rn], 8 * (k \div 2), i.u, c.v[i.rm], 8 * (k % 2), i.mu, 8), 4)], FALSE)

\* FCMLA on a real (part 0) or an imaginary lane; FCADD turns m by 90 or 270.
FcmlaLane(part, d, n, m, rot, t, env) ==
    LET e == CASE rot = 0 -> <<m[part], n[0], FALSE>>
               [] rot = 1 -> <<m[1 - part], n[1], part = 0>>
               [] rot = 2 -> <<m[part], n[0], TRUE>>
               [] rot = 3 -> <<m[1 - part], n[1], part = 1>>
    IN  FpMulAdd(d, e[2], NegIf(e[3], t, e[1]), t, env)
Complex(c, i) ==
    LET w == BytesOf(i.t)
        pair(r, k) == [h \in 0 .. 1 |-> Elem(c.v[r], 2 * k + h, w)]
        lane(k) ==
            IF i.x = "fcmla"
            THEN FcmlaLane(k % 2, Elem(c.v[i.rd], k, w), pair(i.rn, k \div 2),
                           pair(i.rm, IF i.index >= 0 THEN i.index ELSE k \div 2), i.rot, i.t, FpEnv(c))
            ELSE FpTwo("add", Elem(c.v[i.rn], k, w),
                       NegIf((i.rot = 3) = (k % 2 = 1), i.t, pair(i.rm, k \div 2)[1 - (k % 2)]), i.t, FpEnv(c))
    IN  SetVec(c, i.rd, w, [k \in 0 .. LanesIn(i, w) - 1 |-> lane(k)], FALSE)

\* EOR3, BCAX, XAR and RAX1.
CryptoLogic(c, i) ==
    LET n == c.v[i.rn]
        m == c.v[i.rm]
        half(v, k) == Elem(v, k, 8)
    IN  CASE i.x = "eor3" -> SetBytes(c, i.rd, [b \in 0 .. 15 |-> (n[b] ^^ m[b]) ^^ c.v[i.ra][b]], TRUE)
          [] i.x = "bcax" -> SetBytes(c, i.rd, [b \in 0 .. 15 |-> n[b] ^^ BitOf("bic", m[b], c.v[i.ra][b], 0)], TRUE)
          [] i.x = "xar"  -> SetVec(c, i.rd, 8, [k \in 0 .. 1 |-> Done(Ror(half(n, k) ^^ half(m, k), i.imm, Bits), {})], FALSE)
          [] i.x = "rax1" -> SetVec(c, i.rd, 8, [k \in 0 .. 1 |-> Done(half(n, k) ^^ Ror(half(m, k), Bits - 1, Bits), {})], FALSE)

(***************************************************************************)
(* The run loop.                                                           *)
(***************************************************************************)

ExecNeon(c, i) ==
    CASE i.f = "logic"  -> Bitwise3(c, i)
      [] i.f = "same"   -> ThreeSame(c, i)
      [] i.f = "fsame"  -> FpThreeSame(c, i)
      [] i.f = "fhm"    -> Fmlal(c, i)
      [] i.f = "diff"   -> ThreeDiff(c, i)
      [] i.f = "misc"   -> TwoMisc(c, i)
      [] i.f = "fcvt"   -> FcvtNarrowLong(c, i)
      [] i.f = "fmisc"  -> FpMisc(c, i)
      [] i.f = "across" -> Across(c, i)
      [] i.f = "facross" -> FpAcross(c, i)
      [] i.f = "spair"  -> ScalarPair(c, i)
      [] i.f = "copy"   -> SimdCopy(c, i)
      [] i.f = "imm"    -> ModImm(c, i)
      [] i.f = "perm"   -> Permute(c, i)
      [] i.f = "ext"    -> SimdExt(c, i)
      [] i.f = "tbl"    -> SimdTbl(c, i)
      [] i.f = "shift"  -> ShiftImm(c, i)
      [] i.f = "felem"  -> FpByElem(c, i)
      [] i.f = "lelem"  -> LongByElem(c, i)
      [] i.f = "elem"   -> IntByElem(c, i)
      [] i.f = "rdm"    -> RdMulAdd(c, i)
      [] i.f = "dot"    -> DotProd(c, i)
      [] i.f = "mmla"   -> MatMul(c, i)
      [] i.f = "complex" -> Complex(c, i)
      [] i.f = "crypto" -> CryptoLogic(c, i)

Executes(c, i) ==
    CASE i.op = "neon" -> ExecNeon(c, i)
      [] i.op \in {"fma", "ftwo", "fcmp", "fcsel", "fmovi", "fone", "fint"} -> ExecFp(c, i)
      [] OTHER -> Exec(c, i)

\* One turn of run(): the checks on PC, the fetch and the instruction.
Step(c) ==
    IF c.ip % 4 # 0 THEN Misaligned(c, c.ip, FALSE)
    ELSE IF ~Allows(c, c.ip, 4, "r") THEN RdFault(c, c.ip)
    ELSE LET d == Fetched(c)
         IN  Executes(d, Text[c.k][c.p][c.ip][d.copy[Way(PageOf(c.ip))][c.ip]])
==============================================================================
