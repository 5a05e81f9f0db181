--------------------------------- MODULE X87 ---------------------------------
(***************************************************************************)
(* vcpu/softfloat.rs: the floating point of the x86 CPU.                   *)
(*                                                                         *)
(* A value is unpacked: (-1)^sign * sig * 2^exp, sig an integer with all   *)
(* the bits an operation produces, and it is rounded once, by Round.  The  *)
(* widths are scaled: u128 has 2 * Half + 2 bits (Half is 63 in the code), *)
(* a format is [bits, prec, emax], the widest is Ext with prec = Half + 1  *)
(* and its integer bit explicit.  A set of flags is a set of strings.      *)
(***************************************************************************)
EXTENDS Integers, FiniteSets, Bitwise, X86

CONSTANTS Half,        \* 63
          Ext          \* FMT80

Wide == 2 * Half + 2
Quiet == 2 ^ (Half - 1)
Emin(f) == 1 - f.emax

\* The highest bit set.
RECURSIVE Msb(_)
Msb(v) == IF v <= 1 THEN 0 ELSE 1 + Msb(v \div 2)

FZero(s) == [sign |-> s, class |-> "zero", sig |-> 0, exp |-> 0]
FInf(s) == [sign |-> s, class |-> "inf", sig |-> 0, exp |-> 0]
FNan(s, v) == [sign |-> s, class |-> "nan", sig |-> v, exp |-> 0]
FFinite(s, v, e) == IF v = 0 THEN FZero(s) ELSE [sign |-> s, class |-> "finite", sig |-> v, exp |-> e]
Indefinite == FNan(TRUE, Quiet)
IsNan(v) == v.class = "nan"
IsSnan(v) == IsNan(v) /\ v.sig & Quiet = 0
Quieted(v) == [v EXCEPT !.sig = @ | Quiet]
LeadExp(v) == v.exp + Msb(v.sig)
IsDenormal(v, f) == v.class = "finite" /\ LeadExp(v) < Emin(f)
Neg(v) == [v EXCEPT !.sign = ~@]

(***************************************************************************)
(* Encodings.                                                              *)
(***************************************************************************)

Frac(f) == f.prec - 1
EMask(f) == 2 * f.emax + 1

\* unpack_f16, unpack_f32 and unpack_f64.
Unpack(f, x) ==
    LET s == x >= 2 ^ (f.bits - 1)
        e == (x \div 2 ^ Frac(f)) % (EMask(f) + 1)
        m == x % 2 ^ Frac(f)
    IN  IF e = EMask(f) THEN IF m = 0 THEN FInf(s) ELSE FNan(s, m * 2 ^ (Half - Frac(f)))
        ELSE IF e = 0 THEN FFinite(s, m, Emin(f) - Frac(f))
        ELSE FFinite(s, m + 2 ^ Frac(f), e - f.emax - Frac(f))

SigMask == 2 ^ (Half + 1)
Unpack80(x) ==
    LET s == x >= 2 ^ (Ext.bits - 1)
        e == (x \div SigMask) % (EMask(Ext) + 1)
        m == x % SigMask
    IN  IF e = EMask(Ext) THEN IF m % 2 ^ Half = 0 THEN FInf(s) ELSE FNan(s, m % 2 ^ Half)
        ELSE IF e = 0 THEN FFinite(s, m, Emin(Ext) - Half)
        ELSE FFinite(s, m, e - Ext.emax - Half)
\* Unnormals, pseudo-infinities and pseudo-NaNs.
F80Unsupported(x) == (x \div SigMask) % (EMask(Ext) + 1) # 0 /\ (x \div 2 ^ Half) % 2 = 0

\* The significand with its top bit at prec - 1.
Justify(v, prec) ==
    LET k == Msb(v.sig) IN IF k < prec THEN v.sig * 2 ^ (prec - 1 - k) ELSE v.sig \div 2 ^ (k - (prec - 1))

\* pack_f16, pack_f32 and pack_f64, of a value the format has.
Pack(f, v) ==
    LET s == IF v.sign THEN 2 ^ (f.bits - 1) ELSE 0
    IN  s + (CASE v.class = "zero" -> 0
               [] v.class = "inf"  -> EMask(f) * 2 ^ Frac(f)
               [] v.class = "nan"  -> EMask(f) * 2 ^ Frac(f) + (v.sig \div 2 ^ (Half - Frac(f)))
               [] v.class = "finite" ->
                    IF LeadExp(v) < Emin(f) THEN (v.sig * 2 ^ (v.exp - (Emin(f) - Frac(f)))) % 2 ^ Frac(f)
                    ELSE (LeadExp(v) + f.emax) * 2 ^ Frac(f) + (Justify(v, f.prec) % 2 ^ Frac(f)))
Pack80(v) ==
    LET s == IF v.sign THEN 2 ^ (Ext.bits - 1) ELSE 0
        top == EMask(Ext) * SigMask + 2 ^ Half
    IN  s + (CASE v.class = "zero" -> 0
               [] v.class = "inf"  -> top
               [] v.class = "nan"  -> top + v.sig
               [] v.class = "finite" ->
                    IF LeadExp(v) < Emin(Ext) THEN v.sig * 2 ^ (v.exp - (Emin(Ext) - Half))
                    ELSE (LeadExp(v) + Ext.emax) * SigMask + Justify(v, Half + 1))

(***************************************************************************)
(* Rounding.                                                               *)
(***************************************************************************)

Exact(v) == [v |-> v, flags |-> {}, up |-> FALSE, tiny |-> FALSE]

RoundDecision(lsb, half, sticky, sign, mode) ==
    CASE mode = "nearest" -> half /\ (sticky \/ lsb)
      [] mode = "zero"    -> FALSE
      [] mode = "up"      -> (half \/ sticky) /\ ~sign
      [] mode = "down"    -> (half \/ sticky) /\ sign

\* sig at bit sh: the bits kept, the next one, and whether any follows.
Split(sig, sh) ==
    IF sh <= 0 THEN [q |-> sig * 2 ^ (-sh), r |-> FALSE, s |-> FALSE]
    ELSE IF sh > Wide THEN [q |-> 0, r |-> FALSE, s |-> sig # 0]
    ELSE [q |-> sig \div 2 ^ sh, r |-> (sig \div 2 ^ (sh - 1)) % 2 = 1, s |-> sig % 2 ^ (sh - 1) # 0]
Odd(n) == n % 2 = 1

\* Nothing is left but a remnant below every bit.
RoundRemnant(sign, sticky, f, mode) ==
    LET up == RoundDecision(FALSE, FALSE, TRUE, sign, mode)
    IN  IF ~sticky THEN Exact(FZero(sign))
        ELSE [v |-> IF up THEN FFinite(sign, 1, Emin(f) - Frac(f)) ELSE FZero(sign),
              flags |-> {"P", "U"}, up |-> up, tiny |-> TRUE]

\* Below the normal range once rounded to prec bits, whatever the exponent.
Tiny(sign, k, sticky, f, mode, e) ==
    \/ e < Emin(f) - 1
    \/ e = Emin(f) - 1 /\ ~(k.q + 1 = 2 ^ f.prec /\ RoundDecision(Odd(k.q), k.r, k.s \/ sticky, sign, mode))

\* Past the largest finite value.
Overflowed(sign, f, mode) ==
    LET inf == mode = "nearest" \/ (mode = "up" /\ ~sign) \/ (mode = "down" /\ sign)
    IN  [v |-> IF inf THEN FInf(sign) ELSE FFinite(sign, 2 ^ f.prec - 1, f.emax - Frac(f)),
         flags |-> {"O", "P"}, up |-> inf, tiny |-> FALSE]

\* q units of 2^ulp, and one more if up; a carry out of the significand moves
\* to the next exponent.
Carried(sign, q, up, ulp, f) ==
    IF up /\ q + 1 = 2 ^ f.prec THEN FFinite(sign, 2 ^ Frac(f), ulp + 1)
    ELSE FFinite(sign, IF up THEN q + 1 ELSE q, ulp)
Kept(v, up, inexact, tiny, f, mode) ==
    IF v.class = "finite" /\ LeadExp(v) > f.emax THEN Overflowed(v.sign, f, mode)
    ELSE [v |-> v, up |-> up /\ inexact, tiny |-> tiny,
          flags |-> (IF inexact THEN {"P"} ELSE {}) \cup (IF tiny /\ inexact THEN {"U"} ELSE {})]
RoundBits(sign, k, up, ulp, sticky, tiny, f, mode) ==
    Kept(Carried(sign, k.q, up, ulp, f), up, k.r \/ k.s \/ sticky, tiny, f, mode)
RoundSplit(sign, k, ulp, sticky, tiny, f, mode) ==
    RoundBits(sign, k, RoundDecision(Odd(k.q), k.r, k.s \/ sticky, sign, mode), ulp, sticky, tiny, f, mode)
\* The ulp is that of the leading bit e, or of the least normal exponent.
RoundAt(sign, sig, exp, sticky, f, mode, e) ==
    LET ulp == (IF e > Emin(f) THEN e ELSE Emin(f)) - Frac(f)
    IN  RoundSplit(sign, Split(sig, ulp - exp), ulp, sticky,
                   Tiny(sign, Split(sig, (e - Frac(f)) - exp), sticky, f, mode, e), f, mode)
Round(sign, sig, exp, sticky, f, mode) ==
    IF sig = 0 THEN RoundRemnant(sign, sticky, f, mode)
    ELSE RoundAt(sign, sig, exp, sticky, f, mode, exp + Msb(sig))
RoundFp(v, f, mode) == IF v.class = "finite" THEN Round(v.sign, v.sig, v.exp, FALSE, f, mode) ELSE Exact(v)

(***************************************************************************)
(* Arithmetic on operands that are not NaNs: the result before its one     *)
(* rounding, s telling that bits below its significand were dropped.       *)
(***************************************************************************)

Raw(v) == [v |-> v, s |-> FALSE, flags |-> {}]
Finite(sign, sig, exp, s) == [v |-> FFinite(sign, sig, exp), s |-> s, flags |-> {}]
RawInvalid == [v |-> Indefinite, s |-> FALSE, flags |-> {"I"}]
Rounded(r, f, mode) ==
    IF r.v.class = "finite" \/ r.s THEN Round(r.v.sign, r.v.sig, r.v.exp, r.s, f, mode)
    ELSE [Exact(r.v) EXCEPT !.flags = r.flags]

ShrSticky(x, n) == IF n >= Wide THEN [x |-> 0, s |-> x # 0] ELSE [x |-> x \div 2 ^ n, s |-> x % 2 ^ n # 0]
\* The significand with its top bit at 2 * Half.
Aligned(v) == v.sig * 2 ^ (2 * Half - Msb(v.sig))

\* A subtraction that forgets the bits shifted out of the smaller operand.
DifferNoBorrow(h, l, big, k, d, mode) == Finite(h.sign, big - k.x, LeadExp(h) - 2 * Half, k.s)
\* h - l, the leading bit of h d places above that of l: a unit is borrowed
\* for the bits the alignment dropped.
Differ(h, l, big, k, d, mode) ==
    IF d > 0 THEN Finite(h.sign, (big - k.x) * 2 - (IF k.s THEN 1 ELSE 0), LeadExp(h) - 2 * Half - 1, k.s)
    ELSE IF big = k.x THEN Raw(FZero(mode = "down"))
    ELSE IF big < k.x THEN Finite(l.sign, k.x - big, LeadExp(h) - 2 * Half, FALSE)
    ELSE Finite(h.sign, big - k.x, LeadExp(h) - 2 * Half, FALSE)
AddAligned(h, l, big, k, d, mode) ==
    IF h.sign = l.sign THEN Finite(h.sign, big + k.x, LeadExp(h) - 2 * Half, k.s) ELSE Differ(h, l, big, k, d, mode)
AddOrdered(h, l, mode) ==
    AddAligned(h, l, Aligned(h), ShrSticky(Aligned(l), LeadExp(h) - LeadExp(l)), LeadExp(h) - LeadExp(l), mode)
\* add_finite; add_wide is the same sum of significands as long as products.
AddFinite(a, b, mode) ==
    LET swap == LeadExp(a) < LeadExp(b) IN AddOrdered(IF swap THEN b ELSE a, IF swap THEN a ELSE b, mode)

Add(a, b, mode) ==
    CASE a.class = "inf" /\ b.class = "inf"   -> IF a.sign = b.sign THEN Raw(a) ELSE RawInvalid
      [] a.class = "inf" /\ b.class # "inf"   -> Raw(a)
      [] a.class # "inf" /\ b.class = "inf"   -> Raw(b)
      [] a.class = "zero" /\ b.class = "zero" -> Raw(FZero(IF a.sign = b.sign THEN a.sign ELSE mode = "down"))
      [] a.class = "zero" /\ b.class = "finite"   -> Raw(b)
      [] a.class = "finite" /\ b.class = "zero"   -> Raw(a)
      [] a.class = "finite" /\ b.class = "finite" -> AddFinite(a, b, mode)

Mul(a, b, sign) ==
    CASE {a.class, b.class} = {"inf", "zero"} -> RawInvalid
      [] "inf" \in {a.class, b.class} /\ "zero" \notin {a.class, b.class} -> Raw(FInf(sign))
      [] "zero" \in {a.class, b.class} /\ "inf" \notin {a.class, b.class} -> Raw(FZero(sign))
      [] a.class = "finite" /\ b.class = "finite" -> Finite(sign, a.sig * b.sig, a.exp + b.exp, FALSE)

\* a * b + c, rounded once.
FmaOf(r, c, mode) ==
    IF r.flags # {} THEN r ELSE Add(r.v, c, mode)
Fma(a, b, c, mode) == FmaOf(Mul(a, b, a.sign # b.sign), c, mode)

\* n quotient bits of rem / den, one at a time, and whether any follows.
RECURSIVE LongDivide(_, _, _, _)
LongDivide(q, rem, den, n) ==
    IF n = 0 THEN [q |-> q, s |-> rem # 0]
    ELSE LET d == IF rem >= den THEN 1 ELSE 0 IN LongDivide(2 * q + d, (rem - d * den) * 2, den, n - 1)
DivFinite(sign, k, e, n) == Finite(sign, k.q, e - (n - 1), k.s)
Div(a, b, sign, f) ==
    CASE a.class = b.class /\ a.class # "finite" -> RawInvalid
      [] a.class = "inf" /\ b.class # "inf" -> Raw(FInf(sign))
      [] (a.class = "finite" /\ b.class = "inf") \/ (a.class = "zero" /\ b.class # "zero") -> Raw(FZero(sign))
      [] a.class = "finite" /\ b.class = "zero" -> [Raw(FInf(sign)) EXCEPT !.flags = {"Z"}]
      [] a.class = "finite" /\ b.class = "finite" ->
           DivFinite(sign, LongDivide(0, Aligned(a), Aligned(b), f.prec + 3), LeadExp(a) - LeadExp(b), f.prec + 3)

\* Newton's iteration down from above the root, which it does not pass.
RECURSIVE Descend(_, _)
Descend(n, x) == LET y == (x + n \div x) \div 2 IN IF y >= x THEN x ELSE Descend(n, y)
Isqrt(n) == IF n = 0 THEN 0 ELSE Descend(n, 2 ^ (Msb(n) \div 2 + 1))

\* The root of an even power with its exact remainder: it is above the
\* middle of q and q + 1 iff the remainder exceeds q.
RootOf(n, q, exp) == Finite(FALSE, 2 * q + (IF n - q * q > q THEN 1 ELSE 0), exp \div 2 - 1, n # q * q)
SqrtShifted(sig, exp, k) == RootOf(sig * 2 ^ k, Isqrt(sig * 2 ^ k), exp - k)
SqrtFinite(sig, exp) == SqrtShifted(sig, exp, (2 * Half - Msb(sig)) + ((2 * Half - Msb(sig)) % 2))
Sqrt(a) ==
    IF a.class = "zero" \/ (a.class = "inf" /\ ~a.sign) THEN Raw(a)
    ELSE IF a.sign THEN RawInvalid
    ELSE SqrtFinite(IF Odd(a.exp) THEN 2 * a.sig ELSE a.sig, IF Odd(a.exp) THEN a.exp - 1 ELSE a.exp)

RoundUnits(sign, k, up) ==
    [v |-> FFinite(sign, IF up THEN k.q + 1 ELSE k.q, 0),
     flags |-> IF k.r \/ k.s THEN {"P"} ELSE {}, up |-> up /\ (k.r \/ k.s), tiny |-> FALSE]
RoundBelow(a, k, mode) == RoundUnits(a.sign, k, RoundDecision(Odd(k.q), k.r, k.s, a.sign, mode))
RoundToInt(a, mode) ==
    IF a.class # "finite" \/ a.exp >= 0 THEN Exact(a) ELSE RoundBelow(a, Split(a.sig, -a.exp), mode)

NoInt == [fits |-> FALSE, v |-> 0, flags |-> {}, up |-> FALSE]
IntOf(a, r, mag, bits) ==
    IF mag > 2 ^ (bits - 1) \/ (~a.sign /\ mag = 2 ^ (bits - 1)) THEN NoInt
    ELSE [fits |-> TRUE, v |-> IF a.sign THEN -mag ELSE mag, flags |-> r.flags, up |-> r.up]
ToIntOf(a, r, bits) ==
    IntOf(a, r, IF r.v.class = "zero" THEN 0 ELSE r.v.sig * 2 ^ (IF r.v.exp > 0 THEN r.v.exp ELSE 0), bits)
\* A signed integer of that many bits, if it fits (values past 64 bits are
\* turned away first, as those past the width are here).
ToInt(a, bits, mode) ==
    IF a.class = "zero" THEN [NoInt EXCEPT !.fits = TRUE]
    ELSE IF a.class # "finite" \/ LeadExp(a) > bits THEN NoInt
    ELSE ToIntOf(a, RoundToInt(a, mode), bits)
FromInt(v) == FFinite(v < 0, IF v < 0 THEN -v ELSE v, 0)

Rank(v) == CASE v.class = "zero" -> 0 [] v.class = "finite" -> 1 [] OTHER -> 2
Sgn(n) == IF n < 0 THEN -1 ELSE IF n = 0 THEN 0 ELSE 1
MagnitudeCmp(a, b) ==
    IF Rank(a) # Rank(b) THEN Sgn(Rank(a) - Rank(b))
    ELSE IF a.class # "finite" THEN 0
    ELSE IF LeadExp(a) # LeadExp(b) THEN Sgn(LeadExp(a) - LeadExp(b))
    ELSE Sgn(Aligned(a) - Aligned(b))
\* -1, 0 or 1; the zeros are equal.
Compare(a, b) ==
    LET na == a.class # "zero" /\ a.sign
        nb == b.class # "zero" /\ b.sign
    IN  IF a.class = "zero" /\ b.class = "zero" THEN 0
        ELSE IF na # nb THEN IF na THEN -1 ELSE 1
        ELSE MagnitudeCmp(IF na THEN b ELSE a, IF na THEN a ELSE b)

(***************************************************************************)
(* SSE: the environment MXCSR, [rc, daz, ftz, mask, fl], gives.            *)
(***************************************************************************)

\* FTZ holds only while underflow is masked.
FromMxcsr(mx) == [mode |-> mx.rc, daz |-> mx.daz, ftz |-> mx.ftz /\ "U" \in mx.mask]
Input(mx, v, f) ==
    IF ~IsDenormal(v, f) THEN [v |-> v, flags |-> {}]
    ELSE IF mx.daz THEN [v |-> FZero(v.sign), flags |-> {}] ELSE [v |-> v, flags |-> {"D"}]
Output(mx, r) ==
    IF mx.ftz /\ r.tiny /\ r.v.class = "finite" THEN [v |-> FZero(r.v.sign), flags |-> r.flags \cup {"U", "P"}]
    ELSE [v |-> r.v, flags |-> r.flags]

SseNan2(a, b) ==
    [v |-> Quieted(IF IsNan(a) THEN a ELSE b), flags |-> IF IsSnan(a) \/ IsSnan(b) THEN {"I"} ELSE {}]
ArithRaw(op, a, b, f, mode) ==
    CASE op \in {"add", "sub"} -> Add(a, IF op = "sub" THEN Neg(b) ELSE b, mode)
      [] op = "mul" -> Mul(a, b, a.sign # b.sign)
      [] op = "div" -> Div(a, b, a.sign # b.sign, f)
ArithOf(op, a, b, f, mode) == Rounded(ArithRaw(op, a, b, f, mode), f, mode)
Adding(r, F) == [r EXCEPT !.flags = @ \cup F]
SseArithOf(op, x, y, f, mx) == Adding(Output(mx, ArithOf(op, x.v, y.v, f, mx.mode)), x.flags \cup y.flags)
SseArith(op, a, b, f, mx) ==
    IF IsNan(a) \/ IsNan(b) THEN SseNan2(a, b) ELSE SseArithOf(op, Input(mx, a, f), Input(mx, b, f), f, mx)
SseSqrtOf(x, f, mx) == Adding(Output(mx, Rounded(Sqrt(x.v), f, mx.mode)), x.flags)
SseSqrt(a, f, mx) == IF IsNan(a) THEN SseNan2(a, a) ELSE SseSqrtOf(Input(mx, a, f), f, mx)

------------------------------------------------------------------------------
(***************************************************************************)
(* The x87 of vcpu/interp_x86/x87.rs: a stack of eight extended values in  *)
(* c.fp = [st, top, tag, c0..c3, cw, fl], tag the registers in use, cw the *)
(* control word, fl the sticky exceptions ("S" is the stack fault).        *)
(* Control, status and tag words keep their 16 bits.  An instruction is    *)
(* [op |-> "x87", x, x2, fmt, pop, quiet, trunc, neg, small, ...], its     *)
(* stack register in rm.r.  Left out: the transcendental functions.        *)
(***************************************************************************)

CONSTANTS FMT32, FMT64,
          Radix             \* 10

FlagBit == [I |-> 0, D |-> 1, Z |-> 2, O |-> 3, U |-> 4, P |-> 5, S |-> 6]
Masks(cw, x) == Bit(cw, FlagBit[x])
FlagNum(F) == LET at(x) == IF x \in F THEN 2 ^ FlagBit[x] ELSE 0
              IN  at("I") + at("D") + at("Z") + at("O") + at("U") + at("P") + at("S")
FlagSet(n) == { x \in DOMAIN FlagBit : Bit(n, FlagBit[x]) }

ExpField(v) == (v \div SigMask) % (EMask(Ext) + 1)
Mant(v) == v % SigMask
F80Denormal(v) == ExpField(v) = 0 /\ Mant(v) # 0
Indef80 == Pack80(Indefinite)
One80 == Pack80(FromInt(1))

\* Of two NaNs the quiet one, else the larger, else the positive.
X87Nan2(a, b) ==
    LET first == CASE IsNan(a) /\ IsNan(b) ->
                        IF IsSnan(a) # IsSnan(b) THEN IsSnan(b)
                        ELSE IF a.sig # b.sig THEN a.sig > b.sig ELSE ~a.sign
                   [] OTHER -> IsNan(a)
    IN  [v |-> Quieted(IF first THEN a ELSE b), f |-> IF IsSnan(a) \/ IsSnan(b) THEN {"I"} ELSE {}]

Operand(v) ==
    IF F80Unsupported(v) THEN [v |-> Indefinite, f |-> {"I"}]
    ELSE [v |-> Unpack80(v), f |-> IF F80Denormal(v) THEN {"D"} ELSE {}]

(***************************************************************************)
(* The register stack and the status.                                      *)
(***************************************************************************)

StIdx(c, i) == (c.fp.top + i) % 8
StGet(c, i) == c.fp.st[StIdx(c, i)]
StSet(c, i, v) == [c EXCEPT !.fp.st[StIdx(c, i)] = v, !.fp.tag = @ \cup {StIdx(c, i)}]
StEmpty(c, i) == StIdx(c, i) \notin c.fp.tag
FpuPop(c) == [c EXCEPT !.fp.tag = @ \ {c.fp.top}, !.fp.top = (@ + 1) % 8]
PopIf(c, p) == IF p THEN FpuPop(c) ELSE c
SetC1(c, b) == [c EXCEPT !.fp.c1 = b]

\* x87_flags: the flags stay; the result is withheld when an invalid,
\* denormal or zero-divide among them is unmasked.
X87Flags(c, F) == [c EXCEPT !.fp.fl = @ \cup F]
Delivers(c, F) == \A x \in F \cap {"I", "D", "Z"} : Masks(c.fp.cw, x)
FpuPending(c) == \E x \in c.fp.fl \ {"S"} : ~Masks(c.fp.cw, x)

StackFault(c, over) == X87Flags(SetC1(c, over), {"I", "S"})
FpuPush(c, v) ==
    LET t == (c.fp.top + 7) % 8
        up(d, x) == StSet([d EXCEPT !.fp.top = t], 0, x)
    IN  IF t \notin c.fp.tag THEN up(c, v)
        ELSE IF Delivers(c, {"I"}) THEN up(StackFault(c, TRUE), Indef80) ELSE StackFault(c, TRUE)
\* st_src: an empty register reads as the indefinite, if that is masked.
StSrc(c, i) ==
    IF StEmpty(c, i) THEN [c |-> StackFault(c, FALSE), ok |-> Delivers(c, {"I"}), v |-> Indef80]
    ELSE [c |-> c, ok |-> TRUE, v |-> StGet(c, i)]

FpuRound(c) == <<"nearest", "down", "up", "zero">>[((c.fp.cw \div 1024) % 4) + 1]
FpuFmt(c) ==
    LET pc == (c.fp.cw \div 256) % 4
    IN  [Ext EXCEPT !.prec = CASE pc = 0 -> FMT32.prec [] pc = 2 -> FMT64.prec [] OTHER -> @]

FpuSw(c) ==
    FlagNum(c.fp.fl) + (IF FpuPending(c) THEN 2 ^ 15 + 2 ^ 7 ELSE 0) + c.fp.top * 2 ^ 11
        + Num(c.fp.c0) * 2 ^ 8 + Num(c.fp.c1) * 2 ^ 9 + Num(c.fp.c2) * 2 ^ 10 + Num(c.fp.c3) * 2 ^ 14
SetFpuSw(c, n) ==
    [c EXCEPT !.fp.fl = FlagSet(n), !.fp.top = (n \div 2 ^ 11) % 8,
              !.fp.c0 = Bit(n, 8), !.fp.c1 = Bit(n, 9), !.fp.c2 = Bit(n, 10), !.fp.c3 = Bit(n, 14)]
\* Bit 6 reads back set, bit 7 and the top three clear.
SetFpuCw(c, n) == [c EXCEPT !.fp.cw = (n & 7999) | 64]
FpuInit(c) ==
    [c EXCEPT !.fp.top = 0, !.fp.tag = {}, !.fp.c0 = FALSE, !.fp.c1 = FALSE, !.fp.c2 = FALSE,
              !.fp.c3 = FALSE, !.fp.cw = 895, !.fp.fl = {}]

\* Two bits per register: empty 3, special 2, zero 1, valid 0.
TagOf(c, r) ==
    LET v == c.fp.st[r]
    IN  IF r \notin c.fp.tag THEN 3
        ELSE IF ExpField(v) = EMask(Ext) \/ F80Unsupported(v) \/ F80Denormal(v) THEN 2
        ELSE IF ExpField(v) = 0 THEN 1 ELSE 0
RECURSIVE FpuFullTag(_, _)
FpuFullTag(c, r) == IF r = 8 THEN 0 ELSE TagOf(c, r) + 4 * FpuFullTag(c, r + 1)
SetFullTag(c, n) == [c EXCEPT !.fp.tag = { r \in 0 .. 7 : (n \div 4 ^ r) % 4 # 3 }]

(***************************************************************************)
(* Arithmetic and comparison.                                              *)
(***************************************************************************)

\* A result: the CPU with its C1, the value, the exceptions.
Res(c, up, v, F) == [c |-> SetC1(c, up), v |-> v, f |-> F]
\* fpu_round_result, and the indefinite of an invalid operation.
Rounds(c, r, df) ==
    IF "I" \in r.flags THEN Res(c, FALSE, Indef80, {"I"} \cup df)
    ELSE Res(c, r.up, Pack80(r.v), r.flags \cup df)
Nan80(c, n) == Res(c, FALSE, Pack80(n.v), n.f)
\* fpu_binop and, with an operand in another format, fpu_binop_fp.
FpuBinop(c, op, a, b, bad, df) ==
    IF bad THEN Res(c, FALSE, Indef80, {"I"})
    ELSE IF IsNan(a) \/ IsNan(b) THEN Nan80(c, X87Nan2(a, b))
    ELSE Rounds(c, ArithOf(op, a, b, FpuFmt(c), FpuRound(c)), df)
Plain(op) == CASE op = "subr" -> "sub" [] op = "divr" -> "div" [] OTHER -> op
BinopOf(c, op, a, b) ==
    FpuBinop(c, Plain(op), IF op = Plain(op) THEN a.v ELSE b.v, IF op = Plain(op) THEN b.v ELSE a.v,
             "I" \in a.f \cup b.f, a.f \cup b.f)

\* The result goes to ST(dst) unless an unmasked exception withholds it.
Deliver(r, dst, pop) ==
    IF Delivers(r.c, r.f) THEN PopIf(StSet(X87Flags(r.c, r.f), dst, r.v), pop) ELSE X87Flags(r.c, r.f)

Codes(c, ord) ==
    [c EXCEPT !.fp.c3 = ord \in {"none", "eq"}, !.fp.c2 = ord = "none", !.fp.c0 = ord \in {"none", "lt"},
              !.fp.c1 = FALSE]
OrderOf(a, b) == <<"lt", "eq", "gt">>[Compare(a, b) + 2]
\* x87_cmp on operands with their exceptions.
X87Cmp(a, b, quiet) ==
    LET nan == IsNan(a.v) \/ IsNan(b.v)
        bad == "I" \in a.f \cup b.f \/ (nan /\ (~quiet \/ IsSnan(a.v) \/ IsSnan(b.v)))
    IN  [o |-> IF nan THEN "none" ELSE OrderOf(a.v, b.v),
         f |-> ((a.f \cup b.f) \cap {"D"}) \cup (IF bad THEN {"I"} ELSE {})]
\* fpu_compare: pops p registers.
FpuCompare(c, r, p) ==
    LET d == Codes(X87Flags(c, r.f), r.o)
    IN  IF ~Delivers(c, r.f) THEN X87Flags(c, r.f)
        ELSE IF p = 2 THEN FpuPop(FpuPop(d)) ELSE PopIf(d, p = 1)
\* Two registers as sources (a second fault adds nothing to the first).
SrcOf(x, y) == [c |-> y.c, ok |-> x.ok /\ y.ok, v |-> x.v, w |-> y.v]
TwoSrc(c, i, j) == SrcOf(StSrc(c, i), StSrc(StSrc(c, i).c, j))
CompareSrc(x, quiet, p) ==
    IF x.ok THEN FpuCompare(x.c, X87Cmp(Operand(x.v), Operand(x.w), quiet), p) ELSE x.c

\* FCOMI and its kin: into ZF, PF and CF.
ComiTo(c, r, pop) ==
    LET d == [X87Flags(c, r.f) EXCEPT !.f = [NoFlags EXCEPT !.cf = r.o \in {"none", "lt"}, !.pf = r.o = "none",
                                                           !.zf = r.o \in {"none", "eq"}]]
    IN  IF Delivers(c, r.f) THEN PopIf(SetC1(d, FALSE), pop) ELSE X87Flags(c, r.f)
FpuComi(c, i, quiet, pop) ==
    IF StEmpty(c, 0) \/ StEmpty(c, i)
    THEN IF Delivers(c, {"I"})
         THEN ComiTo(StackFault(c, FALSE), X87Cmp(Operand(Indef80), Operand(Indef80), quiet), pop)
         ELSE StackFault(c, FALSE)
    ELSE ComiTo(c, X87Cmp(Operand(StGet(c, 0)), Operand(StGet(c, i)), quiet), pop)

(***************************************************************************)
(* Memory operands.                                                        *)
(***************************************************************************)

MemLen(fmt) == CASE fmt = "i16" -> 2 [] fmt \in {"f32", "i32"} -> 4 [] fmt \in {"f64", "i64"} -> 8 [] OTHER -> 10
FmtOf(fmt) == CASE fmt = "f32" -> FMT32 [] fmt = "f64" -> FMT64 [] OTHER -> Ext
IsInt(fmt) == fmt \in {"i16", "i32", "i64"}
MemOperand(fmt, n) ==
    IF IsInt(fmt) THEN FromInt(SignExtendW(n, MemLen(fmt)))
    ELSE IF fmt = "f80" THEN Unpack80(n) ELSE Unpack(FmtOf(fmt), n)
\* widen: single and double signal; integers and extended load as they are.
X87Load(fmt, n) ==
    LET v == MemOperand(fmt, n)
    IN  CASE fmt = "f80" -> [v |-> n, f |-> {}]
          [] IsInt(fmt) -> [v |-> Pack80(v), f |-> {}]
          [] IsSnan(v) -> [v |-> Pack80(Quieted(v)), f |-> {"I"}]
          [] OTHER -> [v |-> Pack80(v), f |-> IF IsDenormal(v, FmtOf(fmt)) THEN {"D"} ELSE {}]

IntIndef(fmt) == 2 ^ (MemLen(fmt) * B - 1)
PackIn(fmt, v) == IF fmt = "f80" THEN Pack80(v) ELSE Pack(FmtOf(fmt), v)
FloatBits(c, fmt, r, F) == Res(c, r.up, PackIn(fmt, r.v), r.flags \cup F)
IntBits(c, fmt, r, F) ==
    IF r.fits THEN Res(c, r.up, MaskW(r.v, MemLen(fmt)), r.flags \cup F)
    ELSE Res(c, FALSE, IntIndef(fmt), {"I"} \cup F)
X87StoreBits(c, raw, o, fmt, mode) ==
    CASE fmt = "f80" -> Res(c, FALSE, raw, {})
      [] IsInt(fmt) ->
           IF "I" \in o.f \/ IsNan(o.v) THEN Res(c, FALSE, IntIndef(fmt), {"I"})
           ELSE IntBits(c, fmt, ToInt(o.v, MemLen(fmt) * B, mode), o.f)
      [] "I" \in o.f -> Res(c, FALSE, PackIn(fmt, Indefinite), {"I"})
      [] IsNan(o.v) -> Res(c, FALSE, PackIn(fmt, Quieted(o.v)), IF IsSnan(o.v) THEN {"I"} ELSE {})
      [] OTHER -> FloatBits(c, fmt, RoundFp(o.v, FmtOf(fmt), mode), o.f)

\* Any unmasked exception keeps the value from being stored and popped; a
\* faulting store has raised no flag and popped nothing.
StoreRes(c, a, fmt, r, pop) ==
    LET s == Store(r.c, a, MemLen(fmt), r.v)
    IN  IF \E x \in r.f \ {"S"} : ~Masks(c.fp.cw, x) THEN X87Flags(r.c, r.f)
        ELSE IF OK(s) THEN PopIf(X87Flags(s, r.f), pop) ELSE s
FpuStoreMem(c, a, fmt, pop, mode) ==
    StoreRes(c, a, fmt,
        IF StEmpty(c, 0)
        THEN Res(c, FALSE, IF IsInt(fmt) THEN IntIndef(fmt) ELSE PackIn(fmt, Indefinite), {"I", "S"})
        ELSE X87StoreBits(c, StGet(c, 0), Operand(StGet(c, 0)), fmt, mode), pop)
\* ST(0) op= [mem], the operand in its own format.
FpuArithMem(c, op, fmt, n) ==
    LET x == StSrc(c, 0)
        v == MemOperand(fmt, n)
        m == [v |-> v, f |-> IF IsDenormal(v, FmtOf(fmt)) THEN {"D"} ELSE {}]
        o == Operand(x.v)
    IN  IF ~x.ok THEN x.c
        ELSE IF op \in {"com", "comp"}
        THEN FpuCompare(x.c, X87Cmp(o, IF "I" \in o.f THEN [m EXCEPT !.f = {}] ELSE m, FALSE), Num(op = "comp"))
        ELSE Deliver(BinopOf(x.c, op, o, m), 0, FALSE)

(***************************************************************************)
(* The environment, and packed decimals.                                   *)
(***************************************************************************)

\* A 16-bit word takes W16 bytes; the small form packs the three of them,
\* the other spreads them; the pointers read as zero.
W16 == 16 \div B
EnvAt(small, k) == IF small THEN k * W16 ELSE k * 2 * W16
EnvLen(small) == IF small THEN 7 * W16 ELSE 14 * W16
EnvWords(c) == <<c.fp.cw, FpuSw(c), FpuFullTag(c, 0)>>
WordByte(v, j) == IF j < W16 THEN Byte(v, j) ELSE 0
\* env_bytes, and after them the registers in stack order.
ImageByte(c, words, small, j) ==
    LET step == EnvAt(small, 1)
        r    == j - EnvLen(small)
    IN  IF r >= 0 THEN Byte(StGet(c, r \div 10), r % 10)
        ELSE IF j >= 3 * step THEN 0 ELSE WordByte(words[j \div step + 1], j % step)
\* X86Interp::store of n bytes that are no single word.
StoreBytes(c, a, n, v) ==
    LET d == IF { PageOf(a + j) : j \in 0 .. n - 1 } \cap {c.cp} = {} THEN c ELSE [c EXCEPT !.cp = NoPage]
    IN  IF ~Allows(c, a, n, "w") THEN Fault(d, FirstShut(c, a, n), TRUE)
        ELSE [d EXCEPT !.m = [x \in DOMAIN c.m |-> IF x \in a .. a + n - 1 THEN v[x - a] ELSE c.m[x]]]
StoreImage(c, a, n, words, small) == StoreBytes(c, a, n, [j \in 0 .. n - 1 |-> ImageByte(c, words, small, j)])
SaveLen(small) == EnvLen(small) + 80
LoadEnv(c, a, small) ==
    LET at(k) == Val(c, a + EnvAt(small, k), W16)
    IN  SetFullTag(SetFpuSw(SetFpuCw(c, at(0)), at(1)), at(2))
LoadStack(c, a) ==
    [c EXCEPT !.fp.st = [r \in 0 .. 7 |-> Val(c, a + 10 * ((r + 8 - c.fp.top) % 8), 10)]]

RECURSIVE Bcd(_, _, _)
Bcd(c, a, k) ==
    IF k = 9 THEN 0
    ELSE (c.m[a + k] \div 2 ^ (B \div 2)) * Radix + (c.m[a + k] % 2 ^ (B \div 2)) + Radix * Radix * Bcd(c, a, k + 1)
Fbld(c, a) ==
    LET v == FromInt(Bcd(c, a, 0))
    IN  FpuPush(SetC1(c, FALSE), Pack80(IF Bit(c.m[a + 9], B - 1) THEN Neg(v) ELSE v))
BcdIndef == 3 * 2 ^ (B - 2) * Mod(7) + (Mod(2) - 1) * Mod(8)
RECURSIVE Digits(_, _)
Digits(mag, k) ==
    IF k = 9 THEN 0
    ELSE (mag % Radix) + ((mag \div Radix) % Radix) * 2 ^ (B \div 2) + Mod(1) * Digits(mag \div (Radix * Radix), k + 1)
BcdBits(c, sign, r, F) ==
    LET mag == IF r.v < 0 THEN -r.v ELSE r.v
    IN  IF r.fits /\ mag < Radix ^ 18
        THEN Res(c, r.up, Digits(mag, 0) + (IF sign THEN 2 ^ (B - 1) * Mod(9) ELSE 0), r.flags \cup F)
        ELSE Res(c, FALSE, BcdIndef, {"I"} \cup F)
\* The bytes go to memory even when the value is then not popped.
FbstpRes(r, a) ==
    LET s == Store(r.c, a, 10, r.v)
    IN  IF ~OK(s) THEN s ELSE PopIf(X87Flags(s, r.f), Delivers(r.c, r.f))
Fbstp(c, a) ==
    LET o == Operand(StGet(c, 0))
    IN  FbstpRes(IF StEmpty(c, 0) THEN Res(c, FALSE, BcdIndef, {"I", "S"})
                 ELSE IF "I" \in o.f \/ IsNan(o.v) THEN Res(c, FALSE, BcdIndef, {"I"})
                 ELSE BcdBits(c, o.v.sign, ToInt(o.v, 8 * B, FpuRound(c)), o.f), a)

(***************************************************************************)
(* Register forms.                                                         *)
(***************************************************************************)

Fxch(c, i) ==
    LET filled(d, r) == IF StEmpty(d, r) THEN StSet(d, r, Indef80) ELSE d
        swapped(d) == SetC1(StSet(StSet(d, 0, StGet(d, i)), i, StGet(d, 0)), FALSE)
    IN  IF ~StEmpty(c, 0) /\ ~StEmpty(c, i) THEN swapped(c)
        ELSE IF Delivers(c, {"I"}) THEN swapped(filled(filled(StackFault(c, FALSE), 0), i))
        ELSE StackFault(c, FALSE)
FstReg(x, i, pop) == IF x.ok THEN PopIf(SetC1(StSet(x.c, i, x.v), FALSE), pop) ELSE x.c
FldReg(x) == IF x.ok THEN FpuPush(SetC1(x.c, FALSE), x.v) ELSE x.c

\* FCHS and FABS.
SignOp(c, op) ==
    LET v == StGet(c, 0)
        top == 2 ^ (Ext.bits - 1)
    IN  IF StEmpty(c, 0)
        THEN IF Delivers(c, {"I"}) THEN StSet(StackFault(c, FALSE), 0, Indef80) ELSE StackFault(c, FALSE)
        ELSE SetC1(StSet(c, 0, IF op = "fchs" /\ v < top THEN v + top ELSE v % top), FALSE)
Fxam(c) ==
    LET v == StGet(c, 0)
        k == CASE StEmpty(c, 0) -> "empty" [] F80Unsupported(v) -> "unsupported"
               [] OTHER -> IF F80Denormal(v) THEN "denormal" ELSE Unpack80(v).class
    IN  [c EXCEPT !.fp.c1 = v >= 2 ^ (Ext.bits - 1),
                  !.fp.c3 = k \in {"empty", "zero", "denormal"},
                  !.fp.c2 = k \in {"inf", "finite", "denormal"},
                  !.fp.c0 = k \in {"empty", "inf", "nan"}]
\* An empty source is a stack fault whether or not the move happens.
Fcmov(c, i, cc, neg) ==
    LET on == CASE cc = 0 -> c.f.cf [] cc = 1 -> c.f.zf [] cc = 2 -> c.f.cf \/ c.f.zf [] OTHER -> c.f.pf
    IN  IF StEmpty(c, i)
        THEN IF Delivers(c, {"I"}) THEN StSet(StackFault(c, FALSE), 0, Indef80) ELSE StackFault(c, FALSE)
        ELSE SetC1(IF on # neg THEN StSet(c, 0, StGet(c, i)) ELSE c, FALSE)

\* FSQRT and FRNDINT.
Unary(c, op, o) ==
    IF "I" \in o.f THEN Res(c, FALSE, Indef80, {"I"})
    ELSE IF IsNan(o.v) THEN Res(c, FALSE, Pack80(Quieted(o.v)), IF IsSnan(o.v) THEN {"I"} ELSE {})
    ELSE Rounds(c, IF op = "fsqrt" THEN Rounded(Sqrt(o.v), FpuFmt(c), FpuRound(c)) ELSE RoundToInt(o.v, FpuRound(c)), o.f)

\* FXTRACT: the exponent replaces ST(0), the significand is pushed.
Parts(o, raw) ==
    LET u == o.v
        q == Pack80(Quieted(u))
    IN  CASE "I" \in o.f -> [e |-> Indef80, s |-> Indef80, f |-> {"I"}]
          [] IsNan(u) -> [e |-> q, s |-> q, f |-> IF IsSnan(u) THEN {"I"} ELSE {}]
          [] u.class = "zero" -> [e |-> Pack80(FInf(TRUE)), s |-> Pack80(FZero(u.sign)), f |-> {"Z"}]
          [] u.class = "inf" -> [e |-> Pack80(FInf(FALSE)), s |-> raw, f |-> {}]
          [] OTHER -> [e |-> Pack80(FromInt(LeadExp(u))), f |-> o.f,
                       s |-> Pack80(FFinite(u.sign, u.sig, u.exp - LeadExp(u)))]
Extracted(c, k) ==
    IF Delivers(c, k.f) THEN FpuPush(StSet(X87Flags(c, k.f), 0, k.e), k.s) ELSE X87Flags(c, k.f)
Fxtract(c) ==
    LET t == (c.fp.top + 7) % 8
        x == StSrc(c, 0)
    IN  IF t \in c.fp.tag
        THEN IF Delivers(c, {"I"})
             THEN StSet([StSet(StackFault(c, TRUE), 0, Indef80) EXCEPT !.fp.top = t], 0, Indef80)
             ELSE StackFault(c, TRUE)
        ELSE IF x.ok THEN Extracted(SetC1(x.c, FALSE), Parts(Operand(x.v), x.v)) ELSE x.c

\* 20 for the code's exponents: any larger count is past their range.
ScaleCap == Msb(Ext.emax) + 7
CountOf(t) ==
    LET mag == IF LeadExp(t) > ScaleCap THEN 2 ^ ScaleCap ELSE t.sig * 2 ^ t.exp
    IN  IF t.class = "zero" THEN 0 ELSE IF t.sign THEN -mag ELSE mag
Fscale(c, raw, x, y) ==
    LET d == x.f \cup y.f
        u == x.v
        w == y.v
    IN  CASE "I" \in d -> Res(c, FALSE, Indef80, {"I"})
          [] IsNan(u) \/ IsNan(w) -> Nan80(c, X87Nan2(u, w))
          [] w.class = "inf" /\ u.class = (IF w.sign THEN "inf" ELSE "zero") -> Res(c, FALSE, Indef80, {"I"} \cup d)
          [] w.class = "inf" /\ u.class = "finite" ->
               Res(c, FALSE, Pack80(IF w.sign THEN FZero(u.sign) ELSE FInf(u.sign)), d)
          [] w.class # "inf" /\ u.class = "finite" ->
               Rounds(c, Round(u.sign, u.sig, u.exp + CountOf(RoundToInt(w, "zero").v), FALSE, Ext, FpuRound(c)), d)
          [] OTHER -> Res(c, FALSE, raw, d)

\* The exact remainder, the quotient's low bits, and whether the exponents
\* were too far apart for one step.
RemainderOf(x, y, nearest) ==
    LET a  == x.sig * 2 ^ (Half - Msb(x.sig))
        b  == y.sig * 2 ^ (Half - Msb(y.sig))
        ea == LeadExp(x) - Half
        d  == LeadExp(x) - LeadExp(y)
        part == d > Half
        h  == (Half + 1) \div 2
        n  == IF part THEN h + (d % h) ELSE d
        q  == (a * 2 ^ n) \div b
        r  == (a * 2 ^ n) % b
        up == nearest /\ ~part /\ (2 * r > b \/ (2 * r = b /\ Odd(q)))
    IN  IF d < 0
        THEN IF nearest /\ d = -1 /\ a > b
             THEN [r |-> FFinite(~x.sign, 2 * b - a, ea), q |-> 1, part |-> FALSE]
             ELSE [r |-> x, q |-> 0, part |-> FALSE]
        ELSE [r |-> IF r = 0 THEN FZero(x.sign)
                    ELSE FFinite(x.sign # up, IF up THEN b - r ELSE r, (LeadExp(y) - Half) + (d - n)),
              q |-> IF up THEN q + 1 ELSE q, part |-> part]
Reduced(c, k, d) ==
    LET bits == [c EXCEPT !.fp.c2 = k.part,
                          !.fp.c0 = IF k.part THEN @ ELSE Bit(k.q, 2),
                          !.fp.c3 = IF k.part THEN @ ELSE Bit(k.q, 1)]
        rr == RoundFp(k.r, Ext, "nearest")
    IN  Res(bits, ~k.part /\ Bit(k.q, 0), Pack80(rr.v),
            d \cup (IF rr.tiny /\ ~Masks(c.fp.cw, "U") THEN {"U"} ELSE {}))
Fprem(c, raw, x, y, nearest) ==
    LET d == (x.f \cup y.f) \cap {"D"}
        e == [c EXCEPT !.fp.c2 = FALSE]
    IN  CASE "I" \in x.f \cup y.f -> Res(e, FALSE, Indef80, {"I"})
          [] IsNan(x.v) \/ IsNan(y.v) -> Nan80(e, X87Nan2(x.v, y.v))
          [] x.v.class = "inf" \/ y.v.class = "zero" -> Res(e, FALSE, Indef80, {"I"} \cup d)
          [] x.v.class = "finite" /\ y.v.class = "finite" -> Reduced(e, RemainderOf(x.v, y.v, nearest), d)
          [] OTHER -> Res([e EXCEPT !.fp.c0 = FALSE, !.fp.c3 = FALSE], FALSE, raw, d)

(***************************************************************************)
(* Dispatch.                                                               *)
(***************************************************************************)

\* The D9 F0..FF group.
OneOperand(x, op) == IF x.ok THEN Deliver(Unary(x.c, op, Operand(x.v)), 0, FALSE) ELSE x.c
TwoOperands(x, op) ==
    IF ~x.ok THEN x.c
    ELSE Deliver(IF op = "fscale" THEN Fscale(x.c, x.v, Operand(x.v), Operand(x.w))
                 ELSE Fprem(x.c, x.v, Operand(x.v), Operand(x.w), op = "fprem1"), 0, FALSE)
Transcendental(c, op) ==
    CASE op = "fdecstp" -> [c EXCEPT !.fp.top = (@ + 7) % 8, !.fp.c1 = FALSE]
      [] op = "fincstp" -> [c EXCEPT !.fp.top = (@ + 1) % 8, !.fp.c1 = FALSE]
      [] op = "fxtract" -> Fxtract(c)
      [] op \in {"fsqrt", "frndint"} -> OneOperand(StSrc(c, 0), op)
      [] OTHER -> TwoOperands(TwoSrc(c, 0, 1), op)

\* dst op= src, src read first.
ArithReg(c, op, dst, src, pop) ==
    LET x == TwoSrc(c, src, dst)
    IN  IF x.ok THEN Deliver(BinopOf(x.c, op, Operand(x.w), Operand(x.v)), dst, pop) ELSE x.c
X87Reg(c, i) ==
    LET r == i.rm.r
    IN  CASE i.x = "arith" -> ArithReg(c, i.x2, 0, r, FALSE)
          [] i.x = "arithto" -> ArithReg(c, i.x2, r, 0, i.pop)
          [] i.x = "fcom" -> CompareSrc(TwoSrc(c, 0, r), i.quiet, i.x2)
          [] i.x = "fld" -> FldReg(StSrc(c, r))
          [] i.x = "fxch" -> Fxch(c, r)
          [] i.x = "fst" -> FstReg(StSrc(c, 0), r, i.pop)
          [] i.x \in {"fchs", "fabs"} -> SignOp(c, i.x)
          [] i.x = "ftst" -> CompareSrc([TwoSrc(c, 0, 0) EXCEPT !.w = 0], FALSE, 0)
          [] i.x = "fxam" -> Fxam(c)
          [] i.x = "fldc" -> FpuPush(SetC1(c, FALSE), IF i.x2 = 0 THEN 0 ELSE One80)
          [] i.x = "fcmov" -> Fcmov(c, r, i.x2, i.neg)
          [] i.x = "fnclex" -> [c EXCEPT !.fp.fl = {}]
          [] i.x = "fninit" -> FpuInit(c)
          [] i.x = "fcomi" -> FpuComi(c, r, i.quiet, i.pop)
          [] i.x = "ffree" -> PopIf([c EXCEPT !.fp.tag = @ \ {StIdx(c, r)}], i.pop)
          [] i.x = "fnstsw" -> [c EXCEPT !.g[RAX] = FpuSw(c)]
          [] i.x = "fnop" -> c
          [] OTHER -> Transcendental(c, i.x)

LoadPush(c, k) == IF Delivers(c, k.f) THEN FpuPush(SetC1(X87Flags(c, k.f), FALSE), k.v) ELSE X87Flags(c, k.f)
\* The bytes a memory form reads; 0 for a store.
Reads(i) == CASE i.x \in {"arith", "fld"} -> MemLen(i.fmt) [] i.x = "fldcw" -> W16 [] i.x = "fldenv" -> EnvLen(i.small)
              [] i.x = "frstor" -> SaveLen(i.small) [] i.x = "fbld" -> 10 [] OTHER -> 0
MasksAll(c) == IF OK(c) THEN [c EXCEPT !.fp.cw = @ | 63] ELSE c
Inits(c) == IF OK(c) THEN FpuInit(c) ELSE c
X87Mem(c, i, a) ==
    CASE ~Allows(c, a, Reads(i), "r") -> RdFault(c, a)
      [] i.x = "arith" -> FpuArithMem(c, i.x2, i.fmt, Val(c, a, MemLen(i.fmt)))
      [] i.x = "fld" -> LoadPush(c, X87Load(i.fmt, Val(c, a, MemLen(i.fmt))))
      [] i.x = "fst" -> FpuStoreMem(c, a, i.fmt, i.pop, IF i.trunc THEN "zero" ELSE FpuRound(c))
      [] i.x = "fldcw" -> SetFpuCw(c, Val(c, a, W16))
      [] i.x = "fnstcw" -> Store(c, a, W16, c.fp.cw)
      [] i.x = "fnstsw" -> Store(c, a, W16, FpuSw(c))
      [] i.x = "fldenv" -> LoadEnv(c, a, i.small)
      [] i.x = "fnstenv" -> MasksAll(StoreImage(c, a, EnvLen(i.small), EnvWords(c), i.small))
      [] i.x = "frstor" -> LoadStack(LoadEnv(c, a, i.small), a + EnvLen(i.small))
      [] i.x = "fnsave" -> Inits(StoreImage(c, a, SaveLen(i.small), EnvWords(c), i.small))
      [] i.x = "fbld" -> Fbld(c, a)
      [] i.x = "fbstp" -> Fbstp(c, a)

\* Every form but the non-waiting ones takes a pending exception first.
NoWait(i) == i.x \in {"fnstenv", "fnstcw", "fnclex", "fninit", "fnsave", "fnstsw"}
ExecX87(c, i) ==
    IF ~NoWait(i) /\ FpuPending(c) THEN Trap(c, "x87")
    ELSE NextInsn(IF IsMem(i) THEN X87Mem(c, i, OpOf(c, i).r) ELSE X87Reg(c, i), i)
==============================================================================
