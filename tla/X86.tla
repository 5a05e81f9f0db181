-------------------------------- MODULE X86 --------------------------------
(***************************************************************************)
(* The x86-64 interpreter of vcpu/interp_x86.rs: what one instruction does *)
(* to the registers, the flags and the guest's memory, and what it leaves  *)
(* behind when an access faults half-way.                                  *)
(*                                                                         *)
(* An instruction is a decoded record (the byte-level encoding is left     *)
(* out): its operation, its operand width in bytes, an r/m operand, a      *)
(* register operand, an immediate, its prefixes and its length.  A byte    *)
(* has B bits instead of 8, so a quadword has 8*B and every width, mask,   *)
(* sign and carry position scales with B.  Memory is a function from       *)
(* addresses to bytes in pages of Page bytes, each with the permissions    *)
(* the guest gave it.  c.out is the interpreter's Step: "ok" stands for    *)
(* Next and Branched.                                                      *)
(***************************************************************************)
EXTENDS Words

CONSTANTS MaxInsn,  \* the longest instruction, in bytes
          Text      \* case -> parameter -> address -> content of its byte -> instruction there

NoReg == -1    \* of an operand without base or index
RAX == 0
RCX == 1
RDX == 2
RBX == 3
RSP == 4
RBP == 5
RSI == 6
RDI == 7
R11 == 11

Store(c, a, w, v) ==
    LET d == IF {PageOf(a), PageOf(a + w - 1)} \cap {c.cp} = {}
                THEN c ELSE [c EXCEPT !.cp = NoPage]
    IN  IF Allows(c, a, w, "w") THEN Put(d, a, w, v) ELSE Fault(d, FirstShut(c, a, w), TRUE)


WriteMem(c, a, v, w) == Store(c, a, w, MaskW(v, w))

\* The effective address of the memory forms of ModRM/SIB, cut to half a
\* quadword under the address-size prefix.
EaOf(c, i) ==
    LET m  == i.rm
        of(r) == IF r = NoReg THEN 0 ELSE c.g[r]
        ea == IF m.k = "rip" THEN c.ip + i.len + m.disp
              ELSE of(m.base) + of(m.index) * 2 ^ m.scale + m.disp
    IN  MaskW(ea, IF i.a32 THEN 4 ELSE 8)
Lin(i, ea) == MaskW(ea + i.seg, 8)
IsMem(i) == i.rm.k \in {"mem", "rip"}
OpOf(c, i) ==
    IF IsMem(i) THEN [k |-> "mem", r |-> Lin(i, EaOf(c, i))] ELSE i.rm

Readable(c, o, w) == o.k # "mem" \/ Allows(c, o.r, w, "r")
ReadOperand(c, o, w) ==
    CASE o.k = "reg" -> MaskW(c.g[o.r], w)
      [] o.k = "hi"  -> Byte(c.g[o.r], 1)
      [] OTHER       -> Val(c, o.r, w)

\* A byte or a word leaves the rest of the register, a doubleword clears it.
SetReg(c, r, v, w) ==
    [c EXCEPT !.g[r] =
        IF w \in {1, 2} THEN (c.g[r] - MaskW(c.g[r], w)) + MaskW(v, w) ELSE MaskW(v, w)]
WriteOperand(c, o, v, w) ==
    CASE o.k = "reg" -> SetReg(c, o.r, v, w)
      [] o.k = "hi"  -> [c EXCEPT !.g[o.r] =
                            (@ - Byte(@, 1) * Mod(1)) + MaskW(v, 1) * Mod(1)]
      [] OTHER       -> WriteMem(c, o.r, v, w)

PushW(c, v, w) ==
    LET sp == MaskW(c.g[RSP] - w, 8)
        d  == WriteMem(c, sp, v, w)
    IN  IF OK(d) THEN [d EXCEPT !.g[RSP] = sp] ELSE d
PopOK(c, w) == Allows(c, c.g[RSP], w, "r")
PopW(c, w) == [c EXCEPT !.g[RSP] = MaskW(@ + w, 8)]

NextInsn(c, i) == IF OK(c) THEN [c EXCEPT !.ip = @ + i.len] ELSE c
Jump(c, a) == IF OK(c) THEN [c EXCEPT !.ip = MaskW(a, 8)] ELSE c

(***************************************************************************)
(* Flags.                                                                  *)
(***************************************************************************)

NoFlags ==
    [cf |-> FALSE, pf |-> FALSE, af |-> FALSE, zf |-> FALSE, sf |-> FALSE, of |-> FALSE]
\* The carry out of the low half of a byte.
HalfCarry(a, b, r) == Bit((a ^^ b) ^^ r, B \div 2)

AddFlags(a, b, ci, w) ==
    LET full == a + b + Num(ci)
        r    == MaskW(full, w)
    IN  [cf |-> full >= Mod(w), pf |-> Parity(r), af |-> HalfCarry(a, b, r), zf |-> r = 0,
         sf |-> SignBit(r, w), of |-> SignBit((a ^^ r) & (b ^^ r), w)]
SubFlags(a, b, bi, w) ==
    LET r == MaskW(a - b - Num(bi), w)
    IN  [cf |-> a < b + Num(bi), pf |-> Parity(r), af |-> HalfCarry(a, b, r), zf |-> r = 0,
         sf |-> SignBit(r, w), of |-> SignBit((a ^^ b) & (a ^^ r), w)]
LogicFlags(r, w) ==
    [NoFlags EXCEPT !.pf = Parity(r), !.zf = r = 0, !.sf = SignBit(r, w)]
Szp(f, r, w) ==
    [f EXCEPT !.zf = MaskW(r, w) = 0, !.sf = SignBit(r, w), !.pf = Parity(r)]
MulFlags(cf, lo, w) ==
    [NoFlags EXCEPT !.cf = cf, !.of = cf, !.pf = Parity(lo), !.sf = SignBit(lo, w)]

\* apply_alu: the result and the flags.
ApplyAlu(f, op, a, b, w) ==
    LET ci == f.cf /\ op \in {"adc", "sbb"}
    IN  CASE op \in {"add", "adc"} ->
               [r |-> MaskW(a + b + Num(ci), w), f |-> AddFlags(a, b, ci, w)]
          [] op \in {"sub", "cmp", "sbb"} ->
               [r |-> MaskW(a - b - Num(ci), w), f |-> SubFlags(a, b, ci, w)]
          [] op \in {"and", "test"} -> [r |-> a & b, f |-> LogicFlags(a & b, w)]
          [] op = "or"  -> [r |-> a | b, f |-> LogicFlags(a | b, w)]
          [] op = "xor" -> [r |-> a ^^ b, f |-> LogicFlags(a ^^ b, w)]
Stores(op) == op \notin {"cmp", "test"}

IncDecFlags(f, a, dec, w) ==
    [(IF dec THEN SubFlags(a, 1, FALSE, w) ELSE AddFlags(a, 1, FALSE, w))
        EXCEPT !.cf = f.cf]

CondHolds(f, cc) ==
    LET base == CASE cc \div 2 = 0 -> f.of
                  [] cc \div 2 = 1 -> f.cf
                  [] cc \div 2 = 2 -> f.zf
                  [] cc \div 2 = 3 -> f.cf \/ f.zf
                  [] cc \div 2 = 4 -> f.sf
                  [] cc \div 2 = 5 -> f.pf
                  [] cc \div 2 = 6 -> f.sf # f.of
                  [] cc \div 2 = 7 -> f.zf \/ f.sf # f.of
    IN  base # (cc % 2 = 1)

FlagAt == [cf |-> 0, pf |-> 2, af |-> 4, zf |-> 6, sf |-> 7, of |-> 11]
\* RFLAGS with its fixed bits 1 and 9, DF at 10 and the one system bit (NT,
\* at 14) of the three user code may toggle that fits 8*B bits.
RflagsWord(c) ==
    LET at(x) == Num(c.f[x]) * 2 ^ FlagAt[x]
    IN  514 + at("cf") + at("pf") + at("af") + at("zf") + at("sf") + at("of")
            + Num(c.df) * 2 ^ 10 + Num(c.nt) * 2 ^ 14
SetRflagsUser(c, v) ==
    [c EXCEPT !.f = [x \in DOMAIN NoFlags |-> Bit(v, FlagAt[x])],
              !.df = Bit(v, 10), !.nt = Bit(v, 14)]

(***************************************************************************)
(* The integer instructions.                                               *)
(***************************************************************************)

AluModrm(c, i) ==
    LET rm  == OpOf(c, i)
        dst == IF i.todst THEN i.rg ELSE rm
        src == IF i.todst THEN rm ELSE i.rg
        x   == ApplyAlu(c.f, i.x, ReadOperand(c, dst, i.w), ReadOperand(c, src, i.w), i.w)
        d   == [c EXCEPT !.f = x.f]
    IN  IF ~Readable(c, rm, i.w) THEN RdFault(c, rm.r)
        ELSE NextInsn(IF Stores(i.x) THEN WriteOperand(d, dst, x.r, i.w) ELSE d, i)

AluAccImm(c, i) ==
    LET x == ApplyAlu(c.f, i.x, MaskW(c.g[RAX], i.w), MaskW(i.imm, i.w), i.w)
        d == [c EXCEPT !.f = x.f]
    IN  NextInsn(IF Stores(i.x) THEN SetReg(d, RAX, x.r, i.w) ELSE d, i)

Group1(c, i) ==
    LET rm == OpOf(c, i)
        x  == ApplyAlu(c.f, i.x, ReadOperand(c, rm, i.w), MaskW(i.imm, i.w), i.w)
        d  == [c EXCEPT !.f = x.f]
    IN  IF ~Readable(c, rm, i.w) THEN RdFault(c, rm.r)
        ELSE NextInsn(IF Stores(i.x) THEN WriteOperand(d, rm, x.r, i.w) ELSE d, i)

\* The register takes the old memory value only after the store.
Xchg(c, i) ==
    LET rm == OpOf(c, i)
        d  == WriteOperand(c, rm, ReadOperand(c, i.rg, i.w), i.w)
    IN  IF ~Readable(c, rm, i.w) THEN RdFault(c, rm.r)
        ELSE IF ~OK(d) THEN d
        ELSE NextInsn(WriteOperand(d, i.rg, ReadOperand(c, rm, i.w), i.w), i)

MovModrm(c, i) ==
    LET rm == OpOf(c, i)
    IN  IF ~i.todst THEN NextInsn(WriteOperand(c, rm, ReadOperand(c, i.rg, i.w), i.w), i)
        ELSE IF ~Readable(c, rm, i.w) THEN RdFault(c, rm.r)
        ELSE NextInsn(WriteOperand(c, i.rg, ReadOperand(c, rm, i.w), i.w), i)

MovImm(c, i) == NextInsn(WriteOperand(c, OpOf(c, i), i.imm, i.w), i)

\* The double-width product and quotient live in RDX:RAX, for bytes in AX.
SetPair(c, lo, hi, w) ==
    IF w = 1 THEN SetReg(c, RAX, MaskW(hi, 1) * Mod(1) + MaskW(lo, 1), 2)
    ELSE SetReg(SetReg(c, RAX, lo, w), RDX, hi, w)
Mul1(c, src, w, signed) ==
    LET a == MaskW(c.g[RAX], w)
        p == IF signed THEN SignExtendW(a, w) * SignExtendW(src, w) ELSE a * src
        cf == IF signed THEN ~FitsSigned(p, w) ELSE p >= Mod(w)
        lo == MaskW(p, w)
    IN  [SetPair(c, lo, MaskW(p \div Mod(w), w), w) EXCEPT !.f = MulFlags(cf, lo, w)]

Div1(c, src, w, signed) ==
    LET raw == IF w = 1 THEN MaskW(c.g[RAX], 2)
               ELSE MaskW(c.g[RDX], w) * Mod(w) + MaskW(c.g[RAX], w)
        n == IF signed /\ raw >= Mod(2 * w) \div 2 THEN raw - Mod(2 * w) ELSE raw
        d == IF signed THEN SignExtendW(src, w) ELSE src
        q == Trunc(n, d)
    IN  IF src = 0 \/ (IF signed THEN ~FitsSigned(q, w) ELSE q >= Mod(w))
        THEN Trap(c, "divide")
        ELSE SetPair(c, q, n - q * d, w)

Group3(c, i) ==
    LET rm == OpOf(c, i)
        a  == ReadOperand(c, rm, i.w)
    IN  IF ~Readable(c, rm, i.w) THEN RdFault(c, rm.r)
        ELSE NextInsn(
          CASE i.x = "test" -> [c EXCEPT !.f = LogicFlags(a & MaskW(i.imm, i.w), i.w)]
            [] i.x = "not" -> WriteOperand(c, rm, Mod(i.w) - 1 - a, i.w)
            [] i.x = "neg" ->
                 WriteOperand([c EXCEPT !.f = SubFlags(0, a, FALSE, i.w)], rm, -a, i.w)
            [] i.x \in {"mul", "imul"} -> Mul1(c, a, i.w, i.x = "imul")
            [] OTHER -> Div1(c, a, i.w, i.x = "idiv"), i)

ImulRm(c, i) ==
    LET rm == OpOf(c, i)
        b  == IF i.x = "imm" THEN MaskW(i.imm, i.w) ELSE MaskW(c.g[i.rg.r], i.w)
        p  == SignExtendW(ReadOperand(c, rm, i.w), i.w) * SignExtendW(b, i.w)
    IN  IF ~Readable(c, rm, i.w) THEN RdFault(c, rm.r)
        ELSE NextInsn([SetReg(c, i.rg.r, MaskW(p, i.w), i.w) EXCEPT
                          !.f = MulFlags(~FitsSigned(p, i.w), MaskW(p, i.w), i.w)], i)

IncDec(c, i) ==
    LET rm == OpOf(c, i)
        a  == ReadOperand(c, rm, i.w)
        d  == [c EXCEPT !.f = IncDecFlags(c.f, a, i.x = "dec", i.w)]
    IN  IF ~Readable(c, rm, i.w) THEN RdFault(c, rm.r)
        ELSE NextInsn(WriteOperand(d, rm, IF i.x = "dec" THEN a - 1 ELSE a + 1, i.w), i)

\* INC and DEC, CALL and JMP through a pointer, far forms, PUSH r/m.
Group5(c, i) ==
    LET rm == OpOf(c, i)
        w  == IF i.x = "push" THEN i.w ELSE 8
    IN  CASE i.x \in {"inc", "dec"} -> IncDec(c, i)
          [] i.x \in {"callf", "jmpf"} -> Trap(c, IF IsMem(i) THEN "gp" ELSE "illegal")
          [] ~Readable(c, rm, w) -> RdFault(c, rm.r)
          [] i.x = "push" -> NextInsn(PushW(c, ReadOperand(c, rm, w), w), i)
          [] OTHER -> Jump(IF i.x = "call" THEN PushW(c, c.ip + i.len, 8) ELSE c,
                           ReadOperand(c, rm, 8))

(***************************************************************************)
(* Shifts and bit operations.                                              *)
(***************************************************************************)

RotLeft(v, k, n) == (v % 2 ^ (n - k)) * 2 ^ k + v \div 2 ^ (n - k)
RotRight(v, k, n) == RotLeft(v, (n - k) % n, n)

\* shift_rotate by a nonzero masked count: the result and the flags.
ShiftRotate(f, op, a, cnt, w) ==
    LET n   == w * B
        k   == cnt % n
        rol == RotLeft(a, k, n)
        ror == RotRight(a, k, n)
        ofr(r) == SignBit(r, w) # Bit(r, n - 2)
        \* through the carry, one position longer
        kc  == IF w \in {1, 2} THEN cnt % (n + 1) ELSE cnt
        v   == Num(f.cf) * Mod(w) + a
        rc  == IF kc = 0 THEN v
               ELSE IF op = "rcl" THEN RotLeft(v, kc, n + 1) ELSE RotRight(v, kc, n + 1)
        shl == a * 2 ^ cnt
        s   == SignExtendW(a, w)
        big == 8 * B - 1
        sar == s \div 2 ^ (IF cnt > big THEN big ELSE cnt)
    IN  CASE op = "rol" -> [r |-> rol, f |-> [f EXCEPT !.cf = Bit(rol, 0),
                                !.of = SignBit(rol, w) # Bit(rol, 0)]]
          [] op = "ror" -> [r |-> ror, f |-> [f EXCEPT !.cf = SignBit(ror, w), !.of = ofr(ror)]]
          [] op \in {"rcl", "rcr"} ->
               [r |-> MaskW(rc, w), f |-> [f EXCEPT !.cf = rc >= Mod(w),
                   !.of = IF op = "rcl" THEN SignBit(rc, w) # (rc >= Mod(w)) ELSE ofr(rc)]]
          [] op = "shl" ->
               [r |-> MaskW(shl, w), f |-> Szp([f EXCEPT !.cf = Bit(shl, n),
                   !.of = SignBit(shl, w) # Bit(shl, n), !.af = FALSE], MaskW(shl, w), w)]
          [] op = "shr" ->
               [r |-> a \div 2 ^ cnt, f |-> Szp([f EXCEPT !.cf = Bit(a, cnt - 1),
                   !.of = SignBit(a, w), !.af = FALSE], a \div 2 ^ cnt, w)]
          [] op = "sar" ->
               [r |-> MaskW(sar, w), f |-> Szp([f EXCEPT !.cf = Bit(s, cnt - 1),
                   !.of = FALSE, !.af = FALSE], MaskW(sar, w), w)]

CountMask(w) == (IF w = 8 THEN 8 ELSE 4) * B
Count(c, i) == (IF i.x2 = "cl" THEN MaskW(c.g[RCX], 1) ELSE i.imm) % CountMask(i.w)

\* A zero count leaves the flags but still writes the destination.
Group2(c, i) ==
    LET rm == OpOf(c, i)
        a  == ReadOperand(c, rm, i.w)
        x  == ShiftRotate(c.f, i.x, a, Count(c, i), i.w)
    IN  IF ~Readable(c, rm, i.w) THEN RdFault(c, rm.r)
        ELSE IF Count(c, i) = 0 THEN NextInsn(WriteOperand(c, rm, a, i.w), i)
        ELSE NextInsn(WriteOperand([c EXCEPT !.f = x.f], rm, x.r, i.w), i)

\* The two words side by side; a 16-bit pair has the destination at both ends
\* because its count may exceed its width.
ShldShrd(c, i) ==
    LET rm  == OpOf(c, i)
        n   == i.w * B
        d   == ReadOperand(c, rm, i.w)
        s   == MaskW(c.g[i.rg.r], i.w)
        cnt == Count(c, i)
        triple == (d * Mod(i.w) + s) * Mod(i.w) + d
        wide == CASE i.w = 2 -> triple
                  [] i.x = "shld" -> d * Mod(i.w) + s
                  [] OTHER -> s * Mod(i.w) + d
        total == IF i.w = 2 THEN 3 * n ELSE 2 * n
        r  == MaskW(wide \div 2 ^ (IF i.x = "shld" THEN total - n - cnt ELSE cnt), i.w)
        cf == Bit(wide, IF i.x = "shld" THEN total - cnt ELSE cnt - 1)
    IN  IF ~Readable(c, rm, i.w) THEN RdFault(c, rm.r)
        ELSE IF cnt = 0 THEN NextInsn(WriteOperand(c, rm, d, i.w), i)
        ELSE NextInsn(WriteOperand([c EXCEPT !.f = Szp([c.f EXCEPT !.cf = cf,
                 !.of = SignBit(r, i.w) # SignBit(d, i.w), !.af = FALSE], r, i.w)],
                 rm, r, i.w), i)

\* A register offset into memory names any bit of the string around the
\* operand; the word that holds it is the one accessed.
BitTest(c, i) ==
    LET n   == i.w * B
        off == IF i.x2 = "imm" THEN i.imm ELSE c.g[i.rg.r]
        words == SignExtendW(off, i.w) \div n
        t   == IF ~IsMem(i) THEN i.rm
               ELSE [k |-> "mem", r |-> Lin(i, IF i.x2 = "imm" THEN EaOf(c, i)
                        ELSE MaskW(EaOf(c, i) + words * i.w, IF i.a32 THEN 4 ELSE 8))]
        a   == ReadOperand(c, t, i.w)
        bit == off % n
        d   == [c EXCEPT !.f.cf = Bit(a, bit)]
        clear == a - Num(Bit(a, bit)) * 2 ^ bit
    IN  IF ~Readable(c, t, i.w) THEN RdFault(c, t.r)
        ELSE NextInsn(CASE i.x = "bt"  -> d
                        [] i.x = "bts" -> WriteOperand(d, t, clear + 2 ^ bit, i.w)
                        [] i.x = "btr" -> WriteOperand(d, t, clear, i.w)
                        [] i.x = "btc" ->
                             WriteOperand(d, t, clear + Num(~Bit(a, bit)) * 2 ^ bit, i.w), i)

\* BSF, BSR, TZCNT, LZCNT and POPCNT of the r/m operand into a register.
BitCount(c, i) ==
    LET rm  == OpOf(c, i)
        src == ReadOperand(c, rm, i.w)
        on  == Ones(src, i.w)
        n   == i.w * B
        cnt == CASE i.x = "popcnt" -> Cardinality(on)
                 [] on = {} -> n
                 [] i.x = "lzcnt" -> n - 1 - Greatest(on)
                 [] OTHER -> Least(on)
        scan == IF i.x = "bsr" THEN Greatest(on) ELSE Least(on)
    IN  IF ~Readable(c, rm, i.w) THEN RdFault(c, rm.r)
        ELSE NextInsn(
          IF i.x \in {"bsf", "bsr"}
          THEN LET d == [c EXCEPT !.f.zf = on = {}]
               IN  IF on = {} THEN d ELSE SetReg(d, i.rg.r, scan, i.w)
          ELSE [SetReg(c, i.rg.r, cnt, i.w) EXCEPT !.f =
                   IF i.x = "popcnt" THEN [NoFlags EXCEPT !.zf = on = {}]
                   ELSE [NoFlags EXCEPT !.cf = on = {}, !.zf = cnt = 0]], i)

Movbe(c, i) ==
    LET rm == OpOf(c, i)
    IN  CASE ~IsMem(i) -> Trap(c, "illegal")
          [] i.x = "store" ->
               NextInsn(WriteMem(c, rm.r, SwapBytes(c.g[i.rg.r], i.w), i.w), i)
          [] ~Readable(c, rm, i.w) -> RdFault(c, rm.r)
          [] OTHER -> NextInsn(SetReg(c, i.rg.r, SwapBytes(Val(c, rm.r, i.w), i.w), i.w), i)

(***************************************************************************)
(* The atomic read-modify-write instructions.                              *)
(***************************************************************************)

\* The register is replaced before the store to memory is tried.
Xadd(c, i) ==
    LET rm == OpOf(c, i)
        d  == ReadOperand(c, rm, i.w)
        s  == ReadOperand(c, i.rg, i.w)
        e  == [c EXCEPT !.f = AddFlags(d, s, FALSE, i.w)]
    IN  IF ~Readable(c, rm, i.w) THEN RdFault(c, rm.r)
        ELSE NextInsn(WriteOperand(WriteOperand(e, i.rg, d, i.w), rm, d + s, i.w), i)

\* A mismatch still writes the destination back, then loads the accumulator.
Cmpxchg(c, i) ==
    LET rm  == OpOf(c, i)
        d   == ReadOperand(c, rm, i.w)
        acc == MaskW(c.g[RAX], i.w)
        e   == [c EXCEPT !.f = SubFlags(acc, d, FALSE, i.w)]
        t   == WriteOperand(e, rm, IF acc = d THEN ReadOperand(c, i.rg, i.w) ELSE d, i.w)
    IN  IF ~Readable(c, rm, i.w) THEN RdFault(c, rm.r)
        ELSE IF acc = d \/ ~OK(t) THEN NextInsn(t, i)
        ELSE NextInsn(SetReg(t, RAX, d, i.w), i)

\* CMPXCHG8B (h = 4) and CMPXCHG16B (h = 8): halves of h bytes in the pairs
\* RDX:RAX and RCX:RBX; the longer form insists on alignment.
Group9(c, i) ==
    LET h  == i.w
        a  == OpOf(c, i).r
        lo == Val(c, a, h)
        hi == Val(c, a + h, h)
        eq == lo = MaskW(c.g[RAX], h) /\ hi = MaskW(c.g[RDX], h)
        new(k) == IF k < h THEN Byte(IF eq THEN c.g[RBX] ELSE lo, k)
                  ELSE Byte(IF eq THEN c.g[RCX] ELSE hi, k - h)
        d  == IF Allows(c, a, 2 * h, "w")
              THEN [Store(c, a, 2 * h, 0) EXCEPT !.m =
                       [x \in DOMAIN c.m |-> IF x \in a .. a + 2 * h - 1 THEN new(x - a) ELSE c.m[x]]]
              ELSE Store(c, a, 2 * h, 0)
        e  == IF eq THEN d ELSE [d EXCEPT !.g[RAX] = lo, !.g[RDX] = hi]
    IN  CASE i.x = "rdrand" ->
               NextInsn([SetReg(c, i.rm.r, i.imm, i.w) EXCEPT !.f = [NoFlags EXCEPT !.cf = TRUE]], i)
          [] ~IsMem(i) -> Trap(c, "illegal")
          [] h = 8 /\ a % 16 # 0 -> Trap(c, "gp")
          [] ~Allows(c, a, 2 * h, "r") -> RdFault(c, a)
          [] ~OK(d) -> d
          [] OTHER -> NextInsn([e EXCEPT !.f.zf = eq], i)

(***************************************************************************)
(* Frames and strings.                                                     *)
(***************************************************************************)

\* ENTER copies level - 1 frame pointers below the new frame on a local
\* stack pointer: RSP and RBP move only when every access has succeeded.
RECURSIVE EnterLevels(_, _, _, _, _)
EnterLevels(c, sp, bp, n, w) ==
    LET b == bp - w
        a == IF w = 2 THEN MaskW(b, 2) ELSE MaskW(b, 8)
    IN  IF n = 0 \/ ~OK(c) THEN [c |-> c, sp |-> sp]
        ELSE IF ~Allows(c, a, w, "r") THEN [c |-> RdFault(c, a), sp |-> sp]
        ELSE EnterLevels(WriteMem(c, sp - w, Val(c, a, w), w), sp - w, b, n - 1, w)
Enter(c, i) ==
    LET w     == i.w
        frame == c.g[RSP] - w
        first == WriteMem(c, frame, c.g[RBP], w)
        e     == EnterLevels(first, frame, c.g[RBP], i.x - 1, w)
        last  == IF i.x = 0 THEN [c |-> first, sp |-> frame]
                 ELSE IF ~OK(e.c) THEN e
                 ELSE [c |-> WriteMem(e.c, e.sp - w, frame, w), sp |-> e.sp - w]
    IN  IF OK(first) /\ OK(last.c)
        THEN NextInsn([SetReg(last.c, RBP, frame, w) EXCEPT
                          !.g[RSP] = MaskW(last.sp - i.imm, 8)], i)
        ELSE IF OK(first) THEN last.c ELSE first
Leave(c, i) ==
    LET sp == c.g[RBP]
    IN  IF ~Allows(c, sp, i.w, "r") THEN RdFault(c, sp)
        ELSE NextInsn(SetReg([c EXCEPT !.g[RSP] = MaskW(sp + i.w, 8)], RBP,
                             Val(c, sp, i.w), i.w), i)

\* The string registers under the address-size prefix, stepped by DF.
Sreg(c, i, r) == MaskW(c.g[r], IF i.a32 THEN 4 ELSE 8)
Advance(c, i, r) ==
    [c EXCEPT !.g[r] = MaskW(IF c.df THEN Sreg(c, i, r) - i.w ELSE Sreg(c, i, r) + i.w,
                             IF i.a32 THEN 4 ELSE 8)]

\* One element of MOVS, STOS, LODS, SCAS or CMPS.
StringBody(c, i) ==
    LET s == MaskW(i.seg + Sreg(c, i, RSI), 8)
        d == Sreg(c, i, RDI)
        fromSi == i.x \in {"movs", "lods", "cmps"}
        fromDi == i.x \in {"scas", "cmps"}
        e == CASE i.x = "movs" -> WriteMem(c, d, Val(c, s, i.w), i.w)
               [] i.x = "stos" -> WriteMem(c, d, c.g[RAX], i.w)
               [] i.x = "lods" -> SetReg(c, RAX, Val(c, s, i.w), i.w)
               [] i.x = "scas" -> [c EXCEPT !.f =
                    SubFlags(MaskW(c.g[RAX], i.w), Val(c, d, i.w), FALSE, i.w)]
               [] i.x = "cmps" -> [c EXCEPT !.f =
                    SubFlags(Val(c, s, i.w), Val(c, d, i.w), FALSE, i.w)]
        f == IF fromSi THEN Advance(e, i, RSI) ELSE e
    IN  CASE fromSi /\ ~Allows(c, s, i.w, "r") -> RdFault(c, s)
          [] fromDi /\ ~Allows(c, d, i.w, "r") -> RdFault(c, d)
          [] ~OK(e) -> e
          [] OTHER -> IF i.x = "lods" THEN f ELSE Advance(f, i, RDI)

\* The repeat runs in one step, its registers updated after each element.
RECURSIVE StringOp(_, _)
StringOp(c, i) ==
    LET e == StringBody(c, i)
        d == [e EXCEPT !.g[RCX] = MaskW(Sreg(c, i, RCX) - 1, IF i.a32 THEN 4 ELSE 8)]
    IN  IF i.rep = 0 THEN NextInsn(e, i)
        ELSE IF Sreg(c, i, RCX) = 0 THEN NextInsn(c, i)
        ELSE IF ~OK(e) THEN e
        ELSE IF i.x \in {"scas", "cmps"} /\ (i.rep = 1) # e.f.zf THEN NextInsn(d, i)
        ELSE StringOp(d, i)

Smallest(a, b, n) == Least({a, b, n})
\* Forward byte copies and fills in chunks that stay inside a page; a chunk
\* that overlaps ahead of itself or faults is left to the element loop.
RECURSIVE RepFast(_, _)
RepFast(c, i) ==
    LET s  == MaskW(i.seg + c.g[RSI], 8)
        d  == c.g[RDI]
        mv == i.x = "movs"
        n  == Smallest(c.g[RCX], IF mv THEN Page - (s % Page) ELSE Page, Page - (d % Page))
        src(k) == IF mv THEN c.m[s + k] ELSE MaskW(c.g[RAX], 1)
        t  == [Store(c, d, n, 0) EXCEPT !.m =
                  [x \in DOMAIN c.m |-> IF x \in d .. d + n - 1 THEN src(x - d) ELSE c.m[x]]]
    IN  IF c.g[RCX] = 0 THEN c
        ELSE IF \/ mv /\ d > s /\ d - s < n
                \/ mv /\ ~Allows(c, s, n, "r")
                \/ ~Allows(c, d, n, "w")
        THEN IF mv /\ ((d > s /\ d - s < n) \/ ~Allows(c, s, n, "r"))
             THEN c ELSE [c EXCEPT !.cp = Store(c, d, n, 0).cp]
        ELSE RepFast([t EXCEPT !.g[RSI] = IF mv THEN MaskW(@ + n, 8) ELSE @,
                               !.g[RDI] = MaskW(@ + n, 8), !.g[RCX] = @ - n], i)

StringInsn(c, i) ==
    LET fast == i.rep # 0 /\ ~c.df /\ i.w = 1 /\ i.x \in {"movs", "stos"} /\ ~i.a32
    IN  StringOp(IF fast THEN RepFast(c, i) ELSE c, i)

(***************************************************************************)
(* Data movement, stack, branches and the rest of the one-byte map.        *)
(***************************************************************************)

\* LOCK is allowed on a read-modify-write of memory only.
LockOk(i) ==
    /\ IsMem(i)
    /\ \/ i.op \in {"alu", "group1"} /\ Stores(i.x) /\ ~i.todst
       \/ i.op \in {"xchg", "xadd", "cmpxchg"}
       \/ i.op = "group3" /\ i.x \in {"not", "neg"}
       \/ i.op = "group5" /\ i.x \in {"inc", "dec"}
       \/ i.op = "bittest" /\ i.x # "bt"
       \/ i.op = "group9" /\ i.x # "rdrand"

PushInsn(c, i) ==
    NextInsn(PushW(c, CASE i.x = "reg"   -> c.g[i.rg.r]
                        [] i.x = "imm"   -> i.imm
                        [] i.x = "seg"   -> 0
                        [] i.x = "flags" -> RflagsWord(c), i.w), i)
PopInsn(c, i) ==
    LET v == Val(c, c.g[RSP], i.w)
    IN  CASE ~PopOK(c, i.w) -> RdFault(c, c.g[RSP])
          [] i.x = "reg" -> NextInsn(SetReg(PopW(c, i.w), i.rg.r, v, i.w), i)
          [] i.x = "seg" -> IF MaskW(v, 2) # 0 THEN Trap(c, "gp") ELSE NextInsn(PopW(c, i.w), i)
          [] i.x = "flags" ->
               NextInsn(SetRflagsUser(PopW(c, i.w), IF i.w = 2
                   THEN (RflagsWord(c) - MaskW(RflagsWord(c), 2)) + v ELSE v), i)
\* POP r/m that leaves RSP popped when the store faults.
PopRmKept(c, i) ==
    LET d == PopW(c, i.w)
    IN  IF ~PopOK(c, i.w) THEN RdFault(c, c.g[RSP])
        ELSE NextInsn(WriteOperand(d, OpOf(d, i), Val(c, c.g[RSP], i.w), i.w), i)
\* POP r/m addresses memory with the popped RSP, and puts RSP back when the
\* store faults.
PopRm(c, i) ==
    LET d == PopW(c, i.w)
        e == WriteOperand(d, OpOf(d, i), Val(c, c.g[RSP], i.w), i.w)
    IN  IF ~PopOK(c, i.w) THEN RdFault(c, c.g[RSP])
        ELSE IF OK(e) THEN NextInsn(e, i) ELSE [e EXCEPT !.g[RSP] = c.g[RSP]]

\* MOVSXD, MOVZX, MOVSX: i.imm is the source's width.
MovExtend(c, i) ==
    LET rm == OpOf(c, i)
        v  == ReadOperand(c, rm, i.imm)
    IN  IF ~Readable(c, rm, i.imm) THEN RdFault(c, rm.r)
        ELSE NextInsn(SetReg(c, i.rg.r, IF i.x = "zero" THEN v ELSE SignExtendW(v, i.imm), i.w), i)
Lea(c, i) ==
    IF ~IsMem(i) THEN Trap(c, "illegal") ELSE NextInsn(SetReg(c, i.rg.r, EaOf(c, i), i.w), i)
XchgAcc(c, i) == NextInsn(SetReg(SetReg(c, RAX, c.g[i.rg.r], i.w), i.rg.r, c.g[RAX], i.w), i)
\* CBW and its widths, CWD and its widths.
Widen(c, i) ==
    IF i.x = "cbw" THEN NextInsn(SetReg(c, RAX, SignExtendW(c.g[RAX], i.w \div 2), i.w), i)
    ELSE NextInsn(SetReg(c, RDX, IF SignBit(c.g[RAX], i.w) THEN -1 ELSE 0, i.w), i)
\* MOV between the accumulator and an absolute offset.
MovOffs(c, i) ==
    LET a == Lin(i, i.imm)
    IN  IF ~i.todst THEN NextInsn(WriteMem(c, a, c.g[RAX], i.w), i)
        ELSE IF ~Allows(c, a, i.w, "r") THEN RdFault(c, a)
        ELSE NextInsn(SetReg(c, RAX, Val(c, a, i.w), i.w), i)
Xlat(c, i) ==
    LET a == Lin(i, MaskW(Sreg(c, i, RBX) + MaskW(c.g[RAX], 1), IF i.a32 THEN 4 ELSE 8))
    IN  IF ~Allows(c, a, 1, "r") THEN RdFault(c, a)
        ELSE NextInsn(SetReg(c, RAX, Val(c, a, 1), 1), i)
Ret(c, i) ==
    IF ~PopOK(c, i.w) THEN RdFault(c, c.g[RSP])
    ELSE Jump([c EXCEPT !.g[RSP] = MaskW(@ + i.w + i.imm, 8)], Val(c, c.g[RSP], i.w))

\* LOOPNE, LOOPE, LOOP and JRCXZ.
Loop(c, i) ==
    LET n    == MaskW(Sreg(c, i, RCX) - 1, IF i.a32 THEN 4 ELSE 8)
        d    == IF i.x = "jrcxz" THEN c ELSE [c EXCEPT !.g[RCX] = n]
        take == CASE i.x = "jrcxz" -> Sreg(c, i, RCX) = 0
                  [] i.x = "loopne" -> n # 0 /\ ~c.f.zf
                  [] i.x = "loope"  -> n # 0 /\ c.f.zf
                  [] OTHER -> n # 0
    IN  IF take THEN Jump(d, c.ip + i.len + i.imm) ELSE NextInsn(d, i)

\* CLC, STC, CMC, CLD and STD.
FlagOp(c, i) ==
    NextInsn(CASE i.x = "cmc" -> [c EXCEPT !.f.cf = ~@]
               [] i.x \in {"clc", "stc"} -> [c EXCEPT !.f.cf = i.x = "stc"]
               [] i.x \in {"cld", "std"} -> [c EXCEPT !.df = i.x = "std"], i)

\* A failed 32-bit CMOV still clears the upper half; the source is read
\* whether or not the condition holds.
Cmov(c, i) ==
    LET rm == OpOf(c, i)
    IN  IF ~Readable(c, rm, i.w) THEN RdFault(c, rm.r)
        ELSE NextInsn(IF CondHolds(c.f, i.imm) THEN SetReg(c, i.rg.r, ReadOperand(c, rm, i.w), i.w)
                      ELSE IF i.w = 4 THEN [c EXCEPT !.g[i.rg.r] = MaskW(@, 4)] ELSE c, i)
Setcc(c, i) == NextInsn(WriteOperand(c, OpOf(c, i), Num(CondHolds(c.f, i.imm)), 1), i)
Bswap(c, i) ==
    NextInsn(SetReg(c, i.rg.r, IF i.w = 2 THEN 0 ELSE SwapBytes(MaskW(c.g[i.rg.r], i.w), i.w), i.w), i)
Movnti(c, i) ==
    IF ~IsMem(i) THEN Trap(c, "illegal")
    ELSE NextInsn(WriteMem(c, OpOf(c, i).r, c.g[i.rg.r], i.w), i)
\* RDTSC: the counter is one more each time it is read.
Rdtsc(c, i) ==
    NextInsn([c EXCEPT !.tsc = @ + 1, !.g[RAX] = MaskW(c.tsc + 1, 4),
                       !.g[RDX] = MaskW((c.tsc + 1) \div Mod(4), 4)], i)
\* SYSCALL leaves rip on itself; the kernel moves it with set_syscall_ret.
Syscall(c, i) ==
    Trap([c EXCEPT !.g[RCX] = c.ip + i.len, !.g[R11] = RflagsWord(c)], "syscall")
SetSyscallRet(c, i, v) == [c EXCEPT !.g[RAX] = MaskW(v, 8), !.ip = @ + i.len, !.out = "ok"]
\* INT3 and INT1 are traps: rip is past them.
Int3(c, i) == Trap([c EXCEPT !.ip = @ + i.len], "trap")

(***************************************************************************)
(* The extended state.  c.x holds the x87, SSE and AVX components (a value *)
(* each) and MXCSR; an image of it has one byte per component, the header  *)
(* XSTATE_BV after the legacy region, as wide as the components are many.  *)
(***************************************************************************)

AtX87 == 0
AtMxcsr == 1
AtSse == 2
AtBv == 3      \* two bytes: a component set
AtRsv == 5     \* reserved header bytes, zero
AtAvx == 6
Xcr0 == {"x87", "sse", "avx"}
InitX87 == 1
FxSize == 3
XsSize == 7
BvOf(v) == { x \in Xcr0 : Bit(v, CASE x = "x87" -> 0 [] x = "sse" -> 1 [] x = "avx" -> 2) }
BvNum(S) == Num("x87" \in S) + 2 * Num("sse" \in S) + 4 * Num("avx" \in S)

\* Bits of MXCSR outside the implemented mask refuse the load.
MxcsrOk(v) == v < Mod(1) - 1

Fxrstor(c, img) ==
    [c EXCEPT !.x = [@ EXCEPT !.mxcsr = img.mxcsr, !.x87 = img.x87, !.sse = img.sse]]
Xsave(c, a, rfbm) ==
    LET s0 == c
        s1 == IF "x87" \in rfbm THEN Store(s0, a + AtX87, 1, c.x.x87) ELSE s0
        s2 == IF OK(s1) /\ rfbm \cap {"sse", "avx"} # {} THEN Store(s1, a + AtMxcsr, 1, c.x.mxcsr) ELSE s1
        s3 == IF OK(s2) /\ "sse" \in rfbm THEN Store(s2, a + AtSse, 1, c.x.sse) ELSE s2
        s4 == IF OK(s3) /\ "avx" \in rfbm THEN Store(s3, a + AtAvx, 1, c.x.avx) ELSE s3
        bv == BvNum(BvOf(Val(c, a + AtBv, 2)) \cup rfbm)
    IN  IF ~Allows(c, a + AtBv, 2, "r") THEN RdFault(c, a + AtBv)
        ELSE IF OK(s4) THEN WriteMem(s4, a + AtBv, bv, 2) ELSE s4
\* MXCSR goes with SSE or AVX; a component of the mask that the header does
\* not name returns to its initial state.
Xrstor(c, a, rfbm) ==
    LET raw == Val(c, a + AtBv, 2)
        bv  == BvOf(raw)
        img == [x87   |-> IF "x87" \notin rfbm THEN c.x.x87
                          ELSE IF "x87" \in bv THEN c.m[a + AtX87] ELSE InitX87,
                mxcsr |-> IF rfbm \cap {"sse", "avx"} # {} THEN c.m[a + AtMxcsr] ELSE c.x.mxcsr,
                sse   |-> IF "sse" \notin rfbm THEN c.x.sse
                          ELSE IF "sse" \in bv THEN c.m[a + AtSse] ELSE 0]
        avx == IF "avx" \notin rfbm THEN c.x.avx
               ELSE IF "avx" \in bv THEN c.m[a + AtAvx] ELSE 0
    IN  CASE ~Allows(c, a, XsSize, "r") -> RdFault(c, a)
          [] raw >= 8 \/ c.m[a + AtRsv] # 0 \/ ~MxcsrOk(img.mxcsr) -> Trap(c, "gp")
          [] OTHER -> [Fxrstor(c, img) EXCEPT !.x.avx = avx]

\* FXSAVE, FXRSTOR, LDMXCSR, STMXCSR, XSAVE, XRSTOR, CLFLUSH and the fences.
Group15(c, i) ==
    LET a    == OpOf(c, i).r
        align == CASE i.x \in {"fxsave", "fxrstor"} -> 2 [] i.x \in {"xsave", "xrstor"} -> 4 [] OTHER -> 1
        rfbm == BvOf(c.g[RAX])
        img  == [x87 |-> c.m[a + AtX87], mxcsr |-> c.m[a + AtMxcsr], sse |-> c.m[a + AtSse]]
        fx   == (c.x.sse * Mod(1) + c.x.mxcsr) * Mod(1) + c.x.x87
    IN  CASE ~IsMem(i) -> IF i.x = "fence" THEN NextInsn(c, i) ELSE Trap(c, "illegal")
          [] a % align # 0 -> Trap(c, "gp")
          [] i.x = "fxsave" -> NextInsn(Store(c, a, FxSize, fx), i)
          [] i.x = "fxrstor" /\ ~Allows(c, a, FxSize, "r") -> RdFault(c, a)
          [] i.x = "fxrstor" ->
               IF MxcsrOk(img.mxcsr) THEN NextInsn(Fxrstor(c, img), i) ELSE Trap(c, "gp")
          [] i.x = "xsave" -> NextInsn(Xsave(c, a, rfbm), i)
          [] i.x = "xrstor" -> NextInsn(Xrstor(c, a, rfbm), i)
          [] i.x = "stmxcsr" -> NextInsn(Store(c, a, 1, c.x.mxcsr), i)
          [] ~Allows(c, a, 1, "r") -> RdFault(c, a)
          [] i.x = "ldmxcsr" ->
               IF MxcsrOk(c.m[a]) THEN NextInsn([c EXCEPT !.x.mxcsr = c.m[a]], i) ELSE Trap(c, "gp")
          [] i.x = "clflush" -> NextInsn(c, i)
          [] OTHER -> Trap(c, "illegal")

(***************************************************************************)
(* Fetch and dispatch.                                                     *)
(***************************************************************************)

\* fill_ibuf: take a copy of the page of code, unless the copy held is of
\* this page; an instruction that might leave the page is read afresh.
FillIbuf(c) ==
    LET pg   == PageOf(c.ip)
        take == pg # c.cp /\ Allows(c, c.ip, 1, "x") /\ Allows(c, pg, Page, "r")
        d    == IF take THEN [c EXCEPT !.cp = pg, !.code = [x \in pg .. pg + Page - 1 |-> c.m[x]]] ELSE c
    IN  CASE pg # c.cp /\ ~Allows(c, c.ip, 1, "x") -> RdFault(c, c.ip)
          [] d.cp = pg /\ (c.ip % Page) + MaxInsn <= Page -> d
          [] ~Allows(d, c.ip, 1, "x") \/ ~Allows(d, c.ip, 1, "r") -> RdFault(d, c.ip)
          [] OTHER -> d
\* The instruction at rip, from the copy or from memory.
Fetched(c) ==
    LET cached == c.cp = PageOf(c.ip) /\ (c.ip % Page) + MaxInsn <= Page
    IN  Text[c.k][c.p][c.ip][IF cached THEN c.code[c.ip] ELSE c.m[c.ip]]
\* Bytes beyond the page count only when the next page can be executed; an
\* instruction that needs them faults there.
Straddles(c, i) ==
    /\ PageOf(c.ip + i.len - 1) # PageOf(c.ip)
    /\ ~(Allows(c, c.ip + i.len - 1, 1, "x") /\ Allows(c, c.ip + i.len - 1, 1, "r"))

\* One-byte opcodes.
StepOne(c, i) ==
    CASE i.op = "alu"     -> AluModrm(c, i)
      [] i.op = "aluacc"  -> AluAccImm(c, i)
      [] i.op = "push"    -> PushInsn(c, i)
      [] i.op = "pop"     -> PopInsn(c, i)
      [] i.op = "movx"    -> MovExtend(c, i)
      [] i.op = "imul"    -> ImulRm(c, i)
      [] i.op = "priv"    -> Trap(c, "gp")
      [] i.op = "jcc"     ->
           IF CondHolds(c.f, i.x) THEN Jump(c, c.ip + i.len + i.imm) ELSE NextInsn(c, i)
      [] i.op = "group1"  -> Group1(c, i)
      [] i.op = "xchg"    -> Xchg(c, i)
      [] i.op = "mov"     -> MovModrm(c, i)
      [] i.op = "lea"     -> Lea(c, i)
      [] i.op = "poprm"   -> PopRm(c, i)
      [] OTHER            -> XchgAcc(c, i)
StepTwo(c, i) ==
    CASE i.op = "widen"   -> Widen(c, i)
      [] i.op = "movoffs" -> MovOffs(c, i)
      [] i.op = "string"  -> StringInsn(c, i)
      [] i.op = "movimm"  -> MovImm(c, i)
      [] i.op = "shift"   -> Group2(c, i)
      [] i.op = "ret"     -> Ret(c, i)
      [] i.op = "enter"   -> Enter(c, i)
      [] i.op = "leave"   -> Leave(c, i)
      [] i.op = "int3"    -> Int3(c, i)
      [] i.op = "xlat"    -> Xlat(c, i)
      [] i.op = "loop"    -> Loop(c, i)
      [] i.op = "call"    -> Jump(PushW(c, c.ip + i.len, 8), c.ip + i.len + i.imm)
      [] i.op = "jmp"     -> Jump(c, c.ip + i.len + i.imm)
      [] i.op = "flag"    -> FlagOp(c, i)
      [] i.op = "group3"  -> Group3(c, i)
      [] OTHER            -> Group5(c, i)
\* The two-byte opcodes.
Exec0f(c, i) ==
    CASE i.op = "syscall" -> Syscall(c, i)
      [] i.op = "hint"    -> NextInsn(c, i)
      [] i.op = "rdtsc"   -> Rdtsc(c, i)
      [] i.op = "cmov"    -> Cmov(c, i)
      [] i.op = "setcc"   -> Setcc(c, i)
      [] i.op = "bittest" -> BitTest(c, i)
      [] i.op = "shiftd"  -> ShldShrd(c, i)
      [] i.op = "group15" -> Group15(c, i)
      [] i.op = "cmpxchg" -> Cmpxchg(c, i)
      [] i.op = "bitcount" -> BitCount(c, i)
      [] i.op = "xadd"    -> Xadd(c, i)
      [] i.op = "movnti"  -> Movnti(c, i)
      [] i.op = "group9"  -> Group9(c, i)
      [] i.op = "bswap"   -> Bswap(c, i)
      [] OTHER            -> Movbe(c, i)
OneOps == {"alu", "aluacc", "push", "pop", "movx", "imul", "priv", "jcc", "group1", "xchg",
           "mov", "lea", "poprm", "xchgacc"}
TwoOps == {"widen", "movoffs", "string", "movimm", "shift", "ret", "enter", "leave", "int3",
           "xlat", "loop", "call", "jmp", "flag", "group3", "group5"}
Decode(c, i) ==
    CASE Straddles(c, i) -> RdFault(c, PageOf(c.ip) + Page)
      [] i.lock /\ ~LockOk(i) -> Trap(c, "illegal")
      [] i.op \in OneOps -> StepOne(c, i)
      [] i.op \in TwoOps -> StepTwo(c, i)
      [] OTHER -> Exec0f(c, i)
Fetch(d) == IF OK(d) THEN Decode(d, Fetched(d)) ELSE d
Step(c) == Fetch(FillIbuf(c))

\* Entering run: the copy of the code is not trusted across an exit.
Enters(c) == [c EXCEPT !.cp = NoPage, !.out = "ok"]
=============================================================================
