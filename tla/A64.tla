-------------------------------- MODULE A64 --------------------------------
(***************************************************************************)
(* The AArch64 software CPU (vcpu/interp.rs and interp/{alu,branch,ldst}): *)
(* the integer, branch, system and load/store instructions, the condition  *)
(* flags, the exclusive monitor and the direct-mapped cache of code pages. *)
(*                                                                         *)
(* An instruction is its decoded record i (op and the fields of its        *)
(* encoding); what the word in memory says is Text's.  An operator of the  *)
(* machine maps the CPU c to the CPU after it: a result is c.out = "ok", a *)
(* fault, an alignment fault, an illegal instruction, a call or a trap.    *)
(*   g, sp, ip, f     X0.., SP, PC and NZCV                                *)
(*   v                the vector registers, VBytes bytes each              *)
(*   mon, maddr       the exclusive monitor and the address it watches     *)
(*   tag, copy        the cached code pages, by way                        *)
(*   m, prot          the guest memory and the permissions of its pages    *)
(***************************************************************************)
EXTENDS Words

CONSTANTS Ways,     \* pages the fetch cache holds
          VBytes,   \* bytes of a vector register
          VRegs,    \* vector registers
          Granule,  \* bytes an atomic access may not cross, SP's alignment
          Text      \* case -> parameter -> address -> content of its byte -> instruction there

(***************************************************************************)
(* Registers and flags.                                                    *)
(***************************************************************************)

LR == 30
ZR == 31
Bits == 8 * B

ReadX(c, r, w) == IF r = ZR THEN 0 ELSE MaskW(c.g[r], w)
WriteX(c, r, v, w) == IF r = ZR THEN c ELSE [c EXCEPT !.g[r] = MaskW(v, w)]
ReadSp(c, r, w) == IF r = ZR THEN MaskW(c.sp, w) ELSE MaskW(c.g[r], w)
WriteSp(c, r, v, w) ==
    IF r = ZR THEN [c EXCEPT !.sp = MaskW(v, w)] ELSE [c EXCEPT !.g[r] = MaskW(v, w)]

Nzcv(f) == 8 * Num(f.n) + 4 * Num(f.z) + 2 * Num(f.c) + Num(f.v)
FromNzcv(x) == [n |-> Bit(x, 3), z |-> Bit(x, 2), c |-> Bit(x, 1), v |-> Bit(x, 0)]

CondHolds(f, cond) ==
    LET base == CASE cond \div 2 = 0 -> f.z
                  [] cond \div 2 = 1 -> f.c
                  [] cond \div 2 = 2 -> f.n
                  [] cond \div 2 = 3 -> f.v
                  [] cond \div 2 = 4 -> f.c /\ ~f.z
                  [] cond \div 2 = 5 -> f.n = f.v
                  [] cond \div 2 = 6 -> f.n = f.v /\ ~f.z
                  [] OTHER           -> TRUE
    IN  base # (cond % 2 = 1 /\ cond # 15)

NextInsn(c) == IF OK(c) THEN [c EXCEPT !.ip = MaskW(@ + 4, 8)] ELSE c
Jump(c, a) == [c EXCEPT !.ip = MaskW(a, 8)]

(***************************************************************************)
(* The cache of code pages, and what a store does to it and the monitor.   *)
(***************************************************************************)

Way(p) == (p \div Page) % Ways
ClearFetch(c) == [c EXCEPT !.tag = [x \in DOMAIN c.tag |-> NoPage]]
\* A store drops the page its first byte lies on only.
InvalidateFirst(c, a, n) ==
    [c EXCEPT !.tag = [x \in DOMAIN c.tag |-> IF c.tag[x] = PageOf(a) THEN NoPage ELSE c.tag[x]]]
Invalidate(c, a, n) ==
    LET gone == {PageOf(a), PageOf(a + n - 1)}
    IN  [c EXCEPT !.tag = [x \in DOMAIN c.tag |-> IF c.tag[x] \in gone THEN NoPage ELSE c.tag[x]]]
NoteStore(c, a, n) == Invalidate([c EXCEPT !.mon = FALSE], a, n)

\* A miss copies the whole page into its way.
Fetched(c) ==
    LET p == PageOf(c.ip)
    IN  IF c.tag[Way(p)] = p THEN c
        ELSE [c EXCEPT !.tag[Way(p)] = p,
                       !.copy[Way(p)] = [x \in p .. p + Page - 1 |-> c.m[x]]]

(***************************************************************************)
(* Arithmetic.                                                             *)
(***************************************************************************)

AddWithCarry(a, b, ci, w) == MaskW(a + b + Num(ci), w)
AddWithCarryFlags(a, b, ci, w) ==
    LET r == AddWithCarry(a, b, ci, w)
    IN  [n |-> SignBit(r, w), z |-> r = 0, c |-> a + b + Num(ci) >= Mod(w),
         v |-> SignBit((a ^^ r) & (b ^^ r), w)]
NotW(v, w) == (Mod(w) - 1) - MaskW(v, w)
\* SUB is ADD of the complement with the carry set; CMP sets C on no borrow.
AddsubFlags(a, b, sub, w) == AddWithCarryFlags(a, IF sub THEN NotW(b, w) ELSE b, sub, w)
AddSub(a, b, sub, w) == MaskW(IF sub THEN a - b ELSE a + b, w)
SetNz(v, w) == [n |-> SignBit(v, w), z |-> v = 0, c |-> FALSE, v |-> FALSE]

Ror(v, n, bits) ==
    LET k == n % bits
    IN  (v \div 2 ^ k) + (v % 2 ^ k) * 2 ^ (bits - k)
ShiftReg(v, kind, n, w) ==
    CASE kind = "lsl" -> MaskW(v * 2 ^ n, w)
      [] kind = "lsr" -> v \div 2 ^ n
      [] kind = "asr" -> MaskW(SignExtendW(v, w) \div 2 ^ n, w)
      [] kind = "ror" -> Ror(v, n, w * B)
\* UXTB..SXTX: the low bytes, signed or not, shifted.
ExtendReg(v, from, signed, n) ==
    MaskW((IF signed THEN SignExtendW(v, from) ELSE MaskW(v, from)) * 2 ^ n, 8)

RECURSIVE Replicate(_, _, _)
Replicate(v, esize, bits) ==
    IF bits = 0 THEN 0 ELSE v + 2 ^ esize * Replicate(v, esize, bits - esize)
Mask1(n) == 2 ^ n - 1
\* The wmask and tmask of (N, immr, imms), or <<>> for a reserved encoding.
DecodeBitMasks(n, immr, imms, immediate) ==
    LET x   == n * Bits + ((Bits - 1) - imms)
        len == Greatest({0} \cup { k \in 0 .. 10 : x >= 2 ^ k })
        es  == 2 ^ len
        lv  == es - 1
        s   == imms % es
        r   == immr % es
    IN  IF len < 1 \/ (immediate /\ s = lv) THEN <<>>
        ELSE << Replicate(Ror(Mask1(s + 1), r, es), es, Bits),
                Replicate(Mask1(((s - r) % es) + 1), es, Bits) >>

RECURSIVE Rbit(_, _)
Rbit(v, bits) ==
    IF bits = 0 THEN 0 ELSE (v % 2) * 2 ^ (bits - 1) + Rbit(v \div 2, bits - 1)
\* REV16/REV32/REV: the bytes of each group of n reversed.
RECURSIVE RevIn(_, _, _)
RevIn(v, n, w) ==
    IF w = 0 THEN 0 ELSE SwapBytes(MaskW(v, n), n) + Mod(n) * RevIn(v \div Mod(n), n, w - n)
Clz(v, w) == IF v = 0 THEN w * B ELSE (w * B - 1) - Greatest(Ones(v, w))
Cls(v, w) == Clz(IF SignBit(v, w) THEN NotW(v, w) ELSE v, w) - 1
Udiv(n, d) == IF d = 0 THEN 0 ELSE n \div d
Sdiv(n, d, w) ==
    IF d = 0 THEN 0 ELSE MaskW(Trunc(SignExtendW(n, w), SignExtendW(d, w)), w)

(***************************************************************************)
(* Data processing, immediate.                                             *)
(***************************************************************************)

Adr(c, i) ==
    NextInsn(WriteX(c, i.rd, IF i.page THEN PageOf(c.ip) + i.imm * Page ELSE c.ip + i.imm, 8))

AddSubImm(c, i) ==
    LET a == ReadSp(c, i.rn, i.w)
        r == AddSub(a, i.imm, i.sub, i.w)
    IN  NextInsn(IF i.s
                 THEN [WriteX(c, i.rd, r, i.w) EXCEPT !.f = AddsubFlags(a, i.imm, i.sub, i.w)]
                 ELSE WriteSp(c, i.rd, r, i.w))

Logic(x, a, b) ==
    CASE x = "and" -> a & b
      [] x = "orr" -> a | b
      [] x = "eor" -> a ^^ b
LogicalImm(c, i) ==
    LET masks == DecodeBitMasks(i.n, i.immr, i.imms, TRUE)
        r     == Logic(i.x, ReadX(c, i.rn, i.w), MaskW(masks[1], i.w))
    IN  IF masks = <<>> \/ (i.n = 1 /\ i.w = 4) THEN Trap(c, "illegal")
        ELSE NextInsn(IF i.s THEN [WriteX(c, i.rd, r, i.w) EXCEPT !.f = SetNz(r, i.w)]
                      ELSE WriteSp(c, i.rd, r, i.w))

\* imm16 at halfword hw.
MovWide(c, i) ==
    LET v == MaskW(i.imm * Mod(2 * i.hw), i.w)
        old == ReadX(c, i.rd, i.w)
    IN  NextInsn(WriteX(c, i.rd,
            CASE i.x = "movn" -> NotW(v, i.w)
              [] i.x = "movz" -> v
              [] i.x = "movk" ->
                   (old - MaskW(old \div Mod(2 * i.hw), 2) * Mod(2 * i.hw)) + v, i.w))

\* SBFM, BFM and UBFM.
BitfieldOf(x, dst, src, immr, imms, wmask, tmask, w) ==
    LET bot == Ror(src, immr, w * B) & wmask
        top == IF Bit(src, imms) THEN Mod(w) - 1 ELSE 0
    IN  CASE x = "sbfm" -> (top & NotW(tmask, w)) | (bot & tmask)
          [] x = "bfm"  -> (dst & NotW(tmask, w)) | (((dst & NotW(wmask, w)) | bot) & tmask)
          [] x = "ubfm" -> bot & tmask
Bitfield(c, i) ==
    LET masks == DecodeBitMasks(Num(i.w = 8), i.immr, i.imms, FALSE)
    IN  NextInsn(WriteX(c, i.rd,
            BitfieldOf(i.x, ReadX(c, i.rd, i.w), ReadX(c, i.rn, i.w), i.immr, i.imms,
                       MaskW(masks[1], i.w), MaskW(masks[2], i.w), i.w), i.w))

Extr(c, i) ==
    LET hi == ReadX(c, i.rn, i.w)
        lo == ReadX(c, i.rm, i.w)
    IN  NextInsn(WriteX(c, i.rd,
            (lo \div 2 ^ i.imm) + (hi % 2 ^ i.imm) * 2 ^ (i.w * B - i.imm), i.w))

(***************************************************************************)
(* Data processing, register.                                              *)
(***************************************************************************)

LogicalReg(c, i) ==
    LET b0 == ShiftReg(ReadX(c, i.rm, i.w), i.sh, i.amt, i.w)
        b  == IF i.inv THEN NotW(b0, i.w) ELSE b0
        r  == Logic(i.x, ReadX(c, i.rn, i.w), b)
        d  == WriteX(c, i.rd, r, i.w)
    IN  NextInsn(IF i.s THEN [d EXCEPT !.f = SetNz(r, i.w)] ELSE d)

AddSubShifted(c, i) ==
    LET a == ReadX(c, i.rn, i.w)
        b == ShiftReg(ReadX(c, i.rm, i.w), i.sh, i.amt, i.w)
        d == WriteX(c, i.rd, AddSub(a, b, i.sub, i.w), i.w)
    IN  NextInsn(IF i.s THEN [d EXCEPT !.f = AddsubFlags(a, b, i.sub, i.w)] ELSE d)

AddSubExtended(c, i) ==
    LET a == ReadSp(c, i.rn, i.w)
        b == MaskW(ExtendReg(ReadX(c, i.rm, 8), i.from, i.signed, i.amt), i.w)
        r == AddSub(a, b, i.sub, i.w)
    IN  NextInsn(IF i.s
                 THEN [WriteX(c, i.rd, r, i.w) EXCEPT !.f = AddsubFlags(a, b, i.sub, i.w)]
                 ELSE WriteSp(c, i.rd, r, i.w))

AdcSbc(c, i) ==
    LET a == ReadX(c, i.rn, i.w)
        b == IF i.sub THEN NotW(ReadX(c, i.rm, i.w), i.w) ELSE ReadX(c, i.rm, i.w)
        d == WriteX(c, i.rd, AddWithCarry(a, b, c.f.c, i.w), i.w)
    IN  NextInsn(IF i.s THEN [d EXCEPT !.f = AddWithCarryFlags(a, b, c.f.c, i.w)] ELSE d)

\* CCMP/CCMN: compare when the condition holds, else the flags given.
Ccmp(c, i) ==
    LET b == IF i.useimm THEN i.imm ELSE ReadX(c, i.rm, i.w)
    IN  NextInsn([c EXCEPT !.f = IF CondHolds(c.f, i.cond)
                                 THEN AddsubFlags(ReadX(c, i.rn, i.w), b, i.sub, i.w)
                                 ELSE FromNzcv(i.nzcv)])

Csel(c, i) ==
    LET b == ReadX(c, i.rm, i.w)
    IN  NextInsn(WriteX(c, i.rd,
            IF CondHolds(c.f, i.cond) THEN ReadX(c, i.rn, i.w)
            ELSE CASE i.x = "csel"  -> b
                   [] i.x = "csinc" -> b + 1
                   [] i.x = "csinv" -> NotW(b, i.w)
                   [] i.x = "csneg" -> NotW(b, i.w) + 1, i.w))

OneSource(c, i) ==
    LET v == ReadX(c, i.rn, i.w)
    IN  NextInsn(WriteX(c, i.rd,
            CASE i.x = "rbit"  -> Rbit(v, i.w * B)
              [] i.x = "rev16" -> RevIn(v, 2, i.w)
              [] i.x = "rev32" -> RevIn(v, 4, i.w)
              [] i.x = "rev"   -> SwapBytes(v, i.w)
              [] i.x = "clz"   -> Clz(v, i.w)
              [] i.x = "cls"   -> Cls(v, i.w), i.w))

TwoSource(c, i) ==
    LET n == ReadX(c, i.rn, i.w)
        m == ReadX(c, i.rm, i.w)
    IN  NextInsn(WriteX(c, i.rd,
            CASE i.x = "udiv" -> Udiv(n, m)
              [] i.x = "sdiv" -> Sdiv(n, m, i.w)
              [] OTHER        -> ShiftReg(n, i.x, m % (i.w * B), i.w), i.w))

\* MADD/MSUB, the long forms of half-width factors, and the high product.
ThreeSource(c, i) ==
    LET half == i.x \in {"smaddl", "umaddl"}
        of(r) == IF i.x = "umaddl" THEN ReadX(c, r, 4)
                 ELSE SignExtendW(ReadX(c, r, IF half THEN 4 ELSE i.w), IF half THEN 4 ELSE i.w)
        p == of(i.rn) * of(i.rm)
    IN  NextInsn(WriteX(c, i.rd,
            CASE i.x = "smulh" -> p \div Mod(8)
              [] i.x = "umulh" -> (ReadX(c, i.rn, 8) * ReadX(c, i.rm, 8)) \div Mod(8)
              [] OTHER -> ReadX(c, i.ra, i.w) + (IF i.sub THEN -p ELSE p), i.w))

\* RMIF, SETF8 and SETF16, CFINV, XAFLAG and AXFLAG.
Flagm(c, i) ==
    LET f == c.f
        old == Nzcv(f)
        v == ReadX(c, i.rn, 8)
        new == Ror(v, i.imm, Bits) % 16
        top == Bit(v, i.w * B - 1)
    IN  NextInsn([c EXCEPT !.f =
            CASE i.x = "rmif"   -> FromNzcv((old & (15 - i.mask)) | (new & i.mask))
              [] i.x = "setf"   -> [n |-> top, z |-> MaskW(v, i.w) = 0, c |-> f.c,
                                    v |-> Bit(v, i.w * B) # top]
              [] i.x = "cfinv"  -> [f EXCEPT !.c = ~@]
              [] i.x = "xaflag" -> [n |-> ~f.c /\ ~f.z, z |-> f.z /\ f.c,
                                    c |-> f.c \/ f.z, v |-> ~f.c /\ f.z]
              [] i.x = "axflag" -> [n |-> FALSE, z |-> f.z \/ f.v,
                                    c |-> f.c /\ ~f.v, v |-> FALSE]])

(***************************************************************************)
(* Branches and the system instructions.                                   *)
(***************************************************************************)

BranchTo(c, i) ==
    Jump(IF i.link THEN WriteX(c, LR, c.ip + 4, 8) ELSE c, c.ip + i.imm)
\* CBZ/CBNZ, TBZ/TBNZ and B.cond.
BranchIf(c, i) ==
    LET taken == CASE i.x = "zero" -> (ReadX(c, i.rt, i.w) = 0) # i.neg
                   [] i.x = "bit"  -> Bit(ReadX(c, i.rt, 8), i.bit) = i.neg
                   [] i.x = "cond" -> CondHolds(c.f, i.cond)
    IN  IF taken THEN Jump(c, c.ip + i.imm) ELSE NextInsn(c)
\* BR, BLR and RET: the target is read before X30 is set.
BranchReg(c, i) ==
    Jump(IF i.link THEN WriteX(c, LR, c.ip + 4, 8) ELSE c, ReadX(c, i.rn, 8))
Svc(c, i) == Trap(c, "syscall")
Brk(c, i) == Trap(c, "trap")

\* CLREX, ISB, MRS/MSR NZCV and the hints.
SystemInsn(c, i) ==
    NextInsn(CASE i.x = "clrex" -> [c EXCEPT !.mon = FALSE]
               [] i.x = "isb"   -> ClearFetch(c)
               [] i.x = "mrs"   -> WriteX(c, i.rt, Nzcv(c.f) * 2 ^ (Bits - 4), 8)
               [] i.x = "msr"   -> [c EXCEPT !.f = FromNzcv(ReadX(c, i.rt, 8) \div 2 ^ (Bits - 4))]
               [] i.x = "cntvct" -> [WriteX(c, i.rt, c.cnt, 8) EXCEPT !.cnt = @ + 1]
               [] OTHER         -> c)

\* IC IVAU drops every cached page; DC ZVA zeroes the block around Xt.
SysInsn(c, i) ==
    LET a == ReadX(c, i.rt, 8) - (ReadX(c, i.rt, 8) % Granule)
        d == NoteStore(c, a, Granule)
    IN  CASE i.x = "ivau" -> NextInsn(ClearFetch(c))
          [] i.x = "zva"  -> IF Allows(c, a, Granule, "w")
                             THEN NextInsn([d EXCEPT !.m = [x \in DOMAIN c.m |->
                                      IF x \in a .. a + Granule - 1 THEN 0 ELSE c.m[x]]])
                             ELSE Fault(d, a, TRUE)
          [] OTHER        -> NextInsn(c)

(***************************************************************************)
(* Loads and stores of one register or two.                                *)
(***************************************************************************)

LoadX(c, a, n, rt, signed, w) ==
    IF ~Allows(c, a, n, "r") THEN RdFault(c, a)
    ELSE WriteX(c, rt, IF signed THEN SignExtendW(Val(c, a, n), n) ELSE Val(c, a, n), w)
\* The store that reaches memory, or the first byte of it refused.
StoreVal(c, a, n, v) ==
    IF Allows(c, a, n, "w") THEN Put(NoteStore(c, a, n), a, n, v)
    ELSE Fault(NoteStore(c, a, n), FirstShut(c, a, n), TRUE)
StoreX(c, a, n, rt) == StoreVal(c, a, n, ReadX(c, rt, n))

\* A vector register from the n bytes at a, the rest of it zero; and the
\* bytes that a store puts at a.
VecAt(c, a, n) == [b \in 0 .. VBytes - 1 |-> IF b < n THEN c.m[a + b] ELSE 0]
PutBytes(c, a, n, bytes) ==
    IF Allows(c, a, n, "w")
    THEN [NoteStore(c, a, n) EXCEPT !.m = [x \in DOMAIN c.m |->
             IF x \in a .. a + n - 1 THEN bytes[x - a] ELSE c.m[x]]]
    ELSE Fault(NoteStore(c, a, n), FirstShut(c, a, n), TRUE)
LdstVec(c, a, n, load, rt) ==
    CASE ~load               -> PutBytes(c, a, n, c.v[rt])
      [] ~Allows(c, a, n, "r") -> RdFault(c, a)
      [] OTHER               -> [c EXCEPT !.v[rt] = VecAt(c, a, n)]

\* The base register is written after the data, and only if there was no fault.
Writeback(c, rn, a) == IF OK(c) THEN WriteSp(c, rn, a, 8) ELSE c

ExecSingle(c, i) ==
    LET base == ReadSp(c, i.rn, 8)
        off  == IF i.mode = "reg" THEN ExtendReg(ReadX(c, i.rm, 8), i.from, i.signed, i.amt) ELSE i.imm
        a    == MaskW(IF i.mode = "post" THEN base ELSE base + off, 8)
        d    == CASE i.x = "vec"   -> LdstVec(c, a, i.n, i.load, i.rt)
                  [] i.x = "store" -> StoreX(c, a, i.n, i.rt)
                  [] i.x = "load"  -> LoadX(c, a, i.n, i.rt, i.sx, i.w)
                  [] OTHER         -> c
    IN  NextInsn(IF i.mode \in {"pre", "post"} THEN Writeback(d, i.rn, base + off) ELSE d)

ExecLiteral(c, i) == NextInsn(LoadX(c, MaskW(c.ip + i.imm, 8), i.n, i.rt, i.sx, 8))

\* One access for both registers.
ExecPair(c, i) ==
    LET base == ReadSp(c, i.rn, 8)
        a    == MaskW(IF i.mode = "post" THEN base ELSE base + i.imm, 8)
        n    == i.n
        of(x) == IF i.sx THEN SignExtendW(x, n) ELSE x
        both == [b \in 0 .. 2 * n - 1 |->
                    IF i.vec THEN IF b < n THEN c.v[i.rt][b] ELSE c.v[i.rt2][b - n]
                    ELSE IF b < n THEN Byte(ReadX(c, i.rt, 8), b) ELSE Byte(ReadX(c, i.rt2, 8), b - n)]
        d    == CASE ~i.load -> PutBytes(c, a, 2 * n, both)
                  [] ~Allows(c, a, 2 * n, "r") -> RdFault(c, a)
                  [] i.vec -> [c EXCEPT !.v = [@ EXCEPT ![i.rt] = VecAt(c, a, n),
                                                        ![i.rt2] = VecAt(c, a + n, n)]]
                  [] OTHER -> WriteX(WriteX(c, i.rt, of(Val(c, a, n)), 8),
                                     i.rt2, of(Val(c, a + n, n)), 8)
    IN  NextInsn(IF i.mode \in {"pre", "post"} THEN Writeback(d, i.rn, base + i.imm) ELSE d)

(***************************************************************************)
(* Exclusives and atomics.                                                 *)
(***************************************************************************)

CrossesGranule(a, n) == (a % Granule) + n > Granule
Misaligned(c, a, w) == [c EXCEPT !.out = "misaligned", !.addr = a, !.write = w]
OpenMonitor(c, a) == [c EXCEPT !.mon = TRUE, !.maddr = a]
ExclOk(c, a) == c.mon /\ c.maddr = a

\* LDXR/STXR; one access reported at the operand's own address.
LoadExclusive(c, i) ==
    LET a == ReadSp(c, i.rn, 8)
    IN  IF CrossesGranule(a, i.n) THEN Misaligned(c, a, FALSE)
        ELSE IF ~Allows(c, a, i.n, "r") THEN RdFault(c, a)
        ELSE NextInsn(OpenMonitor(WriteX(c, i.rt, Val(c, a, i.n), 8), a))
StoreExclusive(c, i) ==
    LET a == ReadSp(c, i.rn, 8)
        d == [c EXCEPT !.mon = FALSE]
        s == StoreVal(d, a, i.n, ReadX(c, i.rt, i.n))
    IN  IF CrossesGranule(a, i.n) THEN Misaligned(c, a, TRUE)
        ELSE IF ~ExclOk(c, a) THEN NextInsn(WriteX(d, i.rs, 1, 8))
        ELSE IF OK(s) THEN NextInsn(WriteX(s, i.rs, 0, 8)) ELSE [s EXCEPT !.addr = a]

\* LDXP/STXP: two reads, one write.
LoadExclusivePair(c, i) ==
    LET a == ReadSp(c, i.rn, 8)
    IN  IF CrossesGranule(a, 2 * i.n) THEN Misaligned(c, a, FALSE)
        ELSE IF ~Allows(c, a, i.n, "r") THEN RdFault(c, a)
        ELSE IF ~Allows(c, a + i.n, i.n, "r") THEN RdFault(c, a + i.n)
        ELSE NextInsn(OpenMonitor(WriteX(WriteX(c, i.rt, Val(c, a, i.n), 8),
                                         i.rt2, Val(c, a + i.n, i.n), 8), a))
StoreExclusivePair(c, i) ==
    LET a == ReadSp(c, i.rn, 8)
        d == [c EXCEPT !.mon = FALSE]
        s == PutBytes(d, a, 2 * i.n, [b \in 0 .. 2 * i.n - 1 |->
                 IF b < i.n THEN Byte(ReadX(c, i.rt, 8), b) ELSE Byte(ReadX(c, i.rt2, 8), b - i.n)])
    IN  IF CrossesGranule(a, 2 * i.n) THEN Misaligned(c, a, TRUE)
        ELSE IF ~ExclOk(c, a) THEN NextInsn(WriteX(d, i.rs, 1, 8))
        ELSE IF OK(s) THEN NextInsn(WriteX(s, i.rs, 0, 8)) ELSE s

\* LDAR/STLR, LDAPR and the RCPC2 forms.
Ordered(c, i) ==
    LET a == MaskW(ReadSp(c, i.rn, 8) + i.imm, 8)
    IN  IF CrossesGranule(a, i.n) THEN Misaligned(c, a, ~i.load)
        ELSE NextInsn(IF i.load THEN LoadX(c, a, i.n, i.rt, i.sx, i.w) ELSE StoreX(c, a, i.n, i.rt))

\* CAS: the word stays when it differs; Rs receives the old one, last.
CasSingle(c, i) ==
    LET a == ReadSp(c, i.rn, 8)
        old == Val(c, a, i.n)
        s == IF old = ReadX(c, i.rs, i.n) THEN StoreX(c, a, i.n, i.rt) ELSE c
    IN  IF CrossesGranule(a, i.n) THEN Misaligned(c, a, ~i.load)
        ELSE IF ~Allows(c, a, i.n, "r") THEN RdFault(c, a)
        ELSE IF OK(s) THEN NextInsn(WriteX(s, i.rs, old, 8)) ELSE [s EXCEPT !.addr = a]
CasPair(c, i) ==
    LET a == ReadSp(c, i.rn, 8)
        n == i.n
        same == Val(c, a, n) = ReadX(c, i.rs, n) /\ Val(c, a + n, n) = ReadX(c, i.rs + 1, n)
        s == IF same
             THEN PutBytes(c, a, 2 * n, [b \in 0 .. 2 * n - 1 |->
                      IF b < n THEN Byte(ReadX(c, i.rt, 8), b) ELSE Byte(ReadX(c, i.rt + 1, 8), b - n)])
             ELSE c
    IN  IF CrossesGranule(a, 2 * n) THEN Misaligned(c, a, ~i.load)
        ELSE IF ~Allows(c, a, n, "r") THEN RdFault(c, a)
        ELSE IF ~Allows(c, a + n, n, "r") THEN RdFault(c, a + n)
        ELSE IF OK(s) THEN NextInsn(WriteX(WriteX(s, i.rs, Val(c, a, n), 8), i.rs + 1, Val(c, a + n, n), 8))
        ELSE s

AtomicResult(x, old, s, n) ==
    CASE x = "swp"  -> s
      [] x = "add"  -> MaskW(old + s, n)
      [] x = "clr"  -> old & NotW(s, n)
      [] x = "eor"  -> old ^^ s
      [] x = "set"  -> old | s
      [] x = "smax" -> IF SignExtendW(old, n) >= SignExtendW(s, n) THEN old ELSE s
      [] x = "smin" -> IF SignExtendW(old, n) <= SignExtendW(s, n) THEN old ELSE s
      [] x = "umax" -> IF old >= s THEN old ELSE s
      [] x = "umin" -> IF old <= s THEN old ELSE s
\* LDADD.. and SWP.
LdOp(c, i) ==
    LET a == ReadSp(c, i.rn, 8)
        old == Val(c, a, i.n)
        s == StoreVal(c, a, i.n, AtomicResult(i.x, old, ReadX(c, i.rs, i.n), i.n))
    IN  IF CrossesGranule(a, i.n) THEN Misaligned(c, a, TRUE)
        ELSE IF ~Allows(c, a, i.n, "r") THEN RdFault(c, a)
        ELSE IF OK(s) THEN NextInsn(WriteX(s, i.rt, old, 8)) ELSE [s EXCEPT !.addr = a]

(***************************************************************************)
(* Structure loads and stores (LD1..LD4, ST1..ST4).                        *)
(***************************************************************************)

\* Byte off of the structures in memory is this byte of this register.
Spread(i, off) ==
    LET per == i.reg * i.selem
        r   == off \div per
        e   == (off % per) \div (i.eb * i.selem)
        s   == ((off % per) % (i.eb * i.selem)) \div i.eb
    IN  [reg |-> (i.rt + r + s) % VRegs, byte |-> e * i.eb + (off % i.eb)]

MultiStruct(c, i, a) ==
    LET total == i.rpt * i.selem * i.reg
        at(o) == Spread(i, o)
        loaded == { (i.rt + r) % VRegs : r \in 0 .. i.rpt * i.selem - 1 }
    IN  IF ~i.load
        THEN PutBytes(c, a, total, [o \in 0 .. total - 1 |-> c.v[at(o).reg][at(o).byte]])
        ELSE IF ~Allows(c, a, total, "r") THEN RdFault(c, a)
        ELSE [c EXCEPT !.v = [r \in DOMAIN c.v |->
                 IF r \notin loaded THEN c.v[r]
                 ELSE [b \in 0 .. VBytes - 1 |->
                          IF b >= i.reg THEN 0
                          ELSE c.m[a + CHOOSE o \in 0 .. total - 1 : at(o) = [reg |-> r, byte |-> b]]]]]

\* One lane of selem registers, or every lane of each (LDnR).
SingleStruct(c, i, a) ==
    LET total == i.eb * i.selem
        regs == [ s \in 0 .. i.selem - 1 |-> (i.rt + s) % VRegs ]
        put(v, s) == [b \in 0 .. VBytes - 1 |->
            IF i.all THEN IF b < i.reg THEN c.m[a + s * i.eb + (b % i.eb)] ELSE 0
            ELSE IF b \div i.eb = i.index THEN c.m[a + s * i.eb + (b % i.eb)] ELSE v[b]]
    IN  IF ~i.load
        THEN PutBytes(c, a, total, [o \in 0 .. total - 1 |->
                 c.v[regs[o \div i.eb]][i.index * i.eb + (o % i.eb)]])
        ELSE IF ~Allows(c, a, total, "r") THEN RdFault(c, a)
        ELSE [c EXCEPT !.v = [r \in DOMAIN c.v |->
                 IF \E s \in 0 .. i.selem - 1 : regs[s] = r
                 THEN put(c.v[r], CHOOSE s \in 0 .. i.selem - 1 : regs[s] = r) ELSE c.v[r]]]

SimdStruct(c, i) ==
    LET a == ReadSp(c, i.rn, 8)
        d == IF i.single THEN SingleStruct(c, i, a) ELSE MultiStruct(c, i, a)
        total == IF i.single THEN i.eb * i.selem ELSE i.rpt * i.selem * i.reg
    IN  NextInsn(CASE i.post = "none" -> d
                   [] i.post = "imm"  -> Writeback(d, i.rn, a + total)
                   [] OTHER           -> Writeback(d, i.rn, a + ReadX(c, i.rm, 8)))

(***************************************************************************)
(* The run loop.                                                           *)
(***************************************************************************)

\* An unaligned SP as the base of an access is refused before it.
SpChecked(i) == i.op \in {"single", "pair", "ldxr", "stxr", "ldxp", "stxp", "ordered", "cas",
                          "casp", "ldop", "struct"} /\ i.rn = ZR

Exec(c, i) ==
    CASE SpChecked(i) /\ c.sp % Granule # 0 -> Misaligned(c, c.sp, FALSE)
      [] i.op = "adr"     -> Adr(c, i)
      [] i.op = "addi"    -> AddSubImm(c, i)
      [] i.op = "logi"    -> LogicalImm(c, i)
      [] i.op = "movw"    -> MovWide(c, i)
      [] i.op = "bfm"     -> Bitfield(c, i)
      [] i.op = "extr"    -> Extr(c, i)
      [] i.op = "logr"    -> LogicalReg(c, i)
      [] i.op = "addr"    -> AddSubShifted(c, i)
      [] i.op = "adde"    -> AddSubExtended(c, i)
      [] i.op = "adc"     -> AdcSbc(c, i)
      [] i.op = "ccmp"    -> Ccmp(c, i)
      [] i.op = "csel"    -> Csel(c, i)
      [] i.op = "one"     -> OneSource(c, i)
      [] i.op = "two"     -> TwoSource(c, i)
      [] i.op = "three"   -> ThreeSource(c, i)
      [] i.op = "flagm"   -> Flagm(c, i)
      [] i.op = "b"       -> BranchTo(c, i)
      [] i.op = "bif"     -> BranchIf(c, i)
      [] i.op = "br"      -> BranchReg(c, i)
      [] i.op = "svc"     -> Svc(c, i)
      [] i.op = "brk"     -> Brk(c, i)
      [] i.op = "system"  -> SystemInsn(c, i)
      [] i.op = "sys"     -> SysInsn(c, i)
      [] i.op = "single"  -> ExecSingle(c, i)
      [] i.op = "literal" -> ExecLiteral(c, i)
      [] i.op = "pair"    -> ExecPair(c, i)
      [] i.op = "ldxr"    -> LoadExclusive(c, i)
      [] i.op = "stxr"    -> StoreExclusive(c, i)
      [] i.op = "ldxp"    -> LoadExclusivePair(c, i)
      [] i.op = "stxp"    -> StoreExclusivePair(c, i)
      [] i.op = "ordered" -> Ordered(c, i)
      [] i.op = "cas"     -> CasSingle(c, i)
      [] i.op = "casp"    -> CasPair(c, i)
      [] i.op = "ldop"    -> LdOp(c, i)
      [] i.op = "struct"  -> SimdStruct(c, i)
      [] OTHER            -> Trap(c, "illegal")

\* Entering run(): the monitor and the cache are cleared, since another
\* thread of the address space may have run since.
Enters(c) == [ClearFetch(c) EXCEPT !.out = "ok", !.mon = FALSE]
\* SetSyscallRet: the result in X0, past the SVC.
SetSyscallRet(c, v) == NextInsn([WriteX(c, 0, v, 8) EXCEPT !.out = "ok"])

=============================================================================
