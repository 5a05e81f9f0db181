------------------------------ MODULE MCInterp -------------------------------
(***************************************************************************)
(* Guest programs for Interp, with bytes of two bits (a quadword has 16)   *)
(* and pages of 8 bytes.  x86 instructions are one byte long unless said   *)
(* otherwise, AArch64's four.                                              *)
(***************************************************************************)
EXTENDS Interp, TLC

\* Formats of 4, 8, 16 and 20 bits.
MCFmt16 == [bits |-> 4, prec |-> 2, emax |-> 1]
MCFmt32 == [bits |-> 8, prec |-> 5, emax |-> 3]
MCFmt64 == [bits |-> 16, prec |-> 11, emax |-> 15]
MCExt == [bits |-> 20, prec |-> 13, emax |-> 31]

Cells == 0 .. 63
Pages == { 8 * n : n \in 0 .. 7 }
Rwx == {"r", "w", "x"}

\* Memory with some contents, and the programs laid out in it.
Ramp == [x \in Cells |-> (x + x \div 5) % 4]
Blank == [x \in Cells |-> 0]
Bytes(v) == [b \in 0 .. 3 |-> v]
ProgX(s) == [ip \in 0 .. Len(s) - 1 |-> Bytes(s[ip + 1])]
ProgA(s) == [ip \in { 4 * n : n \in 0 .. Len(s) - 1 } |-> Bytes(s[ip \div 4 + 1])]

(***************************************************************************)
(* x86.                                                                    *)
(***************************************************************************)

NoFlags == [cf |-> FALSE, pf |-> FALSE, af |-> FALSE, zf |-> FALSE, sf |-> FALSE, of |-> FALSE]
R(n) == [k |-> "reg", r |-> n]
M(base, disp) == [k |-> "mem", base |-> base, index |-> -1, scale |-> 0, disp |-> disp]
Nop == [op |-> "hint", w |-> 8, rm |-> R(0), rg |-> R(0), imm |-> 0, len |-> 1, lock |-> FALSE,
        rep |-> 0, a32 |-> FALSE, seg |-> 0, todst |-> FALSE, x |-> "", x2 |-> ""]
Op(op, x, w, rm, rg) == [Nop EXCEPT !.op = op, !.x = x, !.w = w, !.rm = rm, !.rg = rg]
Imm(i, v) == [i EXCEPT !.imm = v]
XCpu(k, p) ==
    [k |-> k, p |-> p, g |-> [r \in (0 .. 7) \cup {11} |-> 0], f |-> NoFlags, df |-> FALSE,
     nt |-> FALSE, ip |-> 0, m |-> Blank, prot |-> [q \in Pages |-> Rwx],
     full |-> [q \in Pages |-> Rwx], cp |-> NoPage, code |-> <<>>, out |-> "ok", addr |-> 0,
     write |-> FALSE, tsc |-> 0,
     x |-> [x87 |-> 2, mxcsr |-> 1, sse |-> 3, avx |-> 2, bv |-> {}]]
\* One thread, started with a in RAX and b in RBX.
With(d, a, b) == [d EXCEPT !.g[0] = a, !.g[3] = b]
Shutting(d, q, prot) == [d EXCEPT !.prot[q] = prot]
One(isa, cpus, end, goal) ==
    [isa |-> isa, cpus |-> { <<d>> : d \in cpus }, ends |-> <<end>>, slices |-> FALSE, goal |-> goal]

OrderP == {[w |-> 2]}
OrderT == [p \in OrderP |-> ProgX(<< Op("alu", "cmp", p.w, R(0), R(3)) >>)]
OrderC == One("x86", { With(XCpu("order", p), a, b) : p \in OrderP, a \in 0 .. 15, b \in 0 .. 15 }, 1, "order")

\* ADD/ADC and SUB/SBB over RDX:RAX and RCX:RBX.
WideP == { [w |-> 1, x |-> x] : x \in {"add", "sub"} }
WideT == [p \in WideP |-> ProgX(<<
    Op("alu", p.x, 1, R(0), R(3)),
    Op("alu", IF p.x = "add" THEN "adc" ELSE "sbb", 1, R(2), R(1)) >>)]
WideC == One("x86", { [With(XCpu("wide", p), a, b) EXCEPT !.g[2] = d, !.g[1] = e] :
                      p \in WideP, a \in 0 .. 3, b \in 0 .. 3, d \in 0 .. 3, e \in 0 .. 3 }, 2, "wide")

MulP == { [w |-> 2, x |-> x] : x \in {"mul", "imul"} }
MulT == [p \in MulP |-> ProgX(<<
    Op("group3", p.x, p.w, R(3), R(0)),
    Op("group3", IF p.x = "mul" THEN "div" ELSE "idiv", p.w, R(3), R(0)) >>)]
MulC == One("x86", { With(XCpu("muldiv", p), a, b) : p \in MulP, a \in 0 .. 15, b \in 0 .. 15 }, 2, "muldiv")

\* CWD, DIV, IMUL back and ADD the remainder.
DivP == { [w |-> 2, x |-> x] : x \in {"div", "idiv"} }
DivT == [p \in DivP |-> ProgX(<<
    IF p.x = "div" THEN Imm(Op("movimm", "", 2, R(2), R(0)), 0) ELSE Op("widen", "cwd", 2, R(0), R(0)),
    Op("group3", p.x, p.w, R(3), R(0)),
    Op("imul", "", p.w, R(3), R(0)),
    Op("alu", "add", p.w, R(0), R(2)) >>)]
DivC == One("x86", { With(XCpu("divmod", p), a, b) : p \in DivP, a \in 0 .. 15, b \in 0 .. 15 }, 4, "divmod")

RotateP == { [w |-> w, x |-> x, n |-> n] : w \in {1, 2}, x \in {"rol", "rcl"}, n \in 0 .. 7 }
RotateT == [p \in RotateP |-> ProgX(<<
    Imm(Op("shift", p.x, p.w, R(0), R(0)), p.n),
    Imm(Op("shift", IF p.x = "rol" THEN "ror" ELSE "rcr", p.w, R(0), R(0)), p.n) >>)]
RotateC == One("x86", { [With(XCpu("rotate", p), a, 0) EXCEPT !.f.cf = cf] :
                        p \in RotateP, a \in {0, 1, 2, 6, 11}, cf \in BOOLEAN }, 2, "rotate")

ShiftP == { [w |-> 2, x |-> x, n |-> n] : x \in {"shl", "shr", "sar"}, n \in 0 .. 7 }
ShiftT == [p \in ShiftP |-> ProgX(<< [Op("shift", p.x, p.w, R(0), R(0)) EXCEPT !.imm = p.n] >>)]
ShiftC == One("x86", { With(XCpu("shift", p), a, 0) : p \in ShiftP, a \in 0 .. 15 }, 1, "shift")

ShiftdP == { [w |-> w, x |-> x, n |-> n] : w \in {2, 4}, x \in {"shld", "shrd"}, n \in 0 .. 4 }
ShiftdT == [p \in ShiftdP |-> ProgX(<< Imm(Op("shiftd", p.x, p.w, R(0), R(3)), p.n) >>)]
ShiftdC == One("x86", { With(XCpu("shiftd", p), a, b) :
                        p \in ShiftdP, a \in {1, 6, 13}, b \in {3, 10, 12} }, 1, "shiftd")

\* A bit string around address 20; its word may be in a page still shut.
BitsP == { [w |-> 2, x |-> x, at |-> 24] : x \in {"bt", "bts", "btr", "btc"} }
BitsT == [p \in BitsP |-> ProgX(<< Op("bittest", p.x, p.w, M(5, 0), R(0)) >>)]
BitsC == One("x86", { [Shutting(With(XCpu("bits", p), a, 0), q, s) EXCEPT !.g[5] = 24, !.m = Ramp] :
                      p \in BitsP, a \in 0 .. 15, q \in {16, 24}, s \in {{}, {"r"}, Rwx} }, 1, "bits")

CountP == { [w |-> 2, x |-> x] : x \in {"bsf", "bsr", "tzcnt", "lzcnt", "popcnt"} }
CountT == [p \in CountP |-> ProgX(<< Op("bitcount", p.x, p.w, R(0), R(3)) >>)]
CountC == One("x86", { With(XCpu("count", p), a, 0) : p \in CountP, a \in 0 .. 15 }, 1, "count")

\* MOVBE to memory, MOV back and BSWAP.
SwapP == {[w |-> 4]}
SwapT == [p \in SwapP |-> ProgX(<<
    Op("movbe", "store", p.w, M(5, 0), R(0)),
    [Op("mov", "", p.w, M(5, 0), R(3)) EXCEPT !.todst = TRUE],
    Op("bswap", "", p.w, R(0), R(3)) >>)]
SwapC == One("x86", { [Shutting(With(XCpu("swap", p), a, 0), 16, s) EXCEPT !.g[5] = at] :
                      p \in SwapP, a \in {27, 228}, at \in {16, 22}, s \in {{}, {"r"}} }, 3, "same")

\* REP MOVS, forwards and backwards, over itself and over pages still shut.
CopyP == { [w |-> w, df |-> df] : w \in {1, 2}, df \in BOOLEAN }
CopyT == [p \in CopyP |-> ProgX(<<
    Op("flag", IF p.df THEN "std" ELSE "cld", 8, R(0), R(0)),
    [Op("string", "movs", p.w, R(0), R(0)) EXCEPT !.rep = 1] >>)]
CopyC == One("x86", { [Shutting(Shutting(XCpu("copy", p), 16, s1), 24, s2) EXCEPT
                         !.m = Ramp, !.g[1] = n, !.g[6] = si, !.g[7] = di] :
                      p \in CopyP, n \in {0, 3, 6}, si \in {19, 21}, di \in {20, 22, 31},
                      s1 \in {{"r"}, Rwx}, s2 \in {{}, Rwx} }, 2, "copied")

\* REPNE/REPE SCASB.
ScanP == { [w |-> 1, eq |-> e] : e \in BOOLEAN }
ScanT == [p \in ScanP |-> ProgX(<<
    [Op("string", "scas", 1, R(0), R(0)) EXCEPT !.rep = IF p.eq THEN 1 ELSE 2] >>)]
ScanC == One("x86", { [Shutting(With(XCpu("scan", p), a, 0), 24, s) EXCEPT
                         !.m = Ramp, !.g[1] = n, !.g[7] = di] :
                      p \in ScanP, a \in 0 .. 3, n \in {1, 4}, di \in 21 .. 25, s \in {{}, Rwx} }, 1, "found")

\* A frame on a stack whose pages are opened one by one.
FrameP == { [w |-> 8, n |-> n] : n \in 0 .. 2 }
FrameT == [p \in FrameP |-> ProgX(<<
    [Op("push", "reg", 8, R(0), R(0)) EXCEPT !.rg = R(0)],
    Imm(Op("enter", p.n, 8, R(0), R(0)), 2),
    Imm(Op("call", "", 8, R(0), R(0)), 2),
    Op("leave", "", 8, R(0), R(0)),
    Imm(Op("jmp", "", 8, R(0), R(0)), 1),
    Op("ret", "", 8, R(0), R(0)),
    Op("poprm", "", 8, R(3), R(0)) >>)]
FrameC == One("x86", { [With(XCpu("frame", p), 9, 0) EXCEPT
                          !.g[4] = 64, !.g[5] = 64,
                          !.prot = [q \in Pages |-> IF q \in S1 THEN {} ELSE Rwx]] :
                       p \in FrameP, S1 \in {{56}, {24, 40}, {32, 48, 56}} }, 7, "balanced")

\* Read-modify-writes of memory that is shut or read-only, within a page and
\* across two.
RmwInsns == {
    Op("xchg", "", 2, M(5, 0), R(0)), [Op("cmpxchg", "", 2, M(5, 0), R(3)) EXCEPT !.lock = TRUE],
    Op("group9", "", 4, M(5, 0), R(0)), Op("group5", "inc", 2, M(5, 0), R(0)),
    Op("group3", "neg", 2, M(5, 0), R(0)), Op("group3", "not", 2, M(5, 0), R(0)),
    Imm(Op("shift", "shl", 2, M(5, 0), R(0)), 1), [Op("alu", "add", 2, M(5, 0), R(0)) EXCEPT !.lock = TRUE],
    Imm(Op("group1", "xor", 2, M(5, 0), R(0)), 5), Imm(Op("shiftd", "shld", 2, M(5, 0), R(3)), 1),
    Op("poprm", "", 2, M(4, -9), R(0)), Op("group5", "push", 8, M(5, 0), R(0)),
    Op("group5", "call", 8, M(5, 0), R(0)), Op("setcc", "", 1, M(5, 0), R(0)),
    Op("xadd", "", 2, M(5, 0), R(0)), Op("alu", "adc", 2, M(5, 0), R(0)),
    Imm(Op("group1", "sbb", 2, M(5, 0), R(0)), 5), Imm(Op("shift", "rcr", 2, M(5, 0), R(0)), 1),
    Op("movnti", "", 4, M(5, 0), R(0)), [Op("movoffs", "", 2, R(0), R(0)) EXCEPT !.imm = 23],
    Op("xlat", "", 1, R(0), R(0)), Op("group15", "fxsave", 8, M(5, 1), R(0)) }
RmwP == { [w |-> 2, i |-> i] : i \in RmwInsns }
RmwT == [p \in RmwP |-> ProgX(<< p.i >>)]
RmwC == One("x86", { [Shutting(Shutting(With(XCpu("rmw", p), a, 22), 16, s1), 24, s2) EXCEPT
                        !.m = [x \in Cells |-> IF x = 23 THEN 1 ELSE IF x < 23 THEN Ramp[x] ELSE 0], !.g[5] = 23, !.g[4] = 30] :
                     p \in RmwP, a \in {0, 1}, s1 \in {{"r"}, Rwx}, s2 \in {{}, {"r"}, Rwx} }, 1, "any")

FlagsP == {[w |-> 8]}
FlagsT == [p \in FlagsP |-> ProgX(<<
    Op("push", "flags", 8, R(0), R(0)),
    Op("flag", "std", 8, R(0), R(0)), Op("flag", "cmc", 8, R(0), R(0)),
    Op("alu", "xor", 8, R(0), R(0)),
    Op("pop", "flags", 8, R(0), R(0)) >>)]
FlagsC == One("x86", { [Shutting(XCpu("flags", p), 40, s) EXCEPT
                          !.f = f, !.df = df, !.g[4] = 44] :
                       p \in FlagsP, df \in BOOLEAN, s \in {{}, {"r"}},
                       f \in [DOMAIN NoFlags -> BOOLEAN] }, 5, "flags")

\* XSAVE of some components, others loaded, XRSTOR of some.
Comps == {"x87", "sse", "avx"}
BvNum(S0) == Num("x87" \in S0) + 2 * Num("sse" \in S0) + 4 * Num("avx" \in S0)
XstateP == { [w |-> 8, save |-> s, restore |-> r, other |-> [x87 |-> 3, sse |-> 1, avx |-> 2]] :
             s \in SUBSET Comps, r \in SUBSET Comps }
XstateT == [p \in XstateP |-> ProgX(<<
    Op("group15", "xsave", 8, M(5, 0), R(0)),
    Op("group15", "fxrstor", 8, M(5, 12), R(0)),
    Imm(Op("movimm", "", 8, R(0), R(0)), BvNum(p.restore)),
    Op("group15", "xrstor", 8, M(5, 0), R(0)) >>)]
XstateC == One("x86", { [Shutting(XCpu("xstate", p), 24, s) EXCEPT
                           !.g[0] = BvNum(p.save), !.g[5] = 20,
                           !.m = [Blank EXCEPT ![32] = 3, ![33] = 2, ![34] = 1]] :
                        p \in XstateP, s \in {{"r"}, Rwx} }, 4, "xstate")

\* ADD and LOOP.
SumP == {[w |-> 8]}
SumT == [p \in SumP |-> ProgX(<<
    Imm(Op("loop", "jrcxz", 8, R(0), R(0)), 2),
    Op("alu", "add", 8, R(0), R(1)),
    Imm(Op("loop", "loop", 8, R(0), R(0)), -2) >>)]
SumC == One("x86", { [XCpu("sum", p) EXCEPT !.g[1] = n] : p \in SumP, n \in 0 .. 5 }, 3, "sum")

LeastP == {[w |-> 2]}
LeastT == [p \in LeastP |-> ProgX(<<
    Op("alu", "cmp", 2, R(0), R(3)),
    Imm(Op("setcc", "", 1, R(2), R(0)), 15),
    Imm(Op("cmov", "", 2, R(3), R(0)), 15) >>)]
LeastC == One("x86", { With(XCpu("least", p), a, b) : p \in LeastP, a \in 0 .. 15, b \in 0 .. 15 }, 3, "least")

\* MOVSX, MOVZX, and MOVZX of MOVSX's bytes in memory.
WidenP == {[w |-> 2]}
WidenT == [p \in WidenP |-> ProgX(<<
    Imm(Op("movx", "sign", 8, R(0), R(3)), 2),
    Op("mov", "", 8, M(5, 0), R(3)),
    Imm(Op("movx", "zero", 8, M(5, 0), R(1)), 2),
    Op("lea", "", 8, M(3, 1), R(2)) >>)]
WidenC == One("x86", { [Shutting(With(XCpu("widen", p), a, 0), 24, {}) EXCEPT !.g[5] = 20] :
                       p \in WidenP, a \in 0 .. 15 }, 4, "widen")

\* The byte stored selects the instruction two further on, the last of the
\* page the interpreter holds a copy of, or the first of the next.
CodeP == { [w |-> 1, at |-> at, n |-> n] : at \in {4, 7, 8}, n \in {1, 2} }
CodeT == [p \in CodeP |->
    [ip \in 0 .. 8 |-> IF ip = p.at THEN [b \in 0 .. 3 |-> Imm(Op("movimm", "", 8, R(3), R(0)), 1 + b)]
                       ELSE Bytes(IF ip = 2 THEN Op("mov", "", p.n, M(5, 0), R(0)) ELSE Nop)]]
SelfC == One("x86", { [With(XCpu("self", p), a, 0) EXCEPT !.g[5] = p.at] : p \in CodeP, a \in 0 .. 3 }, 9, "code")

CallP == {[w |-> 8]}
CallT == [p \in CallP |-> ProgX(<< Op("syscall", "", 8, R(0), R(0)), Op("rdtsc", "", 8, R(0), R(0)) >>)]
CallC == One("x86", { XCpu("call", p) : p \in CallP }, 1, "call")

XText == [order |-> OrderT, wide |-> WideT, muldiv |-> MulT, divmod |-> DivT, rotate |-> RotateT,
          shift |-> ShiftT, shiftd |-> ShiftdT, bits |-> BitsT, count |-> CountT, swap |-> SwapT,
          copy |-> CopyT, scan |-> ScanT, frame |-> FrameT, rmw |-> RmwT, flags |-> FlagsT,
          xstate |-> XstateT, sum |-> SumT, least |-> LeastT, widen |-> WidenT, self |-> CodeT,
          call |-> CallT]
XCases == [order |-> OrderC, wide |-> WideC, muldiv |-> MulC, divmod |-> DivC, rotate |-> RotateC,
           shift |-> ShiftC, shiftd |-> ShiftdC, bits |-> BitsC, count |-> CountC, swap |-> SwapC,
           copy |-> CopyC, scan |-> ScanC, frame |-> FrameC, rmw |-> RmwC, flags |-> FlagsC,
           xstate |-> XstateC, sum |-> SumC, least |-> LeastC, widen |-> WidenC, self |-> SelfC,
           call |-> CallC]
(***************************************************************************)
(* AArch64.                                                                *)
(***************************************************************************)

Nzcv0 == [n |-> FALSE, z |-> FALSE, c |-> FALSE, v |-> FALSE]
Hint == [op |-> "system", x |-> "nop"]
ACpu(k, p) ==
    [k |-> k, p |-> p, g |-> [r \in (0 .. 7) \cup {30} |-> 0], sp |-> 64, ip |-> 0,
     f |-> Nzcv0, v |-> [r \in 0 .. 3 |-> [b \in 0 .. 15 |-> r]],
     fpcr |-> [rm |-> "even", fz |-> FALSE, fz16 |-> FALSE, dn |-> FALSE, ahp |-> FALSE], fpsr |-> {}, mon |-> FALSE, maddr |-> 0,
     tag |-> [y \in 0 .. 1 |-> NoPage], copy |-> [y \in 0 .. 1 |-> <<>>], m |-> Blank,
     prot |-> [q \in Pages |-> Rwx], full |-> [q \in Pages |-> Rwx], out |-> "ok", addr |-> 0,
     write |-> FALSE, cnt |-> 0]
Regs(d, a, b) == [d EXCEPT !.g[0] = a, !.g[1] = b]
Edge == {0, 1, 127, 128, 254, 255}

AddR(rd, rn, rm, sub, s, w) ==
    [op |-> "addr", rd |-> rd, rn |-> rn, rm |-> rm, sh |-> "lsl", amt |-> 0, sub |-> sub, s |-> s, w |-> w]
AddI(rd, rn, imm, sub, s, w) ==
    [op |-> "addi", rd |-> rd, rn |-> rn, imm |-> imm, sub |-> sub, s |-> s, w |-> w]
Adc(rd, rn, rm, sub, w) == [op |-> "adc", rd |-> rd, rn |-> rn, rm |-> rm, sub |-> sub, s |-> TRUE, w |-> w]
Un(x, rd, rn, w) == [op |-> "one", x |-> x, rd |-> rd, rn |-> rn, w |-> w]
Sel(x, rd, rn, rm, cond, w) == [op |-> "csel", x |-> x, rd |-> rd, rn |-> rn, rm |-> rm, cond |-> cond, w |-> w]
Movz(rd, v) == [op |-> "movw", x |-> "movz", rd |-> rd, imm |-> v, hw |-> 0, w |-> 8]
Cbnz(rt, imm) == [op |-> "bif", x |-> "zero", rt |-> rt, neg |-> TRUE, imm |-> imm, w |-> 8]
Mem(x, mode, rt, rn, imm, n) ==
    [op |-> "single", x |-> x, mode |-> mode, rt |-> rt, rn |-> rn, imm |-> imm, n |-> n, w |-> 8,
     sx |-> FALSE, load |-> x = "load", rm |-> 31, from |-> 8, signed |-> FALSE, amt |-> 0]
PairOf(load, mode, rt, rt2, rn, imm, n) ==
    [op |-> "pair", load |-> load, mode |-> mode, rt |-> rt, rt2 |-> rt2, rn |-> rn, imm |-> imm,
     n |-> n, vec |-> FALSE, sx |-> FALSE]

AOrderP == { [w |-> 4, x |-> x] : x \in {"cmp", "ext"} }
AOrderT == [p \in AOrderP |-> ProgA(<<
    IF p.x = "cmp" THEN AddR(31, 0, 1, TRUE, TRUE, 4)
    ELSE [op |-> "adde", rd |-> 31, rn |-> 0, rm |-> 1, from |-> 4, signed |-> TRUE, amt |-> 0,
          sub |-> TRUE, s |-> TRUE, w |-> 4] >>)]
AOrderC == One("a64", { Regs(ACpu("aorder", p), a, b) : p \in AOrderP, a \in Edge, b \in Edge }, 4, "order")

AWideP == { [w |-> 4, sub |-> x] : x \in BOOLEAN }
AWideT == [p \in AWideP |-> ProgA(<< AddR(0, 0, 2, p.sub, TRUE, 4), Adc(1, 1, 3, p.sub, 4) >>)]
AWideC == One("a64", { [Regs(ACpu("awide", p), a, b) EXCEPT !.g[2] = d, !.g[3] = e] :
                       p \in AWideP, a \in {0, 1, 255}, b \in {0, 128}, d \in {0, 1, 255}, e \in {0, 127, 255} },
               8, "wide")

FieldP == { [w |-> 4, x |-> x, immr |-> r, imms |-> s] : x \in {"sbfm", "bfm", "ubfm"}, r \in 0 .. 7, s \in 0 .. 7 }
FieldT == [p \in FieldP |-> ProgA(<<
    [op |-> "bfm", x |-> p.x, rd |-> 2, rn |-> 0, immr |-> p.immr, imms |-> p.imms, w |-> 4] >>)]
FieldC == One("a64", { [Regs(ACpu("field", p), a, 0) EXCEPT !.g[2] = d] :
                       p \in FieldP, a \in {90, 178}, d \in {0, 109} }, 4, "moved")

PatternP == { [w |-> 8, n |-> n, immr |-> r, imms |-> s] : n \in 0 .. 1, r \in 0 .. 15, s \in 0 .. 15 }
PatternT == [p \in PatternP |-> ProgA(<<
    [op |-> "logi", x |-> "orr", rd |-> 2, rn |-> 31, n |-> p.n, immr |-> p.immr, imms |-> p.imms,
     s |-> FALSE, w |-> 8] >>)]
PatternC == One("a64", { ACpu("pattern", p) : p \in PatternP }, 4, "pattern")

\* UDIV or SDIV, and MSUB for the remainder.
ADivP == { [w |-> 4, x |-> x] : x \in {"udiv", "sdiv"} }
ADivT == [p \in ADivP |-> ProgA(<<
    [op |-> "two", x |-> p.x, rd |-> 2, rn |-> 0, rm |-> 1, w |-> 4],
    [op |-> "three", x |-> "madd", rd |-> 3, rn |-> 2, rm |-> 1, ra |-> 0, sub |-> TRUE, w |-> 4] >>)]
ADivC == One("a64", { Regs(ACpu("adiv", p), a, b) : p \in ADivP, a \in Edge \cup {100}, b \in Edge \cup {7, 249} },
             8, "divmod")

LowestP == {[w |-> 4], [w |-> 8]}
LowestT == [p \in LowestP |-> ProgA(<<
    Un("rbit", 1, 0, p.w), Un("clz", 2, 1, p.w), Un("rbit", 1, 1, p.w) >>)]
LowestC == One("a64", { Regs(ACpu("lowest", p), a, 0) : p \in LowestP, a \in {0, 1, 6, 40, 128} }, 12, "lowest")
SignsT == [p \in LowestP |-> ProgA(<< Un("cls", 2, 0, p.w) >>)]
SignsC == One("a64", { Regs(ACpu("signs", p), a, 0) : p \in LowestP, a \in {0, 1, 255, 200, 65535, 65000} }, 4, "signs")
SwappedP == { [w |-> 8, n |-> n, x |-> x] : n \in {2}, x \in {"rev16"} } \cup
            { [w |-> 8, n |-> 4, x |-> "rev32"], [w |-> 8, n |-> 8, x |-> "rev"], [w |-> 4, n |-> 4, x |-> "rev"] }
SwappedT == [p \in SwappedP |-> ProgA(<< Un(p.x, 2, 0, p.w) >>)]
SwappedC == One("a64", { Regs(ACpu("swapped", p), a, 0) : p \in SwappedP, a \in {27, 6948} }, 4, "swapped")
RotatedP == { [w |-> w, n |-> n] : w \in {4, 8}, n \in 0 .. 7 }
RotatedT == [p \in RotatedP |-> ProgA(<< [op |-> "extr", rd |-> 2, rn |-> 0, rm |-> 0, imm |-> p.n, w |-> p.w] >>)]
RotatedC == One("a64", { Regs(ACpu("rotated", p), a, 0) : p \in RotatedP, a \in {90, 177} }, 4, "rotated")

\* CMP and CNEG: the absolute value.
AbsP == {[w |-> 4]}
AbsT == [p \in AbsP |-> ProgA(<< AddI(31, 0, 0, TRUE, TRUE, 4), Sel("csneg", 2, 0, 0, 10, 4) >>)]
AbsC == One("a64", { Regs(ACpu("abs", p), a, 0) : p \in AbsP, a \in Edge }, 8, "abs")
\* a = 3 and b > -2, with CCMN and CSET.
BothT == [p \in AbsP |-> ProgA(<<
    AddI(31, 0, 3, TRUE, TRUE, 4),
    [op |-> "ccmp", useimm |-> TRUE, imm |-> 2, rm |-> 31, rn |-> 1, sub |-> FALSE, cond |-> 0, nzcv |-> 8, w |-> 4],
    Sel("csinc", 2, 31, 31, 13, 4) >>)]
BothC == One("a64", { Regs(ACpu("both", p), a, b) : p \in AbsP, a \in {2, 3}, b \in {0, 1, 127, 128, 253, 254, 255} },
             12, "both")

\* STP and LDP on a stack whose pages are opened one by one.
StackP == {[w |-> 8]}
StackT == [p \in StackP |-> ProgA(<<
    PairOf(FALSE, "pre", 0, 1, 31, -16, 8),
    Mem("store", "pre", 1, 31, -16, 8),
    Mem("load", "post", 4, 31, 16, 8),
    PairOf(TRUE, "post", 2, 3, 31, 16, 8) >>)]
StackC == One("a64", { [Regs(ACpu("stack", p), 700, 9) EXCEPT
                          !.prot = [q \in Pages |-> IF q \in S1 THEN s ELSE Rwx]] :
                       p \in StackP, S1 \in {{56}, {48}, {32, 48, 56}}, s \in {{}, {"r"}} }, 16, "balanced")

\* LDn to registers and STn to another place.
SpreadP == { [w |-> 8, selem |-> e, eb |-> b, reg |-> r, at |-> 33, to |-> 46, total |-> e * r, rt |-> t] :
             e \in 1 .. 4, b \in {1, 2}, r \in {2, 4}, t \in {0, 2} }
Struct(p, load, rn) ==
    [op |-> "struct", single |-> FALSE, load |-> load, rpt |-> 1, selem |-> p.selem, eb |-> p.eb,
     reg |-> p.reg, rt |-> p.rt, rn |-> rn, post |-> "imm", rm |-> 31]
SpreadT == [p \in SpreadP |-> ProgA(<< Struct(p, TRUE, 1), Struct(p, FALSE, 3) >>)]
SpreadC == One("a64", { [Shutting(Shutting(ACpu("spread", p), 32, s1), 48, s2) EXCEPT
                           !.g[1] = p.at, !.g[3] = p.to, !.m = Ramp] :
                        p \in SpreadP, s1 \in {{}, Rwx}, s2 \in {{"r"}, Rwx} }, 8, "spread")
LanesP == { [w |-> 8, selem |-> e, eb |-> b, index |-> x, all |-> r, at |-> 33] :
            e \in {1, 2}, b \in {1, 2}, x \in 0 .. 1, r \in BOOLEAN }
LanesT == [p \in LanesP |-> ProgA(<<
    [op |-> "struct", single |-> TRUE, load |-> TRUE, selem |-> p.selem, eb |-> p.eb, reg |-> 16, rt |-> 0,
     rn |-> 1, post |-> "none", rm |-> 31, index |-> p.index, all |-> p.all] >>)]
LanesC == One("a64", { [ACpu("lanes", p) EXCEPT !.g[1] = p.at, !.m = Ramp] : p \in LanesP }, 4, "lanes")

\* The instruction at 8, of the second page, is run, changed by a store that
\* begins in the first page, and run again; the CPU holds copies of both.
ACodeP == { [w |-> 1, n |-> n] : n \in {1, 2} }
ACodeT == [p \in ACodeP |->
    [ip \in { 4 * j : j \in 0 .. 5 } |->
        CASE ip = 0  -> Bytes([op |-> "b", link |-> FALSE, imm |-> 8])
          [] ip = 4  -> Bytes(Mem("store", "off", 0, 1, 0, p.n))
          [] ip = 8  -> [b \in 0 .. 3 |-> Movz(2, 1 + b)]
          [] ip = 12 -> Bytes([op |-> "bif", x |-> "bit", rt |-> 3, bit |-> 0, neg |-> TRUE, imm |-> 12])
          [] ip = 16 -> Bytes(Movz(3, 1))
          [] ip = 20 -> Bytes([op |-> "b", link |-> FALSE, imm |-> -16])]]
ACodeC == One("a64", { Regs(ACpu("acode", p), a * 4 ^ (p.n - 1), 9 - p.n) :
                       p \in ACodeP, a \in 0 .. 3 }, 24, "recode")
ZeroP == {[w |-> 8]}
ZeroT == [p \in ZeroP |-> ProgA(<< [op |-> "sys", x |-> "zva", rt |-> 1] >>)]
ZeroC == One("a64", { [Shutting(ACpu("zero", p), 40, s) EXCEPT !.g[1] = 37, !.m = Ramp] :
                      p \in ZeroP, s \in {{}, Rwx} }, 4, "zeroed")

\* BL, BLR X30 and RET; ADR; SVC.
LinkP == {[w |-> 8, n |-> 16]}
LinkT == [p \in LinkP |-> ProgA(<<
    [op |-> "b", link |-> TRUE, imm |-> 12],
    [op |-> "logr", x |-> "orr", rd |-> 2, rn |-> 31, rm |-> 30, sh |-> "lsl", amt |-> 0, inv |-> FALSE, s |-> FALSE, w |-> 8],
    [op |-> "b", link |-> FALSE, imm |-> 8],
    [op |-> "br", link |-> TRUE, rn |-> 30],
    [op |-> "svc"] >>)]
LinkC == One("a64", { ACpu("link", p) : p \in LinkP }, 20, "linked")
BuiltP == { [w |-> 8, x |-> x, n |-> n] : x \in {"movz"}, n \in {46243} }
BuiltT == [p \in BuiltP |-> ProgA(<<
    Movz(2, 3), [Movz(2, 10) EXCEPT !.x = "movk", !.hw = 1], [Movz(2, 4) EXCEPT !.x = "movk", !.hw = 2],
    [Movz(2, 11) EXCEPT !.x = "movk", !.hw = 3] >>)]
BuiltC == One("a64", { ACpu("built", p) : p \in BuiltP }, 16, "built")
AFlagsT == [p \in ZeroP |-> ProgA(<<
    [op |-> "system", x |-> "mrs", rt |-> 0], AddI(31, 1, 1, TRUE, TRUE, 8),
    [op |-> "system", x |-> "msr", rt |-> 0], [op |-> "flagm", x |-> "cfinv", rn |-> 0, imm |-> 0, mask |-> 0, w |-> 1],
    [op |-> "flagm", x |-> "rmif", rn |-> 0, imm |-> 12, mask |-> 2, w |-> 1] >>)]
AFlagsC == One("a64", { [ACpu("aflags", p) EXCEPT !.f = v] : p \in ZeroP, v \in [DOMAIN Nzcv0 -> BOOLEAN] }, 20, "flags")

\* Two threads add one to the word X1 points at.
AtomicP == { [w |-> 2, x |-> x] : x \in {"excl", "exclp", "cas", "casp", "add"} }
Excl(op, rs, rt, rt2, n) ==
    [op |-> op, rs |-> rs, rt |-> rt, rt2 |-> rt2, rn |-> 1, n |-> n, load |-> op \in {"ldxr", "ldxp"}]
AtomicT == [p \in AtomicP |-> ProgA(
    CASE p.x = "excl" -> << Excl("ldxr", 31, 2, 31, 2), AddI(2, 2, 1, FALSE, FALSE, 8),
                            Excl("stxr", 3, 2, 31, 2), Cbnz(3, -12) >>
      [] p.x = "exclp" -> << Excl("ldxp", 31, 2, 4, 2), AddI(2, 2, 1, FALSE, FALSE, 8),
                             Excl("stxp", 3, 2, 4, 2), Cbnz(3, -12) >>
      [] p.x = "cas" -> << Mem("load", "off", 2, 1, 0, 2), AddI(4, 2, 1, FALSE, FALSE, 8),
                           AddI(3, 2, 0, FALSE, FALSE, 8), Excl("cas", 3, 4, 31, 2),
                           AddR(3, 3, 2, TRUE, FALSE, 2), Cbnz(3, -20) >>
      [] p.x = "casp" -> << PairOf(TRUE, "off", 2, 3, 1, 0, 2), AddI(6, 2, 1, FALSE, FALSE, 8),
                            AddI(4, 2, 0, FALSE, FALSE, 8), AddI(5, 3, 0, FALSE, FALSE, 8),
                            Excl("casp", 4, 6, 31, 2), AddR(4, 4, 2, TRUE, FALSE, 2), Cbnz(4, -24) >>
      [] p.x = "add" -> << [op |-> "ldop", x |-> "add", rs |-> 5, rt |-> 31, rn |-> 1, n |-> 2], Hint >>)]
AtomicEnd(p) == IF p.x = "add" THEN 8 ELSE IF p.x \in {"excl", "exclp"} THEN 16 ELSE IF p.x = "cas" THEN 24 ELSE 28
AtomicOf(x) ==
    LET p == [w |-> 2, x |-> x]
        d == [ACpu("atomic", p) EXCEPT !.g[1] = 42, !.g[5] = 1, !.m[42] = 3]
    IN  [isa |-> "a64", ends |-> [t \in 1 .. 2 |-> AtomicEnd(p)], slices |-> TRUE, goal |-> "counted",
         cpus |-> { [t \in 1 .. 2 |-> Shutting(d, 40, s)] : s \in {{"r"}, Rwx} }]

AText == [aorder |-> AOrderT, awide |-> AWideT, field |-> FieldT, pattern |-> PatternT, adiv |-> ADivT,
          lowest |-> LowestT, signs |-> SignsT, swapped |-> SwappedT, rotated |-> RotatedT, abs |-> AbsT,
          both |-> BothT, stack |-> StackT, spread |-> SpreadT, lanes |-> LanesT, acode |-> ACodeT,
          zero |-> ZeroT, link |-> LinkT, built |-> BuiltT, aflags |-> AFlagsT, atomic |-> AtomicT]
ACases == [aorder |-> AOrderC, awide |-> AWideC, field |-> FieldC, pattern |-> PatternC, adiv |-> ADivC,
           lowest |-> LowestC, signs |-> SignsC, swapped |-> SwappedC, rotated |-> RotatedC, abs |-> AbsC,
           both |-> BothC, stack |-> StackC, spread |-> SpreadC, lanes |-> LanesC, acode |-> ACodeC,
           zero |-> ZeroC, link |-> LinkC, built |-> BuiltC, aflags |-> AFlagsC,
           excl |-> AtomicOf("excl"), exclp |-> AtomicOf("exclp"), cas |-> AtomicOf("cas"),
           casp |-> AtomicOf("casp"), ldadd |-> AtomicOf("add")]

------------------------------------------------------------------------------
(***************************************************************************)
(* Floating-point and vector programs for Interp: singles of 8 bits (five  *)
(* of precision), doubles of 16, extended values of 20.                    *)
(***************************************************************************)

Modes == {"nearest", "down", "up", "zero"}
AllFlags == {"I", "D", "Z", "O", "U", "P"}
Mxcsr == [rc |-> "nearest", daz |-> FALSE, ftz |-> FALSE, mask |-> AllFlags, fl |-> {}]
Fpu0 == [st |-> [r \in 0 .. 7 |-> 0], top |-> 0, tag |-> {}, c0 |-> FALSE, c1 |-> FALSE, c2 |-> FALSE,
         c3 |-> FALSE, cw |-> 895, fl |-> {}]
\* The lanes of w bytes in a register of 16.
LanesOf(w, f) == [b \in 0 .. 15 |-> Byte(f[b \div w], b % w)]
ScalarOf(w, x) == [b \in 0 .. 15 |-> IF b < w THEN Byte(x, b) ELSE b % 4]
VCpu(k, p) ==
    XCpu(k, p) @@ [fp |-> Fpu0, v |-> [r \in 0 .. 3 |-> ScalarOf(1, 0)], hi |-> [r \in 0 .. 3 |-> [b \in 0 .. 15 |-> 0]],
                   mx |-> Mxcsr]
Sse(x, x2, w, rm, rg) ==
    [op |-> "sse", x |-> x, x2 |-> x2, w |-> w, rm |-> rm, rg |-> rg, mm |-> FALSE, f |-> MCFmt32, f2 |-> MCFmt64,
     lanes |-> 1, imm |-> 0, load |-> TRUE, al |-> FALSE, memonly |-> FALSE, high |-> FALSE, signed |-> FALSE,
     first |-> 0, from |-> 1, pairs |-> FALSE, trunc |-> FALSE, loud |-> FALSE, to |-> FALSE, index |-> FALSE,
     explicit |-> FALSE, len |-> 1, rep |-> 0, a32 |-> FALSE, seg |-> 0, vv |-> 0, l |-> FALSE, form |-> 213,
     negprod |-> FALSE, negadd |-> FALSE, iw |-> 4]
Vex(x, x2, w, rm, vv, rg) == [Sse(x, x2, w, rm, rg) EXCEPT !.op = "vex", !.vv = vv]

\* Singles: zeros, denormals, the least normal and its neighbours, one, ones
\* that need rounding, the largest, infinities, NaNs of both kinds.
Singles == {0, 1, 15, 16, 19, 43, 48, 49, 63, 74, 111, 112, 120, 113, 128 + 0, 128 + 1, 128 + 48, 128 + 55, 128 + 111, 128 + 112}
SingleAt(j) == <<0, 1, 15, 16, 19, 43, 48, 49, 63, 74, 111, 112, 120, 113, 128, 129, 176, 183, 239, 240>>[(j % 20) + 1]
Padded(n, s) == ProgX([j \in 1 .. n |-> IF j <= Len(s) THEN s[j] ELSE Nop])
\* All pairs of singles, eight lanes at a time.
Pairs(d, j) ==
    LET x(h) == LanesOf(4, [k \in 0 .. 3 |-> SingleAt(8 * j + 4 * h + k)])
        y(h) == LanesOf(4, [k \in 0 .. 3 |-> SingleAt((8 * j + 4 * h + k) \div 20)])
    IN  [d EXCEPT !.v[0] = x(0), !.hi[0] = x(1), !.v[1] = y(0), !.hi[1] = y(1)]
FpP == { [w |-> 4, x |-> x, f |-> MCFmt32, n |-> 1, pairs |-> FALSE] : x \in {"add", "sub", "mul", "div"} } \cup
       { [w |-> 4, x |-> x, f |-> MCFmt32, n |-> n, pairs |-> FALSE] : x \in {"add", "mul", "div", "sqrt", "addsub"}, n \in {8} } \cup
       { [w |-> 4, x |-> x, f |-> MCFmt32, n |-> 4, pairs |-> TRUE] : x \in {"add", "sub"} }
FpT == [p \in FpP |-> ProgX(<<
    IF p.n = 8 THEN [Vex("fp", p.x, 4, R(1), 0, R(0)) EXCEPT !.lanes = 4, !.l = TRUE]
    ELSE [Sse("fp", p.x, 4, R(1), R(0)) EXCEPT !.lanes = p.n, !.pairs = p.pairs] >>)]
FpC == One("x86",
    { [VCpu("fp", p) EXCEPT !.v[0] = ScalarOf(4, x), !.v[1] = ScalarOf(4, y), !.mx.rc = rc] :
      p \in { q \in FpP : q.n = 1 }, x \in {1, 19, 43, 63, 111, 183}, y \in {16, 49, 128, 112, 120}, rc \in Modes }, 1, "fp")
PackedC == One("x86",
    { [Pairs(VCpu("fp", p), j) EXCEPT !.mx.rc = rc] : p \in { q \in FpP : q.n = 8 }, j \in 0 .. 49, rc \in Modes }, 1, "fp")
PairedC == One("x86",
    { LET d == Pairs(VCpu("fp", p), j) IN [d EXCEPT !.hi = [r \in DOMAIN d.hi |-> [b \in 0 .. 15 |-> 0]]] :
      p \in { q \in FpP : q.n = 4 }, j \in 0 .. 24 }, 1, "fp")
UnmaskedC == One("x86",
    { [VCpu("fp", p) EXCEPT !.v[0] = ScalarOf(4, x), !.v[1] = ScalarOf(4, y), !.mx.mask = m, !.mx.daz = daz, !.mx.ftz = ftz] :
      p \in { q \in FpP : q.n = 1 }, x \in {1, 16, 43, 111, 113}, y \in {0, 19, 43}, daz \in BOOLEAN, ftz \in BOOLEAN,
      m \in {AllFlags, AllFlags \ {"U"}, AllFlags \ {"P"}, {"P", "D"}} }, 1, "fp")

FmaP == { [w |-> 4, f |-> MCFmt32, n |-> 8, form |-> f, negprod |-> a, negadd |-> b] :
          f \in {132, 213, 231}, a \in BOOLEAN, b \in BOOLEAN }
FmaT == [p \in FmaP |-> ProgX(<< [Vex("fma", "", 4, R(2), 1, R(0)) EXCEPT !.lanes = 4, !.l = TRUE, !.form = p.form,
                                     !.negprod = p.negprod, !.negadd = p.negadd] >>)]
FmaC == One("x86", { LET z(h) == LanesOf(4, [k \in 0 .. 3 |-> SingleAt(3 * j + 7 * h + 6 * k)])
                     IN  [Pairs(VCpu("fma", p), j) EXCEPT !.v[2] = z(0), !.hi[2] = z(1), !.mx.rc = rc] :
                     p \in { q \in FmaP : q.form = 213 \/ q.negprod # q.negadd }, j \in 0 .. 49, rc \in {"nearest", "down"} }, 1, "fma")
\* Widened to doubles, combined, narrowed: the same single.
ViaP == { [w |-> 4, x |-> x] : x \in {"add", "sub", "mul", "div"} }
ViaT == [p \in ViaP |-> ProgX(<<
    [Sse("fp", "cvt", 4, R(0), R(2)) EXCEPT !.f = MCFmt32, !.f2 = MCFmt64],
    [Sse("fp", "cvt", 4, R(1), R(3)) EXCEPT !.f = MCFmt32, !.f2 = MCFmt64],
    [Sse("fp", p.x, 8, R(3), R(2)) EXCEPT !.f = MCFmt64],
    [Sse("fp", "cvt", 8, R(2), R(0)) EXCEPT !.f = MCFmt64, !.f2 = MCFmt32] >>)]
ViaC == One("x86", { [VCpu("via", p) EXCEPT !.v[0] = ScalarOf(4, x), !.v[1] = ScalarOf(4, y), !.mx.rc = rc] :
                     p \in ViaP, x \in {16, 19, 43, 63, 111, 183}, y \in {16, 49, 63, 74, 176}, rc \in {"nearest", "up"} }, 4, "via")
CmpP == { [w |-> 4, imm |-> k] : k \in 0 .. 31 }
CmpT == [p \in CmpP |-> ProgX(<< [Vex("fp", "cmp", 4, R(1), 0, R(0)) EXCEPT !.lanes = 4, !.imm = p.imm] >>)]
CmpC == One("x86", { Pairs(VCpu("cmp", p), j) : p \in CmpP, j \in {3, 12, 24, 31, 33, 40, 47} }, 1, "compared")
HalvesP == { [w |-> 4, imm |-> k] : k \in {4} }
HalvesT == [p \in HalvesP |-> ProgX(<< [Vex("tohalf", "", 4, R(1), 0, R(0)) EXCEPT !.imm = p.imm],
                                       Vex("fromhalf", "", 4, R(1), 0, R(0)) >>)]
HalvesC == One("x86", { [Pairs(VCpu("halves", p), j) EXCEPT !.mx.rc = rc] : p \in HalvesP, j \in 0 .. 4, rc \in Modes }, 2, "halves")
DotP == { [w |-> 4, imm |-> k] : k \in {241, 245, 63, 83, 255} }
DotT == [p \in DotP |-> ProgX(<< [Sse("dpp", "", 4, R(1), R(0)) EXCEPT !.imm = p.imm] >>)]
DotC == One("x86", { [VCpu("dot", p) EXCEPT !.v[0] = LanesOf(4, [k \in 0 .. 3 |-> <<48, 64, 176, 0>>[((j + k) % 4) + 1]]),
                                            !.v[1] = LanesOf(4, [k \in 0 .. 3 |-> <<64, 176, 48, 72>>[k + 1]])] :
                     p \in DotP, j \in 0 .. 3 }, 1, "dot")

(***************************************************************************)
(* x87.                                                                    *)
(***************************************************************************)

Fpu(x, x2, fmt, rm) ==
    [op |-> "x87", x |-> x, x2 |-> x2, fmt |-> fmt, rm |-> rm, pop |-> FALSE, quiet |-> FALSE, trunc |-> FALSE,
     neg |-> FALSE, small |-> TRUE, len |-> 1, rep |-> 0, a32 |-> FALSE, seg |-> 0]
Popping(i) == [i EXCEPT !.pop = TRUE]
\* Operands at 18 and 22, the result at 30: the last two span pages.
Placed(d, x, y) ==
    [d EXCEPT !.m = [c \in DOMAIN d.m |-> IF c \in 18 .. 21 THEN Byte(x, c - 18)
                                          ELSE IF c \in 22 .. 25 THEN Byte(y, c - 22) ELSE d.m[c]]]
Rounding(d, k) == [d EXCEPT !.fp.cw = 895 + 1024 * k]
Numbers == { x \in Singles : x % 128 <= 112 }
At(p) == p @@ [w |-> 4, at |-> 18, with |-> 22, to |-> 30]
X87P == { At([x |-> x]) : x \in {"add", "sub", "mul", "div", "sqrt"} }
X87T == [p \in X87P |-> ProgX(<<
    Fpu("fld", 0, "f32", M(-1, IF p.x = "sqrt" THEN 22 ELSE 18)),
    IF p.x = "sqrt" THEN Fpu("fsqrt", 0, "", R(0)) ELSE Fpu("arith", p.x, "f32", M(-1, 22)),
    Popping(Fpu("fst", 0, "f32", M(-1, 30))) >>)]
X87C == One("x86", { Placed(Rounding(VCpu("x87", p), k), x, y) :
                     p \in X87P, x \in {1, 48, 128 + 55}, y \in Numbers, k \in 0 .. 3 }, 3, "x87")
X87SlowC == One("x86", { [Placed(VCpu("x87", p), x, 49) EXCEPT
                            !.prot = [q \in Pages |-> IF q \in S1 THEN s ELSE Rwx]] :
                         p \in X87P, x \in {1, 63}, S1 \in {{16}, {16, 24}, {32}, {16, 32}}, s \in {{}, {"r"}} }, 3, "x87")

FistP == { [w |-> w, at |-> 18, to |-> 30, trunc |-> t] : w \in {2, 4}, t \in BOOLEAN }
FistT == [p \in FistP |-> ProgX(<< Fpu("fld", 0, "f32", M(-1, 18)),
    [Popping(Fpu("fst", 0, IF p.w = 2 THEN "i16" ELSE "i32", M(-1, 30))) EXCEPT !.trunc = p.trunc] >>)]
FistC == One("x86", { Placed(Rounding(VCpu("fist", p), k), x, 0) :
                      p \in FistP, x \in Singles \cup {97, 98, 128 + 96, 128 + 97, 94, 40, 56}, k \in {3} } \cup
                    { Placed(Rounding(VCpu("fist", p), k), x, 0) :
                      p \in { q \in FistP : ~q.trunc }, x \in Singles \cup {97, 98, 128 + 96, 128 + 97, 94, 40, 56}, k \in 0 .. 2 },
             2, "integer")
\* Integers, packed decimals and the parts of a number, there and back.
FildP == { [w |-> w, at |-> 18, to |-> 30, x |-> x] : w \in {2, 4}, x \in {"int", "bcd", "parts", "double"} }
FildT == [p \in FildP |->
    LET i == IF p.x = "parts" THEN "f32" ELSE IF p.w = 2 THEN "i16" ELSE "i32"
    IN  ProgX(<< Fpu("fld", 0, i, M(-1, 18)),
                 CASE p.x = "int" -> Fpu("frndint", 0, "", R(0)) [] p.x = "bcd" -> Fpu("fbstp", 0, "", M(-1, 40))
                   [] p.x = "parts" -> Fpu("fxtract", 0, "", R(0)) [] OTHER -> Popping(Fpu("fst", 0, "f64", M(-1, 40))),
                 CASE p.x = "int" -> Fpu("fxch", 0, "", R(0)) [] p.x = "bcd" -> Fpu("fbld", 0, "", M(-1, 40))
                   [] p.x = "parts" -> Fpu("fscale", 0, "", R(0)) [] OTHER -> Fpu("fld", 0, "f64", M(-1, 40)),
                 Popping(Fpu("fst", 0, i, M(-1, 30))) >>)]
FildC == One("x86", { Shutting(Placed(VCpu("fild", p), x, 0), 40, s) :
                      p \in { q \in FildP : q.w = 2 => q.x # "parts" }, x \in {1, 7, 9, 15, 16, 19, 43, 48, 74, 111, 129, 200, 255}, s \in {{}, Rwx} }, 4, "kept")
\* As many pushes; the ninth finds the stack full.
PushP == { [w |-> 8, n |-> n] : n \in 7 .. 9 }
PushT == [p \in PushP |-> ProgX([j \in 1 .. 10 |-> IF j <= p.n THEN Fpu("fldc", 1, "", R(0)) ELSE Fpu("fnop", 0, "", R(0))])]
PushC == One("x86", { [VCpu("push", p) EXCEPT !.fp.cw = cw] : p \in PushP, cw \in {895, 894} }, 10, "pushed")
SaveP == { [w |-> 8, small |-> s] : s \in BOOLEAN }
SaveT == [p \in SaveP |-> ProgX(<< [Fpu("fnsave", 0, "", M(-1, 20)) EXCEPT !.small = p.small],
                                   [Fpu("frstor", 0, "", M(-1, 20)) EXCEPT !.small = p.small] >>)]
Large(d) == [d EXCEPT !.m = [c \in 0 .. 231 |-> 0], !.prot = [q \in { 8 * n : n \in 0 .. 28 } |-> Rwx],
                      !.full = [q \in { 8 * n : n \in 0 .. 28 } |-> Rwx]]
SaveC == One("x86", { [Shutting(Large(VCpu("save", p)), 96, s) EXCEPT
                         !.fp = [Fpu0 EXCEPT !.st = [r \in 0 .. 7 |-> (r * 131071 + 253953) % 1048576], !.tag = T, !.top = t,
                                             !.c0 = t = 5, !.c3 = TRUE, !.fl = {"P", "I"}]] :
                      p \in SaveP, t \in {0, 5}, T \in {{}, {1, 2, 5}, 0 .. 7}, s \in {{}, Rwx} }, 2, "saved")
\* Values of p.a * 2^p.n and p.b units, a unit 2^(p.e - 31), reduced until C2
\* says the remainder is complete.
RemP == { [w |-> 8, x |-> x, a |-> a, b |-> b, n |-> n, e |-> 14] :
          x \in {"fprem", "fprem1"}, a \in {4096, 5461, 8191}, b \in {4096, 4099, 6000}, n \in {0, 1, 5, 12, 13, 19, 30} }
RemT == [p \in RemP |-> ProgX(<<
    Fpu("fld", 0, "f80", M(-1, 30)), Fpu("fld", 0, "f80", M(-1, 18)),
    Fpu(p.x, 0, "", R(0)), Fpu("fnstsw", 0, "", R(0)),
    Imm(Op("group1", "and", 8, R(0), R(0)), 1024), Imm(Op("jcc", 5, 8, R(0), R(0)), -4) >>)]
RemC == One("x86", { LET d == VCpu("rem", p)
                         x == (p.e + 12 + p.n) * 8192 + p.a
                         y == (p.e + 12) * 8192 + p.b
                     IN  [d EXCEPT !.m = [c \in DOMAIN d.m |-> IF c \in 18 .. 27 THEN Byte(x, c - 18)
                                                               ELSE IF c \in 30 .. 39 THEN Byte(y, c - 30) ELSE 0]] :
                     p \in { q \in RemP : q.e + 12 + q.n < 63 } }, 6, "reduced")
ComiP == { At([quiet |-> q]) : q \in BOOLEAN }
ComiT == [p \in ComiP |-> ProgX(<< Fpu("fld", 0, "f32", M(-1, 22)), Fpu("fld", 0, "f32", M(-1, 18)),
                                   [Popping(Fpu("fcomi", 0, "", R(1))) EXCEPT !.quiet = p.quiet] >>)]
ComiC == One("x86", { Placed(VCpu("comi", p), x, y) : p \in ComiP, x \in Singles, y \in {0, 1, 48, 128 + 55, 112, 120} }, 3, "comi")

(***************************************************************************)
(* Integer vectors.                                                        *)
(***************************************************************************)

Mixed(w, n) == LanesOf(w, [k \in 0 .. 15 |-> (n * (k + 3) + 37 * k * n + (n \div 7)) % Mod(w)])
Two(d, w, x, y) == [d EXCEPT !.v[0] = Mixed(w, x), !.v[1] = Mixed(w, y), !.hi[0] = Mixed(w, x + 5), !.hi[1] = Mixed(w, y + 9)]
Seeds == {0, 1, 3, 13, 41, 77, 101, 255}
IntsP == { [w |-> 4, x |-> x] : x \in {"avg", "adds", "subs", "mulhrs", "sign", "maxs", "minu", "madd"} }
IntsT == [p \in IntsP |-> ProgX(<< Sse("int", p.x, p.w, R(1), R(0)) >>)]
IntsC == One("x86", { Two(VCpu("ints", p), p.w, x, y) : p \in IntsP, x \in Seeds, y \in Seeds }, 1, "ints")
ProdP == { [w |-> w, x |-> x] : w \in {2, 4}, x \in {"mulh", "mulhu"} }
ProdT == [p \in ProdP |-> ProgX(<< Vex("int", "mullo", p.w, R(1), 0, R(2)), Sse("int", p.x, p.w, R(1), R(0)) >>)]
ProdC == One("x86", { Two(VCpu("prod", p), p.w, x, y) : p \in ProdP, x \in Seeds, y \in {0, 13, 77, 255} }, 2, "wideprod")
\* Two ways to the same register.
V3(x, x2, w, a, b, r) == [Vex(x, x2, w, R(b), a, R(r)) EXCEPT !.l = TRUE]
AgreeProg(x) ==
    CASE x = "max"     -> << V3("int", "maxu", 2, 0, 1, 2), V3("int", "subus", 2, 0, 1, 3), V3("int", "addus", 2, 3, 1, 3) >>
      [] x = "sad"     -> << V3("int", "sad", 8, 0, 1, 2), V3("int", "maxu", 1, 0, 1, 3), V3("int", "minu", 1, 0, 1, 0),
                             V3("int", "sub", 1, 3, 0, 3), V3("int", "xor", 1, 0, 0, 0), V3("int", "sad", 8, 3, 0, 3) >>
      [] x = "hadd"    -> << V3("horiz", "add", 4, 0, 1, 2), [V3("shufp", "", 4, 0, 1, 3) EXCEPT !.imm = 136],
                             [V3("shufp", "", 4, 0, 1, 0) EXCEPT !.imm = 221], V3("int", "add", 4, 3, 0, 3) >>
      [] x = "align"   -> << [V3("palignr", "", 1, 0, 1, 2) EXCEPT !.imm = 5], [V3("shiftimm", "srldq", 1, 1, 1, 0) EXCEPT !.imm = 5],
                             [V3("shiftimm", "slldq", 1, 3, 0, 0) EXCEPT !.imm = 11], V3("int", "or", 1, 1, 3, 3) >>
      [] x = "pack"    -> << V3("int", "xor", 1, 1, 1, 1), V3("unpack", "", 1, 0, 1, 2), [V3("unpack", "", 1, 0, 1, 3) EXCEPT !.high = TRUE],
                             V3("pack", "", 2, 2, 3, 2), V3("mov128", "", 16, 0, 0, 3) >>
      [] x = "shuffle" -> << [V3("pshuf", "", 4, 0, 0, 2) EXCEPT !.imm = 147], [V3("pshuf", "", 4, 0, 2, 2) EXCEPT !.imm = 57],
                             V3("mov128", "", 16, 0, 0, 3) >>
      [] x = "halves"  -> << [V3("perm2", "", 16, 0, 0, 3) EXCEPT !.imm = 1], [V3("extract", "", 16, 0, 2, 0) EXCEPT !.imm = 1],
                             V3("insert", "", 16, 0, 2, 2), [V3("insert", "", 16, 2, 0, 2) EXCEPT !.imm = 1] >>
      [] x = "quads"   -> << [V3("permq", "", 8, 0, 0, 2) EXCEPT !.imm = 78], [V3("perm2", "", 16, 0, 0, 3) EXCEPT !.imm = 1] >>
      [] x = "shifts"  -> << [Vex("pmov", "", 8, R(1), 0, R(2)) EXCEPT !.from = 4], V3("shift", "sra", 4, 0, 2, 2),
                             V3("bcast", "", 4, 0, 1, 3), V3("shiftvar", "sra", 4, 0, 3, 3) >>
      [] x = "blend"   -> << [V3("blendd", "", 4, 0, 1, 2) EXCEPT !.imm = 90], [V3("blend", "", 4, 0, 1, 3) EXCEPT !.imm = 90] >>
      [] x = "dup"     -> << V3("movdup", "", 4, 0, 0, 2), [V3("pshuf", "", 4, 0, 0, 3) EXCEPT !.imm = 160] >>
      [] x = "fmax"    -> << [V3("fp", "max", 4, 0, 1, 2) EXCEPT !.lanes = 4], [V3("fp", "cmp", 4, 1, 0, 3) EXCEPT !.lanes = 4, !.imm = 1],
                             [V3("blendv", "", 4, 1, 0, 3) EXCEPT !.imm = 48] >>
      [] x = "round"   -> << [V3("fp", "round", 4, 0, 0, 2) EXCEPT !.lanes = 4, !.imm = 3],
                             [V3("fp", "toint", 4, 0, 0, 3) EXCEPT !.lanes = 4, !.trunc = TRUE], [V3("fp", "fromint", 4, 0, 3, 3) EXCEPT !.lanes = 4] >>
      [] x = "sort"    -> << [V3("pshufb", "", 1, 0, 1, 2) EXCEPT !.l = FALSE], [V3("pshufb", "", 1, 0, 1, 3) EXCEPT !.l = FALSE],
                             [V3("mov10", "", 4, 3, 2, 2) EXCEPT !.l = FALSE], [V3("blend", "", 4, 3, 2, 3) EXCEPT !.imm = 1, !.l = FALSE] >>
AgreeP == { [w |-> w, x |-> x] : w \in {4},
            x \in {"max", "sad", "hadd", "align", "pack", "shuffle", "halves", "quads", "shifts", "blend", "dup", "fmax", "round", "sort"} }
AgreeT == [p \in AgreeP |-> Padded(6, AgreeProg(p.x))]
AgreeC == One("x86", { Two(VCpu("agree", p), 1, x, y) : p \in { q \in AgreeP : q.x \notin {"fmax", "round", "shifts"} }, x \in {13, 41, 77}, y \in {1, 3, 7} } \cup
    { Pairs(VCpu("agree", p), j) : p \in { q \in AgreeP : q.x = "fmax" }, j \in {4, 15, 24, 31, 40} } \cup
    { [VCpu("agree", p) EXCEPT !.v[0] = LanesOf(4, [k \in 0 .. 3 |-> SingleAt(7 + n + k)]), !.hi[0] = LanesOf(4, [k \in 0 .. 3 |-> SingleAt(n + k)])] :
      p \in { q \in AgreeP : q.x = "round" }, n \in {0} } \cup
    { [Two(VCpu("agree", p), 4, 101, 0) EXCEPT !.v[1] = LanesOf(4, [k \in 0 .. 3 |-> n])] :
      p \in { q \in AgreeP : q.x = "shifts" }, n \in {0, 1, 7, 8, 200} }, 6, "agree")
\* PCMPISTRI for the first occurrence of one string in another.
StrP == {[w |-> 8]}
StrT == [p \in StrP |-> ProgX(<< [Sse("pcmpstr", "", 4, R(1), R(0)) EXCEPT !.imm = 12, !.index = TRUE] >>)]
Text16(s) == [b \in 0 .. 15 |-> IF b < Len(s) THEN s[b + 1] ELSE 0]
StrC == One("x86", { [VCpu("str", p) EXCEPT !.v[0] = Text16(x), !.v[1] = Text16(y)] : p \in StrP,
                     x \in {<<>>, <<1, 2>>, <<1, 1, 2>>, <<3>>, <<2, 1>>},
                     y \in {<<>>, <<1, 1, 1, 2>>, <<1, 2, 0, 3>>, [k \in 1 .. 16 |-> 1 + (k % 2)], [k \in 1 .. 16 |-> 1], <<2, 2, 1>>} },
           1, "occurs")
CrcP == {[w |-> 8]}
CrcT == [p \in CrcP |-> ProgX(<< Sse("crc32", "", 4, M(-1, 18), R(0)), Sse("crc32", "", 1, M(-1, 18), R(1)),
    Sse("crc32", "", 1, M(-1, 19), R(1)), Sse("crc32", "", 1, M(-1, 20), R(1)), Sse("crc32", "", 1, M(-1, 21), R(1)) >>)]
CrcC == One("x86", { [Placed(VCpu("crc", p), x, 0) EXCEPT !.g[0] = g, !.g[1] = g] :
                     p \in CrcP, x \in {0, 1, 27, 177, 255}, g \in {0, 90, 255} }, 5, "crc")

(***************************************************************************)
(* Masks and pages that are shut; MMX; BMI.                                *)
(***************************************************************************)

Signs(w, K) == LanesOf(w, [k \in 0 .. 15 |-> IF k \in K THEN Mod(w) \div 2 ELSE 0])
Closed(d, Q) == [d EXCEPT !.m = Ramp, !.prot = [q \in Pages |-> IF q \in Q THEN {} ELSE Rwx], !.g[5] = 18]
SelectP == { [w |-> 4, x |-> x] : x \in {"gather", "maskload"} }
SelectT == [p \in SelectP |-> ProgX(<<
    IF p.x = "gather" THEN Vex("gather", "", 4, [M(5, 0) EXCEPT !.index = 1], 2, R(0)) ELSE Vex("maskload", "", 4, M(5, 0), 2, R(0)) >>)]
SelectC == One("x86", { [Closed(VCpu("select", p), Q) EXCEPT !.v[2] = Signs(4, K), !.v[0] = Mixed(1, 7),
                            !.v[1] = LanesOf(4, [k \in 0 .. 3 |-> <<0, 21, 247, 11>>[k + 1]])] :
                        p \in SelectP, K \in {{}, {0, 1, 2, 3}, {1, 3}, {2}}, Q \in {{8, 16, 24}, {32}, {16, 40}} }, 1, "selected")
MaskedP == { [w |-> w, x |-> x] : w \in {1, 4}, x \in {"maskstore", "maskmov"} }
MaskedT == [p \in MaskedP |-> ProgX(<<
    IF p.x = "maskmov" THEN Sse("maskmov", "", 1, R(2), R(0)) ELSE Vex("maskstore", "", p.w, M(5, 0), 2, R(0)) >>)]
MaskedC == One("x86", { [Closed(VCpu("masked", p), Q) EXCEPT !.v[2] = Signs(p.w, K), !.v[0] = Mixed(1, 7), !.g[7] = 18] :
                        p \in { q \in MaskedP : (q.w = 1) = (q.x = "maskmov") }, K \in {{}, 0 .. 15, {1, 3, 9}, {2}},
                        Q \in {{16, 24}, {32}, {24, 40}} }, 1, "masked")
MmxP == {[w |-> 8]}
MmxT == [p \in MmxP |-> ProgX(<<
    [Sse("movq", "", 8, M(-1, 18), R(3)) EXCEPT !.mm = TRUE], [Sse("int", "add", 1, M(-1, 22), R(3)) EXCEPT !.mm = TRUE],
    [Sse("movq", "", 8, M(-1, 40), R(3)) EXCEPT !.mm = TRUE, !.load = FALSE], Sse("emms", "", 8, R(0), R(0)) >>)]
MmxC == One("x86", { [Closed(VCpu("mmx", p), Q) EXCEPT !.fp.top = t, !.fp.tag = {t}] :
                     p \in MmxP, t \in {0, 5}, Q \in {{}, {16}, {24, 40}} }, 4, "cleared")
AlignP == { [w |-> 8, at |-> a] : a \in {16, 18, 24, 32} }
AlignT == [p \in AlignP |-> ProgX(<< [Sse("mov128", "", 16, M(-1, p.at), R(0)) EXCEPT !.al = TRUE],
                                     [Sse("mov128", "", 16, M(-1, 41), R(0)) EXCEPT !.load = FALSE] >>)]
AlignC == One("x86", { Closed(VCpu("align", p), Q) : p \in AlignP, Q \in {{16}, {24, 48}} }, 2, "aligned")
B3(x, a, b, r) == Vex("bmi", x, 4, R(b), a, R(r))
BmiP == { [w |-> 4, x |-> x] : x \in {"pext", "blsi", "mulx", "rorx", "bzhi", "bextr"} }
BmiT == [p \in BmiP |-> Padded(4,
    CASE p.x = "pext" -> << B3("pext", 0, 3, 2), B3("pdep", 2, 3, 2), B3("andn", 0, 3, 1), B3("andn", 1, 3, 1) >>
      [] p.x = "blsi" -> << B3("blsr", 1, 3, 0), B3("blsi", 2, 3, 0) >>
      [] p.x = "mulx" -> << B3("mulx", 2, 3, 1) >>
      [] p.x = "rorx" -> << [B3("rorx", 0, 0, 2) EXCEPT !.imm = 3], [B3("rorx", 0, 2, 2) EXCEPT !.imm = 5] >>
      [] p.x = "bzhi" -> << B3("bzhi", 3, 0, 2) >>
      [] p.x = "bextr" -> << B3("bextr", 3, 0, 2) >>)]
BmiC == One("x86", { [With(VCpu("bmi", p), x, y) EXCEPT !.g[2] = x] :
                     p \in BmiP, x \in {0, 1, 90, 177, 255}, y \in {0, 1, 6, 13, 165, 255} }, 4, "bmi")

(***************************************************************************)
(* AArch64: registers 0 and 1 are the operands, 2 the accumulator.         *)
(***************************************************************************)

Neon(f, x, w, rd, rn, rm) ==
    [op |-> "neon", f |-> f, x |-> x, w |-> w, q |-> TRUE, sc |-> FALSE, u |-> FALSE, rd |-> rd, rn |-> rn, rm |-> rm,
     ra |-> 3, round |-> FALSE, sat |-> FALSE, pairs |-> FALSE, t |-> MCFmt32, to |-> MCFmt32, mode |-> "fpcr",
     exact |-> FALSE, index |-> -1, src |-> 0, imm |-> 0, o |-> 0, cmode |-> 0, second |-> 0, len |-> 2, sh |-> 0,
     fb |-> 0, zero |-> FALSE, box |-> 8, upper |-> FALSE, mu |-> FALSE, rot |-> 0]
Low(i) == [i EXCEPT !.q = FALSE]
Lane(i, k) == [i EXCEPT !.index = k]
Uns(i, u) == [i EXCEPT !.u = u]
Paired(i) == [i EXCEPT !.pairs = TRUE]
By(i, n) == [i EXCEPT !.sh = n]
Rnd(i) == [i EXCEPT !.round = TRUE]
Alone(i) == [i EXCEPT !.sc = TRUE]
Env(j) == << [rm |-> "even", fz |-> FALSE, fz16 |-> FALSE, dn |-> FALSE, ahp |-> FALSE],
             [rm |-> "up", fz |-> FALSE, fz16 |-> FALSE, dn |-> FALSE, ahp |-> FALSE],
             [rm |-> "down", fz |-> FALSE, fz16 |-> TRUE, dn |-> FALSE, ahp |-> FALSE],
             [rm |-> "zero", fz |-> FALSE, fz16 |-> FALSE, dn |-> FALSE, ahp |-> FALSE],
             [rm |-> "even", fz |-> TRUE, fz16 |-> TRUE, dn |-> FALSE, ahp |-> FALSE],
             [rm |-> "even", fz |-> FALSE, fz16 |-> FALSE, dn |-> TRUE, ahp |-> FALSE] >>[(j % 6) + 1]
\* The inexact flag is up in some: the host may then compute.
Under(d, j) == [d EXCEPT !.fpcr = Env(j), !.fpsr = IF (j \div 6) % 2 = 1 THEN {"X"} ELSE {}]
Operands(d, x, y, c) == [d EXCEPT !.v[0] = x, !.v[1] = y, !.v[2] = c]
SinglePairs(d, j) ==
    Operands(d, LanesOf(4, [k \in 0 .. 3 |-> SingleAt(4 * j + k)]), LanesOf(4, [k \in 0 .. 3 |-> SingleAt((4 * j + k) \div 20)]),
             LanesOf(4, [k \in 0 .. 3 |-> SingleAt(7 * j + 3 * k + (j \div 5))]))
HalfPairs(d, j) ==
    Operands(d, LanesOf(2, [k \in 0 .. 7 |-> (8 * j + k) % 16]), LanesOf(2, [k \in 0 .. 7 |-> (8 * j + k) \div 16]),
             LanesOf(2, [k \in 0 .. 7 |-> (5 * j + 3 * k) % 16]))

LaneOps == {"add", "sub", "mul", "div", "abd", "mulx", "max", "min", "maxnm", "minnm", "recps", "rsqrts", "mla", "mls", "sqrt"}
ArithP == { [w |-> 4, t |-> MCFmt32, n |-> 4, x |-> x] : x \in LaneOps }
ScalarP == { [w |-> 4, t |-> MCFmt32, n |-> 1, x |-> x] : x \in {"nmul", "mla", "mls"} }
HalfP == { [w |-> 2, t |-> MCFmt16, n |-> 8, x |-> x] : x \in LaneOps }
ArithT == [p \in ArithP \cup ScalarP \cup HalfP |-> ProgA(<<
    CASE p.x = "nmul" -> [op |-> "ftwo", x |-> p.x, t |-> p.t, rd |-> 2, rn |-> 0, rm |-> 1]
      [] p.n = 1 /\ p.x # "nmul" -> [op |-> "fma", t |-> p.t, rd |-> 2, rn |-> 0, rm |-> 1, ra |-> 2, o0 |-> p.x = "mls", o1 |-> FALSE]
      [] p.n > 1 -> [Neon(IF p.x = "sqrt" THEN "fmisc" ELSE "fsame", p.x, p.w, 2, IF p.x = "sqrt" THEN 1 ELSE 0, 1)
                        EXCEPT !.t = p.t] >>)]
ArithC == One("a64", { Under(SinglePairs(ACpu("arith", p), j), j + e) : p \in ArithP \cup ScalarP, j \in 0 .. 99, e \in {0} }, 4, "arith")
HalvesAC == One("a64", { Under(HalfPairs(ACpu("arith", p), j), j \div 2) : p \in HalfP, j \in 0 .. 31 }, 4, "arith")
CompareP == { [w |-> 4, t |-> MCFmt32, n |-> 4, x |-> x] : x \in {"eq", "ge", "gt"} }
CompareT == [p \in CompareP |-> ProgA(<< Neon("fsame", p.x, 4, 2, 0, 1) >>)]
CompareC == One("a64", { Under(SinglePairs(ACpu("compare", p), j), j) : p \in CompareP, j \in 0 .. 99 }, 4, "compare")
FiveSingles(d, j) == Operands(d, LanesOf(4, [k \in 0 .. 3 |-> SingleAt(4 * j + k)]), LanesOf(4, [k \in 0 .. 3 |-> 0]), LanesOf(4, [k \in 0 .. 3 |-> 0]))
Roundings == {"even", "away", "up", "down", "zero"}
ToIntP == { [w |-> 4, t |-> MCFmt32, n |-> 4, x |-> "to", u |-> u, fb |-> fb, mode |-> m, exact |-> TRUE] :
            u \in BOOLEAN, fb \in {0, 3}, m \in Roundings }
ToIntT == [p \in ToIntP |-> ProgA(<< [Neon("fmisc", "to", 4, 2, 0, 0) EXCEPT !.u = p.u, !.fb = p.fb, !.mode = p.mode] >>)]
ToIntC == One("a64", { Under(FiveSingles(ACpu("toint", p), j), e) : p \in ToIntP, j \in 0 .. 4, e \in {0, 4, 6} }, 4, "toint")
RintP == { [w |-> 4, t |-> MCFmt32, n |-> 4, mode |-> m, exact |-> x] : m \in Roundings, x \in BOOLEAN }
RintT == [p \in RintP |-> ProgA(<< [Neon("fmisc", "rint", 4, 2, 0, 0) EXCEPT !.mode = p.mode, !.exact = p.exact] >>)]
\* The largest single here has a fraction: no format the code has does.
Whole(d, j) == [d EXCEPT !.v[0] = LanesOf(4, [k \in 0 .. 3 |->
    LET x == SingleAt(4 * j + k) IN IF x \in {111, 239} THEN x - 1 ELSE x])]
RintC == One("a64", { Under(Whole(ACpu("rint", p), j), e) : p \in RintP, j \in 0 .. 4, e \in {0, 4, 5} }, 4, "integral")
FromIntP == { [w |-> 4, t |-> MCFmt32, n |-> 4, u |-> u, fb |-> fb] : u \in BOOLEAN, fb \in {4, 6, 8} }
FromIntT == [p \in FromIntP |-> ProgA(<< [Neon("fmisc", "from", 4, 2, 0, 0) EXCEPT !.u = p.u, !.fb = p.fb] >>)]
FromIntC == One("a64", { Under(Operands(ACpu("fromint", p), LanesOf(4, [k \in 0 .. 3 |-> (4 * j + k) * 11 % 256]),
                                        LanesOf(4, [k \in 0 .. 3 |-> 0]), LanesOf(4, [k \in 0 .. 3 |-> 0])), j) :
                         p \in FromIntP, j \in 0 .. 17 }, 4, "fromint")
ConvertP == { [w |-> 2, t |-> MCFmt16, from |-> MCFmt32, n |-> 4], [w |-> 4, t |-> MCFmt32, from |-> MCFmt16, n |-> 4] }
ConvertT == [p \in ConvertP |-> ProgA(<< Low([Neon("fcvt", "", 4, 2, 0, 0) EXCEPT !.t = p.from, !.to = p.t]) >>)]
ConvertC == One("a64", { Under(IF p.w = 2 THEN FiveSingles(ACpu("convert", p), j)
                               ELSE HalfPairs(ACpu("convert", p), j), e) : p \in ConvertP, j \in 0 .. 4, e \in 0 .. 5 }, 4, "convert")
CondP == {[w |-> 4, t |-> MCFmt32]}
CondT == [p \in CondP |-> ProgA(<<
    [op |-> "fcmp", t |-> p.t, rn |-> 0, rm |-> 1, zero |-> FALSE, signal |-> FALSE, cond |-> 14, nzcv |-> 0],
    [op |-> "fcsel", t |-> p.t, rd |-> 2, rn |-> 0, rm |-> 1, cond |-> 12] >>)]
CondC == One("a64", { SinglePairs(ACpu("cond", p), j) : p \in CondP, j \in 0 .. 99 }, 8, "condition")
JsP == { [w |-> 8, n |-> n] : n \in {0, 1, -1, 127, 128, -128, -129, 255, 256, 300, -700, 2047, -2047} }
JsT == [p \in JsP |-> ProgA(<<
    [op |-> "fint", x |-> "from", t |-> MCFmt64, rd |-> 0, rn |-> 0, fb |-> 0, unsigned |-> FALSE, w |-> 8, mode |-> "even"],
    [op |-> "fint", x |-> "js", t |-> MCFmt64, rd |-> 2, rn |-> 0, fb |-> 0, unsigned |-> FALSE, w |-> 4, mode |-> "zero"] >>)]
JsC == One("a64", { [ACpu("js", p) EXCEPT !.g[0] = MaskW(p.n, 8)] : p \in JsP }, 8, "js")

\* Two ways to one result, in registers 2 and 3, which start alike.
Same(x, w, d, n, m) == Neon("same", x, w, d, n, m)
Diff(x, w, d, n, m) == Neon("diff", x, w, d, n, m)
Misc(x, w, d, n) == Neon("misc", x, w, d, n, 0)
Shift(x, w, n, d, s) == By(Neon("shift", x, w, d, s, 0), n)
Log(x, d, n, m) == Neon("logic", x, 1, d, n, m)
Fsame(x, d, n, m) == Neon("fsame", x, 4, d, n, m)
Perm(x, k, w, d) == [Neon("perm", x, w, d, 0, 1) EXCEPT !.second = k]
Dup(w, k, d, s) == Lane(Neon("copy", "dup", w, d, s, 0), k)
Movi(d, cmode, imm) == [Neon("imm", "", 1, d, 0, 0) EXCEPT !.cmode = cmode, !.imm = imm]
Turn(k, d, n, m) == [Neon("ext", "", 1, d, n, m) EXCEPT !.imm = k]
Count(n, w) == << Movz(0, MaskW(n, w)), Neon("copy", "dupg", w, 1, 0, 0) >>
Copy(s) == << Log("orr", 3, s, s) >>
\* The long form on each half, narrowed into register 3.
Halves(x, nx, n, w, u) ==
    << Low(Uns(Diff(x, w, 3, 0, 1), u)), Low(Uns(By(nx, n), u)), Uns(Diff(x, w, 0, 0, 1), u), [Uns(By(nx, n), u) EXCEPT !.rn = 0] >>
Narrow(x, w) == Neon(IF x \in {"shrn", "qshrn", "qshrun"} THEN "shift" ELSE "misc", x, w, 3, 3, 0)
Twice(p) ==
    LET w == p.w
        n == w * B
        x == p.x
    IN  CASE x = "uzp"  -> << Perm("zip", 0, w, 2), Perm("zip", 1, w, 3), [Perm("uzp", 1, w, 2) EXCEPT !.rn = 2, !.rm = 3] >> \o Copy(1)
          [] x = "trn"  -> << Perm("trn", 0, w, 2), Perm("trn", 1, w, 3), [Perm("trn", 0, w, 2) EXCEPT !.rn = 2, !.rm = 3] >> \o Copy(0)
          [] x = "ext"  -> << Turn(w, 2, 0, 1), Turn(w, 3, 1, 0), Turn(16 - w, 2, 2, 3) >> \o Copy(1)
          [] x = "rev"  -> << Misc("rev", w, 2, 0), Misc("rev", w, 2, 2) >> \o Copy(0)
          [] x \in {"addp", "maxp", "minp"} ->
               LET y == CASE x = "addp" -> "add" [] x = "maxp" -> "max" [] x = "minp" -> "min"
               IN  << Uns(Paired(Same(y, w, 2, 0, 1)), p.u), Perm("uzp", 0, w, 3), Perm("uzp", 1, w, 0), Uns(Same(y, w, 3, 3, 0), p.u) >>
          [] x \in {"mul", "mla", "mls", "qdmulh"} ->
               << Lane(Neon("elem", x, w, 2, 0, 1), 1), Dup(w, 1, 1, 1), Same(x, w, 3, 0, 1) >>
          [] x \in {"mull", "mlal", "mlsl", "qdmull", "qdmlal", "qdmlsl"} ->
               << Lane(Neon("lelem", x, w, 2, 0, 1), 0), Dup(w, 0, 1, 1), Diff(x, w, 3, 0, 1) >>
          [] x = "fmla" -> << Lane(Neon("felem", "mla", 4, 2, 0, 1), 1), Dup(4, 1, 1, 1), Fsame("mla", 3, 0, 1) >>
          [] x = "sra"  -> << Uns(Rnd(Shift("sra", w, n - 1, 2, 0)), p.u), Uns(Rnd(Shift("shr", w, n - 1, 1, 0)), p.u), Same("add", w, 3, 3, 1) >>
          [] x = "xtn"  -> << Low(Shift("shll", w, 0, 2, 0)), Low(Misc("xtn", w, 2, 2)), Shift("shll", w, 0, 1, 0), Misc("xtn", w, 2, 1) >> \o Copy(0)
          [] x = "abd"  -> << Uns(Same("abd", w, 2, 0, 1), p.u), Uns(Same("max", w, 3, 0, 1), p.u), Uns(Same("min", w, 0, 0, 1), p.u), Same("sub", w, 3, 3, 0) >>
          [] x = "aba"  -> << Uns(Same("aba", w, 2, 0, 1), p.u), Uns(Same("abd", w, 1, 0, 1), p.u), Same("add", w, 3, 3, 1) >>
          [] x = "hadd" -> << Uns(Same("hadd", w, 2, 0, 1), p.u) >> \o Halves("addl", Narrow("shrn", w), 1, w, p.u)
          [] x = "rhadd" -> << Rnd(Uns(Same("hadd", w, 2, 0, 1), p.u)) >> \o Halves("addl", Rnd(Narrow("shrn", w)), 1, w, p.u)
          [] x = "qadd" -> << Uns(Same("qadd", w, 2, 0, 1), p.u) >> \o Halves("addl", Narrow("qxtn", w), 0, w, p.u)
          [] x = "qsub" -> << Uns(Same("qsub", w, 2, 0, 1), p.u) >> \o Halves("subl", Narrow(IF p.u THEN "qxtun" ELSE "qxtn", w), 0, w, p.u)
          [] x = "qdmh" -> << Same("qdmulh", w, 2, 0, 1) >> \o Halves("qdmull", Narrow("shrn", w), n, w, FALSE)
          [] x = "adal" -> << Uns(Misc("adalp", w, 2, 0), p.u), Uns(Misc("addlp", w, 1, 0), p.u), Same("add", 2 * w, 3, 3, 1) >>
          [] x = "mlall" -> << Uns(Diff("mlal", w, 2, 0, 1), p.u), Uns(Diff("mull", w, 1, 0, 1), p.u), Same("add", 2 * w, 3, 3, 1) >>
          [] x = "qdmla" -> << Diff("qdmlal", w, 2, 0, 1), Diff("qdmull", w, 1, 0, 1), Same("qadd", 2 * w, 3, 3, 1) >>
          [] x = "addhn" -> << Movi(2, 0, 0), Low(Uns(Diff("addhn", w, 2, 0, 1), p.u)), Same("add", 2 * w, 3, 0, 1),
                               Low([Shift("shrn", w, n, 3, 3) EXCEPT !.round = p.u]) >>
          [] x = "dot"  -> << Movi(2, 0, 0), [Neon("dot", "", 4, 2, 0, 1) EXCEPT !.u = p.u, !.mu = p.u],
                              Low(Uns(Diff("mull", 1, 3, 0, 1), p.u)), Uns(Misc("addlp", 2, 3, 3), p.u),
                              Uns(Diff("mull", 1, 0, 0, 1), p.u), Uns(Misc("addlp", 2, 0, 0), p.u), Paired(Same("add", 4, 3, 3, 0)) >>
          [] x = "mmla" -> << Movi(2, 0, 0), Movi(3, 0, 0), Neon("dot", "", 4, 2, 0, 1), Turn(8, 1, 1, 1), Neon("dot", "", 4, 3, 0, 1),
                              Turn(8, 1, 1, 1), Paired(Same("add", 4, 2, 2, 3)), Movi(3, 0, 0), Neon("mmla", "", 4, 3, 0, 1), Log("orr", 0, 2, 2),
                              [Lane(Neon("copy", "inse", 4, 2, 0, 0), 1) EXCEPT !.src = 2],
                              [Lane(Neon("copy", "inse", 4, 2, 0, 0), 2) EXCEPT !.src = 3],
                              [Lane(Neon("copy", "inse", 4, 2, 0, 0), 3) EXCEPT !.src = 1] >>
          [] x = "rdm"  -> << Movi(2, 0, 0), Neon("rdm", "add", w, 2, 0, 1), Rnd(Same("qdmulh", w, 3, 0, 1)) >>
          [] x = "tbl"  -> << Movi(2, 0, 0), Neon("tbl", "tbx", 1, 2, 0, 1), Neon("tbl", "tbl", 1, 3, 0, 1) >>
          [] x = "movi" -> << Movi(2, 14, 2), Movz(0, 2), Neon("copy", "dupg", 1, 3, 0, 0) >>
          [] x = "orri" -> << Movi(2, 3, 1), Movi(1, 2, 1), Log("orr", 3, 3, 1) >>
          [] x = "bici" -> << [Movi(2, 9, 2) EXCEPT !.o = 1], Movi(1, 8, 2), Log("bic", 3, 3, 1) >>
          [] x = "mvni" -> << [Movi(2, 4, 1) EXCEPT !.o = 1], Movi(3, 4, 1), Misc("not", 1, 3, 3) >>
          [] x = "msl"  -> << Movi(2, 12, 1), Movi(3, 2, 1), Movi(1, 0, 3), Log("orr", 3, 3, 1) >>
          [] x = "shlr" -> Count(2, w) \o << Same("shl", w, 2, 0, 1), Shift("shl", w, 2, 3, 0) >>
          [] x = "shrr" -> Count(-2, w) \o << Rnd(Uns(Same("shl", w, 2, 0, 1), p.u)), Rnd(Uns(Shift("shr", w, 2, 3, 0), p.u)) >>
          [] x = "qshl" -> Count(2, w) \o << [Uns(Same("shl", w, 2, 0, 1), p.u) EXCEPT !.sat = TRUE], Uns(Shift("qshl", w, 2, 3, 0), p.u) >>
          [] x = "qshrn" -> << Movi(2, 0, 0), Low(Uns(Shift("qshrn", w, 1, 2, 0), p.u)), Uns(Shift("shr", 2 * w, 1, 3, 0), p.u), Low(Uns(Misc("qxtn", w, 3, 3), p.u)) >>
          [] x = "addv" -> << Neon("across", "addv", w, 2, 0, 0) >> \o [k \in 1 .. 4 |-> Paired(Same("add", w, 0, 0, 0))] \o
                           << Alone(Dup(w, 0, 3, 0)) >>
          [] x = "maxv" -> << Uns(Neon("across", "maxv", w, 2, 0, 0), p.u) >> \o [k \in 1 .. 4 |-> Uns(Paired(Same("max", w, 0, 0, 0)), p.u)] \o
                           << Alone(Dup(w, 0, 3, 0)) >>
          [] x = "addlv" -> << Uns(Neon("across", "addlv", w, 2, 0, 0), p.u), Uns(Misc("addlp", w, 3, 0), p.u), Neon("across", "addv", 2 * w, 3, 3, 0) >>
          [] x = "fmaxv" -> << Neon("facross", "maxnm", 4, 2, 0, 0), Paired(Fsame("maxnm", 0, 0, 0)), Paired(Fsame("maxnm", 0, 0, 0)), Alone(Dup(4, 0, 3, 0)) >>
          [] x = "spair" -> << Alone(Neon("spair", "addp", 8, 2, 0, 0)), Paired(Same("add", 8, 3, 0, 0)), Alone(Dup(8, 0, 3, 3)) >>
          [] x = "eor3" -> << Neon("crypto", "eor3", 8, 2, 0, 1), Log("eor", 3, 3, 0), Log("eor", 3, 3, 1) >>
          [] x = "bcax" -> << Neon("crypto", "bcax", 8, 2, 0, 1), Log("bic", 3, 1, 3), Log("eor", 3, 3, 0) >>
          [] x = "xar"  -> << [Neon("crypto", "xar", 8, 2, 0, 1) EXCEPT !.imm = 5], Log("eor", 0, 0, 1), Uns(Shift("shr", 8, 5, 3, 0), TRUE), Shift("sli", 8, 11, 3, 0) >>
          [] x = "rax1" -> << Neon("crypto", "rax1", 8, 2, 0, 1), Shift("shl", 8, 1, 3, 1), Shift("sri", 8, 15, 3, 1), Log("eor", 3, 3, 0) >>
          [] x = "neg"  -> << Misc("neg", w, 2, 0), Misc("not", 1, 3, 0) >> \o Count(1, w) \o << Same("add", w, 3, 3, 1) >>
          [] x = "abs"  -> << Misc("abs", w, 2, 0), Misc("neg", w, 3, 0), Same("max", w, 3, 3, 0) >>
          [] x = "qabs" -> << Misc("qabs", w, 2, 0), Movi(1, 0, 0), Same("qsub", w, 3, 1, 0), Same("max", w, 3, 3, 0) >>
          [] x = "le0"  -> << Misc("le0", w, 2, 0), Movi(1, 0, 0), Same("cmge", w, 3, 1, 0) >>
          [] x = "tst"  -> << Same("cmtst", w, 2, 0, 0), Misc("eq0", w, 3, 0), Misc("not", 1, 3, 3) >>
          [] x = "clz"  -> << Misc("clz", 1, 2, 0), Uns(Shift("shr", 1, 1, 3, 0), TRUE), Log("orr", 3, 3, 0), Misc("not", 1, 3, 3), Misc("cnt", 1, 3, 3) >>
          [] x = "pmull" -> << Diff("pmull", 1, 2, 0, 1), Log("eor", 1, 1, 3), Diff("pmull", 1, 3, 0, 3), Log("eor", 2, 2, 3), Diff("pmull", 1, 3, 0, 1) >>
          [] x = "inse" -> << [Lane(Neon("copy", "inse", w, 2, 0, 0), 1) EXCEPT !.src = 0], Lane(Neon("copy", "umov", w, 0, 0, 0), 0), Lane(Neon("copy", "insg", w, 3, 0, 0), 1) >>
          [] x = "bsl"  -> << Log("bsl", 2, 0, 1), Log("bit", 1, 0, 3), Log("orr", 3, 1, 1) >>
          [] x = "cplx" -> << Movi(2, 0, 0), Neon("complex", "fcmla", 4, 2, 0, 1), [Neon("complex", "fcmla", 4, 2, 0, 1) EXCEPT !.rot = 1],
                              [Perm("trn", 0, 4, 3) EXCEPT !.rm = 0], [Perm("trn", 1, 4, 0) EXCEPT !.rm = 0], Fsame("mul", 3, 3, 1), Fsame("mul", 0, 0, 1),
                              [Neon("complex", "fcadd", 4, 3, 3, 0) EXCEPT !.rot = 1] >>
          [] x = "fhm"  -> << Movi(2, 0, 0), Movi(3, 0, 0), [Neon("fhm", "mla", 4, 2, 0, 1) EXCEPT !.upper = p.u],
                              [Neon("fcvt", "", 4, 0, 0, 0) EXCEPT !.t = MCFmt16, !.q = p.u], [Neon("fcvt", "", 4, 1, 1, 0) EXCEPT !.t = MCFmt16, !.q = p.u],
                              Fsame("mla", 3, 0, 1) >>
          [] x = "double" -> << Low([Neon("fcvt", "", 4, 2, 0, 0) EXCEPT !.to = MCFmt64]), Low([Neon("fcvt", "", 4, 2, 2, 0) EXCEPT !.t = MCFmt64]),
                                Low([Neon("fcvt", "", 4, 3, 2, 0) EXCEPT !.to = MCFmt64]), Low([Neon("fcvt", "", 4, 3, 3, 0) EXCEPT !.t = MCFmt64]) >>
          [] x = "toint" -> << Alone(Uns([Neon("fmisc", "to", 4, 2, 0, 0) EXCEPT !.mode = "zero"], p.u)), Movi(3, 0, 0),
                               [op |-> "fint", x |-> "to", t |-> MCFmt32, rd |-> 0, rn |-> 0, fb |-> 0, unsigned |-> p.u, w |-> 4, mode |-> "zero"],
                               [op |-> "fint", x |-> "in", t |-> MCFmt32, rd |-> 3, rn |-> 0] >>
TwiceP ==
    { [w |-> w, x |-> x, u |-> FALSE] : w \in {1, 2, 4}, x \in {"uzp", "trn", "ext", "rev", "xtn", "inse", "neg", "abs", "qabs", "le0", "tst", "mul", "mla", "mls"} } \cup
    { [w |-> w, x |-> x, u |-> u] : w \in {1, 2, 4}, u \in BOOLEAN,
      x \in {"addp", "maxp", "minp", "abd", "aba", "hadd", "rhadd", "qadd", "qsub", "adal", "mlall", "addhn", "maxv", "addlv", "qshrn"} } \cup
    { [w |-> w, x |-> x, u |-> u] : w \in {2, 4}, u \in BOOLEAN, x \in {"sra", "shrr", "qshl"} } \cup
    { [w |-> w, x |-> x, u |-> FALSE] : w \in {2, 4}, x \in {"qdmulh", "mull", "mlal", "mlsl", "qdmull", "qdmlal", "qdmlsl", "qdmh", "qdmla", "rdm", "shlr"} } \cup
    { [w |-> 1, x |-> x, u |-> u] : u \in BOOLEAN, x \in {"dot", "fhm", "toint"} } \cup
    { [w |-> 1, x |-> x, u |-> FALSE] :
      x \in {"fmla", "mmla", "tbl", "movi", "orri", "bici", "mvni", "msl", "addv", "fmaxv", "spair", "eor3", "bcax", "xar", "rax1", "clz", "pmull",
             "bsl", "double"} }
\* Every program ends where the longest does.
TwiceT == [p \in TwiceP |-> LET s == Twice(p) IN ProgA([k \in 1 .. 13 |->
    IF k <= Len(s) THEN s[k] ELSE [op |-> "b", link |-> FALSE, imm |-> 56 - 4 * k]])]
Pattern0(j, b) == CASE j = 0 -> 3 [] j = 1 -> IF b % 2 = 1 THEN 2 ELSE 0 [] j = 2 -> IF b % 4 = 3 THEN 2 ELSE 0
                    [] j = 3 -> (b * b + b \div 3) % 4 [] j = 4 -> (3 * b + b \div 4 + 1) % 4 [] j = 5 -> IF b % 4 = 3 THEN 1 ELSE 3
Pattern1(j) == [b \in 0 .. 15 |-> Pattern0(j % 6, b)]
TwiceOf(k, p, j, e) == [Operands(ACpu(k, p), Pattern1(j), Pattern1(j + e), Pattern1(3 * j + e)) EXCEPT !.v[3] = Pattern1(3 * j + e)]
TwiceC == One("a64", { TwiceOf("twice", p, j, e) : p \in TwiceP, j \in 0 .. 5, e \in {1, 4} }, 52, "twice")
\* Products of small integers, which are exact.
CplxP == {[w |-> 1, x |-> "cplx", u |-> FALSE]}
CplxT == [p \in CplxP |-> ProgA(Twice(p))]
SmallInt(j) == <<48, 64, 56, 176, 192, 184>>[(j % 6) + 1]
CplxC == One("a64", { Operands(ACpu("cplx", p), LanesOf(4, [k \in 0 .. 3 |-> SmallInt(j + k)]), LanesOf(4, [k \in 0 .. 3 |-> SmallInt(e + k * j)]), Pattern1(0)) :
                      p \in CplxP, j \in 0 .. 5, e \in 0 .. 5 }, 32, "twice")

VText == [fp |-> FpT, fma |-> FmaT, via |-> ViaT, cmp |-> CmpT, halves |-> HalvesT, dot |-> DotT, x87 |-> X87T, fist |-> FistT,
          fild |-> FildT, push |-> PushT, save |-> SaveT, rem |-> RemT, comi |-> ComiT, ints |-> IntsT, prod |-> ProdT,
          agree |-> AgreeT, str |-> StrT, crc |-> CrcT, select |-> SelectT, masked |-> MaskedT, mmx |-> MmxT, align |-> AlignT,
          bmi |-> BmiT, arith |-> ArithT, compare |-> CompareT, toint |-> ToIntT, rint |-> RintT,
          fromint |-> FromIntT, convert |-> ConvertT, cond |-> CondT, js |-> JsT, twice |-> TwiceT, cplx |-> CplxT]
VCases == [fp |-> FpC, packed |-> PackedC, paired |-> PairedC, unmasked |-> UnmaskedC, fma |-> FmaC, via |-> ViaC, cmp |-> CmpC, halves |-> HalvesC, dot |-> DotC, x87 |-> X87C, x87slow |-> X87SlowC,
           fist |-> FistC, fild |-> FildC, push |-> PushC, save |-> SaveC, rem |-> RemC, comi |-> ComiC, ints |-> IntsC,
           prod |-> ProdC, agree |-> AgreeC, str |-> StrC, crc |-> CrcC, select |-> SelectC, masked |-> MaskedC, mmx |-> MmxC,
           align |-> AlignC, bmi |-> BmiC, arith |-> ArithC, harith |-> HalvesAC, compare |-> CompareC, toint |-> ToIntC,
           rint |-> RintC, fromint |-> FromIntC, convert |-> ConvertC, cond |-> CondC, js |-> JsC, twice |-> TwiceC, cplx |-> CplxC]

AllCases == VCases
CpuText == LET text == XText @@ AText @@ VText IN text
CpuCases == LET cases == XCases @@ ACases @@ VCases IN cases
==============================================================================
