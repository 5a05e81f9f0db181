------------------------------- MODULE Words -------------------------------
(***************************************************************************)
(* What the two software CPUs of vcpu/ share: machine words, the guest     *)
(* memory an instruction reads and writes, and the faults it may meet.     *)
(*                                                                         *)
(* A byte has B bits instead of 8, so a word of w bytes has w*B and every  *)
(* width, mask, sign and carry position of the code scales with B.  Memory *)
(* is a function from addresses to bytes in pages of Page bytes, each with *)
(* the permissions the guest gave it.                                      *)
(***************************************************************************)
EXTENDS Integers, Sequences, FiniteSets, Bitwise

CONSTANTS B,        \* bits in a byte
          Page      \* bytes in a page

NoPage == -1

(***************************************************************************)
(* Words.                                                                  *)
(***************************************************************************)

\* The number of values of w bytes.
Mod(w) == 2 ^ (w * B)
MaskW(v, w) == v % Mod(w)
Bit(v, i) == (v \div 2 ^ i) % 2 = 1
Num(b) == IF b THEN 1 ELSE 0
Parity(v) ==
    Cardinality({ i \in 0 .. B - 1 : Bit(v, i) }) % 2 = 0
SignBit(v, w) == Bit(v, w * B - 1)
SignExtendW(v, w) ==
    IF SignBit(v, w) THEN MaskW(v, w) - Mod(w) ELSE MaskW(v, w)
FitsSigned(v, w) ==
    v >= -(Mod(w) \div 2) /\ v < Mod(w) \div 2

\* Byte k of a value, and the value whose w bytes are those of v reversed.
Byte(v, k) == (v \div Mod(k)) % Mod(1)
RECURSIVE SwapBytes(_, _)
SwapBytes(v, w) ==
    IF w = 0 THEN 0 ELSE Byte(v, 0) * Mod(w - 1) + SwapBytes(v \div Mod(1), w - 1)

\* Truncating division and its remainder, as the host computes them.
Trunc(n, d) ==
    LET q == (IF n < 0 THEN -n ELSE n) \div (IF d < 0 THEN -d ELSE d)
    IN  IF (n < 0) = (d < 0) THEN q ELSE -q

(***************************************************************************)
(* Memory, operands and the stack.                                         *)
(***************************************************************************)

PageOf(a) == a - (a % Page)
ProtOf(c, a) == IF a \in DOMAIN c.m THEN c.prot[PageOf(a)] ELSE {}
Allows(c, a, n, p) == \A j \in 0 .. n - 1 : p \in ProtOf(c, a + j)

Fault(c, a, w) == [c EXCEPT !.out = "fault", !.addr = a, !.write = w]
RdFault(c, a) == Fault(c, a, FALSE)
Trap(c, t) == [c EXCEPT !.out = t]
OK(c) == c.out = "ok"

RECURSIVE Val(_, _, _)
Val(c, a, w) == IF w = 0 THEN 0 ELSE c.m[a] + Mod(1) * Val(c, a + 1, w - 1)

\* GuestMemory::write: all the bytes, or (FirstShut) the first refused.
Put(c, a, w, v) ==
    [c EXCEPT !.m = [x \in DOMAIN c.m |-> IF x \in a .. a + w - 1 THEN Byte(v, x - a) ELSE c.m[x]]]
FirstShut(c, a, w) ==
    CHOOSE x \in a .. a + w - 1 :
        "w" \notin ProtOf(c, x) /\ \A y \in a .. x - 1 : "w" \in ProtOf(c, y)

Ones(v, w) == { k \in 0 .. w * B - 1 : Bit(v, k) }
Least(S) == CHOOSE k \in S : \A j \in S : k <= j
Greatest(S) == CHOOSE k \in S : \A j \in S : k >= j

=============================================================================
