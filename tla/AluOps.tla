------------------------------- MODULE AluOps -------------------------------
(***************************************************************************)
(* The arithmetic of rtl/riscv.v's execute stage: the base operations and  *)
(* the multiplier and divider of RV32M, on words of XLEN bits (32 in the   *)
(* code), operation by operation as the RTL computes them.                 *)
(***************************************************************************)
EXTENDS Integers

CONSTANT XLEN

Pow2(n) == 2 ^ n

\* The width, and the equations that define the powers of two, which the provers
\* do not know.
ASSUME AluAssumption ==
  /\ XLEN \in Nat \ {0}
  /\ Pow2(0) = 1
  /\ \A n \in 0 .. XLEN - 1 : Pow2(n + 1) = 2 * Pow2(n)

M == Pow2(XLEN)
XWord == 0 .. M - 1

Wrap(x)   == x % M
SignOf(x) == IF 2 * x >= M THEN 1 ELSE 0        \* x[31]
ToInt(x)  == x - SignOf(x) * M                  \* $signed(x)
Bit(x, i) == (x \div Pow2(i)) % 2

\* Bit by bit: the word whose bit i is F(bit i of a, bit i of b).
Bitwise2(F(_, _), a, b) ==
  LET low[n \in 0 .. XLEN] ==
        IF n = 0 THEN 0 ELSE low[n - 1] + F(Bit(a, n - 1), Bit(b, n - 1)) * Pow2(n - 1)
  IN  low[XLEN]

AndBit(x, y) == x * y
OrBit(x, y)  == IF x + y > 0 THEN 1 ELSE 0
XorBit(x, y) == (x + y) % 2
And(a, b) == Bitwise2(AndBit, a, b)
Or(a, b)  == Bitwise2(OrBit, a, b)
Xor(a, b) == Bitwise2(XorBit, a, b)

\* Signed division truncates towards zero (Verilog "/" and "%").
AbsVal(x) == IF x < 0 THEN -x ELSE x
QuotTrunc(x, y) == LET q == AbsVal(x) \div AbsVal(y)
                   IN  IF (x < 0) # (y < 0) THEN -q ELSE q
RemTrunc(x, y)  == x - y * QuotTrunc(x, y)

\* Mutant: the sign of the 32-bit difference.
SubsNeg_narrow(a, b) == SignOf(Wrap(a - b)) = 1

\* result_subs[32] and result_subu[32]: the sign of the 33-bit difference.
SubsNeg(a, b) == ToInt(a) - ToInt(b) < 0
SubuNeg(a, b) == a - b < 0

\* Shifts use the low log2(XLEN) bits of the second operand.
Shamt(b) == b % XLEN
Srl(a, n) == a \div Pow2(n)
Sra(a, n) == Wrap(ToInt(a) \div Pow2(n))

result_mul(a, b)   == ToInt(a) * ToInt(b)
result_mulsu(a, b) == ToInt(a) * b
result_mulu(a, b)  == a * b
High(p) == Wrap(p \div M)    \* [63:32] of a product

MostNegative(a) == 2 * a = M
result_div(a, b)  == CASE b = 0 -> M - 1
                       [] MostNegative(a) /\ b = M - 1 -> a
                       [] OTHER -> Wrap(QuotTrunc(ToInt(a), ToInt(b)))
\* Mutant: the quotient is rounded down.
result_rem_floor(a, b) == CASE b = 0 -> a
                            [] MostNegative(a) /\ b = M - 1 -> 0
                            [] OTHER -> Wrap(ToInt(a) - ToInt(b) *
                                 (IF ToInt(b) > 0 THEN ToInt(a) \div ToInt(b)
                                                  ELSE (-ToInt(a)) \div (-ToInt(b))))
result_divu(a, b) == IF b = 0 THEN M - 1 ELSE a \div b
result_rem(a, b)  == CASE b = 0 -> a
                       [] MostNegative(a) /\ b = M - 1 -> 0
                       [] OTHER -> Wrap(RemTrunc(ToInt(a), ToInt(b)))
result_remu(a, b) == IF b = 0 THEN a ELSE a % b

AluResult(f, a, b) ==
  CASE f = "ADD"   -> Wrap(a + b)
    [] f = "SUB"   -> Wrap(a - b)
    [] f = "SLL"   -> Wrap(a * Pow2(Shamt(b)))
    [] f = "SLT"   -> IF SubsNeg(a, b) THEN 1 ELSE 0
    [] f = "SLTU"  -> IF SubuNeg(a, b) THEN 1 ELSE 0
    [] f = "XOR"   -> Xor(a, b)
    [] f = "SRL"   -> Srl(a, Shamt(b))
    [] f = "SRA"   -> Sra(a, Shamt(b))
    [] f = "OR"    -> Or(a, b)
    [] f = "AND"   -> And(a, b)
    [] f = "MUL"   -> Wrap(result_mul(a, b))
    [] f = "MULH"  -> High(result_mul(a, b))
    [] f = "MULSU" -> High(result_mulsu(a, b))
    [] f = "MULU"  -> High(result_mulu(a, b))
    [] f = "DIV"   -> result_div(a, b)
    [] f = "DIVU"  -> result_divu(a, b)
    [] f = "REM"   -> result_rem(a, b)
    [] f = "REMU"  -> result_remu(a, b)
=============================================================================
