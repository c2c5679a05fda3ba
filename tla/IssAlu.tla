------------------------------- MODULE IssAlu -------------------------------
(***************************************************************************)
(* The arithmetic of tools/rvsim.c: what its C expressions can yield for   *)
(* the register instructions, on the words of XLEN bits of AluOps.         *)
(***************************************************************************)
EXTENDS AluOps

\* A bitwise operation on the sets of bits that are one.
Ones(x) == {i \in 0 .. XLEN - 1 : Bit(x, i) = 1}
IsWordOf(x, ones) == x \in XWord /\ Ones(x) = ones

\* A shift whose amount is a whole register: undefined from XLEN on, where a
\* processor masks the amount or shifts everything out.
Amounts(n)  == IF n < XLEN THEN {n} ELSE {n % XLEN, XLEN}
Left(x, n)  == Wrap(x * Pow2(n))
Right(x, n) == x \div Pow2(n)
Arith(x, n) == Wrap(ToInt(x) \div Pow2(n))

\* The C quotient and remainder, made in 64 bits and cut to 32.
IssDiv(x, y) == CHOOSE q \in -M .. M :
                  /\ AbsVal(x - q * y) < AbsVal(y)
                  /\ x - q * y = 0 \/ (x - q * y < 0 <=> x < 0)
IssRem(x, y) == x - y * IssDiv(x, y)

\* The upper word of a 64-bit product.
Upper(p) == (p \div M) % M

IssResults(f, x, y) ==
  CASE f = "ADD"   -> {(ToInt(x) + ToInt(y)) % M}
    [] f = "SUB"   -> {(ToInt(x) - ToInt(y)) % M}
    [] f = "SLL"   -> {Left(x, n) : n \in Amounts(y)}
    [] f = "SLT"   -> {IF ToInt(x) < ToInt(y) THEN 1 ELSE 0}
    [] f = "SLTU"  -> {IF x < y THEN 1 ELSE 0}
    [] f = "XOR"   -> {z \in XWord : IsWordOf(z, (Ones(x) \cup Ones(y)) \ (Ones(x) \cap Ones(y)))}
    [] f = "SRL"   -> {Right(x, n) : n \in Amounts(y)}
    [] f = "SRA"   -> {Arith(x, n) : n \in Amounts(y)}
    [] f = "OR"    -> {z \in XWord : IsWordOf(z, Ones(x) \cup Ones(y))}
    [] f = "AND"   -> {z \in XWord : IsWordOf(z, Ones(x) \cap Ones(y))}
    [] f = "MUL"   -> {(ToInt(x) * ToInt(y)) % M}
    [] f = "MULH"  -> {Upper(ToInt(x) * ToInt(y))}
    [] f = "MULSU" -> {Upper(ToInt(x) * y)}
    [] f = "MULU"  -> {Upper(x * y)}
    [] f = "DIV"   -> {IF y # 0 THEN IssDiv(ToInt(x), ToInt(y)) % M ELSE M - 1}
    [] f = "DIVU"  -> {IF y # 0 THEN x \div y ELSE M - 1}
    [] f = "REM"   -> {IF y # 0 THEN IssRem(ToInt(x), ToInt(y)) % M ELSE x}
    [] f = "REMU"  -> {IF y # 0 THEN x % y ELSE x}
=============================================================================
