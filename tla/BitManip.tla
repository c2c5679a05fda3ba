------------------------------ MODULE BitManip ------------------------------
(***************************************************************************)
(* The RV32B instructions of tools/rvsim.c on 32-bit words, against what   *)
(* the extension says of their bits.  A word is the set of the positions   *)
(* where it is one, so that &, |, ^ and ~ are operations on sets.          *)
(***************************************************************************)
EXTENDS Integers, FiniteSetsExt

Positions == 0 .. 31

Not(x)    == Positions \ x
XorSet(x, y) == (x \ y) \cup (y \ x)
Shl(x, n) == {i \in Positions : i - n \in x}
Shr(x, n) == {i \in Positions : i + n \in x}
Bits(m, n) == n .. m

\* x + y, x - 1 and -x modulo 2^32, and a product with a word.
Add(x, y) ==
  LET carry[i \in 0 .. 32] ==
        i # 0 /\ (i - 1 \in x \cap y \/ (i - 1 \in x \cup y /\ carry[i - 1]))
  IN  {i \in Positions : carry[i] # (i \in XorSet(x, y))}
Dec(x)    == Add(x, Positions)
Neg(x)    == Add(Not(x), {0})
Mul(x, y) == FoldSet(LAMBDA i, acc : Add(acc, Shl(y, i)), {}, x)

\* x < y, unsigned and signed.
LessU(x, y) == XorSet(x, y) # {} /\ Max(XorSet(x, y)) \in y
LessS(x, y) == IF 31 \in XorSet(x, y) THEN 31 \in x ELSE LessU(x, y)

-----------------------------------------------------------------------------
(* The simulator. *)

\* One line of the binary search: nothing in the upper k bits.
ClzStep(s, k) == IF s.x \cap Bits(31, 32 - k) = {} THEN [x |-> Shl(s.x, k), r |-> s.r + k] ELSE s

\* Mutant: the search stops at pairs of bits.
clz_short(x) ==
  IF x = {} THEN 32
  ELSE ClzStep(ClzStep(ClzStep(ClzStep([x |-> x, r |-> 0], 16), 8), 4), 2).r

clz(x) ==
  IF x = {} THEN 32
  ELSE ClzStep(ClzStep(ClzStep(ClzStep(ClzStep([x |-> x, r |-> 0], 16), 8), 4), 2), 1).r

\* while (n) { n &= n - 1; c++ }
cpop(x) ==
  LET loop[n \in SUBSET Positions] == IF n = {} THEN 0 ELSE 1 + loop[n \cap Dec(n)]
  IN  loop[x]

CtzTable == <<0, 1, 28, 2, 29, 14, 24, 3, 30, 22, 20, 15, 25, 17, 4, 8,
              31, 27, 13, 23, 21, 19, 16, 7, 26, 12, 18, 6, 11, 5, 10, 9>>
\* 0x077CB531
CtzFactor == {0, 4, 5, 8, 10, 12, 13, 15, 18, 19, 20, 21, 22, 24, 25, 26}
ctz(x) ==
  LET top == Shr(Mul(x \cap Neg(x), CtzFactor), 27)
  IN  IF x = {} THEN 32 ELSE CtzTable[1 + SumSet({2 ^ i : i \in top})]

sext(x, m)  == IF m \in x THEN (x \cap Bits(m, 0)) \cup Bits(31, m + 1) ELSE x \cap Bits(m, 0)
zext_h(x)   == x \cap Bits(15, 0)
orc_b(x)    == UNION {b \in {Bits(7, 0), Bits(15, 8), Bits(23, 16), Bits(31, 24)} : x \cap b # {}}
rev8(x)     == (Shr(x, 24) \cap Bits(7, 0)) \cup (Shr(x, 8) \cap Bits(15, 8))
               \cup (Shl(x, 8) \cap Bits(23, 16)) \cup (Shl(x, 24) \cap Bits(31, 24))

\* A shift by 32 is undefined: a processor leaves the word as it is, a compiler
\* may fold it to zero.
ShlOutcomes(x, n) == IF n < 32 THEN {Shl(x, n)} ELSE {x, {}}
ShrOutcomes(x, n) == IF n < 32 THEN {Shr(x, n)} ELSE {x, {}}
rol(x, n) == {Shl(x, n) \cup z : z \in ShrOutcomes(x, 32 - n)}
ror(x, n) == {Shr(x, n) \cup z : z \in ShlOutcomes(x, 32 - n)}

\* The carry-less products, a loop over the bits of y each.
XorLoop(y, from, part(_)) ==
  FoldSet(LAMBDA i, n : IF i \in y THEN XorSet(n, part(i)) ELSE n, {}, from .. 31)
clmul(x, y)  == XorLoop(y, 0, LAMBDA i : Shl(x, i))
clmulh(x, y) == XorLoop(y, 1, LAMBDA i : Shr(x, 32 - i))
clmulr(x, y) == XorLoop(y, 0, LAMBDA i : Shr(x, 32 - i - 1))

min(x, y)  == IF LessS(x, y) THEN x ELSE y
max(x, y)  == IF LessS(y, x) THEN x ELSE y
minu(x, y) == IF LessU(x, y) THEN x ELSE y
maxu(x, y) == IF LessU(y, x) THEN x ELSE y
shadd(x, y, k) == Add(y, Shl(x, k))
bset(x, n) == x \cup Shl({0}, n)
bclr(x, n) == x \cap Not(Shl({0}, n))
binv(x, n) == XorSet(x, Shl({0}, n))
bext(x, n) == Shr(x, n) \cap {0}
andn(x, y) == x \cap Not(y)
orn(x, y)  == x \cup Not(y)
xnor(x, y) == Not(XorSet(x, y))

-----------------------------------------------------------------------------
(* What the extension says of the bits of the results. *)

\* Bit k of a product of polynomials over GF(2).
ClBit(x, y, k) == Cardinality({i \in x : k - i \in y}) % 2 = 1

\* The halfwords of a word as numbers.
LowHalf(x)  == SumSet({2 ^ i : i \in x \cap Bits(15, 0)})
HighHalf(x) == SumSet({2 ^ (i - 16) : i \in x \cap Bits(31, 16)})
Signed(x) == IF 31 \in x THEN HighHalf(x) - 2 ^ 16 ELSE HighHalf(x)

Scale == [o \in {"sh1add", "sh2add", "sh3add"} |->
            CASE o = "sh1add" -> 1 [] o = "sh2add" -> 2 [] o = "sh3add" -> 3]

\* One operation at a time, on words x and y and a shift amount n.
AsSpecified(o, x, y, n) ==
  CASE o = "clz"    -> clz(x) = (IF x = {} THEN 32 ELSE 31 - Max(x))
    [] o = "ctz"    -> ctz(x) = (IF x = {} THEN 32 ELSE Min(x))
    [] o = "cpop"   -> cpop(x) = Cardinality(x)
    [] o \in {"sext.b", "sext.h"} ->
         LET m == IF o = "sext.b" THEN 7 ELSE 15
         IN  \A i \in Positions : i \in sext(x, m) <=> (IF i > m THEN m ELSE i) \in x
    [] o = "zext.h" -> LowHalf(zext_h(x)) = LowHalf(x) /\ HighHalf(zext_h(x)) = 0
    [] o = "orc.b"  -> \A i \in Positions : i \in orc_b(x) <=> \E j \in x : j \div 8 = i \div 8
    [] o = "rev8"   -> \A i \in Positions : i \in rev8(x) <=> 8 * (3 - i \div 8) + (i % 8) \in x
    [] o = "rol"    -> rol(x, n) = {{(i + n) % 32 : i \in x}}
    [] o \in {"ror", "rori"}   -> ror(x, n) = {{(i - n) % 32 : i \in x}}
    [] o \in {"bset", "bseti"} -> n \in bset(x, n) /\ bset(x, n) \ {n} = x \ {n}
    [] o \in {"bclr", "bclri"} -> n \notin bclr(x, n) /\ bclr(x, n) \ {n} = x \ {n}
    [] o \in {"binv", "binvi"} -> (n \in binv(x, n) <=> n \notin x) /\ binv(x, n) \ {n} = x \ {n}
    [] o \in {"bext", "bexti"} -> bext(x, n) = IF n \in x THEN {0} ELSE {}
    [] o = "clmul"  -> clmul(x, y) = {k \in Positions : ClBit(x, y, k)}
    [] o = "clmulh" -> clmulh(x, y) = {k \in Positions : ClBit(x, y, k + 32)}
    [] o = "clmulr" -> clmulr(x, y) = {k \in Positions : ClBit(x, y, k + 31)}
    [] o \in {"min", "max"}   -> /\ {min(x, y), max(x, y)} = {x, y}
                                 /\ Signed(min(x, y)) <= Signed(max(x, y))
    [] o \in {"minu", "maxu"} -> /\ {minu(x, y), maxu(x, y)} = {x, y}
                                 /\ HighHalf(minu(x, y)) <= HighHalf(maxu(x, y))
    [] o \in DOMAIN Scale ->
         LET s  == shadd(x, y, Scale[o])
             lo == LowHalf(y) + 2 ^ Scale[o] * LowHalf(x)
         IN  /\ LowHalf(s) = lo % 2 ^ 16
             /\ HighHalf(s) = (HighHalf(y) + 2 ^ Scale[o] * HighHalf(x) + lo \div 2 ^ 16) % 2 ^ 16
    [] o = "andn"   -> \A i \in Positions : i \in andn(x, y) <=> i \in x /\ i \notin y
    [] o = "orn"    -> \A i \in Positions : i \in orn(x, y) <=> (i \in y => i \in x)
    [] o = "xnor"   -> \A i \in Positions : i \in xnor(x, y) <=> (i \in x <=> i \in y)
=============================================================================
