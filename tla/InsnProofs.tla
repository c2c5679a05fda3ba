----------------------------- MODULE InsnProofs -----------------------------
(***************************************************************************)
(* Proofs about the instructions: the arithmetic of the core and of the    *)
(* simulator agree on words of every width, and their decoders agree on    *)
(* every 32-bit word.                                                      *)
(***************************************************************************)
EXTENDS InsnCheck, WellFoundedInduction, TLAPS

-----------------------------------------------------------------------------
(* Induction, from the least element of a set of numbers. *)

LEMMA SetInduction ==
  ASSUME NEW T, 0 \in T, \A n \in Nat : n \in T => n + 1 \in T PROVE Nat \subseteq T
<1> DEFINE R == OpToRel(<, Nat)
           S == Nat \ T
<1> SUFFICES ASSUME S # {} PROVE FALSE
  OBVIOUS
<1>1. IsWellFoundedOn(R, Nat)
  BY NatLessThanWellFounded
<1>2. \A x, y \in Nat : <<x, y>> \in R <=> x < y
  BY DEF OpToRel
<1> HIDE DEF R
<1>3. PICK m \in S : \A y \in S : ~(<<y, m>> \in R)
  BY <1>1, WFMin
<1>4. m # 0 /\ m - 1 \in Nat
  BY <1>3
<1>5. m - 1 \in S
  BY <1>3, <1>4
<1>6. <<m - 1, m>> \in R
  BY <1>2, <1>3, <1>4
<1> QED
  BY <1>3, <1>5, <1>6

-----------------------------------------------------------------------------
(* Quotients, and powers of two. *)

LEMMA ProductNat == ASSUME NEW x \in Nat, NEW y \in Nat PROVE x * y \in Nat
OBVIOUS

\* A number has one quotient and one remainder.
LEMMA Euclid ==
  ASSUME NEW n \in Int, NEW d \in Nat, d > 0, NEW q \in Int, NEW r \in Nat, r < d, n = d * q + r
  PROVE  n \div d = q /\ n % d = r
<1> DEFINE p == n \div d
           s == n % d
<1>1. p \in Int /\ s \in Nat /\ s < d /\ n = d * p + s
  OBVIOUS
<1> HIDE DEF p, s
<1>2. ~(p < q)
  <2> SUFFICES ASSUME p < q PROVE FALSE
    OBVIOUS
  <2>1. q - p - 1 \in Nat
    BY <1>1
  <2>2. d * (q - p - 1) \in Nat
    BY <2>1, ProductNat
  <2>3. d * (q - p - 1) = d * q - d * p - d
    BY <1>1
  <2>4. d * p \in Int /\ d * q \in Int
    BY <1>1
  <2> QED
    BY <1>1, <2>2, <2>3, <2>4
<1>3. ~(q < p)
  <2> SUFFICES ASSUME q < p PROVE FALSE
    OBVIOUS
  <2>1. p - q - 1 \in Nat
    BY <1>1
  <2>2. d * (p - q - 1) \in Nat
    BY <2>1, ProductNat
  <2>3. d * (p - q - 1) = d * p - d * q - d
    BY <1>1
  <2>4. d * p \in Int /\ d * q \in Int
    BY <1>1
  <2> QED
    BY <1>1, <2>2, <2>3, <2>4
<1>4. p = q
  BY <1>1, <1>2, <1>3
<1>5. s = r
  BY <1>1, <1>4
<1> QED
  BY <1>4, <1>5 DEF p, s

LEMMA PowPositive == \A n \in 0 .. XLEN : Pow2(n) \in Nat /\ Pow2(n) > 0
<1> DEFINE T == {n \in Nat : n <= XLEN => Pow2(n) \in Nat /\ Pow2(n) > 0}
<1>1. 0 \in T
  BY AluAssumption
<1>2. \A n \in Nat : n \in T => n + 1 \in T
  BY AluAssumption
<1> HIDE DEF T
<1>3. Nat \subseteq T
  BY <1>1, <1>2, SetInduction
<1> QED
  BY <1>3, AluAssumption DEF T

LEMMA MFact == M \in Nat /\ M >= 2 /\ \E h \in Nat : h > 0 /\ M = 2 * h
<1>1. Pow2(XLEN - 1) \in Nat /\ Pow2(XLEN - 1) > 0
  BY PowPositive, AluAssumption
<1>2. M = 2 * Pow2(XLEN - 1)
  BY AluAssumption DEF M
<1> QED
  BY <1>1, <1>2

LEMMA WrapWord == ASSUME NEW n \in Int PROVE Wrap(n) \in XWord
BY MFact DEF Wrap, XWord

\* A word is the value of its two's complement modulo 2^XLEN.
LEMMA ToIntFact ==
  ASSUME NEW x \in XWord
  PROVE  /\ ToInt(x) \in Int /\ -M <= 2 * ToInt(x) /\ 2 * ToInt(x) < M
         /\ Wrap(ToInt(x)) = x /\ x \in Nat /\ x < M
         /\ ToInt(x) = IF 2 * x >= M THEN x - M ELSE x
<1>1. x \in Nat /\ x < M /\ M \in Nat /\ M > 0
  BY MFact DEF XWord
<1>2. ToInt(x) = IF 2 * x >= M THEN x - M ELSE x
  BY <1>1 DEF ToInt, SignOf
<1>3. ToInt(x) \in Int /\ (ToInt(x) = M * 0 + x \/ ToInt(x) = M * (-1) + x)
  BY <1>1, <1>2
<1>4. ToInt(x) % M = x
  BY <1>1, <1>3, Euclid
<1> QED
  BY <1>1, <1>2, <1>4 DEF Wrap

\* What fits into a word comes back from it.
LEMMA Fits ==
  ASSUME NEW n \in Int, -M <= 2 * n, 2 * n < M PROVE ToInt(Wrap(n)) = n
<1>1. M \in Nat /\ M > 0 /\ Wrap(n) \in XWord
  BY MFact, WrapWord
<1>2. CASE n >= 0
  <2>1. n % M = n
    BY <1>1, <1>2
  <2> QED
    BY <1>1, <1>2, <2>1, ToIntFact DEF Wrap
<1>3. CASE n < 0
  <2>1. n + M \in Nat /\ n + M < M /\ n = M * (-1) + (n + M)
    BY <1>1, <1>3
  <2>2. n % M = n + M
    BY <1>1, <2>1, Euclid
  <2> QED
    BY <1>1, <1>3, <2>2, ToIntFact DEF Wrap
<1> QED
  BY <1>2, <1>3

-----------------------------------------------------------------------------
(* Division. *)

\* The truncated quotient and its remainder, of integers.
LEMMA Truncated ==
  ASSUME NEW x \in Int, NEW y \in Int, y # 0
  PROVE  /\ QuotTrunc(x, y) \in Int /\ RemTrunc(x, y) \in Int
         /\ x = y * QuotTrunc(x, y) + RemTrunc(x, y)
         /\ AbsVal(RemTrunc(x, y)) < AbsVal(y)
         /\ RemTrunc(x, y) = 0 \/ (RemTrunc(x, y) < 0 <=> x < 0)
         /\ AbsVal(QuotTrunc(x, y)) \in Nat /\ AbsVal(QuotTrunc(x, y)) <= AbsVal(x)
         /\ AbsVal(y) > 1 => 2 * AbsVal(QuotTrunc(x, y)) <= AbsVal(x)
<1> DEFINE u == AbsVal(x)
           v == AbsVal(y)
           p == u \div v
           s == u % v
           q == QuotTrunc(x, y)
           r == RemTrunc(x, y)
<1>1. /\ u \in Nat /\ v \in Nat /\ v > 0
      /\ (x >= 0 /\ x = u) \/ (x < 0 /\ x = -u)
      /\ (y > 0 /\ y = v) \/ (y < 0 /\ y = -v)
  BY DEF AbsVal
<1>2. q = IF (x < 0) # (y < 0) THEN -p ELSE p
  BY DEF QuotTrunc
<1>3. r = x - y * q
  BY DEF RemTrunc
<1> HIDE DEF u, v, q, r
<1>4. p \in Nat /\ s \in Nat /\ s < v /\ u = v * p + s
  BY <1>1
<1> HIDE DEF p, s
<1>5. q \in Int /\ (q = p \/ q = -p) /\ ((x < 0 <=> y < 0) => q = p) /\ (~(x < 0 <=> y < 0) => q = -p)
  BY <1>2, <1>4
<1>6. v * p \in Nat
  BY <1>1, <1>4
<1>7. y * q = (IF x < 0 THEN -(v * p) ELSE v * p)
  <2>1. CASE x >= 0 /\ y > 0
    BY <1>1, <1>4, <1>5, <2>1
  <2>2. CASE x >= 0 /\ y < 0
    BY <1>1, <1>4, <1>5, <2>2
  <2>3. CASE x < 0 /\ y > 0
    BY <1>1, <1>4, <1>5, <2>3
  <2>4. CASE x < 0 /\ y < 0
    BY <1>1, <1>4, <1>5, <2>4
  <2> QED
    BY <1>1, <2>1, <2>2, <2>3, <2>4
<1>8. r = IF x < 0 THEN -s ELSE s
  BY <1>1, <1>3, <1>4, <1>6, <1>7
<1>9. p <= u
  <2>1. v - 1 \in Nat /\ (v - 1) * p = v * p - p
    BY <1>1, <1>4
  <2>2. (v - 1) * p \in Nat
    BY <1>4, <2>1, ProductNat
  <2> QED
    BY <1>1, <1>4, <1>6, <2>1, <2>2
<1>10. v > 1 => 2 * p <= u
  <2> SUFFICES ASSUME v > 1 PROVE 2 * p <= u
    OBVIOUS
  <2>1. v - 2 \in Nat /\ (v - 2) * p = v * p - 2 * p
    BY <1>1, <1>4
  <2>2. (v - 2) * p \in Nat
    BY <1>4, <2>1, ProductNat
  <2> QED
    BY <1>1, <1>4, <1>6, <2>1, <2>2
<1>11. AbsVal(q) = p /\ AbsVal(r) = s
  BY <1>4, <1>5, <1>8 DEF AbsVal
<1>12. q \in Int /\ r \in Int /\ x = y * q + r
  <2>1. r \in Int /\ y * q \in Int
    BY <1>4, <1>5, <1>8
  <2> QED
    BY <1>3, <1>5, <2>1
<1>13. r = 0 \/ (r < 0 <=> x < 0)
  BY <1>4, <1>8
<1>14. AbsVal(x) = u /\ AbsVal(y) = v /\ QuotTrunc(x, y) = q /\ RemTrunc(x, y) = r
  BY DEF u, v, q, r
<1> QED
  BY <1>4, <1>9, <1>10, <1>11, <1>12, <1>13, <1>14

\* The quotient of two words fits into a word, but for the one that overflows.
LEMMA QuotientFits ==
  ASSUME NEW x \in XWord, NEW y \in XWord, y # 0, ~(MostNegative(x) /\ y = M - 1)
  PROVE  /\ ToInt(y) # 0 /\ ToInt(y) \in Int /\ ToInt(x) \in Int
         /\ ToInt(Wrap(QuotTrunc(ToInt(x), ToInt(y)))) = QuotTrunc(ToInt(x), ToInt(y))
         /\ ToInt(Wrap(RemTrunc(ToInt(x), ToInt(y)))) = RemTrunc(ToInt(x), ToInt(y))
<1> DEFINE u == ToInt(x)
           v == ToInt(y)
           q == QuotTrunc(u, v)
           r == RemTrunc(u, v)
<1>1. /\ u \in Int /\ -M <= 2 * u /\ 2 * u < M /\ u = IF 2 * x >= M THEN x - M ELSE x
      /\ v \in Int /\ -M <= 2 * v /\ 2 * v < M /\ v = IF 2 * y >= M THEN y - M ELSE y
      /\ x \in Nat /\ x < M /\ y \in Nat /\ y < M /\ M \in Nat /\ M >= 2
  BY ToIntFact, MFact
<1>2. v # 0
  BY <1>1
<1>3. ~(2 * u = -M /\ v = -1)
  BY <1>1 DEF MostNegative
<1> HIDE DEF u, v
<1>4. /\ q \in Int /\ r \in Int /\ AbsVal(r) < AbsVal(v) /\ AbsVal(q) \in Nat /\ AbsVal(q) <= AbsVal(u)
      /\ AbsVal(v) > 1 => 2 * AbsVal(q) <= AbsVal(u)
  BY <1>1, <1>2, Truncated
<1>5. -M <= 2 * r /\ 2 * r < M
  BY <1>1, <1>2, <1>4 DEF AbsVal
<1>6. -M <= 2 * q /\ 2 * q < M
  <2>1. CASE AbsVal(v) > 1
    BY <1>1, <1>4, <2>1 DEF AbsVal
  <2>2. CASE v = 1
    <3>1. AbsVal(u) \div 1 = AbsVal(u)
      BY <1>1 DEF AbsVal
    <3>2. q = u
      BY <1>1, <2>2, <3>1 DEF QuotTrunc, AbsVal
    <3> QED
      BY <1>1, <3>2
  <2>3. CASE v = -1
    <3>1. AbsVal(u) \div 1 = AbsVal(u)
      BY <1>1 DEF AbsVal
    <3>2. q = -u
      BY <1>1, <2>3, <3>1 DEF QuotTrunc, AbsVal
    <3> QED
      BY <1>1, <1>3, <2>3, <3>2
  <2> QED
    BY <1>1, <1>2, <2>1, <2>2, <2>3 DEF AbsVal
<1> HIDE DEF q, r
<1>7. ToInt(Wrap(q)) = q /\ ToInt(Wrap(r)) = r
  BY <1>4, <1>5, <1>6, Fits
<1> QED
  BY <1>1, <1>2, <1>7 DEF u, v, q, r

\* The signed division of the core.
LEMMA SignedDivision ==
  ASSUME NEW x \in XWord, NEW y \in XWord
  PROVE  LET q == result_div(x, y)
             r == result_rem(x, y)
         IN  /\ q \in XWord /\ r \in XWord
             /\ Wrap(ToInt(q) * ToInt(y) + ToInt(r)) = x
             /\ y # 0 => /\ AbsVal(ToInt(r)) < AbsVal(ToInt(y))
                         /\ ToInt(r) = 0 \/ (ToInt(r) < 0 <=> ToInt(x) < 0)
<1> DEFINE q == result_div(x, y)
           r == result_rem(x, y)
           u == ToInt(x)
           v == ToInt(y)
<1>1. /\ M \in Nat /\ M >= 2 /\ u \in Int /\ v \in Int /\ Wrap(u) = x
      /\ x \in Nat /\ y \in Nat /\ x < M /\ y < M
      /\ v = IF 2 * y >= M THEN y - M ELSE y
  BY MFact, ToIntFact
<1>2. ToInt(0) = 0 /\ 0 \in XWord /\ M - 1 \in XWord /\ ToInt(M - 1) = -1
  BY <1>1, ToIntFact DEF XWord
<1> SUFFICES /\ q \in XWord /\ r \in XWord
             /\ Wrap(ToInt(q) * v + ToInt(r)) = x
             /\ y # 0 => /\ AbsVal(ToInt(r)) < AbsVal(v)
                         /\ ToInt(r) = 0 \/ (ToInt(r) < 0 <=> u < 0)
  OBVIOUS
<1>3. CASE y = 0
  <2>1. q = M - 1 /\ r = x
    BY <1>1, <1>3 DEF result_div, result_rem
  <2>2. v = 0
    BY <1>1, <1>3
  <2>3. ToInt(q) * v + ToInt(r) = u
    BY <1>1, <1>2, <2>1, <2>2
  <2> QED
    BY <1>1, <1>2, <1>3, <2>1, <2>3
<1>4. CASE y # 0 /\ MostNegative(x) /\ y = M - 1
  <2>1. q = x /\ r = 0
    BY <1>4 DEF result_div, result_rem
  <2>2. v = -1 /\ 2 * x = M
    BY <1>2, <1>4 DEF MostNegative
  <2>0. u = x - M
    BY <1>1, <2>2, ToIntFact
  <2>3. ToInt(q) * v + ToInt(r) = x
    BY <1>1, <1>2, <2>0, <2>1, <2>2
  <2>4. Wrap(x) = x
    BY <1>1 DEF Wrap
  <2>5. AbsVal(ToInt(r)) < AbsVal(v)
    BY <1>2, <2>1, <2>2 DEF AbsVal
  <2> QED
    BY <1>2, <2>1, <2>3, <2>4, <2>5
<1>5. CASE y # 0 /\ ~(MostNegative(x) /\ y = M - 1)
  <2>1. q = Wrap(QuotTrunc(u, v)) /\ r = Wrap(RemTrunc(u, v))
    BY <1>5 DEF result_div, result_rem
  <2>2. v # 0 /\ ToInt(q) = QuotTrunc(u, v) /\ ToInt(r) = RemTrunc(u, v)
    BY <1>5, <2>1, QuotientFits
  <2>3. /\ QuotTrunc(u, v) \in Int /\ RemTrunc(u, v) \in Int
        /\ u = v * QuotTrunc(u, v) + RemTrunc(u, v)
        /\ AbsVal(RemTrunc(u, v)) < AbsVal(v)
        /\ RemTrunc(u, v) = 0 \/ (RemTrunc(u, v) < 0 <=> u < 0)
    BY <1>1, <2>2, Truncated
  <2>4. q \in XWord /\ r \in XWord
    BY <2>1, <2>3, WrapWord
  <2> HIDE DEF q, r, u, v
  <2>5. ToInt(q) * v + ToInt(r) = u
    BY <1>1, <2>2, <2>3
  <2> QED
    BY <1>1, <2>2, <2>3, <2>4, <2>5
<1> QED
  BY <1>3, <1>4, <1>5

\* The unsigned one.
LEMMA UnsignedDivision ==
  ASSUME NEW x \in XWord, NEW y \in XWord
  PROVE  LET q == result_divu(x, y)
             r == result_remu(x, y)
         IN  q \in XWord /\ r \in XWord /\ Wrap(q * y + r) = x /\ (y # 0 => r < y)
<1> DEFINE q == result_divu(x, y)
           r == result_remu(x, y)
<1>1. x \in Nat /\ y \in Nat /\ x < M /\ y < M /\ M \in Nat /\ M >= 2 /\ Wrap(x) = x
  BY MFact DEF XWord, Wrap
<1>2. CASE y = 0
  <2>1. q = M - 1 /\ r = x
    BY <1>2 DEF result_divu, result_remu
  <2>2. q * y + r = x
    BY <1>1, <1>2, <2>1
  <2> QED
    BY <1>1, <1>2, <2>1, <2>2 DEF XWord
<1>3. CASE y # 0
  <2>1. q = x \div y /\ r = x % y
    BY <1>3 DEF result_divu, result_remu
  <2>2. q \in Nat /\ r \in Nat /\ r < y /\ x = y * q + r
    BY <1>1, <1>3, <2>1
  <2> HIDE DEF q, r
  <2>3. q * y + r = x
    BY <1>1, <2>2
  <2>4. q <= x
    <3>1. y - 1 \in Nat /\ (y - 1) * q = y * q - q
      BY <1>1, <1>3, <2>2
    <3>2. (y - 1) * q \in Nat /\ y * q \in Nat
      BY <1>1, <2>2, <3>1, ProductNat
    <3> QED
      BY <1>1, <2>2, <3>1, <3>2
  <2>5. q \in XWord /\ r \in XWord
    BY <1>1, <2>2, <2>4 DEF XWord
  <2> QED
    BY <1>1, <2>2, <2>3, <2>5 DEF q, r
<1> QED
  BY <1>2, <1>3

LEMMA DivisionHolds == ASSUME a \in XWord, b \in XWord PROVE DivisionIdentity
<1>1. /\ AluResult("DIV", a, b) = result_div(a, b)
      /\ AluResult("REM", a, b) = result_rem(a, b)
      /\ AluResult("DIVU", a, b) = result_divu(a, b)
      /\ AluResult("REMU", a, b) = result_remu(a, b)
  BY DEF AluResult
<1> DEFINE q == result_div(a, b)
           r == result_rem(a, b)
           u == result_divu(a, b)
           v == result_remu(a, b)
<1>2. /\ Wrap(ToInt(q) * ToInt(b) + ToInt(r)) = a
      /\ b # 0 => /\ AbsVal(ToInt(r)) < AbsVal(ToInt(b))
                  /\ ToInt(r) = 0 \/ (ToInt(r) < 0 <=> ToInt(a) < 0)
  BY SignedDivision
<1>3. Wrap(u * b + v) = a /\ (b # 0 => v < b)
  BY UnsignedDivision
<1> HIDE DEF q, r, u, v
<1>4. DivisionIdentity <=>
        (inst \in Registers =>
           /\ Wrap(ToInt(q) * ToInt(b) + ToInt(r)) = a
           /\ Wrap(u * b + v) = a
           /\ b # 0 => /\ AbsVal(ToInt(r)) < AbsVal(ToInt(b))
                       /\ ToInt(r) = 0 \/ (ToInt(r) < 0 <=> ToInt(a) < 0)
                       /\ v < b)
  BY <1>1 DEF DivisionIdentity, q, r, u, v
<1> QED
  BY <1>2, <1>3, <1>4

-----------------------------------------------------------------------------
(* The division of the simulator. *)

\* A truncated quotient is the only one with that remainder.
LEMMA QuotientUnique ==
  ASSUME NEW x \in Int, NEW y \in Int, y # 0, NEW p \in Int, NEW q \in Int,
         AbsVal(x - p * y) < AbsVal(y), x - p * y = 0 \/ (x - p * y < 0 <=> x < 0),
         AbsVal(x - q * y) < AbsVal(y), x - q * y = 0 \/ (x - q * y < 0 <=> x < 0)
  PROVE  p = q
<1> DEFINE r == x - p * y
           s == x - q * y
           v == AbsVal(y)
           d == IF y < 0 THEN q - p ELSE p - q
<1>1. r \in Int /\ s \in Int /\ p * y \in Int /\ q * y \in Int
  OBVIOUS
<1>2. v \in Nat /\ v > 0 /\ d \in Int
  BY DEF AbsVal
<1>3. v * d = s - r
  <2>1. CASE y < 0
    <3>1. v = -y /\ d = q - p
      BY <2>1 DEF AbsVal
    <3> QED
      BY <3>1
  <2>2. CASE y > 0
    <3>1. v = y /\ d = p - q
      BY <2>2 DEF AbsVal
    <3> QED
      BY <3>1
  <2> QED
    BY <2>1, <2>2
<1>4. -v < s - r /\ s - r < v
  <2> HIDE DEF r, s, v
  <2>1. AbsVal(r) < v /\ AbsVal(s) < v
    BY DEF r, s, v
  <2>2. (r = 0 \/ (r < 0 <=> x < 0)) /\ (s = 0 \/ (s < 0 <=> x < 0))
    BY DEF r, s
  <2> QED
    BY <1>1, <1>2, <2>1, <2>2 DEF AbsVal
<1> HIDE DEF r, s, v, d
<1>5. d = 0
  <2>1. ~(d > 0)
    <3> SUFFICES ASSUME d > 0 PROVE FALSE
      OBVIOUS
    <3>1. d - 1 \in Nat /\ v * (d - 1) = v * d - v
      BY <1>2
    <3>2. v * (d - 1) \in Nat
      BY <1>2, <3>1, ProductNat
    <3> QED
      BY <1>1, <1>2, <1>3, <1>4, <3>1, <3>2
  <2>2. ~(d < 0)
    <3> SUFFICES ASSUME d < 0 PROVE FALSE
      OBVIOUS
    <3>1. -d - 1 \in Nat /\ v * (-d - 1) = -(v * d) - v
      BY <1>2
    <3>2. v * (-d - 1) \in Nat
      BY <1>2, <3>1, ProductNat
    <3> QED
      BY <1>1, <1>2, <1>3, <1>4, <3>1, <3>2
  <2> QED
    BY <1>2, <2>1, <2>2
<1> QED
  BY <1>5 DEF d

LEMMA IssQuotient ==
  ASSUME NEW x \in XWord, NEW y \in XWord, y # 0
  PROVE  /\ IssDiv(ToInt(x), ToInt(y)) = QuotTrunc(ToInt(x), ToInt(y))
         /\ IssRem(ToInt(x), ToInt(y)) = RemTrunc(ToInt(x), ToInt(y))
<1> DEFINE u == ToInt(x)
           v == ToInt(y)
           q == QuotTrunc(u, v)
           Is(n) == AbsVal(u - n * v) < AbsVal(v) /\ (u - n * v = 0 \/ (u - n * v < 0 <=> u < 0))
<1>1. /\ u \in Int /\ v \in Int /\ v # 0 /\ M \in Nat
      /\ -M <= 2 * u /\ 2 * u < M
  BY ToIntFact, MFact
<1> HIDE DEF u, v
<1>2. /\ q \in Int /\ RemTrunc(u, v) \in Int /\ u = v * q + RemTrunc(u, v)
      /\ AbsVal(RemTrunc(u, v)) < AbsVal(v)
      /\ RemTrunc(u, v) = 0 \/ (RemTrunc(u, v) < 0 <=> u < 0)
      /\ AbsVal(q) \in Nat /\ AbsVal(q) <= AbsVal(u)
  BY <1>1, Truncated
<1>3. RemTrunc(u, v) = u - v * q
  BY DEF RemTrunc
<1> HIDE DEF q
<1>4. u - v * q = u - q * v
  BY <1>1, <1>2
<1>5. Is(q)
  BY <1>2, <1>3, <1>4
<1>6. q \in -M .. M
  BY <1>1, <1>2 DEF AbsVal
<1>7. \A n \in -M .. M : Is(n) => n = q
  BY <1>1, <1>2, <1>5, QuotientUnique
<1>8. IssDiv(u, v) = CHOOSE n \in -M .. M : Is(n)
  BY DEF IssDiv
<1> HIDE DEF Is
<1>9. IssDiv(u, v) = q
  BY <1>5, <1>6, <1>7, <1>8
<1>10. IssRem(u, v) = RemTrunc(u, v)
  BY <1>3, <1>9 DEF IssRem
<1> QED
  BY <1>9, <1>10 DEF u, v, q

-----------------------------------------------------------------------------
(* Bitwise operations: the word with given bits. *)

\* A larger power of two is an even multiple of a smaller one.
LEMMA PowMultiple ==
  ASSUME NEW i \in 0 .. XLEN PROVE \A n \in 0 .. XLEN : i < n => \E c \in Nat : Pow2(n) = Pow2(i) * (2 * c)
<1> DEFINE T == {n \in Nat : n <= XLEN /\ i < n => \E c \in Nat : Pow2(n) = Pow2(i) * (2 * c)}
<1>1. 0 \in T
  BY AluAssumption
<1>2. ASSUME NEW n \in Nat, n \in T PROVE n + 1 \in T
  <2> SUFFICES ASSUME n + 1 <= XLEN, i < n + 1 PROVE \E c \in Nat : Pow2(n + 1) = Pow2(i) * (2 * c)
    OBVIOUS
  <2>1. Pow2(n + 1) = 2 * Pow2(n) /\ Pow2(i) \in Nat
    BY AluAssumption, PowPositive
  <2>2. CASE i = n
    <3>1. Pow2(n + 1) = Pow2(i) * (2 * 1)
      BY <2>1, <2>2
    <3> QED
      BY <3>1
  <2>3. CASE i < n
    <3>1. PICK c \in Nat : Pow2(n) = Pow2(i) * (2 * c)
      BY <1>2, <2>3, AluAssumption
    <3>2. Pow2(n + 1) = Pow2(i) * (2 * (2 * c))
      BY <2>1, <3>1
    <3>3. 2 * c \in Nat
      OBVIOUS
    <3> QED
      BY <3>2, <3>3
  <2> QED
    BY <2>2, <2>3, AluAssumption
<1> HIDE DEF T
<1>3. Nat \subseteq T
  BY <1>1, <1>2, SetInduction
<1> QED
  BY <1>3, AluAssumption DEF T

\* Bits below a multiple of 2^n are those of what is added to it.
LEMMA LowerBit ==
  ASSUME NEW i \in 0 .. XLEN, NEW n \in 0 .. XLEN, i < n, NEW l \in Nat, NEW d \in Nat
  PROVE  Bit(l + d * Pow2(n), i) = Bit(l, i)
<1> DEFINE w == Pow2(i)
           q == l \div w
           r == l % w
<1>1. w \in Nat /\ w > 0
  BY PowPositive
<1>2. PICK c \in Nat : Pow2(n) = w * (2 * c)
  BY PowMultiple
<1> HIDE DEF w
<1>3. q \in Nat /\ r \in Nat /\ r < w /\ l = w * q + r
  BY <1>1
<1> HIDE DEF q, r
<1> DEFINE k == d * c
           z == l + d * Pow2(n)
<1>4. k \in Nat
  BY <1>2
<1> DEFINE j == q + 2 * k
<1>5. z = w * j + r
  <2>1. d * Pow2(n) = w * (2 * k)
    BY <1>1, <1>2
  <2> HIDE DEF k
  <2> QED
    BY <1>1, <1>3, <1>4, <2>1
<1> HIDE DEF k
<1>6. j \in Int
  BY <1>3, <1>4
<1>7. z \div w = j
  <2> HIDE DEF z, j
  <2>1. z \in Int
    BY <1>1, <1>3, <1>5, <1>6
  <2> QED
    BY <1>1, <1>3, <1>5, <1>6, <2>1, Euclid
<1> HIDE DEF z
<1>8. (q + 2 * k) % 2 = q % 2
  BY <1>3, <1>4
<1>9. Bit(z, i) = (z \div w) % 2 /\ Bit(l, i) = q % 2
  BY DEF Bit, q, w
<1> QED
  BY <1>7, <1>8, <1>9 DEF z

\* And the bit itself.
LEMMA TopBit ==
  ASSUME NEW n \in 0 .. XLEN, NEW l \in Nat, l < Pow2(n), NEW d \in {0, 1}
  PROVE  Bit(l + d * Pow2(n), n) = d
<1> DEFINE w == Pow2(n)
<1>1. w \in Nat /\ w > 0
  BY PowPositive
<1>2. l < w
  OBVIOUS
<1>3. Bit(l + d * w, n) = ((l + d * w) \div w) % 2
  BY DEF Bit
<1> HIDE DEF w
<1>4. l + d * w \in Int /\ l + d * w = w * d + l
  BY <1>1
<1>5. (l + d * w) \div w = d
  BY <1>1, <1>2, <1>4, Euclid
<1>6. d % 2 = d
  OBVIOUS
<1> QED
  BY <1>3, <1>5, <1>6 DEF w

\* The recursion of Bitwise2, up to n digits.
Sums(low, g, n) ==
  low = [m \in 0 .. n |-> IF m = 0 THEN 0 ELSE low[m - 1] + g[m - 1] * Pow2(m - 1)]

\* The recursion has a solution.
LEMMA SumsExist == ASSUME NEW g PROVE \A n \in Nat : \E low : Sums(low, g, n)
<1> DEFINE T == {n \in Nat : \E low : Sums(low, g, n)}
<1>1. 0 \in T
  <2> DEFINE f == [m \in 0 .. 0 |-> 0]
  <2>1. Sums(f, g, 0)
    BY DEF Sums
  <2> QED
    BY <2>1
<1>2. ASSUME NEW n \in Nat, n \in T PROVE n + 1 \in T
  <2>1. PICK low : Sums(low, g, n)
    BY <1>2
  <2> DEFINE f == [m \in 0 .. n + 1 |-> IF m = n + 1 THEN low[n] + g[n] * Pow2(n) ELSE low[m]]
  <2>2. \A m \in 0 .. n : low[m] = IF m = 0 THEN 0 ELSE low[m - 1] + g[m - 1] * Pow2(m - 1)
    BY <2>1 DEF Sums
  <2>3. \A m \in 0 .. n + 1 : f[m] = IF m = 0 THEN 0 ELSE f[m - 1] + g[m - 1] * Pow2(m - 1)
    BY <2>2
  <2>4. Sums(f, g, n + 1)
    BY <2>3 DEF Sums
  <2> QED
    BY <2>4
<1> HIDE DEF T
<1>3. Nat \subseteq T
  BY <1>1, <1>2, SetInduction
<1> QED
  BY <1>3 DEF T

\* Its value is a word, and has these bits.
LEMMA SumOfDigits ==
  ASSUME NEW g, NEW low, Sums(low, g, XLEN), \A n \in 0 .. XLEN - 1 : g[n] \in {0, 1}
  PROVE  low[XLEN] \in XWord /\ \A i \in 0 .. XLEN - 1 : Bit(low[XLEN], i) = g[i]
<1> DEFINE T == {n \in Nat : n <= XLEN => /\ low[n] \in Nat /\ low[n] < Pow2(n)
                                          /\ \A i \in 0 .. n - 1 : Bit(low[n], i) = g[i]}
<1>0. XLEN \in Nat
  BY AluAssumption
<1>1. \A m \in 0 .. XLEN : low[m] = IF m = 0 THEN 0 ELSE low[m - 1] + g[m - 1] * Pow2(m - 1)
  BY DEF Sums
<1>2. 0 \in T
  BY <1>0, <1>1, PowPositive
<1>3. ASSUME NEW n \in Nat, n \in T PROVE n + 1 \in T
  <2> SUFFICES ASSUME n + 1 <= XLEN
               PROVE  /\ low[n + 1] \in Nat /\ low[n + 1] < Pow2(n + 1)
                      /\ \A i \in 0 .. n : Bit(low[n + 1], i) = g[i]
    BY <1>0
  <2> DEFINE l == low[n]
             d == g[n]
             w == Pow2(n)
  <2>1. l \in Nat /\ l < w /\ \A i \in 0 .. n - 1 : Bit(l, i) = g[i]
    BY <1>0, <1>3
  <2>2. d \in {0, 1} /\ w \in Nat /\ w > 0 /\ Pow2(n + 1) = 2 * w
    BY <1>0, AluAssumption, PowPositive
  <2>3. low[n + 1] = l + d * w
    BY <1>0, <1>1
  <2>4. l + d * w \in Nat /\ l + d * w < 2 * w
    <3> HIDE DEF l, d, w
    <3> QED
      BY <2>1, <2>2
  <2>5. Bit(l + d * w, n) = d
    BY <1>0, <2>1, <2>2, TopBit
  <2>6. \A i \in 0 .. n - 1 : Bit(l + d * w, i) = g[i]
    <3> TAKE i \in 0 .. n - 1
    <3>1. i \in 0 .. XLEN /\ n \in 0 .. XLEN /\ i < n /\ d \in Nat
      BY <1>0, <2>2
    <3>2. Bit(l + d * w, i) = Bit(l, i)
      BY <2>1, <3>1, LowerBit
    <3> QED
      BY <2>1, <3>2
  <2> HIDE DEF l, w
  <2> QED
    BY <2>2, <2>3, <2>4, <2>5, <2>6
<1> HIDE DEF T
<1>4. Nat \subseteq T
  BY <1>2, <1>3, SetInduction
<1>5. XLEN \in T
  BY <1>0, <1>4
<1>6. /\ low[XLEN] \in Nat /\ low[XLEN] < M
      /\ \A i \in 0 .. XLEN - 1 : Bit(low[XLEN], i) = g[i]
  BY <1>0, <1>5 DEF T, M
<1> QED
  BY <1>6, MFact DEF XWord

LEMMA BitValue == ASSUME NEW x \in XWord, NEW i \in 0 .. XLEN PROVE Bit(x, i) \in {0, 1}
<1>1. Pow2(i) \in Nat /\ Pow2(i) > 0 /\ x \in Nat
  BY PowPositive, MFact DEF XWord
<1>2. x \div Pow2(i) \in Nat
  BY <1>1
<1> QED
  BY <1>2 DEF Bit

LEMMA AndBits ==
  ASSUME NEW x \in XWord, NEW y \in XWord
  PROVE  /\ And(x, y) \in XWord
         /\ \A i \in 0 .. XLEN - 1 : Bit(And(x, y), i) = AndBit(Bit(x, i), Bit(y, i))
<1> DEFINE g == [i \in 0 .. XLEN - 1 |-> AndBit(Bit(x, i), Bit(y, i))]
           P(low) == low = [n \in 0 .. XLEN |-> IF n = 0 THEN 0 ELSE
                       low[n - 1] + AndBit(Bit(x, n - 1), Bit(y, n - 1)) * Pow2(n - 1)]
<1>1. XLEN \in Nat
  BY AluAssumption
<1>2. \A i \in 0 .. XLEN - 1 : g[i] \in {0, 1}
  <2>1. \A i \in 0 .. XLEN - 1 : Bit(x, i) \in {0, 1} /\ Bit(y, i) \in {0, 1}
    BY <1>1, BitValue
  <2> QED
    BY <2>1 DEF AndBit
<1>3. \A low : P(low) <=> Sums(low, g, XLEN)
  <2>1. \A n \in 0 .. XLEN : n # 0 => g[n - 1] = AndBit(Bit(x, n - 1), Bit(y, n - 1))
    BY <1>1
  <2> QED
    BY <2>1 DEF Sums
<1>4. \E low : P(low)
  BY <1>1, <1>3, SumsExist
<1>5. PICK low : P(low) /\ And(x, y) = low[XLEN]
  BY <1>4 DEF And, Bitwise2
<1>6. low[XLEN] \in XWord /\ \A i \in 0 .. XLEN - 1 : Bit(low[XLEN], i) = g[i]
  <2> HIDE DEF g, P
  <2> QED
    BY <1>2, <1>3, <1>5, SumOfDigits
<1> QED
  BY <1>5, <1>6

LEMMA OrBits ==
  ASSUME NEW x \in XWord, NEW y \in XWord
  PROVE  /\ Or(x, y) \in XWord
         /\ \A i \in 0 .. XLEN - 1 : Bit(Or(x, y), i) = OrBit(Bit(x, i), Bit(y, i))
<1> DEFINE g == [i \in 0 .. XLEN - 1 |-> OrBit(Bit(x, i), Bit(y, i))]
           P(low) == low = [n \in 0 .. XLEN |-> IF n = 0 THEN 0 ELSE
                       low[n - 1] + OrBit(Bit(x, n - 1), Bit(y, n - 1)) * Pow2(n - 1)]
<1>1. XLEN \in Nat
  BY AluAssumption
<1>2. \A i \in 0 .. XLEN - 1 : g[i] \in {0, 1}
  <2>1. \A i \in 0 .. XLEN - 1 : Bit(x, i) \in {0, 1} /\ Bit(y, i) \in {0, 1}
    BY <1>1, BitValue
  <2> QED
    BY <2>1 DEF OrBit
<1>3. \A low : P(low) <=> Sums(low, g, XLEN)
  <2>1. \A n \in 0 .. XLEN : n # 0 => g[n - 1] = OrBit(Bit(x, n - 1), Bit(y, n - 1))
    BY <1>1
  <2> QED
    BY <2>1 DEF Sums
<1>4. \E low : P(low)
  BY <1>1, <1>3, SumsExist
<1>5. PICK low : P(low) /\ Or(x, y) = low[XLEN]
  BY <1>4 DEF Or, Bitwise2
<1>6. low[XLEN] \in XWord /\ \A i \in 0 .. XLEN - 1 : Bit(low[XLEN], i) = g[i]
  <2> HIDE DEF g, P
  <2> QED
    BY <1>2, <1>3, <1>5, SumOfDigits
<1> QED
  BY <1>5, <1>6

LEMMA XorBits ==
  ASSUME NEW x \in XWord, NEW y \in XWord
  PROVE  /\ Xor(x, y) \in XWord
         /\ \A i \in 0 .. XLEN - 1 : Bit(Xor(x, y), i) = XorBit(Bit(x, i), Bit(y, i))
<1> DEFINE g == [i \in 0 .. XLEN - 1 |-> XorBit(Bit(x, i), Bit(y, i))]
           P(low) == low = [n \in 0 .. XLEN |-> IF n = 0 THEN 0 ELSE
                       low[n - 1] + XorBit(Bit(x, n - 1), Bit(y, n - 1)) * Pow2(n - 1)]
<1>1. XLEN \in Nat
  BY AluAssumption
<1>2. \A i \in 0 .. XLEN - 1 : g[i] \in {0, 1}
  <2>1. \A i \in 0 .. XLEN - 1 : Bit(x, i) \in {0, 1} /\ Bit(y, i) \in {0, 1}
    BY <1>1, BitValue
  <2> QED
    BY <2>1 DEF XorBit
<1>3. \A low : P(low) <=> Sums(low, g, XLEN)
  <2>1. \A n \in 0 .. XLEN : n # 0 => g[n - 1] = XorBit(Bit(x, n - 1), Bit(y, n - 1))
    BY <1>1
  <2> QED
    BY <2>1 DEF Sums
<1>4. \E low : P(low)
  BY <1>1, <1>3, SumsExist
<1>5. PICK low : P(low) /\ Xor(x, y) = low[XLEN]
  BY <1>4 DEF Xor, Bitwise2
<1>6. low[XLEN] \in XWord /\ \A i \in 0 .. XLEN - 1 : Bit(low[XLEN], i) = g[i]
  <2> HIDE DEF g, P
  <2> QED
    BY <1>2, <1>3, <1>5, SumOfDigits
<1> QED
  BY <1>5, <1>6

\* A word is determined by its bits.
LEMMA SameBits ==
  ASSUME NEW x \in XWord, NEW y \in XWord, \A i \in 0 .. XLEN - 1 : Bit(x, i) = Bit(y, i)
  PROVE  x = y
<1> DEFINE T == {n \in Nat : n <= XLEN => x % Pow2(n) = y % Pow2(n)}
<1>1. x \in Nat /\ y \in Nat /\ x < M /\ y < M /\ M \in Nat /\ M = Pow2(XLEN)
  BY MFact DEF XWord, M
<1>2. 0 \in T
  BY <1>1, AluAssumption
<1>3. ASSUME NEW n \in Nat, n \in T PROVE n + 1 \in T
  <2> SUFFICES ASSUME n + 1 <= XLEN PROVE x % Pow2(n + 1) = y % Pow2(n + 1)
    OBVIOUS
  <2>1. n \in 0 .. XLEN - 1 /\ n \in 0 .. XLEN
    BY AluAssumption
  <2>2. Bit(x, n) = Bit(y, n) /\ x % Pow2(n) = y % Pow2(n)
    BY <1>3, <2>1, AluAssumption
  <2>3. ASSUME NEW z \in Nat PROVE z % Pow2(n + 1) = Bit(z, n) * Pow2(n) + (z % Pow2(n))
    <3> DEFINE w == Pow2(n)
               v == Pow2(n + 1)
               q == z \div w
               r == z % w
               h == q \div 2
               bit == q % 2
    <3>1. w \in Nat /\ w > 0 /\ v = 2 * w
      BY <2>1, PowPositive, AluAssumption
    <3>2. Bit(z, n) = bit
      BY DEF Bit
    <3> HIDE DEF w, v
    <3>3. q \in Nat /\ r \in Nat /\ r < w /\ z = w * q + r
      BY <3>1
    <3> HIDE DEF q, r
    <3>4. h \in Nat /\ bit \in {0, 1} /\ q = 2 * h + bit
      BY <3>3
    <3> HIDE DEF h, bit
    <3> DEFINE s == bit * w + r
    <3>5. s \in Nat /\ s < v
      <4>1. CASE bit = 0
        BY <3>1, <3>3, <4>1
      <4>2. CASE bit = 1
        BY <3>1, <3>3, <4>2
      <4> QED
        BY <3>4, <4>1, <4>2
    <3>6. z = v * h + s
      <4>1. w * q = w * (2 * h) + w * bit
        BY <3>1, <3>4
      <4>2. w * (2 * h) = v * h
        BY <3>1, <3>4
      <4>3. w * bit = bit * w /\ w * bit \in Nat /\ v * h \in Nat /\ w * q \in Nat
        BY <3>1, <3>3, <3>4
      <4> QED
        BY <3>3, <4>1, <4>2, <4>3
    <3>7. v \in Nat /\ v > 0
      BY <3>1
    <3> HIDE DEF s
    <3>8. z % v = s
      BY <3>4, <3>5, <3>6, <3>7, Euclid
    <3> QED
      BY <3>2, <3>8 DEF s, v, w, r
  <2> QED
    BY <1>1, <2>2, <2>3
<1> HIDE DEF T
<1>4. Nat \subseteq T
  BY <1>2, <1>3, SetInduction
<1>5. x % M = y % M
  BY <1>1, <1>4, AluAssumption DEF T
<1> QED
  BY <1>1, <1>5

\* Below 2^n the bits of a word d + 2^XLEN - 2^n are those of d; from n on they are ones.
LEMMA SignBits ==
  ASSUME NEW n \in 0 .. XLEN, NEW d \in Nat, d < Pow2(n), NEW i \in 0 .. XLEN - 1
  PROVE  /\ i < n => Bit(d + M - Pow2(n), i) = Bit(d, i)
         /\ i >= n => Bit(d + M - Pow2(n), i) = 1
         /\ i >= n => Bit(d, i) = 0
<1>1. i \in 0 .. XLEN /\ XLEN \in 0 .. XLEN /\ i < XLEN /\ M = Pow2(XLEN)
  BY AluAssumption DEF M
<1> DEFINE w == Pow2(n)
           v == Pow2(i)
<1>2. w \in Nat /\ w > 0 /\ v \in Nat /\ v > 0 /\ d < w
  BY <1>1, PowPositive
<1>3. CASE i < n
  <2>1. CASE n = XLEN
    <3>1. d + M - w = d
      BY <1>1, <1>2, <2>1
    <3> QED
      BY <1>3, <3>1
  <2>2. CASE n < XLEN
    <3>1. PICK c \in Nat : M = w * (2 * c)
      BY <1>1, <2>2, PowMultiple
    <3>2. M >= w /\ M \in Nat
      BY <1>1, <1>2, <2>2, <3>1, MFact
    <3>3. c > 0
      BY <1>2, <3>1, <3>2
    <3>4. 2 * c - 1 \in Nat
      BY <3>3
    <3>5. w * (2 * c) = w * (2 * c - 1) + w
      BY <1>2
    <3>6. w * (2 * c - 1) \in Nat
      BY <1>2, <3>4
    <3>7. d + M - w = d + (2 * c - 1) * w
      BY <1>2, <3>1, <3>5, <3>6
    <3>8. Bit(d + (2 * c - 1) * w, i) = Bit(d, i)
      BY <1>1, <1>3, <3>4, LowerBit
    <3> QED
      BY <1>3, <3>7, <3>8
  <2> QED
    BY <2>1, <2>2, AluAssumption
<1>4. CASE i >= n
  <2>1. w <= v
    <3>1. CASE i = n
      BY <3>1, <1>2
    <3>2. CASE i > n
      <4>1. PICK c \in Nat : v = w * (2 * c)
        BY <1>1, <3>2, PowMultiple
      <4>2. c > 0
        BY <1>2, <4>1
      <4> HIDE DEF w, v
      <4> QED
        BY <1>2, <4>1, <4>2
    <3> QED
      BY <1>4, <3>1, <3>2
  <2>2. PICK c \in Nat : M = v * (2 * c)
    BY <1>1, PowMultiple
  <2>3. Bit(d + M - w, i) = ((d + M - w) \div v) % 2 /\ Bit(d, i) = (d \div v) % 2
    BY DEF Bit
  <2> HIDE DEF w, v
  <2>4. d \div v = 0
    BY <1>2, <2>1, Euclid
  <2>5. c > 0
    BY <1>2, <2>2, MFact
  <2> DEFINE q == 2 * c - 1
             r == v + d - w
             z == d + M - w
  <2>6. q \in Nat /\ r \in Nat /\ r < v /\ q % 2 = 1
    BY <1>2, <2>1, <2>5
  <2>7. v * (2 * c) = v * q + v
    BY <1>2
  <2>8. z = v * q + r
    <3>1. v * q \in Nat
      BY <1>2, <2>6
    <3> HIDE DEF q
    <3> QED
      BY <1>2, <2>2, <2>7, <3>1
  <2>9. z \in Int
    BY <1>2, MFact
  <2> HIDE DEF q, r, z
  <2>10. z \div v = q
    BY <1>2, <2>6, <2>8, <2>9, Euclid
  <2> QED
    BY <1>4, <2>3, <2>4, <2>6, <2>10 DEF z, w
<1> QED
  BY <1>3, <1>4

\* To or the bits of the sign into a number of n bits is to add them: the
\* hypothesis OrAddsSign of the simulator's refinement holds of the ALU.
LEMMA OrSign ==
  ASSUME NEW n \in 0 .. XLEN, NEW d \in Nat, d < Pow2(n)
  PROVE  Or(d, M - Pow2(n)) = d + M - Pow2(n)
<1> DEFINE w == Pow2(n)
           u == M - w
           z == d + M - w
<1>1. XLEN \in 0 .. XLEN /\ XLEN \in Nat /\ M \in Nat /\ w \in Nat /\ w > 0 /\ M = Pow2(XLEN)
  BY AluAssumption, MFact, PowPositive DEF M
<1>2. w <= M
  <2>1. CASE n = XLEN
    BY <1>1, <2>1
  <2>2. CASE n < XLEN
    <3>1. PICK c \in Nat : M = w * (2 * c)
      BY <1>1, <2>2, PowMultiple
    <3>2. c > 0
      BY <1>1, <3>1, MFact
    <3> HIDE DEF w
    <3> QED
      BY <1>1, <3>1, <3>2
  <2> QED
    BY <1>1, <2>1, <2>2
<1>3. d \in XWord /\ u \in XWord /\ z \in XWord
  BY <1>1, <1>2 DEF XWord
<1>4. ASSUME NEW i \in 0 .. XLEN - 1 PROVE Bit(Or(d, u), i) = Bit(z, i)
  <2>1. i \in 0 .. XLEN /\ i < XLEN /\ i \in Nat
    BY <1>1
  <2>2. Bit(Or(d, u), i) = OrBit(Bit(d, i), Bit(u, i)) /\ Bit(d, i) \in {0, 1}
    BY <1>3, <2>1, OrBits, BitValue
  <2>3. u = 0 + M - Pow2(n) /\ 0 < Pow2(n)
    BY <1>1
  <2>4. /\ i < n => Bit(z, i) = Bit(d, i) /\ Bit(u, i) = Bit(0, i)
        /\ i >= n => Bit(z, i) = 1 /\ Bit(u, i) = 1
    BY <2>3, SignBits
  <2>5. Bit(0, i) = 0
    <3>1. Pow2(i) \in Nat /\ Pow2(i) > 0
      BY <2>1, PowPositive
    <3>2. 0 \div Pow2(i) = 0
      BY <3>1
    <3> QED
      BY <3>2 DEF Bit
  <2> HIDE DEF u, z
  <2> QED
    BY <2>1, <2>2, <2>4, <2>5 DEF OrBit
<1>5. Or(d, u) \in XWord
  BY <1>3, OrBits
<1> HIDE DEF u, z
<1>6. Or(d, u) = z
  BY <1>3, <1>4, <1>5, SameBits
<1> QED
  BY <1>6 DEF u, z

-----------------------------------------------------------------------------
(* Every operation of the core gives a word, and what the simulator gives. *)

Operations == {"ADD", "SUB", "SLL", "SLT", "SLTU", "XOR", "SRL", "SRA", "OR", "AND",
               "MUL", "MULH", "MULSU", "MULU", "DIV", "DIVU", "REM", "REMU"}

LEMMA ShiftAmount ==
  ASSUME NEW y \in XWord
  PROVE  /\ Shamt(y) \in 0 .. XLEN /\ Shamt(y) \in Amounts(y)
         /\ Pow2(Shamt(y)) \in Nat /\ Pow2(Shamt(y)) > 0
<1>1. y \in Nat /\ XLEN \in Nat /\ XLEN > 0
  BY AluAssumption, MFact DEF XWord
<1>2. Shamt(y) \in 0 .. XLEN /\ (y < XLEN => Shamt(y) = y)
  BY <1>1 DEF Shamt
<1> QED
  BY <1>2, PowPositive DEF Amounts, Shamt

LEMMA QuotientSmaller ==
  ASSUME NEW n \in Nat, NEW d \in Nat, d > 0 PROVE n \div d \in Nat /\ n \div d <= n
<1> DEFINE q == n \div d
           r == n % d
<1>1. q \in Nat /\ r \in Nat /\ n = d * q + r
  OBVIOUS
<1> HIDE DEF q, r
<1>2. d - 1 \in Nat /\ (d - 1) * q = d * q - q
  BY <1>1
<1>3. (d - 1) * q \in Nat /\ d * q \in Nat
  BY <1>1, <1>2, ProductNat
<1>4. q <= n
  BY <1>1, <1>2, <1>3
<1> QED
  BY <1>1, <1>4 DEF q

LEMMA QuotientInt == ASSUME NEW n \in Int, NEW d \in Nat, d > 0 PROVE n \div d \in Int
OBVIOUS

LEMMA ModShift == ASSUME NEW n \in Int, NEW k \in Int PROVE (n + M * k) % M = n % M
<1> DEFINE q == n \div M
           r == n % M
           j == q + k
           z == n + M * k
<1>1. M \in Nat /\ M > 0
  BY MFact
<1>2. q \in Int /\ r \in Nat /\ r < M /\ n = M * q + r
  BY <1>1
<1> HIDE DEF q, r
<1>3. j \in Int /\ z = M * j + r
  BY <1>1, <1>2
<1> HIDE DEF j
<1>4. z \in Int
  BY <1>1
<1> HIDE DEF z
<1>5. z % M = r
  BY <1>1, <1>2, <1>3, <1>4, Euclid
<1> QED
  BY <1>5 DEF z, r

LEMMA SignedSum ==
  ASSUME NEW x \in XWord, NEW y \in XWord
  PROVE  /\ Wrap(x + y) = (ToInt(x) + ToInt(y)) % M
         /\ Wrap(x - y) = (ToInt(x) - ToInt(y)) % M
<1> DEFINE i == IF 2 * x >= M THEN -1 ELSE 0
           j == IF 2 * y >= M THEN -1 ELSE 0
<1>1. M \in Nat /\ x \in Nat /\ y \in Nat /\ i \in {-1, 0} /\ j \in {-1, 0}
  BY ToIntFact, MFact
<1>2. ToInt(x) = x + M * i /\ ToInt(y) = y + M * j
  BY <1>1, ToIntFact
<1> HIDE DEF i, j
<1>3. ToInt(x) + ToInt(y) = (x + y) + M * (i + j) /\ ToInt(x) - ToInt(y) = (x - y) + M * (i - j)
  BY <1>1, <1>2
<1>4. x + y \in Int /\ x - y \in Int /\ i + j \in Int /\ i - j \in Int
  BY <1>1
<1>5. ((x + y) + M * (i + j)) % M = (x + y) % M /\ ((x - y) + M * (i - j)) % M = (x - y) % M
  BY <1>4, ModShift
<1> QED
  BY <1>3, <1>5 DEF Wrap

LEMMA IssDivides ==
  ASSUME NEW x \in XWord, NEW y \in XWord, y # 0
  PROVE  /\ result_div(x, y) = IssDiv(ToInt(x), ToInt(y)) % M
         /\ result_rem(x, y) = IssRem(ToInt(x), ToInt(y)) % M
<1> DEFINE u == ToInt(x)
           v == ToInt(y)
<1>1. IssDiv(u, v) = QuotTrunc(u, v) /\ IssRem(u, v) = RemTrunc(u, v)
  BY IssQuotient
<1>2. CASE ~(MostNegative(x) /\ y = M - 1)
  BY <1>1, <1>2 DEF result_div, result_rem, Wrap
<1>3. CASE MostNegative(x) /\ y = M - 1
  <2>1. M \in Nat /\ M >= 2 /\ x \in Nat /\ x < M /\ u = -x /\ v = -1 /\ 2 * x = M
    BY <1>3, ToIntFact, MFact DEF MostNegative
  <2>2. result_div(x, y) = x /\ result_rem(x, y) = 0
    BY <1>3 DEF result_div, result_rem
  <2> HIDE DEF u, v
  <2>3. QuotTrunc(u, v) = x
    <3> DEFINE p == AbsVal(u) \div AbsVal(v)
    <3>0. x \div 1 = x
      BY <2>1, Euclid
    <3>a. x \in Nat /\ x > 0
      BY <2>1
    <3>b. u < 0 /\ v < 0
      <4>1. u = -x /\ v = -1
        BY <2>1
      <4> QED
        BY <4>1, <3>a
    <3>c. AbsVal(u) = x
      BY <2>1, <3>a DEF AbsVal
    <3>d. AbsVal(v) = 1
      <4>1. \A w \in Int : w + 1 = 0 => AbsVal(w) = 1
        BY DEF AbsVal
      <4>2. v \in Int /\ v + 1 = 0
        BY <2>1
      <4> QED
        BY <4>1, <4>2
    <3>1. AbsVal(u) = x /\ AbsVal(v) = 1 /\ u < 0 /\ v < 0
      BY <3>b, <3>c, <3>d
    <3>2. QuotTrunc(u, v) = IF (u < 0) # (v < 0) THEN -p ELSE p
      BY DEF QuotTrunc
    <3>3. p = x
      BY <3>0, <3>1
    <3> HIDE DEF p
    <3> QED
      BY <2>1, <3>1, <3>2, <3>3
  <2>4. RemTrunc(u, v) = 0
    BY <2>1, <2>3 DEF RemTrunc
  <2>5. x % M = x /\ 0 % M = 0
    BY <2>1
  <2> QED
    BY <1>1, <2>2, <2>3, <2>4, <2>5 DEF u, v
<1> QED
  BY <1>2, <1>3

\* Every operation of the core gives a word for words.
LEMMA ResultWord ==
  ASSUME NEW f \in Operations, NEW x \in XWord, NEW y \in XWord PROVE AluResult(f, x, y) \in XWord
<1>1. /\ x \in Nat /\ y \in Nat /\ x < M /\ M \in Nat /\ M >= 2
      /\ ToInt(x) \in Int /\ ToInt(y) \in Int
  BY ToIntFact, MFact
<1>2. 0 \in XWord /\ 1 \in XWord
  BY <1>1 DEF XWord
<1> DEFINE w == Pow2(Shamt(y))
<1>3. w \in Nat /\ w > 0
  BY ShiftAmount
<1>4. CASE f \in {"ADD", "SUB"}
  <2>1. x + y \in Int /\ x - y \in Int
    BY <1>1
  <2> QED
    BY <1>4, <2>1, WrapWord DEF AluResult
<1>5. CASE f = "SLL"
  <2>1. x * w \in Int
    BY <1>1, <1>3, ProductNat
  <2>2. AluResult(f, x, y) = Wrap(x * w)
    BY <1>5 DEF AluResult
  <2> QED
    BY <2>1, <2>2, WrapWord
<1>6. CASE f \in {"SLT", "SLTU"}
  BY <1>2, <1>6 DEF AluResult
<1>7. CASE f = "SRL"
  <2>1. AluResult(f, x, y) = x \div w
    BY <1>7 DEF AluResult, Srl
  <2>2. x \div w \in Nat /\ x \div w <= x
    BY <1>1, <1>3, QuotientSmaller
  <2> HIDE DEF w
  <2> QED
    BY <1>1, <2>1, <2>2 DEF XWord
<1>8. CASE f = "SRA"
  <2>1. AluResult(f, x, y) = Wrap(ToInt(x) \div w)
    BY <1>8 DEF AluResult, Sra
  <2>2. ToInt(x) \div w \in Int
    BY <1>1, <1>3, QuotientInt
  <2> QED
    BY <2>1, <2>2, WrapWord
<1>9. CASE f \in {"XOR", "OR", "AND"}
  BY <1>9, AndBits, OrBits, XorBits DEF AluResult
<1>10. CASE f \in {"MUL", "MULH", "MULSU", "MULU"}
  <2>1. result_mul(x, y) \in Int /\ result_mulsu(x, y) \in Int /\ result_mulu(x, y) \in Int
    BY <1>1 DEF result_mul, result_mulsu, result_mulu
  <2>2. \A p \in Int : Wrap(p) \in XWord /\ High(p) \in XWord
    BY <1>1, WrapWord, QuotientInt DEF High
  <2> QED
    BY <1>10, <2>1, <2>2 DEF AluResult
<1>11. CASE f \in {"DIV", "DIVU", "REM", "REMU"}
  BY <1>11, SignedDivision, UnsignedDivision DEF AluResult
<1> QED
  BY <1>4, <1>5, <1>6, <1>7, <1>8, <1>9, <1>10, <1>11 DEF Operations

\* And one the C expressions of the simulator can give.
LEMMA ResultsAgree ==
  ASSUME NEW f \in Operations, NEW x \in XWord, NEW y \in XWord
  PROVE  AluResult(f, x, y) \in IssResults(f, x, y)
<1>1. /\ x \in Nat /\ y \in Nat /\ x < M /\ M \in Nat /\ M >= 2
      /\ ToInt(x) \in Int /\ ToInt(y) \in Int
  BY ToIntFact, MFact
<1>2. CASE f \in {"ADD", "SUB"}
  BY <1>2, SignedSum DEF AluResult, IssResults
<1>3. CASE f \in {"SLL", "SRL", "SRA"}
  <2>1. Shamt(y) \in Amounts(y)
    BY ShiftAmount
  <2>2. /\ AluResult("SLL", x, y) = Left(x, Shamt(y))
        /\ AluResult("SRL", x, y) = Right(x, Shamt(y))
        /\ AluResult("SRA", x, y) = Arith(x, Shamt(y))
    BY DEF AluResult, Left, Right, Arith, Srl, Sra
  <2> QED
    BY <1>3, <2>1, <2>2 DEF IssResults
<1>4. CASE f \in {"SLT", "SLTU"}
  <2>1. (SubsNeg(x, y) <=> ToInt(x) < ToInt(y)) /\ (SubuNeg(x, y) <=> x < y)
    BY <1>1 DEF SubsNeg, SubuNeg
  <2> QED
    BY <1>4, <2>1 DEF AluResult, IssResults
<1>5. CASE f \in {"XOR", "OR", "AND"}
  <2>1. \A z \in XWord, i \in 0 .. XLEN - 1 : Bit(z, i) \in {0, 1}
    BY BitValue, AluAssumption
  <2>2. Ones(And(x, y)) = Ones(x) \cap Ones(y)
    BY <2>1, AndBits DEF Ones, AndBit
  <2>3. Ones(Or(x, y)) = Ones(x) \cup Ones(y)
    BY <2>1, OrBits DEF Ones, OrBit
  <2>4. Ones(Xor(x, y)) = (Ones(x) \cup Ones(y)) \ (Ones(x) \cap Ones(y))
    BY <2>1, XorBits DEF Ones, XorBit
  <2>5. And(x, y) \in XWord /\ Or(x, y) \in XWord /\ Xor(x, y) \in XWord
    BY AndBits, OrBits, XorBits
  <2> QED
    BY <1>5, <2>2, <2>3, <2>4, <2>5 DEF AluResult, IssResults, IsWordOf
<1>6. CASE f \in {"MUL", "MULH", "MULSU", "MULU"}
  BY <1>6 DEF AluResult, IssResults, Wrap, High, Upper, result_mul, result_mulsu, result_mulu
<1>7. CASE f \in {"DIV", "REM"}
  <2>1. CASE y = 0
    <3>1. result_div(x, y) = M - 1 /\ result_rem(x, y) = x
      BY <1>1, <2>1 DEF result_div, result_rem
    <3> QED
      BY <1>7, <2>1, <3>1 DEF AluResult, IssResults
  <2>2. CASE y # 0
    BY <1>7, <2>2, IssDivides DEF AluResult, IssResults
  <2> QED
    BY <2>1, <2>2
<1>8. CASE f \in {"DIVU", "REMU"}
  BY <1>8 DEF AluResult, IssResults, result_divu, result_remu
<1> QED
  BY <1>2, <1>3, <1>4, <1>5, <1>6, <1>7, <1>8 DEF Operations

-----------------------------------------------------------------------------
(* The fields of a word, and the immediates the two decoders put together. *)

Words == {w \in [hi : Nat, lo : Nat] : w.hi < 65536 /\ w.lo < 65536}

LEMMA FieldValues ==
  ASSUME NEW w \in Words
  PROVE  /\ op(w) = w.lo % 128
         /\ rd(w) = (w.lo \div 128) % 32
         /\ func3(w) = (w.lo \div 4096) % 8
         /\ func7(w) = w.hi \div 512
         /\ imm12(w) = w.hi \div 16
         /\ Slice(w, 24, 20) = (w.hi \div 16) % 32
         /\ Slice(w, 30, 30) = (w.hi \div 16384) % 2
         /\ Slice(w, 31, 31) = w.hi \div 32768
         /\ Slice(w, 30, 25) = (w.hi \div 512) % 64
         /\ Slice(w, 30, 21) = (w.hi \div 32) % 1024
         /\ Slice(w, 20, 20) = (w.hi \div 16) % 2
         /\ Slice(w, 7, 7) = (w.lo \div 128) % 2
         /\ Slice(w, 11, 8) = (w.lo \div 256) % 16
         /\ imm20(w) = w.hi * 16 + w.lo \div 4096
         /\ Slice(w, 19, 12) = (w.hi % 16) * 16 + w.lo \div 4096
<1> DEFINE h == w.hi
           l == w.lo
<1>0. h \in Nat /\ l \in Nat /\ h < 65536 /\ l < 65536
  BY DEF Words
<1>1. op(w) = l % 128
  <2>1. op(w) = Cut(l, 6, 0)
    BY DEF Slice, op
  <2> HIDE DEF h, l
  <2>2. Cut(l, 6, 0) = l % 128
    BY <1>0 DEF Cut
  <2> QED
    BY <2>1, <2>2
<1>2. rd(w) = (l \div 128) % 32
  <2>1. rd(w) = Cut(l, 11, 7)
    BY DEF Slice, rd
  <2> HIDE DEF h, l
  <2>2. Cut(l, 11, 7) = (l \div 128) % 32
    BY <1>0 DEF Cut
  <2> QED
    BY <2>1, <2>2
<1>3. func3(w) = (l \div 4096) % 8
  <2>1. func3(w) = Cut(l, 14, 12)
    BY DEF Slice, func3
  <2> HIDE DEF h, l
  <2>2. Cut(l, 14, 12) = (l \div 4096) % 8
    BY <1>0 DEF Cut
  <2> QED
    BY <2>1, <2>2
<1>4. func7(w) = h \div 512
  <2>1. func7(w) = Cut(h, 15, 9)
    BY DEF Slice, func7
  <2> HIDE DEF h, l
  <2>2. Cut(h, 15, 9) = (h \div 512) % 128
    BY <1>0 DEF Cut
  <2>3. (h \div 512) % 128 = h \div 512
    BY <1>0
  <2> QED
    BY <2>1, <2>2, <2>3
<1>5. imm12(w) = h \div 16
  <2>1. imm12(w) = Cut(h, 15, 4)
    BY DEF Slice, imm12
  <2> HIDE DEF h, l
  <2>2. Cut(h, 15, 4) = (h \div 16) % 4096
    BY <1>0 DEF Cut
  <2>3. (h \div 16) % 4096 = h \div 16
    BY <1>0
  <2> QED
    BY <2>1, <2>2, <2>3
<1>6. Slice(w, 24, 20) = (h \div 16) % 32
  <2>1. Slice(w, 24, 20) = Cut(h, 8, 4)
    BY DEF Slice
  <2> HIDE DEF h, l
  <2>2. Cut(h, 8, 4) = (h \div 16) % 32
    BY <1>0 DEF Cut
  <2> QED
    BY <2>1, <2>2
<1>7. Slice(w, 30, 30) = (h \div 16384) % 2
  <2>1. Slice(w, 30, 30) = Cut(h, 14, 14)
    BY DEF Slice
  <2> HIDE DEF h, l
  <2>2. Cut(h, 14, 14) = (h \div 16384) % 2
    BY <1>0 DEF Cut
  <2> QED
    BY <2>1, <2>2
<1>8. Slice(w, 31, 31) = h \div 32768
  <2>1. Slice(w, 31, 31) = Cut(h, 15, 15)
    BY DEF Slice
  <2> HIDE DEF h, l
  <2>2. Cut(h, 15, 15) = (h \div 32768) % 2
    BY <1>0 DEF Cut
  <2>3. (h \div 32768) % 2 = h \div 32768
    BY <1>0
  <2> QED
    BY <2>1, <2>2, <2>3
<1>9. Slice(w, 30, 25) = (h \div 512) % 64
  <2>1. Slice(w, 30, 25) = Cut(h, 14, 9)
    BY DEF Slice
  <2> HIDE DEF h, l
  <2>2. Cut(h, 14, 9) = (h \div 512) % 64
    BY <1>0 DEF Cut
  <2> QED
    BY <2>1, <2>2
<1>10. Slice(w, 30, 21) = (h \div 32) % 1024
  <2>1. Slice(w, 30, 21) = Cut(h, 14, 5)
    BY DEF Slice
  <2> HIDE DEF h, l
  <2>2. Cut(h, 14, 5) = (h \div 32) % 1024
    BY <1>0 DEF Cut
  <2> QED
    BY <2>1, <2>2
<1>11. Slice(w, 20, 20) = (h \div 16) % 2
  <2>1. Slice(w, 20, 20) = Cut(h, 4, 4)
    BY DEF Slice
  <2> HIDE DEF h, l
  <2>2. Cut(h, 4, 4) = (h \div 16) % 2
    BY <1>0 DEF Cut
  <2> QED
    BY <2>1, <2>2
<1>12. Slice(w, 7, 7) = (l \div 128) % 2
  <2>1. Slice(w, 7, 7) = Cut(l, 7, 7)
    BY DEF Slice
  <2> HIDE DEF h, l
  <2>2. Cut(l, 7, 7) = (l \div 128) % 2
    BY <1>0 DEF Cut
  <2> QED
    BY <2>1, <2>2
<1>13. Slice(w, 11, 8) = (l \div 256) % 16
  <2>1. Slice(w, 11, 8) = Cut(l, 11, 8)
    BY DEF Slice
  <2> HIDE DEF h, l
  <2>2. Cut(l, 11, 8) = (l \div 256) % 16
    BY <1>0 DEF Cut
  <2> QED
    BY <2>1, <2>2
<1>14. imm20(w) = h * 16 + l \div 4096
  <2>1. imm20(w) = Cut(h, 15, 0) * 16 + Cut(l, 15, 12)
    BY DEF imm20, Slice
  <2> HIDE DEF h, l
  <2>2. Cut(h, 15, 0) = h % 65536 /\ Cut(l, 15, 12) = (l \div 4096) % 16
    BY <1>0 DEF Cut
  <2>3. h % 65536 = h /\ (l \div 4096) % 16 = l \div 4096
    BY <1>0
  <2> QED
    BY <2>1, <2>2, <2>3
<1>15. Slice(w, 19, 12) = (h % 16) * 16 + l \div 4096
  <2>1. Slice(w, 19, 12) = Cut(h, 3, 0) * 16 + Cut(l, 15, 12)
    BY DEF Slice
  <2> HIDE DEF h, l
  <2>2. Cut(h, 3, 0) = h % 16 /\ Cut(l, 15, 12) = (l \div 4096) % 16
    BY <1>0 DEF Cut
  <2>3. h % 65536 = h /\ (l \div 4096) % 16 = l \div 4096
    BY <1>0
  <2> QED
    BY <2>1, <2>2, <2>3
<1> QED
  BY <1>1, <1>2, <1>3, <1>4, <1>5, <1>6, <1>7, <1>8, <1>9, <1>10, <1>11, <1>12, <1>13, <1>14, <1>15

\* The fields as numbers.
LEMMA Ranges ==
  ASSUME NEW w \in Words
  PROVE  /\ w.hi \in Nat /\ w.lo \in Nat
         /\ op(w) \in Nat /\ rd(w) \in Nat /\ func3(w) \in Nat /\ func7(w) \in Nat /\ imm12(w) \in Nat
         /\ op(w) < 128 /\ rd(w) < 32 /\ func3(w) < 8 /\ func7(w) < 128 /\ imm12(w) < 4096
         /\ imm20(w) \in Nat
<1> DEFINE h == w.hi
           l == w.lo
<1>1. h \in Nat /\ l \in Nat /\ h < 65536 /\ l < 65536
  BY DEF Words
<1>2. /\ op(w) = l % 128 /\ rd(w) = (l \div 128) % 32 /\ func3(w) = (l \div 4096) % 8
      /\ func7(w) = h \div 512 /\ imm12(w) = h \div 16 /\ imm20(w) = h * 16 + l \div 4096
  BY FieldValues
<1>3. w.hi \in Nat /\ w.lo \in Nat
  BY <1>1
<1> HIDE DEF h, l
<1>4. op(w) \in Nat /\ op(w) < 128
  BY <1>1, <1>2
<1>5. rd(w) \in Nat /\ rd(w) < 32
  BY <1>1, <1>2
<1>6. func3(w) \in Nat /\ func3(w) < 8
  BY <1>1, <1>2
<1>7. func7(w) \in Nat /\ func7(w) < 128
  BY <1>1, <1>2
<1>8. imm12(w) \in Nat /\ imm12(w) < 4096
  BY <1>1, <1>2
<1>9. imm20(w) \in Nat
  BY <1>1, <1>2
<1> QED
  BY <1>3, <1>4, <1>5, <1>6, <1>7, <1>8, <1>9

\* The pieces of the immediate of a branch.
LEMMA BranchPieces ==
  ASSUME NEW f \in Nat, NEW r \in Nat, r < 32, f < 128, NEW n, n = 32 * f + r
  PROVE  /\ Cut(n, 11, 11) = f \div 64
         /\ Cut(n, 10, 5) = f % 64
         /\ Cut(n, 4, 1) = r \div 2
         /\ Cut(n, 0, 0) = r % 2
<1>1. n \in Nat
  OBVIOUS
<1>2. /\ Cut(n, 11, 11) = (n \div 2048) % 2
      /\ Cut(n, 10, 5) = (n \div 32) % 64
      /\ Cut(n, 4, 1) = (n \div 2) % 16
      /\ Cut(n, 0, 0) = n % 2
  BY <1>1 DEF Cut
<1>3. (n \div 2048) % 2 = f \div 64
  OBVIOUS
<1>4. (n \div 32) % 64 = f % 64
  OBVIOUS
<1>5. (n \div 2) % 16 = r \div 2
  OBVIOUS
<1>6. n % 2 = r % 2
  OBVIOUS
<1> QED
  BY <1>2, <1>3, <1>4, <1>5, <1>6

LEMMA BranchValue ==
  ASSUME NEW f \in Nat, NEW r \in Nat, r < 32, f < 128
  PROVE  to_imm_b(f, r) = Sext(4096 * (f \div 64) + 32 * (f % 64) + 2 * (r \div 2) + 2048 * (r % 2), 13)
<1>1. to_imm_b(f, r) = Sext(4096 * Cut(32 * f + r, 11, 11) + 32 * Cut(32 * f + r, 10, 5)
                            + 2 * Cut(32 * f + r, 4, 1) + 2048 * Cut(32 * f + r, 0, 0), 13)
  BY DEF to_imm_b
<1>2. /\ Cut(32 * f + r, 11, 11) = f \div 64
      /\ Cut(32 * f + r, 10, 5) = f % 64
      /\ Cut(32 * f + r, 4, 1) = r \div 2
      /\ Cut(32 * f + r, 0, 0) = r % 2
  BY BranchPieces, Zenon
<1> QED
  BY <1>1, <1>2

LEMMA BranchImmediate ==
  ASSUME NEW w \in Words PROVE core_imm_b(w) = to_imm_b(func7(w), rd(w))
<1>1. w.hi \in Nat /\ w.lo \in Nat /\ w.hi < 65536 /\ w.lo < 65536
  BY DEF Words
<1> DEFINE f == func7(w)
           r == rd(w)
<1>2. f \in Nat /\ r \in Nat /\ r < 32 /\ f < 128 /\ f = w.hi \div 512 /\ r = (w.lo \div 128) % 32
  BY FieldValues, Ranges
<1> HIDE DEF f, r
<1>3. Slice(w, 31, 31) = f \div 64
  <2>1. w.hi \div 32768 = (w.hi \div 512) \div 64
    BY <1>1
  <2> QED
    BY <1>2, <2>1, FieldValues
<1>4. Slice(w, 7, 7) = r % 2
  <2>1. (w.lo \div 128) % 2 = ((w.lo \div 128) % 32) % 2
    BY <1>1
  <2> QED
    BY <1>2, <2>1, FieldValues
<1>5. Slice(w, 30, 25) = f % 64
  BY <1>2, FieldValues
<1>6. Slice(w, 11, 8) = r \div 2
  <2>1. (w.lo \div 256) % 16 = ((w.lo \div 128) % 32) \div 2
    BY <1>1
  <2> QED
    BY <1>2, <2>1, FieldValues
<1>7. core_imm_b(w) = Sext(4096 * (f \div 64) + 2048 * (r % 2) + 32 * (f % 64) + 2 * (r \div 2), 13)
  BY <1>3, <1>4, <1>5, <1>6 DEF core_imm_b
<1>8. to_imm_b(f, r) = Sext(4096 * (f \div 64) + 32 * (f % 64) + 2 * (r \div 2) + 2048 * (r % 2), 13)
  BY <1>2, BranchValue
<1>9. 4096 * (f \div 64) + 2048 * (r % 2) + 32 * (f % 64) + 2 * (r \div 2)
      = 4096 * (f \div 64) + 32 * (f % 64) + 2 * (r \div 2) + 2048 * (r % 2)
  BY <1>2
<1> QED
  BY <1>7, <1>8, <1>9 DEF f, r

\* The pieces of the immediate of a jump.
LEMMA JumpValue ==
  ASSUME NEW n \in Nat
  PROVE  to_imm_j(n) = Sext(2 ^ 20 * ((n \div 524288) % 2) + 2 * ((n \div 512) % 1024)
                            + 2048 * ((n \div 256) % 2) + 4096 * (n % 256), 21)
<1>1. /\ Cut(n, 19, 19) = (n \div 524288) % 2
      /\ Cut(n, 18, 9) = (n \div 512) % 1024
      /\ Cut(n, 8, 8) = (n \div 256) % 2
      /\ Cut(n, 7, 0) = n % 256
  BY DEF Cut
<1>2. to_imm_j(n) = Sext(2 ^ 20 * Cut(n, 19, 19) + 2 * Cut(n, 18, 9)
                         + 2048 * Cut(n, 8, 8) + 4096 * Cut(n, 7, 0), 21)
  BY DEF to_imm_j
<1> QED
  BY <1>1, <1>2

LEMMA JumpImmediate ==
  ASSUME NEW w \in Words, op(w) = OP_JAL PROVE core_imm(w) = to_imm_j(imm20(w))
<1>1. w.hi \in Nat /\ w.lo \in Nat /\ w.hi < 65536 /\ w.lo < 65536
  BY DEF Words
<1> DEFINE h == w.hi
           l == w.lo \div 4096
<1>2. h \in Nat /\ l \in Nat /\ h < 65536 /\ l < 16
  BY <1>1
<1>3. imm20(w) = h * 16 + l
  BY FieldValues
<1>4. core_imm(w) = Sext(2 ^ 20 * Slice(w, 31, 31) + 4096 * Slice(w, 19, 12)
                         + 2048 * Slice(w, 20, 20) + 2 * Slice(w, 30, 21), 21)
  <2>1. op(w) \notin {OP_AUIPC, OP_LUI} /\ op(w) \notin {OP_JALR, OP_LOAD}
        /\ op(w) # OP_BRANCH /\ op(w) # OP_STORE /\ op(w) # OP_ARITHI /\ op(w) # OP_SYSTEM
    BY DEF OP_JAL, OP_AUIPC, OP_LUI, OP_JALR, OP_LOAD, OP_BRANCH, OP_STORE, OP_ARITHI, OP_SYSTEM
  <2> QED
    BY <2>1 DEF core_imm
<1>5. /\ Slice(w, 31, 31) = h \div 32768
      /\ Slice(w, 19, 12) = (h % 16) * 16 + l
      /\ Slice(w, 20, 20) = (h \div 16) % 2
      /\ Slice(w, 30, 21) = (h \div 32) % 1024
  BY FieldValues
<1> DEFINE p == h \div 32768
           q == (h % 16) * 16 + l
           s == (h \div 16) % 2
           t == (h \div 32) % 1024
<1>6. to_imm_j(imm20(w)) = Sext(2 ^ 20 * p + 2 * t + 2048 * s + 4096 * q, 21)
  <2> DEFINE n == imm20(w)
  <2>1. n \in Nat /\ n = h * 16 + l
    BY <1>3, Ranges
  <2>2. to_imm_j(n) = Sext(2 ^ 20 * ((n \div 524288) % 2) + 2 * ((n \div 512) % 1024)
                           + 2048 * ((n \div 256) % 2) + 4096 * (n % 256), 21)
    BY <2>1, JumpValue
  <2> HIDE DEF n, h, l
  <2>3. (n \div 524288) % 2 = p
    BY <1>2, <2>1
  <2>4. (n \div 512) % 1024 = t
    BY <1>2, <2>1
  <2>5. (n \div 256) % 2 = s
    BY <1>2, <2>1
  <2>6. n % 256 = q
    BY <1>2, <2>1
  <2> HIDE DEF p, q, s, t
  <2>7. to_imm_j(n) = Sext(2 ^ 20 * p + 2 * t + 2048 * s + 4096 * q, 21)
    BY <2>2, <2>3, <2>4, <2>5, <2>6
  <2> QED
    BY <2>7 DEF n
<1>7. p \in Int /\ q \in Int /\ s \in Int /\ t \in Int
  BY <1>2
<1>8. core_imm(w) = Sext(2 ^ 20 * p + 4096 * q + 2048 * s + 2 * t, 21)
  BY <1>4, <1>5
<1> HIDE DEF h, l, p, q, s, t
<1>9. 2 ^ 20 * p + 4096 * q + 2048 * s + 2 * t = 2 ^ 20 * p + 2 * t + 2048 * s + 4096 * q
  BY <1>7
<1> QED
  BY <1>3, <1>6, <1>8, <1>9

\* No row of a table is the mnemonic of an illegal instruction.
LEMMA TableNames ==
  /\ DOMAIN Branches = {0, 1, 4, 5, 6, 7} /\ \A f \in {0, 1, 4, 5, 6, 7} : Branches[f] # "illegal"
  /\ DOMAIN Loads = {0, 1, 2, 4, 5} /\ \A f \in {0, 1, 2, 4, 5} : Loads[f] # "illegal"
  /\ DOMAIN Stores = 0 .. 2 /\ \A f \in 0 .. 2 : Stores[f] # "illegal"
  /\ DOMAIN Csrs = {1, 2, 3, 5, 6, 7} /\ \A f \in {1, 2, 3, 5, 6, 7} : Csrs[f] # "illegal"
  /\ DOMAIN Traps = 0 .. 2 /\ \A f \in 0 .. 2 : Traps[f] # "illegal"
<1>1. DOMAIN Branches = {0, 1, 4, 5, 6, 7} /\ \A f \in {0, 1, 4, 5, 6, 7} : Branches[f] # "illegal"
  BY DEF Branches
<1>2. DOMAIN Loads = {0, 1, 2, 4, 5} /\ \A f \in {0, 1, 2, 4, 5} : Loads[f] # "illegal"
  BY DEF Loads
<1>3. DOMAIN Stores = 0 .. 2 /\ \A f \in 0 .. 2 : Stores[f] # "illegal"
  BY DEF Stores
<1>4. DOMAIN Csrs = {1, 2, 3, 5, 6, 7} /\ \A f \in {1, 2, 3, 5, 6, 7} : Csrs[f] # "illegal"
  BY DEF Csrs
<1>5. DOMAIN Traps = 0 .. 2 /\ \A f \in 0 .. 2 : Traps[f] # "illegal"
  BY DEF Traps
<1> QED
  BY <1>1, <1>2, <1>3, <1>4, <1>5

LEMMA ArithNames ==
  ASSUME NEW f \in Nat, f < 8
  PROVE  Ariths[f] # "illegal" /\ Arithis[f] # "illegal" /\ Muls[f] # "illegal"
<1>1. f \in 0 .. 7
  OBVIOUS
<1>2. Ariths[f] # "illegal"
  BY <1>1 DEF Ariths
<1>3. Arithis[f] # "illegal"
  BY <1>1 DEF Arithis
<1>4. Muls[f] # "illegal"
  BY <1>1 DEF Muls
<1> QED
  BY <1>2, <1>3, <1>4

LEMMA LegalIns ==
  ASSUME NEW o, NEW d, NEW s1, NEW s2, NEW i
  PROVE  /\ o # "illegal" => Legal(Ins(o, d, s1, s2, i)) = Ins(o, d, s1, s2, i)
         /\ o = "illegal" => Legal(Ins(o, d, s1, s2, i)) = IllegalIns
BY DEF Legal, Ins

\* What the decoders make of one word.
SameDecoding(w) ==
  IF Lenient(w) THEN srv32_decode(w, FALSE) = IllegalIns ELSE core_decode(w) = srv32_decode(w, FALSE)

Opcodes == {OP_AUIPC, OP_LUI, OP_JAL, OP_JALR, OP_BRANCH, OP_LOAD, OP_STORE, OP_ARITHI,
            OP_ARITHR, OP_FENCE, OP_SYSTEM}

LEMMA UpperDecode ==
  ASSUME NEW w \in Words, op(w) \in {OP_AUIPC, OP_LUI} PROVE SameDecoding(w)
<1> USE DEF OP_AUIPC, OP_LUI, OP_JAL, OP_JALR, OP_BRANCH, OP_LOAD, OP_STORE, OP_ARITHI,
            OP_ARITHR, OP_FENCE, OP_SYSTEM
<1>1. core_imm(w) = to_imm_u(imm20(w))
  BY DEF core_imm, to_imm_u, imm20
<1>2. ~core_illegal(w) /\ ~Lenient(w)
  BY DEF core_illegal, Lenient
<1>3. CASE op(w) = OP_AUIPC
  <2>1. srv32_decode(w, FALSE) = Ins("auipc", rd(w), 0, 0, to_imm_u(imm20(w)))
    BY <1>3 DEF srv32_decode
  <2>2. core_decode(w) = Ins("auipc", rd(w), 0, 0, core_imm(w))
    BY <1>2, <1>3, LegalIns DEF core_decode
  <2> QED
    BY <1>1, <1>2, <2>1, <2>2 DEF SameDecoding
<1>4. CASE op(w) = OP_LUI
  <2>1. srv32_decode(w, FALSE) = Ins("lui", rd(w), 0, 0, to_imm_u(imm20(w)))
    BY <1>4 DEF srv32_decode
  <2>2. core_decode(w) = Ins("lui", rd(w), 0, 0, core_imm(w))
    BY <1>2, <1>4, LegalIns DEF core_decode
  <2> QED
    BY <1>1, <1>2, <2>1, <2>2 DEF SameDecoding
<1> QED
  BY <1>3, <1>4

LEMMA JumpDecode ==
  ASSUME NEW w \in Words, op(w) \in {OP_JAL, OP_JALR, OP_FENCE} PROVE SameDecoding(w)
<1> USE DEF OP_AUIPC, OP_LUI, OP_JAL, OP_JALR, OP_BRANCH, OP_LOAD, OP_STORE, OP_ARITHI,
            OP_ARITHR, OP_FENCE, OP_SYSTEM
<1>1. ~core_illegal(w) /\ ~Lenient(w)
  BY DEF core_illegal, Lenient
<1>2. CASE op(w) = OP_JAL
  <2>1. srv32_decode(w, FALSE) = Ins("jal", rd(w), 0, 0, to_imm_j(imm20(w)))
    BY <1>2 DEF srv32_decode
  <2>2. core_decode(w) = Ins("jal", rd(w), 0, 0, core_imm(w))
    BY <1>1, <1>2, LegalIns DEF core_decode
  <2>3. core_imm(w) = to_imm_j(imm20(w))
    BY <1>2, JumpImmediate
  <2> QED
    BY <1>1, <2>1, <2>2, <2>3 DEF SameDecoding
<1>3. CASE op(w) = OP_JALR
  <2>1. srv32_decode(w, FALSE) = Ins("jalr", rd(w), rs1(w), 0, to_imm_i(imm12(w)))
    BY <1>3 DEF srv32_decode
  <2>2. core_decode(w) = Ins("jalr", rd(w), rs1(w), 0, core_imm(w))
    BY <1>1, <1>3, LegalIns DEF core_decode
  <2>3. core_imm(w) = to_imm_i(imm12(w))
    BY <1>3 DEF core_imm, to_imm_i, imm12
  <2> QED
    BY <1>1, <2>1, <2>2, <2>3 DEF SameDecoding
<1>4. CASE op(w) = OP_FENCE
  <2>1. srv32_decode(w, FALSE) = Ins("fence", 0, 0, 0, 0)
    BY <1>4 DEF srv32_decode
  <2>2. core_decode(w) = Ins("fence", 0, 0, 0, core_imm(w))
    BY <1>1, <1>4, LegalIns DEF core_decode
  <2>3. core_imm(w) = 0
    BY <1>4 DEF core_imm
  <2> QED
    BY <1>1, <2>1, <2>2, <2>3 DEF SameDecoding
<1> QED
  BY <1>2, <1>3, <1>4

LEMMA MemoryDecode ==
  ASSUME NEW w \in Words, op(w) \in {OP_BRANCH, OP_LOAD, OP_STORE} PROVE SameDecoding(w)
<1> USE DEF OP_AUIPC, OP_LUI, OP_JAL, OP_JALR, OP_BRANCH, OP_LOAD, OP_STORE, OP_ARITHI,
            OP_ARITHR, OP_FENCE, OP_SYSTEM
<1>1. ~Lenient(w)
  BY DEF Lenient
<1>2. CASE op(w) = OP_BRANCH
  <2> DEFINE f == func3(w)
             i == to_imm_b(func7(w), rd(w))
  <2>1. srv32_decode(w, FALSE) = Legal(Ins(Pick(Branches, f), 0, rs1(w), rs2(w), i))
    BY <1>2 DEF srv32_decode
  <2>2. core_illegal(w) <=> f \notin DOMAIN Branches
    BY <1>2 DEF core_illegal
  <2>3. core_imm(w) = i
    BY <1>2, BranchImmediate DEF core_imm
  <2>4. CASE f \in DOMAIN Branches
    <3>1. Branches[f] # "illegal" /\ Pick(Branches, f) = Branches[f]
      BY <2>4, TableNames DEF Pick
    <3>2. core_decode(w) = Ins(Branches[f], 0, rs1(w), rs2(w), core_imm(w))
      BY <1>2, <2>2, <2>4, <3>1, LegalIns DEF core_decode
    <3>3. srv32_decode(w, FALSE) = Ins(Branches[f], 0, rs1(w), rs2(w), i)
      <4>1. Pick(Branches, f) # "illegal"
        BY <3>1
      <4>2. Legal(Ins(Pick(Branches, f), 0, rs1(w), rs2(w), i)) = Ins(Pick(Branches, f), 0, rs1(w), rs2(w), i)
        BY <4>1, LegalIns
      <4> QED
        BY <2>1, <3>1, <4>2
    <3> QED
      BY <1>1, <2>3, <3>2, <3>3 DEF SameDecoding
  <2>5. CASE f \notin DOMAIN Branches
    <3>1. Pick(Branches, f) = "illegal"
      BY <2>5 DEF Pick
    <3>2. srv32_decode(w, FALSE) = IllegalIns
      BY <2>1, <3>1, LegalIns
    <3>3. core_decode(w) = IllegalIns
      BY <2>2, <2>5 DEF core_decode
    <3> QED
      BY <1>1, <3>2, <3>3 DEF SameDecoding
  <2> QED
    BY <2>4, <2>5
<1>3. CASE op(w) = OP_LOAD
  <2> DEFINE f == func3(w)
             i == to_imm_i(imm12(w))
  <2>1. srv32_decode(w, FALSE) = Legal(Ins(Pick(Loads, f), rd(w), rs1(w), 0, i))
    BY <1>3 DEF srv32_decode
  <2>2. core_illegal(w) <=> f \notin DOMAIN Loads
    BY <1>3 DEF core_illegal
  <2>3. core_imm(w) = i
    BY <1>3 DEF core_imm, to_imm_i, imm12
  <2>4. CASE f \in DOMAIN Loads
    <3>1. Loads[f] # "illegal" /\ Pick(Loads, f) = Loads[f]
      BY <2>4, TableNames DEF Pick
    <3>2. core_decode(w) = Ins(Loads[f], rd(w), rs1(w), 0, core_imm(w))
      BY <1>3, <2>2, <2>4, <3>1, LegalIns DEF core_decode
    <3>3. srv32_decode(w, FALSE) = Ins(Loads[f], rd(w), rs1(w), 0, i)
      <4>1. Pick(Loads, f) # "illegal"
        BY <3>1
      <4>2. Legal(Ins(Pick(Loads, f), rd(w), rs1(w), 0, i)) = Ins(Pick(Loads, f), rd(w), rs1(w), 0, i)
        BY <4>1, LegalIns
      <4> QED
        BY <2>1, <3>1, <4>2
    <3> QED
      BY <1>1, <2>3, <3>2, <3>3 DEF SameDecoding
  <2>5. CASE f \notin DOMAIN Loads
    <3>1. Pick(Loads, f) = "illegal"
      BY <2>5 DEF Pick
    <3>2. srv32_decode(w, FALSE) = IllegalIns
      BY <2>1, <3>1, LegalIns
    <3>3. core_decode(w) = IllegalIns
      BY <2>2, <2>5 DEF core_decode
    <3> QED
      BY <1>1, <3>2, <3>3 DEF SameDecoding
  <2> QED
    BY <2>4, <2>5
<1>4. CASE op(w) = OP_STORE
  <2> DEFINE f == func3(w)
             i == to_imm_s(func7(w), rd(w))
  <2>1. srv32_decode(w, FALSE) = Legal(Ins(Pick(Stores, f), 0, rs1(w), rs2(w), i))
    BY <1>4 DEF srv32_decode
  <2>2. core_illegal(w) <=> f \notin DOMAIN Stores
    BY <1>4 DEF core_illegal
  <2>3. core_imm(w) = i
    BY <1>4 DEF core_imm, to_imm_s, func7, rd
  <2>4. CASE f \in DOMAIN Stores
    <3>1. Stores[f] # "illegal" /\ Pick(Stores, f) = Stores[f]
      BY <2>4, TableNames DEF Pick
    <3>2. core_decode(w) = Ins(Stores[f], 0, rs1(w), rs2(w), core_imm(w))
      BY <1>4, <2>2, <2>4, <3>1, LegalIns DEF core_decode
    <3>3. srv32_decode(w, FALSE) = Ins(Stores[f], 0, rs1(w), rs2(w), i)
      <4>1. Pick(Stores, f) # "illegal"
        BY <3>1
      <4>2. Legal(Ins(Pick(Stores, f), 0, rs1(w), rs2(w), i)) = Ins(Pick(Stores, f), 0, rs1(w), rs2(w), i)
        BY <4>1, LegalIns
      <4> QED
        BY <2>1, <3>1, <4>2
    <3> QED
      BY <1>1, <2>3, <3>2, <3>3 DEF SameDecoding
  <2>5. CASE f \notin DOMAIN Stores
    <3>1. Pick(Stores, f) = "illegal"
      BY <2>5 DEF Pick
    <3>2. srv32_decode(w, FALSE) = IllegalIns
      BY <2>1, <3>1, LegalIns
    <3>3. core_decode(w) = IllegalIns
      BY <2>2, <2>5 DEF core_decode
    <3> QED
      BY <1>1, <3>2, <3>3 DEF SameDecoding
  <2> QED
    BY <2>4, <2>5
<1> QED
  BY <1>2, <1>3, <1>4

LEMMA ArithDecode ==
  ASSUME NEW w \in Words, op(w) \in {OP_ARITHI, OP_ARITHR} PROVE SameDecoding(w)
<1> USE DEF OP_AUIPC, OP_LUI, OP_JAL, OP_JALR, OP_BRANCH, OP_LOAD, OP_STORE, OP_ARITHI,
            OP_ARITHR, OP_FENCE, OP_SYSTEM
<1> DEFINE f == func3(w)
           s == func7(w)
<1>1. f \in Nat /\ f < 8 /\ s \in Nat /\ s < 128
  BY Ranges
<1>2. Ariths[f] # "illegal" /\ Arithis[f] # "illegal" /\ Muls[f] # "illegal"
  BY <1>1, ArithNames
\* inst[30] is bit 5 of FUNC7.
<1>3. (s \in {0, 1} => Slice(w, 30, 30) # 1) /\ (s = 32 => Slice(w, 30, 30) = 1)
  <2>1. w.hi \in Nat /\ s = w.hi \div 512 /\ Slice(w, 30, 30) = (w.hi \div 16384) % 2
    BY Ranges, FieldValues
  <2> HIDE DEF s
  <2>2. (w.hi \div 16384) % 2 = (s \div 32) % 2
    BY <2>1
  <2> QED
    BY <2>1, <2>2
<1> HIDE DEF f, s
<1>4. CASE op(w) = OP_ARITHI
  <2> DEFINE i == IF f \in {1, 5} THEN imm12(w) % 32 ELSE to_imm_i(imm12(w))
  <2>1. srv32_decode(w, FALSE) = Legal(Ins(ArithiOp(f, s, rs2(w), FALSE), rd(w), rs1(w), 0, i))
    BY <1>4 DEF srv32_decode, f, s
  <2>2. core_imm(w) = i
    <3>1. Slice(w, 24, 20) = imm12(w) % 32
      BY FieldValues
    <3> QED
      BY <1>4, <3>1 DEF core_imm, to_imm_i, imm12, f
  <2>3. ~core_illegal(w)
    BY <1>4 DEF core_illegal
  <2> DEFINE name == IF f = 5 /\ Slice(w, 30, 30) = 1 THEN "srai" ELSE Arithis[f]
  <2>4. core_decode(w) = Ins(name, rd(w), rs1(w), 0, core_imm(w))
    <3>1. name # "illegal"
      BY <1>2
    <3> QED
      BY <1>4, <2>3, <3>1, LegalIns DEF core_decode, f
  <2> HIDE DEF i
  <2>5. CASE (f = 1 /\ s # 0) \/ (f = 5 /\ s \notin {0, 32})
    <3>1. Lenient(w)
      BY <1>4, <2>5 DEF Lenient, f, s
    <3>2. ArithiOp(f, s, rs2(w), FALSE) = "illegal"
      BY <2>5 DEF ArithiOp
    <3> QED
      BY <2>1, <3>1, <3>2, LegalIns DEF SameDecoding
  <2>6. CASE ~((f = 1 /\ s # 0) \/ (f = 5 /\ s \notin {0, 32}))
    <3>1. ~Lenient(w)
      BY <1>4, <2>6 DEF Lenient, f, s
    <3>2. ArithiOp(f, s, rs2(w), FALSE) = name
      BY <1>3, <2>6 DEF ArithiOp
    <3>3. name # "illegal"
      BY <1>2
    <3> HIDE DEF name
    <3> QED
      BY <2>1, <2>2, <2>4, <3>1, <3>2, <3>3, LegalIns DEF SameDecoding
  <2> QED
    BY <2>5, <2>6
<1>5. CASE op(w) = OP_ARITHR
  <2>1. srv32_decode(w, FALSE) = Legal(Ins(ArithrOp(f, s, FALSE), rd(w), rs1(w), rs2(w), 0))
    BY <1>5 DEF srv32_decode, f, s
  <2>2. core_imm(w) = 0
    BY <1>5 DEF core_imm
  <2>3. core_illegal(w) <=> s \notin {0, 32, 1}
    BY <1>5 DEF core_illegal, s
  <2> DEFINE name == CASE s = 1 -> Muls[f]
                       [] f = 0 /\ Slice(w, 30, 30) = 1 -> "sub"
                       [] f = 5 /\ Slice(w, 30, 30) = 1 -> "sra"
                       [] OTHER -> Ariths[f]
  <2>4. CASE s \notin {0, 32, 1}
    <3>1. ~Lenient(w)
      BY <1>5, <2>4 DEF Lenient, f, s
    <3>2. ArithrOp(f, s, FALSE) = "illegal"
      BY <2>4 DEF ArithrOp
    <3>3. core_decode(w) = IllegalIns
      BY <2>3, <2>4 DEF core_decode
    <3> QED
      BY <2>1, <3>1, <3>2, <3>3, LegalIns DEF SameDecoding
  <2>5. CASE s = 32 /\ f \notin {0, 5}
    <3>1. Lenient(w)
      BY <1>5, <2>5 DEF Lenient, f, s
    <3>2. ArithrOp(f, s, FALSE) = "illegal"
      BY <2>5 DEF ArithrOp
    <3> QED
      BY <2>1, <3>1, <3>2, LegalIns DEF SameDecoding
  <2>6. CASE s \in {0, 1} \/ (s = 32 /\ f \in {0, 5})
    <3>1. ~Lenient(w) /\ ~core_illegal(w)
      BY <1>5, <2>3, <2>6 DEF Lenient, f, s
    <3>2. ArithrOp(f, s, FALSE) = name
      <4>1. CASE s = 1
        BY <1>3, <4>1 DEF ArithrOp
      <4>2. CASE s = 0
        BY <1>3, <4>2 DEF ArithrOp
      <4>3. CASE s = 32 /\ f = 0
        BY <1>3, <4>3 DEF ArithrOp
      <4>4. CASE s = 32 /\ f = 5
        BY <1>3, <4>4 DEF ArithrOp
      <4> QED
        BY <2>6, <4>1, <4>2, <4>3, <4>4
    <3>3. name # "illegal"
      BY <1>2, <1>3, <2>6
    <3>4. core_decode(w) = Ins(name, rd(w), rs1(w), rs2(w), core_imm(w))
      BY <1>5, <3>1, <3>3, LegalIns DEF core_decode, f, s
    <3> HIDE DEF name
    <3> QED
      BY <2>1, <2>2, <3>1, <3>2, <3>3, <3>4, LegalIns DEF SameDecoding
  <2> QED
    BY <1>1, <2>4, <2>5, <2>6
<1> QED
  BY <1>4, <1>5

LEMMA SystemDecode ==
  ASSUME NEW w \in Words, op(w) = OP_SYSTEM PROVE SameDecoding(w)
<1> USE DEF OP_AUIPC, OP_LUI, OP_JAL, OP_JALR, OP_BRANCH, OP_LOAD, OP_STORE, OP_ARITHI,
            OP_ARITHR, OP_FENCE, OP_SYSTEM
<1> DEFINE f == func3(w)
           i == imm12(w)
<1>1. f \in Nat /\ f < 8 /\ i \in Nat
  BY Ranges
<1>2. core_imm(w) = i /\ ~core_illegal(w)
  BY DEF core_imm, imm12, core_illegal
<1>3. CASE f = 0
  <2> DEFINE name == Pick(Traps, i % 4)
  <2>1. srv32_decode(w, FALSE) = Legal(Ins(name, 0, 0, 0, 0))
    BY <1>3 DEF srv32_decode
  <2>2. core_decode(w) = Legal(Ins(name, 0, 0, 0, 0))
    BY <1>2, <1>3 DEF core_decode
  <2>3. ~Lenient(w)
    BY <1>3 DEF Lenient
  <2> QED
    BY <2>1, <2>2, <2>3 DEF SameDecoding
<1>4. CASE f = 4
  <2>1. srv32_decode(w, FALSE) = Legal(Ins(Pick(Csrs, f), rd(w), rs1(w), 0, i))
    BY <1>4 DEF srv32_decode
  <2>2. Pick(Csrs, f) = "illegal"
    BY <1>4, TableNames DEF Pick
  <2>3. Lenient(w)
    BY <1>4 DEF Lenient
  <2> QED
    BY <2>1, <2>2, <2>3, LegalIns DEF SameDecoding
<1>5. CASE f \notin {0, 4}
  <2>1. srv32_decode(w, FALSE) = Legal(Ins(Pick(Csrs, f), rd(w), rs1(w), 0, i))
    BY <1>5 DEF srv32_decode
  <2>2. f \in DOMAIN Csrs
    BY <1>1, <1>5, TableNames
  <2>3. Pick(Csrs, f) = Csrs[f]
    BY <2>2 DEF Pick
  <2>4. core_decode(w) = Legal(Ins(Csrs[f], rd(w), rs1(w), 0, i))
    BY <1>2, <1>5 DEF core_decode
  <2>5. ~Lenient(w)
    BY <1>5 DEF Lenient
  <2> QED
    BY <2>1, <2>3, <2>4, <2>5 DEF SameDecoding
<1> QED
  BY <1>3, <1>4, <1>5

\* A word of another opcode is illegal to both.
LEMMA OtherDecode ==
  ASSUME NEW w \in Words, op(w) \notin Opcodes PROVE SameDecoding(w)
<1>1. core_illegal(w)
  BY DEF core_illegal, Opcodes
<1>2. core_decode(w) = IllegalIns
  BY <1>1 DEF core_decode
<1>3. ~Lenient(w)
  BY DEF Lenient, Opcodes
<1>4. srv32_decode(w, FALSE) = IllegalIns
  BY DEF srv32_decode, Opcodes
<1> QED
  BY <1>2, <1>3, <1>4 DEF SameDecoding

LEMMA WordsDecode == \A w \in Words : SameDecoding(w)
BY UpperDecode, JumpDecode, MemoryDecode, ArithDecode, SystemDecode, OtherDecode DEF Opcodes

-----------------------------------------------------------------------------
(* The specification: every operand is a word, every full instruction 32 bits. *)

LEMMA RWordWords ==
  ASSUME NEW o \in Nat, NEW d \in Nat, NEW f3 \in Nat, NEW s1 \in Nat, NEW s2 \in Nat, NEW f7 \in Nat,
         o < 128, d < 32, f3 < 8, s1 < 32, s2 < 32, f7 < 128
  PROVE  RWord(o, d, f3, s1, s2, f7) \in Words
<1> DEFINE h == s1 \div 2 + 16 * s2 + 512 * f7
           l == o + 128 * d + 4096 * f3 + 32768 * (s1 % 2)
<1>1. s1 \div 2 \in Nat /\ s1 \div 2 < 16 /\ s1 % 2 \in Nat /\ s1 % 2 < 2
  OBVIOUS
<1>2. h \in Nat /\ h < 65536
  BY <1>1
<1>3. l \in Nat /\ l < 65536
  BY <1>1
<1>4. RWord(o, d, f3, s1, s2, f7) = [hi |-> h, lo |-> l]
  BY DEF RWord, Word32
<1> HIDE DEF h, l
<1> QED
  BY <1>2, <1>3, <1>4 DEF Words

\* What is fetched later.
LEMMA FetchedWords == Registers \cup BitWords \subseteq Words
<1>1. ASSUME NEW f3 \in Nat, NEW s2 \in Nat, NEW f7 \in Nat, NEW o \in {OP_ARITHI, OP_ARITHR},
             f3 < 8, s2 < 32, f7 < 128
      PROVE  RWord(o, 1, f3, 1, s2, f7) \in Words
  <2>1. o \in Nat /\ o < 128
    BY <1>1 DEF OP_ARITHI, OP_ARITHR
  <2>2. 1 \in Nat /\ 1 < 32
    OBVIOUS
  <2> QED
    BY <1>1, <2>1, <2>2, RWordWords
<1>2. Registers \subseteq Words
  <2> SUFFICES ASSUME NEW f3 \in 0 .. 7, NEW f7 \in {0, 1, 32} PROVE RWord(OP_ARITHR, 1, f3, 1, 2, f7) \in Words
    BY DEF Registers
  <2> QED
    BY <1>1
<1>3. BitWords \subseteq Words
  <2>1. \A f7 \in {20, 36, 52} : RWord(OP_ARITHI, 1, 1, 1, 2, f7) \in Words
    BY <1>1
  <2>2. \A s2 \in {0, 1, 2, 4, 5} : RWord(OP_ARITHI, 1, 1, 1, s2, 48) \in Words
    BY <1>1
  <2>3. \A k \in {<<20, 7>>, <<36, 2>>, <<48, 2>>, <<52, 24>>} : RWord(OP_ARITHI, 1, 5, 1, k[2], k[1]) \in Words
    BY <1>1
  <2>4. \A k \in {<<32, 4>>, <<32, 6>>, <<32, 7>>, <<4, 4>>, <<20, 1>>, <<36, 1>>, <<36, 5>>,
                  <<48, 1>>, <<48, 5>>, <<52, 1>>} : RWord(OP_ARITHR, 1, k[2], 1, 2, k[1]) \in Words
    BY <1>1
  <2>5. \A k \in ({16} \X {2, 4, 6}) \cup ({5} \X (1 .. 7)) : RWord(OP_ARITHR, 1, k[2], 1, 2, k[1]) \in Words
    <3> SUFFICES ASSUME NEW k \in ({16} \X {2, 4, 6}) \cup ({5} \X (1 .. 7))
                 PROVE  RWord(OP_ARITHR, 1, k[2], 1, 2, k[1]) \in Words
      OBVIOUS
    <3>1. k[1] \in Nat /\ k[1] < 128 /\ k[2] \in Nat /\ k[2] < 8
      OBVIOUS
    <3> QED
      BY <1>1, <3>1
  <2> QED
    BY <2>1, <2>2, <2>3, <2>4, <2>5 DEF BitWords
<1> QED
  BY <1>2, <1>3

LEMMA FirstWords == FullWords \subseteq Words
<1>1. \A f \in Funct7 : f \in Nat /\ f < 128
  BY InsnAssumption
<1>2. \A r \in RegBits : r \in Nat /\ r < 32
  BY InsnAssumption
<1>3. \A t \in RegFields : /\ t[1] \in Nat /\ t[1] < 32
                           /\ t[2] \in Nat /\ t[2] < 32
                           /\ t[3] \in Nat /\ t[3] < 32
  BY <1>2 DEF RegFields
<1>4. \A o \in Known : o \in Nat /\ o < 128
  BY DEF Known, OP_AUIPC, OP_LUI, OP_JAL, OP_JALR, OP_BRANCH, OP_LOAD, OP_STORE, OP_ARITHI,
         OP_ARITHR, OP_FENCE, OP_SYSTEM
<1>5. ASSUME NEW o \in Known, NEW f3 \in 0 .. 7, NEW f7 \in Funct7, NEW t \in RegFields
      PROVE  RWord(o, t[1], f3, t[2], t[3], f7) \in Words
  <2>1. f3 \in Nat /\ f3 < 8
    OBVIOUS
  <2> QED
    BY <1>1, <1>3, <1>4, <2>1, RWordWords
<1>6. ASSUME NEW m \in 0 .. 31, NEW f3 \in 0 .. 7, NEW f7 \in Funct7
      PROVE  RWord(4 * m + 3, 5, f3, 6, 7, f7) \in Words
  <2>1. f3 \in Nat /\ f3 < 8 /\ 4 * m + 3 \in Nat /\ 4 * m + 3 < 128
    OBVIOUS
  <2> QED
    BY <1>1, <2>1, RWordWords
<1> QED
  BY <1>5, <1>6 DEF FullWords

\* A register instruction of the runs is decoded as one of the operations.
LEMMA RegisterOperation ==
  ASSUME NEW w \in Registers PROVE FunctOf[core_decode(w).op] \in Operations
<1> USE DEF OP_AUIPC, OP_LUI, OP_JAL, OP_JALR, OP_BRANCH, OP_LOAD, OP_STORE, OP_ARITHI,
            OP_ARITHR, OP_FENCE, OP_SYSTEM
<1>1. PICK f3 \in 0 .. 7, f7 \in {0, 1, 32} : w = RWord(OP_ARITHR, 1, f3, 1, 2, f7)
  BY DEF Registers
<1>2. w \in Words
  BY FetchedWords
<1>3. w.lo = 51 + 128 + 4096 * f3 + 32768 /\ w.hi = 32 + 512 * f7
  <2>1. 1 \div 2 = 0 /\ 1 % 2 = 1
    OBVIOUS
  <2> QED
    BY <1>1, <2>1 DEF RWord, Word32
<1>4. op(w) = OP_ARITHR
  BY <1>2, <1>3, FieldValues
<1>5. func3(w) = f3
  BY <1>2, <1>3, FieldValues
<1>6. func7(w) = f7
  BY <1>2, <1>3, FieldValues
<1>7. ~core_illegal(w)
  BY <1>4, <1>6 DEF core_illegal
<1> DEFINE name == CASE f7 = 1 -> Muls[f3]
                     [] f3 = 0 /\ Slice(w, 30, 30) = 1 -> "sub"
                     [] f3 = 5 /\ Slice(w, 30, 30) = 1 -> "sra"
                     [] OTHER -> Ariths[f3]
<1>8. core_decode(w) = Legal(Ins(name, rd(w), rs1(w), rs2(w), core_imm(w)))
  BY <1>4, <1>5, <1>6, <1>7 DEF core_decode
<1>9. core_decode(w).op = name
  <2>1. \A o, d, s1, s2, i : o # "illegal" => Legal(Ins(o, d, s1, s2, i)).op = o
    BY DEF Legal, Ins
  <2>2. name # "illegal"
    BY ArithNames
  <2> HIDE DEF name
  <2> QED
    BY <1>8, <2>1, <2>2
<1> DEFINE Names == {Ariths[f] : f \in 0 .. 7} \cup {Muls[f] : f \in 0 .. 7} \cup {"sub", "sra"}
<1>10. name \in Names
  OBVIOUS
<1>11. Names \subseteq {"add", "sll", "slt", "sltu", "xor", "srl", "or", "and", "mul", "mulh", "mulhsu",
                        "mulhu", "div", "divu", "rem", "remu", "sub", "sra"}
  <2>1. \A f \in 0 .. 7 : Ariths[f] \in {"add", "sll", "slt", "sltu", "xor", "srl", "or", "and"}
    BY DEF Ariths
  <2>2. \A f \in 0 .. 7 : Muls[f] \in {"mul", "mulh", "mulhsu", "mulhu", "div", "divu", "rem", "remu"}
    BY DEF Muls
  <2> QED
    BY <2>1, <2>2
<1>12. \A i \in Names : FunctOf[i] =
         CASE i = "add" -> "ADD" [] i = "sub" -> "SUB" [] i = "sll" -> "SLL" [] i = "slt" -> "SLT"
           [] i = "sltu" -> "SLTU" [] i = "xor" -> "XOR" [] i = "srl" -> "SRL" [] i = "sra" -> "SRA"
           [] i = "or" -> "OR" [] i = "and" -> "AND" [] i = "mul" -> "MUL" [] i = "mulh" -> "MULH"
           [] i = "mulhsu" -> "MULSU" [] i = "mulhu" -> "MULU" [] i = "div" -> "DIV" [] i = "divu" -> "DIVU"
           [] i = "rem" -> "REM" [] i = "remu" -> "REMU"
  BY DEF FunctOf
<1> HIDE DEF name, Names
<1> QED
  BY <1>9, <1>10, <1>11, <1>12 DEF Operations

\* Every operand is a word of XLEN bits, and an instruction of full length one
\* of 32 bits: what the arithmetic and the decoders are handed.
InsnInv == (Full => inst \in Words) /\ a \in XWord /\ b \in XWord

LEMMA InsnInit == Init => InsnInv
<1> SUFFICES ASSUME Init PROVE InsnInv
  OBVIOUS
<1>1. a \in XWord /\ b \in XWord
  BY MFact DEF Init, XWord
<1>2. CASE inst \in FullWords
  BY <1>1, <1>2, FirstWords DEF InsnInv
<1>3. CASE inst \in Halfwords
  <2>1. PICK c \in Half : c % 4 # 3 /\ inst = Word32(0, c)
    BY <1>3 DEF Halfwords
  <2>2. ~Full
    BY <2>1 DEF Full, Word32
  <2> QED
    BY <1>1, <2>2 DEF InsnInv
<1> QED
  BY <1>2, <1>3 DEF Init

LEMMA InsnStep == InsnInv /\ [Next]_vars => InsnInv'
<1> SUFFICES ASSUME InsnInv, [Next]_vars PROVE InsnInv'
  OBVIOUS
<1> USE DEF InsnInv
<1>1. CASE Execute
  <2>1. a' \in XWord
    <3>1. FunctOf[core_decode(inst).op] \in Operations
      BY <1>1, RegisterOperation DEF Execute
    <3> QED
      BY <1>1, <3>1, ResultWord DEF Execute
  <2> QED
    BY <1>1, <2>1 DEF Execute, Full
<1>2. CASE Load
  BY <1>2 DEF Load, Full
<1>3. CASE Fetch
  BY <1>3, FetchedWords DEF Fetch
<1>4. CASE UNCHANGED vars
  BY <1>4 DEF vars, Full
<1> QED
  BY <1>1, <1>2, <1>3, <1>4 DEF Next

LEMMA InsnInvariant == Spec => []InsnInv
BY InsnInit, InsnStep, PTL DEF Spec

\* The decoder of rtl/riscv.v and the one of tools/rvsim.c read the same
\* instruction, with the same registers and immediate, in every word of 32 bits;
\* where the core is more lenient the simulator calls the word illegal.
THEOREM DecodersCorrect == Spec => []DecodersAgree
<1>1. InsnInv => DecodersAgree
  BY WordsDecode DEF InsnInv, DecodersAgree, SameDecoding
<1> QED
  BY <1>1, InsnInvariant, PTL

\* For every XLEN and every pair of operands the result of the execute stage is
\* one the C expressions of tools/rvsim.c yield for the same instruction.
THEOREM ArithmeticCorrect == Spec => []CoreMatchesSimulator
<1>1. InsnInv => CoreMatchesSimulator
  BY RegisterOperation, ResultsAgree DEF InsnInv, CoreMatchesSimulator
<1> QED
  BY <1>1, InsnInvariant, PTL

\* For every XLEN the quotient and the remainder of the divider of rtl/riscv.v
\* belong together, the division by zero and the one that overflows included.
THEOREM DivisionCorrect == Spec => []DivisionIdentity
<1>1. InsnInv => DivisionIdentity
  BY DivisionHolds DEF InsnInv
<1> QED
  BY <1>1, InsnInvariant, PTL
=============================================================================
