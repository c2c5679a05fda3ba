---------------------------- MODULE Srv32Proofs ----------------------------
(***************************************************************************)
(* Facts about the word functions of Srv32, for every size of the byte:    *)
(* what the datapath computes from words are words.                        *)
(***************************************************************************)
EXTENDS Srv32, TLAPS

\* A word is a multiple of 2^16 values, so that all bits of mstatus and mie fit.
LEMMA WordModFact ==
  /\ WordMod \in Nat
  /\ WordMod >= 65536
  /\ \E m \in Nat : WordMod = 65536 * m
<1>1. PICK k \in Nat : ByteMod = 16 * k
  <2>1. ByteMod = 16 * (ByteMod \div 16)
    BY Srv32Assumption
  <2>2. ByteMod \div 16 \in Nat
    BY Srv32Assumption
  <2> QED
    BY <2>1, <2>2
<1>2. k >= 1
  BY <1>1, Srv32Assumption
<1> DEFINE k2 == k * k
           m  == k2 * k2
<1>3. k2 \in Nat /\ k2 >= 1
  BY <1>1, <1>2
<1> HIDE DEF k2
<1>4. m \in Nat /\ m >= 1
  BY <1>3
<1>5. ByteMod * ByteMod = 256 * k2
  BY <1>1 DEF k2
<1>6. ByteMod \in Nat
  BY Srv32Assumption
<1>7. WordMod = (ByteMod * ByteMod) * (ByteMod * ByteMod)
  BY <1>6 DEF WordMod
<1>8. WordMod = 65536 * m
  BY <1>3, <1>5, <1>7
<1> HIDE DEF m
<1> QED
  BY <1>4, <1>8

LEMMA WordModNat == WordMod \in Nat /\ WordMod > 0 /\ WordMod >= 65536
BY WordModFact

LEMMA SmallWord == ASSUME NEW n \in Nat, n < 65536 PROVE n \in Word
BY WordModNat DEF Word

LEMMA RegWord == Reg \subseteq Word
BY WordModNat, Srv32Assumption DEF Reg, Word

LEMMA ZeroReg == 0 \in Reg
BY Srv32Assumption DEF Reg

-----------------------------------------------------------------------------
(* Addresses and bits. *)

LEMMA PlusWord == ASSUME NEW a \in Word, NEW b \in Word PROVE Plus(a, b) \in Word
BY WordModNat DEF Word, Plus

LEMMA Next4Word == ASSUME NEW a \in Word PROVE Next4(a) \in Word
BY SmallWord, PlusWord DEF Next4

LEMMA EvenWord == ASSUME NEW a \in Word PROVE Even(a) \in Word
BY WordModNat DEF Word, Even

LEMMA Align4Word == ASSUME NEW a \in Word PROVE Align4(a) \in Word
BY WordModNat DEF Word, Align4

LEMMA BitNotWord == ASSUME NEW a \in Word PROVE BitNot(a) \in Word
BY WordModNat DEF Word, BitNot

\* The bits the trap logic sets and clears.
StatusBit == {2048, 128, 8}

LEMMA SetBitWord ==
  ASSUME NEW w \in Word, NEW b \in StatusBit PROVE SetBit(w, b) \in Word
<1>1. PICK m \in Nat : WordMod = 65536 * m
  BY WordModFact
<1>2. w \in Nat /\ w < 65536 * m
  BY <1>1, WordModNat DEF Word
<1>3. CASE b = 2048
  <2>1. (w \div 2048) % 2 # 1 => w + 2048 < 65536 * m
    BY <1>2
  <2> QED
    BY <1>1, <1>2, <1>3, <2>1, WordModNat DEF SetBit, HasBit, Word
<1>4. CASE b = 128
  <2>1. (w \div 128) % 2 # 1 => w + 128 < 65536 * m
    BY <1>2
  <2> QED
    BY <1>1, <1>2, <1>4, <2>1, WordModNat DEF SetBit, HasBit, Word
<1>5. CASE b = 8
  <2>1. (w \div 8) % 2 # 1 => w + 8 < 65536 * m
    BY <1>2
  <2> QED
    BY <1>1, <1>2, <1>5, <2>1, WordModNat DEF SetBit, HasBit, Word
<1> QED
  BY <1>3, <1>4, <1>5 DEF StatusBit

LEMMA ClearBitWord ==
  ASSUME NEW w \in Word, NEW b \in StatusBit PROVE ClearBit(w, b) \in Word
<1>1. w \in Nat /\ w < WordMod
  BY WordModNat DEF Word
<1>2. CASE b = 2048
  BY <1>1, <1>2, WordModNat DEF ClearBit, HasBit, Word
<1>3. CASE b = 128
  BY <1>1, <1>3, WordModNat DEF ClearBit, HasBit, Word
<1>4. CASE b = 8
  BY <1>1, <1>4, WordModNat DEF ClearBit, HasBit, Word
<1> QED
  BY <1>2, <1>3, <1>4 DEF StatusBit

LEMMA CopyBitWord ==
  ASSUME NEW w \in Word, NEW to \in StatusBit, NEW from \in StatusBit
  PROVE  CopyBit(w, to, from) \in Word
BY SetBitWord, ClearBitWord DEF CopyBit

-----------------------------------------------------------------------------
(* Bytes. *)

Byte == 0 .. ByteMod - 1

LEMMA LaneWeightNat == ASSUME NEW i \in 0 .. 3 PROVE LaneWeight[i] \in Nat /\ LaneWeight[i] > 0
<1>1. ByteMod \in Nat /\ ByteMod > 0
  BY Srv32Assumption
<1>2. \A a, b \in Nat : a > 0 /\ b > 0 => a * b \in Nat /\ a * b > 0
  OBVIOUS
<1> DEFINE b2 == ByteMod * ByteMod
           b3 == b2 * ByteMod
<1>3. b2 \in Nat /\ b2 > 0
  BY <1>1, <1>2
<1> HIDE DEF b2
<1>4. b3 \in Nat /\ b3 > 0
  BY <1>1, <1>2, <1>3
<1>5. LaneWeight = [j \in 0 .. 3 |-> CASE j = 0 -> 1
                                       [] j = 1 -> ByteMod
                                       [] j = 2 -> b2
                                       [] j = 3 -> b3]
  BY DEF LaneWeight, b2
<1> HIDE DEF b3
<1>6. CASE i = 0
  BY <1>5, <1>6
<1>7. CASE i = 1
  BY <1>1, <1>5, <1>7
<1>8. CASE i = 2
  BY <1>3, <1>5, <1>8
<1>9. CASE i = 3
  BY <1>4, <1>5, <1>9
<1> QED
  BY <1>6, <1>7, <1>8, <1>9

LEMMA LaneByte ==
  ASSUME NEW w \in Word, NEW i \in 0 .. 3 PROVE Lane(w, i) \in Byte
<1>1. w \in Nat /\ ByteMod \in Nat /\ ByteMod > 0
  BY WordModNat, Srv32Assumption DEF Word
<1>2. w \div LaneWeight[i] \in Int
  BY <1>1, LaneWeightNat
<1> QED
  BY <1>1, <1>2 DEF Lane, Byte

\* One digit more: l + b * x is below b * m when l is below b and x below m.
LEMMA DigitBound ==
  ASSUME NEW b \in Nat, NEW m \in Nat, NEW l \in Nat, NEW x \in Nat, l < b, x < m
  PROVE  l + b * x \in Nat /\ l + b * x < b * m
<1>1. PICK d \in Nat : m = x + 1 + d
  <2>1. m - x - 1 \in Nat
    OBVIOUS
  <2>2. m = x + 1 + (m - x - 1)
    OBVIOUS
  <2> QED
    BY <2>1, <2>2
<1>2. b * m = b * x + b + b * d
  BY <1>1
<1>3. b * d \in Nat /\ b * x \in Nat /\ b * d >= 0
  BY <1>1
<1> QED
  BY <1>2, <1>3

LEMMA FromLanesWord ==
  ASSUME NEW l, \A i \in 0 .. 3 : l[i] \in Byte PROVE FromLanes(l) \in Word
<1> DEFINE b2 == ByteMod * ByteMod
           b3 == ByteMod * b2
           x2 == l[2] + ByteMod * l[3]
           x1 == l[1] + ByteMod * x2
           x0 == l[0] + ByteMod * x1
<1>1. ByteMod \in Nat /\ b2 \in Nat /\ b3 \in Nat
  BY Srv32Assumption
<1>2. \A i \in 0 .. 3 : l[i] \in Nat /\ l[i] < ByteMod
  BY Srv32Assumption DEF Byte
<1>3. x2 \in Nat /\ x2 < b2
  <2>1. /\ l[2] \in Nat /\ l[2] < ByteMod
        /\ l[3] \in Nat /\ l[3] < ByteMod
    BY <1>2
  <2>2. ByteMod \in Nat
    BY <1>1
  <2> QED
    BY <2>1, <2>2, DigitBound, Zenon
<1>4. x1 \in Nat /\ x1 < b3
  <2> HIDE DEF x2, b2
  <2> QED
    BY <1>1, <1>2, <1>3, DigitBound
<1>5. x0 \in Nat /\ x0 < ByteMod * b3
  <2> HIDE DEF x1, b3
  <2> QED
    BY <1>1, <1>2, <1>4, DigitBound
<1>6. WordMod = ByteMod * b3
  BY Srv32Assumption DEF WordMod
<1>7. FromLanes(l) = x0
  BY DEF FromLanes
<1> HIDE DEF x0, b3
<1> QED
  BY <1>5, <1>6, <1>7, WordModNat DEF Word

LEMMA MergeWord ==
  ASSUME NEW old \in Word, NEW strb, NEW data \in Word PROVE Merge(old, strb, data) \in Word
<1> DEFINE l == [i \in 0 .. 3 |-> IF i \in strb THEN Lane(data, i) ELSE Lane(old, i)]
<1>1. \A i \in 0 .. 3 : l[i] \in Byte
  BY LaneByte
<1>2. Merge(old, strb, data) = FromLanes(l)
  BY DEF Merge
<1> HIDE DEF l
<1> QED
  BY <1>1, <1>2, FromLanesWord

LEMMA ByteWord == Byte \subseteq Word
<1>1. PICK m \in Nat : WordMod = ByteMod * m /\ m > 0
  <2> DEFINE m == ByteMod * ByteMod * ByteMod
  <2>1. m \in Nat /\ WordMod = ByteMod * m
    BY Srv32Assumption DEF WordMod
  <2>2. m # 0
    BY <2>1, WordModNat, Srv32Assumption
  <2> QED
    BY <2>1, <2>2
<1>2. ByteMod * m >= ByteMod
  BY <1>1, Srv32Assumption
<1> QED
  BY <1>1, <1>2, WordModNat, Srv32Assumption DEF Byte, Word

-----------------------------------------------------------------------------
(* Instructions. *)

LEMMA NopIsInsn == IsInsn(NOP) /\ IsInsn(ZeroInsn)
<1>1. 0 \in Word /\ 19 \in Word
  BY SmallWord
<1> QED
  BY <1>1, ZeroReg DEF IsInsn, NOP, ZeroInsn, Insn, Opcode, Funct, FunctOf, AluFn, CsrAddr

\* What the later steps use of an instruction.
Fields(i) ==
  /\ i.rd \in Reg /\ i.rs1 \in Reg /\ i.rs2 \in Reg
  /\ i.imm \in Word /\ i.code \in Word
  /\ i.csr \in CsrAddr /\ i.f \in Funct
  /\ i.op \in {"ARITHI", "ARITHR"} /\ i.f # "bad" => i.f \in AluFn

LEMMA InsnFields == ASSUME NEW i, IsInsn(i) PROVE Fields(i)
BY DEF IsInsn, Insn, Fields, FunctOf

-----------------------------------------------------------------------------
(* Quotients, and the bytes and halves of a word. *)

LEMMA Quotient ==
  ASSUME NEW n \in Nat, NEW b \in Nat, b > 0, NEW q \in Nat, NEW r \in Nat, r < b, n = b * q + r
  PROVE  n \div b = q /\ n % b = r
<1> DEFINE p == n \div b
           s == n % b
<1>1. p \in Nat /\ s \in Nat /\ s < b /\ n = b * p + s
  OBVIOUS
<1> HIDE DEF p, s
<1>2. ASSUME p > q PROVE FALSE
  <2>1. PICK d \in Nat : p = q + 1 + d
    <3>1. p - q - 1 \in Nat /\ p = q + 1 + (p - q - 1)
      BY <1>1, <1>2
    <3> QED
      BY <3>1
  <2>2. b * p = b * q + b + b * d /\ b * d \in Nat
    BY <2>1
  <2>3. b * p \in Nat /\ b * q \in Nat
    BY <1>1
  <2> QED
    BY <1>1, <2>2, <2>3
<1>3. ASSUME q > p PROVE FALSE
  <2>1. PICK d \in Nat : q = p + 1 + d
    <3>1. q - p - 1 \in Nat /\ q = p + 1 + (q - p - 1)
      BY <1>1, <1>3
    <3> QED
      BY <3>1
  <2>2. b * q = b * p + b + b * d /\ b * d \in Nat
    BY <1>1, <2>1
  <2>3. b * p \in Nat /\ b * q \in Nat
    BY <1>1
  <2> QED
    BY <1>1, <2>2, <2>3
<1>4. p = q
  BY <1>1, <1>2, <1>3
<1>5. b * q \in Nat /\ s = r
  BY <1>1, <1>4
<1> QED
  BY <1>4, <1>5 DEF p, s

LEMMA QuotientTwice ==
  ASSUME NEW n \in Nat, NEW a \in Nat, NEW b \in Nat, a > 0, b > 0
  PROVE  n \div (a * b) = (n \div a) \div b
<1> DEFINE x == n \div a
           q == x \div b
           r == (n % a) + a * (x % b)
<1>1. x \in Nat /\ n % a \in Nat /\ n % a < a /\ n = a * x + (n % a)
  OBVIOUS
<1> HIDE DEF x
<1>2. q \in Nat /\ x % b \in Nat /\ x % b < b /\ x = b * q + (x % b)
  BY <1>1
<1>3. r \in Nat /\ r < a * b
  BY <1>1, <1>2, DigitBound
<1>4. a * b \in Nat /\ a * b > 0
  OBVIOUS
<1>5. n = (a * b) * q + r
  <2> HIDE DEF q
  <2> DEFINE y == x % b
  <2>1. y \in Nat /\ x = b * q + y
    BY <1>2
  <2> HIDE DEF y
  <2>2. a * x = (a * b) * q + a * y
    BY <1>2, <2>1
  <2>3. a * x \in Nat /\ a * y \in Nat /\ (a * b) * q \in Nat
    BY <1>1, <1>2, <2>1, <1>4
  <2> QED
    BY <1>1, <2>2, <2>3 DEF y
<1> HIDE DEF q, r
<1> DEFINE ab == a * b
<1> HIDE DEF ab
<1>6. ab \in Nat /\ ab > 0 /\ r < ab /\ n = ab * q + r
  BY <1>3, <1>4, <1>5 DEF ab
<1>7. n \div ab = q
  BY <1>2, <1>3, <1>6, Quotient
<1> QED
  BY <1>7 DEF ab, q, x

LEMMA Division ==
  ASSUME NEW n \in Nat, NEW b \in Nat, b > 0
  PROVE  n \div b \in Nat /\ n % b \in Nat /\ n % b < b /\ n = b * (n \div b) + (n % b)
OBVIOUS

LEMMA Digit ==
  ASSUME NEW d \in Nat, NEW x \in Nat, d < ByteMod
  PROVE  /\ d + ByteMod * x \in Nat
         /\ (d + ByteMod * x) \div ByteMod = x
         /\ (d + ByteMod * x) % ByteMod = d
<1> DEFINE n == d + ByteMod * x
<1>1. ByteMod \in Nat /\ ByteMod > 0
  BY Srv32Assumption
<1>2. n \in Nat /\ n = ByteMod * x + d
  BY <1>1
<1> HIDE DEF n
<1>3. n \div ByteMod = x /\ n % ByteMod = d
  BY <1>1, <1>2, Quotient
<1> QED
  BY <1>2, <1>3 DEF n

\* The lanes of a number, one division after the other.
LEMMA LaneQuotients ==
  ASSUME NEW w \in Nat
  PROVE  /\ Lane(w, 0) = w % ByteMod
         /\ Lane(w, 1) = (w \div ByteMod) % ByteMod
         /\ Lane(w, 2) = ((w \div ByteMod) \div ByteMod) % ByteMod
         /\ Lane(w, 3) = (((w \div ByteMod) \div ByteMod) \div ByteMod) % ByteMod
<1> DEFINE b2 == ByteMod * ByteMod
           b3 == b2 * ByteMod
<1>1. ByteMod \in Nat /\ ByteMod > 0
  BY Srv32Assumption
<1>2. b2 \in Nat /\ b2 > 0
  BY <1>1
<1>3. w \div b2 = (w \div ByteMod) \div ByteMod
  BY <1>1, QuotientTwice
<1>4. LaneWeight = [j \in 0 .. 3 |-> CASE j = 0 -> 1 [] j = 1 -> ByteMod [] j = 2 -> b2 [] j = 3 -> b3]
  BY DEF LaneWeight
<1> HIDE DEF b2
<1>5. w \div b3 = (w \div b2) \div ByteMod
  BY <1>1, <1>2, QuotientTwice
<1> HIDE DEF b3
<1>6. LaneWeight[0] = 1 /\ LaneWeight[1] = ByteMod /\ LaneWeight[2] = b2 /\ LaneWeight[3] = b3
  BY <1>4
<1>7. w \div 1 = w
  OBVIOUS
<1> QED
  BY <1>3, <1>5, <1>6, <1>7 DEF Lane

\* A half word is its two bytes.
LEMMA HalvesOfWord ==
  ASSUME NEW w \in Word
  PROVE  /\ Lane(w, 0) + ByteMod * Lane(w, 1) = w % (ByteMod * ByteMod)
         /\ Lane(w, 2) + ByteMod * Lane(w, 3) = w \div (ByteMod * ByteMod)
<1> DEFINE b2 == ByteMod * ByteMod
           w1 == w \div ByteMod
           w2 == w1 \div ByteMod
           w3 == w2 \div ByteMod
<1>1. ByteMod \in Nat /\ ByteMod > 0 /\ b2 \in Nat /\ b2 > 0 /\ WordMod = b2 * b2
  BY Srv32Assumption DEF WordMod
<1>2. w \in Nat /\ w < b2 * b2
  BY <1>1, WordModNat DEF Word
<1>3. w1 \in Nat /\ w = ByteMod * w1 + Lane(w, 0) /\ Lane(w, 0) \in Nat /\ Lane(w, 0) < ByteMod
  BY <1>1, <1>2, LaneQuotients, Division
<1> HIDE DEF w1
<1>4. w2 \in Nat /\ w1 = ByteMod * w2 + Lane(w, 1) /\ Lane(w, 1) \in Nat /\ Lane(w, 1) < ByteMod
  <2>1. Lane(w, 1) = w1 % ByteMod
    BY <1>2, LaneQuotients DEF w1
  <2> QED
    BY <1>1, <1>3, <2>1, Division
<1>5. w \div b2 = w2
  BY <1>1, <1>2, QuotientTwice DEF w1
<1> HIDE DEF w2
<1>6. w3 \in Nat /\ w2 = ByteMod * w3 + Lane(w, 2) /\ Lane(w, 2) \in Nat /\ Lane(w, 2) < ByteMod
  <2>1. Lane(w, 2) = w2 % ByteMod
    BY <1>2, LaneQuotients DEF w1, w2
  <2> QED
    BY <1>1, <1>4, <2>1, Division
<1>7. Lane(w, 3) = w3 % ByteMod
  BY <1>2, LaneQuotients DEF w1, w2
<1> HIDE DEF w3
<1> DEFINE l == Lane(w, 0) + ByteMod * Lane(w, 1)
<1>8. l \in Nat /\ l < b2
  BY <1>1, <1>3, <1>4, DigitBound
<1>9. w = b2 * w2 + l
  <2> DEFINE l0 == Lane(w, 0)
             l1 == Lane(w, 1)
  <2>1. l0 \in Nat /\ l1 \in Nat /\ w = ByteMod * w1 + l0 /\ w1 = ByteMod * w2 + l1 /\ l = l0 + ByteMod * l1
    BY <1>3, <1>4
  <2> HIDE DEF l0, l1, l
  <2>2. ByteMod * w1 = b2 * w2 + ByteMod * l1
    <3>1. \A a, x, y \in Nat : a * (a * x + y) = (a * a) * x + a * y
      OBVIOUS
    <3>2. ByteMod * (ByteMod * w2 + l1) = (ByteMod * ByteMod) * w2 + ByteMod * l1
      BY <1>1, <1>4, <2>1, <3>1
    <3> QED
      BY <2>1, <3>2, Zenon
  <2>3. ByteMod * w1 \in Nat /\ ByteMod * l1 \in Nat /\ b2 * w2 \in Nat
    BY <1>1, <1>3, <1>4, <2>1
  <2> QED
    BY <2>1, <2>2, <2>3
<1>10. w % b2 = l
  <2> HIDE DEF b2, l
  <2> QED
    BY <1>1, <1>2, <1>4, <1>8, <1>9, Quotient
<1>11. w2 < b2
  <2> HIDE DEF b2, l
  <2> SUFFICES ASSUME w2 >= b2 PROVE FALSE
    BY <1>1, <1>4
  <2>1. b2 * w2 >= b2 * b2
    BY <1>1, <1>4
  <2>2. b2 * w2 \in Nat /\ b2 * b2 \in Nat
    BY <1>1, <1>4
  <2> QED
    BY <1>2, <1>8, <1>9, <2>1, <2>2
<1>12. w3 < ByteMod
  <2> SUFFICES ASSUME w3 >= ByteMod PROVE FALSE
    BY <1>1, <1>6
  <2>1. ByteMod * w3 >= b2
    BY <1>1, <1>6
  <2>2. ByteMod * w3 \in Nat
    BY <1>1, <1>6
  <2> HIDE DEF b2
  <2> QED
    BY <1>1, <1>6, <1>11, <2>1, <2>2
<1>13. Lane(w, 3) = w3
  <2>1. w3 = ByteMod * 0 + w3
    BY <1>1, <1>6
  <2>2. w3 % ByteMod = w3
    BY <1>1, <1>6, <1>12, <2>1, Quotient
  <2> QED
    BY <1>7, <2>2
<1>14. Lane(w, 2) + ByteMod * Lane(w, 3) = w2
  <2>1. ByteMod * w3 \in Nat
    BY <1>1, <1>6
  <2> QED
    BY <1>6, <1>13, <2>1
<1> QED
  BY <1>5, <1>10, <1>14

\* The lanes of a word put together from bytes are those bytes.
LEMMA LaneOfLanes ==
  ASSUME NEW l, \A i \in 0 .. 3 : l[i] \in Byte, NEW i \in 0 .. 3
  PROVE  Lane(FromLanes(l), i) = l[i]
<1> DEFINE x2 == l[2] + ByteMod * l[3]
           x1 == l[1] + ByteMod * x2
           x0 == l[0] + ByteMod * x1
<1>1. ByteMod \in Nat /\ ByteMod > 0
  BY Srv32Assumption
<1>2. \A j \in 0 .. 3 : l[j] \in Nat /\ l[j] < ByteMod
  BY Srv32Assumption DEF Byte
<1>3. /\ l[0] \in Nat /\ l[0] < ByteMod /\ l[1] \in Nat /\ l[1] < ByteMod
      /\ l[2] \in Nat /\ l[2] < ByteMod /\ l[3] \in Nat /\ l[3] < ByteMod
  BY <1>2
<1>4. x2 \in Nat /\ x2 \div ByteMod = l[3] /\ x2 % ByteMod = l[2]
  BY <1>3, Digit
<1> HIDE DEF x2
<1>5. x1 \in Nat /\ x1 \div ByteMod = x2 /\ x1 % ByteMod = l[1]
  BY <1>3, <1>4, Digit
<1> HIDE DEF x1
<1>6. x0 \in Nat /\ x0 \div ByteMod = x1 /\ x0 % ByteMod = l[0]
  BY <1>3, <1>5, Digit
<1>7. FromLanes(l) = x0
  BY DEF FromLanes, x1, x2
<1> HIDE DEF x0
<1>8. l[3] % ByteMod = l[3]
  BY <1>1, <1>2
<1>9. /\ Lane(x0, 0) = l[0] /\ Lane(x0, 1) = l[1]
      /\ Lane(x0, 2) = l[2] /\ Lane(x0, 3) = l[3]
  BY <1>4, <1>5, <1>6, <1>8, LaneQuotients
<1>10. i = 0 \/ i = 1 \/ i = 2 \/ i = 3
  OBVIOUS
<1> QED
  BY <1>7, <1>9, <1>10

-----------------------------------------------------------------------------
(* Aligned addresses, and the order of signed words. *)

LEMMA AlignedNext ==
  ASSUME NEW a \in Word, a % 4 = 0
  PROVE  Next4(a) \in Word /\ Next4(a) % 4 = 0 /\ Even(a) = a
<1>1. PICK m \in Nat : WordMod = 65536 * m
  BY WordModFact
<1>2. a \in Nat /\ a < WordMod
  BY WordModNat DEF Word
<1>3. Next4(a) = a + 4 \/ Next4(a) = 0
  BY <1>1, <1>2, WordModNat DEF Next4, Plus
<1>4. a % 2 = 0
  BY <1>2
<1> QED
  BY <1>2, <1>3, <1>4, Next4Word DEF Even

LEMMA EvenOfAligned == ASSUME NEW a \in Word, a % 4 = 0 PROVE Even(a) = a
BY AlignedNext

LEMMA SignedDifference ==
  ASSUME NEW a \in Word, NEW b \in Word
  PROVE  /\ Signed(a) \in Int /\ Signed(b) \in Int
         /\ Signed(a) - Signed(b) = 0 <=> a = b
         /\ Signed(a) - Signed(b) < 0 <=> Signed(a) < Signed(b)
         /\ a - b < 0 <=> a < b
<1>1. a \in Nat /\ a < WordMod /\ b \in Nat /\ b < WordMod /\ WordMod \in Nat
  BY WordModNat DEF Word
<1> QED
  BY <1>1 DEF Signed
=============================================================================
