---------------------------- MODULE RvsimProofs ----------------------------
(***************************************************************************)
(* Proofs about the instruction set simulator, for every program, every    *)
(* answer of the host and every placement of the device registers.         *)
(***************************************************************************)
EXTENDS Rvsim, Srv32Proofs

-----------------------------------------------------------------------------
(* The fields of the state, one update at a time. *)

LEMMA StateFields ==
  ASSUME NEW s \in State
  PROVE  /\ s.pc \in Word /\ s.prev_pc \in Word /\ s.regs \in [Reg -> Word]
         /\ s.csr \in [CsrReg -> Word] /\ s.cycle \in Counter /\ s.instret \in Counter
         /\ s.mtime \in Counter /\ s.mtimecmp \in Counter /\ s.msip \in Word
         /\ s.mtime_update \in BOOLEAN /\ s.mem \in [0 .. NMem - 1 -> Word]
         /\ s.result \in Word /\ s.status \in {"run", "exit", "crash"} /\ s.exitcode \in Word
BY DEF State

LEMMA SetPc == ASSUME NEW s \in State, NEW v \in Word PROVE [s EXCEPT !.pc = v] \in State
BY DEF State

LEMMA SetCsrPc ==
  ASSUME NEW s \in State, NEW v \in Word, NEW c \in [CsrReg -> Word]
  PROVE  [s EXCEPT !.csr = c, !.pc = v] \in State
BY DEF State

LEMMA SetCounts ==
  ASSUME NEW s \in State, NEW n \in Counter, NEW t \in Counter
  PROVE  [s EXCEPT !.cycle = n, !.mtime = t] \in State
BY DEF State

LEMMA CounterNat == CountMod \in Nat /\ CountMod > 0 /\ Counter \subseteq Nat
BY RvsimAssumption, WordModNat DEF Counter

LEMMA CountType == ASSUME NEW n \in Int PROVE Count(n) \in Counter
BY CounterNat DEF Count, Counter

LEMMA CycleAddType ==
  ASSUME NEW s \in State, NEW n \in Nat PROVE srv32_cycle_add(s, n) \in State
<1>1. s.cycle \in Nat /\ s.mtime \in Nat /\ s.mtime \in Counter
  BY StateFields, CounterNat
<1>2. Count(s.cycle + n) \in Counter /\ Count(s.mtime + n) \in Counter
  BY <1>1, CountType
<1> QED
  BY <1>1, <1>2, SetCounts DEF srv32_cycle_add

-----------------------------------------------------------------------------
(* Traps. *)

Causes == {TRAP_INST_ALIGN, TRAP_INST_FAIL, TRAP_INST_ILL, TRAP_BREAK, TRAP_LD_ALIGN,
           TRAP_LD_FAIL, TRAP_ST_ALIGN, TRAP_ST_FAIL, TRAP_ECALL}

LEMMA CauseWords ==
  /\ \A c \in Causes : c \in Word /\ 4 * c \in Word
  /\ \A q \in Irq : /\ IntCause(q) \in Word /\ 4 * IntCode(q) \in Word
                    /\ IrqBit(q) \in StatusBit
<1>1. \A q \in Irq : IntCode(q) \in Nat /\ IntCode(q) < 16 /\ IrqBit(q) \in StatusBit
  BY DEF Irq, IntCode, IrqBit, StatusBit
<1>2. \A n \in Nat : n < 16 => WordMod \div 2 + n \in Word /\ n \in Word /\ 4 * n \in Word
  BY WordModNat DEF Word
<1>3. \A c \in Causes : c \in Nat /\ c < 16
  BY DEF Causes, TRAP_INST_ALIGN, TRAP_INST_FAIL, TRAP_INST_ILL, TRAP_BREAK, TRAP_LD_ALIGN,
         TRAP_LD_FAIL, TRAP_ST_ALIGN, TRAP_ST_FAIL, TRAP_ECALL
<1> QED
  BY <1>1, <1>2, <1>3 DEF IntCause

LEMMA VectorType ==
  ASSUME NEW s \in State, NEW code, 4 * code \in Word PROVE Vector(s, code) \in Word
<1>1. s.csr["mtvec"] \in Word
  BY StateFields DEF CsrReg
<1>2. s.csr["mtvec"] % 2 = 1 => s.csr["mtvec"] - 1 \in Word
  BY <1>1, WordModNat DEF Word
<1> QED
  BY <1>1, <1>2, PlusWord DEF Vector

LEMMA EnteredType ==
  ASSUME NEW s \in State, NEW c \in Word PROVE Entered(s, c) \in [CsrReg -> Word]
<1>1. s.csr \in [CsrReg -> Word] /\ s.csr["mstatus"] \in Word
  BY StateFields DEF CsrReg
<1> DEFINE m == ClearBit(CopyBit(s.csr["mstatus"], MPIE, MIE), MIE)
<1>2. m \in Word
  BY <1>1, CopyBitWord, ClearBitWord DEF MIE, MPIE, StatusBit
<1>3. Entered(s, c) = [s.csr EXCEPT !["mcause"] = c, !["mstatus"] = m]
  BY <1>1 DEF Entered, CsrReg
<1> HIDE DEF m
<1> QED
  BY <1>1, <1>2, <1>3

LEMMA TrapType ==
  ASSUME NEW s \in State, NEW c \in Causes, NEW v \in Word PROVE srv32_trap(s, c, v) \in State
<1>1. srv32_cycle_add(s, BranchPenalty) \in State /\ s.prev_pc \in Word
  BY CycleAddType, StateFields, RvsimAssumption
<1>2. Entered(s, c) \in [CsrReg -> Word] /\ Vector(s, c) \in Word
  BY EnteredType, VectorType, CauseWords
<1>3. [Entered(s, c) EXCEPT !["mepc"] = s.prev_pc, !["mtval"] = v] \in [CsrReg -> Word]
  BY <1>1, <1>2
<1> QED
  BY <1>1, <1>2, <1>3, SetCsrPc DEF srv32_trap

LEMMA IntType == ASSUME NEW s \in State, NEW q \in Irq PROVE srv32_int(s, q) \in State
<1> DEFINE t == IF s.pc = Next4(s.prev_pc) THEN srv32_cycle_add(s, BranchPenalty) ELSE s
           e == Entered(s, IntCause(q))
           b == SetBit(e["mip"], IrqBit(q))
           c == [e EXCEPT !["mip"] = b, !["mepc"] = s.pc]
           v == Vector(s, IntCode(q))
<1>1. t \in State /\ s.pc \in Word
  BY CycleAddType, StateFields, RvsimAssumption
<1>2. e \in [CsrReg -> Word] /\ v \in Word
  BY EnteredType, VectorType, CauseWords
<1>3. e["mip"] \in Word
  BY <1>2 DEF CsrReg
<1>4. b \in Word
  BY <1>3, CauseWords, SetBitWord
<1>5. srv32_int(s, q) = [t EXCEPT !.csr = c, !.pc = v]
  <2>1. [e EXCEPT !["mip"] = SetBit(@, IrqBit(q)), !["mepc"] = s.pc] = c
    <3> HIDE DEF e
    <3> QED
      BY <1>2 DEF CsrReg
  <2> QED
    BY <2>1 DEF srv32_int
<1> HIDE DEF t, e, b, v
<1>6. c \in [CsrReg -> Word]
  BY <1>1, <1>2, <1>4
<1> HIDE DEF c
<1>7. [t EXCEPT !.csr = c, !.pc = v] \in State
  BY <1>1, <1>2, <1>6, SetCsrPc
<1> QED
  BY <1>5, <1>7

-----------------------------------------------------------------------------
(* Memory. *)

LEMMA SetRegs ==
  ASSUME NEW s \in State, NEW r, NEW v \in Word PROVE Set(s, r, v) \in State
<1>1. s.regs \in [Reg -> Word]
  BY StateFields
<1>2. [s.regs EXCEPT ![r] = v] \in [Reg -> Word]
  BY <1>1
<1>3. \A g \in [Reg -> Word] : [s EXCEPT !.regs = g] \in State
  BY DEF State
<1> QED
  BY <1>2, <1>3 DEF Set

LEMMA TextInsn == ASSUME TypeOK, NEW k PROVE IsInsn(TextWord(k)) /\ TextWord(k).code \in Word
<1>1. IsInsn(TextWord(k))
  BY NopIsInsn DEF TypeOK, TextWord
<1> QED
  BY <1>1, InsnFields DEF Fields

MemFn == LoadFn \cup StoreFn

\* Sizes, and the value after the largest of that size.
LEMMA Sizes ==
  ASSUME NEW f \in MemFn
  PROVE  Size(f) \in {1, 2, 4} /\ Low(f) \in Nat /\ Low(f) > 0 /\ Low(f) <= WordMod
<1> DEFINE b2 == ByteMod * ByteMod
<1>1. Size(f) \in {1, 2, 4}
  BY DEF MemFn, LoadFn, StoreFn, Size
<1>2. ByteMod \in Nat /\ ByteMod > 0
  BY Srv32Assumption
<1>3. b2 \in Nat /\ b2 > 0 /\ ByteMod <= b2
  BY <1>2
<1>4. WordMod = b2 * b2
  BY <1>2 DEF WordMod
<1>5. Low(f) \in {ByteMod, b2, WordMod}
  BY <1>1 DEF Low
<1> HIDE DEF b2
<1>6. b2 <= b2 * b2
  BY <1>3
<1> QED
  BY <1>1, <1>2, <1>3, <1>4, <1>5, <1>6, WordModNat

\* The word of an access that is in memory and not in the text.
LEMMA DataIndex ==
  ASSUME NEW a \in Word, NEW n \in {1, 2, 4}, InMem(a, n), ~(a < TextEnd)
  PROVE  a \div 4 - NText \in 0 .. NMem - 1
<1>1. a \in Nat /\ NText \in Nat /\ NMem \in Nat
  BY WordModNat, RvsimAssumption DEF Word
<1> QED
  BY <1>1 DEF InMem, TextEnd, MemEnd

LEMMA WordAtType ==
  ASSUME TypeOK, NEW s \in State, NEW a \in Word, NEW n \in {1, 2, 4}, InMem(a, n)
  PROVE  WordAt(s, a) \in Word
<1>1. CASE a < TextEnd
  BY <1>1, TextInsn DEF WordAt
<1>2. CASE ~(a < TextEnd)
  BY <1>2, DataIndex, StateFields DEF WordAt
<1> QED
  BY <1>1, <1>2

LEMMA ModuloWord ==
  ASSUME NEW n \in Nat, NEW m \in Nat, m > 0, m <= WordMod PROVE n % m \in Word
BY WordModNat DEF Word

LEMMA Remainder4 == ASSUME NEW a \in Word PROVE a % 4 \in 0 .. 3
BY WordModNat DEF Word

LEMMA ReadMemType ==
  ASSUME TypeOK, NEW s \in State, NEW f \in MemFn, NEW a \in Word, InMem(a, Size(f))
  PROVE  srv32_read_mem(s, f, a) \in Word
<1> DEFINE w == WordAt(s, a)
           g == LaneWeight[a % 4]
           q == w \div g
<1>1. w \in Word /\ Low(f) \in Nat /\ Low(f) > 0 /\ Low(f) <= WordMod
  BY Sizes, WordAtType
<1>2. g \in Nat /\ g > 0
  BY Remainder4, LaneWeightNat
<1>3. w \in Nat
  BY <1>1, WordModNat DEF Word
<1>4. srv32_read_mem(s, f, a) = q % Low(f)
  BY DEF srv32_read_mem
<1> HIDE DEF w, g
<1>5. q \in Nat
  BY <1>2, <1>3, Division
<1> HIDE DEF q
<1> QED
  BY <1>1, <1>4, <1>5, ModuloWord

LEMMA WriteMemType ==
  ASSUME NEW s \in State, NEW f \in MemFn, NEW a \in Word, NEW v \in Word,
         InMem(a, Size(f)), ~(a < TextEnd)
  PROVE  srv32_write_mem(s, f, a, v) \in State
<1> DEFINE k == a \div 4 - NText
           g == LaneWeight[a % 4]
           d == (v * g) % WordMod
           b == (a % 4) .. (a % 4) + Size(f) - 1
           w == Merge(s.mem[k], b, d)
<1>1. s.mem \in [0 .. NMem - 1 -> Word] /\ k \in 0 .. NMem - 1
  BY StateFields, Sizes, DataIndex
<1>2. g \in Nat
  BY Remainder4, LaneWeightNat
<1>3. d \in Word
  <2> HIDE DEF g
  <2>1. v \in Nat
    BY WordModNat DEF Word
  <2>2. v * g \in Nat
    BY <1>2, <2>1
  <2> QED
    BY <2>2, ModuloWord, WordModNat
<1>4. srv32_write_mem(s, f, a, v) = [s EXCEPT !.mem[k] = w]
  BY DEF srv32_write_mem
<1> HIDE DEF d, b, k
<1>5. w \in Word
  BY <1>1, <1>3, MergeWord
<1> HIDE DEF w
<1>6. [s.mem EXCEPT ![k] = w] \in [0 .. NMem - 1 -> Word]
  BY <1>1, <1>5
<1>7. \A m \in [0 .. NMem - 1 -> Word] : [s EXCEPT !.mem = m] \in State
  BY DEF State
<1> QED
  BY <1>4, <1>6, <1>7

LEMMA ExtendedType ==
  ASSUME WordFunctions(Word), NEW f, NEW d \in Word PROVE Extended(f, d) \in Word
<1>1. WordMod - ByteMod \in Word /\ WordMod - ByteMod * ByteMod \in Word
  <2> DEFINE b2 == ByteMod * ByteMod
  <2>0. Low("LB") = ByteMod /\ Low("LH") = b2 /\ {"LB", "LH"} \subseteq MemFn
    BY DEF Low, Size, MemFn, LoadFn
  <2>1. ByteMod \in Nat /\ ByteMod > 0 /\ ByteMod <= WordMod
    BY <2>0, Sizes
  <2>2. b2 \in Nat /\ b2 > 0 /\ b2 <= WordMod
    BY <2>0, Sizes
  <2> HIDE DEF b2
  <2>3. WordMod - b2 \in Word
    BY <2>2, WordModNat DEF Word
  <2> QED
    BY <2>1, <2>3, WordModNat DEF Word, b2
<1> QED
  BY <1>1 DEF Extended, WordFunctions

-----------------------------------------------------------------------------
(* Counters and devices. *)

LEMMA CountModFact ==
  \E m \in Nat : CountMod = WordMod * m /\ m > 0 /\ m <= WordMod /\ CountMod \div WordMod = m
<1> DEFINE m == CountMod \div WordMod
<1>1. WordMod \in Nat /\ WordMod > 0 /\ CountMod \in Nat /\ CountMod % WordMod = 0
      /\ CountMod > WordMod /\ m <= WordMod
  BY WordModNat, RvsimAssumption
<1>2. m \in Nat /\ CountMod = WordMod * m + 0
  BY <1>1, Division
<1> HIDE DEF m
<1>3. m > 0
  BY <1>1, <1>2
<1> QED
  BY <1>1, <1>2, <1>3 DEF m

\* The halves of a counter are words, and replacing one leaves a counter.
LEMMA Halves ==
  ASSUME NEW c \in Counter, NEW v \in Word
  PROVE  Lo(c) \in Word /\ Hi(c) \in Word /\ WithLo(c, v) \in Counter /\ WithHi(c, v) \in Counter
<1>1. PICK m \in Nat : CountMod = WordMod * m /\ m > 0 /\ m <= WordMod
                       /\ CountMod \div WordMod = m
  BY CountModFact
<1> DEFINE r == c % WordMod
           q == c \div WordMod
           h == v % m
<1>2. c \in Nat /\ c < WordMod * m /\ v \in Nat /\ v < WordMod /\ WordMod \in Nat /\ WordMod > 0
  BY <1>1, WordModNat, CounterNat DEF Counter, Word
<1>3. q \in Nat /\ r \in Nat /\ r < WordMod /\ c = WordMod * q + r
  BY <1>2, Division
<1>4. h \in Nat /\ h < m
  BY <1>1, <1>2, Division
<1>5. Lo(c) = r /\ Hi(c) = q /\ WithLo(c, v) = c - r + v /\ WithHi(c, v) = h * WordMod + r
  BY <1>1 DEF Lo, Hi, WithLo, WithHi
<1> HIDE DEF q, r, h
<1>6. q < m
  <2> SUFFICES ASSUME q >= m PROVE FALSE
    BY <1>1, <1>3
  <2>1. WordMod * m <= WordMod * q
    <3>1. PICK d \in Nat : q = m + d
      <4>1. q - m \in Nat /\ q = m + (q - m)
        BY <1>1, <1>3
      <4> QED
        BY <4>1
    <3>2. WordMod * q = WordMod * m + WordMod * d /\ WordMod * d \in Nat
      BY <1>1, <1>2, <3>1
    <3> QED
      BY <1>1, <1>2, <3>2
  <2> QED
    BY <1>1, <1>2, <1>3, <2>1
<1>7. r \in Word /\ q \in Word
  BY <1>1, <1>2, <1>3, <1>6 DEF Word
<1>8. v + WordMod * q \in Nat /\ v + WordMod * q < WordMod * m
  BY <1>1, <1>2, <1>3, <1>6, DigitBound
<1>9. r + WordMod * h \in Nat /\ r + WordMod * h < WordMod * m
  BY <1>1, <1>2, <1>3, <1>4, DigitBound
<1>10. c - r + v = v + WordMod * q /\ h * WordMod + r = r + WordMod * h
  BY <1>2, <1>3, <1>4
<1> QED
  BY <1>1, <1>5, <1>7, <1>8, <1>9, <1>10, CounterNat DEF Counter

LEMMA MaskedType ==
  ASSUME WordFunctions(Word), NEW f \in MemFn, NEW old \in Word, NEW v \in Word
  PROVE  Masked(f, old, v) \in Word
<1>1. Low(f) \in Nat /\ Low(f) > 0 /\ old \in Nat /\ old < WordMod
  BY Sizes, WordModNat DEF Word
<1>2. old % Low(f) \in Nat /\ old % Low(f) <= old
  <2> DEFINE l == Low(f)
             q == old \div l
             r == old % l
  <2>1. l \in Nat /\ q \in Nat /\ r \in Nat /\ old = l * q + r
    BY <1>1, Division
  <2> HIDE DEF l, q, r
  <2>2. l * q \in Nat
    BY <2>1
  <2>3. r \in Nat /\ r <= old
    BY <1>1, <2>1, <2>2
  <2> QED
    BY <2>3 DEF r, l
<1>3. old - (old % Low(f)) \in Word
  BY <1>1, <1>2, WordModNat DEF Word
<1> QED
  BY <1>3 DEF Masked, WordFunctions

LEMMA ReadDeviceType ==
  ASSUME NEW s \in State, NEW n PROVE ReadDevice(s, n) \subseteq Word
<1>1. /\ s.mtime \in Counter /\ s.mtimecmp \in Counter /\ s.msip \in Word /\ s.result \in Word
      /\ HostResults \subseteq Word /\ 0 \in Word
  BY StateFields, RvsimAssumption, SmallWord
<1>2. Count(s.mtime - 1) \in Counter
  <2>1. s.mtime \in Nat
    BY <1>1, CounterNat
  <2>2. s.mtime - 1 \in Int
    BY <2>1
  <2> QED
    BY <2>2, CountType
<1>3. /\ Lo(Count(s.mtime - 1)) \in Word /\ Hi(Count(s.mtime - 1)) \in Word
      /\ Lo(s.mtimecmp) \in Word /\ Hi(s.mtimecmp) \in Word
  BY <1>1, <1>2, Halves
<1> QED
  BY <1>1, <1>3 DEF ReadDevice

\* What memrw answers: a state, a word and, where no device asked for the end,
\* a cause of a trap or none.
Answers == {a \in [code : Nat, s : State, val : Word] : a.code \in Causes \cup {0, RV_EXIT}}

LEMMA AnswerType ==
  ASSUME NEW c \in Causes \cup {0, RV_EXIT}, NEW s \in State, NEW v \in Word
  PROVE  Answer(c, s, v) \in Answers
<1>1. c \in Nat
  BY CauseWords, WordModNat DEF Word, RV_EXIT
<1> QED
  BY <1>1 DEF Answer, Answers

LEMMA CrashedType == ASSUME NEW s \in State PROVE Crashed(s) \in State
BY DEF Crashed, State

LEMMA ExitedType == ASSUME NEW s \in State, NEW c \in Word PROVE Exited(s, c) \in State
BY DEF Exited, State

LEMMA SetResult == ASSUME NEW s \in State, NEW r \in Word PROVE [s EXCEPT !.result = r] \in State
BY DEF State

LEMMA TohostType == ASSUME NEW s \in State, NEW p PROVE srv32_tohost(s, p) \subseteq State
<1>1. s.exitcode \in Word /\ 0 \in Word /\ 1 \in Word /\ HostResults \subseteq Word
  BY StateFields, SmallWord, RvsimAssumption
<1>2. Crashed(s) \in State /\ Exited(s, 1) \in State
      /\ \A r \in Word : [s EXCEPT !.result = r] \in State
  BY <1>1, CrashedType, ExitedType, SetResult
<1>3. Exited([s EXCEPT !.result = 0], s.exitcode) \in State
  BY <1>1, <1>2, ExitedType
<1> DEFINE n == IntAt(s, p)
<1>4. CASE ~InMem(p, 4)
  BY <1>2, <1>4 DEF srv32_tohost
<1>5. CASE InMem(p, 4)
  <2>1. srv32_tohost(s, p)
          = CASE n = SYS_EXIT   -> {Exited([s EXCEPT !.result = 0], s.exitcode)}
              [] n \in HostCall -> {[s EXCEPT !.result = r] : r \in HostResults}
              [] n \in Dumps    -> {[s EXCEPT !.result = 0], Exited(s, 1)}
              [] OTHER          -> {s}
    BY <1>5 DEF srv32_tohost
  <2> HIDE DEF n
  <2>2. CASE n = SYS_EXIT
    BY <1>3, <2>1, <2>2 DEF SYS_EXIT, HostCall, Dumps
  <2>3. CASE n \in HostCall
    BY <1>1, <1>2, <2>1, <2>3 DEF SYS_EXIT, HostCall, Dumps
  <2>4. CASE n \in Dumps
    BY <1>1, <1>2, <2>1, <2>4 DEF SYS_EXIT, HostCall, Dumps
  <2>5. CASE n # SYS_EXIT /\ n \notin HostCall /\ n \notin Dumps
    BY <2>1, <2>5
  <2> QED
    BY <2>2, <2>3, <2>4, <2>5
<1> QED
  BY <1>4, <1>5

LEMMA WriteDeviceType ==
  ASSUME WordFunctions(Word), NEW s \in State, NEW n, NEW f \in MemFn, NEW v \in Word
  PROVE  WriteDevice(s, n, f, v) \subseteq Answers
<1>1. s.mtime \in Counter /\ s.mtimecmp \in Counter /\ s.msip \in Word
  BY StateFields
<1>2. Lo(s.mtime) \in Word /\ Hi(s.mtime) \in Word /\ Lo(s.mtimecmp) \in Word
      /\ Hi(s.mtimecmp) \in Word
  BY <1>1, Halves
<1> DEFINE tl == WithLo(s.mtime, Masked(f, Lo(s.mtime), v))
           th == WithHi(s.mtime, Masked(f, Hi(s.mtime), v))
           cl == WithLo(s.mtimecmp, Masked(f, Lo(s.mtimecmp), v))
           ch == WithHi(s.mtimecmp, Masked(f, Hi(s.mtimecmp), v))
           mp == Masked(f, s.msip, v)
           s0 == [s EXCEPT !.exitcode = v]
           s1 == [s EXCEPT !.mtime = Count(tl - 1), !.mtime_update = TRUE]
           s2 == [s EXCEPT !.mtime = Count(th - 1), !.mtime_update = TRUE]
           s3 == [s EXCEPT !.mtimecmp = cl]
           s4 == [s EXCEPT !.mtimecmp = ch]
           s5 == [s EXCEPT !.msip = mp]
<1>3. tl \in Counter /\ th \in Counter /\ cl \in Counter /\ ch \in Counter /\ mp \in Word
  BY <1>1, <1>2, Halves, MaskedType
<1>4. Count(tl - 1) \in Counter /\ Count(th - 1) \in Counter
  <2> HIDE DEF tl, th
  <2>1. tl - 1 \in Int /\ th - 1 \in Int
    BY <1>3, CounterNat
  <2> QED
    BY <2>1, CountType
<1>5. s0 \in State /\ s1 \in State /\ s2 \in State /\ s3 \in State /\ s4 \in State /\ s5 \in State
  <2>1. \A c \in Counter : /\ [s EXCEPT !.mtime = c, !.mtime_update = TRUE] \in State
                           /\ [s EXCEPT !.mtimecmp = c] \in State
    BY DEF State
  <2>2. \A c \in Word : [s EXCEPT !.msip = c] \in State /\ [s EXCEPT !.exitcode = c] \in State
    BY DEF State
  <2> HIDE DEF tl, th, cl, ch, mp
  <2> QED
    BY <1>3, <1>4, <2>1, <2>2
<1>6. WriteDevice(s, n, f, v) =
        CASE n = "EXIT"      -> {Answer(RV_EXIT, s0, v)}
          [] n = "TOHOST"    -> {Answer(0, t, v) : t \in srv32_tohost(s, v)}
          [] n = "MTIME"     -> {Answer(0, s1, v)}
          [] n = "MTIMEH"    -> {Answer(0, s2, v)}
          [] n = "MTIMECMP"  -> {Answer(0, s3, v)}
          [] n = "MTIMECMPH" -> {Answer(0, s4, v)}
          [] n = "MSIP"      -> {Answer(0, s5, v)}
          [] OTHER           -> {Answer(0, s, v)}
  BY DEF WriteDevice
<1> HIDE DEF s0, s1, s2, s3, s4, s5
<1>7. \A t \in State : Answer(0, t, v) \in Answers /\ Answer(RV_EXIT, t, v) \in Answers
  BY AnswerType
<1>8. CASE n = "TOHOST"
  <2>1. WriteDevice(s, n, f, v) = {Answer(0, t, v) : t \in srv32_tohost(s, v)}
    BY <1>6, <1>8
  <2> QED
    BY <1>7, <2>1, TohostType
<1>9. CASE n # "TOHOST"
  <2>1. WriteDevice(s, n, f, v) \in {{Answer(RV_EXIT, s0, v)}, {Answer(0, s1, v)},
          {Answer(0, s2, v)}, {Answer(0, s3, v)}, {Answer(0, s4, v)}, {Answer(0, s5, v)},
          {Answer(0, s, v)}}
    BY <1>6, <1>9
  <2> QED
    BY <1>5, <1>7, <2>1
<1> QED
  BY <1>8, <1>9

LEMMA LoadAnswersType ==
  ASSUME WordFunctions(Word), TypeOK, NEW s \in State, NEW f \in LoadFn \cup {"bad"}, NEW a \in Word
  PROVE  LoadAnswers(s, f, a) \subseteq Answers
<1>1. 0 \in Word /\ f # "bad" => f \in MemFn
  BY DEF MemFn
<1>2. \A c \in {0, TRAP_INST_ILL, TRAP_LD_ALIGN, TRAP_LD_FAIL} : \A t \in State : \A v \in Word :
        Answer(c, t, v) \in Answers
  BY AnswerType DEF Causes
<1>3. 0 \in Word
  BY SmallWord
<1> DEFINE devs == DeviceAt(a, MmioName \ {"TOHOST"})
           ans  == LoadAnswers(s, f, a)
<1>4. CASE f = "bad"
  <2>1. ans = {Answer(TRAP_INST_ILL, s, 0)}
    BY <1>4 DEF LoadAnswers
  <2> QED
    BY <1>2, <1>3, <2>1
<1>5. CASE f # "bad" /\ a % Size(f) # 0
  <2>1. ans = {Answer(TRAP_LD_ALIGN, s, 0)}
    BY <1>5 DEF LoadAnswers
  <2> QED
    BY <1>2, <1>3, <2>1
<1>6. CASE f # "bad" /\ a % Size(f) = 0 /\ InMem(a, Size(f))
  <2>1. ans = {Answer(0, s, Extended(f, srv32_read_mem(s, f, a)))}
    BY <1>6 DEF LoadAnswers
  <2>2. Extended(f, srv32_read_mem(s, f, a)) \in Word
    BY <1>1, <1>3, <1>6, ReadMemType, ExtendedType
  <2> QED
    BY <1>2, <2>1, <2>2
<1>7. CASE f # "bad" /\ a % Size(f) = 0 /\ ~InMem(a, Size(f)) /\ devs # {}
  <2> DEFINE vs == UNION {ReadDevice(s, n) : n \in devs}
  <2>1. ans = {Answer(0, s, Extended(f, v)) : v \in vs}
    BY <1>7 DEF LoadAnswers
  <2>2. vs \subseteq Word
    BY ReadDeviceType
  <2> HIDE DEF vs
  <2> QED
    BY <1>2, <2>1, <2>2, ExtendedType
<1>8. CASE f # "bad" /\ a % Size(f) = 0 /\ ~InMem(a, Size(f)) /\ devs = {}
  <2>1. ans = Unanswered(s, TRAP_LD_FAIL, a, Size(f), 0)
    BY <1>8 DEF LoadAnswers
  <2> QED
    BY <1>2, <1>3, <2>1, CrashedType DEF Unanswered
<1> QED
  BY <1>4, <1>5, <1>6, <1>7, <1>8

LEMMA StoreAnswersType ==
  ASSUME WordFunctions(Word), NEW s \in State, NEW f \in StoreFn \cup {"bad"}, NEW a \in Word,
         NEW v \in Word, ~(a < TextEnd)
  PROVE  StoreAnswers(s, f, a, v) \subseteq Answers
<1>1. f # "bad" => f \in MemFn
  BY DEF MemFn
<1>2. \A c \in {0, TRAP_INST_ILL, TRAP_ST_ALIGN, TRAP_ST_FAIL} : \A t \in State :
        Answer(c, t, v) \in Answers
  BY AnswerType DEF Causes
<1> DEFINE devs == DeviceAt(a, MmioName \ {"FROMHOST"})
           ans  == StoreAnswers(s, f, a, v)
<1>4. CASE f = "bad"
  <2>1. ans = {Answer(TRAP_INST_ILL, s, v)}
    BY <1>4 DEF StoreAnswers
  <2> QED
    BY <1>2, <2>1
<1>5. CASE f # "bad" /\ a % Size(f) # 0
  <2>1. ans = {Answer(TRAP_ST_ALIGN, s, v)}
    BY <1>5 DEF StoreAnswers
  <2> QED
    BY <1>2, <2>1
<1>6. CASE f # "bad" /\ a % Size(f) = 0 /\ InMem(a, Size(f))
  <2>1. ans = {Answer(0, srv32_write_mem(s, f, a, v), v)}
    BY <1>6 DEF StoreAnswers
  <2>2. srv32_write_mem(s, f, a, v) \in State
    BY <1>1, <1>6, WriteMemType
  <2> QED
    BY <1>2, <2>1, <2>2
<1>7. CASE f # "bad" /\ a % Size(f) = 0 /\ ~InMem(a, Size(f)) /\ devs # {}
  <2>1. ans = UNION {WriteDevice(s, n, f, v) : n \in devs}
    BY <1>7 DEF StoreAnswers
  <2>2. \A n \in devs : WriteDevice(s, n, f, v) \subseteq Answers
    BY <1>1, <1>7, WriteDeviceType
  <2> HIDE DEF devs
  <2> QED
    BY <2>1, <2>2
<1>8. CASE f # "bad" /\ a % Size(f) = 0 /\ ~InMem(a, Size(f)) /\ devs = {}
  <2>1. ans = Unanswered(s, TRAP_ST_FAIL, a, Size(f), v)
    BY <1>8 DEF StoreAnswers
  <2> QED
    BY <1>2, <2>1, CrashedType DEF Unanswered
<1> QED
  BY <1>4, <1>5, <1>6, <1>7, <1>8

-----------------------------------------------------------------------------
(* Instructions. *)

LEMMA AdvanceType == ASSUME NEW s \in State PROVE Advance(s) \in State
BY StateFields, Next4Word, SetPc DEF Advance

LEMMA PenaltyType == ASSUME NEW s \in State PROVE Penalty(s) \in State
BY CycleAddType, RvsimAssumption DEF Penalty

LEMMA IllegalType == ASSUME NEW s \in State, NEW v \in Word PROVE Illegal(s, v) \subseteq State
BY TrapType DEF Illegal, Causes

LEMMA AnsweredType ==
  ASSUME NEW ans \in Answers, NEW i, IsInsn(i), NEW a \in Word,
         NEW fail \in Causes, NEW align \in Causes
  PROVE  Answered(ans, i, a, fail, align) \in State
<1> DEFINE t == IF SingleRam THEN srv32_cycle_add(ans.s, 1) ELSE ans.s
<1>1. ans.s \in State /\ ans.val \in Word /\ i.code \in Word
  BY InsnFields DEF Answers, Fields
<1>2. t \in State
  BY <1>1, CycleAddType
<1>3. Answered(ans, i, a, fail, align) =
        CASE ans.s.status # "run"       -> ans.s
          [] ans.code \in {fail, align} -> srv32_trap(t, ans.code, a)
          [] ans.code = TRAP_INST_ILL   -> srv32_trap(t, TRAP_INST_ILL, i.code)
          [] OTHER -> Advance(IF i.op = "LOAD" THEN Set(t, i.rd, ans.val) ELSE t)
  BY DEF Answered
<1> HIDE DEF t
<1>4. ans.code \in {fail, align} => srv32_trap(t, ans.code, a) \in State
  BY <1>2, TrapType
<1>5. srv32_trap(t, TRAP_INST_ILL, i.code) \in State
  BY <1>1, <1>2, TrapType DEF Causes
<1>6. Advance(IF i.op = "LOAD" THEN Set(t, i.rd, ans.val) ELSE t) \in State
  BY <1>1, <1>2, SetRegs, AdvanceType
<1> QED
  BY <1>1, <1>3, <1>4, <1>5, <1>6

LEMMA LoadType ==
  ASSUME WordFunctions(Word), TypeOK, NEW s \in State, NEW i, IsInsn(i), i.op = "LOAD"
  PROVE  Load(s, i) \subseteq State
<1> DEFINE a == Plus(s.regs[i.rs1], i.imm)
<1>1. i.f \in LoadFn \cup {"bad"} /\ a \in Word
  BY StateFields, InsnFields, PlusWord DEF IsInsn, FunctOf, Fields
<1>2. LoadAnswers(s, i.f, a) \subseteq Answers
  BY <1>1, LoadAnswersType
<1>3. Load(s, i) = {Answered(ans, i, a, TRAP_LD_FAIL, TRAP_LD_ALIGN) : ans \in LoadAnswers(s, i.f, a)}
  BY DEF Load
<1> HIDE DEF a
<1>4. \A ans \in Answers : Answered(ans, i, a, TRAP_LD_FAIL, TRAP_LD_ALIGN) \in State
  BY <1>1, AnsweredType DEF Causes
<1> QED
  BY <1>2, <1>3, <1>4

LEMMA StoreType ==
  ASSUME WordFunctions(Word), NEW s \in State, NEW i, IsInsn(i), i.op = "STORE",
         ~StoresText(s, i)
  PROVE  Store(s, i) \subseteq State
<1> DEFINE a == Plus(s.regs[i.rs1], i.imm)
           v == s.regs[i.rs2]
<1>1. i.f \in StoreFn \cup {"bad"} /\ a \in Word /\ v \in Word /\ ~(a < TextEnd)
  BY StateFields, InsnFields, PlusWord DEF IsInsn, FunctOf, Fields, StoresText
<1>2. StoreAnswers(s, i.f, a, v) \subseteq Answers
  BY <1>1, StoreAnswersType
<1>3. Store(s, i) = {Answered(ans, i, a, TRAP_ST_FAIL, TRAP_ST_ALIGN)
                       : ans \in StoreAnswers(s, i.f, a, v)}
  BY DEF Store
<1> HIDE DEF a, v
<1>4. \A ans \in Answers : Answered(ans, i, a, TRAP_ST_FAIL, TRAP_ST_ALIGN) \in State
  BY <1>1, AnsweredType DEF Causes
<1> QED
  BY <1>2, <1>3, <1>4

LEMMA ValueType ==
  ASSUME WordFunctions(Word), NEW s \in State, NEW i, IsInsn(i),
         i.op \in {"AUIPC", "LUI", "ARITHI"} \/ (i.op = "ARITHR" /\ i.f # "bad")
  PROVE  Value(s, i) \in Word
<1>1. s.pc \in Word /\ s.regs[i.rs1] \in Word /\ s.regs[i.rs2] \in Word /\ i.imm \in Word
  BY StateFields, InsnFields DEF Fields
<1>2. i.op \in {"ARITHI", "ARITHR"} => i.f \in AluFn
  BY InsnFields DEF IsInsn, FunctOf, Fields, AluFn
<1> QED
  BY <1>1, <1>2, PlusWord DEF Value, WordFunctions

LEMMA JumpType ==
  ASSUME NEW s \in State, NEW i, IsInsn(i), NEW target \in Word, NEW self \in BOOLEAN
  PROVE  Jump(s, i, target, self) \in State
<1>1. 1 \in Word /\ Even(target) \in Word /\ s.pc \in Word
  BY SmallWord, EvenWord, StateFields
<1>2. [s EXCEPT !.pc = target] \in State /\ [s EXCEPT !.pc = Even(target)] \in State
      /\ Next4(s.pc) \in Word
  BY <1>1, SetPc, Next4Word
<1>3. Exited([s EXCEPT !.pc = target], 1) \in State
  BY <1>1, <1>2, ExitedType
<1>4. Penalty(Set([s EXCEPT !.pc = Even(target)], i.rd, Next4(s.pc))) \in State
  BY <1>2, SetRegs, PenaltyType
<1>5. CASE self
  BY <1>3, <1>5 DEF Jump
<1>6. CASE ~self /\ Even(target) % 4 # 0
  BY <1>2, <1>6 DEF Jump
<1>7. CASE ~self /\ Even(target) % 4 = 0
  BY <1>4, <1>7 DEF Jump
<1> QED
  BY <1>5, <1>6, <1>7

LEMMA BranchType == ASSUME NEW s \in State, NEW i, IsInsn(i) PROVE Branch(s, i) \subseteq State
<1> DEFINE taken == [s EXCEPT !.pc = Plus(s.pc, i.imm)]
<1>1. taken \in State /\ i.code \in Word
  BY StateFields, InsnFields, PlusWord, SetPc DEF Fields
<1>2. Penalty(taken) \in State /\ Advance(s) \in State /\ Illegal(s, i.code) \subseteq State
  BY <1>1, PenaltyType, AdvanceType, IllegalType
<1>3. Branch(s, i) \in {Illegal(s, i.code), {Penalty(taken)}, {taken}, {Advance(s)}}
  BY DEF Branch
<1> HIDE DEF taken
<1> QED
  BY <1>1, <1>2, <1>3

LEMMA CsrValueType == ASSUME NEW s \in State, NEW c PROVE CsrValue(s, c) \in Word
<1>1. s.csr \in [CsrReg -> Word] /\ s.cycle \in Counter /\ s.instret \in Counter /\ 0 \in Word
  BY StateFields, SmallWord
<1>2. s.cycle \in Nat /\ s.instret \in Nat
  BY <1>1, CounterNat
<1>3. s.cycle - 1 \in Int /\ s.instret - 1 \in Int
  BY <1>2
<1>4. Count(s.cycle - 1) \in Counter /\ Count(s.instret - 1) \in Counter
  BY <1>3, CountType
<1>5. /\ Lo(Count(s.cycle - 1)) \in Word /\ Hi(Count(s.cycle - 1)) \in Word
      /\ Lo(Count(s.instret - 1)) \in Word /\ Hi(Count(s.instret - 1)) \in Word
  BY <1>1, <1>4, Halves
<1>6. CASE c \in CsrReg
  BY <1>1, <1>6 DEF CsrValue, CsrReg
<1>7. CASE c \notin CsrReg
  BY <1>1, <1>5, <1>7 DEF CsrValue
<1> QED
  BY <1>6, <1>7

LEMMA CsrRwType ==
  ASSUME WordFunctions(Word), NEW s \in State, NEW i, IsInsn(i), i.f \in CsrFn
  PROVE  csr_rw(s, i) \subseteq State
<1> DEFINE old    == CsrValue(s, i.csr)
           val    == IF i.f \in {"CSRRWI", "CSRRSI", "CSRRCI"} THEN i.rs1 ELSE s.regs[i.rs1]
           update == i.f \in {"CSRRW", "CSRRWI"} \/ i.rs1 # 0
           new    == CASE i.f \in {"CSRRW", "CSRRWI"} -> val
                       [] i.f \in {"CSRRS", "CSRRSI"} -> BitOr(old, val)
                       [] i.f \in {"CSRRC", "CSRRCI"} -> BitAnd(old, BitNot(val))
           t      == IF update /\ i.csr \in CsrReg THEN [s EXCEPT !.csr[i.csr] = new] ELSE s
<1>1. old \in Word /\ val \in Word
  BY CsrValueType, StateFields, InsnFields, RegWord DEF Fields
<1>2. csr_rw(s, i) = IF i.csr = "other" THEN Illegal(s, 0) ELSE {Advance(Set(t, i.rd, old))}
  BY DEF csr_rw
<1> HIDE DEF old, val
<1>3. new \in Word
  BY <1>1, BitNotWord DEF WordFunctions, CsrFn
<1> HIDE DEF new, update
<1>4. t \in State
  <2>1. s.csr \in [CsrReg -> Word]
    BY StateFields
  <2>2. [s.csr EXCEPT ![i.csr] = new] \in [CsrReg -> Word]
    BY <1>3, <2>1
  <2>3. \A c \in [CsrReg -> Word] : [s EXCEPT !.csr = c] \in State
    BY DEF State
  <2> QED
    BY <2>2, <2>3
<1> HIDE DEF t
<1>5. Advance(Set(t, i.rd, old)) \in State /\ Illegal(s, 0) \subseteq State
  BY <1>1, <1>4, SetRegs, AdvanceType, IllegalType, SmallWord
<1> QED
  BY <1>2, <1>5

LEMMA SyscallType == ASSUME NEW s \in State PROVE srv32_syscall(s) \subseteq State
<1> DEFINE returns(r) == IF r = WordMod - 1 THEN s ELSE Set(s, A0, r)
           n == s.regs[SYS]
<1>1. s.exitcode \in Word /\ 1 \in Word /\ s.regs[A0 + 1] \in Word /\ HostResults \subseteq Word
  BY StateFields, SmallWord, RvsimAssumption
<1>2. \A r \in Word : returns(r) \in State
  BY SetRegs
<1>3. Exited(s, s.exitcode) \in State /\ Exited(s, 1) \in State
  BY <1>1, ExitedType
<1>4. srv32_syscall(s) = CASE n = SYS_EXIT   -> {Exited(s, s.exitcode)}
                           [] n \in HostCall -> {returns(r) : r \in HostResults}
                           [] n \in Dumps    -> {returns(s.regs[A0 + 1]), Exited(s, 1)}
                           [] OTHER          -> {s}
  BY DEF srv32_syscall
<1> HIDE DEF n, returns
<1>5. CASE n = SYS_EXIT
  BY <1>3, <1>4, <1>5 DEF SYS_EXIT, HostCall, Dumps
<1>6. CASE n \in HostCall
  BY <1>1, <1>2, <1>4, <1>6 DEF SYS_EXIT, HostCall, Dumps
<1>7. CASE n \in Dumps
  BY <1>1, <1>2, <1>3, <1>4, <1>7 DEF SYS_EXIT, HostCall, Dumps
<1>8. CASE n # SYS_EXIT /\ n \notin HostCall /\ n \notin Dumps
  BY <1>4, <1>8
<1> QED
  BY <1>5, <1>6, <1>7, <1>8

LEMMA ReturnType == ASSUME NEW s \in State PROVE Return(s) \in State
<1> DEFINE m == CopyBit(s.csr["mstatus"], MIE, MPIE)
           c == [s.csr EXCEPT !["mstatus"] = m]
           t == [s EXCEPT !.csr = c, !.pc = s.csr["mepc"]]
<1>1. s.csr \in [CsrReg -> Word] /\ s.csr["mstatus"] \in Word /\ s.csr["mepc"] \in Word
  BY StateFields DEF CsrReg
<1>2. m \in Word
  BY <1>1, CopyBitWord DEF MIE, MPIE, StatusBit
<1>3. [s EXCEPT !.pc = s.csr["mepc"], !.csr["mstatus"] = CopyBit(@, MIE, MPIE)] = t
  BY <1>1 DEF CsrReg, State
<1> HIDE DEF m
<1>4. c \in [CsrReg -> Word]
  BY <1>1, <1>2
<1> HIDE DEF c
<1>5. t \in State
  BY <1>1, <1>4, SetCsrPc
<1>6. Return(s) \in {t, Penalty(t)}
  BY <1>3 DEF Return
<1> HIDE DEF t
<1> QED
  BY <1>5, <1>6, PenaltyType

LEMMA SystemType ==
  ASSUME WordFunctions(Word), NEW s \in State, NEW i, IsInsn(i), i.op = "SYSTEM"
  PROVE  System(s, i) \subseteq State
<1>1. i.f \in CsrFn \cup {"PRIV", "bad"} /\ i.code \in Word /\ 0 \in Word /\ s.pc \in Word
  BY StateFields, InsnFields, SmallWord DEF IsInsn, FunctOf, Fields
<1> DEFINE after(t) == IF t.status = "run" THEN srv32_trap(t, TRAP_ECALL, 0) ELSE t
<1>2. \A t \in State : after(t) \in State
  BY <1>1, TrapType DEF Causes
<1>3. CASE i.f = "bad"
  BY <1>1, <1>3, IllegalType DEF System
<1>4. CASE i.f = "PRIV" /\ i.imm % 4 = 0
  <2>1. System(s, i) = {after(t) : t \in srv32_syscall(s)}
    BY <1>4 DEF System
  <2> HIDE DEF after
  <2> QED
    BY <1>2, <2>1, SyscallType
<1>5. CASE i.f = "PRIV" /\ i.imm % 4 = 1
  <2>1. System(s, i) = {srv32_trap(s, TRAP_BREAK, s.pc)}
    BY <1>5 DEF System
  <2>2. srv32_trap(s, TRAP_BREAK, s.pc) \in State
    BY <1>1, TrapType DEF Causes
  <2> QED
    BY <2>1, <2>2
<1>6. CASE i.f = "PRIV" /\ i.imm % 4 = 2
  BY <1>6, ReturnType DEF System
<1>7. CASE i.f = "PRIV" /\ i.imm % 4 = 3
  BY <1>1, <1>7, IllegalType DEF System
<1>8. CASE i.f \in CsrFn
  <2>1. System(s, i) = csr_rw(s, i)
    BY <1>8 DEF System, CsrFn
  <2> QED
    BY <1>8, <2>1, CsrRwType
<1>9. i.imm % 4 \in 0 .. 3
  BY InsnFields, Remainder4 DEF Fields
<1> QED
  BY <1>1, <1>3, <1>4, <1>5, <1>6, <1>7, <1>8, <1>9

LEMMA ExecuteType ==
  ASSUME WordFunctions(Word), TypeOK, NEW s \in State, NEW i, IsInsn(i), ~StoresText(s, i)
  PROVE  Execute(s, i) \subseteq State
<1>1. i.op \in Opcode /\ i.imm \in Word /\ i.code \in Word /\ s.pc \in Word
      /\ s.regs[i.rs1] \in Word
  BY InsnFields, StateFields DEF IsInsn, Insn, Fields
<1>2. CASE i.op \in {"AUIPC", "LUI", "ARITHI"} \/ (i.op = "ARITHR" /\ i.f # "bad")
  <2>1. Execute(s, i) = {Advance(Set(s, i.rd, Value(s, i)))}
    BY <1>2 DEF Execute
  <2>2. Advance(Set(s, i.rd, Value(s, i))) \in State
    BY <1>2, ValueType, SetRegs, AdvanceType
  <2> QED
    BY <2>1, <2>2
<1>3. CASE i.op = "JAL"
  <2>1. Execute(s, i) = {Jump(s, i, Plus(s.pc, i.imm), i.imm = 0)}
    BY <1>3 DEF Execute
  <2>2. Jump(s, i, Plus(s.pc, i.imm), i.imm = 0) \in State
    BY <1>1, PlusWord, JumpType
  <2> QED
    BY <2>1, <2>2
<1>4. CASE i.op = "JALR"
  <2> DEFINE t == Plus(s.regs[i.rs1], i.imm)
  <2>1. Execute(s, i) = {Jump(s, i, t, t = s.pc)}
    BY <1>4 DEF Execute
  <2>2. Jump(s, i, t, t = s.pc) \in State
    BY <1>1, PlusWord, JumpType
  <2> QED
    BY <2>1, <2>2
<1>5. CASE i.op = "BRANCH"
  BY <1>5, BranchType DEF Execute
<1>6. CASE i.op = "LOAD"
  BY <1>6, LoadType DEF Execute
<1>7. CASE i.op = "STORE"
  BY <1>7, StoreType DEF Execute
<1>8. CASE i.op = "FENCE"
  BY <1>8, AdvanceType DEF Execute
<1>9. CASE i.op = "SYSTEM"
  BY <1>9, SystemType DEF Execute
<1>10. CASE i.op = "BAD" \/ (i.op = "ARITHR" /\ i.f = "bad")
  <2>1. Execute(s, i) = Illegal(s, i.code)
    BY <1>10 DEF Execute
  <2> QED
    BY <1>1, <2>1, IllegalType
<1> QED
  BY <1>1, <1>2, <1>3, <1>4, <1>5, <1>6, <1>7, <1>8, <1>9, <1>10 DEF Opcode

-----------------------------------------------------------------------------
(* srv32_step. *)

LEMMA InterruptedType == ASSUME NEW s \in State PROVE Interrupted(s) \in State
<1> DEFINE take(t, latch, q) == IF irq[latch] /\ Mstatus(t, MIE) THEN srv32_int(t, q) ELSE t
           t1 == take(s, "timer_irq", "timer")
           t2 == take(t1, "sw_irq_next", "sw")
           t3 == take(t2, "ext_irq_next", "ext")
<1>1. {"timer", "sw", "ext"} \subseteq Irq
  BY DEF Irq
<1>2. t1 \in State
  BY <1>1, IntType
<1>3. t2 \in State
  <2> HIDE DEF t1
  <2> QED
    BY <1>1, <1>2, IntType
<1>4. t3 \in State
  <2> HIDE DEF t2
  <2> QED
    BY <1>1, <1>3, IntType
<1>5. Interrupted(s) = t3
  BY DEF Interrupted
<1> HIDE DEF t3
<1> QED
  BY <1>4, <1>5

LEMMA ReadyType ==
  ASSUME NEW s \in State PROVE Aligned(InRange(Interrupted(Start(s)))) \in State
<1>1. Start(s) \in State
  <2>1. s.regs \in [Reg -> Word] /\ 0 \in Word
    BY StateFields, SmallWord
  <2>2. [s.regs EXCEPT ![0] = 0] \in [Reg -> Word]
    BY <2>1
  <2>3. \A r \in [Reg -> Word] : [s EXCEPT !.mtime_update = FALSE, !.regs = r] \in State
    BY DEF State
  <2>4. Start(s) = [s EXCEPT !.mtime_update = FALSE, !.regs = [s.regs EXCEPT ![0] = 0]]
    BY DEF Start, State
  <2> QED
    BY <2>2, <2>3, <2>4
<1>2. \A t \in State : InRange(t) \in State /\ Aligned(t) \in State
  BY TrapType, StateFields DEF InRange, Aligned, Causes
<1> QED
  BY <1>1, <1>2, InterruptedType

LEMMA CountedType ==
  ASSUME NEW s \in State PROVE Counted(s) \in State /\ Counted(s).regs = s.regs
<1>1. s.instret \in Nat /\ s.pc \in Word
  BY StateFields, CounterNat
<1>2. Count(s.instret + 1) \in Counter
  BY <1>1, CountType
<1> DEFINE t == [s EXCEPT !.instret = Count(s.instret + 1), !.prev_pc = s.pc]
<1>3. t \in State /\ t.regs = s.regs
  <2> HIDE DEF Count
  <2> QED
    BY <1>1, <1>2 DEF State
<1>4. Counted(s) = srv32_cycle_add(t, 1)
  BY DEF Counted
<1> HIDE DEF t
<1>5. srv32_cycle_add(t, 1).regs = t.regs
  BY <1>3 DEF srv32_cycle_add, State
<1> QED
  BY <1>3, <1>4, <1>5, CycleAddType

LEMMA RequestsType == ASSUME NEW s, NEW i PROVE Requests(s, i) \in [Latches -> BOOLEAN]
<1> DEFINE enabled(q) == /\ Mstatus(s, MIE) /\ HasBit(s.csr["mie"], IrqBit(q))
                         /\ i.op # "SYSTEM"
           a == enabled("timer") /\ SignedCount(s.mtime) >= SignedCount(s.mtimecmp)
           b == enabled("sw") /\ irq["sw_irq"]
           c == enabled("ext") /\ irq["ext_irq"]
           d == HasBit(s.msip, 1)
           e == HasBit(s.msip, ExtBit)
           r == [timer_irq |-> a, sw_irq_next |-> b, ext_irq_next |-> c, sw_irq |-> d, ext_irq |-> e]
<1>1. Requests(s, i) = r
  BY DEF Requests
<1>2. a \in BOOLEAN /\ b \in BOOLEAN /\ c \in BOOLEAN /\ d \in BOOLEAN /\ e \in BOOLEAN
  BY DEF HasBit
<1> HIDE DEF a, b, c, d, e
<1>3. r \in [Latches -> BOOLEAN]
  BY <1>2 DEF Latches
<1> QED
  BY <1>1, <1>3

LEMMA StepType == ASSUME WordFunctions(Word), TypeOK, [Next]_vars PROVE TypeOK'
<1>1. CASE UNCHANGED vars
  BY <1>1 DEF TypeOK, vars
<1>2. CASE Step
  <2> DEFINE s == Aligned(InRange(Interrupted(Start(rv))))
             i == TextWord(s.pc \div 4)
  <2>1. /\ ~StoresText(s, i) /\ irq' = Requests(s, i) /\ rv' \in Execute(Counted(s), i)
        /\ imem' = imem
    BY <1>2 DEF Step
  <2>2. s \in State
    BY ReadyType DEF TypeOK
  <2>3. IsInsn(i)
    BY TextInsn
  <2> HIDE DEF s, i
  <2>4. Counted(s) \in State /\ ~StoresText(Counted(s), i)
    BY <2>1, <2>2, CountedType DEF StoresText
  <2>5. rv' \in State
    BY <2>1, <2>3, <2>4, ExecuteType
  <2>6. irq' \in [Latches -> BOOLEAN]
    BY <2>1, RequestsType
  <2> QED
    BY <2>1, <2>5, <2>6 DEF TypeOK
<1> QED
  BY <1>1, <1>2 DEF Next

LEMMA InitType == Init => TypeOK
<1> SUFFICES ASSUME Init PROVE TypeOK
  OBVIOUS
<1>1. PICK m \in DataImages :
        rv = [pc |-> RESETVEC, prev_pc |-> RESETVEC, regs |-> [r \in Reg |-> 0],
              csr |-> [c \in CsrReg |-> IF c = "misa" THEN MISA ELSE 0],
              cycle |-> 0, instret |-> 0, mtime |-> 0, mtimecmp |-> 0, msip |-> 0,
              mtime_update |-> FALSE, mem |-> m, result |-> 0,
              status |-> "run", exitcode |-> 0]
  BY DEF Init
<1>2. m \in [0 .. NMem - 1 -> Word] /\ MISA \in Word /\ 0 \in Word /\ RESETVEC \in Word
      /\ 0 \in Counter
  BY RvsimAssumption, SmallWord, CounterNat DEF RESETVEC, Counter
<1>3. [c \in CsrReg |-> IF c = "misa" THEN MISA ELSE 0] \in [CsrReg -> Word]
      /\ [r \in Reg |-> 0] \in [Reg -> Word]
  BY <1>2
<1>4. rv \in State
  BY <1>1, <1>2, <1>3 DEF State
<1>5. irq \in [Latches -> BOOLEAN] /\ \A k \in DOMAIN imem : IsInsn(imem[k])
  BY RvsimAssumption DEF Init
<1> QED
  BY <1>4, <1>5 DEF TypeOK

\* The state of the simulator keeps its shape through every instruction, trap,
\* device access and host call: pc, registers, CSRs and memory words stay
\* words, an access that passes the bounds check and is not to the text finds
\* a word of the memory array, and the halves of a 64-bit counter can be
\* replaced one at a time (srv32_step, rvsim.c).
THEOREM RvsimTypeCorrect == ASSUME WordFunctions(Word) PROVE Spec => []TypeOK
<1>1. Init => TypeOK
  BY InitType
<1>2. TypeOK /\ [Next]_vars => TypeOK'
  BY StepType
<1> QED
  BY <1>1, <1>2, PTL DEF Spec

-----------------------------------------------------------------------------
(* The simulator implements the architecture.  The vocabulary of the two     *)
(* levels is the same.                                                      *)

LEMMA ArchWords ==
  /\ \A a, b : Arch!Plus(a, b) = Plus(a, b)
  /\ \A a : Arch!Next4(a) = Next4(a)
  /\ \A a : Arch!Even(a) = Even(a)
  /\ \A a : Arch!Align4(a) = Align4(a)
  /\ \A a : Arch!Signed(a) = Signed(a)
  /\ \A a : Arch!BitNot(a) = BitNot(a)
  /\ Arch!WordMod = WordMod /\ Arch!Word = Word
BY DEF Arch!Plus, Plus, Arch!WordMod, WordMod, Arch!Next4, Next4, Arch!Even, Even, Arch!Word,
       Word, Arch!Align4, Align4, Arch!Signed, Signed, Arch!BitNot, BitNot

LEMMA ArchLanes ==
  /\ \A w, i : Arch!Lane(w, i) = Lane(w, i)
  /\ \A l : Arch!FromLanes(l) = FromLanes(l)
BY DEF Arch!Lane, Lane, Arch!LaneWeight, LaneWeight, Arch!FromLanes, FromLanes

LEMMA ArchBits ==
  /\ \A w, b : Arch!HasBit(w, b) <=> HasBit(w, b)
  /\ \A w, b : Arch!SetBit(w, b) = SetBit(w, b)
  /\ \A w, b : Arch!ClearBit(w, b) = ClearBit(w, b)
  /\ \A w, to, from : Arch!CopyBit(w, to, from) = CopyBit(w, to, from)
  /\ Arch!MIE = MIE /\ Arch!MPIE = MPIE
  /\ Arch!Irq = Irq
  /\ \A q : Arch!IrqBit(q) = IrqBit(q)
  /\ \A q : Arch!IntCode(q) = IntCode(q) /\ Arch!IntCause(q) = IntCause(q)
BY DEF Arch!HasBit, HasBit, Arch!SetBit, SetBit, Arch!ClearBit, ClearBit, Arch!CopyBit, CopyBit,
       Arch!MIE, MIE, Arch!MPIE, MPIE, Arch!Irq, Irq, Arch!IrqBit, IrqBit, Arch!IntCode, IntCode,
       Arch!IntCause, IntCause, Arch!WordMod, WordMod

LEMMA ArchSets ==
  /\ Arch!Reg = Reg /\ Arch!CsrReg = CsrReg /\ Arch!RESETVEC = RESETVEC
  /\ Arch!ZeroInsn = ZeroInsn
  /\ \A i : Arch!IsInsn(i) <=> IsInsn(i)
<1>1. Arch!Reg = Reg /\ Arch!CsrReg = CsrReg /\ Arch!Word = Word
  BY ArchWords DEF Arch!Reg, Reg, Arch!CsrReg, CsrReg
<1>2. Arch!Opcode = Opcode /\ Arch!AluFn = AluFn
  BY DEF Arch!Opcode, Opcode, Arch!AluFn, AluFn
<1>3. Arch!Funct = Funct
  BY DEF Arch!Funct, Funct, Arch!BranchFn, BranchFn, Arch!LoadFn, LoadFn,
         Arch!StoreFn, StoreFn, Arch!CsrFn, CsrFn, Arch!AluFn, AluFn
<1>4. Arch!CsrAddr = CsrAddr
  BY DEF Arch!CsrAddr, CsrAddr, Arch!CsrReg, CsrReg, Arch!CsrConst, CsrConst,
         Arch!CsrCount, CsrCount
<1>5. \A op : Arch!FunctOf(op) = FunctOf(op)
  BY DEF Arch!FunctOf, FunctOf, Arch!BranchFn, BranchFn, Arch!LoadFn, LoadFn,
         Arch!StoreFn, StoreFn, Arch!CsrFn, CsrFn, Arch!AluFn, AluFn
<1>6. \A i : Arch!IsInsn(i) <=> IsInsn(i)
  BY <1>1, <1>2, <1>3, <1>4, <1>5 DEF Arch!IsInsn, IsInsn, Arch!Insn, Insn
<1> QED
  BY <1>1, <1>6 DEF Arch!RESETVEC, RESETVEC, Arch!ZeroInsn, ZeroInsn

LEMMA ArchCauses ==
  /\ Arch!TRAP_INST_ALIGN = TRAP_INST_ALIGN /\ Arch!TRAP_INST_ILL = TRAP_INST_ILL
  /\ Arch!TRAP_BREAK = TRAP_BREAK /\ Arch!TRAP_ECALL = TRAP_ECALL
  /\ Arch!TRAP_LD_ALIGN = TRAP_LD_ALIGN /\ Arch!TRAP_ST_ALIGN = TRAP_ST_ALIGN
  /\ Arch!TRAP_LD_FAIL = TRAP_LD_FAIL /\ Arch!TRAP_ST_FAIL = TRAP_ST_FAIL
BY DEF Arch!TRAP_INST_ALIGN, TRAP_INST_ALIGN, Arch!TRAP_INST_ILL, TRAP_INST_ILL,
       Arch!TRAP_BREAK, TRAP_BREAK, Arch!TRAP_ECALL, TRAP_ECALL,
       Arch!TRAP_LD_ALIGN, TRAP_LD_ALIGN, Arch!TRAP_ST_ALIGN, TRAP_ST_ALIGN,
       Arch!TRAP_LD_FAIL, TRAP_LD_FAIL, Arch!TRAP_ST_FAIL, TRAP_ST_FAIL

-----------------------------------------------------------------------------
(* What an update leaves alone. *)

\* The program can see no difference between t and s but for the pc and the CSRs.
Keeps(t, s) == /\ t.regs = s.regs /\ t.mem = s.mem /\ t.instret = s.instret
               /\ t.status = s.status /\ t.prev_pc = s.prev_pc

LEMMA CycleAddFields ==
  ASSUME NEW s \in State, NEW n \in Nat
  PROVE  LET t == srv32_cycle_add(s, n) IN Keeps(t, s) /\ t.pc = s.pc /\ t.csr = s.csr
<1> DEFINE c == Count(s.cycle + n)
           m == IF s.mtime_update THEN s.mtime ELSE Count(s.mtime + n)
<1>1. srv32_cycle_add(s, n) = [s EXCEPT !.cycle = c, !.mtime = m]
  BY DEF srv32_cycle_add
<1> HIDE DEF c, m
<1> QED
  BY <1>1 DEF Keeps, State

LEMMA TrapFields ==
  ASSUME NEW s \in State, NEW cause, NEW val
  PROVE  LET t == srv32_trap(s, cause, val)
         IN  /\ Keeps(t, s) /\ t.pc = Vector(s, cause)
             /\ t.csr = [Entered(s, cause) EXCEPT !["mepc"] = s.prev_pc, !["mtval"] = val]
<1> DEFINE u == srv32_cycle_add(s, BranchPenalty)
           c == [Entered(s, cause) EXCEPT !["mepc"] = s.prev_pc, !["mtval"] = val]
           v == Vector(s, cause)
<1>1. Keeps(u, s) /\ u \in State
  BY CycleAddFields, CycleAddType, RvsimAssumption
<1>2. srv32_trap(s, cause, val) = [u EXCEPT !.csr = c, !.pc = v]
  BY DEF srv32_trap
<1> HIDE DEF u, c, v
<1>3. LET t == [u EXCEPT !.csr = c, !.pc = v] IN Keeps(t, s) /\ t.pc = v /\ t.csr = c
  BY <1>1 DEF Keeps, State
<1> QED
  BY <1>2, <1>3 DEF c, v

LEMMA IntFields ==
  ASSUME NEW s \in State, NEW q
  PROVE  LET t == srv32_int(s, q)
             e == Entered(s, IntCause(q))
         IN  /\ Keeps(t, s) /\ t.pc = Vector(s, IntCode(q))
             /\ t.csr = [e EXCEPT !["mip"] = SetBit(e["mip"], IrqBit(q)), !["mepc"] = s.pc]
<1> DEFINE u == IF s.pc = Next4(s.prev_pc) THEN srv32_cycle_add(s, BranchPenalty) ELSE s
           e == Entered(s, IntCause(q))
           c == [e EXCEPT !["mip"] = SetBit(@, IrqBit(q)), !["mepc"] = s.pc]
           d == [e EXCEPT !["mip"] = SetBit(e["mip"], IrqBit(q)), !["mepc"] = s.pc]
           v == Vector(s, IntCode(q))
<1>1. Keeps(u, s) /\ u \in State
  BY CycleAddFields, CycleAddType, RvsimAssumption DEF Keeps
<1>2. srv32_int(s, q) = [u EXCEPT !.csr = c, !.pc = v]
  BY DEF srv32_int
<1>3. c = d
  <2> HIDE DEF e
  <2> QED
    OBVIOUS
<1> HIDE DEF u, c, v, d
<1>4. LET t == [u EXCEPT !.csr = c, !.pc = v] IN Keeps(t, s) /\ t.pc = v /\ t.csr = c
  BY <1>1 DEF Keeps, State
<1> QED
  BY <1>2, <1>3, <1>4 DEF d, v

LEMMA EnteredFields ==
  ASSUME NEW s \in State, NEW cause
  PROVE  Entered(s, cause) = [s.csr EXCEPT !["mcause"] = cause,
           !["mstatus"] = ClearBit(CopyBit(s.csr["mstatus"], MPIE, MIE), MIE)]
<1>1. s.csr \in [CsrReg -> Word]
  BY StateFields
<1> QED
  BY <1>1 DEF Entered, CsrReg

\* In a handler interrupts are masked.
LEMMA EnteredMasks ==
  ASSUME NEW s \in State, NEW cause PROVE ~HasBit(Entered(s, cause)["mstatus"], MIE)
<1> DEFINE w == CopyBit(s.csr["mstatus"], MPIE, MIE)
<1>1. s.csr \in [CsrReg -> Word] /\ s.csr["mstatus"] \in Word
  BY StateFields DEF CsrReg
<1>2. w \in Nat
  BY <1>1, CopyBitWord, WordModNat DEF MIE, MPIE, StatusBit, Word
<1>3. Entered(s, cause)["mstatus"] = ClearBit(w, MIE)
  BY <1>1, EnteredFields DEF CsrReg
<1> HIDE DEF w
<1>4. ~HasBit(ClearBit(w, MIE), MIE)
  BY <1>2 DEF HasBit, ClearBit, MIE
<1> QED
  BY <1>3, <1>4

\* With bit 1 of mtvec zero every vector is aligned, and is the architecture's.
LEMMA VectorAligned ==
  ASSUME NEW s \in State, s.csr["mtvec"] % 4 \in {0, 1}, NEW code \in Nat
  PROVE  /\ Vector(s, code) % 4 = 0
         /\ Vector(s, code) = IF s.csr["mtvec"] % 2 = 1 THEN Plus(Align4(s.csr["mtvec"]), 4 * code)
                                                        ELSE Align4(s.csr["mtvec"])
<1> DEFINE m == s.csr["mtvec"]
<1>1. m \in Nat /\ m % 4 \in {0, 1}
  BY StateFields, WordModNat DEF CsrReg, Word
<1>2. PICK k \in Nat : WordMod = 65536 * k
  BY WordModFact
<1>3. Vector(s, code) = IF m % 2 = 1 THEN Plus(m - 1, 4 * code) ELSE m
  BY DEF Vector
<1> HIDE DEF m
<1>4. (m % 2 = 1 => Align4(m) = m - 1 /\ (m - 1) % 4 = 0 /\ m - 1 \in Nat)
      /\ (m % 2 # 1 => Align4(m) = m /\ m % 4 = 0)
  BY <1>1 DEF Align4
<1>5. \A x \in Nat : x % 4 = 0 => Plus(x, 4 * code) % 4 = 0
  <2> SUFFICES ASSUME NEW x \in Nat, x % 4 = 0 PROVE Plus(x, 4 * code) % 4 = 0
    OBVIOUS
  <2> DEFINE n == x + 4 * code
             q == n \div WordMod
             r == n % WordMod
  <2>1. n \in Nat /\ n % 4 = 0
    OBVIOUS
  <2>2. q \in Nat /\ r \in Nat /\ n = WordMod * q + r
    BY <2>1, WordModNat, Division
  <2>3. Plus(x, 4 * code) = r
    BY DEF Plus
  <2> HIDE DEF n, q, r
  <2>4. WordMod * q = 4 * (16384 * (k * q)) /\ k * q \in Nat
    BY <1>2, <2>2
  <2>5. r % 4 = 0
    <3> DEFINE z == k * q
    <3>1. z \in Nat /\ n = 4 * (16384 * z) + r
      BY <2>2, <2>4
    <3> HIDE DEF z
    <3> QED
      BY <2>1, <2>2, <3>1
  <2> QED
    BY <2>3, <2>5
<1> QED
  BY <1>3, <1>4, <1>5 DEF m

-----------------------------------------------------------------------------
(* The refinement mapping, with the latches as a parameter. *)

TakeIrq(q, t, latch, who) == IF q[latch] /\ Mstatus(t, MIE) THEN srv32_int(t, who) ELSE t
InterruptedBy(q, s) ==
  TakeIrq(q, TakeIrq(q, TakeIrq(q, s, "timer_irq", "timer"), "sw_irq_next", "sw"),
          "ext_irq_next", "ext")
Settle(q, r) == IF r.status # "run" THEN r
                ELSE IF InterruptedBy(q, r).pc < MemEnd THEN Aligned(InterruptedBy(q, r))
                                                        ELSE InterruptedBy(q, r)

LEMMA SettledIs ==
  /\ \A s : Interrupted(s) = InterruptedBy(irq, s)
  /\ Settled = Settle(irq, rv)
  /\ Settled' = Settle(irq', rv')
<1>1. \A s : Interrupted(s) = InterruptedBy(irq, s)
  BY DEF Interrupted, InterruptedBy, TakeIrq
<1>2. (Interrupted(rv))' = InterruptedBy(irq', rv')
  BY DEF Interrupted, InterruptedBy, TakeIrq
<1>3. Settled' = Settle(irq', rv')
  BY <1>2 DEF Settled, Settle
<1> QED
  BY <1>1, <1>3 DEF Settled, Settle

\* The latches of the interrupts that are taken at the start of the next step.
LatchOf(w) == CASE w = "timer" -> "timer_irq" [] w = "sw" -> "sw_irq_next" [] w = "ext" -> "ext_irq_next"
Pending(q, s) == Mstatus(s, MIE) /\ \E w \in Irq : q[LatchOf(w)]

\* One interrupt is taken, or none.
LEMMA OneInterrupt ==
  ASSUME NEW q, NEW s \in State
  PROVE  /\ ~Pending(q, s) => InterruptedBy(q, s) = s
         /\ Pending(q, s) => \E w \in Irq : q[LatchOf(w)] /\ InterruptedBy(q, s) = srv32_int(s, w)
<1>1. \A w : ~Mstatus(srv32_int(s, w), MIE)
  <2> SUFFICES ASSUME NEW w PROVE ~Mstatus(srv32_int(s, w), MIE)
    OBVIOUS
  <2> DEFINE e == Entered(s, IntCause(w))
             c == srv32_int(s, w).csr
  <2>1. c = [e EXCEPT !["mip"] = SetBit(e["mip"], IrqBit(w)), !["mepc"] = s.pc]
    BY IntFields
  <2>2. ~HasBit(e["mstatus"], MIE)
    BY EnteredMasks
  <2>3. DOMAIN e = CsrReg
    BY EnteredFields, StateFields
  <2> HIDE DEF e, c
  <2>4. c["mstatus"] = e["mstatus"]
    BY <2>1, <2>3 DEF CsrReg
  <2> QED
    BY <2>2, <2>4 DEF Mstatus, c
<1>2. LatchOf("timer") = "timer_irq" /\ LatchOf("sw") = "sw_irq_next" /\ LatchOf("ext") = "ext_irq_next"
  BY DEF LatchOf
<1>3. \A latch, who, w : TakeIrq(q, srv32_int(s, w), latch, who) = srv32_int(s, w)
  BY <1>1 DEF TakeIrq
<1>4. CASE ~Pending(q, s)
  <2>1. \A w \in Irq : TakeIrq(q, s, LatchOf(w), w) = s
    BY <1>4 DEF TakeIrq, Pending
  <2> QED
    BY <1>2, <1>4, <2>1 DEF InterruptedBy, Irq
<1>5. CASE Pending(q, s)
  <2>1. \A w \in Irq : TakeIrq(q, s, LatchOf(w), w) = IF q[LatchOf(w)] THEN srv32_int(s, w) ELSE s
    BY <1>5 DEF TakeIrq, Pending
  <2>2. q["timer_irq"] \/ q["sw_irq_next"] \/ q["ext_irq_next"]
    BY <1>2, <1>5 DEF Pending, Irq
  <2>3. /\ TakeIrq(q, s, "timer_irq", "timer") = IF q["timer_irq"] THEN srv32_int(s, "timer") ELSE s
        /\ TakeIrq(q, s, "sw_irq_next", "sw") = IF q["sw_irq_next"] THEN srv32_int(s, "sw") ELSE s
        /\ TakeIrq(q, s, "ext_irq_next", "ext") = IF q["ext_irq_next"] THEN srv32_int(s, "ext") ELSE s
    BY <1>2, <2>1 DEF Irq
  <2>4. \/ q["timer_irq"] /\ InterruptedBy(q, s) = srv32_int(s, "timer")
        \/ q["sw_irq_next"] /\ InterruptedBy(q, s) = srv32_int(s, "sw")
        \/ q["ext_irq_next"] /\ InterruptedBy(q, s) = srv32_int(s, "ext")
    <3>1. CASE q["timer_irq"]
      BY <1>3, <2>3, <3>1 DEF InterruptedBy
    <3>2. CASE ~q["timer_irq"] /\ q["sw_irq_next"]
      BY <1>3, <2>3, <3>2 DEF InterruptedBy
    <3>3. CASE ~q["timer_irq"] /\ ~q["sw_irq_next"]
      BY <2>2, <2>3, <3>3 DEF InterruptedBy
    <3> QED
      BY <3>1, <3>2, <3>3
  <2>5. "timer" \in Irq /\ "sw" \in Irq /\ "ext" \in Irq
    BY DEF Irq
  <2> QED
    BY <1>2, <1>5, <2>4, <2>5
<1> QED
  BY <1>4, <1>5

\* The machine between two steps, by what is pending.
LEMMA SettleCases ==
  ASSUME NEW q, NEW r \in State
  PROVE  /\ r.status # "run" => Settle(q, r) = r
         /\ r.status = "run" /\ ~Pending(q, r) /\ r.pc % 4 = 0 => Settle(q, r) = r
         /\ r.status = "run" /\ ~Pending(q, r) /\ r.pc % 4 # 0 =>
              Settle(q, r) = IF r.pc < MemEnd THEN srv32_trap(r, TRAP_INST_ALIGN, r.pc) ELSE r
         /\ r.status = "run" /\ Pending(q, r) /\ r.csr["mtvec"] % 4 \in {0, 1} =>
              \E w \in Irq : q[LatchOf(w)] /\ Settle(q, r) = srv32_int(r, w)
<1>1. r.status = "run" => Settle(q, r) = IF InterruptedBy(q, r).pc < MemEnd
                                         THEN Aligned(InterruptedBy(q, r)) ELSE InterruptedBy(q, r)
  BY DEF Settle
<1>2. ASSUME r.status = "run", ~Pending(q, r)
      PROVE  Settle(q, r) = IF r.pc < MemEnd /\ r.pc % 4 # 0 THEN srv32_trap(r, TRAP_INST_ALIGN, r.pc) ELSE r
  BY <1>1, <1>2, OneInterrupt DEF Aligned
<1>3. ASSUME r.status = "run", Pending(q, r), r.csr["mtvec"] % 4 \in {0, 1}
      PROVE  \E w \in Irq : q[LatchOf(w)] /\ Settle(q, r) = srv32_int(r, w)
  <2>1. PICK w \in Irq : q[LatchOf(w)] /\ InterruptedBy(q, r) = srv32_int(r, w)
    BY <1>3, OneInterrupt
  <2>2. IntCode(w) \in Nat
    BY DEF Irq, IntCode
  <2>3. srv32_int(r, w).pc % 4 = 0
    BY <1>3, <2>2, IntFields, VectorAligned
  <2> QED
    BY <1>1, <1>3, <2>1, <2>3 DEF Aligned
<1> QED
  BY <1>2, <1>3 DEF Settle

-----------------------------------------------------------------------------
(* The state in which the instruction of a step runs. *)

\* Between t and s the difference is none that the next step would go by.
Same(t, s) == t.pc = s.pc /\ t.csr = s.csr /\ t.prev_pc = s.prev_pc

LEMMA StartFields ==
  ASSUME NEW s \in State
  PROVE  LET t == Start(s)
         IN  /\ t \in State /\ Same(t, s) /\ t.regs = [s.regs EXCEPT ![0] = 0]
             /\ t.mem = s.mem /\ t.instret = s.instret /\ t.status = s.status
<1>1. s.regs \in [Reg -> Word] /\ 0 \in Word
  BY StateFields, SmallWord
<1>2. [s.regs EXCEPT ![0] = 0] \in [Reg -> Word]
  BY <1>1
<1> DEFINE g == [s.regs EXCEPT ![0] = 0]
<1>3. Start(s) = [s EXCEPT !.mtime_update = FALSE, !.regs = g]
  BY DEF Start, State
<1> HIDE DEF g
<1>4. g \in [Reg -> Word]
  BY <1>2 DEF g
<1> QED
  BY <1>3, <1>4 DEF g, Same, State

LEMMA TakeSame ==
  ASSUME NEW t \in State, NEW s \in State, Same(t, s), NEW q, NEW latch, NEW w \in Irq
  PROVE  LET u == TakeIrq(q, t, latch, w)
             v == TakeIrq(q, s, latch, w)
         IN  u \in State /\ v \in State /\ Same(u, v) /\ Keeps(u, t)
<1>1. srv32_int(t, w) \in State /\ srv32_int(s, w) \in State
  BY IntType
<1>2. Entered(t, IntCause(w)) = Entered(s, IntCause(w)) /\ Vector(t, IntCode(w)) = Vector(s, IntCode(w))
  BY DEF Same, Entered, Vector
<1>3. /\ srv32_int(t, w).pc = srv32_int(s, w).pc /\ srv32_int(t, w).csr = srv32_int(s, w).csr
      /\ Keeps(srv32_int(t, w), t) /\ Keeps(srv32_int(s, w), s)
  <2> DEFINE e(x) == Entered(x, IntCause(w))
             c(x) == [e(x) EXCEPT !["mip"] = SetBit(e(x)["mip"], IrqBit(w)), !["mepc"] = x.pc]
  <2>1. \A x \in State : /\ Keeps(srv32_int(x, w), x) /\ srv32_int(x, w).pc = Vector(x, IntCode(w))
                         /\ srv32_int(x, w).csr = c(x)
    BY IntFields
  <2>2. c(t) = c(s)
    BY <1>2 DEF Same
  <2> HIDE DEF c
  <2> QED
    BY <1>2, <2>1, <2>2
<1>4. Mstatus(t, MIE) <=> Mstatus(s, MIE)
  BY DEF Same, Mstatus
<1>5. CASE q[latch] /\ Mstatus(t, MIE)
  <2>1. TakeIrq(q, t, latch, w) = srv32_int(t, w) /\ TakeIrq(q, s, latch, w) = srv32_int(s, w)
    BY <1>4, <1>5 DEF TakeIrq
  <2>2. Same(srv32_int(t, w), srv32_int(s, w))
    BY <1>3 DEF Same, Keeps
  <2> QED
    BY <1>1, <1>3, <2>1, <2>2
<1>6. CASE ~(q[latch] /\ Mstatus(t, MIE))
  <2>1. TakeIrq(q, t, latch, w) = t /\ TakeIrq(q, s, latch, w) = s
    BY <1>4, <1>6 DEF TakeIrq
  <2> QED
    BY <2>1 DEF Keeps
<1> QED
  BY <1>5, <1>6

LEMMA InterruptedSame ==
  ASSUME NEW t \in State, NEW s \in State, Same(t, s), NEW q
  PROVE  LET u == InterruptedBy(q, t)
             v == InterruptedBy(q, s)
         IN  u \in State /\ v \in State /\ Same(u, v) /\ Keeps(u, t)
<1> DEFINE u1 == TakeIrq(q, t, "timer_irq", "timer")
           v1 == TakeIrq(q, s, "timer_irq", "timer")
           u2 == TakeIrq(q, u1, "sw_irq_next", "sw")
           v2 == TakeIrq(q, v1, "sw_irq_next", "sw")
           u3 == TakeIrq(q, u2, "ext_irq_next", "ext")
           v3 == TakeIrq(q, v2, "ext_irq_next", "ext")
<1>0. "timer" \in Irq /\ "sw" \in Irq /\ "ext" \in Irq
  BY DEF Irq
<1>1. u1 \in State /\ v1 \in State /\ Same(u1, v1) /\ Keeps(u1, t)
  BY <1>0, TakeSame
<1> HIDE DEF u1, v1
<1>2. u2 \in State /\ v2 \in State /\ Same(u2, v2) /\ Keeps(u2, u1)
  BY <1>0, <1>1, TakeSame
<1> HIDE DEF u2, v2
<1>3. u3 \in State /\ v3 \in State /\ Same(u3, v3) /\ Keeps(u3, u2)
  BY <1>0, <1>2, TakeSame
<1>4. InterruptedBy(q, t) = u3 /\ InterruptedBy(q, s) = v3
  BY DEF InterruptedBy, u1, u2, v1, v2
<1> HIDE DEF u3, v3
<1> QED
  BY <1>1, <1>2, <1>3, <1>4 DEF Keeps

LEMMA AlignedSame ==
  ASSUME NEW t \in State, NEW s \in State, Same(t, s)
  PROVE  Aligned(t) \in State /\ Same(Aligned(t), Aligned(s)) /\ Keeps(Aligned(t), t)
<1>1. t.pc \in Word /\ TRAP_INST_ALIGN \in Causes
  BY StateFields DEF Causes
<1>2. srv32_trap(t, TRAP_INST_ALIGN, t.pc) \in State
  BY <1>1, TrapType
<1>3. Entered(t, TRAP_INST_ALIGN) = Entered(s, TRAP_INST_ALIGN) /\ Vector(t, TRAP_INST_ALIGN) = Vector(s, TRAP_INST_ALIGN)
  BY DEF Same, Entered, Vector
<1>4. /\ Same(srv32_trap(t, TRAP_INST_ALIGN, t.pc), srv32_trap(s, TRAP_INST_ALIGN, s.pc))
      /\ Keeps(srv32_trap(t, TRAP_INST_ALIGN, t.pc), t)
  <2> DEFINE c(x) == [Entered(x, TRAP_INST_ALIGN) EXCEPT !["mepc"] = x.prev_pc, !["mtval"] = x.pc]
             r(x) == srv32_trap(x, TRAP_INST_ALIGN, x.pc)
  <2>1. \A x \in State : /\ Keeps(r(x), x) /\ r(x).pc = Vector(x, TRAP_INST_ALIGN) /\ r(x).csr = c(x)
    BY TrapFields
  <2>2. c(t) = c(s)
    BY <1>3 DEF Same
  <2> HIDE DEF c, r
  <2>3. Same(r(t), r(s)) /\ Keeps(r(t), t)
    BY <1>3, <2>1, <2>2 DEF Same, Keeps
  <2> QED
    BY <2>3 DEF r
<1>5. CASE t.pc % 4 # 0
  <2>1. Aligned(t) = srv32_trap(t, TRAP_INST_ALIGN, t.pc) /\ Aligned(s) = srv32_trap(s, TRAP_INST_ALIGN, s.pc)
    BY <1>5 DEF Aligned, Same
  <2> QED
    BY <1>2, <1>4, <2>1
<1>6. CASE ~(t.pc % 4 # 0)
  <2>1. Aligned(t) = t /\ Aligned(s) = s
    BY <1>6 DEF Aligned, Same
  <2> QED
    BY <2>1 DEF Keeps
<1> QED
  BY <1>5, <1>6

\* A step of the simulator from a pc the architecture speaks of, and the state
\* its instruction finds.
Run == TypeOK /\ Step /\ Ordinary /\ ArchPc % 4 = 0 /\ InText(ArchPc)
Ran == Counted(Ready)

LEMMA MemBounds == NText \in Nat /\ NText > 0 /\ NMem \in Nat /\ NMem > 0 /\ TextEnd < MemEnd
                   /\ TextEnd \in Nat /\ MemEnd \in Nat /\ TextEnd % 4 = 0 /\ MemEnd % 4 = 0
BY RvsimAssumption DEF TextEnd, MemEnd

LEMMA ReadyIs ==
  ASSUME TypeOK, rv.status = "run", ArchPc % 4 = 0, InText(ArchPc)
  PROVE  /\ Ready \in State /\ Ready.pc = ArchPc /\ Ready.csr = ArchCsr /\ Ready.regs = ArchRegs
         /\ Ready.mem = rv.mem /\ Ready.instret = rv.instret /\ Ready.status = "run"
<1> DEFINE s == Start(rv)
           u == InterruptedBy(irq, s)
           v == InterruptedBy(irq, rv)
<1>1. rv \in State
  BY DEF TypeOK
<1>2. /\ s \in State /\ Same(s, rv) /\ s.regs = [rv.regs EXCEPT ![0] = 0]
      /\ s.mem = rv.mem /\ s.instret = rv.instret /\ s.status = rv.status
  BY <1>1, StartFields
<1> HIDE DEF s
<1>3. u \in State /\ v \in State /\ Same(u, v) /\ Keeps(u, s)
  BY <1>1, <1>2, InterruptedSame
<1>4. Settled = (IF v.pc < MemEnd THEN Aligned(v) ELSE v) /\ Ready = Aligned(InRange(u))
  BY SettledIs DEF Settle, Ready, s
<1> HIDE DEF u, v
<1>5. v.pc < MemEnd
  <2> SUFFICES ASSUME ~(v.pc < MemEnd) PROVE FALSE
    OBVIOUS
  <2>1. ArchPc = v.pc /\ ArchPc < TextEnd
    BY <1>4 DEF ArchPc, InText
  <2>2. v.pc \in Nat
    BY <1>3, StateFields, WordModNat DEF Word
  <2> QED
    BY <2>1, <2>2, MemBounds
<1>6. Settled = Aligned(v) /\ Ready = Aligned(u)
  <2>1. u.pc = v.pc /\ v.pc \in Nat /\ MemEnd \in Nat
    BY <1>3, StateFields, WordModNat, MemBounds DEF Same, Word
  <2>2. ~(u.pc >= MemEnd)
    BY <1>5, <2>1
  <2> QED
    BY <1>4, <1>5, <2>2 DEF InRange
<1>7. Aligned(u) \in State /\ Same(Aligned(u), Aligned(v)) /\ Keeps(Aligned(u), u)
  BY <1>3, AlignedSame
<1> QED
  BY <1>2, <1>3, <1>6, <1>7 DEF ArchPc, ArchCsr, ArchRegs, Same, Keeps

LEMMA CountedFields ==
  ASSUME NEW s \in State
  PROVE  LET t == Counted(s)
         IN  /\ t \in State /\ t.pc = s.pc /\ t.prev_pc = s.pc /\ t.csr = s.csr /\ t.regs = s.regs
             /\ t.mem = s.mem /\ t.status = s.status /\ t.instret = Count(s.instret + 1)
<1> DEFINE n == Count(s.instret + 1)
           u == [s EXCEPT !.instret = n, !.prev_pc = s.pc]
<1>1. s.instret \in Nat /\ s.pc \in Word
  BY StateFields, CounterNat
<1>2. n \in Counter
  BY <1>1, CountType
<1>3. Counted(s) = srv32_cycle_add(u, 1)
  BY DEF Counted
<1> HIDE DEF n
<1>4. u \in State
  BY <1>1, <1>2 DEF State
<1>5. /\ u.pc = s.pc /\ u.prev_pc = s.pc /\ u.csr = s.csr /\ u.regs = s.regs
      /\ u.mem = s.mem /\ u.status = s.status /\ u.instret = n
  BY DEF State
<1> HIDE DEF u
<1>6. LET t == srv32_cycle_add(u, 1) IN Keeps(t, u) /\ t.pc = u.pc /\ t.csr = u.csr
  BY <1>4, CycleAddFields
<1> QED
  BY <1>3, <1>4, <1>5, <1>6, CycleAddType DEF Keeps, n

LEMMA RunFacts ==
  ASSUME Run
  PROVE  /\ Ran \in State /\ Ran.pc = ArchPc /\ Ran.prev_pc = ArchPc /\ Ran.csr = ArchCsr
         /\ Ran.regs = ArchRegs /\ Ran.mem = rv.mem /\ Ran.status = "run"
         /\ Ran.instret = Count(rv.instret + 1)
         /\ IsInsn(Current) /\ Current = Arch!Fetch(ArchPc)
         /\ rv' \in Execute(Ran, Current) /\ irq' = Requests(Ready, Current)
         /\ ~StoresText(Ran, Current)
         /\ ArchPc \in Word /\ ArchPc % 4 = 0 /\ ArchCsr \in [CsrReg -> Word]
         /\ ArchRegs \in [Reg -> Word] /\ ArchRegs[0] = 0
         /\ ArchCsr["mtvec"] % 4 \in {0, 1}
         /\ rv.status = "run" /\ Ready.csr = ArchCsr
<1>1. rv.status = "run" /\ TypeOK /\ rv \in State /\ ArchPc % 4 = 0
  BY DEF Run, Step, TypeOK
<1>2. /\ Ready \in State /\ Ready.pc = ArchPc /\ Ready.csr = ArchCsr /\ Ready.regs = ArchRegs
      /\ Ready.mem = rv.mem /\ Ready.instret = rv.instret /\ Ready.status = "run"
  BY <1>1, ReadyIs DEF Run
<1>3. IsInsn(Current)
  BY <1>1, TextInsn DEF Current
<1>4. Current = Arch!Fetch(ArchPc)
  BY <1>2, ArchSets DEF Current, TextWord, Arch!Fetch
<1>5. rv' \in Execute(Ran, Current) /\ irq' = Requests(Ready, Current) /\ ~StoresText(Ready, Current)
  BY DEF Run, Step, Ready, Current, Ran
<1>6. /\ Ran \in State /\ Ran.pc = Ready.pc /\ Ran.prev_pc = Ready.pc /\ Ran.csr = Ready.csr
      /\ Ran.regs = Ready.regs /\ Ran.mem = Ready.mem /\ Ran.status = Ready.status
      /\ Ran.instret = Count(Ready.instret + 1)
  BY <1>2, CountedFields DEF Ran
<1>7. ArchRegs[0] = 0
  <2>1. rv.regs \in [Reg -> Word]
    BY <1>1, StateFields
  <2> QED
    BY <2>1, ZeroReg DEF ArchRegs
<1>8. ArchPc \in Word /\ ArchCsr \in [CsrReg -> Word] /\ ArchRegs \in [Reg -> Word]
  BY <1>2, StateFields
<1>9. ArchCsr["mtvec"] % 4 \in {0, 1}
  BY <1>2 DEF Run, Ordinary
<1>10. ~StoresText(Ran, Current)
  BY <1>5, <1>6 DEF StoresText
<1> QED
  BY <1>1, <1>2, <1>3, <1>4, <1>5, <1>6, <1>7, <1>8, <1>9, <1>10

-----------------------------------------------------------------------------
(* What a step of the simulator is to the architecture. *)

LEMMA After ==
  /\ ArchPc' = Settle(irq', rv').pc /\ ArchCsr' = Settle(irq', rv').csr
  /\ ArchRegs' = [rv'.regs EXCEPT ![0] = 0] /\ Ended' = (rv'.status # "run")
BY SettledIs DEF ArchPc, ArchCsr, ArchRegs, Ended

\* The machine is at rest: nothing is pending and the pc is aligned.
LEMMA AtRest ==
  ASSUME rv' \in State, rv'.status = "run", ~Pending(irq', rv'), rv'.pc % 4 = 0
  PROVE  ArchPc' = rv'.pc /\ ArchCsr' = rv'.csr /\ ~Ended'
<1>1. Settle(irq', rv') = rv'
  BY SettleCases
<1> QED
  BY <1>1, After

LEMMA AfterEnd ==
  ASSUME rv' \in State, rv'.status # "run"
  PROVE  ArchPc' = rv'.pc /\ ArchCsr' = rv'.csr /\ Ended'
<1>1. Settle(irq', rv') = rv'
  BY SettleCases
<1> QED
  BY <1>1, After

LEMMA NothingPending ==
  ASSUME Run, Current.op = "SYSTEM" PROVE \A s : ~Pending(irq', s)
<1>1. irq' = Requests(Ready, Current)
  BY RunFacts
<1>2. ~irq'["timer_irq"] /\ ~irq'["sw_irq_next"] /\ ~irq'["ext_irq_next"]
  BY <1>1 DEF Requests
<1> QED
  BY <1>2 DEF Pending, LatchOf, Irq

\* What is pending is enabled.
LEMMA PendingEnabled ==
  ASSUME Run, NEW w \in Irq, irq'[LatchOf(w)] PROVE Arch!Enabled(w) /\ Current.op # "SYSTEM"
<1>1. irq' = Requests(Ready, Current) /\ Ready.csr = ArchCsr
  BY RunFacts
<1>2. /\ irq'["timer_irq"] => Mstatus(Ready, MIE) /\ HasBit(Ready.csr["mie"], IrqBit("timer")) /\ Current.op # "SYSTEM"
      /\ irq'["sw_irq_next"] => Mstatus(Ready, MIE) /\ HasBit(Ready.csr["mie"], IrqBit("sw")) /\ Current.op # "SYSTEM"
      /\ irq'["ext_irq_next"] => Mstatus(Ready, MIE) /\ HasBit(Ready.csr["mie"], IrqBit("ext")) /\ Current.op # "SYSTEM"
  BY <1>1 DEF Requests
<1>3. Mstatus(Ready, MIE) /\ HasBit(Ready.csr["mie"], IrqBit(w)) /\ Current.op # "SYSTEM"
  BY <1>2 DEF LatchOf, Irq
<1> QED
  BY <1>1, <1>3, ArchBits DEF Arch!Enabled, Mstatus

LEMMA ArchVector ==
  ASSUME Run, NEW s \in State, s.csr = ArchCsr, NEW code \in Nat
  PROVE  Arch!Vector(code) = Vector(s, code) /\ Vector(s, code) % 4 = 0
<1>1. s.csr["mtvec"] % 4 \in {0, 1}
  BY RunFacts
<1> QED
  BY <1>1, VectorAligned, ArchWords DEF Arch!Vector

LEMMA ArchMasked ==
  ASSUME NEW s \in State, s.csr = ArchCsr, NEW cause
  PROVE  Entered(s, cause) = [ArchCsr EXCEPT !["mcause"] = cause, !["mstatus"] = Arch!Masked]
BY EnteredFields, ArchBits DEF Arch!Masked

\* A trap of the instruction that runs, taken in the step itself.
LEMMA TrapStep ==
  ASSUME Run, NEW t \in State, t.csr = ArchCsr, t.prev_pc = ArchPc, t.regs = ArchRegs,
         t.mem = rv.mem, t.status = "run", NEW cause \in Causes, NEW val \in Word,
         rv' = srv32_trap(t, cause, val), NEW vals, val \in vals
  PROVE  Arch!Trap(cause, vals) /\ Arch!MayHalt
<1> DEFINE e == Entered(t, cause)
<1>1. rv' \in State
  BY TrapType
<1>2. /\ Keeps(rv', t) /\ rv'.pc = Vector(t, cause)
      /\ rv'.csr = [e EXCEPT !["mepc"] = ArchPc, !["mtval"] = val]
  BY TrapFields
<1>3. e = [ArchCsr EXCEPT !["mcause"] = cause, !["mstatus"] = Arch!Masked]
  BY ArchMasked
<1>4. ArchCsr \in [CsrReg -> Word]
  BY RunFacts
<1>5. ~HasBit(e["mstatus"], MIE)
  BY EnteredMasks
<1> HIDE DEF e
<1>6. rv'.csr["mstatus"] = e["mstatus"]
  BY <1>2, <1>3, <1>4 DEF CsrReg
<1>7. ~Pending(irq', rv')
  BY <1>5, <1>6 DEF Pending, Mstatus
<1>8. cause \in Nat
  BY CauseWords, WordModNat DEF Word
<1>9. rv'.pc = Arch!Vector(cause) /\ rv'.pc % 4 = 0
  BY <1>2, <1>8, ArchVector
<1>10. ArchPc' = rv'.pc /\ ArchCsr' = rv'.csr /\ ~Ended'
  BY <1>1, <1>2, <1>7, <1>9, AtRest DEF Keeps
<1>11. ArchCsr' = [ArchCsr EXCEPT !["mcause"] = cause, !["mepc"] = ArchPc, !["mtval"] = val,
                                  !["mstatus"] = Arch!Masked]
  BY <1>2, <1>3, <1>4, <1>10
<1>12. ArchRegs' = ArchRegs /\ rv'.mem = rv.mem
  <2>1. ArchRegs \in [Reg -> Word] /\ ArchRegs[0] = 0
    BY RunFacts
  <2> QED
    BY <1>2, <2>1, After DEF Keeps
<1>13. Arch!MayHalt
  BY <1>10, After DEF Arch!MayHalt
<1> QED
  BY <1>9, <1>10, <1>11, <1>12, <1>13 DEF Arch!Trap

\* The end of an instruction that changes no CSR and goes to an aligned pc.
LEMMA RetireStep ==
  ASSUME Run, rv' \in State, rv'.csr = ArchCsr, rv'.status = "run", rv'.pc % 4 = 0
  PROVE  Arch!Retire(rv'.pc)
<1>1. ArchCsr \in [CsrReg -> Word] /\ ArchCsr["mtvec"] % 4 \in {0, 1} /\ ~Ended
  BY RunFacts DEF Ended
<1>2. ~Ended' /\ Ended' = FALSE /\ Ended = FALSE
  BY <1>1, After DEF Ended
<1>3. CASE ~Pending(irq', rv')
  BY <1>2, <1>3, AtRest DEF Arch!Retire
<1>4. CASE Pending(irq', rv')
  <2>1. PICK w \in Irq : irq'[LatchOf(w)] /\ Settle(irq', rv') = srv32_int(rv', w)
    BY <1>1, <1>4, SettleCases
  <2> DEFINE e == Entered(rv', IntCause(w))
  <2>2. /\ ArchPc' = Vector(rv', IntCode(w))
        /\ ArchCsr' = [e EXCEPT !["mip"] = SetBit(e["mip"], IrqBit(w)), !["mepc"] = rv'.pc]
    BY <2>1, After, IntFields
  <2>3. e = [ArchCsr EXCEPT !["mcause"] = IntCause(w), !["mstatus"] = Arch!Masked]
    BY ArchMasked
  <2> HIDE DEF e
  <2>4. e["mip"] = ArchCsr["mip"]
    BY <1>1, <2>3 DEF CsrReg
  <2>5. ArchCsr' = [ArchCsr EXCEPT !["mcause"] = IntCause(w), !["mepc"] = rv'.pc,
                      !["mtval"] = ArchCsr["mtval"], !["mstatus"] = Arch!Masked,
                      !["mip"] = SetBit(ArchCsr["mip"], IrqBit(w))]
    BY <1>1, <2>2, <2>3, <2>4 DEF CsrReg
  <2>6. IntCode(w) \in Nat
    BY DEF Irq, IntCode
  <2>7. ArchPc' = Arch!Vector(IntCode(w))
    BY <2>2, <2>6, ArchVector
  <2>8. Arch!Enabled(w) /\ Arch!MayHalt
    BY <1>2, <2>1, PendingEnabled DEF Arch!MayHalt
  <2>9. Arch!Interrupt(w, rv'.pc)
    BY <2>5, <2>7, <2>8, ArchBits DEF Arch!Interrupt
  <2> QED
    BY <2>9, ArchBits DEF Arch!Retire
<1> QED
  BY <1>3, <1>4

LEMMA RegStep ==
  ASSUME Run
  PROVE  /\ rv'.regs = Ran.regs => ArchRegs' = ArchRegs
         /\ \A v : \A r \in Reg : rv'.regs = [Ran.regs EXCEPT ![r] = v] => Arch!SetReg(r, v)
<1>1. Ran.regs = ArchRegs /\ ArchRegs \in [Reg -> Word] /\ ArchRegs[0] = 0
      /\ ArchRegs' = [rv'.regs EXCEPT ![0] = 0] /\ 0 \in Reg
  BY RunFacts, After, ZeroReg
<1>2. rv'.regs = Ran.regs => ArchRegs' = ArchRegs
  BY <1>1
<1>3. ASSUME NEW r \in Reg, NEW v, rv'.regs = [Ran.regs EXCEPT ![r] = v] PROVE Arch!SetReg(r, v)
  <2>1. CASE r = 0
    BY <1>1, <1>3, <2>1 DEF Arch!SetReg
  <2>2. CASE r # 0
    BY <1>1, <1>3, <2>2 DEF Arch!SetReg
  <2> QED
    BY <2>1, <2>2
<1> QED
  BY <1>2, <1>3

-----------------------------------------------------------------------------
(* The instructions, one opcode after the other. *)

LEMMA AdvanceFields ==
  ASSUME NEW s \in State
  PROVE  LET t == Advance(s) IN Keeps(t, s) /\ t.csr = s.csr /\ t.pc = Next4(s.pc)
<1> DEFINE n == Next4(s.pc)
<1>1. Advance(s) = [s EXCEPT !.pc = n]
  BY DEF Advance
<1> HIDE DEF n
<1> QED
  BY <1>1 DEF Keeps, State, n

LEMMA SetFields ==
  ASSUME NEW s \in State, NEW r \in Reg, NEW v
  PROVE  LET t == Set(s, r, v)
         IN  /\ t.regs = [s.regs EXCEPT ![r] = v] /\ t.pc = s.pc /\ t.csr = s.csr /\ t.mem = s.mem
             /\ t.instret = s.instret /\ t.status = s.status /\ t.prev_pc = s.prev_pc
BY DEF Set, State

LEMMA PcFields ==
  ASSUME NEW s \in State, NEW v
  PROVE  LET t == [s EXCEPT !.pc = v] IN Keeps(t, s) /\ t.csr = s.csr /\ t.pc = v
BY DEF Keeps, State

\* Which opcodes have which operations.
LEMMA Kinds ==
  ASSUME NEW i, IsInsn(i)
  PROVE  /\ i.op \in Opcode /\ i.f \in Funct
         /\ i.f = "bad" => i.op \in {"BRANCH", "LOAD", "STORE", "SYSTEM", "ARITHR"}
         /\ i.op = "BRANCH" /\ i.f # "bad" => i.f \in BranchFn
         /\ i.op = "LOAD" /\ i.f # "bad" => i.f \in LoadFn
         /\ i.op = "STORE" /\ i.f # "bad" => i.f \in StoreFn
         /\ i.op = "SYSTEM" /\ i.f \notin {"bad", "PRIV"} => i.f \in CsrFn
BY DEF IsInsn, Insn, FunctOf, AluFn, Opcode

LEMMA Operands ==
  ASSUME Run
  PROVE  /\ \A r \in Reg : Arch!Val(r) = Ran.regs[r] /\ Ran.regs[r] \in Word
         /\ Fields(Current) /\ Current.op \in Opcode
         /\ Arch!Addr(Current) = Plus(Ran.regs[Current.rs1], Current.imm)
         /\ Arch!Addr(Current) \in Word
         /\ Next4(ArchPc) \in Word /\ Next4(ArchPc) % 4 = 0 /\ Even(ArchPc) = ArchPc
<1>1. /\ IsInsn(Current) /\ Ran.regs = ArchRegs /\ ArchRegs \in [Reg -> Word] /\ ArchRegs[0] = 0
      /\ ArchPc \in Word /\ ArchPc % 4 = 0
  BY RunFacts
<1>2. Fields(Current) /\ Current.op \in Opcode
  BY <1>1, InsnFields, Kinds
<1>3. \A r \in Reg : Arch!Val(r) = Ran.regs[r] /\ Ran.regs[r] \in Word
  BY <1>1 DEF Arch!Val
<1>4. Current.rs1 \in Reg /\ Current.imm \in Word
  BY <1>2 DEF Fields
<1>5. Arch!Addr(Current) = Plus(Ran.regs[Current.rs1], Current.imm)
  BY <1>3, <1>4, ArchWords DEF Arch!Addr
<1>6. Arch!Addr(Current) \in Word
  BY <1>3, <1>4, <1>5, PlusWord
<1> QED
  BY <1>1, <1>2, <1>3, <1>5, <1>6, AlignedNext

LEMMA NextState == ASSUME WordFunctions(Word), Run PROVE rv' \in State
<1>1. TypeOK /\ [Next]_vars
  BY DEF Run, Next
<1>2. TypeOK'
  BY <1>1, StepType
<1> QED
  BY <1>2 DEF TypeOK

LEMMA IllegalStep ==
  ASSUME Run, Arch!Illegal(Current), NEW v \in {Current.code, 0}, rv' \in Illegal(Ran, v)
  PROVE  Arch!Step(Current)
<1>1. rv' = srv32_trap(Ran, TRAP_INST_ILL, v) /\ TRAP_INST_ILL \in Causes
  BY DEF Illegal, Causes
<1>2. v \in Word
  BY Operands, SmallWord DEF Fields
<1>3. Arch!Trap(TRAP_INST_ILL, {Current.code, 0})
  BY <1>1, <1>2, RunFacts, TrapStep
<1> QED
  BY <1>3, ArchCauses DEF Arch!Step, Arch!Excepts, Arch!Except

LEMMA BadStep ==
  ASSUME Run, Current.op = "BAD" \/ (Current.op = "ARITHR" /\ Current.f = "bad")
  PROVE  Arch!Step(Current)
<1>1. Execute(Ran, Current) = Illegal(Ran, Current.code)
  BY DEF Execute
<1> QED
  BY <1>1, RunFacts, IllegalStep DEF Arch!Illegal

LEMMA ComputeStep ==
  ASSUME WordFunctions(Word), Run,
         Current.op \in {"AUIPC", "LUI", "ARITHI", "ARITHR", "FENCE"}, Current.f # "bad"
  PROVE  Arch!Step(Current)
<1> DEFINE i == Current
           v == Value(Ran, i)
<1>1. /\ Ran \in State /\ Ran.pc = ArchPc /\ Ran.csr = ArchCsr /\ Ran.mem = rv.mem
      /\ Ran.status = "run" /\ rv' \in Execute(Ran, i) /\ IsInsn(i)
  BY RunFacts
<1>2. i.rd \in Reg /\ i.rs1 \in Reg /\ i.rs2 \in Reg
  BY Operands DEF Fields
<1>3. /\ \A r \in Reg : Arch!Val(r) = Ran.regs[r]
      /\ Next4(ArchPc) % 4 = 0
  BY Operands
<1>4. rv' \in State
  BY NextState
<1>5. ASSUME rv'.pc = Next4(ArchPc), rv'.csr = ArchCsr, rv'.status = "run", rv'.mem = rv.mem,
             IF i.op = "FENCE" THEN ArchRegs' = ArchRegs ELSE Arch!SetReg(i.rd, v)
      PROVE  Arch!Compute(i)
  <2>1. Arch!Retire(Arch!Next4(ArchPc))
    BY <1>3, <1>4, <1>5, RetireStep, ArchWords
  <2>2. CASE i.op = "FENCE"
    BY <1>5, <2>1, <2>2 DEF Arch!Compute
  <2>3. CASE i.op \in {"AUIPC", "LUI"}
    <3>1. v = IF i.op = "AUIPC" THEN Arch!Plus(ArchPc, i.imm) ELSE i.imm
      BY <1>1, <2>3, ArchWords DEF Value
    <3> QED
      BY <1>5, <2>1, <2>3, <3>1 DEF Arch!Compute
  <2>4. CASE i.op \in {"ARITHI", "ARITHR"}
    <3>1. v = IF i.op = "ARITHI" THEN Alu(i.f, Arch!Val(i.rs1), i.imm)
                                 ELSE Alu(i.f, Arch!Val(i.rs1), Arch!Val(i.rs2))
      BY <1>2, <1>3, <2>4 DEF Value
    <3> HIDE DEF v
    <3> QED
      BY <1>5, <2>1, <2>4, <3>1 DEF Arch!Compute
  <2> QED
    BY <2>2, <2>3, <2>4
<1>6. Arch!Compute(i)
  <2>1. CASE i.op = "FENCE"
    <3>1. rv' = Advance(Ran)
      BY <1>1, <2>1 DEF Execute
    <3>2. Keeps(rv', Ran) /\ rv'.csr = ArchCsr /\ rv'.pc = Next4(ArchPc)
      BY <1>1, <3>1, AdvanceFields
    <3>3. ArchRegs' = ArchRegs
      BY <3>2, RegStep DEF Keeps
    <3> QED
      BY <1>1, <1>5, <2>1, <3>2, <3>3 DEF Keeps
  <2>2. CASE i.op # "FENCE"
    <3> DEFINE t == Set(Ran, i.rd, v)
    <3>1. rv' = Advance(t)
      BY <1>1, <2>2 DEF Execute
    <3>2. v \in Word
      BY <1>1, <2>2, ValueType
    <3> HIDE DEF v
    <3>3. t \in State
      BY <1>1, <3>2, SetRegs
    <3>4. /\ t.regs = [Ran.regs EXCEPT ![i.rd] = v] /\ t.pc = ArchPc /\ t.csr = ArchCsr
          /\ t.mem = rv.mem /\ t.status = "run"
      BY <1>1, <1>2, SetFields
    <3> HIDE DEF t
    <3>5. Keeps(rv', t) /\ rv'.csr = ArchCsr /\ rv'.pc = Next4(ArchPc)
      BY <3>1, <3>3, <3>4, AdvanceFields
    <3>6. Arch!SetReg(i.rd, v)
      BY <1>2, <3>4, <3>5, RegStep DEF Keeps
    <3> QED
      BY <1>5, <2>2, <3>4, <3>5, <3>6 DEF Keeps, v
  <2> QED
    BY <2>1, <2>2
<1>7. ~Arch!Excepts(i)
  BY DEF Arch!Excepts, Arch!Illegal, Arch!TargetMisaligned, Arch!AddrMisaligned
<1> QED
  BY <1>6, <1>7 DEF Arch!Step

\* A jump or branch to a misaligned address: the exception, or, beyond memory,
\* the jump itself.
LEMMA MisalignedStep ==
  ASSUME Run, Current.op \in {"JAL", "JALR", "BRANCH"}, ~Arch!Illegal(Current),
         rv' \in State, rv'.pc % 4 # 0, rv'.pc = Arch!Target(Current), rv'.csr = ArchCsr,
         rv'.prev_pc = ArchPc, rv'.regs = ArchRegs, rv'.mem = rv.mem, rv'.status = "run"
  PROVE  Arch!Step(Current)
<1> DEFINE t == srv32_trap(rv', TRAP_INST_ALIGN, rv'.pc)
           e == Entered(rv', TRAP_INST_ALIGN)
<1>1. \A l \in {"timer_irq", "sw_irq_next", "ext_irq_next"} : ~irq'[l]
  BY DEF Run, Ordinary
<1>2. ~Pending(irq', rv')
  BY <1>1 DEF Pending, LatchOf, Irq
<1>3. Settle(irq', rv') = IF rv'.pc < MemEnd THEN t ELSE rv'
  BY <1>2, SettleCases
<1>4. ArchRegs' = ArchRegs /\ ~Ended' /\ Ended' = FALSE /\ Ended = FALSE
  <2>1. Ran.regs = ArchRegs /\ rv.status = "run"
    BY RunFacts
  <2> QED
    BY <2>1, RegStep, After DEF Ended
<1>5. Arch!TargetMisaligned(Current)
  BY DEF Arch!TargetMisaligned
<1>6. CASE rv'.pc < MemEnd
  <2>1. /\ t.pc = Vector(rv', TRAP_INST_ALIGN)
        /\ t.csr = [e EXCEPT !["mepc"] = ArchPc, !["mtval"] = rv'.pc]
    BY TrapFields
  <2>2. e = [ArchCsr EXCEPT !["mcause"] = TRAP_INST_ALIGN, !["mstatus"] = Arch!Masked]
    BY ArchMasked
  <2>3. ArchPc' = t.pc /\ ArchCsr' = t.csr
    BY <1>3, <1>6, After
  <2> HIDE DEF t, e
  <2>4. ArchCsr \in [CsrReg -> Word]
    BY RunFacts
  <2>5. ArchCsr' = [ArchCsr EXCEPT !["mcause"] = TRAP_INST_ALIGN, !["mepc"] = ArchPc,
                                   !["mtval"] = rv'.pc, !["mstatus"] = Arch!Masked]
    BY <2>1, <2>2, <2>3, <2>4
  <2>6. TRAP_INST_ALIGN \in Nat
    BY DEF TRAP_INST_ALIGN
  <2>7. ArchPc' = Arch!Vector(TRAP_INST_ALIGN)
    BY <2>1, <2>3, <2>6, ArchVector
  <2>8. Arch!Trap(TRAP_INST_ALIGN, {Arch!Target(Current)})
    BY <1>4, <2>5, <2>7 DEF Arch!Trap, Arch!MayHalt
  <2> QED
    BY <1>5, <2>8, ArchCauses DEF Arch!Step, Arch!Excepts, Arch!Except
<1>7. CASE ~(rv'.pc < MemEnd)
  <2>1. ArchPc' = Arch!Target(Current) /\ ArchCsr' = ArchCsr
    BY <1>3, <1>7, After
  <2>2. rv'.pc \in Nat
    BY StateFields, WordModNat DEF Word
  <2>3. ~InText(Arch!Target(Current))
    BY <1>7, <2>2, MemBounds DEF InText
  <2> QED
    BY <1>4, <1>5, <2>1, <2>3 DEF Arch!Step, Arch!Excepts, Arch!Except
<1> QED
  BY <1>6, <1>7

LEMMA JumpStep ==
  ASSUME Run, Current.op \in {"JAL", "JALR"}, NEW target \in Word, NEW self \in BOOLEAN,
         Arch!Target(Current) = Even(target), self => target = ArchPc,
         rv' = Jump(Ran, Current, target, self)
  PROVE  Arch!Step(Current)
<1> DEFINE i == Current
<1>1. /\ Ran \in State /\ Ran.pc = ArchPc /\ Ran.csr = ArchCsr /\ Ran.mem = rv.mem
      /\ Ran.prev_pc = ArchPc /\ Ran.regs = ArchRegs
      /\ Ran.status = "run" /\ IsInsn(i) /\ ArchPc \in Word
  BY RunFacts
<1>2. i.rd \in Reg /\ Even(ArchPc) = ArchPc
  BY Operands DEF Fields
<1>3. rv' \in State
  BY <1>1, JumpType
<1>4. i.f # "bad" /\ ~Arch!Illegal(i) /\ ~Arch!AddrMisaligned(i)
  BY <1>1, Kinds DEF Arch!Illegal, Arch!AddrMisaligned
<1>5. CASE self
  <2> DEFINE t == [Ran EXCEPT !.pc = target]
  <2>1. Keeps(t, Ran) /\ t.csr = ArchCsr /\ t.pc = target /\ t \in State
    BY <1>1, PcFields, SetPc
  <2>2. rv' = Exited(t, 1)
    BY <1>5 DEF Jump
  <2> HIDE DEF t
  <2>3. /\ rv'.pc = t.pc /\ rv'.csr = t.csr /\ rv'.regs = t.regs /\ rv'.mem = t.mem
        /\ rv'.status = "exit"
    BY <2>1, <2>2 DEF Exited, State
  <2>4. ArchPc' = ArchPc /\ ArchCsr' = ArchCsr /\ Ended' /\ ArchRegs' = ArchRegs /\ rv'.mem = rv.mem
    BY <1>1, <1>3, <1>5, <2>1, <2>3, AfterEnd, RegStep DEF Keeps
  <2>5. Arch!Target(i) = ArchPc /\ ~Arch!TargetMisaligned(i)
    BY <1>2, <1>5, RunFacts DEF Arch!TargetMisaligned
  <2>6. Arch!SelfJump(i)
    BY <2>4, <2>5, After DEF Arch!SelfJump
  <2> QED
    BY <1>4, <2>5, <2>6 DEF Arch!Step, Arch!Excepts
<1>6. CASE ~self /\ Even(target) % 4 # 0
  <2>1. rv' = [Ran EXCEPT !.pc = Even(target)]
    BY <1>6 DEF Jump
  <2>2. Keeps(rv', Ran) /\ rv'.csr = ArchCsr /\ rv'.pc = Even(target)
    BY <1>1, <2>1, PcFields
  <2> QED
    BY <1>1, <1>3, <1>4, <1>6, <2>2, MisalignedStep DEF Keeps
<1>7. CASE ~self /\ Even(target) % 4 = 0
  <2> DEFINE t == [Ran EXCEPT !.pc = Even(target)]
             u == Set(t, i.rd, Next4(ArchPc))
  <2>1. rv' = Penalty(u)
    BY <1>1, <1>7 DEF Jump
  <2>2. Keeps(t, Ran) /\ t.csr = ArchCsr /\ t.pc = Even(target) /\ t \in State
    BY <1>1, PcFields, SetPc, EvenWord
  <2> HIDE DEF t
  <2>3. /\ u.regs = [t.regs EXCEPT ![i.rd] = Next4(ArchPc)] /\ u.pc = t.pc /\ u.csr = t.csr
        /\ u.mem = t.mem /\ u.status = t.status /\ u \in State
    BY <1>1, <1>2, <2>2, SetFields, SetRegs, Next4Word
  <2> HIDE DEF u
  <2>4. Keeps(rv', u) /\ rv'.pc = u.pc /\ rv'.csr = u.csr
    BY <2>1, <2>3, CycleAddFields, RvsimAssumption DEF Penalty
  <2>5. Arch!SetReg(i.rd, Arch!Next4(ArchPc))
    BY <1>2, <2>2, <2>3, <2>4, RegStep, ArchWords DEF Keeps
  <2>6. rv'.pc = Arch!Target(i) /\ rv'.csr = ArchCsr /\ rv'.mem = rv.mem /\ rv'.status = "run"
    BY <1>1, <2>2, <2>3, <2>4 DEF Keeps
  <2>7. Arch!Retire(Arch!Target(i))
    BY <1>3, <1>7, <2>6, RetireStep
  <2>8. Arch!Jump(i)
    BY <2>5, <2>6, <2>7 DEF Arch!Jump
  <2>9. ~Arch!TargetMisaligned(i)
    BY <1>7 DEF Arch!TargetMisaligned
  <2> QED
    BY <1>4, <2>8, <2>9 DEF Arch!Step, Arch!Excepts
<1> QED
  BY <1>5, <1>6, <1>7

LEMMA JumpsStep ==
  ASSUME Run, Current.op \in {"JAL", "JALR"} PROVE Arch!Step(Current)
<1> DEFINE i == Current
           t == Plus(Ran.regs[i.rs1], i.imm)
           p == Plus(ArchPc, i.imm)
<1>1. /\ Ran.pc = ArchPc /\ rv' \in Execute(Ran, i) /\ ArchPc \in Word
  BY RunFacts
<1>2. /\ i.rs1 \in Reg /\ i.imm \in Word /\ Arch!Val(i.rs1) = Ran.regs[i.rs1]
      /\ Ran.regs[i.rs1] \in Word
  BY Operands DEF Fields
<1>3. t \in Word /\ p \in Word
  BY <1>1, <1>2, PlusWord
<1>4. CASE i.op = "JAL"
  <2>1. rv' = Jump(Ran, i, p, i.imm = 0)
    BY <1>1, <1>4 DEF Execute
  <2>2. Arch!Target(i) = Even(p)
    BY <1>4, ArchWords DEF Arch!Target
  <2>3. i.imm = 0 => p = ArchPc
    BY <1>1, WordModNat DEF Plus, Word
  <2> HIDE DEF p
  <2> QED
    BY <1>3, <2>1, <2>2, <2>3, JumpStep
<1>5. CASE i.op = "JALR"
  <2>1. rv' = Jump(Ran, i, t, t = ArchPc)
    BY <1>1, <1>5 DEF Execute
  <2>2. Arch!Target(i) = Even(t)
    BY <1>2, <1>5, ArchWords DEF Arch!Target
  <2> HIDE DEF t
  <2> QED
    BY <1>3, <2>1, <2>2, JumpStep
<1> QED
  BY <1>4, <1>5

LEMMA BranchStep ==
  ASSUME WordFunctions(Word), Run, Current.op = "BRANCH" PROVE Arch!Step(Current)
<1> DEFINE i == Current
           x == Ran.regs[i.rs1]
           y == Ran.regs[i.rs2]
           target == Plus(ArchPc, i.imm)
           taken == [Ran EXCEPT !.pc = target]
<1>1. /\ Ran \in State /\ Ran.pc = ArchPc /\ Ran.csr = ArchCsr /\ Ran.mem = rv.mem
      /\ Ran.prev_pc = ArchPc /\ Ran.regs = ArchRegs
      /\ Ran.status = "run" /\ IsInsn(i) /\ ArchPc \in Word /\ rv' \in Execute(Ran, i)
  BY RunFacts
<1>2. i.rs1 \in Reg /\ i.rs2 \in Reg /\ i.imm \in Word /\ Next4(ArchPc) % 4 = 0
      /\ Arch!Val(i.rs1) = x /\ Arch!Val(i.rs2) = y
  BY Operands DEF Fields
<1>3. rv' \in State
  BY NextState
<1>4. rv' \in Branch(Ran, i)
  BY <1>1 DEF Execute
<1>5. CASE i.f = "bad"
  <2>1. rv' \in Illegal(Ran, i.code)
    BY <1>4, <1>5 DEF Branch
  <2> QED
    BY <1>5, <2>1, IllegalStep DEF Arch!Illegal
<1>6. CASE i.f # "bad"
  <2>1. ~Arch!Illegal(i) /\ ~Arch!AddrMisaligned(i)
    BY <1>6 DEF Arch!Illegal, Arch!AddrMisaligned
  <2>2. Arch!Holds(i.f, x, y) <=> Holds(i.f, x, y)
    BY ArchWords DEF Arch!Holds, Holds
  <2>3. Arch!Target(i) = IF Holds(i.f, x, y) THEN target ELSE Next4(ArchPc)
    BY <1>2, <2>2, ArchWords DEF Arch!Target
  <2>4. Keeps(rv', Ran) /\ rv'.csr = ArchCsr /\ rv'.pc = Arch!Target(i)
    <3>1. CASE Holds(i.f, x, y)
      <4>1. target \in Word
        BY <1>1, <1>2, PlusWord
      <4>2. rv' = taken \/ rv' = Penalty(taken)
        BY <1>1, <1>4, <1>6, <3>1 DEF Branch
      <4> HIDE DEF target
      <4>3. Keeps(taken, Ran) /\ taken.csr = ArchCsr /\ taken.pc = target /\ taken \in State
        BY <1>1, <4>1, PcFields, SetPc
      <4> HIDE DEF taken
      <4>4. Keeps(Penalty(taken), taken) /\ Penalty(taken).csr = taken.csr /\ Penalty(taken).pc = taken.pc
        BY <4>3, CycleAddFields, RvsimAssumption DEF Penalty
      <4>5. Keeps(rv', Ran) /\ rv'.csr = ArchCsr /\ rv'.pc = target
        BY <4>2, <4>3, <4>4 DEF Keeps
      <4> QED
        BY <2>3, <3>1, <4>5
    <3>2. CASE ~Holds(i.f, x, y)
      <4>1. rv' = Advance(Ran)
        BY <1>4, <1>6, <3>2 DEF Branch
      <4> QED
        BY <1>1, <2>3, <3>2, <4>1, AdvanceFields
    <3> QED
      BY <3>1, <3>2
  <2>5. CASE rv'.pc % 4 # 0
    BY <1>1, <1>3, <2>1, <2>4, <2>5, MisalignedStep DEF Keeps
  <2>6. CASE rv'.pc % 4 = 0
    <3>1. Arch!Retire(Arch!Target(i)) /\ ArchRegs' = ArchRegs
      BY <1>1, <1>3, <2>4, <2>6, RetireStep, RegStep DEF Keeps
    <3>2. Arch!Branch(i) /\ ~Arch!TargetMisaligned(i)
      BY <1>1, <2>4, <2>6, <3>1 DEF Arch!Branch, Arch!TargetMisaligned, Keeps
    <3> QED
      BY <2>1, <3>2 DEF Arch!Step, Arch!Excepts
  <2> QED
    BY <2>5, <2>6
<1> QED
  BY <1>5, <1>6

LEMMA CountBack == ASSUME NEW n \in Counter PROVE Count(Count(n + 1) - 1) = n
<1>1. n \in Nat /\ CountMod \in Nat /\ n < CountMod /\ CountMod > 0
  BY CounterNat DEF Counter
<1>2. CASE n + 1 < CountMod
  <2>1. n + 1 = CountMod * 0 + (n + 1) /\ n = CountMod * 0 + n
    BY <1>1
  <2>2. (n + 1) % CountMod = n + 1 /\ n % CountMod = n
    BY <1>1, <1>2, <2>1, Quotient
  <2> QED
    BY <1>1, <2>2 DEF Count
<1>3. CASE n + 1 = CountMod
  <2>1. CountMod = CountMod * 1 + 0
    BY <1>1
  <2>2. CountMod % CountMod = 0
    BY <1>1, <2>1, Quotient
  <2>3. (0 - 1) % CountMod = CountMod - 1
    <3> DEFINE q == (0 - 1) \div CountMod
               r == (0 - 1) % CountMod
    <3>1. q \in Int /\ r \in Nat /\ r < CountMod /\ 0 - 1 = CountMod * q + r
      BY <1>1
    <3> HIDE DEF q, r
    <3>2. q = 0 - 1
      <4>1. q < 0
        <5> SUFFICES ASSUME q >= 0 PROVE FALSE
          BY <3>1
        <5>1. CountMod * q >= 0 /\ CountMod * q \in Int
          BY <1>1, <3>1
        <5> QED
          BY <3>1, <5>1
      <4>2. ASSUME q < 0 - 1 PROVE FALSE
        <5>1. PICK d \in Nat : q = 0 - 2 - d
          <6>1. 0 - 2 - q \in Nat /\ q = 0 - 2 - (0 - 2 - q)
            BY <3>1, <4>2
          <6> QED
            BY <6>1
        <5>2. CountMod * q = 0 - 2 * CountMod - CountMod * d /\ CountMod * d \in Nat
          BY <1>1, <5>1
        <5> QED
          BY <1>1, <3>1, <5>2
      <4> QED
        BY <3>1, <4>1, <4>2
    <3>3. r = CountMod - 1
      BY <1>1, <3>1, <3>2
    <3> QED
      BY <3>3 DEF r
  <2> QED
    BY <1>1, <1>3, <2>2, <2>3 DEF Count
<1> QED
  BY <1>1, <1>2, <1>3

\* What a CSR instruction reads, but for the cycle counter.
LEMMA CsrRead ==
  ASSUME Run, Current.csr \notin {"cycle", "cycleh"}
  PROVE  CsrValue(Ran, Current.csr) = CASE Current.csr \in CsrReg   -> ArchCsr[Current.csr]
                                        [] Current.csr = "instret"  -> rv.instret % WordMod
                                        [] Current.csr = "instreth" -> (rv.instret \div WordMod) % WordMod
                                        [] OTHER -> 0
<1> DEFINE c == Current.csr
           n == rv.instret
<1>1. Ran.csr = ArchCsr /\ Ran.instret = Count(n + 1) /\ n \in Counter
  BY RunFacts, StateFields DEF Run, TypeOK
<1>2. Count(Ran.instret - 1) = n
  BY <1>1, CountBack
<1>3. (n \div WordMod) % WordMod = n \div WordMod
  <2>1. n \in Nat /\ Hi(n) \in Word
    <3>1. 0 \in Word
      BY SmallWord
    <3>2. n \in Counter
      BY <1>1
    <3> HIDE DEF n
    <3> QED
      BY <3>1, <3>2, Halves, CounterNat
  <2>2. Hi(n) \in Nat /\ Hi(n) < WordMod
    BY <2>1, WordModNat DEF Word
  <2>3. Hi(n) = WordMod * 0 + Hi(n)
    BY <2>2, WordModNat
  <2> HIDE DEF n
  <2>4. Hi(n) % WordMod = Hi(n)
    BY <2>2, <2>3, WordModNat, Quotient
  <2> QED
    BY <2>4 DEF Hi
<1> HIDE DEF n
<1> QED
  BY <1>1, <1>2, <1>3 DEF CsrValue, Lo, Hi, CsrReg, n

LEMMA CsrStep ==
  ASSUME WordFunctions(Word), Run, Current.op = "SYSTEM", Current.f \in CsrFn
  PROVE  Arch!Step(Current)
<1> DEFINE i == Current
           old == CsrValue(Ran, i.csr)
           val == IF i.f \in {"CSRRWI", "CSRRSI", "CSRRCI"} THEN i.rs1 ELSE Ran.regs[i.rs1]
           update == i.f \in {"CSRRW", "CSRRWI"} \/ i.rs1 # 0
           new == CASE i.f \in {"CSRRW", "CSRRWI"} -> val
                    [] i.f \in {"CSRRS", "CSRRSI"} -> BitOr(old, val)
                    [] i.f \in {"CSRRC", "CSRRCI"} -> BitAnd(old, BitNot(val))
           t == IF update /\ i.csr \in CsrReg THEN [Ran EXCEPT !.csr[i.csr] = new] ELSE Ran
<1>1. /\ Ran \in State /\ Ran.pc = ArchPc /\ Ran.csr = ArchCsr /\ Ran.mem = rv.mem
      /\ Ran.regs = ArchRegs /\ Ran.status = "run" /\ IsInsn(i) /\ rv' \in Execute(Ran, i)
      /\ ArchCsr \in [CsrReg -> Word] /\ ArchRegs \in [Reg -> Word]
  BY RunFacts
<1>2. i.rd \in Reg /\ i.rs1 \in Reg /\ Next4(ArchPc) % 4 = 0 /\ Arch!Val(i.rs1) = Ran.regs[i.rs1]
  BY Operands DEF Fields
<1>3. rv' \in State
  BY NextState
<1>4. i.f # "bad" /\ i.f # "PRIV"
  BY DEF CsrFn
<1>5. rv' \in csr_rw(Ran, i)
  <2>1. Execute(Ran, i) = System(Ran, i)
    BY DEF Execute
  <2>2. System(Ran, i) = csr_rw(Ran, i)
    BY <1>4 DEF System
  <2> QED
    BY <1>1, <2>1, <2>2
<1>6. CASE i.csr = "other"
  <2>1. rv' \in Illegal(Ran, 0)
    BY <1>5, <1>6 DEF csr_rw
  <2> QED
    BY <1>4, <1>6, <2>1, IllegalStep DEF Arch!Illegal
<1>7. CASE i.csr # "other"
  <2>1. rv' = Advance(Set(t, i.rd, old))
    BY <1>5, <1>7 DEF csr_rw
  <2>2. old \in Word /\ val \in Word
    BY <1>1, <1>2, CsrValueType, RegWord
  <2>3. new \in Word
    BY <2>2, BitNotWord DEF WordFunctions, CsrFn
  <2>4. new = CASE i.f \in {"CSRRW", "CSRRWI"} -> val
                [] i.f \in {"CSRRS", "CSRRSI"} -> BitOr(old, val)
                [] i.f \in {"CSRRC", "CSRRCI"} -> BitAnd(old, BitNot(val))
    OBVIOUS
  <2> DEFINE c == IF update /\ i.csr \in CsrReg THEN [ArchCsr EXCEPT ![i.csr] = new] ELSE ArchCsr
  <2> HIDE DEF new
  <2>5. /\ t \in State /\ t.csr = c /\ t.pc = ArchPc /\ t.mem = rv.mem /\ t.regs = Ran.regs
        /\ t.status = "run"
    <3>1. CASE update /\ i.csr \in CsrReg
      <4>1. [ArchCsr EXCEPT ![i.csr] = new] \in [CsrReg -> Word]
        BY <1>1, <2>3
      <4> DEFINE g == [ArchCsr EXCEPT ![i.csr] = new]
      <4>2. t = [Ran EXCEPT !.csr = g]
        BY <1>1, <3>1
      <4>3. c = g
        BY <3>1
      <4> HIDE DEF g, t, c
      <4> QED
        BY <1>1, <4>1, <4>2, <4>3 DEF State, g
    <3>2. CASE ~(update /\ i.csr \in CsrReg)
      BY <1>1, <3>2
    <3> QED
      BY <3>1, <3>2
  <2> HIDE DEF t, old
  <2> DEFINE u == Set(t, i.rd, old)
  <2>6. /\ u.regs = [t.regs EXCEPT ![i.rd] = old] /\ u.pc = t.pc /\ u.csr = t.csr
        /\ u.mem = t.mem /\ u.status = t.status /\ u \in State
    BY <1>2, <2>2, <2>5, SetFields, SetRegs
  <2>7. rv' = Advance(u)
    BY <2>1
  <2> HIDE DEF u
  <2>8. Keeps(rv', u) /\ rv'.csr = u.csr /\ rv'.pc = Next4(u.pc)
    BY <2>6, <2>7, AdvanceFields
  <2>9. /\ rv'.csr = c /\ rv'.pc = Next4(ArchPc) /\ rv'.mem = rv.mem /\ rv'.status = "run"
        /\ rv'.regs = [Ran.regs EXCEPT ![i.rd] = old]
    BY <2>5, <2>6, <2>8 DEF Keeps
  <2>10. ArchPc' = Arch!Next4(ArchPc) /\ ArchCsr' = c /\ Ended' = FALSE /\ Ended = FALSE
    BY <1>2, <1>3, <2>9, NothingPending, AtRest, ArchWords, After, RunFacts DEF Ended
  <2>11. Arch!SetReg(i.rd, old)
    BY <1>2, <2>9, RegStep
  <2>12. \A r \in Reg \ {i.rd} : ArchRegs'[r] = ArchRegs[r]
    BY <1>1, <1>2, <2>9, After, RunFacts, ZeroReg
  <2> DEFINE aold == CASE i.csr \in CsrReg   -> ArchCsr[i.csr]
                       [] i.csr = "instret"  -> rv.instret % WordMod
                       [] i.csr = "instreth" -> (rv.instret \div WordMod) % WordMod
                       [] OTHER -> 0
             anew == CASE i.f \in {"CSRRW", "CSRRWI"} -> val
                       [] i.f \in {"CSRRS", "CSRRSI"} -> BitOr(aold, val)
                       [] i.f \in {"CSRRC", "CSRRCI"} -> BitAnd(aold, BitNot(val))
             ac == IF update /\ i.csr \in CsrReg THEN [ArchCsr EXCEPT ![i.csr] = anew] ELSE ArchCsr
  <2>13. i.csr \notin {"cycle", "cycleh"} => old = aold
    BY CsrRead DEF old
  <2>14. i.csr \in CsrReg => i.csr \notin {"cycle", "cycleh"}
    BY DEF CsrReg
  <2>15. ArchCsr' = ac
    <3>1. CASE i.csr \in CsrReg
      <4>1. new = anew
        BY <2>4, <2>13, <2>14, <3>1
      <4> QED
        BY <2>10, <4>1
    <3>2. CASE i.csr \notin CsrReg
      BY <2>10, <3>2
    <3> QED
      BY <3>1, <3>2
  <2> HIDE DEF c, u
  <2>16. IF i.csr \in {"cycle", "cycleh"} THEN \A r \in Reg \ {i.rd} : ArchRegs'[r] = ArchRegs[r]
                                          ELSE Arch!SetReg(i.rd, aold)
    BY <2>11, <2>12, <2>13
  <2>17. Arch!CsrAccess(i)
    BY <1>2, <1>4, <2>9, <2>10, <2>15, <2>16, ArchWords, ArchSets DEF Arch!CsrAccess
  <2>18. ~Arch!Excepts(i)
    BY <1>4, <1>7 DEF Arch!Excepts, Arch!Illegal, Arch!TargetMisaligned, Arch!AddrMisaligned
  <2> QED
    BY <2>17, <2>18 DEF Arch!Step
<1> QED
  BY <1>6, <1>7

LEMMA PrivStep ==
  ASSUME WordFunctions(Word), Run, Current.op = "SYSTEM", Current.f = "PRIV"
  PROVE  Arch!Step(Current)
<1> DEFINE i == Current
           n == i.imm % 4
<1>1. /\ Ran \in State /\ Ran.pc = ArchPc /\ Ran.csr = ArchCsr /\ Ran.mem = rv.mem
      /\ Ran.prev_pc = ArchPc /\ Ran.regs = ArchRegs /\ Ran.status = "run"
      /\ rv' \in Execute(Ran, i) /\ ArchPc \in Word /\ ArchCsr \in [CsrReg -> Word]
      /\ rv.status = "run"
  BY RunFacts
<1>2. Ready.csr = ArchCsr /\ Ready.regs = Ran.regs
  BY <1>1, RunFacts, ReadyIs DEF Run
<1>3. rv' \in System(Ran, i)
  BY <1>1 DEF Execute
<1>4. n = 0 \/ n = 1 \/ n = 2 \/ n = 3
  BY Operands, WordModNat DEF Fields, Word
<1>5. 0 \in Word
  BY SmallWord
<1>6. ~Arch!Excepts(i)
  BY DEF Arch!Excepts, Arch!Illegal, Arch!TargetMisaligned, Arch!AddrMisaligned
<1>7. /\ n = 0 => Ran.regs[SYS] \notin {SYS_EXIT} \cup HostCall \cup Dumps
      /\ n = 2 => ArchCsr["mepc"] % 4 = 0
  BY <1>2 DEF Run, Ordinary
<1>8. CASE n = 0
  <2>1. srv32_syscall(Ran) = {Ran}
    BY <1>7, <1>8 DEF srv32_syscall
  <2>2. rv' = srv32_trap(Ran, TRAP_ECALL, 0) /\ TRAP_ECALL \in Causes
    BY <1>1, <1>3, <1>8, <2>1 DEF System, Causes
  <2>3. Arch!Trap(TRAP_ECALL, {0})
    BY <1>1, <1>5, <2>2, TrapStep
  <2>4. Arch!Priv(i)
    BY <1>8, <2>3, ArchCauses DEF Arch!Priv
  <2> QED
    BY <1>6, <2>4 DEF Arch!Step
<1>9. CASE n = 1
  <2>1. rv' = srv32_trap(Ran, TRAP_BREAK, ArchPc) /\ TRAP_BREAK \in Causes
    BY <1>1, <1>3, <1>9 DEF System, Causes
  <2>2. Arch!Trap(TRAP_BREAK, {ArchPc})
    BY <1>1, <2>1, TrapStep
  <2>3. Arch!Priv(i)
    BY <1>9, <2>2, ArchCauses DEF Arch!Priv
  <2> QED
    BY <1>6, <2>3 DEF Arch!Step
<1>10. CASE n = 2
  <2> DEFINE e == ArchCsr["mepc"]
             m == CopyBit(ArchCsr["mstatus"], MIE, MPIE)
             c == [ArchCsr EXCEPT !["mstatus"] = m]
             t == [Ran EXCEPT !.pc = e, !.csr = c]
  <2>1. e \in Word /\ ArchCsr["mstatus"] \in Word
    BY <1>1 DEF CsrReg
  <2>2. m \in Word
    BY <2>1, CopyBitWord DEF MIE, MPIE, StatusBit
  <2>3. t = [Ran EXCEPT !.pc = Ran.csr["mepc"], !.csr["mstatus"] = CopyBit(@, MIE, MPIE)]
    <3>1. c = [Ran.csr EXCEPT !["mstatus"] = CopyBit(@, MIE, MPIE)]
      BY <1>1 DEF CsrReg
    <3>2. [Ran EXCEPT !.pc = e, !.csr["mstatus"] = CopyBit(@, MIE, MPIE)] = t
      BY <1>1, <3>1
    <3> QED
      BY <1>1, <3>2
  <2> HIDE DEF m
  <2>4. c \in [CsrReg -> Word]
    BY <1>1, <2>2
  <2> HIDE DEF c, e
  <2>5. t \in State /\ Keeps(t, Ran) /\ t.pc = e /\ t.csr = c
    BY <1>1, <2>1, <2>4 DEF State, Keeps
  <2> HIDE DEF t
  <2>6. rv' = Return(Ran)
    BY <1>3, <1>10 DEF System
  <2>7. rv' = Penalty(t)
    BY <1>7, <1>10, <2>3, <2>5, <2>6 DEF Return, e
  <2>8. rv' \in State /\ Keeps(rv', t) /\ rv'.pc = e /\ rv'.csr = c
    BY <2>5, <2>7, CycleAddFields, PenaltyType, RvsimAssumption DEF Penalty
  <2>9. rv'.pc % 4 = 0 /\ rv'.status = "run" /\ rv'.regs = Ran.regs /\ rv'.mem = rv.mem
    BY <1>1, <1>7, <1>10, <2>5, <2>8 DEF Keeps, e
  <2>10. ArchPc' = e /\ ArchCsr' = c /\ ~Ended' /\ ArchRegs' = ArchRegs
    BY <2>8, <2>9, NothingPending, AtRest, RegStep
  <2>11. ArchCsr' = [ArchCsr EXCEPT !["mepc"] = ArchCsr["mepc"], !["mtval"] = ArchCsr["mtval"],
                       !["mstatus"] = Arch!CopyBit(ArchCsr["mstatus"], Arch!MIE, Arch!MPIE)]
    BY <1>1, <2>10, ArchBits DEF c, m
  <2>12. Arch!MayHalt
    BY <2>10, After DEF Arch!MayHalt
  <2>13. Arch!Priv(i)
    BY <1>10, <2>9, <2>10, <2>11, <2>12 DEF Arch!Priv, e
  <2> QED
    BY <1>6, <2>13 DEF Arch!Step
<1>11. CASE n = 3
  <2>1. rv' = srv32_trap(Ran, TRAP_INST_ILL, 0) /\ TRAP_INST_ILL \in Causes
    BY <1>3, <1>11 DEF System, Illegal, Causes
  <2>2. Arch!Trap(TRAP_INST_ILL, {0})
    BY <1>1, <1>5, <2>1, TrapStep
  <2>3. Arch!Priv(i)
    BY <1>11, <2>2, ArchCauses DEF Arch!Priv, Arch!Trap
  <2> QED
    BY <1>6, <2>3 DEF Arch!Step
<1> HIDE DEF n
<1> QED
  BY <1>4, <1>8, <1>9, <1>10, <1>11

LEMMA SystemStep ==
  ASSUME WordFunctions(Word), Run, Current.op = "SYSTEM" PROVE Arch!Step(Current)
<1>1. CASE Current.f = "bad"
  <2>1. rv' \in Illegal(Ran, Current.code)
    BY <1>1, RunFacts DEF Execute, System
  <2> QED
    BY <1>1, <2>1, IllegalStep DEF Arch!Illegal
<1>2. CASE Current.f = "PRIV"
  BY <1>2, PrivStep
<1>3. CASE Current.f \notin {"bad", "PRIV"}
  <2>1. Current.f \in CsrFn
    BY <1>3, RunFacts, Kinds
  <2> QED
    BY <2>1, CsrStep
<1> QED
  BY <1>1, <1>2, <1>3

-----------------------------------------------------------------------------
(* Loads and stores: the bytes the two levels mean. *)

\* The sign of a number below m is its upper half.
LEMMA SignBit ==
  ASSUME NEW m \in Nat, m > 0, m % 2 = 0, NEW d \in Nat, d < m
  PROVE  HasBit(d, m \div 2) <=> 2 * d >= m
<1> DEFINE h == m \div 2
<1>1. h \in Nat /\ h > 0 /\ m = 2 * h
  OBVIOUS
<1> HIDE DEF h
<1>2. CASE 2 * d >= m
  <2>1. d = h * 1 + (d - h) /\ d - h \in Nat /\ d - h < h
    BY <1>1, <1>2
  <2>2. d \div h = 1
    BY <1>1, <2>1, Quotient
  <2> QED
    BY <1>2, <2>2 DEF HasBit, h
<1>3. CASE ~(2 * d >= m)
  <2>1. d = h * 0 + d /\ d < h
    BY <1>1, <1>3
  <2>2. d \div h = 0
    BY <1>1, <2>1, Quotient
  <2> QED
    BY <1>3, <2>2 DEF HasBit, h
<1> QED
  BY <1>2, <1>3

LEMMA Powers ==
  LET b2 == ByteMod * ByteMod
  IN  /\ ByteMod \in Nat /\ ByteMod > 0 /\ ByteMod % 2 = 0
      /\ b2 \in Nat /\ b2 > 0 /\ b2 % 2 = 0 /\ WordMod = b2 * b2
      /\ LaneWeight[0] = 1 /\ LaneWeight[1] = ByteMod /\ LaneWeight[2] = b2
      /\ LaneWeight[3] = ByteMod * b2
<1> DEFINE b2 == ByteMod * ByteMod
<1>1. ByteMod \in Nat /\ ByteMod > 0 /\ ByteMod % 16 = 0
  BY Srv32Assumption
<1>2. PICK k \in Nat : ByteMod = 2 * k
  <2>1. ByteMod \div 2 \in Nat /\ ByteMod = 2 * (ByteMod \div 2)
    BY <1>1
  <2> QED
    BY <2>1
<1>3. b2 \in Nat /\ b2 > 0 /\ b2 = 2 * (k * ByteMod) /\ k * ByteMod \in Nat
  BY <1>1, <1>2
<1>4. b2 % 2 = 0
  <2> DEFINE z == k * ByteMod
  <2> HIDE DEF z, b2
  <2>1. b2 = 2 * z /\ z \in Nat
    BY <1>3 DEF z
  <2> QED
    BY <2>1
<1>5. WordMod = b2 * b2 /\ (b2 * ByteMod = ByteMod * b2)
  BY <1>1 DEF WordMod
<1>6. LaneWeight[0] = 1 /\ LaneWeight[1] = ByteMod /\ LaneWeight[2] = b2 /\ LaneWeight[3] = b2 * ByteMod
  BY DEF LaneWeight
<1> QED
  BY <1>1, <1>2, <1>3, <1>4, <1>5, <1>6

\* A whole number of digits more changes no digit below.
LEMMA DigitsAbove ==
  ASSUME NEW z \in Nat, NEW r \in Nat
  PROVE  /\ ByteMod * z + r \in Nat
         /\ (ByteMod * z + r) \div ByteMod = z + (r \div ByteMod)
         /\ (ByteMod * z + r) % ByteMod = r % ByteMod
<1> DEFINE p == r \div ByteMod
           d == r % ByteMod
           n == ByteMod * z + r
           q == z + p
<1>1. ByteMod \in Nat /\ ByteMod > 0
  BY Srv32Assumption
<1>2. p \in Nat /\ d \in Nat /\ d < ByteMod /\ r = ByteMod * p + d
  BY <1>1, Division
<1> HIDE DEF p, d
<1>3. ByteMod * q = ByteMod * z + ByteMod * p /\ ByteMod * z \in Nat /\ ByteMod * p \in Nat
  BY <1>1, <1>2
<1>4. n \in Nat /\ q \in Nat /\ n = ByteMod * q + d
  BY <1>2, <1>3
<1> HIDE DEF n, q
<1>5. n \div ByteMod = q /\ n % ByteMod = d
  BY <1>1, <1>2, <1>4, Quotient
<1> QED
  BY <1>4, <1>5 DEF n, q, p, d

\* A shift by one lane.
LEMMA LaneUp ==
  ASSUME NEW v \in Nat, NEW l \in 0 .. 2
  PROVE  ByteMod * v \in Nat /\ Lane(ByteMod * v, l + 1) = Lane(v, l)
<1> DEFINE y == ByteMod * v
<1>1. y \in Nat /\ y \div ByteMod = v
  <2>1. ByteMod \in Nat /\ ByteMod > 0
    BY Srv32Assumption
  <2>2. y = ByteMod * v + 0 /\ y \in Nat
    BY <2>1
  <2> HIDE DEF y
  <2> QED
    BY <2>1, <2>2, Quotient
<1> HIDE DEF y
<1>2. Lane(y, 1) = Lane(v, 0) /\ Lane(y, 2) = Lane(v, 1) /\ Lane(y, 3) = Lane(v, 2)
  BY <1>1, LaneQuotients
<1>3. l = 0 \/ l = 1 \/ l = 2
  OBVIOUS
<1> QED
  BY <1>1, <1>2, <1>3 DEF y

\* The lanes of a number are those of the word it is cut to.
LEMMA LaneOfWord ==
  ASSUME NEW y \in Nat, NEW l \in 0 .. 3 PROVE Lane(y % WordMod, l) = Lane(y, l)
<1> DEFINE q == y \div WordMod
           r == y % WordMod
           z3 == ByteMod * q
           z2 == ByteMod * z3
           z1 == ByteMod * z2
           r1 == r \div ByteMod
           r2 == r1 \div ByteMod
           r3 == r2 \div ByteMod
<1>1. q \in Nat /\ r \in Nat /\ y = WordMod * q + r
  BY WordModNat, Division
<1>2. ByteMod \in Nat /\ ByteMod > 0
  BY Srv32Assumption
<1> HIDE DEF q, r
<1>3. z3 \in Nat /\ z2 \in Nat /\ z1 \in Nat
  <2>1. \A a, b \in Nat : a * b \in Nat
    OBVIOUS
  <2>2. z3 \in Nat
    BY <1>1, <1>2, <2>1
  <2> HIDE DEF z3
  <2>3. z2 \in Nat
    BY <1>2, <2>1, <2>2
  <2> HIDE DEF z2
  <2> QED
    BY <1>2, <2>1, <2>2, <2>3
<1>4. r1 \in Nat /\ r2 \in Nat /\ r3 \in Nat
  <2>1. r1 \in Nat
    BY <1>1, <1>2, Division
  <2> HIDE DEF r1
  <2>2. r2 \in Nat
    BY <1>2, <2>1, Division
  <2> HIDE DEF r2
  <2> QED
    BY <1>2, <2>1, <2>2, Division
<1>5. WordMod * q = ByteMod * z1
  BY <1>1, <1>2 DEF WordMod
<1> HIDE DEF z1
<1>6. y \div ByteMod = z1 + r1 /\ y % ByteMod = r % ByteMod
  BY <1>1, <1>3, <1>5, DigitsAbove
<1>7. (z1 + r1) \div ByteMod = z2 + r2 /\ (z1 + r1) % ByteMod = r1 % ByteMod
  <2> HIDE DEF z2, r1
  <2> QED
    BY <1>3, <1>4, DigitsAbove DEF z1
<1>8. (z2 + r2) \div ByteMod = z3 + r3 /\ (z2 + r2) % ByteMod = r2 % ByteMod
  <2> HIDE DEF z3, r2
  <2> QED
    BY <1>3, <1>4, DigitsAbove
<1>9. (z3 + r3) % ByteMod = r3 % ByteMod
  <2> HIDE DEF r3
  <2> QED
    BY <1>1, <1>4, DigitsAbove
<1> HIDE DEF z2, z3
<1>10. /\ Lane(y, 0) = Lane(r, 0) /\ Lane(y, 1) = Lane(r, 1)
       /\ Lane(y, 2) = Lane(r, 2) /\ Lane(y, 3) = Lane(r, 3)
  BY <1>1, <1>6, <1>7, <1>8, <1>9, LaneQuotients
<1>11. l = 0 \/ l = 1 \/ l = 2 \/ l = 3
  OBVIOUS
<1> QED
  BY <1>10, <1>11 DEF r

\* The bytes of a value moved to the lanes of its address.
LEMMA LaneOfShift ==
  ASSUME NEW v \in Nat, NEW k \in 0 .. 3, NEW l \in k .. 3
  PROVE  Lane((v * LaneWeight[k]) % WordMod, l) = Lane(v, l - k)
<1> DEFINE v1 == ByteMod * v
           v2 == ByteMod * v1
           v3 == ByteMod * v2
<1>0. ByteMod \in Nat
  BY Srv32Assumption
<1>1. v1 \in Nat /\ \A j \in 0 .. 2 : Lane(v1, j + 1) = Lane(v, j)
  BY LaneUp
<1>2. v * LaneWeight[0] = v /\ v * LaneWeight[1] = v1 /\ v * LaneWeight[2] = v2 /\ v * LaneWeight[3] = v3
  BY <1>0, Powers
<1> HIDE DEF v1
<1>3. v2 \in Nat /\ \A j \in 0 .. 2 : Lane(v2, j + 1) = Lane(v1, j)
  BY <1>1, LaneUp
<1> HIDE DEF v2
<1>4. v3 \in Nat /\ \A j \in 0 .. 2 : Lane(v3, j + 1) = Lane(v2, j)
  BY <1>3, LaneUp
<1> HIDE DEF v3
<1>5. /\ Lane(v1, 1) = Lane(v, 0) /\ Lane(v1, 2) = Lane(v, 1) /\ Lane(v1, 3) = Lane(v, 2)
      /\ Lane(v2, 2) = Lane(v, 0) /\ Lane(v2, 3) = Lane(v, 1)
      /\ Lane(v3, 3) = Lane(v, 0)
  <2>1. Lane(v1, 0 + 1) = Lane(v, 0) /\ Lane(v1, 1 + 1) = Lane(v, 1) /\ Lane(v1, 2 + 1) = Lane(v, 2)
    BY <1>1
  <2>2. Lane(v2, 1 + 1) = Lane(v1, 1) /\ Lane(v2, 2 + 1) = Lane(v1, 2)
    BY <1>3
  <2>3. Lane(v3, 2 + 1) = Lane(v2, 2)
    BY <1>4
  <2>4. 0 + 1 = 1 /\ 1 + 1 = 2 /\ 2 + 1 = 3
    OBVIOUS
  <2> QED
    BY <2>1, <2>2, <2>3, <2>4
<1>6. v * LaneWeight[k] \in Nat /\ l \in 0 .. 3
  BY LaneWeightNat
<1>7. Lane((v * LaneWeight[k]) % WordMod, l) = Lane(v * LaneWeight[k], l)
  BY <1>6, LaneOfWord
<1>8. /\ k = 0 \/ k = 1 \/ k = 2 \/ k = 3
      /\ l = 0 \/ l = 1 \/ l = 2 \/ l = 3
      /\ k <= l
  OBVIOUS
<1>9. Lane(v * LaneWeight[k], l) = Lane(v, l - k)
  BY <1>2, <1>5, <1>8
<1> QED
  BY <1>7, <1>9

\* Where a data word is for the architecture.
LEMMA CellIndex ==
  ASSUME NEW a \in Word, NEW n \in {1, 2, 4}, InMem(a, n), ~(a < TextEnd)
  PROVE  Arch!Cell(a) = a \div 4 - NText /\ a \div 4 - NText \in 0 .. NMem - 1
<1> DEFINE q == a \div 4
           k == NText \div NMem
           r == q - NText
<1>1. r \in 0 .. NMem - 1
  BY DataIndex
<1>2. NText \in Nat /\ NMem \in Nat /\ NMem > 0 /\ NText % NMem = 0 /\ a \in Nat
  BY RvsimAssumption, WordModNat DEF Word
<1>3. q \in Nat
  BY <1>2
<1>4. k \in Nat /\ NText = NMem * k + 0
  BY <1>2, Division
<1> HIDE DEF q, k
<1>5. r \in Nat /\ r < NMem /\ q = NMem * k + r
  BY <1>1, <1>2, <1>3, <1>4
<1>6. q % NMem = r
  <2> HIDE DEF r
  <2> QED
    BY <1>2, <1>3, <1>4, <1>5, Quotient
<1> QED
  BY <1>1, <1>6 DEF Arch!Cell, q

\* The lanes of an aligned access.
LEMMA AlignedLanes ==
  ASSUME NEW a \in Word, NEW f \in MemFn, a % Size(f) = 0
  PROVE  /\ a % 4 \in 0 .. 3
         /\ Size(f) = 2 => a % 4 = 0 \/ a % 4 = 2
         /\ Size(f) = 4 => a % 4 = 0
<1>1. a \in Nat /\ Size(f) \in {1, 2, 4}
  BY Sizes, WordModNat DEF Word
<1> QED
  BY <1>1

\* What a load reads.
LEMMA LoadValue ==
  ASSUME OrAddsSign, NEW s \in State, s.mem = rv.mem, NEW a \in Word, NEW f \in LoadFn,
         a % Size(f) = 0, InMem(a, Size(f)), ~(a < TextEnd)
  PROVE  Extended(f, srv32_read_mem(s, f, a)) = Arch!Loaded(f, a)
<1> DEFINE w == s.mem[a \div 4 - NText]
           k == a % 4
           g == LaneWeight[k]
           d == (w \div g) % Low(f)
           b2 == ByteMod * ByteMod
           half == Lane(w, k) + ByteMod * Lane(w, k + 1)
<1>1. f \in MemFn /\ Size(f) \in {1, 2, 4}
  BY Sizes DEF MemFn
<1>2. rv.mem[Arch!Cell(a)] = w /\ w \in Word
  BY <1>1, CellIndex, StateFields
<1>3. k \in 0 .. 3 /\ (Size(f) = 2 => k = 0 \/ k = 2) /\ (Size(f) = 4 => k = 0)
  BY <1>1, AlignedLanes
<1>4. srv32_read_mem(s, f, a) = d
  BY DEF srv32_read_mem, WordAt
<1>5. Arch!Loaded(f, a) =
        CASE f = "LB"  -> IF 2 * Lane(w, k + 0) >= ByteMod THEN Lane(w, k + 0) + WordMod - ByteMod
                                                           ELSE Lane(w, k + 0)
          [] f = "LBU" -> Lane(w, k + 0)
          [] f = "LH"  -> IF 2 * (Lane(w, k + 0) + ByteMod * Lane(w, k + 1)) >= b2
                            THEN (Lane(w, k + 0) + ByteMod * Lane(w, k + 1)) + WordMod - b2
                            ELSE Lane(w, k + 0) + ByteMod * Lane(w, k + 1)
          [] f = "LHU" -> Lane(w, k + 0) + ByteMod * Lane(w, k + 1)
          [] f = "LW"  -> w
  BY <1>2, ArchLanes, ArchWords DEF Arch!Loaded
<1>6. k + 0 = k /\ k \in Nat
  BY <1>3
<1>7. w \in Nat /\ w < WordMod
  BY <1>2, WordModNat DEF Word
<1>8. /\ ByteMod \in Nat /\ ByteMod > 0 /\ ByteMod % 2 = 0 /\ b2 \in Nat /\ b2 > 0 /\ b2 % 2 = 0
      /\ WordMod = b2 * b2 /\ LaneWeight[0] = 1 /\ LaneWeight[2] = b2
  BY Powers
<1>9. ByteMod <= WordMod /\ b2 <= WordMod
  <2>1. {"LB", "LH"} \subseteq MemFn /\ Low("LB") = ByteMod /\ Low("LH") = b2
    BY DEF MemFn, LoadFn, Low, Size
  <2> QED
    BY <2>1, Sizes
<1> HIDE DEF k, w, b2
<1>10. ASSUME NEW m \in {ByteMod, b2}, NEW x \in Nat, x < m
       PROVE  /\ HasBit(x, m \div 2) <=> 2 * x >= m
              /\ BitOr(x, WordMod - m) = x + WordMod - m
  <2>1. m \in Nat /\ m > 0 /\ m % 2 = 0 /\ x \in Word
    BY <1>8, <1>9, <1>10, WordModNat DEF Word
  <2>2. HasBit(x, m \div 2) <=> 2 * x >= m
    BY <1>10, <2>1, SignBit
  <2> QED
    BY <1>10, <2>1, <2>2 DEF OrAddsSign, b2
<1>11. CASE Size(f) = 1
  <2> DEFINE x == Lane(w, k)
  <2>1. f = "LB" \/ f = "LBU"
    BY <1>11 DEF Size, LoadFn
  <2>2. d = x
    BY <1>11 DEF Low, Lane
  <2>3. x \in Nat /\ x < ByteMod
    BY <1>2, <1>3, <1>8, LaneByte DEF Byte
  <2> HIDE DEF x, d
  <2>4. Extended(f, d) = IF f = "LB" /\ 2 * x >= ByteMod THEN x + WordMod - ByteMod ELSE x
    BY <1>10, <2>1, <2>2, <2>3 DEF Extended
  <2>5. Arch!Loaded(f, a) = IF f = "LB" /\ 2 * x >= ByteMod THEN x + WordMod - ByteMod ELSE x
    BY <1>5, <1>6, <2>1 DEF x
  <2> QED
    BY <1>4, <2>4, <2>5
<1>12. CASE Size(f) = 2
  <2>1. f = "LH" \/ f = "LHU"
    BY <1>12 DEF Size, LoadFn
  <2>2. Low(f) = b2
    BY <1>12 DEF Low, b2
  <2>3. d = half /\ half \in Nat /\ half < b2
    <3>1. CASE k = 0
      <4>1. w \div g = w
        BY <1>7, <1>8, <3>1
      <4>2. half = w % b2
        BY <1>2, <3>1, HalvesOfWord DEF b2
      <4> QED
        BY <1>7, <1>8, <2>2, <4>1, <4>2, Division
    <3>2. CASE k = 2
      <4> DEFINE h == w \div b2
      <4>1. half = h /\ w \div g = h
        BY <1>2, <1>8, <3>2, HalvesOfWord DEF b2
      <4>2. h \in Nat /\ h < b2
        <5>1. h \in Nat /\ w % b2 \in Nat /\ w = b2 * h + (w % b2)
          BY <1>7, <1>8, Division
        <5> HIDE DEF h
        <5> SUFFICES ASSUME h >= b2 PROVE FALSE
          BY <1>8, <5>1
        <5>2. b2 * h >= b2 * b2 /\ b2 * h \in Nat
          BY <1>8, <5>1
        <5> QED
          BY <1>7, <1>8, <5>1, <5>2
      <4> HIDE DEF h
      <4>3. h = b2 * 0 + h
        BY <1>8, <4>2
      <4>4. h % b2 = h
        BY <1>8, <4>2, <4>3, Quotient
      <4> QED
        BY <2>2, <4>1, <4>2, <4>4
    <3> QED
      BY <1>3, <1>12, <3>1, <3>2
  <2> HIDE DEF d, half
  <2>4. Extended(f, d) = IF f = "LH" /\ 2 * half >= b2 THEN half + WordMod - b2 ELSE half
    BY <1>10, <2>1, <2>3 DEF Extended, b2
  <2>5. Arch!Loaded(f, a) = IF f = "LH" /\ 2 * half >= b2 THEN half + WordMod - b2 ELSE half
    BY <1>5, <1>6, <2>1 DEF half
  <2> QED
    BY <1>4, <2>4, <2>5
<1>13. CASE Size(f) = 4
  <2>1. f = "LW"
    BY <1>13 DEF Size, LoadFn
  <2>2. Low(f) = WordMod /\ w \div g = w
    BY <1>3, <1>7, <1>8, <1>13 DEF Low
  <2>3. w = WordMod * 0 + w
    BY <1>7, WordModNat
  <2>4. w % WordMod = w
    BY <1>7, <2>3, WordModNat, Quotient
  <2>5. d = w
    BY <2>2, <2>4
  <2> HIDE DEF d
  <2>6. Extended(f, d) = w
    BY <2>1, <2>5 DEF Extended
  <2> QED
    BY <1>4, <1>5, <2>1, <2>6
<1> QED
  BY <1>1, <1>11, <1>12, <1>13

\* What a store writes.
LEMMA StoreValue ==
  ASSUME NEW s \in State, s.mem = rv.mem, NEW a \in Word, NEW f \in StoreFn, NEW v \in Word,
         a % Size(f) = 0, InMem(a, Size(f)), ~(a < TextEnd)
  PROVE  LET t == srv32_write_mem(s, f, a, v)
         IN  /\ t.mem = Arch!Stored(f, a, v)
             /\ t \in State /\ t.regs = s.regs /\ t.csr = s.csr /\ t.pc = s.pc
             /\ t.status = s.status /\ t.prev_pc = s.prev_pc /\ t.instret = s.instret
<1> DEFINE c == a \div 4 - NText
           k == a % 4
           n == Size(f)
           b == k .. k + n - 1
           x == (v * LaneWeight[k]) % WordMod
           w == s.mem[c]
           l1 == [i \in 0 .. 3 |-> IF i \in b THEN Lane(x, i) ELSE Lane(w, i)]
           l2 == [i \in 0 .. 3 |-> IF i \in b THEN Lane(v, i - k) ELSE Lane(w, i)]
<1>1. f \in MemFn /\ n \in {1, 2, 4}
  BY Sizes DEF MemFn
<1>2. Arch!Cell(a) = c /\ c \in 0 .. NMem - 1 /\ s.mem \in [0 .. NMem - 1 -> Word]
  BY <1>1, CellIndex, StateFields
<1>3. k \in 0 .. 3
  BY <1>1, AlignedLanes
<1>4. v \in Nat
  BY WordModNat DEF Word
<1>5. Arch!Size(f) = n
  BY DEF Arch!Size, Size
<1>6. srv32_write_mem(s, f, a, v) = [s EXCEPT !.mem[c] = FromLanes(l1)]
  BY <1>2 DEF srv32_write_mem, Merge
<1>7. Arch!Stored(f, a, v) = [rv.mem EXCEPT ![c] = FromLanes(l2)]
  BY <1>2, <1>5, ArchLanes DEF Arch!Stored
<1> HIDE DEF c, w, x
<1>8. l1 = l2
  <2>1. ASSUME NEW i \in 0 .. 3, i \in b PROVE Lane(x, i) = Lane(v, i - k)
    <3>1. i \in k .. 3
      BY <1>1, <1>3, <2>1
    <3> HIDE DEF k
    <3> QED
      BY <1>3, <1>4, <3>1, LaneOfShift DEF x
  <2> QED
    BY <2>1
<1> DEFINE m == [s.mem EXCEPT ![c] = FromLanes(l1)]
<1>9. srv32_write_mem(s, f, a, v) = [s EXCEPT !.mem = m]
  BY <1>6
<1>10. srv32_write_mem(s, f, a, v) \in State
  BY <1>1, WriteMemType
<1>11. m = Arch!Stored(f, a, v)
  BY <1>7, <1>8
<1> HIDE DEF m
<1> QED
  BY <1>9, <1>10, <1>11 DEF State

-----------------------------------------------------------------------------
(* Loads and stores: the answer of memrw and what becomes of it. *)

\* The machine an access leaves: only the memory, a device or the host differs.
Untouched(s) == /\ s \in State /\ s.regs = ArchRegs /\ s.csr = ArchCsr /\ s.pc = ArchPc
                /\ s.prev_pc = ArchPc

LEMMA AnsweredStep ==
  ASSUME Run, NEW ans, Untouched(ans.s), ans.val \in Word, NEW a \in Word,
         NEW fail \in Causes \ {0}, NEW align \in Causes \ {0},
         TRAP_INST_ILL \notin {fail, align}, ans.s.status # "run" => ans.code = 0,
         rv' = Answered(ans, Current, a, fail, align)
  PROVE  /\ ans.s.status # "run" =>
              /\ ArchPc' = ArchPc /\ ArchCsr' = ArchCsr /\ ArchRegs' = ArchRegs /\ Ended'
              /\ rv'.mem = ans.s.mem
         /\ ans.s.status = "run" /\ ans.code \in {fail, align} /\ ans.s.mem = rv.mem =>
              Arch!Trap(ans.code, {a})
         /\ ans.s.status = "run" /\ ans.code = TRAP_INST_ILL /\ ans.s.mem = rv.mem =>
              Arch!Trap(TRAP_INST_ILL, {Current.code, 0})
         /\ ans.s.status = "run" /\ ans.code = 0 =>
              /\ Arch!Retire(Arch!Next4(ArchPc)) /\ rv'.mem = ans.s.mem
              /\ IF Current.op = "LOAD" THEN Arch!SetReg(Current.rd, ans.val) /\ rv'.regs \in [Reg -> Word]
                                        ELSE ArchRegs' = ArchRegs
<1> DEFINE i == Current
           t == IF SingleRam THEN srv32_cycle_add(ans.s, 1) ELSE ans.s
           u == IF i.op = "LOAD" THEN Set(t, i.rd, ans.val) ELSE t
<1>1. /\ ans.s \in State /\ ans.s.regs = ArchRegs /\ ans.s.csr = ArchCsr /\ ans.s.pc = ArchPc
      /\ ans.s.prev_pc = ArchPc
  BY DEF Untouched
<1>2. /\ t \in State /\ t.regs = ArchRegs /\ t.csr = ArchCsr /\ t.pc = ArchPc
      /\ t.prev_pc = ArchPc /\ t.mem = ans.s.mem /\ t.status = ans.s.status
  BY <1>1, CycleAddFields, CycleAddType DEF Keeps
<1>3. Ran.regs = ArchRegs /\ i.rd \in Reg /\ i.code \in Word /\ Next4(ArchPc) % 4 = 0
  BY RunFacts, Operands DEF Fields
<1>4. rv' = CASE ans.s.status # "run"       -> ans.s
              [] ans.code \in {fail, align} -> srv32_trap(t, ans.code, a)
              [] ans.code = TRAP_INST_ILL   -> srv32_trap(t, TRAP_INST_ILL, i.code)
              [] OTHER                      -> Advance(u)
  BY DEF Answered
<1> HIDE DEF t
<1>5. ASSUME ans.s.status # "run"
      PROVE  /\ ArchPc' = ArchPc /\ ArchCsr' = ArchCsr /\ ArchRegs' = ArchRegs /\ Ended'
             /\ rv'.mem = ans.s.mem
  <2>1. rv' = ans.s
    BY <1>4, <1>5 DEF TRAP_INST_ILL
  <2> QED
    BY <1>1, <1>3, <1>5, <2>1, AfterEnd, RegStep
<1>6. ASSUME ans.s.status = "run", ans.code \in {fail, align}, ans.s.mem = rv.mem
      PROVE  Arch!Trap(ans.code, {a})
  <2>1. rv' = srv32_trap(t, ans.code, a)
    BY <1>4, <1>6
  <2> QED
    BY <1>2, <1>6, <2>1, TrapStep
<1>7. ASSUME ans.s.status = "run", ans.code = TRAP_INST_ILL, ans.s.mem = rv.mem
      PROVE  Arch!Trap(TRAP_INST_ILL, {i.code, 0})
  <2>1. rv' = srv32_trap(t, TRAP_INST_ILL, i.code) /\ TRAP_INST_ILL \in Causes
    BY <1>4, <1>7 DEF Causes
  <2> QED
    BY <1>2, <1>3, <1>7, <2>1, TrapStep
<1>8. ASSUME ans.s.status = "run", ans.code = 0
      PROVE  /\ Arch!Retire(Arch!Next4(ArchPc)) /\ rv'.mem = ans.s.mem
             /\ IF i.op = "LOAD" THEN Arch!SetReg(i.rd, ans.val) /\ rv'.regs \in [Reg -> Word]
                                 ELSE ArchRegs' = ArchRegs
  <2>1. rv' = Advance(u)
    BY <1>4, <1>8 DEF TRAP_INST_ILL
  <2>2. /\ u \in State /\ u.csr = ArchCsr /\ u.pc = ArchPc /\ u.mem = ans.s.mem /\ u.status = "run"
        /\ u.regs = IF i.op = "LOAD" THEN [ArchRegs EXCEPT ![i.rd] = ans.val] ELSE ArchRegs
    <3>1. CASE i.op = "LOAD"
      BY <1>2, <1>3, <1>8, <3>1, SetFields, SetRegs
    <3>2. CASE i.op # "LOAD"
      BY <1>2, <1>8, <3>2
    <3> QED
      BY <3>1, <3>2
  <2> HIDE DEF u
  <2>3. rv' \in State /\ Keeps(rv', u) /\ rv'.csr = ArchCsr /\ rv'.pc = Next4(ArchPc)
    BY <2>1, <2>2, AdvanceFields, AdvanceType
  <2>4. Arch!Retire(Arch!Next4(ArchPc))
    BY <1>3, <2>2, <2>3, RetireStep, ArchWords DEF Keeps
  <2>5. rv'.regs = u.regs /\ rv'.mem = ans.s.mem /\ rv'.regs \in [Reg -> Word]
    BY <2>2, <2>3, StateFields DEF Keeps
  <2>6. CASE i.op = "LOAD"
    <3>1. rv'.regs = [Ran.regs EXCEPT ![i.rd] = ans.val]
      BY <1>3, <2>2, <2>5, <2>6
    <3>2. Arch!SetReg(i.rd, ans.val)
      BY <1>3, <3>1, RegStep
    <3> QED
      BY <2>4, <2>5, <2>6, <3>2
  <2>7. CASE i.op # "LOAD"
    BY <1>3, <2>2, <2>4, <2>5, <2>7, RegStep
  <2> QED
    BY <2>6, <2>7
<1> QED
  BY <1>5, <1>6, <1>7, <1>8

LEMMA ArchSize == \A f \in MemFn : Arch!Size(f) = Size(f)
BY DEF Arch!Size, Size, MemFn, LoadFn, StoreFn

\* An aligned access that is not in memory is above it.
LEMMA Above ==
  ASSUME NEW a \in Word, NEW f \in MemFn, a % Size(f) = 0, ~InMem(a, Size(f)) PROVE ~InRam(a)
<1>1. a \in Nat /\ Size(f) \in {1, 2, 4} /\ MemEnd \in Nat /\ MemEnd % 4 = 0
  BY Sizes, MemBounds, WordModNat DEF Word
<1> QED
  BY <1>1 DEF InRam, InData, InMem

LEMMA Below ==
  ASSUME NEW a \in Word, NEW f \in MemFn, InMem(a, Size(f)) PROVE InRam(a) <=> ~(a < TextEnd)
<1>1. a \in Nat /\ Size(f) \in {1, 2, 4} /\ MemEnd \in Nat /\ TextEnd \in Nat
  BY Sizes, MemBounds, WordModNat DEF Word
<1> QED
  BY <1>1 DEF InRam, InData, InMem

LEMMA RegsOf ==
  ASSUME Run, NEW v, Arch!SetReg(Current.rd, v), rv'.regs \in [Reg -> Word]
  PROVE  /\ ArchRegs' \in [Reg -> Word]
         /\ \A r \in Reg : ArchRegs'[r] # ArchRegs[r] => r = Current.rd /\ r # 0
<1>1. ArchRegs \in [Reg -> Word] /\ Current.rd \in Reg /\ 0 \in Word
  BY RunFacts, Operands, SmallWord DEF Fields
<1>2. ArchRegs' \in [Reg -> Word]
  BY <1>1, After
<1> QED
  BY <1>1, <1>2 DEF Arch!SetReg

LEMMA LoadStep ==
  ASSUME WordFunctions(Word), OrAddsSign, Run, Current.op = "LOAD" PROVE Arch!Step(Current)
<1> DEFINE i == Current
           f == i.f
           a == Plus(Ran.regs[i.rs1], i.imm)
           devs == DeviceAt(a, MmioName \ {"TOHOST"})
<1>1. /\ Ran \in State /\ Ran.pc = ArchPc /\ Ran.csr = ArchCsr /\ Ran.mem = rv.mem
      /\ Ran.prev_pc = ArchPc /\ Ran.regs = ArchRegs /\ Ran.status = "run" /\ IsInsn(i)
      /\ rv' \in Execute(Ran, i) /\ TypeOK
  BY RunFacts DEF Run
<1>2. Arch!Addr(i) = a /\ a \in Word /\ i.rd \in Reg
  BY Operands DEF Fields
<1>3. Untouched(Ran)
  BY <1>1 DEF Untouched
<1>4. rv' \in Load(Ran, i)
  BY <1>1 DEF Execute
<1>5. PICK ans \in LoadAnswers(Ran, f, a) : rv' = Answered(ans, i, a, TRAP_LD_FAIL, TRAP_LD_ALIGN)
  BY <1>4 DEF Load
<1>6. f \in LoadFn \cup {"bad"}
  BY <1>1, Kinds
<1> HIDE DEF a
<1>7. ans \in Answers
  BY <1>1, <1>2, <1>5, <1>6, LoadAnswersType
<1>8. ans.val \in Word
  BY <1>7 DEF Answers
<1>9. /\ TRAP_LD_FAIL \in Causes \ {0} /\ TRAP_LD_ALIGN \in Causes \ {0}
      /\ TRAP_INST_ILL \notin {TRAP_LD_FAIL, TRAP_LD_ALIGN}
  BY DEF Causes, TRAP_LD_FAIL, TRAP_LD_ALIGN, TRAP_INST_ILL
<1>10. ASSUME NEW code, NEW s, NEW v, ans = Answer(code, s, v)
       PROVE  ans.code = code /\ ans.s = s /\ ans.val = v
  BY <1>10 DEF Answer
<1>11. CASE f = "bad"
  <2>1. ans = Answer(TRAP_INST_ILL, Ran, 0)
    BY <1>5, <1>11 DEF LoadAnswers
  <2>2. ans.code = TRAP_INST_ILL /\ ans.s = Ran
    BY <1>10, <2>1
  <2>3. Arch!Trap(TRAP_INST_ILL, {i.code, 0})
    BY <1>1, <1>2, <1>3, <1>5, <1>8, <1>9, <2>2, AnsweredStep
  <2> QED
    BY <1>11, <2>3, ArchCauses DEF Arch!Step, Arch!Excepts, Arch!Except, Arch!Illegal
<1>12. CASE f # "bad"
  <2>1. f \in LoadFn /\ f \in MemFn /\ Arch!Size(f) = Size(f)
    BY <1>6, <1>12, ArchSize DEF MemFn
  <2>2. ~Arch!Illegal(i) /\ ~Arch!TargetMisaligned(i) /\ (Arch!AddrMisaligned(i) <=> a % Size(f) # 0)
    BY <1>2, <1>12, <2>1 DEF Arch!Illegal, Arch!TargetMisaligned, Arch!AddrMisaligned
  <2>3. CASE a % Size(f) # 0
    <3>1. ans = Answer(TRAP_LD_ALIGN, Ran, 0)
      BY <1>5, <1>12, <2>3 DEF LoadAnswers
    <3>2. ans.code = TRAP_LD_ALIGN /\ ans.s = Ran
      BY <1>10, <3>1
    <3>3. Arch!Trap(TRAP_LD_ALIGN, {a})
      BY <1>1, <1>2, <1>3, <1>5, <1>8, <1>9, <3>2, AnsweredStep
    <3> QED
      BY <1>2, <2>2, <2>3, <3>3, ArchCauses DEF Arch!Step, Arch!Excepts, Arch!Except
  <2>4. CASE a % Size(f) = 0
    <3>1. ~Arch!Excepts(i)
      BY <2>2, <2>4 DEF Arch!Excepts
    <3>2. ASSUME ans.code = 0, ans.s = Ran
          PROVE  /\ Arch!SetReg(i.rd, ans.val) /\ rv'.regs \in [Reg -> Word] /\ rv'.mem = rv.mem
                 /\ Arch!Retire(Arch!Next4(ArchPc))
      BY <1>1, <1>2, <1>3, <1>5, <1>8, <1>9, <3>2, AnsweredStep
    <3>3. ASSUME ans.code = 0, ans.s = Ran, ~InRam(a) PROVE Arch!Device(i)
      <4>1. /\ ArchRegs' \in [Reg -> Word]
            /\ \A r \in Reg : ArchRegs'[r] # ArchRegs[r] => r = i.rd /\ r # 0
        BY <3>2, <3>3, RegsOf
      <4> QED
        BY <1>2, <3>2, <3>3, <4>1, ArchSets, ArchWords DEF Arch!Device
    <3>4. CASE InMem(a, Size(f))
      <4> DEFINE v == Extended(f, srv32_read_mem(Ran, f, a))
      <4>1. ans = Answer(0, Ran, v)
        BY <1>5, <1>12, <2>4, <3>4 DEF LoadAnswers
      <4>2. ans.code = 0 /\ ans.s = Ran /\ ans.val = v
        BY <1>10, <4>1
      <4>3. CASE a < TextEnd
        <5>1. Arch!Device(i)
          BY <1>2, <2>1, <3>3, <3>4, <4>2, <4>3, Below
        <5> QED
          BY <3>1, <5>1 DEF Arch!Step
      <4>4. CASE ~(a < TextEnd)
        <5>1. v = Arch!Loaded(f, a)
          BY <1>1, <1>2, <2>1, <2>4, <3>4, <4>4, LoadValue
        <5> HIDE DEF v
        <5>2. InRam(a)
          BY <1>2, <2>1, <3>4, <4>4, Below
        <5>3. Arch!Load(i)
          BY <1>2, <3>2, <4>2, <5>1, <5>2 DEF Arch!Load
        <5> QED
          BY <3>1, <5>3 DEF Arch!Step
      <4> QED
        BY <4>3, <4>4
    <3>5. CASE ~InMem(a, Size(f)) /\ devs # {}
      <4>1. ~InRam(a)
        BY <1>2, <2>1, <2>4, <3>5, Above
      <4>2. ans \in {Answer(0, Ran, Extended(f, v)) : v \in UNION {ReadDevice(Ran, n) : n \in devs}}
        BY <1>5, <1>12, <2>4, <3>5 DEF LoadAnswers
      <4>3. PICK v : ans = Answer(0, Ran, v)
        BY <4>2
      <4>4. Arch!Device(i)
        BY <1>10, <3>3, <4>1, <4>3
      <4> QED
        BY <3>1, <4>4 DEF Arch!Step
    <3>6. CASE ~InMem(a, Size(f)) /\ devs = {}
      <4>1. ~InRam(a)
        BY <1>2, <2>1, <2>4, <3>6, Above
      <4>2. ans \in Unanswered(Ran, TRAP_LD_FAIL, a, Size(f), 0)
        BY <1>5, <1>12, <2>4, <3>6 DEF LoadAnswers
      <4>3. ans = Answer(TRAP_LD_FAIL, Ran, 0) \/ ans = Answer(0, Crashed(Ran), 0)
        BY <4>2 DEF Unanswered
      <4>4. CASE ans = Answer(TRAP_LD_FAIL, Ran, 0)
        <5>0. ans.code = TRAP_LD_FAIL /\ ans.s = Ran
          BY <1>10, <4>4
        <5>1. Arch!Trap(TRAP_LD_FAIL, {a})
          BY <1>1, <1>2, <1>3, <1>5, <1>8, <1>9, <5>0, AnsweredStep
        <5>2. Arch!Device(i)
          BY <1>2, <4>1, <5>1, ArchCauses DEF Arch!Device
        <5> QED
          BY <3>1, <5>2 DEF Arch!Step
      <4>5. CASE ans = Answer(0, Crashed(Ran), 0)
        <5> DEFINE s == Crashed(Ran)
        <5>1. s \in State
          BY <1>1, CrashedType
        <5>2. /\ s.regs = Ran.regs /\ s.csr = Ran.csr /\ s.pc = Ran.pc /\ s.prev_pc = Ran.prev_pc
              /\ s.mem = Ran.mem /\ s.status = "crash"
          BY <1>1 DEF Crashed, State
        <5>3. Untouched(s) /\ s.status # "run" /\ s.mem = rv.mem
          BY <1>1, <5>1, <5>2 DEF Untouched
        <5>4. ans.s = s /\ ans.code = 0
          BY <1>10, <4>5
        <5> HIDE DEF s
        <5>5. ArchPc' = ArchPc /\ ArchCsr' = ArchCsr /\ ArchRegs' = ArchRegs /\ Ended' /\ rv'.mem = rv.mem
          BY <1>2, <1>5, <1>8, <1>9, <5>3, <5>4, AnsweredStep
        <5>6. Arch!Device(i)
          BY <1>2, <4>1, <5>5, After DEF Arch!Device
        <5> QED
          BY <3>1, <5>6 DEF Arch!Step
      <4> QED
        BY <4>3, <4>4, <4>5
    <3> QED
      BY <3>4, <3>5, <3>6
  <2> QED
    BY <2>3, <2>4
<1> QED
  BY <1>11, <1>12

\* A device or the host leaves the program's machine alone, but may end the run.
LEMMA TohostFields ==
  ASSUME NEW s \in State, NEW p, NEW t \in srv32_tohost(s, p)
  PROVE  /\ t.regs = s.regs /\ t.csr = s.csr /\ t.pc = s.pc /\ t.prev_pc = s.prev_pc
         /\ t.mem = s.mem /\ t.instret = s.instret
<1> DEFINE n == IntAt(s, p)
           Alike(u) == /\ u.regs = s.regs /\ u.csr = s.csr /\ u.pc = s.pc /\ u.prev_pc = s.prev_pc
                       /\ u.mem = s.mem /\ u.instret = s.instret
<1>1. \A r, c : /\ Alike(s) /\ Alike(Crashed(s)) /\ Alike([s EXCEPT !.result = r])
                /\ Alike(Exited(s, c)) /\ Alike(Exited([s EXCEPT !.result = r], c))
  BY DEF State, Crashed, Exited
<1>2. CASE ~InMem(p, 4)
  BY <1>1, <1>2 DEF srv32_tohost
<1>3. CASE InMem(p, 4)
  <2>1. srv32_tohost(s, p)
          = CASE n = SYS_EXIT   -> {Exited([s EXCEPT !.result = 0], s.exitcode)}
              [] n \in HostCall -> {[s EXCEPT !.result = r] : r \in HostResults}
              [] n \in Dumps    -> {[s EXCEPT !.result = 0], Exited(s, 1)}
              [] OTHER          -> {s}
    BY <1>3 DEF srv32_tohost
  <2> HIDE DEF n, Alike
  <2>2. CASE n = SYS_EXIT
    <3>1. t = Exited([s EXCEPT !.result = 0], s.exitcode)
      BY <2>1, <2>2 DEF SYS_EXIT, HostCall, Dumps
    <3> QED
      BY <1>1, <3>1 DEF Alike
  <2>3. CASE n \in HostCall
    <3>1. t \in {[s EXCEPT !.result = r] : r \in HostResults}
      BY <2>1, <2>3 DEF SYS_EXIT, HostCall, Dumps
    <3>2. PICK r \in HostResults : t = [s EXCEPT !.result = r]
      BY <3>1
    <3> QED
      BY <1>1, <3>2 DEF Alike
  <2>4. CASE n \in Dumps
    <3>1. t = [s EXCEPT !.result = 0] \/ t = Exited(s, 1)
      BY <2>1, <2>4 DEF SYS_EXIT, HostCall, Dumps
    <3>2. Alike([s EXCEPT !.result = 0]) /\ Alike(Exited(s, 1))
      BY <1>1
    <3>3. Alike(t)
      BY <3>1, <3>2
    <3> QED
      BY <3>3 DEF Alike
  <2>5. CASE n # SYS_EXIT /\ n \notin HostCall /\ n \notin Dumps
    BY <2>1, <2>5
  <2> QED
    BY <2>2, <2>3, <2>4, <2>5
<1> QED
  BY <1>2, <1>3

LEMMA WriteDeviceFields ==
  ASSUME NEW s \in State, NEW n, NEW f, NEW v, NEW ans \in WriteDevice(s, n, f, v)
  PROVE  /\ ans.s.regs = s.regs /\ ans.s.csr = s.csr /\ ans.s.pc = s.pc
         /\ ans.s.prev_pc = s.prev_pc /\ ans.s.mem = s.mem /\ ans.s.instret = s.instret
         /\ n # "EXIT" => ans.code = 0
         /\ n = "EXIT" => ans.s.status = s.status /\ ans.code = RV_EXIT
<1> DEFINE Alike(u) == /\ u.regs = s.regs /\ u.csr = s.csr /\ u.pc = s.pc /\ u.prev_pc = s.prev_pc
                       /\ u.mem = s.mem /\ u.instret = s.instret
           tl == Count(WithLo(s.mtime, Masked(f, Lo(s.mtime), v)) - 1)
           th == Count(WithHi(s.mtime, Masked(f, Hi(s.mtime), v)) - 1)
           cl == WithLo(s.mtimecmp, Masked(f, Lo(s.mtimecmp), v))
           ch == WithHi(s.mtimecmp, Masked(f, Hi(s.mtimecmp), v))
           mp == Masked(f, s.msip, v)
           s0 == [s EXCEPT !.exitcode = v]
           s1 == [s EXCEPT !.mtime = tl, !.mtime_update = TRUE]
           s2 == [s EXCEPT !.mtime = th, !.mtime_update = TRUE]
           s3 == [s EXCEPT !.mtimecmp = cl]
           s4 == [s EXCEPT !.mtimecmp = ch]
           s5 == [s EXCEPT !.msip = mp]
<1>1. WriteDevice(s, n, f, v) =
        CASE n = "EXIT"      -> {Answer(RV_EXIT, s0, v)}
          [] n = "TOHOST"    -> {Answer(0, t, v) : t \in srv32_tohost(s, v)}
          [] n = "MTIME"     -> {Answer(0, s1, v)}
          [] n = "MTIMEH"    -> {Answer(0, s2, v)}
          [] n = "MTIMECMP"  -> {Answer(0, s3, v)}
          [] n = "MTIMECMPH" -> {Answer(0, s4, v)}
          [] n = "MSIP"      -> {Answer(0, s5, v)}
          [] OTHER           -> {Answer(0, s, v)}
  BY DEF WriteDevice
<1> HIDE DEF tl, th, cl, ch, mp
<1>2. /\ Alike(s0) /\ Alike(s1) /\ Alike(s2) /\ Alike(s3) /\ Alike(s4) /\ Alike(s5) /\ Alike(s)
      /\ s0.status = s.status
  BY DEF State
<1> HIDE DEF s0, s1, s2, s3, s4, s5
<1>3. CASE n = "EXIT"
  <2>1. ans = Answer(RV_EXIT, s0, v)
    BY <1>1, <1>3
  <2> QED
    BY <1>2, <1>3, <2>1 DEF Answer
<1>4. CASE n = "TOHOST"
  <2>1. PICK t \in srv32_tohost(s, v) : ans = Answer(0, t, v)
    BY <1>1, <1>4
  <2> QED
    BY <1>4, <2>1, TohostFields DEF Answer
<1>5. CASE n \notin {"EXIT", "TOHOST"}
  <2>1. PICK t \in {s, s1, s2, s3, s4, s5} : ans = Answer(0, t, v)
    BY <1>1, <1>5
  <2> QED
    BY <1>2, <1>5, <2>1 DEF Answer
<1> QED
  BY <1>3, <1>4, <1>5

LEMMA StoreStep ==
  ASSUME WordFunctions(Word), Run, Current.op = "STORE" PROVE Arch!Step(Current)
<1> DEFINE i == Current
           f == i.f
           a == Plus(Ran.regs[i.rs1], i.imm)
           v == Ran.regs[i.rs2]
           devs == DeviceAt(a, MmioName \ {"FROMHOST"})
<1>1. /\ Ran \in State /\ Ran.pc = ArchPc /\ Ran.csr = ArchCsr /\ Ran.mem = rv.mem
      /\ Ran.prev_pc = ArchPc /\ Ran.regs = ArchRegs /\ Ran.status = "run" /\ IsInsn(i)
      /\ rv' \in Execute(Ran, i) /\ ~StoresText(Ran, i) /\ rv.status = "run"
  BY RunFacts
<1>2. /\ Arch!Addr(i) = a /\ a \in Word /\ i.rs2 \in Reg /\ v \in Word /\ Arch!Val(i.rs2) = v
  BY Operands DEF Fields
<1>3. ~(a < TextEnd)
  BY <1>1 DEF StoresText
<1>4. a # Mmio["EXIT"]
  <2>1. Ready.regs = Ran.regs
    BY <1>1, RunFacts, ReadyIs DEF Run
  <2> QED
    BY <2>1 DEF Run, Ordinary, Address
<1>5. rv' \in Store(Ran, i)
  BY <1>1 DEF Execute
<1>6. PICK ans \in StoreAnswers(Ran, f, a, v) : rv' = Answered(ans, i, a, TRAP_ST_FAIL, TRAP_ST_ALIGN)
  BY <1>5 DEF Store
<1>7. f \in StoreFn \cup {"bad"}
  BY <1>1, Kinds
<1> HIDE DEF a, v
<1>8. ans \in Answers
  BY <1>1, <1>2, <1>3, <1>6, <1>7, StoreAnswersType
<1>9. ans.val \in Word /\ ans.s \in State
  BY <1>8 DEF Answers
<1>10. /\ TRAP_ST_FAIL \in Causes \ {0} /\ TRAP_ST_ALIGN \in Causes \ {0}
       /\ TRAP_INST_ILL \notin {TRAP_ST_FAIL, TRAP_ST_ALIGN}
  BY DEF Causes, TRAP_ST_FAIL, TRAP_ST_ALIGN, TRAP_INST_ILL
<1>11. Untouched(Ran)
  BY <1>1 DEF Untouched
<1>12. ASSUME NEW code, NEW s, NEW x, ans = Answer(code, s, x)
       PROVE  ans.code = code /\ ans.s = s
  BY <1>12 DEF Answer
<1>13. CASE f = "bad"
  <2>1. ans = Answer(TRAP_INST_ILL, Ran, v)
    BY <1>6, <1>13 DEF StoreAnswers
  <2>2. ans.code = TRAP_INST_ILL /\ ans.s = Ran
    BY <1>12, <2>1
  <2>3. Arch!Trap(TRAP_INST_ILL, {i.code, 0})
    BY <1>1, <1>2, <1>6, <1>9, <1>10, <1>11, <2>2, AnsweredStep
  <2> QED
    BY <1>13, <2>3, ArchCauses DEF Arch!Step, Arch!Excepts, Arch!Except, Arch!Illegal
<1>14. CASE f # "bad"
  <2>1. f \in StoreFn /\ f \in MemFn /\ Arch!Size(f) = Size(f)
    BY <1>7, <1>14, ArchSize DEF MemFn
  <2>2. ~Arch!Illegal(i) /\ ~Arch!TargetMisaligned(i) /\ (Arch!AddrMisaligned(i) <=> a % Size(f) # 0)
    BY <1>2, <1>14, <2>1 DEF Arch!Illegal, Arch!TargetMisaligned, Arch!AddrMisaligned
  <2>3. CASE a % Size(f) # 0
    <3>1. ans = Answer(TRAP_ST_ALIGN, Ran, v)
      BY <1>6, <1>14, <2>3 DEF StoreAnswers
    <3>2. ans.code = TRAP_ST_ALIGN /\ ans.s = Ran
      BY <1>12, <3>1
    <3>3. Arch!Trap(TRAP_ST_ALIGN, {a})
      BY <1>1, <1>2, <1>6, <1>9, <1>10, <1>11, <3>2, AnsweredStep
    <3> QED
      BY <1>2, <2>2, <2>3, <3>3, ArchCauses DEF Arch!Step, Arch!Excepts, Arch!Except
  <2>4. CASE a % Size(f) = 0
    <3>1. ~Arch!Excepts(i)
      BY <2>2, <2>4 DEF Arch!Excepts
    <3>2. CASE InMem(a, Size(f))
      <4> DEFINE t == srv32_write_mem(Ran, f, a, v)
      <4>1. ans = Answer(0, t, v)
        BY <1>6, <1>14, <2>4, <3>2 DEF StoreAnswers
      <4>2. ans.code = 0 /\ ans.s = t
        BY <1>12, <4>1
      <4>3. /\ t.mem = Arch!Stored(f, a, v)
            /\ t \in State /\ t.regs = ArchRegs /\ t.csr = ArchCsr /\ t.pc = ArchPc
            /\ t.status = "run" /\ t.prev_pc = ArchPc
        BY <1>1, <1>2, <1>3, <2>1, <2>4, <3>2, StoreValue
      <4> HIDE DEF t
      <4>4. Untouched(t)
        BY <4>3 DEF Untouched
      <4>5. Arch!Retire(Arch!Next4(ArchPc)) /\ rv'.mem = t.mem /\ ArchRegs' = ArchRegs
        BY <1>2, <1>6, <1>9, <1>10, <4>2, <4>3, <4>4, AnsweredStep
      <4>6. InRam(a)
        BY <1>2, <1>3, <2>1, <3>2, Below
      <4>7. Arch!Store(i)
        BY <1>2, <4>3, <4>5, <4>6 DEF Arch!Store
      <4> QED
        BY <3>1, <4>7 DEF Arch!Step
    <3>3. CASE ~InMem(a, Size(f))
      <4>1. ~InRam(a)
        BY <1>2, <2>1, <2>4, <3>3, Above
      <4>2. ASSUME Untouched(ans.s), ans.s.mem = rv.mem, ans.code = 0 PROVE Arch!Step(i)
        <5>1. CASE ans.s.status # "run"
          <6>1. ArchPc' = ArchPc /\ ArchCsr' = ArchCsr /\ ArchRegs' = ArchRegs /\ Ended' /\ rv'.mem = rv.mem
            BY <1>2, <1>6, <1>9, <1>10, <4>2, <5>1, AnsweredStep
          <6>2. Arch!Device(i)
            BY <1>2, <4>1, <6>1, After DEF Arch!Device
          <6> QED
            BY <3>1, <6>2 DEF Arch!Step
        <5>2. CASE ans.s.status = "run"
          <6>1. Arch!Retire(Arch!Next4(ArchPc)) /\ rv'.mem = rv.mem /\ ArchRegs' = ArchRegs
            BY <1>2, <1>6, <1>9, <1>10, <4>2, <5>2, AnsweredStep
          <6>2. ArchRegs \in [Reg -> Word]
            BY RunFacts
          <6>3. Arch!Device(i)
            BY <1>2, <4>1, <6>1, <6>2, ArchSets, ArchWords DEF Arch!Device
          <6> QED
            BY <3>1, <6>3 DEF Arch!Step
        <5> QED
          BY <5>1, <5>2
      <4>3. CASE devs # {}
        <5>1. ans \in UNION {WriteDevice(Ran, n, f, v) : n \in devs}
          BY <1>6, <1>14, <2>4, <3>3, <4>3 DEF StoreAnswers
        <5>2. PICK n \in devs : ans \in WriteDevice(Ran, n, f, v)
          BY <5>1
        <5>3. n # "EXIT"
          BY <1>4, <5>2 DEF DeviceAt
        <5>4. /\ ans.s.regs = ArchRegs /\ ans.s.csr = ArchCsr /\ ans.s.pc = ArchPc
              /\ ans.s.prev_pc = ArchPc /\ ans.s.mem = rv.mem /\ ans.code = 0
          BY <1>1, <5>2, <5>3, WriteDeviceFields
        <5> QED
          BY <1>9, <4>2, <5>4 DEF Untouched
      <4>4. CASE devs = {}
        <5>1. ans \in Unanswered(Ran, TRAP_ST_FAIL, a, Size(f), v)
          BY <1>6, <1>14, <2>4, <3>3, <4>4 DEF StoreAnswers
        <5>2. ans = Answer(TRAP_ST_FAIL, Ran, v) \/ ans = Answer(0, Crashed(Ran), v)
          BY <5>1 DEF Unanswered
        <5>3. CASE ans = Answer(TRAP_ST_FAIL, Ran, v)
          <6>1. ans.code = TRAP_ST_FAIL /\ ans.s = Ran
            BY <1>12, <5>3
          <6>2. Arch!Trap(TRAP_ST_FAIL, {a})
            BY <1>1, <1>2, <1>6, <1>9, <1>10, <1>11, <6>1, AnsweredStep
          <6>3. Arch!Device(i)
            BY <1>2, <4>1, <6>2, ArchCauses DEF Arch!Device
          <6> QED
            BY <3>1, <6>3 DEF Arch!Step
        <5>4. CASE ans = Answer(0, Crashed(Ran), v)
          <6> DEFINE s == Crashed(Ran)
          <6>1. /\ s.regs = Ran.regs /\ s.csr = Ran.csr /\ s.pc = Ran.pc /\ s.prev_pc = Ran.prev_pc
                /\ s.mem = Ran.mem
            BY <1>1 DEF Crashed, State
          <6>2. ans.s = s /\ ans.code = 0
            BY <1>12, <5>4
          <6> HIDE DEF s
          <6> QED
            BY <1>1, <1>9, <4>2, <6>1, <6>2 DEF Untouched
        <5> QED
          BY <5>2, <5>3, <5>4
      <4> QED
        BY <4>3, <4>4
    <3> QED
      BY <3>2, <3>3
  <2> QED
    BY <2>3, <2>4
<1> QED
  BY <1>13, <1>14

\* Every step from a pc the architecture speaks of is one of its steps.
LEMMA RunStep ==
  ASSUME WordFunctions(Word), OrAddsSign, Run PROVE Arch!Step(Arch!Fetch(ArchPc))
<1>1. Current = Arch!Fetch(ArchPc) /\ IsInsn(Current)
  BY RunFacts
<1>2. Current.op \in Opcode
  BY <1>1, Kinds
<1>3. Current.op \in {"AUIPC", "LUI", "ARITHI", "FENCE"} => Current.f # "bad"
  BY <1>1, Kinds
<1>4. CASE Current.op \in {"AUIPC", "LUI", "ARITHI", "FENCE"}
  BY <1>1, <1>3, <1>4, ComputeStep
<1>5. CASE Current.op = "ARITHR" \/ Current.op = "BAD"
  <2>1. CASE Current.op = "ARITHR" /\ Current.f # "bad"
    BY <1>1, <2>1, ComputeStep
  <2>2. CASE ~(Current.op = "ARITHR" /\ Current.f # "bad")
    BY <1>1, <1>5, <2>2, BadStep
  <2> QED
    BY <2>1, <2>2
<1>6. CASE Current.op \in {"JAL", "JALR"}
  BY <1>1, <1>6, JumpsStep
<1>7. CASE Current.op = "BRANCH"
  BY <1>1, <1>7, BranchStep
<1>8. CASE Current.op = "LOAD"
  BY <1>1, <1>8, LoadStep
<1>9. CASE Current.op = "STORE"
  BY <1>1, <1>9, StoreStep
<1>10. CASE Current.op = "SYSTEM"
  BY <1>1, <1>10, SystemStep
<1> QED
  BY <1>2, <1>4, <1>5, <1>6, <1>7, <1>8, <1>9, <1>10 DEF Opcode

-----------------------------------------------------------------------------
(* The number of instructions: a step is one, whatever it does. *)

LEMMA UpdateInstret ==
  ASSUME NEW s \in State
  PROVE  /\ \A r, v : Set(s, r, v).instret = s.instret
         /\ \A n \in Nat : srv32_cycle_add(s, n).instret = s.instret
         /\ \A c, v : srv32_trap(s, c, v).instret = s.instret
         /\ Advance(s).instret = s.instret /\ Penalty(s).instret = s.instret
<1>1. ASSUME NEW r, NEW v PROVE Set(s, r, v).instret = s.instret
  BY DEF Set, State
<1>2. ASSUME NEW n \in Nat PROVE srv32_cycle_add(s, n).instret = s.instret
  BY CycleAddFields DEF Keeps
<1>3. ASSUME NEW c, NEW v PROVE srv32_trap(s, c, v).instret = s.instret
  <2>1. Keeps(srv32_trap(s, c, v), s)
    BY TrapFields
  <2> QED
    BY <2>1 DEF Keeps
<1>4. Advance(s).instret = s.instret /\ Penalty(s).instret = s.instret
  BY <1>2, AdvanceFields, RvsimAssumption DEF Keeps, Penalty
<1> QED
  BY <1>1, <1>2, <1>3, <1>4

LEMMA AnsweredInstret ==
  ASSUME NEW s \in State, NEW ans \in Answers, ans.s.instret = s.instret, NEW i, IsInsn(i),
         NEW a \in Word, NEW fail \in Causes, NEW align \in Causes
  PROVE  Answered(ans, i, a, fail, align).instret = s.instret
<1> DEFINE t == IF SingleRam THEN srv32_cycle_add(ans.s, 1) ELSE ans.s
           u == IF i.op = "LOAD" THEN Set(t, i.rd, ans.val) ELSE t
<1>1. ans.s \in State /\ ans.val \in Word /\ i.rd \in Reg
  BY InsnFields DEF Answers, Fields
<1>2. t \in State /\ t.instret = s.instret
  BY <1>1, CycleAddFields, CycleAddType DEF Keeps
<1>3. Answered(ans, i, a, fail, align) \in
        {ans.s, srv32_trap(t, ans.code, a), srv32_trap(t, TRAP_INST_ILL, i.code), Advance(u)}
  BY DEF Answered
<1> HIDE DEF t
<1>4. u \in State /\ u.instret = s.instret
  BY <1>1, <1>2, UpdateInstret, SetRegs
<1> HIDE DEF u
<1>5. \A c, v : srv32_trap(t, c, v).instret = s.instret
  BY <1>2, UpdateInstret
<1>6. Advance(u).instret = s.instret
  BY <1>4, AdvanceFields DEF Keeps
<1> QED
  BY <1>3, <1>5, <1>6

LEMMA MemInstret ==
  ASSUME WordFunctions(Word), TypeOK, NEW s \in State, NEW i, IsInsn(i), i.op \in {"LOAD", "STORE"},
         ~StoresText(s, i), NEW u \in Execute(s, i)
  PROVE  u.instret = s.instret
<1> DEFINE a == Plus(s.regs[i.rs1], i.imm)
           v == s.regs[i.rs2]
<1>1. a \in Word /\ v \in Word
  BY StateFields, InsnFields, PlusWord DEF Fields
<1>2. Crashed(s).instret = s.instret
  BY DEF Crashed, State
<1>3. \A c, t, x : Answer(c, t, x).s = t
  BY DEF Answer
<1>4. CASE i.op = "LOAD"
  <2>1. i.f \in LoadFn \cup {"bad"}
    BY <1>4, Kinds
  <2>2. u \in Load(s, i)
    BY <1>4 DEF Execute
  <2>3. PICK ans \in LoadAnswers(s, i.f, a) : u = Answered(ans, i, a, TRAP_LD_FAIL, TRAP_LD_ALIGN)
    BY <2>2 DEF Load
  <2> HIDE DEF a
  <2>4. ans \in Answers
    BY <1>1, <2>1, <2>3, LoadAnswersType
  <2>5. ans.s = s \/ ans.s = Crashed(s)
    <3> DEFINE devs == DeviceAt(a, MmioName \ {"TOHOST"})
               vs == UNION {ReadDevice(s, n) : n \in devs}
    <3>1. \/ \E c, x : ans = Answer(c, s, x)
          \/ ans \in {Answer(0, s, Extended(i.f, x)) : x \in vs}
          \/ ans \in Unanswered(s, TRAP_LD_FAIL, a, Size(i.f), 0)
      <4>1. CASE i.f = "bad"
        BY <2>3, <4>1 DEF LoadAnswers
      <4>2. CASE i.f # "bad" /\ a % Size(i.f) # 0
        BY <2>3, <4>2 DEF LoadAnswers
      <4>3. CASE i.f # "bad" /\ a % Size(i.f) = 0 /\ InMem(a, Size(i.f))
        BY <2>3, <4>3 DEF LoadAnswers
      <4>4. CASE i.f # "bad" /\ a % Size(i.f) = 0 /\ ~InMem(a, Size(i.f)) /\ devs # {}
        BY <2>3, <4>4 DEF LoadAnswers
      <4>5. CASE i.f # "bad" /\ a % Size(i.f) = 0 /\ ~InMem(a, Size(i.f)) /\ devs = {}
        BY <2>3, <4>5 DEF LoadAnswers
      <4> QED
        BY <4>1, <4>2, <4>3, <4>4, <4>5
    <3> HIDE DEF vs
    <3> QED
      BY <1>3, <3>1 DEF Unanswered
  <2> QED
    BY <1>1, <1>2, <2>3, <2>4, <2>5, AnsweredInstret DEF Causes
<1>5. CASE i.op = "STORE"
  <2>1. i.f \in StoreFn \cup {"bad"} /\ ~(a < TextEnd)
    BY <1>5, Kinds DEF StoresText
  <2>2. u \in Store(s, i)
    BY <1>5 DEF Execute
  <2>3. PICK ans \in StoreAnswers(s, i.f, a, v) : u = Answered(ans, i, a, TRAP_ST_FAIL, TRAP_ST_ALIGN)
    BY <2>2 DEF Store
  <2> HIDE DEF a, v
  <2>4. ans \in Answers
    BY <1>1, <2>1, <2>3, StoreAnswersType
  <2>5. ans.s.instret = s.instret
    <3> DEFINE devs == DeviceAt(a, MmioName \ {"FROMHOST"})
    <3>1. CASE i.f = "bad"
      BY <1>3, <2>3, <3>1 DEF StoreAnswers
    <3>2. CASE i.f # "bad" /\ a % Size(i.f) # 0
      BY <1>3, <2>3, <3>2 DEF StoreAnswers
    <3>3. CASE i.f # "bad" /\ a % Size(i.f) = 0 /\ InMem(a, Size(i.f))
      <4>1. ans = Answer(0, srv32_write_mem(s, i.f, a, v), v)
        BY <2>3, <3>3 DEF StoreAnswers
      <4>2. srv32_write_mem(s, i.f, a, v).instret = s.instret
        BY DEF srv32_write_mem, State
      <4> QED
        BY <1>3, <4>1, <4>2
    <3>4. CASE i.f # "bad" /\ a % Size(i.f) = 0 /\ ~InMem(a, Size(i.f)) /\ devs # {}
      <4>1. ans \in UNION {WriteDevice(s, n, i.f, v) : n \in devs}
        BY <2>3, <3>4 DEF StoreAnswers
      <4>2. PICK n \in devs : ans \in WriteDevice(s, n, i.f, v)
        BY <4>1
      <4> QED
        BY <4>2, WriteDeviceFields
    <3>5. CASE i.f # "bad" /\ a % Size(i.f) = 0 /\ ~InMem(a, Size(i.f)) /\ devs = {}
      <4>1. ans \in Unanswered(s, TRAP_ST_FAIL, a, Size(i.f), v)
        BY <2>3, <3>5 DEF StoreAnswers
      <4> QED
        BY <1>2, <1>3, <4>1 DEF Unanswered
    <3> QED
      BY <3>1, <3>2, <3>3, <3>4, <3>5
  <2> QED
    BY <1>1, <2>3, <2>4, <2>5, AnsweredInstret DEF Causes
<1> QED
  BY <1>4, <1>5

LEMMA IllegalInstret ==
  ASSUME NEW s \in State, NEW v, NEW u \in Illegal(s, v) PROVE u.instret = s.instret
BY UpdateInstret DEF Illegal

LEMMA SystemInstret ==
  ASSUME WordFunctions(Word), NEW s \in State, NEW i, IsInsn(i), i.op = "SYSTEM", NEW u \in System(s, i)
  PROVE  u.instret = s.instret
<1>1. i.rd \in Reg /\ i.imm \in Nat /\ i.f \in CsrFn \cup {"PRIV", "bad"}
  BY InsnFields, Kinds, WordModNat DEF Fields, Word
<1>2. \A c, v : srv32_trap(s, c, v).instret = s.instret
  BY UpdateInstret
<1>3. CASE i.f = "bad"
  BY <1>3, IllegalInstret DEF System
<1>4. CASE i.f = "PRIV"
  <2>1. i.imm % 4 = 0 \/ i.imm % 4 = 1 \/ i.imm % 4 = 2 \/ i.imm % 4 = 3
    BY <1>1
  <2>2. CASE i.imm % 4 = 0
    <3>1. u \in {IF t.status = "run" THEN srv32_trap(t, TRAP_ECALL, 0) ELSE t : t \in srv32_syscall(s)}
      BY <1>4, <2>2 DEF System
    <3>2. PICK t \in srv32_syscall(s) : u = IF t.status = "run" THEN srv32_trap(t, TRAP_ECALL, 0) ELSE t
      BY <3>1
    <3>3. t \in State
      BY SyscallType
    <3>4. t.instret = s.instret
      <4> DEFINE returns(r) == IF r = WordMod - 1 THEN s ELSE Set(s, A0, r)
      <4>1. \A r : returns(r).instret = s.instret
        BY UpdateInstret
      <4>2. \A c : Exited(s, c).instret = s.instret
        BY DEF Exited, State
      <4>3. srv32_syscall(s) =
              CASE s.regs[SYS] = SYS_EXIT   -> {Exited(s, s.exitcode)}
                [] s.regs[SYS] \in HostCall -> {returns(r) : r \in HostResults}
                [] s.regs[SYS] \in Dumps    -> {returns(s.regs[A0 + 1]), Exited(s, 1)}
                [] OTHER                    -> {s}
        BY DEF srv32_syscall
      <4> HIDE DEF returns
      <4>4. \/ t \in {Exited(s, s.exitcode)} \/ t \in {returns(r) : r \in HostResults}
            \/ t \in {returns(s.regs[A0 + 1]), Exited(s, 1)} \/ t \in {s}
        BY <4>3
      <4> QED
        BY <4>1, <4>2, <4>4
    <3> QED
      BY <3>2, <3>3, <3>4, UpdateInstret
  <2>3. CASE i.imm % 4 = 1
    BY <1>2, <1>4, <2>3 DEF System
  <2>4. CASE i.imm % 4 = 2
    <3> DEFINE m == CopyBit(s.csr["mstatus"], MIE, MPIE)
               c == [s.csr EXCEPT !["mstatus"] = m]
               t == [s EXCEPT !.pc = s.csr["mepc"], !.csr = c]
    <3>1. s.csr \in [CsrReg -> Word] /\ s.csr["mstatus"] \in Word /\ s.csr["mepc"] \in Word
      BY StateFields DEF CsrReg
    <3>2. m \in Word
      BY <3>1, CopyBitWord DEF MIE, MPIE, StatusBit
    <3>3. t = [s EXCEPT !.pc = s.csr["mepc"], !.csr["mstatus"] = CopyBit(@, MIE, MPIE)]
      <4>1. c = [s.csr EXCEPT !["mstatus"] = CopyBit(@, MIE, MPIE)]
        BY <3>1 DEF CsrReg
      <4> QED
        BY <4>1
    <3> HIDE DEF m
    <3>4. c \in [CsrReg -> Word]
      BY <3>1, <3>2
    <3> HIDE DEF c
    <3>5. t \in State /\ t.instret = s.instret
      BY <3>1, <3>4 DEF State
    <3> HIDE DEF t
    <3>6. u = Return(s)
      BY <1>4, <2>4 DEF System
    <3>7. u = t \/ u = Penalty(t)
      BY <3>3, <3>6 DEF Return
    <3> QED
      BY <3>5, <3>7, CycleAddFields, RvsimAssumption DEF Penalty, Keeps
  <2>5. CASE i.imm % 4 = 3
    BY <1>4, <2>5, IllegalInstret DEF System
  <2> QED
    BY <2>1, <2>2, <2>3, <2>4, <2>5
<1>5. CASE i.f \in CsrFn
  <2> DEFINE old == CsrValue(s, i.csr)
             val == IF i.f \in {"CSRRWI", "CSRRSI", "CSRRCI"} THEN i.rs1 ELSE s.regs[i.rs1]
             update == i.f \in {"CSRRW", "CSRRWI"} \/ i.rs1 # 0
             new == CASE i.f \in {"CSRRW", "CSRRWI"} -> val
                      [] i.f \in {"CSRRS", "CSRRSI"} -> BitOr(old, val)
                      [] i.f \in {"CSRRC", "CSRRCI"} -> BitAnd(old, BitNot(val))
             t == IF update /\ i.csr \in CsrReg THEN [s EXCEPT !.csr[i.csr] = new] ELSE s
  <2>1. u \in csr_rw(s, i)
    BY <1>5 DEF System, CsrFn
  <2>2. CASE i.csr = "other"
    BY <2>1, <2>2, IllegalInstret DEF csr_rw
  <2>3. CASE i.csr # "other"
    <3>1. u = Advance(Set(t, i.rd, old))
      BY <2>1, <2>3 DEF csr_rw
    <3>2. old \in Word /\ val \in Word
      BY <1>1, CsrValueType, StateFields, InsnFields, RegWord DEF Fields
    <3>3. new \in Word
      BY <1>5, <3>2, BitNotWord DEF WordFunctions, CsrFn
    <3> HIDE DEF new, old
    <3>4. [s.csr EXCEPT ![i.csr] = new] \in [CsrReg -> Word]
      BY <3>3, StateFields
    <3> DEFINE g == [s.csr EXCEPT ![i.csr] = new]
    <3>5. t = IF update /\ i.csr \in CsrReg THEN [s EXCEPT !.csr = g] ELSE s
      OBVIOUS
    <3> HIDE DEF g, t
    <3>6. t \in State /\ t.instret = s.instret
      BY <3>4, <3>5 DEF State, g
    <3>7. Set(t, i.rd, old) \in State /\ Set(t, i.rd, old).instret = s.instret
      BY <3>2, <3>6, UpdateInstret, SetRegs
    <3> QED
      BY <3>1, <3>7, AdvanceFields DEF Keeps
  <2> QED
    BY <2>2, <2>3
<1> QED
  BY <1>1, <1>3, <1>4, <1>5

LEMMA ExecuteInstret ==
  ASSUME WordFunctions(Word), TypeOK, NEW s \in State, NEW i, IsInsn(i), ~StoresText(s, i),
         NEW u \in Execute(s, i)
  PROVE  u.instret = s.instret
<1>1. i.op \in Opcode /\ i.rd \in Reg /\ i.imm \in Word /\ s.pc \in Word /\ s.regs[i.rs1] \in Word
  BY Kinds, InsnFields, StateFields DEF Fields
<1>2. ASSUME NEW t \in State PROVE Penalty(t).instret = t.instret
  BY CycleAddFields, RvsimAssumption DEF Penalty, Keeps
<1>3. ASSUME NEW v, NEW r \in Reg PROVE Set(s, r, v).instret = s.instret
  BY SetFields
<1>4. CASE i.op \in {"AUIPC", "LUI", "ARITHI"} \/ (i.op = "ARITHR" /\ i.f # "bad")
  <2> DEFINE t == Set(s, i.rd, Value(s, i))
  <2>1. u = Advance(t)
    BY <1>4 DEF Execute
  <2>2. t \in State /\ t.instret = s.instret
    BY <1>1, <1>3, <1>4, ValueType, SetRegs
  <2> HIDE DEF t
  <2> QED
    BY <2>1, <2>2, AdvanceFields DEF Keeps
<1>5. CASE i.op \in {"JAL", "JALR"}
  <2>1. PICK target \in Word, self \in BOOLEAN : u = Jump(s, i, target, self)
    <3>1. Plus(s.pc, i.imm) \in Word /\ Plus(s.regs[i.rs1], i.imm) \in Word
      BY <1>1, PlusWord
    <3> QED
      BY <1>5, <3>1 DEF Execute
  <2> DEFINE t1 == [s EXCEPT !.pc = target]
             t2 == [s EXCEPT !.pc = Even(target)]
             t3 == Set(t2, i.rd, Next4(s.pc))
  <2>2. u \in {Exited(t1, 1), t2, Penalty(t3)}
    BY <2>1 DEF Jump
  <2>3. t1 \in State /\ t2 \in State /\ t1.instret = s.instret /\ t2.instret = s.instret
    BY EvenWord, SetPc, PcFields DEF Keeps
  <2> HIDE DEF t1, t2
  <2>4. t3 \in State /\ t3.instret = s.instret
    BY <1>1, <2>3, UpdateInstret, SetRegs, Next4Word
  <2> HIDE DEF t3
  <2>5. Exited(t1, 1).instret = s.instret
    BY <2>3 DEF Exited, State
  <2> QED
    BY <1>2, <2>2, <2>3, <2>4, <2>5
<1>6. CASE i.op = "BRANCH"
  <2> DEFINE target == Plus(s.pc, i.imm)
             t == [s EXCEPT !.pc = target]
  <2>1. target \in Word
    BY <1>1, PlusWord
  <2>2. u \in Illegal(s, i.code) \/ u = t \/ u = Penalty(t) \/ u = Advance(s)
    BY <1>6 DEF Execute, Branch
  <2> HIDE DEF target
  <2>3. t \in State /\ t.instret = s.instret
    BY <2>1, SetPc, PcFields DEF Keeps
  <2> HIDE DEF t
  <2> QED
    BY <1>2, <2>2, <2>3, IllegalInstret, AdvanceFields DEF Keeps
<1>7. CASE i.op \in {"LOAD", "STORE"}
  BY <1>7, MemInstret
<1>8. CASE i.op = "FENCE"
  BY <1>8, AdvanceFields DEF Execute, Keeps
<1>9. CASE i.op = "SYSTEM"
  BY <1>9, SystemInstret DEF Execute
<1>10. CASE i.op = "BAD" \/ (i.op = "ARITHR" /\ i.f = "bad")
  <2>1. u \in Illegal(s, i.code)
    BY <1>10 DEF Execute
  <2> QED
    BY <2>1, IllegalInstret
<1> QED
  BY <1>1, <1>4, <1>5, <1>6, <1>7, <1>8, <1>9, <1>10 DEF Opcode

LEMMA StepInstret ==
  ASSUME WordFunctions(Word), TypeOK, Step PROVE rv'.instret = Count(rv.instret + 1)
<1> DEFINE s == Start(rv)
           u == InterruptedBy(irq, s)
           w == InRange(u)
<1>1. s \in State /\ s.instret = rv.instret
  BY StartFields DEF TypeOK
<1> HIDE DEF s
<1>2. Same(s, s)
  BY DEF Same
<1>3. u \in State /\ u.instret = rv.instret
  BY <1>1, <1>2, InterruptedSame DEF Keeps
<1>4. Ready = Aligned(w)
  BY SettledIs DEF Ready, s
<1> HIDE DEF u
<1>5. \A x \in State : /\ srv32_trap(x, TRAP_INST_FAIL, x.pc) \in State
                       /\ srv32_trap(x, TRAP_INST_ALIGN, x.pc).instret = x.instret
                       /\ srv32_trap(x, TRAP_INST_FAIL, x.pc).instret = x.instret
  BY TrapType, StateFields, UpdateInstret DEF Causes
<1>6. w \in State /\ w.instret = rv.instret
  BY <1>3, <1>5 DEF InRange
<1> HIDE DEF w
<1>7. Ready.instret = rv.instret
  BY <1>4, <1>5, <1>6 DEF Aligned
<1>8. Ready \in State
  BY ReadyType DEF TypeOK, Ready
<1>9. Ran \in State /\ Ran.instret = Count(rv.instret + 1) /\ Ran.regs = Ready.regs
  BY <1>7, <1>8, CountedFields DEF Ran
<1>10. rv' \in Execute(Ran, Current) /\ ~StoresText(Ready, Current)
  BY DEF Step, Ready, Current, Ran
<1>11. ~StoresText(Ran, Current) /\ IsInsn(Current)
  BY <1>9, <1>10, TextInsn DEF StoresText, Current
<1> QED
  BY <1>9, <1>10, <1>11, ExecuteInstret

LEMMA IsaStep ==
  ASSUME WordFunctions(Word), OrAddsSign, TypeOK, [Next]_vars, [Ordinary]_vars
  PROVE  [Arch!Next]_(Arch!isaVars)
<1>1. CASE UNCHANGED vars
  <2>1. irq' = irq /\ rv' = rv /\ imem' = imem
    BY <1>1 DEF vars
  <2>2. Settled' = Settled
    BY <2>1, SettledIs
  <2> QED
    BY <2>1, <2>2 DEF Arch!isaVars, ArchPc, ArchCsr, ArchRegs, Ended
<1>2. CASE Step /\ Ordinary
  <2>1. rv.status = "run" /\ imem' = imem
    BY <1>2 DEF Step
  <2>2. rv'.instret = (rv.instret + 1) % CountMod
    BY <1>2, StepInstret DEF Count
  <2>3. ASSUME ArchPc % 4 = 0, InText(ArchPc) PROVE Arch!Step(Arch!Fetch(ArchPc))
    BY <1>2, <2>3, RunStep DEF Run
  <2> QED
    BY <2>1, <2>2, <2>3 DEF Arch!Next, Ended
<1> QED
  BY <1>1, <1>2 DEF Next

LEMMA InitIsa == Init => Arch!Init
<1> SUFFICES ASSUME Init PROVE Arch!Init
  OBVIOUS
<1>1. TypeOK
  BY InitType
<1>2. PICK m \in DataImages :
        rv = [pc |-> RESETVEC, prev_pc |-> RESETVEC, regs |-> [r \in Reg |-> 0],
              csr |-> [c \in CsrReg |-> IF c = "misa" THEN MISA ELSE 0],
              cycle |-> 0, instret |-> 0, mtime |-> 0, mtimecmp |-> 0, msip |-> 0,
              mtime_update |-> FALSE, mem |-> m, result |-> 0,
              status |-> "run", exitcode |-> 0]
  BY DEF Init
<1>3. /\ rv.pc = RESETVEC /\ rv.regs = [r \in Reg |-> 0] /\ rv.instret = 0 /\ rv.status = "run"
      /\ rv.csr = [c \in CsrReg |-> IF c = "misa" THEN MISA ELSE 0]
  BY <1>2
<1>4. rv \in State
  BY <1>1 DEF TypeOK
<1>5. ~Pending(irq, rv)
  BY DEF Init, Pending, LatchOf, Irq, Latches
<1>6. rv.pc % 4 = 0
  BY <1>3 DEF RESETVEC
<1>7. Settled = rv
  BY <1>3, <1>4, <1>5, <1>6, SettledIs, SettleCases
<1>8. ArchPc = RESETVEC /\ ArchCsr = rv.csr /\ ArchRegs = rv.regs /\ Ended = FALSE
  BY <1>3, <1>7 DEF ArchPc, ArchCsr, ArchRegs, Ended
<1>9. Arch!TypeOK
  <2>1. /\ rv.pc \in Word /\ rv.regs \in [Reg -> Word] /\ rv.mem \in [0 .. NMem - 1 -> Word]
        /\ rv.csr \in [CsrReg -> Word] /\ rv.instret \in 0 .. CountMod - 1
    BY <1>4, StateFields DEF Counter
  <2> QED
    BY <1>1, <1>3, <1>8, <2>1, ArchSets, ArchWords DEF Arch!TypeOK, TypeOK
<1>10. \A c \in CsrReg \ {"mscratch", "misa"} : ArchCsr[c] = 0
  BY <1>3, <1>8
<1> QED
  BY <1>3, <1>8, <1>9, <1>10, ArchSets DEF Arch!Init

\* The simulator implements the instruction set the pipeline implements, whatever
\* the program, the host's answers and the placement of the devices: a call of
\* srv32_step is one instruction of it, with the interrupt it latches for the next
\* call, and the trap the next call raises for a misaligned jump, counted as its
\* own (srv32_step, rvsim.c).  The steps are those of Ordinary: on the others the
\* code departs from the architecture (README).
THEOREM SimulatorImplementsIsa ==
  ASSUME WordFunctions(Word), OrAddsSign
  PROVE  Spec /\ [][Ordinary]_vars => ImplementsIsa
<1>1. Init => Arch!Init
  BY InitIsa
<1>2. TypeOK /\ [Next]_vars /\ [Ordinary]_vars => [Arch!Next]_(Arch!isaVars)
  BY IsaStep
<1>3. Spec => []TypeOK
  BY RvsimTypeCorrect
<1> QED
  BY <1>1, <1>2, <1>3, PTL DEF Spec, ImplementsIsa, Arch!Spec
=============================================================================
