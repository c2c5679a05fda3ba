-------------------------- MODULE TestbenchProofs --------------------------
(***************************************************************************)
(* Proofs about the core with its memories, for every program, every size  *)
(* of the word, of the register file and of the data memory, and any       *)
(* behaviour of the interrupt lines.                                       *)
(***************************************************************************)
EXTENDS Testbench, Srv32Proofs

-----------------------------------------------------------------------------
(* The parts of stage 3. *)

LEMMA HalfWord ==
  ASSUME NEW w \in Word, NEW hi \in BOOLEAN
  PROVE  HalfOf(w, hi) \in Nat /\ HalfOf(w, hi) < ByteMod * ByteMod
<1> DEFINE b2 == ByteMod * ByteMod
<1>1. b2 \in Nat /\ b2 > 0 /\ WordMod = b2 * b2
  BY Srv32Assumption DEF WordMod
<1>2. w \in Nat /\ w < b2 * b2
  BY <1>1, WordModNat DEF Word
<1>3. HalfOf(w, hi) = IF hi THEN w \div b2 ELSE w % b2
  BY DEF HalfOf
<1> HIDE DEF b2
<1>4. w % b2 \in Nat /\ w % b2 < b2
  BY <1>1, <1>2
<1>5. w \div b2 \in Nat /\ w = b2 * (w \div b2) + (w % b2)
  BY <1>1, <1>2
<1>6. w \div b2 < b2
  <2> SUFFICES ASSUME w \div b2 >= b2 PROVE FALSE
    BY <1>1, <1>5
  <2>1. b2 * (w \div b2) >= b2 * b2
    BY <1>1, <1>5
  <2> QED
    BY <1>1, <1>2, <1>4, <1>5, <2>1
<1> QED
  BY <1>3, <1>4, <1>5, <1>6 DEF b2

LEMMA SignByteWord == ASSUME NEW b \in Byte PROVE SignByte(b) \in Word
<1>1. b \in Nat /\ b < ByteMod /\ b \in Word /\ ByteMod <= WordMod
  BY ByteWord, WordModNat, Srv32Assumption DEF Byte, Word
<1> QED
  BY <1>1, WordModNat, Srv32Assumption DEF SignByte, Word

LEMMA SignHalfWord ==
  ASSUME NEW h \in Nat, h < ByteMod * ByteMod PROVE SignHalf(h) \in Word /\ h \in Word
<1> DEFINE b2 == ByteMod * ByteMod
<1>1. b2 \in Nat /\ b2 > 0 /\ WordMod = b2 * b2
  BY Srv32Assumption DEF WordMod
<1>2. b2 <= b2 * b2
  BY <1>1
<1>3. SignHalf(h) = IF 2 * h >= b2 THEN h + (WordMod - b2) ELSE h
  BY DEF SignHalf
<1> HIDE DEF b2
<1>4. h < b2
  BY DEF b2
<1>5. b2 <= WordMod
  BY <1>1, <1>2
<1> QED
  BY <1>1, <1>3, <1>4, <1>5, WordModNat DEF Word

-----------------------------------------------------------------------------
(* Every wire carries a word, whatever instruction is in the execute stage. *)

LEMMA BubbleFields == Fields(Bubble)
<1>1. 0 \in Word /\ 19 \in Word
  BY SmallWord
<1> QED
  BY <1>1, ZeroReg DEF Fields, Bubble, NOP, Funct, AluFn, CsrAddr

LEMMA ExFields == ASSUME TypeOK PROVE Fields(ex_insn)
BY InsnFields, BubbleFields DEF TypeOK, CoreTypeOK

LEMMA WbRdataWord == ASSUME TypeOK PROVE wb_rdata \in Word
<1>1. dmem_rdata \in Word /\ wb.raddr \in 0 .. 3
  BY DEF TypeOK, CoreTypeOK, WbResult
<1>2. Lane(dmem_rdata, wb.raddr) \in Byte
  BY <1>1, LaneByte
<1>3. Lane(dmem_rdata, wb.raddr) \in Word
  BY <1>2, ByteWord
<1>4. SignByte(Lane(dmem_rdata, wb.raddr)) \in Word
  BY <1>2, SignByteWord
<1> DEFINE half == HalfOf(dmem_rdata, wb.raddr \div 2 = 1)
<1>5. half \in Nat /\ half < ByteMod * ByteMod
  BY <1>1, HalfWord
<1>6. SignHalf(half) \in Word /\ half \in Word
  BY <1>5, SignHalfWord
<1>7. 0 \in Word
  BY SmallWord
<1> QED
  BY <1>1, <1>3, <1>4, <1>6, <1>7 DEF wb_rdata

LEMMA WbValueWord == ASSUME TypeOK PROVE wb_value \in Word
BY WbRdataWord DEF wb_value, TypeOK, CoreTypeOK, WbResult

LEMMA RegRdataWord == ASSUME TypeOK, NEW r \in Reg PROVE reg_rdata(r) \in Word
<1>1. 0 \in Word
  BY SmallWord
<1>2. regs[r] \in Word
  BY DEF TypeOK, CoreTypeOK
<1> QED
  BY <1>1, <1>2, WbValueWord DEF reg_rdata

LEMMA OperandsWord == ASSUME TypeOK PROVE alu_op1 \in Word /\ alu_op2 \in Word /\ ex_imm \in Word
BY ExFields, RegRdataWord DEF alu_op1, alu_op2, ex_imm, Fields

LEMMA MemaddrWord == ASSUME TypeOK PROVE ex_memaddr \in Word
BY OperandsWord, PlusWord DEF ex_memaddr

LEMMA NextPcWord == ASSUME TypeOK PROVE next_pc \in Word
<1>1. ex_pc \in Word /\ fetch_pc \in Word
  BY DEF TypeOK, CoreTypeOK
<1>2. /\ Even(Plus(ex_pc, ex_imm)) \in Word
      /\ Even(Plus(alu_op1, ex_imm)) \in Word
      /\ Plus(ex_pc, ex_imm) \in Word
      /\ Next4(fetch_pc) \in Word
  BY <1>1, OperandsWord, PlusWord, EvenWord, Next4Word
<1> QED
  BY <1>1, <1>2 DEF next_pc

LEMMA CsrReadWord == ASSUME TypeOK PROVE ex_csr_read \in Word
<1>1. cycle \in Nat /\ instret \in Nat /\ csr \in [CsrReg -> Word]
  BY TestbenchAssumption DEF TypeOK, CoreTypeOK
<1>2. \A n \in Nat : n % WordMod \in Word
  BY WordModNat DEF Word
<1>3. \A n \in Nat : n \div WordMod \in Nat
  BY WordModNat
<1>4. 0 \in Word
  BY SmallWord
<1>5. /\ cycle % WordMod \in Word /\ (cycle \div WordMod) % WordMod \in Word
      /\ instret % WordMod \in Word /\ (instret \div WordMod) % WordMod \in Word
  BY <1>1, <1>2, <1>3
<1> QED
  BY <1>1, <1>4, <1>5 DEF ex_csr_read

LEMMA ResultWord == ASSUME WordFunctions(Word), TypeOK PROVE ex_result \in Word
<1>1. ex_pc \in Word /\ alu_op1 \in Word /\ alu_op2 \in Word /\ ex_imm \in Word
  BY OperandsWord DEF TypeOK, CoreTypeOK
<1>2. Next4(ex_pc) \in Word /\ Plus(ex_pc, ex_imm) \in Word /\ 0 \in Word
  BY <1>1, Next4Word, PlusWord, SmallWord
<1>3. ex_alu => Alu(ex_insn.f, alu_op1, alu_op2) \in Word
  <2>1. ex_alu => ex_insn.f \in AluFn
    <3>1. IsInsn(ex_insn) \/ ex_insn = Bubble
      BY DEF TypeOK, CoreTypeOK
    <3>2. IsInsn(ex_insn) /\ ex_insn.op = "ARITHI" => ex_insn.f # "bad"
      BY DEF IsInsn, FunctOf, AluFn
    <3>3. Bubble.op = "NONE"
      BY DEF Bubble, NOP
    <3> QED
      BY <3>1, <3>2, <3>3, ExFields DEF ex_alu, Is, Fields
  <2> QED
    BY <1>1, <2>1 DEF WordFunctions
<1> QED
  BY <1>1, <1>2, <1>3, CsrReadWord DEF ex_result

-----------------------------------------------------------------------------
(* The CSRs. *)

CsrFile == [CsrReg -> Word]

LEMMA SavedType ==
  ASSUME TypeOK, NEW cause \in Word, NEW epc \in Word, NEW tval \in Word
  PROVE  Saved(cause, epc, tval) \in CsrFile
<1>1. csr \in CsrFile /\ csr["mstatus"] \in Word
  BY DEF TypeOK, CoreTypeOK, CsrFile, CsrReg
<1>2. TrapMstatus \in Word
  BY <1>1, CopyBitWord, ClearBitWord DEF TrapMstatus, MIE, MPIE, StatusBit
<1> QED
  BY <1>1, <1>2 DEF Saved, CsrFile

LEMMA CausesAreWords ==
  /\ TRAP_INST_ALIGN \in Word /\ TRAP_INST_ILL \in Word /\ TRAP_BREAK \in Word
  /\ TRAP_LD_ALIGN \in Word /\ TRAP_ST_ALIGN \in Word /\ TRAP_ECALL \in Word
  /\ \A q \in Irq : IntCause(q) \in Word
<1>1. \A q \in Irq : IntCode(q) \in Nat /\ IntCode(q) < 16
  BY DEF Irq, IntCode
<1>2. \A n \in Nat : n < 16 => WordMod \div 2 + n \in Word
  BY WordModNat DEF Word
<1> QED
  BY <1>1, <1>2, SmallWord
  DEF IntCause, TRAP_INST_ALIGN, TRAP_INST_ILL, TRAP_BREAK, TRAP_LD_ALIGN, TRAP_ST_ALIGN,
      TRAP_ECALL

LEMMA ServedIrq == ASSUME NEW irq PROVE Served(irq) \in Irq
BY DEF Served, Irq

LEMMA CsrNewWord ==
  ASSUME WordFunctions(Word), TypeOK, NEW old \in Word PROVE CsrNew(old) \in Word
<1>1. ex_csr_data \in Word
  BY ExFields, OperandsWord, RegWord DEF ex_csr_data, Fields
<1>2. BitNot(ex_csr_data) \in Word
  BY <1>1, BitNotWord
<1> QED
  BY <1>1, <1>2 DEF CsrNew, WordFunctions

LEMMA RetPcWord == ASSUME TypeOK PROVE ex_ret_pc \in Word
<1>1. ex_pc \in Word
  BY DEF TypeOK, CoreTypeOK
<1> QED
  BY <1>1, NextPcWord, Next4Word, EvenWord DEF ex_ret_pc

LEMMA CsrNextType ==
  ASSUME WordFunctions(Word), TypeOK, NEW irq PROVE CsrNext(irq) \in CsrFile
<1>1. csr \in CsrFile /\ csr["mstatus"] \in Word /\ csr["mip"] \in Word /\ ex_pc \in Word
  BY DEF TypeOK, CoreTypeOK, CsrFile, CsrReg
<1>2. Even(ex_pc) \in Word /\ ex_insn.code \in Word /\ 0 \in Word
  BY <1>1, EvenWord, ExFields, SmallWord DEF Fields
<1>3. /\ Saved(TRAP_INST_ILL, Even(ex_pc), ex_insn.code) \in CsrFile
      /\ Saved(TRAP_INST_ALIGN, Even(ex_pc), next_pc) \in CsrFile
      /\ Saved(TRAP_LD_ALIGN, Even(ex_pc), ex_memaddr) \in CsrFile
      /\ Saved(TRAP_ST_ALIGN, Even(ex_pc), ex_memaddr) \in CsrFile
      /\ Saved(TRAP_ECALL, Even(ex_pc), 0) \in CsrFile
      /\ Saved(TRAP_BREAK, Even(ex_pc), Even(ex_pc)) \in CsrFile
  BY <1>2, SavedType, CausesAreWords, NextPcWord, MemaddrWord
<1>4. ex_insn.csr \in CsrReg =>
        [csr EXCEPT ![ex_insn.csr] = CsrNew(csr[ex_insn.csr])] \in CsrFile
  BY <1>1, CsrNewWord DEF CsrFile
<1>5. [Saved(IntCause(Served(irq)), ex_ret_pc, 0)
         EXCEPT !["mip"] = SetBit(csr["mip"], IrqBit(Served(irq)))] \in CsrFile
  <2>1. Saved(IntCause(Served(irq)), ex_ret_pc, 0) \in CsrFile
    BY <1>2, ServedIrq, CausesAreWords, RetPcWord, SavedType
  <2>2. IrqBit(Served(irq)) \in StatusBit
    BY ServedIrq DEF Irq, IrqBit, StatusBit
  <2>3. SetBit(csr["mip"], IrqBit(Served(irq))) \in Word
    BY <1>1, <2>2, SetBitWord
  <2> QED
    BY <2>1, <2>3 DEF CsrFile
<1>6. [csr EXCEPT !["mepc"] = Even(ex_pc), !["mtval"] = 0,
                  !["mstatus"] = CopyBit(csr["mstatus"], MIE, MPIE)] \in CsrFile
  <2>1. CopyBit(csr["mstatus"], MIE, MPIE) \in Word
    BY <1>1, CopyBitWord DEF MIE, MPIE, StatusBit
  <2> QED
    BY <1>1, <1>2, <2>1 DEF CsrFile
<1>7. [csr EXCEPT !["mcause"] = TRAP_INST_ILL, !["mepc"] = Even(ex_pc),
                  !["mtval"] = ex_insn.code] \in CsrFile
  BY <1>1, <1>2, CausesAreWords DEF CsrFile
<1> QED
  BY <1>1, <1>3, <1>4, <1>5, <1>6, <1>7 DEF CsrNext

LEMMA TrapPcWord == ASSUME TypeOK, NEW irq PROVE ex_trap_pc(irq) \in Word
<1>1. csr["mepc"] \in Word /\ csr["mtvec"] \in Word
  BY DEF TypeOK, CoreTypeOK, CsrReg
<1>2. CauseCode(irq) \in Nat /\ CauseCode(irq) < 16
  <2>1. IntCode(Served(irq)) \in Nat /\ IntCode(Served(irq)) < 16
    BY ServedIrq DEF Irq, IntCode
  <2> QED
    BY <2>1 DEF CauseCode, TRAP_INST_ALIGN, TRAP_INST_ILL, TRAP_BREAK, TRAP_LD_ALIGN,
                TRAP_ST_ALIGN, TRAP_ECALL
<1>3. 4 * CauseCode(irq) \in Word
  BY <1>2, SmallWord
<1>4. Align4(csr["mtvec"]) \in Word
  BY <1>1, Align4Word
<1>5. Plus(Align4(csr["mtvec"]), 4 * CauseCode(irq)) \in Word
  BY <1>3, <1>4, PlusWord
<1> QED
  BY <1>1, <1>4, <1>5 DEF ex_trap_pc

-----------------------------------------------------------------------------
(* Type correctness. *)

LEMMA ImemWordInsn == ASSUME TypeOK, NEW a PROVE IsInsn(ImemWord(a))
BY NopIsInsn DEF TypeOK, ImemWord

LEMMA StoreType ==
  ASSUME TypeOK
  PROVE  [waddr |-> ex_memaddr, wstrb |-> StoreStrb(ex_insn.f, ex_memaddr),
          wdata |-> StoreData(ex_insn.f, alu_op2)] \in WbStore
<1>1. ex_memaddr \in Word /\ alu_op2 \in Word
  BY MemaddrWord, OperandsWord
<1>2. ex_memaddr % 4 \in 0 .. 3
  BY <1>1, WordModNat DEF Word
<1>3. StoreStrb(ex_insn.f, ex_memaddr) \in SUBSET (0 .. 3)
  BY <1>2 DEF StoreStrb
<1>4. StoreData(ex_insn.f, alu_op2) \in Word
  <2> DEFINE sb == [i \in 0 .. 3 |-> Lane(alu_op2, 0)]
             sh == [i \in 0 .. 3 |-> Lane(alu_op2, i % 2)]
  <2>1. \A i \in 0 .. 3 : sb[i] \in Byte /\ sh[i] \in Byte
    BY <1>1, LaneByte
  <2>2. StoreData(ex_insn.f, alu_op2) \in {FromLanes(sb), FromLanes(sh), alu_op2, 0}
    BY DEF StoreData
  <2> HIDE DEF sb, sh
  <2>3. FromLanes(sb) \in Word /\ FromLanes(sh) \in Word /\ 0 \in Word
    BY <2>1, FromLanesWord, SmallWord
  <2> QED
    BY <1>1, <2>2, <2>3
<1> QED
  BY <1>1, <1>3, <1>4 DEF WbStore

LEMMA CellIndex == ASSUME NEW a \in Word PROVE Dmem!Adr(a) \in 0 .. NMem - 1
<1>1. a \in Nat /\ NMem \in Nat /\ NMem > 0
  BY WordModNat, TestbenchAssumption DEF Word
<1>2. a \div 4 \in Nat
  BY <1>1
<1> QED
  BY <1>1, <1>2 DEF Dmem!Adr

LEMMA InitType == Init => TypeOK
<1> SUFFICES ASSUME Init PROVE TypeOK
  OBVIOUS
<1>1. PICK s \in Scratch : CoreReset(s, MISA)
  BY DEF Init
<1>2. 0 \in Word /\ 0 \in Reg
  BY SmallWord, ZeroReg
<1>3. csr \in [CsrReg -> Word]
  BY <1>1, <1>2, TestbenchAssumption DEF CoreReset
<1>4. regs \in [Reg -> Word]
  BY <1>1, <1>2 DEF CoreReset
<1>5. wb \in WbResult /\ wb_store \in WbStore
  BY <1>1, <1>2 DEF CoreReset, WbResult, WbStore, Funct, AluFn
<1>6. cycle \in 0 .. CountMod - 1 /\ instret \in 0 .. CountMod - 1 /\ pipefill \in 0 .. 2
  BY <1>1, TestbenchAssumption DEF CoreReset
<1>7. CoreTypeOK
  BY <1>1, <1>2, <1>3, <1>4, <1>5, <1>6 DEF CoreReset, CoreTypeOK, RESETVEC
<1> QED
  BY <1>2, <1>7, NopIsInsn, TestbenchAssumption DEF Init, TypeOK

LEMMA CycleType ==
  ASSUME WordFunctions(Word), TypeOK, NEW irq, Cycle(irq) PROVE TypeOK'
<1>1. Clk(stall, irq)
  BY DEF Cycle
<1>2. CoreTypeOK'
  <2>1. (stall_r \in BOOLEAN /\ flush \in BOOLEAN /\ ex_mem2reg \in BOOLEAN)'
    BY <1>1 DEF Clk, FetchClk, TypeOK, CoreTypeOK
  <2>2. (if_pc \in Word /\ ex_pc \in Word)'
    BY <1>1 DEF Clk, FetchClk, TypeOK, CoreTypeOK
  <2>3. (IsInsn(ex_insn) \/ ex_insn = Bubble)'
    <3>1. IsInsn(inst)
      BY NopIsInsn DEF inst, TypeOK
    <3>2. ex_insn' = ex_insn \/ ex_insn' = inst
      BY <1>1 DEF Clk, FetchClk
    <3>3. IsInsn(ex_insn') \/ ex_insn' = Bubble
      BY <3>1, <3>2 DEF TypeOK, CoreTypeOK
    <3> QED
      BY <3>3 DEF IsInsn, Insn, Bubble
  <2>4. fetch_pc' \in Word
    <3>1. Next4(fetch_pc) \in Word /\ Even(next_pc) \in Word /\ fetch_pc \in Word
      BY Next4Word, NextPcWord, EvenWord DEF TypeOK, CoreTypeOK
    <3> QED
      BY <1>1, <3>1, TrapPcWord DEF Clk, FetchPcClk
  <2>5. (/\ wb_branch \in BOOLEAN /\ wb_branch_nxt \in BOOLEAN /\ wb_nop \in BOOLEAN
         /\ wb_nop_more \in BOOLEAN /\ wb_trap_nop \in BOOLEAN)'
    <3>1. CASE stall_r
      BY <1>1, <3>1 DEF Clk, SquashClk, TypeOK, CoreTypeOK
    <3>2. CASE ~stall_r
      BY <1>1, <3>2 DEF Clk, SquashClk, TypeOK, CoreTypeOK, branch_taken, ex_trap_nop
    <3> QED
      BY <3>1, <3>2
  <2>6. wb' \in WbResult
    <3>1. ex_result \in Word /\ ex_insn.rd \in Reg /\ ex_insn.f \in Funct
      BY ResultWord, ExFields DEF Fields
    <3>2. ex_memaddr % 4 \in 0 .. 3
      BY MemaddrWord, WordModNat DEF Word
    <3>3. ex_mem2reg \in BOOLEAN /\ wb \in WbResult
      BY DEF TypeOK, CoreTypeOK
    <3> DEFINE a2r == \/ ex_alu \/ ex_csr \/ Is({"LUI", "AUIPC", "JAL", "JALR"})
                      \/ ex_mem2reg /\ ~ex_ld_align_excp
    <3>4. a2r \in BOOLEAN
      OBVIOUS
    <3>5. wb' = IF stall_r THEN wb
                ELSE [alu2reg |-> a2r, result |-> ex_result, dst_sel |-> ex_insn.rd,
                      mem2reg |-> ex_mem2reg, raddr |-> ex_memaddr % 4,
                      alu_op |-> ex_insn.f]
      BY <1>1 DEF Clk, ResultClk
    <3> HIDE DEF a2r
    <3> QED
      BY <3>1, <3>2, <3>3, <3>4, <3>5 DEF WbResult
  <2>7. wb_store' \in WbStore /\ wb_memwr' \in BOOLEAN
    BY <1>1, StoreType DEF Clk, StoreClk, TypeOK, CoreTypeOK
  <2>8. csr' \in [CsrReg -> Word]
    BY <1>1, CsrNextType DEF Clk, CsrClk, CsrFile, TypeOK, CoreTypeOK
  <2>9. regs' \in [Reg -> Word]
    BY <1>1, WbValueWord DEF Clk, RegfileClk, TypeOK, CoreTypeOK
  <2>10. pipefill' \in 0 .. 2
    BY <1>1 DEF Clk, CountClk, TypeOK, CoreTypeOK
  <2>11. cycle' \in 0 .. CountMod - 1 /\ instret' \in 0 .. CountMod - 1
    <3>1. cycle \in 0 .. CountMod - 1 /\ instret \in 0 .. CountMod - 1
      BY DEF TypeOK, CoreTypeOK
    <3>2. \A n \in 0 .. CountMod - 1 : (n + 1) % CountMod \in 0 .. CountMod - 1
      BY TestbenchAssumption
    <3> QED
      BY <1>1, <3>1, <3>2 DEF Clk, CountClk
  <2> QED
    BY <2>1, <2>2, <2>3, <2>4, <2>5, <2>6, <2>7, <2>8, <2>9, <2>10, <2>11
    DEF CoreTypeOK
<1>3. (\A k \in DOMAIN imem : IsInsn(imem[k]))'
  BY DEF Cycle, TypeOK, IsInsn, Insn
<1>4. IsInsn(imem_rdata)'
  <2>1. imem_rdata' = imem_rdata \/ imem_rdata' = ImemWord(fetch_pc)
    BY DEF Cycle, ImemClk
  <2>2. IsInsn(imem_rdata')
    BY <2>1, ImemWordInsn DEF TypeOK
  <2> QED
    BY <2>2 DEF IsInsn, Insn
<1>5. dmem' \in [0 .. NMem - 1 -> Word] /\ dmem_rdata' \in Word
  <2>1. /\ dmem \in [0 .. NMem - 1 -> Word] /\ dmem_rdata \in Word
        /\ wb_store.waddr \in Word /\ wb_store.wdata \in Word
    BY DEF TypeOK, CoreTypeOK, WbStore
  <2>2. Dmem!Adr(wb_store.waddr) \in 0 .. NMem - 1 /\ Dmem!Adr(ex_memaddr) \in 0 .. NMem - 1
    BY <2>1, CellIndex, MemaddrWord
  <2>3. \A n \in 0 .. NMem - 1 : Merge(dmem[n], wb_store.wstrb, wb_store.wdata) \in Word
    BY <2>1, MergeWord
  <2>4. Dmem!Clk(ex_mem2reg, ex_memaddr, wb_memwr, wb_store.waddr, wb_store.wdata,
                 wb_store.wstrb)
    BY DEF Cycle
  <2> QED
    BY <2>1, <2>2, <2>3, <2>4 DEF Dmem!Clk, Dmem!ReadClk, Dmem!WriteClk
<1>6. (stall \in BOOLEAN /\ halted \in BOOLEAN)'
  BY DEF Cycle, Finish, TypeOK
<1> QED
  BY <1>2, <1>3, <1>4, <1>5, <1>6 DEF TypeOK

\* Every register, bus and memory of the simulated machine keeps its type,
\* whatever the program does and whenever interrupts are requested.
THEOREM TypeCorrect ==
  ASSUME WordFunctions(Word) PROVE Spec => []TypeOK
<1>1. TypeOK /\ [Next]_vars => TypeOK'
  <2> SUFFICES ASSUME TypeOK, [Next]_vars PROVE TypeOK'
    OBVIOUS
  <2>1. CASE UNCHANGED vars
    BY <2>1 DEF TypeOK, CoreTypeOK, vars, coreVars, IsInsn, Insn, Bubble
  <2>2. CASE Next
    BY <2>2, CycleType DEF Next
  <2> QED
    BY <2>1, <2>2
<1> QED
  BY <1>1, InitType, PTL DEF Spec

-----------------------------------------------------------------------------
(* The order of the pipe. *)

LEMMA FlushedIsQuiet ==
  ASSUME ex_flush, NEW irq
  PROVE  ~ex_trap(irq) /\ ~branch_taken /\ ~ex_trap_nop
BY DEF branch_taken, ex_trap, ex_trap_nop, ex_inst_ill_excp, ex_inst_align_excp,
       ex_ld_align_excp, ex_st_align_excp, ex_irq, ex_systemcall

\* An instruction that neither branches nor traps lets fetch go on.
LEMMA Sequential ==
  ASSUME TypeOK, NEW irq, ~ex_flush, ~ex_trap(irq), ~branch_taken
  PROVE  Even(next_pc) = Next4(fetch_pc)
<1>1. ~ex_ill_branch /\ next_pc % 4 = 0
  BY DEF ex_trap, ex_trap_nop, ex_inst_ill_excp, ex_inst_align_excp
<1>2. next_pc = Next4(fetch_pc)
  <2>1. ~Is({"JAL"}) /\ ~Is({"JALR"}) /\ ~(Is({"BRANCH"}) /\ BranchCond)
    BY DEF branch_taken, Is
  <2> QED
    BY <1>1, <2>1 DEF next_pc
<1>3. next_pc \in Nat
  BY NextPcWord, WordModNat DEF Word
<1>4. next_pc % 2 = 0
  BY <1>1, <1>3
<1> QED
  BY <1>2, <1>3, <1>4 DEF Even

LEMMA NoMie == ~HasBit(0, MIE)
BY DEF HasBit, MIE

\* The bubbles of boot do nothing but advance fetch by a word.
LEMMA BootIsQuiet ==
  ASSUME TypeOK, PipeInv, pipefill < 2, NEW irq
  PROVE  /\ ~ex_flush /\ ~ex_trap(irq) /\ ~branch_taken
         /\ CsrNext(irq) = csr
         /\ ~Is({"STORE"})
<1>1. ex_insn = Bubble \/ ex_insn = NOP
  BY DEF PipeInv, BootOrder
<1>2. ex_insn.op = "NONE" \/ ex_insn.op = "ARITHI"
  BY <1>1 DEF Bubble, NOP
<1>3. ex_insn.f = "ADD"
  BY <1>1 DEF Bubble, NOP
<1>4. ~ex_flush
  BY DEF PipeInv, BootOrder, ex_flush
<1>5. ~branch_taken
  BY <1>2 DEF branch_taken, Is
<1>6. ~ex_inst_ill_excp /\ ~ex_systemcall /\ ~ex_csr_wr
  BY <1>2, <1>3
  DEF ex_inst_ill_excp, ex_ill_branch, ex_ill_csr, ex_illegal, ex_csr, ex_csr_wr,
      ex_systemcall, Is
<1>7. ~ex_ld_align_excp /\ ~ex_st_align_excp
  BY <1>2 DEF ex_ld_align_excp, ex_st_align_excp, Is, PipeInv, FetchMatches
<1>8. ~ex_inst_align_excp
  <2>1. next_pc = Next4(fetch_pc)
    BY <1>2 DEF next_pc, Is
  <2>2. fetch_pc = 0 \/ fetch_pc = Next4(0)
    BY DEF PipeInv, BootOrder, RESETVEC
  <2>3. next_pc = 4 \/ next_pc = 8
    BY <2>1, <2>2, WordModNat DEF Next4, Plus
  <2> QED
    BY <2>3 DEF ex_inst_align_excp
<1>9. \A q \in Irq : ~ex_irq(q, irq)
  BY NoMie DEF ex_irq, PipeInv, BootOrder
<1>10. ~ex_trap_nop /\ ~ex_trap(irq)
  BY <1>6, <1>7, <1>8, <1>9 DEF ex_trap_nop, ex_trap
<1>11. CsrNext(irq) = csr
  BY <1>6, <1>7, <1>8, <1>9 DEF CsrNext
<1>12. ~Is({"STORE"})
  BY <1>2 DEF Is
<1> QED
  BY <1>4, <1>5, <1>10, <1>11, <1>12

LEMMA InitPipe == Init => PipeInv
<1> SUFFICES ASSUME Init PROVE PipeInv
  OBVIOUS
<1>1. PICK s \in Scratch : CoreReset(s, MISA)
  BY DEF Init
<1>2. csr["mstatus"] = 0
  BY <1>1 DEF CoreReset, CsrReg
<1>3. Bubble.op # "LOAD"
  BY DEF Bubble, NOP
<1>4. PcChain
  <2>1. /\ wb_branch = FALSE /\ wb_branch_nxt = FALSE
        /\ wb_nop = FALSE /\ wb_nop_more = FALSE /\ wb_trap_nop = FALSE
    BY <1>1 DEF CoreReset
  <2>2. pipefill # 2
    BY <1>1 DEF CoreReset
  <2> QED
    BY <2>1, <2>2, Zenon DEF PcChain
<1>5. BootOrder
  BY <1>1, <1>2 DEF CoreReset, BootOrder, Init
<1>6. FetchMatches
  <2>1. ex_mem2reg = FALSE /\ ex_insn.op # "LOAD"
    BY <1>1, <1>3 DEF CoreReset
  <2>2. pipefill # 2 /\ ~(pipefill > 0)
    BY <1>1 DEF CoreReset
  <2> QED
    BY <2>1, <2>2, Zenon DEF FetchMatches
<1> QED
  BY <1>4, <1>5, <1>6 DEF PipeInv

\* The order survives every edge: held while boot stalls, filled with the first
\* two words, advanced by a word, or restored in two edges after a redirect.
LEMMA CyclePipe ==
  ASSUME TypeOK, PipeInv, NEW irq, Cycle(irq) PROVE PipeInv'
<1>1. Clk(stall, irq) /\ ImemClk /\ imem' = imem
  BY DEF Cycle
<1>2. stall' => stall
  BY DEF Cycle, TypeOK
<1>3. CASE stall_r
  <2>1. flush /\ pipefill = 0
    BY <1>3 DEF PipeInv, BootOrder
  <2>2. UNCHANGED <<if_pc, ex_pc, ex_insn, fetch_pc, pipefill, csr, imem_rdata, imem>>
    BY <1>1, <1>3
    DEF Clk, ImemClk, FetchClk, FetchPcClk, CountClk, CsrClk
  <2>3. UNCHANGED <<wb_branch, wb_branch_nxt, wb_nop, wb_nop_more, wb_trap_nop>>
    BY <1>1, <1>3 DEF Clk, SquashClk
  <2>4. stall_r' = stall /\ flush'
    BY <1>1, <1>3 DEF Clk, FetchClk
  <2>5. ~ex_mem2reg' /\ ex_mem2reg' \in BOOLEAN
    BY <1>1, <2>1 DEF Clk, FetchClk, inst, NOP
  <2>6. ex_insn = Bubble /\ Bubble.op = "NONE"
    BY <2>1 DEF PipeInv, BootOrder, Bubble, NOP
  <2>7. ~wb_memwr'
    BY <1>1, <2>6 DEF Clk, StoreClk, Is
  <2>8. PcChain'
    BY <2>1, <2>2, <2>3, Zenon DEF PipeInv, PcChain, ex_flush
  <2>9. BootOrder'
    BY <1>2, <2>1, <2>2, <2>3, <2>4, <2>7 DEF PipeInv, BootOrder, Bubble
  <2>10. FetchMatches'
    <3>1. (ex_mem2reg = (ex_insn.op = "LOAD"))'
      BY <2>2, <2>5, <2>6
    <3> QED
      BY <2>1, <2>2, <3>1 DEF PipeInv, FetchMatches, ImemWord
  <2> QED
    BY <2>8, <2>9, <2>10 DEF PipeInv
<1>4. CASE ~stall_r
  <2>1. ~stall /\ ~stall_r' /\ ~flush' /\ ~stall'
    BY <1>1, <1>2, <1>4 DEF PipeInv, BootOrder, Clk, FetchClk
  <2>2. if_pc' = fetch_pc /\ ex_pc' = if_pc /\ ex_insn' = inst
    BY <1>1, <1>4 DEF Clk, FetchClk
  <2>3. ex_mem2reg' = (inst.op = "LOAD")
    BY <1>1 DEF Clk, FetchClk
  <2>4. imem_rdata' = ImemWord(fetch_pc) /\ \A a : ImemWord(a)' = ImemWord(a)
    BY <1>1, <1>4 DEF ImemClk, ImemWord
  <2>5. /\ wb_branch' = (branch_taken \/ ex_trap(irq))
        /\ wb_branch_nxt' = wb_branch /\ wb_nop' = wb_branch
        /\ wb_nop_more' = wb_nop /\ wb_trap_nop' = ex_trap_nop
    BY <1>1, <1>4 DEF Clk, SquashClk
  <2>6. pipefill' = IF pipefill = 2 THEN 2 ELSE pipefill + 1
    BY <1>1, <1>4 DEF Clk, CountClk
  <2>7. pipefill \in 0 .. 2 /\ pipefill' > 0
    BY <2>6 DEF PipeInv, BootOrder
  <2>8. PcChain'
    <3>1. ~(wb_branch' /\ wb_branch_nxt')
      BY <2>5, FlushedIsQuiet DEF ex_flush
    <3>2. wb_nop' = wb_branch_nxt'
      BY <2>5
    <3>3. ~(wb_nop' /\ wb_nop_more')
      BY <2>5 DEF PipeInv, PcChain
    <3>4. wb_trap_nop' => wb_branch'
      BY <2>5 DEF ex_trap
    <3>5. ex_flush => fetch_pc' = Next4(fetch_pc)
      BY <1>1, <1>4 DEF Clk, FetchPcClk
    <3>6. wb_branch_nxt' => fetch_pc' = Next4(if_pc')
      BY <2>2, <2>5, <3>5 DEF ex_flush
    <3>7. ASSUME pipefill' = 2, ~wb_branch', ~wb_branch_nxt'
          PROVE  if_pc' = Next4(ex_pc') /\ fetch_pc' = Next4(if_pc')
      <4>1. fetch_pc = Next4(if_pc)
        <5>1. CASE pipefill = 2
          BY <2>5, <3>7, <5>1 DEF PipeInv, PcChain, ex_flush
        <5>2. CASE pipefill # 2
          <6>1. pipefill = 1
            BY <2>6, <2>7, <3>7, <5>2
          <6> QED
            BY <6>1 DEF PipeInv, BootOrder
        <5> QED
          BY <5>1, <5>2
      <4>2. fetch_pc' = Next4(fetch_pc)
        <5>1. CASE ex_flush
          BY <3>5, <5>1
        <5>2. CASE ~ex_flush
          <6>1. ~ex_trap(irq) /\ ~branch_taken
            BY <2>5, <3>7
          <6> QED
            BY <1>1, <1>4, <5>2, <6>1, Sequential DEF Clk, FetchPcClk
        <5> QED
          BY <5>1, <5>2
      <4> QED
        BY <2>2, <4>1, <4>2
    <3> QED
      BY <3>1, <3>2, <3>3, <3>4, <3>6, <3>7, Zenon DEF PcChain, ex_flush, Next4, Plus
  <2>9. BootOrder'
    <3>1. pipefill' \in 0 .. 2 /\ ~(pipefill' = 0)
      BY <2>6, <2>7
    <3>2. ASSUME pipefill' < 2
          PROVE  (/\ ex_insn = NOP
                  /\ ex_pc = RESETVEC /\ if_pc = RESETVEC
                  /\ fetch_pc = Next4(RESETVEC)
                  /\ csr["mstatus"] = 0
                  /\ ~wb_branch /\ ~wb_branch_nxt /\ ~wb_nop_more /\ ~wb_memwr)'
      <4>1. pipefill = 0 /\ pipefill < 2
        BY <2>6, <2>7, <3>2
      <4>2. /\ flush /\ ex_pc = RESETVEC /\ if_pc = RESETVEC /\ fetch_pc = RESETVEC
            /\ csr["mstatus"] = 0 /\ ~wb_branch /\ ~wb_branch_nxt /\ ~wb_nop
        BY <4>1 DEF PipeInv, BootOrder, PcChain
      <4>3. /\ ~ex_flush /\ ~ex_trap(irq) /\ ~branch_taken
            /\ CsrNext(irq) = csr /\ ~Is({"STORE"})
        BY <4>1, BootIsQuiet
      <4>4. fetch_pc' = Next4(RESETVEC)
        BY <1>1, <1>4, <4>2, <4>3, Sequential DEF Clk, FetchPcClk
      <4>5. csr' = csr
        BY <1>1, <4>3 DEF Clk, CsrClk
      <4>6. ~wb_memwr'
        BY <1>1, <4>3 DEF Clk, StoreClk
      <4>7. ~wb_branch' /\ ~wb_branch_nxt' /\ ~wb_nop_more'
        BY <2>5, <4>2, <4>3
      <4>8. ex_insn' = NOP
        BY <2>2, <4>2 DEF inst
      <4> QED
        BY <2>2, <4>2, <4>4, <4>5, <4>6, <4>7, <4>8 DEF Next4, Plus, RESETVEC, NOP
    <3> QED
      BY <2>1, <3>1, <3>2 DEF BootOrder
  <2>10. FetchMatches'
    <3>1. imem_rdata' = ImemWord(if_pc)'
      BY <2>2, <2>4 DEF ImemWord
    <3>2. ASSUME pipefill' = 2 PROVE ex_insn' = ImemWord(ex_pc)'
      <4>1. pipefill > 0 /\ ~flush
        BY <2>6, <2>7, <3>2 DEF PipeInv, BootOrder
      <4> QED
        BY <1>1, <2>2, <4>1 DEF inst, PipeInv, FetchMatches, ImemWord
    <3>3. ex_mem2reg' = (ex_insn'.op = "LOAD")
      BY <2>2, <2>3
    <3> QED
      BY <3>1, <3>2, <3>3, Zenon DEF FetchMatches
  <2> QED
    BY <2>8, <2>9, <2>10 DEF PipeInv
<1> QED
  BY <1>3, <1>4

\* The instruction in the execute stage is always the one memory holds at the
\* pc that follows from the program so far: through boot, taken branches,
\* traps and interrupts the pipe never executes, skips or repeats a wrong word.
THEOREM PipeCorrect ==
  ASSUME WordFunctions(Word) PROVE Spec => []PipeInv
<1>1. TypeOK /\ PipeInv /\ [Next]_vars => PipeInv'
  <2> SUFFICES ASSUME TypeOK, PipeInv, [Next]_vars PROVE PipeInv'
    OBVIOUS
  <2>1. CASE UNCHANGED vars
    BY <2>1
    DEF PipeInv, PcChain, BootOrder, FetchMatches, ex_flush, ImemWord, vars, coreVars,
        Next4, Plus, Bubble, NOP, RESETVEC
  <2>2. CASE Next
    BY <2>2, CyclePipe DEF Next
  <2> QED
    BY <2>1, <2>2
<1> QED
  BY <1>1, InitPipe, TypeCorrect, PTL DEF Spec

-----------------------------------------------------------------------------
(* The machine the program sees. *)

\* The memory write in flight is the only difference between the RAM and the
\* memory the program sees, and the edge that ends the cycle performs it.
LEMMA WriteBack ==
  ASSUME NEW irq, Cycle(irq) PROVE regs' = ArchRegs /\ dmem' = ArchMem
<1>1. regs' = ArchRegs
  BY DEF Cycle, Clk, RegfileClk, ArchRegs
<1>2. dmem' = ArchMem
  BY DEF Cycle, Dmem!Clk, Dmem!WriteClk, ArchMem
<1> QED
  BY <1>1, <1>2

LEMMA SquashStep ==
  ASSUME TypeOK, PipeInv, ex_flush, NEW irq, Cycle(irq)
  PROVE  UNCHANGED <<ArchPc, ArchRegs, ArchMem, csr, instret>>
<1>1. Clk(stall, irq)
  BY DEF Cycle
<1>2. pipefill \in 0 .. 2 /\ ~(pipefill < 2) /\ ~stall_r
  BY DEF PipeInv, BootOrder, ex_flush
<1>3. csr' = csr /\ instret' = instret
  BY <1>1, <1>2 DEF Clk, CsrClk, CountClk
<1>4. /\ wb_branch' = FALSE
      /\ wb_branch_nxt' = wb_branch
      /\ wb_nop' = wb_branch /\ wb_nop_more' = wb_nop
  BY <1>1, <1>2, FlushedIsQuiet DEF Clk, SquashClk
<1>5. wb_flush'
  BY <1>4 DEF wb_flush, ex_flush, PipeInv, PcChain
<1>6. ArchRegs' = regs'
  BY <1>5 DEF ArchRegs, RegWrite
<1>7. ~wb_memwr'
  BY <1>1 DEF Clk, StoreClk
<1>8. ArchMem' = dmem'
  BY <1>7 DEF ArchMem
<1>9. ArchPc' = ArchPc
  <2>1. if_pc' = fetch_pc /\ ex_pc' = if_pc
    BY <1>1, <1>2 DEF Clk, FetchClk
  <2> QED
    BY <1>4, <2>1 DEF ArchPc, ex_flush
<1> QED
  BY <1>3, <1>6, <1>8, <1>9, WriteBack

\* The two instructions behind a taken branch, a trap or an interrupt change
\* neither a register, nor memory, nor a CSR, nor the retired count.
THEOREM SquashCorrect ==
  ASSUME WordFunctions(Word) PROVE Spec => SquashedIsSilent
<1> DEFINE Silent == ex_flush => UNCHANGED <<ArchPc, ArchRegs, ArchMem, csr, instret>>
<1>1. TypeOK /\ PipeInv /\ [Next]_vars => [Silent]_vars
  <2> SUFFICES ASSUME TypeOK, PipeInv, Next PROVE Silent
    OBVIOUS
  <2> QED
    BY SquashStep DEF Next
<1>2. Spec => [][Silent]_vars
  BY <1>1, TypeCorrect, PipeCorrect, PTL DEF Spec
<1> QED
  BY <1>2 DEF SquashedIsSilent
=============================================================================
