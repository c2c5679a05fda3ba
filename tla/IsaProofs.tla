----------------------------- MODULE IsaProofs -----------------------------
(***************************************************************************)
(* The pipeline implements the architecture (Testbench, Isa): every clock  *)
(* edge is, seen through the refinement mapping, the whole effect of the   *)
(* instruction at the program's pc, or nothing.                            *)
(***************************************************************************)
EXTENDS TestbenchProofs

-----------------------------------------------------------------------------
(* The vocabulary of the two levels is the same. *)

LEMMA ArchWords ==
  /\ \A a, b : Arch!Plus(a, b) = Plus(a, b)
  /\ \A a : Arch!Next4(a) = Next4(a)
  /\ \A a : Arch!Even(a) = Even(a)
  /\ \A a : Arch!Align4(a) = Align4(a)
  /\ \A a : Arch!Signed(a) = Signed(a)
  /\ \A a : Arch!BitNot(a) = BitNot(a)
  /\ Arch!WordMod = WordMod /\ Arch!Word = Word
BY DEF Arch!Plus, Plus, Arch!WordMod, WordMod, Arch!Next4, Next4, Arch!Even, Even, Arch!Word,
       Word, Arch!Align4, Align4, Arch!Signed, Signed, Arch!BitNot, BitNot

LEMMA ArchLanes ==
  /\ \A w, i : Arch!Lane(w, i) = Lane(w, i)
  /\ \A l : Arch!FromLanes(l) = FromLanes(l)
BY DEF Arch!Lane, Lane, Arch!LaneWeight, LaneWeight, Arch!FromLanes, FromLanes

LEMMA ArchBits ==
  /\ \A w, b : Arch!HasBit(w, b) <=> HasBit(w, b)
  /\ \A w, b : Arch!SetBit(w, b) = SetBit(w, b)
  /\ \A w, b : Arch!ClearBit(w, b) = ClearBit(w, b)
  /\ \A w, to, from : Arch!CopyBit(w, to, from) = CopyBit(w, to, from)
  /\ Arch!MIE = MIE /\ Arch!MPIE = MPIE
  /\ Arch!Irq = Irq
  /\ \A q : Arch!IrqBit(q) = IrqBit(q)
  /\ \A q : Arch!IntCode(q) = IntCode(q) /\ Arch!IntCause(q) = IntCause(q)
BY DEF Arch!HasBit, HasBit, Arch!SetBit, SetBit, Arch!ClearBit, ClearBit, Arch!CopyBit, CopyBit,
       Arch!MIE, MIE, Arch!MPIE, MPIE, Arch!Irq, Irq, Arch!IrqBit, IrqBit, Arch!IntCode, IntCode,
       Arch!IntCause, IntCause, Arch!WordMod, WordMod

LEMMA ArchSets ==
  /\ Arch!Reg = Reg /\ Arch!CsrReg = CsrReg /\ Arch!RESETVEC = RESETVEC
  /\ Arch!ZeroInsn = ZeroInsn
  /\ \A i : Arch!IsInsn(i) <=> IsInsn(i)
<1>1. Arch!Reg = Reg /\ Arch!CsrReg = CsrReg /\ Arch!Word = Word
  BY ArchWords DEF Arch!Reg, Reg, Arch!CsrReg, CsrReg
<1>2. Arch!Opcode = Opcode /\ Arch!AluFn = AluFn
  BY DEF Arch!Opcode, Opcode, Arch!AluFn, AluFn
<1>3. Arch!Funct = Funct
  BY DEF Arch!Funct, Funct, Arch!BranchFn, BranchFn, Arch!LoadFn, LoadFn,
         Arch!StoreFn, StoreFn, Arch!CsrFn, CsrFn, Arch!AluFn, AluFn
<1>4. Arch!CsrAddr = CsrAddr
  BY DEF Arch!CsrAddr, CsrAddr, Arch!CsrReg, CsrReg, Arch!CsrConst, CsrConst,
         Arch!CsrCount, CsrCount
<1>5. \A op : Arch!FunctOf(op) = FunctOf(op)
  BY DEF Arch!FunctOf, FunctOf, Arch!BranchFn, BranchFn, Arch!LoadFn, LoadFn,
         Arch!StoreFn, StoreFn, Arch!CsrFn, CsrFn, Arch!AluFn, AluFn
<1>6. \A i : Arch!IsInsn(i) <=> IsInsn(i)
  BY <1>1, <1>2, <1>3, <1>4, <1>5 DEF Arch!IsInsn, IsInsn, Arch!Insn, Insn
<1> QED
  BY <1>1, <1>6 DEF Arch!RESETVEC, RESETVEC, Arch!ZeroInsn, ZeroInsn

LEMMA ArchCauses ==
  /\ Arch!TRAP_INST_ALIGN = TRAP_INST_ALIGN /\ Arch!TRAP_INST_ILL = TRAP_INST_ILL
  /\ Arch!TRAP_BREAK = TRAP_BREAK /\ Arch!TRAP_ECALL = TRAP_ECALL
  /\ Arch!TRAP_LD_ALIGN = TRAP_LD_ALIGN /\ Arch!TRAP_ST_ALIGN = TRAP_ST_ALIGN
BY DEF Arch!TRAP_INST_ALIGN, TRAP_INST_ALIGN, Arch!TRAP_INST_ILL, TRAP_INST_ILL,
       Arch!TRAP_BREAK, TRAP_BREAK, Arch!TRAP_ECALL, TRAP_ECALL,
       Arch!TRAP_LD_ALIGN, TRAP_LD_ALIGN, Arch!TRAP_ST_ALIGN, TRAP_ST_ALIGN

-----------------------------------------------------------------------------
(* The edge on which the instruction in the execute stage takes effect. *)

Commit(irq) == TypeOK /\ PipeInv /\ Cycle(irq) /\ pipefill = 2 /\ ~ex_flush

\* The encodings on which the core departs from the architecture are excluded: a
\* store with an unassigned FUNC3, whose trap comes too late for its write, and
\* a SYSTEM instruction with FUNC3 = 4, which the core executes.
Assigned(i) == i.f = "bad" => i.op \notin {"STORE", "SYSTEM"}

LEMMA CommitPc ==
  ASSUME NEW irq, Commit(irq)
  PROVE  /\ ~stall_r /\ ~stall /\ ~wb_trap_nop
         /\ ~wb_branch /\ ~wb_branch_nxt /\ ~wb_nop
         /\ ArchPc = ex_pc
         /\ ex_insn = Arch!Fetch(ex_pc) /\ IsInsn(ex_insn)
         /\ if_pc = Next4(ex_pc) /\ fetch_pc = Next4(if_pc)
         /\ ex_mem2reg = Is({"LOAD"})
<1>1. ~wb_branch /\ ~wb_branch_nxt
  BY DEF Commit, ex_flush
<1>2. ~wb_nop /\ ~wb_trap_nop /\ if_pc = Next4(ex_pc) /\ fetch_pc = Next4(if_pc)
  BY <1>1 DEF Commit, PipeInv, PcChain
<1>3. ~stall_r /\ ~stall
  BY DEF Commit, PipeInv, BootOrder
<1>4. ex_insn = ImemWord(ex_pc)
  BY DEF Commit, PipeInv, FetchMatches
<1>5. ex_insn = Arch!Fetch(ex_pc)
  BY <1>4, ArchSets DEF Arch!Fetch, ImemWord
<1>6. IsInsn(ex_insn)
  BY <1>4, ImemWordInsn DEF Commit
<1>7. ex_mem2reg = Is({"LOAD"})
  <2>1. ex_mem2reg = (ex_insn.op = "LOAD")
    BY DEF Commit, PipeInv, FetchMatches
  <2>2. (ex_insn.op = "LOAD") <=> Is({"LOAD"})
    BY DEF Is
  <2> QED
    BY <2>1, <2>2 DEF Is
<1> QED
  BY <1>1, <1>2, <1>3, <1>5, <1>6, <1>7 DEF ArchPc

\* The registers that stay what they are on a commit edge, and the others.
LEMMA CommitEdge ==
  ASSUME NEW irq, Commit(irq)
  PROVE  /\ ~stall_r' /\ ~wb_flush'
         /\ wb_branch_nxt' = FALSE
         /\ wb_branch' = (branch_taken \/ ex_trap(irq))
         /\ wb_trap_nop' = ex_trap_nop
         /\ ex_pc' = Next4(ex_pc)
         /\ fetch_pc' = IF ex_trap(irq) THEN ex_trap_pc(irq) ELSE Even(next_pc)
         /\ csr' = CsrNext(irq)
         /\ instret' = (instret + 1) % CountMod
         /\ imem' = imem /\ halted = FALSE
         /\ halted' = (ex_trap(irq) /\ Align4(csr["mtvec"]) = 0)
<1>1. Clk(stall, irq) /\ imem' = imem /\ halted = FALSE /\ halted' = Finish(irq)
  BY DEF Commit, Cycle, TypeOK
<1>2. ~stall_r /\ ~ex_flush /\ pipefill = 2
  BY CommitPc DEF Commit
<1>3. FetchClk(stall) /\ FetchPcClk(irq) /\ SquashClk(irq) /\ CsrClk(irq) /\ CountClk
  BY <1>1 DEF Clk
<1>4. /\ wb_branch' = (branch_taken \/ ex_trap(irq)) /\ wb_branch_nxt' = wb_branch
      /\ wb_nop' = wb_branch /\ wb_nop_more' = wb_nop /\ wb_trap_nop' = ex_trap_nop
  BY <1>2, <1>3 DEF SquashClk
<1>5. wb_branch_nxt' = FALSE /\ ~wb_flush'
  BY <1>4, CommitPc DEF wb_flush, Commit, TypeOK, CoreTypeOK
<1>6. ~stall_r' /\ ex_pc' = Next4(ex_pc)
  BY <1>3, CommitPc DEF FetchClk
<1>7. fetch_pc' = IF ex_trap(irq) THEN ex_trap_pc(irq) ELSE Even(next_pc)
  BY <1>2, <1>3 DEF FetchPcClk
<1>8. csr' = CsrNext(irq) /\ instret' = (instret + 1) % CountMod
  BY <1>2, <1>3 DEF CsrClk, CountClk
<1>9. halted' = (ex_trap(irq) /\ Align4(csr["mtvec"]) = 0)
  BY <1>1, <1>2, Zenon DEF Finish
<1> QED
  BY <1>1, <1>4, <1>5, <1>6, <1>7, <1>8, <1>9

\* Where the program goes on.
LEMMA CommitNext ==
  ASSUME NEW irq, Commit(irq)
  PROVE  ArchPc' = IF ex_trap(irq) THEN ex_trap_pc(irq)
                   ELSE IF branch_taken THEN Even(next_pc) ELSE Next4(ex_pc)
<1>1. CASE ex_trap(irq) \/ branch_taken
  <2>1. wb_branch'
    BY <1>1, CommitEdge
  <2>2. ArchPc' = fetch_pc'
    BY <2>1 DEF ArchPc
  <2> QED
    BY <1>1, <2>2, CommitEdge
<1>2. CASE ~ex_trap(irq) /\ ~branch_taken
  <2>1. ~wb_branch' /\ ~wb_branch_nxt'
    BY <1>2, CommitEdge
  <2> QED
    BY <1>2, <2>1, CommitEdge DEF ArchPc
<1> QED
  BY <1>1, <1>2

\* Forwarding: the operands are the values of the registers as the program
\* sees them.
LEMMA CommitRead ==
  ASSUME NEW irq, Commit(irq), NEW r \in Reg PROVE reg_rdata(r) = Arch!Val(r)
<1>1. regs \in [Reg -> Word] /\ wb.dst_sel \in Reg
  BY DEF Commit, TypeOK, CoreTypeOK, WbResult
<1>2. RegWrite <=> wb.alu2reg /\ ~wb_flush /\ wb.dst_sel # 0
  BY CommitPc DEF RegWrite
<1> QED
  BY <1>1, <1>2 DEF reg_rdata, Arch!Val, ArchRegs

LEMMA CommitOperands ==
  ASSUME NEW irq, Commit(irq)
  PROVE  /\ alu_op1 = Arch!Val(ex_insn.rs1)
         /\ alu_op2 = IF Is({"JALR", "LOAD", "ARITHI"}) THEN ex_insn.imm
                                                       ELSE Arch!Val(ex_insn.rs2)
         /\ ex_memaddr = Arch!Addr(ex_insn)
<1>1. ex_insn.rs1 \in Reg /\ ex_insn.rs2 \in Reg
  BY ExFields DEF Commit, Fields
<1>2. alu_op1 = Arch!Val(ex_insn.rs1)
  BY <1>1, CommitRead DEF alu_op1
<1>3. reg_rdata(ex_insn.rs2) = Arch!Val(ex_insn.rs2)
  BY <1>1, CommitRead
<1> QED
  BY <1>2, <1>3, ArchWords DEF alu_op2, ex_imm, ex_memaddr, Arch!Addr

-----------------------------------------------------------------------------
(* What the edge does to the registers and to memory. *)

\* The instructions that write their destination register with ex_result.
ResultToReg == ex_alu \/ ex_csr \/ Is({"LUI", "AUIPC", "JAL", "JALR"})

LEMMA CommitWb ==
  ASSUME NEW irq, Commit(irq)
  PROVE  /\ wb'.alu2reg <=> ResultToReg \/ (ex_mem2reg /\ ~ex_ld_align_excp)
         /\ wb'.result = ex_result /\ wb'.dst_sel = ex_insn.rd
         /\ (wb'.mem2reg <=> ex_mem2reg) /\ wb'.raddr = ex_memaddr % 4
         /\ wb'.alu_op = ex_insn.f
         /\ regs' = ArchRegs /\ ArchRegs \in [Reg -> Word]
<1>1. ResultClk /\ ~stall_r
  BY CommitPc DEF Commit, Cycle, Clk
<1> DEFINE a2r == \/ ex_alu \/ ex_csr \/ Is({"LUI", "AUIPC", "JAL", "JALR"})
                  \/ ex_mem2reg /\ ~ex_ld_align_excp
<1>2. wb' = [alu2reg |-> a2r, result |-> ex_result, dst_sel |-> ex_insn.rd,
             mem2reg |-> ex_mem2reg, raddr |-> ex_memaddr % 4, alu_op |-> ex_insn.f]
  BY <1>1 DEF ResultClk
<1>3. a2r <=> (ResultToReg \/ (ex_mem2reg /\ ~ex_ld_align_excp))
  BY DEF ResultToReg
<1>4. regs' = ArchRegs
  BY WriteBack DEF Commit
<1>5. ArchRegs \in [Reg -> Word]
  <2>1. regs \in [Reg -> Word] /\ wb_value \in Word
    BY WbValueWord DEF Commit, TypeOK, CoreTypeOK
  <2> QED
    BY <2>1 DEF ArchRegs
<1> HIDE DEF a2r
<1> QED
  BY <1>2, <1>3, <1>4, <1>5

LEMMA CommitResult ==
  ASSUME NEW irq, Commit(irq), ResultToReg, ~ex_trap_nop
  PROVE  Arch!SetReg(ex_insn.rd, ex_result)
<1>1. ~ex_mem2reg
  <2>1. ~Is({"LOAD"})
    BY DEF ResultToReg, ex_alu, ex_csr, Is
  <2> QED
    BY <2>1, CommitPc
<1>2. wb'.alu2reg /\ ~wb'.mem2reg
  BY <1>1, CommitWb
<1>3. RegWrite' <=> ex_insn.rd # 0
  BY <1>2, CommitWb, CommitEdge DEF RegWrite
<1>4. wb_value' = ex_result
  BY <1>2, CommitWb DEF wb_value
<1> QED
  BY <1>3, <1>4, CommitWb DEF Arch!SetReg, ArchRegs

LEMMA CommitNoReg ==
  ASSUME NEW irq, Commit(irq), ex_trap_nop \/ (~ResultToReg /\ ~Is({"LOAD"}))
  PROVE  ArchRegs' = ArchRegs
<1>1. ~RegWrite'
  BY CommitWb, CommitEdge, CommitPc DEF RegWrite
<1> QED
  BY <1>1, CommitWb DEF ArchRegs

LEMMA CommitNoMem ==
  ASSUME NEW irq, Commit(irq), ~Is({"STORE"}) \/ ex_st_align_excp
  PROVE  ArchMem' = ArchMem
<1>1. ~wb_memwr'
  BY DEF Commit, Cycle, Clk, StoreClk
<1> QED
  BY <1>1, WriteBack DEF Commit, ArchMem

LEMMA ArchMemType ==
  ASSUME TypeOK PROVE ArchMem \in [0 .. NMem - 1 -> Word]
<1>1. /\ dmem \in [0 .. NMem - 1 -> Word]
      /\ wb_store.waddr \in Word /\ wb_store.wdata \in Word
  BY DEF TypeOK, CoreTypeOK, WbStore
<1>2. Dmem!Adr(wb_store.waddr) \in 0 .. NMem - 1
  BY <1>1, CellIndex
<1>3. Merge(dmem[Dmem!Adr(wb_store.waddr)], wb_store.wstrb, wb_store.wdata) \in Word
  BY <1>1, <1>2, MergeWord
<1> QED
  BY <1>1, <1>2, <1>3 DEF ArchMem

\* A load returns what memory holds once the store in front of it is done.
LEMMA CommitRdata ==
  ASSUME NEW irq, Commit(irq), Is({"LOAD"})
  PROVE  dmem_rdata' = ArchMem[Arch!Cell(ex_memaddr)] /\ dmem_rdata' \in Word
<1>1. Dmem!ReadClk(ex_mem2reg, ex_memaddr, wb_memwr, wb_store.waddr, wb_store.wdata,
                   wb_store.wstrb)
  BY DEF Commit, Cycle, Dmem!Clk
<1>2. ex_mem2reg /\ ex_memaddr \in Word /\ dmem \in [0 .. NMem - 1 -> Word]
  BY CommitPc, MemaddrWord DEF Commit, TypeOK
<1>3. Dmem!Adr(ex_memaddr) \in 0 .. NMem - 1 /\ Arch!Cell(ex_memaddr) = Dmem!Adr(ex_memaddr)
  BY <1>2, CellIndex DEF Arch!Cell, Dmem!Adr
<1>4. dmem_rdata' = ArchMem[Dmem!Adr(ex_memaddr)]
  <2> DEFINE r == Dmem!Adr(ex_memaddr)
             w == Dmem!Adr(wb_store.waddr)
  <2>1. dmem_rdata' = IF wb_memwr /\ r = w THEN Merge(dmem[r], wb_store.wstrb, wb_store.wdata)
                                           ELSE dmem[r]
    BY <1>1, <1>2 DEF Dmem!ReadClk
  <2>2. ArchMem = IF wb_memwr THEN [dmem EXCEPT ![w] = Merge(dmem[w], wb_store.wstrb, wb_store.wdata)]
                              ELSE dmem
    BY DEF ArchMem
  <2>3. r \in 0 .. NMem - 1
    BY <1>3
  <2> HIDE DEF r, w
  <2>4. dmem_rdata' = ArchMem[r]
    BY <1>2, <2>1, <2>2, <2>3
  <2> QED
    BY <2>4 DEF r
<1> QED
  BY <1>3, <1>4, ArchMemType DEF Commit

-----------------------------------------------------------------------------
(* Loads: the alignment of the core picks the bytes at the address. *)

LEMMA HalfLanes ==
  ASSUME NEW w \in Word, NEW k \in {0, 2}
  PROVE  Lane(w, k) + ByteMod * Lane(w, k + 1) = HalfOf(w, k \div 2 = 1)
<1>1. CASE k = 0
  <2>1. ~(k \div 2 = 1) /\ k + 1 = 1
    BY <1>1
  <2> QED
    BY <1>1, <2>1, HalvesOfWord DEF HalfOf
<1>2. CASE k = 2
  <2>1. k \div 2 = 1 /\ k + 1 = 3
    BY <1>2
  <2> QED
    BY <1>2, <2>1, HalvesOfWord DEF HalfOf
<1> QED
  BY <1>1, <1>2

\* The function codes of a load or store that raises no exception, and the
\* alignment of its address.
LEMMA CommitAccess ==
  ASSUME NEW irq, Commit(irq), ~ex_trap_nop
  PROVE  /\ Is({"LOAD"}) => ex_insn.f \in LoadFn
         /\ Is({"STORE"}) => ex_insn.f \in StoreFn
         /\ Is({"LOAD"}) /\ ex_insn.f \in {"LH", "LHU"} => ex_memaddr % 2 = 0
         /\ Is({"LOAD"}) /\ ex_insn.f = "LW" => ex_memaddr % 4 = 0
         /\ Is({"STORE"}) /\ ex_insn.f = "SH" => ex_memaddr % 2 = 0
         /\ Is({"STORE"}) /\ ex_insn.f = "SW" => ex_memaddr % 4 = 0
<1>1. ~ex_illegal /\ ~ex_ld_align_excp /\ ~ex_st_align_excp /\ ~ex_flush
  BY DEF ex_trap_nop, ex_inst_ill_excp, Commit
<1>2. IsInsn(ex_insn) /\ ex_mem2reg = Is({"LOAD"})
  BY CommitPc
<1>3. Is({"LOAD"}) => ex_insn.f \in LoadFn
  BY <1>1, <1>2 DEF IsInsn, FunctOf, Is, ex_illegal
<1>4. Is({"STORE"}) => ex_insn.f \in StoreFn
  BY <1>1, <1>2 DEF IsInsn, FunctOf, Is, ex_illegal
<1> QED
  BY <1>1, <1>2, <1>3, <1>4 DEF ex_ld_align_excp, ex_st_align_excp

LEMMA AddrLane ==
  ASSUME NEW a \in Word
  PROVE  /\ a \in Nat /\ a % 4 \in 0 .. 3
         /\ a % 2 = 0 => a % 4 \in {0, 2}
BY WordModNat DEF Word

LEMMA CommitLoad ==
  ASSUME NEW irq, Commit(irq), Is({"LOAD"}), ~ex_trap_nop
  PROVE  Arch!SetReg(ex_insn.rd, Arch!Loaded(ex_insn.f, ex_memaddr))
<1> DEFINE w == dmem_rdata'
           k == ex_memaddr % 4
           f == ex_insn.f
<1>1. w = ArchMem[Arch!Cell(ex_memaddr)] /\ w \in Word
  BY CommitRdata
<1>2. ex_memaddr \in Word /\ ex_mem2reg
  BY MemaddrWord, CommitPc DEF Commit
<1>3. k \in 0 .. 3
  BY <1>2, AddrLane
<1>4. wb'.alu_op = f /\ wb'.raddr = k /\ wb'.mem2reg /\ wb'.dst_sel = ex_insn.rd
  BY <1>2, CommitWb
<1>5. f \in LoadFn /\ (f \in {"LH", "LHU"} => k \in {0, 2})
  BY <1>2, CommitAccess, AddrLane
<1> DEFINE b == Lane(w, k)
           h == HalfOf(w, k \div 2 = 1)
<1>6. b \in Nat /\ b = Lane(w, k + 0)
  <2>1. k + 0 = k
    BY <1>3
  <2>2. b \in Byte
    BY <1>1, <1>3, LaneByte
  <2> QED
    BY <2>1, <2>2, Srv32Assumption DEF Byte
<1>7. f \in {"LH", "LHU"} => h = Lane(w, k + 0) + ByteMod * Lane(w, k + 1)
  BY <1>1, <1>5, <1>6, HalfLanes
<1>8. h \in Nat
  BY <1>1, HalfWord
<1>9. wb_rdata' = CASE f = "LB"  -> SignByte(b)
                    [] f = "LH"  -> SignHalf(h)
                    [] f = "LW"  -> w
                    [] f = "LBU" -> b
                    [] f = "LHU" -> h
                    [] OTHER     -> 0
  <2> HIDE DEF f, k
  <2> QED
    BY <1>4 DEF wb_rdata, Lane, HalfOf, SignByte, SignHalf, LaneWeight, WordMod
<1>10. Arch!Loaded(f, ex_memaddr) =
         LET half == Lane(w, k + 0) + ByteMod * Lane(w, k + 1)
         IN CASE f = "LB"  -> IF 2 * Lane(w, k + 0) >= ByteMod
                                THEN Lane(w, k + 0) + WordMod - ByteMod ELSE Lane(w, k + 0)
              [] f = "LBU" -> Lane(w, k + 0)
              [] f = "LH"  -> IF 2 * half >= ByteMod * ByteMod
                                THEN half + WordMod - ByteMod * ByteMod ELSE half
              [] f = "LHU" -> half
              [] f = "LW"  -> w
  BY <1>1, ArchLanes, ArchWords DEF Arch!Loaded
<1>11. WordMod \in Nat /\ ByteMod \in Nat /\ ByteMod * ByteMod \in Nat
  BY WordModNat, Srv32Assumption
<1>12. SignByte(b) = IF 2 * b >= ByteMod THEN b + WordMod - ByteMod ELSE b
  BY <1>6, <1>11 DEF SignByte
<1>13. SignHalf(h) = IF 2 * h >= ByteMod * ByteMod THEN h + WordMod - ByteMod * ByteMod ELSE h
  <2> DEFINE b2 == ByteMod * ByteMod
  <2>1. SignHalf(h) = IF 2 * h >= b2 THEN h + (WordMod - b2) ELSE h
    BY DEF SignHalf
  <2> HIDE DEF b2, h
  <2>2. SignHalf(h) = IF 2 * h >= b2 THEN h + WordMod - b2 ELSE h
    BY <1>8, <1>11, <2>1 DEF b2
  <2> QED
    BY <2>2 DEF b2
<1> HIDE DEF b, h, w, k, f
<1>14. wb_rdata' = Arch!Loaded(f, ex_memaddr)
  BY <1>5, <1>6, <1>7, <1>9, <1>10, <1>12, <1>13 DEF LoadFn
<1>15. wb_value' = Arch!Loaded(f, ex_memaddr)
  BY <1>4, <1>14 DEF wb_value
<1>16. RegWrite' <=> ex_insn.rd # 0
  <2>1. wb'.alu2reg /\ ~ex_trap_nop
    BY <1>2, CommitWb DEF ex_trap_nop
  <2> QED
    BY <1>4, <2>1, CommitEdge DEF RegWrite
<1>17. ArchRegs' = IF ex_insn.rd = 0 THEN ArchRegs
                   ELSE [ArchRegs EXCEPT ![ex_insn.rd] = Arch!Loaded(f, ex_memaddr)]
  BY <1>4, <1>15, <1>16, CommitWb DEF ArchRegs
<1> QED
  BY <1>17 DEF Arch!SetReg, f

-----------------------------------------------------------------------------
(* Stores: strobes and replicated data write the bytes at the address. *)

LEMMA StoreMerge ==
  ASSUME NEW old \in Word, NEW v \in Word, NEW a \in Word, NEW f \in StoreFn,
         f = "SH" => a % 2 = 0, f = "SW" => a % 4 = 0
  PROVE  Merge(old, StoreStrb(f, a), StoreData(f, v)) =
           FromLanes([l \in 0 .. 3 |-> IF l \in (a % 4) .. (a % 4) + Arch!Size(f) - 1
                                         THEN Lane(v, l - (a % 4)) ELSE Lane(old, l)])
<1> DEFINE k == a % 4
           d == StoreData(f, v)
           s == StoreStrb(f, a)
           n == Arch!Size(f)
<1>1. k \in 0 .. 3 /\ (f = "SH" => k \in {0, 2}) /\ (f = "SW" => k = 0)
  BY AddrLane
<1>2. \A i \in 0 .. 3 : Lane(v, i) \in Byte
  BY LaneByte
<1>3. CASE f = "SB"
  <2>1. s = {k} /\ n = 1
    BY <1>3 DEF StoreStrb, Arch!Size
  <2>2. \A i \in 0 .. 3 : Lane(d, i) = Lane(v, 0)
    <3> DEFINE l == [i \in 0 .. 3 |-> Lane(v, 0)]
    <3>1. \A i \in 0 .. 3 : l[i] \in Byte /\ l[i] = Lane(v, 0)
      BY <1>2
    <3>2. d = FromLanes(l)
      BY <1>3 DEF StoreData
    <3> HIDE DEF l, d
    <3> QED
      BY <3>1, <3>2, LaneOfLanes
  <2>3. \A i \in 0 .. 3 : /\ i \in s <=> i \in k .. k + n - 1
                          /\ i \in s => i - k = 0
    BY <1>1, <2>1
  <2> HIDE DEF k, d, s, n
  <2>4. \A i \in 0 .. 3 : (IF i \in s THEN Lane(d, i) ELSE Lane(old, i))
                          = (IF i \in k .. k + n - 1 THEN Lane(v, i - k) ELSE Lane(old, i))
    BY <2>2, <2>3
  <2> QED
    BY <2>4 DEF Merge, k, d, s, n
<1>4. CASE f = "SH"
  <2>1. s = (IF k \div 2 = 1 THEN {2, 3} ELSE {0, 1}) /\ n = 2
    BY <1>4 DEF StoreStrb, Arch!Size
  <2>2. \A i \in 0 .. 3 : Lane(d, i) = Lane(v, i % 2)
    <3> DEFINE l == [i \in 0 .. 3 |-> Lane(v, i % 2)]
    <3>1. \A i \in 0 .. 3 : i % 2 \in 0 .. 3
      OBVIOUS
    <3>2. \A i \in 0 .. 3 : l[i] \in Byte /\ l[i] = Lane(v, i % 2)
      BY <1>2, <3>1
    <3>3. d = FromLanes(l)
      BY <1>4 DEF StoreData
    <3> HIDE DEF l, d
    <3> QED
      BY <3>2, <3>3, LaneOfLanes
  <2>3. \A i \in 0 .. 3 : /\ i \in s <=> i \in k .. k + n - 1
                          /\ i \in s => i - k = i % 2
    <3>1. CASE k = 0
      <4>1. s = {0, 1}
        BY <2>1, <3>1
      <4> HIDE DEF k, s
      <4> QED
        BY <2>1, <3>1, <4>1
    <3>2. CASE k = 2
      <4>1. s = {2, 3}
        BY <2>1, <3>2
      <4> HIDE DEF k, s
      <4> QED
        BY <2>1, <3>2, <4>1
    <3> QED
      BY <1>1, <1>4, <3>1, <3>2
  <2> HIDE DEF k, d, s, n
  <2>4. \A i \in 0 .. 3 : (IF i \in s THEN Lane(d, i) ELSE Lane(old, i))
                          = (IF i \in k .. k + n - 1 THEN Lane(v, i - k) ELSE Lane(old, i))
    BY <2>2, <2>3
  <2> QED
    BY <2>4 DEF Merge, k, d, s, n
<1>5. CASE f = "SW"
  <2>1. s = 0 .. 3 /\ n = 4 /\ k = 0 /\ d = v
    BY <1>1, <1>5 DEF StoreStrb, StoreData, Arch!Size
  <2> HIDE DEF k, d, s, n
  <2>2. \A i \in 0 .. 3 : i \in s /\ i \in k .. k + n - 1 /\ i - k = i
    BY <2>1
  <2>3. \A i \in 0 .. 3 : (IF i \in s THEN Lane(d, i) ELSE Lane(old, i))
                          = (IF i \in k .. k + n - 1 THEN Lane(v, i - k) ELSE Lane(old, i))
    BY <2>1, <2>2
  <2> QED
    BY <2>3 DEF Merge, k, d, s, n
<1> QED
  BY <1>3, <1>4, <1>5 DEF StoreFn

LEMMA CommitStore ==
  ASSUME NEW irq, Commit(irq), Is({"STORE"}), ~ex_trap_nop
  PROVE  ArchMem' = Arch!Stored(ex_insn.f, ex_memaddr, alu_op2)
<1> DEFINE a == ex_memaddr
           c == Arch!Cell(ex_memaddr)
           f == ex_insn.f
<1>1. wb_memwr' /\ ~stall_r
  BY CommitPc DEF Commit, Cycle, Clk, StoreClk, ex_trap_nop
<1>2. /\ wb_store'.waddr = a /\ wb_store'.wstrb = StoreStrb(f, a)
      /\ wb_store'.wdata = StoreData(f, alu_op2)
  BY <1>1 DEF Commit, Cycle, Clk, StoreClk
<1>3. dmem' = ArchMem
  BY WriteBack DEF Commit
<1>4. a \in Word /\ alu_op2 \in Word
  BY MemaddrWord, OperandsWord DEF Commit
<1>5. Dmem!Adr(a) = c /\ c \in 0 .. NMem - 1
  BY <1>4, CellIndex DEF Arch!Cell, Dmem!Adr
<1>6. (Dmem!Adr(wb_store.waddr))' = Dmem!Adr(a)
  BY <1>2 DEF Dmem!Adr
<1>7. ArchMem' = [dmem' EXCEPT ![(Dmem!Adr(wb_store.waddr))'] =
                    Merge(@, wb_store'.wstrb, wb_store'.wdata)]
  BY <1>1 DEF ArchMem, Merge, FromLanes, Lane, LaneWeight
<1>8. ArchMem' = [ArchMem EXCEPT ![c] = Merge(ArchMem[c], StoreStrb(f, a), StoreData(f, alu_op2))]
  BY <1>2, <1>3, <1>5, <1>6, <1>7
<1>9. ArchMem[c] \in Word
  BY <1>5, ArchMemType DEF Commit
<1>10. Merge(ArchMem[c], StoreStrb(f, a), StoreData(f, alu_op2)) =
         FromLanes([l \in 0 .. 3 |-> IF l \in (a % 4) .. (a % 4) + Arch!Size(f) - 1
                                       THEN Lane(alu_op2, l - (a % 4)) ELSE Lane(ArchMem[c], l)])
  BY <1>4, <1>9, CommitAccess, StoreMerge
<1> HIDE DEF a, c, f
<1>11. Arch!Stored(f, a, alu_op2) =
         [ArchMem EXCEPT ![c] =
            FromLanes([l \in 0 .. 3 |-> IF l \in (a % 4) .. (a % 4) + Arch!Size(f) - 1
                                          THEN Lane(alu_op2, l - (a % 4)) ELSE Lane(ArchMem[c], l)])]
  <2>1. Arch!Cell(a) = c
    BY DEF a, c
  <2> QED
    BY <2>1, ArchLanes DEF Arch!Stored
<1> QED
  BY <1>8, <1>10, <1>11 DEF a, f

-----------------------------------------------------------------------------
(* Both levels see the same exceptions and the same targets. *)

Regular(irq) == Commit(irq) /\ ex_pc % 4 = 0 /\ Assigned(ex_insn)

LEMMA AlignedPcs ==
  ASSUME NEW irq, Regular(irq)
  PROVE  /\ Even(ex_pc) = ex_pc /\ Even(Next4(ex_pc)) = Next4(ex_pc)
         /\ Next4(ex_pc) % 4 = 0 /\ Next4(fetch_pc) % 4 = 0 /\ fetch_pc % 4 = 0
<1>1. ex_pc \in Word /\ ex_pc % 4 = 0
  BY DEF Regular, Commit, TypeOK, CoreTypeOK
<1>2. Next4(ex_pc) \in Word /\ Next4(ex_pc) % 4 = 0 /\ Even(ex_pc) = ex_pc
  BY <1>1, AlignedNext
<1>3. fetch_pc = Next4(Next4(ex_pc))
  BY CommitPc DEF Regular
<1>4. fetch_pc \in Word /\ fetch_pc % 4 = 0 /\ Even(Next4(ex_pc)) = Next4(ex_pc)
  BY <1>2, <1>3, AlignedNext
<1> QED
  BY <1>2, <1>4, AlignedNext

LEMMA IllegalIff ==
  ASSUME NEW irq, Regular(irq) PROVE ex_inst_ill_excp <=> Arch!Illegal(ex_insn)
<1>1. IsInsn(ex_insn) /\ Assigned(ex_insn) /\ ~ex_flush
  BY CommitPc DEF Regular, Commit
<1>2. ex_insn.f = "bad" => ex_insn.op \in {"BRANCH", "LOAD", "ARITHR"}
  BY <1>1 DEF IsInsn, Insn, Opcode, FunctOf, AluFn, Assigned
<1> QED
  BY <1>1, <1>2 DEF ex_inst_ill_excp, ex_ill_branch, ex_ill_csr, ex_illegal, ex_csr, Is,
                    Arch!Illegal

LEMMA BranchIff ==
  ASSUME NEW irq, Commit(irq), Is({"BRANCH"}), ex_insn.f \in BranchFn
  PROVE  BranchCond <=> Arch!Holds(ex_insn.f, Arch!Val(ex_insn.rs1), Arch!Val(ex_insn.rs2))
<1> DEFINE a == Arch!Val(ex_insn.rs1)
           b == Arch!Val(ex_insn.rs2)
<1>1. alu_op1 = a /\ alu_op2 = b
  BY CommitOperands DEF Is
<1>2. a \in Word /\ b \in Word
  BY <1>1, OperandsWord DEF Commit
<1>3. result_subs = Signed(a) - Signed(b) /\ result_subu = a - b
  BY <1>1 DEF result_subs, result_subu
<1> HIDE DEF a, b
<1>4. a \in Int /\ b \in Int
  BY <1>2, WordModNat DEF Word
<1>5. /\ Signed(a) \in Int /\ Signed(b) \in Int
      /\ result_subs = 0 <=> a = b
      /\ result_subs < 0 <=> Signed(a) < Signed(b)
      /\ result_subu < 0 <=> a < b
  BY <1>2, <1>3, SignedDifference
<1>6. BranchCond <=> Arch!Holds(ex_insn.f, a, b)
  <2>1. CASE ex_insn.f = "BEQ"
    BY <1>4, <1>5, <2>1, ArchWords DEF BranchCond, Arch!Holds
  <2>2. CASE ex_insn.f = "BNE"
    BY <1>4, <1>5, <2>2, ArchWords DEF BranchCond, Arch!Holds
  <2>3. CASE ex_insn.f = "BLT"
    BY <1>4, <1>5, <2>3, ArchWords DEF BranchCond, Arch!Holds
  <2>4. CASE ex_insn.f = "BGE"
    BY <1>4, <1>5, <2>4, ArchWords DEF BranchCond, Arch!Holds
  <2>5. CASE ex_insn.f = "BLTU"
    BY <1>4, <1>5, <2>5, ArchWords DEF BranchCond, Arch!Holds
  <2>6. CASE ex_insn.f = "BGEU"
    BY <1>4, <1>5, <2>6, ArchWords DEF BranchCond, Arch!Holds
  <2> QED
    BY <2>1, <2>2, <2>3, <2>4, <2>5, <2>6 DEF BranchFn
<1> QED
  BY <1>6 DEF a, b

\* A legal instruction redirects fetch to the target the architecture gives it,
\* or lets it go on.
Redirects == Is({"JAL", "JALR"}) \/ (Is({"BRANCH"}) /\ BranchCond)

LEMMA TargetIs ==
  ASSUME NEW irq, Regular(irq), ~ex_inst_ill_excp
  PROVE  /\ branch_taken <=> Redirects
         /\ Redirects => next_pc = Arch!Target(ex_insn)
         /\ ~Redirects => next_pc = Next4(fetch_pc) /\ Arch!Target(ex_insn) = Next4(ex_pc)
<1>1. Commit(irq) /\ ~ex_flush /\ ~ex_ill_branch /\ IsInsn(ex_insn) /\ ArchPc = ex_pc
  BY CommitPc DEF Regular, Commit, ex_inst_ill_excp
<1>2. branch_taken <=> Redirects
  BY <1>1 DEF branch_taken, Redirects
<1>3. Is({"BRANCH"}) => ex_insn.f \in BranchFn
  BY <1>1 DEF IsInsn, FunctOf, Is, ex_ill_branch
<1>4. Is({"BRANCH"}) =>
        (BranchCond <=> Arch!Holds(ex_insn.f, Arch!Val(ex_insn.rs1), Arch!Val(ex_insn.rs2)))
  BY <1>1, <1>3, BranchIff
<1>5. alu_op1 = Arch!Val(ex_insn.rs1)
  BY <1>1, CommitOperands
<1>6. Arch!Target(ex_insn) =
        CASE Is({"JAL"})  -> Even(Plus(ex_pc, ex_imm))
          [] Is({"JALR"}) -> Even(Plus(alu_op1, ex_imm))
          [] Is({"BRANCH"}) /\ Arch!Holds(ex_insn.f, Arch!Val(ex_insn.rs1), Arch!Val(ex_insn.rs2))
               -> Plus(ex_pc, ex_imm)
          [] OTHER -> Next4(ex_pc)
  BY <1>1, <1>5, ArchWords DEF Arch!Target, Is, ex_imm
<1>7. Redirects => next_pc = Arch!Target(ex_insn)
  BY <1>1, <1>4, <1>6 DEF Redirects, next_pc, Is
<1>8. ~Redirects => next_pc = Next4(fetch_pc) /\ Arch!Target(ex_insn) = Next4(ex_pc)
  BY <1>1, <1>4, <1>6 DEF Redirects, next_pc, Is
<1> QED
  BY <1>2, <1>7, <1>8

LEMMA TargetMisalignedIff ==
  ASSUME NEW irq, Regular(irq), ~ex_inst_ill_excp
  PROVE  /\ ex_inst_align_excp <=> Arch!TargetMisaligned(ex_insn)
         /\ ex_inst_align_excp => next_pc = Arch!Target(ex_insn)
<1>1. ~ex_flush
  BY DEF Regular, Commit
<1>2. CASE Redirects
  BY <1>1, <1>2, TargetIs DEF Redirects, Is, ex_inst_align_excp, Arch!TargetMisaligned
<1>3. CASE ~Redirects
  BY <1>1, <1>3, TargetIs, AlignedPcs DEF ex_inst_align_excp, Arch!TargetMisaligned
<1> QED
  BY <1>2, <1>3

LEMMA AddrMisalignedIff ==
  ASSUME NEW irq, Regular(irq), ~ex_inst_ill_excp
  PROVE  /\ ex_ld_align_excp \/ ex_st_align_excp <=> Arch!AddrMisaligned(ex_insn)
         /\ ex_ld_align_excp => Is({"LOAD"})
         /\ ex_st_align_excp => Is({"STORE"})
<1>1. Commit(irq) /\ ~ex_flush /\ ~ex_illegal /\ IsInsn(ex_insn) /\ ex_mem2reg = Is({"LOAD"})
  BY CommitPc DEF Regular, Commit, ex_inst_ill_excp
<1>2. Is({"LOAD"}) => ex_insn.f \in LoadFn
  BY <1>1 DEF IsInsn, FunctOf, Is, ex_illegal
<1>3. Is({"STORE"}) => ex_insn.f \in StoreFn
  BY <1>1 DEF IsInsn, FunctOf, Is, ex_illegal
<1>4. ex_memaddr = Arch!Addr(ex_insn) /\ ex_memaddr \in Word
  BY <1>1, CommitOperands, MemaddrWord DEF Commit
<1> DEFINE a == ex_memaddr
<1>5. a % 1 = 0
  BY <1>4, AddrLane
<1>6. CASE Is({"LOAD"})
  <2>1. ~Is({"STORE"}) /\ ex_insn.op = "LOAD"
    BY <1>6 DEF Is
  <2>2. Arch!AddrMisaligned(ex_insn) <=> a % Arch!Size(ex_insn.f) # 0
    BY <1>4, <2>1 DEF Arch!AddrMisaligned
  <2>3. ex_ld_align_excp <=> \/ ex_insn.f \in {"LH", "LHU"} /\ a % 2 # 0
                             \/ ex_insn.f = "LW" /\ a % 4 # 0
    BY <1>1, <1>6 DEF ex_ld_align_excp
  <2>4. ~ex_st_align_excp
    BY <2>1 DEF ex_st_align_excp
  <2> HIDE DEF a
  <2>5. a % Arch!Size(ex_insn.f) # 0 <=> \/ ex_insn.f \in {"LH", "LHU"} /\ a % 2 # 0
                                         \/ ex_insn.f = "LW" /\ a % 4 # 0
    BY <1>2, <1>5, <1>6 DEF LoadFn, Arch!Size
  <2> QED
    BY <1>6, <2>2, <2>3, <2>4, <2>5
<1>7. CASE Is({"STORE"})
  <2>1. ~Is({"LOAD"}) /\ ex_insn.op = "STORE"
    BY <1>7 DEF Is
  <2>2. Arch!AddrMisaligned(ex_insn) <=> a % Arch!Size(ex_insn.f) # 0
    BY <1>4, <2>1 DEF Arch!AddrMisaligned
  <2>3. ex_st_align_excp <=> \/ ex_insn.f = "SH" /\ a % 2 # 0
                             \/ ex_insn.f = "SW" /\ a % 4 # 0
    BY <1>1, <1>7 DEF ex_st_align_excp
  <2>4. ~ex_ld_align_excp
    BY <1>1, <2>1 DEF ex_ld_align_excp
  <2> HIDE DEF a
  <2>5. a % Arch!Size(ex_insn.f) # 0 <=> \/ ex_insn.f = "SH" /\ a % 2 # 0
                                         \/ ex_insn.f = "SW" /\ a % 4 # 0
    BY <1>3, <1>5, <1>7 DEF StoreFn, Arch!Size
  <2> QED
    BY <1>7, <2>2, <2>3, <2>4, <2>5
<1>8. CASE ~Is({"LOAD"}) /\ ~Is({"STORE"})
  BY <1>1, <1>8 DEF Is, ex_ld_align_excp, ex_st_align_excp, Arch!AddrMisaligned
<1> QED
  BY <1>6, <1>7, <1>8

LEMMA ExceptsIff ==
  ASSUME NEW irq, Regular(irq) PROVE ex_trap_nop <=> Arch!Excepts(ex_insn)
BY IllegalIff, TargetMisalignedIff, AddrMisalignedIff DEF ex_trap_nop, Arch!Excepts

-----------------------------------------------------------------------------
(* Traps. *)

LEMMA CommitHalt ==
  ASSUME NEW irq, Commit(irq)
  PROVE  /\ ex_trap(irq) => Arch!MayHalt
         /\ ~ex_trap(irq) => halted' = halted
<1> DEFINE unset == Align4(csr["mtvec"]) = 0
<1>1. halted = FALSE /\ halted' = (ex_trap(irq) /\ unset)
  BY CommitEdge
<1>2. ASSUME ~ex_trap(irq) PROVE halted' = halted
  BY <1>1, <1>2
<1>3. ASSUME ex_trap(irq) PROVE halted' = FALSE \/ halted' = unset
  BY <1>1, <1>3
<1>4. (Arch!Align4(csr["mtvec"]) = 0) = unset
  BY ArchWords
<1> QED
  BY <1>2, <1>3, <1>4 DEF Arch!MayHalt

LEMMA ArchTrapParts ==
  /\ Arch!Masked = TrapMstatus
  /\ \A code : Arch!Vector(code) = IF csr["mtvec"] % 2 = 1
                                     THEN Plus(Align4(csr["mtvec"]), 4 * code)
                                     ELSE Align4(csr["mtvec"])
BY ArchWords, ArchBits DEF Arch!Masked, TrapMstatus, Arch!Vector

LEMMA TrapPcIs ==
  ASSUME NEW irq, ~ex_mret PROVE ex_trap_pc(irq) = Arch!Vector(CauseCode(irq))
BY ArchTrapParts DEF ex_trap_pc

LEMMA CommitTrap ==
  ASSUME NEW irq, Regular(irq), ex_trap(irq), ~ex_mret,
         NEW cause, NEW vals, NEW val \in vals,
         CauseCode(irq) = cause, CsrNext(irq) = Saved(cause, ex_pc, val),
         ArchRegs' = ArchRegs, ArchMem' = ArchMem
  PROVE  Arch!Trap(cause, vals)
<1>1. Commit(irq) /\ ArchPc = ex_pc
  BY CommitPc DEF Regular
<1>2. csr' = [csr EXCEPT !["mcause"] = cause, !["mepc"] = ArchPc, !["mtval"] = val,
                         !["mstatus"] = Arch!Masked]
  BY <1>1, CommitEdge, ArchTrapParts DEF Saved
<1>3. ArchPc' = Arch!Vector(cause)
  BY <1>1, CommitNext, TrapPcIs
<1>4. Arch!MayHalt
  BY <1>1, CommitHalt
<1> QED
  BY <1>2, <1>3, <1>4 DEF Arch!Trap

\* An instruction that raises an exception leaves its trap and nothing else.
LEMMA CommitExcept ==
  ASSUME NEW irq, Regular(irq), ex_trap_nop PROVE Arch!Except(ex_insn)
<1>1. Commit(irq) /\ ~ex_flush /\ Even(ex_pc) = ex_pc /\ ex_trap(irq)
  BY AlignedPcs DEF Regular, Commit, ex_trap
<1>2. ArchRegs' = ArchRegs
  BY <1>1, CommitNoReg
<1>3. CASE ex_inst_ill_excp
  <2>1. Arch!Illegal(ex_insn)
    BY <1>3, IllegalIff
  <2>2. ~Is({"STORE"}) /\ ~ex_systemcall
    <3>1. ~(Is({"STORE"}) /\ ex_insn.f = "bad")
      BY DEF Regular, Assigned, Is
    <3> QED
      BY <1>3, <3>1 DEF ex_inst_ill_excp, ex_ill_branch, ex_ill_csr, ex_illegal, ex_csr, Is,
                        ex_systemcall
  <2>3. ArchMem' = ArchMem
    BY <1>1, <2>2, CommitNoMem
  <2>4. CauseCode(irq) = TRAP_INST_ILL /\ ~ex_mret
    BY <1>3, <2>2 DEF CauseCode, ex_mret
  <2>5. CsrNext(irq) = Saved(TRAP_INST_ILL, ex_pc, ex_insn.code)
    BY <1>1, <1>3 DEF CsrNext
  <2>6. Arch!Trap(TRAP_INST_ILL, {ex_insn.code, 0})
    BY <1>1, <1>2, <2>3, <2>4, <2>5, CommitTrap
  <2> QED
    BY <2>1, <2>6, ArchCauses DEF Arch!Except
<1>4. CASE ~ex_inst_ill_excp /\ ex_inst_align_excp
  <2>1. ~Arch!Illegal(ex_insn) /\ Arch!TargetMisaligned(ex_insn) /\ next_pc = Arch!Target(ex_insn)
    BY <1>4, IllegalIff, TargetMisalignedIff
  <2>2. ~Is({"STORE"}) /\ ~Is({"SYSTEM"})
    BY <2>1 DEF Arch!TargetMisaligned, Is
  <2>3. ArchMem' = ArchMem
    BY <1>1, <2>2, CommitNoMem
  <2>4. CauseCode(irq) = TRAP_INST_ALIGN /\ ~ex_mret /\ ~ex_csr_wr
    BY <1>4, <2>2 DEF CauseCode, ex_mret, ex_systemcall, ex_csr_wr, ex_csr
  <2>5. CsrNext(irq) = Saved(TRAP_INST_ALIGN, ex_pc, next_pc)
    BY <1>1, <1>4, <2>4 DEF CsrNext
  <2>6. Arch!Trap(TRAP_INST_ALIGN, {Arch!Target(ex_insn)})
    BY <1>1, <1>2, <2>1, <2>3, <2>4, <2>5, CommitTrap
  <2> QED
    BY <2>1, <2>6, ArchCauses DEF Arch!Except
<1>5. CASE ~ex_inst_ill_excp /\ ~ex_inst_align_excp
  <2>1. ~Arch!Illegal(ex_insn) /\ Arch!AddrMisaligned(ex_insn)
    BY <1>5, IllegalIff, AddrMisalignedIff DEF ex_trap_nop
  <2>2. ~Is({"SYSTEM"})
    BY <2>1 DEF Arch!AddrMisaligned, Is
  <2>3. ~ex_mret /\ ~ex_csr_wr /\ ex_memaddr = Arch!Addr(ex_insn)
    BY <1>1, <2>2, CommitOperands DEF ex_mret, ex_systemcall, ex_csr_wr, ex_csr
  <2>4. CASE ex_ld_align_excp
    <3>1. ex_insn.op = "LOAD" /\ ~Is({"STORE"}) /\ ~ex_st_align_excp
      BY <1>5, <2>4, AddrMisalignedIff DEF Is, ex_st_align_excp
    <3>2. ArchMem' = ArchMem
      BY <1>1, <3>1, CommitNoMem
    <3>3. CauseCode(irq) = TRAP_LD_ALIGN
      BY <1>5, <2>4, <3>1 DEF CauseCode, ex_trap_nop
    <3>4. CsrNext(irq) = Saved(TRAP_LD_ALIGN, ex_pc, ex_memaddr)
      BY <1>1, <1>5, <2>3, <2>4, <3>1 DEF CsrNext, ex_trap_nop
    <3>5. Arch!Trap(TRAP_LD_ALIGN, {Arch!Addr(ex_insn)})
      BY <1>1, <1>2, <2>3, <3>2, <3>3, <3>4, CommitTrap
    <3> QED
      BY <2>1, <3>1, <3>5, ArchCauses DEF Arch!Except
  <2>5. CASE ex_st_align_excp
    <3>1. ex_insn.op = "STORE" /\ ~ex_ld_align_excp
      BY <1>5, <2>5, AddrMisalignedIff DEF Is, ex_st_align_excp
    <3>2. ArchMem' = ArchMem
      BY <1>1, <2>5, CommitNoMem
    <3>3. CauseCode(irq) = TRAP_ST_ALIGN
      BY <1>5, <2>5, <3>1 DEF CauseCode, ex_trap_nop
    <3>4. CsrNext(irq) = Saved(TRAP_ST_ALIGN, ex_pc, ex_memaddr)
      BY <1>1, <1>5, <2>3, <2>5, <3>1 DEF CsrNext, ex_trap_nop
    <3>5. Arch!Trap(TRAP_ST_ALIGN, {Arch!Addr(ex_insn)})
      BY <1>1, <1>2, <2>3, <3>2, <3>3, <3>4, CommitTrap
    <3> QED
      BY <2>1, <3>1, <3>5, ArchCauses DEF Arch!Except
  <2> QED
    BY <1>5, <2>4, <2>5 DEF ex_trap_nop
<1> QED
  BY <1>3, <1>4, <1>5

-----------------------------------------------------------------------------
(* An instruction without exception retires: its successor is next, or an     *)
(* interrupt is taken between the two.                                       *)

LEMMA Successor ==
  ASSUME NEW irq, Regular(irq), ~ex_trap_nop
  PROVE  /\ ex_ret_pc = Arch!Target(ex_insn)
         /\ (IF branch_taken THEN Even(next_pc) ELSE Next4(ex_pc)) = Arch!Target(ex_insn)
<1>1. ~ex_inst_ill_excp /\ next_pc % 4 = 0 /\ next_pc \in Word
  BY NextPcWord DEF Regular, Commit, ex_trap_nop, ex_inst_align_excp
<1>2. Even(next_pc) = next_pc
  BY <1>1, EvenOfAligned
<1>3. branch_taken <=> Redirects
  BY <1>1, TargetIs
<1>4. (IF branch_taken THEN Even(next_pc) ELSE Next4(ex_pc)) = Arch!Target(ex_insn)
  BY <1>1, <1>2, <1>3, TargetIs
<1>5. ex_ret_pc = IF Redirects THEN Even(next_pc) ELSE Even(Next4(ex_pc))
  BY <1>3 DEF ex_ret_pc, Redirects, branch_taken
<1> QED
  BY <1>3, <1>4, <1>5, AlignedPcs

LEMMA CommitRetire ==
  ASSUME NEW irq, Regular(irq), ~ex_trap_nop, ~Is({"SYSTEM"})
  PROVE  Arch!Retire(Arch!Target(ex_insn))
<1>1. Commit(irq) /\ ~ex_flush /\ ArchPc = ex_pc
  BY CommitPc DEF Regular, Commit
<1>2. /\ ~ex_systemcall /\ ~ex_mret /\ ~ex_csr_wr
      /\ ~ex_inst_ill_excp /\ ~ex_inst_align_excp /\ ~ex_ld_align_excp /\ ~ex_st_align_excp
  BY DEF ex_systemcall, ex_mret, ex_csr_wr, ex_csr, ex_trap_nop
<1> DEFINE next == Arch!Target(ex_insn)
<1>3. CASE ~ex_trap(irq)
  <2>1. ArchPc' = next
    BY <1>1, <1>3, CommitNext, Successor
  <2>2. halted' = halted
    BY <1>1, <1>3, CommitHalt
  <2>3. csr' = csr
    <3>1. ~(\E q \in Irq : ex_irq(q, irq))
      BY <1>3 DEF ex_trap
    <3>2. CsrNext(irq) = csr
      BY <1>2, <3>1 DEF CsrNext
    <3> QED
      BY <1>1, <3>2, CommitEdge
  <2> QED
    BY <2>1, <2>2, <2>3 DEF Arch!Retire
<1>4. CASE ex_trap(irq)
  <2> DEFINE q == Served(irq)
  <2>1. \E r \in Irq : ex_irq(r, irq)
    BY <1>2, <1>4 DEF ex_trap, ex_trap_nop
  <2>2. q \in Irq /\ ex_irq(q, irq)
    BY <2>1 DEF Served, Irq
  <2>3. Arch!Enabled(q)
    BY <2>2, ArchBits DEF ex_irq, Arch!Enabled
  <2>4. CsrNext(irq) = [Saved(IntCause(q), next, 0) EXCEPT !["mip"] = SetBit(csr["mip"], IrqBit(q))]
    BY <1>2, <2>1, Successor DEF CsrNext
  <2>5. CauseCode(irq) = IntCode(q)
    BY <1>2, <2>1 DEF CauseCode
  <2>6. csr \in [CsrReg -> Word]
    BY <1>1 DEF Commit, TypeOK, CoreTypeOK
  <2> HIDE DEF q, next
  <2>7. csr' = [csr EXCEPT !["mcause"] = Arch!IntCause(q), !["mepc"] = next, !["mtval"] = 0,
                           !["mstatus"] = Arch!Masked,
                           !["mip"] = Arch!SetBit(csr["mip"], Arch!IrqBit(q))]
    <3>1. csr' = [Saved(IntCause(q), next, 0) EXCEPT !["mip"] = SetBit(csr["mip"], IrqBit(q))]
      BY <1>1, <2>4, CommitEdge
    <3>2. /\ Arch!IntCause(q) = IntCause(q) /\ Arch!Masked = TrapMstatus
          /\ Arch!SetBit(csr["mip"], Arch!IrqBit(q)) = SetBit(csr["mip"], IrqBit(q))
      BY ArchBits, ArchTrapParts
    <3> QED
      BY <2>6, <3>1, <3>2 DEF Saved, CsrReg
  <2>8. ArchPc' = Arch!Vector(Arch!IntCode(q))
    BY <1>1, <1>2, <1>4, <2>5, CommitNext, TrapPcIs, ArchBits
  <2>9. Arch!MayHalt
    BY <1>1, <1>4, CommitHalt
  <2>10. Arch!Interrupt(q, next)
    BY <2>3, <2>7, <2>8, <2>9 DEF Arch!Interrupt
  <2> QED
    BY <2>2, <2>10, ArchBits DEF Arch!Retire, next
<1> QED
  BY <1>3, <1>4

-----------------------------------------------------------------------------
(* One lemma for each kind of instruction. *)

\* An instruction that does not redirect fetch is followed by the next word.
LEMMA FallsThrough ==
  ASSUME ex_insn.op \notin {"JAL", "JALR", "BRANCH"}
  PROVE  Arch!Target(ex_insn) = Arch!Next4(ArchPc)
BY DEF Arch!Target

LEMMA CommitCompute ==
  ASSUME NEW irq, Regular(irq), ~ex_trap_nop,
         Is({"AUIPC", "LUI", "ARITHI", "ARITHR", "FENCE"})
  PROVE  Arch!Compute(ex_insn)
<1>1. Commit(irq) /\ IsInsn(ex_insn) /\ ArchPc = ex_pc /\ ~ex_illegal
  BY CommitPc DEF Regular, Commit, ex_trap_nop, ex_inst_ill_excp
<1>2. ~Is({"SYSTEM"}) /\ ~Is({"STORE"}) /\ ~Is({"LOAD"})
  BY DEF Is
<1>3. Arch!Retire(Arch!Next4(ArchPc))
  <2>1. ex_insn.op \notin {"JAL", "JALR", "BRANCH"}
    BY DEF Is
  <2> QED
    BY <1>2, <2>1, CommitRetire, FallsThrough
<1>4. ArchMem' = ArchMem
  BY <1>1, <1>2, CommitNoMem
<1>5. CASE Is({"FENCE"})
  <2>1. ~ResultToReg
    BY <1>5 DEF ResultToReg, ex_alu, ex_csr, Is
  <2>2. ArchRegs' = ArchRegs
    BY <1>1, <1>2, <2>1, CommitNoReg
  <2> QED
    BY <1>3, <1>4, <1>5, <2>2 DEF Arch!Compute, Is
<1>6. CASE ~Is({"FENCE"})
  <2>1. ResultToReg
    BY <1>1, <1>6 DEF ResultToReg, ex_alu, Is, ex_illegal
  <2>2. Arch!SetReg(ex_insn.rd, ex_result)
    BY <1>1, <2>1, CommitResult
  <2>3. ex_result = CASE Is({"LUI"})   -> ex_imm
                      [] Is({"AUIPC"}) -> Plus(ex_pc, ex_imm)
                      [] OTHER         -> Alu(ex_insn.f, alu_op1, alu_op2)
    BY <1>1, <1>6 DEF ex_result, ex_alu, ex_csr, Is, ex_illegal
  <2>4. CASE Is({"LUI"})
    <3>1. Arch!SetReg(ex_insn.rd, ex_insn.imm) /\ ex_insn.op = "LUI"
      BY <2>2, <2>3, <2>4 DEF Is, ex_imm
    <3> QED
      BY <1>3, <1>4, <3>1 DEF Arch!Compute
  <2>5. CASE Is({"AUIPC"})
    <3>1. Arch!SetReg(ex_insn.rd, Arch!Plus(ArchPc, ex_insn.imm)) /\ ex_insn.op = "AUIPC"
      BY <1>1, <2>2, <2>3, <2>5, ArchWords DEF Is, ex_imm
    <3> QED
      BY <1>3, <1>4, <3>1 DEF Arch!Compute
  <2>6. CASE Is({"ARITHI"})
    <3>1. alu_op1 = Arch!Val(ex_insn.rs1) /\ alu_op2 = ex_insn.imm
      BY <1>1, <2>6, CommitOperands DEF Is
    <3>2. Arch!SetReg(ex_insn.rd, Alu(ex_insn.f, Arch!Val(ex_insn.rs1), ex_insn.imm))
          /\ ex_insn.op = "ARITHI"
      BY <2>2, <2>3, <2>6, <3>1 DEF Is
    <3> QED
      BY <1>3, <1>4, <3>2 DEF Arch!Compute
  <2>7. CASE Is({"ARITHR"})
    <3>1. alu_op1 = Arch!Val(ex_insn.rs1) /\ alu_op2 = Arch!Val(ex_insn.rs2)
      BY <1>1, <2>7, CommitOperands DEF Is
    <3>2. Arch!SetReg(ex_insn.rd, Alu(ex_insn.f, Arch!Val(ex_insn.rs1), Arch!Val(ex_insn.rs2)))
          /\ ex_insn.op = "ARITHR"
      BY <2>2, <2>3, <2>7, <3>1 DEF Is
    <3> QED
      BY <1>3, <1>4, <3>2 DEF Arch!Compute
  <2> QED
    BY <1>6, <2>4, <2>5, <2>6, <2>7 DEF Is
<1> QED
  BY <1>5, <1>6

LEMMA CommitJump ==
  ASSUME NEW irq, Regular(irq), ~ex_trap_nop, Is({"JAL", "JALR"})
  PROVE  Arch!Jump(ex_insn)
<1>1. Commit(irq) /\ ArchPc = ex_pc
  BY CommitPc DEF Regular
<1>2. ~Is({"SYSTEM"}) /\ ~Is({"STORE"}) /\ ResultToReg /\ ex_insn.op \in {"JAL", "JALR"}
  BY DEF Is, ResultToReg
<1>3. ex_result = Next4(ex_pc)
  BY <1>2 DEF ex_result, ex_alu, ex_csr, Is
<1>4. Arch!SetReg(ex_insn.rd, Arch!Next4(ArchPc))
  <2>1. Arch!SetReg(ex_insn.rd, ex_result)
    BY <1>1, <1>2, CommitResult
  <2> QED
    BY <1>1, <1>3, <2>1, ArchWords
<1> QED
  BY <1>1, <1>2, <1>4, CommitNoMem, CommitRetire DEF Arch!Jump

LEMMA CommitBranch ==
  ASSUME NEW irq, Regular(irq), ~ex_trap_nop, Is({"BRANCH"})
  PROVE  Arch!Branch(ex_insn)
<1>1. Commit(irq)
  BY DEF Regular
<1>2. ~Is({"SYSTEM"}) /\ ~Is({"STORE"}) /\ ~Is({"LOAD"}) /\ ~ResultToReg /\ ex_insn.op = "BRANCH"
  BY DEF Is, ResultToReg, ex_alu, ex_csr
<1> QED
  BY <1>1, <1>2, CommitNoReg, CommitNoMem, CommitRetire DEF Arch!Branch

LEMMA CommitLoadStep ==
  ASSUME NEW irq, Regular(irq), ~ex_trap_nop, Is({"LOAD"})
  PROVE  Arch!Load(ex_insn)
<1>1. Commit(irq) /\ ex_memaddr = Arch!Addr(ex_insn)
  BY CommitOperands DEF Regular
<1>2. ~Is({"SYSTEM"}) /\ ~Is({"STORE"}) /\ ex_insn.op = "LOAD"
  BY DEF Is
<1>3. Arch!Retire(Arch!Next4(ArchPc))
  BY <1>2, CommitRetire, FallsThrough
<1>4. Arch!SetReg(ex_insn.rd, Arch!Loaded(ex_insn.f, Arch!Addr(ex_insn)))
  BY <1>1, CommitLoad
<1> QED
  BY <1>1, <1>2, <1>3, <1>4, CommitNoMem DEF Arch!Load, InRam

LEMMA CommitStoreStep ==
  ASSUME NEW irq, Regular(irq), ~ex_trap_nop, Is({"STORE"})
  PROVE  Arch!Store(ex_insn)
<1>1. Commit(irq) /\ ex_memaddr = Arch!Addr(ex_insn)
  BY CommitOperands DEF Regular
<1>2. ~Is({"SYSTEM"}) /\ ~Is({"LOAD"}) /\ ~ResultToReg /\ ex_insn.op = "STORE"
  BY DEF Is, ResultToReg, ex_alu, ex_csr
<1>3. Arch!Retire(Arch!Next4(ArchPc))
  BY <1>2, CommitRetire, FallsThrough
<1>4. alu_op2 = Arch!Val(ex_insn.rs2)
  BY <1>1, <1>2, CommitOperands DEF Is
<1>5. ArchMem' = Arch!Stored(ex_insn.f, Arch!Addr(ex_insn), Arch!Val(ex_insn.rs2))
  BY <1>1, <1>4, CommitStore
<1> QED
  BY <1>1, <1>2, <1>3, <1>5, CommitNoReg DEF Arch!Store, InRam

\* A SYSTEM instruction is not interrupted.
LEMMA SystemQuiet ==
  ASSUME NEW irq, Regular(irq), ~ex_trap_nop, Is({"SYSTEM"})
  PROVE  /\ ~(\E q \in Irq : ex_irq(q, irq)) /\ ~branch_taken
         /\ ex_insn.f \in CsrFn \cup {"PRIV"} /\ ex_insn.op = "SYSTEM"
         /\ ~ex_inst_ill_excp /\ ~ex_inst_align_excp /\ ~ex_ld_align_excp /\ ~ex_st_align_excp
         /\ ArchMem' = ArchMem
<1>1. Commit(irq) /\ IsInsn(ex_insn) /\ Assigned(ex_insn)
  BY CommitPc DEF Regular
<1>2. ~Is({"STORE"}) /\ ~Is({"JAL", "JALR"}) /\ ~Is({"BRANCH"}) /\ ex_insn.op = "SYSTEM"
  BY DEF Is
<1>3. ex_insn.f \in CsrFn \cup {"PRIV"}
  BY <1>1, <1>2 DEF IsInsn, FunctOf, Assigned
<1>4. ~(\E q \in Irq : ex_irq(q, irq)) /\ ~branch_taken
  BY <1>2 DEF ex_irq, branch_taken
<1> QED
  BY <1>1, <1>2, <1>3, <1>4, CommitNoMem DEF ex_trap_nop

LEMMA CommitCsr ==
  ASSUME NEW irq, Regular(irq), ~ex_trap_nop, Is({"SYSTEM"}), ex_insn.f # "PRIV"
  PROVE  Arch!CsrAccess(ex_insn)
<1> DEFINE c == ex_insn.csr
           f == ex_insn.f
           imm == f \in {"CSRRWI", "CSRRSI", "CSRRCI"}
           old == CASE c \in CsrReg     -> csr[c]
                    [] c = "instret"    -> instret % WordMod
                    [] c = "instreth"   -> (instret \div WordMod) % WordMod
                    [] OTHER            -> 0
           data == IF imm THEN ex_insn.rs1 ELSE Arch!Val(ex_insn.rs1)
           new == CASE f \in {"CSRRW", "CSRRWI"} -> data
                    [] f \in {"CSRRS", "CSRRSI"} -> BitOr(old, data)
                    [] f \in {"CSRRC", "CSRRCI"} -> BitAnd(old, BitNot(data))
           writes == f \in {"CSRRW", "CSRRWI"} \/ ex_insn.rs1 # 0
<1>1. Commit(irq) /\ ArchPc = ex_pc /\ ~ex_flush
  BY CommitPc DEF Regular, Commit
<1>2. f \in CsrFn /\ ex_insn.op = "SYSTEM" /\ ex_csr /\ ~ex_systemcall /\ ~ex_inst_ill_excp
  BY SystemQuiet DEF ex_csr, ex_systemcall
<1>3. ~ex_trap(irq) /\ ~branch_taken
  BY <1>2, SystemQuiet DEF ex_trap
<1>4. ArchPc' = Arch!Next4(ArchPc) /\ halted' = halted /\ ArchMem' = ArchMem
  BY <1>1, <1>3, CommitNext, CommitHalt, SystemQuiet, ArchWords
<1>5. Arch!SetReg(ex_insn.rd, ex_csr_read)
  <2>1. ResultToReg
    BY <1>2 DEF ResultToReg
  <2>2. ex_result = ex_csr_read
    BY <1>1, <1>2 DEF ex_result, ex_alu, Is
  <2> QED
    BY <1>1, <2>1, <2>2, CommitResult
<1>6. c \notin {"cycle", "cycleh"} => ex_csr_read = old
  BY DEF ex_csr_read, CsrReg
<1>7. ex_csr_data = data
  <2>1. alu_op1 = Arch!Val(ex_insn.rs1)
    BY <1>1, CommitOperands
  <2>2. f \in {"CSRRWI", "CSRRSI", "CSRRCI", "bad"} <=> imm
    BY <1>2 DEF CsrFn
  <2> QED
    BY <2>1, <2>2 DEF ex_csr_data
<1>8. ASSUME c \in CsrReg PROVE CsrNew(csr[c]) = new
  <2>1. old = csr[c]
    BY <1>8 DEF CsrReg
  <2> HIDE DEF old, data
  <2> QED
    BY <1>2, <1>7, <2>1 DEF CsrNew, CsrFn
<1>9. csr' = IF writes /\ c \in CsrReg THEN [csr EXCEPT ![c] = new] ELSE csr
  <2>1. ex_csr_wr <=> writes
    BY <1>2 DEF ex_csr_wr
  <2>2. CASE writes
    <3>1. CsrNext(irq) = IF c \in CsrReg THEN [csr EXCEPT ![c] = CsrNew(csr[c])] ELSE csr
      BY <1>2, <2>1, <2>2, SystemQuiet DEF CsrNext
    <3> QED
      BY <1>1, <1>8, <2>2, <3>1, CommitEdge
  <2>3. CASE ~writes
    <3>1. CsrNext(irq) = csr
      BY <1>2, <2>1, <2>3, SystemQuiet DEF CsrNext
    <3> QED
      BY <1>1, <2>3, <3>1, CommitEdge
  <2> QED
    BY <2>2, <2>3
<1>10. IF c \in {"cycle", "cycleh"} THEN \A r \in Reg \ {ex_insn.rd} : ArchRegs'[r] = ArchRegs[r]
                                    ELSE Arch!SetReg(ex_insn.rd, old)
  <2>1. CASE c \in {"cycle", "cycleh"}
    <3>1. ArchRegs \in [Reg -> Word]
      BY <1>1, CommitWb
    <3> QED
      BY <1>5, <2>1, <3>1 DEF Arch!SetReg
  <2>2. CASE c \notin {"cycle", "cycleh"}
    BY <1>5, <1>6, <2>2
  <2> QED
    BY <2>1, <2>2
<1> QED
  BY <1>2, <1>4, <1>9, <1>10, ArchSets, ArchWords DEF Arch!CsrAccess

LEMMA CommitPriv ==
  ASSUME NEW irq, Regular(irq), ~ex_trap_nop, Is({"SYSTEM"}), ex_insn.f = "PRIV"
  PROVE  Arch!Priv(ex_insn)
<1>1. Commit(irq) /\ ArchPc = ex_pc /\ ~ex_flush /\ Even(ex_pc) = ex_pc
  BY CommitPc, AlignedPcs DEF Regular, Commit
<1>2. ex_systemcall /\ ~ex_csr_wr /\ ~ResultToReg /\ ~Is({"LOAD"}) /\ ex_insn.op = "SYSTEM"
  BY <1>1 DEF ex_systemcall, ex_csr_wr, ex_csr, ResultToReg, ex_alu, Is
<1>3. ex_trap(irq)
  BY <1>2 DEF ex_trap
<1>4. ArchRegs' = ArchRegs /\ ArchMem' = ArchMem
  BY <1>1, <1>2, CommitNoReg, SystemQuiet
<1>5. ex_insn.imm \in Nat /\ ex_imm = ex_insn.imm
  BY <1>1, ExFields, WordModNat DEF Commit, Fields, Word, ex_imm
<1> DEFINE n == ex_insn.imm % 4
<1>6. n = 0 \/ n = 1 \/ n = 2 \/ n = 3
  BY <1>5
<1>7. ex_mret <=> n = 2
  BY <1>2, <1>5 DEF ex_mret
<1>8. CauseCode(irq) = CASE n = 0 -> TRAP_ECALL [] n = 1 -> TRAP_BREAK [] OTHER -> TRAP_INST_ILL
  BY <1>5, SystemQuiet DEF CauseCode, ex_trap_nop
<1>9. CsrNext(irq) =
        CASE n = 0 -> Saved(TRAP_ECALL, ex_pc, 0)
          [] n = 1 -> Saved(TRAP_BREAK, ex_pc, ex_pc)
          [] n = 2 -> [csr EXCEPT !["mepc"] = ex_pc, !["mtval"] = 0,
                                  !["mstatus"] = CopyBit(csr["mstatus"], MIE, MPIE)]
          [] OTHER -> [csr EXCEPT !["mcause"] = TRAP_INST_ILL, !["mepc"] = ex_pc,
                                  !["mtval"] = ex_insn.code]
  BY <1>1, <1>2, <1>5, SystemQuiet DEF CsrNext
<1> HIDE DEF n
<1>10. CASE n = 0
  <2>1. Arch!Trap(TRAP_ECALL, {0})
    BY <1>3, <1>4, <1>7, <1>8, <1>9, <1>10, CommitTrap
  <2> QED
    BY <1>2, <1>10, <2>1, ArchCauses DEF Arch!Priv, n
<1>11. CASE n = 1
  <2>1. Arch!Trap(TRAP_BREAK, {ex_pc})
    BY <1>3, <1>4, <1>7, <1>8, <1>9, <1>11, CommitTrap
  <2> QED
    BY <1>1, <1>2, <1>11, <2>1, ArchCauses DEF Arch!Priv, n
<1>12. CASE n = 2
  <2>1. csr' = [csr EXCEPT !["mepc"] = ArchPc, !["mtval"] = 0,
                           !["mstatus"] = Arch!CopyBit(csr["mstatus"], Arch!MIE, Arch!MPIE)]
    <3>1. csr' = CsrNext(irq)
      BY <1>1, CommitEdge
    <3>2. CsrNext(irq) = [csr EXCEPT !["mepc"] = ex_pc, !["mtval"] = 0,
                                     !["mstatus"] = CopyBit(csr["mstatus"], MIE, MPIE)]
      BY <1>9, <1>12
    <3>3. Arch!CopyBit(csr["mstatus"], Arch!MIE, Arch!MPIE) = CopyBit(csr["mstatus"], MIE, MPIE)
      BY ArchBits
    <3> QED
      BY <1>1, <3>1, <3>2, <3>3
  <2>2. ArchPc' = csr["mepc"]
    <3>1. ex_trap_pc(irq) = csr["mepc"]
      BY <1>7, <1>12 DEF ex_trap_pc
    <3> QED
      BY <1>1, <1>3, <3>1, CommitNext
  <2>3. Arch!MayHalt
    BY <1>1, <1>3, CommitHalt
  <2> QED
    BY <1>2, <1>4, <1>12, <2>1, <2>2, <2>3 DEF Arch!Priv, n
<1>13. CASE n = 3
  <2>1. csr \in [CsrReg -> Word]
    BY <1>1 DEF Commit, TypeOK, CoreTypeOK
  <2>2. csr' = [csr EXCEPT !["mcause"] = Arch!TRAP_INST_ILL, !["mepc"] = ArchPc,
                           !["mtval"] = ex_insn.code, !["mstatus"] = csr["mstatus"]]
    <3>1. csr' = CsrNext(irq)
      BY <1>1, CommitEdge
    <3>2. CsrNext(irq) = [csr EXCEPT !["mcause"] = TRAP_INST_ILL, !["mepc"] = ex_pc,
                                     !["mtval"] = ex_insn.code]
      BY <1>9, <1>13
    <3> QED
      BY <1>1, <2>1, <3>1, <3>2, ArchCauses DEF CsrReg
  <2>3. ArchPc' = Arch!Vector(Arch!TRAP_INST_ILL)
    BY <1>1, <1>3, <1>7, <1>8, <1>13, CommitNext, TrapPcIs, ArchCauses
  <2>4. Arch!MayHalt
    BY <1>1, <1>3, CommitHalt
  <2> QED
    BY <1>2, <1>4, <1>13, <2>2, <2>3, <2>4 DEF Arch!Priv, n
<1> QED
  BY <1>6, <1>10, <1>11, <1>12, <1>13 DEF n

\* The commit edge of any instruction is a step of the architecture.
LEMMA CommitStep ==
  ASSUME NEW irq, Regular(irq) PROVE Arch!Step(ex_insn)
<1>1. CASE ex_trap_nop
  BY <1>1, CommitExcept, ExceptsIff DEF Arch!Step
<1>2. CASE ~ex_trap_nop
  <2>1. ~Arch!Excepts(ex_insn)
    BY <1>2, ExceptsIff
  <2>2. IsInsn(ex_insn) /\ ~Is({"BAD"})
    BY <1>2, CommitPc DEF Regular, Commit, ex_trap_nop, ex_inst_ill_excp, ex_illegal
  <2>3. \/ Is({"AUIPC", "LUI", "ARITHI", "ARITHR", "FENCE"})
        \/ Is({"JAL", "JALR"}) \/ Is({"BRANCH"}) \/ Is({"LOAD"}) \/ Is({"STORE"})
        \/ Is({"SYSTEM"}) /\ ex_insn.f = "PRIV"
        \/ Is({"SYSTEM"}) /\ ex_insn.f # "PRIV"
    BY <2>2 DEF IsInsn, Insn, Opcode, Is
  <2> QED
    BY <1>2, <2>1, <2>3, CommitCompute, CommitJump, CommitBranch, CommitLoadStep,
       CommitStoreStep, CommitCsr, CommitPriv DEF Arch!Step
<1> QED
  BY <1>1, <1>2

-----------------------------------------------------------------------------
(* Boot, and the refinement. *)

\* While the pipe fills, stage 3 holds a bubble that writes no register, and the
\* program in memory is the one that was loaded.
BootWb == (pipefill < 2 => wb.dst_sel = 0) /\ imem \in Programs

LEMMA BootEdge ==
  ASSUME TypeOK, PipeInv, pipefill < 2, NEW irq, Cycle(irq)
  PROVE  wb'.dst_sel = 0 \/ wb' = wb
<1>1. ex_insn = Bubble \/ ex_insn = NOP
  BY DEF PipeInv, BootOrder
<1>2. ex_insn.rd = 0
  BY <1>1 DEF Bubble, NOP
<1> QED
  BY <1>2 DEF Cycle, Clk, ResultClk

LEMMA BootWbKept ==
  ASSUME TypeOK, PipeInv, BootWb, NEW irq, Cycle(irq) PROVE BootWb'
<1>1. pipefill \in 0 .. 2 /\ (pipefill' < 2 => pipefill < 2)
  BY DEF TypeOK, CoreTypeOK, Cycle, Clk, CountClk
<1>2. pipefill < 2 => wb'.dst_sel = 0
  BY BootEdge DEF BootWb
<1>3. imem' \in Programs
  BY DEF Cycle, BootWb
<1> QED
  BY <1>1, <1>2, <1>3 DEF BootWb

LEMMA BootStep ==
  ASSUME TypeOK, PipeInv, BootWb, pipefill < 2, NEW irq, Cycle(irq)
  PROVE  UNCHANGED <<imem, ArchPc, ArchRegs, ArchMem, csr, instret, halted>>
<1>1. Clk(stall, irq) /\ imem' = imem /\ halted = FALSE /\ halted' = Finish(irq)
  BY DEF Cycle, TypeOK
<1>2. ~ex_flush /\ ~ex_trap(irq) /\ ~branch_taken /\ CsrNext(irq) = csr /\ ~Is({"STORE"})
  BY BootIsQuiet
<1>3. csr' = csr /\ instret' = instret
  BY <1>1, <1>2 DEF Clk, CsrClk, CountClk
<1>4. halted' = halted
  BY <1>1, <1>2 DEF Finish
<1>5. wb.dst_sel = 0 /\ wb'.dst_sel = 0
  BY BootEdge DEF BootWb
<1>6. ArchRegs' = ArchRegs
  <2>1. ~RegWrite /\ ~RegWrite'
    BY <1>5 DEF RegWrite
  <2> QED
    BY <2>1, WriteBack DEF ArchRegs
<1>7. ArchMem' = ArchMem
  <2>1. ~wb_memwr'
    BY <1>1, <1>2 DEF Clk, StoreClk
  <2> QED
    BY <2>1, WriteBack DEF ArchMem
<1>8. ArchPc' = ArchPc
  <2>1. ~wb_branch /\ ~wb_branch_nxt /\ ex_pc = if_pc
    BY DEF PipeInv, BootOrder
  <2>2. ~wb_branch' /\ ~wb_branch_nxt'
    BY <1>1, <1>2, <2>1 DEF Clk, SquashClk
  <2>3. ex_pc' = ex_pc
    BY <1>1, <2>1 DEF Clk, FetchClk
  <2> QED
    BY <2>1, <2>2, <2>3 DEF ArchPc
<1> QED
  BY <1>1, <1>3, <1>4, <1>6, <1>7, <1>8

\* A clock edge is a step of the architecture, or changes nothing it shows: it
\* fills the pipe, squashes, or commits the instruction in the execute stage.
LEMMA EdgeStep ==
  ASSUME \A p \in Programs : \A k \in DOMAIN p : Assigned(p[k]),
         TypeOK, PipeInv, BootWb, NEW irq, Cycle(irq)
  PROVE  [Arch!Next]_(Arch!isaVars)
<1>1. pipefill \in 0 .. 2 /\ pipefill \in Int
  BY DEF TypeOK, CoreTypeOK
<1>2. CASE pipefill < 2
  BY <1>2, BootStep DEF Arch!isaVars
<1>3. CASE pipefill = 2 /\ ex_flush
  <2>1. imem' = imem /\ halted = FALSE /\ halted' = Finish(irq)
    BY DEF Cycle, TypeOK
  <2>2. halted' = halted
    BY <1>3, <2>1, FlushedIsQuiet DEF Finish
  <2> QED
    BY <1>3, <2>1, <2>2, SquashStep DEF Arch!isaVars
<1>4. CASE pipefill = 2 /\ ~ex_flush
  <2>1. Commit(irq)
    BY <1>4 DEF Commit
  <2>2. /\ ~halted /\ imem' = imem /\ instret' = (instret + 1) % CountMod
        /\ ArchPc = ex_pc /\ ex_insn = Arch!Fetch(ArchPc)
    BY <2>1, CommitEdge, CommitPc
  <2>3. ASSUME ArchPc % 4 = 0 PROVE Arch!Step(Arch!Fetch(ArchPc))
    <3>1. Assigned(Arch!Fetch(ArchPc))
      <4>1. Assigned(ZeroInsn)
        BY DEF Assigned, ZeroInsn
      <4> QED
        BY <4>1, ArchSets DEF BootWb, Arch!Fetch
    <3>2. Regular(irq)
      BY <2>1, <2>2, <2>3, <3>1 DEF Regular
    <3> QED
      BY <2>2, <3>2, CommitStep
  <2> QED
    BY <2>2, <2>3 DEF Arch!Next
<1> QED
  BY <1>1, <1>2, <1>3, <1>4

LEMMA InitArch == Init => Arch!Init /\ BootWb
<1> SUFFICES ASSUME Init PROVE Arch!Init /\ BootWb
  OBVIOUS
<1>1. PICK s \in Scratch : CoreReset(s, MISA)
  BY DEF Init
<1>2. TypeOK
  BY InitType
<1>3. wb.dst_sel = 0 /\ ~wb_memwr /\ ~wb_branch /\ ~wb_branch_nxt /\ ex_pc = RESETVEC
      /\ regs = [r \in Reg |-> 0] /\ instret = 0
  BY <1>1 DEF CoreReset
<1>4. ArchRegs = regs /\ ArchMem = dmem /\ ArchPc = RESETVEC
  BY <1>3 DEF ArchRegs, RegWrite, ArchMem, ArchPc
<1>5. \A c \in CsrReg \ {"mscratch", "misa"} : csr[c] = 0
  BY <1>1 DEF CoreReset
<1>6. Arch!TypeOK
  <2>1. ArchPc \in Word
    BY <1>4, SmallWord DEF RESETVEC
  <2>2. ArchRegs \in [Reg -> Word] /\ ArchMem \in [0 .. NMem - 1 -> Word]
    BY <1>2, <1>4 DEF TypeOK, CoreTypeOK
  <2> QED
    BY <1>2, <2>1, <2>2, ArchSets, ArchWords DEF TypeOK, CoreTypeOK, Arch!TypeOK
<1>7. halted = FALSE /\ imem \in Programs
  BY DEF Init
<1> QED
  BY <1>3, <1>4, <1>5, <1>6, <1>7, ArchSets DEF Arch!Init, BootWb

\* The three-stage pipeline implements the instruction set: forwarding, squashed
\* slots, traps, interrupts, byte lanes and the store buffer are invisible to a
\* program, whatever it is and whenever interrupts are requested.  Excluded are
\* stores and SYSTEM instructions with an unassigned FUNC3 (README, findings).
THEOREM PipelineImplementsIsa ==
  ASSUME WordFunctions(Word),
         \A p \in Programs : \A k \in DOMAIN p : Assigned(p[k])
  PROVE  Spec => ImplementsIsa
<1>1. TypeOK /\ PipeInv /\ BootWb /\ [Next]_vars => BootWb' /\ [Arch!Next]_(Arch!isaVars)
  <2> SUFFICES ASSUME TypeOK, PipeInv, BootWb, [Next]_vars
               PROVE  BootWb' /\ [Arch!Next]_(Arch!isaVars)
    OBVIOUS
  <2>1. CASE Next
    <3>1. PICK irq \in SUBSET Lines : Cycle(irq)
      BY <2>1 DEF Next
    <3> QED
      BY <3>1, BootWbKept, EdgeStep
  <2>2. CASE UNCHANGED vars
    <3>1. BootWb'
      BY <2>2 DEF vars, coreVars, BootWb
    <3>2. ArchPc' = ArchPc
      BY <2>2 DEF vars, coreVars, ArchPc
    <3>3. ArchRegs' = ArchRegs
      BY <2>2 DEF vars, coreVars, ArchRegs, RegWrite, wb_flush, wb_value, wb_rdata, Lane,
                  LaneWeight, HalfOf, SignByte, SignHalf, WordMod
    <3>4. ArchMem' = ArchMem
      BY <2>2 DEF vars, coreVars, ArchMem, Dmem!Adr, Merge, FromLanes, Lane, LaneWeight
    <3> QED
      BY <2>2, <3>1, <3>2, <3>3, <3>4 DEF vars, coreVars, Arch!isaVars
  <2> QED
    BY <2>1, <2>2
<1> QED
  BY <1>1, InitArch, TypeCorrect, PipeCorrect, PTL DEF Spec, ImplementsIsa, Arch!Spec
=============================================================================
