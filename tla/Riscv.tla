------------------------------- MODULE Riscv -------------------------------
(***************************************************************************)
(* The three-stage core of rtl/riscv.v, one Clk step per rising clock      *)
(* edge: fetch/decode, execute, write back.  Operators with the names of   *)
(* wires are the combinational logic of the current cycle; primed          *)
(* variables are the registers after the edge.                             *)
(*                                                                         *)
(* The decoded control bits of the execute stage are functions of the      *)
(* latched instruction, so the stage is ex_pc, ex_insn and ex_mem2reg      *)
(* (which has a register of its own).  Memories always accept and answer   *)
(* (testbench.v: imem_valid, dmem_rvalid and dmem_wvalid are 1; top.v:     *)
(* drresp is 1), so if_stall, ex_stall and wb_stall are all stall_r.       *)
(***************************************************************************)
EXTENDS Srv32

CONSTANT CountMod   \* values of the 64-bit counters cycle and instret

VARIABLES
  imem_rdata, dmem_rdata,                       \* inputs from the memories
  stall_r, flush, pipefill,                     \* boot control
  if_pc, fetch_pc,                              \* stage 1
  ex_pc, ex_insn, ex_mem2reg,                   \* stage 2
  wb, wb_store,                                 \* stage 3: result, store data
  wb_memwr, wb_branch, wb_branch_nxt,
  wb_nop, wb_nop_more, wb_trap_nop,
  regs, csr, cycle, instret

coreVars == <<stall_r, flush, pipefill, if_pc, fetch_pc, ex_pc, ex_insn, ex_mem2reg,
              wb, wb_store, wb_memwr, wb_branch, wb_branch_nxt, wb_nop, wb_nop_more,
              wb_trap_nop, regs, csr, cycle, instret>>

\* After reset the execute stage has no control bit set, not even NOP's.
Bubble == [NOP EXCEPT !.op = "NONE"]

WbResult == [alu2reg : BOOLEAN, result : Word, dst_sel : Reg, mem2reg : BOOLEAN,
             raddr : 0 .. 3, alu_op : Funct]
WbStore  == [waddr : Word, wstrb : SUBSET (0 .. 3), wdata : Word]

CoreTypeOK ==
  /\ stall_r \in BOOLEAN /\ flush \in BOOLEAN /\ pipefill \in 0 .. 2
  /\ if_pc \in Word /\ fetch_pc \in Word
  /\ ex_pc \in Word /\ (IsInsn(ex_insn) \/ ex_insn = Bubble) /\ ex_mem2reg \in BOOLEAN
  /\ wb \in WbResult /\ wb_store \in WbStore
  /\ wb_memwr \in BOOLEAN /\ wb_branch \in BOOLEAN /\ wb_branch_nxt \in BOOLEAN
  /\ wb_nop \in BOOLEAN /\ wb_nop_more \in BOOLEAN /\ wb_trap_nop \in BOOLEAN
  /\ regs \in [Reg -> Word] /\ csr \in [CsrReg -> Word]
  /\ cycle \in 0 .. CountMod - 1 /\ instret \in 0 .. CountMod - 1

\* negedge resetb.  mscratch is the one CSR without a reset value.
CoreReset(mscratch, misa) ==
  /\ stall_r = TRUE /\ flush = TRUE /\ pipefill = 0
  /\ if_pc = RESETVEC /\ fetch_pc = RESETVEC
  /\ ex_pc = RESETVEC /\ ex_insn = Bubble /\ ex_mem2reg = FALSE
  /\ wb = [alu2reg |-> FALSE, result |-> 0, dst_sel |-> 0, mem2reg |-> FALSE,
           raddr |-> 0, alu_op |-> "ADD"]
  /\ wb_store = [waddr |-> 0, wstrb |-> {}, wdata |-> 0]
  /\ wb_memwr = FALSE /\ wb_branch = FALSE /\ wb_branch_nxt = FALSE
  /\ wb_nop = FALSE /\ wb_nop_more = FALSE /\ wb_trap_nop = FALSE
  /\ regs = [r \in Reg |-> 0]
  /\ csr = [c \in CsrReg |-> CASE c = "mscratch" -> mscratch
                               [] c = "misa"     -> misa
                               [] OTHER          -> 0]
  /\ cycle = 0 /\ instret = 0

-----------------------------------------------------------------------------
(* Stage 3: load alignment and the value that goes to the register file. *)

wb_flush == wb_nop \/ wb_nop_more

\* The half of the word at rdata[31:16] or rdata[15:0], and one of its bytes.
HalfOf(w, hi)   == IF hi THEN w \div (ByteMod * ByteMod) ELSE w % (ByteMod * ByteMod)
SignByte(b)     == IF 2 * b >= ByteMod THEN b + (WordMod - ByteMod) ELSE b
SignHalf(h)     == IF 2 * h >= ByteMod * ByteMod
                     THEN h + (WordMod - ByteMod * ByteMod) ELSE h

wb_rdata ==
  LET byte == Lane(dmem_rdata, wb.raddr)
      half == HalfOf(dmem_rdata, wb.raddr \div 2 = 1)
  IN  CASE wb.alu_op = "LB"  -> SignByte(byte)
        [] wb.alu_op = "LH"  -> SignHalf(half)
        [] wb.alu_op = "LW"  -> dmem_rdata
        [] wb.alu_op = "LBU" -> byte
        [] wb.alu_op = "LHU" -> half
        [] OTHER             -> 0

wb_value == IF wb.mem2reg THEN wb_rdata ELSE wb.result

\* regs[wb_dst_sel] is written; the array has no element 0.
RegWrite ==
  wb.alu2reg /\ ~stall_r /\ ~wb_flush /\ ~wb_trap_nop /\ wb.dst_sel # 0

-----------------------------------------------------------------------------
(* Stage 2: operands, with forwarding from stage 3. *)

ex_flush == wb_branch \/ wb_branch_nxt

\* Mutant: operands come from the register file only.
reg_rdata_noforward(sel) == IF sel = 0 THEN 0 ELSE regs[sel]

reg_rdata(sel) ==
  CASE sel = 0 -> 0
    [] sel # 0 /\ ~wb_flush /\ wb.alu2reg /\ wb.dst_sel = sel -> wb_value
    [] OTHER -> regs[sel]

Is(ops)  == ex_insn.op \in ops
ex_imm   == ex_insn.imm
alu_op1  == reg_rdata(ex_insn.rs1)
alu_op2  == IF Is({"JALR", "LOAD", "ARITHI"}) THEN ex_imm ELSE reg_rdata(ex_insn.rs2)

ex_memaddr   == Plus(alu_op1, ex_imm)
ex_alu       == Is({"ARITHI"}) \/ (Is({"ARITHR"}) /\ ex_insn.f # "bad")
ex_csr       == Is({"SYSTEM"}) /\ ex_insn.f # "PRIV"
ex_csr_wr    == ex_csr /\ (ex_insn.f \in {"CSRRW", "CSRRWI"} \/ ex_insn.rs1 # 0)
ex_systemcall == Is({"SYSTEM"}) /\ ex_insn.f = "PRIV" /\ ~ex_flush
ex_ill_branch == Is({"BRANCH"}) /\ ex_insn.f = "bad"
ex_illegal   == \/ Is({"BAD"})
                \/ Is({"LOAD", "STORE", "ARITHR"}) /\ ex_insn.f = "bad"

result_subs == Signed(alu_op1) - Signed(alu_op2)
result_subu == alu_op1 - alu_op2

\* The condition of the conditional branches, on the 33-bit differences.
BranchCond ==
  CASE ex_insn.f = "BEQ"  -> result_subs = 0
    [] ex_insn.f = "BNE"  -> result_subs # 0
    [] ex_insn.f = "BLT"  -> result_subs < 0
    [] ex_insn.f = "BGE"  -> ~(result_subs < 0)
    [] ex_insn.f = "BLTU" -> result_subu < 0
    [] ex_insn.f = "BGEU" -> ~(result_subu < 0)
    [] OTHER              -> TRUE

next_pc ==
  CASE Is({"JAL"})  -> Even(Plus(ex_pc, ex_imm))
    [] Is({"JALR"}) -> Even(Plus(alu_op1, ex_imm))
    [] Is({"BRANCH"}) /\ ex_ill_branch -> fetch_pc
    [] Is({"BRANCH"}) /\ ~ex_ill_branch /\ BranchCond -> Plus(ex_pc, ex_imm)
    [] OTHER -> Next4(fetch_pc)

branch_taken == ~ex_flush /\ (Is({"JAL", "JALR"}) \/ (Is({"BRANCH"}) /\ BranchCond))

ex_csr_read ==
  CASE ex_insn.csr \in CsrReg     -> csr[ex_insn.csr]
    [] ex_insn.csr = "cycle"      -> cycle % WordMod
    [] ex_insn.csr = "cycleh"     -> (cycle \div WordMod) % WordMod
    [] ex_insn.csr = "instret"    -> instret % WordMod
    [] ex_insn.csr = "instreth"   -> (instret \div WordMod) % WordMod
    [] OTHER                      -> 0
ex_ill_csr == ex_csr /\ ~ex_flush /\ ex_insn.csr = "other"

ex_result ==
  CASE Is({"STORE"})       -> alu_op2
    [] Is({"JAL", "JALR"}) -> Next4(ex_pc)
    [] Is({"LUI"})         -> ex_imm
    [] Is({"AUIPC"})       -> Plus(ex_pc, ex_imm)
    [] ex_csr              -> IF ex_flush THEN 0 ELSE ex_csr_read
    [] ex_alu              -> Alu(ex_insn.f, alu_op1, alu_op2)
    [] OTHER               -> 0

-----------------------------------------------------------------------------
(* Exceptions, interrupts and system calls of the instruction in stage 2;   *)
(* irq is the set of request lines that are up in this cycle.              *)

ex_ld_align_excp ==
  /\ ex_mem2reg /\ ~ex_flush
  /\ \/ ex_insn.f \in {"LH", "LHU"} /\ ex_memaddr % 2 # 0
     \/ ex_insn.f = "LW" /\ ex_memaddr % 4 # 0
ex_st_align_excp ==
  /\ Is({"STORE"}) /\ ~ex_flush
  /\ \/ ex_insn.f = "SH" /\ ex_memaddr % 2 # 0
     \/ ex_insn.f = "SW" /\ ex_memaddr % 4 # 0
ex_inst_ill_excp   == ~ex_flush /\ (ex_ill_branch \/ ex_ill_csr \/ ex_illegal)
ex_inst_align_excp == ~ex_flush /\ next_pc % 4 # 0

\* Mutants: a squashed instruction is interrupted; a jump cannot be.
ex_irq_squashed(q, irq) ==
  /\ q \in irq
  /\ HasBit(csr["mstatus"], MIE) /\ HasBit(csr["mie"], IrqBit(q))
  /\ ~Is({"SYSTEM"})
ex_irq_notjump(q, irq) ==
  /\ q \in irq
  /\ HasBit(csr["mstatus"], MIE) /\ HasBit(csr["mie"], IrqBit(q))
  /\ ~Is({"SYSTEM", "JAL"}) /\ ~ex_flush

ex_irq(q, irq) ==
  /\ q \in irq
  /\ HasBit(csr["mstatus"], MIE) /\ HasBit(csr["mie"], IrqBit(q))
  /\ ~Is({"SYSTEM"}) /\ ~ex_flush

ex_trap_nop  == \/ ex_inst_ill_excp \/ ex_inst_align_excp
                \/ ex_ld_align_excp \/ ex_st_align_excp
ex_trap(irq) == ex_trap_nop \/ (\E q \in Irq : ex_irq(q, irq)) \/ ex_systemcall

\* The requests are served in the order timer, software, external.
Served(irq) == CASE ex_irq("timer", irq) -> "timer"
                 [] ~ex_irq("timer", irq) /\ ex_irq("sw", irq) -> "sw"
                 [] OTHER -> "ext"

ex_mret == ex_systemcall /\ ex_imm % 4 = 2

\* ex_mcause[3:0], which the vectored mode of mtvec adds to the base.
CauseCode(irq) ==
  CASE ex_inst_ill_excp -> TRAP_INST_ILL
    [] ~ex_inst_ill_excp /\ ex_inst_align_excp -> TRAP_INST_ALIGN
    [] ~ex_inst_ill_excp /\ ~ex_inst_align_excp /\ ex_ld_align_excp -> TRAP_LD_ALIGN
    [] ~ex_inst_ill_excp /\ ~ex_inst_align_excp /\ ex_st_align_excp -> TRAP_ST_ALIGN
    [] ~ex_trap_nop /\ (\E q \in Irq : ex_irq(q, irq)) -> IntCode(Served(irq))
    [] OTHER -> CASE ex_imm % 4 = 0 -> TRAP_ECALL
                  [] ex_imm % 4 = 1 -> TRAP_BREAK
                  [] OTHER          -> TRAP_INST_ILL

ex_trap_pc(irq) ==
  CASE ex_mret -> csr["mepc"]
    [] ~ex_mret /\ csr["mtvec"] % 2 = 1 -> Plus(Align4(csr["mtvec"]), 4 * CauseCode(irq))
    [] OTHER -> Align4(csr["mtvec"])

\* Mutant: the word behind the interrupted instruction, even if that jumped.
ex_ret_pc_fallthrough == Even(Next4(ex_pc))

\* Where an interrupted instruction is resumed: its successor.
ex_ret_pc == IF Is({"JAL", "JALR"}) \/ (Is({"BRANCH"}) /\ branch_taken)
               THEN Even(next_pc) ELSE Even(Next4(ex_pc))

\* mstatus on entry to a handler.
TrapMstatus == ClearBit(CopyBit(csr["mstatus"], MPIE, MIE), MIE)

Saved(cause, epc, tval) ==
  [csr EXCEPT !["mcause"] = cause, !["mepc"] = epc, !["mtval"] = tval,
              !["mstatus"] = TrapMstatus]

\* FUNC3[2] selects the immediate form, FUNC3[1:0] write, set or clear.  The
\* unassigned code 4 ("bad") has the bits of the immediate write.
ex_csr_data == IF ex_insn.f \in {"CSRRWI", "CSRRSI", "CSRRCI", "bad"}
                 THEN ex_insn.rs1 ELSE alu_op1
CsrNew(old) ==
  CASE ex_insn.f \in {"CSRRS", "CSRRSI"} -> BitOr(old, ex_csr_data)
    [] ex_insn.f \in {"CSRRC", "CSRRCI"} -> BitAnd(old, BitNot(ex_csr_data))
    [] OTHER                             -> ex_csr_data

\* The trap CSRs and the CSR file, in the order of the case statement: an
\* illegal instruction, a CSR write, the other exceptions, interrupts, calls.
CsrNext(irq) ==
  CASE ex_inst_ill_excp -> Saved(TRAP_INST_ILL, Even(ex_pc), ex_insn.code)
    [] ~ex_inst_ill_excp /\ ex_csr_wr ->
         IF ex_insn.csr \in CsrReg
           THEN [csr EXCEPT ![ex_insn.csr] = CsrNew(csr[ex_insn.csr])] ELSE csr
    [] ~ex_inst_ill_excp /\ ~ex_csr_wr /\ ex_inst_align_excp ->
         Saved(TRAP_INST_ALIGN, Even(ex_pc), next_pc)
    [] ~ex_inst_ill_excp /\ ~ex_inst_align_excp /\ ex_ld_align_excp ->
         Saved(TRAP_LD_ALIGN, Even(ex_pc), ex_memaddr)
    [] ~ex_inst_ill_excp /\ ~ex_inst_align_excp /\ ex_st_align_excp ->
         Saved(TRAP_ST_ALIGN, Even(ex_pc), ex_memaddr)
    [] ~ex_trap_nop /\ (\E q \in Irq : ex_irq(q, irq)) ->
         [Saved(IntCause(Served(irq)), ex_ret_pc, 0)
            EXCEPT !["mip"] = SetBit(csr["mip"], IrqBit(Served(irq)))]
    [] ~ex_trap_nop /\ ex_systemcall ->
        (CASE ex_imm % 4 = 0 -> Saved(TRAP_ECALL, Even(ex_pc), 0)
           [] ex_imm % 4 = 1 -> Saved(TRAP_BREAK, Even(ex_pc), Even(ex_pc))
           [] ex_imm % 4 = 2 ->
                [csr EXCEPT !["mepc"] = Even(ex_pc), !["mtval"] = 0,
                            !["mstatus"] = CopyBit(csr["mstatus"], MIE, MPIE)]
           [] OTHER ->
                [csr EXCEPT !["mcause"] = TRAP_INST_ILL, !["mepc"] = Even(ex_pc),
                            !["mtval"] = ex_insn.code])
    [] OTHER -> csr

-----------------------------------------------------------------------------
(* The clock edge. *)

\* Stage 1.  During boot the fetched word is not an instruction yet.
inst == IF flush THEN NOP ELSE imem_rdata

\* Mutant: stage 1 waits while stage 2 is flushed.
FetchClk_wait(stall) ==
  /\ stall_r' = (stall \/ ex_flush)
  /\ flush' = stall_r
  /\ if_pc' = IF stall_r THEN if_pc ELSE fetch_pc
  /\ ex_pc' = IF stall_r THEN ex_pc ELSE if_pc
  /\ ex_insn' = IF stall_r THEN ex_insn ELSE inst
  /\ ex_mem2reg' = (inst.op = "LOAD")

FetchClk(stall) ==
  /\ stall_r' = stall
  /\ flush' = stall_r
  /\ if_pc' = IF stall_r THEN if_pc ELSE fetch_pc
  /\ ex_pc' = IF stall_r THEN ex_pc ELSE if_pc
  /\ ex_insn' = IF stall_r THEN ex_insn ELSE inst
  /\ ex_mem2reg' = (inst.op = "LOAD")

\* Mutant: an instruction that is being squashed still redirects fetch.
FetchPcClk_squashed(irq) ==
  fetch_pc' = CASE stall_r -> fetch_pc
                [] ~stall_r /\ ex_trap(irq) -> ex_trap_pc(irq)
                [] OTHER -> Even(next_pc)

FetchPcClk(irq) ==
  fetch_pc' = CASE stall_r -> fetch_pc
                [] ~stall_r /\ ex_flush -> Next4(fetch_pc)
                [] ~stall_r /\ ~ex_flush /\ ex_trap(irq) -> ex_trap_pc(irq)
                [] OTHER -> Even(next_pc)

\* Mutant: one slot is squashed instead of two.
SquashClk_oneslot(irq) ==
  IF stall_r
    THEN UNCHANGED <<wb_branch, wb_branch_nxt, wb_nop, wb_nop_more, wb_trap_nop>>
    ELSE /\ wb_branch' = (branch_taken \/ ex_trap(irq))
         /\ wb_branch_nxt' = wb_branch
         /\ wb_nop' = wb_branch
         /\ wb_nop_more' = FALSE
         /\ wb_trap_nop' = ex_trap_nop

\* A taken branch or a trap squashes the two instructions behind it, first in
\* stage 2 (wb_branch, wb_branch_nxt), then in stage 3 (wb_nop, wb_nop_more).
SquashClk(irq) ==
  IF stall_r
    THEN UNCHANGED <<wb_branch, wb_branch_nxt, wb_nop, wb_nop_more, wb_trap_nop>>
    ELSE /\ wb_branch' = (branch_taken \/ ex_trap(irq))
         /\ wb_branch_nxt' = wb_branch
         /\ wb_nop' = wb_branch
         /\ wb_nop_more' = wb_nop
         /\ wb_trap_nop' = ex_trap_nop

ResultClk ==
  wb' = IF stall_r THEN wb
        ELSE [alu2reg |-> \/ ex_alu \/ ex_csr
                          \/ Is({"LUI", "AUIPC", "JAL", "JALR"})
                          \/ ex_mem2reg /\ ~ex_ld_align_excp,
              result  |-> ex_result,
              dst_sel |-> ex_insn.rd,
              mem2reg |-> ex_mem2reg,
              raddr   |-> ex_memaddr % 4,
              alu_op  |-> ex_insn.f]

\* Byte lanes and replicated data of a store; an unassigned FUNC3 writes zero
\* to all four lanes.
StoreStrb(f, a) == CASE f = "SB" -> {a % 4}
                     [] f = "SH" -> IF (a % 4) \div 2 = 1 THEN {2, 3} ELSE {0, 1}
                     [] OTHER    -> 0 .. 3
StoreData(f, v) ==
  CASE f = "SB" -> FromLanes([i \in 0 .. 3 |-> Lane(v, 0)])
    [] f = "SH" -> FromLanes([i \in 0 .. 3 |-> Lane(v, i % 2)])
    [] f = "SW" -> v
    [] OTHER    -> 0

\* Mutant: a squashed store is performed.
StoreClk_squashed ==
  /\ wb_memwr' = (Is({"STORE"}) /\ ~ex_st_align_excp)
  /\ wb_store' = IF ~stall_r /\ Is({"STORE"})
                   THEN [waddr |-> ex_memaddr, wstrb |-> StoreStrb(ex_insn.f, ex_memaddr),
                         wdata |-> StoreData(ex_insn.f, alu_op2)]
                   ELSE wb_store

StoreClk ==
  /\ wb_memwr' = (Is({"STORE"}) /\ ~ex_flush /\ ~ex_st_align_excp)
  /\ wb_store' = IF ~stall_r /\ Is({"STORE"})
                   THEN [waddr |-> ex_memaddr, wstrb |-> StoreStrb(ex_insn.f, ex_memaddr),
                         wdata |-> StoreData(ex_insn.f, alu_op2)]
                   ELSE wb_store

CsrClk(irq) == csr' = IF ~stall_r /\ ~ex_flush THEN CsrNext(irq) ELSE csr

RegfileClk == regs' = IF RegWrite THEN [regs EXCEPT ![wb.dst_sel] = wb_value] ELSE regs

\* Mutant: pipefill does not stop at 2.
CountClk_unbounded ==
  /\ pipefill' = IF stall_r THEN pipefill ELSE pipefill + 1
  /\ cycle' = IF ~stall_r /\ pipefill = 2 THEN (cycle + 1) % CountMod ELSE cycle
  /\ instret' = IF ~stall_r /\ pipefill = 2 /\ ~ex_flush THEN (instret + 1) % CountMod
                                                         ELSE instret

\* The counters start when the first fetched instruction reaches stage 2.
CountClk ==
  /\ pipefill' = IF stall_r \/ pipefill = 2 THEN pipefill ELSE pipefill + 1
  /\ cycle' = IF ~stall_r /\ pipefill = 2 THEN (cycle + 1) % CountMod ELSE cycle
  /\ instret' = IF ~stall_r /\ pipefill = 2 /\ ~ex_flush THEN (instret + 1) % CountMod
                                                         ELSE instret

Clk(stall, irq) ==
  /\ FetchClk(stall)
  /\ FetchPcClk(irq)
  /\ SquashClk(irq)
  /\ ResultClk
  /\ StoreClk
  /\ CsrClk(irq)
  /\ RegfileClk
  /\ CountClk

\* A trap while mtvec is unset ends the simulation.
Finish(irq) == ~stall_r /\ ex_trap(irq) /\ Align4(csr["mtvec"]) = 0
=============================================================================
