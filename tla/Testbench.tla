----------------------------- MODULE Testbench -----------------------------
(***************************************************************************)
(* The core with the memories the simulation gives it: instruction and     *)
(* data RAM (testbench.v, memmodel.v), the boot-time stall, and interrupt  *)
(* request lines that may rise and fall in any cycle.  Data addresses are  *)
(* those of the RAM, and the instruction RAM is as large as the address    *)
(* space (the harness ends a simulation that fetches beyond it).           *)
(***************************************************************************)
EXTENDS Riscv

CONSTANTS Programs,    \* contents of the instruction memory (imem.bin)
          DataImages,  \* contents of the data memory (dmem.bin)
          NMem,        \* words of data memory
          Scratch,     \* values the unreset mscratch may power up with
          MISA,        \* the reset value of misa
          Lines        \* interrupt lines the environment uses

ASSUME TestbenchAssumption ==
  /\ CountMod \in Nat \ {0}
  /\ NMem \in Nat \ {0}
  /\ \A p \in Programs : DOMAIN p \subseteq Nat /\ \A k \in DOMAIN p : IsInsn(p[k])
  /\ DataImages \subseteq [0 .. NMem - 1 -> Word]
  /\ Scratch \subseteq Word
  /\ MISA \in Word
  /\ Lines \subseteq Irq

VARIABLES imem, dmem, stall, halted

vars == <<coreVars, imem_rdata, dmem_rdata, imem, dmem, stall, halted>>

Dmem == INSTANCE Mem2ports WITH ram <- dmem, rdata <- dmem_rdata, Size <- NMem

\* The instruction at a fetch address; memory beyond the image is zero.
ImemWord(a) == IF a \div 4 \in DOMAIN imem THEN imem[a \div 4] ELSE ZeroInsn

TypeOK ==
  /\ CoreTypeOK
  /\ (\A k \in DOMAIN imem : IsInsn(imem[k])) /\ IsInsn(imem_rdata)
  /\ dmem \in [0 .. NMem - 1 -> Word] /\ dmem_rdata \in Word
  /\ stall \in BOOLEAN /\ halted \in BOOLEAN

Init ==
  /\ \E s \in Scratch : CoreReset(s, MISA)
  /\ imem \in Programs /\ imem_rdata = ZeroInsn
  /\ dmem \in DataImages /\ dmem_rdata = 0
  /\ stall = TRUE /\ halted = FALSE

ImemClk == imem_rdata' = IF stall_r THEN imem_rdata ELSE ImemWord(fetch_pc)

\* One clock cycle.  The harness holds stall until the image is loaded, then
\* releases it for good.
Cycle(irq) ==
  /\ ~halted
  /\ Clk(stall, irq)
  /\ ImemClk
  /\ Dmem!Clk(ex_mem2reg, ex_memaddr,
              wb_memwr, wb_store.waddr, wb_store.wdata, wb_store.wstrb)
  /\ halted' = Finish(irq)
  /\ stall' \in {FALSE, stall}
  /\ UNCHANGED imem

Next == \E irq \in SUBSET Lines : Cycle(irq)

Spec == Init /\ [][Next]_vars

\* All request lines in use are held up; the clock runs, and the harness
\* releases stall some time after reset.
HeldSpec == /\ Init /\ [][Cycle(Lines)]_vars
            /\ WF_vars(Cycle(Lines))
            /\ WF_vars(Cycle(Lines) /\ stall' = FALSE)

-----------------------------------------------------------------------------
(* The machine the program sees: the state of the registers and of memory   *)
(* once the instruction in stage 3 has finished, and the pc of the oldest   *)
(* instruction that is neither finished nor squashed.                      *)

ArchRegs == IF RegWrite THEN [regs EXCEPT ![wb.dst_sel] = wb_value] ELSE regs
ArchMem  == IF wb_memwr
              THEN [dmem EXCEPT ![Dmem!Adr(wb_store.waddr)] =
                                  Merge(@, wb_store.wstrb, wb_store.wdata)]
              ELSE dmem
ArchPc   == CASE wb_branch -> fetch_pc
              [] ~wb_branch /\ wb_branch_nxt -> if_pc
              [] OTHER -> ex_pc

\* Both RAMs decode the low bits of an address and answer everywhere.
InRam(a)  == TRUE
InText(a) == TRUE

Arch == INSTANCE Isa WITH pc <- ArchPc, regs <- ArchRegs, mem <- ArchMem

\* The pipeline implements the architecture: seen through the mapping above,
\* every clock edge executes the instruction at the pc, or changes nothing.
ImplementsIsa == Arch!Spec

\* The order of the pcs in the pipe: fetch runs one word ahead of stage 1 and
\* two words ahead of stage 2, and a redirect restores that order in two edges.
PcChain ==
  /\ ~(wb_branch /\ wb_branch_nxt)
  /\ wb_nop = wb_branch_nxt
  /\ ~(wb_nop /\ wb_nop_more)
  /\ wb_trap_nop => wb_branch
  /\ wb_branch_nxt => fetch_pc = Next4(if_pc)
  /\ pipefill = 2 /\ ~ex_flush => if_pc = Next4(ex_pc) /\ fetch_pc = Next4(if_pc)

\* Until the first instruction reaches stage 2 the pipe holds bubbles at the
\* reset vector and no interrupt is enabled.
BootOrder ==
  /\ pipefill \in 0 .. 2
  /\ stall => stall_r
  /\ pipefill = 0 <=> flush
  /\ stall_r => flush
  /\ pipefill < 2 =>
       /\ ex_insn = IF pipefill = 0 THEN Bubble ELSE NOP
       /\ ex_pc = RESETVEC /\ if_pc = RESETVEC
       /\ fetch_pc = IF pipefill = 0 THEN RESETVEC ELSE Next4(RESETVEC)
       /\ csr["mstatus"] = 0
       /\ ~wb_branch /\ ~wb_branch_nxt /\ ~wb_nop_more /\ ~wb_memwr

\* The words in stages 1 and 2 are the ones memory holds at their pcs.
FetchMatches ==
  /\ pipefill > 0 => imem_rdata = ImemWord(if_pc)
  /\ pipefill = 2 => ex_insn = ImemWord(ex_pc)
  /\ ex_mem2reg = (ex_insn.op = "LOAD")

\* The pipe as a whole: what stage 2 executes next is the instruction at the
\* program's pc, through boot, taken branches, traps and interrupts.
PipeInv == PcChain /\ BootOrder /\ FetchMatches

\* A squashed instruction leaves no trace: while stage 2 is flushed, no edge
\* changes the machine the program sees.
SquashedIsSilent ==
  [][ex_flush => UNCHANGED <<ArchPc, ArchRegs, ArchMem, csr, instret>>]_vars

\* A faulting instruction does not change memory: the trap of an illegal or
\* misaligned instruction is all that happens (wb_memwr, riscv.v).
FaultLeavesMemory ==
  [][~stall_r /\ ex_trap_nop => ArchMem' = ArchMem]_vars

\* The machine never stops committing instructions: bubbles of boot, of taken
\* branches and of traps always end, unless a trap ends the simulation.
CommitsForever == []<>(halted \/ (pipefill = 2 /\ ~ex_flush))

\* A device that holds its request up is served: while the timer line is up,
\* no program keeps that interrupt enabled forever (ex_timer_irq, riscv.v,
\* which waits for an instruction that is not a SYSTEM one).
HeldIrqServed ==
  []<>(halted \/ ~HasBit(csr["mstatus"], MIE) \/ ~HasBit(csr["mie"], IrqBit("timer")))
=============================================================================
