---------------------------- MODULE MCTestbench ----------------------------
(***************************************************************************)
(* Instances of Testbench for TLC: words of 16 bits (four 4-bit bytes), the *)
(* arithmetic of AluOps, and families of short programs.                   *)
(***************************************************************************)
EXTENDS Testbench, Asm

MCAlu == INSTANCE AluOps WITH XLEN <- 16
MCAluResult(f, a, b) == MCAlu!AluResult(f, a, b)
MCAnd(a, b) == MCAlu!And(a, b)
MCOr(a, b)  == MCAlu!Or(a, b)

MCDataImages == {[a \in 0 .. NMem - 1 |-> IF a = 0 THEN 37009 ELSE 4660]}
MCScratch == {0}

-----------------------------------------------------------------------------
(* Data hazards: every order of dependent arithmetic, loads and stores of    *)
(* several sizes to the same words, branches, links and calls.  mtvec is     *)
(* unset, so the first trap, or running off the end, ends the run.          *)
HazardInsns ==
  {Arithi("XOR", 1, 1, 5), Arithr("SUB", 2, 1, 2), Arithr("DIV", 1, 2, 1),
   Load_("LW", 2, 0, 0), Load_("LB", 1, 1, 0), Load_("LHU", 1, 0, 6),
   Store_("SW", 2, 0, 0), Store_("SB", 1, 1, 0), Store_("SH", 2, 0, 2),
   Br("BNE", 1, 2, 8), Br("BLT", 1, 2, Neg(4)), Jal(2, Neg(4)), Jalr(1, 2, 4),
   Auipc(0, 8)}
HazardPrograms == Images(<<>>, HazardInsns, 4)

(* Exceptions and calls.  The direct handler (mtvec 8) is word 2, the first   *)
(* free instruction; the vectored ones (mtvec 5) start at word 1, so that an  *)
(* illegal instruction goes to word 3 and a misaligned load to word 5.        *)
TrapInsns ==
  {Arithi("XOR", 1, 1, 2), Load_("LH", 1, 1, 1), Store_("SW", 1, 1, 0), Br("bad", 0, 0, 8),
   Jalr(1, 1, 0), Ecall, Ebreak, Mret, BadSys, ZeroInsn, Load_("bad", 1, 0, 0),
   Csr("CSRRW", 1, "mepc", 0), Csr("CSRRS", 1, "mcause", 1), Csr("CSRRC", 2, "other", 0),
   Csr("CSRRW", 1, "instret", 1)}
TrapPrograms ==
  UNION {Images(<<Csr("CSRRWI", 0, "mtvec", v), Csr("CSRRSI", 1, "mstatus", 8)>>, TrapInsns, 3)
         : v \in {8, 5}}

PipelinePrograms == HazardPrograms \cup TrapPrograms

(* Interrupts at every point of a program that enables them all. *)
IrqInsns ==
  {Arithi("XOR", 1, 1, 4), Load_("LW", 1, 0, 2), Store_("SW", 1, 0, 4), Jal(2, Neg(4)),
   Br("BEQ", 1, 0, Neg(8)), Csr("CSRRCI", 2, "mstatus", 8), Mret, Fence}
IrqPrograms ==
  Images(<<Lui(1, 2184), Csr("CSRRW", 0, "mie", 1), Csr("CSRRWI", 0, "mtvec", 12),
           Csr("CSRRSI", 0, "mstatus", 8)>>, IrqInsns, 3)

(* Loops, calls and handlers under a timer request that is never withdrawn.  *)
(* There is no mret: it jumps to itself when it is executed twice in a row.  *)
HeldInsns ==
  {Arithi("XOR", 1, 1, 4), Jal(2, 0), Jal(0, Neg(8)), Jalr(0, 2, 0), Br("BNE", 1, 0, Neg(4)),
   Csr("CSRRSI", 2, "mstatus", 8), Ecall, Store_("SW", 1, 1, 0)}
HeldPrograms ==
  Images(<<Lui(1, 128), Csr("CSRRW", 0, "mie", 1), Csr("CSRRWI", 0, "mtvec", 12),
           Csr("CSRRSI", 0, "mstatus", 8)>>, HeldInsns, 3)

(* An unassigned FUNC3 of the store opcode. *)
IllegalStorePrograms ==
  Images(<<Csr("CSRRWI", 0, "mtvec", 8)>>, {Store_("bad", 1, 0, 0), Arithi("ADD", 1, 0, 4)}, 2)
=============================================================================
