------------------------------- MODULE Srv32 -------------------------------
(***************************************************************************)
(* The vocabulary of rtl/opcode.vh: words, decoded instructions, trap      *)
(* causes and CSRs, with the pure word functions that the core and the     *)
(* architecture it implements have in common.                              *)
(*                                                                         *)
(* A word is a number below WordMod and is made of four bytes; ByteMod is  *)
(* 2^8 in the code and WordMod is 2^32.  An instruction is its decoded     *)
(* fields: "op" is the opcode, "f" the operation FUNC3 and FUNC7 select    *)
(* ("bad" for an encoding that selects none), "imm" the immediate of its   *)
(* format, "csr" the CSR a CSR instruction names, and "code" the           *)
(* instruction word itself, which only mtval ever shows.                   *)
(*                                                                         *)
(* The functions of the ALU and the bitwise operations are parameters:     *)
(* nothing about the pipeline depends on what they compute.                *)
(***************************************************************************)
EXTENDS Integers

CONSTANTS ByteMod,        \* values of a byte
          NReg,           \* registers: 32, or 16 with RV32E
          Alu(_, _, _),   \* Alu(f, a, b): the result of operation f
          BitAnd(_, _),   \* bitwise operations on words
          BitOr(_, _)

WordMod == ByteMod * ByteMod * ByteMod * ByteMod
Word == 0 .. WordMod - 1
Reg  == 0 .. NReg - 1

ASSUME Srv32Assumption ==
  /\ ByteMod \in Nat
  /\ ByteMod > 0
  /\ ByteMod % 16 = 0
  /\ NReg \in Nat
  /\ NReg > 1
  /\ NReg <= 32

-----------------------------------------------------------------------------
(* Word arithmetic. *)

Plus(a, b) == (a + b) % WordMod
Next4(a)   == Plus(a, 4)
Even(a)    == a - (a % 2)      \* {a[31:1], 1'b0}
Align4(a)  == a - (a % 4)      \* {a[31:2], 2'b00}
BitNot(a)  == WordMod - 1 - a
Signed(a)  == IF 2 * a >= WordMod THEN a - WordMod ELSE a

\* The bit of w with the given weight.
HasBit(w, weight)    == (w \div weight) % 2 = 1
SetBit(w, weight)    == IF HasBit(w, weight) THEN w ELSE w + weight
ClearBit(w, weight)  == IF HasBit(w, weight) THEN w - weight ELSE w
CopyBit(w, to, from) == IF HasBit(w, from) THEN SetBit(w, to) ELSE ClearBit(w, to)

\* Bytes of a word: lane 0 is w[7:0].
LaneWeight == [i \in 0 .. 3 |-> CASE i = 0 -> 1
                                  [] i = 1 -> ByteMod
                                  [] i = 2 -> ByteMod * ByteMod
                                  [] i = 3 -> ByteMod * ByteMod * ByteMod]
Lane(w, i)   == (w \div LaneWeight[i]) % ByteMod
FromLanes(l) == l[0] + ByteMod * (l[1] + ByteMod * (l[2] + ByteMod * l[3]))

\* The word whose lanes in strb come from data and the others from old.
Merge(old, strb, data) ==
  FromLanes([i \in 0 .. 3 |-> IF i \in strb THEN Lane(data, i) ELSE Lane(old, i)])

-----------------------------------------------------------------------------
(* Instructions. *)

Opcode == {"AUIPC", "LUI", "JAL", "JALR", "BRANCH", "LOAD", "STORE",
           "ARITHI", "ARITHR", "FENCE", "SYSTEM", "BAD"}

BranchFn == {"BEQ", "BNE", "BLT", "BGE", "BLTU", "BGEU"}
LoadFn   == {"LB", "LH", "LW", "LBU", "LHU"}
StoreFn  == {"SB", "SH", "SW"}
CsrFn    == {"CSRRW", "CSRRS", "CSRRC", "CSRRWI", "CSRRSI", "CSRRCI"}
AluFn    == {"ADD", "SUB", "SLL", "SLT", "SLTU", "XOR", "SRL", "SRA", "OR", "AND",
             "MUL", "MULH", "MULSU", "MULU", "DIV", "DIVU", "REM", "REMU"}
Funct    == BranchFn \cup LoadFn \cup StoreFn \cup CsrFn \cup AluFn
              \cup {"PRIV", "bad", "none"}

\* CSRs with storage, read-only ones, and "other" for every address that
\* has none.
CsrReg   == {"mscratch", "mstatus", "mstatush", "misa", "mie", "mip", "mtvec",
             "mepc", "mcause", "mtval"}
CsrConst == {"mvendorid", "marchid", "mimpid", "mhartid"}
CsrCount == {"cycle", "cycleh", "instret", "instreth"}
CsrAddr  == CsrReg \cup CsrConst \cup CsrCount \cup {"other"}

\* The operations an opcode can select.
FunctOf(op) == CASE op = "BRANCH" -> BranchFn \cup {"bad"}
                 [] op = "LOAD"   -> LoadFn \cup {"bad"}
                 [] op = "STORE"  -> StoreFn \cup {"bad"}
                 [] op = "SYSTEM" -> CsrFn \cup {"PRIV", "bad"}
                 [] op = "ARITHI" -> AluFn
                 [] op = "ARITHR" -> AluFn \cup {"bad"}
                 [] OTHER         -> {"none"}

Insn == [op : Opcode, f : Funct, rd : Reg, rs1 : Reg, rs2 : Reg,
         imm : Word, csr : CsrAddr, code : Word]
IsInsn(i) == i \in Insn /\ i.f \in FunctOf(i.op)

\* What the theorems need to know of the parameters: words go to words
\* (W is the set of words).
WordFunctions(W) ==
  /\ \A a, b \in W : BitAnd(a, b) \in W /\ BitOr(a, b) \in W
  /\ \A f \in AluFn : \A a, b \in W : Alu(f, a, b) \in W

NOP == [op |-> "ARITHI", f |-> "ADD", rd |-> 0, rs1 |-> 0, rs2 |-> 0,
        imm |-> 0, csr |-> "other", code |-> 19]
\* What unwritten instruction memory holds: the word 0, an illegal instruction.
ZeroInsn == [op |-> "BAD", f |-> "none", rd |-> 0, rs1 |-> 0, rs2 |-> 0,
             imm |-> 0, csr |-> "other", code |-> 0]

RESETVEC == 0

\* mstatus bits MIE and MPIE; the mie and mip bits of the interrupt sources.
MIE  == 8
MPIE == 128
Irq  == {"timer", "sw", "ext"}
IrqBit(i) == CASE i = "timer" -> 128 [] i = "sw" -> 8 [] i = "ext" -> 2048

TRAP_INST_ALIGN == 0
TRAP_INST_FAIL  == 1
TRAP_INST_ILL   == 2
TRAP_BREAK      == 3
TRAP_LD_ALIGN   == 4
TRAP_LD_FAIL    == 5
TRAP_ST_ALIGN   == 6
TRAP_ST_FAIL    == 7
TRAP_ECALL      == 11
\* INT_MTIME, INT_MSI and INT_MEI: the top bit and the number of the source.
IntCode(i)  == CASE i = "timer" -> 7 [] i = "sw" -> 3 [] i = "ext" -> 11
IntCause(i) == WordMod \div 2 + IntCode(i)
=============================================================================
