------------------------------ MODULE Encoding ------------------------------
(***************************************************************************)
(* Instruction words as the three decoders of the repository see them: the *)
(* switch of srv32_step in tools/rvsim.c, stage 1 of rtl/riscv.v and, in   *)
(* the module Disas, tools/riscv-disas.c.  A word is its two halfwords in  *)
(* memory order (the bit fields of the unions of tools/opcode.h are        *)
(* slices of it); a decoded instruction is a mnemonic with its operands.   *)
(***************************************************************************)
EXTENDS Integers, TLC

Half == 0 .. 65535
Word32(h, l) == [hi |-> h, lo |-> l]

\* x[m:n] of a halfword, inst[m:n] of a word, and an n-bit two's complement.
Cut(x, m, n) == (x \div 2 ^ n) % 2 ^ (m - n + 1)
Slice(w, m, n) == CASE n >= 16 -> Cut(w.hi, m - 16, n - 16)
                    [] m < 16  -> Cut(w.lo, m, n)
                    [] OTHER   -> Cut(w.hi, m - 16, 0) * 2 ^ (16 - n) + Cut(w.lo, 15, n)
Sext(x, n) == IF x >= 2 ^ (n - 1) THEN x - 2 ^ n ELSE x

\* The fields of INST.
op(w)    == Slice(w, 6, 0)
rd(w)    == Slice(w, 11, 7)
func3(w) == Slice(w, 14, 12)
rs1(w)   == Slice(w, 19, 15)
rs2(w)   == Slice(w, 24, 20)
func7(w) == Slice(w, 31, 25)
imm12(w) == Slice(w, 31, 20)
imm20(w) == Slice(w, 31, 12)

\* The word with the given fields: register and immediate layouts.
RWord(o, d, f3, s1, s2, f7) ==
  Word32(s1 \div 2 + 16 * s2 + 512 * f7, o + 128 * d + 4096 * f3 + 32768 * (s1 % 2))
IWord(o, d, f3, s1, i) == RWord(o, d, f3, s1, i % 32, i \div 32)
UWord(o, d, i) == RWord(o, d, i % 8, (i \div 8) % 32, (i \div 256) % 32, i \div 8192)

OP_AUIPC  == 23
OP_LUI    == 55
OP_JAL    == 111
OP_JALR   == 103
OP_BRANCH == 99
OP_LOAD   == 3
OP_STORE  == 35
OP_ARITHI == 19
OP_ARITHR == 51
OP_FENCE  == 15
OP_SYSTEM == 115

\* FUNC3 of each group: the mnemonic it selects.
Branches == [f \in {0, 1, 4, 5, 6, 7} |-> <<"beq", "bne", "-", "-", "blt", "bge", "bltu", "bgeu">>[f + 1]]
Loads    == [f \in {0, 1, 2, 4, 5} |-> <<"lb", "lh", "lw", "-", "lbu", "lhu">>[f + 1]]
Stores   == [f \in 0 .. 2 |-> <<"sb", "sh", "sw">>[f + 1]]
Ariths   == [f \in 0 .. 7 |-> <<"add", "sll", "slt", "sltu", "xor", "srl", "or", "and">>[f + 1]]
Arithis  == [f \in 0 .. 7 |-> <<"addi", "slli", "slti", "sltiu", "xori", "srli", "ori", "andi">>[f + 1]]
Muls     == [f \in 0 .. 7 |-> <<"mul", "mulh", "mulhsu", "mulhu", "div", "divu", "rem", "remu">>[f + 1]]
Csrs     == [f \in {1, 2, 3, 5, 6, 7} |-> <<"csrrw", "csrrs", "csrrc", "-", "csrrwi", "csrrsi", "csrrci">>[f]]
\* The low bits of the immediate of SYSTEM.
Traps    == [i \in 0 .. 2 |-> <<"ecall", "ebreak", "mret">>[i + 1]]

Pick(table, k) == IF k \in DOMAIN table THEN table[k] ELSE "illegal"

\* A decoded instruction; fields the mnemonic does not use are 0.
Ins(o, d, s1, s2, i) == [op |-> o, rd |-> d, rs1 |-> s1, rs2 |-> s2, imm |-> i]
IllegalIns == Ins("illegal", 0, 0, 0, 0)
Legal(i) == IF i.op = "illegal" THEN IllegalIns ELSE i

-----------------------------------------------------------------------------
(* The simulator. *)

to_imm_i(n)      == Sext(n, 12)
to_imm_s(n1, n2) == Sext(32 * n1 + n2, 12)
to_imm_b(n1, n2) ==
  LET n == 32 * n1 + n2
  IN  Sext(4096 * Cut(n, 11, 11) + 32 * Cut(n, 10, 5) + 2 * Cut(n, 4, 1) + 2048 * Cut(n, 0, 0), 13)
to_imm_j(n) ==
  Sext(2 ^ 20 * Cut(n, 19, 19) + 2 * Cut(n, 18, 9) + 2048 * Cut(n, 8, 8) + 4096 * Cut(n, 7, 0), 21)
to_imm_u(n) == Sext(n, 20) * 4096

\* RV32B, by FUNC7; the unary ones also by the rs2 field.
ShiftLeftB(f7, s2) == CASE f7 = 20 -> "bseti"
                        [] f7 = 36 -> "bclri"
                        [] f7 = 48 -> Pick(0 :> "clz" @@ 1 :> "ctz" @@ 2 :> "cpop"
                                           @@ 4 :> "sext.b" @@ 5 :> "sext.h", s2)
                        [] f7 = 52 -> "binvi"
                        [] OTHER   -> "illegal"
ShiftRightB(f7, s2) == CASE f7 = 20 -> Pick(7 :> "orc.b", s2)
                         [] f7 = 36 -> "bexti"
                         [] f7 = 48 -> "rori"
                         [] f7 = 52 -> Pick(24 :> "rev8", s2)
                         [] OTHER   -> "illegal"
ArithB(f7, f3) ==
  CASE f7 = 32 -> Pick(7 :> "andn" @@ 6 :> "orn" @@ 4 :> "xnor", f3)
    [] f7 = 4  -> "zext.h"
    [] f7 = 5  -> Pick(1 :> "clmul" @@ 2 :> "clmulr" @@ 3 :> "clmulh" @@ 4 :> "min"
                       @@ 5 :> "minu" @@ 6 :> "max" @@ 7 :> "maxu", f3)
    [] f7 = 16 -> Pick(2 :> "sh1add" @@ 4 :> "sh2add" @@ 6 :> "sh3add", f3)
    [] f7 = 20 -> "bset"
    [] f7 = 36 -> Pick(1 :> "bclr" @@ 5 :> "bext", f3)
    [] f7 = 48 -> Pick(1 :> "rol" @@ 5 :> "ror", f3)
    [] f7 = 52 -> "binv"
    [] OTHER   -> "illegal"

ArithiOp(f3, f7, s2, b) ==
  CASE f3 = 1 /\ f7 # 0 -> IF b THEN ShiftLeftB(f7, s2) ELSE "illegal"
    [] f3 = 5 /\ f7 = 32 -> "srai"
    [] f3 = 5 /\ f7 \notin {0, 32} -> IF b THEN ShiftRightB(f7, s2) ELSE "illegal"
    [] OTHER -> Arithis[f3]
ArithrOp(f3, f7, b) ==
  CASE f7 = 1 -> Muls[f3]
    [] f7 = 0 -> Ariths[f3]
    [] f7 = 32 /\ f3 \in {0, 5} -> IF f3 = 0 THEN "sub" ELSE "sra"
    [] OTHER -> IF b THEN ArithB(f7, f3) ELSE "illegal"

\* What srv32_step executes for the word w; b: built with RV32B.
srv32_decode(w, b) ==
  LET o == op(w)  f3 == func3(w)
  IN  CASE o = OP_AUIPC  -> Ins("auipc", rd(w), 0, 0, to_imm_u(imm20(w)))
        [] o = OP_LUI    -> Ins("lui", rd(w), 0, 0, to_imm_u(imm20(w)))
        [] o = OP_JAL    -> Ins("jal", rd(w), 0, 0, to_imm_j(imm20(w)))
        [] o = OP_JALR   -> Ins("jalr", rd(w), rs1(w), 0, to_imm_i(imm12(w)))
        [] o = OP_BRANCH -> Legal(Ins(Pick(Branches, f3), 0, rs1(w), rs2(w),
                                      to_imm_b(func7(w), rd(w))))
        [] o = OP_LOAD   -> Legal(Ins(Pick(Loads, f3), rd(w), rs1(w), 0, to_imm_i(imm12(w))))
        [] o = OP_STORE  -> Legal(Ins(Pick(Stores, f3), 0, rs1(w), rs2(w),
                                      to_imm_s(func7(w), rd(w))))
        [] o = OP_ARITHI -> Legal(Ins(ArithiOp(f3, func7(w), rs2(w), b), rd(w), rs1(w), 0,
                                      IF f3 \in {1, 5} THEN imm12(w) % 32 ELSE to_imm_i(imm12(w))))
        [] o = OP_ARITHR -> Legal(Ins(ArithrOp(f3, func7(w), b), rd(w), rs1(w), rs2(w), 0))
        [] o = OP_FENCE  -> Ins("fence", 0, 0, 0, 0)
        [] o = OP_SYSTEM /\ f3 = 0 ->
             Legal(Ins(Pick(Traps, imm12(w) % 4), 0, 0, 0, 0))
        [] o = OP_SYSTEM /\ f3 # 0 -> Legal(Ins(Pick(Csrs, f3), rd(w), rs1(w), 0, imm12(w)))
        [] OTHER -> IllegalIns

-----------------------------------------------------------------------------
(* The core. *)

\* Mutant: inst[7] and inst[31] change places.
core_imm_b_swapped(w) == Sext(4096 * Slice(w, 7, 7) + 2048 * Slice(w, 31, 31)
                              + 32 * Slice(w, 30, 25) + 2 * Slice(w, 11, 8), 13)

\* {{20{inst[31]}}, inst[7], inst[30:25], inst[11:8], 1'b0}
core_imm_b(w) == Sext(4096 * Slice(w, 31, 31) + 2048 * Slice(w, 7, 7)
                      + 32 * Slice(w, 30, 25) + 2 * Slice(w, 11, 8), 13)

\* The immediate assembled in stage 1.
core_imm(w) ==
  LET o == op(w)
  IN  CASE o \in {OP_AUIPC, OP_LUI} -> Sext(Slice(w, 31, 12), 20) * 4096
        [] o = OP_JAL    -> Sext(2 ^ 20 * Slice(w, 31, 31) + 4096 * Slice(w, 19, 12)
                                 + 2048 * Slice(w, 20, 20) + 2 * Slice(w, 30, 21), 21)
        [] o = OP_BRANCH -> core_imm_b(w)
        [] o \in {OP_JALR, OP_LOAD} -> Sext(Slice(w, 31, 20), 12)
        [] o = OP_STORE  -> Sext(32 * Slice(w, 31, 25) + Slice(w, 11, 7), 12)
        [] o = OP_ARITHI -> IF func3(w) \in {1, 5} THEN Slice(w, 24, 20)
                                                   ELSE Sext(Slice(w, 31, 20), 12)
        [] o = OP_SYSTEM -> Slice(w, 31, 20)
        [] OTHER         -> 0

\* ex_illegal, and ex_ill_branch of stage 2.
core_illegal(w) ==
  LET o == op(w)
  IN  ~ \/ o \in {OP_AUIPC, OP_LUI, OP_JAL, OP_JALR, OP_ARITHI, OP_FENCE, OP_SYSTEM}
        \/ o = OP_BRANCH /\ func3(w) \in DOMAIN Branches
        \/ o = OP_LOAD /\ func3(w) \in DOMAIN Loads
        \/ o = OP_STORE /\ func3(w) \in DOMAIN Stores
        \/ o = OP_ARITHR /\ func7(w) \in {0, 32, 1}

\* What stage 2 executes: FUNC3 selects, inst[30] makes a subtraction or an
\* arithmetic shift of "add" (but not "addi") and "srl", and FUNC7 = 1 the
\* multiplier.  FUNC3 = 4 of SYSTEM is not refused: it acts as a csrrwi that does
\* not write a zero.
core_decode(w) ==
  LET o   == op(w)  f3 == func3(w)  sub == Slice(w, 30, 30) = 1
      i   == core_imm(w)
      sys == Pick(Traps, i % 4)
      name == CASE o = OP_AUIPC  -> "auipc"
                [] o = OP_LUI    -> "lui"
                [] o = OP_JAL    -> "jal"
                [] o = OP_JALR   -> "jalr"
                [] o = OP_FENCE  -> "fence"
                [] o = OP_BRANCH -> Branches[f3]
                [] o = OP_LOAD   -> Loads[f3]
                [] o = OP_STORE  -> Stores[f3]
                [] o = OP_ARITHI -> IF f3 = 5 /\ sub THEN "srai" ELSE Arithis[f3]
                [] o = OP_ARITHR -> CASE func7(w) = 1   -> Muls[f3]
                                      [] f3 = 0 /\ sub  -> "sub"
                                      [] f3 = 5 /\ sub  -> "sra"
                                      [] OTHER          -> Ariths[f3]
                [] o = OP_SYSTEM -> IF f3 = 0 THEN sys ELSE IF f3 = 4 THEN "csr4" ELSE Csrs[f3]
      writes == o \notin {OP_BRANCH, OP_STORE, OP_FENCE} /\ ~(o = OP_SYSTEM /\ f3 = 0)
      reads1 == o \notin {OP_AUIPC, OP_LUI, OP_JAL, OP_FENCE} /\ ~(o = OP_SYSTEM /\ f3 = 0)
      reads2 == o \in {OP_BRANCH, OP_STORE, OP_ARITHR}
  IN  IF core_illegal(w) THEN IllegalIns
      ELSE Legal(Ins(name, IF writes THEN rd(w) ELSE 0, IF reads1 THEN rs1(w) ELSE 0,
                     IF reads2 THEN rs2(w) ELSE 0,
                     IF o = OP_SYSTEM /\ f3 = 0 THEN 0 ELSE i))
=============================================================================
