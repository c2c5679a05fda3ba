----------------------------- MODULE Decompress -----------------------------
(***************************************************************************)
(* tools/decompress.c: the expansion of a halfword of RV32C into the word  *)
(* the simulator executes.  The slices below are those of the union INSTC  *)
(* of tools/opcode.h; sums of GET_IMM are sums of shifted slices, and the  *)
(* field they are assigned to is wide enough for each of them.             *)
(***************************************************************************)
EXTENDS Encoding

\* INSTC: cr and ci, and the three-bit registers of ciw, cl, cs, ca and cb.
c_op(c)    == Cut(c, 1, 0)
c_func3(c) == Cut(c, 15, 13)
c_rd(c)    == Cut(c, 11, 7)
c_rs2(c)   == Cut(c, 6, 2)      \* imm_l of ci and cb
c_imm_h(c) == Cut(c, 12, 12)    \* imm_h of ci
c_rd_(c)   == 8 + Cut(c, 4, 2)
c_rs1_(c)  == 8 + Cut(c, 9, 7)

\* (v >> from) << to, masked to n bits.
GET_IMM(v, from, to, n) == Cut(v, from + n - 1, from) * 2 ^ to

\* The signed six-bit immediate of ci, in the twelve bits of an I-type word.
SignedImm(c) == (IF c_imm_h(c) = 1 THEN 4064 ELSE 0) + c_rs2(c)

NOP == IWord(OP_ARITHI, 0, 0, 0, 0)
Some(w)     == [compressed |-> TRUE, illegal |-> FALSE, inst |-> w]
Reserved    == [compressed |-> TRUE, illegal |-> TRUE, inst |-> Word32(0, 0)]
Uncompressed == [compressed |-> FALSE, illegal |-> FALSE, inst |-> Word32(0, 0)]

Quadrant0(c) ==
  LET imm == Cut(c, 12, 5)      \* ciw
      h   == Cut(c, 12, 10)     \* imm_h and imm_l of cl and cs
      l   == Cut(c, 6, 5)
  IN  CASE c_func3(c) = 0 /\ imm # 0 ->
             Some(IWord(OP_ARITHI, c_rd_(c), 0, 2,
                        GET_IMM(imm, 0, 3, 1) + GET_IMM(imm, 1, 2, 1)
                        + GET_IMM(imm, 2, 6, 4) + GET_IMM(imm, 6, 4, 2)))
        [] c_func3(c) = 2 ->
             Some(IWord(OP_LOAD, c_rd_(c), 2, c_rs1_(c),
                        GET_IMM(h, 0, 3, 3) + GET_IMM(l, 0, 6, 1) + GET_IMM(l, 1, 2, 1)))
        [] c_func3(c) = 6 ->
             Some(RWord(OP_STORE, GET_IMM(h, 0, 3, 2) + GET_IMM(l, 1, 2, 1), 2, c_rs1_(c),
                        c_rd_(c), GET_IMM(l, 0, 1, 1) + GET_IMM(h, 2, 0, 1)))
        [] OTHER -> Reserved

\* Mutant: bits 7 and 6 of the offset change places.
cj_imm_swapped(c) ==
  LET off == Cut(c, 12, 2)
  IN  (IF Cut(off, 10, 10) = 1 THEN 524799 ELSE 0)
      + GET_IMM(off, 0, 13, 1) + GET_IMM(off, 1, 9, 3) + GET_IMM(off, 4, 14, 1)
      + GET_IMM(off, 5, 15, 1) + GET_IMM(off, 6, 18, 1) + GET_IMM(off, 7, 16, 2)
      + GET_IMM(off, 9, 12, 1)

\* The offset of c.j and c.jal, in the order of a J-type word.
cj_imm(c) ==
  LET off == Cut(c, 12, 2)
  IN  (IF Cut(off, 10, 10) = 1 THEN 524799 ELSE 0)
      + GET_IMM(off, 0, 13, 1) + GET_IMM(off, 1, 9, 3) + GET_IMM(off, 4, 15, 1)
      + GET_IMM(off, 5, 14, 1) + GET_IMM(off, 6, 18, 1) + GET_IMM(off, 7, 16, 2)
      + GET_IMM(off, 9, 12, 1)

\* c.beqz and c.bnez.
CBranch(c, f3) ==
  LET h == Cut(c, 12, 10)
      l == c_rs2(c)
      s == Cut(h, 2, 2)
  IN  Some(RWord(OP_BRANCH, GET_IMM(h, 0, 3, 2) + GET_IMM(l, 1, 1, 2) + s, f3, c_rs1_(c), 0,
                 120 * s + GET_IMM(l, 3, 1, 2) + GET_IMM(l, 0, 0, 1)))

\* c.addi16sp, c.lui and the hint with rd = 0.
CLui(c) ==
  LET l == c_rs2(c)
  IN  CASE c_rd(c) = 0 -> Some(NOP)
        [] c_rd(c) # 0 /\ c_imm_h(c) = 0 /\ l = 0 -> Reserved
        [] c_rd(c) = 2 /\ (c_imm_h(c) # 0 \/ l # 0) ->
             Some(IWord(OP_ARITHI, 2, 0, 2,
                        3584 * c_imm_h(c) + GET_IMM(l, 0, 5, 1) + GET_IMM(l, 1, 7, 2)
                        + GET_IMM(l, 3, 6, 1) + GET_IMM(l, 4, 4, 1)))
        [] OTHER -> Some(UWord(OP_LUI, c_rd(c), (IF c_imm_h(c) = 1 THEN 1048544 ELSE 0) + l))

\* c.srli, c.srai, c.andi and the register operations.
CArith(c) ==
  LET r == c_rs1_(c)
      arith(f3, f7) == Some(RWord(OP_ARITHR, r, f3, r, c_rd_(c), f7))
  IN  CASE Cut(c, 11, 10) = 0 -> Some(RWord(OP_ARITHI, r, 5, r, c_rs2(c), 0))
        [] Cut(c, 11, 10) = 1 -> Some(RWord(OP_ARITHI, r, 5, r, c_rs2(c), 32))
        [] Cut(c, 11, 10) = 2 -> Some(IWord(OP_ARITHI, r, 7, r, SignedImm(c)))
        [] Cut(c, 11, 10) = 3 /\ Cut(c, 12, 12) = 1 -> Reserved
        [] OTHER -> CASE Cut(c, 6, 5) = 0 -> arith(0, 32)
                      [] Cut(c, 6, 5) = 1 -> arith(4, 0)
                      [] Cut(c, 6, 5) = 2 -> arith(6, 0)
                      [] Cut(c, 6, 5) = 3 -> arith(7, 0)

Quadrant1(c) ==
  CASE c_func3(c) = 0 -> Some(IF c_rd(c) = 0 THEN NOP
                              ELSE IWord(OP_ARITHI, c_rd(c), 0, c_rd(c), SignedImm(c)))
    [] c_func3(c) = 1 -> Some(UWord(OP_JAL, 1, cj_imm(c)))
    [] c_func3(c) = 2 -> Some(IF c_rd(c) = 0 THEN NOP
                              ELSE IWord(OP_ARITHI, c_rd(c), 0, 0, SignedImm(c)))
    [] c_func3(c) = 3 -> CLui(c)
    [] c_func3(c) = 4 -> CArith(c)
    [] c_func3(c) = 5 -> Some(UWord(OP_JAL, 0, cj_imm(c)))
    [] c_func3(c) = 6 -> CBranch(c, 0)
    [] c_func3(c) = 7 -> CBranch(c, 1)

\* c.jr, c.mv, c.ebreak, c.jalr and c.add.
CRegister(c) ==
  CASE c_rs2(c) # 0 ->
         Some(RWord(OP_ARITHR, c_rd(c), 0, IF c_imm_h(c) = 0 THEN 0 ELSE c_rd(c), c_rs2(c), 0))
    [] c_rs2(c) = 0 /\ c_rd(c) # 0 -> Some(IWord(OP_JALR, c_imm_h(c), 0, c_rd(c), 0))
    [] c_rs2(c) = 0 /\ c_rd(c) = 0 /\ c_imm_h(c) = 1 -> Some(Word32(16, 115))
    [] OTHER -> Reserved

Quadrant2(c) ==
  LET l == c_rs2(c)
      s == Cut(c, 12, 7)        \* imm of css
  IN  CASE c_func3(c) = 4 -> CRegister(c)
        [] c_func3(c) = 2 /\ c_rd(c) # 0 ->
             Some(IWord(OP_LOAD, c_rd(c), 2, 2, GET_IMM(c_imm_h(c), 0, 5, 1)
                        + GET_IMM(l, 0, 6, 2) + GET_IMM(l, 2, 2, 3)))
        [] c_func3(c) = 0 /\ c_imm_h(c) = 0 -> Some(RWord(OP_ARITHI, c_rd(c), 1, c_rd(c), l, 0))
        [] c_func3(c) = 6 ->
             Some(RWord(OP_STORE, GET_IMM(s, 2, 2, 3), 2, 2, c_rs2(c),
                        GET_IMM(s, 1, 2, 1) + GET_IMM(s, 0, 1, 1) + GET_IMM(s, 5, 0, 1)))
        [] OTHER -> Reserved

compressed_decoder(c) ==
  CASE c_op(c) = 0 -> Quadrant0(c)
    [] c_op(c) = 1 -> Quadrant1(c)
    [] c_op(c) = 2 -> Quadrant2(c)
    [] c_op(c) = 3 -> Uncompressed
=============================================================================
