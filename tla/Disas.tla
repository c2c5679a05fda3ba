------------------------------- MODULE Disas -------------------------------
(***************************************************************************)
(* tools/riscv-disas.c as the debugger uses it (for rv32): the opcode, the *)
(* operands, the expansion of a compressed instruction, the pseudo         *)
(* instruction, and which operands the text shows.  The families of the    *)
(* floating-point, atomic and 64-bit instructions are one mnemonic with a  *)
(* width in "fmt"; no part of srv32 executes them, and their rounding mode, *)
(* ordering bits and printed operands are left out, as are columns and the *)
(* names of registers and CSRs.                                            *)
(***************************************************************************)
EXTENDS Decompress, Sequences

\* case of the low seven bits of the length.
inst_length(w) == CASE Slice(w, 1, 0) # 3 -> 2
                    [] Slice(w, 1, 0) = 3 /\ Slice(w, 4, 2) # 7 -> 4
                    [] Slice(w, 5, 0) = 31 -> 6
                    [] Slice(w, 6, 0) = 63 -> 8
                    [] OTHER -> 0

-----------------------------------------------------------------------------
(* decode_inst_opcode *)

Op(name) == [op |-> name, fmt |-> ""]
OpF(name, f) == IF name = "illegal" \/ f = "illegal" THEN Op("illegal")
                                                    ELSE [op |-> name, fmt |-> f]
Prec(n)   == Pick(0 :> "s" @@ 1 :> "d" @@ 3 :> "q", n)
Width(f3) == Pick(2 :> "w" @@ 3 :> "d" @@ 4 :> "q", f3)

OpcodeQ0(c) == Pick(0 :> "c.addi4spn" @@ 1 :> "c.fld" @@ 2 :> "c.lw" @@ 3 :> "c.flw"
                    @@ 5 :> "c.fsd" @@ 6 :> "c.sw" @@ 7 :> "c.fsw", c_func3(c))

OpcodeQ1(c) ==
  CASE c_func3(c) = 0 -> IF Cut(c, 12, 2) = 0 THEN "c.nop" ELSE "c.addi"
    [] c_func3(c) = 3 -> IF c_rd(c) = 2 THEN "c.addi16sp" ELSE "c.lui"
    [] c_func3(c) = 4 /\ Cut(c, 11, 10) < 3 -> <<"c.srli", "c.srai", "c.andi">>[Cut(c, 11, 10) + 1]
    [] c_func3(c) = 4 /\ Cut(c, 11, 10) = 3 ->
         Pick(0 :> "c.sub" @@ 1 :> "c.xor" @@ 2 :> "c.or" @@ 3 :> "c.and"
              @@ 4 :> "c.subw" @@ 5 :> "c.addw", 4 * c_imm_h(c) + Cut(c, 6, 5))
    [] OTHER -> (1 :> "c.jal" @@ 2 :> "c.li" @@ 5 :> "c.j" @@ 6 :> "c.beqz"
                 @@ 7 :> "c.bnez")[c_func3(c)]

OpcodeQ2(c) ==
  CASE c_func3(c) # 4 -> (0 :> "c.slli" @@ 1 :> "c.fldsp" @@ 2 :> "c.lwsp" @@ 3 :> "c.flwsp"
                          @@ 5 :> "c.fsdsp" @@ 6 :> "c.swsp" @@ 7 :> "c.fswsp")[c_func3(c)]
    [] c_func3(c) = 4 /\ c_imm_h(c) = 0 -> IF c_rs2(c) = 0 THEN "c.jr" ELSE "c.mv"
    [] c_func3(c) = 4 /\ c_imm_h(c) = 1 -> IF c_rs2(c) # 0 THEN "c.add"
                                           ELSE IF c_rd(c) = 0 THEN "c.ebreak" ELSE "c.jalr"

\* The shift immediates look at inst[31:27].
OpcodeArithi(w) ==
  CASE func3(w) = 1 -> Pick(0 :> "slli", Slice(w, 31, 27))
    [] func3(w) = 5 -> Pick(0 :> "srli" @@ 8 :> "srai", Slice(w, 31, 27))
    [] OTHER        -> Arithis[func3(w)]

OpcodeArithr(w) ==
  CASE func7(w) = 0  -> Ariths[func3(w)]
    [] func7(w) = 1  -> Muls[func3(w)]
    [] func7(w) = 32 -> Pick(0 :> "sub" @@ 5 :> "sra", func3(w))
    [] OTHER         -> "illegal"

\* The narrow operations of RV64 (o = "w") and RV128 (o = "d").
OpcodeNarrow(w, o) ==
  CASE func7(w) = 0  -> OpF(Pick(0 :> "add" @@ 1 :> "sll" @@ 5 :> "srl", func3(w)), o)
    [] func7(w) = 1  -> OpF(IF func3(w) = 0 \/ func3(w) > 3 THEN Muls[func3(w)] ELSE "illegal", o)
    [] func7(w) = 32 -> OpF(Pick(0 :> "sub" @@ 5 :> "sra", func3(w)), o)
    [] OTHER         -> Op("illegal")
OpcodeNarrowImm(w, o, funct, arith) ==
  OpF(CASE func3(w) = 0 -> "addi"
        [] func3(w) = 1 -> Pick(0 :> "slli", funct)
        [] func3(w) = 5 -> Pick(0 :> "srli" @@ arith :> "srai", funct)
        [] OTHER -> "illegal", o)

OpcodeAmo(w) ==
  LET name == Pick(0 :> "amoadd" @@ 1 :> "amoswap" @@ 2 :> "lr" @@ 3 :> "sc" @@ 4 :> "amoxor"
                   @@ 8 :> "amoor" @@ 12 :> "amoand" @@ 16 :> "amomin" @@ 20 :> "amomax"
                   @@ 24 :> "amominu" @@ 28 :> "amomaxu", Slice(w, 31, 27))
  IN  IF name = "lr" /\ rs2(w) # 0 THEN Op("illegal") ELSE OpF(name, Width(func3(w)))

OpcodeFloat(w) ==
  LET f3 == func3(w)
      s2 == rs2(w)
      name ==
        CASE func7(w) \div 4 < 4   -> <<"fadd", "fsub", "fmul", "fdiv">>[func7(w) \div 4 + 1]
          [] func7(w) \div 4 = 4  -> Pick(0 :> "fsgnj" @@ 1 :> "fsgnjn" @@ 2 :> "fsgnjx", f3)
          [] func7(w) \div 4 = 5  -> Pick(0 :> "fmin" @@ 1 :> "fmax", f3)
          [] func7(w) \div 4 = 8  -> IF s2 = func7(w) % 4 THEN "illegal"
                                     ELSE Pick(0 :> "fcvt.s" @@ 1 :> "fcvt.d" @@ 3 :> "fcvt.q", s2)
          [] func7(w) \div 4 = 11 -> Pick(0 :> "fsqrt", s2)
          [] func7(w) \div 4 = 20 -> Pick(0 :> "fle" @@ 1 :> "flt" @@ 2 :> "feq", f3)
          [] func7(w) \div 4 = 24 -> Pick(0 :> "fcvt.w" @@ 1 :> "fcvt.wu" @@ 2 :> "fcvt.l"
                                          @@ 3 :> "fcvt.lu", s2)
          [] func7(w) \div 4 = 26 -> Pick(0 :> "w.fcvt" @@ 1 :> "wu.fcvt" @@ 2 :> "l.fcvt"
                                          @@ 3 :> "lu.fcvt", s2)
          [] func7(w) \div 4 = 28 -> Pick(0 :> "fmv.x" @@ 1 :> "fclass", 8 * s2 + f3)
          [] func7(w) \div 4 = 30 -> Pick(0 :> "x.fmv", 8 * s2 + f3)
          [] OTHER -> "illegal"
  IN  OpF(name, Prec(func7(w) % 4))

OpcodeSystem(w) ==
  LET key == 32 * func7(w) + rd(w)
      arg == 32 * rs2(w) + rs1(w)
  IN  CASE func3(w) \notin {0, 4} -> Csrs[func3(w)]
        [] func3(w) = 4 -> "illegal"
        [] func3(w) = 0 /\ key = 0    -> Pick(0 :> "ecall" @@ 32 :> "ebreak" @@ 64 :> "uret", arg)
        [] func3(w) = 0 /\ key = 256  -> IF rs2(w) = 4 THEN "sfence.vm"
                                         ELSE Pick(64 :> "sret" @@ 160 :> "wfi", arg)
        [] func3(w) = 0 /\ key = 288  -> "sfence.vma"
        [] func3(w) = 0 /\ key = 512  -> Pick(64 :> "hret", arg)
        [] func3(w) = 0 /\ key = 768  -> Pick(64 :> "mret", arg)
        [] func3(w) = 0 /\ key = 1952 -> Pick(576 :> "dret", arg)
        [] OTHER -> "illegal"

Opcode32(w) ==
  LET major == Slice(w, 6, 2)
      f3    == func3(w)
  IN  CASE major = 0  -> Op(<<"lb", "lh", "lw", "ld", "lbu", "lhu", "lwu", "ldu">>[f3 + 1])
        [] major = 1  -> OpF("fl", IF Width(f3) = "w" THEN "s" ELSE Width(f3))
        [] major = 3  -> Op(Pick(0 :> "fence" @@ 1 :> "fence.i" @@ 2 :> "lq", f3))
        [] major = 4  -> Op(OpcodeArithi(w))
        [] major = 5  -> Op("auipc")
        [] major = 6  -> OpcodeNarrowImm(w, "w", func7(w), 32)
        [] major = 8  -> Op(Pick(Stores @@ 3 :> "sd" @@ 4 :> "sq", f3))
        [] major = 9  -> OpF("fs", IF Width(f3) = "w" THEN "s" ELSE Width(f3))
        [] major = 11 -> OpcodeAmo(w)
        [] major = 12 -> Op(OpcodeArithr(w))
        [] major = 13 -> Op("lui")
        [] major = 14 -> OpcodeNarrow(w, "w")
        [] major \in 16 .. 19 -> OpF(<<"fmadd", "fmsub", "fnmsub", "fnmadd">>[major - 15],
                                     Prec(func7(w) % 4))
        [] major = 20 -> OpcodeFloat(w)
        [] major = 22 -> OpcodeNarrowImm(w, "d", Slice(w, 31, 26), 16)
        [] major = 24 -> Op(Pick(Branches, f3))
        [] major = 25 -> Op(Pick(0 :> "jalr", f3))
        [] major = 27 -> Op("jal")
        [] major = 28 -> Op(OpcodeSystem(w))
        [] major = 30 -> OpcodeNarrow(w, "d")
        [] OTHER      -> Op("illegal")

decode_inst_opcode(w) == CASE Slice(w, 1, 0) = 0 -> Op(OpcodeQ0(w.lo))
                           [] Slice(w, 1, 0) = 1 -> Op(OpcodeQ1(w.lo))
                           [] Slice(w, 1, 0) = 2 -> Op(OpcodeQ2(w.lo))
                           [] Slice(w, 1, 0) = 3 -> Opcode32(w)
-----------------------------------------------------------------------------
(* decode_inst_operands *)

Decoded(o, d, s1, s2, i) ==
  [op |-> o.op, fmt |-> o.fmt, rd |-> d, rs1 |-> s1, rs2 |-> s2, imm |-> i]

operand_imm12(w)   == Sext(Slice(w, 31, 20), 12)
operand_imm20(w)   == Sext(Slice(w, 31, 12), 20) * 4096
operand_jimm20(w)  == 2 ^ 20 * Sext(Slice(w, 31, 31), 1) + 2 * Slice(w, 30, 21)
                      + 2048 * Slice(w, 20, 20) + 4096 * Slice(w, 19, 12)
operand_simm12(w)  == 32 * Sext(Slice(w, 31, 25), 7) + Slice(w, 11, 7)
operand_sbimm12(w) == 4096 * Sext(Slice(w, 31, 31), 1) + 32 * Slice(w, 30, 25)
                      + 2 * Slice(w, 11, 8) + 2048 * Slice(w, 7, 7)

LoadNames   == {"lb", "lh", "lw", "ld", "lbu", "lhu", "lwu", "ldu", "lq", "fl"}
StoreNames  == {"sb", "sh", "sw", "sd", "sq", "fs"}
BranchNames == {Branches[f] : f \in DOMAIN Branches}
CsrNames    == {Csrs[f] : f \in DOMAIN Csrs}
ShiftNames  == {"slli", "srli", "srai"}
ImmNames    == {Arithis[f] : f \in 0 .. 7} \ ShiftNames
BareNames   == {"ecall", "ebreak", "uret", "sret", "hret", "mret", "dret", "wfi", "fence.i",
                "fence", "illegal"}

\* The 32-bit codecs.  The shift amount has seven bits, five for the narrow
\* operations of RV64 and six for those of RV128.
Operands32(w, o) ==
  LET shamt == (2 ^ (("" :> 7 @@ "w" :> 5 @@ "d" :> 6)[o.fmt]))
  IN  CASE o.op \in {"lui", "auipc"} -> Decoded(o, rd(w), 0, 0, operand_imm20(w))
        [] o.op = "jal"          -> Decoded(o, rd(w), 0, 0, operand_jimm20(w))
        [] o.op \in LoadNames \cup ImmNames \cup {"jalr"} ->
             Decoded(o, rd(w), rs1(w), 0, operand_imm12(w))
        [] o.op \in ShiftNames   -> Decoded(o, rd(w), rs1(w), 0, imm12(w) % shamt)
        [] o.op \in CsrNames     -> Decoded(o, rd(w), rs1(w), 0, imm12(w))
        [] o.op \in StoreNames   -> Decoded(o, 0, rs1(w), rs2(w), operand_simm12(w))
        [] o.op \in BranchNames  -> Decoded(o, 0, rs1(w), rs2(w), operand_sbimm12(w))
        [] o.op \in BareNames    -> Decoded(o, 0, 0, 0, 0)
        [] o.op = "lr"           -> Decoded(o, rd(w), rs1(w), 0, 0)
        [] OTHER                 -> Decoded(o, rd(w), rs1(w), rs2(w), 0)

\* The immediates of the compressed codecs.
operand_cimmi(c)    == 32 * Sext(c_imm_h(c), 1) + c_rs2(c)
operand_cimmsh6(c)  == 32 * c_imm_h(c) + c_rs2(c)
operand_cimmui(c)   == 2 ^ 17 * Sext(c_imm_h(c), 1) + 4096 * c_rs2(c)
operand_cimmlwsp(c) == 32 * c_imm_h(c) + 4 * Cut(c, 6, 4) + 64 * Cut(c, 3, 2)
operand_cimmldsp(c) == 32 * c_imm_h(c) + 8 * Cut(c, 6, 5) + 64 * Cut(c, 4, 2)
operand_cimm16sp(c) == 512 * Sext(c_imm_h(c), 1) + 16 * Cut(c, 6, 6) + 64 * Cut(c, 5, 5)
                       + 128 * Cut(c, 4, 3) + 32 * Cut(c, 2, 2)
operand_cimmj(c)    == 2048 * Sext(c_imm_h(c), 1) + 16 * Cut(c, 11, 11) + 256 * Cut(c, 10, 9)
                       + 1024 * Cut(c, 8, 8) + 64 * Cut(c, 7, 7) + 128 * Cut(c, 6, 6)
                       + 2 * Cut(c, 5, 3) + 32 * Cut(c, 2, 2)
operand_cimmb(c)    == 256 * Sext(c_imm_h(c), 1) + 8 * Cut(c, 11, 10) + 64 * Cut(c, 6, 5)
                       + 2 * Cut(c, 4, 3) + 32 * Cut(c, 2, 2)
operand_cimmswsp(c) == 4 * Cut(c, 12, 9) + 64 * Cut(c, 8, 7)
operand_cimmsdsp(c) == 8 * Cut(c, 12, 10) + 64 * Cut(c, 9, 7)
operand_cimm4spn(c) == 16 * Cut(c, 12, 11) + 64 * Cut(c, 10, 7) + 4 * Cut(c, 6, 6) + 8 * Cut(c, 5, 5)
operand_cimmw(c)    == 8 * Cut(c, 12, 10) + 4 * Cut(c, 6, 6) + 64 * Cut(c, 5, 5)
operand_cimmd(c)    == 8 * Cut(c, 12, 10) + 64 * Cut(c, 6, 5)

\* The compressed codecs.
OperandsC(c, o) ==
  LET p == c_rd_(c)  q == c_rs1_(c)  r == c_rd(c)  s == c_rs2(c)
  IN  CASE o.op = "c.addi4spn" -> Decoded(o, p, 2, 0, operand_cimm4spn(c))
        [] o.op \in {"c.lw", "c.flw"}  -> Decoded(o, p, q, 0, operand_cimmw(c))
        [] o.op = "c.fld"              -> Decoded(o, p, q, 0, operand_cimmd(c))
        [] o.op \in {"c.sw", "c.fsw"}  -> Decoded(o, 0, q, p, operand_cimmw(c))
        [] o.op = "c.fsd"              -> Decoded(o, 0, q, p, operand_cimmd(c))
        [] o.op \in {"c.nop", "c.ebreak"} -> Decoded(o, 0, 0, 0, 0)
        [] o.op = "c.addi"             -> Decoded(o, r, r, 0, operand_cimmi(c))
        [] o.op = "c.jal"              -> Decoded(o, 1, 0, 0, operand_cimmj(c))
        [] o.op = "c.j"                -> Decoded(o, 0, 0, 0, operand_cimmj(c))
        [] o.op = "c.li"               -> Decoded(o, r, 0, 0, operand_cimmi(c))
        [] o.op = "c.addi16sp"         -> Decoded(o, 2, 2, 0, operand_cimm16sp(c))
        [] o.op = "c.lui"              -> Decoded(o, r, 0, 0, operand_cimmui(c))
        [] o.op \in {"c.srli", "c.srai"} -> Decoded(o, q, q, 0, operand_cimmsh6(c))
        [] o.op = "c.andi"             -> Decoded(o, q, q, 0, operand_cimmi(c))
        [] o.op \in {"c.beqz", "c.bnez"} -> Decoded(o, 0, q, 0, operand_cimmb(c))
        [] o.op = "c.slli"             -> Decoded(o, r, r, 0, operand_cimmsh6(c))
        [] o.op \in {"c.lwsp", "c.flwsp"} -> Decoded(o, r, 2, 0, operand_cimmlwsp(c))
        [] o.op = "c.fldsp"            -> Decoded(o, r, 2, 0, operand_cimmldsp(c))
        [] o.op = "c.jr"               -> Decoded(o, 0, r, 0, 0)
        [] o.op = "c.jalr"             -> Decoded(o, 1, r, 0, 0)
        [] o.op = "c.mv"               -> Decoded(o, r, s, 0, 0)
        [] o.op = "c.add"              -> Decoded(o, r, r, s, 0)
        [] o.op \in {"c.swsp", "c.fswsp"} -> Decoded(o, 0, 2, s, operand_cimmswsp(c))
        [] o.op = "c.fsdsp"            -> Decoded(o, 0, 2, s, operand_cimmsdsp(c))
        [] o.op = "illegal"            -> Decoded(o, 0, 0, 0, 0)
        [] OTHER                       -> Decoded(o, q, q, p, 0)

decode_inst_operands(w, o) == IF Slice(w, 1, 0) = 3 THEN Operands32(w, o) ELSE OperandsC(w.lo, o)

-----------------------------------------------------------------------------
(* decode_inst_decompress *)

DecompRv32 ==
  LET is(cs, n, f) == [c \in cs |-> [op |-> n, fmt |-> f]]
  IN  is({"c.addi4spn", "c.nop", "c.addi", "c.li", "c.addi16sp", "c.mv"}, "addi", "")
      @@ is({"c.lw", "c.lwsp"}, "lw", "")   @@ is({"c.sw", "c.swsp"}, "sw", "")
      @@ is({"c.fld", "c.fldsp"}, "fl", "d") @@ is({"c.fsd", "c.fsdsp"}, "fs", "d")
      @@ is({"c.flw", "c.flwsp"}, "fl", "s") @@ is({"c.fsw", "c.fswsp"}, "fs", "s")
      @@ is({"c.jal", "c.j"}, "jal", "")    @@ is({"c.jr", "c.jalr"}, "jalr", "")
      @@ is({"c.lui"}, "lui", "")   @@ is({"c.srli"}, "srli", "") @@ is({"c.srai"}, "srai", "")
      @@ is({"c.andi"}, "andi", "") @@ is({"c.slli"}, "slli", "") @@ is({"c.sub"}, "sub", "")
      @@ is({"c.xor"}, "xor", "")   @@ is({"c.or"}, "or", "")     @@ is({"c.and"}, "and", "")
      @@ is({"c.subw"}, "sub", "w") @@ is({"c.addw"}, "add", "w") @@ is({"c.add"}, "add", "")
      @@ is({"c.beqz"}, "beq", "")  @@ is({"c.bnez"}, "bne", "")
      @@ is({"c.ebreak"}, "ebreak", "")

\* rvcd_imm_nz
ImmNonZero == {"c.addi4spn", "c.addi16sp", "c.lui", "c.srli", "c.srai", "c.andi", "c.slli"}

decode_inst_decompress(d) ==
  CASE d.op \notin DOMAIN DecompRv32 -> d
    [] d.op \in ImmNonZero /\ d.imm = 0 -> [d EXCEPT !.op = "illegal"]
    [] OTHER -> [d EXCEPT !.op = DecompRv32[d.op].op, !.fmt = DecompRv32[d.op].fmt]

-----------------------------------------------------------------------------
(* decode_inst_lift_pseudo *)

\* The pseudo instructions of a mnemonic, each with its constraints, in the
\* order of the tables.
CounterNames == 3072 :> "rdcycle" @@ 3073 :> "rdtime" @@ 3074 :> "rdinstret"
                @@ 3200 :> "rdcycleh" @@ 3201 :> "rdtimeh" @@ 3202 :> "rdinstreth"
                @@ 3 :> "frcsr" @@ 2 :> "frrm" @@ 1 :> "frflags"
\* Mutant: the entry of jr does not ask for an offset of zero.
PseudoInt_offset(d) == IF d.op = "jalr" THEN << <<"jr", d.rd = 0>> >> ELSE << >>
PseudoInt(d) ==
  CASE d.op = "jal"   -> << <<"j", d.rd = 0>>, <<"jal", d.rd = 1>> >>
    [] d.op = "jalr"  -> << <<"ret", d.rd = 0 /\ d.rs1 = 1>>, <<"jr", d.rd = 0 /\ d.imm = 0>>,
                            <<"jalr", d.rd = 1 /\ d.imm = 0>> >>
    [] d.op = "beq"   -> << <<"beqz", d.rs2 = 0>> >>
    [] d.op = "bne"   -> << <<"bnez", d.rs2 = 0>> >>
    [] d.op = "blt"   -> << <<"bltz", d.rs2 = 0>>, <<"bgtz", d.rs1 = 0>>, <<"bgt", TRUE>> >>
    [] d.op = "bge"   -> << <<"blez", d.rs1 = 0>>, <<"bgez", d.rs2 = 0>>, <<"ble", TRUE>> >>
    [] d.op = "bltu"  -> << <<"bgtu", TRUE>> >>
    [] d.op = "bgeu"  -> << <<"bleu", TRUE>> >>
    [] d.op = "addi"  -> << <<"nop", d.rd = 0 /\ d.rs1 = 0 /\ d.imm = 0>>, <<"mv", d.imm = 0>> >>
    [] d.op = "sltiu" -> << <<"seqz", d.imm = 1>> >>
    [] d.op = "xori"  -> << <<"not", d.imm = -1>> >>
    [] d.op = "sub"   -> << <<"neg", d.rs1 = 0>> >>
    [] d.op = "slt"   -> << <<"sltz", d.rs2 = 0>>, <<"sgtz", d.rs1 = 0>> >>
    [] d.op = "sltu"  -> << <<"snez", d.rs1 = 0>> >>
    [] d.op = "csrrw"  -> << <<"fscsr", d.imm = 3>>, <<"fsrm", d.imm = 2>>, <<"fsflags", d.imm = 1>> >>
    [] d.op = "csrrs"  -> << <<Pick(CounterNames, d.imm),
                               d.rs1 = 0 /\ d.imm \in DOMAIN CounterNames>> >>
    [] d.op = "csrrwi" -> << <<"fsrmi", d.imm = 2>>, <<"fsflagsi", d.imm = 1>> >>
    [] OTHER -> << >>
PseudoWide(d) ==
  CASE d.op = "addi" /\ d.fmt = "w" -> << <<"sext.w", d.imm = 0>> >>
    [] d.op = "sub" /\ d.fmt = "w"  -> << <<"negw", d.rs1 = 0>> >>
    [] d.op = "fsgnj"               -> << <<"fmv", d.rs1 = d.rs2>> >>
    [] d.op = "fsgnjn"              -> << <<"fneg", d.rs1 = d.rs2>> >>
    [] d.op = "fsgnjx"              -> << <<"fabs", d.rs1 = d.rs2>> >>
    [] OTHER -> << >>

decode_inst_lift_pseudo(d) ==
  LET ps == SelectSeq(IF d.fmt = "" THEN PseudoInt(d) ELSE PseudoWide(d), LAMBDA p : p[2])
  IN  IF ps = << >> THEN d ELSE [d EXCEPT !.op = ps[1][1]]

-----------------------------------------------------------------------------
(* decode_inst_format: the operands the text shows, in its order. *)

Shown(d) ==
  CASE d.fmt # "" -> << >>
    [] d.op \in {"lui", "auipc", "jal"} -> <<d.rd, d.imm>>
    [] d.op \in ImmNames \cup ShiftNames \cup {"jalr"} -> <<d.rd, d.rs1, d.imm>>
    [] d.op \in LoadNames    -> <<d.rd, d.imm, d.rs1>>
    [] d.op \in StoreNames   -> <<d.rs2, d.imm, d.rs1>>
    [] d.op \in CsrNames     -> <<d.rd, d.imm, d.rs1>>
    [] d.op \in BranchNames  -> <<d.rs1, d.rs2, d.imm>>
    [] d.op \in {"bgt", "ble", "bgtu", "bleu"}   -> <<d.rs2, d.rs1, d.imm>>
    [] d.op \in {"beqz", "bnez", "bgez", "bltz"} -> <<d.rs1, d.imm>>
    [] d.op \in {"blez", "bgtz"} -> <<d.rs2, d.imm>>
    [] d.op \in {"mv", "not", "seqz", "sltz", "fscsr", "fsrm", "fsflags", "fsrmi", "fsflagsi"} ->
         <<d.rd, d.rs1>>
    [] d.op \in {"neg", "snez", "sgtz"} -> <<d.rd, d.rs2>>
    [] d.op = "j"            -> <<d.imm>>
    [] d.op \in {"jr", "sfence.vm"} -> <<d.rs1>>
    [] d.op = "sfence.vma"   -> <<d.rs1, d.rs2>>
    [] d.op \in {CounterNames[n] : n \in DOMAIN CounterNames} -> <<d.rd>>
    [] d.op \in BareNames \cup {"nop", "ret"} -> << >>
    [] OTHER                 -> <<d.rd, d.rs1, d.rs2>>

\* The text of a word: its mnemonic and the operands shown.
disasm_inst(w) ==
  LET d == decode_inst_lift_pseudo(
             decode_inst_decompress(decode_inst_operands(w, decode_inst_opcode(w))))
  IN  [op |-> d.op, fmt |-> d.fmt, args |-> Shown(d)]
=============================================================================
