------------------------------ MODULE InsnCheck ------------------------------
(***************************************************************************)
(* The instruction set as each part of the repository understands it: the *)
(* core, the simulator, the expander of compressed instructions and the   *)
(* disassembler, on the same words; and the arithmetic of the core against *)
(* that of the simulator.  A state is an instruction and two operands.     *)
(***************************************************************************)
EXTENDS IssAlu, Disas, BitManip

CONSTANTS Funct7,     \* the values of inst[31:25] that are tried
          RegBits     \* the values of each register field

ASSUME InsnAssumption == XLEN \in Nat \ {0} /\ Funct7 \subseteq 0 .. 127 /\ RegBits \subseteq 0 .. 31

VARIABLES inst, a, b

vars == <<inst, a, b>>

\* Register fields: one of them varies, or all of them are zero or one.
RegFields == {<<r, 6, 7>> : r \in RegBits} \cup {<<5, r, 7>> : r \in RegBits}
             \cup {<<5, 6, r>> : r \in RegBits} \cup ((0 .. 1) \X (0 .. 1) \X (0 .. 1))

\* The opcodes srv32 knows get every choice of registers, the others one.
Known == {OP_AUIPC, OP_LUI, OP_JAL, OP_JALR, OP_BRANCH, OP_LOAD, OP_STORE, OP_ARITHI,
          OP_ARITHR, OP_FENCE, OP_SYSTEM}
FullWords ==
  {RWord(o, t[1], f3, t[2], t[3], f7) : o \in Known, f3 \in 0 .. 7, f7 \in Funct7, t \in RegFields}
  \cup {RWord(4 * m + 3, 5, f3, 6, 7, f7) : m \in 0 .. 31, f3 \in 0 .. 7, f7 \in Funct7}
Halfwords == {Word32(0, c) : c \in {h \in Half : h % 4 # 3}}

\* add x1, x1, x2 and its siblings: the register instructions that are executed
\* on the operands.
Registers == {RWord(OP_ARITHR, 1, f3, 1, 2, f7) : f3 \in 0 .. 7, f7 \in {0, 1, 32}}
             \ {RWord(OP_ARITHR, 1, f3, 1, 2, 32) : f3 \in {1, 2, 3, 4, 6, 7}}
\* The words RV32B adds, on the same registers; a unary one has its code in rs2.
BitWords  == {RWord(OP_ARITHI, 1, 1, 1, 2, f7) : f7 \in {20, 36, 52}}
             \cup {RWord(OP_ARITHI, 1, 1, 1, s2, 48) : s2 \in {0, 1, 2, 4, 5}}
             \cup {RWord(OP_ARITHI, 1, 5, 1, k[2], k[1]) : k \in {<<20, 7>>, <<36, 2>>, <<48, 2>>, <<52, 24>>}}
             \cup {RWord(OP_ARITHR, 1, k[2], 1, 2, k[1]) : k \in
                     {<<32, 4>>, <<32, 6>>, <<32, 7>>, <<4, 4>>, <<20, 1>>, <<36, 1>>, <<36, 5>>,
                      <<48, 1>>, <<48, 5>>, <<52, 1>>}
                     \cup ({16} \X {2, 4, 6}) \cup ({5} \X (1 .. 7))}

Init == inst \in FullWords \cup Halfwords /\ a = 0 /\ b = 0

FunctOf == [i \in {Ariths[f] : f \in 0 .. 7} \cup {Muls[f] : f \in 0 .. 7} \cup {"sub", "sra"} |->
  CASE i = "add" -> "ADD" [] i = "sub" -> "SUB" [] i = "sll" -> "SLL" [] i = "slt" -> "SLT"
    [] i = "sltu" -> "SLTU" [] i = "xor" -> "XOR" [] i = "srl" -> "SRL" [] i = "sra" -> "SRA"
    [] i = "or" -> "OR" [] i = "and" -> "AND" [] i = "mul" -> "MUL" [] i = "mulh" -> "MULH"
    [] i = "mulhsu" -> "MULSU" [] i = "mulhu" -> "MULU" [] i = "div" -> "DIV" [] i = "divu" -> "DIVU"
    [] i = "rem" -> "REM" [] i = "remu" -> "REMU"]

\* The core executes the instruction: its result is the next first operand.
Execute == /\ inst \in Registers
           /\ a' = AluResult(FunctOf[core_decode(inst).op], a, b)
           /\ UNCHANGED <<inst, b>>
\* Another operand.
Load    == /\ inst \in Registers \cup BitWords
           /\ \/ a' \in XWord /\ UNCHANGED b
              \/ b' \in XWord /\ UNCHANGED a
           /\ UNCHANGED inst
\* Another instruction.
Fetch   == /\ inst' \in Registers \cup BitWords
           /\ inst \in Registers \cup BitWords \/ inst' = RWord(OP_ARITHR, 1, 0, 1, 2, 0)
           /\ UNCHANGED <<a, b>>

Next == Execute \/ Load \/ Fetch
Spec == Init /\ [][Next]_vars

-----------------------------------------------------------------------------
(* What the text says: the instruction an assembler reads in it. *)

Read(t) ==
  LET n == t.args
      p == t.op
      counter == CHOOSE k \in DOMAIN CounterNames : CounterNames[k] = p
      fcsr == [x \in {"fscsr", "fsrm", "fsflags", "fsrmi", "fsflagsi"} |->
                 CASE x = "fscsr" -> 3 [] x \in {"fsrm", "fsrmi"} -> 2
                   [] x \in {"fsflags", "fsflagsi"} -> 1]
  IN  CASE t.fmt # "" -> IllegalIns
        [] p \in {"lui", "auipc", "jal"}     -> Ins(p, n[1], 0, 0, n[2])
        [] p = "j"                           -> Ins("jal", 0, 0, 0, n[1])
        [] p \in ImmNames \cup ShiftNames \cup {"jalr"} -> Ins(p, n[1], n[2], 0, n[3])
        [] p = "ret"                         -> Ins("jalr", 0, 1, 0, 0)
        [] p = "jr"                          -> Ins("jalr", 0, n[1], 0, 0)
        [] p = "nop"                         -> Ins("addi", 0, 0, 0, 0)
        [] p = "mv"                          -> Ins("addi", n[1], n[2], 0, 0)
        [] p = "not"                         -> Ins("xori", n[1], n[2], 0, -1)
        [] p = "seqz"                        -> Ins("sltiu", n[1], n[2], 0, 1)
        [] p = "neg"                         -> Ins("sub", n[1], 0, n[2], 0)
        [] p = "snez"                        -> Ins("sltu", n[1], 0, n[2], 0)
        [] p = "sltz"                        -> Ins("slt", n[1], n[2], 0, 0)
        [] p = "sgtz"                        -> Ins("slt", n[1], 0, n[2], 0)
        [] p \in BranchNames                 -> Ins(p, 0, n[1], n[2], n[3])
        [] p = "bgt"                         -> Ins("blt", 0, n[2], n[1], n[3])
        [] p = "ble"                         -> Ins("bge", 0, n[2], n[1], n[3])
        [] p = "bgtu"                        -> Ins("bltu", 0, n[2], n[1], n[3])
        [] p = "bleu"                        -> Ins("bgeu", 0, n[2], n[1], n[3])
        [] p = "beqz"                        -> Ins("beq", 0, n[1], 0, n[2])
        [] p = "bnez"                        -> Ins("bne", 0, n[1], 0, n[2])
        [] p = "bltz"                        -> Ins("blt", 0, n[1], 0, n[2])
        [] p = "bgez"                        -> Ins("bge", 0, n[1], 0, n[2])
        [] p = "bgtz"                        -> Ins("blt", 0, 0, n[1], n[2])
        [] p = "blez"                        -> Ins("bge", 0, 0, n[1], n[2])
        [] p \in {"lb", "lh", "lw", "lbu", "lhu"} -> Ins(p, n[1], n[3], 0, n[2])
        [] p \in {"sb", "sh", "sw"}          -> Ins(p, 0, n[3], n[1], n[2])
        [] p \in CsrNames                    -> Ins(p, n[1], n[3], 0, n[2])
        [] p \in {"fscsr", "fsrm", "fsflags"} -> Ins("csrrw", n[1], n[2], 0, fcsr[p])
        [] p \in {"fsrmi", "fsflagsi"}       -> Ins("csrrwi", n[1], n[2], 0, fcsr[p])
        [] \E k \in DOMAIN CounterNames : CounterNames[k] = p -> Ins("csrrs", n[1], 0, 0, counter)
        [] p \in {"ecall", "ebreak", "mret"} -> Ins(p, 0, 0, 0, 0)
        [] p \in {"fence", "fence.i"}        -> Ins("fence", 0, 0, 0, 0)
        [] p \in DOMAIN FunctOf              -> Ins(p, n[1], n[2], n[3], 0)
        [] OTHER                             -> IllegalIns

-----------------------------------------------------------------------------
(* Properties. *)

Full == inst.lo % 4 = 3

\* The core and the simulator read the same instruction in a word, with the same
\* registers and immediate.  The core is more lenient in four places, and only
\* there: shift immediates and FUNC7 = 0x20 whose other bits it does not look at,
\* and FUNC3 = 4 of SYSTEM; the simulator takes all of them for illegal.
Lenient(w) ==
  \/ op(w) = OP_ARITHI /\ func3(w) = 1 /\ func7(w) # 0
  \/ op(w) = OP_ARITHI /\ func3(w) = 5 /\ func7(w) \notin {0, 32}
  \/ op(w) = OP_ARITHR /\ func7(w) = 32 /\ func3(w) \notin {0, 5}
  \/ op(w) = OP_SYSTEM /\ func3(w) = 4
DecodersAgree ==
  Full => IF Lenient(inst) THEN srv32_decode(inst, FALSE) = IllegalIns
                           ELSE core_decode(inst) = srv32_decode(inst, FALSE)

\* What the debugger prints is the instruction that runs: an assembler that
\* reads the text, pseudo instructions included, arrives at what the simulator
\* executes, and both call the same words illegal.  The exceptions are the
\* fields the simulator ignores (FUNC3 of FENCE and JALR, most of SYSTEM), a
\* shift by 32 or more, and "ret", which hides a non-zero offset.
Unchecked(w) ==
  \/ op(w) = OP_FENCE /\ func3(w) > 1
  \/ op(w) = OP_JALR /\ func3(w) # 0
  \/ op(w) = OP_SYSTEM /\ func3(w) = 0 /\ w \notin {Word32(0, 115), Word32(16, 115), Word32(12320, 115)}
LongShift(w) == op(w) = OP_ARITHI /\ func3(w) \in {1, 5} /\ func7(w) \in 1 .. 3
TextNamesWhatRuns ==
  Full => LET text == Read(disasm_inst(inst))
              runs == srv32_decode(inst, FALSE)
          IN  CASE Unchecked(inst)  -> text = IllegalIns
                [] LongShift(inst)  -> runs = IllegalIns
                [] disasm_inst(inst).op = "ret" -> runs = [text EXCEPT !.imm = to_imm_i(imm12(inst))]
                [] OTHER            -> text = runs

\* A compressed instruction runs as what the debugger prints for it, with the
\* length the debugger steps by, and never expands to a word the simulator does
\* not know: every halfword, up to the hints that write x0 (expanded to a nop),
\* c.mv (printed as addi, run as add), shifts by 32 or more, an immediate of zero,
\* and two encodings the expander alone refuses.
Hint(c)     == c_op(c) = 1 /\ c_func3(c) \in {0, 2, 3} /\ c_rd(c) = 0
Shift(c)    == \/ c_op(c) = 2 /\ c_func3(c) = 0
               \/ c_op(c) = 1 /\ c_func3(c) = 4 /\ Cut(c, 11, 10) \in {0, 1}
ZeroImm(c)  == /\ Shift(c) \/ (c_op(c) = 1 /\ c_func3(c) = 4 /\ Cut(c, 11, 10) = 2)
               /\ operand_cimmsh6(c) = 0
Refused(c)  == /\ c_op(c) = 2 /\ c_rd(c) = 0
               /\ c_func3(c) = 2 \/ (c_func3(c) = 4 /\ c_imm_h(c) = 0 /\ c_rs2(c) = 0)
CompressedAsPrinted ==
  ~Full =>
    LET c    == inst.lo
        x    == compressed_decoder(c)
        runs == IF x.illegal THEN IllegalIns ELSE srv32_decode(x.inst, FALSE)
        text == Read(disasm_inst(inst))
    IN  /\ x.compressed /\ inst_length(inst) = 2
        /\ ~x.illegal => runs # IllegalIns
        /\ CASE Hint(c)    -> runs = Ins("addi", 0, 0, 0, 0)
             [] ZeroImm(c) -> text = IllegalIns /\ runs # IllegalIns
             [] Refused(c) -> text # IllegalIns /\ runs = IllegalIns
             [] Shift(c) /\ c_imm_h(c) = 1 ->
                  runs = IF c_op(c) = 2 THEN IllegalIns ELSE [text EXCEPT !.imm = @ % 32]
             [] decode_inst_opcode(inst).op = "c.mv" ->
                  text.op = "addi" /\ runs = Ins("add", text.rd, 0, text.rs1, 0)
             [] OTHER      -> text = runs

\* Every register instruction of the core gives what the simulator gives:
\* comparisons at the ends of the range, signed and unsigned products, division
\* by zero and the division that overflows.
CoreMatchesSimulator ==
  inst \in Registers => LET f == FunctOf[core_decode(inst).op]
                        IN  AluResult(f, a, b) \in IssResults(f, a, b)

\* Quotient and remainder belong together, by zero and at the overflow as well:
\* q * b + r is a, in both the signed and the unsigned division, and a
\* remainder is smaller than its divisor.
DivisionIdentity ==
  LET q == AluResult("DIV", a, b)   r == AluResult("REM", a, b)
      u == AluResult("DIVU", a, b)  v == AluResult("REMU", a, b)
  IN  inst \in Registers =>
        /\ Wrap(ToInt(q) * ToInt(b) + ToInt(r)) = a
        /\ Wrap(u * b + v) = a
        /\ b # 0 => /\ AbsVal(ToInt(r)) < AbsVal(ToInt(b))
                    /\ ToInt(r) = 0 \/ (ToInt(r) < 0 <=> ToInt(a) < 0)
                    /\ v < b

\* Words for the bit manipulation.
Samples == <<{}, Positions, {0}, {31}, {0, 31}, {i \in Positions : i % 2 = 0},
             {i \in Positions : i % 2 = 1}, Bits(15, 0), Bits(31, 16), Bits(30, 0), Bits(31, 1),
             {i \in Positions : i % 8 = 7}, {i \in Positions : i % 8 = 0}, CtzFactor, Not(CtzFactor),
             Bits(7, 0) \cup Bits(23, 16)>>
Sample(i) == Samples[(i % Len(Samples)) + 1]

\* The bit manipulation of the simulator does what the extension says: the table
\* behind ctz, the search behind clz, rotations by zero (which shift by 32) and
\* the three parts of a carry-less product.
BitManipAsSpecified ==
  inst \in BitWords =>
    \A n \in {2 * b, 2 * b + 1} :
      /\ AsSpecified(srv32_decode(inst, TRUE).op, Sample(a), Sample(b), n % 32)
      /\ AsSpecified(srv32_decode(inst, TRUE).op, Shl(Sample(a), n % 32), Sample(b), n % 32)
=============================================================================
