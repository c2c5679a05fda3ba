-------------------------------- MODULE Isa --------------------------------
(***************************************************************************)
(* What an srv32 machine promises a program: one instruction after the     *)
(* other, each with its whole effect, exceptions that leave no trace of    *)
(* the instruction that raised them, and interrupts between instructions.  *)
(* The pipeline of rtl/riscv.v and the step function of tools/rvsim.c are  *)
(* two implementations of it; where they are known to differ (README) the  *)
(* step below allows both.                                                 *)
(*                                                                         *)
(* Nothing is promised about an instruction at a misaligned pc, which only *)
(* mret with a misaligned mepc can reach, or outside program memory.       *)
(***************************************************************************)
EXTENDS Srv32

CONSTANTS CountMod,   \* values of the 64-bit counters
          NMem,       \* words of data memory
          InRam(_),   \* addresses of data memory: the others are devices
          InText(_)   \* addresses instructions can be fetched from

VARIABLES imem,       \* instructions by word address; ZeroInsn beyond
          pc, regs, mem, csr, instret,
          halted      \* the simulation has ended

isaVars == <<imem, pc, regs, mem, csr, instret, halted>>

TypeOK ==
  /\ \A k \in DOMAIN imem : IsInsn(imem[k])
  /\ pc \in Word
  /\ regs \in [Reg -> Word]
  /\ mem \in [0 .. NMem - 1 -> Word]
  /\ csr \in [CsrReg -> Word]
  /\ instret \in 0 .. CountMod - 1
  /\ halted \in BOOLEAN

Init ==
  /\ TypeOK
  /\ pc = RESETVEC
  /\ regs = [r \in Reg |-> 0]
  /\ \A c \in CsrReg \ {"mscratch", "misa"} : csr[c] = 0
  /\ instret = 0
  /\ halted = FALSE

-----------------------------------------------------------------------------
Fetch(p) == IF p \div 4 \in DOMAIN imem THEN imem[p \div 4] ELSE ZeroInsn

Val(r) == IF r = 0 THEN 0 ELSE regs[r]

SetReg(r, v) == regs' = (IF r = 0 THEN regs ELSE [regs EXCEPT ![r] = v])

\* Data memory repeats through the address space.
Cell(a) == (a \div 4) % NMem

Addr(i) == Plus(Val(i.rs1), i.imm)
Size(f) == CASE f \in {"LB", "LBU", "SB"} -> 1
             [] f \in {"LH", "LHU", "SH"} -> 2
             [] f \in {"LW", "SW"}        -> 4

Holds(f, a, b) == CASE f = "BEQ"  -> a = b
                    [] f = "BNE"  -> a # b
                    [] f = "BLT"  -> Signed(a) < Signed(b)
                    [] f = "BGE"  -> Signed(a) >= Signed(b)
                    [] f = "BLTU" -> a < b
                    [] f = "BGEU" -> a >= b

\* Where control goes after instruction i, if it raises no exception.
Target(i) ==
  CASE i.op = "JAL"  -> Even(Plus(pc, i.imm))
    [] i.op = "JALR" -> Even(Plus(Val(i.rs1), i.imm))
    [] i.op = "BRANCH" /\ Holds(i.f, Val(i.rs1), Val(i.rs2)) -> Plus(pc, i.imm)
    [] OTHER -> Next4(pc)

\* The value a load of function f returns from address a.
Loaded(f, a) ==
  LET byte(k) == Lane(mem[Cell(a)], (a % 4) + k)
      half    == byte(0) + ByteMod * byte(1)
  IN  CASE f = "LB"  -> IF 2 * byte(0) >= ByteMod THEN byte(0) + WordMod - ByteMod
                                                  ELSE byte(0)
        [] f = "LBU" -> byte(0)
        [] f = "LH"  -> IF 2 * half >= ByteMod * ByteMod
                          THEN half + WordMod - ByteMod * ByteMod ELSE half
        [] f = "LHU" -> half
        [] f = "LW"  -> mem[Cell(a)]

\* Memory after the low Size(f) bytes of v have been stored from address a on.
Stored(f, a, v) ==
  [mem EXCEPT ![Cell(a)] =
     FromLanes([l \in 0 .. 3 |-> IF l \in (a % 4) .. (a % 4) + Size(f) - 1
                                   THEN Lane(v, l - (a % 4)) ELSE Lane(@, l)])]

-----------------------------------------------------------------------------
(* Traps. *)

Illegal(i) == \/ i.op = "BAD"
              \/ i.f = "bad"
              \/ i.op = "SYSTEM" /\ i.f # "PRIV" /\ i.csr = "other"

TargetMisaligned(i) == i.op \in {"JAL", "JALR", "BRANCH"} /\ Target(i) % 4 # 0
AddrMisaligned(i)   == i.op \in {"LOAD", "STORE"} /\ Addr(i) % Size(i.f) # 0

Excepts(i) == Illegal(i) \/ TargetMisaligned(i) \/ AddrMisaligned(i)

Vector(code) ==
  IF csr["mtvec"] % 2 = 1 THEN Plus(Align4(csr["mtvec"]), 4 * code)
                          ELSE Align4(csr["mtvec"])

\* mstatus on entry to the handler: MPIE keeps MIE, and MIE is cleared.
Masked == ClearBit(CopyBit(csr["mstatus"], MPIE, MIE), MIE)

\* A trap into an unset mtvec ends the simulation of the RTL.
MayHalt == halted' \in {FALSE, Align4(csr["mtvec"]) = 0}

\* Exception: cause, the saved pc and what mtval may show.
Trap(cause, vals) ==
  /\ \E v \in vals :
       csr' = [csr EXCEPT !["mcause"] = cause, !["mepc"] = pc, !["mtval"] = v,
                          !["mstatus"] = Masked]
  /\ pc' = Vector(cause)
  /\ MayHalt
  /\ UNCHANGED <<regs, mem>>

\* A misaligned target outside program memory may be reached as well.
Except(i) ==
  \/ Illegal(i) /\ Trap(TRAP_INST_ILL, {i.code, 0})
  \/ ~Illegal(i) /\ TargetMisaligned(i) /\ Trap(TRAP_INST_ALIGN, {Target(i)})
  \/ /\ ~Illegal(i) /\ TargetMisaligned(i) /\ ~InText(Target(i))
     /\ pc' = Target(i)
     /\ UNCHANGED <<regs, mem, csr, halted>>
  \/ /\ ~Illegal(i) /\ AddrMisaligned(i)
     /\ Trap(IF i.op = "LOAD" THEN TRAP_LD_ALIGN ELSE TRAP_ST_ALIGN, {Addr(i)})

Enabled(q) == HasBit(csr["mstatus"], MIE) /\ HasBit(csr["mie"], IrqBit(q))

\* Interrupt q is taken after an instruction: its successor is what mret
\* will return to.
Interrupt(q, next) ==
  /\ Enabled(q)
  /\ \E v \in {0, csr["mtval"]} :
       csr' = [csr EXCEPT !["mcause"] = IntCause(q), !["mepc"] = next, !["mtval"] = v,
                          !["mstatus"] = Masked,
                          !["mip"] = SetBit(csr["mip"], IrqBit(q))]
  /\ pc' = Vector(IntCode(q))
  /\ MayHalt

Retire(next) ==
  \/ pc' = next /\ UNCHANGED <<csr, halted>>
  \/ \E q \in Irq : Interrupt(q, next)

-----------------------------------------------------------------------------
(* Instructions. *)

Compute(i) ==
  /\ i.op \in {"AUIPC", "LUI", "ARITHI", "ARITHR", "FENCE"}
  /\ CASE i.op = "AUIPC"  -> SetReg(i.rd, Plus(pc, i.imm))
       [] i.op = "LUI"    -> SetReg(i.rd, i.imm)
       [] i.op = "ARITHI" -> SetReg(i.rd, Alu(i.f, Val(i.rs1), i.imm))
       [] i.op = "ARITHR" -> SetReg(i.rd, Alu(i.f, Val(i.rs1), Val(i.rs2)))
       [] i.op = "FENCE"  -> UNCHANGED regs
  /\ UNCHANGED mem
  /\ Retire(Next4(pc))

Jump(i) ==
  /\ i.op \in {"JAL", "JALR"}
  /\ SetReg(i.rd, Next4(pc))
  /\ UNCHANGED mem
  /\ Retire(Target(i))

\* A jump to itself may end the simulation before it links.
SelfJump(i) ==
  /\ i.op \in {"JAL", "JALR"} /\ Target(i) = pc
  /\ halted' = TRUE
  /\ UNCHANGED <<pc, regs, mem, csr>>

Branch(i) ==
  /\ i.op = "BRANCH"
  /\ UNCHANGED <<regs, mem>>
  /\ Retire(Target(i))

Load(i) ==
  /\ i.op = "LOAD" /\ InRam(Addr(i))
  /\ SetReg(i.rd, Loaded(i.f, Addr(i)))
  /\ UNCHANGED mem
  /\ Retire(Next4(pc))

Store(i) ==
  /\ i.op = "STORE" /\ InRam(Addr(i))
  /\ mem' = Stored(i.f, Addr(i), Val(i.rs2))
  /\ UNCHANGED regs
  /\ Retire(Next4(pc))

\* A load or store outside data memory: a device answers, or there is none and
\* the access faults, or the device ends the simulation.  The value a device
\* returns is its own business.
Device(i) ==
  /\ i.op \in {"LOAD", "STORE"} /\ ~InRam(Addr(i))
  /\ \/ /\ regs' \in [Reg -> Word]
        /\ \A r \in Reg : regs'[r] # regs[r] => i.op = "LOAD" /\ r = i.rd /\ r # 0
        /\ UNCHANGED mem
        /\ Retire(Next4(pc))
     \/ Trap(IF i.op = "LOAD" THEN TRAP_LD_FAIL ELSE TRAP_ST_FAIL, {Addr(i)})
     \/ halted' = TRUE /\ UNCHANGED <<pc, regs, mem, csr>>

\* The old value goes to rd, the new one to the CSR; set and clear with a zero
\* rs1 field do not write.  Counters and identification CSRs ignore writes, and
\* the cycle count is the implementation's business.
CsrAccess(i) ==
  LET old  == CASE i.csr \in CsrReg     -> csr[i.csr]
                [] i.csr = "instret"    -> instret % WordMod
                [] i.csr = "instreth"   -> (instret \div WordMod) % WordMod
                [] OTHER                -> 0
      data == IF i.f \in {"CSRRWI", "CSRRSI", "CSRRCI"} THEN i.rs1 ELSE Val(i.rs1)
      new  == CASE i.f \in {"CSRRW", "CSRRWI"} -> data
                [] i.f \in {"CSRRS", "CSRRSI"} -> BitOr(old, data)
                [] i.f \in {"CSRRC", "CSRRCI"} -> BitAnd(old, BitNot(data))
      writes == i.f \in {"CSRRW", "CSRRWI"} \/ i.rs1 # 0
  IN  /\ i.op = "SYSTEM" /\ i.f # "PRIV"
      /\ IF i.csr \in {"cycle", "cycleh"}
           THEN \A r \in Reg \ {i.rd} : regs'[r] = regs[r]
           ELSE SetReg(i.rd, old)
      /\ csr' = IF writes /\ i.csr \in CsrReg THEN [csr EXCEPT ![i.csr] = new] ELSE csr
      /\ pc' = Next4(pc)
      /\ UNCHANGED <<mem, halted>>

\* ecall, ebreak, mret and the illegal fourth; imm[1:0] tells them apart.
Priv(i) ==
  /\ i.op = "SYSTEM" /\ i.f = "PRIV"
  /\ \/ i.imm % 4 = 0 /\ Trap(TRAP_ECALL, {0})
     \/ i.imm % 4 = 1 /\ Trap(TRAP_BREAK, {pc})
     \/ /\ i.imm % 4 = 2
        /\ \E e \in {csr["mepc"], pc}, v \in {csr["mtval"], 0} :
             csr' = [csr EXCEPT !["mepc"] = e, !["mtval"] = v,
                                !["mstatus"] = CopyBit(csr["mstatus"], MIE, MPIE)]
        /\ pc' = csr["mepc"]
        /\ MayHalt
        /\ UNCHANGED <<regs, mem>>
     \/ /\ i.imm % 4 = 3
        /\ \E m \in {csr["mstatus"], Masked}, v \in {i.code, 0} :
             csr' = [csr EXCEPT !["mcause"] = TRAP_INST_ILL, !["mepc"] = pc,
                                !["mtval"] = v, !["mstatus"] = m]
        /\ pc' = Vector(TRAP_INST_ILL)
        /\ MayHalt
        /\ UNCHANGED <<regs, mem>>

Step(i) ==
  IF Excepts(i)
    THEN Except(i)
    ELSE \/ Compute(i)
         \/ Jump(i)
         \/ SelfJump(i)
         \/ Branch(i)
         \/ Load(i)
         \/ Store(i)
         \/ Device(i)
         \/ CsrAccess(i)
         \/ Priv(i)

Next ==
  /\ ~halted
  /\ UNCHANGED imem
  /\ instret' = (instret + 1) % CountMod
  /\ pc % 4 = 0 /\ InText(pc) => Step(Fetch(pc))

Spec == Init /\ [][Next]_isaVars
=============================================================================
