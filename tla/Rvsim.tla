------------------------------- MODULE Rvsim -------------------------------
(***************************************************************************)
(* The instruction set simulator of tools/rvsim.c: one Step is one call of *)
(* srv32_step by the loop of main.  The record rv is the C structure of    *)
(* the same name, and the functions below map it to itself the way the C   *)
(* functions update it; irq holds the static locals of srv32_step, through *)
(* which an interrupt found in one step is taken at the start of the next. *)
(*                                                                         *)
(* Memory is text (imem, decoded) followed by data words (rv.mem).  The    *)
(* programs neither write their text nor jump into their data: such a step *)
(* has no successor here.                                                  *)
(***************************************************************************)
EXTENDS Srv32

CONSTANTS CountMod,       \* values of the 64-bit counters
          NText, NMem,    \* words of text and of data
          Programs, DataImages,
          MISA,
          BranchPenalty,  \* rv->branch_penalty
          BranchPredict,  \* rv->branch_predict
          SingleRam,      \* rv->singleram
          Mmio,           \* addresses of the device registers
          ExtBit,         \* the weight of msip[16]
          SYS, A0,        \* the registers of a system call's number and result
          HostResults,    \* what the host's calls and getch may return
          MaxSteps        \* bound: instructions of a run

MmioName == {"PUTC", "GETC", "EXIT", "TOHOST", "FROMHOST",
             "MTIME", "MTIMEH", "MTIMECMP", "MTIMECMPH", "MSIP"}

ASSUME RvsimAssumption ==
  /\ CountMod \in Nat /\ CountMod % WordMod = 0
  /\ CountMod > WordMod /\ CountMod \div WordMod <= WordMod
  /\ NText \in Nat \ {0} /\ NMem \in Nat \ {0} /\ NText % NMem = 0
  /\ \A p \in Programs : DOMAIN p \subseteq 0 .. NText - 1 /\ \A k \in DOMAIN p : IsInsn(p[k])
  /\ DataImages \subseteq [0 .. NMem - 1 -> Word]
  /\ MISA \in Word /\ HostResults \subseteq Word /\ {SYS, A0, A0 + 1} \subseteq Reg
  /\ BranchPenalty \in Nat /\ BranchPredict \in BOOLEAN /\ SingleRam \in BOOLEAN
  /\ Mmio \in [MmioName -> Word]

VARIABLES imem, rv, irq

vars == <<imem, rv, irq>>

RV_EXIT == 2     \* an enumeration of its own, with a value of the trap causes'

\* open, lseek, close, read and write; dump and dump_bin.
SYS_EXIT == 93
HostCall == {49, 50, 57, 63, 64}
Dumps    == {136, 153}

TextEnd == 4 * NText
MemEnd  == 4 * (NText + NMem)

Latches == {"timer_irq", "sw_irq", "sw_irq_next", "ext_irq", "ext_irq_next"}

Counter == 0 .. CountMod - 1
State == [pc : Word, prev_pc : Word, regs : [Reg -> Word], csr : [CsrReg -> Word],
          cycle : Counter, instret : Counter, mtime : Counter, mtimecmp : Counter,
          msip : Word, mtime_update : BOOLEAN, mem : [0 .. NMem - 1 -> Word],
          result : Word, status : {"run", "exit", "crash"}, exitcode : Word]

TypeOK ==
  /\ \A k \in DOMAIN imem : IsInsn(imem[k])
  /\ rv \in State
  /\ irq \in [Latches -> BOOLEAN]

Init ==
  /\ imem \in Programs
  /\ irq = [l \in Latches |-> FALSE]
  /\ \E m \in DataImages :
       rv = [pc |-> RESETVEC, prev_pc |-> RESETVEC, regs |-> [r \in Reg |-> 0],
             csr |-> [c \in CsrReg |-> IF c = "misa" THEN MISA ELSE 0],
             cycle |-> 0, instret |-> 0, mtime |-> 0, mtimecmp |-> 0, msip |-> 0,
             mtime_update |-> FALSE, mem |-> m, result |-> 0,
             status |-> "run", exitcode |-> 0]

-----------------------------------------------------------------------------
(* Counters: a COUNTER is signed and has two word-sized halves. *)

Count(n)      == n % CountMod
Lo(c)         == c % WordMod
Hi(c)         == c \div WordMod
WithLo(c, v)  == c - Lo(c) + v
WithHi(c, v)  == (v % (CountMod \div WordMod)) * WordMod + Lo(c)
SignedCount(c) == IF 2 * c >= CountMod THEN c - CountMod ELSE c

srv32_cycle_add(s, n) ==
  [s EXCEPT !.cycle = Count(@ + n),
            !.mtime = IF s.mtime_update THEN @ ELSE Count(@ + n)]

-----------------------------------------------------------------------------
(* Traps. *)

Mstatus(s, bit) == HasBit(s.csr["mstatus"], bit)

\* mtvec is the target as it is, or, in vectored mode, the base of a table.
Vector(s, code) == IF s.csr["mtvec"] % 2 = 1 THEN Plus(s.csr["mtvec"] - 1, 4 * code)
                                             ELSE s.csr["mtvec"]

Entered(s, cause) == [s.csr EXCEPT !["mcause"] = cause,
                                   !["mstatus"] = ClearBit(CopyBit(@, MPIE, MIE), MIE)]

srv32_trap(s, cause, val) ==
  [srv32_cycle_add(s, BranchPenalty) EXCEPT
     !.csr = [Entered(s, cause) EXCEPT !["mepc"] = s.prev_pc, !["mtval"] = val],
     !.pc  = Vector(s, cause)]

\* Mutant: the interrupted instruction is executed again.
srv32_int_again(s, q) ==
  [(IF s.pc = Next4(s.prev_pc) THEN srv32_cycle_add(s, BranchPenalty) ELSE s) EXCEPT
     !.csr = [Entered(s, IntCause(q)) EXCEPT !["mip"] = SetBit(@, IrqBit(q)),
                                             !["mepc"] = s.prev_pc],
     !.pc  = Vector(s, IntCode(q))]

\* A taken branch has paid its penalty already.
srv32_int(s, q) ==
  [(IF s.pc = Next4(s.prev_pc) THEN srv32_cycle_add(s, BranchPenalty) ELSE s) EXCEPT
     !.csr = [Entered(s, IntCause(q)) EXCEPT !["mip"] = SetBit(@, IrqBit(q)),
                                             !["mepc"] = s.pc],
     !.pc  = Vector(s, IntCode(q))]

-----------------------------------------------------------------------------
(* Memory. *)

\* The bounds check adds in 32 signed bits: an access that ends at 2^31 or
\* beyond overflows it, and may pass.
InMem(a, len)  == a + len <= MemEnd
Wraps(a, len)  == 2 * a < WordMod /\ 2 * (a + len) >= WordMod
InData(a)      == a >= TextEnd /\ a < MemEnd
TextWord(k)    == IF k \in DOMAIN imem THEN imem[k] ELSE ZeroInsn
WordAt(s, a)   == IF a < TextEnd THEN TextWord(a \div 4).code ELSE s.mem[a \div 4 - NText]

\* Four bytes from address a on, aligned or not.
IntAt(s, a)    == FromLanes([i \in 0 .. 3 |-> Lane(WordAt(s, a + i), (a + i) % 4)])

Size(f) == CASE f \in {"LB", "LBU", "SB"} -> 1
             [] f \in {"LH", "LHU", "SH"} -> 2
             [] f \in {"LW", "SW"}        -> 4
Low(f) == CASE Size(f) = 1 -> ByteMod [] Size(f) = 2 -> ByteMod * ByteMod [] OTHER -> WordMod

srv32_read_mem(s, f, a) == (WordAt(s, a) \div LaneWeight[a % 4]) % Low(f)
srv32_write_mem(s, f, a, v) ==
  [s EXCEPT !.mem[a \div 4 - NText] =
     Merge(@, (a % 4) .. (a % 4) + Size(f) - 1, (v * LaneWeight[a % 4]) % WordMod)]

\* Mutant: the sign is added instead of ored.
Extended_add(f, d) == CASE f = "LB" /\ HasBit(d, ByteMod \div 2) -> d + WordMod - ByteMod
                        [] f = "LH" /\ HasBit(d, (ByteMod * ByteMod) \div 2) ->
                             d + WordMod - ByteMod * ByteMod
                        [] OTHER -> d

\* The sign is looked for in the low bits; nothing else is cut off.
Extended(f, d) == CASE f = "LB" /\ HasBit(d, ByteMod \div 2) -> BitOr(d, WordMod - ByteMod)
                    [] f = "LH" /\ HasBit(d, (ByteMod * ByteMod) \div 2) ->
                         BitOr(d, WordMod - ByteMod * ByteMod)
                    [] OTHER -> d

Answer(code, s, val) == [code |-> code, s |-> s, val |-> val]
Crashed(s) == [s EXCEPT !.status = "crash"]
Exited(s, code) == [s EXCEPT !.status = "exit", !.exitcode = code]

\* An access nothing answers: the trap, or what lies beyond the array.
Unanswered(s, fail, a, len, v) ==
  {Answer(fail, s, v)} \cup (IF Wraps(a, len) THEN {Answer(0, Crashed(s), v)} ELSE {})

\* A device register is read; the counters have counted this instruction.
ReadDevice(s, n) ==
  CASE n = "GETC"      -> HostResults
    [] n = "FROMHOST"  -> {s.result}
    [] n = "MTIME"     -> {Lo(Count(s.mtime - 1))}
    [] n = "MTIMEH"    -> {Hi(Count(s.mtime - 1))}
    [] n = "MTIMECMP"  -> {Lo(s.mtimecmp)}
    [] n = "MTIMECMPH" -> {Hi(s.mtimecmp)}
    [] n = "MSIP"      -> {s.msip}
    [] OTHER           -> {0}

\* The register of that address; TOHOST cannot be read and FROMHOST not written.
DeviceAt(a, names) == {n \in names : Mmio[n] = a}

LoadAnswers(s, f, a) ==
  LET devs == DeviceAt(a, MmioName \ {"TOHOST"})
  IN  CASE f = "bad" -> {Answer(TRAP_INST_ILL, s, 0)}
        [] f # "bad" /\ a % Size(f) # 0 -> {Answer(TRAP_LD_ALIGN, s, 0)}
        [] f # "bad" /\ a % Size(f) = 0 /\ InMem(a, Size(f)) ->
             {Answer(0, s, Extended(f, srv32_read_mem(s, f, a)))}
        [] f # "bad" /\ a % Size(f) = 0 /\ ~InMem(a, Size(f)) /\ devs # {} ->
             {Answer(0, s, Extended(f, v)) : v \in UNION {ReadDevice(s, n) : n \in devs}}
        [] OTHER -> Unanswered(s, TRAP_LD_FAIL, a, Size(f), 0)

\* The host is asked for a service by the address of its arguments: it exits
\* with rv->exitcode, or leaves a result (what a read puts into memory is not
\* modelled).  A dump may fail, which is the end.  A pointer that is not into
\* memory is NULL, and followed.
srv32_tohost(s, p) ==
  IF ~InMem(p, 4) THEN {Crashed(s)}
  ELSE CASE IntAt(s, p) = SYS_EXIT   -> {Exited([s EXCEPT !.result = 0], s.exitcode)}
         [] IntAt(s, p) \in HostCall -> {[s EXCEPT !.result = r] : r \in HostResults}
         [] IntAt(s, p) \in Dumps    -> {[s EXCEPT !.result = 0], Exited(s, 1)}
         [] OTHER                    -> {s}

\* The bits of a counter half that a narrow store replaces; the others keep
\* their value or take the register's.
Masked(f, old, v) == BitOr(old - (old % Low(f)), v)

WriteDevice(s, n, f, v) ==
  CASE n = "EXIT"      -> {Answer(RV_EXIT, [s EXCEPT !.exitcode = v], v)}
    [] n = "TOHOST"    -> {Answer(0, t, v) : t \in srv32_tohost(s, v)}
    [] n = "MTIME"     -> {Answer(0, [s EXCEPT !.mtime = Count(WithLo(@, Masked(f, Lo(@), v)) - 1),
                                               !.mtime_update = TRUE], v)}
    [] n = "MTIMEH"    -> {Answer(0, [s EXCEPT !.mtime = Count(WithHi(@, Masked(f, Hi(@), v)) - 1),
                                               !.mtime_update = TRUE], v)}
    [] n = "MTIMECMP"  -> {Answer(0, [s EXCEPT !.mtimecmp = WithLo(@, Masked(f, Lo(@), v))], v)}
    [] n = "MTIMECMPH" -> {Answer(0, [s EXCEPT !.mtimecmp = WithHi(@, Masked(f, Hi(@), v))], v)}
    [] n = "MSIP"      -> {Answer(0, [s EXCEPT !.msip = Masked(f, @, v)], v)}
    [] OTHER           -> {Answer(0, s, v)}

StoreAnswers(s, f, a, v) ==
  LET devs == DeviceAt(a, MmioName \ {"FROMHOST"})
  IN  CASE f = "bad" -> {Answer(TRAP_INST_ILL, s, v)}
        [] f # "bad" /\ a % Size(f) # 0 -> {Answer(TRAP_ST_ALIGN, s, v)}
        [] f # "bad" /\ a % Size(f) = 0 /\ InMem(a, Size(f)) ->
             {Answer(0, srv32_write_mem(s, f, a, v), v)}
        [] f # "bad" /\ a % Size(f) = 0 /\ ~InMem(a, Size(f)) /\ devs # {} ->
             UNION {WriteDevice(s, n, f, v) : n \in devs}
        [] OTHER -> Unanswered(s, TRAP_ST_FAIL, a, Size(f), v)

-----------------------------------------------------------------------------
(* Instructions: Execute is the switch of srv32_step on the opcode, for the *)
(* instruction i at s.pc.                                                   *)

Set(s, r, v) == [s EXCEPT !.regs[r] = v]
Advance(s)   == [s EXCEPT !.pc = Next4(@)]
Penalty(s)   == srv32_cycle_add(s, BranchPenalty)
Illegal(s, v) == {srv32_trap(s, TRAP_INST_ILL, v)}

Value(s, i) == CASE i.op = "AUIPC"  -> Plus(s.pc, i.imm)
                 [] i.op = "LUI"    -> i.imm
                 [] i.op = "ARITHI" -> Alu(i.f, s.regs[i.rs1], i.imm)
                 [] i.op = "ARITHR" -> Alu(i.f, s.regs[i.rs1], s.regs[i.rs2])

\* A jump to itself ends the simulation; a misaligned target is left to the
\* next step.
Jump(s, i, target, self) ==
  CASE self -> Exited([s EXCEPT !.pc = target], 1)
    [] ~self /\ Even(target) % 4 # 0 -> [s EXCEPT !.pc = Even(target)]
    [] OTHER -> Penalty(Set([s EXCEPT !.pc = Even(target)], i.rd, Next4(s.pc)))

Holds(f, a, b) == CASE f = "BEQ"  -> a = b
                    [] f = "BNE"  -> a # b
                    [] f = "BLT"  -> Signed(a) < Signed(b)
                    [] f = "BGE"  -> Signed(a) >= Signed(b)
                    [] f = "BLTU" -> a < b
                    [] f = "BGEU" -> a >= b

Branch(s, i) ==
  LET target == Plus(s.pc, i.imm)
      pays   == (~BranchPredict \/ Signed(i.imm) > 0) /\ target % 4 = 0
      taken  == [s EXCEPT !.pc = target]
  IN  CASE i.f = "bad" -> Illegal(s, i.code)
        [] i.f # "bad" /\ Holds(i.f, s.regs[i.rs1], s.regs[i.rs2]) ->
             {IF pays THEN Penalty(taken) ELSE taken}
        [] OTHER -> {Advance(s)}

\* What becomes of the answer of memrw; the cases are numbers of the causes.
Answered(ans, i, a, fail, align) ==
  LET t == IF SingleRam THEN srv32_cycle_add(ans.s, 1) ELSE ans.s
  IN  CASE ans.s.status # "run"        -> ans.s
        [] ans.code \in {fail, align}  -> srv32_trap(t, ans.code, a)
        [] ans.code = TRAP_INST_ILL    -> srv32_trap(t, TRAP_INST_ILL, i.code)
        [] OTHER -> Advance(IF i.op = "LOAD" THEN Set(t, i.rd, ans.val) ELSE t)

Load(s, i) ==
  LET a == Plus(s.regs[i.rs1], i.imm)
  IN  {Answered(ans, i, a, TRAP_LD_FAIL, TRAP_LD_ALIGN) : ans \in LoadAnswers(s, i.f, a)}

Store(s, i) ==
  LET a == Plus(s.regs[i.rs1], i.imm)
  IN  {Answered(ans, i, a, TRAP_ST_FAIL, TRAP_ST_ALIGN)
         : ans \in StoreAnswers(s, i.f, a, s.regs[i.rs2])}

\* The counters have counted this instruction.
CsrValue(s, c) == CASE c \in CsrReg   -> s.csr[c]
                    [] c = "cycle"    -> Lo(Count(s.cycle - 1))
                    [] c = "cycleh"   -> Hi(Count(s.cycle - 1))
                    [] c = "instret"  -> Lo(Count(s.instret - 1))
                    [] c = "instreth" -> Hi(Count(s.instret - 1))
                    [] OTHER          -> 0

csr_rw(s, i) ==
  LET old    == CsrValue(s, i.csr)
      val    == IF i.f \in {"CSRRWI", "CSRRSI", "CSRRCI"} THEN i.rs1 ELSE s.regs[i.rs1]
      update == i.f \in {"CSRRW", "CSRRWI"} \/ i.rs1 # 0
      new    == CASE i.f \in {"CSRRW", "CSRRWI"} -> val
                  [] i.f \in {"CSRRS", "CSRRSI"} -> BitOr(old, val)
                  [] i.f \in {"CSRRC", "CSRRCI"} -> BitAnd(old, BitNot(val))
      t      == IF update /\ i.csr \in CsrReg THEN [s EXCEPT !.csr[i.csr] = new] ELSE s
  IN  IF i.csr = "other" THEN Illegal(s, 0) ELSE {Advance(Set(t, i.rd, old))}

\* ecall asks the host first: a known call leaves its result in a0, unless that
\* is -1; a dump returns a1.
srv32_syscall(s) ==
  LET returns(r) == IF r = WordMod - 1 THEN s ELSE Set(s, A0, r)
  IN  CASE s.regs[SYS] = SYS_EXIT   -> {Exited(s, s.exitcode)}
        [] s.regs[SYS] \in HostCall -> {returns(r) : r \in HostResults}
        [] s.regs[SYS] \in Dumps    -> {returns(s.regs[A0 + 1]), Exited(s, 1)}
        [] OTHER                    -> {s}

Return(s) ==
  LET t == [s EXCEPT !.pc = s.csr["mepc"],
                     !.csr["mstatus"] = CopyBit(@, MIE, MPIE)]
  IN  IF t.pc % 4 # 0 THEN t ELSE Penalty(t)

System(s, i) ==
  CASE i.f = "bad" -> Illegal(s, i.code)
    [] i.f = "PRIV" /\ i.imm % 4 = 0 ->
         {IF t.status = "run" THEN srv32_trap(t, TRAP_ECALL, 0) ELSE t : t \in srv32_syscall(s)}
    [] i.f = "PRIV" /\ i.imm % 4 = 1 -> {srv32_trap(s, TRAP_BREAK, s.pc)}
    [] i.f = "PRIV" /\ i.imm % 4 = 2 -> {Return(s)}
    [] i.f = "PRIV" /\ i.imm % 4 = 3 -> Illegal(s, 0)
    [] OTHER -> csr_rw(s, i)

Execute(s, i) ==
  CASE i.op \in {"AUIPC", "LUI", "ARITHI"} \/ (i.op = "ARITHR" /\ i.f # "bad") ->
         {Advance(Set(s, i.rd, Value(s, i)))}
    [] i.op = "JAL"    -> {Jump(s, i, Plus(s.pc, i.imm), i.imm = 0)}
    [] i.op = "JALR"   -> LET t == Plus(s.regs[i.rs1], i.imm) IN {Jump(s, i, t, t = s.pc)}
    [] i.op = "BRANCH" -> Branch(s, i)
    [] i.op = "LOAD"   -> Load(s, i)
    [] i.op = "STORE"  -> Store(s, i)
    [] i.op = "FENCE"  -> {Advance(s)}
    [] i.op = "SYSTEM" -> System(s, i)
    [] OTHER           -> Illegal(s, i.code)

-----------------------------------------------------------------------------
(* srv32_step. *)

\* An interrupt found by the last step is taken; the first one masks the others.
Interrupted(s) ==
  LET take(t, latch, q) == IF irq[latch] /\ Mstatus(t, MIE) THEN srv32_int(t, q) ELSE t
  IN  take(take(take(s, "timer_irq", "timer"), "sw_irq_next", "sw"), "ext_irq_next", "ext")

InRange(s) == IF s.pc >= MemEnd THEN srv32_trap(s, TRAP_INST_FAIL, s.pc) ELSE s
Aligned(s) == IF s.pc % 4 # 0 THEN srv32_trap(s, TRAP_INST_ALIGN, s.pc) ELSE s

Start(s) == [s EXCEPT !.mtime_update = FALSE, !.regs[0] = 0]

\* Interrupts are looked for before the instruction i runs, and not before a
\* SYSTEM instruction; a software or external request is seen a step late.
Requests(s, i) ==
  LET enabled(q) == /\ Mstatus(s, MIE) /\ HasBit(s.csr["mie"], IrqBit(q))
                    /\ i.op # "SYSTEM"
  IN  [timer_irq    |-> enabled("timer") /\ SignedCount(s.mtime) >= SignedCount(s.mtimecmp),
       sw_irq_next  |-> enabled("sw") /\ irq["sw_irq"],
       ext_irq_next |-> enabled("ext") /\ irq["ext_irq"],
       sw_irq       |-> HasBit(s.msip, 1),
       ext_irq      |-> HasBit(s.msip, ExtBit)]

Counted(s) == srv32_cycle_add([s EXCEPT !.instret = Count(@ + 1), !.prev_pc = s.pc], 1)

StoresText(s, i) == i.op = "STORE" /\ Plus(s.regs[i.rs1], i.imm) < TextEnd

Step ==
  LET s == Aligned(InRange(Interrupted(Start(rv))))
      i == TextWord(s.pc \div 4)
  IN  /\ rv.status = "run"
      /\ rv.instret < MaxSteps
      /\ s.pc < TextEnd /\ s.pc % 4 = 0 /\ ~StoresText(s, i)
      /\ irq' = Requests(s, i)
      /\ rv' \in Execute(Counted(s), i)
      /\ UNCHANGED imem

Next == Step

Spec == Init /\ [][Next]_vars

-----------------------------------------------------------------------------
(* The machine the program sees, between two steps: a pending interrupt and *)
(* the trap of a misaligned jump belong to the instruction that has run.    *)

Settled == IF rv.status # "run" THEN rv
           ELSE IF Interrupted(rv).pc < MemEnd THEN Aligned(Interrupted(rv))
                                               ELSE Interrupted(rv)

ArchPc   == Settled.pc
ArchCsr  == Settled.csr
ArchRegs == [rv.regs EXCEPT ![0] = 0]
Ended    == rv.status # "run"

InRam(a)  == InData(a)
InText(a) == a < TextEnd

Arch == INSTANCE Isa WITH pc <- ArchPc, regs <- ArchRegs, mem <- rv.mem, csr <- ArchCsr,
                          instret <- rv.instret, halted <- Ended

\* The simulator implements the architecture the pipeline implements: every
\* call of srv32_step is the execution of one instruction, with the traps and
\* interrupts where the program can see them.
ImplementsIsa == Arch!Spec

\* The instruction the next step executes, and the state it finds.
Ready   == Aligned(InRange(Interrupted(Start(rv))))
Current == TextWord(Ready.pc \div 4)
Address == Plus(Ready.regs[Current.rs1], Current.imm)
StoresTo(a) == Current.op = "STORE" /\ Current.f = "SW" /\ Address = a

\* The steps on which the simulator does not depart from the architecture (README,
\* disagreements): bit 1 of mtvec is zero, the store is not to the exit register,
\* the ecall is not one the host serves, mret has an aligned mepc (the mapping
\* shows the exception of another before Isa does), and no interrupt is pending
\* when a jump goes to a misaligned address.
Ordinary ==
  /\ Ready.csr["mtvec"] % 4 \in {0, 1}
  /\ Current.op = "STORE" => Address # Mmio["EXIT"]
  /\ Current.op = "SYSTEM" /\ Current.f = "PRIV" =>
       /\ Current.imm % 4 = 0 => Ready.regs[SYS] \notin {SYS_EXIT} \cup HostCall \cup Dumps
       /\ Current.imm % 4 = 2 => Ready.csr["mepc"] % 4 = 0
  /\ rv'.pc % 4 # 0 => \A l \in {"timer_irq", "sw_irq_next", "ext_irq_next"} : ~irq'[l]

\* What the proof of the refinement needs to know of BitOr: Extended ors the bits
\* of the sign into a byte or a half word, which is to add them.
OrAddsSign ==
  \A m \in {ByteMod, ByteMod * ByteMod} : \A d \in Word :
    d < m => BitOr(d, WordMod - m) = d + WordMod - m

\* A store to the exit register ends the run with the code that is stored
\* (MMIO_EXIT, rvsim.c).
ExitStoreExits ==
  [][StoresTo(Mmio["EXIT"])
       => rv'.status = "exit" /\ rv'.exitcode = Ready.regs[Current.rs2]]_vars

\* A jump to a misaligned address raises the exception of the jump, whatever
\* else is pending (OP_JAL, rvsim.c).
MisalignedJumpTraps ==
  [][Current.op = "JAL" /\ Plus(Ready.pc, Current.imm) % 4 # 0
       => Settled'.csr["mcause"] = TRAP_INST_ALIGN /\ Settled'.csr["mepc"] = Ready.pc]_vars
=============================================================================
