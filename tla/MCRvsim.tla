------------------------------ MODULE MCRvsim ------------------------------
(***************************************************************************)
(* Instances of Rvsim for TLC: words of 16 bits, the device registers at    *)
(* the top of the address space, and families of short programs.           *)
(***************************************************************************)
EXTENDS Rvsim, Asm

MCAlu == INSTANCE AluOps WITH XLEN <- 16
MCAluResult(f, a, b) == MCAlu!AluResult(f, a, b)
MCAnd(a, b) == MCAlu!And(a, b)
MCOr(a, b)  == MCAlu!Or(a, b)

Clint == 36864
Htif  == 40960
MCMmio == [n \in MmioName |->
             CASE n = "MTIME"    -> Clint      [] n = "MTIMEH"    -> Clint + 4
               [] n = "MTIMECMP" -> Clint + 8  [] n = "MTIMECMPH" -> Clint + 12
               [] n = "MSIP"     -> Clint + 16
               [] n = "PUTC"     -> Htif + 28  [] n = "GETC"      -> Htif + 32
               [] n = "EXIT"     -> Htif + 44
               [] n = "TOHOST"   -> Htif + 48  [] n = "FROMHOST"  -> Htif + 52]

\* Data: requests to the host, by their call numbers, an exit request after
\* each; the first one's exit code is 37122.
Data == 64
Request == [a \in 0 .. 7 |-> CASE a = 1 -> 37122 [] a = 2 -> 64 [] a = 4 -> 1 [] a = 6 -> 136
                               [] OTHER -> SYS_EXIT]
MCDataImages == {[a \in 0 .. NMem - 1 |-> Request[a]]}
OneHost == {7}

\* The instance meets the hypothesis of RvsimProofs!SimulatorImplementsIsa on or.
ASSUME MCOrAddsSign == OrAddsSign

-----------------------------------------------------------------------------
(* Arithmetic, memory, jumps, exceptions and calls, with the handler in the  *)
(* program: word 2 (mtvec 8), or word 1 plus the cause (mtvec 5).            *)
IssInsns ==
  {Arithi("XOR", 1, 1, 66), Load_("LH", 2, 1, 0), Load_("bad", 1, 0, 0), Store_("SB", 2, 1, 1),
   Store_("SW", 1, 0, Data), Br("BEQ", 2, 0, 6), Br("BLT", 2, 1, 8), Jal(1, 0), Jalr(1, 2, 8),
   Jalr(0, 0, 1024), Load_("LBU", 2, 0, 32767), Ecall, Mret, BadSys, Csr("CSRRW", 1, "mepc", 0),
   Csr("CSRRS", 2, "mcause", 1), Csr("CSRRC", 2, "other", 0), Csr("CSRRCI", 1, "instret", 1)}
IssPrograms(mtvec) ==
  Images(<<Csr("CSRRWI", 0, "mtvec", mtvec), Csr("CSRRSI", 1, "mstatus", 8)>>, IssInsns, 3)

(* Timer, software and external interrupts, requested and withdrawn by the   *)
(* program through the devices.  The handler is the program's last word or   *)
(* its prologue, which enables interrupts again.                            *)
DeviceInsns ==
  {Arithi("XOR", 1, 1, 4), Store_("SW", 1, 2, 8), Store_("SB", 2, 2, 12), Store_("SH", 1, 2, 0),
   Load_("LW", 1, 2, 0), Load_("LB", 1, 2, 8), Store_("SW", 1, 2, 16), Load_("LW", 3, 2, 20),
   Jal(3, Neg(4)), Br("BNE", 1, 0, Neg(8)), Csr("CSRRCI", 3, "mstatus", 8), Mret,
   Store_("SB", 1, 0, Htif + 28)}
DevicePrograms(mtvec) ==
  Images(<<Lui(1, 2201), Csr("CSRRW", 0, "mie", 1), Lui(2, Clint),
           Csr("CSRRWI", 0, "mtvec", mtvec), Csr("CSRRSI", 0, "mstatus", 8)>>, DeviceInsns, 3)

(* The host: requests by pointer, to the call at p or elsewhere, their         *)
(* results, and characters.                                                  *)
HostPrograms(p) ==
  Images(<<Csr("CSRRWI", 0, "mtvec", 8), Lui(1, Data + p)>>,
         {Store_("SW", 1, 0, Htif + 48), Load_("LW", 3, 0, Htif + 52), Load_("LB", 2, 0, Htif + 32),
          Arithi("ADD", 1, 1, 4), Arithi("ADD", 1, 3, 65), Store_("SW", 3, 0, Data)}, 4)

AllPrograms == UNION {IssPrograms(8), IssPrograms(5), DevicePrograms(12), DevicePrograms(28),
                      HostPrograms(8), HostPrograms(16), HostPrograms(24)}

(* The exit register. *)
ExitPrograms ==
  Images(<<Csr("CSRRWI", 0, "mtvec", 8), Lui(1, 3)>>, {Store_("SW", 1, 0, Htif + 44), Fence}, 2)

(* A misaligned jump that is interrupted. *)
JumpIrqPrograms ==
  Images(<<Lui(1, 128), Csr("CSRRW", 0, "mie", 1), Csr("CSRRWI", 0, "mtvec", 12),
           Csr("CSRRSI", 0, "mstatus", 8)>>, {Jal(0, 6), Fence}, 2)
=============================================================================
