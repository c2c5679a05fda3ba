-------------------------------- MODULE Asm --------------------------------
(***************************************************************************)
(* An assembler for the programs of the MC modules.                        *)
(***************************************************************************)
EXTENDS Srv32, Sequences

Neg(n) == WordMod - n

I(op, f, rd, rs1, rs2, imm) ==
  [op |-> op, f |-> f, rd |-> rd, rs1 |-> rs1, rs2 |-> rs2, imm |-> imm,
   csr |-> "other", code |-> 1]
Arithi(f, rd, rs1, imm) == I("ARITHI", f, rd, rs1, 0, imm)
Arithr(f, rd, rs1, rs2) == I("ARITHR", f, rd, rs1, rs2, 0)
Load_(f, rd, rs1, imm)  == I("LOAD", f, rd, rs1, 0, imm)
Store_(f, rs2, rs1, imm) == I("STORE", f, 0, rs1, rs2, imm)
Br(f, rs1, rs2, imm)    == I("BRANCH", f, 0, rs1, rs2, imm)
Jal(rd, imm)            == I("JAL", "none", rd, 0, 0, imm)
Jalr(rd, rs1, imm)      == I("JALR", "none", rd, rs1, 0, imm)
Lui(rd, imm)            == I("LUI", "none", rd, 0, 0, imm)
Auipc(rd, imm)          == I("AUIPC", "none", rd, 0, 0, imm)
Fence                   == I("FENCE", "none", 0, 0, 0, 0)
Csr(f, rd, c, rs1)      == [I("SYSTEM", f, rd, rs1, 0, 0) EXCEPT !.csr = c]
Ecall  == I("SYSTEM", "PRIV", 0, 0, 0, 0)
Ebreak == I("SYSTEM", "PRIV", 0, 0, 0, 1)
Mret   == I("SYSTEM", "PRIV", 0, 0, 0, 2)
BadSys == I("SYSTEM", "PRIV", 0, 0, 0, 3)

\* All images with prologue p followed by n instructions of the set s.
Images(p, s, n) == {[k \in 0 .. Len(p) + n - 1 |->
                       IF k < Len(p) THEN p[k + 1] ELSE b[k - Len(p) + 1]]
                    : b \in [1 .. n -> s]}
=============================================================================
