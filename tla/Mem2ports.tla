----------------------------- MODULE Mem2ports -----------------------------
(***************************************************************************)
(* The synchronous RAM of testbench/memmodel.v with one read and one write *)
(* port.  The read register is loaded on the edge; a read of the word that *)
(* the same edge writes returns the new bytes.                             *)
(***************************************************************************)
EXTENDS Integers

CONSTANTS Size,              \* words
          Merge(_, _, _)     \* Merge(old, strb, data): a strobed write

VARIABLES ram, rdata

\* The RAM decodes the low bits of the word address.
Adr(a) == (a \div 4) % Size

ReadClk(rready, raddr, wready, waddr, wdata, wstrb) ==
  rdata' = IF ~rready THEN rdata
           ELSE IF wready /\ Adr(raddr) = Adr(waddr)
                  THEN Merge(ram[Adr(raddr)], wstrb, wdata)
                  ELSE ram[Adr(raddr)]

WriteClk(wready, waddr, wdata, wstrb) ==
  ram' = IF wready THEN [ram EXCEPT ![Adr(waddr)] = Merge(@, wstrb, wdata)] ELSE ram

Clk(rready, raddr, wready, waddr, wdata, wstrb) ==
  /\ ReadClk(rready, raddr, wready, waddr, wdata, wstrb)
  /\ WriteClk(wready, waddr, wdata, wstrb)
=============================================================================
