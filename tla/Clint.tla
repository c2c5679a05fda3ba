------------------------------- MODULE Clint -------------------------------
(***************************************************************************)
(* The core-local interruptor of rtl/clint.v: the 64-bit timer mtime, its  *)
(* comparator mtimecmp and the MSIP register, behind a 32-bit bus.  One    *)
(* Clk step is one rising clock edge; every register of the module is      *)
(* updated from the values of the cycle that ends.                         *)
(*                                                                         *)
(* A 64-bit register is the record of its two bus-wide halves, each a      *)
(* number below Half (2^32 in the code): the bus writes and reads one half *)
(* at a time.  MSIP is a word of which the module keeps two bits, D[0]     *)
(* (sw_irq) and D[16] (ex_irq); MsipBit is the weight of the second one.   *)
(***************************************************************************)
EXTENDS Integers

CONSTANTS Half,     \* values of one 32-bit half of a 64-bit register
          MsipBit   \* the weight of D[16] of a bus word

ASSUME ClintAssumption ==
  /\ Half \in Nat
  /\ MsipBit \in Nat
  /\ MsipBit > 1
  /\ MsipBit + 1 < Half

VARIABLES mtime, mtimecmp, timer_irq, sw_irq, ex_irq, rresp, rdata

clintVars == <<mtime, mtimecmp, timer_irq, sw_irq, ex_irq, rresp, rdata>>

HalfWord == 0 .. Half - 1
Counter  == [hi : HalfWord, lo : HalfWord]

\* Register addresses of the block (MTIME_BASE, MTIME_BASE+4, ...).
CounterAddr == {"MTIME", "MTIMEH", "MTIMECMP", "MTIMECMPH"}
ReadAddr    == CounterAddr \cup {"MSIP", "none"}

\* A bus write: none, one half of a counter, or the MSIP register.
Writes == [addr : CounterAddr \cup {"MSIP"}, data : HalfWord]
            \cup [addr : {"none"}, data : {0}]

\* 64-bit arithmetic on halves.
Zero == [hi |-> 0, lo |-> 0]
Inc(n) == IF n = Half - 1 THEN 0 ELSE n + 1
Geq(c, d) == c.hi > d.hi \/ (c.hi = d.hi /\ c.lo >= d.lo)

TypeOK ==
  /\ mtime \in Counter
  /\ mtimecmp \in Counter
  /\ timer_irq \in BOOLEAN
  /\ sw_irq \in BOOLEAN
  /\ ex_irq \in BOOLEAN
  /\ rresp \in BOOLEAN
  /\ rdata \in HalfWord

\* negedge resetb; rdata is not reset, so it may hold anything until a read.
Init ==
  /\ mtime = Zero
  /\ mtimecmp = Zero
  /\ timer_irq = FALSE
  /\ sw_irq = FALSE
  /\ ex_irq = FALSE
  /\ rresp = FALSE
  /\ rdata \in HalfWord

\* Mutants: the comparison made with the time of the cycle that ends; a
\* half-word increment that does not wrap; a write of one half of the
\* comparator that clears the other.
TimerIrqClk_late == timer_irq' = Geq(mtime, mtimecmp)
mtime_nxt_nowrap == [hi |-> mtime.hi, lo |-> mtime.lo + 1]

MtimecmpClk_clear(w) ==
  mtimecmp' = CASE w.addr = "MTIMECMP"  -> [hi |-> 0, lo |-> w.data]
                [] w.addr = "MTIMECMPH" -> [mtimecmp EXCEPT !.hi = w.data]
                [] OTHER                -> mtimecmp

mtime_nxt == [hi |-> IF mtime.lo = Half - 1 THEN Inc(mtime.hi) ELSE mtime.hi,
              lo |-> Inc(mtime.lo)]

\* The interrupt request is registered: it is compared with the time the
\* timer will have in the next cycle.
TimerIrqClk ==
  timer_irq' = Geq(mtime_nxt, mtimecmp)

\* A write to either half replaces the tick of that cycle.
MtimeClk(w, timer_en) ==
  mtime' = CASE w.addr = "MTIME"  -> [mtime EXCEPT !.lo = w.data]
             [] w.addr = "MTIMEH" -> [mtime EXCEPT !.hi = w.data]
             [] OTHER             -> IF timer_en THEN mtime_nxt ELSE mtime

MtimecmpClk(w) ==
  mtimecmp' = CASE w.addr = "MTIMECMP"  -> [mtimecmp EXCEPT !.lo = w.data]
                [] w.addr = "MTIMECMPH" -> [mtimecmp EXCEPT !.hi = w.data]
                [] OTHER                -> mtimecmp

MsipClk(w) ==
  /\ sw_irq' = (IF w.addr = "MSIP" THEN w.data % 2 = 1 ELSE sw_irq)
  /\ ex_irq' = (IF w.addr = "MSIP" THEN (w.data \div MsipBit) % 2 = 1 ELSE ex_irq)

\* A read returns, one cycle later, the value before any write of this cycle.
ReadClk(raddr) ==
  /\ rresp' = (raddr # "none")
  /\ rdata' = CASE raddr = "MTIME"     -> mtime.lo
                [] raddr = "MTIMEH"    -> mtime.hi
                [] raddr = "MTIMECMP"  -> mtimecmp.lo
                [] raddr = "MTIMECMPH" -> mtimecmp.hi
                [] raddr = "MSIP"      -> (IF ex_irq THEN MsipBit ELSE 0) + (IF sw_irq THEN 1 ELSE 0)
                [] OTHER               -> rdata

Clk(timer_en, w, raddr) ==
  /\ TimerIrqClk
  /\ MtimeClk(w, timer_en)
  /\ MtimecmpClk(w)
  /\ MsipClk(w)
  /\ ReadClk(raddr)

\* The bus may do anything in any cycle; timer_en rises once, when the core's
\* pipeline has filled (riscv.v), and the block only sees its level.
Next == \E timer_en \in BOOLEAN, w \in Writes, raddr \in ReadAddr :
          Clk(timer_en, w, raddr)

Spec == Init /\ [][Next]_clintVars
=============================================================================
