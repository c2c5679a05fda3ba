-------------------------------- MODULE Top --------------------------------
(***************************************************************************)
(* The bus between the core and what it reads and writes (rtl/top.v): the  *)
(* interruptor of the module Clint, the data RAM, and the host registers   *)
(* of the harness (testbench.v).  The core is here the stream of its       *)
(* memory accesses: a load asks in stage 2 and takes its data in stage 3,  *)
(* a store is written in stage 3, so a load asks in the very cycle in      *)
(* which the store ahead of it is written.                                 *)
(*                                                                         *)
(* Accesses are whole words below Half.  A store to MMIO_TOHOST points to  *)
(* the block of two words that is the RAM; only the words the harness      *)
(* reads there matter, the command and the length of a write.              *)
(***************************************************************************)
EXTENDS Clint

CONSTANTS MaxOps,     \* loads and stores of a run
          TimerData   \* the words a program stores into the timer

ASSUME TopAssumption == MaxOps \in Nat /\ TimerData \subseteq HalfWord

VARIABLES dmem, dmem_rdata0,   \* the RAM and its read register
          data_sel,            \* top.v: the load in stage 3 reads the interruptor
          result, rready,      \* testbench.v: the host's answer, and its select
          halted,              \* $finish
          filled,              \* timer_en: the core's pipe is full
          wb,                  \* the store in stage 3
          load,                \* the load in stage 3: what it should get
          ops, quiet,          \* accesses so far; cycles since a store to the timer
                               \* left stage 2, up to 2
          cmp, raise           \* mtimecmp as the program has stored it; how far a
                               \* rise of it has come

topVars == <<clintVars, dmem, dmem_rdata0, data_sel, result, rready, halted, filled,
             wb, load, ops, quiet, cmp, raise>>

RamAddr   == {"RAM0", "RAM1"}
ClintAddr == CounterAddr \cup {"MSIP"}
TimerAddr == CounterAddr
HostAddr  == {"PUTC", "EXIT", "TOHOST", "FROMHOST"}    \* addr[31:28] = MMIO_BASE
Addr      == RamAddr \cup ClintAddr \cup HostAddr \cup {"BEYOND"}

Nop       == [op |-> "none", addr |-> "none", data |-> 0]
Loads     == [op : {"load"}, addr : Addr \ {"PUTC", "EXIT"}, data : {0}]
Stores    == [op : {"store"}, addr : RamAddr, data : HalfWord]
             \cup [op : {"store"}, addr : TimerAddr, data : TimerData]
             \cup [op : {"store"}, addr : {"MSIP"}, data : {0, 1, MsipBit, MsipBit + 1}]
             \cup [op : {"store"}, addr : HostAddr \cup {"BEYOND"}, data : {0}]
NoLoad    == [addr |-> "none", want |-> 0, before |-> 0]
Resting   == [phase |-> 0, from |-> Zero]

\* The RAM decodes the low bits: every other address is also the one of a word.
ByteAddr(a) == IF a = "RAM1" THEN 4 ELSE 0
WholeWord(old, strb, data) == data
Ram == INSTANCE Mem2ports WITH ram <- dmem, rdata <- dmem_rdata0, Size <- 2, Merge <- WholeWord

-----------------------------------------------------------------------------
(* The harness. *)

\* The commands of a block; the numbers stand for SYS_LSEEK, SYS_WRITE, SYS_EXIT,
\* and SYS_DUMP or SYS_DUMP_BIN.
LSEEK == 1
WRITE == 2
EXIT  == 3
DUMP  == 4

\* What a store does to the answer that FROMHOST reads.  An unknown command
\* leaves the answer of the one before.
HostResult ==
  CASE wb.addr \in {"PUTC", "EXIT"} -> 1
    [] wb.addr = "TOHOST" /\ dmem[0] = LSEEK -> Half - 1
    [] wb.addr = "TOHOST" /\ dmem[0] = WRITE -> dmem[1]
    [] wb.addr = "TOHOST" /\ dmem[0] \in {EXIT, DUMP} -> 0
    [] OTHER -> result

\* $finish: an exit, or a store outside the RAM that no device takes.
HostFinish ==
  \/ wb.addr \in {"EXIT", "FROMHOST", "BEYOND"}
  \/ wb.addr = "TOHOST" /\ dmem[0] = EXIT

HostClk(op) ==
  /\ result' = HostResult
  /\ halted' = HostFinish
  /\ rready' = (op.op = "load" /\ op.addr = "FROMHOST")

-----------------------------------------------------------------------------
(* The bus. *)

ClintWrite    == IF wb.addr \in ClintAddr THEN [addr |-> wb.addr, data |-> wb.data]
                 ELSE [addr |-> "none", data |-> 0]
ClintRead(op) == IF op.op = "load" /\ op.addr \in ClintAddr THEN op.addr ELSE "none"

\* The strobe of the RAM: neither the interruptor's addresses (top.v) nor the
\* host's (testbench.v).
dmem_wready      == wb.addr \in RamAddr \cup {"BEYOND"}
dmem_rready(op)  == op.op = "load" /\ op.addr \notin ClintAddr

\* Mutant: the flag is never taken back.
DataSelClk_sticky(op) == data_sel' = (data_sel \/ op.addr \in ClintAddr)

\* The flag follows the address lines, of a store too; those of an instruction
\* that is no access do not matter, since no load takes the data.
DataSelClk(op) == data_sel' = (op.addr \in ClintAddr)

\* dmem_rdata of the harness and drdata of top.v: what the load in stage 3 takes.
dmem_rdata == IF rready THEN result ELSE dmem_rdata0
drdata     == IF data_sel THEN rdata ELSE dmem_rdata

-----------------------------------------------------------------------------
(* What the program sees: the devices once the store in stage 3 is written.  *)

MsipBits(w) == (w % 2) + MsipBit * ((w \div MsipBit) % 2)
Msip == (IF sw_irq THEN 1 ELSE 0) + (IF ex_irq THEN MsipBit ELSE 0)
Before(a) == CASE a = "MTIME" -> mtime.lo       [] a = "MTIMEH" -> mtime.hi
               [] a = "MTIMECMP" -> mtimecmp.lo [] a = "MTIMECMPH" -> mtimecmp.hi
               [] a = "MSIP" -> Msip            [] a = "FROMHOST" -> result
               [] OTHER -> dmem[ByteAddr(a) \div 4]
Want(a) == CASE a = "FROMHOST" -> HostResult
             [] a = "MSIP" /\ wb.addr = "MSIP" -> MsipBits(wb.data)
             [] a \in CounterAddr /\ wb.addr = a -> wb.data
             [] a \notin ClintAddr \cup {"FROMHOST"} /\ dmem_wready /\ ByteAddr(a) = ByteAddr(wb.addr) -> wb.data
             [] OTHER -> Before(a)

\* The three stores of a rise: low half all ones, high half, low half.  It starts
\* from a request that has settled; another store to the timer ends it.
RaiseNext(op) ==
  CASE op.op # "store" \/ op.addr \notin TimerAddr -> raise
    [] op.op = "store" /\ op.addr = "MTIMECMP" /\ raise.phase = 2 -> [raise EXCEPT !.phase = 3]
    [] op.op = "store" /\ op.addr = "MTIMECMPH" /\ raise.phase = 1 -> [raise EXCEPT !.phase = 2]
    [] op.op = "store" /\ op.addr = "MTIMECMP" /\ raise.phase \in {0, 3} /\ op.data = Half - 1
         /\ quiet = 2 -> [phase |-> 1, from |-> cmp]
    [] OTHER -> Resting

GhostClk(op) ==
  /\ load' = IF op.op = "load" THEN [addr |-> op.addr, want |-> Want(op.addr), before |-> Before(op.addr)]
             ELSE NoLoad
  /\ ops' = IF op = Nop THEN ops ELSE ops + 1
  /\ quiet' = IF op.op = "store" /\ op.addr \in TimerAddr THEN 0 ELSE IF quiet < 2 THEN quiet + 1 ELSE 2
  /\ cmp' = CASE op.op = "store" /\ op.addr = "MTIMECMP"  -> [cmp EXCEPT !.lo = op.data]
               [] op.op = "store" /\ op.addr = "MTIMECMPH" -> [cmp EXCEPT !.hi = op.data]
               [] OTHER -> cmp
  /\ raise' = RaiseNext(op)

-----------------------------------------------------------------------------
\* A program that has set its timer some cycles ago: the deadline is ahead.
Running ==
  /\ mtime = [hi |-> 0, lo |-> 2] /\ mtimecmp = [hi |-> 1, lo |-> 1]
  /\ timer_irq = FALSE /\ sw_irq = FALSE /\ ex_irq = FALSE /\ rresp = FALSE

TopInit ==
  /\ (Init /\ filled = FALSE) \/ (Running /\ filled = TRUE)
  /\ rdata = 0
  /\ dmem = [i \in 0 .. 1 |-> 0] /\ dmem_rdata0 = 0
  /\ data_sel = FALSE /\ rready = FALSE /\ halted = FALSE
  /\ result \in {0, Half - 1}     \* it has no reset
  /\ wb = Nop /\ load = NoLoad /\ ops = 0 /\ quiet = 2
  /\ cmp = mtimecmp /\ raise = Resting

\* One clock edge, with op in stage 2.
Cycle(op) ==
  /\ ~halted
  /\ op # Nop => filled /\ ops < MaxOps
  /\ Clk(filled, ClintWrite, ClintRead(op))
  /\ Ram!Clk(dmem_rready(op), ByteAddr(op.addr), dmem_wready, ByteAddr(wb.addr), wb.data, TRUE)
  /\ DataSelClk(op)
  /\ HostClk(op)
  /\ wb' = IF op.op = "store" THEN op ELSE Nop
  /\ filled' \in {TRUE, filled}
  /\ GhostClk(op)

TopNext == \E op \in {Nop} \cup Loads \cup Stores : Cycle(op)

TopSpec == TopInit /\ [][TopNext]_topVars

-----------------------------------------------------------------------------
(* Properties. *)

\* Types: the registers of the interruptor, the RAM, the host's answer, the selects,
\* and the ghost variables.
TopTypeOK ==
  /\ TypeOK
  /\ dmem \in [0 .. 1 -> HalfWord] /\ dmem_rdata0 \in HalfWord /\ result \in HalfWord
  /\ data_sel \in BOOLEAN /\ rready \in BOOLEAN /\ halted \in BOOLEAN /\ filled \in BOOLEAN
  /\ wb \in {Nop} \cup Stores
  /\ load \in [addr : Addr \cup {"none"}, want : HalfWord, before : HalfWord]
  /\ ops \in 0 .. MaxOps /\ quiet \in 0 .. 2
  /\ cmp \in Counter /\ raise \in [phase : 0 .. 3, from : Counter]

\* A load gets the word its address holds in program order, through any sequence
\* of accesses to RAM, interruptor and host: data_sel and rready are those of the
\* load in stage 3, and a store directly ahead of it is seen.  One exception: a
\* register of the interruptor is read before that store.
LoadsInOrder ==
  load.addr # "none" => \/ drdata = load.want
                        \/ load.addr \in ClintAddr /\ drdata = load.before

\* The timer request the core samples is the one of the registers the program
\* has written, from the third instruction after the last store to them on: up
\* exactly when mtime has reached mtimecmp, not a cycle early or late, while
\* mtime wraps or is replaced.
RequestsFollowProgram ==
  quiet = 2 /\ filled => (timer_irq <=> Geq(mtime, cmp))

\* A program that raises mtimecmp with its low half all ones first, then the high
\* half, then the low half, gets no request on the way that neither the old nor
\* the new value justifies, although the 64 bits are never written at once.
RaisedQuietly ==
  raise.phase > 0 /\ timer_irq => Geq(mtime, raise.from) \/ Geq(mtime, cmp)
=============================================================================
