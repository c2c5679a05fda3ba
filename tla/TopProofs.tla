----------------------------- MODULE TopProofs -----------------------------
(***************************************************************************)
(* Proofs about the interruptor under any bus traffic, and about the bus:  *)
(* every sequence of loads and stores, of any length, for every width of   *)
(* the halves and every data the program stores into the timer.            *)
(***************************************************************************)
EXTENDS Top, TLAPS

-----------------------------------------------------------------------------
(* The registers of the interruptor alone. *)

\* One edge keeps the type of every register, whatever the bus writes and reads.
LEMMA ClkType ==
  ASSUME TypeOK, NEW timer_en \in BOOLEAN, NEW w \in Writes, NEW raddr \in ReadAddr,
         Clk(timer_en, w, raddr)
  PROVE  TypeOK'
<1>1. mtime_nxt \in Counter
  BY ClintAssumption DEF TypeOK, mtime_nxt, Counter, HalfWord, Inc
<1>2. mtime' \in Counter
  BY <1>1 DEF TypeOK, Clk, MtimeClk, Counter, Writes, CounterAddr
<1>3. mtimecmp' \in Counter
  BY DEF TypeOK, Clk, MtimecmpClk, Counter, Writes, CounterAddr
<1>4. timer_irq' \in BOOLEAN
  BY DEF Clk, TimerIrqClk, Geq
<1>5. sw_irq' \in BOOLEAN /\ ex_irq' \in BOOLEAN
  BY DEF TypeOK, Clk, MsipClk
<1>6. rresp' \in BOOLEAN
  BY DEF Clk, ReadClk
<1>7. rdata' \in HalfWord
  BY ClintAssumption DEF TypeOK, Clk, ReadClk, Counter, HalfWord, ReadAddr, CounterAddr
<1> QED
  BY <1>2, <1>3, <1>4, <1>5, <1>6, <1>7 DEF TypeOK

\* The order of the 64-bit values that the comparator uses.
LEMMA GeqTransitive ==
  ASSUME NEW a \in Counter, NEW b \in Counter, NEW c \in Counter, Geq(a, b), Geq(b, c)
  PROVE  Geq(a, c)
BY ClintAssumption DEF Geq, Counter, HalfWord

\* Every register of clint.v keeps its type on every edge, whatever the bus does.
THEOREM TypeCorrect == Spec => []TypeOK
<1>1. Init => TypeOK
  <2>1. Zero \in Counter
    BY ClintAssumption DEF Counter, HalfWord, Zero
  <2> QED
    BY <2>1 DEF Init, TypeOK
<1>2. TypeOK /\ [Next]_clintVars => TypeOK'
  <2> SUFFICES ASSUME TypeOK, [Next]_clintVars PROVE TypeOK'
    OBVIOUS
  <2>1. CASE UNCHANGED clintVars
    BY <2>1 DEF TypeOK, clintVars
  <2>2. ASSUME NEW timer_en \in BOOLEAN, NEW w \in Writes, NEW raddr \in ReadAddr,
               Clk(timer_en, w, raddr)
        PROVE  TypeOK'
    BY <2>2, ClkType
  <2> QED
    BY <2>1, <2>2 DEF Next
<1> QED
  BY <1>1, <1>2, PTL DEF Spec

-----------------------------------------------------------------------------
(* The inductive invariant. *)

BusTypes ==
  /\ wb \in {Nop} \cup Stores
  /\ filled \in BOOLEAN
  /\ quiet \in 0 .. 2
  /\ cmp \in Counter
  /\ raise \in [phase : 0 .. 3, from : Counter]

\* The rest of TopTypeOK: the RAM, the host, and what a load takes.
DataTypes ==
  /\ dmem \in [0 .. 1 -> HalfWord] /\ dmem_rdata0 \in HalfWord /\ result \in HalfWord
  /\ data_sel \in BOOLEAN /\ rready \in BOOLEAN /\ halted \in BOOLEAN
  /\ load \in [addr : Addr \cup {"none"}, want : HalfWord, before : HalfWord]
  /\ ops \in 0 .. MaxOps

\* The comparator once the store in stage 3 is written: what mtimecmp becomes.
Settled == CASE wb.addr = "MTIMECMP"  -> [mtimecmp EXCEPT !.lo = wb.data]
             [] wb.addr = "MTIMECMPH" -> [mtimecmp EXCEPT !.hi = wb.data]
             [] OTHER                 -> mtimecmp

\* The program's view of mtimecmp runs ahead of the register by the store in
\* stage 3, and only in the cycle right after that store has left stage 2.
CmpAhead == cmp = Settled /\ (wb.addr \in TimerAddr => quiet = 0)

\* Before the pipe has filled nothing has been stored and time stands still.
NotStarted == ~filled => mtime = Zero /\ mtimecmp = Zero /\ wb = Nop

\* In a rise, the comparator in use is never below both the value the rise
\* started from and the value the program has stored so far.
RaiseInv ==
  raise.phase > 0 =>
    /\ filled /\ wb.addr \notin {"MTIME", "MTIMEH"}
    /\ Geq(mtimecmp, raise.from) \/ Geq(mtimecmp, cmp)
    /\ raise.phase = 1 => cmp = [hi |-> raise.from.hi, lo |-> Half - 1]
    /\ raise.phase = 2 => cmp.lo = Half - 1

TopInv == /\ TypeOK /\ BusTypes /\ CmpAhead /\ NotStarted /\ RaiseInv
          /\ RequestsFollowProgram /\ RaisedQuietly

-----------------------------------------------------------------------------
(* One edge. *)

Op == {Nop} \cup Loads \cup Stores

\* Whatever is accessed, the data lines carry a word.
LEMMA StoreData == ASSUME NEW op \in Op PROVE op.data \in HalfWord
<1>1. {0, 1, MsipBit, MsipBit + 1} \subseteq HalfWord
  BY ClintAssumption DEF HalfWord
<1>2. CASE op \in {Nop} \cup Loads
  BY <1>1, <1>2 DEF Nop, Loads
<1>3. CASE op \in Stores
  BY <1>1, <1>3, TopAssumption DEF Stores
<1> QED
  BY <1>2, <1>3 DEF Op

LEMMA BusWrites ==
  ASSUME BusTypes, NEW op \in Op
  PROVE  ClintWrite \in Writes /\ ClintRead(op) \in ReadAddr
<1>1. wb \in Op
  BY DEF BusTypes, Op
<1>2. wb.data \in HalfWord
  BY <1>1, StoreData
<1> QED
  BY <1>2 DEF ClintWrite, ClintRead, Writes, ReadAddr, ClintAddr, CounterAddr

\* What the edge does to the comparator, the timer and the request.
LEMMA EdgeClint ==
  ASSUME TypeOK, BusTypes, CmpAhead, NEW op \in Op, Cycle(op)
  PROVE  /\ TypeOK'
         /\ mtimecmp' = cmp
         /\ timer_irq' = Geq(mtime_nxt, mtimecmp)
         /\ wb.addr \notin {"MTIME", "MTIMEH"} /\ filled => mtime' = mtime_nxt
         /\ wb.addr \notin {"MTIME", "MTIMEH"} /\ ~filled => mtime' = mtime
<1>1. ClintWrite \in Writes /\ ClintRead(op) \in ReadAddr
  BY BusWrites
<1>2. Clk(filled, ClintWrite, ClintRead(op)) /\ filled \in BOOLEAN
  BY DEF Cycle, BusTypes
<1>3. TypeOK'
  BY <1>1, <1>2, ClkType
<1>4. mtimecmp' = cmp
  BY <1>2 DEF Clk, MtimecmpClk, CmpAhead, Settled, ClintWrite, ClintAddr, CounterAddr
<1>5. timer_irq' = Geq(mtime_nxt, mtimecmp)
  BY <1>2 DEF Clk, TimerIrqClk
<1>6. wb.addr \notin {"MTIME", "MTIMEH"} => mtime' = IF filled THEN mtime_nxt ELSE mtime
  BY <1>2 DEF Clk, MtimeClk, ClintWrite
<1> QED
  BY <1>3, <1>4, <1>5, <1>6

LEMMA EdgeTypes ==
  ASSUME BusTypes, NEW op \in Op, Cycle(op) PROVE BusTypes'
<1>1. wb' \in {Nop} \cup Stores
  BY DEF Cycle, Op, Loads, Stores, Nop
<1>2. filled' \in BOOLEAN
  BY DEF Cycle, BusTypes
<1>3. quiet' \in 0 .. 2
  BY DEF Cycle, GhostClk, BusTypes
<1>4. cmp' \in Counter
  BY StoreData DEF Cycle, GhostClk, BusTypes, Counter
<1>5. raise' \in [phase : 0 .. 3, from : Counter]
  <2>1. Zero \in Counter
    BY ClintAssumption DEF Counter, HalfWord, Zero
  <2> QED
    BY <2>1 DEF Cycle, GhostClk, RaiseNext, BusTypes, Resting
<1> QED
  BY <1>1, <1>2, <1>3, <1>4, <1>5 DEF BusTypes

\* The store that enters stage 3 is the one that the program's view has taken in.
LEMMA EdgeCmp ==
  ASSUME TypeOK, BusTypes, CmpAhead, NEW op \in Op, Cycle(op) PROVE CmpAhead'
<1>1. mtimecmp' = cmp
  BY EdgeClint
<1>2. wb' = IF op.op = "store" THEN op ELSE Nop
  BY DEF Cycle
<1>3. cmp' = Settled'
  <2>1. CASE op.op = "store"
    BY <1>1, <1>2, <2>1 DEF Cycle, GhostClk, Settled
  <2>2. CASE op.op # "store"
    BY <1>1, <1>2, <2>2 DEF Cycle, GhostClk, Settled, Nop
  <2> QED
    BY <2>1, <2>2
<1>4. wb'.addr \in TimerAddr => quiet' = 0
  BY <1>2 DEF Cycle, GhostClk, Nop, TimerAddr, CounterAddr
<1> QED
  BY <1>3, <1>4 DEF CmpAhead

LEMMA EdgeNotStarted ==
  ASSUME TypeOK, BusTypes, CmpAhead, NotStarted, NEW op \in Op, Cycle(op) PROVE NotStarted'
<1> SUFFICES ASSUME ~filled' PROVE mtime' = Zero /\ mtimecmp' = Zero /\ wb' = Nop
  BY DEF NotStarted
<1>1. ~filled /\ op = Nop
  BY DEF Cycle, BusTypes
<1>2. mtime = Zero /\ mtimecmp = Zero /\ wb = Nop
  BY <1>1 DEF NotStarted
<1>3. cmp = Zero
  BY <1>2 DEF CmpAhead, Settled, Nop
<1>4. mtime' = Zero /\ mtimecmp' = Zero
  BY <1>1, <1>2, <1>3, EdgeClint DEF Nop
<1> QED
  BY <1>1, <1>4 DEF Cycle, Nop

\* Once two cycles have gone by without a store to the timer, the request was
\* made from the comparator that the program sees.
LEMMA EdgeRequest ==
  ASSUME TopInv, NEW op \in Op, Cycle(op) PROVE RequestsFollowProgram'
<1> USE DEF TopInv
<1> SUFFICES ASSUME quiet' = 2, filled' PROVE timer_irq' <=> Geq(mtime', cmp')
  BY DEF RequestsFollowProgram
<1>1. ~(op.op = "store" /\ op.addr \in TimerAddr) /\ quiet # 0
  BY DEF Cycle, GhostClk, BusTypes
<1>2. wb.addr \notin TimerAddr
  BY <1>1 DEF CmpAhead
<1>3. cmp' = cmp /\ cmp = mtimecmp
  BY <1>1, <1>2 DEF Cycle, GhostClk, CmpAhead, Settled, TimerAddr, CounterAddr
<1>4. CASE filled
  BY <1>2, <1>3, <1>4, EdgeClint DEF TimerAddr, CounterAddr
<1>5. CASE ~filled
  <2>1. mtime = Zero /\ mtimecmp = Zero
    BY <1>5 DEF NotStarted
  <2>2. mtime' = Zero
    BY <1>2, <1>5, <2>1, EdgeClint DEF TimerAddr, CounterAddr
  <2>3. timer_irq' = Geq(mtime_nxt, Zero)
    BY <2>1, EdgeClint
  <2>4. Geq(mtime_nxt, Zero)
    BY <2>1, ClintAssumption DEF Geq, mtime_nxt, Inc, Zero
  <2>5. Geq(Zero, Zero)
    BY DEF Geq, Zero
  <2> QED
    BY <1>3, <2>1, <2>2, <2>3, <2>4, <2>5
<1> QED
  BY <1>4, <1>5

\* A step of a rise: it goes on, starts, or has been left.
LEMMA RaiseCases ==
  ASSUME BusTypes, NEW op \in Op, Cycle(op), raise'.phase > 0
  PROVE  \/ /\ ~(op.op = "store" /\ op.addr \in TimerAddr)
            /\ raise' = raise /\ cmp' = cmp
         \/ /\ op.op = "store" /\ op.addr = "MTIMECMP" /\ raise.phase = 2
            /\ raise' = [phase |-> 3, from |-> raise.from]
            /\ cmp' = [hi |-> cmp.hi, lo |-> op.data]
         \/ /\ op.op = "store" /\ op.addr = "MTIMECMPH" /\ raise.phase = 1
            /\ raise' = [phase |-> 2, from |-> raise.from]
            /\ cmp' = [hi |-> op.data, lo |-> cmp.lo]
         \/ /\ op.op = "store" /\ op.addr = "MTIMECMP" /\ quiet = 2
            /\ raise' = [phase |-> 1, from |-> cmp]
            /\ cmp' = [hi |-> cmp.hi, lo |-> Half - 1]
<1>1. raise \in [phase : 0 .. 3, from : Counter] /\ cmp \in Counter
  BY DEF BusTypes
<1>2. raise' = RaiseNext(op)
  BY DEF Cycle, GhostClk
<1>3. cmp' = CASE op.op = "store" /\ op.addr = "MTIMECMP"  -> [cmp EXCEPT !.lo = op.data]
               [] op.op = "store" /\ op.addr = "MTIMECMPH" -> [cmp EXCEPT !.hi = op.data]
               [] OTHER -> cmp
  BY DEF Cycle, GhostClk
<1>4. CASE op.op # "store" \/ op.addr \notin TimerAddr
  BY <1>2, <1>3, <1>4 DEF RaiseNext, TimerAddr, CounterAddr
<1>5. CASE op.op = "store" /\ op.addr = "MTIMECMP"
  <2>1. cmp' = [hi |-> cmp.hi, lo |-> op.data]
    BY <1>1, <1>3, <1>5 DEF Counter
  <2>2. CASE raise.phase = 2
    BY <1>1, <1>2, <1>5, <2>1, <2>2 DEF RaiseNext, TimerAddr, CounterAddr
  <2>3. CASE raise.phase \in {0, 3} /\ op.data = Half - 1 /\ quiet = 2
    BY <1>1, <1>2, <1>5, <2>1, <2>3 DEF RaiseNext, TimerAddr, CounterAddr
  <2>4. CASE raise.phase # 2 /\ ~(raise.phase \in {0, 3} /\ op.data = Half - 1 /\ quiet = 2)
    BY <1>1, <1>2, <1>5, <2>4 DEF RaiseNext, TimerAddr, CounterAddr, Resting
  <2> QED
    BY <2>2, <2>3, <2>4
<1>6. CASE op.op = "store" /\ op.addr = "MTIMECMPH"
  <2>1. cmp' = [hi |-> op.data, lo |-> cmp.lo]
    BY <1>1, <1>3, <1>6 DEF Counter
  <2> QED
    BY <1>1, <1>2, <1>6, <2>1 DEF RaiseNext, TimerAddr, CounterAddr, Resting
<1>7. CASE op.op = "store" /\ op.addr \in {"MTIME", "MTIMEH"}
  BY <1>2, <1>7 DEF RaiseNext, TimerAddr, CounterAddr, Resting
<1> QED
  BY <1>4, <1>5, <1>6, <1>7 DEF TimerAddr, CounterAddr

\* The comparator that the request of this edge was made from, and the one that
\* replaces it, are each above the old value or the program's new one.
LEMMA EdgeRaise ==
  ASSUME TopInv, NEW op \in Op, Cycle(op), raise'.phase > 0
  PROVE  /\ RaiseInv'
         /\ filled /\ wb.addr \notin {"MTIME", "MTIMEH"}
         /\ Geq(mtimecmp, raise'.from) \/ Geq(mtimecmp, cmp')
<1> USE DEF TopInv
<1>1. mtimecmp' = cmp
  BY EdgeClint
<1>2. wb' = IF op.op = "store" THEN op ELSE Nop
  BY DEF Cycle
<1>3. filled => filled'
  BY DEF Cycle
<1>4. op.op = "store" => filled /\ filled'
  <2>1. op.op = "store" => op # Nop
    BY DEF Nop
  <2> QED
    BY <1>3, <2>1 DEF Cycle
<1>5. cmp \in Counter /\ cmp' \in Counter /\ mtimecmp \in Counter /\ raise.from \in Counter
  BY EdgeTypes DEF BusTypes, TypeOK
<1>6. CASE /\ ~(op.op = "store" /\ op.addr \in TimerAddr)
           /\ raise' = raise /\ cmp' = cmp
  <2>1. wb'.addr \notin {"MTIME", "MTIMEH"}
    BY <1>2, <1>6 DEF Nop, TimerAddr, CounterAddr
  <2>2. Geq(mtimecmp', cmp')
    BY <1>1, <1>5, <1>6, ClintAssumption DEF Geq, Counter, HalfWord
  <2> QED
    BY <1>3, <1>6, <2>1, <2>2 DEF RaiseInv
<1>7. CASE /\ op.op = "store" /\ op.addr = "MTIMECMP" /\ raise.phase = 2
           /\ raise' = [phase |-> 3, from |-> raise.from]
           /\ cmp' = [hi |-> cmp.hi, lo |-> op.data]
  <2>1. Geq(cmp, cmp')
    BY <1>5, <1>7, ClintAssumption DEF RaiseInv, Geq, Counter, HalfWord
  <2>2. Geq(mtimecmp, raise.from) \/ Geq(mtimecmp, cmp')
    BY <1>5, <1>7, <2>1, GeqTransitive DEF RaiseInv
  <2> QED
    BY <1>1, <1>2, <1>4, <1>7, <2>1, <2>2 DEF RaiseInv
<1>8. CASE /\ op.op = "store" /\ op.addr = "MTIMECMPH" /\ raise.phase = 1
           /\ raise' = [phase |-> 2, from |-> raise.from]
           /\ cmp' = [hi |-> op.data, lo |-> cmp.lo]
  <2>1. Geq(cmp, raise.from) /\ cmp.lo = Half - 1
    BY <1>5, <1>8, ClintAssumption DEF RaiseInv, Geq, Counter, HalfWord
  <2>2. Geq(mtimecmp, raise.from)
    BY <1>5, <1>8, <2>1, GeqTransitive DEF RaiseInv
  <2> QED
    BY <1>1, <1>2, <1>4, <1>8, <2>1, <2>2 DEF RaiseInv
<1>9. CASE /\ op.op = "store" /\ op.addr = "MTIMECMP" /\ quiet = 2
           /\ raise' = [phase |-> 1, from |-> cmp]
           /\ cmp' = [hi |-> cmp.hi, lo |-> Half - 1]
  <2>1. wb.addr \notin TimerAddr /\ mtimecmp = cmp
    BY <1>9 DEF CmpAhead, Settled, TimerAddr, CounterAddr
  <2>2. Geq(cmp, cmp)
    BY <1>5, ClintAssumption DEF Geq, Counter, HalfWord
  <2> QED
    BY <1>1, <1>2, <1>4, <1>9, <2>1, <2>2 DEF RaiseInv, TimerAddr, CounterAddr
<1> QED
  BY <1>6, <1>7, <1>8, <1>9, RaiseCases

LEMMA EdgeQuietly ==
  ASSUME TopInv, NEW op \in Op, Cycle(op) PROVE RaiseInv' /\ RaisedQuietly'
<1> USE DEF TopInv
<1>1. CASE ~(raise'.phase > 0)
  BY <1>1 DEF RaiseInv, RaisedQuietly
<1>2. CASE raise'.phase > 0
  <2>1. mtime' = mtime_nxt /\ timer_irq' = Geq(mtime_nxt, mtimecmp)
    BY <1>2, EdgeRaise, EdgeClint
  <2>2. mtime' \in Counter /\ mtimecmp \in Counter /\ cmp' \in Counter /\ raise'.from \in Counter
    BY EdgeClint, EdgeTypes DEF TypeOK, BusTypes
  <2>3. ASSUME timer_irq' PROVE Geq(mtime', raise'.from) \/ Geq(mtime', cmp')
    BY <1>2, <2>1, <2>2, <2>3, EdgeRaise, GeqTransitive
  <2> QED
    BY <1>2, <2>3, EdgeRaise DEF RaisedQuietly
<1> QED
  BY <1>1, <1>2

LEMMA TopInvariant == TopSpec => []TopInv
<1>1. TopInit => TopInv
  <2> SUFFICES ASSUME TopInit PROVE TopInv
    OBVIOUS
  <2>1. /\ Zero \in Counter /\ [hi |-> 0, lo |-> 2] \in Counter /\ [hi |-> 1, lo |-> 1] \in Counter
        /\ 0 \in HalfWord
    BY ClintAssumption DEF Counter, HalfWord, Zero
  <2>2. TypeOK
    BY <2>1 DEF TopInit, Running, Init, TypeOK
  <2>3. BusTypes
    <3>1. wb \in {Nop} \cup Stores /\ filled \in BOOLEAN
      BY DEF TopInit
    <3>2. quiet \in 0 .. 2
      BY DEF TopInit
    <3>3. cmp \in Counter
      BY <2>2 DEF TopInit, TypeOK
    <3>4. raise \in [phase : 0 .. 3, from : Counter]
      BY <2>1 DEF TopInit, Resting
    <3> QED
      BY <3>1, <3>2, <3>3, <3>4 DEF BusTypes
  <2>4. CmpAhead
    BY DEF TopInit, CmpAhead, Settled, Nop, TimerAddr, CounterAddr
  <2>5. NotStarted
    BY DEF TopInit, NotStarted, Init
  <2>6. RaiseInv /\ RaisedQuietly
    BY DEF TopInit, RaiseInv, RaisedQuietly, Resting
  <2>7. RequestsFollowProgram
    BY DEF TopInit, Running, RequestsFollowProgram, Geq
  <2> QED
    BY <2>2, <2>3, <2>4, <2>5, <2>6, <2>7 DEF TopInv
<1>2. TopInv /\ [TopNext]_topVars => TopInv'
  <2> SUFFICES ASSUME TopInv, [TopNext]_topVars PROVE TopInv'
    OBVIOUS
  <2>1. ASSUME NEW op \in Op, Cycle(op) PROVE TopInv'
    BY <2>1, EdgeClint, EdgeTypes, EdgeCmp, EdgeNotStarted, EdgeRequest, EdgeQuietly DEF TopInv
  <2>2. CASE UNCHANGED topVars
    BY <2>2 DEF topVars, clintVars, TopInv, TypeOK, BusTypes, CmpAhead, Settled, NotStarted,
                RaiseInv, RequestsFollowProgram, RaisedQuietly
  <2> QED
    BY <2>1, <2>2 DEF TopNext, Op
<1> QED
  BY <1>1, <1>2, PTL DEF TopSpec

-----------------------------------------------------------------------------
(* What a load gets. *)

\* One edge with a load in stage 2: the selects that it sets up point the data of
\* the next cycle at the device it asked.
LEMMA EdgeLoad == ASSUME NEW op \in Op, Cycle(op) PROVE LoadsInOrder'
<1>1. CASE op.op # "load"
  BY <1>1 DEF Cycle, GhostClk, LoadsInOrder, NoLoad
<1>2. CASE op.op = "load"
  <2>1. load' = [addr |-> op.addr, want |-> Want(op.addr), before |-> Before(op.addr)]
    BY <1>2 DEF Cycle, GhostClk
  <2>2. data_sel' = (op.addr \in ClintAddr) /\ rready' = (op.addr = "FROMHOST")
        /\ result' = HostResult
    BY <1>2 DEF Cycle, DataSelClk, HostClk
  <2>3. CASE op.addr \in ClintAddr
    <3>1. rdata' = Before(op.addr)
      BY <1>2, <2>3, ClintAssumption
      DEF Cycle, Clk, ReadClk, ClintRead, Before, Msip, ClintAddr, CounterAddr
    <3> QED
      BY <2>1, <2>2, <2>3, <3>1 DEF LoadsInOrder, drdata
  <2>4. CASE op.addr = "FROMHOST"
    <3>1. Want(op.addr) = HostResult
      BY <2>4 DEF Want, ClintAddr, CounterAddr
    <3> QED
      BY <2>1, <2>2, <2>4, <3>1 DEF LoadsInOrder, drdata, dmem_rdata, ClintAddr, CounterAddr
  <2>5. CASE op.addr \notin ClintAddr \cup {"FROMHOST"}
    <3>1. \A a : ByteAddr(a) \in {0, 4} /\ Ram!Adr(ByteAddr(a)) = ByteAddr(a) \div 4
      BY DEF ByteAddr, Ram!Adr
    <3>2. dmem_rdata0' = IF dmem_wready /\ ByteAddr(op.addr) = ByteAddr(wb.addr)
                         THEN wb.data ELSE dmem[ByteAddr(op.addr) \div 4]
      BY <1>2, <2>5, <3>1 DEF Cycle, Ram!Clk, Ram!ReadClk, dmem_rready, WholeWord
    <3>3. Want(op.addr) = dmem_rdata0'
      BY <2>5, <3>2 DEF Want, Before, ClintAddr, CounterAddr
    <3> QED
      BY <2>1, <2>2, <2>5, <3>3 DEF LoadsInOrder, drdata, dmem_rdata
  <2> QED
    BY <2>3, <2>4, <2>5
<1> QED
  BY <1>1, <1>2

-----------------------------------------------------------------------------
(* The types of the whole system. *)

\* The words a load can be given are words.
LEMMA LoadWords ==
  ASSUME TypeOK, BusTypes, DataTypes, NEW a \in Addr
  PROVE  Before(a) \in HalfWord /\ HostResult \in HalfWord /\ Want(a) \in HalfWord
<1>1. \A b \in {0, 1} : b + MsipBit \in HalfWord /\ b \in HalfWord
  BY ClintAssumption DEF HalfWord
<1>2. Msip \in HalfWord
  BY <1>1, ClintAssumption DEF Msip
<1>3. \A x : ByteAddr(x) \div 4 \in 0 .. 1
  BY DEF ByteAddr
<1>4. /\ mtime.lo \in HalfWord /\ mtime.hi \in HalfWord
      /\ mtimecmp.lo \in HalfWord /\ mtimecmp.hi \in HalfWord
  BY DEF TypeOK, Counter
<1>5. Before(a) \in HalfWord
  BY <1>2, <1>3, <1>4 DEF Before, DataTypes
<1>6. HostResult \in HalfWord
  BY <1>1, ClintAssumption DEF HostResult, DataTypes, HalfWord
<1>7. wb.data \in HalfWord
  BY StoreData DEF BusTypes, Op
<1>8. MsipBits(wb.data) \in HalfWord
  <2> DEFINE b == (wb.data \div MsipBit) % 2
             c == wb.data % 2
  <2>1. wb.data \div MsipBit \in Int
    BY <1>7, ClintAssumption DEF HalfWord
  <2>2. b \in {0, 1} /\ c \in {0, 1}
    BY <1>7, <2>1 DEF HalfWord
  <2>3. MsipBits(wb.data) = c + MsipBit * b
    BY DEF MsipBits
  <2>4. MsipBit * 0 = 0 /\ MsipBit * 1 = MsipBit
    BY ClintAssumption
  <2> HIDE DEF b, c
  <2> QED
    BY <1>1, <2>2, <2>3, <2>4, ClintAssumption DEF HalfWord
<1> QED
  BY <1>5, <1>6, <1>7, <1>8 DEF Want

\* The address lines of a load, a store or nothing.
LEMMA OpAddr == ASSUME NEW op \in Op PROVE op.op = "load" => op.addr \in Addr
BY DEF Op, Nop, Loads, Stores

LEMMA EdgeData ==
  ASSUME TypeOK, BusTypes, DataTypes, NEW op \in Op, Cycle(op) PROVE DataTypes'
<1>1. wb.data \in HalfWord
  BY StoreData DEF BusTypes, Op
<1>2. \A x : ByteAddr(x) \in {0, 4} /\ Ram!Adr(ByteAddr(x)) \in 0 .. 1
  BY DEF ByteAddr, Ram!Adr
<1>3. dmem' \in [0 .. 1 -> HalfWord]
  BY <1>1, <1>2 DEF Cycle, Ram!Clk, Ram!WriteClk, WholeWord, DataTypes
<1>4. dmem_rdata0' \in HalfWord
  BY <1>1, <1>2 DEF Cycle, Ram!Clk, Ram!ReadClk, WholeWord, DataTypes
<1>5. result' \in HalfWord
  <2>1. "RAM0" \in Addr
    BY DEF Addr, RamAddr
  <2> QED
    BY <2>1, LoadWords DEF Cycle, HostClk
<1>6. data_sel' \in BOOLEAN /\ rready' \in BOOLEAN /\ halted' \in BOOLEAN
  BY DEF Cycle, DataSelClk, HostClk, HostFinish
<1>7. load' \in [addr : Addr \cup {"none"}, want : HalfWord, before : HalfWord]
  <2>1. 0 \in HalfWord
    BY ClintAssumption DEF HalfWord
  <2> QED
    BY <2>1, OpAddr, LoadWords DEF Cycle, GhostClk, NoLoad
<1>8. ops' \in 0 .. MaxOps
  BY TopAssumption DEF Cycle, GhostClk, DataTypes
<1> QED
  BY <1>3, <1>4, <1>5, <1>6, <1>7, <1>8 DEF DataTypes

\* The interruptor, the RAM, the host's registers and the read selects of top.v and
\* testbench.v keep their types under every stream of loads and stores.
THEOREM TopTypeCorrect == TopSpec => []TopTypeOK
<1>1. TopInit => DataTypes
  <2>1. 0 \in HalfWord /\ Half - 1 \in HalfWord
    BY ClintAssumption DEF HalfWord
  <2> SUFFICES ASSUME TopInit PROVE DataTypes
    OBVIOUS
  <2>2. dmem \in [0 .. 1 -> HalfWord] /\ dmem_rdata0 \in HalfWord /\ result \in HalfWord
    BY <2>1 DEF TopInit
  <2>3. data_sel \in BOOLEAN /\ rready \in BOOLEAN /\ halted \in BOOLEAN
    BY DEF TopInit
  <2>4. load \in [addr : Addr \cup {"none"}, want : HalfWord, before : HalfWord]
    BY <2>1 DEF TopInit, NoLoad
  <2>5. ops \in 0 .. MaxOps
    BY TopAssumption DEF TopInit
  <2> QED
    BY <2>2, <2>3, <2>4, <2>5 DEF DataTypes
<1>2. TopInv /\ DataTypes /\ [TopNext]_topVars => DataTypes'
  <2> SUFFICES ASSUME TopInv, DataTypes, [TopNext]_topVars PROVE DataTypes'
    OBVIOUS
  <2>1. ASSUME NEW op \in Op, Cycle(op) PROVE DataTypes'
    BY <2>1, EdgeData DEF TopInv
  <2>2. CASE UNCHANGED topVars
    BY <2>2 DEF topVars, DataTypes
  <2> QED
    BY <2>1, <2>2 DEF TopNext, Op
<1>3. TopInv /\ DataTypes => TopTypeOK
  BY DEF TopInv, BusTypes, DataTypes, TopTypeOK
<1> QED
  BY <1>1, <1>2, <1>3, TopInvariant, PTL DEF TopSpec

\* A load takes the data of the device it asked, as the store directly ahead of
\* it left it (or, in the interruptor, as it was before that store): the selects
\* of top.v and testbench.v always belong to the load in stage 3.
THEOREM LoadsInOrderCorrect == TopSpec => []LoadsInOrder
<1>1. TopInit => LoadsInOrder
  BY DEF TopInit, LoadsInOrder, NoLoad
<1>2. LoadsInOrder /\ [TopNext]_topVars => LoadsInOrder'
  <2> SUFFICES ASSUME LoadsInOrder, [TopNext]_topVars PROVE LoadsInOrder'
    OBVIOUS
  <2>1. CASE TopNext
    BY <2>1, EdgeLoad DEF TopNext, Op
  <2>2. CASE UNCHANGED topVars
    BY <2>2 DEF topVars, clintVars, LoadsInOrder, drdata, dmem_rdata
  <2> QED
    BY <2>1, <2>2
<1> QED
  BY <1>1, <1>2, PTL DEF TopSpec

\* The request the core samples is that of the program's mtimecmp as soon as two
\* cycles have passed since the last store to the timer, also when mtime wraps.
THEOREM RequestsCorrect == TopSpec => []RequestsFollowProgram
<1>1. TopInv => RequestsFollowProgram
  BY DEF TopInv
<1> QED
  BY <1>1, TopInvariant, PTL

\* The three-store rise of mtimecmp raises no request that neither the old nor
\* the new value justifies.
THEOREM RaiseCorrect == TopSpec => []RaisedQuietly
<1>1. TopInv => RaisedQuietly
  BY DEF TopInv
<1> QED
  BY <1>1, TopInvariant, PTL
=============================================================================
