# A TLA+ verification project for srv32

srv32 is a three-stage RV32IM processor in Verilog (`src/rtl`), the simulation
harness that gives it memories (`src/testbench`, `src/sim`), and an instruction
set simulator in C (`src/tools/rvsim.c`, "the ISS") with a debugger, a gdb stub
and a breakpoint map. The repository's own notion of correctness is that the
trace of the RTL equals the trace of the ISS.

## Inventory

| part | source | state | operations | what makes it correct |
|------|--------|-------|------------|-----------------------|
| processor core | `rtl/riscv.v` | pipeline registers, register file, trap CSRs | one clock edge | a pipeline that looks like one instruction at a time: forwarding, squashed slots, precise traps, interrupts between instructions |
| interruptor | `rtl/clint.v` | mtime, mtimecmp, msip, registered requests | one clock edge with a bus write and a bus read | requests follow the registers; halves of a 64-bit register are written separately |
| top level | `rtl/top.v` | registered read select | address decoding | a load returns the data of the device it addressed |
| memory model | `testbench/memmodel.v` | RAM, read register | synchronous read and strobed write | a load sees the store that is one cycle ahead of it |
| instruction set simulator | `tools/rvsim.c` | registers, CSRs, interrupt latches, memory | `srv32_step`, `srv32_trap`, `srv32_int`, `memrw`, `csr_rw` | the same architecture as the core |
| compressed decoder | `tools/decompress.c` | none | expansion of a halfword | the instruction the disassembler prints for it |
| breakpoint map | `tools/map.c` | a pointer tree | insert, find, delete | the dictionary it stands for |
| gdb stub | `tools/gdbstub.c` | breakpoints, halt and interrupt flags | cont, stepi, set/del breakpoint, interrupt from another thread | a stop request ends the cont it finds, and no second one |
| disassembler | `tools/riscv-disas.c` | none | text of an instruction | the text names the instruction that runs |
| debugger | `tools/debug.c` | step budget, until pc | run, step, until, dump | stops where it was asked to |
| host interface, syscalls | `tools/htif.c`, `tools/syscall.c` | to/from-host words | syscall dispatch | exit codes and results reach the program |
| ELF loader | `tools/elfloader.c`, `sim/elfloader.c` | memory image | load | the image the file describes |

### How the parts interact

The core is a bus master: every cycle it drives a fetch address, perhaps a load
address from stage 2 and perhaps a store from stage 3, and takes what the
memories answer one cycle later. `top.v` sends an access to the CLINT or to
memory by its address. The CLINT drives the timer, software and external request
lines back into the core. `testbench.v` owns reset, the boot-time stall, the
memories and the registers through which a program talks to the host.

The simulator has no cycles: `main` calls `srv32_step` in a loop, each call runs
one instruction against the C structure `struct rv`. Interrupts found by one call
are kept in static locals and taken by the next one. `ecall` and the `tohost`
register call the host. The gdb stub drives the same `srv32_step` from its own
loop, looks each pc up in the breakpoint map, and is told to stop by another
thread through a flag.

### What is hard

- Three instructions are in the core at once. Forwarding, squashing behind a
  redirect, the write that must be withheld because the instruction faulted one
  cycle ago, and the pc that a trap saves are each a matter of one cycle.
- Interrupts arrive in any cycle: of a taken branch, of a squashed slot, of a
  faulting instruction, of an `mret`.
- The simulator decides about an interrupt one call before it takes it.
- 64-bit registers are written in halves, compared signed in one place and
  unsigned in the other, and wrap.
- The breakpoint map is a pointer structure whose later operations rely on parent
  pointers that earlier ones maintained.
- A load asks in one cycle and takes its data in the next; which device answers is
  remembered in two flags, one in `top.v` and one in `testbench.v`.
- The stub's thread sets the interrupt flag while the loop of `cont` tests, ends on
  a breakpoint, or clears it.
- An instruction is decoded in four places (core, simulator, expander,
  disassembler), each with its own order of immediate bits.

`PROJECT.json` lists each of these at its line, under "hazards".

## Modules

| module | what it is |
|--------|------------|
| `Srv32` | the vocabulary of `opcode.vh`: words of four bytes, decoded instructions, causes, CSRs, and the word functions core and simulator share |
| `AluOps` | what the ALU, multiplier and divider of `riscv.v` compute |
| `Riscv` | the registers of `riscv.v`; operators named after its wires, one operator per clocked block, `Clk` for the edge |
| `Mem2ports` | the RAM of `memmodel.v` |
| `Testbench` | the core with instruction and data RAM, the boot-time stall and request lines; the properties of the pipeline |
| `Isa` | the abstract machine: one instruction at a time, precise traps, interrupts between instructions |
| `Rvsim` | the instruction set simulator; operators named after its C functions, on the record `rv` |
| `Clint` | the core-local interruptor: one clock edge with any bus write and read |
| `Top` | `top.v`: the interruptor, the RAM and the harness's host registers behind one bus, driven by the loads and stores of a program |
| `Encoding` | the fields of an instruction word (`opcode.h`), and the decoders of `rvsim.c` and `riscv.v` |
| `Decompress` | `compressed_decoder`: what a halfword expands to |
| `Disas` | the disassembler: opcode, operands, decompression, pseudo-instructions, shown operands |
| `IssAlu`, `BitManip` | the C expressions of `rvsim.c`: base set and RV32M, and RV32B |
| `InsnCheck` | the four decoders on the same words, and the two arithmetics on the same operands |
| `Loader` | the ELF loaders of the simulator and of the Verilator harness |
| `Session` | a run of `rvsim` from its file to its exit: `main`, `debug()` and the gdb stub with its two threads |
| `Breakpoints`, `BpMap` | a set of addresses, and the red-black tree of `map.c` that stands for it |
| `Asm`, `MCTestbench`, `MCRvsim` | a small assembler, and the instances for TLC |
| `Srv32Proofs`, `TestbenchProofs` | theorems about the vocabulary and about the pipeline |
| `IsaProofs` | the pipeline implements `Isa` |
| `TopProofs` | theorems about the interruptor, and about the system behind the bus |
| `RvsimProofs` | the state of the simulator keeps its shape; it implements `Isa` |
| `InsnProofs` | the two decoders on every word, the two arithmetics at every width |
| `SessionProofs` | theorems about a session and the loaders |
| `BpMapProofs` | the map is a red-black tree while it grows, and always the set of breakpoints |

### Correspondence with the code

**`Riscv` and `Testbench`.** Each register of `riscv.v` is a variable or a field of
one (`wb` and `wb_store` group the results of stage 3), with its name. Each wire
is an operator of the same name. The decoded control bits of stage 2 are a
function of the latched instruction, so the model keeps the instruction
(`ex_insn`) and not the bits, except `ex_mem2reg`, which the code registers under
a different condition. `Clk` is the conjunction of the clocked blocks: `FetchClk`,
`FetchPcClk`, `SquashClk`, `ResultClk`, `StoreClk`, `CsrClk`, `RegfileClk`,
`CountClk`. `Cycle(irq)` adds the two RAMs and the harness. The memories of the
simulation always accept and answer, so the three stall signals of the core all
equal `stall_r`, which is up only during boot.

**`Isa`.** The state is pc, registers, memory, CSRs, the retired count and whether
the simulation has ended. A step executes the instruction at pc: it retires, with
or without an interrupt at its end, or raises its exception. Two programs of the
repository implement it:

- the pipeline, with `ArchPc` (the pc of the oldest instruction that is neither
  finished nor squashed), `ArchRegs` and `ArchMem` (as they are once the
  instruction in stage 3 has finished) for pc, registers and memory;
- the simulator, with `Settled` (the state once a latched interrupt, or the trap
  of a misaligned jump, has been taken) for its pc and CSRs.

Where the two are known to differ (below) the step of `Isa` allows both, and only
that: for example `mtval` after an illegal system call may be either value.

**`Rvsim`.** `Step` is one call of `srv32_step`, in its order: the latched
interrupts, the range and alignment checks, the new latches, the counters, the
switch on the opcode. `memrw` is `LoadAnswers` and `StoreAnswers` (a set, because
the host and the bounds check of an address that overflows can each do several
things), and `Answered` is the switch on its return value, with the numbers of
the code: `RV_EXIT` and `TRAP_INST_ILL` are both 2.

**`Top`.** The core is reduced to its bus: each cycle an instruction in stage 2 is
no access, a load that drives `dmem_raddr`, or a store that reaches the bus one
cycle later (`wb`). `Cycle` is one edge of everything behind it: `Clint!Clk`,
the RAM of `Mem2ports`, `data_sel`, and the blocks of `testbench.v` that keep
`result` and `rready` and call `$finish`. Initially the system is in reset, or has
run for some cycles with a deadline ahead. Ghost variables keep what program order
says a load should get (`load`), how long ago the program last wrote the timer
(`quiet`), and how far a rise of `mtimecmp` has come (`raise`).

**`Encoding`, `Decompress`, `Disas`.** A word is a pair of halves, because TLC's
integers have 32 bits. The union `INST` becomes one operator per field, each
switch becomes a function from its selector; the names are those of the code. The
text of an instruction is modelled by its mnemonic and by which operands are shown
(`Shown`), which is what a reader could assemble again. `BitManip` has sets of bit
positions for words, so that the shifts and loops of the C code can be written
down as they are at the full 32 bits; a rotation by zero, which shifts by 32, has
the outcomes of common processors.

**`Loader` and `Session`.** A file is its kind and its program headers; a byte of
memory is its offset in the file. `at` is the position of the process: in `main`,
at the prompt, in `srv_cont` (one value per shared access: the test of the flag,
the search in the map, the step, the store that clears the flag). `srv32_step` is
what its callers see of it: the pc moves, or it answers `RV_EXIT`, or the process
ends. Where its instruction runs is not always where they saw the pc: a latched
interrupt (`latched`), and the trap of a pc that is misaligned or out of range
(`Bad`), move it to a handler inside the call, before the fetch (`Redirected`,
`RunsAt`). The ghost `hist.ran` has the addresses at which an instruction ran and
a debugger had seen it would, not the entries of handlers it did not see. The code
of the program's exit call is not in the model: `prog_exit` does not take it. The
library `mini-gdbstub` is an empty submodule and external: one thread
calls the operations, another one reports the client's interrupt while `cont` runs
and may be late.

**`BpMap`.** The heap of nodes with `data`, `left`, `right`, `parent` and `color`; a
node is a number, `NULL` is 0. `insertNode`, `fixViolation`, the rotations and
`deleteNodeBST` are translated assignment by assignment. A call that follows `NULL`
or the address of a freed node, writes to a node it has freed on its way back up, or
never ends, leaves the tree `Undef`. What is a loop or a recursion in the code is a
function of the number of its steps: the way from a node to an address (`Way`, used
by `findNode`, `insertBST` and `deleteNodeBST`, which go the same way), the rounds of
`fixViolation` (`Rounds`), the descent of `minValueNode`, and the calls in which
`deleteNodeBST` goes on with the successor (`Passes`). `MaxNode` steps are enough: a
way that has not ended by then goes round a cycle, and a round of `fixViolation` that
is not the last one climbs. The debugger sets a breakpoint
once (`Insert`); `srv_del_bp` looks it up before it deletes it (`Delete`).

## Runs

| run | shows |
|-----|-------|
| `top` | any three loads and stores, with any number of other instructions between them, to RAM, interruptor and host registers: a load gets the word of program order (`LoadsInOrder`), the timer request is that of the registers the program wrote while mtime counts, wraps or is replaced (`RequestsFollowProgram`), and `mtimecmp` can be raised in three stores without a stray request (`RaisedQuietly`) |
| `pipeline` | every four-instruction program over dependent arithmetic, loads and stores of all sizes, branches and jumps, and every three-instruction program of exceptions, calls, `mret` and CSR accesses behind a prologue that sets a direct or a vectored handler: the pcs stay in step (`PipeInv`), squashed instructions leave no trace (`SquashedIsSilent`), the pipeline implements `Isa` (`ImplementsIsa`) |
| `interrupts` | the same while three request lines rise and fall in any cycle |
| `progress` | with a request that is held up, the pipeline goes on committing, and no program without `mret` keeps the interrupt waiting forever |
| `iss` | the simulator implements `Isa`: instructions and traps, interrupts requested and withdrawn through the device registers, host requests |
| `instructions` | core and simulator read the same instruction in a word (`DecodersAgree`), the disassembler prints the one that runs (`TextNamesWhatRuns`), every halfword expands to what is printed for it (`CompressedAsPrinted`); core and simulator agree on every operation and every pair of operands, quotients and remainders belong together, and RV32B does what it is defined to |
| `bpmap` | breakpoints set in any order and then deleted in any order: a red-black tree while it grows (`RedBlack`), the right set throughout (`ImplementsBreakpoints`) |
| `session` | `step` and `until` stop where they were told to and `cont` runs no instruction at a breakpoint, both for the pcs a debugger sees (all but the entry of a handler inside a call); an interrupt of the client ends one `cont` at most and always the one that is running; `step` comes back; and the two loaders agree |
| `illegal_store`, `bpmap_reinsert`, `iss_exit`, `iss_jump` | violations: see "Disagreements" |

### Bounds, and why they are enough

- *Words* are 16 bits, made of four 4-bit bytes. The lanes, the strobes, sign
  extension and all bits of `mstatus` and `mie` that the core uses fit; bit 31 of
  a cause is bit 15. Addresses wrap at 2^16.
- *Programs* have three or four free instructions from a list of 6 to 18, in every
  order, behind a fixed prologue. An instruction influences others for four cycles
  (two squashed slots, forwarding, the withheld write), so four instructions cover
  every overlap; loops run until the state repeats.
- *Data memory* has two words in the pipeline runs: one that is accessed twice, and
  another one. The simulator's eight hold requests to the host.
- *Counters* wrap at `CountMod` (1 to 4 in the core runs, where a program that
  reads `instret` tells the values apart; 2^18 in the simulator, whose counters are
  compared and have two halves). `MaxSteps = 14` bounds the length of a simulator
  run and is the only bound on it.
- *The CLINT* has halves of five values, so that both carry and wrap happen while
  the harness's four commands and an unknown one are five words of RAM. `MaxOps = 3`
  loads and stores are the longest sequence a property speaks of (the rise of
  `mtimecmp`); a load depends on the access ahead of it and on the words before.
- *Instruction words* take all major opcodes and FUNC3, FUNC7 values with each bit
  alone, all ones, and those some decoder distinguishes, and register fields with
  each bit alone: an immediate bit in the wrong place shows in a word in which it
  is the only one. Halfwords are tried all. RV32B runs on words whose set bits are
  at the ends, in the middle, and spread.
- *The ALU* is checked at four bits, where the products, the overflowing division
  and all shift amounts exist.
- *Sessions*: three addresses, one of them misaligned, two values of
  `rv->exitcode`, counts up to 3, two interrupts (one can be late for
  the `cont` it was meant for while the other arrives), memories of four bytes with
  segments that fit, touch the end, cross it and overlap, in files of up to two
  segments.
- *Breakpoints*: with eight addresses an insertion can recolour and then rotate a
  subtree that has children, the deepest case of `fixViolation`; four are enough to
  lose one after a deletion. `malloc` hands out the node named like the address if
  that is free: which node it is only renames the heap.

Registers are 16 in the core runs (RV32E; nothing depends on the number). No
symmetry is used: addresses and values are numbers that are compared.

### The environment the models assume

- Memories always accept and answer, as in `testbench.v`; `stall` goes down once.
- The instruction RAM covers the address space. The harness ends a simulation that
  fetches beyond the real one. Data addresses wrap around the RAM, as
  `memmodel.v` decodes them; device registers are in `Top`, not in the core's runs.
- Accesses to the interruptor are whole words at its five registers (the code
  ignores the strobes, and keeps the last answer at other addresses).
- `mscratch` has no reset in `riscv.v`; its first value is a parameter.
- Programs of the simulator neither write their text nor execute their data, and
  what `read` puts into their memory is not modelled.
- Nothing is promised about an instruction at a misaligned pc, which only `mret`
  with a misaligned `mepc` reaches.
- The `exception` output of the core and the `time` counter of the simulator
  are not observable by a program and are left out.

### Fairness

`HeldSpec` assumes two things: the clock ticks (`WF` of `Cycle`; nothing in the
model is a choice of a scheduler, and a simulation or a chip whose clock stops is
not running), and the harness releases `stall` some time after reset
(`testbench.v` does so at a fixed time). Only `progress` uses it. The held timer
line is what the CLINT does: the request is a level that falls only when software
moves `mtimecmp` or `mtime`.

`Session` assumes that each thread of the process that can go on does: the loop of
`main` (with the commands that run something), the loop of `srv_cont`, and the
call of `srv_on_interrupt` by the thread that has received the interrupt. Nothing
is asked of the user at the prompt, of the client, or of the program: it may loop
for ever and never reach a breakpoint. `CHECK_DEADLOCK` is off there and in `top`
because the process exits and `$finish` ends the simulation.

The programs of `progress` contain no `mret`: because `mret` overwrites `mepc` in
the core, two in a row jump to the second one for ever, with a SYSTEM instruction
that cannot be interrupted.

## Proofs

TLC checks small instances; the theorems hold for every value of the constants:
every byte size that is a multiple of 16 values, every number of registers up to
32, every data memory, every program and every behaviour of the request lines (the
pipeline and the simulator); any width of a half counter (the interruptor and
`Top`); every `XLEN` (the arithmetic); any set of addresses, any counts, any number
of interrupts (`Session`); any finite set of addresses and any heap that has room for
them (`BpMap`).

| theorem | statement |
|---------|-----------|
| `TestbenchProofs!TypeCorrect` | `Spec => []TypeOK` |
| `TestbenchProofs!PipeCorrect` | `Spec => []PipeInv` |
| `TestbenchProofs!SquashCorrect` | `Spec => SquashedIsSilent` |
| `IsaProofs!PipelineImplementsIsa` | `Spec => ImplementsIsa`: the pipeline refines the abstract machine |
| `TopProofs!TypeCorrect` | `Spec => []TypeOK` of the interruptor |
| `TopProofs!TopTypeCorrect`, `LoadsInOrderCorrect`, `RequestsCorrect`, `RaiseCorrect` | the four invariants of the run `top`; the first is `TopTypeOK`: the interruptor, the RAM, the selects of `top.v` and the harness's registers |
| `RvsimProofs!RvsimTypeCorrect` | `Spec => []TypeOK` of the simulator |
| `RvsimProofs!SimulatorImplementsIsa` | `Spec /\ [][Ordinary]_vars => ImplementsIsa`: the simulator refines the same abstract machine |
| `InsnProofs!DecodersCorrect` | `Spec => []DecodersAgree`; its lemma `WordsDecode` is about all words of 32 bits |
| `InsnProofs!ArithmeticCorrect` | `Spec => []CoreMatchesSimulator` |
| `InsnProofs!DivisionCorrect` | `Spec => []DivisionIdentity` |
| `SessionProofs!SessionTypeCorrect`, `StopsCorrect`, `BreakpointsCorrect`, `InterruptsCorrect` | the invariants of the run `session` about `main`, the debugger and the stub |
| `BpMapProofs!RedBlackAlways` | `Spec => []RedBlack`, which speaks of the time before the first deletion |
| `BpMapProofs!MapImplementsSet` | `PhasedSpec => ImplementsBreakpoints`: the tree refines the set of breakpoints |
| `SessionProofs!LoadersCorrect` | `Spec => []LoadersAgree`; its lemma `FilesAgree` is about files with any number of segments |

### Hypotheses

- `WordFunctions(Word)`: the ALU and the two bitwise operations, which are
  parameters of pipeline and simulator, give words for words. TLC's instance is
  `AluOps`, and `InsnProofs!ResultWord` proves it of every operation there.
- `Assigned`, of every instruction of every program, in `PipelineImplementsIsa`
  only: no store and no SYSTEM instruction has an unassigned FUNC3. Without it the
  theorem is false: an illegal store clears a word (the run `illegal_store`), and
  SYSTEM with FUNC3 = 4 is executed as a CSR write (`riscv.v:269` to 302 lets it
  pass), while `Isa`, like `rvsim.c:1797`, refuses it.
- `Ordinary`, of every step, in `SimulatorImplementsIsa` only. Without it the
  theorem is false. It leaves out the steps on which the code can depart from the
  architecture (Disagreements): bit 1 of `mtvec` is set (`rvsim.c` clears bit 0
  only), a store to the exit register, an `ecall` the host serves (it changes `a0`,
  or ends the run), and a jump to a misaligned address when the same step latches an
  interrupt; and an `mret` to a misaligned `mepc`, after which `Isa` promises
  nothing, while the mapping shows the exception this raises, as it does for a jump.
  `iss_exit` and `iss_jump` show the departures of the store and the jump. The programs of the run `iss` take ordinary steps only:
  TLC finds no violation of `[][Ordinary]_vars` there, so the hypothesis is met by
  programs that compute, access memory and devices, jump, trap and are interrupted.
- `OrAddsSign`, in `SimulatorImplementsIsa` only: to or the bits of the sign into a
  byte or a half word is to add them. It is a statement about the parameter `BitOr`;
  `InsnProofs!OrSign` proves it of `AluOps!Or` at every width, and TLC evaluates it
  for the instance (`MCOrAddsSign`).
- `PhasedSpec`, in `MapImplementsSet`: breakpoints are set, and then deleted for
  good. With `Spec` it is false: `deleteNodeBST` copies a parent pointer that is wrong
  for the copy, and an insertion afterwards follows it (the run `bpmap_reinsert`). The
  search tree itself survives every deletion, which is why the theorem needs no more
  than that deletions are not followed by insertions. `RedBlackAlways` needs no such
  hypothesis, because it promises nothing after a deletion.
- `BpMapAssumption`: there are at least as many nodes as addresses, that is, `malloc`
  does not fail. `createNode` does not test its result.
- The assumptions on constants are those TLC evaluates in each run. Two are there
  for the provers, which do not know exponentiation or the size of TLC's integers:
  `AluAssumption` gives the equations of the powers of two, and `RvsimAssumption`
  says that a counter has two halves of a word each at most.

### The arguments

*`PipeCorrect`.* What one wants is `FetchMatches`: the word in stage 2 is the one
memory holds at `ex_pc`. Alone it is not inductive: the word comes from a fetch two
cycles ago, and during boot there was none. `PcChain` relates the three pcs to the
squash flags (after a redirect the chain is broken for exactly the two cycles in
which `wb_branch`, then `wb_branch_nxt`, is up), and `BootOrder` relates `stall_r`,
`flush` and `pipefill` and says that until the pipe is full it holds bubbles at the
reset vector and interrupts are masked. `TypeOK /\ PcChain /\ BootOrder /\
FetchMatches` is inductive. The step is one clock edge, taken apart into the
stalled edge, the edges of boot, the flushed edge and the edge that commits; the
only fact about instructions that is needed is that what redirects fetch also sets
`wb_branch`.

*`SquashCorrect`.* A flushed edge performs the write that is in flight
(`WriteBack`: the registers and the memory after an edge are what the program saw
before it), raises no trap (`FlushedIsQuiet`), and by `PcChain` stage 3 is flushed
after it, so nothing new is in flight.

*`PipelineImplementsIsa`.* The refinement mapping is `ArchPc`, `ArchRegs`,
`ArchMem`. Edges of boot, stalled and flushed edges map to stuttering, the last by
`SquashCorrect`. A committing edge maps to one step of `Isa`: the operands stage 2
reads are those of `ArchRegs` (forwarding), what stage 3 will write is what the
instruction yields (one lemma per kind of instruction, byte lanes included), the
next pc is what fetch was redirected to, and the trap CSRs are updated as the
abstract trap does. One more invariant is needed, `BootWb`: while
the pipe fills, stage 3 holds a bubble that writes no register.

*`Top`.* `LoadsInOrder` is inductive by itself: the ghost `load` and the selects
are set in the same edge. `RequestsFollowProgram` and `RaisedQuietly` are not,
because the interruptor compares registers and latches the result one edge later.
`TopInv` adds that the program's view of `mtimecmp` is ahead of the register by the
store in stage 3 at most (`CmpAhead`), that nothing has been stored and time stands
still until the pipe has filled (`NotStarted`), and that in a rise of `mtimecmp` the
register is never below both the value the rise started from and the one stored so
far (`RaiseInv`): the first store makes the low half all ones, the second replaces
the high half.

*`Session`.* `InterruptInv` accounts for every interrupt of the client: it is on
its way to the flag, in the flag, used up or lost, and the flag at the label
`clear` counts as used. `DebugInv` relates the static variables of `debug()` to the
history: under `step n` the count left and the instructions run add up to `n`,
under `until` no instruction that `debug()` saw, but the first, was at the address.
`ContInv` carries the result of the search in the map over to the step that follows
it. Both hold of the pcs that are seen only: an instruction that runs inside a call
at the entry of a handler is not in `hist.ran`, and nothing is claimed about it
(Disagreements).

*`TopTypeCorrect`.* A load in stage 3 selects among words only: those of the
interruptor's registers, of the RAM, and of the host's answer, whose `result` is a
word after each command (`EdgeData`).

*`BpMap`.* A tree is described by two functions that the program does not have:
`D[n]` is the set of nodes below and including `n`, `h[n]` its black height. `Span`
says that `D[n]` is `n` and the disjoint sets of its two children, and that `D` of the
root is the whole heap, so that there is no cycle, no sharing and no garbage;
`Sorted`, that the keys on each side of a node are on that side of its key. These two
are enough for every search: a way to an address keeps the address in the subtree it
has come to, each step makes that subtree smaller, and so the way ends within
`MaxNode` steps at the node that holds the address or at `NULL` (`Search`). `findNode`
then finds exactly the keys of the tree (`FoundKeys`). `Balanced(t, D, h, q)` adds the
parent pointers (`Parents`), the black heights (`Heights`) and that a red node with a
red parent, or a red root, can only be at `q` (`Reds`): this is the invariant of the
loop of `fixViolation`, with `q` the node `pt` it has come to. `insertBST` establishes
it with the new node (`D` and `h` are extended along the way, and the new node's black
height is that of the `NULL` it replaces). A recolouring keeps it and moves `q` to the
grandparent, whose `D` is strictly larger, so that the number of rounds is bounded by
the number of nodes; the inner rotation moves `q` to the old parent, and the outer
rotation with the exchange of colours leaves no red pair (`RecolorBalances`,
`InnerBalances`, `RaiseBalances`, `RoundsBalance`). A rotation is one lemma for both
sides: the new `D` of the two nodes is read off their three subtrees, and the order of
the keys follows. At the end the root is painted black, and `Blacks`, the number of
black nodes on the way to a node with a missing child, is the height of the root
(`BlacksCount`, by induction along the way).

Deletion keeps `Span` and `Sorted` only. `Remove` takes the freed node out of every
`D`; the order is shown first with the removed node left out (`SortedBut`), because
after the successor's key has been copied up two nodes have that key. `Minimum` says
that the end of the left links is the smallest key and has no left child, so that the
second pass removes a node with at most one child and is the last (`PassesEnd`). That
the child is not one of the nodes whose calls are still to come back, and is written
to after it is freed, follows from `Span`: the way leads down. The inductive invariant
`Inv` is a search tree always, and `Balanced` as long as nothing was deleted.

*`RvsimTypeCorrect`.* One lemma per C function. The two interesting ones: an address
that passes the bounds check of `memrw` and is not in the text finds a word of the
array (the arithmetic of the mixed signed and unsigned comparison), and the halves
of a 64-bit counter can be replaced one at a time.

*`SimulatorImplementsIsa`.* The mapping `ArchPc`, `ArchRegs`, `ArchCsr` looks through
`Settled`: the machine after the interrupt the last step latched, and after the trap
a misaligned jump will raise when `srv32_step` is called next, both of which the
architecture counts as part of the instruction before. It needs no invariant beyond
`TypeOK`; the work is in relating one call to one step of `Isa`. `SettleCases` and
`ReadyIs` say what a call does before it executes anything and that this is what the
mapping already showed; `RetireStep`, `TrapStep` and `MisalignedStep` say which
outcomes of an instruction are a step of `Isa`, with or without an interrupt behind
it. One lemma per group of opcodes (`ComputeStep`, `JumpsStep`, `BranchStep`,
`LoadStep`, `StoreStep`, `CsrStep`, `PrivStep`) then computes the outcome. The
byte lanes are shifted and masked differently on the two sides, which
`LaneOfShift`, `LoadValue` and `StoreValue` settle. `StepInstret` covers the pcs
the architecture says nothing about: there only the count of instructions matters.

*Decoders.* A word is two numbers below 2^16. Each field of each decoder is first
shown to be a quotient and a remainder of one of them (`FieldValues`); the
immediates, which the two sides put together in a different order, are then sums
with the same terms (`BranchImmediate`, `JumpImmediate`). One lemma per group of
opcodes compares the rest, up to the words of `Lenient`.

*Arithmetic.* `M` is an unknown power of two, so the products and quotients are not
linear: `Euclid` (a number has one quotient and one remainder) carries most of the
argument. `SignedDivision` treats the four signs and the overflow, `IssQuotient`
says that the quotient the C standard describes exists and is the one the divider
finds. The bitwise operations are recursive functions: that the recursion has a
solution, and which bits it has, are proved by induction.

*Induction over data* has the form: the set of numbers for which a statement holds
is all of `Nat`, because there is no least number outside it (`SetInduction`, from
the theorem `WFMin` of the library, which takes a set and not an operator). The
loaders are treated like the bitwise operations: their loop is a recursive function
over the headers, and by induction the last header that covers an address has given
it its byte.

### Only model-checked

- Liveness: `CommitsForever`, `HeldIrqServed`, `InterruptStops`, `StepReturns` are
  out of the prover's reach.
- `TextNamesWhatRuns`, `CompressedAsPrinted` and `BitManipAsSpecified`. Halfwords are
  checked exhaustively by TLC, so a proof would add nothing to the second.

## Disagreements

Four runs are expected to fail; each shows that the code does something its own
comments, its other implementation, or its documentation says it does not:

1. `illegal_store`: a store with an unassigned FUNC3 traps *and* clears a word.
2. `bpmap_reinsert`: a breakpoint set after a deletion can link the tree into a cycle,
   and the next deletion writes to freed memory.
3. `iss_exit`: a store to the exit register traps as an illegal instruction.
4. `iss_jump`: a misaligned jump loses its exception to a latched interrupt.

Further differences met while modelling, allowed for or kept out of the runs:

- `mret` overwrites `mepc` with its own address and clears `mtval` in the core (both
  lines are marked FIXME, `riscv.v:838`), and leaves them alone in the simulator.
- An illegal system call: the core leaves `mstatus` alone and shows the
  instruction in `mtval`; the simulator masks interrupts and shows 0.
- `mtvec`: the core clears both low bits of the base, the simulator only bit 0.
- The core executes four kinds of words the simulator refuses: SYSTEM with FUNC3 = 4
  (as a CSR write), shift immediates with other bits in FUNC7, and FUNC7 = 0x20 with
  a FUNC3 other than that of `sub` and `sra`.
- The simulator ignores FUNC3 of FENCE and JALR and looks at two bits only of a
  SYSTEM instruction with FUNC3 = 0; the disassembler calls such words illegal. The
  pseudo-instruction `ret` hides a non-zero offset.
- Compressed code: the disassembler calls shifts and `c.andi` by zero illegal, which
  run; it prints `c.mv` as an `addi`, which runs as an `add`. `c.srli` and `c.srai`
  by 32 or more are expanded modulo 32, `c.slli` is refused. Only the expander
  refuses `c.lwsp` to x0 and `c.jr` of x0. Hints run as `nop`.
- `until`, and in the same way a breakpoint, on the first instruction of a handler is
  missed: `srv32_step` takes a latched interrupt or the trap of a bad pc
  (`rvsim.c:845-873`) and runs the first instruction of the handler in one call,
  after `debug.c:154` or `gdbstub.c:51` has looked at the pc. The help text
  (`debug.c:46`) says "run until pc htis <val>". `StopsWhereAsked` and
  `BreakpointsHold` make an exception of exactly this case.
- The exit code a program passes to the host is dropped: `htif.c:36` declares
  `prog_exit` with a code and `htif.c:79` passes it (`syscall.c` likewise), the
  definition at `rvsim.c:175` takes none, and the status is that of an earlier event.
- A load of `mtimecmp`, `mtime` or `msip` directly behind a store to it gets the value
  before; RAM, the host's answer and the simulator do not behave so. `LoadsInOrder`
  makes an exception of exactly this case.
- An unknown host command leaves the answer of the one before. The read selects
  follow the address of a store as well.
- `until 0` and "no until" are the same: a counted `step` that arrives at address 0
  stops there. At the end of its input the debugger prompts for ever.
- The stub drops `RV_EXIT`: a program that ends by a jump to itself runs until the
  client interrupts it. An interrupt that comes late for its `cont` ends the next.
- The loaders copy `p_memsz` bytes, not `p_filesz`, so a segment with a bss needs a
  file that goes on; an empty `PT_LOAD` segment fails; the entry point is ignored.
  The images of the harness are not cleared, and a segment may not cross from one
  to the other.
- A target that is both misaligned and out of range raises a different exception.
- `ecall` with a host call number: the simulator serves all its calls and puts the
  result into `a0`. The harness (`testbench.v:553-586`, not in the models) serves a
  write to the standard output, the exit and the dumps, and sets `a0` for the write
  only, and only under Verilator.
- mtime and mtimecmp are compared signed in the simulator (`rvsim.c:882`), unsigned
  in `clint.v`; narrow stores to device registers are ORed in the simulator and
  ignore the strobes in `clint.v`.
- Shifts by a register are not masked in C (`rvsim.c:1445` on): undefined from 32
  on. `IssAlu` allows either outcome of common processors.
- The bounds check of `rvsim.c:402` and `:417` overflows at the top of the positive
  range.
- Setting the same breakpoint twice follows a NULL parent in `fixViolation`; the
  model's debugger sets a breakpoint once.
- `testbench.v` names a signal of the RV32C memory that only another build
  declares.

## Not modelled

- RV32C and RV32B in the core, and the steps of compressed code in the simulator
  (`pc + 2`, the cycle a change of instruction length costs, `srv32_int` of an RV32C
  build); the decoders of both extensions are modelled as functions.
- The SINGLE_RAM build and the other two RAMs of `memmodel.v`; the trace printer of
  `testbench.v`, which formats what the core retires.
- The system calls of the harness (`testbench.v:553-586`), which print, dump memory
  or end the simulation; those of the simulator are in `Rvsim`.
- What `read` puts into a program's memory, and the stub's packets that read
  registers and memory or write memory: copies without a decision.
- `csr_name`, the floating-point operands and columns of the disassembler, and
  `log2dis.pl`: text only. `getch`: one character from the terminal.
- Guest programs (start-up code, newlib ports, examples, CoreMark, Dhrystone,
  SciMark), the architecture test plugins and the synthesis scripts: they are run
  on the system and are not part of it, and most of them are third-party code. They
  are almost half of the repository's C lines.

## Plan

Done, in this order: `Clint`; `Srv32`, `Riscv`, `Mem2ports`, `Testbench` and `Isa`;
`BpMap`; `Rvsim`; `AluOps`; `Encoding`, `Decompress`, `Disas`, `IssAlu` and
`BitManip` with `InsnCheck`; `Loader` and `Session`; `Top`; the theorems above.
Next:

1. Proofs: the text of the disassembler for all words, on top of `FieldValues`.
2. `Lockstep`: core and simulator on one program, commit by commit, with the
   simulator's cycle model (the branch penalty of two) against the core's `cycle`,
   and the signed against the unsigned comparison of the timer.
3. The steps of compressed code in `Rvsim`, on top of `Decompress`.
