------------------------------- MODULE Session -------------------------------
(***************************************************************************)
(* A session of rvsim: main() loads a program and runs it, alone, under    *)
(* the interactive debugger of tools/debug.c, or under the remote debugger *)
(* of tools/gdbstub.c.  srv32_step, which the module Rvsim models, is here *)
(* what its callers see of it: where it runs an instruction, which is not  *)
(* always where they saw the pc, and that the pc moves, or that it returns *)
(* RV_EXIT (a jump to itself), or ends the process (the program's exit).   *)
(*                                                                         *)
(* The stub's library is external: one thread works on the packets of the *)
(* client, another looks for the client's interrupt while cont runs.       *)
(***************************************************************************)
EXTENDS Loader

CONSTANTS Pc,        \* program counters, 0 among them
          Bad,       \* those that are misaligned, or out of the memory
          ExitCode,  \* what a program stores to MMIO_EXIT, and 1
          MaxCount,  \* largest argument of "step"
          MaxPress,  \* interrupts the client sends
          Vaddr, Memsz, Offset   \* of the segments of a file

ASSUME SessionAssumption == /\ 0 \in Pc \ Bad /\ Bad \subseteq Pc
                            /\ {0, 1} \subseteq ExitCode /\ ExitCode \subseteq Nat
                            /\ MaxCount \in Nat /\ MaxPress \in Nat
                            /\ Vaddr \subseteq Nat /\ Memsz \subseteq Nat /\ Offset \subseteq Nat

VARIABLES at,       \* where the process is
          file,     \* the file main() was given, until it is loaded
          mode,     \* "plain", "debug" (-d) or "gdb" (-g)
          pc,       \* rv->pc
          latched,  \* the next call of srv32_step takes an interrupt: a latch is up, and
                    \* interrupts are enabled
          exitcode, \* rv->exitcode
          status,   \* the exit status of the process
          dbg,      \* the static variables of debug()
          bps, is_interrupted,   \* of the stub
          reader,   \* the library's second thread
          hist      \* since the last command: how many instructions ran, and where the
                    \* caller of srv32_step saw one to run (see Noted)

vars == <<at, file, mode, pc, latched, exitcode, status, dbg, bps, is_interrupted, reader, hist>>
core == <<file, mode>>
cpu  == <<pc, latched>>
stub == <<bps, is_interrupted, reader>>

Segments == {Segment("load", v, m, o) : v \in Vaddr, m \in Memsz, o \in Offset}
            \cup {Segment("note", 0, 1, 0)}
Files == {[kind |-> k, phdr |-> << >>] : k \in Kinds}
         \cup {[kind |-> k, phdr |-> <<s>>] : k \in {"elf32", "half"}, s \in Segments}
         \cup {[kind |-> "elf32", phdr |-> <<s, t>>] : s \in Segments, t \in Segments}
Gone  == [kind |-> "loaded", phdr |-> << >>]

Commands == [name : {"until"}, arg : Pc] \cup [name : {"step"}, arg : 0 .. MaxCount]
            \cup {[name |-> n, arg |-> 0] : n \in {"look", "quit", "unknown"}}
Unknown == [name |-> "unknown", arg |-> 0]
Empty   == [name |-> "empty", arg |-> 0]
Fresh(cmd) == [cmd |-> cmd, done |-> 0, ran |-> {}]
Cap(n) == IF n > MaxCount THEN MaxCount + 1 ELSE n
InCont == {"test", "find", "run", "clear"}

TypeOK ==
  /\ at \in {"load", "loop", "prompt", "step", "stub", "exit"} \cup InCont
  /\ mode \in {"plain", "debug", "gdb"} /\ pc \in Pc /\ latched \in BOOLEAN
  /\ exitcode \in ExitCode /\ status \in {-1} \cup ExitCode
  /\ dbg \in [running : BOOLEAN, until_pc : Pc, count : 0 .. MaxCount, count_en : BOOLEAN,
              cmd_last : Commands]
  /\ bps \subseteq Pc /\ is_interrupted \in BOOLEAN
  /\ reader \in [got : BOOLEAN, presses : 0 .. MaxPress, stops : Nat]

Init ==
  /\ at = "load" /\ file \in Files /\ mode \in {"plain", "debug", "gdb"}
  /\ pc = 0 /\ latched = FALSE /\ exitcode = 0 /\ status = 0
  /\ dbg = [running |-> FALSE, until_pc |-> 0, count |-> 0, count_en |-> FALSE, cmd_last |-> Unknown]
  /\ bps = {} /\ is_interrupted = FALSE
  /\ reader = [got |-> FALSE, presses |-> 0, stops |-> 0]
  /\ hist = Fresh(Unknown)

\* prog_exit: the status is rv->exitcode, and 0 when -d was given.
prog_exit(code) == at' = "exit" /\ status' = IF mode = "debug" THEN 0 ELSE code

-----------------------------------------------------------------------------
(* main *)

\* The loader, then the registers: the pc is the base of the memory, not the
\* entry point of the file.
Boot ==
  /\ at = "load"
  /\ LET r == IssLoad(file)
     IN  IF r.status = "okay"
         THEN /\ at' = IF mode = "gdb" THEN "stub" ELSE "loop"
              /\ file' = Gone /\ pc' = 0 /\ UNCHANGED status
         ELSE /\ at' = "exit" /\ status' = IF r.status = "fail" THEN 1 ELSE -1
              /\ UNCHANGED <<file, pc>>
  /\ UNCHANGED <<mode, latched, exitcode, dbg, stub, hist>>

\* A call of srv32_step takes the latched interrupt, or the trap of a misaligned pc
\* or one out of range, before it fetches: its instruction is then the first of a
\* handler, at an address of the program's choice that no caller has seen as pc.
Redirected == latched \/ pc \in Bad
RunsAt     == IF Redirected THEN Pc ELSE {pc}

\* One more instruction ran, at an address the caller saw unless it was the first of
\* a handler. The first one after a command of debug() runs wherever it is.
Noted(run) ==
  hist' = [hist EXCEPT
    !.done = Cap(@ + 1),
    !.ran  = IF Redirected \/ (at = "step" /\ hist.done = 0) THEN @ ELSE @ \cup {run}]

\* What srv32_step did, for the caller that goes on at "next" and, when it was
\* RV_EXIT, at "quit".  A handler starts with interrupts masked, so that a call that
\* enters one latches none.  A store to MMIO_EXIT sets exitcode, and traps; the
\* program's exit call passes a code to prog_exit, which does not take it.
srv32_step(next, quit) ==
  \E run \in RunsAt :
    \/ /\ pc' \in Pc /\ at' = next /\ exitcode' \in ExitCode        \* RV_OKAY or RV_TRAP
       /\ latched' \in (IF Redirected THEN {FALSE} ELSE BOOLEAN)
       /\ Noted(run) /\ UNCHANGED status
    \/ /\ pc' = run /\ exitcode' = 1                     \* RV_EXIT: a jump to itself
       /\ latched' \in (IF Redirected THEN {FALSE} ELSE BOOLEAN)
       /\ IF quit = "exit" THEN prog_exit(1) ELSE at' = quit /\ UNCHANGED status
       /\ Noted(run)
    \/ prog_exit(exitcode) /\ UNCHANGED <<cpu, exitcode, hist>>    \* the exit call

\* One turn of the execution loop.
Loop == /\ at = "loop" /\ mode = "plain"
        /\ at' = "step"
        /\ UNCHANGED <<core, cpu, exitcode, status, dbg, stub, hist>>
Step == /\ at = "step"
        /\ srv32_step("loop", "exit")
        /\ UNCHANGED <<core, dbg, stub>>

-----------------------------------------------------------------------------
(* debug() *)

\* Mutants: the count is tested after it is decremented; it is not decremented.
RunningTest_count(d) ==
  LET u == IF d.until_pc = pc THEN [d EXCEPT !.running = FALSE, !.until_pc = 0] ELSE d
  IN  CASE ~d.running -> d
        [] d.running /\ d.count_en /\ d.count <= 2 -> [u EXCEPT !.running = FALSE, !.count_en = FALSE]
        [] d.running /\ d.count_en /\ d.count > 2  -> [u EXCEPT !.count = @ - 1]
        [] OTHER -> u
RunningTest_forever(d) ==
  LET u == IF d.until_pc = pc THEN [d EXCEPT !.running = FALSE, !.until_pc = 0] ELSE d
  IN  IF d.running /\ d.count_en /\ d.count <= 1 THEN [u EXCEPT !.running = FALSE, !.count_en = FALSE]
      ELSE IF d.running THEN u ELSE d

\* The block "if (running)".
RunningTest(d) ==
  LET u == IF d.until_pc = pc THEN [d EXCEPT !.running = FALSE, !.until_pc = 0] ELSE d
  IN  CASE ~d.running -> d
        [] d.running /\ d.count_en /\ d.count <= 1 -> [u EXCEPT !.running = FALSE, !.count_en = FALSE]
        [] d.running /\ d.count_en /\ d.count > 1  -> [u EXCEPT !.count = @ - 1]
        [] OTHER -> u

Debug == /\ at = "loop" /\ mode = "debug"
         /\ dbg' = RunningTest(dbg)
         /\ at' = IF dbg'.running THEN "step" ELSE "prompt"
         /\ UNCHANGED <<core, cpu, exitcode, status, stub, hist>>

\* cmd and cmd_last: an empty line repeats the command before it, and is not
\* itself kept.  Mutant: it is.
Kept_empty(line) == line
Repeated(line)   == IF line = Empty THEN dbg.cmd_last ELSE line
Kept(line)       == Repeated(line)

\* A line of input.  "look" is any command that only prints.
Command(line) ==
  LET c == Repeated(line)
      d == [dbg EXCEPT !.cmd_last = Kept(line)]
  IN  /\ at = "prompt"
      /\ CASE c.name = "quit"  -> dbg' = d /\ prog_exit(exitcode) /\ UNCHANGED hist
           [] c.name = "until" -> /\ dbg' = [d EXCEPT !.until_pc = c.arg, !.count_en = FALSE,
                                                      !.running = TRUE]
                                  /\ at' = "step" /\ hist' = Fresh(c) /\ UNCHANGED status
           [] c.name = "step"  -> /\ dbg' = [d EXCEPT !.count = c.arg, !.count_en = TRUE,
                                                      !.running = c.arg > 1]
                                  /\ at' = "step" /\ hist' = Fresh(c) /\ UNCHANGED status
           [] OTHER            -> dbg' = d /\ hist' = Fresh(c) /\ UNCHANGED <<at, status>>
      /\ UNCHANGED <<core, cpu, exitcode, stub>>

-----------------------------------------------------------------------------
(* The stub: the packets of the client. *)

srv_set_bp(a, type) ==
  /\ at = "stub"
  /\ bps' = IF type = "BP_SOFTWARE" THEN bps \cup {a} ELSE bps
  /\ UNCHANGED <<at, core, cpu, exitcode, status, dbg, is_interrupted, reader, hist>>
srv_del_bp(a, type) ==
  /\ at = "stub"
  /\ bps' = IF type = "BP_SOFTWARE" THEN bps \ {a} ELSE bps
  /\ UNCHANGED <<at, core, cpu, exitcode, status, dbg, is_interrupted, reader, hist>>

\* A register number REGNUM is the pc; one above it is refused.
srv_write_reg(v) ==
  /\ at = "stub" /\ pc' = v
  /\ UNCHANGED <<at, core, latched, exitcode, status, dbg, stub, hist>>

\* The result of srv32_step is dropped: a jump to itself does not end the session.
srv_stepi ==
  /\ at = "stub"
  /\ srv32_step("stub", "stub")
  /\ UNCHANGED <<core, dbg, stub>>

\* The client ends the session: gdbstub_run returns.
Detach ==
  /\ at = "stub" /\ prog_exit(exitcode)
  /\ UNCHANGED <<core, cpu, exitcode, dbg, stub, hist>>

\* srv_cont: the loop condition, findNode, srv32_step, and the store after it.  The
\* condition also tests rv->halt, which nothing sets.
srv_cont ==
  /\ at = "stub" /\ at' = "test" /\ hist' = Fresh([name |-> "cont", arg |-> 0])
  /\ UNCHANGED <<core, cpu, exitcode, status, dbg, stub>>
ContTest ==
  /\ at = "test"
  /\ at' = IF is_interrupted THEN "clear" ELSE "find"
  /\ reader' = IF is_interrupted THEN [reader EXCEPT !.stops = @ + 1] ELSE reader
  /\ UNCHANGED <<core, cpu, exitcode, status, dbg, bps, is_interrupted, hist>>
ContFind ==
  /\ at = "find"
  /\ at' = IF pc \in bps THEN "clear" ELSE "run"
  /\ UNCHANGED <<core, cpu, exitcode, status, dbg, stub, hist>>
\* Mutant: the loop goes on with the step, not with the test.
ContStep_blind ==
  /\ at = "run"
  /\ srv32_step("run", "run")
  /\ UNCHANGED <<core, dbg, stub>>
ContStep ==
  /\ at = "run"
  /\ srv32_step("test", "test")
  /\ UNCHANGED <<core, dbg, stub>>
\* Mutant: a pending interrupt is left pending.
ContClear_pending ==
  /\ at = "clear" /\ at' = "stub"
  /\ UNCHANGED <<core, cpu, exitcode, status, dbg, stub, hist>>
ContClear ==
  /\ at = "clear" /\ at' = "stub" /\ is_interrupted' = FALSE
  /\ UNCHANGED <<core, cpu, exitcode, status, dbg, bps, reader, hist>>

\* The reader thread sees the client's interrupt while cont runs, and calls
\* srv_on_interrupt some time later: by then cont may have ended.
Receive ==
  /\ at \in InCont /\ ~reader.got /\ reader.presses < MaxPress
  /\ reader' = [reader EXCEPT !.got = TRUE, !.presses = @ + 1]
  /\ UNCHANGED <<at, core, cpu, exitcode, status, dbg, bps, is_interrupted, hist>>
srv_on_interrupt ==
  /\ at # "exit" /\ reader.got
  /\ is_interrupted' = TRUE /\ reader' = [reader EXCEPT !.got = FALSE]
  /\ UNCHANGED <<at, core, cpu, exitcode, status, dbg, bps, hist>>

-----------------------------------------------------------------------------
Next ==
  \/ Boot \/ Loop \/ Step \/ Debug
  \/ \E line \in Commands \cup {Empty} : Command(line)
  \/ \E a \in Pc, type \in {"BP_SOFTWARE", "BP_HARDWARE"} : srv_set_bp(a, type) \/ srv_del_bp(a, type)
  \/ \E v \in Pc : srv_write_reg(v)
  \/ srv_stepi \/ Detach \/ srv_cont
  \/ ContTest \/ ContFind \/ ContStep \/ ContClear
  \/ Receive \/ srv_on_interrupt

\* A thread that can go on does: the loops of main and cont wait for nothing, and
\* the reader polls.  Nothing is asked of the user and of the client.
Fairness == /\ WF_vars(Boot \/ Loop \/ Step \/ Debug)
            /\ WF_vars(ContTest \/ ContFind \/ ContStep \/ ContClear)
            /\ WF_vars(srv_on_interrupt)

Spec == Init /\ [][Next]_vars /\ Fairness

-----------------------------------------------------------------------------
(* Properties. *)

\* The interactive debugger stops where it was told to: "step n" comes back after
\* n instructions (after one, for n = 0), and "until v" at v, after an instruction,
\* and before any other than the first runs at v, unless a call of srv32_step has
\* entered a handler at v by itself.  A program that passes address 0 comes back
\* there from a "step" early: 0 is also the value of until_pc that means none.
StopsWhereAsked ==
  at = "prompt" =>
    /\ ~dbg.running /\ dbg.until_pc = 0
    /\ hist.cmd.name = "step" =>
         \/ hist.done = (IF hist.cmd.arg = 0 THEN 1 ELSE hist.cmd.arg)
         \/ pc = 0 /\ hist.done \in 1 .. hist.cmd.arg
    /\ hist.cmd.name = "until" =>
         pc = hist.cmd.arg /\ hist.done > 0 /\ hist.cmd.arg \notin hist.ran

\* cont runs no instruction it has seen to be at a breakpoint, whatever the order of
\* its steps and those of the reader: only the first instruction of a handler that a
\* call enters by itself can run under one.  And it ends at a breakpoint or because
\* of an interrupt, not before.
BreakpointsHold ==
  at \in InCont => /\ hist.ran \cap bps = {}
                   /\ at = "clear" => pc \in bps \/ is_interrupted

\* An interrupt of the client ends one cont at most, even when it arrives after
\* the cont it was meant for: the flag does not outlive the cont it ended.
OneStopPerInterrupt == reader.stops <= reader.presses

\* The two loaders put the same bytes at the same addresses, those of the last
\* segment there.  A file for the images is a file for the simulator; the other
\* way round it may have a segment that crosses from one image to the other.
LoadersAgree ==
  at = "load" =>
    LET i == IssLoad(file)
        s == SimLoad(file)
        crossing(g) == /\ g.p_type = "load" /\ g.p_vaddr < MemSize
                       /\ g.p_vaddr + g.p_memsz > MemSize
    IN  /\ s.status = "okay" => i.status = "okay"
        /\ i.status = "okay" => /\ \A a \in Address : i.mem[a] = ByteAt(file, a, CLEAR)
                                /\ s.status # "okay" <=> \E k \in DOMAIN file.phdr : crossing(file.phdr[k])
        /\ s.status = "okay" => \A a \in Address : s.mem[a] = ByteAt(file, a, HEAP)

\* An interrupt stops the program: once the reader has it, cont comes back (or
\* the program has ended), however the two threads interleave.
InterruptStops == reader.got ~> at \in {"stub", "exit"}

\* "step" comes back to its prompt, or the program has ended.
StepReturns == (at = "step" /\ hist.cmd.name = "step" /\ mode = "debug") ~> at \in {"prompt", "exit"}
=============================================================================
