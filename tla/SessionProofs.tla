--------------------------- MODULE SessionProofs ---------------------------
(***************************************************************************)
(* Proofs about a session of rvsim: any set of addresses, any counts, any  *)
(* number of interrupts, every interleaving of the two threads of the      *)
(* stub, and files with any number of segments.                            *)
(***************************************************************************)
EXTENDS Session, WellFoundedInduction, TLAPS

-----------------------------------------------------------------------------
(* The inductive invariant. *)

Bit(b) == IF b THEN 1 ELSE 0

Cont == [name |-> "cont", arg |-> 0]
Histories == [cmd : Commands \cup {Cont}, done : Nat, ran : SUBSET Pc]
HistType == hist \in Histories

\* The file is still there exactly until it is loaded.
FileInv ==
  /\ at = "load" => file \in Files
  /\ at \notin {"load", "exit"} => file = Gone

\* The instruction cont is about to run is at no breakpoint.
ContInv == at = "run" => pc \notin bps

\* Every interrupt of the client is still on its way, pending, used up or lost: a
\* pending one at "clear" has been used, or will be cleared unused.
InterruptInv ==
  reader.stops + Bit(reader.got) + Bit(is_interrupted /\ at # "clear") <= reader.presses

\* debug() between its calls.  Before the first command it runs nothing; under
\* "step n" the count and the instructions since the command add up to n; under
\* "until v" none that debug() has seen since the first one was at v.
Idle == ~dbg.running /\ dbg.until_pc = 0
StepInv ==
  /\ hist.cmd.arg \in 0 .. MaxCount /\ dbg.until_pc = 0
  /\ at = "loop" => hist.done > 0
  /\ dbg.running =>
       /\ hist.cmd.arg > 1 /\ dbg.count_en /\ dbg.count >= 1
       /\ hist.done + dbg.count = hist.cmd.arg + Bit(at = "loop")
  /\ ~dbg.running => hist.cmd.arg <= 1 /\ hist.done = Bit(at = "loop")
UntilInv ==
  /\ hist.cmd.arg \in Pc
  /\ dbg.running /\ ~dbg.count_en /\ dbg.until_pc = hist.cmd.arg
  /\ hist.cmd.arg \notin hist.ran
  /\ at = "loop" => hist.done > 0
  /\ at = "step" /\ hist.done > 0 => pc # hist.cmd.arg
DebugInv ==
  /\ at = "load" => Idle /\ hist = Fresh(Unknown)
  /\ at = "prompt" => mode = "debug"
  /\ mode = "debug" /\ at \in {"loop", "step"} =>
       /\ hist.cmd.name \in {"step", "until", "unknown"}
       /\ hist.cmd.name = "step" => StepInv
       /\ hist.cmd.name = "until" => UntilInv
       /\ hist.cmd.name = "unknown" => at = "loop" /\ Idle

SessionInv ==
  /\ TypeOK /\ HistType /\ FileInv /\ ContInv /\ InterruptInv /\ DebugInv
  /\ StopsWhereAsked /\ BreakpointsHold

-----------------------------------------------------------------------------
(* Types. *)

\* The ways a call of srv32_step ends: it ran an instruction, or the program's exit call.
LEMMA StepCases ==
  ASSUME TypeOK, NEW next, NEW quit, srv32_step(next, quit)
  PROVE  /\ pc' \in Pc /\ latched' \in BOOLEAN /\ exitcode' \in ExitCode
         /\ (at' \in {next, quit} /\ status' = status) \/ (at' = "exit" /\ status' \in ExitCode)
         /\ \/ at' \in {next, quit, "exit"} /\ \E run \in RunsAt : Noted(run)
            \/ at' = "exit" /\ hist' = hist
<1>1. 0 \in ExitCode /\ 1 \in ExitCode
  BY SessionAssumption
<1>2. RunsAt \subseteq Pc
  BY DEF RunsAt, TypeOK
<1>3. ASSUME NEW code \in ExitCode, prog_exit(code) PROVE at' = "exit" /\ status' \in ExitCode
  BY <1>1, <1>3 DEF prog_exit
<1>4. PICK run \in RunsAt :
        \/ /\ pc' \in Pc /\ at' = next /\ exitcode' \in ExitCode
           /\ latched' \in (IF Redirected THEN {FALSE} ELSE BOOLEAN)
           /\ Noted(run) /\ UNCHANGED status
        \/ /\ pc' = run /\ exitcode' = 1
           /\ latched' \in (IF Redirected THEN {FALSE} ELSE BOOLEAN)
           /\ IF quit = "exit" THEN prog_exit(1) ELSE at' = quit /\ UNCHANGED status
           /\ Noted(run)
        \/ prog_exit(exitcode) /\ UNCHANGED <<cpu, exitcode, hist>>
  BY DEF srv32_step
<1>5. CASE /\ pc' \in Pc /\ at' = next /\ exitcode' \in ExitCode
           /\ latched' \in (IF Redirected THEN {FALSE} ELSE BOOLEAN)
           /\ Noted(run) /\ UNCHANGED status
  <2>1. pc' \in Pc /\ latched' \in BOOLEAN /\ exitcode' \in ExitCode
    BY <1>5
  <2>2. at' \in {next, quit} /\ status' = status /\ Noted(run)
    BY <1>5
  <2> QED
    BY <2>1, <2>2, Zenon
<1>6. CASE /\ pc' = run /\ exitcode' = 1
           /\ latched' \in (IF Redirected THEN {FALSE} ELSE BOOLEAN)
           /\ IF quit = "exit" THEN prog_exit(1) ELSE at' = quit /\ UNCHANGED status
           /\ Noted(run)
  <2>1. pc' \in Pc /\ latched' \in BOOLEAN /\ exitcode' \in ExitCode
    BY <1>1, <1>2, <1>6
  <2>2. CASE quit = "exit"
    <3>1. at' = "exit" /\ status' \in ExitCode
      BY <1>1, <1>3, <1>6, <2>2
    <3> QED
      BY <1>6, <2>1, <3>1
  <2>3. CASE quit # "exit"
    <3>1. at' \in {next, quit} /\ status' = status /\ Noted(run)
      BY <1>6, <2>3
    <3> QED
      BY <2>1, <3>1, Zenon
  <2> QED
    BY <2>2, <2>3
<1>7. CASE prog_exit(exitcode) /\ UNCHANGED <<cpu, exitcode, hist>>
  <2>1. exitcode \in ExitCode /\ pc \in Pc /\ latched \in BOOLEAN
    BY DEF TypeOK
  <2>2. pc' = pc /\ latched' = latched /\ exitcode' = exitcode
    BY <1>7 DEF cpu
  <2>3. at' = "exit" /\ status' \in ExitCode
    BY <1>3, <1>7, <2>1
  <2> QED
    BY <1>7, <2>1, <2>2, <2>3
<1> QED
  BY <1>4, <1>5, <1>6, <1>7

LEMMA StepType ==
  ASSUME TypeOK, NEW next, NEW quit, srv32_step(next, quit),
         {next, quit} \subseteq {"loop", "stub", "test", "exit"}, UNCHANGED <<mode, dbg, stub>>
  PROVE  TypeOK'
<1>1. /\ pc' \in Pc /\ latched' \in BOOLEAN /\ exitcode' \in ExitCode
      /\ at' \in {"loop", "stub", "test", "exit"}
      /\ status' = status \/ status' \in ExitCode
  BY StepCases
<1>2. UNCHANGED <<mode, dbg, bps, is_interrupted, reader>>
  BY DEF stub
<1> QED
  BY <1>1, <1>2 DEF TypeOK, InCont

Debugger == [running : BOOLEAN, until_pc : Pc, count : 0 .. MaxCount, count_en : BOOLEAN,
             cmd_last : Commands]

LEMMA RunningTestType ==
  ASSUME NEW d \in Debugger PROVE RunningTest(d) \in Debugger
<1> DEFINE u == IF d.until_pc = pc THEN [d EXCEPT !.running = FALSE, !.until_pc = 0] ELSE d
<1>1. u \in Debugger /\ u.count = d.count
  BY SessionAssumption DEF Debugger
<1>2. d.count > 1 => [u EXCEPT !.count = @ - 1] \in Debugger
  BY <1>1, SessionAssumption DEF Debugger
<1>3. [u EXCEPT !.running = FALSE, !.count_en = FALSE] \in Debugger
  BY <1>1 DEF Debugger
<1>4. RunningTest(d) = CASE ~d.running -> d
                         [] d.running /\ d.count_en /\ d.count <= 1 ->
                              [u EXCEPT !.running = FALSE, !.count_en = FALSE]
                         [] d.running /\ d.count_en /\ d.count > 1 -> [u EXCEPT !.count = @ - 1]
                         [] OTHER -> u
  BY DEF RunningTest
<1>5. d.count \in Int
  BY DEF Debugger
<1> HIDE DEF u
<1> QED
  BY <1>1, <1>2, <1>3, <1>4, <1>5

\* The command that runs: the line, or the one before it.
LEMMA RepeatedType ==
  ASSUME TypeOK, NEW line \in Commands \cup {Empty} PROVE Repeated(line) \in Commands
BY DEF TypeOK, Repeated

LEMMA CommandCases ==
  ASSUME NEW c \in Commands
  PROVE  /\ c.name \in {"until", "step", "look", "quit", "unknown"}
         /\ c.name = "until" => c.arg \in Pc
         /\ c.name = "step" => c.arg \in 0 .. MaxCount
BY DEF Commands

LEMMA CommandType ==
  ASSUME TypeOK, NEW line \in Commands \cup {Empty}, Command(line) PROVE TypeOK'
<1> DEFINE c == Repeated(line)
           d == [dbg EXCEPT !.cmd_last = Kept(line)]
<1>1. c \in Commands /\ Kept(line) = c
  BY RepeatedType DEF Kept
<1>2. dbg \in Debugger
  BY DEF TypeOK, Debugger
<1>3. d \in Debugger
  BY <1>1, <1>2 DEF Debugger
<1>4. UNCHANGED <<mode, pc, latched, exitcode, bps, is_interrupted, reader>>
  BY DEF Command, core, cpu, stub
<1>5. CASE c.name = "quit"
  <2>1. dbg' = d /\ at' = "exit" /\ status' = IF mode = "debug" THEN 0 ELSE exitcode
    BY <1>5 DEF Command, prog_exit
  <2>2. status' \in ExitCode
    BY <2>1, SessionAssumption DEF TypeOK
  <2> QED
    BY <1>3, <1>4, <2>1, <2>2 DEF TypeOK, Debugger
<1>6. CASE c.name = "until"
  <2>1. /\ dbg' = [d EXCEPT !.until_pc = c.arg, !.count_en = FALSE, !.running = TRUE]
        /\ at' = "step" /\ status' = status
    BY <1>6 DEF Command
  <2>2. dbg' \in Debugger
    BY <1>1, <1>3, <1>6, <2>1, CommandCases DEF Debugger
  <2> QED
    BY <1>4, <2>1, <2>2 DEF TypeOK, Debugger
<1>7. CASE c.name = "step"
  <2>1. /\ dbg' = [d EXCEPT !.count = c.arg, !.count_en = TRUE, !.running = c.arg > 1]
        /\ at' = "step" /\ status' = status
    BY <1>7 DEF Command
  <2>2. (c.arg > 1) \in BOOLEAN
    OBVIOUS
  <2>3. dbg' \in Debugger
    BY <1>1, <1>3, <1>7, <2>1, <2>2, CommandCases DEF Debugger
  <2> QED
    BY <1>4, <2>1, <2>3 DEF TypeOK, Debugger
<1>8. CASE c.name \notin {"quit", "until", "step"}
  <2>1. dbg' = d /\ at' = at /\ status' = status
    BY <1>8 DEF Command
  <2> QED
    BY <1>3, <1>4, <2>1 DEF TypeOK, Debugger
<1> QED
  BY <1>5, <1>6, <1>7, <1>8

\* The packets of the client and the reader thread leave the debugger alone.
StubAction ==
  \/ \E a \in Pc, type \in {"BP_SOFTWARE", "BP_HARDWARE"} : srv_set_bp(a, type) \/ srv_del_bp(a, type)
  \/ \E v \in Pc : srv_write_reg(v)
  \/ Detach \/ srv_cont \/ ContTest \/ ContFind \/ ContClear
  \/ Receive \/ srv_on_interrupt
StepAction == Step \/ srv_stepi \/ ContStep
MainAction == Boot \/ Loop \/ Debug

LEMMA NextCases ==
  ASSUME Next
  PROVE  \/ MainAction \/ StepAction \/ StubAction
         \/ \E line \in Commands \cup {Empty} : Command(line)
BY Zenon DEF Next, MainAction, StepAction, StubAction

LEMMA StubType == ASSUME TypeOK, StubAction PROVE TypeOK'
<1>1. ASSUME NEW a \in Pc, NEW type, srv_set_bp(a, type) \/ srv_del_bp(a, type) PROVE TypeOK'
  BY <1>1 DEF srv_set_bp, srv_del_bp, TypeOK, core, cpu
<1>2. ASSUME NEW v \in Pc, srv_write_reg(v) PROVE TypeOK'
  BY <1>2 DEF srv_write_reg, TypeOK, core, stub
<1>3. CASE Detach
  BY <1>3, SessionAssumption DEF Detach, prog_exit, TypeOK, core, cpu, stub
<1>4. CASE srv_cont
  BY <1>4 DEF srv_cont, TypeOK, InCont, core, cpu, stub
<1>5. CASE ContTest
  BY <1>5 DEF ContTest, TypeOK, InCont, core, cpu
<1>6. CASE ContFind
  BY <1>6 DEF ContFind, TypeOK, InCont, core, cpu, stub
<1>7. CASE ContClear
  BY <1>7 DEF ContClear, TypeOK, core, cpu
<1>8. CASE Receive
  <2>1. reader.presses + 1 \in 0 .. MaxPress
    BY <1>8, SessionAssumption DEF Receive, TypeOK
  <2>2. reader' \in [got : BOOLEAN, presses : 0 .. MaxPress, stops : Nat]
    BY <1>8, <2>1 DEF Receive, TypeOK
  <2> QED
    BY <1>8, <2>2 DEF Receive, TypeOK, core, cpu
<1>9. CASE srv_on_interrupt
  BY <1>9 DEF srv_on_interrupt, TypeOK, core, cpu
<1> QED
  BY <1>1, <1>2, <1>3, <1>4, <1>5, <1>6, <1>7, <1>8, <1>9 DEF StubAction

LEMMA MainType == ASSUME TypeOK, MainAction PROVE TypeOK'
<1>1. CASE Boot
  BY <1>1, SessionAssumption DEF Boot, TypeOK, stub
<1>2. CASE Loop
  BY <1>2 DEF Loop, TypeOK, core, cpu, stub
<1>3. CASE Debug
  <2>1. dbg' \in Debugger
    BY <1>3, RunningTestType DEF Debug, TypeOK, Debugger
  <2> QED
    BY <1>3, <2>1 DEF Debug, TypeOK, Debugger, core, cpu, stub
<1> QED
  BY <1>1, <1>2, <1>3 DEF MainAction

LEMMA StepActionType == ASSUME TypeOK, StepAction PROVE TypeOK'
<1>1. CASE Step
  BY <1>1, StepType DEF Step, core
<1>2. CASE srv_stepi
  BY <1>2, StepType DEF srv_stepi, core
<1>3. CASE ContStep
  BY <1>3, StepType DEF ContStep, core
<1> QED
  BY <1>1, <1>2, <1>3 DEF StepAction

LEMMA NextType == ASSUME TypeOK, Next PROVE TypeOK'
BY NextCases, StubType, MainType, StepActionType, CommandType

\* What an instruction adds to the history: only one that ran where the caller saw
\* the pc is in "ran".
LEMMA NotedFacts ==
  ASSUME TypeOK, HistType, NEW run \in RunsAt, Noted(run)
  PROVE  /\ HistType' /\ hist'.cmd = hist.cmd
         /\ hist'.done = Cap(hist.done + 1) /\ hist'.done > 0
         /\ hist'.ran \subseteq hist.ran \cup {pc}
         /\ at = "step" /\ hist.done = 0 => hist'.ran = hist.ran
<1>1. run \in Pc /\ (~Redirected => run = pc)
  BY DEF RunsAt, TypeOK
<1>2. hist \in [cmd : Commands \cup {Cont}, done : Nat, ran : SUBSET Pc]
  BY DEF HistType, Histories
<1>3. hist' = [hist EXCEPT
                 !.done = Cap(hist.done + 1),
                 !.ran  = IF Redirected \/ (at = "step" /\ hist.done = 0)
                          THEN hist.ran ELSE hist.ran \cup {run}]
  BY <1>2 DEF Noted
<1>4. Cap(hist.done + 1) \in Nat /\ Cap(hist.done + 1) > 0
  BY <1>2, SessionAssumption DEF Cap
<1>5. /\ hist'.cmd = hist.cmd /\ hist'.done = Cap(hist.done + 1)
      /\ hist'.ran = IF Redirected \/ (at = "step" /\ hist.done = 0)
                     THEN hist.ran ELSE hist.ran \cup {run}
  BY <1>2, <1>3
<1>6. hist' \in [cmd : Commands \cup {Cont}, done : Nat, ran : SUBSET Pc]
  BY <1>1, <1>2, <1>3, <1>4
<1> QED
  BY <1>1, <1>4, <1>5, <1>6 DEF HistType, Histories

LEMMA FreshType == ASSUME NEW c \in Commands \cup {Cont} PROVE Fresh(c) \in Histories
BY DEF Fresh, Histories

LEMMA NextHist == ASSUME TypeOK, HistType, Next PROVE HistType'
<1>1. CASE StepAction
  <2>1. \/ \E run \in RunsAt : Noted(run)
        \/ hist' = hist
    BY <1>1, StepCases DEF StepAction, Step, srv_stepi, ContStep
  <2> QED
    BY <2>1, NotedFacts DEF HistType
<1>2. ASSUME NEW line \in Commands \cup {Empty}, Command(line) PROVE HistType'
  <2>1. Repeated(line) \in Commands
    BY RepeatedType
  <2>2. hist' = hist \/ hist' = Fresh(Repeated(line))
    BY <1>2 DEF Command
  <2> QED
    BY <2>1, <2>2, FreshType DEF HistType
<1>3. CASE srv_cont
  BY <1>3, FreshType DEF srv_cont, HistType, Cont
<1>4. CASE MainAction \/ (StubAction /\ ~srv_cont)
  <2>1. hist' = hist
    BY <1>4 DEF MainAction, Boot, Loop, Debug, StubAction, srv_set_bp, srv_del_bp, srv_write_reg, Detach,
                ContTest, ContFind, ContClear, Receive, srv_on_interrupt
  <2> QED
    BY <2>1 DEF HistType
<1> QED
  BY <1>1, <1>2, <1>3, <1>4, NextCases

-----------------------------------------------------------------------------
(* The file. *)

LEMMA GoneIsNoFile == Gone \notin Files
<1>1. ASSUME NEW f \in Files PROVE f.kind \in Kinds
  BY DEF Files, Kinds
<1> QED
  BY <1>1 DEF Gone, Kinds

LEMMA NextFile == ASSUME TypeOK, FileInv, Next PROVE FileInv'
<1>1. CASE Boot
  <2> DEFINE r == IssLoad(file)
  <2>1. at = "load" /\ file \in Files /\ file # Gone
    BY <1>1, GoneIsNoFile DEF Boot, FileInv
  <2>2. CASE r.status = "okay"
    BY <1>1, <2>2 DEF Boot, FileInv
  <2>3. CASE r.status # "okay"
    <3>1. at' = "exit" /\ file' = file
      BY <1>1, <2>3 DEF Boot
    <3> QED
      BY <2>1, <2>3, <3>1 DEF FileInv
  <2> QED
    BY <2>2, <2>3
<1>2. CASE StepAction
  <2>1. file = Gone /\ file' = file
    BY <1>2 DEF StepAction, Step, srv_stepi, ContStep, FileInv, core
  <2>2. at' \in {"loop", "stub", "test", "exit"}
    BY <1>2, StepCases DEF StepAction, Step, srv_stepi, ContStep
  <2> QED
    BY <2>1, <2>2 DEF FileInv
<1>3. ASSUME NEW line \in Commands \cup {Empty}, Command(line) PROVE FileInv'
  <2>1. at = "prompt" /\ file = Gone /\ file' = file
    BY <1>3 DEF Command, FileInv, core
  <2>2. at' \in {"step", "prompt", "exit"}
    BY <1>3, <2>1 DEF Command, prog_exit
  <2> QED
    BY <2>1, <2>2 DEF FileInv
<1>4. CASE Detach
  BY <1>4 DEF Detach, prog_exit, FileInv, core
<1>5. CASE Loop \/ Debug \/ (StubAction /\ ~Detach)
  <2>1. file' = file
    BY <1>5 DEF Loop, Debug, StubAction, srv_set_bp, srv_del_bp, srv_write_reg, srv_cont, ContTest,
                ContFind, ContClear, Receive, srv_on_interrupt, core
  <2>2. at # "exit" /\ at' # "exit" /\ (at' = "load" <=> at = "load")
    BY <1>5 DEF Loop, Debug, StubAction, srv_set_bp, srv_del_bp, srv_write_reg, srv_cont, ContTest,
                ContFind, ContClear, Receive, srv_on_interrupt, core, InCont
  <2> QED
    BY <2>1, <2>2 DEF FileInv
<1> QED
  BY <1>1, <1>2, <1>3, <1>4, <1>5, NextCases DEF MainAction

-----------------------------------------------------------------------------
(* cont, its breakpoints and the client's interrupts. *)

LEMMA NextCont ==
  ASSUME TypeOK, HistType, ContInv, BreakpointsHold, Next PROVE ContInv' /\ BreakpointsHold'
<1>1. CASE MainAction
  <2>1. at' \notin InCont
    BY <1>1 DEF MainAction, Boot, Loop, Debug, InCont
  <2> QED
    BY <2>1 DEF ContInv, BreakpointsHold, InCont
<1>2. CASE Step \/ srv_stepi
  <2>1. at' \in {"loop", "stub", "exit"}
    BY <1>2, StepCases DEF Step, srv_stepi
  <2> QED
    BY <2>1 DEF ContInv, BreakpointsHold, InCont
<1>3. CASE ContStep
  <2>1. at = "run" /\ bps' = bps
    BY <1>3 DEF ContStep, stub
  <2>2. at' = "exit" \/ (at' = "test" /\ hist'.ran \subseteq hist.ran \cup {pc})
    BY <1>3, StepCases, NotedFacts DEF ContStep
  <2>3. hist.ran \cap bps = {} /\ pc \notin bps
    BY <2>1 DEF ContInv, BreakpointsHold, InCont
  <2> QED
    BY <2>1, <2>2, <2>3 DEF ContInv, BreakpointsHold, InCont
<1>4. CASE \E line \in Commands \cup {Empty} : Command(line)
  <2>1. at' \in {"prompt", "step", "exit"}
    BY <1>4 DEF Command, prog_exit
  <2> QED
    BY <2>1 DEF ContInv, BreakpointsHold, InCont
<1>5. CASE srv_cont
  BY <1>5 DEF srv_cont, ContInv, BreakpointsHold, InCont, Fresh
<1>6. CASE ContTest
  <2>1. /\ at = "test" /\ at' \in {"clear", "find"} /\ (at' = "clear" => is_interrupted)
        /\ bps' = bps /\ hist' = hist /\ is_interrupted' = is_interrupted
    BY <1>6 DEF ContTest
  <2> QED
    BY <2>1 DEF ContInv, BreakpointsHold, InCont
<1>7. CASE ContFind
  <2>1. /\ at = "find" /\ at' = IF pc \in bps THEN "clear" ELSE "run"
        /\ bps' = bps /\ hist' = hist /\ pc' = pc
    BY <1>7 DEF ContFind, stub, cpu
  <2>2. hist'.ran \cap bps' = {}
    BY <2>1 DEF BreakpointsHold, InCont
  <2>3. (at' = "run" => pc' \notin bps') /\ (at' = "clear" => pc' \in bps')
    BY <2>1
  <2>4. ContInv'
    BY <2>3 DEF ContInv
  <2>5. BreakpointsHold'
    BY <2>2, <2>3, Zenon DEF BreakpointsHold
  <2> QED
    BY <2>4, <2>5
<1>8. CASE Receive \/ srv_on_interrupt
  BY <1>8 DEF Receive, srv_on_interrupt, ContInv, BreakpointsHold, cpu
<1>9. CASE StubAction
  <2>1. \/ at' \in {"stub", "exit"} \/ srv_cont \/ ContTest \/ ContFind \/ Receive \/ srv_on_interrupt
    BY <1>9 DEF StubAction, srv_set_bp, srv_del_bp, srv_write_reg, Detach, prog_exit, ContClear
  <2> QED
    BY <2>1, <1>5, <1>6, <1>7, <1>8 DEF ContInv, BreakpointsHold, InCont
<1> QED
  BY <1>1, <1>2, <1>3, <1>4, <1>9, NextCases DEF StepAction

\* Only the reader adds to the count, and only together with a press; the stop of
\* a cont takes over the interrupt that caused it.
LEMMA NextInterrupt == ASSUME TypeOK, InterruptInv, Next PROVE InterruptInv'
<1>0. reader \in [got : BOOLEAN, presses : Nat, stops : Nat] /\ is_interrupted \in BOOLEAN
  BY SessionAssumption DEF TypeOK
<1>1. CASE ContTest
  <2>1. CASE is_interrupted
    BY <1>0, <1>1, <2>1 DEF ContTest, InterruptInv, Bit
  <2>2. CASE ~is_interrupted
    BY <1>0, <1>1, <2>2 DEF ContTest, InterruptInv, Bit
  <2> QED
    BY <2>1, <2>2
<1>2. CASE Receive
  BY <1>0, <1>2 DEF Receive, InterruptInv, Bit
<1>3. CASE srv_on_interrupt
  BY <1>0, <1>3 DEF srv_on_interrupt, InterruptInv, Bit
<1>4. CASE ContClear
  BY <1>0, <1>4 DEF ContClear, InterruptInv, Bit
<1>5. CASE /\ UNCHANGED <<reader, is_interrupted>> /\ at # "clear"
  BY <1>0, <1>5 DEF InterruptInv, Bit
<1>6. CASE StubAction
  <2>1. \/ ContTest \/ Receive \/ srv_on_interrupt \/ ContClear
        \/ UNCHANGED <<reader, is_interrupted>> /\ at # "clear"
    BY <1>6 DEF StubAction, srv_set_bp, srv_del_bp, srv_write_reg, Detach, srv_cont, ContFind, stub
  <2> QED
    BY <2>1, <1>1, <1>2, <1>3, <1>4, <1>5
<1>7. CASE MainAction \/ StepAction \/ \E line \in Commands \cup {Empty} : Command(line)
  <2>1. UNCHANGED <<reader, is_interrupted>> /\ at # "clear"
    BY <1>7 DEF MainAction, Boot, Loop, Debug, StepAction, Step, srv_stepi, ContStep, Command, stub
  <2> QED
    BY <1>5, <2>1
<1> QED
  BY <1>6, <1>7, NextCases

-----------------------------------------------------------------------------
(* The interactive debugger. *)

\* An instruction under "step n": one more has run, the count is not touched yet.
LEMMA StepStep ==
  ASSUME TypeOK, HistType, at = "step", at' = "loop", NEW run \in RunsAt, Noted(run), dbg' = dbg, StepInv
  PROVE  StepInv'
<1>1. hist.done \in Nat /\ dbg.count \in Nat /\ dbg.running \in BOOLEAN
  BY DEF HistType, Histories, TypeOK
<1>2. hist'.cmd = hist.cmd /\ hist'.done = Cap(hist.done + 1) /\ hist'.done > 0
  BY NotedFacts
<1>3. CASE dbg.running
  <2>1. hist.done + 1 <= MaxCount
    BY <1>1, <1>3, SessionAssumption DEF StepInv, Bit
  <2>2. hist'.done = hist.done + 1
    BY <1>1, <1>2, <2>1, SessionAssumption DEF Cap
  <2> QED
    BY <1>1, <1>2, <1>3, <2>2 DEF StepInv, Bit
<1>4. CASE ~dbg.running
  <2>1. hist.done = 0
    BY <1>4 DEF StepInv, Bit
  <2>2. hist'.done = 1
    BY <1>2, <2>1, SessionAssumption DEF Cap
  <2> QED
    BY <1>2, <1>4, <2>2 DEF StepInv, Bit
<1> QED
  BY <1>3, <1>4

\* An instruction under "until v": debug() has seen it to be at v only if it was the first.
LEMMA StepUntil ==
  ASSUME TypeOK, HistType, at = "step", at' = "loop", NEW run \in RunsAt, Noted(run), dbg' = dbg, UntilInv
  PROVE  UntilInv'
<1>1. hist.done \in Nat
  BY DEF HistType, Histories
<1>2. /\ hist'.cmd = hist.cmd /\ hist'.done > 0 /\ hist'.ran \subseteq hist.ran \cup {pc}
      /\ hist.done = 0 => hist'.ran = hist.ran
  BY NotedFacts
<1>3. hist.cmd.arg \notin hist'.ran
  BY <1>1, <1>2 DEF UntilInv
<1> QED
  BY <1>2, <1>3 DEF UntilInv

LEMMA StepDebug ==
  ASSUME TypeOK, HistType, DebugInv, Step PROVE DebugInv' /\ StopsWhereAsked'
<1>1. at = "step" /\ mode' = mode /\ dbg' = dbg
  BY DEF Step, core
<1>2. at' = "exit" \/ (at' = "loop" /\ \E run \in RunsAt : Noted(run))
  BY StepCases DEF Step
<1>3. CASE at' = "exit"
  BY <1>3 DEF DebugInv, StopsWhereAsked
<1>4. ASSUME at' = "loop", NEW run \in RunsAt, Noted(run) PROVE DebugInv' /\ StopsWhereAsked'
  <2>1. hist'.cmd = hist.cmd
    BY <1>4, NotedFacts
  <2>2. CASE mode # "debug"
    BY <1>1, <1>4, <2>2 DEF DebugInv, StopsWhereAsked
  <2>3. CASE mode = "debug"
    <3>1. hist.cmd.name \in {"step", "until"}
      BY <1>1, <2>3 DEF DebugInv
    <3>2. hist.cmd.name = "step" => StepInv'
      BY <1>1, <1>4, <2>3, StepStep DEF DebugInv
    <3>3. hist.cmd.name = "until" => UntilInv'
      BY <1>1, <1>4, <2>3, StepUntil DEF DebugInv
    <3> QED
      BY <1>4, <2>1, <3>1, <3>2, <3>3 DEF DebugInv, StopsWhereAsked
  <2> QED
    BY <2>2, <2>3
<1> QED
  BY <1>2, <1>3, <1>4

\* The block "if (running)", case by case.
LEMMA RunningTestCases ==
  ASSUME NEW d \in Debugger
  PROVE  /\ ~d.running => RunningTest(d) = d
         /\ d.running => RunningTest(d).until_pc = IF d.until_pc = pc THEN 0 ELSE d.until_pc
         /\ d.running /\ d.count_en /\ d.count <= 1 => ~RunningTest(d).running
         /\ d.running /\ d.count_en /\ d.count > 1 =>
              /\ RunningTest(d).running = (d.until_pc # pc)
              /\ RunningTest(d).count_en /\ RunningTest(d).count = d.count - 1
         /\ d.running /\ ~d.count_en =>
              /\ RunningTest(d).running = (d.until_pc # pc)
              /\ ~RunningTest(d).count_en
<1> DEFINE u == IF d.until_pc = pc THEN [d EXCEPT !.running = FALSE, !.until_pc = 0] ELSE d
<1>1. /\ u \in Debugger /\ u.count = d.count /\ u.count_en = d.count_en
      /\ u.until_pc = IF d.until_pc = pc THEN 0 ELSE d.until_pc
      /\ d.running => u.running = (d.until_pc # pc)
  BY SessionAssumption DEF Debugger
<1>2. d.count \in Int
  BY DEF Debugger
<1>3. ~d.running => RunningTest(d) = d
  BY DEF RunningTest
<1>4. d.running /\ d.count_en /\ d.count <= 1 =>
        RunningTest(d) = [u EXCEPT !.running = FALSE, !.count_en = FALSE]
  BY <1>2 DEF RunningTest
<1>5. d.running /\ d.count_en /\ d.count > 1 => RunningTest(d) = [u EXCEPT !.count = @ - 1]
  BY <1>2 DEF RunningTest
<1>6. d.running /\ ~d.count_en => RunningTest(d) = u
  BY DEF RunningTest
<1> HIDE DEF u
<1>7. CASE ~d.running
  BY <1>3, <1>7
<1>8. CASE d.running /\ d.count_en /\ d.count <= 1
  <2>1. ~RunningTest(d).running /\ RunningTest(d).until_pc = u.until_pc
    BY <1>1, <1>4, <1>8 DEF Debugger
  <2> QED
    BY <1>1, <1>2, <1>8, <2>1
<1>9. CASE d.running /\ d.count_en /\ d.count > 1
  <2>1. /\ RunningTest(d).running = u.running /\ RunningTest(d).until_pc = u.until_pc
        /\ RunningTest(d).count_en = u.count_en /\ RunningTest(d).count = u.count - 1
    BY <1>1, <1>5, <1>9 DEF Debugger
  <2> QED
    BY <1>1, <1>2, <1>9, <2>1
<1>10. CASE d.running /\ ~d.count_en
  BY <1>1, <1>6, <1>10 DEF Debugger
<1> QED
  BY <1>2, <1>7, <1>8, <1>9, <1>10

LEMMA DebugDebug ==
  ASSUME TypeOK, HistType, DebugInv, Debug PROVE DebugInv' /\ StopsWhereAsked'
<1>1. /\ at = "loop" /\ mode = "debug" /\ mode' = mode /\ pc' = pc /\ hist' = hist
      /\ dbg' = RunningTest(dbg) /\ at' = IF dbg'.running THEN "step" ELSE "prompt"
  BY DEF Debug, core, cpu
<1>2. dbg \in Debugger /\ hist.done \in Nat /\ dbg.count \in Int
  BY DEF TypeOK, Debugger, HistType, Histories
<1>3. CASE hist.cmd.name = "unknown"
  <2>1. Idle
    BY <1>1, <1>3 DEF DebugInv
  <2>2. dbg' = dbg /\ at' = "prompt"
    BY <1>1, <1>2, <2>1, RunningTestCases DEF Idle
  <2> QED
    BY <1>1, <1>3, <2>1, <2>2 DEF DebugInv, StopsWhereAsked, Idle
<1>4. CASE hist.cmd.name = "step"
  <2>1. StepInv
    BY <1>1, <1>4 DEF DebugInv
  <2>2. hist.cmd.arg \in Nat /\ dbg.until_pc = 0 /\ hist.done > 0
    BY <1>1, <2>1, SessionAssumption DEF StepInv
  <2>3. CASE ~dbg.running
    <3>1. dbg' = dbg /\ at' = "prompt"
      BY <1>1, <1>2, <2>3, RunningTestCases
    <3>2. hist.cmd.arg <= 1 /\ hist.done = 1
      BY <1>1, <2>1, <2>3 DEF StepInv, Bit
    <3> QED
      BY <1>1, <1>4, <2>2, <2>3, <3>1, <3>2 DEF DebugInv, StopsWhereAsked
  <2>4. CASE dbg.running
    <3>1. /\ hist.cmd.arg > 1 /\ dbg.count_en /\ dbg.count >= 1
          /\ hist.done + dbg.count = hist.cmd.arg + 1
      BY <1>1, <2>1, <2>4 DEF StepInv, Bit
    <3>2. dbg'.until_pc = 0
      BY <1>1, <1>2, <2>2, <2>4, RunningTestCases
    <3>3. CASE dbg.count <= 1
      <4>1. ~dbg'.running /\ at' = "prompt"
        BY <1>1, <1>2, <2>4, <3>1, <3>3, RunningTestCases
      <4>2. hist.done = hist.cmd.arg
        BY <1>2, <2>2, <3>1, <3>3
      <4> QED
        BY <1>1, <1>4, <3>1, <3>2, <4>1, <4>2 DEF DebugInv, StopsWhereAsked
    <3>4. CASE dbg.count > 1 /\ pc = 0
      <4>1. ~dbg'.running /\ at' = "prompt"
        BY <1>1, <1>2, <2>2, <2>4, <3>1, <3>4, RunningTestCases
      <4>2. hist.done \in 1 .. hist.cmd.arg
        BY <1>2, <2>2, <3>1, <3>4
      <4> QED
        BY <1>1, <1>4, <3>1, <3>2, <3>4, <4>1, <4>2 DEF DebugInv, StopsWhereAsked
    <3>5. CASE dbg.count > 1 /\ pc # 0
      <4>1. dbg'.running /\ at' = "step" /\ dbg'.count_en /\ dbg'.count = dbg.count - 1
        BY <1>1, <1>2, <2>2, <2>4, <3>1, <3>5, RunningTestCases
      <4>2. hist.done + dbg'.count = hist.cmd.arg /\ dbg'.count >= 1
        BY <1>2, <2>2, <3>1, <3>5, <4>1
      <4>3. StepInv'
        BY <1>1, <2>1, <3>1, <3>2, <4>1, <4>2 DEF StepInv, Bit
      <4> QED
        BY <1>1, <1>4, <4>1, <4>3 DEF DebugInv, StopsWhereAsked
    <3> QED
      BY <1>2, <3>3, <3>4, <3>5
  <2> QED
    BY <2>3, <2>4
<1>5. CASE hist.cmd.name = "until"
  <2>1. UntilInv
    BY <1>1, <1>5 DEF DebugInv
  <2>2. /\ dbg'.running = (pc # hist.cmd.arg) /\ ~dbg'.count_en
        /\ dbg'.until_pc = IF pc = hist.cmd.arg THEN 0 ELSE hist.cmd.arg
    BY <1>1, <1>2, <2>1, RunningTestCases DEF UntilInv
  <2>3. CASE pc = hist.cmd.arg
    <3>1. ~dbg'.running /\ at' = "prompt" /\ dbg'.until_pc = 0
      BY <1>1, <2>2, <2>3
    <3> QED
      BY <1>1, <1>5, <2>1, <2>3, <3>1 DEF DebugInv, StopsWhereAsked, UntilInv
  <2>4. CASE pc # hist.cmd.arg
    <3>1. dbg'.running /\ at' = "step" /\ dbg'.until_pc = hist.cmd.arg
      BY <1>1, <2>2, <2>4
    <3>2. UntilInv'
      BY <1>1, <2>1, <2>2, <2>4, <3>1 DEF UntilInv
    <3> QED
      BY <1>1, <1>5, <3>1, <3>2 DEF DebugInv, StopsWhereAsked
  <2> QED
    BY <2>3, <2>4
<1> QED
  BY <1>1, <1>3, <1>4, <1>5 DEF DebugInv

LEMMA CommandDebug ==
  ASSUME TypeOK, HistType, DebugInv, StopsWhereAsked,
         NEW line \in Commands \cup {Empty}, Command(line)
  PROVE  DebugInv' /\ StopsWhereAsked'
<1> DEFINE c == Repeated(line)
           d == [dbg EXCEPT !.cmd_last = Kept(line)]
<1>1. c \in Commands
  BY RepeatedType
<1>2. dbg \in Debugger /\ d \in Debugger /\ d.running = dbg.running /\ d.until_pc = dbg.until_pc
  BY <1>1 DEF TypeOK, Debugger, Kept
<1>3. at = "prompt" /\ mode = "debug" /\ mode' = mode /\ pc' = pc
  BY DEF Command, DebugInv, core, cpu
<1>4. ~dbg.running /\ dbg.until_pc = 0
  BY <1>3 DEF StopsWhereAsked
<1>5. CASE c.name = "quit"
  <2>1. at' = "exit"
    BY <1>5 DEF Command, prog_exit
  <2> QED
    BY <2>1 DEF DebugInv, StopsWhereAsked
<1>6. CASE c.name = "until"
  <2>1. /\ dbg' = [d EXCEPT !.until_pc = c.arg, !.count_en = FALSE, !.running = TRUE]
        /\ at' = "step" /\ hist' = Fresh(c)
    BY <1>6 DEF Command
  <2>2. dbg'.running /\ ~dbg'.count_en /\ dbg'.until_pc = c.arg
    BY <1>2, <2>1 DEF Debugger
  <2>3. hist'.cmd = c /\ hist'.done = 0 /\ hist'.ran = {} /\ c.arg \in Pc
    BY <1>1, <1>6, <2>1, CommandCases DEF Fresh
  <2>4. UntilInv'
    BY <2>1, <2>2, <2>3 DEF UntilInv
  <2> QED
    BY <1>3, <1>6, <2>1, <2>3, <2>4 DEF DebugInv, StopsWhereAsked
<1>7. CASE c.name = "step"
  <2>1. /\ dbg' = [d EXCEPT !.count = c.arg, !.count_en = TRUE, !.running = c.arg > 1]
        /\ at' = "step" /\ hist' = Fresh(c)
    BY <1>7 DEF Command
  <2>2. /\ dbg'.running = (c.arg > 1) /\ dbg'.count_en /\ dbg'.until_pc = 0
        /\ dbg'.count = c.arg
    BY <1>2, <1>4, <2>1 DEF Debugger
  <2>3. hist'.cmd = c /\ hist'.done = 0 /\ c.arg \in 0 .. MaxCount
    BY <1>1, <1>7, <2>1, CommandCases DEF Fresh
  <2>4. StepInv'
    <3>1. hist'.cmd.arg = c.arg /\ c.arg \in Int /\ 0 + c.arg = c.arg + 0
      BY <2>3
    <3>2. CASE c.arg > 1
      <4>1. dbg'.running
        BY <2>2, <3>2
      <4>2. at' # "loop"
        BY <2>1
      <4>3. hist'.done + dbg'.count = hist'.cmd.arg + Bit(at' = "loop")
        BY <2>2, <2>3, <3>1, <4>2 DEF Bit
      <4> QED
        BY <2>2, <2>3, <3>1, <3>2, <4>1, <4>2, <4>3 DEF StepInv
    <3>3. CASE ~(c.arg > 1)
      <4>1. ~dbg'.running
        BY <2>2, <3>3
      <4>2. c.arg <= 1 /\ at' # "loop"
        BY <2>1, <3>1, <3>3
      <4>3. hist'.done = Bit(at' = "loop")
        BY <2>3, <4>2 DEF Bit
      <4> QED
        BY <2>2, <2>3, <3>1, <4>1, <4>2, <4>3 DEF StepInv
    <3> QED
      BY <3>2, <3>3
  <2> QED
    BY <1>3, <1>7, <2>1, <2>3, <2>4 DEF DebugInv, StopsWhereAsked
<1>8. CASE c.name \notin {"quit", "until", "step"}
  <2>1. dbg' = d /\ at' = at /\ hist' = Fresh(c)
    BY <1>8 DEF Command
  <2>2. hist'.cmd = c
    BY <2>1 DEF Fresh
  <2> QED
    BY <1>2, <1>3, <1>4, <1>8, <2>1, <2>2 DEF DebugInv, StopsWhereAsked
<1> QED
  BY <1>5, <1>6, <1>7, <1>8

LEMMA NextDebug ==
  ASSUME TypeOK, HistType, DebugInv, StopsWhereAsked, Next PROVE DebugInv' /\ StopsWhereAsked'
<1>1. CASE Boot
  <2>1. /\ at = "load" /\ at' \in {"stub", "loop", "exit"} /\ UNCHANGED <<dbg, hist, mode>>
    BY <1>1 DEF Boot
  <2>2. Idle /\ hist.cmd.name = "unknown"
    BY <2>1 DEF DebugInv, Fresh, Unknown
  <2> QED
    BY <2>1, <2>2 DEF DebugInv, StopsWhereAsked, Idle
<1>2. CASE Loop
  BY <1>2 DEF Loop, DebugInv, StopsWhereAsked, core
<1>3. CASE srv_stepi \/ ContStep
  <2>1. at' \in {"stub", "test", "exit"}
    BY <1>3, StepCases DEF srv_stepi, ContStep
  <2> QED
    BY <2>1 DEF DebugInv, StopsWhereAsked
<1>4. CASE StubAction
  <2>1. \/ at' \in {"stub", "exit"} \cup InCont
        \/ at' = at /\ UNCHANGED <<mode, pc, dbg, hist>>
    BY <1>4 DEF StubAction, srv_set_bp, srv_del_bp, srv_write_reg, Detach, prog_exit, srv_cont,
                ContTest, ContFind, ContClear, Receive, srv_on_interrupt, InCont, core, cpu
  <2>2. CASE at' \in {"stub", "exit"} \cup InCont
    BY <2>2 DEF DebugInv, StopsWhereAsked, InCont
  <2>3. CASE at' = at /\ UNCHANGED <<mode, pc, dbg, hist>>
    BY <2>3 DEF DebugInv, StopsWhereAsked, StepInv, UntilInv, Idle
  <2> QED
    BY <2>1, <2>2, <2>3
<1> QED
  BY <1>1, <1>2, <1>3, <1>4, StepDebug, DebugDebug, CommandDebug, NextCases
  DEF MainAction, StepAction

-----------------------------------------------------------------------------
LEMMA SessionInvariant == Spec => []SessionInv
<1>1. Init => SessionInv
  <2> SUFFICES ASSUME Init PROVE SessionInv
    OBVIOUS
  <2>1. Unknown \in Commands
    BY DEF Unknown, Commands
  <2>2. TypeOK
    <3>1. dbg \in Debugger
      BY <2>1, SessionAssumption DEF Init, Debugger
    <3>2. reader \in [got : BOOLEAN, presses : 0 .. MaxPress, stops : Nat]
      BY SessionAssumption DEF Init
    <3> QED
      BY <3>1, <3>2, SessionAssumption DEF Init, TypeOK, Debugger
  <2>3. HistType
    BY <2>1, FreshType DEF Init, HistType
  <2>4. FileInv /\ ContInv
    BY DEF Init, FileInv, ContInv
  <2>5. InterruptInv
    BY DEF Init, InterruptInv, Bit
  <2>6. DebugInv
    BY DEF Init, DebugInv, Idle
  <2>7. StopsWhereAsked /\ BreakpointsHold
    BY DEF Init, StopsWhereAsked, BreakpointsHold, InCont
  <2> QED
    BY <2>2, <2>3, <2>4, <2>5, <2>6, <2>7 DEF SessionInv
<1>2. SessionInv /\ [Next]_vars => SessionInv'
  <2> SUFFICES ASSUME SessionInv, [Next]_vars PROVE SessionInv'
    OBVIOUS
  <2>1. CASE Next
    BY <2>1, NextType, NextHist, NextFile, NextCont, NextInterrupt, NextDebug DEF SessionInv
  <2>2. CASE UNCHANGED vars
    <3>1. TypeOK' /\ HistType' /\ FileInv' /\ ContInv' /\ InterruptInv'
      BY <2>2 DEF vars, SessionInv, TypeOK, HistType, FileInv, ContInv, InterruptInv
    <3>2. DebugInv'
      BY <2>2 DEF vars, SessionInv, DebugInv, Idle, StepInv, UntilInv
    <3>3. StopsWhereAsked' /\ BreakpointsHold'
      BY <2>2 DEF vars, SessionInv, StopsWhereAsked, BreakpointsHold
    <3> QED
      BY <3>1, <3>2, <3>3 DEF SessionInv
  <2> QED
    BY <2>1, <2>2
<1> QED
  BY <1>1, <1>2, PTL DEF Spec

\* The variables of main, of debug() and of the stub keep their types.
THEOREM SessionTypeCorrect == Spec => []TypeOK
<1>1. SessionInv => TypeOK
  BY DEF SessionInv
<1> QED
  BY <1>1, SessionInvariant, PTL

\* debug() comes back to its prompt after exactly the instructions that "step n"
\* asked for, or before the pc it sees is a second time the address of "until" (a
\* handler that a call of srv32_step enters by itself it does not see), for every
\* sequence of commands and repeated commands and every path of the program.
THEOREM StopsCorrect == Spec => []StopsWhereAsked
<1>1. SessionInv => StopsWhereAsked
  BY DEF SessionInv
<1> QED
  BY <1>1, SessionInvariant, PTL

\* srv_cont runs no instruction it finds to be at a breakpoint (all but those at the
\* entry of a handler that a call of srv32_step enters by itself), and comes back for
\* a reason, wherever the reader thread sets the flag in between.
THEOREM BreakpointsCorrect == Spec => []BreakpointsHold
<1>1. SessionInv => BreakpointsHold
  BY DEF SessionInv
<1> QED
  BY <1>1, SessionInvariant, PTL

\* One interrupt of the client ends at most one srv_cont, in every interleaving of
\* the thread that runs the program and the thread that sets the flag.
THEOREM InterruptsCorrect == Spec => []OneStopPerInterrupt
<1>1. SessionInv => OneStopPerInterrupt
  <2> SUFFICES ASSUME SessionInv PROVE OneStopPerInterrupt
    OBVIOUS
  <2>1. reader.stops \in Nat /\ reader.presses \in Int
    BY SessionAssumption DEF SessionInv, TypeOK
  <2> QED
    BY <2>1 DEF SessionInv, InterruptInv, OneStopPerInterrupt, Bit
<1> QED
  BY <1>1, SessionInvariant, PTL

-----------------------------------------------------------------------------
(* The loaders. *)

\* Induction, from the least number outside a set.
LEMMA SetInduction ==
  ASSUME NEW T, 0 \in T, \A n \in Nat : n \in T => n + 1 \in T PROVE Nat \subseteq T
<1> DEFINE R == OpToRel(<, Nat)
           S == Nat \ T
<1> SUFFICES ASSUME S # {} PROVE FALSE
  OBVIOUS
<1>1. IsWellFoundedOn(R, Nat)
  BY NatLessThanWellFounded
<1>2. \A x, y \in Nat : <<x, y>> \in R <=> x < y
  BY DEF OpToRel
<1> HIDE DEF R
<1>3. PICK m \in S : \A y \in S : ~(<<y, m>> \in R)
  BY <1>1, WFMin
<1>4. m # 0 /\ m - 1 \in Nat
  BY <1>3
<1>5. m - 1 \in S
  BY <1>3, <1>4
<1>6. <<m - 1, m>> \in R
  BY <1>2, <1>3, <1>4
<1> QED
  BY <1>3, <1>5, <1>6

\* A program header; a type other than PT_LOAD counts as a note.
Headers == [p_type : {"load", "note"}, p_vaddr : Nat, p_memsz : Nat, p_offset : Nat]
\* What a loader has done so far.
Results == [status : {"okay", "fail", "range"}, mem : [Address -> Int]]
Nothing(initial) == [status |-> "okay", mem |-> [a \in Address |-> initial]]

\* The segment s covers the address a.
Covers(s, a) == s.p_type = "load" /\ a \in s.p_vaddr .. s.p_vaddr + s.p_memsz - 1

\* One of the two loaders, its condition on a segment, and its loop.
LoadSegment(who, s, r) == IF who = "iss" THEN IssSegment(s, r) ELSE SimSegment(s, r)
Accepts(who, s) ==
  LET end == s.p_vaddr + s.p_memsz
  IN  s.p_type = "load" =>
        /\ freads(s)
        /\ IF who = "iss" THEN end <= 2 * MemSize
           ELSE end <= MemSize \/ (s.p_vaddr >= MemSize /\ end <= 2 * MemSize)
SegmentLoop(after, who, initial, phdr, n) ==
  after = [m \in 0 .. n |-> IF m = 0 THEN Nothing(initial) ELSE LoadSegment(who, phdr[m], after[m - 1])]

\* The recursion has a solution.
LEMMA LoopExists ==
  ASSUME NEW who, NEW initial, NEW phdr PROVE \A n \in Nat : \E after : SegmentLoop(after, who, initial, phdr, n)
<1> DEFINE T == {n \in Nat : \E after : SegmentLoop(after, who, initial, phdr, n)}
<1>1. 0 \in T
  <2> DEFINE f == [m \in 0 .. 0 |-> Nothing(initial)]
  <2>1. SegmentLoop(f, who, initial, phdr, 0)
    BY DEF SegmentLoop
  <2> QED
    BY <2>1
<1>2. ASSUME NEW n \in Nat, n \in T PROVE n + 1 \in T
  <2>1. PICK after : SegmentLoop(after, who, initial, phdr, n)
    BY <1>2
  <2> DEFINE f == [m \in 0 .. n + 1 |-> IF m = n + 1 THEN LoadSegment(who, phdr[n + 1], after[n]) ELSE after[m]]
  <2>2. \A m \in 0 .. n : after[m] = IF m = 0 THEN Nothing(initial) ELSE LoadSegment(who, phdr[m], after[m - 1])
    BY <2>1 DEF SegmentLoop
  <2>3. \A m \in 0 .. n + 1 : f[m] = IF m = 0 THEN Nothing(initial) ELSE LoadSegment(who, phdr[m], f[m - 1])
    BY <2>2
  <2>4. SegmentLoop(f, who, initial, phdr, n + 1)
    BY <2>3 DEF SegmentLoop
  <2> QED
    BY <2>4
<1> HIDE DEF T
<1>3. Nat \subseteq T
  BY <1>1, <1>2, SetInduction
<1> QED
  BY <1>3 DEF T

\* A file that has headers is what its loop leaves behind.
LEMMA LoadsByLoop ==
  ASSUME NEW f, f.kind \in {"elf32", "half"}, f.phdr # << >>, Len(f.phdr) \in Nat
  PROVE  /\ \E after : SegmentLoop(after, "iss", CLEAR, f.phdr, Len(f.phdr)) /\ IssLoad(f) = after[Len(f.phdr)]
         /\ \E after : SegmentLoop(after, "sim", HEAP, f.phdr, Len(f.phdr)) /\ SimLoad(f) = after[Len(f.phdr)]
<1>1. PICK g : SegmentLoop(g, "iss", CLEAR, f.phdr, Len(f.phdr))
  BY LoopExists
<1>2. PICK h : SegmentLoop(h, "sim", HEAP, f.phdr, Len(f.phdr))
  BY LoopExists
<1>3. f.kind \notin {"elf64", "other", "missing"}
  OBVIOUS
<1>4. \E after : SegmentLoop(after, "iss", CLEAR, f.phdr, Len(f.phdr)) /\ IssLoad(f) = after[Len(f.phdr)]
  BY <1>1, <1>3 DEF IssLoad, Loaded, SegmentLoop, LoadSegment, Nothing
<1>5. \E after : SegmentLoop(after, "sim", HEAP, f.phdr, Len(f.phdr)) /\ SimLoad(f) = after[Len(f.phdr)]
  BY <1>2, <1>3 DEF SimLoad, Loaded, SegmentLoop, LoadSegment, Nothing
<1> QED
  BY <1>4, <1>5

\* One segment: the loader goes on if it accepts it, and writes what it covers.
LEMMA OneSegment ==
  ASSUME NEW who \in {"iss", "sim"}, NEW s \in Headers, NEW r \in Results
  PROVE  /\ LoadSegment(who, s, r) \in Results
         /\ LoadSegment(who, s, r).status = "okay" <=> r.status = "okay" /\ Accepts(who, s)
         /\ LoadSegment(who, s, r).status = "okay" =>
              \A x \in Address : LoadSegment(who, s, r).mem[x] =
                IF Covers(s, x) THEN s.p_offset + (x - s.p_vaddr) ELSE r.mem[x]
<1>1. /\ s.p_vaddr \in Nat /\ s.p_memsz \in Nat /\ s.p_offset \in Nat /\ MemSize \in Nat /\ FileSize \in Nat
  BY LoaderAssumption DEF Headers
<1>2. Address \subseteq Int
  BY DEF Address
<1>3. Copied(r.mem, s) \in [Address -> Int]
  BY <1>1, <1>2 DEF Copied, Results
<1>4. Copy(r, s) \in Results
  BY <1>3 DEF Copy, Results
<1>5. \A t \in {"fail", "range"} : Then(r, t) \in Results /\ Then(r, t).status # "okay"
  BY DEF Then, Results
<1>6. Copy(r, s).status = "okay" <=> r.status = "okay"
  BY DEF Copy, Results
<1>7. r.status = "okay" => Copy(r, s).mem = Copied(r.mem, s)
  BY DEF Copy, Results
<1> DEFINE q == LoadSegment(who, s, r)
<1>8. CASE s.p_type # "load"
  <2>1. q = r
    BY <1>8 DEF LoadSegment, IssSegment, SimSegment
  <2> QED
    BY <1>8, <2>1 DEF Accepts, Covers
<1>9. CASE s.p_type = "load" /\ Accepts(who, s)
  <2>1. q = Copy(r, s)
    BY <1>1, <1>9 DEF LoadSegment, IssSegment, SimSegment, Accepts
  <2>2. \A x \in Address : Copied(r.mem, s)[x] = IF Covers(s, x) THEN s.p_offset + (x - s.p_vaddr) ELSE r.mem[x]
    BY <1>9 DEF Copied, Covers
  <2> QED
    BY <1>4, <1>6, <1>7, <1>9, <2>1, <2>2
<1>10. CASE s.p_type = "load" /\ ~Accepts(who, s)
  <2>1. q \in {Then(r, "fail"), Then(r, "range")}
    <3>1. CASE who = "iss"
      <4>1. ~freads(s) \/ (freads(s) /\ s.p_vaddr + s.p_memsz > 2 * MemSize)
        BY <1>1, <1>10, <3>1 DEF Accepts
      <4>2. q = IssSegment(s, r)
        BY <3>1 DEF LoadSegment
      <4> QED
        BY <1>10, <4>1, <4>2 DEF IssSegment
    <3>2. CASE who = "sim"
      <4> DEFINE end == s.p_vaddr + s.p_memsz
                 inside == end <= MemSize \/ (s.p_vaddr >= MemSize /\ end <= 2 * MemSize)
      <4>1. ~inside \/ (inside /\ ~freads(s))
        BY <1>10, <3>2 DEF Accepts
      <4>2. q = SimSegment(s, r)
        BY <3>2 DEF LoadSegment
      <4> QED
        BY <1>10, <4>1, <4>2 DEF SimSegment
    <3> QED
      BY <3>1, <3>2
  <2> QED
    BY <1>5, <1>10, <2>1
<1> QED
  BY <1>8, <1>9, <1>10

\* Some segment covers x, the last of those is k, and x holds its byte; or none does.
Holds(phdr, n, mem, x, initial) ==
  \/ (\A k \in 1 .. n : ~Covers(phdr[k], x)) /\ mem[x] = initial
  \/ \E k \in 1 .. n : /\ Covers(phdr[k], x) /\ \A j \in 1 .. n : Covers(phdr[j], x) => j <= k
                       /\ mem[x] = phdr[k].p_offset + (x - phdr[k].p_vaddr)

\* The loop: all segments so far were accepted, and the last one that covers an
\* address has given it its byte.
LEMMA LoopResult ==
  ASSUME NEW who \in {"iss", "sim"}, NEW initial \in Int, NEW phdr \in Seq(Headers), NEW after,
         SegmentLoop(after, who, initial, phdr, Len(phdr))
  PROVE  LET r == after[Len(phdr)]
         IN  /\ r.status = "okay" <=> \A k \in 1 .. Len(phdr) : Accepts(who, phdr[k])
             /\ r.status = "okay" => \A x \in Address : Holds(phdr, Len(phdr), r.mem, x, initial)
<1> DEFINE N == Len(phdr)
           Good(n) == /\ after[n] \in Results
                      /\ after[n].status = "okay" <=> \A k \in 1 .. n : Accepts(who, phdr[k])
                      /\ after[n].status = "okay" =>
                           \A x \in Address : Holds(phdr, n, after[n].mem, x, initial)
           T == {n \in Nat : n <= N => Good(n)}
<1>0. N \in Nat /\ \A k \in 1 .. N : phdr[k] \in Headers
  OBVIOUS
<1>1. \A m \in 0 .. N : after[m] = IF m = 0 THEN Nothing(initial) ELSE LoadSegment(who, phdr[m], after[m - 1])
  BY DEF SegmentLoop
<1> HIDE DEF N
<1>2. Good(0)
  <2>1. after[0] = Nothing(initial)
    BY <1>0, <1>1
  <2>2. Nothing(initial) \in Results
    BY DEF Nothing, Results
  <2>3. Nothing(initial).status = "okay" /\ \A x \in Address : Nothing(initial).mem[x] = initial
    BY DEF Nothing
  <2>4. \A x \in Address : Holds(phdr, 0, Nothing(initial).mem, x, initial)
    BY <2>3 DEF Holds
  <2> QED
    BY <2>1, <2>2, <2>3, <2>4
<1>3. ASSUME NEW n \in Nat, n \in T PROVE n + 1 \in T
  <2> SUFFICES ASSUME n + 1 <= N PROVE Good(n + 1)
    OBVIOUS
  <2> DEFINE s == phdr[n + 1]
             r == after[n]
             q == LoadSegment(who, s, r)
  <2>1. Good(n) /\ s \in Headers
    BY <1>0, <1>3
  <2>2. after[n + 1] = q
    BY <1>0, <1>1
  <2>3. /\ q \in Results
        /\ q.status = "okay" <=> r.status = "okay" /\ Accepts(who, s)
        /\ q.status = "okay" => \A x \in Address :
             q.mem[x] = IF Covers(s, x) THEN s.p_offset + (x - s.p_vaddr) ELSE r.mem[x]
    BY <2>1, OneSegment
  <2> HIDE DEF q
  <2>4. q.status = "okay" <=> \A k \in 1 .. n + 1 : Accepts(who, phdr[k])
    <3>1. (\A k \in 1 .. n + 1 : Accepts(who, phdr[k])) <=>
            (\A k \in 1 .. n : Accepts(who, phdr[k])) /\ Accepts(who, s)
      OBVIOUS
    <3> QED
      BY <2>1, <2>3, <3>1
  <2>5. ASSUME q.status = "okay", NEW x \in Address PROVE Holds(phdr, n + 1, q.mem, x, initial)
    <3>1. Holds(phdr, n, r.mem, x, initial)
      BY <2>1, <2>3, <2>5
    <3>2. CASE Covers(s, x)
      <4>1. q.mem[x] = s.p_offset + (x - s.p_vaddr)
        BY <2>3, <2>5, <3>2
      <4>2. \A j \in 1 .. n + 1 : j <= n + 1
        OBVIOUS
      <4>3. n + 1 \in 1 .. n + 1
        OBVIOUS
      <4> QED
        BY <3>2, <4>1, <4>2, <4>3 DEF Holds
    <3>3. CASE ~Covers(s, x)
      <4>1. q.mem[x] = r.mem[x]
        BY <2>3, <2>5, <3>3
      <4>2. \A j \in 1 .. n + 1 : Covers(phdr[j], x) => j \in 1 .. n
        BY <3>3
      <4>3. 1 .. n \subseteq 1 .. n + 1
        OBVIOUS
      <4> HIDE DEF r, s
      <4>4. CASE (\A k \in 1 .. n : ~Covers(phdr[k], x)) /\ r.mem[x] = initial
        BY <4>1, <4>2, <4>4 DEF Holds
      <4>5. CASE \E k \in 1 .. n : /\ Covers(phdr[k], x) /\ \A j \in 1 .. n : Covers(phdr[j], x) => j <= k
                                   /\ r.mem[x] = phdr[k].p_offset + (x - phdr[k].p_vaddr)
        <5>1. PICK k \in 1 .. n : /\ Covers(phdr[k], x) /\ \A j \in 1 .. n : Covers(phdr[j], x) => j <= k
                                  /\ r.mem[x] = phdr[k].p_offset + (x - phdr[k].p_vaddr)
          BY <4>5
        <5>2. k \in 1 .. n + 1
          BY <4>3
        <5>3. \A j \in 1 .. n + 1 : Covers(phdr[j], x) => j <= k
          BY <4>2, <5>1
        <5>4. q.mem[x] = phdr[k].p_offset + (x - phdr[k].p_vaddr)
          BY <4>1, <5>1
        <5> QED
          BY <5>1, <5>2, <5>3, <5>4 DEF Holds
      <4> QED
        BY <3>1, <4>4, <4>5 DEF Holds
    <3> QED
      BY <3>2, <3>3
  <2> QED
    BY <2>2, <2>3, <2>4, <2>5
<1> HIDE DEF T, Good
<1>4. 0 \in T
  BY <1>2 DEF T
<1>5. Nat \subseteq T
  BY <1>3, <1>4, SetInduction
<1>6. Good(N)
  BY <1>0, <1>5 DEF T
<1> QED
  BY <1>6 DEF Good, N

\* A memory of which this holds is the one ByteAt describes.
LEMMA BytesOfFile ==
  ASSUME NEW f, f.phdr \in Seq(Headers), NEW mem, NEW x \in Address, NEW initial,
         Holds(f.phdr, Len(f.phdr), mem, x, initial)
  PROVE  mem[x] = ByteAt(f, x, initial)
<1> DEFINE N == Len(f.phdr)
           C == Covering(f, x)
<1>1. DOMAIN f.phdr = 1 .. N /\ N \in Nat
  OBVIOUS
<1>2. \A k : k \in C <=> k \in 1 .. N /\ Covers(f.phdr[k], x)
  BY <1>1 DEF Covering, Covers
<1>3. CASE (\A k \in 1 .. N : ~Covers(f.phdr[k], x)) /\ mem[x] = initial
  <2>1. C = {}
    BY <1>2, <1>3
  <2> QED
    BY <1>3, <2>1 DEF ByteAt
<1>4. CASE \E k \in 1 .. N : /\ Covers(f.phdr[k], x) /\ \A j \in 1 .. N : Covers(f.phdr[j], x) => j <= k
                             /\ mem[x] = f.phdr[k].p_offset + (x - f.phdr[k].p_vaddr)
  <2>1. PICK k \in 1 .. N : /\ Covers(f.phdr[k], x) /\ \A j \in 1 .. N : Covers(f.phdr[j], x) => j <= k
                            /\ mem[x] = f.phdr[k].p_offset + (x - f.phdr[k].p_vaddr)
    BY <1>4
  <2>2. k \in C /\ \A j \in C : j <= k
    BY <1>2, <2>1
  <2> DEFINE i == CHOOSE i \in C : \A j \in C : j <= i
  <2>3. i \in C /\ \A j \in C : j <= i
    BY <2>2
  <2>4. i = k
    <3>1. i \in Int /\ k \in Int /\ i <= k /\ k <= i
      <4> HIDE DEF i, C
      <4> QED
        BY <1>2, <2>2, <2>3
    <3> HIDE DEF i
    <3> QED
      BY <3>1
  <2>5. C # {}
    BY <2>2
  <2>6. ByteAt(f, x, initial) = f.phdr[i].p_offset + x - f.phdr[i].p_vaddr
    BY <2>5 DEF ByteAt
  <2> HIDE DEF i
  <2>7. f.phdr[k].p_offset \in Nat /\ f.phdr[k].p_vaddr \in Nat /\ x \in Int
    <3>1. f.phdr[k] \in Headers
      BY <1>1
    <3>2. \A h \in Headers : h.p_offset \in Nat /\ h.p_vaddr \in Nat
      BY DEF Headers
    <3>3. x \in Int
      BY DEF Address
    <3> QED
      BY <3>1, <3>2, <3>3
  <2> QED
    BY <2>1, <2>4, <2>6, <2>7
<1> QED
  BY <1>3, <1>4 DEF Holds

\* The segment lies in both memories of the simulation.
Crossing(s) == s.p_type = "load" /\ s.p_vaddr < MemSize /\ s.p_vaddr + s.p_memsz > MemSize

\* The images take what the simulator takes, but for those.
LEMMA AcceptedByBoth ==
  ASSUME NEW s \in Headers PROVE Accepts("sim", s) <=> Accepts("iss", s) /\ ~Crossing(s)
<1>1. s.p_vaddr \in Nat /\ s.p_memsz \in Nat /\ MemSize \in Nat
  BY LoaderAssumption DEF Headers
<1>2. CASE freads(s)
  BY <1>1, <1>2 DEF Accepts, Crossing
<1>3. CASE ~freads(s)
  BY <1>3 DEF Accepts, Crossing
<1> QED
  BY <1>2, <1>3

\* What LoadersAgree says of one file, however many segments it has.
FileAgrees(f) ==
  /\ SimLoad(f).status = "okay" => IssLoad(f).status = "okay"
  /\ IssLoad(f).status = "okay" =>
       /\ \A x \in Address : IssLoad(f).mem[x] = ByteAt(f, x, CLEAR)
       /\ SimLoad(f).status # "okay" <=> \E k \in DOMAIN f.phdr : Crossing(f.phdr[k])
  /\ SimLoad(f).status = "okay" => \A x \in Address : SimLoad(f).mem[x] = ByteAt(f, x, HEAP)

\* By induction over the segments.
LEMMA FilesAgree ==
  ASSUME NEW f, f.kind \in Kinds, f.phdr \in Seq(Headers) PROVE FileAgrees(f)
<1>1. CASE f.kind \in {"elf64", "other", "missing"} \/ f.phdr = << >>
  <2>1. \A initial : Then(Nothing(initial), "fail").status = "fail"
    BY DEF Then, Nothing
  <2>2. IssLoad(f).status = "fail"
    <3>1. IssLoad(f) = Then(Nothing(CLEAR), "fail")
      BY <1>1 DEF IssLoad, Loaded, Nothing
    <3> QED
      BY <2>1, <3>1
  <2>3. SimLoad(f).status = "fail"
    <3>1. SimLoad(f) = Then(Nothing(HEAP), "fail")
      BY <1>1 DEF SimLoad, Loaded, Nothing
    <3> QED
      BY <2>1, <3>1
  <2> QED
    BY <2>2, <2>3 DEF FileAgrees
<1>2. CASE f.kind \in {"elf32", "half"} /\ f.phdr # << >>
  <2> DEFINE p == f.phdr
             i == IssLoad(f)
             s == SimLoad(f)
  <2>1. Len(p) \in Nat /\ DOMAIN p = 1 .. Len(p) /\ \A k \in 1 .. Len(p) : p[k] \in Headers
    OBVIOUS
  <2>2. CLEAR \in Int /\ HEAP \in Int
    BY DEF CLEAR, HEAP
  <2>3. /\ i.status = "okay" <=> \A k \in 1 .. Len(p) : Accepts("iss", p[k])
        /\ i.status = "okay" => \A x \in Address : Holds(p, Len(p), i.mem, x, CLEAR)
    <3>1. PICK after : SegmentLoop(after, "iss", CLEAR, p, Len(p)) /\ i = after[Len(p)]
      BY <1>2, <2>1, LoadsByLoop
    <3> QED
      BY <2>2, <3>1, LoopResult
  <2>4. /\ s.status = "okay" <=> \A k \in 1 .. Len(p) : Accepts("sim", p[k])
        /\ s.status = "okay" => \A x \in Address : Holds(p, Len(p), s.mem, x, HEAP)
    <3>1. PICK after : SegmentLoop(after, "sim", HEAP, p, Len(p)) /\ s = after[Len(p)]
      BY <1>2, <2>1, LoadsByLoop
    <3> QED
      BY <2>2, <3>1, LoopResult
  <2>5. \A k \in 1 .. Len(p) : Accepts("sim", p[k]) <=> Accepts("iss", p[k]) /\ ~Crossing(p[k])
    BY <2>1, AcceptedByBoth
  <2>6. i.status = "okay" => \A x \in Address : i.mem[x] = ByteAt(f, x, CLEAR)
    BY <2>3, BytesOfFile
  <2>7. s.status = "okay" => \A x \in Address : s.mem[x] = ByteAt(f, x, HEAP)
    BY <2>4, BytesOfFile
  <2>8. s.status = "okay" => i.status = "okay"
    BY <2>3, <2>4, <2>5
  <2>9. i.status = "okay" => (s.status # "okay" <=> \E k \in DOMAIN p : Crossing(p[k]))
    BY <2>1, <2>3, <2>4, <2>5
  <2> QED
    BY <2>6, <2>7, <2>8, <2>9 DEF FileAgrees
<1> QED
  BY <1>1, <1>2 DEF Kinds

\* The files a session starts from are such files.
LEMMA FilesAreFiles == \A f \in Files : f.kind \in Kinds /\ f.phdr \in Seq(Headers)
<1>1. Segments \subseteq Headers
  <2>1. \A t \in {"load", "note"}, v, m, o \in Nat : Segment(t, v, m, o) \in Headers
    BY DEF Segment, Headers
  <2>2. 0 \in Nat /\ 1 \in Nat
    OBVIOUS
  <2>3. \A v \in Vaddr, m \in Memsz, o \in Offset : Segment("load", v, m, o) \in Headers
    BY <2>1, <2>2, SessionAssumption
  <2>4. Segment("note", 0, 1, 0) \in Headers
    BY <2>1, <2>2
  <2> QED
    BY <2>3, <2>4 DEF Segments
<1> HIDE DEF Segments, Headers
<1>2. \A s \in Headers : <<s>> \in Seq(Headers)
  OBVIOUS
<1>3. \A s, t \in Headers : <<s, t>> \in Seq(Headers)
  OBVIOUS
<1>4. << >> \in Seq(Headers)
  OBVIOUS
<1>5. ASSUME NEW f \in Files PROVE f.kind \in Kinds /\ f.phdr \in Seq(Headers)
  <2>1. CASE \E k \in Kinds : f = [kind |-> k, phdr |-> << >>]
    BY <1>4, <2>1
  <2>2. CASE \E k \in {"elf32", "half"}, s \in Segments : f = [kind |-> k, phdr |-> <<s>>]
    <3>1. PICK k \in {"elf32", "half"}, s \in Segments : f = [kind |-> k, phdr |-> <<s>>]
      BY <2>2
    <3>2. f.kind = k /\ f.phdr = <<s>>
      BY <3>1
    <3> QED
      BY <1>1, <1>2, <3>2 DEF Kinds
  <2>3. CASE \E s \in Segments, t \in Segments : f = [kind |-> "elf32", phdr |-> <<s, t>>]
    <3>1. PICK s \in Segments, t \in Segments : f = [kind |-> "elf32", phdr |-> <<s, t>>]
      BY <2>3
    <3>2. f.kind = "elf32" /\ f.phdr = <<s, t>>
      BY <3>1
    <3> QED
      BY <1>1, <1>3, <3>2 DEF Kinds
  <2> QED
    BY <2>1, <2>2, <2>3 DEF Files
<1> QED
  BY <1>5

\* For every file the loader of the simulator (tools/elfloader.c) and the one of
\* the hardware simulation (sim/elfloader.c) put the same bytes at the same
\* addresses, those of the last segment there, and they disagree about a file
\* only if a segment crosses from one image to the other.
THEOREM LoadersCorrect == Spec => []LoadersAgree
<1>1. SessionInv => LoadersAgree
  <2> SUFFICES ASSUME SessionInv, at = "load" PROVE LoadersAgree
    BY DEF LoadersAgree
  <2>1. file \in Files
    BY DEF SessionInv, FileInv
  <2>2. FileAgrees(file)
    BY <2>1, FilesAreFiles, FilesAgree
  <2> QED
    BY <2>2 DEF FileAgrees, LoadersAgree, Crossing
<1> QED
  BY <1>1, SessionInvariant, PTL
=============================================================================
