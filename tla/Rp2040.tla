------------------------------- MODULE Rp2040 --------------------------------
(***************************************************************************)
(* The control of the emulator in mcu/rp2040/src/rp2040.c: stepping the    *)
(* two cores, running until something stops them, and breakpoints.  A      *)
(* program creates systems and calls the API from one thread; a call of    *)
(* rp2040_run_until_halt or rp2040_run_cycles is a loop of many steps, all *)
(* other calls are one step.                                               *)
(*                                                                         *)
(* Of a core only the pc is kept: arm_thumb2_execute is not part of the    *)
(* repository, and all that its caller shows of it is that it moves the pc *)
(* and may fail.  sys->halted is left out: it is cleared by rp2040_create  *)
(* and no function sets it.                                                *)
(***************************************************************************)
EXTENDS Integers, Sequences, FiniteSets

CONSTANTS Systems,         \* what rp2040_create has returned
          Addrs,           \* addresses a pc can hold
          ResetPc,         \* registers_init_arm: 0
          SramBase,        \* RP2040_SRAM_BASE
          MaxBreakpoints,  \* entries of sys->breakpoints: 32
          CycleModulus     \* cycle_count is a uint64_t: 2^64

ASSUME AddrAssumption == {ResetPc, SramBase} \subseteq Addrs
ASSUME BoundAssumption == MaxBreakpoints \in Nat \ {0} /\ CycleModulus \in Nat \ {0}

VARIABLES system,     \* the rp2040_system_t of each system
          last_core,  \* the static variable of rp2040_step
          call,       \* the run in progress, or the last one, with what it asked
                      \* for, whether the flag was set at its start, and how
                      \* often a core was stepped while the other stood on a
                      \* breakpoint (the last three are history)
          stepped     \* history: what rp2040_step_core was last asked to step

vars == <<system, last_core, call, stepped>>

Cores == {0, 1}
Cycles == 0..CycleModulus - 1

System == [pc : [Cores -> Addrs], breakpoints : Seq(Addrs),
           breakpoint_triggered : BOOLEAN, cycle_count : Cycles]

Init == /\ system = [s \in Systems |->
                       [pc |-> [c \in Cores |-> ResetPc], breakpoints |-> <<>>,
                        breakpoint_triggered |-> FALSE, cycle_count |-> 0]]
        /\ last_core = 0
        /\ call = [fn |-> "none"]
        /\ stepped = <<>>

Running == call.fn # "none" /\ call.value = "running"

-----------------------------------------------------------------------------
(* rp2040_step_core and rp2040_step *)

\* A test that misses the last entry.
AtBreakpointShort(sys, c) ==
  \E i \in 1..Len(sys.breakpoints) - 1 : sys.breakpoints[i] = sys.pc[c]

AtBreakpoint(sys, c) == \E i \in 1..Len(sys.breakpoints) : sys.breakpoints[i] = sys.pc[c]

\* The instruction is executed: the pc moves and the cycle is counted.
Executed(sys, c, a) ==
  [sys EXCEPT !.pc[c] = a, !.cycle_count = (@ + 1) % CycleModulus]

\* arm_thumb2_execute fails, with the pc moved or not; no cycle is counted.
Faulted(sys, c, a) == [sys EXCEPT !.pc[c] = a]

\* The ways rp2040_step_core can end: the system after it, and its value.
\* A breakpoint is tested before the fetch and nothing ever skips it.
Stepping(sys, c) ==
  IF AtBreakpoint(sys, c)
  THEN {[sys |-> [sys EXCEPT !.breakpoint_triggered = TRUE], value |-> 1]}
  ELSE {[sys |-> Executed(sys, c, a), value |-> 0] : a \in Addrs}
       \cup {[sys |-> Faulted(sys, c, a), value |-> -1] : a \in Addrs}

\* Always the same core.
SameCore(c) == c

NextCore(c) == (c + 1) % 2

StepCore(s, c) ==
  /\ ~Running
  /\ \E r \in Stepping(system[s], c) : system' = [system EXCEPT ![s] = r.sys]
  /\ stepped' = <<s, c>>
  /\ UNCHANGED <<last_core, call>>

Step(s) ==
  /\ ~Running
  /\ \E r \in Stepping(system[s], last_core) : system' = [system EXCEPT ![s] = r.sys]
  /\ stepped' = <<s, last_core>>
  /\ last_core' = NextCore(last_core)
  /\ UNCHANGED call

-----------------------------------------------------------------------------
(* rp2040_run_until_halt and rp2040_run_cycles *)

StartRunUntilHalt(s) ==
  /\ ~Running
  /\ call' = [fn |-> "run_until_halt", sys |-> s, value |-> "running", late |-> 0]
  /\ UNCHANGED <<system, last_core, stepped>>

\* asked is the argument; the target may wrap.
StartRunCycles(s, n) ==
  /\ ~Running
  /\ call' = [fn |-> "run_cycles", sys |-> s, value |-> "running", late |-> 0,
              asked |-> n, target |-> (system[s].cycle_count + n) % CycleModulus,
              flagged |-> system[s].breakpoint_triggered]
  /\ UNCHANGED <<system, last_core, stepped>>

\* A loop that makes one turn too many, and one that overlooks the flag.
GoesOnTooFar == LET sys == system[call.sys]
                IN  /\ ~sys.breakpoint_triggered
                    /\ call.fn = "run_cycles" => sys.cycle_count <= call.target
GoesOnRegardless == LET sys == system[call.sys]
                    IN  call.fn = "run_cycles" => sys.cycle_count < call.target

\* The condition of their while loops.
GoesOn == LET sys == system[call.sys]
          IN  /\ ~sys.breakpoint_triggered
              /\ call.fn = "run_cycles" => sys.cycle_count < call.target

\* Core c is going to execute an instruction while the other one is on a
\* breakpoint that the loop has not seen yet.
Overlooks(sys, c) == ~AtBreakpoint(sys, c) /\ AtBreakpoint(sys, 1 - c)

RunTurn ==
  /\ Running /\ GoesOn
  /\ \E r \in Stepping(system[call.sys], last_core) :
       /\ system' = [system EXCEPT ![call.sys] = r.sys]
       /\ call' = [call EXCEPT !.value = IF r.value < 0 THEN "failed" ELSE @,
                               !.late  = IF Overlooks(system[call.sys], last_core)
                                         THEN @ + 1 ELSE @]
  /\ stepped' = <<call.sys, last_core>>
  /\ last_core' = NextCore(last_core)

RunReturn ==
  /\ Running /\ ~GoesOn
  /\ call' = [call EXCEPT !.value = "done"]
  /\ UNCHANGED <<system, last_core, stepped>>

-----------------------------------------------------------------------------
(* Breakpoints and the pc *)

\* One breakpoint more than the array holds.
AddBreakpointBeyond(s, a) ==
  /\ ~Running
  /\ Len(system[s].breakpoints) <= MaxBreakpoints
  /\ system' = [system EXCEPT ![s].breakpoints = Append(@, a)]
  /\ UNCHANGED <<last_core, call, stepped>>

\* A breakpoint beyond the array is dropped without a word.
AddBreakpoint(s, a) ==
  /\ ~Running
  /\ Len(system[s].breakpoints) < MaxBreakpoints
  /\ system' = [system EXCEPT ![s].breakpoints = Append(@, a)]
  /\ UNCHANGED <<last_core, call, stepped>>

\* The count goes down and the last entry is lost.
WithoutLast(bps, a) == IF \E i \in 1..Len(bps) : bps[i] = a
                       THEN SubSeq(bps, 1, Len(bps) - 1) ELSE bps

\* The last entry takes the place of the first one for a.
Without(bps, a) ==
  LET at   == {i \in 1..Len(bps) : bps[i] = a}
      i    == CHOOSE k \in at : \A j \in at : k <= j
      last == Len(bps)
  IN  IF at = {} THEN bps ELSE SubSeq([bps EXCEPT ![i] = bps[last]], 1, last - 1)

RemoveBreakpoint(s, a) ==
  /\ ~Running
  /\ system' = [system EXCEPT ![s].breakpoints = Without(@, a)]
  /\ UNCHANGED <<last_core, call, stepped>>

ClearBreakpoints(s) ==
  /\ ~Running
  /\ system' = [system EXCEPT ![s].breakpoints = <<>>]
  /\ UNCHANGED <<last_core, call, stepped>>

\* rp2040_set_register of register 15; an address is a pc with bit 0 cleared.
SetPc(s, c, a) ==
  /\ ~Running
  /\ system' = [system EXCEPT ![s].pc[c] = a]
  /\ UNCHANGED <<last_core, call, stepped>>

\* rp2040_load_elf: on success core 0 starts at the base of SRAM, core 1 is
\* left where it is.
LoadElf(s) ==
  /\ ~Running
  /\ system' = [system EXCEPT ![s].pc[0] = SramBase]
  /\ UNCHANGED <<last_core, call, stepped>>

Next == \/ RunTurn \/ RunReturn
        \/ \E s \in Systems :
             \/ Step(s) \/ StartRunUntilHalt(s) \/ ClearBreakpoints(s) \/ LoadElf(s)
             \/ \E c \in Cores : StepCore(s, c)
             \/ \E c \in Cores, a \in Addrs : SetPc(s, c, a)
             \/ \E a \in Addrs : AddBreakpoint(s, a) \/ RemoveBreakpoint(s, a)
             \/ \E n \in Cycles : StartRunCycles(s, n)

Spec == Init /\ [][Next]_vars

\* The loops of the two run functions go on by themselves; nothing is promised
\* about the program that makes the calls.
FairSpec == Spec /\ WF_vars(RunTurn) /\ WF_vars(RunReturn)

-----------------------------------------------------------------------------
(* Properties *)

Call == {[fn |-> "none"]}
        \cup [fn : {"run_until_halt"}, sys : Systems, value : {"running", "done", "failed"},
              late : Nat]
        \cup [fn : {"run_cycles"}, sys : Systems, value : {"running", "done", "failed"},
              late : Nat, asked : Cycles, target : Cycles, flagged : BOOLEAN]

TypeOK == /\ system \in [Systems -> System]
          /\ \A s \in Systems : Len(system[s].breakpoints) <= MaxBreakpoints
          /\ last_core \in Cores
          /\ call \in Call
          /\ stepped \in {<<>>} \cup (Systems \X Cores)

\* An instruction at an address that is in the breakpoint list is never
\* executed, however the list came about by adding and removing
\* (rp2040_step_core tests every entry that rp2040_remove_breakpoint leaves).
NoStepOverBreakpoint ==
  [][\A s \in Systems, c \in Cores, a \in Addrs :
       /\ \E i \in 1..Len(system[s].breakpoints) : system[s].breakpoints[i] = a
       /\ system[s].pc[c] = a
       /\ system'[s].cycle_count # system[s].cycle_count
       => stepped' # <<s, c>>]_vars

Count(bps, a) == Cardinality({i \in 1..Len(bps) : bps[i] = a})

\* Removing takes out one entry of the address, if it has one, and no entry of
\* another address: moving the last entry into the gap loses and doubles none.
RemoveTakesOne ==
  [][\A s \in Systems, a \in Addrs :
       RemoveBreakpoint(s, a) =>
         \A b \in Addrs :
           LET before == Count(system[s].breakpoints, b)
           IN  Count(system'[s].breakpoints, b) =
                 IF b = a /\ before > 0 THEN before - 1 ELSE before]_vars

\* rp2040_run_cycles never counts past its target, and its loop ends at the
\* target, with a core on a breakpoint, or, if the flag was set before the run,
\* without a step.  When the number of cycles asked for takes the 64-bit counter
\* over its end, so that the target wraps, the run makes no step at all.  A flag
\* that is set in the middle of a run for anything but a breakpoint, or one that
\* is seen a turn too late, breaks it.
RunsTheCyclesAskedFor ==
  call.fn = "run_cycles" /\ call.value = "running" =>
    LET sys   == system[call.sys]
        start == call.target - call.asked
    IN  IF call.target >= call.asked
        THEN /\ sys.cycle_count \in start .. call.target
             /\ ~GoesOn => \/ sys.cycle_count = call.target
                           \/ \E c \in Cores : AtBreakpoint(sys, c)
                           \/ call.flagged /\ sys.cycle_count = start
        ELSE ~GoesOn /\ sys.cycle_count = start + CycleModulus

\* A breakpoint stops both cores, though the flag is set only when the core that
\* is on it is served (rp2040_step_core): from the moment a core comes to a
\* breakpoint, the other one is stepped at most once more in the run.
BothCoresStop == call.fn # "none" => call.late <= 1

\* rp2040_run_cycles returns.
RunCyclesReturns == (Running /\ call.fn = "run_cycles") ~> ~Running

\* A run that goes on for ever steps both cores again and again.
NoCoreStarves ==
  \A s \in Systems, c \in Cores :
    <>[](Running /\ call.sys = s) => []<>(stepped = <<s, c>>)

\* The comment of rp2040_run_until_halt: it ends at a breakpoint (or with an
\* error, or halted, which nothing sets).
EndsAtBreakpoint ==
  [][Running /\ call.fn = "run_until_halt" /\ call'.value = "done"
       => \E c \in Cores : AtBreakpoint(system[call.sys], c)]_vars
=============================================================================
