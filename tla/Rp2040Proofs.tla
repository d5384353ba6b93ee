---------------------------- MODULE Rp2040Proofs -----------------------------
(***************************************************************************)
(* Proofs about Rp2040, for every set of systems and addresses, every size *)
(* of the breakpoint array and every width of the cycle counter.  TypeOK   *)
(* is inductive by itself, and so are, given TypeOK, WithinTarget, the     *)
(* range in which the counter of a run stays, StaysWhenWrapped, where it   *)
(* is if the target wraps, FlagHasAReason, why the flag of a run is set,   *)
(* and NextIsStopped, who is served next.  The action properties follow    *)
(* from TypeOK and from what a single step of a core can do.               *)
(***************************************************************************)
EXTENDS Rp2040, FiniteSetTheorems, Foundations

-----------------------------------------------------------------------------
(* The wrapping counter *)

\* A remainder lies in the range of the counter.
LEMMA ModRange ==
  ASSUME NEW n \in Nat, NEW m \in Nat \ {0}
  PROVE  n % m \in 0..m - 1
OBVIOUS

\* A sum of two counter values wraps once or not at all, and if it wraps it is
\* less than each of them.
LEMMA WrappedSum ==
  ASSUME NEW m \in Nat \ {0}, NEW a \in 0..m - 1, NEW b \in 0..m - 1
  PROVE  /\ a + b < m => (a + b) % m = a + b
         /\ a + b >= m => (a + b) % m = a + b - m
OBVIOUS

-----------------------------------------------------------------------------
(* One step of a core *)

\* An executed instruction leaves a well-formed system with the same
\* breakpoints and one cycle more, modulo the width of the counter.
LEMMA ExecutedEffect ==
  ASSUME NEW sys \in System, NEW c \in Cores, NEW a \in Addrs
  PROVE  /\ Executed(sys, c, a) \in System
         /\ Executed(sys, c, a).breakpoints = sys.breakpoints
         /\ Executed(sys, c, a).breakpoint_triggered = sys.breakpoint_triggered
         /\ Executed(sys, c, a).cycle_count = (sys.cycle_count + 1) % CycleModulus
         /\ Executed(sys, c, a).pc[1 - c] = sys.pc[1 - c]
<1>. DEFINE n == (sys.cycle_count + 1) % CycleModulus
<1>1. sys.cycle_count + 1 \in Nat
  BY BoundAssumption DEF System, Cycles
<1>2. n \in Cycles
  BY <1>1, ModRange, BoundAssumption DEF Cycles
<1>3. Executed(sys, c, a) = [[sys EXCEPT !.pc[c] = a] EXCEPT !.cycle_count = n]
  BY Zenon DEF Executed, System
<1>. HIDE DEF n
<1>4. /\ Executed(sys, c, a) \in System
      /\ Executed(sys, c, a).breakpoints = sys.breakpoints
      /\ Executed(sys, c, a).breakpoint_triggered = sys.breakpoint_triggered
      /\ Executed(sys, c, a).cycle_count = n
  BY <1>2, <1>3 DEF System
<1>5. Executed(sys, c, a).pc = [sys.pc EXCEPT ![c] = a]
  BY <1>3 DEF System
<1>6. Executed(sys, c, a).pc[1 - c] = sys.pc[1 - c]
  BY <1>5 DEF System, Cores
<1>. QED
  BY <1>4, <1>6 DEF n

\* A failed step may have moved the pc, and nothing else.
LEMMA FaultedEffect ==
  ASSUME NEW sys \in System, NEW c \in Cores, NEW a \in Addrs
  PROVE  /\ Faulted(sys, c, a) \in System
         /\ Faulted(sys, c, a).breakpoints = sys.breakpoints
         /\ Faulted(sys, c, a).breakpoint_triggered = sys.breakpoint_triggered
         /\ Faulted(sys, c, a).cycle_count = sys.cycle_count
         /\ Faulted(sys, c, a).pc[1 - c] = sys.pc[1 - c]
BY DEF Faulted, System, Cores

\* What rp2040_step_core can do to a system: set the flag if the core is at a
\* breakpoint, and else move its pc and, if it does not fail, count one cycle.
LEMMA SteppingEffect ==
  ASSUME NEW sys \in System, NEW c \in Cores, NEW r \in Stepping(sys, c)
  PROVE  /\ r.sys \in System
         /\ r.sys.breakpoints = sys.breakpoints
         /\ r.sys.cycle_count \in {sys.cycle_count, (sys.cycle_count + 1) % CycleModulus}
         /\ r.sys.pc[1 - c] = sys.pc[1 - c]
         /\ AtBreakpoint(sys, c) => /\ r.sys.cycle_count = sys.cycle_count
                                   /\ r.sys.pc = sys.pc
                                   /\ r.sys.breakpoint_triggered
         /\ ~AtBreakpoint(sys, c) => r.sys.breakpoint_triggered = sys.breakpoint_triggered
<1>1. CASE AtBreakpoint(sys, c)
  <2>1. r = [sys |-> [sys EXCEPT !.breakpoint_triggered = TRUE], value |-> 1]
    BY <1>1 DEF Stepping
  <2>2. r.sys.breakpoint_triggered = TRUE
    BY <2>1 DEF System
  <2>3. /\ r.sys \in System /\ r.sys.breakpoints = sys.breakpoints
        /\ r.sys.cycle_count = sys.cycle_count /\ r.sys.pc = sys.pc
    BY <2>1 DEF System
  <2>. QED
    BY <1>1, <2>2, <2>3
<1>2. CASE ~AtBreakpoint(sys, c)
  <2>1. PICK a \in Addrs : \/ r = [sys |-> Executed(sys, c, a), value |-> 0]
                          \/ r = [sys |-> Faulted(sys, c, a), value |-> -1]
    BY <1>2, Zenon DEF Stepping
  <2>2. CASE r = [sys |-> Executed(sys, c, a), value |-> 0]
    <3>1. r.sys = Executed(sys, c, a)
      BY <2>2
    <3>. QED
      BY <3>1, <1>2, ExecutedEffect
  <2>3. CASE r = [sys |-> Faulted(sys, c, a), value |-> -1]
    <3>1. r.sys = Faulted(sys, c, a)
      BY <2>3
    <3>. QED
      BY <3>1, <1>2, FaultedEffect
  <2>. QED
    BY <2>1, <2>2, <2>3
<1>. QED
  BY <1>1, <1>2

-----------------------------------------------------------------------------
(* The list of breakpoints *)

\* Removing an address gives a list of addresses that is no longer than before.
LEMMA WithoutIsAList ==
  ASSUME NEW bps \in Seq(Addrs), NEW a \in Addrs
  PROVE  Without(bps, a) \in Seq(Addrs) /\ Len(Without(bps, a)) <= Len(bps)
<1>. DEFINE at   == {i \in 1..Len(bps) : bps[i] = a}
            k    == CHOOSE i \in at : \A j \in at : i <= j
            last == Len(bps)
            moved == [bps EXCEPT ![k] = bps[last]]
<1>1. CASE at = {}
  <2>1. Without(bps, a) = bps
    BY <1>1, Zenon DEF Without
  <2>. QED
    BY <2>1, LenProperties
<1>2. CASE at # {}
  <2>1. Without(bps, a) = SubSeq(moved, 1, last - 1)
    BY <1>2, Zenon DEF Without
  <2>2. last \in Nat /\ last >= 1
    BY <1>2
  <2>3. moved \in Seq(Addrs) /\ Len(moved) = last
    <3>. HIDE DEF k
    <3>1. bps \in [1..last -> Addrs] /\ last \in 1..last
      BY <2>2, LenProperties
    <3>2. moved \in [1..last -> Addrs]
      BY <3>1
    <3>3. [1..last -> Addrs] \subseteq Seq(Addrs)
      BY <2>2
    <3>4. DOMAIN moved = 1..last
      BY <3>2
    <3>. QED
      BY <2>2, <3>2, <3>3, <3>4
  <2>. HIDE DEF moved
  <2>4. /\ SubSeq(moved, 1, last - 1) \in Seq(Addrs)
        /\ Len(SubSeq(moved, 1, last - 1)) = last - 1
    BY <2>2, <2>3
  <2>. QED
    BY <2>1, <2>2, <2>4
<1>. QED
  BY <1>1, <1>2

\* What stands in the list after a removal, if there was something to remove: the
\* first entry for a is replaced by the last one, which goes.
LEMMA WithoutEntries ==
  ASSUME NEW bps \in Seq(Addrs), NEW a \in Addrs, \E i \in 1..Len(bps) : bps[i] = a
  PROVE  \E k \in 1..Len(bps) :
           /\ bps[k] = a
           /\ Len(Without(bps, a)) = Len(bps) - 1
           /\ \A i \in 1..Len(bps) - 1 :
                Without(bps, a)[i] = IF i = k THEN bps[Len(bps)] ELSE bps[i]
<1>. DEFINE at    == {i \in 1..Len(bps) : bps[i] = a}
            k     == CHOOSE i \in at : \A j \in at : i <= j
            last  == Len(bps)
            moved == [bps EXCEPT ![k] = bps[last]]
<1>1. at \subseteq Nat /\ at # {}
  OBVIOUS
<1>2. k \in at
  <2>. HIDE DEF at
  <2>1. \E i \in at : \A j \in at : i <= j
    BY <1>1, LeastNumber
  <2>. QED
    BY <2>1
<1>3. Without(bps, a) = SubSeq(moved, 1, last - 1)
  BY <1>1, Zenon DEF Without
<1>4. last \in Nat /\ last >= 1 /\ k \in 1..last /\ bps[k] = a
  BY <1>1, <1>2
<1>. HIDE DEF k
<1>5. bps \in [1..last -> Addrs] /\ last \in 1..last
  BY <1>4, LenProperties
<1>6. moved \in [1..last -> Addrs]
  BY <1>5
<1>7. moved \in Seq(Addrs) /\ Len(moved) = last
  <2>1. [1..last -> Addrs] \subseteq Seq(Addrs) /\ DOMAIN moved = 1..last
    BY <1>4, <1>6
  <2>. QED
    BY <1>4, <1>6, <2>1
<1>8. \A i \in 1..last : moved[i] = IF i = k THEN bps[last] ELSE bps[i]
  BY <1>5
<1>. HIDE DEF moved
<1>9. /\ Len(SubSeq(moved, 1, last - 1)) = last - 1
      /\ \A i \in 1..last - 1 : SubSeq(moved, 1, last - 1)[i] = moved[i]
  BY <1>4, <1>7
<1>. QED
  BY <1>3, <1>4, <1>8, <1>9

\* One entry for a goes, if there is one, and as many as before stay for any other.
LEMMA WithoutTakesOne ==
  ASSUME NEW bps \in Seq(Addrs), NEW a \in Addrs, NEW b \in Addrs
  PROVE  Count(Without(bps, a), b) =
           IF b = a /\ Count(bps, b) > 0 THEN Count(bps, b) - 1 ELSE Count(bps, b)
<1>. DEFINE at(s) == {i \in 1..Len(s) : s[i] = b}
            last  == Len(bps)
            less  == Without(bps, a)
<1>1. last \in Nat
  OBVIOUS
<1>2. IsFiniteSet(at(bps)) /\ Cardinality(at(bps)) \in Nat
  <2>1. IsFiniteSet(1..last) /\ at(bps) \subseteq 1..last
    BY <1>1, FS_Interval
  <2>. HIDE DEF at
  <2>. QED
    BY <2>1, FS_Subset, FS_CardinalityType
<1>3. CASE ~ \E i \in 1..Len(bps) : bps[i] = a
  <2>1. less = bps
    BY <1>3, Zenon DEF Without
  <2>2. b = a => at(bps) = {}
    BY <1>3
  <2>3. b = a => Count(bps, b) = 0
    BY <2>2, FS_EmptySet DEF Count
  <2>. QED
    BY <2>1, <2>3
<1>4. CASE \E i \in 1..Len(bps) : bps[i] = a
  <2>1. PICK k \in 1..last :
          /\ bps[k] = a
          /\ Len(less) = last - 1
          /\ \A i \in 1..last - 1 : less[i] = IF i = k THEN bps[last] ELSE bps[i]
    BY <1>4, WithoutEntries
  <2>2. last \in 1..last
    BY <1>1, <2>1
  <2>. HIDE DEF less
  <2>3. CASE b = a
    <3>. DEFINE gone == IF bps[last] = a THEN last ELSE k
    <3>1. at(less) = at(bps) \ {gone} /\ gone \in at(bps)
      BY <1>1, <2>1, <2>2, <2>3
    <3>. HIDE DEF gone, at
    <3>2. Cardinality(at(less)) = Cardinality(at(bps)) - 1
      BY <1>2, <3>1, FS_RemoveElement
    <3>3. Cardinality(at(bps)) # 0
      BY <1>2, <3>1, FS_EmptySet
    <3>. QED
      BY <1>2, <2>3, <3>2, <3>3 DEF Count, at, less
  <2>4. CASE b # a /\ bps[last] # b
    <3>1. at(less) = at(bps)
      BY <1>1, <2>1, <2>2, <2>4
    <3>. QED
      BY <2>4, <3>1 DEF Count, less
  <2>5. CASE b # a /\ bps[last] = b
    <3>1. k # last /\ k \in 1..last - 1
      BY <1>1, <2>1, <2>5
    <3>2. at(less) = (at(bps) \ {last}) \cup {k} /\ last \in at(bps) /\ k \notin at(bps)
      BY <1>1, <2>1, <2>2, <2>5, <3>1
    <3>. HIDE DEF at
    <3>3. /\ IsFiniteSet(at(bps) \ {last})
          /\ Cardinality(at(bps) \ {last}) = Cardinality(at(bps)) - 1
      BY <1>2, <3>2, FS_RemoveElement
    <3>4. Cardinality(at(less)) = Cardinality(at(bps) \ {last}) + 1
      BY <3>2, <3>3, FS_AddElement
    <3>5. Cardinality(at(less)) = Cardinality(at(bps))
      BY <1>2, <3>3, <3>4
    <3>. QED
      BY <2>5, <3>5 DEF Count, at, less
  <2>. QED
    BY <2>3, <2>4, <2>5
<1>. QED
  BY <1>3, <1>4

-----------------------------------------------------------------------------
(* Type correctness *)

\* Replacing one system by a well-formed one keeps the systems well formed.
LEMMA SystemReplaced ==
  ASSUME TypeOK, NEW s \in Systems, NEW sys \in System,
         Len(sys.breakpoints) <= MaxBreakpoints,
         system' = [system EXCEPT ![s] = sys]
  PROVE  /\ system' \in [Systems -> System]
         /\ \A t \in Systems : Len(system'[t].breakpoints) <= MaxBreakpoints
         /\ system'[s] = sys
BY DEF TypeOK

\* A step of a core, by whichever function, keeps the systems well formed.
LEMMA SystemStepped ==
  ASSUME TypeOK, NEW s \in Systems, NEW c \in Cores, NEW r \in Stepping(system[s], c),
         system' = [system EXCEPT ![s] = r.sys]
  PROVE  /\ system' \in [Systems -> System]
         /\ \A t \in Systems : Len(system'[t].breakpoints) <= MaxBreakpoints
         /\ system'[s] = r.sys
<1>1. system[s] \in System /\ Len(system[s].breakpoints) <= MaxBreakpoints
  BY DEF TypeOK
<1>2. r.sys \in System /\ r.sys.breakpoints = system[s].breakpoints
  BY <1>1, SteppingEffect
<1>. QED
  BY <1>1, <1>2, SystemReplaced

\* The initial state is well formed.
LEMMA InitTypeOK == Init => TypeOK
<1>. SUFFICES ASSUME Init PROVE TypeOK
  OBVIOUS
<1>. DEFINE fresh == [pc |-> [c \in Cores |-> ResetPc], breakpoints |-> <<>>,
                      breakpoint_triggered |-> FALSE, cycle_count |-> 0]
<1>1. fresh \in System
  BY AddrAssumption, BoundAssumption DEF System, Cycles, Cores
<1>2. system = [s \in Systems |-> fresh]
  BY DEF Init
<1>3. fresh.breakpoints = <<>>
  OBVIOUS
<1>. HIDE DEF fresh
<1>4. system \in [Systems -> System]
  BY <1>1, <1>2
<1>5. \A s \in Systems : Len(system[s].breakpoints) <= MaxBreakpoints
  <2>1. Len(fresh.breakpoints) <= MaxBreakpoints
    BY <1>3, BoundAssumption
  <2>. QED
    BY <1>2, <2>1, Zenon
<1>6. last_core \in Cores /\ call \in Call /\ stepped \in {<<>>}
  BY DEF Init, Cores, Call
<1>. QED
  BY <1>4, <1>5, <1>6 DEF TypeOK

\* A run stays one when its value or its count of late steps changes, and keeps
\* what it was asked for.
LEMMA CallGoesOn ==
  ASSUME call \in Call, Running, NEW v \in {"running", "done", "failed"}, NEW n \in Nat,
         call' = [call EXCEPT !.value = v, !.late = n]
  PROVE  /\ call' \in Call
         /\ call'.fn = call.fn /\ call'.sys = call.sys
         /\ call'.value = v /\ call'.late = n
         /\ call.fn = "run_cycles" => /\ call'.asked = call.asked
                                      /\ call'.target = call.target
                                      /\ call'.flagged = call.flagged
<1>1. CASE call \in [fn : {"run_until_halt"}, sys : Systems,
                     value : {"running", "done", "failed"}, late : Nat]
  BY <1>1 DEF Call
<1>2. CASE call \in [fn : {"run_cycles"}, sys : Systems,
                     value : {"running", "done", "failed"}, late : Nat, asked : Cycles,
                     target : Cycles, flagged : BOOLEAN]
  BY <1>2 DEF Call
<1>. QED
  BY <1>1, <1>2 DEF Call, Running

\* The end of a run.
LEMMA CallEnds ==
  ASSUME call \in Call, Running
  PROVE  /\ [call EXCEPT !.value = "done"] \in Call
         /\ [call EXCEPT !.value = "done"].value = "done"
         /\ [call EXCEPT !.value = "done"].late = call.late
<1>1. CASE call \in [fn : {"run_until_halt"}, sys : Systems,
                     value : {"running", "done", "failed"}, late : Nat]
  BY <1>1 DEF Call
<1>2. CASE call \in [fn : {"run_cycles"}, sys : Systems,
                     value : {"running", "done", "failed"}, late : Nat, asked : Cycles,
                     target : Cycles, flagged : BOOLEAN]
  BY <1>2 DEF Call
<1>. QED
  BY <1>1, <1>2 DEF Call, Running

\* The system that a run works on is a system.
LEMMA RunHasASystem ==
  ASSUME call \in Call, Running
  PROVE  call.sys \in Systems /\ call.late \in Nat
BY DEF Call, Running

\* Each of the calls that change the list of breakpoints or a pc keeps the
\* systems well formed.
LEMMA EditsKeepSystems ==
  ASSUME TypeOK, NEW s \in Systems, NEW a \in Addrs, NEW c \in Cores,
         \/ AddBreakpoint(s, a) \/ RemoveBreakpoint(s, a) \/ ClearBreakpoints(s)
         \/ SetPc(s, c, a) \/ LoadElf(s)
  PROVE  /\ system' \in [Systems -> System]
         /\ \A t \in Systems : Len(system'[t].breakpoints) <= MaxBreakpoints
<1>1. /\ system \in [Systems -> System]
      /\ system[s] \in System
      /\ system[s].breakpoints \in Seq(Addrs)
      /\ Len(system[s].breakpoints) <= MaxBreakpoints
      /\ Len(system[s].breakpoints) \in Nat
  BY DEF TypeOK, System
<1>. DEFINE Listing(bps) == [system[s] EXCEPT !.breakpoints = bps]
            At(d, b) == [system[s] EXCEPT !.pc[d] = b]
<1>2. ASSUME NEW bps \in Seq(Addrs), Len(bps) <= MaxBreakpoints,
             system' = [system EXCEPT ![s] = Listing(bps)]
      PROVE  /\ system' \in [Systems -> System]
             /\ \A t \in Systems : Len(system'[t].breakpoints) <= MaxBreakpoints
  <2>1. Listing(bps) \in System /\ Listing(bps).breakpoints = bps
    BY <1>1 DEF System
  <2>. HIDE DEF Listing
  <2>. QED
    BY <1>2, <2>1, SystemReplaced
<1>3. ASSUME NEW d \in Cores, NEW b \in Addrs,
             system' = [system EXCEPT ![s] = At(d, b)]
      PROVE  /\ system' \in [Systems -> System]
             /\ \A t \in Systems : Len(system'[t].breakpoints) <= MaxBreakpoints
  <2>1. At(d, b) \in System /\ At(d, b).breakpoints = system[s].breakpoints
    BY <1>1 DEF System
  <2>. HIDE DEF At
  <2>. QED
    BY <1>1, <1>3, <2>1, SystemReplaced
<1>4. CASE AddBreakpoint(s, a)
  <2>1. /\ Append(system[s].breakpoints, a) \in Seq(Addrs)
        /\ Len(Append(system[s].breakpoints, a)) <= MaxBreakpoints
    BY <1>1, <1>4, AppendProperties, BoundAssumption DEF AddBreakpoint
  <2>2. system' = [system EXCEPT ![s] = Listing(Append(system[s].breakpoints, a))]
    BY <1>4 DEF AddBreakpoint
  <2>. QED
    BY <1>2, <2>1, <2>2
<1>5. CASE RemoveBreakpoint(s, a)
  <2>1. /\ Without(system[s].breakpoints, a) \in Seq(Addrs)
        /\ Len(Without(system[s].breakpoints, a)) <= Len(system[s].breakpoints)
    BY <1>1, WithoutIsAList
  <2>2. Len(Without(system[s].breakpoints, a)) <= MaxBreakpoints
    BY <1>1, <2>1, BoundAssumption
  <2>3. system' = [system EXCEPT ![s] = Listing(Without(system[s].breakpoints, a))]
    BY <1>5 DEF RemoveBreakpoint
  <2>. QED
    BY <1>2, <2>1, <2>2, <2>3
<1>6. CASE ClearBreakpoints(s)
  <2>1. <<>> \in Seq(Addrs) /\ Len(<<>>) <= MaxBreakpoints
    BY BoundAssumption
  <2>2. system' = [system EXCEPT ![s] = Listing(<<>>)]
    BY <1>6 DEF ClearBreakpoints
  <2>. QED
    BY <1>2, <2>1, <2>2
<1>7. CASE SetPc(s, c, a)
  BY <1>3, <1>7 DEF SetPc
<1>8. CASE LoadElf(s)
  BY <1>3, <1>8, AddrAssumption DEF LoadElf, Cores
<1>. QED
  BY <1>4, <1>5, <1>6, <1>7, <1>8

\* A turn of the loop: the core whose turn it is has been stepped, and the
\* record of the run is that of before but for its value and the late steps.
LEMMA TurnEffect ==
  ASSUME TypeOK, RunTurn
  PROVE  /\ call.sys \in Systems /\ last_core \in Cores /\ system[call.sys] \in System
         /\ \E r \in Stepping(system[call.sys], last_core) :
              system' = [system EXCEPT ![call.sys] = r.sys] /\ system'[call.sys] = r.sys
         /\ system' \in [Systems -> System]
         /\ \A t \in Systems : Len(system'[t].breakpoints) <= MaxBreakpoints
         /\ call' \in Call /\ call'.fn = call.fn /\ call'.sys = call.sys
         /\ call'.late = IF Overlooks(system[call.sys], last_core)
                         THEN call.late + 1 ELSE call.late
         /\ call.fn = "run_cycles" => /\ call'.asked = call.asked
                                      /\ call'.target = call.target
                                      /\ call'.flagged = call.flagged
<1>1. /\ call.sys \in Systems /\ call.late \in Nat /\ call \in Call
      /\ last_core \in Cores /\ call.value = "running"
  BY RunHasASystem DEF TypeOK, RunTurn, Running
<1>2. system[call.sys] \in System
  BY <1>1 DEF TypeOK
<1>. DEFINE n == IF Overlooks(system[call.sys], last_core) THEN call.late + 1 ELSE call.late
<1>3. PICK r \in Stepping(system[call.sys], last_core) :
        /\ system' = [system EXCEPT ![call.sys] = r.sys]
        /\ call' = [call EXCEPT !.value = IF r.value < 0 THEN "failed" ELSE @,
                                !.late  = IF Overlooks(system[call.sys], last_core)
                                          THEN @ + 1 ELSE @]
  BY Zenon DEF RunTurn
<1>4. PICK v \in {"running", "failed"} : call' = [call EXCEPT !.value = v, !.late = n]
  <2>. DEFINE w == IF r.value < 0 THEN "failed" ELSE call.value
  <2>1. w \in {"running", "failed"}
    BY <1>1
  <2>2. call' = [call EXCEPT !.value = w, !.late = n]
    BY <1>1, <1>3
  <2>. HIDE DEF w, n
  <2>. QED
    BY <2>1, <2>2
<1>5. n \in Nat
  BY <1>1
<1>. HIDE DEF n
<1>6. /\ call' \in Call /\ call'.fn = call.fn /\ call'.sys = call.sys /\ call'.late = n
      /\ call.fn = "run_cycles" => /\ call'.asked = call.asked
                                   /\ call'.target = call.target
                                   /\ call'.flagged = call.flagged
  <2>1. Running /\ v \in {"running", "done", "failed"}
    BY DEF RunTurn
  <2>. QED
    BY <1>1, <1>4, <1>5, <2>1, CallGoesOn
<1>7. /\ system' \in [Systems -> System]
      /\ \A t \in Systems : Len(system'[t].breakpoints) <= MaxBreakpoints
      /\ system'[call.sys] = r.sys
  BY <1>1, <1>3, SystemStepped, Zenon
<1>8. \E q \in Stepping(system[call.sys], last_core) :
        system' = [system EXCEPT ![call.sys] = q.sys] /\ system'[call.sys] = q.sys
  BY <1>3, <1>7, Zenon
<1>9. call'.late = IF Overlooks(system[call.sys], last_core)
                   THEN call.late + 1 ELSE call.late
  BY <1>6, Zenon DEF n
<1>. QED
  BY <1>1, <1>2, <1>6, <1>7, <1>8, <1>9, Zenon

\* Every step keeps the state well formed.
LEMMA NextTypeOK == TypeOK /\ [Next]_vars => TypeOK'
<1>. SUFFICES ASSUME TypeOK, [Next]_vars PROVE TypeOK'
  OBVIOUS
<1>1. ASSUME RunTurn PROVE TypeOK'
  <2>1. stepped' = <<call.sys, last_core>> /\ last_core' = NextCore(last_core)
    BY <1>1 DEF RunTurn
  <2>2. stepped' \in Systems \X Cores /\ last_core' \in Cores
    BY <1>1, <2>1, TurnEffect DEF NextCore, Cores
  <2>3. /\ system' \in [Systems -> System] /\ call' \in Call
        /\ \A t \in Systems : Len(system'[t].breakpoints) <= MaxBreakpoints
    BY <1>1, TurnEffect, Zenon
  <2>. QED
    BY <2>2, <2>3 DEF TypeOK
<1>2. ASSUME RunReturn PROVE TypeOK'
  <2>1. call' \in Call
    BY <1>2, CallEnds, Zenon DEF TypeOK, RunReturn
  <2>. QED
    BY <1>2, <2>1 DEF TypeOK, RunReturn
<1>3. ASSUME NEW s \in Systems, Step(s) PROVE TypeOK'
  <2>1. PICK r \in Stepping(system[s], last_core) : system' = [system EXCEPT ![s] = r.sys]
    BY <1>3, Zenon DEF Step
  <2>2. /\ system' \in [Systems -> System]
        /\ \A t \in Systems : Len(system'[t].breakpoints) <= MaxBreakpoints
    BY <2>1, SystemStepped, Zenon DEF TypeOK
  <2>3. stepped' \in Systems \X Cores /\ last_core' \in Cores
    BY <1>3 DEF Step, TypeOK, NextCore, Cores
  <2>. QED
    BY <1>3, <2>2, <2>3 DEF TypeOK, Step
<1>4. ASSUME NEW s \in Systems, StartRunUntilHalt(s) PROVE TypeOK'
  <2>1. call' \in Call
    BY <1>4 DEF StartRunUntilHalt, Call
  <2>. QED
    BY <1>4, <2>1 DEF StartRunUntilHalt, TypeOK
<1>5. ASSUME NEW s \in Systems, NEW c \in Cores, StepCore(s, c) PROVE TypeOK'
  <2>1. PICK r \in Stepping(system[s], c) : system' = [system EXCEPT ![s] = r.sys]
    BY <1>5, Zenon DEF StepCore
  <2>2. /\ system' \in [Systems -> System]
        /\ \A t \in Systems : Len(system'[t].breakpoints) <= MaxBreakpoints
    BY <2>1, SystemStepped, Zenon
  <2>. QED
    BY <1>5, <2>2 DEF StepCore, TypeOK
<1>6. ASSUME NEW s \in Systems, NEW n \in Cycles, StartRunCycles(s, n) PROVE TypeOK'
  <2>1. system[s].cycle_count + n \in Nat
    BY BoundAssumption DEF TypeOK, System, Cycles
  <2>2. (system[s].cycle_count + n) % CycleModulus \in Cycles
    BY <2>1, ModRange, BoundAssumption DEF Cycles
  <2>3. system[s].breakpoint_triggered \in BOOLEAN
    BY DEF TypeOK, System
  <2>4. call' \in Call
    BY <1>6, <2>2, <2>3, Zenon DEF StartRunCycles, Call
  <2>. QED
    BY <1>6, <2>4 DEF StartRunCycles, TypeOK
<1>7. ASSUME NEW s \in Systems, NEW a \in Addrs, NEW c \in Cores,
             \/ AddBreakpoint(s, a) \/ RemoveBreakpoint(s, a) \/ ClearBreakpoints(s)
             \/ SetPc(s, c, a) \/ LoadElf(s)
      PROVE  TypeOK'
  <2>1. /\ system' \in [Systems -> System]
        /\ \A t \in Systems : Len(system'[t].breakpoints) <= MaxBreakpoints
    BY <1>7, EditsKeepSystems
  <2>2. UNCHANGED <<last_core, call, stepped>>
    BY <1>7, Zenon DEF AddBreakpoint, RemoveBreakpoint, ClearBreakpoints, SetPc, LoadElf
  <2>. QED
    BY <2>1, <2>2 DEF TypeOK
<1>8. CASE UNCHANGED vars
  BY <1>8 DEF TypeOK, vars
<1>9. 0 \in Cores /\ SramBase \in Addrs
  BY AddrAssumption DEF Cores
<1>. QED
  BY <1>1, <1>2, <1>3, <1>4, <1>5, <1>6, <1>7, <1>8, <1>9, Zenon DEF Next

\* The state is well formed in every behaviour: cores hold addresses, the list
\* of breakpoints fits its array (rp2040_add_breakpoint), counters do not leave
\* their width.
THEOREM TypeCorrectness == Spec => []TypeOK
<1>. QED
  BY InitTypeOK, NextTypeOK, PTL DEF Spec

-----------------------------------------------------------------------------
(* The length of a run *)

\* The counter of a run that has not wrapped at its start.
WithinTarget ==
  call.fn = "run_cycles" /\ call.value = "running" /\ call.target >= call.asked =>
    system[call.sys].cycle_count \in call.target - call.asked .. call.target

\* A run whose target has wrapped is where it started.
StaysWhenWrapped ==
  call.fn = "run_cycles" /\ call.value = "running" /\ call.target < call.asked =>
    system[call.sys].cycle_count = call.target - call.asked + CycleModulus

\* Why the flag of a run is set: it was before the run, which then makes no
\* step, or the core that was served stands on a breakpoint.
FlagHasAReason ==
  call.fn = "run_cycles" /\ call.value = "running" =>
    LET sys == system[call.sys]
    IN  /\ call.flagged => /\ sys.breakpoint_triggered
                           /\ call.target >= call.asked
                                => sys.cycle_count = call.target - call.asked
        /\ sys.breakpoint_triggered => call.flagged \/ \E c \in Cores : AtBreakpoint(sys, c)

\* The start of a run that has wrapped lies above the target, which ends the loop.
LEMMA WrappedRunEnds ==
  ASSUME TypeOK, StaysWhenWrapped, call.fn = "run_cycles", call.value = "running",
         ~(call.target >= call.asked)
  PROVE  ~GoesOn /\ system[call.sys].cycle_count = call.target - call.asked + CycleModulus
<1>1. call.target \in 0..CycleModulus - 1 /\ call.asked \in 0..CycleModulus - 1
  BY BoundAssumption DEF TypeOK, Call, Cycles
<1>2. call.target < call.asked
  BY <1>1, BoundAssumption
<1>3. system[call.sys].cycle_count = call.target - call.asked + CycleModulus
  BY <1>2, Zenon DEF StaysWhenWrapped
<1>4. ~(system[call.sys].cycle_count < call.target)
  BY <1>1, <1>3, BoundAssumption
<1>. QED
  BY <1>3, <1>4, Zenon DEF GoesOn

\* A loop that ends in that range without a breakpoint has reached its target.
LEMMA WithinTargetSuffices ==
  TypeOK /\ WithinTarget /\ StaysWhenWrapped /\ FlagHasAReason => RunsTheCyclesAskedFor
<1>. DEFINE sys == system[call.sys]
<1>. SUFFICES ASSUME TypeOK, WithinTarget, StaysWhenWrapped, FlagHasAReason,
                     call.fn = "run_cycles", call.value = "running", call.target >= call.asked
              PROVE  /\ sys.cycle_count \in call.target - call.asked .. call.target
                     /\ ~GoesOn => \/ sys.cycle_count = call.target
                                   \/ \E c \in Cores : AtBreakpoint(sys, c)
                                   \/ call.flagged /\ sys.cycle_count = call.target - call.asked
  BY WrappedRunEnds, Zenon DEF RunsTheCyclesAskedFor
<1>1. call.target \in Nat /\ call.asked \in Nat
  BY BoundAssumption DEF TypeOK, Call, Cycles
<1>2. sys.cycle_count \in call.target - call.asked .. call.target
  BY DEF WithinTarget
<1>3. ASSUME ~GoesOn, ~sys.breakpoint_triggered
      PROVE  sys.cycle_count = call.target
  <2>1. ~(sys.cycle_count < call.target)
    BY <1>3, Zenon DEF GoesOn
  <2>. QED
    BY <1>1, <1>2, <2>1
<1>4. ASSUME sys.breakpoint_triggered
      PROVE  \/ \E c \in Cores : AtBreakpoint(sys, c)
             \/ call.flagged /\ sys.cycle_count = call.target - call.asked
  BY <1>4, Zenon DEF FlagHasAReason
<1>. QED
  BY <1>2, <1>3, <1>4, Zenon

\* A run whose target has not wrapped starts as far below it as was asked.
LEMMA StartsBelowTarget ==
  ASSUME TypeOK, NEW s \in Systems, NEW n \in Cycles, StartRunCycles(s, n),
         call'.target >= call'.asked
  PROVE  /\ system' = system /\ call'.sys = s /\ call'.asked = n
         /\ call'.flagged = system[s].breakpoint_triggered
         /\ system[s].cycle_count \in Nat /\ n \in Nat
         /\ call'.target = system[s].cycle_count + n
<1>. DEFINE k == system[s].cycle_count
<1>1. /\ call'.sys = s /\ call'.asked = n /\ call'.target = (k + n) % CycleModulus
      /\ call'.flagged = system[s].breakpoint_triggered
      /\ system' = system
  BY DEF StartRunCycles
<1>2. k \in 0..CycleModulus - 1 /\ n \in 0..CycleModulus - 1
  BY DEF TypeOK, System, Cycles
<1>. HIDE DEF k
<1>3. k + n < CycleModulus
  <2>. SUFFICES ASSUME k + n >= CycleModulus PROVE FALSE
    BY <1>2, BoundAssumption
  <2>1. (k + n) % CycleModulus = k + n - CycleModulus
    BY <1>2, BoundAssumption, WrappedSum
  <2>2. (k + n) % CycleModulus >= n
    BY <1>1
  <2>. QED
    BY <1>2, <2>1, <2>2, BoundAssumption
<1>4. call'.target = k + n
  BY <1>1, <1>2, <1>3, BoundAssumption, WrappedSum
<1>5. k \in Nat /\ n \in Nat
  BY <1>2, BoundAssumption
<1>. QED
  BY <1>1, <1>4, <1>5 DEF k

\* One whose target has wrapped starts that far below the end of the counter and
\* the target together.
LEMMA StartsAboveTarget ==
  ASSUME TypeOK, NEW s \in Systems, NEW n \in Cycles, StartRunCycles(s, n),
         call'.target < call'.asked
  PROVE  system'[call'.sys].cycle_count = call'.target - call'.asked + CycleModulus
<1>. DEFINE k == system[s].cycle_count
<1>1. /\ call'.sys = s /\ call'.asked = n /\ call'.target = (k + n) % CycleModulus
      /\ system' = system
  BY DEF StartRunCycles
<1>2. k \in 0..CycleModulus - 1 /\ n \in 0..CycleModulus - 1
  BY DEF TypeOK, System, Cycles
<1>. HIDE DEF k
<1>3. k + n >= CycleModulus
  <2>. SUFFICES ASSUME k + n < CycleModulus PROVE FALSE
    BY <1>2, BoundAssumption
  <2>1. (k + n) % CycleModulus = k + n
    BY <1>2, BoundAssumption, WrappedSum
  <2>. QED
    BY <1>1, <1>2, <2>1, BoundAssumption
<1>4. call'.target = k + n - CycleModulus
  BY <1>1, <1>2, <1>3, BoundAssumption, WrappedSum
<1>5. k = call'.target - call'.asked + CycleModulus
  BY <1>1, <1>2, <1>4, BoundAssumption
<1>. QED
  BY <1>1, <1>5 DEF k

\* A run that is in progress after a step has just been started, has made a turn,
\* or is as it was.
LEMMA StillRunning ==
  ASSUME TypeOK, [Next]_vars, call'.fn # "none", call'.value = "running"
  PROVE  \/ RunTurn
         \/ \E s \in Systems : StartRunUntilHalt(s)
         \/ \E s \in Systems, n \in Cycles : StartRunCycles(s, n)
         \/ UNCHANGED vars
<1>1. ASSUME ~Running, call' = call PROVE FALSE
  BY <1>1 DEF Running
<1>2. ASSUME RunReturn PROVE FALSE
  <2>1. call' = [call EXCEPT !.value = "done"] /\ call \in Call /\ Running
    BY <1>2, Zenon DEF RunReturn, TypeOK
  <2>. QED
    BY <2>1, CallEnds
<1>. QED
  BY <1>1, <1>2, Zenon
     DEF Next, Step, StepCore, AddBreakpoint, RemoveBreakpoint, ClearBreakpoints, SetPc, LoadElf

\* Every step keeps the counter in that range: a start whose target did not
\* wrap lies asked cycles below it, and a turn is taken below the target only.
LEMMA NextWithinTarget == TypeOK /\ WithinTarget /\ [Next]_vars => WithinTarget'
<1>. SUFFICES ASSUME TypeOK, WithinTarget, [Next]_vars,
                     call'.fn = "run_cycles", call'.value = "running",
                     call'.target >= call'.asked
              PROVE  system'[call'.sys].cycle_count
                       \in call'.target - call'.asked .. call'.target
  BY DEF WithinTarget
<1>1. ASSUME RunTurn
      PROVE  system'[call'.sys].cycle_count \in call'.target - call'.asked .. call'.target
  <2>1. /\ call.sys \in Systems /\ last_core \in Cores /\ system[call.sys] \in System
        /\ call'.sys = call.sys /\ call.fn = "run_cycles" /\ call.value = "running"
        /\ call'.asked = call.asked /\ call'.target = call.target
    BY <1>1, TurnEffect DEF RunTurn, Running
  <2>2. PICK r \in Stepping(system[call.sys], last_core) : system'[call.sys] = r.sys
    BY <1>1, TurnEffect
  <2>3. r.sys.cycle_count \in {system[call.sys].cycle_count,
                               (system[call.sys].cycle_count + 1) % CycleModulus}
    BY <2>1, <2>2, SteppingEffect, Zenon
  <2>. DEFINE n == system[call.sys].cycle_count
  <2>4. call.target >= call.asked /\ n \in call.target - call.asked .. call.target
    BY <2>1, Zenon DEF WithinTarget
  <2>5. n < call.target
    BY <1>1, <2>1, Zenon DEF RunTurn, GoesOn
  <2>6. /\ call.target \in 0..CycleModulus - 1 /\ call.asked \in Nat
        /\ n \in 0..CycleModulus - 1
    BY <2>1, BoundAssumption DEF TypeOK, Call, Cycles, System
  <2>. HIDE DEF n
  <2>7. (n + 1) % CycleModulus = n + 1
    <3>1. CycleModulus \in Nat \ {0} /\ 1 \in 0..CycleModulus - 1 /\ n + 1 < CycleModulus
      BY <2>5, <2>6, BoundAssumption
    <3>. QED
      BY <2>6, <3>1, WrappedSum
  <2>8. r.sys.cycle_count \in {n, n + 1}
    BY <2>3, <2>7 DEF n
  <2>9. r.sys.cycle_count \in call.target - call.asked .. call.target
    BY <2>4, <2>5, <2>6, <2>8
  <2>. QED
    BY <2>1, <2>2, <2>9, Zenon
<1>2. ASSUME NEW s \in Systems, NEW n \in Cycles, StartRunCycles(s, n)
      PROVE  system'[call'.sys].cycle_count \in call'.target - call'.asked .. call'.target
  BY <1>2, StartsBelowTarget
<1>3. ASSUME NEW s \in Systems, StartRunUntilHalt(s) PROVE FALSE
  BY <1>3 DEF StartRunUntilHalt
<1>4. CASE UNCHANGED vars
  BY <1>4 DEF vars, WithinTarget
<1>. QED
  BY <1>1, <1>2, <1>3, <1>4, StillRunning

\* Every step keeps a wrapped run where it started: there it makes no turn.
LEMMA NextStaysWhenWrapped == TypeOK /\ StaysWhenWrapped /\ [Next]_vars => StaysWhenWrapped'
<1>. SUFFICES ASSUME TypeOK, StaysWhenWrapped, [Next]_vars,
                     call'.fn = "run_cycles", call'.value = "running",
                     call'.target < call'.asked
              PROVE  system'[call'.sys].cycle_count = call'.target - call'.asked + CycleModulus
  BY DEF StaysWhenWrapped
<1>1. ASSUME RunTurn PROVE FALSE
  <2>1. /\ call.fn = "run_cycles" /\ call.value = "running"
        /\ call'.asked = call.asked /\ call'.target = call.target
    BY <1>1, TurnEffect DEF RunTurn, Running
  <2>2. call.target \in Nat /\ call.asked \in Nat
    BY <2>1, BoundAssumption DEF TypeOK, Call, Cycles
  <2>3. ~(call.target >= call.asked)
    BY <2>1, <2>2
  <2>. QED
    BY <1>1, <2>1, <2>3, WrappedRunEnds, Zenon DEF RunTurn
<1>2. ASSUME NEW s \in Systems, NEW n \in Cycles, StartRunCycles(s, n)
      PROVE  system'[call'.sys].cycle_count = call'.target - call'.asked + CycleModulus
  BY <1>2, StartsAboveTarget
<1>3. ASSUME NEW s \in Systems, StartRunUntilHalt(s) PROVE FALSE
  BY <1>3 DEF StartRunUntilHalt
<1>4. CASE UNCHANGED vars
  BY <1>4 DEF vars, StaysWhenWrapped
<1>. QED
  BY <1>1, <1>2, <1>3, <1>4, StillRunning

\* Every step keeps the reason: with the flag set there is no further turn, and
\* a turn sets it only with the served core on a breakpoint, where it stays.
LEMMA NextFlagHasAReason == TypeOK /\ FlagHasAReason /\ [Next]_vars => FlagHasAReason'
<1>. DEFINE now  == system[call.sys]
            then == system'[call'.sys]
<1>. SUFFICES ASSUME TypeOK, FlagHasAReason, [Next]_vars,
                     call'.fn = "run_cycles", call'.value = "running"
              PROVE  /\ call'.flagged => /\ then.breakpoint_triggered
                                         /\ call'.target >= call'.asked
                                              => then.cycle_count = call'.target - call'.asked
                     /\ then.breakpoint_triggered
                          => call'.flagged \/ \E c \in Cores : AtBreakpoint(then, c)
  BY Zenon DEF FlagHasAReason
<1>1. CASE RunTurn
  <2>1. /\ call.sys \in Systems /\ last_core \in Cores /\ now \in System
        /\ call'.sys = call.sys /\ call.fn = "run_cycles" /\ call.value = "running"
        /\ call'.flagged = call.flagged
    BY <1>1, TurnEffect DEF RunTurn, Running
  <2>2. PICK r \in Stepping(now, last_core) : then = r.sys
    BY <1>1, <2>1, TurnEffect, Zenon
  <2>3. ~now.breakpoint_triggered
    BY <1>1, Zenon DEF RunTurn, GoesOn
  <2>4. ~call'.flagged
    BY <2>1, <2>3, Zenon DEF FlagHasAReason
  <2>5. /\ r.sys.breakpoints = now.breakpoints
        /\ AtBreakpoint(now, last_core) => r.sys.pc = now.pc
        /\ ~AtBreakpoint(now, last_core) => r.sys.breakpoint_triggered = now.breakpoint_triggered
    BY <2>1, <2>2, SteppingEffect, Zenon
  <2>6. AtBreakpoint(now, last_core) => AtBreakpoint(then, last_core)
    BY <2>2, <2>5, Zenon DEF AtBreakpoint
  <2>. QED
    BY <2>1, <2>2, <2>3, <2>4, <2>5, <2>6, Zenon
<1>2. ASSUME NEW s \in Systems, NEW n \in Cycles, StartRunCycles(s, n)
      PROVE  /\ call'.flagged => /\ then.breakpoint_triggered
                                 /\ call'.target >= call'.asked
                                      => then.cycle_count = call'.target - call'.asked
             /\ then.breakpoint_triggered
                  => call'.flagged \/ \E c \in Cores : AtBreakpoint(then, c)
  <2>1. then = system[s] /\ call'.flagged = system[s].breakpoint_triggered
    BY <1>2 DEF StartRunCycles
  <2>2. ASSUME call'.target >= call'.asked
        PROVE  then.cycle_count = call'.target - call'.asked
    BY <1>2, <2>1, <2>2, StartsBelowTarget
  <2>. QED
    BY <2>1, <2>2
<1>3. ASSUME NEW s \in Systems, StartRunUntilHalt(s) PROVE FALSE
  BY <1>3 DEF StartRunUntilHalt
<1>4. CASE UNCHANGED vars
  BY <1>4, Zenon DEF vars, FlagHasAReason
<1>. QED
  BY <1>1, <1>2, <1>3, <1>4, StillRunning

\* A run of rp2040_run_cycles that does not take the counter over its end
\* stays between its start and its target, and its loop ends at the target, with
\* a core on a breakpoint, or without a step when the flag was set before.  One
\* that would take the counter over its end ends without a step.
THEOREM RunLength == Spec => []RunsTheCyclesAskedFor
<1>1. Init => WithinTarget /\ StaysWhenWrapped /\ FlagHasAReason
  BY DEF Init, WithinTarget, StaysWhenWrapped, FlagHasAReason
<1>. QED
  BY <1>1, InitTypeOK, NextTypeOK, NextWithinTarget, NextStaysWhenWrapped,
     NextFlagHasAReason, WithinTargetSuffices, PTL DEF Spec

-----------------------------------------------------------------------------
(* Breakpoints *)

\* After the one step that comes too late, the core on the breakpoint is the one
\* to be served, or it has been and the flag is set.
NextIsStopped ==
  call.fn # "none" =>
    /\ call.late \in {0, 1}
    /\ Running /\ call.late = 1 => \/ system[call.sys].breakpoint_triggered
                                   \/ AtBreakpoint(system[call.sys], last_core)

\* Every step keeps that: a core is overlooked when it is not its turn, which
\* it is next; it has not moved then, and is not overlooked again.
LEMMA NextNextIsStopped == TypeOK /\ NextIsStopped /\ [Next]_vars => NextIsStopped'
<1>. SUFFICES ASSUME TypeOK, NextIsStopped, [Next]_vars, call'.fn # "none"
              PROVE  /\ call'.late \in {0, 1}
                     /\ Running' /\ call'.late = 1
                          => \/ system'[call'.sys].breakpoint_triggered
                             \/ AtBreakpoint(system'[call'.sys], last_core')
  BY Zenon DEF NextIsStopped
<1>1. CASE RunTurn
  <2>. DEFINE now == system[call.sys]
              late == Overlooks(now, last_core)
  <2>1. /\ call.sys \in Systems /\ last_core \in Cores /\ now \in System
        /\ call'.sys = call.sys /\ call.fn # "none" /\ Running
        /\ call'.late = IF late THEN call.late + 1 ELSE call.late
    BY <1>1, TurnEffect DEF RunTurn, Running
  <2>2. PICK r \in Stepping(now, last_core) : system'[call'.sys] = r.sys
    BY <1>1, <2>1, TurnEffect, Zenon
  <2>3. call.late \in {0, 1} /\ (call.late = 1 => AtBreakpoint(now, last_core))
    BY <1>1, <2>1, Zenon DEF NextIsStopped, RunTurn, GoesOn
  <2>4. /\ r.sys.breakpoints = now.breakpoints
        /\ r.sys.pc[1 - last_core] = now.pc[1 - last_core]
        /\ AtBreakpoint(now, last_core) => r.sys.breakpoint_triggered
    BY <2>1, <2>2, SteppingEffect, Zenon
  <2>5. last_core' = 1 - last_core
    BY <1>1, <2>1 DEF RunTurn, NextCore, Cores
  <2>6. late => /\ ~AtBreakpoint(now, last_core)
                /\ AtBreakpoint(r.sys, last_core')
    BY <2>4, <2>5, Zenon DEF Overlooks, AtBreakpoint
  <2>. HIDE DEF late, now
  <2>7. CASE late
    <3>1. call'.late = 1
      BY <2>1, <2>3, <2>6, <2>7
    <3>. QED
      BY <2>2, <2>6, <2>7, <3>1
  <2>8. CASE ~late
    BY <2>1, <2>2, <2>3, <2>4, <2>8
  <2>. QED
    BY <2>7, <2>8
<1>2. CASE RunReturn
  <2>1. /\ call \in Call /\ Running /\ call' = [call EXCEPT !.value = "done"]
    BY <1>2 DEF RunReturn, TypeOK
  <2>2. call'.value = "done" /\ call'.late = call.late /\ call.fn # "none"
    BY <2>1, CallEnds DEF Running
  <2>. QED
    BY <2>2 DEF NextIsStopped, Running
<1>3. ASSUME NEW s \in Systems, NEW n \in Cycles, StartRunCycles(s, n)
      PROVE  call'.late \in {0, 1} /\ call'.late # 1
  BY <1>3 DEF StartRunCycles
<1>4. ASSUME NEW s \in Systems, StartRunUntilHalt(s)
      PROVE  call'.late \in {0, 1} /\ call'.late # 1
  BY <1>4 DEF StartRunUntilHalt
<1>5. ASSUME ~Running, call' = call
      PROVE  call'.late \in {0, 1} /\ ~Running'
  BY <1>5 DEF NextIsStopped, Running
<1>6. CASE UNCHANGED vars
  BY <1>6 DEF NextIsStopped, Running, vars
<1>. QED
  BY <1>1, <1>2, <1>3, <1>4, <1>5, <1>6, Zenon
     DEF Next, Step, StepCore, AddBreakpoint, RemoveBreakpoint, ClearBreakpoints, SetPc, LoadElf

\* In every run of any length, over any breakpoints, a core that comes to a
\* breakpoint stops the other one after one more step of it at the latest.
THEOREM HitStopsTheOther == Spec => []BothCoresStop
<1>1. Init => NextIsStopped
  BY DEF Init, NextIsStopped
<1>2. NextIsStopped => BothCoresStop
  BY DEF NextIsStopped, BothCoresStop
<1>. QED
  BY <1>1, <1>2, InitTypeOK, NextTypeOK, NextNextIsStopped, PTL DEF Spec

\* rp2040_step_core does not count a cycle for a core at a breakpoint, and no
\* other call counts at all: an instruction at a breakpoint is never executed.
THEOREM BreakpointsHold == Spec => NoStepOverBreakpoint
<1>. DEFINE Held == \A s \in Systems, c \in Cores, a \in Addrs :
                      /\ \E i \in 1..Len(system[s].breakpoints) : system[s].breakpoints[i] = a
                      /\ system[s].pc[c] = a
                      /\ system'[s].cycle_count # system[s].cycle_count
                      => stepped' # <<s, c>>
<1>1. TypeOK /\ [Next]_vars => Held
  <2>. SUFFICES ASSUME TypeOK, [Next]_vars,
                       NEW s \in Systems, NEW c \in Cores,
                       AtBreakpoint(system[s], c), stepped' = <<s, c>>
                PROVE  system'[s].cycle_count = system[s].cycle_count
    BY Zenon DEF AtBreakpoint
  <2>1. system \in [Systems -> System] /\ system[s] \in System
    BY DEF TypeOK
  <2>2. ASSUME NEW t \in Systems, NEW d \in Cores, NEW r \in Stepping(system[t], d),
               system' = [system EXCEPT ![t] = r.sys], stepped' = <<t, d>>
        PROVE  system'[s].cycle_count = system[s].cycle_count
    <3>1. t = s /\ d = c
      BY <2>2
    <3>2. r.sys.cycle_count = system[s].cycle_count
      BY <2>1, <2>2, <3>1, SteppingEffect
    <3>. QED
      BY <2>1, <2>2, <3>1, <3>2
  <2>3. CASE RunTurn
    <3>1. call.sys \in Systems /\ last_core \in Cores
      BY <2>3, TurnEffect
    <3>2. \E r \in Stepping(system[call.sys], last_core) :
            system' = [system EXCEPT ![call.sys] = r.sys]
      BY <2>3, TurnEffect, Zenon
    <3>3. stepped' = <<call.sys, last_core>>
      BY <2>3 DEF RunTurn
    <3>. QED
      BY <2>2, <3>1, <3>2, <3>3, Zenon
  <2>4. ASSUME NEW t \in Systems, Step(t)
        PROVE  system'[s].cycle_count = system[s].cycle_count
    <3>1. last_core \in Cores
      BY DEF TypeOK
    <3>. QED
      BY <2>2, <2>4, <3>1, Zenon DEF Step
  <2>5. ASSUME NEW t \in Systems, NEW d \in Cores, StepCore(t, d)
        PROVE  system'[s].cycle_count = system[s].cycle_count
    BY <2>2, <2>5, Zenon DEF StepCore
  <2>6. CASE system' = system
    BY <2>6
  <2>7. ASSUME NEW t \in Systems, NEW a \in Addrs, NEW d \in Cores,
               \/ AddBreakpoint(t, a) \/ RemoveBreakpoint(t, a) \/ ClearBreakpoints(t)
               \/ SetPc(t, d, a) \/ LoadElf(t)
        PROVE  system'[s].cycle_count = system[s].cycle_count
    <3>1. ASSUME NEW bps, system' = [system EXCEPT ![t].breakpoints = bps]
          PROVE  system'[s].cycle_count = system[s].cycle_count
      BY <2>1, <3>1 DEF System
    <3>2. ASSUME NEW e, NEW b, system' = [system EXCEPT ![t].pc[e] = b]
          PROVE  system'[s].cycle_count = system[s].cycle_count
      BY <2>1, <3>2 DEF System
    <3>. QED
      BY <2>7, <3>1, <3>2, Zenon
         DEF AddBreakpoint, RemoveBreakpoint, ClearBreakpoints, SetPc, LoadElf
  <2>8. 0 \in Cores /\ SramBase \in Addrs
    BY AddrAssumption DEF Cores
  <2>. QED
    BY <2>3, <2>4, <2>5, <2>6, <2>7, <2>8, Zenon
       DEF Next, vars, RunReturn, StartRunUntilHalt, StartRunCycles
<1>. QED
  BY <1>1, TypeCorrectness, PTL DEF Spec, NoStepOverBreakpoint

\* Whatever was added and removed before, a removal takes one entry for the address
\* out of the list if it has one, and leaves as many as before for any other.
THEOREM RemovalTakesOne == Spec => RemoveTakesOne
<1>1. TypeOK => \A s \in Systems, a \in Addrs :
                  RemoveBreakpoint(s, a) =>
                    \A b \in Addrs :
                      LET before == Count(system[s].breakpoints, b)
                      IN  Count(system'[s].breakpoints, b) =
                            IF b = a /\ before > 0 THEN before - 1 ELSE before
  <2>. SUFFICES ASSUME TypeOK, NEW s \in Systems, NEW a \in Addrs, RemoveBreakpoint(s, a),
                       NEW b \in Addrs
                PROVE  LET before == Count(system[s].breakpoints, b)
                       IN  Count(system'[s].breakpoints, b) =
                             IF b = a /\ before > 0 THEN before - 1 ELSE before
    OBVIOUS
  <2>1. system[s].breakpoints \in Seq(Addrs)
    BY DEF TypeOK, System
  <2>2. system'[s].breakpoints = Without(system[s].breakpoints, a)
    BY DEF TypeOK, System, RemoveBreakpoint
  <2>. QED
    BY <2>1, <2>2, WithoutTakesOne
<1>. QED
  BY <1>1, TypeCorrectness, PTL DEF Spec, RemoveTakesOne
=============================================================================
