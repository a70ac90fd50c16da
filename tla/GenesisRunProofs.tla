---- MODULE GenesisRunProofs ----
(***************************************************************************)
(* For every program, frame length, set of regions and plans: a step never *)
(* strands the machine.  The invariant is a division of the control state: *)
(* who may hold the bypass, what is gated inside and outside a seam, and   *)
(* that every way back to _run_to's loop has moved the clock.              *)
(*                                                                         *)
(* And where the regions are right about their own instructions, the run   *)
(* implements the canonical one: whatever the machine does in a frame, the *)
(* frame still comes to what it came to when it was begun (Outcome).       *)
(***************************************************************************)
EXTENDS GenesisRun, WellFoundedInduction, TLAPS

Busy == {"running", "onGate", "onResume", "retireOne"}

\* step and _run_to: the phase brackets the Python side, and a frame in
\* progress is a frame within the bound.
PhaseInv ==
    /\ phase = "idle" <=> py = "idle"
    /\ phase # "idle" => frame < MaxFrames

\* run_seam: what is armed while a seam is open, and what is not.
SeamInv ==
    /\ inSeam => /\ py \in {"running", "onResume"}
                 /\ region \in DOMAIN Seams
                 /\ gates = {Seams[region].resume}
                 /\ gate \in {NoGate, Seams[region].resume}
                 /\ guarded = "intact"
    /\ ~inSeam => gates = Armed /\ py # "onResume"

\* Executor: a stop stands at an admitted boundary on its gate; a bypass lives
\* from there to the instruction it is for, or inside a seam.
GateInv ==
    /\ py \in {"onGate", "onResume", "retireOne"} => Boundary(m) = m
    /\ py \in {"onResume", "retireOne"} => AtGate(m)
    /\ py = "retireOne" => bypass
    /\ bypass => py = "retireOne" \/ (inSeam /\ py = "running")

\* _run_to: the run began below its target, and time does not go back.
LoopInv ==
    /\ py \in Busy => before.tick < Target /\ before.tick <= m.now
    /\ parked = 0

IInv == TypeOK /\ PhaseInv /\ SeamInv /\ GateInv /\ LoopInv /\ RaisesOnlyOnMismatch
----
(* The machine: every operation stays in its type and costs time.          *)

LEMMA CostPositive ==
    ASSUME NEW a \in Nat \ {0}, NEW b \in Nat \ {0}
    PROVE  a * b \in Nat /\ a * b > 0
  OBVIOUS

LEMMA PowerOnType == PowerOn \in Machine /\ PowerOn.now = 0
  BY MachineAssumption DEF PowerOn, Machine

LEMMA CurrentType ==
    ASSUME NEW s \in Machine
    PROVE  Current(s) \in Instruction
<1>1. CASE s.isr > 0
  <2>1. s.isr \in 1..Len(Handler)
    BY <1>1, MachineAssumption DEF Machine
  <2>2. Handler[s.isr] \in Instruction
    BY <2>1, MachineAssumption
  <2> QED
    BY <1>1, <2>2 DEF Current
<1>2. CASE ~(s.isr > 0)
  <2>1. s.at \in 1..Len(Main)
    BY DEF Machine
  <2>2. Main[s.at] \in Instruction
    BY <2>1, MachineAssumption
  <2> QED
    BY <1>2, <2>2 DEF Current
<1> QED
  BY <1>1, <1>2

LEMMA StandingType ==
    ASSUME NEW s \in Machine
    PROVE  /\ Standing(s) \in [tick : Nat, pc : Nat]
           /\ Standing(s).tick = s.now
<1>1. Current(s).pc \in Nat
  BY CurrentType DEF Instruction
<1>2. s.now \in Nat
  BY DEF Machine
<1> QED
  BY <1>1, <1>2 DEF Standing

\* Admitting an interrupt takes no time, moves no stack word, and is done once.
LEMMA BoundaryFacts ==
    ASSUME NEW s \in Machine
    PROVE  /\ Boundary(s) \in Machine
           /\ Boundary(s).now = s.now /\ Boundary(s).frame = s.frame
           /\ Boundary(Boundary(s)) = Boundary(s)
<1>1. CASE InterruptDue(s)
  <2> DEFINE b == [s EXCEPT !.isr = 1, !.irqs = @ + 1, !.irqAt = s.at]
  <2>1. Boundary(s) = b
    BY <1>1 DEF Boundary
  <2>2. b \in Machine /\ b.now = s.now /\ b.frame = s.frame /\ b.isr = 1
    <3>1. s.irqs + 1 \in Nat /\ s.at \in 0..Len(Main) /\ 1 \in 0..Len(Handler)
      BY MachineAssumption DEF Machine
    <3> DEFINE next == s.irqs + 1
               one == 1
    <3>2. next \in Nat /\ one \in 0..Len(Handler) /\ one = 1
      BY <3>1
    <3>3. b = [s EXCEPT !.isr = one, !.irqs = next, !.irqAt = s.at]
      OBVIOUS
    <3> HIDE DEF next, one, b
    <3> QED
      BY <3>1, <3>2, <3>3 DEF Machine
  <2>3. Boundary(b) = b
    BY <2>2 DEF Boundary, InterruptDue
  <2> QED
    BY <2>1, <2>2, <2>3
<1>2. CASE ~InterruptDue(s)
  BY <1>2 DEF Boundary
<1> QED
  BY <1>1, <1>2

LEMMA FollowingType ==
    ASSUME NEW at \in 1..Len(Main)
    PROVE  Following(at) \in 1..Len(Main)
  BY MachineAssumption DEF Following

LEMMA ExecuteFacts ==
    ASSUME NEW s \in Machine
    PROVE  Execute(s) \in Machine /\ Execute(s).now > s.now
<1> DEFINE i == Current(s)
           now == s.now + i.cycles * Divider
           seen == IF i.effect = "read" THEN s.pad ELSE s.seen
           word == IF i.effect = "push" THEN "intact"
                   ELSE IF i.effect = "smash" /\ s.seen # 0 THEN "smashed" ELSE s.frame
           isr == IF s.isr = 0 THEN 0 ELSE IF s.isr = Len(Handler) THEN 0 ELSE s.isr + 1
           at == IF s.isr # 0 THEN s.at
                 ELSE IF i.effect = "pop" /\ s.frame = "smashed" THEN 1
                 ELSE Following(s.at)
<1>1. s.at \in 1..Len(Main) /\ s.isr \in 0..Len(Handler) /\ s.now \in Nat
      /\ s.seen \in Masks /\ s.pad \in Masks /\ s.frame \in {"intact", "smashed"}
  BY DEF Machine
<1>2. i.cycles \in Nat \ {0}
  BY CurrentType DEF Instruction
<1>3. now \in Nat /\ now > s.now
  <2>1. i.cycles * Divider \in Nat /\ i.cycles * Divider > 0
    BY <1>2, CostPositive, MachineAssumption
  <2> HIDE DEF i
  <2> QED
    BY <1>1, <2>1
<1>4. seen \in Masks
  BY <1>1
<1>5. word \in {"intact", "smashed"}
  BY <1>1
<1>6. isr \in 0..Len(Handler)
  BY <1>1, MachineAssumption
<1>7. at \in 1..Len(Main)
  BY <1>1, FollowingType, MachineAssumption
<1>8. Execute(s) = [s EXCEPT !.now = now, !.seen = seen, !.frame = word,
                             !.isr = isr, !.at = at]
  BY DEF Execute
<1> HIDE DEF now, seen, word, isr, at
<1> QED
  BY <1>3, <1>4, <1>5, <1>6, <1>7, <1>8 DEF Machine

LEMMA AppliedFacts ==
    ASSUME m \in Machine, NEW p \in Plan
    PROVE  Applied(p) \in Machine /\ Applied(p).now > m.now
<1> DEFINE now == m.now + p.cycles * Divider
           word == IF p.frame = "intact" THEN "intact" ELSE m.frame
<1>1. p.cycles \in Nat \ {0} /\ p.to \in 1..Len(Main)
  BY DEF Plan
<1>2. now \in Nat /\ now > m.now
  <2>1. p.cycles * Divider \in Nat /\ p.cycles * Divider > 0
    BY <1>1, CostPositive, MachineAssumption
  <2>2. m.now \in Nat
    BY DEF Machine
  <2> QED
    BY <2>1, <2>2
<1>3. word \in {"intact", "smashed"}
  BY DEF Machine
<1>4. Applied(p) = [m EXCEPT !.now = now, !.at = p.to, !.frame = word]
  BY DEF Applied
<1> HIDE DEF now, word
<1> QED
  BY <1>1, <1>2, <1>3, <1>4 DEF Machine

\* A seam's prefix saves the frame, so that is what the guards record.
LEMMA PrefixFacts ==
    ASSUME m \in Machine, NEW pc \in DOMAIN Seams
    PROVE  /\ Seams[pc].prefix \in Plan /\ Seams[pc].suffix \in Plan
           /\ Seams[pc].resume \in Nat
           /\ Applied(Seams[pc].prefix).frame = "intact"
<1>1. Seams[pc] \in Seam
  BY RunAssumption
<1>2. Seams[pc].prefix \in Prefix /\ Seams[pc].suffix \in Plan /\ Seams[pc].resume \in Nat
  BY <1>1 DEF Seam
<1>3. Seams[pc].prefix \in Plan /\ Seams[pc].prefix.frame = "intact"
  BY <1>2 DEF Prefix
<1> QED
  BY <1>2, <1>3 DEF Applied, Machine
----
(* The loop around the machine.                                            *)

\* Coming back later than the run began is progress: nothing is parked.
LEMMA RejoinFacts ==
    ASSUME TypeOK, LoopInv, NEW s \in Machine, s.now > before.tick, Rejoin(s)
    PROVE  parked' = 0 /\ py' = "loop" /\ before' = before
<1>1. s.now \in Nat /\ before.tick \in Nat
  BY DEF Machine, TypeOK
<1>2. parked' = 0
  BY <1>1 DEF Rejoin
<1>3. Standing(s) # before
  BY <1>1, StandingType
<1> QED
  BY <1>2, <1>3 DEF Rejoin, MaxParked

LEMMA Instants ==
    ASSUME TypeOK
    PROVE  /\ m.now \in Nat /\ before.tick \in Nat
           /\ Wrap \in Nat /\ Observed \in Nat /\ Target \in Nat
           /\ Target <= Observed
<1>1. m.now \in Nat /\ before.tick \in Nat /\ frame \in Nat
  BY DEF Machine, TypeOK
<1>2. FrameTicks \in Nat /\ ObservationOffset \in Nat
  BY MachineAssumption, RunAssumption
<1>3. Wrap \in Nat
  BY <1>1, <1>2 DEF Wrap
<1> QED
  BY <1>1, <1>2, <1>3 DEF Observed, Target

\* A run just created (GenesisRun.__init__) satisfies the invariant.
THEOREM InitIInv == Init => IInv
<1> SUFFICES ASSUME Init PROVE IInv
  OBVIOUS
<1> USE DEF Init
<1>1. TypeOK
  <2>1. Armed \subseteq Nat
    BY RunAssumption DEF Armed
  <2>2. 0 \in Masks /\ MaxFrames \in Nat
    BY MachineAssumption, RunAssumption
  <2>3. m \in Machine /\ snapshot \in Machine /\ before \in [tick : Nat, pc : Nat]
    BY PowerOnType, StandingType
  <2>4. gates \subseteq Nat /\ bypass \in BOOLEAN /\ yielded \in BOOLEAN
    BY <2>1
  <2>5. frame \in 0..MaxFrames /\ parked \in 0..(MaxParked + 1)
    BY <2>2 DEF MaxParked
  <2> QED
    BY <2>2, <2>3, <2>4, <2>5 DEF TypeOK
<1>2. PhaseInv /\ SeamInv /\ GateInv /\ LoopInv /\ RaisesOnlyOnMismatch
  BY DEF PhaseInv, SeamInv, GateInv, LoopInv, Busy, RaisesOnlyOnMismatch
<1> QED
  BY <1>1, <1>2 DEF IInv

LEMMA BeginStepPreserves ==
    ASSUME IInv, NEW b \in Masks, BeginStep(b)
    PROVE  IInv'
<1> USE DEF IInv, BeginStep, executor, seam
<1>1. TypeOK'
  BY DEF TypeOK, MaxParked
<1>2. PhaseInv' /\ SeamInv' /\ RaisesOnlyOnMismatch'
  BY DEF PhaseInv, SeamInv, RaisesOnlyOnMismatch, TypeOK
<1>3. GateInv' /\ LoopInv'
  BY DEF PhaseInv, SeamInv, GateInv, LoopInv, Busy, TypeOK
<1> QED
  BY <1>1, <1>2, <1>3

LEMMA ResumePreserves ==
    ASSUME IInv, Resume
    PROVE  IInv'
<1> USE DEF IInv, Resume, run, seam
<1>1. TypeOK'
  BY StandingType DEF TypeOK
<1>2. PhaseInv' /\ SeamInv' /\ RaisesOnlyOnMismatch'
  BY DEF PhaseInv, SeamInv, RaisesOnlyOnMismatch
<1>3. GateInv'
  BY DEF GateInv, SeamInv
<1>4. LoopInv'
  <2>1. before'.tick = m.now /\ Target' = Target
    BY StandingType DEF Target, Wrap, Observed, TypeOK
  <2>2. m.now \in Nat
    BY Instants
  <2> QED
    BY <2>1, <2>2 DEF LoopInv
<1> QED
  BY <1>1, <1>2, <1>3, <1>4

LEMMA ReachWrapPreserves ==
    ASSUME IInv, ReachWrap
    PROVE  IInv'
<1> USE DEF IInv, ReachWrap, executor, seam
<1>1. m' \in Machine /\ buttons' \in Masks /\ m'.frame = m.frame
  <2>1. m \in Machine /\ mask \in Masks /\ buttons \in Masks
    BY DEF TypeOK
  <2>2. [m EXCEPT !.pad = mask] \in Machine /\ [m EXCEPT !.pad = mask].frame = m.frame
    BY <2>1 DEF Machine
  <2> QED
    BY <2>1, <2>2
<1>2. TypeOK'
  BY <1>1 DEF TypeOK, MaxParked
<1>3. PhaseInv' /\ SeamInv' /\ GateInv' /\ LoopInv' /\ RaisesOnlyOnMismatch'
  BY DEF PhaseInv, SeamInv, GateInv, LoopInv, Busy, RaisesOnlyOnMismatch
<1> QED
  BY <1>2, <1>3

LEMMA ReachObservedPreserves ==
    ASSUME IInv, ReachObserved
    PROVE  IInv'
<1> USE DEF IInv, ReachObserved, executor, seam, loop
<1>1. TypeOK'
  <2>1. frame + 1 \in 0..MaxFrames
    BY RunAssumption DEF TypeOK, PhaseInv
  <2> QED
    BY <2>1, MachineAssumption DEF TypeOK
<1>2. PhaseInv' /\ SeamInv' /\ GateInv' /\ LoopInv' /\ RaisesOnlyOnMismatch'
  BY DEF PhaseInv, SeamInv, GateInv, LoopInv, Busy, RaisesOnlyOnMismatch
<1> QED
  BY <1>1, <1>2
----
(* al_run.                                                                 *)

LEMMA RunYieldPreserves ==
    ASSUME IInv, RunYield
    PROVE  IInv'
<1> USE DEF IInv, RunYield, run, seam, loop
<1>1. m' \in Machine /\ m'.now = m.now /\ m'.frame = m.frame /\ Boundary(m') = m'
  BY BoundaryFacts DEF TypeOK
<1>2. TypeOK'
  BY <1>1 DEF TypeOK
<1>3. PhaseInv' /\ SeamInv' /\ RaisesOnlyOnMismatch'
  BY <1>1 DEF PhaseInv, SeamInv, RaisesOnlyOnMismatch
<1>4. GateInv'
  BY <1>1 DEF GateInv, SeamInv, AtGate
<1>5. LoopInv'
  BY <1>1 DEF LoopInv, Busy, Target, Wrap, Observed
<1> QED
  BY <1>2, <1>3, <1>4, <1>5

LEMMA RunInstructionPreserves ==
    ASSUME IInv, RunInstruction
    PROVE  IInv'
<1> USE DEF IInv, RunInstruction, run, seam, loop
<1>1. m' \in Machine /\ m'.now > m.now
  BY BoundaryFacts, ExecuteFacts DEF TypeOK
<1>2. TypeOK'
  BY <1>1 DEF TypeOK
<1>3. PhaseInv' /\ SeamInv' /\ RaisesOnlyOnMismatch'
  BY DEF PhaseInv, SeamInv, RaisesOnlyOnMismatch
<1>4. GateInv'
  BY DEF GateInv, SeamInv
<1>5. LoopInv'
  <2>1. m'.now \in Nat /\ m.now \in Nat /\ before.tick \in Nat
    BY <1>1, Instants DEF Machine
  <2>2. before.tick < Target /\ before.tick <= m.now
    BY DEF LoopInv, Busy
  <2>3. Target' = Target /\ before.tick <= m'.now
    BY <1>1, <2>1, <2>2 DEF Target, Wrap, Observed
  <2> QED
    BY <2>2, <2>3 DEF LoopInv
<1> QED
  BY <1>2, <1>3, <1>4, <1>5

\* What every return to the loop establishes once the clock has moved.
LEMMA BackInLoop ==
    ASSUME IInv, phase # "idle",
           m' \in Machine, m'.now > before.tick, Rejoin(m'),
           UNCHANGED run,
           gate' \in Nat \cup {NoGate}, yielded' \in BOOLEAN,
           ~inSeam', inSeam' \in BOOLEAN, region' \in DOMAIN Seams \cup {NoGate},
           guarded' \in {"intact", "smashed"}, bypass' \in BOOLEAN,
           ~bypass', gates' = Armed
    PROVE  IInv'
<1> USE DEF IInv, run
<1>1. parked' = 0 /\ py' = "loop" /\ before' = before
  BY RejoinFacts
<1>2. TypeOK'
  <2>1. Armed \subseteq Nat
    BY RunAssumption DEF Armed
  <2>2. parked' \in 0..(MaxParked + 1) /\ before' \in [tick : Nat, pc : Nat]
    BY <1>1 DEF TypeOK, MaxParked
  <2>3. gates' \subseteq Nat
    BY <2>1
  <2>4. frame' \in 0..MaxFrames /\ buttons' \in Masks /\ snapshot' \in Machine
        /\ phase' \in {"idle", "toWrap", "toObserved"} /\ mask' \in Masks
    BY DEF TypeOK
  <2> QED
    BY <1>1, <2>2, <2>3, <2>4 DEF TypeOK
<1>3. PhaseInv' /\ SeamInv' /\ GateInv' /\ LoopInv' /\ RaisesOnlyOnMismatch'
  BY <1>1 DEF PhaseInv, SeamInv, GateInv, LoopInv, Busy, RaisesOnlyOnMismatch
<1> QED
  BY <1>2, <1>3

LEMMA RunLimitPreserves ==
    ASSUME IInv, RunLimit
    PROVE  IInv'
<1> USE DEF IInv, RunLimit, executor, seam
<1>1. m' = m /\ m \in Machine
  BY DEF TypeOK
<1>2. m.now > before.tick
  <2>1. m.now >= Target
    BY DEF RunTarget
  <2>2. before.tick < Target
    BY DEF LoopInv, Busy
  <2> QED
    BY <2>1, <2>2, Instants
<1>3. ~bypass /\ gates = Armed
  BY DEF GateInv, SeamInv
<1>4. phase # "idle"
  BY DEF PhaseInv
<1> QED
  BY <1>1, <1>2, <1>3, <1>4, BackInLoop DEF TypeOK
----
(* Candidate.on_gate.                                                      *)

LEMMA FallbackPreserves ==
    ASSUME IInv, Fallback
    PROVE  IInv'
<1> USE DEF IInv, Fallback, BypassOnce, run, seam, loop
<1>1. Current(m).pc \in Nat
  BY CurrentType DEF TypeOK, Instruction
<1>2. TypeOK'
  BY <1>1 DEF TypeOK
<1>3. ~inSeam
  BY DEF SeamInv
<1>4. PhaseInv' /\ SeamInv' /\ RaisesOnlyOnMismatch'
  BY <1>3 DEF PhaseInv, SeamInv, RaisesOnlyOnMismatch
<1>5. GateInv'
  <2>1. Boundary(m) = m
    BY DEF GateInv
  <2>2. m' = m /\ gate' = Current(m).pc
    OBVIOUS
  <2>3. AtGate(m)'
    BY <2>2 DEF AtGate
  <2> QED
    BY <2>1, <2>2, <2>3 DEF GateInv
<1>6. LoopInv'
  BY DEF LoopInv, Busy, Target, Wrap, Observed
<1> QED
  BY <1>2, <1>4, <1>5, <1>6

LEMMA RetireOnePreserves ==
    ASSUME IInv, RetireOne
    PROVE  IInv'
<1> USE DEF IInv, RetireOne, run, seam
<1>1. Boundary(m) = m /\ AtGate(m) /\ bypass
  BY DEF GateInv
<1>2. m' = Execute(m) /\ yielded' = FALSE /\ ~bypass'
  BY <1>1
<1>3. m' \in Machine /\ m'.now > m.now
  BY <1>2, ExecuteFacts DEF TypeOK
<1>4. m'.now > before.tick
  <2>1. before.tick <= m.now
    BY DEF LoopInv, Busy
  <2>2. m'.now \in Nat
    BY <1>3 DEF Machine
  <2> QED
    BY <1>3, <2>1, <2>2, Instants
<1>5. ~inSeam /\ gates = Armed
  BY DEF SeamInv
<1>6. phase # "idle"
  BY DEF PhaseInv
<1>7. bypass' \in BOOLEAN
  BY <1>2 DEF TypeOK
<1> QED
  BY <1>2, <1>3, <1>4, <1>5, <1>6, <1>7, BackInLoop DEF TypeOK

\* An admitted plan moves the clock.
LEMMA AdmitFacts ==
    ASSUME TypeOK, LoopInv, py \in Busy, NEW p \in Plan, Admit(p)
    PROVE  m' = Applied(p) /\ m' \in Machine /\ m'.now > before.tick
           /\ m'.now >= m.now /\ yielded' = FALSE
<1>1. m' = Applied(p) /\ m' \in Machine /\ m'.now > m.now /\ yielded' = FALSE
  BY AppliedFacts DEF Admit, TypeOK
<1>2. m'.now \in Nat
  BY <1>1 DEF Machine
<1>3. before.tick <= m.now
  BY DEF LoopInv
<1> QED
  BY <1>1, <1>2, <1>3, Instants

LEMMA AdmitPlanPreserves ==
    ASSUME IInv, AdmitPlan
    PROVE  IInv'
<1> USE DEF IInv, AdmitPlan, run, seam
<1>1. Plans[Current(m).pc] \in Plan
  BY RunAssumption
<1>2. m' \in Machine /\ m'.now > before.tick /\ yielded' = FALSE
  BY <1>1, AdmitFacts DEF Busy
<1>3. ~inSeam /\ gates = Armed /\ ~bypass
  BY DEF SeamInv, GateInv
<1>4. phase # "idle"
  BY DEF PhaseInv
<1> QED
  BY <1>2, <1>3, <1>4, BackInLoop DEF TypeOK

LEMMA OpenSeamPreserves ==
    ASSUME IInv, OpenSeam
    PROVE  IInv'
<1> USE DEF IInv, OpenSeam, SetGates, run, loop
<1> DEFINE entry == Current(m).pc
<1>1. entry \in DOMAIN Seams
  OBVIOUS
<1>2. /\ Seams[entry].prefix \in Plan /\ Seams[entry].resume \in Nat
      /\ Applied(Seams[entry].prefix).frame = "intact"
  BY <1>1, PrefixFacts DEF TypeOK
<1>3. Admit(Seams[entry].prefix) /\ region' = entry /\ gates' = {Seams[entry].resume}
  OBVIOUS
<1> HIDE DEF entry
<1>4. m' = Applied(Seams[entry].prefix) /\ m' \in Machine /\ m'.now > before.tick
      /\ yielded' = FALSE
  BY <1>2, <1>3, AdmitFacts DEF Busy
<1>5. guarded' = "intact"
  BY <1>2, <1>4
<1>6. TypeOK'
  BY <1>1, <1>2, <1>3, <1>4, <1>5 DEF TypeOK
<1>7. PhaseInv' /\ RaisesOnlyOnMismatch'
  BY DEF PhaseInv, RaisesOnlyOnMismatch
<1>8. SeamInv' /\ GateInv'
  BY <1>1, <1>3, <1>5 DEF SeamInv, GateInv
<1>9. LoopInv'
  <2>1. before.tick < Target /\ parked = 0
    BY DEF LoopInv, Busy
  <2>2. Target' = Target
    BY DEF Target, Wrap, Observed
  <2>3. before.tick <= m'.now
    BY <1>4, Instants DEF Machine
  <2> QED
    BY <2>1, <2>2, <2>3 DEF LoopInv
<1> QED
  BY <1>6, <1>7, <1>8, <1>9
----
(* run_seam.                                                               *)

LEMMA ForeignReturnPreserves ==
    ASSUME IInv, ForeignReturn
    PROVE  IInv'
<1> USE DEF IInv, ForeignReturn, BypassOnce, run, seam, loop
<1>1. inSeam /\ region \in DOMAIN Seams
  BY DEF SeamInv
<1>2. Seams[region].resume \in Nat
  BY <1>1, PrefixFacts DEF TypeOK
<1>3. TypeOK'
  BY <1>2 DEF TypeOK
<1>4. PhaseInv' /\ SeamInv' /\ GateInv' /\ RaisesOnlyOnMismatch'
  BY <1>1 DEF PhaseInv, SeamInv, GateInv, RaisesOnlyOnMismatch
<1>5. LoopInv'
  BY DEF LoopInv, Busy, Target, Wrap, Observed
<1> QED
  BY <1>3, <1>4, <1>5

LEMMA SeamMismatchPreserves ==
    ASSUME IInv, SeamMismatch
    PROVE  IInv'
<1> USE DEF IInv, SeamMismatch, OwnReturn, CloseSeam, SetGates, run, loop
<1>1. guarded = "intact" /\ m.frame \in {"intact", "smashed"}
  BY DEF SeamInv, TypeOK, Machine
<1>2. RaisesOnlyOnMismatch'
  BY <1>1 DEF RaisesOnlyOnMismatch
<1>3. TypeOK'
  <2>1. Armed \subseteq Nat
    BY RunAssumption DEF Armed
  <2> QED
    BY <2>1 DEF TypeOK
<1>4. PhaseInv' /\ SeamInv' /\ GateInv' /\ LoopInv'
  BY DEF PhaseInv, SeamInv, GateInv, LoopInv, Busy
<1> QED
  BY <1>2, <1>3, <1>4

LEMMA AdmitSuffixPreserves ==
    ASSUME IInv, AdmitSuffix
    PROVE  IInv'
<1> USE DEF IInv, AdmitSuffix, OwnReturn, CloseSeam, SetGates, run
<1>1. Seams[region].suffix \in Plan
  BY PrefixFacts DEF SeamInv, TypeOK
<1>2. m' \in Machine /\ m'.now > before.tick /\ yielded' = FALSE
  BY <1>1, AdmitFacts DEF Busy
<1>3. phase # "idle"
  BY DEF PhaseInv
<1> QED
  BY <1>2, <1>3, BackInLoop

LEMMA SuffixFallbackPreserves ==
    ASSUME IInv, SuffixFallback
    PROVE  IInv'
<1> USE DEF IInv, SuffixFallback, OwnReturn, CloseSeam, run, loop
<1>1. inSeam /\ region \in DOMAIN Seams
  BY DEF SeamInv
<1>2. gates = {Seams[region].resume} /\ gate \in {NoGate, Seams[region].resume}
  BY <1>1 DEF SeamInv
<1>3. Boundary(m) = m /\ Current(m).pc = Seams[region].resume
  <2>1. Current(m).pc \in Nat
    BY CurrentType DEF TypeOK, Instruction
  <2> QED
    BY <1>2, <2>1 DEF GateInv, AtGate, NoGate
<1>4. TypeOK'
  <2>1. Seams[region].resume \in Nat /\ Armed \subseteq Nat
    BY <1>1, PrefixFacts, RunAssumption DEF TypeOK, Armed
  <2> QED
    BY <2>1 DEF TypeOK
<1>5. PhaseInv' /\ SeamInv' /\ RaisesOnlyOnMismatch'
  BY DEF PhaseInv, SeamInv, RaisesOnlyOnMismatch
<1>6. GateInv'
  <2>1. AtGate(m)'
    BY <1>3 DEF AtGate
  <2> QED
    BY <1>3, <2>1 DEF GateInv
<1>7. LoopInv'
  BY DEF LoopInv, Busy, Target, Wrap, Observed
<1> QED
  BY <1>4, <1>5, <1>6, <1>7

LEMMA SeamDeadlinePreserves ==
    ASSUME IInv, SeamDeadline
    PROVE  IInv'
<1> USE DEF IInv, SeamDeadline, CloseSeam, SetGates, run
<1>1. m' = m /\ m \in Machine
  BY DEF TypeOK
<1>2. m.now > before.tick
  <2>1. m.now >= Observed
    BY DEF Deadline
  <2>2. before.tick < Target
    BY DEF LoopInv, Busy
  <2> QED
    BY <2>1, <2>2, Instants
<1>3. phase # "idle"
  BY DEF PhaseInv
<1> QED
  BY <1>1, <1>2, <1>3, BackInLoop DEF TypeOK
----
\* Every operation of step, the dispatcher, the seam and the executor preserves it.
THEOREM NextIInv == IInv /\ [Next]_vars => IInv'
<1> SUFFICES ASSUME IInv, [Next]_vars PROVE IInv'
  OBVIOUS
<1>1. CASE UNCHANGED vars
  <2> USE <1>1 DEF vars, executor, run, seam, loop
  <2>1. TypeOK'
    BY DEF IInv, TypeOK
  <2>2. PhaseInv' /\ SeamInv' /\ LoopInv' /\ RaisesOnlyOnMismatch'
    BY DEF IInv, PhaseInv, SeamInv, LoopInv, Busy, Target, Wrap, Observed,
           RaisesOnlyOnMismatch
  <2>3. GateInv'
    <3>1. AtGate(m)' <=> AtGate(m)
      BY DEF AtGate
    <3> QED
      BY <3>1 DEF IInv, GateInv
  <2> QED
    BY <2>1, <2>2, <2>3 DEF IInv
<1>2. CASE Running
  BY <1>2, ResumePreserves, RunYieldPreserves, RunInstructionPreserves,
     RunLimitPreserves DEF Running
<1>3. CASE OnGate
  BY <1>3, FallbackPreserves, RetireOnePreserves, AdmitPlanPreserves,
     OpenSeamPreserves DEF OnGate
<1>4. CASE InSeam
  BY <1>4, ForeignReturnPreserves, SeamMismatchPreserves, AdmitSuffixPreserves,
     SuffixFallbackPreserves, SeamDeadlinePreserves DEF InSeam
<1>5. CASE ReachWrap \/ ReachObserved
  BY <1>5, ReachWrapPreserves, ReachObservedPreserves
<1>6. CASE \E b \in Masks : BeginStep(b)
  BY <1>6, BeginStepPreserves
<1> QED
  BY <1>1, <1>2, <1>3, <1>4, <1>5, <1>6 DEF Next, InStep

\* The inductive invariant holds of every behaviour of a run with a candidate
\* armed (GenesisRun.step, _run_to, Candidate.on_gate, run_seam, Executor).
THEOREM RunInvariant == Spec => []IInv
  BY InitIInv, NextIInv, PTL DEF Spec

\* The state of a run keeps its types.
THEOREM RunTypes == Spec => []TypeOK
<1>1. IInv => TypeOK
  BY DEF IInv
<1> QED
  BY <1>1, RunInvariant, PTL

\* Between steps a run can be cached, whatever regions were armed, refused or
\* cut short in the frame: GenesisRun.save meets no armed bypass and no open
\* seam, and every entry is gated again.
THEOREM RunSnapshotSafe == Spec => []SnapshotSafe
<1>1. IInv => SnapshotSafe
  BY DEF IInv, PhaseInv, SeamInv, GateInv, SnapshotSafe
<1> QED
  BY <1>1, RunInvariant, PTL

\* A step raises only when a platform operation changed the frame it was called
\* with: "made no progress" and "remained parked" in _run_to are unreachable.
THEOREM RunNeverParks == Spec => []RaisesOnlyOnMismatch
<1>1. IInv => RaisesOnlyOnMismatch
  BY DEF IInv
<1> QED
  BY <1>1, RunInvariant, PTL
----
(* The original's own run: RunOriginal is a function by recursion on the   *)
(* distance to its target, so its defining equation has to be shown to     *)
(* have a solution before it can be used.                                  *)

LEMMA LeastExists ==
    ASSUME NEW S, S \subseteq Nat, S # {}
    PROVE  \E n \in S : \A k \in S : n <= k
<1>1. PICK n \in S : \A k \in S : ~(<<k, n>> \in OpToRel(<, Nat))
  <2>1. IsWellFoundedOn(OpToRel(<, Nat), Nat)
    BY NatLessThanWellFounded
  <2> HIDE DEF OpToRel
  <2> QED
    BY <2>1, WFMin
<1>2. ASSUME NEW k \in S, ~(n <= k)
      PROVE  FALSE
  <2>1. n \in Nat /\ k \in Nat /\ k < n
    BY <1>2
  <2>2. <<k, n>> \in OpToRel(<, Nat)
    BY <2>1 DEF OpToRel
  <2> QED
    BY <1>1, <2>2
<1> QED
  BY <1>1, <1>2

Once(s) == Execute(Boundary(s))

LEMMA OnceFacts ==
    ASSUME NEW s \in Machine
    PROVE  Once(s) \in Machine /\ Once(s).now \in Nat /\ s.now \in Nat /\ Once(s).now > s.now
<1>1. Boundary(s) \in Machine /\ Boundary(s).now = s.now
  BY BoundaryFacts
<1>2. Once(s) \in Machine /\ Once(s).now > s.now
  BY <1>1, ExecuteFacts DEF Once
<1>3. \A x \in Machine : x.now \in Nat
  BY DEF Machine
<1> QED
  BY <1>2, <1>3

\* The equation RunOriginal is defined by, for the target t.
Ran(t, f) == [s \in Machine |-> IF s.now >= t THEN s ELSE f[Once(s)]]

LEMMA RunDef ==
    ASSUME NEW s, NEW t
    PROVE  RunOriginal(s, t) = (CHOOSE f : f = Ran(t, f))[s]
  BY DEF RunOriginal, Ran, Once

\* h is the original's run from s, whole instructions, until t is passed at u.
Trace(s, t, u, n, h) ==
    /\ h \in [0..n -> Machine]
    /\ h[0] = s /\ h[n] = u /\ u.now >= t
    /\ \A i \in 0..(n - 1) : h[i].now < t /\ h[i + 1] = Once(h[i])

Ends(s, t, u) == \E n \in Nat : \E h : Trace(s, t, u, n, h)

LEMMA EndsNow ==
    ASSUME NEW s \in Machine, NEW t \in Nat, s.now >= t
    PROVE  Ends(s, t, s)
<1> DEFINE h == [i \in 0..0 |-> s]
<1>1. Trace(s, t, s, 0, h)
  BY DEF Trace
<1> QED
  BY <1>1 DEF Ends

LEMMA EndsLater ==
    ASSUME NEW s \in Machine, NEW t \in Nat, s.now < t, NEW u, Ends(Once(s), t, u)
    PROVE  Ends(s, t, u)
<1>10. PICK n \in Nat : \E h : Trace(Once(s), t, u, n, h)
  BY DEF Ends
<1>1. PICK h : Trace(Once(s), t, u, n, h)
  BY <1>10
<1> DEFINE g == [i \in 0..(n + 1) |-> IF i = 0 THEN s ELSE h[i - 1]]
<1>2. g \in [0..(n + 1) -> Machine]
  <2>1. \A i \in 0..(n + 1) : i # 0 => i - 1 \in 0..n
    BY <1>1
  <2>2. h \in [0..n -> Machine]
    BY <1>1 DEF Trace
  <2> QED
    BY <2>1, <2>2
<1>3. g[0] = s /\ g[n + 1] = u /\ u.now >= t
  <2>1. 0 \in 0..(n + 1) /\ n + 1 \in 0..(n + 1) /\ n + 1 # 0 /\ (n + 1) - 1 = n
    BY <1>1
  <2>2. h[n] = u /\ u.now >= t
    BY <1>1 DEF Trace
  <2> QED
    BY <2>1, <2>2
<1>4. ASSUME NEW i \in 0..n
      PROVE  g[i].now < t /\ g[i + 1] = Once(g[i])
  <2>1. i \in 0..(n + 1) /\ i + 1 \in 0..(n + 1) /\ i + 1 # 0 /\ (i + 1) - 1 = i
    BY <1>1
  <2>2. g[i + 1] = h[i]
    BY <2>1
  <2>3. CASE i = 0
    BY <2>1, <2>2, <2>3, <1>1 DEF Trace
  <2>4. CASE i # 0
    <3>1. i - 1 \in 0..(n - 1) /\ (i - 1) + 1 = i
      BY <2>1, <2>4, <1>1
    <3>2. h[i - 1].now < t /\ h[(i - 1) + 1] = Once(h[i - 1])
      BY <3>1, <1>1 DEF Trace
    <3>3. g[i] = h[i - 1]
      BY <2>1, <2>4
    <3> QED
      BY <2>2, <3>1, <3>2, <3>3
  <2> QED
    BY <2>3, <2>4
<1>5. Trace(s, t, u, n + 1, g)
  <2>1. (n + 1) - 1 = n
    BY <1>1
  <2> HIDE DEF g
  <2> QED
    BY <1>2, <1>3, <1>4, <2>1 DEF Trace
<1> QED
  BY <1>1, <1>5 DEF Ends

\* The distance to the target shrinks with every instruction, so it is reached.
LEMMA EndsSomewhere ==
    ASSUME NEW t \in Nat
    PROVE  \A s \in Machine : \E u \in Machine : Ends(s, t, u)
<1> DEFINE Good(s) == \E u \in Machine : Ends(s, t, u)
           Far == {d \in Nat : \E s \in Machine : ~Good(s) /\ d = t - s.now}
<1>1. ASSUME NEW s \in Machine, ~Good(s)
      PROVE  s.now < t /\ t - s.now \in Nat /\ ~Good(Once(s))
  <2>1. s.now \in Nat
    BY DEF Machine
  <2>2. s.now < t
    BY <1>1, <2>1, EndsNow
  <2>3. ~Good(Once(s))
    BY <1>1, <2>2, EndsLater
  <2> HIDE DEF Good
  <2> QED
    BY <2>1, <2>2, <2>3
<1>2. SUFFICES ASSUME NEW s \in Machine, ~Good(s) PROVE FALSE
  OBVIOUS
<1> HIDE DEF Good
<1>3. Far \subseteq Nat /\ t - s.now \in Far
  BY <1>1, <1>2
<1>4. PICK d \in Far : \A k \in Far : d <= k
  BY <1>3, LeastExists
<1>5. PICK x \in Machine : ~Good(x) /\ d = t - x.now
  BY <1>4
<1>6. ~Good(Once(x)) /\ Once(x) \in Machine /\ Once(x).now > x.now /\ x.now \in Nat
      /\ Once(x).now \in Nat
  BY <1>1, <1>5, OnceFacts
<1>7. t - Once(x).now \in Far
  BY <1>1, <1>6
<1>8. d <= t - Once(x).now
  BY <1>4, <1>7
<1> QED
  BY <1>5, <1>6, <1>8

LEMMA EndsOnce ==
    ASSUME NEW s \in Machine, NEW t \in Nat, NEW u, NEW v, Ends(s, t, u), Ends(s, t, v)
    PROVE  u = v
<1>10. PICK n \in Nat : \E h : Trace(s, t, u, n, h)
  BY DEF Ends
<1>1. PICK h : Trace(s, t, u, n, h)
  BY <1>10
<1>20. PICK k \in Nat : \E g : Trace(s, t, v, k, g)
  BY DEF Ends
<1>2. PICK g : Trace(s, t, v, k, g)
  BY <1>20
<1>3. ASSUME NEW i \in Nat, i <= n, i <= k
      PROVE  h[i] = g[i]
  <2> DEFINE Differ == {j \in Nat : j <= n /\ j <= k /\ h[j] # g[j]}
  <2>1. SUFFICES ASSUME Differ # {} PROVE FALSE
    BY <1>3
  <2>2. PICK j \in Differ : \A l \in Differ : j <= l
    BY <2>1, LeastExists
  <2>3. h[0] = g[0]
    BY <1>1, <1>2 DEF Trace
  <2>4. j \in Nat /\ j <= n /\ j <= k /\ h[j] # g[j] /\ j # 0
    BY <2>2, <2>3
  <2>5. j - 1 \in 0..(n - 1) /\ j - 1 \in 0..(k - 1) /\ j - 1 \in Nat /\ (j - 1) + 1 = j
        /\ ~(j <= j - 1)
    BY <2>4
  <2>6. h[j - 1] = g[j - 1]
    BY <2>2, <2>4, <2>5
  <2>7. h[(j - 1) + 1] = Once(h[j - 1]) /\ g[(j - 1) + 1] = Once(g[j - 1])
    BY <2>5, <1>1, <1>2 DEF Trace
  <2> QED
    BY <2>4, <2>5, <2>6, <2>7
<1>4. ASSUME NEW a \in Nat, NEW b \in Nat, NEW p, NEW q, NEW x, NEW y, a < b,
             Trace(s, t, x, a, p), Trace(s, t, y, b, q), p[a] = q[a]
      PROVE  FALSE
  <2>1. a \in 0..(b - 1)
    BY <1>4
  <2>2. q[a].now < t /\ p[a] = x /\ x.now >= t /\ q[a] \in Machine
    <3>1. a \in 0..b
      BY <1>4
    <3> QED
      BY <2>1, <1>4, <3>1 DEF Trace
  <2>3. x.now \in Nat
    BY <2>2, <1>4 DEF Machine
  <2> QED
    BY <2>2, <2>3, <1>4
<1>5. n = k
  BY <1>1, <1>2, <1>3, <1>4
<1> QED
  BY <1>1, <1>2, <1>3, <1>5 DEF Trace

\* The equation has a solution, so RunOriginal solves it.
LEMMA RunSolves ==
    ASSUME NEW t \in Nat, NEW s \in Machine
    PROVE  RunOriginal(s, t) = IF s.now >= t THEN s ELSE RunOriginal(Once(s), t)
<1> DEFINE End(x) == CHOOSE u \in Machine : Ends(x, t, u)
           g == [x \in Machine |-> End(x)]
<1>1. \A x \in Machine : End(x) \in Machine /\ Ends(x, t, End(x))
  BY EndsSomewhere
<1>2. ASSUME NEW x \in Machine
      PROVE  g[x] = IF x.now >= t THEN x ELSE g[Once(x)]
  <2>1. g[x] = End(x) /\ Once(x) \in Machine /\ g[Once(x)] = End(Once(x)) /\ x.now \in Nat
    BY OnceFacts
  <2> HIDE DEF g
  <2>2. CASE x.now >= t
    BY <2>1, <2>2, <1>1, EndsNow, EndsOnce
  <2>3. CASE x.now < t
    <3>1. Ends(Once(x), t, End(Once(x)))
      BY <1>1, <2>1
    <3> HIDE DEF End
    <3>2. Ends(x, t, End(Once(x))) /\ Ends(x, t, End(x))
      BY <1>1, <2>3, <3>1, EndsLater
    <3>3. End(x) = End(Once(x))
      BY <3>2, EndsOnce
    <3> QED
      BY <2>1, <2>3, <3>3
  <2> QED
    BY <2>1, <2>2, <2>3
<1>3. g = Ran(t, g)
  <2>1. g = [x \in Machine |-> g[x]]
    OBVIOUS
  <2> HIDE DEF g
  <2> QED
    BY <2>1, <1>2 DEF Ran
<1> HIDE DEF g
<1> DEFINE r == CHOOSE f : f = Ran(t, f)
<1>4. r = Ran(t, r)
  BY <1>3
<1>5. \A x : RunOriginal(x, t) = r[x]
  BY RunDef
<1> HIDE DEF r
<1>6. r[s] = IF s.now >= t THEN s ELSE r[Once(s)]
  BY <1>4 DEF Ran
<1> QED
  BY <1>5, <1>6

LEMMA RunStays ==
    ASSUME NEW t \in Nat, NEW s \in Machine, s.now >= t
    PROVE  RunOriginal(s, t) = s
  BY RunSolves

LEMMA RunGoesOn ==
    ASSUME NEW t \in Nat, NEW s \in Machine, s.now < t
    PROVE  RunOriginal(s, t) = RunOriginal(Once(s), t)
<1>1. s.now \in Nat
  BY DEF Machine
<1> QED
  BY <1>1, RunSolves

\* It is a state of the machine at or past the target.
LEMMA RunArrives ==
    ASSUME NEW t \in Nat
    PROVE  \A s \in Machine : /\ RunOriginal(s, t) \in Machine
                              /\ RunOriginal(s, t).now >= t
<1> DEFINE Good(s) == RunOriginal(s, t) \in Machine /\ RunOriginal(s, t).now >= t
           Far == {d \in Nat : \E s \in Machine : ~Good(s) /\ d = t - s.now}
<1>1. ASSUME NEW s \in Machine, ~Good(s)
      PROVE  s.now < t /\ t - s.now \in Nat /\ ~Good(Once(s))
  <2>1. s.now \in Nat
    BY DEF Machine
  <2>2. s.now < t
    BY <1>1, <2>1, RunStays
  <2>3. ~Good(Once(s))
    BY <1>1, <2>2, RunGoesOn
  <2> HIDE DEF Good
  <2> QED
    BY <2>1, <2>2, <2>3
<1>2. SUFFICES ASSUME NEW s \in Machine, ~Good(s) PROVE FALSE
  OBVIOUS
<1> HIDE DEF Good
<1>3. Far \subseteq Nat /\ t - s.now \in Far
  BY <1>1, <1>2
<1>4. PICK d \in Far : \A k \in Far : d <= k
  BY <1>3, LeastExists
<1>5. PICK x \in Machine : ~Good(x) /\ d = t - x.now
  BY <1>4
<1>6. ~Good(Once(x)) /\ Once(x) \in Machine /\ Once(x).now > x.now /\ x.now \in Nat
      /\ Once(x).now \in Nat
  BY <1>1, <1>5, OnceFacts
<1>7. t - Once(x).now \in Far
  BY <1>1, <1>6
<1>8. d <= t - Once(x).now
  BY <1>4, <1>7
<1> QED
  BY <1>5, <1>6, <1>8
----
(* What a frame comes to: the state observed when the original runs on     *)
(* from s, with the mask set at the wrap.                                  *)

Held(b, s) == [s EXCEPT !.pad = b]

Outcome(n, b, s) ==
    RunOriginal(Held(b, RunOriginal(s, n * FrameTicks)), n * FrameTicks + ObservationOffset)

LEMMA HeldFacts ==
    ASSUME NEW s \in Machine, NEW b \in Masks
    PROVE  /\ Held(b, s) \in Machine /\ Held(b, s).now = s.now /\ Held(b, s).pad = b
           /\ Held(b, Held(b, s)) = Held(b, s)
           /\ s.pad = b => Held(b, s) = s
  BY DEF Held, Machine

\* The pad decides neither when an interrupt is admitted nor what comes next.
LEMMA HeldBoundary ==
    ASSUME NEW s \in Machine, NEW b \in Masks
    PROVE  /\ Boundary(Held(b, s)) = Held(b, Boundary(s))
           /\ Current(Held(b, s)) = Current(s)
<1>1. /\ Held(b, s).isr = s.isr /\ Held(b, s).now = s.now /\ Held(b, s).irqs = s.irqs
      /\ Held(b, s).at = s.at
  BY DEF Held, Machine
<1>2. InterruptDue(Held(b, s)) <=> InterruptDue(s)
  BY <1>1 DEF InterruptDue
<1>3. CASE InterruptDue(s)
  <2> DEFINE x == s.irqs + 1
             a == s.at
  <2>1. Boundary(s) = [s EXCEPT !.isr = 1, !.irqs = x, !.irqAt = a]
    BY <1>3 DEF Boundary
  <2>2. Boundary(Held(b, s)) = [Held(b, s) EXCEPT !.isr = 1, !.irqs = x, !.irqAt = a]
    BY <1>1, <1>2, <1>3 DEF Boundary
  <2> HIDE DEF x, a
  <2>3. Boundary(Held(b, s)) = Held(b, Boundary(s))
    BY <2>1, <2>2 DEF Held, Machine
  <2> QED
    BY <2>3, <1>1 DEF Current
<1>4. CASE ~InterruptDue(s)
  BY <1>1, <1>2, <1>4 DEF Boundary, Current
<1> QED
  BY <1>3, <1>4

LEMMA BoundaryPad ==
    ASSUME NEW s \in Machine
    PROVE  Boundary(s).pad = s.pad /\ Boundary(s).at = s.at
  BY DEF Boundary, Machine

LEMMA ExecutePad ==
    ASSUME NEW s \in Machine
    PROVE  Execute(s).pad = s.pad
  BY DEF Execute, Machine

LEMMA OncePad ==
    ASSUME NEW s \in Machine
    PROVE  Once(s).pad = s.pad
  BY BoundaryFacts, BoundaryPad, ExecutePad DEF Once

\* An instruction that reads no pad does the same whatever is held.
LEMMA HeldExecute ==
    ASSUME NEW s \in Machine, NEW b \in Masks, Current(s).effect # "read"
    PROVE  Execute(Held(b, s)) = Held(b, Execute(s))
<1>1. /\ Held(b, s).isr = s.isr /\ Held(b, s).now = s.now /\ Held(b, s).frame = s.frame
      /\ Held(b, s).at = s.at /\ Held(b, s).seen = s.seen
      /\ Current(Held(b, s)) = Current(s)
  BY HeldBoundary DEF Held, Machine
<1> DEFINE i == Current(s)
           now == s.now + i.cycles * Divider
           word == IF i.effect = "push" THEN "intact"
                   ELSE IF i.effect = "smash" /\ s.seen # 0 THEN "smashed" ELSE s.frame
           isr == IF s.isr = 0 THEN 0 ELSE IF s.isr = Len(Handler) THEN 0 ELSE s.isr + 1
           at == IF s.isr # 0 THEN s.at
                 ELSE IF i.effect = "pop" /\ s.frame = "smashed" THEN 1
                 ELSE Following(s.at)
<1>2. Execute(s) = [s EXCEPT !.now = now, !.seen = s.seen, !.frame = word,
                             !.isr = isr, !.at = at]
  BY DEF Execute
<1>3. Execute(Held(b, s)) = [Held(b, s) EXCEPT !.now = now, !.seen = s.seen, !.frame = word,
                                               !.isr = isr, !.at = at]
  BY <1>1 DEF Execute
<1> HIDE DEF now, word, isr, at
<1> QED
  BY <1>2, <1>3 DEF Held, Machine

LEMMA HeldOnce ==
    ASSUME NEW s \in Machine, NEW b \in Masks,
           Current(Boundary(s)).effect = "read" => s.pad = b
    PROVE  Once(Held(b, s)) = Held(b, Once(s))
<1>1. CASE s.pad = b
  BY <1>1, HeldFacts, OnceFacts, OncePad
<1>2. CASE Current(Boundary(s)).effect # "read"
  <2>1. Boundary(s) \in Machine
    BY BoundaryFacts
  <2>2. Once(Held(b, s)) = Execute(Held(b, Boundary(s)))
    BY HeldBoundary DEF Once
  <2>3. Execute(Held(b, Boundary(s))) = Held(b, Execute(Boundary(s)))
    BY <1>2, <2>1, HeldExecute
  <2> QED
    BY <2>2, <2>3 DEF Once
<1> QED
  BY <1>1, <1>2

LEMMA FrameInstants ==
    ASSUME NEW n \in Nat
    PROVE  /\ n * FrameTicks \in Nat /\ n * FrameTicks + ObservationOffset \in Nat
           /\ n * FrameTicks < n * FrameTicks + ObservationOffset
<1>1. FrameTicks \in Nat /\ ObservationOffset \in Nat /\ ObservationOffset > 0
  BY MachineAssumption, RunAssumption
<1>2. n * FrameTicks \in Nat
  BY <1>1
<1> QED
  BY <1>1, <1>2

\* Past the wrap the frame comes to what the original makes of the held mask.
LEMMA OutcomePast ==
    ASSUME NEW n \in Nat, NEW b \in Masks, NEW s \in Machine, s.now >= n * FrameTicks
    PROVE  /\ Outcome(n, b, s) = RunOriginal(Held(b, s), n * FrameTicks + ObservationOffset)
           /\ Outcome(n, b, Held(b, s)) = Outcome(n, b, s)
<1> DEFINE w == n * FrameTicks
<1>1. w \in Nat
  BY FrameInstants
<1>2. \A x \in Machine : x.now >= w => RunOriginal(x, w) = x
  BY <1>1, RunStays
<1> QED
  BY <1>2, HeldFacts DEF Outcome

LEMMA OutcomeArrived ==
    ASSUME NEW n \in Nat, NEW b \in Masks, NEW s \in Machine,
           s.now >= n * FrameTicks + ObservationOffset
    PROVE  Outcome(n, b, s) = Held(b, s)
<1> DEFINE w == n * FrameTicks
           o == n * FrameTicks + ObservationOffset
<1>1. w \in Nat /\ o \in Nat /\ w < o
  BY FrameInstants
<1>2. s.now \in Nat /\ s.now >= o
  BY DEF Machine
<1>3. s.now >= w
  BY <1>1, <1>2
<1>4. Outcome(n, b, s) = RunOriginal(Held(b, s), o)
  BY <1>3, OutcomePast
<1> HIDE DEF w, o
<1> QED
  BY <1>1, <1>2, <1>4, HeldFacts, RunStays

\* The frame comes to the same one instruction later, unless that instruction
\* would read a mask the frame no longer holds.
LEMMA OutcomeOnce ==
    ASSUME NEW n \in Nat, NEW b \in Masks, NEW s \in Machine,
           s.now < n * FrameTicks + ObservationOffset,
           s.now >= n * FrameTicks /\ Current(Boundary(s)).effect = "read" => s.pad = b
    PROVE  Outcome(n, b, Once(s)) = Outcome(n, b, s)
<1> DEFINE w == n * FrameTicks
           o == n * FrameTicks + ObservationOffset
<1>1. w \in Nat /\ o \in Nat
  BY FrameInstants
<1>2. s.now \in Nat /\ Once(s).now \in Nat /\ Once(s) \in Machine /\ Once(s).now > s.now
  BY OnceFacts
<1>3. CASE s.now < w
  BY <1>1, <1>3, RunGoesOn DEF Outcome
<1>4. CASE s.now >= w
  <2>1. Once(Held(b, s)) = Held(b, Once(s))
    BY <1>4, HeldOnce
  <2>2. Once(s).now >= w
    BY <1>1, <1>2, <1>4
  <2>3. Outcome(n, b, s) = RunOriginal(Held(b, s), o)
        /\ Outcome(n, b, Once(s)) = RunOriginal(Held(b, Once(s)), o)
    BY <1>2, <1>4, <2>2, OutcomePast
  <2>4. Held(b, s) \in Machine /\ Held(b, s).now < o
    BY HeldFacts
  <2> HIDE DEF w, o
  <2>5. RunOriginal(Held(b, s), o) = RunOriginal(Once(Held(b, s)), o)
    BY <1>1, <2>4, RunGoesOn
  <2> QED
    BY <2>1, <2>3, <2>5
<1> QED
  BY <1>1, <1>2, <1>3, <1>4

\* Nor does it matter whether the interrupt at the boundary has been admitted.
LEMMA OutcomeBoundary ==
    ASSUME NEW n \in Nat, NEW b \in Masks, NEW s \in Machine,
           s.now < n * FrameTicks + ObservationOffset
    PROVE  Outcome(n, b, Boundary(s)) = Outcome(n, b, s)
<1> DEFINE w == n * FrameTicks
           o == n * FrameTicks + ObservationOffset
<1>1. w \in Nat /\ o \in Nat
  BY FrameInstants
<1>2. s.now \in Nat /\ s.now < o
  BY DEF Machine
<1>3. Boundary(s) \in Machine /\ Boundary(s).now = s.now /\ Once(Boundary(s)) = Once(s)
  BY BoundaryFacts DEF Once
<1>4. CASE s.now < w
  BY <1>1, <1>3, <1>4, RunGoesOn DEF Outcome
<1>5. CASE s.now >= w
  <2>1. Outcome(n, b, s) = RunOriginal(Held(b, s), o)
        /\ Outcome(n, b, Boundary(s)) = RunOriginal(Held(b, Boundary(s)), o)
    BY <1>3, <1>5, OutcomePast
  <2>2. Held(b, Boundary(s)) = Boundary(Held(b, s))
    BY HeldBoundary
  <2>3. /\ Held(b, s) \in Machine /\ Boundary(Held(b, s)) \in Machine
        /\ Held(b, s).now < o /\ Boundary(Held(b, s)).now < o
        /\ Once(Boundary(Held(b, s))) = Once(Held(b, s))
    BY <1>2, HeldFacts, BoundaryFacts DEF Once
  <2> HIDE DEF w, o
  <2>4. RunOriginal(Held(b, s), o) = RunOriginal(Boundary(Held(b, s)), o)
    BY <1>1, <2>3, RunGoesOn
  <2> QED
    BY <2>1, <2>2, <2>4
<1> QED
  BY <1>1, <1>2, <1>4, <1>5
----
(* A plan that restates its instructions: the original, from the same      *)
(* state, comes to the same.                                               *)

LEMMA Scaled ==
    ASSUME NEW a \in Nat, NEW c \in Nat, NEW d \in Nat \ {0}
    PROVE  /\ a * d \in Nat /\ (a + c) * d = a * d + c * d
           /\ a < c => a * d < c * d
           /\ a <= c => a * d <= c * d
<1>1. a * d \in Nat /\ c * d \in Nat /\ (a + c) * d = a * d + c * d
  OBVIOUS
<1>2. ASSUME a <= c
      PROVE  a * d <= c * d
  <2>1. c - a \in Nat /\ c = a + (c - a)
    BY <1>2
  <2>2. (a + (c - a)) * d = a * d + (c - a) * d /\ (c - a) * d \in Nat
    BY <2>1
  <2> QED
    BY <1>1, <2>1, <2>2
<1>3. ASSUME a < c
      PROVE  a * d < c * d
  <2>1. c - a \in Nat \ {0} /\ c = a + (c - a)
    BY <1>3
  <2>2. (a + (c - a)) * d = a * d + (c - a) * d
    BY <2>1
  <2>3. (c - a) * d > 0 /\ (c - a) * d \in Nat
    BY <2>1, CostPositive
  <2> QED
    BY <1>1, <2>1, <2>2, <2>3
<1> QED
  BY <1>1, <1>2, <1>3

LEMMA MainType ==
    ASSUME NEW i \in 1..Len(Main)
    PROVE  Main[i] \in Instruction /\ Main[i].cycles \in Nat \ {0} /\ Main[i].pc \in Nat
<1>1. Main[i] \in Instruction
  BY MachineAssumption
<1> QED
  BY <1>1 DEF Instruction

LEMMA NextInterrupt ==
    ASSUME NEW s \in Machine
    PROVE  s.now \in Nat /\ s.irqs * FrameTicks + VBlankOffset \in Nat
<1>1. s.irqs \in Nat /\ s.now \in Nat
  BY DEF Machine
<1>2. FrameTicks \in Nat /\ VBlankOffset \in Nat
  BY MachineAssumption
<1>3. s.irqs * FrameTicks \in Nat
  BY <1>1, <1>2
<1> QED
  BY <1>1, <1>2, <1>3

\* The machine after the instructions before i, of which some may have saved the frame.
Along(s, spent, i) ==
    [s EXCEPT !.now = @ + spent[i] * Divider, !.at = i,
              !.frame = IF \E j \in s.at..(i - 1) : Main[j].effect = "push"
                        THEN "intact" ELSE @]

Planned(plan, s) ==
    [s EXCEPT !.now = @ + plan.cycles * Divider, !.at = plan.to,
              !.frame = IF plan.frame = "intact" THEN "intact" ELSE @]

SpanEffects == {"work", "push", "pop"}

LEMMA AlongStep ==
    ASSUME NEW s \in Machine, NEW i \in 1..Len(Main), i < Len(Main), s.at <= i,
           NEW spent, spent[i] \in Nat, spent[i + 1] = spent[i] + Main[i].cycles,
           s.isr = 0, s.now + spent[i] * Divider < s.irqs * FrameTicks + VBlankOffset,
           Main[i].effect \in SpanEffects, Main[i].effect = "pop" => s.frame = "intact"
    PROVE  /\ Along(s, spent, i) \in Machine
           /\ Along(s, spent, i).now = s.now + spent[i] * Divider
           /\ Boundary(Along(s, spent, i)) = Along(s, spent, i)
           /\ Current(Along(s, spent, i)) = Main[i]
           /\ Once(Along(s, spent, i)) = Along(s, spent, i + 1)
<1> DEFINE now == s.now + spent[i] * Divider
           word == IF \E j \in s.at..(i - 1) : Main[j].effect = "push" THEN "intact" ELSE s.frame
           x == Along(s, spent, i)
<1>1. Main[i] \in Instruction /\ Main[i].cycles \in Nat /\ Divider \in Nat \ {0}
  BY MainType, MachineAssumption
<1>2. now \in Nat /\ word \in {"intact", "smashed"} /\ s.at \in Nat
  <2>1. spent[i] * Divider \in Nat
    BY <1>1
  <2> QED
    BY <2>1 DEF Machine
<1>3. x = [s EXCEPT !.now = now, !.at = i, !.frame = word]
  BY DEF Along
<1>4. x \in Machine /\ x.now = now /\ x.at = i /\ x.frame = word /\ x.isr = 0
      /\ x.irqs = s.irqs /\ x.seen = s.seen
  <2> HIDE DEF x, now, word
  <2> QED
    BY <1>2, <1>3 DEF Machine
<1>5. Boundary(x) = x
  <2>1. x.irqs * FrameTicks + VBlankOffset \in Nat /\ x.now \in Nat
    BY <1>4, NextInterrupt
  <2>2. x.now < x.irqs * FrameTicks + VBlankOffset
    BY <1>4
  <2> HIDE DEF x
  <2>3. ~InterruptDue(x)
    BY <2>1, <2>2 DEF InterruptDue
  <2> QED
    BY <2>3 DEF Boundary
<1>6. Current(x) = Main[i]
  BY <1>4 DEF Current
<1>7. Execute(x) = Along(s, spent, i + 1)
  <2> DEFINE later == s.now + spent[i + 1] * Divider
             saved == IF \E j \in s.at..((i + 1) - 1) : Main[j].effect = "push"
                      THEN "intact" ELSE s.frame
  <2>1. later = now + Main[i].cycles * Divider
    <3>1. (spent[i] + Main[i].cycles) * Divider = spent[i] * Divider + Main[i].cycles * Divider
      BY <1>1, Scaled
    <3>2. spent[i] * Divider \in Nat /\ Main[i].cycles * Divider \in Nat /\ s.now \in Nat
      BY <1>1, Scaled, NextInterrupt
    <3> QED
      BY <3>1, <3>2
  <2>2. saved = IF Main[i].effect = "push" THEN "intact" ELSE word
    <3>1. (i + 1) - 1 = i /\ i \in s.at..i
      BY <1>2
    <3>2. \A j \in s.at..i : j = i \/ j \in s.at..(i - 1)
      BY <1>2
    <3>3. \A j \in s.at..(i - 1) : j \in s.at..i
      BY <1>2
    <3> QED
      BY <3>1, <3>2, <3>3
  <2>3. Following(i) = i + 1
    BY DEF Following
  <2>4. ~(Main[i].effect = "pop" /\ word = "smashed")
    BY DEF Machine
  <2>5. Execute(x) = [x EXCEPT !.now = later, !.seen = s.seen, !.frame = saved, !.isr = 0,
                               !.at = i + 1]
    <3> HIDE DEF x, now, word, later, saved
    <3>1. Main[i].effect # "read" /\ Main[i].effect # "smash"
      BY DEF SpanEffects
    <3> QED
      BY <1>4, <1>6, <2>1, <2>2, <2>3, <2>4, <3>1 DEF Execute
  <2>6. Along(s, spent, i + 1) = [s EXCEPT !.now = later, !.at = i + 1, !.frame = saved]
    BY DEF Along
  <2> DEFINE next == i + 1
  <2>7. Execute(x) = [x EXCEPT !.now = later, !.seen = s.seen, !.frame = saved, !.isr = s.isr,
                               !.at = next]
        /\ Along(s, spent, next) = [s EXCEPT !.now = later, !.at = next, !.frame = saved]
    BY <2>5, <2>6
  <2> HIDE DEF x, now, word, later, saved, next
  <2>8. Execute(x) = Along(s, spent, next)
    BY <1>3, <2>7 DEF Machine
  <2> QED
    BY <2>8 DEF next
<1> QED
  BY <1>4, <1>5, <1>6, <1>7 DEF Once

LEMMA PlanOutcome ==
    ASSUME NEW s \in Machine, NEW p \in Plan, NEW effects, effects \subseteq SpanEffects,
           Restates(p, s.at, effects), "pop" \in effects => s.frame = "intact", s.isr = 0,
           s.now + p.cycles * Divider <= s.irqs * FrameTicks + VBlankOffset,
           NEW n \in Nat, NEW b \in Masks,
           s.now + p.cycles * Divider < n * FrameTicks + ObservationOffset
    PROVE  Outcome(n, b, Planned(p, s)) = Outcome(n, b, s)
<1> DEFINE span == s.at..(p.to - 1)
<1>1. PICK spent \in [s.at..p.to -> 0..p.cycles] :
         /\ spent[s.at] = 0 /\ spent[p.to] = p.cycles
         /\ \A i \in span : spent[i + 1] = spent[i] + Main[i].cycles
  BY DEF Restates
<1>2. /\ p.cycles \in Nat /\ p.to \in 1..Len(Main) /\ s.at \in 1..Len(Main) /\ s.at < p.to
      /\ s.now \in Nat /\ s.irqs \in Nat /\ Len(Main) \in Nat
  BY MachineAssumption DEF Plan, Machine, Restates
<1>3. Along(s, spent, s.at) = s
  <2> DEFINE here == s.at
  <2>1. ~\E j \in here..(here - 1) : Main[j].effect = "push"
    BY <1>2
  <2>2. spent[here] * Divider = 0 /\ s.now + 0 = s.now
    BY <1>1, <1>2, MachineAssumption
  <2>3. Along(s, spent, here) = [s EXCEPT !.now = s.now, !.at = here, !.frame = s.frame]
    BY <2>1, <2>2 DEF Along
  <2> QED
    BY <2>3 DEF Machine
<1>4. Along(s, spent, p.to) = Planned(p, s)
  <2>1. (p.frame = "intact") <=> \E i \in span : Main[i].effect = "push"
    BY DEF Restates
  <2> QED
    BY <1>1, <2>1 DEF Along, Planned
<1>5. ASSUME NEW i \in span
      PROVE  Outcome(n, b, Along(s, spent, i + 1)) = Outcome(n, b, Along(s, spent, i))
  <2>1. /\ i \in 1..Len(Main) /\ i < Len(Main) /\ s.at <= i
        /\ i \in s.at..p.to /\ i + 1 \in s.at..p.to
    BY <1>2
  <2>2. /\ spent[i] \in Nat /\ spent[i + 1] \in Nat /\ spent[i + 1] <= p.cycles
        /\ spent[i + 1] = spent[i] + Main[i].cycles
    BY <1>1, <1>2, <2>1
  <2>3. Main[i].cycles \in Nat \ {0}
    BY <2>1, MainType
  <2>4. spent[i] < p.cycles
    <3> DEFINE a == spent[i]
               c == spent[i + 1]
               d == Main[i].cycles
               e == p.cycles
    <3>1. a \in Nat /\ c \in Nat /\ c <= e /\ e \in Nat /\ c = a + d /\ d \in Nat \ {0}
      BY <1>2, <2>2, <2>3
    <3> HIDE DEF a, c, d, e
    <3>2. a < e
      BY <3>1
    <3> QED
      BY <3>2 DEF a, e
  <2>5. spent[i] * Divider < p.cycles * Divider
        /\ spent[i] * Divider \in Nat /\ p.cycles * Divider \in Nat
    BY <1>2, <2>2, <2>4, Scaled, MachineAssumption
  <2>6. s.irqs * FrameTicks + VBlankOffset \in Nat
    BY NextInterrupt
  <2>7. s.now + spent[i] * Divider < s.irqs * FrameTicks + VBlankOffset
    BY <1>2, <2>5, <2>6
  <2>8. n * FrameTicks + ObservationOffset \in Nat
    BY FrameInstants
  <2>9. s.now + spent[i] * Divider < n * FrameTicks + ObservationOffset
    BY <1>2, <2>5, <2>8
  <2>10. Main[i].effect \in SpanEffects /\ (Main[i].effect = "pop" => s.frame = "intact")
    BY DEF Restates
  <2>11. \E x \in Machine : /\ x = Along(s, spent, i) /\ x.now = s.now + spent[i] * Divider
                             /\ Boundary(x) = x /\ Current(x) = Main[i]
                             /\ Once(x) = Along(s, spent, i + 1)
    BY <2>1, <2>2, <2>7, <2>10, AlongStep
  <2>12. PICK x \in Machine : /\ x = Along(s, spent, i) /\ x.now = s.now + spent[i] * Divider
                              /\ Boundary(x) = x /\ Current(x) = Main[i]
                              /\ Once(x) = Along(s, spent, i + 1)
    BY <2>11
  <2>13. Current(Boundary(x)).effect # "read"
    BY <2>10, <2>12 DEF SpanEffects
  <2>14. x.now < n * FrameTicks + ObservationOffset
    BY <2>9, <2>12
  <2>15. Outcome(n, b, Once(x)) = Outcome(n, b, x)
    BY <2>13, <2>14, OutcomeOnce
  <2> QED
    BY <2>12, <2>15
<1> DEFINE Differ == {i \in s.at..p.to : Outcome(n, b, Along(s, spent, i)) # Outcome(n, b, s)}
<1>6. Differ = {}
  <2> SUFFICES ASSUME Differ # {} PROVE FALSE
    OBVIOUS
  <2>1. Differ \subseteq Nat
    BY <1>2
  <2>2. PICK i \in Differ : \A k \in Differ : i <= k
    BY <2>1, LeastExists
  <2>3. i \in s.at..p.to /\ i # s.at
    BY <1>3, <2>2
  <2>4. i - 1 \in span /\ i - 1 \in s.at..p.to /\ (i - 1) + 1 = i /\ ~(i <= i - 1)
    BY <1>2, <2>3
  <2>5. Outcome(n, b, Along(s, spent, (i - 1) + 1)) = Outcome(n, b, Along(s, spent, i - 1))
    BY <1>5, <2>4
  <2> QED
    BY <2>2, <2>4, <2>5
<1>7. p.to \in s.at..p.to
  BY <1>2
<1> QED
  BY <1>4, <1>6, <1>7
----
(* The invariant of a run whose regions are right.                         *)

Late == CHOOSE late \in [1..Len(Handler) -> 0..(FrameTicks \div Divider)] : HandlerPrompt(late)

\* The instant of the k-th vertical interrupt, from 0.
Instant(k) == k * FrameTicks + VBlankOffset

\* The handler is entered within one instruction of its instant and keeps its pace.
Timely(s) ==
    /\ s.isr = 0 => s.now < Instant(s.irqs) + Late[1] * Divider
    /\ s.isr > 0 => /\ s.irqs > 0
                    /\ Instant(s.irqs - 1) <= s.now
                    /\ s.now < Instant(s.irqs - 1) + Late[s.isr] * Divider

\* step: which mask is held, and from when the frame's own.
PadInv ==
    /\ m.pad = buttons
    /\ phase = "toObserved" => buttons = mask /\ Wrap <= m.now

Quiet(s) == s.isr = 0 => Main[s.at].effect # "read"

\* A stop stands before the instants that bound it; past the wrap only a region's
\* own instruction is retired in the old frame's name.
StopInv ==
    /\ py \in {"onGate", "onResume", "retireOne"} => m.now < Observed
    /\ py = "onGate" => m.now < Target
    /\ py = "retireOne" => m.now < Target \/ Quiet(m)

\* run_seam: the loop is between the end of the prefix and its own return, and a
\* bypass there is for another activation's stop.
PlatformInv ==
    inSeam => /\ \E back \in Seams[region].prefix.to..Len(Main) :
                     /\ Returns(Seams[region], back)
                     /\ m.at \in Seams[region].prefix.to..back
              /\ bypass => /\ Boundary(m) = m /\ AtGate(m)
                           /\ Current(m).sp # Seams[region].basis

\* The frame in progress comes to what it came to when it was begun.
FrameInv ==
    /\ phase = "idle" => snapshot = m
    /\ phase # "idle" => Outcome(frame, mask, m) = Outcome(frame, mask, snapshot)

SInv == IInv /\ PadInv /\ StopInv /\ PlatformInv /\ FrameInv /\ Timely(m)
----
(* The pace of the handler.                                                *)

LEMMA LateFacts ==
    ASSUME RegionsRight
    PROVE  /\ HandlerPrompt(Late) /\ ObservationOffset <= VBlankOffset
           /\ \A k \in 1..Len(Handler) : /\ Late[k] \in Nat /\ Late[k] * Divider \in Nat
                                         /\ Handler[k] \in Instruction
                                         /\ Handler[k].cycles \in Nat \ {0}
           /\ Len(Handler) \in Nat /\ 1 \in 1..Len(Handler)
           /\ Divider \in Nat \ {0} /\ FrameTicks \in Nat /\ VBlankOffset \in Nat
           /\ ObservationOffset \in Nat
<1> DEFINE Range0 == 0..(FrameTicks \div Divider)
<1>1. /\ Divider \in Nat \ {0} /\ FrameTicks \in Nat /\ VBlankOffset \in Nat
      /\ ObservationOffset \in Nat /\ Len(Handler) \in Nat /\ 1 \in 1..Len(Handler)
  BY MachineAssumption, RunAssumption
<1>2. Late \in [1..Len(Handler) -> Range0] /\ HandlerPrompt(Late)
  BY DEF RegionsRight, Late
<1>3. Range0 \subseteq Nat
  BY <1>1
<1>4. ASSUME NEW k \in 1..Len(Handler)
      PROVE  /\ Late[k] \in Nat /\ Late[k] * Divider \in Nat
             /\ Handler[k] \in Instruction /\ Handler[k].cycles \in Nat \ {0}
  <2>1. Late[k] \in Nat
    BY <1>2, <1>3
  <2>2. Late[k] * Divider \in Nat
    BY <1>1, <2>1
  <2>3. Handler[k] \in Instruction
    BY MachineAssumption
  <2>4. Handler[k].cycles \in Nat \ {0}
    BY <2>3 DEF Instruction
  <2> QED
    BY <2>1, <2>2, <2>3, <2>4
<1> QED
  BY <1>1, <1>2, <1>4 DEF RegionsRight

LEMMA InstantFacts ==
    ASSUME NEW k \in Nat
    PROVE  Instant(k) \in Nat /\ Instant(k + 1) = Instant(k) + FrameTicks
<1>1. FrameTicks \in Nat \ {0} /\ VBlankOffset \in Nat
  BY MachineAssumption
<1>2. (k + 1) * FrameTicks = k * FrameTicks + 1 * FrameTicks /\ k * FrameTicks \in Nat
  BY <1>1, Scaled
<1> QED
  BY <1>1, <1>2 DEF Instant

LEMMA TimelyPowerOn ==
    ASSUME RegionsRight
    PROVE  Timely(PowerOn)
<1>0. 1 \in 1..Len(Main)
  <2>1. Len(Main) \in Nat /\ Len(Main) > 0
    BY MachineAssumption
  <2> QED
    BY <2>1
<1>1. Late[1] \in Nat /\ Divider \in Nat \ {0} /\ Main[1].cycles <= Late[1]
  BY <1>0, LateFacts DEF HandlerPrompt
<1>2. Main[1].cycles \in Nat \ {0}
  BY <1>0, MainType
<1>3. Late[1] \in Nat \ {0}
  BY <1>1, <1>2
<1>4. Late[1] * Divider \in Nat /\ Late[1] * Divider > 0
  BY <1>1, <1>3, CostPositive
<1>5. Instant(0) \in Nat
  BY InstantFacts
<1>6. 0 < Instant(0) + Late[1] * Divider
  BY <1>4, <1>5
<1> QED
  BY <1>6 DEF Timely, PowerOn

LEMMA TimelyBoundary ==
    ASSUME RegionsRight, NEW s \in Machine, Timely(s)
    PROVE  Timely(Boundary(s))
<1>1. CASE InterruptDue(s)
  <2> DEFINE b == Boundary(s)
             x == s.irqs
             y == s.irqs + 1
             one == 1
  <2>1. x \in Nat /\ y \in Nat /\ y > 0 /\ y - 1 = x
    BY DEF Machine
  <2>2. b = [s EXCEPT !.isr = one, !.irqs = y, !.irqAt = s.at]
    BY <1>1 DEF Boundary
  <2>3. b.isr = one /\ b.irqs = y /\ b.now = s.now
    <3> HIDE DEF b, y, one
    <3> QED
      BY <2>2 DEF Machine
  <2>4. Instant(x) <= s.now /\ s.now < Instant(x) + Late[1] * Divider
    BY <1>1 DEF InterruptDue, Timely, Instant
  <2> HIDE DEF b, x, y
  <2> QED
    BY <2>1, <2>3, <2>4 DEF Timely, b
<1>2. CASE ~InterruptDue(s)
  BY <1>2 DEF Boundary
<1> QED
  BY <1>1, <1>2

LEMMA ExecuteParts ==
    ASSUME NEW s \in Machine
    PROVE  /\ Execute(s).now = s.now + Current(s).cycles * Divider
           /\ Execute(s).irqs = s.irqs
           /\ Execute(s).isr = IF s.isr = 0 THEN 0
                               ELSE IF s.isr = Len(Handler) THEN 0 ELSE s.isr + 1
           /\ Execute(s).at = IF s.isr # 0 THEN s.at
                              ELSE IF Current(s).effect = "pop" /\ s.frame = "smashed" THEN 1
                              ELSE Following(s.at)
<1> DEFINE i == Current(s)
           now == s.now + i.cycles * Divider
           seen == IF i.effect = "read" THEN s.pad ELSE s.seen
           word == IF i.effect = "push" THEN "intact"
                   ELSE IF i.effect = "smash" /\ s.seen # 0 THEN "smashed" ELSE s.frame
           isr == IF s.isr = 0 THEN 0 ELSE IF s.isr = Len(Handler) THEN 0 ELSE s.isr + 1
           at == IF s.isr # 0 THEN s.at
                 ELSE IF i.effect = "pop" /\ s.frame = "smashed" THEN 1
                 ELSE Following(s.at)
<1>1. Execute(s) = [s EXCEPT !.now = now, !.seen = seen, !.frame = word,
                             !.isr = isr, !.at = at]
  BY DEF Execute
<1>2. Execute(s).now = now /\ Execute(s).irqs = s.irqs /\ Execute(s).isr = isr
      /\ Execute(s).at = at
  <2> HIDE DEF now, seen, word, isr, at
  <2> QED
    BY <1>1 DEF Machine
<1> QED
  BY <1>2

LEMMA TimelyExecute ==
    ASSUME RegionsRight, NEW s \in Machine, Timely(s), Boundary(s) = s
    PROVE  Timely(Execute(s))
<1> DEFINE x == Execute(s)
           c == Current(s).cycles * Divider
           d == Divider
<1>1. /\ x.now = s.now + c /\ x.irqs = s.irqs
      /\ x.isr = IF s.isr = 0 THEN 0 ELSE IF s.isr = Len(Handler) THEN 0 ELSE s.isr + 1
  BY ExecuteParts
<1>2. s.now \in Nat /\ s.irqs \in Nat /\ s.isr \in 0..Len(Handler) /\ Len(Handler) \in Nat
  BY LateFacts DEF Machine
<1>3. Current(s).cycles \in Nat /\ c \in Nat
  BY CurrentType, LateFacts DEF Instruction
<1>4. CASE s.isr = 0
  <2>1. ~InterruptDue(s)
    <3> SUFFICES ASSUME InterruptDue(s) PROVE FALSE
      OBVIOUS
    <3> DEFINE one == 1
               y == s.irqs + 1
    <3>1. Boundary(s) = [s EXCEPT !.isr = one, !.irqs = y, !.irqAt = s.at]
      BY DEF Boundary
    <3> HIDE DEF y, one
    <3>2. Boundary(s).isr = one
      BY <3>1 DEF Machine
    <3> QED
      BY <1>4, <3>2 DEF one
  <2>2. Instant(s.irqs) \in Nat
    BY <1>2, InstantFacts
  <2>3. s.now < Instant(s.irqs)
    BY <1>2, <1>4, <2>1, <2>2 DEF InterruptDue, Instant
  <2>4. Current(s).cycles <= Late[1] /\ Late[1] \in Nat
    <3>1. s.at \in 1..Len(Main) /\ Current(s) = Main[s.at]
      BY <1>4 DEF Current, Machine
    <3> QED
      BY <3>1, LateFacts DEF HandlerPrompt
  <2>5. c <= Late[1] * Divider /\ Late[1] * Divider \in Nat
    BY <1>3, <2>4, Scaled, LateFacts
  <2> HIDE DEF c, x
  <2>6. x.now < Instant(x.irqs) + Late[1] * Divider
    BY <1>1, <1>2, <1>3, <2>2, <2>3, <2>5
  <2>7. x.isr = 0
    BY <1>1, <1>4
  <2> QED
    BY <2>6, <2>7 DEF Timely, x
<1>5. CASE s.isr # 0
  <2> DEFINE k == s.isr
             j == s.irqs - 1
  <2>1. k \in 1..Len(Handler) /\ k > 0
    BY <1>2, <1>5
  <2>2. /\ s.irqs > 0 /\ Instant(j) <= s.now
        /\ s.now < Instant(j) + Late[k] * Divider
    BY <2>1 DEF Timely
  <2>3. j \in Nat /\ j + 1 = s.irqs
    BY <1>2, <2>2
  <2>4. Instant(j) \in Nat /\ Instant(s.irqs) = Instant(j) + FrameTicks
    BY <2>3, InstantFacts
  <2>5. Current(s) = Handler[k]
    BY <2>1 DEF Current
  <2>6. /\ Late[k] \in Nat /\ Late[k] * Divider \in Nat /\ Handler[k].cycles \in Nat
        /\ c = Handler[k].cycles * Divider
        /\ (Late[k] + Handler[k].cycles) * Divider = Late[k] * Divider + c
    BY <2>1, <2>5, LateFacts, Scaled
  <2>7. CASE k = Len(Handler)
    <3>1. Late[k] * Divider + c <= FrameTicks
      BY <2>6, <2>7, LateFacts DEF HandlerPrompt
    <3>2. FrameTicks \in Nat /\ Late[1] * Divider \in Nat
      BY LateFacts
    <3>3. x.isr = 0
      BY <1>1, <1>5, <2>7
    <3> DEFINE a == Instant(j)
               l == Late[k] * Divider
               f == Late[1] * Divider
    <3>4. /\ x.now = s.now + c /\ s.now < a + l /\ l + c <= FrameTicks
          /\ Instant(x.irqs) = a + FrameTicks
          /\ s.now \in Nat /\ c \in Nat /\ a \in Nat /\ l \in Nat /\ f \in Nat
      BY <1>1, <1>2, <1>3, <2>2, <2>4, <2>6, <3>1, <3>2
    <3> HIDE DEF c, x, k, j, a, l, f
    <3>5. x.now < Instant(x.irqs) + f
      BY <3>2, <3>4
    <3> QED
      BY <3>3, <3>5 DEF Timely, x, f
  <2>8. CASE k # Len(Handler)
    <3>1. k \in 1..(Len(Handler) - 1) /\ k + 1 \in 1..Len(Handler)
      BY <1>2, <2>1, <2>8
    <3>2. Late[k] + Handler[k].cycles <= Late[k + 1] /\ Late[k + 1] \in Nat
      BY <3>1, LateFacts DEF HandlerPrompt
    <3>3. Late[k] * Divider + c <= Late[k + 1] * Divider /\ Late[k + 1] * Divider \in Nat
      <4>1. Late[k] + Handler[k].cycles \in Nat
        BY <2>6
      <4>2. (Late[k] + Handler[k].cycles) * Divider <= Late[k + 1] * Divider
            /\ Late[k + 1] * Divider \in Nat
        BY <3>2, <4>1, Scaled, LateFacts
      <4> QED
        BY <2>6, <4>2
    <3>4. x.isr = k + 1 /\ x.isr # 0
      BY <1>1, <1>2, <1>5, <2>8
    <3> DEFINE a == Instant(j)
               l == Late[k] * Divider
               f == Late[k + 1] * Divider
    <3>5. /\ x.now = s.now + c /\ a <= s.now /\ s.now < a + l /\ l + c <= f
          /\ s.now \in Nat /\ c \in Nat /\ a \in Nat /\ l \in Nat /\ f \in Nat
      BY <1>1, <1>2, <1>3, <2>2, <2>4, <2>6, <3>3
    <3> HIDE DEF c, x, k, j, a, l, f
    <3>6. x.now < a + f /\ a <= x.now
      BY <3>5
    <3> QED
      BY <1>1, <2>2, <3>4, <3>6 DEF Timely, x, j, a, f
  <2> QED
    BY <2>7, <2>8
<1> QED
  BY <1>4, <1>5

LEMMA TimelyOnce ==
    ASSUME RegionsRight, NEW s \in Machine, Timely(s)
    PROVE  Timely(Once(s))
  BY BoundaryFacts, TimelyBoundary, TimelyExecute DEF Once

\* The handler's reads of a frame come before its wrap: before the observation instant
\* of frame n they are before the wrap of n, for the next handler starts after it.
LEMMA HandlerReads ==
    ASSUME RegionsRight, NEW s \in Machine, Timely(s), s.isr # 0,
           Handler[s.isr].effect = "read",
           NEW n \in Nat, s.now < n * FrameTicks + ObservationOffset
    PROVE  s.now < n * FrameTicks
<1> DEFINE k == s.isr
           j == s.irqs - 1
           w == n * FrameTicks
           v == j * FrameTicks
           l == Late[k] * Divider
<1>1. k \in 1..Len(Handler) /\ k > 0 /\ s.now \in Nat /\ s.irqs \in Nat
  BY LateFacts DEF Machine
<1>2. s.irqs > 0 /\ v + VBlankOffset <= s.now /\ s.now < v + VBlankOffset + l
  BY <1>1 DEF Timely, Instant
<1>3. j \in Nat
  BY <1>1, <1>2
<1>4. VBlankOffset + l <= FrameTicks /\ l \in Nat
  BY <1>1, LateFacts DEF HandlerPrompt
<1>5. FrameTicks \in Nat \ {0} /\ v \in Nat /\ w \in Nat /\ VBlankOffset \in Nat
      /\ ObservationOffset \in Nat /\ ObservationOffset <= VBlankOffset
  BY <1>3, LateFacts, MachineAssumption
<1>6. s.now < v + FrameTicks
  <2> HIDE DEF v, w, l, k, j
  <2> QED
    BY <1>1, <1>2, <1>4, <1>5
<1>7. CASE n <= j
  <2>1. w <= v
    BY <1>3, <1>5, <1>7, Scaled
  <2> HIDE DEF v, w, l, k, j
  <2> QED
    BY <1>1, <1>2, <1>5, <2>1 DEF w
<1>8. CASE ~(n <= j)
  <2>1. j + 1 \in Nat /\ j + 1 <= n
    BY <1>3, <1>8
  <2>2. (j + 1) * FrameTicks <= w /\ (j + 1) * FrameTicks = v + 1 * FrameTicks
    BY <1>3, <1>5, <2>1, Scaled
  <2>3. 1 * FrameTicks = FrameTicks
    BY <1>5
  <2> HIDE DEF v, w, l, k, j
  <2> QED
    BY <1>1, <1>5, <1>6, <2>2, <2>3 DEF w
<1> QED
  BY <1>7, <1>8
----
(* Every step keeps the frame on its course.                               *)

\* A cost that divides into what is left of the frame fits.
LEMMA Fits ==
    ASSUME NEW a \in Nat, NEW c \in Nat, NEW d \in Nat \ {0}, c < a \div d
    PROVE  c * d < a
<1> DEFINE q == a \div d
<1>1. q \in Nat /\ q * d <= a
  OBVIOUS
<1>2. c * d < q * d /\ c * d \in Nat /\ q * d \in Nat
  BY <1>1, Scaled
<1> HIDE DEF q
<1> QED
  BY <1>1, <1>2

LEMMA FrameType ==
    ASSUME TypeOK
    PROVE  /\ frame \in Nat /\ mask \in Masks /\ m \in Machine /\ snapshot \in Machine
           /\ m.now \in Nat /\ Wrap \in Nat /\ Observed \in Nat
           /\ Wrap = frame * FrameTicks
           /\ Observed = frame * FrameTicks + ObservationOffset
<1>1. Wrap \in Nat /\ Observed \in Nat /\ m.now \in Nat
  BY Instants
<1>2. frame \in Nat
  BY RunAssumption DEF TypeOK
<1> QED
  BY <1>1, <1>2 DEF TypeOK, Wrap, Observed

\* What the engine admits fits before the instants and comes to the same.
LEMMA AdmitOutcome ==
    ASSUME RegionsRight, SInv, py \in {"onGate", "onResume"}, NEW p \in Plan, Admit(p),
           NEW effects, effects \subseteq SpanEffects, Restates(p, m.at, effects),
           "pop" \in effects => m.frame = "intact"
    PROVE  /\ Outcome(frame, mask, m') = Outcome(frame, mask, m)
           /\ Timely(m') /\ m'.pad = m.pad /\ m'.now >= m.now /\ m'.at = p.to
<1> USE DEF SInv, IInv
<1>1. m' = Planned(p, m) /\ m.isr = 0
  BY DEF Admit, Applied, Planned
<1> DEFINE c == p.cycles * Divider
<1>2. p.cycles \in Nat /\ c \in Nat /\ Divider \in Nat \ {0} /\ p.to \in 1..Len(Main)
  BY MachineAssumption DEF Plan
<1>3. m.now < Observed
  BY DEF StopInv
<1>4. m.now + c < Observed
  <2> DEFINE a == Observed - m.now
  <2>1. a \in Nat /\ p.cycles < a \div Divider
    BY <1>3, FrameType DEF Admit, BeforeDeadline, Deadline
  <2> HIDE DEF a
  <2>2. c < a
    BY <1>2, <2>1, Fits
  <2> HIDE DEF c
  <2> QED
    BY <1>2, <2>2, FrameType DEF a
<1>5. m.now + c <= m.irqs * FrameTicks + VBlankOffset
  BY DEF Admit, NoInterruptIn
<1>6. Outcome(frame, mask, Planned(p, m)) = Outcome(frame, mask, m)
  BY <1>1, <1>4, <1>5, FrameType, PlanOutcome
<1>7. /\ m'.isr = 0 /\ m'.irqs = m.irqs /\ m'.pad = m.pad /\ m'.at = p.to
      /\ m'.now = m.now + c
  <2> DEFINE now == m.now + c
             word == IF p.frame = "intact" THEN "intact" ELSE m.frame
  <2>1. m' = [m EXCEPT !.now = now, !.at = p.to, !.frame = word]
    BY <1>1 DEF Planned
  <2>2. /\ m'.isr = m.isr /\ m'.irqs = m.irqs /\ m'.pad = m.pad /\ m'.at = p.to /\ m'.now = now
    <3> HIDE DEF now, word
    <3> QED
      BY <2>1, FrameType DEF Machine
  <2> QED
    BY <1>1, <2>2
<1>8. Timely(m')
  <2>1. Late[1] * Divider \in Nat /\ Late[1] \in Nat \ {0}
    <3>1. 1 \in 1..Len(Main)
      BY <1>2
    <3>2. Main[1].cycles <= Late[1] /\ Main[1].cycles \in Nat \ {0} /\ Late[1] \in Nat
      BY <3>1, MainType, LateFacts DEF HandlerPrompt
    <3> QED
      BY <3>2, LateFacts
  <2>2. Late[1] * Divider > 0
    BY <1>2, <2>1, CostPositive
  <2>3. m'.now <= Instant(m.irqs)
    BY <1>5, <1>7 DEF Instant
  <2>4. Instant(m.irqs) \in Nat /\ m'.now \in Nat
    <3>1. m.irqs \in Nat
      BY FrameType DEF Machine
    <3>2. Instant(m.irqs) \in Nat
      BY <3>1, InstantFacts
    <3>3. m'.now = m.now + c /\ m.now \in Nat /\ c \in Nat
      BY <1>2, <1>7, FrameType
    <3> HIDE DEF c
    <3>4. m'.now \in Nat
      BY <3>3
    <3> QED
      BY <3>2, <3>4
  <2>5. m'.now < Instant(m.irqs) + Late[1] * Divider
    BY <2>1, <2>2, <2>3, <2>4
  <2> QED
    BY <1>7, <2>5 DEF Timely
<1>9. m'.now >= m.now
  <2> HIDE DEF c
  <2> QED
    BY <1>2, <1>7, FrameType
<1> QED
  BY <1>1, <1>6, <1>7, <1>8, <1>9

\* The instruction executed on the way to the wrap reads no mask past it.
LEMMA ReadsInTime ==
    ASSUME RegionsRight, SInv, phase # "idle", m.now < Observed,
           m.now < Target \/ Quiet(Boundary(m))
    PROVE  m.now >= Wrap /\ Current(Boundary(m)).effect = "read" => m.pad = mask
<1> USE DEF SInv, IInv
<1>1. CASE phase = "toObserved"
  BY <1>1 DEF PadInv
<1>2. CASE phase = "toWrap" /\ m.now >= Wrap
  <2> DEFINE s == Boundary(m)
  <2>1. s \in Machine /\ s.now = m.now /\ Timely(s)
    BY FrameType, BoundaryFacts, TimelyBoundary
  <2>2. Quiet(s)
    BY <1>2, FrameType DEF Target
  <2> HIDE DEF s
  <2>3. SUFFICES ASSUME Current(s).effect = "read" PROVE FALSE
    BY DEF s
  <2>4. s.isr # 0
    BY <2>2, <2>3 DEF Quiet, Current
  <2>5. Current(s) = Handler[s.isr]
    BY <2>1, <2>4 DEF Current, Machine
  <2>6. s.now < frame * FrameTicks + ObservationOffset
    BY <2>1, FrameType
  <2>7. s.now < frame * FrameTicks
    BY <2>1, <2>3, <2>4, <2>5, <2>6, FrameType, HandlerReads
  <2> QED
    BY <1>2, <2>1, <2>7, FrameType
<1> QED
  BY <1>1, <1>2 DEF TypeOK

\* One instruction of the original, under whatever stop or seam.
LEMMA InstructionKeeps ==
    ASSUME RegionsRight, SInv, phase # "idle", m.now < Observed,
           m.now < Target \/ Quiet(Boundary(m)),
           m' = Once(m), UNCHANGED run
    PROVE  PadInv' /\ FrameInv' /\ Timely(m)'
<1> USE DEF SInv, IInv, run
<1>1. m' \in Machine /\ m'.now > m.now /\ m'.now \in Nat /\ m'.pad = m.pad
  BY FrameType, OnceFacts, OncePad
<1>2. Outcome(frame, mask, m') = Outcome(frame, mask, m)
  <2>1. m.now < frame * FrameTicks + ObservationOffset
    BY FrameType
  <2>2. m.now >= frame * FrameTicks /\ Current(Boundary(m)).effect = "read" => m.pad = mask
    BY FrameType, ReadsInTime
  <2>3. Outcome(frame, mask, Once(m)) = Outcome(frame, mask, m)
    BY <2>1, <2>2, FrameType, OutcomeOnce
  <2> QED
    BY <2>3
<1>3. PadInv'
  BY <1>1, FrameType DEF PadInv, Wrap
<1>4. FrameInv'
  BY <1>2 DEF FrameInv
<1>5. Timely(m)'
  BY FrameType, TimelyOnce
<1> QED
  BY <1>3, <1>4, <1>5

\* Inside the platform operation: nothing there reads the pad or leaves the span.
LEMMA PlatformKeeps ==
    ASSUME RegionsRight, SInv, inSeam, AtGate(Boundary(m)) => bypass
    PROVE  /\ Quiet(Boundary(m))
           /\ \E back \in Seams[region].prefix.to..Len(Main) :
                 Returns(Seams[region], back) /\ Once(m).at \in Seams[region].prefix.to..back
<1> USE DEF SInv, IInv
<1> DEFINE s == Boundary(m)
           sm == Seams[region]
<1>1. s \in Machine /\ s.at = m.at
  BY FrameType, BoundaryFacts, BoundaryPad
<1>2. PICK back \in sm.prefix.to..Len(Main) : Returns(sm, back) /\ m.at \in sm.prefix.to..back
  BY DEF PlatformInv
<1>3. sm.prefix.to \in 1..Len(Main) /\ Len(Main) \in Nat /\ gates = {sm.resume}
  <2>1. region \in DOMAIN Seams /\ gates = {sm.resume}
    BY DEF SeamInv
  <2>2. sm.prefix \in Plan
    BY <2>1, PrefixFacts, FrameType
  <2> QED
    BY <2>1, <2>2, MachineAssumption DEF Plan
<1>4. CASE s.isr = 0
  <2>1. Current(s) = Main[m.at]
    BY <1>1, <1>4 DEF Current
  <2>2. m.at # back
    <3> SUFFICES ASSUME m.at = back PROVE FALSE
      OBVIOUS
    <3>1. Current(s).pc = sm.resume /\ Current(s).sp = sm.basis
      BY <1>2, <2>1 DEF Returns
    <3>2. AtGate(s)
      BY <1>3, <3>1 DEF AtGate
    <3>3. s = m /\ Current(m).sp # sm.basis
      BY <3>2 DEF PlatformInv
    <3> QED
      BY <3>1, <3>3
  <2>3. m.at \in sm.prefix.to..(back - 1) /\ m.at < Len(Main) /\ m.at + 1 \in sm.prefix.to..back
    BY <1>2, <1>3, <2>2
  <2>4. Main[m.at].effect \notin {"read", "pop"}
    BY <1>2, <2>3 DEF Returns
  <2>5. Quiet(s)
    BY <1>1, <2>4 DEF Quiet
  <2>6. Once(m).at = m.at + 1
    <3>1. Following(m.at) = m.at + 1
      BY <2>3 DEF Following
    <3> QED
      BY <1>1, <1>4, <2>1, <2>4, <3>1, ExecuteParts DEF Once
  <2> QED
    BY <1>2, <2>3, <2>5, <2>6
<1>5. CASE s.isr # 0
  <2>1. Once(m).at = m.at
    BY <1>1, <1>5, ExecuteParts DEF Once
  <2> QED
    BY <1>2, <1>5, <2>1 DEF Quiet
<1> QED
  BY <1>4, <1>5
----
\* The part of the invariant that needs the regions to be right.
Course == PadInv /\ StopInv /\ PlatformInv /\ FrameInv /\ Timely(m)

\* A run just created is on its course.
THEOREM InitCourse == RegionsRight /\ Init => Course
<1> SUFFICES ASSUME RegionsRight, Init PROVE Course
  OBVIOUS
<1> USE DEF Init
<1>1. Timely(m)
  BY TimelyPowerOn
<1>2. PadInv /\ StopInv /\ PlatformInv /\ FrameInv
  BY DEF PadInv, StopInv, PlatformInv, FrameInv, PowerOn
<1> QED
  BY <1>1, <1>2 DEF Course

\* The machine stands still, and so do the frame and its mask.
LEMMA StandsStill ==
    ASSUME SInv, m' = m, UNCHANGED run
    PROVE  PadInv' /\ FrameInv' /\ Timely(m)' /\ Observed' = Observed /\ Target' = Target
<1> USE DEF SInv, run
<1>1. PadInv' /\ FrameInv'
  BY DEF PadInv, FrameInv, Wrap
<1>2. Timely(m)' /\ Observed' = Observed /\ Target' = Target
  BY DEF Observed, Wrap, Target
<1> QED
  BY <1>1, <1>2

LEMMA BeginStepCourse ==
    ASSUME SInv, NEW b \in Masks, BeginStep(b)
    PROVE  Course'
<1> USE DEF SInv, IInv, BeginStep, executor, seam
<1>1. snapshot = m /\ ~inSeam /\ ~inSeam'
  BY DEF FrameInv, PhaseInv, SeamInv
<1>2. FrameInv'
  BY <1>1 DEF FrameInv
<1>3. PadInv' /\ StopInv' /\ PlatformInv' /\ Timely(m)'
  BY <1>1 DEF PadInv, StopInv, PlatformInv
<1> QED
  BY <1>2, <1>3 DEF Course

LEMMA ResumeCourse ==
    ASSUME SInv, Resume
    PROVE  Course'
<1> USE DEF SInv, IInv, Resume, seam
<1>1. PadInv' /\ FrameInv' /\ Timely(m)'
  BY StandsStill
<1>2. ~inSeam'
  BY DEF SeamInv
<1> QED
  BY <1>1, <1>2 DEF Course, StopInv, PlatformInv

LEMMA ReachWrapCourse ==
    ASSUME SInv, ReachWrap
    PROVE  Course'
<1> USE DEF SInv, IInv, ReachWrap, executor, seam
<1>1. m' = Held(mask, m) /\ buttons' = mask
  <2>1. CASE mask # buttons
    BY <2>1 DEF Held
  <2>2. CASE mask = buttons
    BY <2>2, FrameType, HeldFacts DEF PadInv
  <2> QED
    BY <2>1, <2>2
<1>2. m'.now = m.now /\ m'.pad = mask /\ m'.isr = m.isr /\ m'.irqs = m.irqs
  BY <1>1, FrameType DEF Held, Machine
<1>3. PadInv'
  BY <1>1, <1>2 DEF PadInv, Wrap
<1>4. FrameInv'
  <2>1. Outcome(frame, mask, Held(mask, m)) = Outcome(frame, mask, m)
    BY FrameType, OutcomePast
  <2> QED
    BY <1>1, <2>1 DEF FrameInv
<1>5. Timely(m)'
  BY <1>2 DEF Timely
<1>6. ~inSeam'
  BY DEF SeamInv
<1> QED
  BY <1>3, <1>4, <1>5, <1>6 DEF Course, StopInv, PlatformInv

LEMMA ReachObservedCourse ==
    ASSUME SInv, ReachObserved
    PROVE  Course'
<1> USE DEF SInv, IInv, ReachObserved, executor, seam, loop
<1>1. ~inSeam' /\ phase' = "idle" /\ m' = m /\ buttons' = buttons /\ snapshot' = m
  BY DEF SeamInv
<1>2. Timely(m)' /\ PadInv' /\ FrameInv'
  BY <1>1 DEF PadInv, FrameInv
<1> QED
  BY <1>1, <1>2 DEF Course, StopInv, PlatformInv
----
LEMMA RunYieldCourse ==
    ASSUME RegionsRight, SInv, RunYield
    PROVE  Course'
<1> USE DEF SInv, IInv, RunYield, run, seam, loop
<1>1. /\ m' \in Machine /\ m'.now = m.now /\ m'.pad = m.pad /\ m'.at = m.at
      /\ phase # "idle"
  BY FrameType, BoundaryFacts, BoundaryPad DEF PhaseInv
<1>2. m.now < Observed
  BY FrameType, Instants DEF RunTarget, Deadline
<1>3. Outcome(frame, mask, m') = Outcome(frame, mask, m)
  BY <1>2, FrameType, OutcomeBoundary
<1>4. PadInv' /\ FrameInv'
  BY <1>1, <1>3 DEF PadInv, FrameInv, Wrap
<1>5. StopInv'
  <2>1. Observed' = Observed /\ Target' = Target
    BY DEF Observed, Wrap, Target
  <2>2. py' = "onGate" => m.now < Target
    BY DEF RunTarget
  <2> QED
    BY <1>1, <1>2, <2>1, <2>2 DEF StopInv
<1>6. PlatformInv'
  BY <1>1 DEF PlatformInv
<1>7. Timely(m)'
  BY FrameType, TimelyBoundary
<1> QED
  BY <1>4, <1>5, <1>6, <1>7 DEF Course

LEMMA RunInstructionCourse ==
    ASSUME RegionsRight, SInv, RunInstruction
    PROVE  Course'
<1> USE DEF SInv, IInv, RunInstruction, run, seam, loop
<1>1. m' = Once(m) /\ phase # "idle"
  BY DEF Once, PhaseInv
<1>2. m.now < Observed
  BY FrameType, Instants DEF RunTarget, Deadline
<1>3. m.now < Target \/ Quiet(Boundary(m))
  BY PlatformKeeps DEF RunTarget
<1>4. PadInv' /\ FrameInv' /\ Timely(m)'
  BY <1>1, <1>2, <1>3, InstructionKeeps
<1>5. StopInv'
  BY DEF StopInv
<1>6. PlatformInv'
  <2> SUFFICES ASSUME inSeam PROVE PlatformInv'
    BY DEF PlatformInv
  <2>1. ~bypass'
    BY DEF PlatformInv
  <2> QED
    BY <1>1, <2>1, PlatformKeeps DEF PlatformInv
<1> QED
  BY <1>4, <1>5, <1>6 DEF Course

\* Back in the loop, or raised: no seam is open and nothing stands at a gate.
LEMMA BackCourse ==
    ASSUME PadInv', FrameInv', Timely(m)', ~inSeam', py' \in {"loop", "raised"}
    PROVE  Course'
  BY DEF Course, StopInv, PlatformInv

LEMMA RunLimitCourse ==
    ASSUME SInv, RunLimit
    PROVE  Course'
<1>1. PadInv' /\ FrameInv' /\ Timely(m)'
  BY StandsStill DEF RunLimit
<1> QED
  BY <1>1, BackCourse DEF RunLimit, seam, Rejoin

LEMMA FallbackCourse ==
    ASSUME SInv, Fallback
    PROVE  Course'
<1> USE DEF SInv, IInv, Fallback, seam
<1>1. PadInv' /\ FrameInv' /\ Timely(m)' /\ Observed' = Observed /\ Target' = Target
  BY StandsStill
<1>2. ~inSeam'
  BY DEF SeamInv
<1>3. StopInv'
  BY <1>1 DEF StopInv
<1> QED
  BY <1>1, <1>2, <1>3 DEF Course, PlatformInv

LEMMA RetireOneCourse ==
    ASSUME RegionsRight, SInv, RetireOne
    PROVE  Course'
<1> USE DEF SInv, IInv, RetireOne
<1>1. Boundary(m) = m /\ bypass /\ ~inSeam /\ phase # "idle"
  BY DEF GateInv, SeamInv, PhaseInv
<1>2. m' = Once(m)
  BY <1>1 DEF Once
<1>3. m.now < Observed /\ (m.now < Target \/ Quiet(Boundary(m)))
  BY <1>1 DEF StopInv
<1>4. PadInv' /\ FrameInv' /\ Timely(m)'
  BY <1>1, <1>2, <1>3, InstructionKeeps
<1> QED
  BY <1>1, <1>4, BackCourse DEF seam, Rejoin

\* An admitted plan keeps the frame on its course.
LEMMA AdmitCourse ==
    ASSUME RegionsRight, SInv, py \in {"onGate", "onResume"}, NEW p \in Plan, Admit(p),
           UNCHANGED run,
           NEW effects, effects \subseteq SpanEffects, Restates(p, m.at, effects),
           "pop" \in effects => m.frame = "intact"
    PROVE  PadInv' /\ FrameInv' /\ Timely(m)' /\ m'.at = p.to
<1> USE DEF SInv, IInv, run
<1>1. /\ Outcome(frame, mask, m') = Outcome(frame, mask, m)
      /\ Timely(m') /\ m'.pad = m.pad /\ m'.now >= m.now /\ m'.at = p.to
  BY AdmitOutcome
<1>2. m' \in Machine
  BY AdmitFacts DEF Busy
<1>3. m'.now \in Nat
  BY <1>2 DEF Machine
<1>4. Wrap' = Wrap /\ (Wrap <= m.now => Wrap <= m'.now)
  <2>1. Wrap' = Wrap
    BY DEF Wrap
  <2>2. m.now \in Nat /\ Wrap \in Nat
    BY FrameType
  <2> QED
    BY <1>1, <1>3, <2>1, <2>2
<1>5. PadInv'
  BY <1>1, <1>4 DEF PadInv
<1>6. FrameInv'
  BY <1>1 DEF FrameInv, PhaseInv
<1> QED
  BY <1>1, <1>5, <1>6

LEMMA AdmitPlanCourse ==
    ASSUME RegionsRight, SInv, AdmitPlan
    PROVE  Course'
<1> USE DEF SInv, IInv, AdmitPlan
<1> DEFINE entry == Current(m).pc
<1>1. m.at \in 1..Len(Main) /\ Main[m.at].pc = entry
  BY FrameType DEF Admit, Current, Machine
<1>2. Plans[entry] \in Plan /\ Admit(Plans[entry])
  BY RunAssumption
<1>3. Restates(Plans[entry], m.at, {"work", "push"})
  BY <1>1 DEF RegionsRight, PlansRestate
<1> HIDE DEF entry
<1>4. PadInv' /\ FrameInv' /\ Timely(m)'
  BY <1>2, <1>3, AdmitCourse DEF SpanEffects
<1>5. ~inSeam'
  BY DEF SeamInv, seam
<1> QED
  BY <1>4, <1>5, BackCourse DEF Rejoin

LEMMA OpenSeamCourse ==
    ASSUME RegionsRight, SInv, OpenSeam
    PROVE  Course'
<1> USE DEF SInv, IInv, OpenSeam, SetGates
<1> DEFINE entry == Current(m).pc
           p == Seams[entry].prefix
<1>1. m.at \in 1..Len(Main) /\ Main[m.at].pc = entry
  BY FrameType DEF Admit, Current, Machine
<1>2. entry \in DOMAIN Seams /\ p \in Plan /\ Admit(p)
  BY PrefixFacts, FrameType
<1>3. Restates(p, m.at, {"work", "push"})
  BY <1>1, <1>2 DEF RegionsRight, PlansRestate
<1>4. PadInv' /\ FrameInv' /\ Timely(m)' /\ m'.at = p.to
  <2> HIDE DEF entry, p
  <2> QED
    BY <1>2, <1>3, AdmitCourse DEF SpanEffects
<1>5. PlatformInv'
  <2>1. PICK back \in p.to..Len(Main) : Returns(Seams[entry], back)
    BY <1>2 DEF RegionsRight, PlatformReturns
  <2>2. p.to \in p.to..back
    BY <1>2, MachineAssumption DEF Plan
  <2>3. region' = entry /\ ~bypass'
    OBVIOUS
  <2> QED
    BY <1>4, <2>1, <2>2, <2>3 DEF PlatformInv
<1>6. StopInv'
  BY DEF StopInv
<1> QED
  BY <1>4, <1>5, <1>6 DEF Course
----
\* Where a stop in a seam stands.
LEMMA AtResume ==
    ASSUME SInv, py = "onResume"
    PROVE  /\ inSeam /\ region \in DOMAIN Seams /\ Boundary(m) = m
           /\ gates = {Seams[region].resume} /\ guarded = "intact"
           /\ Current(m).pc = Seams[region].resume
           /\ m.isr = 0 => Main[m.at] = Current(m)
<1> USE DEF SInv, IInv
<1>1. /\ inSeam /\ region \in DOMAIN Seams /\ guarded = "intact"
      /\ gates = {Seams[region].resume} /\ gate \in {NoGate, Seams[region].resume}
  BY DEF SeamInv
<1>2. Boundary(m) = m /\ AtGate(m)
  BY DEF GateInv
<1>3. Current(m).pc \in Nat
  BY FrameType, CurrentType DEF Instruction
<1>4. Current(m).pc = Seams[region].resume
  BY <1>1, <1>2, <1>3 DEF AtGate, NoGate
<1> QED
  BY <1>1, <1>2, <1>4 DEF Current

LEMMA SuffixRestates ==
    ASSUME RegionsRight, SInv, OwnReturn, m.isr = 0
    PROVE  Restates(Seams[region].suffix, m.at, SpanEffects)
<1>1. m.at \in 1..Len(Main)
  BY FrameType DEF SInv, IInv, Machine
<1>2. /\ region \in DOMAIN Seams /\ Main[m.at].pc = Seams[region].resume
      /\ Main[m.at].sp = Seams[region].basis
  BY AtResume DEF OwnReturn
<1> QED
  BY <1>1, <1>2 DEF RegionsRight, PlansRestate, SpanEffects

LEMMA ForeignReturnCourse ==
    ASSUME SInv, ForeignReturn
    PROVE  Course'
<1> USE DEF SInv, ForeignReturn, BypassOnce, seam
<1>1. PadInv' /\ FrameInv' /\ Timely(m)'
  BY StandsStill
<1>2. /\ inSeam /\ Boundary(m) = m /\ gates = {Seams[region].resume}
      /\ Current(m).pc = Seams[region].resume /\ Current(m).sp # Seams[region].basis
  BY AtResume
<1>3. PlatformInv'
  <2>1. AtGate(m)'
    BY <1>2 DEF AtGate
  <2> QED
    BY <1>2, <2>1 DEF PlatformInv
<1>4. StopInv'
  BY DEF StopInv
<1> QED
  BY <1>1, <1>3, <1>4 DEF Course

LEMMA SeamMismatchCourse ==
    ASSUME SInv, SeamMismatch
    PROVE  Course'
<1>1. PadInv' /\ FrameInv' /\ Timely(m)'
  BY StandsStill DEF SeamMismatch
<1> QED
  BY <1>1, BackCourse DEF SeamMismatch, CloseSeam

LEMMA AdmitSuffixCourse ==
    ASSUME RegionsRight, SInv, AdmitSuffix
    PROVE  Course'
<1> USE DEF AdmitSuffix
<1>1. py = "onResume" /\ m.isr = 0 /\ m.frame = "intact" /\ region \in DOMAIN Seams
  BY AtResume DEF OwnReturn, Admit
<1>2. Seams[region].suffix \in Plan
  BY <1>1, PrefixFacts, FrameType DEF SInv, IInv
<1>3. Restates(Seams[region].suffix, m.at, SpanEffects)
  BY <1>1, SuffixRestates
<1>4. PadInv' /\ FrameInv' /\ Timely(m)'
  BY <1>1, <1>2, <1>3, AdmitCourse
<1> QED
  BY <1>4, BackCourse DEF CloseSeam, Rejoin

LEMMA SuffixFallbackCourse ==
    ASSUME RegionsRight, SInv, SuffixFallback
    PROVE  Course'
<1> USE DEF SInv, SuffixFallback
<1>1. PadInv' /\ FrameInv' /\ Timely(m)' /\ Observed' = Observed /\ Target' = Target
  BY StandsStill
<1>2. m.now < Observed
  BY DEF StopInv, OwnReturn
<1>3. Quiet(m)
  <2> SUFFICES ASSUME m.isr = 0 PROVE Main[m.at].effect # "read"
    BY DEF Quiet
  <2> DEFINE p == Seams[region].suffix
  <2>1. Restates(p, m.at, SpanEffects)
    BY SuffixRestates
  <2>2. m.at \in Nat /\ p.to \in Nat
    <3>1. region \in DOMAIN Seams
      BY AtResume DEF OwnReturn
    <3>2. p \in Plan /\ m.at \in 1..Len(Main)
      BY <3>1, PrefixFacts, FrameType DEF IInv, Machine
    <3> QED
      BY <3>2 DEF Plan
  <2>3. m.at \in m.at..(p.to - 1)
    BY <2>1, <2>2 DEF Restates
  <2> QED
    BY <2>1, <2>3 DEF Restates, SpanEffects
<1>4. StopInv'
  BY <1>1, <1>2, <1>3 DEF StopInv, Quiet
<1> QED
  BY <1>1, <1>4 DEF Course, PlatformInv, CloseSeam

LEMMA SeamDeadlineCourse ==
    ASSUME SInv, SeamDeadline
    PROVE  Course'
<1>1. PadInv' /\ FrameInv' /\ Timely(m)'
  BY StandsStill DEF SeamDeadline
<1> QED
  BY <1>1, BackCourse DEF SeamDeadline, CloseSeam, Rejoin
----
\* Every operation keeps the frame in progress on its course.
THEOREM NextCourse == RegionsRight /\ SInv /\ [Next]_vars => SInv'
<1> SUFFICES ASSUME RegionsRight, SInv, [Next]_vars PROVE SInv'
  OBVIOUS
<1>1. IInv'
  BY NextIInv DEF SInv
<1>2. Course'
  <2>1. CASE UNCHANGED vars
    <3> USE <2>1 DEF vars, executor, seam, loop
    <3>1. PadInv' /\ FrameInv' /\ Timely(m)' /\ Observed' = Observed /\ Target' = Target
      BY StandsStill
    <3>2. StopInv'
      BY <3>1 DEF SInv, StopInv, Quiet
    <3>3. PlatformInv'
      BY DEF SInv, PlatformInv, AtGate
    <3> QED
      BY <3>1, <3>2, <3>3 DEF Course
  <2>2. CASE Running
    BY <2>2, ResumeCourse, RunYieldCourse, RunInstructionCourse, RunLimitCourse DEF Running
  <2>3. CASE OnGate
    BY <2>3, FallbackCourse, RetireOneCourse, AdmitPlanCourse, OpenSeamCourse DEF OnGate
  <2>4. CASE InSeam
    BY <2>4, ForeignReturnCourse, SeamMismatchCourse, AdmitSuffixCourse,
       SuffixFallbackCourse, SeamDeadlineCourse DEF InSeam
  <2>5. CASE ReachWrap \/ ReachObserved
    BY <2>5, ReachWrapCourse, ReachObservedCourse
  <2>6. CASE \E b \in Masks : BeginStep(b)
    BY <2>6, BeginStepCourse
  <2> QED
    BY <2>1, <2>2, <2>3, <2>4, <2>5, <2>6 DEF Next, InStep
<1> QED
  BY <1>1, <1>2 DEF SInv, Course

\* Where the regions are right, the frame in progress always comes to what it came to
\* when it was begun, and no mask is read past the wrap of a frame that is not its own
\* (GenesisRun.step, Candidate.on_gate, run_seam, Executor).
THEOREM RunOnCourse == RegionsRight => (Spec => []SInv)
<1> SUFFICES ASSUME RegionsRight PROVE Spec => []SInv
  OBVIOUS
<1>1. Init => SInv
  BY InitIInv, InitCourse DEF SInv, Course
<1>2. SInv /\ [Next]_vars => SInv'
  BY NextCourse
<1> QED
  BY <1>1, <1>2, PTL DEF Spec
----
(* The refinement.                                                         *)

LEMMA SameOriginal ==
    ASSUME NEW s, NEW t
    PROVE  Canonical!RunOriginal(s, t) = RunOriginal(s, t)
  BY DEF Canonical!RunOriginal, RunOriginal, Canonical!Execute, Execute,
         Canonical!Boundary, Boundary, Canonical!InterruptDue, InterruptDue,
         Canonical!Machine, Machine, Canonical!Current, Current,
         Canonical!Following, Following

\* The step that observes a frame is the canonical step with its mask.
LEMMA ObservesCanonical ==
    ASSUME SInv, ReachObserved
    PROVE  Canonical!Step(mask) /\ mask \in Masks
<1> USE DEF SInv, IInv, ReachObserved
<1>1. frame < MaxFrames /\ mask \in Masks
  BY FrameType DEF PhaseInv
<1>2. Outcome(frame, mask, m) = Outcome(frame, mask, snapshot)
  BY DEF FrameInv
<1>3. Outcome(frame, mask, m) = Held(mask, m)
  BY FrameType, OutcomeArrived
<1>4. Held(mask, m) = m
  BY FrameType, HeldFacts DEF PadInv
<1>5. snapshot' = Outcome(frame, mask, snapshot) /\ frame' = frame + 1
  BY <1>2, <1>3, <1>4
<1> QED
  BY <1>1, <1>5, SameOriginal DEF Canonical!Step, Outcome, Held

LEMMA RefinesStep ==
    ASSUME SInv, [Next]_vars
    PROVE  [Canonical!Next]_(Canonical!canonical)
<1>1. CASE ReachObserved
  BY <1>1, ObservesCanonical DEF Canonical!Next
<1>2. CASE ~ReachObserved
  <2>1. UNCHANGED <<frame, snapshot>>
    <3>1. CASE Running
      BY <3>1 DEF Running, Resume, RunYield, RunInstruction, RunLimit, run
    <3>2. CASE OnGate
      BY <3>2 DEF OnGate, Fallback, RetireOne, AdmitPlan, OpenSeam, run
    <3>3. CASE InSeam
      BY <3>3 DEF InSeam, ForeignReturn, SeamMismatch, AdmitSuffix, SuffixFallback,
                  SeamDeadline, run
    <3>4. CASE ReachWrap
      BY <3>4 DEF ReachWrap
    <3>5. CASE \E b \in Masks : BeginStep(b)
      BY <3>5 DEF BeginStep
    <3>6. CASE UNCHANGED vars
      BY <3>6 DEF vars, run
    <3> QED
      BY <1>2, <3>1, <3>2, <3>3, <3>4, <3>5, <3>6 DEF Next, InStep
  <2> QED
    BY <2>1 DEF Canonical!canonical
<1> QED
  BY <1>1, <1>2

LEMMA RefinesInit ==
    ASSUME Init
    PROVE  Canonical!Init
  BY DEF Init, Canonical!Init, Canonical!PowerOn, PowerOn

\* Where the regions are right about their own instructions, every completed frame is
\* observed in the state the original alone would have been in, whatever was armed,
\* refused, straddled the wrap or was cut by the observation instant
\* (GenesisRun.step, Candidate.on_gate, run_seam, Executor against run_until_master).
THEOREM RunCanonical == RegionsRight => (Spec => ImplementsCanonical)
<1> SUFFICES ASSUME RegionsRight PROVE Spec => ImplementsCanonical
  OBVIOUS
<1>1. Spec => []SInv
  BY RunOnCourse
<1>2. SInv /\ [Next]_vars => [Canonical!Next]_(Canonical!canonical)
  BY RefinesStep
<1>3. Init => Canonical!Init
  BY RefinesInit
<1> QED
  BY <1>1, <1>2, <1>3, PTL DEF Spec, ImplementsCanonical, Canonical!Spec
----
(* A step ends.  StepCompletes leaves the scheduling to fairness; this is  *)
(* what makes fairness enough: everything step does brings it nearer to    *)
(* its return, by a measure that cannot fall for ever.                     *)

\* What is still to run before the observation instant of the frame.
Ahead == IF m.now < Observed THEN Observed - m.now ELSE 0

\* How far the Python side stands from the next instruction, or from its return: a
\* bypass is on the way to one, and no way back to the loop leaves the clock alone.
Standoff ==
    CASE py = "loop"       -> IF m.now < Target THEN 6 ELSE 1
      [] py = "running"    -> IF bypass THEN 3 ELSE 5
      [] py = "onGate"     -> 4
      [] py = "onResume"   -> 4
      [] py = "retireOne"  -> 2
      [] OTHER             -> 0

\* The pad has still to change hands.
PadDue == IF phase = "toWrap" THEN 8 ELSE 0

Rank == IF phase = "idle" THEN 0 ELSE 16 * Ahead + PadDue + Standoff

MaxRank == 16 * FrameTicks + 14

\* No step is asked to cover more than a frame: the observed instants are FrameTicks
\* apart, and the clock has reached the last one before the next is asked for.
Near == Observed <= m.now + FrameTicks

LEMMA StandoffRange == Standoff \in 0..6 /\ PadDue \in {0, 8}
  BY DEF Standoff, PadDue

LEMMA AheadRange ==
    ASSUME TypeOK
    PROVE  Ahead \in Nat /\ (Near => Ahead <= FrameTicks)
<1>1. m.now \in Nat /\ Observed \in Nat /\ FrameTicks \in Nat
  BY Instants, MachineAssumption
<1> QED
  BY <1>1 DEF Ahead, Near

LEMMA Weigh ==
    ASSUME NEW a \in Nat, NEW b \in Nat, NEW w \in {0, 8}, NEW s \in 0..6, NEW t \in 0..6,
           b < a \/ (b <= a /\ t < s)
    PROVE  16 * b + w + t < 16 * a + w + s
  OBVIOUS

\* A step moves in one of two ways.  The clock advances below the observation instant,
\* wherever that leaves the Python side:
LEMMA TimeFalls ==
    ASSUME TypeOK, m' \in Machine, phase # "idle", UNCHANGED <<frame, phase>>,
           m.now < m'.now, m.now < Observed
    PROVE  Rank' < Rank
<1>1. m.now \in Nat /\ m'.now \in Nat /\ Observed \in Nat /\ Observed' = Observed
  BY Instants DEF Observed, Wrap, Machine
<1>2. Ahead \in Nat /\ Ahead' \in Nat /\ Ahead' < Ahead
  BY <1>1 DEF Ahead
<1>3. Standoff \in 0..6 /\ PadDue' = PadDue /\ PadDue \in {0, 8}
  BY StandoffRange DEF PadDue
<1>4. Standoff' \in 0..6
  BY DEF Standoff
<1>5. Rank = 16 * Ahead + PadDue + Standoff /\ Rank' = 16 * Ahead' + PadDue' + Standoff'
  BY DEF Rank
<1> QED
  BY <1>2, <1>3, <1>4, <1>5, Weigh

\* or the clock does not go back and the Python side goes on.
LEMMA StandoffFalls ==
    ASSUME TypeOK, m' \in Machine, phase # "idle", UNCHANGED <<frame, phase>>,
           m.now <= m'.now, Standoff' < Standoff
    PROVE  Rank' < Rank
<1>1. m.now \in Nat /\ m'.now \in Nat /\ Observed \in Nat /\ Observed' = Observed
  BY Instants DEF Observed, Wrap, Machine
<1>2. Ahead \in Nat /\ Ahead' \in Nat /\ Ahead' <= Ahead
  BY <1>1 DEF Ahead
<1>3. Standoff \in 0..6 /\ PadDue' = PadDue /\ PadDue \in {0, 8}
  BY StandoffRange DEF PadDue
<1>4. Standoff' \in 0..6
  BY DEF Standoff
<1>5. Rank = 16 * Ahead + PadDue + Standoff /\ Rank' = 16 * Ahead' + PadDue' + Standoff'
  BY DEF Rank
<1> QED
  BY <1>2, <1>3, <1>4, <1>5, Weigh

\* Back in the loop: either time remained, and some has passed, or the target is behind.
LEMMA BackFalls ==
    ASSUME IInv, py \in Busy, phase # "idle", UNCHANGED <<frame, phase>>,
           m' \in Machine, py' = "loop", m.now <= m'.now,
           m.now < Observed => m.now < m'.now
    PROVE  Rank' < Rank
<1> USE DEF IInv
<1>1. CASE m.now < Observed
  BY <1>1, TimeFalls
<1>2. CASE ~(m.now < Observed)
  <2>1. m.now \in Nat /\ m'.now \in Nat /\ Target \in Nat /\ Observed \in Nat
        /\ Target <= Observed /\ Target' = Target
    BY Instants DEF Target, Observed, Wrap, Machine
  <2>2. ~(m'.now < Target')
    BY <1>2, <2>1
  <2>3. Standoff' = 1
    BY <2>2 DEF Standoff
  <2>4. Standoff > 1
    BY DEF Standoff, Busy
  <2>5. Standoff' < Standoff
    BY <2>3, <2>4
  <2> QED
    BY <2>5, StandoffFalls
<1> QED
  BY <1>1, <1>2
----
\* _run_to's own moves.
LEMMA LoopFalls ==
    ASSUME IInv, Resume \/ ReachWrap \/ ReachObserved
    PROVE  Rank' < Rank
<1> USE DEF IInv
<1>0. /\ m \in Machine /\ m.now \in Nat /\ Wrap \in Nat /\ Observed \in Nat
      /\ Ahead \in Nat /\ Standoff \in 0..6 /\ PadDue \in {0, 8}
  BY Instants, AheadRange, StandoffRange DEF TypeOK
<1>1. CASE Resume
  <2>1. Standoff = 6 /\ Standoff' \in {3, 5}
    BY <1>1 DEF Resume, Standoff
  <2>2. Standoff' < Standoff
    BY <2>1
  <2>3. phase # "idle" /\ UNCHANGED <<frame, phase>> /\ m' = m
    BY <1>1 DEF Resume, PhaseInv, run
  <2> QED
    BY <1>0, <2>2, <2>3, StandoffFalls
<1>2. CASE ReachWrap
  <2>1. m'.now = m.now /\ frame' = frame /\ phase = "toWrap" /\ phase' = "toObserved"
    BY <1>0, <1>2 DEF ReachWrap, Machine
  <2>2. Ahead' = Ahead
    BY <2>1 DEF Ahead, Observed, Wrap
  <2>3. py = "loop" /\ py' = "loop" /\ ~(m.now < Target)
    BY <1>0, <1>2 DEF ReachWrap, Target
  <2>4. Standoff = 1 /\ Standoff' \in {1, 6}
    BY <2>3 DEF Standoff
  <2>5. Rank = 16 * Ahead + 8 + 1 /\ Rank' = 16 * Ahead + 0 + Standoff'
    BY <2>1, <2>2, <2>4 DEF Rank, PadDue
  <2>6. \A a \in Nat, t \in {1, 6} : 16 * a + 0 + t < 16 * a + 8 + 1
    OBVIOUS
  <2> QED
    BY <1>0, <2>4, <2>5, <2>6
<1>3. CASE ReachObserved
  <2>1. phase = "toObserved" /\ phase' = "idle" /\ py = "loop"
    BY <1>3 DEF ReachObserved
  <2>2. Standoff \in {1, 6}
    BY <2>1 DEF Standoff
  <2>3. Rank = 16 * Ahead + PadDue + Standoff /\ Rank' = 0
    BY <2>1 DEF Rank
  <2> QED
    BY <1>0, <2>2, <2>3
<1> QED
  BY <1>1, <1>2, <1>3

\* al_run: a stop goes to the dispatcher or the seam, an instruction takes time.
LEMMA RunningFalls ==
    ASSUME IInv, RunYield \/ RunInstruction \/ RunLimit
    PROVE  Rank' < Rank
<1> USE DEF IInv
<1>0. /\ m \in Machine /\ m.now \in Nat /\ Observed \in Nat /\ Target \in Nat
      /\ Target <= Observed /\ py = "running" /\ phase # "idle" /\ UNCHANGED <<frame, phase>>
  BY Instants DEF TypeOK, RunYield, RunInstruction, RunLimit, PhaseInv, run
<1>1. CASE RunYield
  <2>1. m' \in Machine /\ m'.now = m.now
    BY <1>0, <1>1, BoundaryFacts DEF RunYield
  <2>2. Standoff = 5 /\ Standoff' = 4
    BY <1>1 DEF RunYield, Standoff
  <2>3. Standoff' < Standoff /\ m.now <= m'.now
    BY <1>0, <2>1, <2>2
  <2> QED
    BY <1>0, <2>1, <2>3, StandoffFalls
<1>2. CASE RunInstruction
  <2>1. m' \in Machine /\ m'.now > m.now
    BY <1>0, <1>2, BoundaryFacts, ExecuteFacts DEF RunInstruction
  <2>2. m.now < Observed
    BY <1>0, <1>2 DEF RunInstruction, RunTarget, Deadline
  <2> QED
    BY <1>0, <2>1, <2>2, TimeFalls DEF Machine
<1>3. CASE RunLimit
  <2>1. m' = m /\ ~(m.now < Target) /\ Rejoin(m)
    BY <1>0, <1>3 DEF RunLimit, RunTarget
  <2>2. Standoff \in {3, 5}
    BY <1>0 DEF Standoff
  <2>3. Target' = Target
    BY <1>0 DEF Target, Observed, Wrap
  <2>4. Standoff' \in {0, 1}
    BY <2>1, <2>3 DEF Rejoin, Standoff
  <2>5. Standoff' < Standoff
    BY <2>2, <2>4
  <2> QED
    BY <1>0, <2>1, <2>5, StandoffFalls
<1> QED
  BY <1>1, <1>2, <1>3

\* Where the machine has moved since the run began, Rejoin is the loop.
LEMMA RejoinFalls ==
    ASSUME IInv, py \in Busy, phase # "idle", UNCHANGED <<frame, phase>>,
           m' \in Machine, m'.now > before.tick, Rejoin(m'), m.now <= m'.now,
           m.now < Observed => m.now < m'.now
    PROVE  Rank' < Rank
<1>1. py' = "loop"
  BY RejoinFacts DEF IInv
<1> QED
  BY <1>1, BackFalls

\* An admitted plan takes time and ends before the deadline.
LEMMA AdmitFalls ==
    ASSUME TypeOK, NEW p \in Plan, Admit(p)
    PROVE  m' \in Machine /\ m'.now > m.now /\ m.now < Observed
<1>1. m' \in Machine /\ m'.now > m.now
  BY AppliedFacts DEF Admit, TypeOK
<1>2. m.now < Observed
  <2>1. m.now \in Nat /\ Observed \in Nat /\ p.cycles \in Nat \ {0} /\ Divider \in Nat \ {0}
    BY Instants, MachineAssumption DEF Plan
  <2>2. p.cycles < (Observed - m.now) \div Divider
    BY DEF Admit, BeforeDeadline, Deadline
  <2> HIDE DEF Observed
  <2>3. SUFFICES ASSUME Observed - m.now <= 0 PROVE FALSE
    BY <2>1
  <2>4. (Observed - m.now) \div Divider <= 0
    BY <2>1, <2>3
  <2> QED
    BY <2>1, <2>2, <2>4
<1> QED
  BY <1>1, <1>2

\* on_gate: what replaces the original takes time, what falls back to it has a bypass.
LEMMA OnGateFalls ==
    ASSUME IInv, OnGate
    PROVE  Rank' < Rank
<1> USE DEF IInv
<1>0. /\ m \in Machine /\ m.now \in Nat /\ before.tick \in Nat /\ py \in {"onGate", "retireOne"}
      /\ py \in Busy /\ phase # "idle" /\ UNCHANGED <<frame, phase>>
      /\ before.tick <= m.now
  BY Instants DEF TypeOK, OnGate, Fallback, RetireOne, AdmitPlan, OpenSeam, PhaseInv, run,
                  LoopInv, Busy
<1>1. CASE Fallback
  <2>1. Standoff = 4 /\ Standoff' = 2 /\ m' = m
    BY <1>1 DEF Fallback, Standoff
  <2>2. Standoff' < Standoff
    BY <2>1
  <2> QED
    BY <1>0, <2>1, <2>2, StandoffFalls
<1>2. CASE RetireOne
  <2>1. Boundary(m) = m /\ bypass
    BY <1>2 DEF GateInv, RetireOne
  <2>2. m' = Execute(m) /\ Rejoin(m')
    BY <1>2, <2>1 DEF RetireOne
  <2>3. m' \in Machine /\ m'.now > m.now
    BY <1>0, <2>2, ExecuteFacts
  <2>4. m'.now > before.tick /\ m.now <= m'.now
    BY <1>0, <2>3 DEF Machine
  <2> QED
    BY <1>0, <2>2, <2>3, <2>4, RejoinFalls
<1>3. CASE AdmitPlan
  <2>1. Plans[Current(m).pc] \in Plan /\ Admit(Plans[Current(m).pc]) /\ Rejoin(m')
    BY <1>3, RunAssumption DEF AdmitPlan
  <2>2. m' \in Machine /\ m'.now > m.now
    BY <2>1, AdmitFalls
  <2>3. m'.now > before.tick /\ m.now <= m'.now
    BY <1>0, <2>2 DEF Machine
  <2> QED
    BY <1>0, <2>1, <2>2, <2>3, RejoinFalls
<1>4. CASE OpenSeam
  <2>1. Seams[Current(m).pc].prefix \in Plan /\ Admit(Seams[Current(m).pc].prefix)
    BY <1>0, <1>4, PrefixFacts DEF OpenSeam
  <2>2. m' \in Machine /\ m'.now > m.now /\ m.now < Observed
    BY <2>1, AdmitFalls
  <2> QED
    BY <1>0, <2>2, TimeFalls DEF Machine
<1> QED
  BY <1>1, <1>2, <1>3, <1>4 DEF OnGate

\* run_seam: a foreign return is let through with a bypass, its own one ends it.
LEMMA InSeamFalls ==
    ASSUME IInv, InSeam
    PROVE  Rank' < Rank
<1> USE DEF IInv
<1>0. /\ m \in Machine /\ m.now \in Nat /\ Observed \in Nat /\ before.tick \in Nat
      /\ py \in {"onResume", "running"} /\ py \in Busy
      /\ phase # "idle" /\ UNCHANGED <<frame, phase>> /\ before.tick <= m.now
  BY Instants DEF TypeOK, InSeam, ForeignReturn, SeamMismatch, AdmitSuffix, SuffixFallback,
                  SeamDeadline, OwnReturn, PhaseInv, run, LoopInv, Busy
<1>1. CASE ForeignReturn
  <2>1. Standoff = 4 /\ Standoff' = 3 /\ m' = m
    BY <1>1 DEF ForeignReturn, BypassOnce, Standoff
  <2>2. Standoff' < Standoff
    BY <2>1
  <2> QED
    BY <1>0, <2>1, <2>2, StandoffFalls
<1>2. CASE SeamMismatch
  <2>1. Standoff = 4 /\ Standoff' = 0 /\ m' = m
    BY <1>2 DEF SeamMismatch, OwnReturn, Standoff
  <2>2. Standoff' < Standoff
    BY <2>1
  <2> QED
    BY <1>0, <2>1, <2>2, StandoffFalls
<1>3. CASE AdmitSuffix
  <2>1. region \in DOMAIN Seams
    BY <1>3 DEF AdmitSuffix, OwnReturn, SeamInv
  <2>2. Seams[region].suffix \in Plan /\ Admit(Seams[region].suffix) /\ Rejoin(m')
    BY <1>0, <1>3, <2>1, PrefixFacts DEF AdmitSuffix
  <2>3. m' \in Machine /\ m'.now > m.now
    BY <2>2, AdmitFalls
  <2>4. m'.now > before.tick /\ m.now <= m'.now
    BY <1>0, <2>3 DEF Machine
  <2> QED
    BY <1>0, <2>2, <2>3, <2>4, RejoinFalls
<1>4. CASE SuffixFallback
  <2>1. Standoff = 4 /\ Standoff' = 2 /\ m' = m
    BY <1>4 DEF SuffixFallback, OwnReturn, Standoff
  <2>2. Standoff' < Standoff
    BY <2>1
  <2> QED
    BY <1>0, <2>1, <2>2, StandoffFalls
<1>5. CASE SeamDeadline
  <2>1. m' = m /\ ~(m.now < Observed) /\ Rejoin(m')
    BY <1>0, <1>5 DEF SeamDeadline, Deadline
  <2>2. m'.now > before.tick
    <3>1. before.tick < Target /\ Target \in Nat /\ Target <= Observed
      BY <1>0, Instants DEF LoopInv
    <3> QED
      BY <1>0, <2>1, <3>1
  <2>3. m.now <= m'.now /\ m' \in Machine
    BY <1>0, <2>1
  <2> QED
    BY <1>0, <2>1, <2>2, <2>3, RejoinFalls
<1> QED
  BY <1>1, <1>2, <1>3, <1>4, <1>5 DEF InSeam
----
LEMMA ClockForward ==
    ASSUME IInv, [Next]_vars
    PROVE  m' \in Machine /\ m'.now >= m.now
<1> USE DEF IInv
<1>0. m \in Machine /\ m.now \in Nat
  BY Instants DEF TypeOK
<1>1. m' \in Machine
  BY NextIInv DEF TypeOK
<1>2. CASE m' = m
  BY <1>0, <1>2
<1>3. CASE ReachWrap
  BY <1>0, <1>1, <1>3 DEF ReachWrap, Machine
<1>4. CASE RunYield \/ RunInstruction
  <2>1. Boundary(m) \in Machine /\ Boundary(m).now = m.now
    BY <1>0, BoundaryFacts
  <2> QED
    BY <1>0, <1>1, <1>4, <2>1, ExecuteFacts DEF RunYield, RunInstruction, Machine
<1>5. CASE RetireOne
  <2>1. Boundary(m) = m /\ bypass
    BY <1>5 DEF GateInv, RetireOne
  <2> QED
    BY <1>0, <1>1, <1>5, <2>1, ExecuteFacts DEF RetireOne, Machine
<1>6. CASE AdmitPlan
  BY <1>0, <1>1, <1>6, AdmitFalls, RunAssumption DEF AdmitPlan, Machine
<1>7. CASE OpenSeam
  BY <1>0, <1>1, <1>7, AdmitFalls, PrefixFacts DEF OpenSeam, Machine
<1>8. CASE AdmitSuffix
  <2>1. region \in DOMAIN Seams
    BY <1>8 DEF AdmitSuffix, OwnReturn, SeamInv
  <2> QED
    BY <1>0, <1>1, <1>8, <2>1, AdmitFalls, PrefixFacts DEF AdmitSuffix, Machine
<1>9. CASE UNCHANGED vars \/ Resume \/ RunLimit \/ ReachObserved \/ Fallback \/ ForeignReturn
           \/ SeamMismatch \/ SuffixFallback \/ SeamDeadline \/ \E b \in Masks : BeginStep(b)
  <2>1. m' = m
    BY <1>9 DEF vars, Resume, RunLimit, ReachObserved, Fallback, ForeignReturn, SeamMismatch,
                SuffixFallback, SeamDeadline, BeginStep
  <2> QED
    BY <1>2, <2>1
<1> QED
  BY <1>3, <1>4, <1>5, <1>6, <1>7, <1>8, <1>9
     DEF Next, InStep, Running, OnGate, InSeam

LEMMA NextNear ==
    ASSUME IInv, Near, [Next]_vars
    PROVE  Near'
<1>1. /\ m.now \in Nat /\ m'.now \in Nat /\ m.now <= m'.now
      /\ frame \in Nat /\ FrameTicks \in Nat /\ ObservationOffset \in Nat
  BY ClockForward, MachineAssumption, RunAssumption DEF IInv, TypeOK, Machine
<1>2. CASE frame' = frame
  <2>1. Observed' = Observed /\ Observed \in Nat
    BY <1>2, Instants DEF Observed, Wrap, IInv
  <2> QED
    BY <1>1, <2>1 DEF Near
<1>3. CASE frame' # frame
  <2>1. ReachObserved
    BY <1>3 DEF Next, InStep, Running, OnGate, InSeam, Resume, RunYield, RunInstruction,
                RunLimit, Fallback, RetireOne, AdmitPlan, OpenSeam, ForeignReturn, SeamMismatch,
                AdmitSuffix, SuffixFallback, SeamDeadline, ReachWrap, BeginStep, run, vars
  <2>2. m' = m /\ frame' = frame + 1 /\ m.now >= Observed
    BY <2>1 DEF ReachObserved
  <2>3. \A f \in Nat, t \in Nat : (f + 1) * t = f * t + t
    OBVIOUS
  <2>4. (frame + 1) * FrameTicks = frame * FrameTicks + FrameTicks
        /\ frame * FrameTicks \in Nat
    BY <1>1, <2>3
  <2>5. Observed' = Observed + FrameTicks /\ Observed \in Nat
    BY <1>1, <2>2, <2>4 DEF Observed, Wrap
  <2> QED
    BY <1>1, <2>2, <2>5 DEF Near
<1> QED
  BY <1>2, <1>3

LEMMA InitNear == Init => Near
  BY PowerOnType, MachineAssumption, RunAssumption DEF Init, Near, Observed, Wrap

\* GenesisRun.step cannot run for ever, however many regions are armed, refused,
\* interrupted or cut short: every move of step, _run_to, the dispatcher, the seam and the
\* executor takes it nearer to its return.  In particular no gate stops the machine
\* twice at one place without an instruction between, and no fallback is a loop.
THEOREM RunStepFalls == Spec => [][InStep => Rank' < Rank]_vars
<1>1. IInv /\ [Next]_vars => [InStep => Rank' < Rank]_vars
  BY LoopFalls, RunningFalls, OnGateFalls, InSeamFalls DEF InStep, Running
<1> QED
  BY <1>1, RunInvariant, PTL DEF Spec

\* Nor can it take longer than one frame's ticks allow: whatever happened in the frames
\* before, a step begins within MaxRank moves of its end.
THEOREM RunStepBounded == Spec => [](Rank \in 0..MaxRank)
<1> DEFINE Bounded == IInv /\ Near
<1>1. Init => Bounded
  BY InitIInv, InitNear
<1>2. Bounded /\ [Next]_vars => Bounded'
  BY NextIInv, NextNear
<1>3. Bounded => Rank \in 0..MaxRank
  <2> SUFFICES ASSUME Bounded PROVE Rank \in 0..MaxRank
    OBVIOUS
  <2>1. Ahead \in Nat /\ Ahead <= FrameTicks /\ Standoff \in 0..6 /\ PadDue \in {0, 8}
        /\ FrameTicks \in Nat
    BY AheadRange, StandoffRange, MachineAssumption DEF IInv
  <2>2. \A a \in Nat, t \in Nat, w \in {0, 8}, s \in 0..6 :
            a <= t => 0 \in 0..(16 * t + 14) /\ 16 * a + w + s \in 0..(16 * t + 14)
    OBVIOUS
  <2> QED
    BY <2>1, <2>2 DEF Rank, MaxRank
<1> HIDE DEF Bounded
<1> QED
  BY <1>1, <1>2, <1>3, PTL DEF Spec
====
