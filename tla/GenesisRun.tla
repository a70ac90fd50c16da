---- MODULE GenesisRun ----
(***************************************************************************)
(* GenesisRun.step (genesis_re/history_runtime.py) with a candidate armed: *)
(* the adapter's gates, admission and bypass (native/machine.cpp), the     *)
(* dispatcher (gods_sega/recovery.py, Candidate) and the seam              *)
(* (genesis_re/seam.py).  Recovered code replaces spans of the original's  *)
(* instructions; the module says how it is let in and how the original     *)
(* takes over when it is not.                                              *)
(*                                                                         *)
(* A plan (seam.AtomicPlan) is data: the cost, where the original would    *)
(* stand after the region and what it leaves in the stack frame.  It knows *)
(* nothing of interrupts, the pad or the instants of the frame; whether it *)
(* is right about its own instructions is for the comparison to find out.  *)
(***************************************************************************)
EXTENDS GenesisMachine

CONSTANTS ObservationOffset,  \* game.observation_offset_ticks
          Plans,              \* gate pc -> the plan of a plain region
          Seams,              \* gate pc -> [prefix, resume, basis, suffix]
          MaxFrames           \* bound: frames stepped in one behaviour

Armed == DOMAIN Plans \cup DOMAIN Seams
NoGate == -1     \* 0xffffffff: no address of the bus

Plan == [cycles : Nat \ {0}, to : 1..Len(Main), frame : {"intact", "kept"}]
\* A seam's prefix saves the frame whose words the guards watch.
Prefix == {p \in Plan : p.frame = "intact"}
Seam == [prefix : Prefix, resume : Nat, basis : Nat, suffix : Plan]

ASSUME RunAssumption ==
    /\ ObservationOffset \in 1..(FrameTicks - 1) /\ MaxFrames \in Nat
    /\ DOMAIN Plans \subseteq Nat /\ DOMAIN Seams \subseteq Nat
    /\ \A p \in DOMAIN Plans : Plans[p] \in Plan
    /\ \A p \in DOMAIN Seams : Seams[p] \in Seam

VARIABLES m,         \* the machine
          gate, gates, bypass, yielded,   \* Executor (native/machine.cpp)
          inSeam,    \* machine.in_seam
          frame, buttons, snapshot,       \* GenesisRun; snapshot: last observed
          phase,     \* of step: "idle", "toWrap", "toObserved"
          mask,      \* step's argument while it runs
          py,        \* where the Python side stands
          region,    \* the gate whose seam is open, or NoGate
          guarded,   \* the stack word read after the prefix
          before,    \* _run_to: tick and pc before the run
          parked     \* _run_to's counter

executor == <<gate, gates, bypass, yielded>>
run == <<frame, buttons, snapshot, phase, mask>>
seam == <<inSeam, region, guarded>>
loop == <<before, parked>>
vars == <<m, executor, run, seam, py, loop>>

MaxParked == 8
Standing(s) == [tick |-> s.now, pc |-> Current(s).pc]

Init == /\ m = PowerOn
        /\ gate = NoGate /\ gates = Armed /\ bypass = FALSE /\ yielded = FALSE
        /\ inSeam = FALSE /\ region = NoGate /\ guarded = "intact"
        /\ frame = 0 /\ buttons = 0 /\ snapshot = PowerOn
        /\ phase = "idle" /\ mask = 0 /\ py = "idle"
        /\ before = Standing(PowerOn) /\ parked = 0

Wrap == frame * FrameTicks
Observed == Wrap + ObservationOffset
Target == IF phase = "toWrap" THEN Wrap ELSE Observed
Deadline == Observed

\* al_gates and al_gate: each resets what the other left.
SetGates(set) == gates' = set /\ gate' = NoGate /\ bypass' = FALSE
\* Slip: the gate is set but the bypass is not armed.
BypassUnarmed(pc) == gate' = pc /\ bypass' = FALSE /\ UNCHANGED gates
BypassOnce(pc) == gate' = pc /\ bypass' = TRUE /\ UNCHANGED gates
AtGate(s) == Current(s).pc \in gates \cup {gate}
----
(* step, from the caller's side.                                           *)

BeginStep(b) ==
    /\ phase = "idle" /\ frame < MaxFrames
    /\ phase' = "toWrap" /\ mask' = b /\ py' = "loop"
    /\ parked' = 0
    /\ UNCHANGED <<m, executor, frame, buttons, snapshot, seam, before>>

\* The head of _run_to's loop: below the target the machine runs.
Resume ==
    /\ py = "loop" /\ m.now < Target
    /\ before' = Standing(m) /\ yielded' = FALSE /\ py' = "running"
    /\ UNCHANGED <<m, gate, gates, bypass, run, seam, parked>>

\* Past the wrap: the pad changes hands (only when it differs).
ReachWrap ==
    /\ py = "loop" /\ phase = "toWrap" /\ m.now >= Wrap
    /\ IF mask # buttons
       THEN m' = [m EXCEPT !.pad = mask] /\ buttons' = mask
       ELSE UNCHANGED <<m, buttons>>
    /\ phase' = "toObserved" /\ parked' = 0
    /\ UNCHANGED <<executor, frame, snapshot, mask, seam, py, before>>

\* Past the observation instant: the frame is complete and is observed.
ReachObserved ==
    /\ py = "loop" /\ phase = "toObserved" /\ m.now >= Observed
    /\ snapshot' = m /\ frame' = frame + 1
    /\ phase' = "idle" /\ mask' = 0 /\ py' = "idle"
    /\ UNCHANGED <<m, executor, buttons, seam, loop>>

\* The tail of the loop body, for the state s the machine is left in: no
\* progress, or too long parked on one tick, raises.
Rejoin(s) ==
    /\ parked' = IF s.now <= before.tick THEN parked + 1 ELSE 0
    /\ py' = IF Standing(s) = before \/ parked' > MaxParked
             THEN "raised" ELSE "loop"
    /\ UNCHANGED before
----
(* al_run: engine.run_until_master, one instruction boundary at a time.    *)

RunTarget == IF inSeam THEN Deadline ELSE Target

RunYield ==
    /\ py = "running" /\ m.now < RunTarget
    /\ AtGate(Boundary(m)) /\ ~bypass
    /\ m' = Boundary(m) /\ yielded' = TRUE
    /\ py' = IF inSeam THEN "onResume" ELSE "onGate"
    /\ UNCHANGED <<gate, gates, bypass, run, seam, loop>>

RunInstruction ==
    /\ py = "running" /\ m.now < RunTarget
    /\ AtGate(Boundary(m)) => bypass
    /\ m' = Execute(Boundary(m))
    /\ bypass' = (bypass /\ ~AtGate(Boundary(m)))
    /\ UNCHANGED <<gate, gates, yielded, run, seam, py, loop>>

RunLimit ==
    /\ py = "running" /\ m.now >= RunTarget /\ ~inSeam
    /\ Rejoin(m)
    /\ UNCHANGED <<m, executor, run, seam>>
----
(* al_atomic: a plan is admitted whole or not at all.  The caller's        *)
(* deadline and the engine's interrupt bound it; the engine may decline    *)
(* for reasons of its own (DMA, raster, the Z80's bank), and a planner may *)
(* find the state outside its domain, so a refusal is always possible.     *)

Applied(p) == [m EXCEPT !.now = @ + p.cycles * Divider, !.at = p.to,
                        !.frame = IF p.frame = "intact" THEN "intact" ELSE @]

\* Slip: the span's cost is not held against the caller's deadline.
AnyDeadline(p) == p.cycles > 0
BeforeDeadline(p) == p.cycles < (Deadline - m.now) \div Divider
NoInterruptIn(p) == m.now + p.cycles * Divider <= m.irqs * FrameTicks + VBlankOffset

Admit(p) == /\ m.isr = 0 /\ BeforeDeadline(p) /\ NoInterruptIn(p)
            /\ m' = Applied(p) /\ yielded' = FALSE
----
(* Candidate.on_gate and run_seam.                                         *)

\* A gate without a planner, an unsupported state or a refused plan: the
\* original retires one instruction and the gate stands again.
Fallback ==
    /\ py = "onGate"
    /\ BypassOnce(Current(m).pc)
    /\ py' = "retireOne"
    /\ UNCHANGED <<m, yielded, run, seam, loop>>

RetireOne ==
    /\ py = "retireOne"
    /\ IF AtGate(Boundary(m)) /\ ~bypass
       THEN m' = Boundary(m) /\ yielded' = TRUE
       ELSE m' = Execute(Boundary(m)) /\ yielded' = FALSE
    /\ bypass' = (bypass /\ ~AtGate(Boundary(m)))
    /\ Rejoin(m')
    /\ UNCHANGED <<gate, gates, run, seam>>

AdmitPlan ==
    /\ py = "onGate" /\ Current(m).pc \in DOMAIN Plans
    /\ Admit(Plans[Current(m).pc])
    /\ Rejoin(m')
    /\ UNCHANGED <<gate, gates, bypass, run, seam>>

\* Slip: the open seam is filed under its resume, not its entry.
OpenSeamByResume ==
    /\ py = "onGate" /\ Current(m).pc \in DOMAIN Seams
    /\ Admit(Seams[Current(m).pc].prefix)
    /\ SetGates({Seams[Current(m).pc].resume})
    /\ region' = Seams[Current(m).pc].resume
    /\ inSeam' = TRUE /\ guarded' = m'.frame
    /\ py' = "running"
    /\ UNCHANGED <<run, loop>>

\* The prefix is committed, then only the resume is gated.
OpenSeam ==
    /\ py = "onGate" /\ Current(m).pc \in DOMAIN Seams
    /\ Admit(Seams[Current(m).pc].prefix)
    /\ SetGates({Seams[Current(m).pc].resume})
    /\ region' = Current(m).pc /\ inSeam' = TRUE /\ guarded' = m'.frame
    /\ py' = "running"
    /\ UNCHANGED <<run, loop>>

CloseSeam == inSeam' = FALSE /\ region' = NoGate /\ guarded' = "intact"

\* Slip: the foreign stop is counted but the gate is not lifted for it.
ForeignReturnGated ==
    /\ py = "onResume" /\ Current(m).sp # Seams[region].basis
    /\ yielded' = FALSE /\ py' = "running"
    /\ UNCHANGED <<m, gate, gates, bypass, run, seam, loop>>

\* Another activation at the resume: let it through once.
ForeignReturn ==
    /\ py = "onResume" /\ Current(m).sp # Seams[region].basis
    /\ BypassOnce(Seams[region].resume)
    /\ yielded' = FALSE /\ py' = "running"
    /\ UNCHANGED <<m, run, seam, loop>>

OwnReturn == py = "onResume" /\ Current(m).sp = Seams[region].basis

\* A guarded word changed under the operation: not a fallback, it raises.
SeamMismatch ==
    /\ OwnReturn /\ m.frame # guarded
    /\ CloseSeam /\ SetGates(Armed)
    /\ py' = "raised"
    /\ UNCHANGED <<m, yielded, run, loop>>

AdmitSuffix ==
    /\ OwnReturn /\ m.frame = guarded
    /\ Admit(Seams[region].suffix)
    /\ CloseSeam /\ SetGates(Armed)
    /\ Rejoin(m')
    /\ UNCHANGED run

\* A declined or refused suffix: the original runs it from the resume.
SuffixFallback ==
    /\ OwnReturn /\ m.frame = guarded
    /\ CloseSeam
    /\ gates' = Armed /\ gate' = Seams[region].resume /\ bypass' = TRUE
    /\ py' = "retireOne"
    /\ UNCHANGED <<m, yielded, run, loop>>

\* Slip: the entries are armed again only on the paths that reach the resume.
SeamDeadlineUngated ==
    /\ py = "running" /\ inSeam /\ m.now >= Deadline
    /\ CloseSeam
    /\ Rejoin(m)
    /\ UNCHANGED <<m, executor, run>>

\* The instant fell inside the platform operation: the prefix stands.
SeamDeadline ==
    /\ py = "running" /\ inSeam /\ m.now >= Deadline
    /\ CloseSeam /\ SetGates(Armed)
    /\ Rejoin(m)
    /\ UNCHANGED <<m, yielded, run>>
----
Running == Resume \/ RunYield \/ RunInstruction \/ RunLimit
OnGate == Fallback \/ RetireOne \/ AdmitPlan \/ OpenSeam
InSeam == ForeignReturn \/ SeamMismatch \/ AdmitSuffix \/ SuffixFallback \/ SeamDeadline
InStep == Running \/ OnGate \/ InSeam \/ ReachWrap \/ ReachObserved
Next == InStep \/ \E b \in Masks : BeginStep(b)

\* step is synchronous: once called it runs until it returns or raises.
Spec == Init /\ [][Next]_vars /\ WF_vars(InStep)
----
TypeOK ==
    /\ m \in Machine /\ snapshot \in Machine
    /\ gate \in Nat \cup {NoGate} /\ gates \subseteq Nat
    /\ bypass \in BOOLEAN /\ yielded \in BOOLEAN /\ inSeam \in BOOLEAN
    /\ frame \in 0..MaxFrames /\ buttons \in Masks
    /\ phase \in {"idle", "toWrap", "toObserved"} /\ mask \in Masks
    /\ py \in {"idle", "loop", "running", "onGate", "onResume", "retireOne", "raised"}
    /\ region \in DOMAIN Seams \cup {NoGate}
    /\ guarded \in {"intact", "smashed"}
    /\ before \in [tick : Nat, pc : Nat] /\ parked \in 0..(MaxParked + 1)

\* Whatever regions are armed, refused, straddle the wrap or are cut by the
\* observation instant, every completed frame is observed in the state the
\* original alone would have been in.
Canonical == INSTANCE CanonicalRun
ImplementsCanonical == Canonical!Spec

\* What a region has to be for that: the comparison finds out whether it is.

\* A plan stands for the instructions from at on: it ends where they end, costs what
\* they cost, leaves the frame as they do, and none of them reads the pad.
Restates(plan, at, effects) ==
    LET span == at..(plan.to - 1)
    IN  /\ at < plan.to
        /\ \A i \in span : Main[i].effect \in effects
        /\ plan.frame = "intact" <=> \E i \in span : Main[i].effect = "push"
        /\ \E spent \in [at..plan.to -> 0..plan.cycles] :
               /\ spent[at] = 0 /\ spent[plan.to] = plan.cycles
               /\ \A i \in span : spent[i + 1] = spent[i] + Main[i].cycles

\* A suffix may return through the frame, which the guards have vouched for.
PlansRestate ==
    \A at \in 1..Len(Main) :
        /\ Main[at].pc \in DOMAIN Plans =>
               Restates(Plans[Main[at].pc], at, {"work", "push"})
        /\ Main[at].pc \in DOMAIN Seams =>
               Restates(Seams[Main[at].pc].prefix, at, {"work", "push"})
        /\ \A r \in DOMAIN Seams :
               Main[at].pc = Seams[r].resume /\ Main[at].sp = Seams[r].basis =>
                   Restates(Seams[r].suffix, at, {"work", "push", "pop"})

\* From the end of the prefix the platform operation runs on to the resume of its
\* own activation; it reads no pad and does not return through the frame.
Returns(s, back) ==
    /\ Main[back].pc = s.resume /\ Main[back].sp = s.basis
    /\ \A i \in s.prefix.to..(back - 1) : Main[i].effect \notin {"read", "pop"}
PlatformReturns ==
    \A r \in DOMAIN Seams :
        \E back \in Seams[r].prefix.to..Len(Main) : Returns(Seams[r], back)

\* The handler reads the pad before the wrap and is done before the next interrupt:
\* late bounds, in cycles after the interrupt's instant, when its k-th instruction
\* starts, the first one as late as the longest instruction makes it.
HandlerPrompt(late) ==
    /\ \A at \in 1..Len(Main) : Main[at].cycles <= late[1]
    /\ \A k \in 1..(Len(Handler) - 1) : late[k] + Handler[k].cycles <= late[k + 1]
    /\ (late[Len(Handler)] + Handler[Len(Handler)].cycles) * Divider <= FrameTicks
    /\ \A k \in 1..Len(Handler) :
           Handler[k].effect = "read" => VBlankOffset + late[k] * Divider <= FrameTicks

RegionsRight ==
    /\ ObservationOffset <= VBlankOffset
    /\ PlansRestate /\ PlatformReturns
    /\ \E late \in [1..Len(Handler) -> 0..(FrameTicks \div Divider)] : HandlerPrompt(late)

\* A completed step can be cached: no bypass is armed (al_export would refuse),
\* no seam is open (safe_state would refuse) and every entry is gated again.
SnapshotSafe ==
    phase = "idle" => ~bypass /\ ~inSeam /\ gates = Armed /\ py = "idle"

\* The dispatcher never parks the machine: the only way a step fails is a frame
\* changed under a platform operation.
RaisesOnlyOnMismatch == py = "raised" => m.frame = "smashed"

\* A step that has begun completes (or raises).
StepCompletes == phase = "toWrap" ~> (phase = "idle" \/ py = "raised")
====
