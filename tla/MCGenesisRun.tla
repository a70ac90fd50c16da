---- MODULE MCGenesisRun ----
(***************************************************************************)
(* A loop of twelve instructions against a frame of 31 ticks, so the wrap, *)
(* the interrupt and the observation instant fall everywhere in it: a      *)
(* plain region at 30, a seam at 60 whose platform operation (80, 90)      *)
(* smashes the frame under a held button, and a handler that passes the    *)
(* seam's resume (100) on its own stack.                                   *)
(***************************************************************************)
EXTENDS GenesisRun, TLC

I(pc, sp, cycles, effect) ==
    [pc |-> pc, sp |-> sp, cycles |-> cycles, effect |-> effect]

TheMain == << I(10, 9, 1, "work"), I(20, 9, 1, "read"),
              I(30, 9, 1, "work"), I(40, 9, 2, "work"), I(50, 9, 1, "work"),
              I(60, 9, 1, "push"), I(70, 9, 1, "work"),
              I(80, 8, 1, "work"), I(90, 8, 2, "smash"),
              I(100, 9, 1, "work"), I(110, 9, 1, "pop"),
              I(120, 9, 1, "work") >>

TheHandler == << I(200, 7, 1, "work"), I(100, 7, 1, "read"), I(210, 7, 1, "work") >>

P(cycles, to, slot) == [cycles |-> cycles, to |-> to, frame |-> slot]
ThePlans == 30 :> P(4, 6, "kept")
TheSeams == 60 :> [prefix |-> P(2, 8, "intact"), resume |-> 100, basis |-> 9,
                   suffix |-> P(2, 12, "kept")]

\* What the proof of ImplementsCanonical asks of the regions holds of these.
ASSUME TheRegionsAreRight == RegionsRight
====
