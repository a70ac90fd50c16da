---- MODULE CanonicalRun ----
(***************************************************************************)
(* What a canonical history means (docs/common/history-and-replay.md): the *)
(* original machine, frame by frame, with the mask of interval n set at    *)
(* the first instruction boundary at or after n * FrameTicks, observed at  *)
(* the first boundary at or after the observation instant.  No gate, no    *)
(* recovered code.                                                         *)
(***************************************************************************)
EXTENDS GenesisMachine

CONSTANTS ObservationOffset, MaxFrames

VARIABLES frame,      \* completed frames
          snapshot    \* the machine at the last observation instant

canonical == <<frame, snapshot>>

Init == frame = 0 /\ snapshot = PowerOn

Step(mask) ==
    LET wrap == frame * FrameTicks
        held == [RunOriginal(snapshot, wrap) EXCEPT !.pad = mask]
    IN  /\ frame < MaxFrames
        /\ snapshot' = RunOriginal(held, wrap + ObservationOffset)
        /\ frame' = frame + 1

Next == \E mask \in Masks : Step(mask)

Spec == Init /\ [][Next]_canonical
====
