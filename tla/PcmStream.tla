---- MODULE PcmStream ----
(***************************************************************************)
(* What the host audio path promises, without the buffer that provides it: *)
(* PCM frames are numbered in the order the emulator produced them; the    *)
(* listener hears them in that order, each at most once, and only a flush  *)
(* skips any.                                                              *)
(***************************************************************************)
EXTENDS Naturals

CONSTANT Capacity     \* frames that may be accepted and not yet heard

VARIABLES accepted,   \* frames 1..accepted have been handed over
          consumed    \* frames 1..consumed have been heard or flushed

stream == <<accepted, consumed>>

Init == accepted = 0 /\ consumed = 0

\* The emulator hands over k more frames; it is never allowed past Capacity.
Accept(k) == /\ accepted + k - consumed <= Capacity
             /\ accepted' = accepted + k
             /\ UNCHANGED consumed

\* The device plays the next k frames.
Play(k) == /\ consumed + k <= accepted
           /\ consumed' = consumed + k
           /\ UNCHANGED accepted

\* Everything not yet heard is dropped.
Flush == consumed' = accepted /\ UNCHANGED accepted

Next == Flush \/ \E k \in 1..Capacity : Accept(k) \/ Play(k)

Spec == Init /\ [][Next]_stream
====
