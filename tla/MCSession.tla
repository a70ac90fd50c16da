---- MODULE MCSession ----
(***************************************************************************)
(* Instances of Session: one player who may be killed anywhere, and two    *)
(* who share a store.                                                      *)
(***************************************************************************)
EXTENDS Session

CONSTANTS p1, p2

\* Pressing after a rest faults, and so does resting on after a release.
TheFails == {<<0, 1>>, <<1, 0, 0>>}
Symmetry == Permutations(Players)
====
