---- MODULE MCHistoryVerification ----
(***************************************************************************)
(* Instances of HistoryVerification over a two-frame history.  The first   *)
(* version of the recovered code is right, the second goes wrong at frame  *)
(* 2 and the third reaches no gate.                                        *)
(***************************************************************************)
EXTENDS HistoryVerification

CONSTANTS c1, c2, c3

TheDiverges == 2 :> 2
Option(parallel, refresh, expect) ==
    [parallel |-> parallel, refresh |-> refresh, expect |-> expect]
AllOptions == [parallel : BOOLEAN, refresh : BOOLEAN, expect : {"pass", "divergence"}]
Sequential == {Option(FALSE, FALSE, expect) : expect \in {"pass", "divergence"}}
Plain == {Option(TRUE, FALSE, "pass")}
Symmetry == Permutations(Comparisons)
====
