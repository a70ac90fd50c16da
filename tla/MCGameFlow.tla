---- MODULE MCGameFlow ----
(***************************************************************************)
(* A level sequence with every kind of entry, level 0xC and a level with   *)
(* no recovered init, and three demos: level 1, which its title ends, a    *)
(* level with a story that is played, and the last, which is not reached.  *)
(* Lives and continues are the code's 5, 3, 2 and 3, 1, 0, scaled down.    *)
(***************************************************************************)
EXTENDS GameFlow, TLC

Entry(op, to) == [op |-> op, level |-> to]
TheStream == <<Entry("take", 2), Entry("bonus", 3), Entry("alternate", 12),
               Entry("take", 8), Entry("ending", 0)>>
TheDemos == <<1, 3, 2>>
TheLives == 1 :> 2 @@ 2 :> 1
TheContinues == 1 :> 1 @@ 2 :> 0
====
