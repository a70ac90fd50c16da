---- MODULE MCAladdinObjects ----
(***************************************************************************)
(* Two records in the main pool, one in the extra pool, one cell, two tile *)
(* slots.  One level moves records, one restores flags in place and        *)
(* overwrites slot 1, one has riders of scripts, one a linked pair, one    *)
(* shows messages; the camera moves in the last.                           *)
(***************************************************************************)
EXTENDS AladdinObjects, TLC

ThePools == [up |-> <<1, 2>>, down |-> <<2, 1>>, middle |-> <<2>>, extra |-> <<3>>]

Level(links, throws, rearms, overwrites, speaks, locked, sites) ==
    [links |-> links, throws |-> throws, rearms |-> rearms, overwrites |-> overwrites,
     speaks |-> speaks, locked |-> locked, sites |-> sites]
Site(pair, kept) == [c \in Cells |-> [pair |-> pair, kept |-> kept, owns |-> TRUE]]
TheLevels == {Level(FALSE, TRUE, FALSE, FALSE, FALSE, TRUE, Site(FALSE, FALSE)),
              Level(FALSE, FALSE, TRUE, TRUE, FALSE, TRUE, Site(FALSE, FALSE)),
              Level(TRUE, FALSE, FALSE, FALSE, FALSE, TRUE, <<>>),
              Level(FALSE, FALSE, FALSE, FALSE, FALSE, TRUE, Site(TRUE, TRUE)),
              Level(FALSE, FALSE, FALSE, FALSE, TRUE, FALSE, <<>>)}
====
