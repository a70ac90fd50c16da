---- MODULE GodsWalks ----
(***************************************************************************)
(* A walker record in the hands of its owner: a solid, which the animation *)
(* step (gods_sega/game/animation.py) moves along its waypoints once a     *)
(* tick, or one slot of the projectile pool (projectiles.py).  Each call   *)
(* has a budget of steps in the shared word; one pass of the loop body is  *)
(* one step here.  The original arms a solid's next waypoint and retires   *)
(* projectiles; neither is recovered.                                      *)
(***************************************************************************)
EXTENDS LineWalker, Sequences

CONSTANTS Room,          \* coordinates of the level
          Waypoints,     \* the definition's table, by slot
          Budgets,       \* FRAME_BUDGET as the definition and the launchers give it
          MaxSteps       \* bound: no walk is resumed after so many (no solid's gets there)

ASSUME WalksAssumption ==
    /\ Room \subseteq 0..(SignBit - 1)
    /\ Waypoints \in Seq([x : Room, y : Room])
    /\ Budgets \subseteq Words \ {0}
    /\ MaxSteps \in Nat /\ MaxSteps > SignBit

Places == [x : Room, y : Room]
NoSlot == -1           \* LIVE_MOVING_FLAG negative
Slots == DOMAIN Waypoints

VARIABLES copy,        \* whose record it is
          state,       \* the owner's: a solid waits, moves or must be started afresh;
                       \* a projectile's slot is free or in flight
          slot,        \* the waypoint the solid moves to
          remaining,   \* REMAINING_WAYPOINTS
          position,    \* the live record's own x and y; where a projectile was launched
          walk, budget,
          looping,     \* inside the loop body
          course       \* history: the ends of the line, the steps made along it, those
                       \* of them that moved the other axis, and how many had when the
                       \* projectile's first call ended (-1 before that)

solid == <<slot, remaining, position>>
vars == <<copy, state, solid, walk, budget, looping, course>>

Line(p, q) == [from |-> p, to |-> q, gone |-> 0, aside |-> 0, bend |-> -1]

Init == /\ copy \in Copies
        /\ state = IF copy = "object" THEN "waiting" ELSE "free"
        /\ slot = NoSlot /\ remaining = 0
        /\ position \in Places
        /\ walk = Start(position, position)
        /\ budget \in Budgets /\ looping = FALSE
        /\ course = Line(position, position)

----------------------------------------------------------------------------
\* The owner.

\* The original gives a solid the slot of its next waypoint and starts the walk there.
Arm(k) ==
    /\ state \in {"waiting", "coldstart"}
    /\ state' = "moving" /\ slot' = k /\ remaining' \in 0..2
    /\ walk' = Start(position, Waypoints[k]) /\ course' = Line(position, Waypoints[k])
    /\ UNCHANGED <<copy, position, budget, looping>>

\* projectiles.launch_toward: the first call follows at once.
Launch(p, q, b) ==
    /\ state = "free" /\ state' = "flying"
    /\ position' = p /\ walk' = Start(p, q) /\ course' = Line(p, q)
    /\ budget' = b /\ looping' = TRUE
    /\ UNCHANGED <<copy, slot, remaining>>

\* animation_step: the budget is refreshed; a moving solid's walk is resumed.  The
\* projectile copy's resume by its driver.
Resume(b) ==
    /\ ~looping
    /\ course.gone < MaxSteps
    /\ budget' = b /\ looping' = (state \in {"moving", "flying"})
    /\ state \in {"waiting", "moving", "flying"}
    /\ UNCHANGED <<copy, state, solid, walk, course>>

\* The original's driver retires a projectile; nothing reads the record of a free slot.
Retire == /\ state = "flying" /\ ~looping
          /\ state' = "free"
          /\ walk' = Start(position, position) /\ course' = Line(position, position)
          /\ UNCHANGED <<copy, solid, budget, looping>>

----------------------------------------------------------------------------
\* walker.run.

Advanced == [course EXCEPT !.gone = @ + 1, !.aside = IF Aside(walk) THEN @ + 1 ELSE @]

\* dbra finds the counter at zero.
RunsOut == copy = "object" /\ walk.counter = 0

\* A pass that neither spends the budget nor runs out.
Pass == /\ looping /\ budget # 1 /\ ~RunsOut
        /\ walk' = IF copy = "object" THEN CountDown(Stepped(walk)) ELSE Stepped(walk)
        /\ budget' = budget - 1 /\ course' = Advanced
        /\ UNCHANGED <<copy, state, solid, looping>>

\* The record as it is written back.
Yielded == Rearmed(Counted(Stepped(walk)), copy)
Exhausted == Counted(CountDown(Stepped(walk)))

\* animation_step after the call: the walk's position, or the waypoint when it has ended.
\* Slip: only the counter dbra leaves is taken for the end.
EndedByDbra(w) == w.counter = Word - 1
Ended(w) == Negative(w.counter)

Settle(w) ==
    IF ~Ended(w)
    THEN position' = [x |-> w.x, y |-> w.y] /\ UNCHANGED <<state, slot>>
    ELSE /\ position' = Waypoints[slot]
         /\ IF remaining <= 1 THEN state' = "coldstart" /\ UNCHANGED slot
                              ELSE state' = "waiting" /\ slot' = NoSlot

\* The pass that ends the call.
Leave == /\ looping /\ (budget = 1 \/ RunsOut)
         /\ walk' = IF budget = 1 THEN Yielded ELSE Exhausted
         /\ budget' = budget - 1 /\ looping' = FALSE
         /\ course' = [Advanced EXCEPT !.bend = IF @ = -1 THEN Advanced.aside ELSE @]
         /\ IF copy = "object" THEN Settle(walk') ELSE UNCHANGED <<state, slot, position>>
         /\ UNCHANGED <<copy, remaining>>

Next == \/ \E k \in Slots : Arm(k)
        \/ \E p, q \in Places, b \in Budgets : Launch(p, q, b)
        \/ \E b \in Budgets : Resume(b)
        \/ Retire \/ Pass \/ Leave

\* A tick calls every solid's animation step, and a call runs until it returns.
Fairness == WF_vars(\E b \in Budgets : copy = "object" /\ Resume(b)) /\ WF_vars(Pass) /\ WF_vars(Leave)

Spec == Init /\ [][Next]_vars /\ Fairness

----------------------------------------------------------------------------
\* Properties.

\* The variables stay in their sets: every word of the record is a word.
TypeOK ==
    /\ copy \in Copies
    /\ state \in IF copy = "object" THEN {"waiting", "moving", "coldstart"} ELSE {"free", "flying"}
    /\ slot \in Slots \cup {NoSlot} /\ remaining \in 0..2 /\ position \in Points
    /\ walk \in Walks /\ budget \in Words /\ looping \in BOOLEAN
    /\ course \in [from : Places, to : Places, gone : Nat, aside : Nat, bend : Nat \cup {-1}]

Distance(a, b) == IF a < b THEN b - a ELSE a - b

\* The moves along x that the steps made come to: a projectile that was steep toward -x
\* turns where its first call ended.
MovesX ==
    LET along == IF walk.slope = "shallow" THEN course.gone ELSE course.aside
    IN  IF course.to.x >= course.from.x THEN along
        ELSE IF copy = "projectile" /\ walk.slope = "steep" /\ course.bend # -1
        THEN course.aside - 2 * course.bend
        ELSE 0 - along
MovesY ==
    (IF walk.slope = "steep" THEN course.gone ELSE course.aside)
        * (IF course.to.y >= course.from.y THEN 1 ELSE -1)

\* However its budgets split the walk, after n steps it stands in the nth column (row, of
\* a steep line) at the cell nearest to the ideal line between the ends it was
\* started with.
OnCourse ==
    LET across == Distance(course.from.x, course.to.x)
        down == Distance(course.from.y, course.to.y)
        long == IF across < down THEN down ELSE across
        short == IF across < down THEN across ELSE down
        off == 2 * (course.aside * long - course.gone * short)
    IN  state \in {"moving", "flying"} =>
            /\ -long <= off /\ off <= long
            /\ walk.x = (course.from.x + MovesX) % Word
            /\ walk.y = (course.from.y + MovesY) % Word

\* A solid is put on its waypoint when its walk stands next to it, never earlier or later:
\* the count kept across the calls is that of the line.
Beside(a, b) == (a - b) % Word \in {0, 1, Word - 1}
WaypointMet ==
    [][state = "moving" /\ state' # "moving" =>
         Beside(walk'.x, position'.x) /\ Beside(walk'.y, position'.y)]_vars

\* A solid that sets out reaches its waypoint.
Arrives == state = "moving" ~> state \in {"waiting", "coldstart"}
====
