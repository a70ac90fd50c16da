---- MODULE LineWalker ----
(***************************************************************************)
(* gods_sega/game/walker.py: the stepper of straight lines, one pass of    *)
(* its loop bodies at a time.  A walk is the content of a walker record;   *)
(* the continuation address is what it stands for: the x direction and     *)
(* which axis is stepped every time.  The y step is kept as 1 or -1.       *)
(***************************************************************************)
EXTENDS Integers

CONSTANT SignBit       \* of a word: 2^15

ASSUME WordAssumption == SignBit \in Nat /\ SignBit > 1

Word == 2 * SignBit
Words == 0..(Word - 1)

Negative(v) == v >= SignBit
Signed(v) == IF Negative(v) THEN v - Word ELSE v

Copies == {"object", "projectile"}
Points == [x : Words, y : Words]
Walks == [toward : {-1, 1}, slope : {"shallow", "steep"}, x : Words, y : Words,
          ySign : {-1, 1}, dx : Words, dy : Words, error : Words, counter : Words]

Major(w) == IF w.slope = "shallow" THEN w.dx ELSE w.dy
Minor(w) == IF w.slope = "shallow" THEN w.dy ELSE w.dx

\* Where the accumulator starts.
\* Slip: the shift is missing, so the line is cut to the lower cell.
Unhalved(major) == major
Halved(major) == major \div 2

\* walker.start: the walk from p toward q, before any step.
Start(p, q) ==
    LET toward == IF Signed(p.x) > Signed(q.x) THEN -1 ELSE 1
        dx == (toward * (q.x - p.x)) % Word
        down == (q.y - p.y) % Word
        ySign == IF Negative(down) THEN -1 ELSE 1
        dy == (ySign * down) % Word
        slope == IF dx < dy THEN "steep" ELSE "shallow"
        major == IF slope = "shallow" THEN dx ELSE dy
    IN  [toward |-> toward, slope |-> slope, x |-> p.x, y |-> p.y, ySign |-> ySign,
         dx |-> dx, dy |-> dy, error |-> Halved(major), counter |-> major]

\* Whether the pass about to be made moves the other axis too.
Drained(w) == (w.error - Minor(w)) % Word
Aside(w) == Negative(Drained(w))

\* A coordinate moved by a word addition.
\* Slip: the sum is not cut to a word.
MovedFreely(v, by) == v + by
Moved(v, by) == (v + by) % Word

\* walker.run, one pass of a loop body.
Stepped(w) ==
    [w EXCEPT !.error = IF Aside(w) THEN (Drained(w) + Major(w)) % Word ELSE Drained(w),
              !.x = IF w.slope = "shallow" \/ Aside(w) THEN Moved(@, w.toward) ELSE @,
              !.y = IF w.slope = "steep" \/ Aside(w) THEN Moved(@, w.ySign) ELSE @]

\* The counter after dbra, and after the subtraction that follows the loop.
\* Slip: the step that ends a call is not counted.
Uncounted(w) == w
CountDown(w) == [w EXCEPT !.counter = (@ - 1) % Word]
Counted(w) == CountDown(w)

\* The projectile copy stores the body toward +x for the steep one toward -x.
Rearmed(w, copy) ==
    IF copy = "projectile" /\ w.slope = "steep" THEN [w EXCEPT !.toward = 1] ELSE w
====
