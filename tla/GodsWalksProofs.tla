---- MODULE GodsWalksProofs ----
(***************************************************************************)
(* Proofs about GodsWalks, for every width of a word, every level and      *)
(* table of waypoints whose coordinates have no sign bit, and every way    *)
(* of splitting a walk into budgets.                                       *)
(***************************************************************************)
EXTENDS GodsWalks, TLAPS

----------------------------------------------------------------------------
\* Words.

LEMMA WordFacts == SignBit \in Nat /\ SignBit > 1 /\ Word \in Nat /\ Word = SignBit + SignBit
  BY WordAssumption DEF Word

\* The value of a sum cut to a word is known from any way of writing it.
LEMMA ModUnique ==
  ASSUME NEW W \in Nat \ {0}, NEW q \in Int, NEW r \in 0..(W - 1), NEW a \in Int, a = W * q + r
  PROVE  a % W = r
  OBVIOUS

LEMMA ModRange == ASSUME NEW a \in Int PROVE a % Word \in Words
  BY WordFacts DEF Words

LEMMA ModSmall == ASSUME NEW a \in Words PROVE a % Word = a
  BY WordFacts DEF Words

\* A difference below zero is brought back by one turn.
LEMMA ModBack == ASSUME NEW a \in Int, a + Word \in Words PROVE a % Word = a + Word
  <1>1. a = Word * (-1) + (a + Word)
    BY WordFacts
  <1> QED BY <1>1, ModUnique, WordFacts DEF Words

\* So is a sum past the last word.
LEMMA ModOver == ASSUME NEW a \in Int, a - Word \in Words PROVE a % Word = a - Word
  <1>1. a = Word * 1 + (a - Word)
    BY WordFacts
  <1> QED BY <1>1, ModUnique, WordFacts DEF Words

\* Word additions may be made one after another.
LEMMA ModAdd ==
  ASSUME NEW a \in Int, NEW b \in Int
  PROVE  ((a % Word) + b) % Word = (a + b) % Word
  <1> DEFINE W == Word
  <1>1. W \in Int /\ W > 0
    BY WordFacts
  <1>2. PICK q \in Int : a = W * q + (a % W)
    <2>1. \A n \in Int : n > 0 => a = n * (a \div n) + (a % n) /\ a \div n \in Int
      BY Z3
    <2> QED BY <2>1, <1>1
  <1>3. PICK p \in Int : (a % W) + b = W * p + (((a % W) + b) % W)
    <2>1. \A n, c \in Int : n > 0 => c = n * (c \div n) + (c % n) /\ c \div n \in Int
      BY Z3
    <2>2. (a % W) + b \in Int
      BY ModRange DEF Words
    <2> QED BY <2>1, <2>2, <1>1
  <1>4. a + b = W * (q + p) + (((a % W) + b) % W)
    <2>1. (a % W) \in Int /\ (((a % W) + b) % W) \in Int
      BY ModRange DEF Words
    <2>2. W * (q + p) = W * q + W * p
      BY <1>1
    <2> HIDE DEF W
    <2> QED BY <1>2, <1>3, <2>1, <2>2, <1>1
  <1>5. ((a % W) + b) % W \in 0..(W - 1)
    BY ModRange DEF Words
  <1>6. W \in Nat \ {0} /\ q + p \in Int /\ a + b \in Int
    BY <1>1
  <1> HIDE DEF W
  <1> DEFINE r == ((a % W) + b) % W
             k == q + p
  <1>7. a + b = W * k + r /\ r \in 0..(W - 1) /\ k \in Int
    BY <1>4, <1>5, <1>6
  <1> HIDE DEF r, k
  <1>8. r = (a + b) % W
    BY <1>6, <1>7, ModUnique
  <1> QED BY <1>8, Zenon DEF W, r

----------------------------------------------------------------------------
\* The line.

Long(c) == IF Distance(c.from.x, c.to.x) < Distance(c.from.y, c.to.y)
           THEN Distance(c.from.y, c.to.y) ELSE Distance(c.from.x, c.to.x)
Short(c) == IF Distance(c.from.x, c.to.x) < Distance(c.from.y, c.to.y)
            THEN Distance(c.from.x, c.to.x) ELSE Distance(c.from.y, c.to.y)

\* The record of a walk keeps what its line gave it.
OfLine(w, c) ==
    /\ w.dx = Distance(c.from.x, c.to.x) /\ w.dy = Distance(c.from.y, c.to.y)
    /\ w.slope = IF Distance(c.from.x, c.to.x) < Distance(c.from.y, c.to.y)
                 THEN "steep" ELSE "shallow"
    /\ w.ySign = IF c.to.y >= c.from.y THEN 1 ELSE -1

\* The accumulator is what the line has gained on the cells, from half a cell on.
Balanced(w, c) ==
    /\ w.error = Long(c) \div 2 - c.gone * Short(c) + c.aside * Long(c)
    /\ 0 <= w.error /\ (w.error < Long(c) \/ w.error = 0)
    /\ c.aside <= c.gone

\* The projectile that turned: steep, toward -x, its first call over.
Turned(w, c, cp) == cp = "projectile" /\ w.slope = "steep" /\ c.bend # -1

\* MovesX and MovesY of any record.
AlongX(w, c, cp) ==
    LET along == IF w.slope = "shallow" THEN c.gone ELSE c.aside
    IN  IF c.to.x >= c.from.x THEN along
        ELSE IF Turned(w, c, cp) THEN c.aside - 2 * c.bend ELSE 0 - along
AlongY(w, c) == (IF w.slope = "steep" THEN c.gone ELSE c.aside)
                    * (IF c.to.y >= c.from.y THEN 1 ELSE -1)

\* Where the walk stands and where it heads.
Placed(w, c, cp) ==
    /\ w.x = (c.from.x + AlongX(w, c, cp)) % Word
    /\ w.y = (c.from.y + AlongY(w, c)) % Word
    /\ w.toward = IF c.to.x >= c.from.x \/ Turned(w, c, cp) THEN 1 ELSE -1

Courses == [from : Places, to : Places, gone : Nat, aside : Nat, bend : Nat \cup {-1}]

Tracks(w, c, cp) == OfLine(w, c) /\ Balanced(w, c) /\ Placed(w, c, cp)

LEMMA PlaceFacts ==
  ASSUME NEW p \in Places
  PROVE  p.x \in 0..(SignBit - 1) /\ p.y \in 0..(SignBit - 1) /\ p \in Points
  <1>1. p.x \in 0..(SignBit - 1) /\ p.y \in 0..(SignBit - 1)
    BY WalksAssumption DEF Places
  <1>2. p.x \in Words /\ p.y \in Words
    BY <1>1, WordFacts DEF Words
  <1>3. p = [x |-> p.x, y |-> p.y]
    BY DEF Places
  <1> QED BY <1>1, <1>2, <1>3 DEF Points

LEMMA LineFacts ==
  ASSUME NEW c \in Courses
  PROVE  /\ Long(c) \in 0..(SignBit - 1) /\ Short(c) \in 0..(SignBit - 1) /\ Short(c) <= Long(c)
         /\ c.gone \in Nat /\ c.aside \in Nat /\ c.bend \in Nat \cup {-1}
         /\ c.from \in Places /\ c.to \in Places
  <1>1. c.from \in Places /\ c.to \in Places /\ c.gone \in Nat /\ c.aside \in Nat
        /\ c.bend \in Nat \cup {-1}
    BY DEF Courses
  <1>2. /\ c.from.x \in 0..(SignBit - 1) /\ c.from.y \in 0..(SignBit - 1)
        /\ c.to.x \in 0..(SignBit - 1) /\ c.to.y \in 0..(SignBit - 1)
    BY <1>1, PlaceFacts
  <1> QED BY <1>1, <1>2, WordFacts DEF Long, Short, Distance

\* Half of a length, without division.
LEMMA HalfFacts ==
  ASSUME NEW n \in Nat
  PROVE  n \div 2 \in Nat /\ 2 * (n \div 2) <= n /\ n <= 2 * (n \div 2) + 1 /\ (n > 0 => n \div 2 < n)
  OBVIOUS

\* A record just started is on its line.
LEMMA StartTracks ==
  ASSUME NEW p \in Places, NEW q \in Places, NEW cp \in Copies
  PROVE  /\ Start(p, q) \in Walks /\ Line(p, q) \in Courses
         /\ Tracks(Start(p, q), Line(p, q), cp)
         /\ Start(p, q).counter = Long(Line(p, q))
  <1> DEFINE w == Start(p, q)
             c == Line(p, q)
             toward == IF Signed(p.x) > Signed(q.x) THEN -1 ELSE 1
             dx == (toward * (q.x - p.x)) % Word
             down == (q.y - p.y) % Word
             ySign == IF Negative(down) THEN -1 ELSE 1
             dy == (ySign * down) % Word
             slope == IF dx < dy THEN "steep" ELSE "shallow"
             major == IF slope = "shallow" THEN dx ELSE dy
  <1>1. /\ p.x \in 0..(SignBit - 1) /\ p.y \in 0..(SignBit - 1)
        /\ q.x \in 0..(SignBit - 1) /\ q.y \in 0..(SignBit - 1)
    BY PlaceFacts
  <1>2. c \in Courses /\ c.from = p /\ c.to = q /\ c.gone = 0 /\ c.aside = 0 /\ c.bend = -1
    BY DEF Line, Courses
  <1>3. toward = (IF q.x >= p.x THEN 1 ELSE -1) /\ toward * (q.x - p.x) = Distance(p.x, q.x)
    <2>1. Signed(p.x) = p.x /\ Signed(q.x) = q.x
      BY <1>1, WordFacts DEF Signed, Negative
    <2> QED BY <2>1, <1>1, WordFacts DEF Distance
  <1>4. dx = Distance(p.x, q.x)
    <2>1. Distance(p.x, q.x) \in Words
      BY <1>1, WordFacts DEF Words, Distance
    <2> QED BY <2>1, <1>3, ModSmall
  <1>5. ySign = (IF q.y >= p.y THEN 1 ELSE -1) /\ dy = Distance(p.y, q.y)
    <2>1. CASE q.y >= p.y
      <3>1. q.y - p.y \in Words /\ q.y - p.y < SignBit
        BY <1>1, <2>1, WordFacts DEF Words
      <3>2. down = q.y - p.y
        BY <3>1, ModSmall
      <3>3. ySign = 1 /\ ySign * down = q.y - p.y
        BY <3>1, <3>2, WordFacts DEF Negative, Words
      <3>4. dy = q.y - p.y
        BY <3>3, <3>1, ModSmall
      <3> QED BY <3>3, <3>4, <2>1, <1>1, WordFacts DEF Distance
    <2>2. CASE q.y < p.y
      <3>1. (q.y - p.y) + Word \in Words /\ (q.y - p.y) + Word >= SignBit /\ q.y - p.y \in Int
        BY <1>1, <2>2, WordFacts DEF Words
      <3>2. down = (q.y - p.y) + Word
        BY <3>1, ModBack
      <3>3. ySign = -1 /\ ySign * down = (p.y - q.y) - Word
        BY <3>1, <3>2, WordFacts, <1>1 DEF Negative, Words
      <3>4. ((p.y - q.y) - Word) + Word \in Words /\ (p.y - q.y) - Word \in Int
        BY <1>1, <2>2, WordFacts DEF Words
      <3>5. dy = ((p.y - q.y) - Word) + Word
        BY <3>3, <3>4, ModBack
      <3> QED BY <3>3, <3>5, <2>2, <1>1, WordFacts DEF Distance
    <2> QED BY <2>1, <2>2, <1>1
  <1>6. major = Long(c) /\ slope = (IF Distance(p.x, q.x) < Distance(p.y, q.y) THEN "steep" ELSE "shallow")
    BY <1>2, <1>4, <1>5 DEF Long
  <1>7. w = [toward |-> toward, slope |-> slope, x |-> p.x, y |-> p.y, ySign |-> ySign,
             dx |-> dx, dy |-> dy, error |-> major \div 2, counter |-> major]
    BY DEF Start, Halved
  <1> HIDE DEF toward, dx, down, ySign, dy, slope, major, w, c
  <1>8. Long(c) \in 0..(SignBit - 1)
    BY <1>2, LineFacts
  <1>9. /\ Long(c) \div 2 \in Words /\ Long(c) \in Words
        /\ Long(c) \div 2 < Long(c) \/ Long(c) \div 2 = 0
        /\ 0 <= Long(c) \div 2
    BY <1>8, HalfFacts, WordFacts DEF Words
  <1>10. w \in Walks
    <2>1. p.x \in Words /\ p.y \in Words
      BY <1>1, WordFacts DEF Words
    <2>2. dx \in Words /\ dy \in Words
      BY <1>1, <1>4, <1>5, WordFacts DEF Words, Distance
    <2>3. toward \in {-1, 1} /\ ySign \in {-1, 1} /\ slope \in {"shallow", "steep"}
      BY <1>3, <1>5, <1>6
    <2> QED BY <2>1, <2>2, <2>3, <1>6, <1>7, <1>9 DEF Walks
  <1>11. OfLine(w, c)
    BY <1>2, <1>4, <1>5, <1>6, <1>7 DEF OfLine
  <1>12. Balanced(w, c)
    <2>1. w.error = Long(c) \div 2
      BY <1>6, <1>7
    <2>2. c.gone * Short(c) = 0 /\ c.aside * Long(c) = 0
      BY <1>2, LineFacts
    <2> QED BY <2>1, <2>2, <1>2, <1>9, <1>8 DEF Balanced, Words
  <1>13. Placed(w, c, cp)
    <2>1. ~Turned(w, c, cp)
      BY <1>2 DEF Turned
    <2>2. AlongX(w, c, cp) = 0
      <3>1. (IF w.slope = "shallow" THEN c.gone ELSE c.aside) = 0
        BY <1>2
      <3>2. 0 - 0 = 0
        OBVIOUS
      <3> QED BY <2>1, <3>1, <3>2 DEF AlongX
    <2>4. AlongY(w, c) = 0
      <3>1. (IF w.slope = "steep" THEN c.gone ELSE c.aside) = 0
        BY <1>2
      <3>2. 0 * (IF c.to.y >= c.from.y THEN 1 ELSE -1) = 0
        OBVIOUS
      <3> QED BY <3>1, <3>2 DEF AlongY
    <2>3. p.x % Word = p.x /\ p.y % Word = p.y /\ p.x + 0 = p.x /\ p.y + 0 = p.y
      BY <1>1, ModSmall, WordFacts DEF Words
    <2> QED BY <1>2, <1>3, <1>7, <2>1, <2>2, <2>3, <2>4 DEF Placed
  <1>14. w.counter = Long(c)
    BY <1>6, <1>7
  <1> QED BY <1>2, <1>10, <1>11, <1>12, <1>13, <1>14 DEF Tracks, w, c

----------------------------------------------------------------------------
\* One pass of a loop body.

Along(w, c) == [c EXCEPT !.gone = @ + 1, !.aside = IF Aside(w) THEN @ + 1 ELSE @]

LEMMA Distributes ==
  ASSUME NEW a \in Int, NEW b \in Int
  PROVE  (a + 1) * b = a * b + b /\ a * b \in Int
  OBVIOUS

\* The axes of the record are those of the line.
LEMMA AxesFacts ==
  ASSUME NEW w \in Walks, NEW c \in Courses, OfLine(w, c)
  PROVE  Major(w) = Long(c) /\ Minor(w) = Short(c)
  BY LineFacts DEF OfLine, Long, Short, Major, Minor

\* The drained accumulator is negative exactly when it has less than the minor axis.
LEMMA DrainFacts ==
  ASSUME NEW w \in Walks, NEW c \in Courses, OfLine(w, c), Balanced(w, c)
  PROVE  /\ Aside(w) <=> w.error < Short(c)
         /\ w.error >= Short(c) => Drained(w) = w.error - Short(c)
         /\ w.error < Short(c) => (Drained(w) + Long(c)) % Word = w.error - Short(c) + Long(c)
  <1> DEFINE e == w.error
             s == Short(c)
             l == Long(c)
  <1>1. /\ e \in Int /\ 0 <= e /\ (e < l \/ e = 0)
        /\ l \in 0..(SignBit - 1) /\ s \in 0..(SignBit - 1) /\ s <= l
    BY LineFacts, WordFacts DEF Balanced, Walks, Words
  <1>2. Drained(w) = (e - s) % Word
    BY AxesFacts DEF Drained
  <1> HIDE DEF e, s, l
  <1>3. CASE e >= s
    <2>1. e - s \in Words /\ e - s < SignBit
      BY <1>1, <1>3, WordFacts DEF Words
    <2>2. Drained(w) = e - s
      BY <1>2, <2>1, ModSmall
    <2>3. ~Aside(w)
      BY <2>1, <2>2, WordFacts DEF Aside, Negative, Words
    <2> QED BY <1>1, <1>3, <2>2, <2>3, WordFacts DEF e, s, l
  <1>4. CASE e < s
    <2>1. (e - s) + Word \in Words /\ (e - s) + Word >= SignBit /\ e - s \in Int
      BY <1>1, <1>4, WordFacts DEF Words
    <2>2. Drained(w) = (e - s) + Word
      BY <1>2, <2>1, ModBack
    <2>3. Aside(w)
      BY <2>1, <2>2, WordFacts DEF Aside, Negative, Words
    <2>4. /\ ((e - s) + Word + l) - Word \in Words /\ (e - s) + Word + l \in Int
          /\ ((e - s) + Word + l) - Word = e - s + l
      BY <1>1, <1>4, WordFacts DEF Words
    <2>5. ((e - s) + Word + l) % Word = e - s + l
      BY <2>4, ModOver
    <2> QED BY <1>1, <1>4, <2>2, <2>3, <2>5, WordFacts DEF e, s, l
  <1> QED BY <1>1, <1>3, <1>4

\* Its fields.
LEMMA SteppedFields ==
  ASSUME NEW w \in Walks
  PROVE  /\ Stepped(w).toward = w.toward /\ Stepped(w).slope = w.slope
         /\ Stepped(w).ySign = w.ySign /\ Stepped(w).dx = w.dx /\ Stepped(w).dy = w.dy
         /\ Stepped(w).counter = w.counter
         /\ Stepped(w).error = IF Aside(w) THEN (Drained(w) + Major(w)) % Word ELSE Drained(w)
         /\ Stepped(w).x = IF w.slope = "shallow" \/ Aside(w) THEN (w.x + w.toward) % Word ELSE w.x
         /\ Stepped(w).y = IF w.slope = "steep" \/ Aside(w) THEN (w.y + w.ySign) % Word ELSE w.y
         /\ Stepped(w) \in Walks
  <1>1. /\ w.x \in Words /\ w.y \in Words /\ w.toward \in Int /\ w.ySign \in Int
        /\ w.error \in Words /\ w.dx \in Words /\ w.dy \in Words
    BY WordFacts DEF Walks, Words
  <1>2. (w.x + w.toward) % Word \in Words /\ (w.y + w.ySign) % Word \in Words
    BY <1>1, ModRange DEF Words
  <1>3. Major(w) \in Int /\ Minor(w) \in Int
    BY <1>1 DEF Major, Minor, Words
  <1>4. Drained(w) \in Words
    BY <1>1, <1>3, ModRange DEF Drained, Words
  <1>5. (Drained(w) + Major(w)) % Word \in Words
    BY <1>3, <1>4, ModRange DEF Words
  <1> QED BY <1>1, <1>2, <1>4, <1>5 DEF Stepped, Moved, Walks

\* It stays on the line, one cell further.
LEMMA PassTracks ==
  ASSUME NEW w \in Walks, NEW c \in Courses, NEW cp \in Copies, Tracks(w, c, cp)
  PROVE  Along(w, c) \in Courses /\ Tracks(Stepped(w), Along(w, c), cp)
  <1> DEFINE v == Stepped(w)
             d == Along(w, c)
  <1>0. OfLine(w, c) /\ Balanced(w, c) /\ Placed(w, c, cp)
    BY DEF Tracks
  <1>1. /\ c.gone \in Nat /\ c.aside \in Nat /\ c.bend \in Nat \cup {-1}
        /\ c.from \in Places /\ c.to \in Places
    BY LineFacts
  <1>2. /\ d \in Courses /\ d.from = c.from /\ d.to = c.to /\ d.bend = c.bend
        /\ d.gone = c.gone + 1 /\ d.aside = IF Aside(w) THEN c.aside + 1 ELSE c.aside
    <2> DEFINE a == IF Aside(w) THEN c.aside + 1 ELSE c.aside
    <2>1. d = [c EXCEPT !.gone = c.gone + 1, !.aside = a]
      BY DEF Along
    <2>2. a \in Nat /\ c.gone + 1 \in Nat
      BY <1>1
    <2> HIDE DEF a, d
    <2>3. /\ d \in Courses /\ d.from = c.from /\ d.to = c.to /\ d.bend = c.bend
          /\ d.gone = c.gone + 1 /\ d.aside = a
      BY <2>1, <2>2, <1>1 DEF Courses
    <2> QED BY <2>3 DEF a
  <1>3. Long(d) = Long(c) /\ Short(d) = Short(c)
    BY <1>2 DEF Long, Short
  <1>4. /\ v.toward = w.toward /\ v.slope = w.slope
        /\ v.ySign = w.ySign /\ v.dx = w.dx /\ v.dy = w.dy
        /\ v.error = IF Aside(w) THEN (Drained(w) + Major(w)) % Word ELSE Drained(w)
        /\ v.x = IF w.slope = "shallow" \/ Aside(w) THEN (w.x + w.toward) % Word ELSE w.x
        /\ v.y = IF w.slope = "steep" \/ Aside(w) THEN (w.y + w.ySign) % Word ELSE w.y
    BY SteppedFields
  <1> HIDE DEF v, d
  <1>5. OfLine(v, d)
    BY <1>0, <1>2, <1>4 DEF OfLine
  <1>6. Balanced(v, d)
    <2>1. /\ w.error = Long(c) \div 2 - c.gone * Short(c) + c.aside * Long(c)
          /\ 0 <= w.error /\ (w.error < Long(c) \/ w.error = 0) /\ w.error \in Int
      BY <1>0, WordFacts DEF Balanced, Walks, Words
    <2>2. Long(c) \in Nat /\ Short(c) \in Nat /\ Short(c) <= Long(c) /\ Long(c) \div 2 \in Nat
      BY LineFacts, HalfFacts, WordFacts
    <2>3. /\ c.gone * Short(c) \in Int /\ c.aside * Long(c) \in Int
          /\ (c.gone + 1) * Short(c) = c.gone * Short(c) + Short(c)
          /\ (c.aside + 1) * Long(c) = c.aside * Long(c) + Long(c)
      BY <1>1, <2>2, Distributes
    <2>4. v.error = IF Aside(w) THEN w.error - Short(c) + Long(c) ELSE w.error - Short(c)
      BY <1>0, <1>4, <2>1, <2>2, DrainFacts, AxesFacts
    <2>5. 0 <= v.error /\ (v.error < Long(c) \/ v.error = 0)
      BY <1>0, <2>1, <2>2, <2>4, DrainFacts
    <2>6. v.error = Long(c) \div 2 - d.gone * Short(c) + d.aside * Long(c)
      <3>1. CASE Aside(w)
        BY <3>1, <1>2, <2>1, <2>2, <2>3, <2>4
      <3>2. CASE ~Aside(w)
        BY <3>2, <1>2, <2>1, <2>2, <2>3, <2>4
      <3> QED BY <3>1, <3>2
    <2>7. d.aside <= d.gone
      BY <1>0, <1>1, <1>2 DEF Balanced
    <2> QED BY <1>3, <2>5, <2>6, <2>7 DEF Balanced
  <1>7. Turned(v, d, cp) <=> Turned(w, c, cp)
    BY <1>2, <1>4 DEF Turned
  <1>8. /\ w.x = (c.from.x + AlongX(w, c, cp)) % Word /\ w.y = (c.from.y + AlongY(w, c)) % Word
        /\ w.toward = IF c.to.x >= c.from.x \/ Turned(w, c, cp) THEN 1 ELSE -1
        /\ w.ySign = IF c.to.y >= c.from.y THEN 1 ELSE -1
    BY <1>0 DEF Placed, OfLine
  <1>9. /\ c.from.x \in Int /\ c.from.y \in Int /\ c.to.x \in Int /\ c.to.y \in Int
        /\ w.slope \in {"shallow", "steep"}
    BY <1>1, PlaceFacts, WordFacts DEF Walks
  <1>10. /\ AlongX(w, c, cp) \in Int
         /\ AlongX(v, d, cp) = IF w.slope = "shallow" \/ Aside(w)
                               THEN AlongX(w, c, cp) + w.toward ELSE AlongX(w, c, cp)
    <2>1. Turned(w, c, cp) => w.slope = "steep"
      BY DEF Turned
    <2>2. CASE c.to.x >= c.from.x
      BY <2>2, <1>1, <1>2, <1>4, <1>8, <1>9 DEF AlongX
    <2>3. CASE ~(c.to.x >= c.from.x) /\ Turned(w, c, cp)
      <3>1. c.bend \in Int
        BY <1>1
      <3> QED BY <2>1, <2>3, <3>1, <1>1, <1>2, <1>4, <1>7, <1>8, <1>9 DEF AlongX
    <2>4. CASE ~(c.to.x >= c.from.x) /\ ~Turned(w, c, cp)
      BY <2>4, <1>1, <1>2, <1>4, <1>7, <1>8, <1>9 DEF AlongX
    <2> QED BY <2>2, <2>3, <2>4
  <1>11. /\ AlongY(w, c) \in Int
         /\ AlongY(v, d) = IF w.slope = "steep" \/ Aside(w)
                           THEN AlongY(w, c) + w.ySign ELSE AlongY(w, c)
    <2>1. CASE c.to.y >= c.from.y
      BY <2>1, <1>1, <1>2, <1>4, <1>8, <1>9 DEF AlongY
    <2>2. CASE ~(c.to.y >= c.from.y)
      BY <2>2, <1>1, <1>2, <1>4, <1>8, <1>9 DEF AlongY
    <2> QED BY <2>1, <2>2
  <1>12. v.x = (d.from.x + AlongX(v, d, cp)) % Word
    <2>1. w.toward \in Int /\ c.from.x + AlongX(w, c, cp) \in Int
      BY <1>8, <1>9, <1>10
    <2>2. (w.x + w.toward) % Word = ((c.from.x + AlongX(w, c, cp)) + w.toward) % Word
      BY <1>8, <2>1, ModAdd
    <2>3. (c.from.x + AlongX(w, c, cp)) + w.toward = c.from.x + (AlongX(w, c, cp) + w.toward)
      BY <1>9, <1>10, <2>1
    <2> QED BY <1>2, <1>4, <1>8, <1>10, <2>2, <2>3
  <1>13. v.y = (d.from.y + AlongY(v, d)) % Word
    <2>1. w.ySign \in Int /\ c.from.y + AlongY(w, c) \in Int
      BY <1>8, <1>9, <1>11
    <2>2. (w.y + w.ySign) % Word = ((c.from.y + AlongY(w, c)) + w.ySign) % Word
      BY <1>8, <2>1, ModAdd
    <2>3. (c.from.y + AlongY(w, c)) + w.ySign = c.from.y + (AlongY(w, c) + w.ySign)
      BY <1>9, <1>11, <2>1
    <2> QED BY <1>2, <1>4, <1>8, <1>11, <2>2, <2>3
  <1>14. Placed(v, d, cp)
    BY <1>2, <1>4, <1>7, <1>8, <1>12, <1>13 DEF Placed
  <1> QED BY <1>2, <1>5, <1>6, <1>14 DEF Tracks, v, d

\* The counter is not part of where a walk stands.
LEMMA CountTracks ==
  ASSUME NEW w \in Walks, NEW c \in Courses, NEW cp \in Copies, Tracks(w, c, cp)
  PROVE  /\ CountDown(w) \in Walks /\ Tracks(CountDown(w), c, cp)
         /\ CountDown(w).counter = (w.counter - 1) % Word
  <1> DEFINE n == (w.counter - 1) % Word
             v == CountDown(w)
  <1>1. n \in Words
    <2>1. w.counter - 1 \in Int
      BY WordFacts DEF Walks, Words
    <2> QED BY <2>1, ModRange
  <1>2. v = [w EXCEPT !.counter = n]
    BY DEF CountDown
  <1> HIDE DEF n, v
  <1>3. /\ v \in Walks /\ v.counter = n /\ v.toward = w.toward /\ v.slope = w.slope
        /\ v.x = w.x /\ v.y = w.y /\ v.ySign = w.ySign
        /\ v.dx = w.dx /\ v.dy = w.dy /\ v.error = w.error
    BY <1>1, <1>2 DEF Walks
  <1>4. OfLine(v, c) /\ Balanced(v, c)
    BY <1>3 DEF Tracks, OfLine, Balanced
  <1>5. Placed(v, c, cp)
    BY <1>3 DEF Tracks, Placed, AlongX, AlongY, Turned
  <1> QED BY <1>3, <1>4, <1>5 DEF Tracks, n, v

\* Where a call ends a projectile that is steep toward -x turns, and the course says so.
Bent(c) == [c EXCEPT !.bend = IF @ = -1 THEN c.aside ELSE @]

LEMMA RearmTracks ==
  ASSUME NEW w \in Walks, NEW c \in Courses, NEW cp \in Copies, Tracks(w, c, cp)
  PROVE  /\ Rearmed(w, cp) \in Walks /\ Bent(c) \in Courses
         /\ Tracks(Rearmed(w, cp), Bent(c), cp)
         /\ Rearmed(w, cp).counter = w.counter
  <1> DEFINE v == Rearmed(w, cp)
             d == Bent(c)
             b == IF c.bend = -1 THEN c.aside ELSE c.bend
             t == IF cp = "projectile" /\ w.slope = "steep" THEN 1 ELSE w.toward
  <1>1. /\ c.gone \in Nat /\ c.aside \in Nat /\ c.bend \in Nat \cup {-1}
        /\ c.from \in Places /\ c.to \in Places
    BY LineFacts
  <1>2. d = [c EXCEPT !.bend = b] /\ b \in Nat /\ t \in {-1, 1}
    BY <1>1 DEF Bent, Walks
  <1>3. v \in Walks /\ v.toward = t /\ v.slope = w.slope /\ v.x = w.x /\ v.y = w.y
        /\ v.ySign = w.ySign /\ v.dx = w.dx /\ v.dy = w.dy /\ v.error = w.error
        /\ v.counter = w.counter
    <2>1. CASE cp = "projectile" /\ w.slope = "steep"
      <3>1. v = [w EXCEPT !.toward = 1] /\ t = 1
        BY <2>1 DEF Rearmed
      <3> HIDE DEF v
      <3> QED BY <3>1 DEF Walks
    <2>2. CASE ~(cp = "projectile" /\ w.slope = "steep")
      <3>1. v = w /\ t = w.toward
        BY <2>2 DEF Rearmed
      <3> QED BY <3>1
    <2> QED BY <2>1, <2>2
  <1> HIDE DEF v, d
  <1>4. /\ d \in Courses /\ d.from = c.from /\ d.to = c.to /\ d.gone = c.gone
        /\ d.aside = c.aside /\ d.bend = b
    <2> HIDE DEF b
    <2> QED BY <1>2 DEF Courses
  <1>5. Long(d) = Long(c) /\ Short(d) = Short(c)
    BY <1>4 DEF Long, Short
  <1>6. OfLine(v, d) /\ Balanced(v, d)
    BY <1>3, <1>4, <1>5 DEF Tracks, OfLine, Balanced
  <1>7. Turned(v, d, cp) <=> cp = "projectile" /\ w.slope = "steep"
    BY <1>2, <1>3, <1>4 DEF Turned
  <1>8. AlongX(v, d, cp) = AlongX(w, c, cp)
    <2>1. CASE c.to.x >= c.from.x
      BY <2>1, <1>3, <1>4 DEF AlongX
    <2>2. CASE ~(c.to.x >= c.from.x) /\ ~(cp = "projectile" /\ w.slope = "steep")
      BY <2>2, <1>3, <1>4, <1>7 DEF AlongX, Turned
    <2>3. CASE ~(c.to.x >= c.from.x) /\ cp = "projectile" /\ w.slope = "steep"
      <3>1. AlongX(v, d, cp) = c.aside - 2 * b
        BY <2>3, <1>4, <1>7 DEF AlongX
      <3>2. c.bend = -1 => b = c.aside /\ AlongX(w, c, cp) = 0 - c.aside
        BY <2>3, <1>1 DEF AlongX, Turned
      <3>3. c.bend # -1 => b = c.bend /\ AlongX(w, c, cp) = c.aside - 2 * c.bend
        BY <2>3, <1>1 DEF AlongX, Turned
      <3> QED BY <3>1, <3>2, <3>3, <1>1
    <2> QED BY <2>1, <2>2, <2>3
  <1>9. AlongY(v, d) = AlongY(w, c)
    BY <1>3, <1>4 DEF AlongY
  <1>10. v.toward = IF d.to.x >= d.from.x \/ Turned(v, d, cp) THEN 1 ELSE -1
    BY <1>3, <1>4, <1>7 DEF Tracks, Placed, Turned
  <1>11. Placed(v, d, cp)
    BY <1>3, <1>4, <1>8, <1>9, <1>10 DEF Tracks, Placed
  <1> QED BY <1>3, <1>4, <1>6, <1>11 DEF Tracks, v, d

----------------------------------------------------------------------------
\* The inductive invariant: the record tracks its course, and while a solid moves its
\* counter is what is left of the line to the waypoint of its slot.

Remains == walk.counter = Long(course) - course.gone /\ course.gone <= Long(course)

Bound == slot \in Slots /\ course.to = Waypoints[slot] /\ Remains

IInv ==
    /\ TypeOK
    /\ Tracks(walk, course, copy)
    /\ looping => budget # 0 /\ state \in {"moving", "flying"}
    /\ state = "moving" => Bound
    /\ state # "moving" => position \in Places

LEMMA SlotFacts == ASSUME NEW k \in Slots PROVE Waypoints[k] \in Places
  <1>1. Waypoints \in Seq(Places)
    BY WalksAssumption DEF Places
  <1>2. \A i \in 1..Len(Waypoints) : Waypoints[i] \in Places
    BY <1>1
  <1>3. Slots = 1..Len(Waypoints)
    BY <1>1 DEF Slots
  <1> QED BY <1>2, <1>3

LEMMA TypeFacts ==
  ASSUME TypeOK
  PROVE  copy \in Copies /\ walk \in Walks /\ course \in Courses /\ budget \in Words
         /\ (copy = "object" <=> state \in {"waiting", "moving", "coldstart"})
  BY DEF TypeOK, Courses, Copies

LEMMA BudgetFacts == ASSUME NEW b \in Budgets PROVE b \in Words /\ b # 0
  BY WalksAssumption

LEMMA InitInv == Init => IInv
  <1> SUFFICES ASSUME Init PROVE IInv
    OBVIOUS
  <1>1. position \in Places /\ copy \in Copies
    BY DEF Init
  <1>2. /\ walk \in Walks /\ course \in Courses /\ Tracks(walk, course, copy)
    BY <1>1, StartTracks DEF Init
  <1>3. /\ state \in IF copy = "object" THEN {"waiting", "moving", "coldstart"} ELSE {"free", "flying"}
        /\ state # "moving" /\ slot = NoSlot /\ remaining = 0 /\ looping = FALSE
    BY DEF Init
  <1>4. budget \in Words /\ position \in Points
    BY <1>1, BudgetFacts, PlaceFacts DEF Init
  <1>5. slot \in Slots \cup {NoSlot} /\ remaining \in 0..2
    BY <1>3
  <1>6. TypeOK
    <2>1. looping \in BOOLEAN
      BY <1>3
    <2> QED BY <1>1, <1>2, <1>3, <1>4, <1>5, <2>1 DEF TypeOK, Courses
  <1> QED BY <1>1, <1>2, <1>3, <1>6 DEF IInv

LEMMA ArmInv == ASSUME IInv, NEW k \in Slots, Arm(k) PROVE IInv'
  <1>1. /\ state \in {"waiting", "coldstart"} /\ state' = "moving" /\ slot' = k
        /\ remaining' \in 0..2 /\ walk' = Start(position, Waypoints[k])
        /\ course' = Line(position, Waypoints[k])
        /\ copy' = copy /\ position' = position /\ budget' = budget /\ looping' = looping
    BY DEF Arm
  <1>2. /\ copy \in Copies /\ copy = "object" /\ position \in Places /\ position \in Points
        /\ budget \in Words /\ looping = FALSE
    BY <1>1, TypeFacts DEF IInv, TypeOK
  <1>3. Waypoints[k] \in Places
    BY SlotFacts
  <1>4. /\ walk' \in Walks /\ course' \in Courses /\ Tracks(walk', course', copy')
        /\ walk'.counter = Long(course')
    BY <1>1, <1>2, <1>3, StartTracks
  <1>5. course'.gone = 0 /\ course'.to = Waypoints[k]
    BY <1>1 DEF Line
  <1>6. Long(course') \in Nat
    BY <1>4, LineFacts, WordFacts
  <1>7. Bound'
    BY <1>1, <1>4, <1>5, <1>6 DEF Bound, Remains
  <1>8. TypeOK'
    BY <1>1, <1>2, <1>4 DEF TypeOK, Courses
  <1> QED BY <1>1, <1>2, <1>4, <1>7, <1>8 DEF IInv

LEMMA LaunchInv ==
  ASSUME IInv, NEW p \in Places, NEW q \in Places, NEW b \in Budgets, Launch(p, q, b)
  PROVE  IInv'
  <1>1. /\ state = "free" /\ state' = "flying" /\ position' = p /\ walk' = Start(p, q)
        /\ course' = Line(p, q) /\ budget' = b /\ looping' = TRUE
        /\ copy' = copy /\ slot' = slot /\ remaining' = remaining
    BY DEF Launch
  <1>2. copy \in Copies /\ copy # "object" /\ slot \in Slots \cup {NoSlot} /\ remaining \in 0..2
    BY <1>1, TypeFacts DEF IInv, TypeOK
  <1>3. walk' \in Walks /\ course' \in Courses /\ Tracks(walk', course', copy')
    BY <1>1, <1>2, StartTracks
  <1>4. budget' \in Words /\ budget' # 0 /\ position' \in Points
    BY <1>1, BudgetFacts, PlaceFacts
  <1>5. TypeOK'
    BY <1>1, <1>2, <1>3, <1>4 DEF TypeOK, Courses
  <1> QED BY <1>1, <1>3, <1>4, <1>5 DEF IInv

LEMMA ResumeInv == ASSUME IInv, NEW b \in Budgets, Resume(b) PROVE IInv'
  <1>1. /\ budget' = b /\ looping' = (state \in {"moving", "flying"})
        /\ copy' = copy /\ state' = state /\ slot' = slot /\ remaining' = remaining
        /\ position' = position /\ walk' = walk /\ course' = course
    BY DEF Resume, solid
  <1>2. budget' \in Words /\ budget' # 0
    BY <1>1, BudgetFacts
  <1>3. TypeOK'
    BY <1>1, <1>2 DEF IInv, TypeOK
  <1> QED BY <1>1, <1>2, <1>3 DEF IInv, Bound, Remains

LEMMA RetireInv == ASSUME IInv, Retire PROVE IInv'
  <1>1. /\ state = "flying" /\ state' = "free" /\ ~looping
        /\ walk' = Start(position, position) /\ course' = Line(position, position)
        /\ copy' = copy /\ slot' = slot /\ remaining' = remaining
        /\ position' = position /\ budget' = budget /\ looping' = looping
    BY DEF Retire, solid
  <1>2. copy \in Copies /\ copy # "object" /\ position \in Places
    BY <1>1, TypeFacts DEF IInv
  <1>3. walk' \in Walks /\ course' \in Courses /\ Tracks(walk', course', copy')
    BY <1>1, <1>2, StartTracks
  <1>4. TypeOK'
    BY <1>1, <1>2, <1>3 DEF IInv, TypeOK, Courses
  <1> QED BY <1>1, <1>2, <1>3, <1>4 DEF IInv

\* The record and the course after one more pass.
LEMMA AdvancedFacts ==
  ASSUME IInv
  PROVE  /\ Stepped(walk) \in Walks /\ Advanced \in Courses
         /\ Tracks(Stepped(walk), Advanced, copy)
         /\ Advanced.gone = course.gone + 1 /\ Advanced.to = course.to
         /\ Long(Advanced) = Long(course) /\ Stepped(walk).counter = walk.counter
  <1>1. Advanced = Along(walk, course)
    BY DEF Advanced, Along
  <1>2. copy \in Copies /\ walk \in Walks /\ course \in Courses /\ Tracks(walk, course, copy)
    BY TypeFacts DEF IInv
  <1>3. Advanced \in Courses /\ Tracks(Stepped(walk), Advanced, copy)
    BY <1>1, <1>2, PassTracks
  <1>4. Stepped(walk) \in Walks /\ Stepped(walk).counter = walk.counter
    BY <1>2, SteppedFields
  <1>5. /\ Advanced.gone = course.gone + 1 /\ Advanced.from = course.from
        /\ Advanced.to = course.to
    BY <1>2 DEF Advanced, Courses
  <1> QED BY <1>3, <1>4, <1>5 DEF Long

LEMMA PassInv == ASSUME IInv, Pass PROVE IInv'
  <1>1. /\ looping /\ budget # 1 /\ ~RunsOut
        /\ walk' = IF copy = "object" THEN CountDown(Stepped(walk)) ELSE Stepped(walk)
        /\ budget' = budget - 1 /\ course' = Advanced
        /\ copy' = copy /\ state' = state /\ slot' = slot /\ remaining' = remaining
        /\ position' = position /\ looping' = looping
    BY DEF Pass, solid
  <1>2. budget \in Words /\ budget # 0 /\ state \in {"moving", "flying"} /\ copy \in Copies
    BY <1>1, TypeFacts DEF IInv
  <1>3. budget' \in Words /\ budget' # 0
    BY <1>1, <1>2, WordFacts DEF Words
  <1>4. walk' \in Walks /\ course' \in Courses /\ Tracks(walk', course', copy')
    BY <1>1, <1>2, AdvancedFacts, CountTracks
  <1>5. TypeOK'
    BY <1>1, <1>3, <1>4 DEF IInv, TypeOK, Courses
  <1>6. ASSUME state = "moving" PROVE Bound'
    <2>1. copy = "object" /\ Bound /\ course \in Courses
      BY <1>6, TypeFacts DEF IInv
    <2>2. walk'.counter = (walk.counter - 1) % Word
      BY <1>1, <1>2, <2>1, AdvancedFacts, CountTracks
    <2>3. /\ course.gone \in Nat /\ Long(course) \in 0..(SignBit - 1)
      BY <2>1, LineFacts
    <2>4. walk.counter = Long(course) - course.gone /\ walk.counter # 0
      BY <1>1, <2>1 DEF Bound, Remains, RunsOut
    <2>5. walk.counter - 1 \in Words /\ course.gone + 1 <= Long(course)
      BY <2>1, <2>3, <2>4, WordFacts DEF Bound, Remains, Words
    <2>6. walk'.counter = walk.counter - 1
      BY <2>2, <2>5, ModSmall
    <2>7. course'.gone = course.gone + 1 /\ course'.to = course.to /\ Long(course') = Long(course)
      BY <1>1, AdvancedFacts
    <2> QED BY <1>1, <2>1, <2>3, <2>4, <2>5, <2>6, <2>7 DEF Bound, Remains
  <1> QED BY <1>1, <1>2, <1>3, <1>4, <1>5, <1>6 DEF IInv

\* The record and the course a call leaves behind.
LEMMA LeftFacts ==
  ASSUME IInv, Leave
  PROVE  /\ walk' \in Walks /\ course' \in Courses /\ Tracks(walk', course', copy')
         /\ course'.gone = course.gone + 1 /\ course'.to = course.to
         /\ Long(course') = Long(course)
         /\ walk'.counter = IF budget = 1 THEN (walk.counter - 1) % Word
                            ELSE (((walk.counter - 1) % Word) - 1) % Word
  <1> DEFINE v == Stepped(walk)
  <1>1. /\ budget = 1 \/ RunsOut
        /\ walk' = IF budget = 1 THEN Yielded ELSE Exhausted
        /\ course' = Bent(Advanced) /\ copy' = copy
    <2>1. course' = [Advanced EXCEPT !.bend = IF @ = -1 THEN Advanced.aside ELSE @]
      BY DEF Leave
    <2> QED BY <2>1 DEF Leave, Bent
  <1>2. copy \in Copies
    BY TypeFacts DEF IInv
  <1>3. v \in Walks /\ Advanced \in Courses /\ Tracks(v, Advanced, copy)
        /\ v.counter = walk.counter
    BY AdvancedFacts
  <1>4. /\ course'.gone = course.gone + 1 /\ course'.to = course.to
        /\ Long(course') = Long(course)
    <2>1. course'.gone = Advanced.gone /\ course'.from = Advanced.from /\ course'.to = Advanced.to
      BY <1>1, <1>3 DEF Bent, Courses
    <2> QED BY <2>1, AdvancedFacts DEF Long
  <1>5. /\ CountDown(v) \in Walks /\ Tracks(CountDown(v), Advanced, copy)
        /\ CountDown(v).counter = (walk.counter - 1) % Word
    BY <1>2, <1>3, CountTracks
  <1>6. CASE budget = 1
    <2>1. walk' = Rearmed(CountDown(v), copy)
      BY <1>1, <1>6 DEF Yielded, Counted
    <2> QED BY <1>1, <1>2, <1>3, <1>4, <1>5, <1>6, <2>1, RearmTracks
  <1>7. CASE budget # 1
    <2>1. copy = "object" /\ walk' = CountDown(CountDown(v))
      BY <1>1, <1>7 DEF Exhausted, Counted, RunsOut
    <2>2. walk' = Rearmed(CountDown(CountDown(v)), copy)
      BY <2>1 DEF Rearmed
    <2>3. /\ CountDown(CountDown(v)) \in Walks /\ Tracks(CountDown(CountDown(v)), Advanced, copy)
          /\ CountDown(CountDown(v)).counter = (((walk.counter - 1) % Word) - 1) % Word
      BY <1>2, <1>3, <1>5, CountTracks
    <2> QED BY <1>1, <1>2, <1>3, <1>4, <1>7, <2>2, <2>3, RearmTracks
  <1> QED BY <1>6, <1>7

\* The counter is negative exactly when the line has been walked past its end.
LEMMA EndFacts ==
  ASSUME IInv, Leave, state = "moving"
  PROVE  /\ Ended(walk') <=> course.gone = Long(course)
         /\ ~Ended(walk') => walk'.counter = Long(course) - course.gone - 1
                             /\ course.gone + 1 <= Long(course)
  <1>1. Bound /\ course \in Courses /\ copy = "object"
    BY TypeFacts DEF IInv
  <1>2. /\ course.gone \in Nat /\ Long(course) \in 0..(SignBit - 1)
        /\ walk.counter = Long(course) - course.gone /\ course.gone <= Long(course)
    BY <1>1, LineFacts DEF Bound, Remains
  <1>3. /\ budget = 1 \/ walk.counter = 0
        /\ walk'.counter = IF budget = 1 THEN (walk.counter - 1) % Word
                           ELSE (((walk.counter - 1) % Word) - 1) % Word
    BY LeftFacts DEF Leave, RunsOut
  <1>4. CASE walk.counter = 0
    <2>1. (walk.counter - 1) % Word = Word - 1
      <3>1. (0 - 1) + Word \in Words /\ 0 - 1 \in Int /\ (0 - 1) + Word = Word - 1
        BY WordFacts DEF Words
      <3>2. (0 - 1) % Word = Word - 1
        BY <3>1, ModBack
      <3> QED BY <1>4, <3>2
    <2>2. ((Word - 1) - 1) % Word = Word - 2
      <3>1. (Word - 1) - 1 \in Words /\ (Word - 1) - 1 = Word - 2
        BY WordFacts DEF Words
      <3> QED BY <3>1, ModSmall
    <2>3. walk'.counter = Word - 1 \/ walk'.counter = Word - 2
      BY <1>3, <2>1, <2>2
    <2> QED BY <1>2, <1>4, <2>3, WordFacts DEF Ended, Negative
  <1>5. CASE walk.counter # 0
    <2>1. walk.counter - 1 \in Words /\ walk.counter - 1 < SignBit /\ course.gone + 1 <= Long(course)
      BY <1>2, <1>5, WordFacts DEF Words
    <2>2. walk'.counter = walk.counter - 1
      BY <1>3, <1>5, <2>1, ModSmall
    <2> QED BY <1>2, <2>1, <2>2, WordFacts DEF Ended, Negative, Words
  <1> QED BY <1>4, <1>5

LEMMA LeaveInv == ASSUME IInv, Leave PROVE IInv'
  <1>1. /\ looping /\ budget' = budget - 1 /\ looping' = FALSE
        /\ copy' = copy /\ remaining' = remaining
        /\ IF copy = "object" THEN Settle(walk') ELSE UNCHANGED <<state, slot, position>>
    BY DEF Leave
  <1>2. /\ budget \in Words /\ budget # 0 /\ state \in {"moving", "flying"} /\ copy \in Copies
        /\ (copy = "object" <=> state = "moving")
    BY <1>1, TypeFacts DEF IInv
  <1>3. budget' \in Words
    BY <1>1, <1>2, WordFacts DEF Words
  <1>4. walk' \in Walks /\ course' \in Courses /\ Tracks(walk', course', copy')
    BY LeftFacts
  <1>5. remaining \in 0..2 /\ slot \in Slots \cup {NoSlot} /\ position \in Points
    BY DEF IInv, TypeOK
  <1>6. CASE state = "flying"
    <2>1. state' = state /\ slot' = slot /\ position' = position /\ copy # "object"
      BY <1>1, <1>2, <1>6
    <2>2. position \in Places
      BY <1>6 DEF IInv
    <2>3. TypeOK'
      BY <1>1, <1>2, <1>3, <1>4, <1>5, <1>6, <2>1 DEF TypeOK, Courses
    <2> QED BY <1>1, <1>4, <1>6, <2>1, <2>2, <2>3 DEF IInv
  <1>7. CASE state = "moving" /\ ~Ended(walk')
    <2>1. position' = [x |-> walk'.x, y |-> walk'.y] /\ state' = state /\ slot' = slot
          /\ copy = "object"
      BY <1>1, <1>2, <1>7 DEF Settle
    <2>2. position' \in Points
      BY <1>4, <2>1 DEF Walks, Points
    <2>3. TypeOK'
      BY <1>1, <1>2, <1>3, <1>4, <1>5, <1>7, <2>1, <2>2 DEF TypeOK, Courses
    <2>4. Bound'
      <3>1. Bound /\ course \in Courses
        BY <1>7, TypeFacts DEF IInv
      <3>2. walk'.counter = Long(course) - course.gone - 1 /\ course.gone + 1 <= Long(course)
        BY <1>7, EndFacts
      <3>3. course.gone \in Nat /\ Long(course) \in Int
        BY <3>1, LineFacts
      <3>4. course'.gone = course.gone + 1 /\ course'.to = course.to /\ Long(course') = Long(course)
        BY LeftFacts
      <3> QED BY <2>1, <3>1, <3>2, <3>3, <3>4 DEF Bound, Remains
    <2> QED BY <1>1, <1>4, <1>7, <2>1, <2>3, <2>4 DEF IInv
  <1>8. CASE state = "moving" /\ Ended(walk')
    <2>1. /\ position' = Waypoints[slot] /\ copy = "object" /\ state' \in {"coldstart", "waiting"}
          /\ slot' \in {slot, NoSlot}
      BY <1>1, <1>2, <1>8 DEF Settle
    <2>2. slot \in Slots
      BY <1>8 DEF IInv, Bound
    <2>3. position' \in Places /\ position' \in Points
      BY <2>1, <2>2, SlotFacts, PlaceFacts
    <2>4. TypeOK'
      BY <1>1, <1>2, <1>3, <1>4, <1>5, <2>1, <2>2, <2>3 DEF TypeOK, Courses
    <2> QED BY <1>1, <1>4, <2>1, <2>3, <2>4 DEF IInv
  <1> QED BY <1>2, <1>6, <1>7, <1>8

LEMMA NextInv == IInv /\ [Next]_vars => IInv'
  <1> SUFFICES ASSUME IInv, [Next]_vars PROVE IInv'
    OBVIOUS
  <1>1. CASE \E k \in Slots : Arm(k)
    BY <1>1, ArmInv
  <1>2. CASE \E p, q \in Places, b \in Budgets : Launch(p, q, b)
    BY <1>2, LaunchInv
  <1>3. CASE \E b \in Budgets : Resume(b)
    BY <1>3, ResumeInv
  <1>4. CASE Retire
    BY <1>4, RetireInv
  <1>5. CASE Pass
    BY <1>5, PassInv
  <1>6. CASE Leave
    BY <1>6, LeaveInv
  <1>7. CASE UNCHANGED vars
    BY <1>7 DEF vars, solid, IInv, TypeOK, Bound, Remains
  <1> QED BY <1>1, <1>2, <1>3, <1>4, <1>5, <1>6, <1>7 DEF Next

----------------------------------------------------------------------------
\* What follows.

\* The record tracks its line in every state.
THEOREM WalksInvariant == Spec => []IInv
  <1>1. Spec => Init /\ [][Next]_vars
    BY DEF Spec
  <1> QED BY <1>1, InitInv, NextInv, PTL

\* Every word of a walker record stays a word, whatever the level, the budgets and the calls.
THEOREM WalksTypeOK == Spec => []TypeOK
  <1>1. IInv => TypeOK
    BY DEF IInv
  <1> QED BY <1>1, WalksInvariant, PTL

LEMMA TracksOnCourse == IInv => OnCourse
  <1> SUFFICES ASSUME IInv PROVE OnCourse
    OBVIOUS
  <1> DEFINE l == Long(course)
             s == Short(course)
             off == 2 * (course.aside * l - course.gone * s)
  <1>1. /\ walk \in Walks /\ course \in Courses /\ Tracks(walk, course, copy)
    BY TypeFacts DEF IInv
  <1>2. /\ walk.error = l \div 2 - course.gone * s + course.aside * l
        /\ 0 <= walk.error /\ (walk.error < l \/ walk.error = 0)
    BY <1>1 DEF Tracks, Balanced
  <1>3. /\ l \in Nat /\ s \in Nat /\ course.gone \in Nat /\ course.aside \in Nat
    BY <1>1, LineFacts, WordFacts
  <1>4. walk.error \in Int
    BY <1>1, WordFacts DEF Walks, Words
  <1>5. course.aside * l \in Int /\ course.gone * s \in Int
    BY <1>3
  <1>6. l \div 2 \in Nat /\ 2 * (l \div 2) <= l /\ l <= 2 * (l \div 2) + 1
    BY <1>3, HalfFacts
  <1>7. 0 - l <= off /\ off <= l
    <2> DEFINE P == course.aside * l
               Q == course.gone * s
               h == l \div 2
    <2>1. /\ P \in Int /\ Q \in Int /\ h \in Nat /\ 2 * h <= l /\ l <= 2 * h + 1 /\ l \in Nat
          /\ walk.error \in Int /\ walk.error = h - Q + P /\ off = 2 * (P - Q)
          /\ 0 <= walk.error /\ (walk.error < l \/ walk.error = 0)
      BY <1>2, <1>3, <1>4, <1>5, <1>6
    <2> HIDE DEF P, Q, h, off, l
    <2> QED BY <2>1
  <1>8. -l = 0 - l
    BY <1>3
  <1>9. MovesX = AlongX(walk, course, copy) /\ MovesY = AlongY(walk, course)
    BY DEF MovesX, MovesY, AlongX, AlongY, Turned
  <1>10. /\ walk.x = (course.from.x + MovesX) % Word
         /\ walk.y = (course.from.y + MovesY) % Word
    BY <1>1, <1>9 DEF Tracks, Placed
  <1> QED BY <1>7, <1>8, <1>10 DEF OnCourse, Long, Short

\* However its budgets split it, after n steps a walk stands at the cell of its nth column
\* nearest to the line it was started along.
THEOREM WalksOnCourse == Spec => []OnCourse
  BY WalksInvariant, TracksOnCourse, PTL

\* One cell past the end of the line, the other axis has moved its length or once more.
LEMMA EndAside ==
  ASSUME NEW w \in Walks, NEW c \in Courses, Balanced(w, c), c.gone = Long(c) + 1
  PROVE  c.aside = Short(c) \/ c.aside = Short(c) + 1
  <1> DEFINE l == Long(c)
             s == Short(c)
             h == l \div 2
             m == c.aside - s
  <1>1. /\ l \in Nat /\ s \in Nat /\ s <= l /\ c.aside \in Nat /\ c.gone \in Nat
    BY LineFacts, WordFacts
  <1>2. h \in Nat /\ 2 * h <= l /\ (l > 0 => h < l)
    BY <1>1, HalfFacts
  <1>3. /\ w.error = h - c.gone * s + c.aside * l /\ 0 <= w.error
        /\ (w.error < l \/ w.error = 0) /\ c.aside <= c.gone /\ w.error \in Int
    BY WordFacts DEF Balanced, Walks, Words
  <1>4. CASE l = 0
    BY <1>1, <1>3, <1>4
  <1>5. CASE l > 0
    <2>1. c.gone * s = l * s + s /\ l * s \in Int
      BY <1>1, Distributes
    <2>2. c.aside * l = m * l + l * s /\ m * l \in Int /\ m \in Int
      BY <1>1
    <2>3. m * l = w.error + s - h
      BY <1>1, <1>2, <1>3, <2>1, <2>2
    <2>4. m * l > 0 - l /\ m * l < 2 * l
      BY <1>1, <1>2, <1>3, <1>5, <2>3
    <2>5. m > -1
      <3>1. ASSUME m <= -1 PROVE FALSE
        <4>1. m * l <= (-1) * l
          BY <1>1, <1>5, <2>2, <3>1
        <4> QED BY <4>1, <2>2, <2>4, <1>1
      <3> QED BY <3>1, <2>2
    <2>6. m < 2
      <3>1. ASSUME m >= 2 PROVE FALSE
        <4>1. m * l >= 2 * l
          BY <1>1, <1>5, <2>2, <3>1
        <4> QED BY <4>1, <2>2, <2>4, <1>1
      <3> QED BY <3>1, <2>2
    <2>7. m = 0 \/ m = 1
      BY <2>2, <2>5, <2>6
    <2> QED BY <1>1, <2>7
  <1> QED BY <1>1, <1>4, <1>5

\* A word one off, in either direction or not at all, is beside.
LEMMA BesideFacts ==
  ASSUME NEW a \in Words, NEW f \in {-1, 0, 1}
  PROVE  Beside((a + f) % Word, a)
  <1>1. a \in Int /\ f \in Int /\ a + f \in Int /\ 0 - a \in Int /\ (a + f) % Word \in Int
    BY ModRange, WordFacts DEF Words
  <1>2. ((a + f) % Word) - a = ((a + f) % Word) + (0 - a) /\ (a + f) + (0 - a) = f
    BY <1>1
  <1>3. (((a + f) % Word) - a) % Word = f % Word
    BY <1>1, <1>2, ModAdd
  <1>4. f % Word \in {0, 1, Word - 1}
    <2>1. CASE f = -1
      <3>1. f + Word \in Words /\ f + Word = Word - 1
        BY <2>1, WordFacts DEF Words
      <3> QED BY <1>1, <3>1, ModBack
    <2>2. CASE f \in {0, 1}
      <3>1. f \in Words
        BY <2>2, WordFacts DEF Words
      <3> QED BY <2>2, <3>1, ModSmall
    <2> QED BY <2>1, <2>2
  <1> QED BY <1>3, <1>4 DEF Beside

\* A solid's record at the end of its line is beside the line's end.
LEMMA EndBeside ==
  ASSUME NEW w \in Walks, NEW c \in Courses, Tracks(w, c, "object"), c.gone = Long(c) + 1
  PROVE  Beside(w.x, c.to.x) /\ Beside(w.y, c.to.y)
  <1>1. c.aside = Short(c) \/ c.aside = Short(c) + 1
    BY EndAside DEF Tracks
  <1>2. /\ c.from.x \in Nat /\ c.from.y \in Nat /\ c.to.x \in Nat /\ c.to.y \in Nat
        /\ c.to.x \in Words /\ c.to.y \in Words
    BY LineFacts, PlaceFacts, WordFacts DEF Points
  <1>3. /\ w.slope = IF Distance(c.from.x, c.to.x) < Distance(c.from.y, c.to.y)
                     THEN "steep" ELSE "shallow"
        /\ w.x = (c.from.x + AlongX(w, c, "object")) % Word
        /\ w.y = (c.from.y + AlongY(w, c)) % Word
        /\ ~Turned(w, c, "object")
    BY DEF Tracks, OfLine, Placed, Turned
  <1> DEFINE across == Distance(c.from.x, c.to.x)
             down == Distance(c.from.y, c.to.y)
             alongx == IF w.slope = "shallow" THEN c.gone ELSE c.aside
             alongy == IF w.slope = "steep" THEN c.gone ELSE c.aside
  <1>4. across \in Nat /\ down \in Nat
    BY <1>2 DEF Distance
  <1>5. alongx - across \in {0, 1} /\ alongy - down \in {0, 1} /\ alongx \in Int /\ alongy \in Int
    <2>1. c.gone = Long(c) + 1
      OBVIOUS
    <2>2. CASE across < down
      <3>1. w.slope = "steep" /\ Long(c) = down /\ Short(c) = across
        BY <1>3, <2>2 DEF Long, Short
      <3> QED BY <1>1, <1>4, <2>1, <3>1
    <2>3. CASE ~(across < down)
      <3>1. w.slope = "shallow" /\ Long(c) = across /\ Short(c) = down
        BY <1>3, <2>3 DEF Long, Short
      <3> QED BY <1>1, <1>4, <2>1, <3>1
    <2> QED BY <2>2, <2>3
  <1>6. AlongX(w, c, "object") = IF c.to.x >= c.from.x THEN alongx ELSE 0 - alongx
    BY <1>3 DEF AlongX
  <1>7. AlongY(w, c) = IF c.to.y >= c.from.y THEN alongy ELSE 0 - alongy
    BY <1>5 DEF AlongY
  <1> HIDE DEF alongx, alongy
  <1>8. \E f \in {-1, 0, 1} : c.from.x + AlongX(w, c, "object") = c.to.x + f
    <2>1. CASE c.to.x >= c.from.x
      <3>1. alongx - across \in {-1, 0, 1}
        BY <1>5
      <3>2. across = c.to.x - c.from.x
        BY <1>2, <2>1 DEF Distance
      <3>3. AlongX(w, c, "object") = alongx
        BY <1>6, <2>1
      <3> HIDE DEF across
      <3>4. c.from.x + AlongX(w, c, "object") = c.to.x + (alongx - across)
        BY <1>2, <1>5, <3>2, <3>3
      <3> QED BY <3>1, <3>4
    <2>2. CASE ~(c.to.x >= c.from.x)
      <3>1. across - alongx \in {-1, 0, 1}
        BY <1>4, <1>5
      <3>2. c.from.x + AlongX(w, c, "object") = c.to.x + (across - alongx)
        BY <1>2, <1>5, <1>6, <2>2 DEF Distance
      <3> QED BY <3>1, <3>2
    <2> QED BY <2>1, <2>2
  <1>9. \E f \in {-1, 0, 1} : c.from.y + AlongY(w, c) = c.to.y + f
    <2>1. CASE c.to.y >= c.from.y
      <3>1. alongy - down \in {-1, 0, 1}
        BY <1>5
      <3>2. down = c.to.y - c.from.y
        BY <1>2, <2>1 DEF Distance
      <3>3. AlongY(w, c) = alongy
        BY <1>7, <2>1
      <3> HIDE DEF down
      <3>4. c.from.y + AlongY(w, c) = c.to.y + (alongy - down)
        BY <1>2, <1>5, <3>2, <3>3
      <3> QED BY <3>1, <3>4
    <2>2. CASE ~(c.to.y >= c.from.y)
      <3>1. down - alongy \in {-1, 0, 1}
        BY <1>4, <1>5
      <3>2. c.from.y + AlongY(w, c) = c.to.y + (down - alongy)
        BY <1>2, <1>5, <1>7, <2>2 DEF Distance
      <3> QED BY <3>1, <3>2
    <2> QED BY <2>1, <2>2
  <1> QED BY <1>2, <1>3, <1>8, <1>9, BesideFacts

LEMMA StepMeets ==
  IInv /\ [Next]_vars =>
    (state = "moving" /\ state' # "moving" =>
       Beside(walk'.x, position'.x) /\ Beside(walk'.y, position'.y))
  <1> SUFFICES ASSUME IInv, [Next]_vars, state = "moving", state' # "moving"
               PROVE  Beside(walk'.x, position'.x) /\ Beside(walk'.y, position'.y)
    OBVIOUS
  <1>1. CASE Leave
    <2>1. copy = "object" /\ copy' = copy
      BY <1>1, TypeFacts DEF IInv, Leave
    <2>2. Ended(walk') /\ position' = Waypoints[slot]
      BY <1>1, <2>1 DEF Leave, Settle
    <2>3. course.gone = Long(course)
      BY <1>1, <2>2, EndFacts
    <2>4. /\ walk' \in Walks /\ course' \in Courses /\ Tracks(walk', course', "object")
          /\ course'.gone = Long(course') + 1 /\ course'.to = course.to
      BY <1>1, <2>1, <2>3, LeftFacts
    <2>5. position' = course'.to
      BY <2>2, <2>4 DEF IInv, Bound
    <2> QED BY <2>4, <2>5, EndBeside
  <1>2. CASE ~Leave
    <2>1. state' = "moving" \/ state' = state \/ state # "moving"
      BY <1>2 DEF Next, Arm, Launch, Resume, Retire, Pass, vars
    <2> QED BY <2>1
  <1> QED BY <1>1, <1>2

\* A solid is put on its waypoint exactly when its walk stands on it or next to it.
THEOREM WalksMeet == Spec => WaypointMet
  <1>1. Spec => []IInv /\ [][Next]_vars
    BY WalksInvariant DEF Spec
  <1>2. IInv /\ [Next]_vars =>
          [state = "moving" /\ state' # "moving" =>
             Beside(walk'.x, position'.x) /\ Beside(walk'.y, position'.y)]_vars
    BY StepMeets
  <1> QED BY <1>1, <1>2, PTL DEF WaypointMet

----------------------------------------------------------------------------
\* A walk ends.  Arrives leaves to fairness that the ticks go on; that they suffice is a
\* matter of the count, which every pass and every call takes down.

\* What is left of a solid's walk: the passes to its end, and whether a call is on.
Left == IF state = "moving"
        THEN 2 * (Long(course) - course.gone) + (IF looping THEN 1 ELSE 2)
        ELSE 0

LEMMA LeftType ==
  ASSUME IInv
  PROVE  Left \in 0..(2 * SignBit)
  <1>1. SignBit \in Nat /\ SignBit > 1
    BY WordFacts
  <1>2. CASE state = "moving"
    <2>1. /\ course.gone \in Nat /\ Long(course) \in 0..(SignBit - 1)
          /\ course.gone <= Long(course)
      BY <1>2, TypeFacts, LineFacts DEF IInv, Bound, Remains
    <2> QED BY <1>1, <1>2, <2>1 DEF Left
  <1>3. CASE state # "moving"
    BY <1>1, <1>3 DEF Left
  <1> QED BY <1>2, <1>3

LEMMA StepNearer ==
  ASSUME IInv, [Next]_vars, vars' # vars, state = "moving"
  PROVE  Left' < Left
  <1>1. /\ course \in Courses /\ copy = "object" /\ course.gone \in Nat
        /\ Long(course) \in 0..(SignBit - 1) /\ course.gone <= Long(course) /\ SignBit \in Nat
    BY TypeFacts, LineFacts, WordFacts DEF IInv, Bound, Remains
  <1>2. CASE Pass
    <2>1. /\ looping /\ looping' = looping /\ state' = state /\ course' = Advanced
      BY <1>2 DEF Pass
    <2>2. course'.gone = course.gone + 1 /\ Long(course') = Long(course)
      BY <2>1, AdvancedFacts
    <2> QED BY <1>1, <2>1, <2>2 DEF Left
  <1>3. CASE Leave
    <2>1. looping /\ looping' = FALSE /\ Settle(walk')
      BY <1>1, <1>3 DEF Leave
    <2>2. course'.gone = course.gone + 1 /\ Long(course') = Long(course)
      BY <1>3, LeftFacts
    <2>3. Left = 2 * (Long(course) - course.gone) + 1
      BY <2>1 DEF Left
    <2>4. CASE state' = "moving"
      <3>1. Left' = 2 * (Long(course) - (course.gone + 1)) + 2
        BY <2>1, <2>2, <2>4 DEF Left
      <3> QED BY <1>1, <2>3, <3>1
    <2>5. CASE state' # "moving"
      <3>1. Left' = 0
        BY <2>5 DEF Left
      <3> QED BY <1>1, <2>3, <3>1
    <2> QED BY <2>4, <2>5
  <1>4. CASE \E b \in Budgets : Resume(b)
    <2>1. ~looping /\ looping' = TRUE /\ state' = state /\ course' = course
      BY <1>4 DEF Resume, solid
    <2> QED BY <1>1, <2>1 DEF Left
  <1> QED BY <1>2, <1>3, <1>4 DEF Next, Arm, Launch, Retire

\* While a solid moves, every step there is takes it nearer to its waypoint, whatever
\* budgets its calls are given: no call is wasted, none puts the walk back, and the count
\* that says where the line ends never starts over.
THEOREM WalksNearer == Spec => [][state = "moving" => Left' < Left]_vars
  <1>1. Spec => []IInv /\ [][Next]_vars
    BY WalksInvariant DEF Spec
  <1>2. IInv /\ [Next]_vars => [state = "moving" => Left' < Left]_vars
    BY StepNearer
  <1> QED BY <1>1, <1>2, PTL

\* So a walk takes no more passes and calls than twice the words a coordinate has.
THEOREM WalksBounded == Spec => [](Left \in 0..(2 * SignBit))
  <1> QED BY LeftType, WalksInvariant, PTL
====
