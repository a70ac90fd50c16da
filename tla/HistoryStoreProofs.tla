---- MODULE HistoryStoreProofs ----
(***************************************************************************)
(* Proofs about HistoryStore: what ancestry, flatten and the replay of a   *)
(* history compute, for every store whose nodes were each derived from     *)
(* their parent, be they all there or not.                                 *)
(***************************************************************************)
EXTENDS HistoryStore, SequenceTheorems, WellFoundedInduction, TLAPS

----------------------------------------------------------------------------
\* Induction without an operator: a set of numbers with a member has a least one.

LEMMA LeastExists ==
  ASSUME NEW T \in SUBSET Nat, T # {}
  PROVE  \E x \in T : \A y \in T : x <= y
  <1>1. PICK x \in T : \A y \in T : ~(<<y, x>> \in OpToRel(<, Nat))
    <2>1. IsWellFoundedOn(OpToRel(<, Nat), Nat)
      BY NatLessThanWellFounded
    <2> HIDE DEF OpToRel
    <2> QED BY <2>1, WFMin
  <1>2. \A y \in T : x <= y
    <2> SUFFICES ASSUME NEW y \in T, ~(x <= y) PROVE FALSE
      OBVIOUS
    <2>1. x \in Nat /\ y \in Nat /\ y < x
      OBVIOUS
    <2>2. <<y, x>> \in {ss \in Nat \X Nat : ss[1] < ss[2]}
      BY <2>1
    <2>3. <<y, x>> \in OpToRel(<, Nat)
      BY <2>2, Zenon DEF OpToRel
    <2> QED BY <1>1, <2>3
  <1> QED BY <1>2

----------------------------------------------------------------------------
\* Which mask a journal holds.

Ordered(s) == \A i, j \in 1..Len(s) : i < j => s[i].frame < s[j].frame
ButtonsOf(s) == IF s = <<>> THEN 0 ELSE Last(s).buttons

\* How many events of s have come before frame f, and the mask they leave.
Passed(s, f) == CHOOSE k \in 0..Len(s) : /\ \A i \in 1..k : s[i].frame < f
                                         /\ \A i \in (k + 1)..Len(s) : s[i].frame >= f
MaskAt(s, f) == IF Passed(s, f) = 0 THEN 0 ELSE s[Passed(s, f)].buttons

LEMMA EventFields ==
  ASSUME NEW s \in Seq(Event)
  PROVE  /\ Len(s) \in Nat
         /\ \A i \in 1..Len(s) : s[i] \in Event /\ s[i].frame \in Nat /\ s[i].buttons \in Masks
         /\ 0 \in Masks
  <1>1. Len(s) \in Nat /\ \A i \in 1..Len(s) : s[i] \in Event
    OBVIOUS
  <1>2. \A e \in Event : e.frame \in Nat /\ e.buttons \in Masks
    BY DEF Event
  <1> QED BY <1>1, <1>2, MasksAssumption

LEMMA PassedFacts ==
  ASSUME NEW s \in Seq(Event), Ordered(s), NEW f \in Nat
  PROVE  /\ Passed(s, f) \in 0..Len(s)
         /\ \A i \in 1..Passed(s, f) : s[i].frame < f
         /\ \A i \in (Passed(s, f) + 1)..Len(s) : s[i].frame >= f
         /\ \A k \in 0..Len(s) : /\ \A i \in 1..k : s[i].frame < f
                                 /\ \A i \in (k + 1)..Len(s) : s[i].frame >= f
                                 => k = Passed(s, f)
  <1> DEFINE T == {k \in 0..Len(s) : \A i \in (k + 1)..Len(s) : s[i].frame >= f}
             P(k) == /\ \A i \in 1..k : s[i].frame < f
                     /\ \A i \in (k + 1)..Len(s) : s[i].frame >= f
  <1>1. Len(s) \in Nat /\ \A i \in 1..Len(s) : s[i].frame \in Nat
    BY EventFields
  <1>2. T \in SUBSET Nat /\ Len(s) \in T
    BY <1>1
  <1>3. PICK k \in T : \A y \in T : k <= y
    BY <1>2, LeastExists
  <1>4. P(k)
    <2> SUFFICES ASSUME NEW i \in 1..k PROVE s[i].frame < f
      OBVIOUS
    <2>1. k \in 1..Len(s) /\ k - 1 \notin T /\ k - 1 \in 0..Len(s)
      BY <1>1, <1>3
    <2>2. PICK j \in (k - 1 + 1)..Len(s) : ~(s[j].frame >= f)
      BY <2>1
    <2>3. j = k
      <3>1. j \notin (k + 1)..Len(s)
        BY <2>2
      <3> QED BY <1>1, <2>1, <3>1
    <2>4. s[k].frame < f
      BY <1>1, <2>1, <2>2, <2>3
    <2>5. i < k => s[i].frame < s[k].frame
      BY <1>1, <2>1 DEF Ordered
    <2> QED BY <1>1, <2>1, <2>4, <2>5
  <1>5. \E n \in 0..Len(s) : P(n)
    BY <1>4
  <1>6. Passed(s, f) \in 0..Len(s) /\ P(Passed(s, f))
    BY <1>5 DEF Passed
  <1>7. ASSUME NEW n \in 0..Len(s), P(n) PROVE n = Passed(s, f)
    <2> DEFINE m == Passed(s, f)
    <2>1. m \in Nat /\ n \in Nat /\ m <= Len(s) /\ n <= Len(s)
      BY <1>1, <1>6
    <2>2. ~(n < m)
      <3> SUFFICES ASSUME n < m PROVE FALSE
        OBVIOUS
      <3>1. m \in 1..m /\ m \in (n + 1)..Len(s) /\ m \in 1..Len(s)
        BY <1>1, <2>1
      <3> HIDE DEF m
      <3> QED BY <1>1, <1>6, <1>7, <3>1 DEF m
    <2>3. ~(m < n)
      <3> SUFFICES ASSUME m < n PROVE FALSE
        OBVIOUS
      <3>1. n \in 1..n /\ n \in (m + 1)..Len(s) /\ n \in 1..Len(s)
        BY <1>1, <2>1
      <3> QED BY <1>1, <1>6, <1>7, <3>1
    <2> QED BY <2>1, <2>2, <2>3
  <1> QED BY <1>6, <1>7

LEMMA MaskType ==
  ASSUME NEW s \in Seq(Event), Ordered(s), NEW f \in Nat
  PROVE  MaskAt(s, f) \in Masks
  BY EventFields, PassedFacts DEF MaskAt

\* The events of one frame: one or none.
At(s, f) == {i \in 1..Len(s) : s[i].frame = f}

LEMMA MaskRecursion ==
  ASSUME NEW s \in Seq(Event), Ordered(s)
  PROVE  /\ MaskAt(s, 0) = 0
         /\ \A f \in Nat \ {0} :
               MaskAt(s, f) = IF At(s, f - 1) = {} THEN MaskAt(s, f - 1)
                              ELSE s[CHOOSE i \in At(s, f - 1) : TRUE].buttons
  <1>1. Len(s) \in Nat /\ \A i \in 1..Len(s) : s[i].frame \in Nat
    BY EventFields
  <1>2. MaskAt(s, 0) = 0
    <2>1. Passed(s, 0) \in 0..Len(s) /\ \A i \in 1..Passed(s, 0) : s[i].frame < 0
      BY PassedFacts
    <2>2. Passed(s, 0) = 0
      <3> SUFFICES ASSUME Passed(s, 0) # 0 PROVE FALSE
        OBVIOUS
      <3>1. Passed(s, 0) \in 1..Passed(s, 0) /\ Passed(s, 0) \in 1..Len(s)
        BY <1>1, <2>1
      <3> QED BY <1>1, <2>1, <3>1
    <2> QED BY <2>2 DEF MaskAt
  <1>3. ASSUME NEW f \in Nat \ {0}, At(s, f - 1) = {}
        PROVE  MaskAt(s, f) = MaskAt(s, f - 1)
    <2> DEFINE m == Passed(s, f - 1)
    <2>1. /\ f - 1 \in Nat /\ m \in 0..Len(s)
          /\ \A i \in 1..m : s[i].frame < f - 1
          /\ \A i \in (m + 1)..Len(s) : s[i].frame >= f - 1
      <3>1. f - 1 \in Nat
        OBVIOUS
      <3> QED BY <3>1, PassedFacts
    <2> HIDE DEF m
    <2>2. \A i \in 1..m : s[i].frame < f
      BY <1>1, <2>1
    <2>3. \A i \in (m + 1)..Len(s) : s[i].frame >= f
      BY <1>1, <1>3, <2>1 DEF At
    <2>4. m = Passed(s, f)
      BY <2>1, <2>2, <2>3, PassedFacts
    <2> QED BY <2>4 DEF MaskAt, m
  <1>4. ASSUME NEW f \in Nat \ {0}, NEW i \in At(s, f - 1)
        PROVE  i = Passed(s, f) /\ MaskAt(s, f) = s[i].buttons
    <2>1. i \in 1..Len(s) /\ s[i].frame = f - 1
      BY DEF At
    <2>2. \A j \in 1..i : s[j].frame < f
      BY <1>1, <2>1 DEF Ordered
    <2>3. \A j \in (i + 1)..Len(s) : s[j].frame >= f
      BY <1>1, <2>1 DEF Ordered
    <2>4. i = Passed(s, f)
      <3>1. i \in 0..Len(s) /\ f \in Nat
        BY <2>1
      <3> QED BY <2>2, <2>3, <3>1, PassedFacts
    <2> QED BY <2>1, <2>4 DEF MaskAt
  <1>5. \A f \in Nat \ {0} : At(s, f - 1) # {} =>
          MaskAt(s, f) = s[CHOOSE i \in At(s, f - 1) : TRUE].buttons
    BY <1>4
  <1> QED BY <1>2, <1>3, <1>5

\* The recursion of advance computes it.
LEMMA HeldIs ==
  ASSUME NEW s \in Seq(Event), Ordered(s), NEW end \in Nat
  PROVE  /\ Held(s, end) = [f \in 1..end |-> MaskAt(s, f)]
         /\ Held(s, end) \in Seq(Masks) /\ Len(Held(s, end)) = end
  <1> DEFINE next(h, f) == IF f = 0 THEN 0
                           ELSE IF At(s, f - 1) = {} THEN h[f - 1]
                           ELSE s[CHOOSE i \in At(s, f - 1) : TRUE].buttons
             held == CHOOSE h : h = [f \in 0..end |-> next(h, f)]
             known == [f \in 0..end |-> MaskAt(s, f)]
  <1>1. Held(s, end) = [f \in 1..end |-> held[f]]
    BY Zenon DEF Held, At
  <1>2. known = [f \in 0..end |-> next(known, f)]
    <2>1. ASSUME NEW f \in 0..end PROVE known[f] = next(known, f)
      <3>1. f = 0 \/ (f \in Nat \ {0} /\ f - 1 \in 0..end)
        OBVIOUS
      <3> QED BY <3>1, MaskRecursion
    <2> HIDE DEF next
    <2> QED BY <2>1
  <1>3. held = [f \in 0..end |-> next(held, f)]
    <2> HIDE DEF next, known
    <2> QED BY <1>2
  <1> HIDE DEF held
  <1>4. \A f \in 0..end : held[f] = next(held, f)
    <2> HIDE DEF next
    <2> QED BY <1>3
  <1>5. \A f \in 0..end : held[f] = MaskAt(s, f)
    <2> DEFINE T == {f \in 0..end : held[f] # MaskAt(s, f)}
    <2> SUFFICES ASSUME T # {} PROVE FALSE
      OBVIOUS
    <2>0. T \in SUBSET Nat
      OBVIOUS
    <2>1. PICK f \in T : \A g \in T : f <= g
      <3> HIDE DEF T
      <3> QED BY <2>0, LeastExists
    <2>2. f = 0 \/ (f \in Nat \ {0} /\ f - 1 \in 0..end /\ f - 1 \notin T)
      BY <2>1
    <2>3. held[f] = next(held, f) /\ held[f] # MaskAt(s, f)
      BY <1>4, <2>1
    <2> QED BY <2>2, <2>3, MaskRecursion
  <1>6. Held(s, end) = [f \in 1..end |-> MaskAt(s, f)]
    BY <1>1, <1>5
  <1>7. \A f \in 1..end : MaskAt(s, f) \in Masks
    BY MaskType
  <1> QED BY <1>6, <1>7

\* Every event of s comes before frame f, or none does.
Before(s, f) == \A i \in 1..Len(s) : s[i].frame < f
From(s, f) == \A i \in 1..Len(s) : f <= s[i].frame

\* Later events do not change what was held before them.
LEMMA HeldPrefix ==
  ASSUME NEW s \in Seq(Event), NEW t \in Seq(Event), Ordered(s), Ordered(t), NEW end \in Nat,
         Len(s) <= Len(t), \A i \in 1..Len(s) : t[i] = s[i],
         \A i \in (Len(s) + 1)..Len(t) : end <= t[i].frame
  PROVE  Held(t, end) = Held(s, end)
  <1>1. /\ Len(s) \in Nat /\ Len(t) \in Nat
        /\ \A i \in 1..Len(s) : s[i].frame \in Nat
        /\ \A i \in 1..Len(t) : t[i].frame \in Nat
    BY EventFields
  <1>2. ASSUME NEW f \in 1..end PROVE MaskAt(t, f) = MaskAt(s, f)
    <2> DEFINE k == Passed(s, f)
    <2>0. f \in Nat
      OBVIOUS
    <2>1. /\ k \in 0..Len(s) /\ \A i \in 1..k : s[i].frame < f
          /\ \A i \in (k + 1)..Len(s) : s[i].frame >= f
      BY <2>0, PassedFacts
    <2> HIDE DEF k
    <2>2. k \in 0..Len(t) /\ \A i \in 1..k : t[i].frame < f
      BY <1>1, <2>1
    <2>3. \A i \in (k + 1)..Len(t) : t[i].frame >= f
      <3> SUFFICES ASSUME NEW i \in (k + 1)..Len(t) PROVE t[i].frame >= f
        OBVIOUS
      <3>1. CASE i <= Len(s)
        BY <1>1, <2>1, <3>1
      <3>2. CASE i > Len(s)
        BY <1>1, <2>1, <3>2
      <3> QED BY <1>1, <2>1, <3>1, <3>2
    <2>4. k = Passed(t, f)
      BY <2>0, <2>2, <2>3, PassedFacts
    <2>5. k # 0 => t[k] = s[k]
      BY <1>1, <2>1
    <2> QED BY <2>4, <2>5 DEF MaskAt, k
  <1>3. /\ Held(t, end) = [f \in 1..end |-> MaskAt(t, f)]
        /\ Held(s, end) = [f \in 1..end |-> MaskAt(s, f)]
    BY HeldIs
  <1> QED BY <1>2, <1>3

\* After its last event a journal holds that event's mask.
LEMMA MaskLast ==
  ASSUME NEW s \in Seq(Event), Ordered(s), NEW f \in Nat, Before(s, f)
  PROVE  MaskAt(s, f) = ButtonsOf(s) /\ ButtonsOf(s) \in Masks
  <1>1. Len(s) \in Nat /\ Len(s) \in 0..Len(s) /\ (s = <<>> <=> Len(s) = 0)
    BY EventFields, EmptySeq
  <1>2. Len(s) = Passed(s, f)
    <2>1. \A i \in 1..Len(s) : s[i].frame < f
      BY DEF Before
    <2>2. \A i \in (Len(s) + 1)..Len(s) : s[i].frame >= f
      BY <1>1
    <2> QED BY <1>1, <2>1, <2>2, PassedFacts
  <1>3. MaskAt(s, f) = ButtonsOf(s)
    BY <1>1, <1>2 DEF MaskAt, ButtonsOf, Last
  <1> QED BY <1>3, MaskType

LEMMA HeldNext ==
  ASSUME NEW s \in Seq(Event), Ordered(s), NEW end \in Nat, Before(s, end + 1)
  PROVE  Held(s, end + 1) = Append(Held(s, end), ButtonsOf(s))
  <1>1. end + 1 \in Nat
    OBVIOUS
  <1>2. /\ Held(s, end + 1) = [f \in 1..(end + 1) |-> MaskAt(s, f)]
        /\ Held(s, end + 1) \in Seq(Masks) /\ Len(Held(s, end + 1)) = end + 1
        /\ Held(s, end) = [f \in 1..end |-> MaskAt(s, f)]
        /\ Held(s, end) \in Seq(Masks) /\ Len(Held(s, end)) = end
    BY <1>1, HeldIs
  <1>3. MaskAt(s, end + 1) = ButtonsOf(s) /\ ButtonsOf(s) \in Masks
    BY <1>1, MaskLast
  <1> DEFINE a == Held(s, end + 1)
             b == Append(Held(s, end), ButtonsOf(s))
  <1>4. b \in Seq(Masks) /\ Len(b) = end + 1
    BY <1>2, <1>3
  <1>5. \A i \in 1..(end + 1) : a[i] = b[i]
    BY <1>2, <1>3
  <1> HIDE DEF a, b
  <1>6. a = b
    BY <1>2, <1>4, <1>5, SeqEqual DEF a
  <1> QED BY <1>6 DEF a, b

LEMMA HeldLast ==
  ASSUME NEW s \in Seq(Event), Ordered(s), NEW end \in Nat, Before(s, end)
  PROVE  ButtonsOf(s) = IF Held(s, end) = <<>> THEN 0 ELSE Last(Held(s, end))
  <1>1. /\ Held(s, end) = [f \in 1..end |-> MaskAt(s, f)]
        /\ Held(s, end) \in Seq(Masks) /\ Len(Held(s, end)) = end
    BY HeldIs
  <1>2. MaskAt(s, end) = ButtonsOf(s)
    BY MaskLast
  <1>3. CASE end = 0
    <2>1. Held(s, end) = <<>>
      BY <1>1, <1>3, EmptySeq
    <2> QED BY <1>2, <1>3, <2>1, MaskRecursion
  <1>4. CASE end # 0
    <2>1. Held(s, end) # <<>> /\ Last(Held(s, end)) = MaskAt(s, end)
      BY <1>1, <1>4 DEF Last
    <2> QED BY <1>2, <2>1
  <1> QED BY <1>3, <1>4

\* Two segments one after the other.
LEMMA Joined ==
  ASSUME NEW s \in Seq(Event), NEW t \in Seq(Event), Ordered(s), Ordered(t),
         NEW f \in Nat, Before(s, f), From(t, f)
  PROVE  /\ s \o t \in Seq(Event) /\ Ordered(s \o t)
         /\ Len(s \o t) = Len(s) + Len(t)
         /\ \A i \in 1..Len(s) : (s \o t)[i] = s[i]
         /\ \A i \in 1..Len(t) : (s \o t)[Len(s) + i] = t[i]
         /\ \A g \in Nat : Before(t, g) /\ f <= g => Before(s \o t, g)
         /\ ButtonsOf(s \o t) = IF t = <<>> THEN ButtonsOf(s) ELSE Last(t).buttons
  <1> DEFINE u == s \o t
  <1>1. /\ Len(s) \in Nat /\ Len(t) \in Nat
        /\ \A i \in 1..Len(s) : s[i].frame \in Nat
        /\ \A i \in 1..Len(t) : t[i].frame \in Nat
    BY EventFields
  <1>2. /\ u \in Seq(Event) /\ Len(u) = Len(s) + Len(t)
        /\ \A i \in 1..Len(s) + Len(t) :
              u[i] = IF i <= Len(s) THEN s[i] ELSE t[i - Len(s)]
    BY ConcatProperties
  <1> HIDE DEF u
  <1>3. \A i \in 1..Len(s) : u[i] = s[i]
    BY <1>1, <1>2
  <1>4. \A i \in 1..Len(t) : u[Len(s) + i] = t[i]
    <2> SUFFICES ASSUME NEW i \in 1..Len(t) PROVE u[Len(s) + i] = t[i]
      OBVIOUS
    <2> DEFINE j == Len(s) + i
    <2>1. j \in 1..Len(s) + Len(t) /\ ~(j <= Len(s)) /\ j - Len(s) = i
      BY <1>1
    <2> HIDE DEF j
    <2>2. u[j] = t[j - Len(s)]
      BY <1>2, <2>1
    <2> QED BY <2>1, <2>2 DEF j
  <1>5. Ordered(u)
    <2> SUFFICES ASSUME NEW i \in 1..Len(u), NEW j \in 1..Len(u), i < j
                 PROVE  u[i].frame < u[j].frame
      BY DEF Ordered
    <2>1. CASE j <= Len(s)
      BY <1>1, <1>2, <2>1 DEF Ordered
    <2>2. CASE i <= Len(s) /\ j > Len(s)
      <3>1. /\ u[i] = s[i] /\ s[i].frame < f /\ s[i].frame \in Nat
        BY <1>1, <1>2, <2>2 DEF Before
      <3>2. j - Len(s) \in 1..Len(t) /\ u[j] = t[j - Len(s)]
        BY <1>1, <1>2, <2>2
      <3>3. f <= u[j].frame /\ u[j].frame \in Nat
        BY <1>1, <3>2 DEF From
      <3> QED BY <3>1, <3>3
    <2>3. CASE i > Len(s)
      <3>1. /\ i - Len(s) \in 1..Len(t) /\ u[i] = t[i - Len(s)]
            /\ j - Len(s) \in 1..Len(t) /\ u[j] = t[j - Len(s)]
            /\ i - Len(s) < j - Len(s)
        BY <1>1, <1>2, <2>3
      <3> QED BY <3>1 DEF Ordered
    <2> QED BY <1>1, <1>2, <2>1, <2>2, <2>3
  <1>6. ASSUME NEW g \in Nat, Before(t, g), f <= g PROVE Before(u, g)
    <2> SUFFICES ASSUME NEW i \in 1..Len(u) PROVE u[i].frame < g
      BY DEF Before
    <2>1. CASE i <= Len(s)
      <3>1. u[i] = s[i] /\ s[i].frame < f /\ s[i].frame \in Nat
        BY <1>1, <1>2, <2>1 DEF Before
      <3> QED BY <1>6, <3>1
    <2>2. CASE i > Len(s)
      <3>1. i - Len(s) \in 1..Len(t) /\ u[i] = t[i - Len(s)]
        BY <1>1, <1>2, <2>2
      <3> QED BY <1>6, <3>1 DEF Before
    <2> QED BY <1>1, <1>2, <2>1, <2>2
  <1>7. ButtonsOf(u) = IF t = <<>> THEN ButtonsOf(s) ELSE Last(t).buttons
    <2>1. CASE t = <<>>
      <3>1. u = s
        BY <2>1, ConcatEmptySeq DEF u
      <3> QED BY <2>1, <3>1
    <2>2. CASE t # <<>>
      <3>1. Len(t) \in Nat \ {0}
        BY <2>2, EmptySeq
      <3>2. u # <<>> /\ u[Len(u)] = t[Len(t)]
        BY <1>1, <1>2, <1>4, <3>1, EmptySeq
      <3> QED BY <2>2, <3>2 DEF ButtonsOf, Last
    <2> QED BY <2>1, <2>2
  <1> QED BY <1>2, <1>3, <1>4, <1>5, <1>6, <1>7 DEF u

----------------------------------------------------------------------------
\* Paths, and the segments that extend them.

Paths == {id \in [inputs : Seq(Event), end : Nat] :
             Ordered(id.inputs) /\ Before(id.inputs, id.end)}
PathOf(id, events, end) == [inputs |-> id.inputs \o events, end |-> end]

\* A journal of changes since a path's end.
Segment(id, events, limit) ==
    /\ events \in Seq(Event) /\ Ordered(events) /\ From(events, id.end) /\ Before(events, limit)
    /\ \A i \in 1..Len(events) :
          events[i].buttons # IF i = 1 THEN ButtonsOf(id.inputs) ELSE events[i - 1].buttons

LEMMA PathFields ==
  ASSUME NEW id \in Paths
  PROVE  /\ id.inputs \in Seq(Event) /\ id.end \in Nat
         /\ Ordered(id.inputs) /\ Before(id.inputs, id.end)
         /\ id = [inputs |-> id.inputs, end |-> id.end]
  BY DEF Paths

LEMMA RootPath == RootId \in Paths /\ RootId.inputs = <<>> /\ RootId.end = 0
  <1>1. RootId.inputs = <<>> /\ RootId.end = 0 /\ Len(<<>>) = 0
    BY DEF RootId
  <1>2. RootId \in [inputs : Seq(Event), end : Nat]
    BY EmptySeq DEF RootId
  <1> QED BY <1>1, <1>2 DEF Paths, Ordered, Before

LEMMA Extended ==
  ASSUME NEW id \in Paths, NEW limit \in Nat, id.end <= limit, NEW events,
         Segment(id, events, limit)
  PROVE  /\ PathOf(id, events, limit) \in Paths
         /\ id.inputs \o events \in Seq(Event) /\ Ordered(id.inputs \o events)
         /\ Before(id.inputs \o events, limit)
         /\ ButtonsOf(id.inputs \o events) =
               IF events = <<>> THEN ButtonsOf(id.inputs) ELSE Last(events).buttons
         /\ ButtonsOf(id.inputs \o events) \in Masks
  <1>1. /\ id.inputs \in Seq(Event) /\ Ordered(id.inputs) /\ id.end \in Nat
        /\ Before(id.inputs, id.end)
        /\ events \in Seq(Event) /\ Ordered(events) /\ From(events, id.end)
        /\ Before(events, limit)
    BY PathFields DEF Segment
  <1>2. /\ id.inputs \o events \in Seq(Event) /\ Ordered(id.inputs \o events)
        /\ Before(id.inputs \o events, limit)
        /\ ButtonsOf(id.inputs \o events) =
              IF events = <<>> THEN ButtonsOf(id.inputs) ELSE Last(events).buttons
    BY <1>1, Joined
  <1>3. ButtonsOf(id.inputs \o events) \in Masks
    BY <1>2, MaskLast
  <1> QED BY <1>2, <1>3 DEF Paths, PathOf

\* No event before the path's end: the path's own masks were held until then.
LEMMA HeldOfPath ==
  ASSUME NEW id \in Paths, NEW limit \in Nat, id.end <= limit, NEW events,
         Segment(id, events, limit)
  PROVE  Held(id.inputs \o events, id.end) = Held(id.inputs, id.end)
  <1>1. /\ id.inputs \in Seq(Event) /\ Ordered(id.inputs) /\ id.end \in Nat
        /\ Before(id.inputs, id.end)
        /\ events \in Seq(Event) /\ Ordered(events) /\ From(events, id.end)
    BY PathFields DEF Segment
  <1> DEFINE s == id.inputs
             t == id.inputs \o events
  <1>2. /\ t \in Seq(Event) /\ Ordered(t) /\ Len(t) = Len(s) + Len(events)
        /\ \A i \in 1..Len(s) : t[i] = s[i]
        /\ \A i \in 1..Len(events) : t[Len(s) + i] = events[i]
    BY <1>1, Joined
  <1>3. Len(s) \in Nat /\ Len(events) \in Nat /\ s \in Seq(Event) /\ Ordered(s)
    BY <1>1, EventFields
  <1> HIDE DEF s, t
  <1>4. Len(s) <= Len(t)
    BY <1>2, <1>3
  <1>5. \A i \in (Len(s) + 1)..Len(t) : id.end <= t[i].frame
    <2> SUFFICES ASSUME NEW i \in (Len(s) + 1)..Len(t) PROVE id.end <= t[i].frame
      OBVIOUS
    <2>1. i - Len(s) \in 1..Len(events) /\ Len(s) + (i - Len(s)) = i
      BY <1>2, <1>3
    <2>2. t[i] = events[i - Len(s)]
      BY <1>2, <2>1
    <2> QED BY <1>1, <2>1, <2>2 DEF From
  <1>6. Held(t, id.end) = Held(s, id.end)
    BY <1>1, <1>2, <1>3, <1>4, <1>5, HeldPrefix
  <1> QED BY <1>6 DEF s, t

\* The journal after one more frame under a mask.
Journaled(events, held, frame, mask) ==
    IF mask = held THEN events ELSE Append(events, [frame |-> frame, buttons |-> mask])

LEMMA SegmentStep ==
  ASSUME NEW id \in Paths, NEW f \in Nat, id.end <= f, NEW events, NEW mask \in Masks,
         Segment(id, events, f)
  PROVE  LET next == Journaled(events, ButtonsOf(id.inputs \o events), f, mask)
         IN  /\ Segment(id, next, f + 1)
             /\ ButtonsOf(id.inputs \o next) = mask
             /\ Held(id.inputs \o next, f) = Held(id.inputs \o events, f)
             /\ Held(id.inputs \o next, f + 1) = Append(Held(id.inputs \o events, f), mask)
  <1> DEFINE held == ButtonsOf(id.inputs \o events)
             e == [frame |-> f, buttons |-> mask]
             next == Journaled(events, held, f, mask)
             s == id.inputs \o events
             t == id.inputs \o next
  <1>1. /\ events \in Seq(Event) /\ Ordered(events) /\ From(events, id.end)
        /\ Before(events, f) /\ id.end \in Nat /\ f + 1 \in Nat /\ id.end <= f + 1
        /\ Len(events) \in Nat /\ \A i \in 1..Len(events) : events[i].frame \in Nat
    BY EventFields, PathFields DEF Segment
  <1>2. e \in Event /\ e.frame = f /\ e.buttons = mask
    BY DEF Event
  <1>3. CASE mask = held
    <2>1. next = events
      BY <1>3 DEF Journaled
    <2>2. Before(events, f + 1)
      BY <1>1 DEF Before
    <2>3. Segment(id, events, f + 1)
      BY <2>2 DEF Segment
    <2>4. s \in Seq(Event) /\ Ordered(s) /\ Before(s, f + 1)
      BY <1>1, <2>3, Extended
    <2>5. Held(s, f + 1) = Append(Held(s, f), held)
      BY <2>4, HeldNext
    <2> QED BY <1>3, <2>1, <2>3, <2>5
  <1>4. CASE mask # held
    <2>1. /\ next = Append(events, e) /\ next \in Seq(Event) /\ Len(next) = Len(events) + 1
          /\ next[Len(events) + 1] = e /\ next # <<>>
          /\ \A i \in 1..Len(events) : next[i] = events[i]
      BY <1>1, <1>2, <1>4 DEF Journaled
    <2> HIDE DEF next, e
    <2>2. Ordered(next)
      <3> SUFFICES ASSUME NEW i \in 1..Len(next), NEW j \in 1..Len(next), i < j
                   PROVE  next[i].frame < next[j].frame
        BY DEF Ordered
      <3>1. i \in 1..Len(events) /\ (j \in 1..Len(events) \/ j = Len(events) + 1)
        BY <1>1, <2>1
      <3>2. CASE j \in 1..Len(events)
        BY <1>1, <2>1, <3>1, <3>2 DEF Ordered
      <3>3. CASE j = Len(events) + 1
        BY <1>1, <1>2, <2>1, <3>1, <3>3 DEF Before
      <3> QED BY <3>1, <3>2, <3>3
    <2>3. From(next, id.end)
      <3> SUFFICES ASSUME NEW i \in 1..Len(next) PROVE id.end <= next[i].frame
        BY DEF From
      <3>1. i \in 1..Len(events) \/ i = Len(events) + 1
        BY <1>1, <2>1
      <3> QED BY <1>1, <1>2, <2>1, <3>1 DEF From
    <2>4. Before(next, f + 1)
      <3> SUFFICES ASSUME NEW i \in 1..Len(next) PROVE next[i].frame < f + 1
        BY DEF Before
      <3>1. i \in 1..Len(events) \/ i = Len(events) + 1
        BY <1>1, <2>1
      <3> QED BY <1>1, <1>2, <2>1, <3>1 DEF Before
    <2>5. held = IF events = <<>> THEN ButtonsOf(id.inputs) ELSE events[Len(events)].buttons
      BY Extended DEF Last
    <2> HIDE DEF held
    <2>6. ASSUME NEW i \in 1..Len(next)
          PROVE  next[i].buttons # IF i = 1 THEN ButtonsOf(id.inputs) ELSE next[i - 1].buttons
      <3>1. CASE i \in 1..Len(events)
        <4>1. i # 1 => i - 1 \in 1..Len(events)
          BY <3>1
        <4> QED BY <2>1, <3>1, <4>1 DEF Segment
      <3>2. CASE i = Len(events) + 1
        <4>1. next[i].buttons = mask
          BY <1>2, <2>1, <3>2
        <4>2. events = <<>> <=> i = 1
          BY <1>1, <3>2, EmptySeq
        <4>3. i # 1 => i - 1 = Len(events) /\ Len(events) \in 1..Len(events)
          BY <1>1, <3>2
        <4> QED BY <1>4, <2>1, <2>5, <4>1, <4>2, <4>3
      <3> QED BY <1>1, <2>1, <3>1, <3>2
    <2>7. Segment(id, next, f + 1)
      BY <2>1, <2>2, <2>3, <2>4, <2>6 DEF Segment
    <2>8. /\ t \in Seq(Event) /\ Ordered(t) /\ Before(t, f + 1)
          /\ ButtonsOf(t) = Last(next).buttons
      BY <1>1, <2>1, <2>7, Extended
    <2>9. ButtonsOf(t) = mask
      BY <1>2, <2>1, <2>8 DEF Last
    <2>10. s \in Seq(Event) /\ Ordered(s)
      BY Extended
    <2>11. Held(t, f) = Held(s, f)
      <3>1. /\ id.inputs \in Seq(Event) /\ Ordered(id.inputs) /\ Before(id.inputs, id.end)
        BY PathFields
      <3>2. /\ Len(s) = Len(id.inputs) + Len(events)
            /\ \A i \in 1..Len(id.inputs) : s[i] = id.inputs[i]
            /\ \A i \in 1..Len(events) : s[Len(id.inputs) + i] = events[i]
        BY <1>1, <3>1, Joined
      <3>3. /\ Len(t) = Len(id.inputs) + Len(next)
            /\ \A i \in 1..Len(id.inputs) : t[i] = id.inputs[i]
            /\ \A i \in 1..Len(next) : t[Len(id.inputs) + i] = next[i]
        <4>1. next \in Seq(Event) /\ id.end \in Nat
          BY <1>1, <2>1
        <4> QED BY <2>2, <2>3, <3>1, <4>1, Joined
      <3> HIDE DEF s, t
      <3>4. Len(id.inputs) \in Nat
        BY <3>1, EventFields
      <3>5. Len(t) = Len(s) + 1 /\ Len(s) \in Nat /\ t[Len(s) + 1].frame = f
        <4>1. Len(events) + 1 \in 1..Len(next)
          BY <1>1, <2>1
        <4>2. t[Len(id.inputs) + (Len(events) + 1)] = e
          BY <2>1, <3>3, <4>1
        <4>3. Len(events) \in Nat /\ Len(next) = Len(events) + 1
          BY <1>1, <2>1
        <4>4. Len(s) \in Nat /\ Len(id.inputs) + (Len(events) + 1) = Len(s) + 1
          <5> DEFINE a == Len(id.inputs)
                     b == Len(events)
                     c == Len(s)
          <5>1. a \in Nat /\ b \in Nat /\ c = a + b
            BY <3>2, <3>4, <4>3
          <5> HIDE DEF a, b, c
          <5>2. c \in Nat /\ a + (b + 1) = c + 1
            BY <5>1
          <5> QED BY <5>2 DEF a, b, c
        <4>5. Len(t) = Len(s) + 1
          BY <3>3, <4>3, <4>4
        <4> QED BY <1>2, <4>2, <4>4, <4>5
      <3>6. \A i \in 1..Len(s) : t[i] = s[i]
        <4> SUFFICES ASSUME NEW i \in 1..Len(s) PROVE t[i] = s[i]
          OBVIOUS
        <4>1. CASE i <= Len(id.inputs)
          BY <3>2, <3>3, <3>4, <4>1
        <4>2. CASE i > Len(id.inputs)
          <5> DEFINE j == i - Len(id.inputs)
          <5>1. j \in 1..Len(events) /\ j \in 1..Len(next) /\ Len(id.inputs) + j = i
            BY <1>1, <2>1, <3>2, <3>4, <4>2
          <5> HIDE DEF j
          <5>2. s[Len(id.inputs) + j] = events[j] /\ t[Len(id.inputs) + j] = next[j]
            BY <3>2, <3>3, <5>1
          <5> QED BY <2>1, <5>1, <5>2
        <4> QED BY <3>4, <4>1, <4>2
      <3>7. \A i \in (Len(s) + 1)..Len(t) : f <= t[i].frame
        BY <3>5
      <3>8. Len(s) <= Len(t)
        BY <3>5
      <3>9. s \in Seq(Event) /\ Ordered(s) /\ t \in Seq(Event) /\ Ordered(t)
        BY <2>8, <2>10 DEF s, t
      <3> QED BY <3>6, <3>7, <3>8, <3>9, HeldPrefix
    <2>12. Held(t, f + 1) = Append(Held(t, f), mask)
      BY <2>8, <2>9, HeldNext
    <2> QED BY <2>7, <2>9, <2>11, <2>12 DEF next, held, e
  <1> QED BY <1>3, <1>4

----------------------------------------------------------------------------
\* Node files derived from their parents.

NodeOf(id, events, end) ==
    [parent |-> id, end_frame |-> end, events |-> events, input_digest |-> id.inputs \o events,
     buttons |-> ButtonsOf(id.inputs \o events)]
Records(id, n) ==
    n.end_frame = id.end /\ n.input_digest = id.inputs /\ n.buttons = ButtonsOf(id.inputs)
Fit(id, n) ==
    /\ id \in Paths /\ n.parent \in Paths /\ n.parent.end < id.end
    /\ Segment(n.parent, n.events, id.end)
    /\ id = PathOf(n.parent, n.events, id.end)
    /\ n = NodeOf(n.parent, n.events, id.end)
\* Every node that is there is one that append derived; none misses its parent.
Fits(nodes) == \A id \in DOMAIN nodes : Fit(id, nodes[id])
Sound(nodes) == Fits(nodes) /\ \A id \in DOMAIN nodes : nodes[id].parent \in Ids(nodes)

LEMMA FitRecords ==
  ASSUME NEW id, NEW n, Fit(id, n)
  PROVE  id \in Paths /\ Records(id, n) /\ id # RootId
  <1>1. id \in Paths /\ n.parent \in Paths /\ n.parent.end < id.end
    BY DEF Fit
  <1>2. id.inputs = n.parent.inputs \o n.events
    <2> DEFINE m == PathOf(n.parent, n.events, id.end)
    <2>1. m.inputs = n.parent.inputs \o n.events
      BY DEF PathOf
    <2>2. id = m
      BY DEF Fit
    <2> HIDE DEF m
    <2> QED BY <2>1, <2>2
  <1>3. n.end_frame = id.end /\ n.input_digest = n.parent.inputs \o n.events
        /\ n.buttons = ButtonsOf(n.parent.inputs \o n.events)
    <2> DEFINE m == NodeOf(n.parent, n.events, id.end)
    <2>1. /\ m.end_frame = id.end /\ m.input_digest = n.parent.inputs \o n.events
          /\ m.buttons = ButtonsOf(n.parent.inputs \o n.events)
      BY DEF NodeOf
    <2>2. n = m
      BY DEF Fit
    <2> HIDE DEF m
    <2> QED BY <2>1, <2>2
  <1>4. n.parent.end \in Nat /\ id.end \in Nat
    BY <1>1, PathFields
  <1>5. id # RootId
    BY <1>1, <1>4, RootPath
  <1> QED BY <1>1, <1>2, <1>3, <1>5 DEF Records

LEMMA RootRecords == Records(RootId, Root)
  <1>1. RootId.inputs = <<>> /\ RootId.end = 0
    BY RootPath
  <1> QED BY <1>1 DEF Records, Root, ButtonsOf

LEMMA NodeIs ==
  ASSUME NEW nodes, Fits(nodes), NEW id \in Ids(nodes)
  PROVE  id \in Paths /\ Records(id, Node(nodes, id))
  <1>1. CASE id = RootId
    BY <1>1, RootPath, RootRecords DEF Node
  <1>2. CASE id # RootId
    <2>1. id \in DOMAIN nodes
      BY <1>2 DEF Ids
    <2>2. Fit(id, nodes[id])
      BY <2>1 DEF Fits
    <2> QED BY <1>2, <2>2, FitRecords DEF Node
  <1> QED BY <1>1, <1>2

\* A segment of a recorded path derives a node, and is accepted.
LEMMA Derives ==
  ASSUME NEW id \in Paths, NEW n, Records(id, n), NEW limit \in Nat, id.end <= limit,
         NEW events, Segment(id, events, limit)
  PROVE  /\ DerivedId(n, events, limit) = PathOf(id, events, limit)
         /\ DerivedNode(id, n, events, limit) = NodeOf(id, events, limit)
         /\ id.end < limit => /\ Canonical(n, events, limit)
                              /\ Fit(PathOf(id, events, limit), NodeOf(id, events, limit))
  <1>1. n.end_frame = id.end /\ n.input_digest = id.inputs /\ n.buttons = ButtonsOf(id.inputs)
    BY DEF Records
  <1>2. DerivedId(n, events, limit) = PathOf(id, events, limit)
    BY <1>1 DEF DerivedId, PathOf
  <1>3. ButtonsOf(id.inputs \o events) =
           IF events = <<>> THEN ButtonsOf(id.inputs) ELSE Last(events).buttons
    BY Extended
  <1>4. DerivedNode(id, n, events, limit) = NodeOf(id, events, limit)
    BY <1>1, <1>3 DEF DerivedNode, NodeOf
  <1>5. ASSUME id.end < limit
        PROVE  Canonical(n, events, limit)
    <2>1. Len(events) \in Nat /\ id.end \in Nat
      BY PathFields, EventFields DEF Segment
    <2>2. ASSUME NEW i \in 1..Len(events)
          PROVE  /\ id.end <= events[i].frame /\ events[i].frame < limit
                 /\ i > 1 => events[i - 1].frame < events[i].frame
                 /\ events[i].buttons # IF i = 1 THEN ButtonsOf(id.inputs)
                                        ELSE events[i - 1].buttons
      <3>1. i > 1 => i - 1 \in 1..Len(events) /\ i - 1 < i
        BY <2>1
      <3> QED BY <3>1 DEF Segment, From, Before, Ordered
    <2>3. limit > id.end
      BY <1>5, <2>1
    <2> QED BY <1>1, <2>2, <2>3 DEF Canonical
  <1>6. ASSUME id.end < limit
        PROVE  Fit(PathOf(id, events, limit), NodeOf(id, events, limit))
    <2> DEFINE i == PathOf(id, events, limit)
               m == NodeOf(id, events, limit)
    <2>1. i \in Paths /\ i.end = limit
      BY Extended DEF PathOf
    <2>2. m.parent = id /\ m.events = events
      BY DEF NodeOf
    <2>3. m = NodeOf(m.parent, m.events, i.end) /\ i = PathOf(m.parent, m.events, i.end)
      BY <2>1, <2>2
    <2> HIDE DEF i, m
    <2> QED BY <1>6, <2>1, <2>2, <2>3 DEF Fit, i, m
  <1> QED BY <1>2, <1>4, <1>5, <1>6

\* The link of a fit node to a parent that is there, as ancestry derives it again.
LEMMA LinkHolds ==
  ASSUME NEW nodes, Fits(nodes), NEW id \in DOMAIN nodes, nodes[id].parent \in Ids(nodes)
  PROVE  LET n == nodes[id]
             p == Node(nodes, nodes[id].parent)
         IN  /\ n.parent.end < id.end
             /\ Canonical(p, n.events, n.end_frame)
             /\ id = DerivedId(p, n.events, n.end_frame)
             /\ n = DerivedNode(n.parent, p, n.events, n.end_frame)
  <1> DEFINE n == nodes[id]
             p == Node(nodes, n.parent)
  <1>1. Fit(id, n) /\ n.parent \in Ids(nodes)
    BY DEF Fits
  <1>2. n.parent \in Paths /\ Records(n.parent, p)
    BY <1>1, NodeIs
  <1>3. n.end_frame = id.end /\ id.end \in Nat /\ n.parent.end \in Nat
    BY <1>1, <1>2, FitRecords, PathFields DEF Records
  <1> HIDE DEF n, p
  <1>4. /\ n.parent.end < id.end /\ Segment(n.parent, n.events, id.end)
        /\ id = PathOf(n.parent, n.events, id.end) /\ n = NodeOf(n.parent, n.events, id.end)
    BY <1>1 DEF Fit
  <1>5. n.parent.end <= id.end
    BY <1>3, <1>4
  <1>6. /\ DerivedId(p, n.events, id.end) = PathOf(n.parent, n.events, id.end)
        /\ DerivedNode(n.parent, p, n.events, id.end) = NodeOf(n.parent, n.events, id.end)
        /\ Canonical(p, n.events, id.end)
    BY <1>2, <1>3, <1>4, <1>5, Derives
  <1> QED BY <1>1, <1>3, <1>4, <1>6 DEF n, p

\* Sets of identifiers that hold the parents of their members, and all of them.
Rooted(nodes) == {S \in SUBSET Ids(nodes) : \A i \in S : i = RootId \/ nodes[i].parent \in S}
Anchored(nodes) == UNION Rooted(nodes)

LEMMA AnchoredIs ==
  ASSUME NEW nodes
  PROVE  /\ Anchored(nodes) \subseteq Ids(nodes) /\ RootId \in Anchored(nodes)
         /\ \A i \in Ids(nodes) \ {RootId} :
               i \in Anchored(nodes) <=> nodes[i].parent \in Anchored(nodes)
  <1>1. Anchored(nodes) \subseteq Ids(nodes)
    BY DEF Anchored, Rooted
  <1>2. RootId \in Anchored(nodes)
    <2>1. {RootId} \in Rooted(nodes)
      BY DEF Rooted, Ids
    <2> QED BY <2>1 DEF Anchored
  <1>3. ASSUME NEW i \in Anchored(nodes), i # RootId PROVE nodes[i].parent \in Anchored(nodes)
    <2>1. PICK S \in Rooted(nodes) : i \in S
      BY DEF Anchored
    <2>2. nodes[i].parent \in S
      BY <1>3, <2>1 DEF Rooted
    <2> QED BY <2>1, <2>2 DEF Anchored
  <1>4. ASSUME NEW i \in Ids(nodes), nodes[i].parent \in Anchored(nodes)
        PROVE  i \in Anchored(nodes)
    <2>1. PICK S \in Rooted(nodes) : nodes[i].parent \in S
      BY <1>4 DEF Anchored
    <2> DEFINE T == S \cup {i}
    <2>2. S \in SUBSET Ids(nodes) /\ \A j \in S : j = RootId \/ nodes[j].parent \in S
      BY <2>1 DEF Rooted
    <2>3. \A j \in T : j = RootId \/ nodes[j].parent \in T
      BY <2>1, <2>2
    <2>4. T \in Rooted(nodes)
      BY <2>2, <2>3 DEF Rooted
    <2> QED BY <2>4 DEF Anchored
  <1> QED BY <1>1, <1>2, <1>3, <1>4

\* What ancestry computes of fit nodes: an identifier validates when it is the
\* root or its parent validates.  Nodes may be missing.
THEOREM Validates ==
  ASSUME NEW nodes, Fits(nodes)
  PROVE  /\ Resolves(nodes, RootId)
         /\ \A id \in DOMAIN nodes : /\ id # RootId
                                     /\ Resolves(nodes, id) <=> Resolves(nodes, nodes[id].parent)
  <1> DEFINE link(i, n, parent) == /\ Canonical(parent, n.events, n.end_frame)
                                   /\ i = DerivedId(parent, n.events, n.end_frame)
                                   /\ n = DerivedNode(n.parent, parent, n.events, n.end_frame)
             next(v, i) == IF i = RootId THEN TRUE
                           ELSE /\ nodes[i].parent \in Ids(nodes)
                                /\ nodes[i].parent.end < i.end
                                /\ link(i, nodes[i], Node(nodes, nodes[i].parent))
                                /\ v[nodes[i].parent]
             valid == CHOOSE v : v = [i \in Ids(nodes) |-> next(v, i)]
             known == [i \in Ids(nodes) |-> IF i \in Anchored(nodes) THEN TRUE ELSE FALSE]
  <1>1. Ancestry(nodes) = valid
    BY Zenon DEF Ancestry
  <1>2. ASSUME NEW i \in Ids(nodes), i # RootId, nodes[i].parent \in Ids(nodes)
        PROVE  /\ nodes[i].parent.end < i.end
               /\ link(i, nodes[i], Node(nodes, nodes[i].parent))
    <2>1. i \in DOMAIN nodes
      BY <1>2 DEF Ids
    <2> QED BY <1>2, <2>1, LinkHolds
  <1> HIDE DEF link
  <1>3. known = [i \in Ids(nodes) |-> next(known, i)]
    <2>1. ASSUME NEW i \in Ids(nodes) PROVE known[i] = next(known, i)
      <3>1. CASE i = RootId
        BY <3>1, AnchoredIs
      <3>2. CASE i # RootId /\ nodes[i].parent \notin Ids(nodes)
        <4>1. i \notin Anchored(nodes)
          BY <3>2, AnchoredIs
        <4>2. known[i] = FALSE
          BY <4>1
        <4> HIDE DEF known
        <4>3. next(known, i) = FALSE
          BY <3>2, Zenon
        <4> QED BY <4>2, <4>3
      <3>3. CASE i # RootId /\ nodes[i].parent \in Ids(nodes)
        <4>1. i \in Anchored(nodes) <=> nodes[i].parent \in Anchored(nodes)
          BY <3>3, AnchoredIs
        <4>2. CASE i \in Anchored(nodes)
          <5>1. known[i] = TRUE /\ known[nodes[i].parent] = TRUE
            BY <3>3, <4>1, <4>2
          <5> HIDE DEF known
          <5>2. next(known, i) = TRUE
            BY <1>2, <3>3, <5>1, Zenon
          <5> QED BY <5>1, <5>2
        <4>3. CASE i \notin Anchored(nodes)
          <5>1. known[i] = FALSE /\ known[nodes[i].parent] = FALSE
            BY <3>3, <4>1, <4>3
          <5> HIDE DEF known
          <5>2. next(known, i) = FALSE
            BY <3>3, <5>1, Zenon
          <5> QED BY <5>1, <5>2
        <4> QED BY <4>2, <4>3
      <3> QED BY <3>1, <3>2, <3>3
    <2> HIDE DEF next
    <2> QED BY <2>1
  <1>4. valid = [i \in Ids(nodes) |-> next(valid, i)]
    <2> HIDE DEF next, known
    <2> QED BY <1>3
  <1> HIDE DEF valid
  <1>5. \A i \in Ids(nodes) : valid[i] = next(valid, i)
    <2> HIDE DEF next
    <2> QED BY <1>4
  <1>6. Resolves(nodes, RootId)
    <2>1. RootId \in Ids(nodes)
      BY DEF Ids
    <2>2. valid[RootId]
      BY <1>5, <2>1
    <2> QED BY <1>1, <2>1, <2>2 DEF Resolves
  <1>7. ASSUME NEW id \in DOMAIN nodes
        PROVE  id # RootId /\ (Resolves(nodes, id) <=> Resolves(nodes, nodes[id].parent))
    <2>1. id \in Ids(nodes) /\ id # RootId
      BY FitRecords DEF Fits, Ids
    <2>2. valid[id] = next(valid, id)
      BY <1>5, <2>1
    <2>3. valid[id] <=> nodes[id].parent \in Ids(nodes) /\ valid[nodes[id].parent]
      BY <1>2, <2>1, <2>2
    <2> QED BY <1>1, <2>1, <2>3 DEF Resolves
  <1> QED BY <1>6, <1>7

\* Ancestry validates every chain of a store that misses no parent.
THEOREM AncestryHolds ==
  ASSUME NEW nodes, Sound(nodes), NEW id \in Ids(nodes)
  PROVE  Resolves(nodes, id)
  <1> DEFINE T == {i.end : i \in {j \in Ids(nodes) : ~Resolves(nodes, j)}}
  <1>0. Fits(nodes) /\ \A i \in DOMAIN nodes : nodes[i].parent \in Ids(nodes)
    BY DEF Sound
  <1>1. \A i \in Ids(nodes) : i.end \in Nat
    BY <1>0, NodeIs, PathFields
  <1>2. T = {}
    <2> SUFFICES ASSUME T # {} PROVE FALSE
      OBVIOUS
    <2>1. T \in SUBSET Nat
      BY <1>1
    <2>2. PICK e \in T : \A y \in T : e <= y
      <3> HIDE DEF T
      <3> QED BY <2>1, LeastExists
    <2>3. PICK i \in Ids(nodes) : ~Resolves(nodes, i) /\ i.end = e
      OBVIOUS
    <2>4. i \in DOMAIN nodes
      BY <1>0, <2>3, Validates DEF Ids
    <2>5. nodes[i].parent \in Ids(nodes) /\ ~Resolves(nodes, nodes[i].parent)
      BY <1>0, <2>3, <2>4, Validates
    <2>6. nodes[i].parent.end < i.end
      BY <1>0, <2>4, <2>5, LinkHolds
    <2>7. e <= nodes[i].parent.end /\ nodes[i].parent.end \in Nat /\ e \in Nat
      BY <1>1, <2>1, <2>2, <2>5
    <2> QED BY <2>3, <2>6, <2>7
  <1> QED BY <1>2

\* A chain that validates flattens to the inputs its id digests.
THEOREM FlattenIs ==
  ASSUME NEW nodes, Fits(nodes), NEW id, Resolves(nodes, id)
  PROVE  Flatten(nodes, id) = id.inputs
  <1> DEFINE Valid == {j \in Ids(nodes) : Ancestry(nodes)[j]}
             next(h, i) == IF i = RootId THEN <<>> ELSE h[nodes[i].parent] \o nodes[i].events
             flat == CHOOSE h : h = [i \in Valid |-> next(h, i)]
             known == [i \in Valid |-> i.inputs]
  <1>1. Flatten(nodes, id) = flat[id]
    BY Zenon DEF Flatten
  <1>2. \A i : i \in Valid <=> Resolves(nodes, i)
    BY DEF Resolves
  <1> HIDE DEF Valid
  <1>3. ASSUME NEW i \in Valid, i # RootId
        PROVE  /\ nodes[i].parent \in Valid /\ nodes[i].parent.end < i.end
               /\ i.inputs = nodes[i].parent.inputs \o nodes[i].events
    <2>1. i \in DOMAIN nodes
      BY <1>2, <1>3 DEF Resolves, Ids
    <2>2. Fit(i, nodes[i]) /\ nodes[i].parent \in Valid
      BY <1>2, <2>1, Validates DEF Fits
    <2> DEFINE m == PathOf(nodes[i].parent, nodes[i].events, i.end)
    <2>3. m.inputs = nodes[i].parent.inputs \o nodes[i].events
      BY DEF PathOf
    <2>4. i = m /\ nodes[i].parent.end < i.end
      BY <2>2 DEF Fit
    <2> HIDE DEF m
    <2> QED BY <2>2, <2>3, <2>4
  <1>4. known = [i \in Valid |-> next(known, i)]
    <2>1. ASSUME NEW i \in Valid PROVE known[i] = next(known, i)
      <3>1. CASE i = RootId
        BY <3>1, RootPath
      <3>2. CASE i # RootId
        BY <1>3, <3>2
      <3> QED BY <3>1, <3>2
    <2> HIDE DEF next
    <2> QED BY <2>1
  <1>5. flat = [i \in Valid |-> next(flat, i)]
    <2> HIDE DEF next, known
    <2> QED BY <1>4
  <1> HIDE DEF flat
  <1>6. \A i \in Valid : flat[i] = next(flat, i)
    <2> HIDE DEF next
    <2> QED BY <1>5
  <1>7. \A i \in Valid : i.end \in Nat
    BY <1>2, NodeIs, PathFields DEF Resolves
  <1>8. \A i \in Valid : flat[i] = i.inputs
    <2> DEFINE T == {i.end : i \in {j \in Valid : flat[j] # j.inputs}}
    <2> SUFFICES ASSUME T # {} PROVE FALSE
      OBVIOUS
    <2>1. T \in SUBSET Nat
      BY <1>7
    <2>2. PICK e \in T : \A y \in T : e <= y
      <3> HIDE DEF T
      <3> QED BY <2>1, LeastExists
    <2>3. PICK i \in Valid : flat[i] # i.inputs /\ i.end = e
      OBVIOUS
    <2>4. i # RootId
      BY <1>6, <2>3, RootPath
    <2>5. /\ nodes[i].parent \in Valid /\ nodes[i].parent.end < i.end
          /\ i.inputs = nodes[i].parent.inputs \o nodes[i].events
      BY <1>3, <2>4
    <2>6. flat[nodes[i].parent] = nodes[i].parent.inputs
      <3> SUFFICES ASSUME flat[nodes[i].parent] # nodes[i].parent.inputs PROVE FALSE
        OBVIOUS
      <3>1. nodes[i].parent.end \in T
        BY <2>5
      <3>2. e <= nodes[i].parent.end /\ nodes[i].parent.end \in Nat /\ e \in Nat
        BY <1>7, <2>1, <2>2, <2>5, <3>1
      <3> QED BY <2>3, <2>5, <3>2
    <2> QED BY <1>6, <2>3, <2>4, <2>5, <2>6
  <1>9. id \in Valid
    BY <1>2
  <1> QED BY <1>1, <1>8, <1>9
====
