---- MODULE HistoryVerificationProofs ----
(***************************************************************************)
(* Proofs about HistoryVerification: what a verdict covers, for every      *)
(* number of comparisons, length of history, edit of the tree and fault    *)
(* of a worker, with and without --tree.                                   *)
(***************************************************************************)
EXTENDS HistoryVerification, SequenceTheorems, WellFoundedInduction, TLAPS

----------------------------------------------------------------------------
\* The first difference of two streams.

LEMMA LeastOf ==
  ASSUME NEW T \in SUBSET Nat, T # {}
  PROVE  Min(T) \in T /\ \A y \in T : Min(T) <= y
  <1>1. PICK x \in T : \A y \in T : ~(<<y, x>> \in OpToRel(<, Nat))
    <2>1. IsWellFoundedOn(OpToRel(<, Nat), Nat)
      BY NatLessThanWellFounded
    <2> HIDE DEF OpToRel
    <2> QED BY <2>1, WFMin
  <1>2. \A y \in T : x <= y
    <2> SUFFICES ASSUME NEW y \in T, ~(x <= y) PROVE FALSE
      OBVIOUS
    <2>1. x \in Nat /\ y \in Nat /\ y < x
      OBVIOUS
    <2>2. <<y, x>> \in {ss \in Nat \X Nat : ss[1] < ss[2]}
      BY <2>1
    <2>3. <<y, x>> \in OpToRel(<, Nat)
      BY <2>2, Zenon DEF OpToRel
    <2> QED BY <1>1, <2>3
  <1> QED BY <1>2 DEF Min

LEMMA MaxOfTwo ==
  ASSUME NEW n \in Nat, NEW m \in Nat
  PROVE  Max({n, m}) = IF n >= m THEN n ELSE m
  <1> DEFINE P(x) == x \in {n, m} /\ \A y \in {n, m} : x >= y
             z == IF n >= m THEN n ELSE m
  <1>1. P(z)
    OBVIOUS
  <1>2. \A x : P(x) => x = z
    OBVIOUS
  <1>3. Max({n, m}) = CHOOSE x : P(x)
    BY Zenon DEF Max
  <1> HIDE DEF P, z
  <1>4. P(CHOOSE x : P(x))
    BY <1>1
  <1> QED BY <1>2, <1>3, <1>4 DEF z

\* What one frame's observation depends on.
Seen == [shared : Nat, native : Nat, nodes : Nat, wrong : BOOLEAN]

Differ(a, b, n) == {i \in 1..n : i > Len(a) \/ i > Len(b) \/ a[i] # b[i]}

LEMMA FirstOf ==
  ASSUME NEW a, NEW b, Len(a) \in Nat, Len(b) \in Nat,
         NEW n \in Nat, n = IF Len(a) >= Len(b) THEN Len(a) ELSE Len(b)
  PROVE  /\ FirstDifference(a, b) = 0 <=> Differ(a, b, n) = {}
         /\ Differ(a, b, n) # {} => /\ FirstDifference(a, b) \in Differ(a, b, n)
                                    /\ \A i \in Differ(a, b, n) : FirstDifference(a, b) <= i
  <1>1. Max({Len(a), Len(b)}) = n
    BY MaxOfTwo
  <1>2. FirstDifference(a, b) = IF Differ(a, b, n) = {} THEN 0 ELSE Min(Differ(a, b, n))
    BY <1>1, Zenon DEF FirstDifference, Differ
  <1>3. Differ(a, b, n) \in SUBSET Nat /\ 0 \notin Differ(a, b, n)
    BY DEF Differ
  <1> QED BY <1>2, <1>3, LeastOf

\* Two whole streams.
LEMMA WholeDiffer ==
  ASSUME NEW a \in [1..Frames -> Seen], NEW b \in [1..Frames -> Seen]
  PROVE  /\ FirstDifference(a, b) \in 0..Frames
         /\ FirstDifference(a, b) # 0 =>
               /\ a[FirstDifference(a, b)] # b[FirstDifference(a, b)]
               /\ \A i \in 1..Frames : i < FirstDifference(a, b) => a[i] = b[i]
         /\ FirstDifference(a, a) = 0
  <1>1. Frames \in Nat /\ Frames > 0
    BY VerificationAssumption
  <1>2. Len(a) = Frames /\ Len(b) = Frames
    BY <1>1
  <1>3. Differ(a, b, Frames) = {i \in 1..Frames : a[i] # b[i]} /\ Differ(a, a, Frames) = {}
    BY <1>1, <1>2 DEF Differ
  <1>4. /\ FirstDifference(a, b) = 0 <=> Differ(a, b, Frames) = {}
        /\ Differ(a, b, Frames) # {} =>
              /\ FirstDifference(a, b) \in Differ(a, b, Frames)
              /\ \A i \in Differ(a, b, Frames) : FirstDifference(a, b) <= i
        /\ FirstDifference(a, a) = 0
    <2>1. Frames = IF Len(a) >= Len(b) THEN Len(a) ELSE Len(b)
      BY <1>1, <1>2
    <2>2. Frames = IF Len(a) >= Len(a) THEN Len(a) ELSE Len(a)
      BY <1>1, <1>2
    <2> QED BY <1>1, <1>2, <1>3, <2>1, <2>2, FirstOf
  <1>5. CASE Differ(a, b, Frames) = {}
    BY <1>1, <1>4, <1>5
  <1>6. CASE Differ(a, b, Frames) # {}
    <2> DEFINE d == FirstDifference(a, b)
    <2>1. d \in 1..Frames /\ a[d] # b[d] /\ d # 0
      BY <1>3, <1>4, <1>6
    <2>2. \A i \in 1..Frames : i < d => a[i] = b[i]
      <3> SUFFICES ASSUME NEW i \in 1..Frames, i < d, a[i] # b[i] PROVE FALSE
        OBVIOUS
      <3>1. i \in Differ(a, b, Frames)
        BY <1>3
      <3>2. d <= i
        BY <1>4, <1>6, <3>1
      <3> QED BY <1>1, <2>1, <3>2
    <2> QED BY <1>1, <1>4, <2>1, <2>2
  <1> QED BY <1>5, <1>6

\* A stream cut at its first difference differs there first.
LEMMA CutDiffers ==
  ASSUME NEW a \in [1..Frames -> Seen], NEW b \in [1..Frames -> Seen],
         FirstDifference(a, b) # 0
  PROVE  /\ FirstDifference(a, SubSeq(b, 1, FirstDifference(a, b))) = FirstDifference(a, b)
         /\ SubSeq(b, 1, FirstDifference(a, b)) \in Seq(Seen)
  <1> DEFINE d == FirstDifference(a, b)
             t == SubSeq(b, 1, d)
  <1>1. Frames \in Nat /\ Frames > 0 /\ Len(a) = Frames
    BY VerificationAssumption
  <1>2. /\ d \in 1..Frames /\ d \in Int
        /\ a[d] # b[d] /\ \A i \in 1..Frames : i < d => a[i] = b[i]
    BY <1>1, WholeDiffer
  <1> HIDE DEF d
  <1>3. /\ t \in Seq(Seen) /\ Len(t) = d /\ \A i \in 1..d : t[i] = b[i]
    <2>1. \A i \in 1..d : b[i] \in Seen
      BY <1>1, <1>2
    <2>2. /\ t \in Seq(Seen) /\ Len(t) = IF 1 <= d THEN d - 1 + 1 ELSE 0
          /\ \A i \in 1..(d - 1 + 1) : t[i] = b[1 + i - 1]
      BY <1>2, <2>1, SubSeqProperties
    <2>3. d - 1 + 1 = d /\ \A i \in 1..d : 1 + i - 1 = i
      BY <1>2
    <2> QED BY <1>2, <2>2, <2>3
  <1> HIDE DEF t
  <1>4. Frames = IF Len(a) >= Len(t) THEN Len(a) ELSE Len(t)
    BY <1>1, <1>2, <1>3
  <1>5. d \in Differ(a, t, Frames)
    BY <1>1, <1>2, <1>3 DEF Differ
  <1>6. \A i \in Differ(a, t, Frames) : d <= i
    <2> SUFFICES ASSUME NEW i \in 1..Frames, i < d PROVE i \notin Differ(a, t, Frames)
      BY <1>2 DEF Differ
    <2>1. t[i] = b[i] /\ a[i] = b[i] /\ i <= Len(a) /\ i <= Len(t)
      BY <1>1, <1>2, <1>3
    <2> QED BY <1>1, <1>2, <1>3, <2>1 DEF Differ
  <1>7. /\ FirstDifference(a, t) \in Differ(a, t, Frames)
        /\ \A i \in Differ(a, t, Frames) : FirstDifference(a, t) <= i
    BY <1>1, <1>2, <1>3, <1>4, <1>5, FirstOf
  <1>8. FirstDifference(a, t) = d
    <2>1. FirstDifference(a, t) <= d /\ d <= FirstDifference(a, t) /\ FirstDifference(a, t) \in Int
      BY <1>5, <1>6, <1>7 DEF Differ
    <2> QED BY <1>2, <2>1
  <1> QED BY <1>3, <1>8 DEF t, d

----------------------------------------------------------------------------
\* The types of the state, and the parts of the invariant, as predicates of
\* values: a comparison x, its workers w, a payload p, the nodes g of the graph.

Trees == [Parts -> Nat]
Keys == [shared : Nat, native : Nat, nodes : Nat]
Payloads == [status : {"COMPLETED", "DIVERGED"}, stream : Seq(Seen), nodes : Nat,
             hits : BOOLEAN, receipt : Trees]
ComparisonType ==
    [stage : Stages, candidate : {"original", "recovered"}, parallel : BOOLEAN,
     refresh : BOOLEAN, expect : {"pass", "divergence"}, nodes : Nat, receipt : Trees,
     cached : BOOLEAN, payload : [Roles -> Payloads \cup {NoPayload}],
     status : Statuses, first : 0..Frames]
WorkerStages == {"none", "started", "imported", "read", "finished"} \cup Failures
WorkerType == [stage : WorkerStages, code : Trees, start : Trees, nodes : Nat]

Below(a, b) == \A part \in Parts : a[part] <= b[part]
KeyOf(x) == [shared |-> x.receipt.shared, native |-> x.receipt.native, nodes |-> x.nodes]
ChoiceOf(x, role) == IF role = "reference" THEN "original" ELSE x.candidate
TruthOf(x) == FirstDifference(Stream(x.receipt, "original", x.nodes),
                              Stream(x.receipt, x.candidate, x.nodes))

\* One of the runs the bytes of an entry come from, or of a temporary of one.
Entry(k, p, g) ==
    /\ k \in Keys /\ 1 <= k.nodes /\ k.nodes <= g
    /\ p \in Payloads /\ 1 <= p.nodes /\ p.nodes <= g
    /\ p.stream = Stream(k, "original", p.nodes)

\* The payload is what the tree "code" observes, or the candidate's is that up
\* to the frame it leaves the original's.
OfCode(x, role, p, code, g) ==
    /\ p \in Payloads /\ x.nodes <= p.nodes /\ p.nodes <= g
    /\ role = "candidate" => p.hits = Hits(code, x.candidate)
    /\ \/ p.stream = Stream(code, ChoiceOf(x, role), p.nodes)
       \/ /\ role = "candidate"
          /\ LET cut == FirstDifference(Stream(x.receipt, "original", p.nodes),
                                        Stream(code, x.candidate, p.nodes))
             IN  cut # 0 /\ p.stream = SubSeq(Stream(code, x.candidate, p.nodes), 1, cut)
Made(x, role, p, g) ==
    \E code \in Trees : /\ Below(x.receipt, code) /\ Below(code, p.receipt)
                        /\ OfCode(x, role, p, code, g)
Sound(x, role, g) == OfCode(x, role, x.payload[role], x.receipt, g)

\* A worker runs a tree no older than the receipt and no newer than the tree.
Running(x, w, role, g, src) ==
    /\ w.stage \in {"imported", "read"} => Below(x.receipt, w.code) /\ Below(w.code, src)
    /\ w.stage = "read" => x.nodes <= w.nodes /\ w.nodes <= g
    /\ w.stage = "finished" => Made(x, role, x.payload[role], g)

Right(x, w) ==
    /\ x.status \in {"PASS", "NOT_EXERCISED", "DIVERGENCE"} =>
          /\ x.first = TruthOf(x)
          /\ \A role \in Roles : x.payload[role].nodes = x.nodes
    /\ x.status = "PASS" => TruthOf(x) = 0
          /\ (x.candidate = "original" \/ x.receipt.game \notin Idle)
    /\ x.status = "DIVERGENCE" => TruthOf(x) # 0
    /\ x.status = "CANDIDATE_ERROR" => w["reference"].stage \notin Failures

Good(x, w, g, src, dom) ==
    /\ (x.status # "none") = (x.stage = "done")
    /\ x.stage \notin {"idle", "dead"} => 1 <= x.nodes /\ x.nodes <= g
    /\ Below(x.receipt, src)
    /\ x.stage = "running" =>
          /\ x.cached => /\ Sound(x, "reference", g) /\ KeyOf(x) \in dom
                         /\ w["reference"].stage = "none"
          /\ \A role \in Roles : Running(x, w[role], role, g, src)
    /\ x.stage \in {"storing", "writing", "replacing", "judging"} =>
          \A role \in Roles : Sound(x, role, g)
    /\ x.stage = "done" => Right(x, w)

TypeInv ==
    /\ source \in Trees /\ edits \in Nat /\ edits <= MaxEdits
    /\ \A part \in Parts : 1 <= source[part] /\ source[part] <= edits + 1
    /\ graph \in Nat /\ 1 <= graph /\ graph <= MaxNodes /\ (Tree \/ graph = 1)
    /\ comparison \in [Comparisons -> ComparisonType]
    /\ worker \in [Comparisons -> [Roles -> WorkerType]]
CacheInv ==
    /\ \A k \in DOMAIN oracle : \A e \in oracle[k] : Entry(k, e.run, graph)
    /\ \A k \in DOMAIN oracleTmp : \A e \in oracleTmp[k] : Entry(k, e.run, graph)

\* Only a comparison that writes has a file open, and the name it had still is one.
OpenInv ==
    /\ open \in [Comparisons -> {"none", "tmp", "entry", "gone"}]
    /\ \A c \in Comparisons :
          /\ open[c] # "none" => comparison[c].stage = "writing"
          /\ open[c] = "tmp" => KeyOf(comparison[c]) \in DOMAIN oracleTmp
          /\ open[c] = "entry" => KeyOf(comparison[c]) \in DOMAIN oracle
IInv == /\ TypeInv /\ CacheInv /\ OpenInv
        /\ \A c \in Comparisons :
              Good(comparison[c], worker[c], graph, source, DOMAIN oracle)

----------------------------------------------------------------------------
\* Streams.

LEMMA StreamType ==
  ASSUME NEW code, code.shared \in Nat, code.native \in Nat, NEW choice, NEW n \in Nat
  PROVE  /\ Stream(code, choice, n) \in [1..Frames -> Seen]
         /\ Stream(code, choice, n) \in Seq(Seen)
         /\ Len(Stream(code, choice, n)) = Frames
  <1>1. Frames \in Nat /\ Frames > 0
    BY VerificationAssumption
  <1> DEFINE e(f) == [shared |-> code.shared, native |-> code.native, nodes |-> n,
                      wrong |-> choice = "recovered" /\ code.game \in DOMAIN Diverges
                                /\ f >= Diverges[code.game]]
  <1>2. \A f \in 1..Frames : e(f) \in Seen
    BY DEF Seen
  <1>3. Stream(code, choice, n) = [f \in 1..Frames |-> e(f)]
    BY DEF Stream
  <1> HIDE DEF e
  <1>4. Stream(code, choice, n) \in [1..Frames -> Seen]
    BY <1>2, <1>3
  <1> QED BY <1>1, <1>4

\* An original run executes neither the game's code nor its versions.
LEMMA OriginalStream ==
  ASSUME NEW a, NEW b, a.shared = b.shared, a.native = b.native, NEW n
  PROVE  Stream(a, "original", n) = Stream(b, "original", n)
  BY DEF Stream

LEMMA TreeFields ==
  ASSUME NEW a \in Trees
  PROVE  a.shared \in Nat /\ a.native \in Nat /\ a.game \in Nat
  BY DEF Trees, Parts

LEMMA BelowOrder ==
  ASSUME NEW a \in Trees, NEW b \in Trees, NEW d \in Trees
  PROVE  /\ Below(a, a)
         /\ Below(a, b) /\ Below(b, d) => Below(a, d)
         /\ Below(a, b) /\ Below(b, a) => a = b
  BY DEF Trees, Below

LEMMA KeyType ==
  ASSUME NEW x \in ComparisonType
  PROVE  /\ KeyOf(x) \in Keys /\ KeyOf(x).nodes = x.nodes
         /\ \A n : Stream(KeyOf(x), "original", n) = Stream(x.receipt, "original", n)
  <1>1. x.receipt.shared \in Nat /\ x.receipt.native \in Nat /\ x.nodes \in Nat
    BY TreeFields DEF ComparisonType
  <1>2. KeyOf(x).shared = x.receipt.shared /\ KeyOf(x).native = x.receipt.native
    BY DEF KeyOf
  <1> QED BY <1>1, <1>2, OriginalStream DEF KeyOf, Keys

----------------------------------------------------------------------------
\* Nodes, edits and cache entries are only added.

LEMMA EntryLater ==
  ASSUME NEW k, NEW p, NEW g \in Nat, NEW h \in Nat, g <= h, Entry(k, p, g)
  PROVE  Entry(k, p, h)
  BY DEF Entry, Keys, Payloads

LEMMA OfCodeLater ==
  ASSUME NEW x, NEW role, NEW p, NEW code, NEW g \in Nat, NEW h \in Nat, g <= h,
         OfCode(x, role, p, code, g)
  PROVE  OfCode(x, role, p, code, h)
  <1>1. p.nodes \in Nat
    BY DEF OfCode, Payloads
  <1> QED BY <1>1 DEF OfCode

LEMMA GoodLater ==
  ASSUME NEW x \in ComparisonType, NEW w \in [Roles -> WorkerType],
         NEW g \in Nat, NEW h \in Nat, g <= h,
         NEW src \in Trees, NEW new \in Trees, Below(src, new),
         NEW dom, NEW more, dom \subseteq more,
         Good(x, w, g, src, dom)
  PROVE  Good(x, w, h, new, more)
  <1>1. x.nodes \in Nat /\ x.receipt \in Trees
    BY DEF ComparisonType
  <1>2. Below(x.receipt, new)
    BY <1>1, BelowOrder DEF Good
  <1>3. \A role \in Roles : Sound(x, role, g) => Sound(x, role, h)
    BY OfCodeLater DEF Sound
  <1>4. \A role \in Roles : Made(x, role, x.payload[role], g) => Made(x, role, x.payload[role], h)
    BY OfCodeLater DEF Made
  <1>5. \A role \in Roles : Running(x, w[role], role, g, src) => Running(x, w[role], role, h, new)
    <2> SUFFICES ASSUME NEW role \in Roles, Running(x, w[role], role, g, src)
                 PROVE  Running(x, w[role], role, h, new)
      OBVIOUS
    <2>1. w[role].code \in Trees /\ w[role].nodes \in Nat
      BY DEF WorkerType
    <2>2. Below(w[role].code, src) => Below(w[role].code, new)
      BY <2>1, BelowOrder
    <2>3. w[role].nodes <= g => w[role].nodes <= h
      BY <2>1
    <2> QED BY <1>4, <2>2, <2>3, Zenon DEF Running
  <1>6. x.nodes <= g => x.nodes <= h
    BY <1>1
  <1>7. "reference" \in Roles
    BY DEF Roles
  <1> QED BY <1>2, <1>3, <1>5, <1>6, <1>7, Zenon DEF Good

\* A step of one comparison and its workers, which may add to the cache.
LEMMA StepOfOne ==
  ASSUME IInv, NEW c \in Comparisons, CacheInv', OpenInv',
         UNCHANGED <<source, edits, graph>>, DOMAIN oracle \subseteq DOMAIN oracle',
         comparison' \in [Comparisons -> ComparisonType],
         worker' \in [Comparisons -> [Roles -> WorkerType]],
         \A d \in Comparisons \ {c} : comparison'[d] = comparison[d] /\ worker'[d] = worker[d],
         Good(comparison'[c], worker'[c], graph, source, DOMAIN oracle')
  PROVE  IInv'
  <1>1. TypeInv'
    BY DEF IInv, TypeInv
  <1>2. ASSUME NEW d \in Comparisons
        PROVE  Good(comparison[d], worker[d], graph, source, DOMAIN oracle)'
    <2>1. CASE d = c
      BY <2>1
    <2>2. CASE d # c
      <3>1. Good(comparison[d], worker[d], graph, source, DOMAIN oracle)
        BY DEF IInv
      <3>2. comparison[d] \in ComparisonType /\ worker[d] \in [Roles -> WorkerType]
        BY DEF IInv, TypeInv
      <3>3. graph \in Nat /\ graph <= graph /\ source \in Trees
        BY DEF IInv, TypeInv
      <3>4. Below(source, source)
        BY <3>3, BelowOrder
      <3>5. Good(comparison[d], worker[d], graph, source, DOMAIN oracle')
        BY <3>1, <3>2, <3>3, <3>4, GoodLater
      <3> QED BY <2>2, <3>5
    <2> QED BY <2>1, <2>2
  <1> QED BY <1>1, <1>2 DEF IInv

\* A step of one comparison that leaves the cache alone.
LEMMA StepOutsideCache ==
  ASSUME IInv, NEW c \in Comparisons, comparison[c].stage # "writing",
         UNCHANGED <<source, edits, graph, cache>>,
         comparison' \in [Comparisons -> ComparisonType],
         worker' \in [Comparisons -> [Roles -> WorkerType]],
         \A d \in Comparisons \ {c} : comparison'[d] = comparison[d] /\ worker'[d] = worker[d],
         Good(comparison'[c], worker'[c], graph, source, DOMAIN oracle)
  PROVE  IInv'
  <1>1. CacheInv'
    BY DEF IInv, CacheInv, cache
  <1>2. OpenInv'
    <2>1. open[c] = "none" /\ open' = open /\ oracle' = oracle /\ oracleTmp' = oracleTmp
      BY DEF IInv, OpenInv, cache
    <2> QED BY <2>1 DEF IInv, OpenInv
  <1> QED BY <1>1, <1>2, StepOfOne DEF cache

----------------------------------------------------------------------------
\* The checkout.

LEMMA EditKeeps ==
  ASSUME IInv, Edit
  PROVE  IInv'
  <1>1. PICK part \in Editable : source' = [source EXCEPT ![part] = @ + 1]
    BY DEF Edit
  <1>2. part \in Parts
    BY VerificationAssumption
  <1>3. TypeInv' /\ Below(source, source')
    BY <1>1, <1>2, VerificationAssumption DEF IInv, TypeInv, Edit, Trees, Below
  <1>4. CacheInv' /\ OpenInv'
    BY DEF IInv, CacheInv, OpenInv, Edit, cache
  <1>5. ASSUME NEW c \in Comparisons
        PROVE  Good(comparison[c], worker[c], graph, source, DOMAIN oracle)'
    <2>1. /\ comparison[c] \in ComparisonType /\ worker[c] \in [Roles -> WorkerType]
          /\ graph \in Nat /\ graph <= graph /\ source \in Trees /\ source' \in Trees
          /\ Good(comparison[c], worker[c], graph, source, DOMAIN oracle)
      BY <1>3 DEF IInv, TypeInv
    <2>2. Good(comparison[c], worker[c], graph, source', DOMAIN oracle)
      BY <1>3, <2>1, GoodLater
    <2> QED BY <2>2 DEF Edit, cache
  <1> QED BY <1>3, <1>4, <1>5 DEF IInv

LEMMA GrowKeeps ==
  ASSUME IInv, Grow
  PROVE  IInv'
  <1>1. TypeInv' /\ graph <= graph'
    BY VerificationAssumption DEF IInv, TypeInv, Grow
  <1>2. CacheInv' /\ OpenInv'
    <2>1. OpenInv'
      BY DEF IInv, OpenInv, Grow, cache
    <2>2. \A k, p : Entry(k, p, graph) => Entry(k, p, graph')
      BY <1>1, EntryLater DEF IInv, TypeInv
    <2> QED BY <2>1, <2>2 DEF IInv, CacheInv, Grow, cache
  <1>3. ASSUME NEW c \in Comparisons
        PROVE  Good(comparison[c], worker[c], graph, source, DOMAIN oracle)'
    <2>1. /\ comparison[c] \in ComparisonType /\ worker[c] \in [Roles -> WorkerType]
          /\ graph \in Nat /\ graph' \in Nat /\ source \in Trees
          /\ Good(comparison[c], worker[c], graph, source, DOMAIN oracle)
      BY <1>1 DEF IInv, TypeInv
    <2>2. Below(source, source)
      BY <2>1, BelowOrder
    <2>3. Good(comparison[c], worker[c], graph', source, DOMAIN oracle)
      BY <1>1, <2>1, <2>2, GoodLater
    <2> QED BY <2>3 DEF Grow, cache
  <1> QED BY <1>1, <1>2, <1>3 DEF IInv

----------------------------------------------------------------------------
\* compare_history up to its workers.

LEMMA Known ==
  ASSUME IInv, NEW c \in Comparisons
  PROVE  /\ comparison[c] \in ComparisonType /\ worker[c] \in [Roles -> WorkerType]
         /\ Good(comparison[c], worker[c], graph, source, DOMAIN oracle)
         /\ source \in Trees /\ Below(source, source)
         /\ graph \in Nat /\ 1 <= graph /\ (Tree \/ graph = 1)
  BY BelowOrder DEF IInv, TypeInv

LEMMA ReportKeeps ==
  ASSUME IInv, NEW c \in Comparisons, UNCHANGED <<source, edits, graph, cache, worker>>,
         NEW status \in Statuses \ {"none"}, NEW first \in 0..Frames,
         comparison[c].stage \notin {"idle", "dead", "writing"}, Report(c, status, first),
         Right([comparison[c] EXCEPT !.stage = "done", !.status = status, !.first = first],
               worker[c])
  PROVE  IInv'
  <1> DEFINE x == comparison[c]
             y == [x EXCEPT !.stage = "done", !.status = status, !.first = first]
  <1>1. /\ x \in ComparisonType /\ Good(x, worker[c], graph, source, DOMAIN oracle)
        /\ comparison \in [Comparisons -> ComparisonType]
        /\ worker \in [Comparisons -> [Roles -> WorkerType]]
    BY DEF IInv, TypeInv
  <1>2. y \in ComparisonType
    BY <1>1 DEF ComparisonType, Stages
  <1>3. comparison' = [comparison EXCEPT ![c] = y]
    BY DEF Report
  <1>4. /\ y.stage = "done" /\ y.status = status /\ y.nodes = x.nodes /\ y.receipt = x.receipt
    BY <1>1 DEF ComparisonType
  <1>5. Good(y, worker[c], graph, source, DOMAIN oracle)
    BY <1>1, <1>4 DEF Good
  <1> HIDE DEF x, y
  <1> QED BY <1>1, <1>2, <1>3, <1>5, StepOutsideCache

LEMMA ReportErrorKeeps ==
  ASSUME IInv, NEW c \in Comparisons, UNCHANGED <<source, edits, graph, cache, worker>>,
         NEW status \in {"ERROR", "TIMEOUT", "DEPENDENCY_FAILURE", "CANDIDATE_ERROR"},
         comparison[c].stage \notin {"idle", "dead", "writing"}, Report(c, status, 0),
         status = "CANDIDATE_ERROR" => worker[c]["reference"].stage \notin Failures
  PROVE  IInv'
  <1> DEFINE y == [comparison[c] EXCEPT !.stage = "done", !.status = status, !.first = 0]
  <1>1. y.status = status
    BY Known DEF ComparisonType
  <1>2. Right(y, worker[c])
    BY <1>1 DEF Right
  <1>3. 0 \in 0..Frames /\ status \in Statuses \ {"none"}
    BY VerificationAssumption DEF Statuses
  <1> HIDE DEF y
  <1> QED BY <1>2, <1>3, ReportKeeps DEF y

LEMMA IdentifyKeeps ==
  ASSUME IInv, NEW c \in Comparisons, Identify(c)
  PROVE  IInv'
  <1>1. PICK candidate \in Candidates, option \in Options :
          comparison' = [comparison EXCEPT ![c] =
            [Fresh EXCEPT !.stage = "identified", !.candidate = candidate, !.nodes = graph,
                          !.parallel = option.parallel, !.refresh = option.refresh,
                          !.expect = option.expect]]
    BY DEF Identify
  <1> DEFINE y == [Fresh EXCEPT !.stage = "identified", !.candidate = candidate, !.nodes = graph,
                                !.parallel = option.parallel, !.refresh = option.refresh,
                                !.expect = option.expect]
  <1>2. /\ candidate \in {"original", "recovered"} /\ option.parallel \in BOOLEAN
        /\ option.refresh \in BOOLEAN /\ option.expect \in {"pass", "divergence"}
        /\ Frames \in Nat
    BY VerificationAssumption
  <1>3. FirstTree \in Trees /\ Below(FirstTree, source)
    BY DEF IInv, TypeInv, FirstTree, Trees, Below
  <1>4. graph \in Nat /\ 1 <= graph
    BY Known
  <1>5. y \in ComparisonType
    <2>1. Fresh \in ComparisonType
      BY <1>2, <1>3 DEF ComparisonType, Fresh, Stages, Statuses
    <2>2. "identified" \in Stages
      BY DEF Stages
    <2> QED BY <1>2, <1>4, <2>1, <2>2 DEF ComparisonType
  <1>6. y.stage = "identified" /\ y.status = "none" /\ y.nodes = graph /\ y.receipt = FirstTree
    BY DEF Fresh
  <1>7. Good(y, worker[c], graph, source, DOMAIN oracle)
    BY <1>3, <1>4, <1>6 DEF Good
  <1>8. comparison' = [comparison EXCEPT ![c] = y]
    BY <1>1
  <1> HIDE DEF y
  <1>9. /\ comparison' \in [Comparisons -> ComparisonType] /\ comparison'[c] = y
        /\ \A d \in Comparisons \ {c} : comparison'[d] = comparison[d]
    BY <1>5, <1>8 DEF IInv, TypeInv
  <1> QED BY <1>7, <1>9, StepOutsideCache DEF Identify, IInv, TypeInv

LEMMA TakeReceiptKeeps ==
  ASSUME IInv, NEW c \in Comparisons, TakeReceipt(c)
  PROVE  IInv'
  <1> DEFINE x == comparison[c]
             y == [x EXCEPT !.stage = "receipted", !.receipt = source]
  <1>1. /\ x \in ComparisonType /\ Good(x, worker[c], graph, source, DOMAIN oracle)
        /\ source \in Trees /\ Below(source, source) /\ x.stage = "identified"
    BY Known DEF TakeReceipt
  <1>2. y \in ComparisonType
    BY <1>1 DEF ComparisonType, Stages
  <1>3. y.stage = "receipted" /\ y.status = x.status /\ y.nodes = x.nodes /\ y.receipt = source
    BY <1>1 DEF ComparisonType
  <1>4. Good(y, worker[c], graph, source, DOMAIN oracle)
    BY <1>1, <1>3 DEF Good
  <1>5. comparison' = [comparison EXCEPT ![c] = y]
    BY DEF TakeReceipt
  <1> HIDE DEF x, y
  <1>6. /\ comparison' \in [Comparisons -> ComparisonType] /\ comparison'[c] = y
        /\ \A d \in Comparisons \ {c} : comparison'[d] = comparison[d]
    BY <1>2, <1>5 DEF IInv, TypeInv
  <1> QED BY <1>4, <1>6, StepOutsideCache DEF TakeReceipt, IInv, TypeInv

\* An entry that can be read is a run of the original under its key.
LEMMA FiledIsEntry ==
  ASSUME IInv, NEW k \in DOMAIN oracle, Readable(k)
  PROVE  Entry(k, Filed(k), graph)
  <1>1. (CHOOSE e \in oracle[k] : TRUE) \in oracle[k]
    BY DEF Readable
  <1> QED BY <1>1, Zenon DEF IInv, CacheInv, Filed

LEMMA StartWorkersKeeps ==
  ASSUME IInv, NEW c \in Comparisons, StartWorkers(c)
  PROVE  IInv'
  <1> DEFINE x == comparison[c]
             ref == IF FromOracle(c) THEN Filed(OracleKey(c)) ELSE NoPayload
             bad == FromOracle(c) /\ ~(/\ Readable(OracleKey(c))
                                       /\ Valid(Filed(OracleKey(c)), x.receipt, TRUE))
             y == [x EXCEPT !.stage = "running", !.cached = FromOracle(c),
                            !.payload["reference"] = ref]
  <1>1. /\ x \in ComparisonType /\ Good(x, worker[c], graph, source, DOMAIN oracle)
        /\ source \in Trees /\ graph \in Nat /\ x.stage = "receipted"
        /\ OracleKey(c) = KeyOf(x)
    BY Known DEF StartWorkers, OracleKey, KeyOf
  <1>2. CASE bad
    BY <1>1, <1>2, ReportErrorKeeps DEF StartWorkers
  <1>3. CASE ~bad
    <2> DEFINE first == IF x.parallel THEN IF FromOracle(c) THEN {"candidate"} ELSE Roles
                        ELSE {IF FromOracle(c) THEN "candidate" ELSE "reference"}
               v == [role \in Roles |-> IF role \in first THEN [NoWorker EXCEPT !.stage = "started"]
                                        ELSE NoWorker]
    <2>1. /\ comparison' = [comparison EXCEPT ![c].stage = "running", ![c].cached = FromOracle(c),
                                              ![c].payload["reference"] = ref]
          /\ worker' = [worker EXCEPT ![c] = v]
          /\ UNCHANGED <<source, edits, graph, cache>>
      BY <1>3, Zenon DEF StartWorkers
    <2>2. comparison' = [comparison EXCEPT ![c] = y]
      BY <2>1
    <2>3. /\ v \in [Roles -> WorkerType]
          /\ \A role \in Roles : v[role].stage \in {"none", "started"}
          /\ FromOracle(c) => v["reference"].stage = "none"
      <3>1. NoWorker \in WorkerType /\ [NoWorker EXCEPT !.stage = "started"] \in WorkerType
        BY DEF NoWorker, WorkerType, WorkerStages, FirstTree, Trees
      <3>2. NoWorker.stage = "none" /\ [NoWorker EXCEPT !.stage = "started"].stage = "started"
        BY DEF NoWorker
      <3>3. FromOracle(c) => "reference" \notin first
        OBVIOUS
      <3> HIDE DEF first
      <3> QED BY <3>1, <3>2, <3>3 DEF Roles
    <2>4. FromOracle(c) => /\ KeyOf(x) \in DOMAIN oracle
                           /\ Entry(KeyOf(x), ref, graph) /\ ref.nodes = graph
      BY <1>1, <1>3, FiledIsEntry DEF FromOracle, Valid
    <2>5. ref \in Payloads \cup {NoPayload} /\ FromOracle(c) \in BOOLEAN
      BY <2>4 DEF Entry, FromOracle
    <2> HIDE DEF ref, v
    <2>6. y \in ComparisonType
      BY <1>1, <2>5 DEF ComparisonType, Stages, Roles
    <2>7. /\ y.stage = "running" /\ y.status = x.status /\ y.nodes = x.nodes
          /\ y.receipt = x.receipt /\ y.cached = FromOracle(c)
          /\ y.payload["reference"] = ref
      BY <1>1 DEF ComparisonType, Roles
    <2> HIDE DEF x, y
    <2>8. FromOracle(c) => Sound(y, "reference", graph)
      <3> SUFFICES ASSUME FromOracle(c) PROVE Sound(y, "reference", graph)
        OBVIOUS
      <3>1. ref.stream = Stream(y.receipt, "original", ref.nodes) /\ ref \in Payloads
        BY <1>1, <2>4, <2>7, KeyType DEF Entry
      <3>2. y.nodes <= ref.nodes /\ ref.nodes <= graph
        BY <1>1, <2>4, <2>7 DEF Good
      <3> QED BY <2>7, <3>1, <3>2 DEF Sound, OfCode, ChoiceOf
    <2>9. \A role \in Roles : Running(y, v[role], role, graph, source)
      BY <2>3 DEF Running
    <2>10. KeyOf(y) = KeyOf(x)
      BY <2>7 DEF KeyOf
    <2>11. Good(y, v, graph, source, DOMAIN oracle)
      BY <1>1, <2>3, <2>4, <2>7, <2>8, <2>9, <2>10 DEF Good
    <2>12. /\ comparison' \in [Comparisons -> ComparisonType] /\ comparison'[c] = y
           /\ worker' \in [Comparisons -> [Roles -> WorkerType]] /\ worker'[c] = v
           /\ \A d \in Comparisons \ {c} : comparison'[d] = comparison[d] /\ worker'[d] = worker[d]
      BY <2>1, <2>2, <2>3, <2>6 DEF IInv, TypeInv
    <2> QED BY <1>1, <2>1, <2>11, <2>12, StepOutsideCache DEF x
  <1> QED BY <1>2, <1>3

----------------------------------------------------------------------------
\* The workers.

LEMMA WorkerKeeps ==
  ASSUME IInv, NEW c \in Comparisons, NEW role \in Roles, NEW v \in WorkerType,
         comparison[c].stage = "running", worker' = [worker EXCEPT ![c][role] = v],
         UNCHANGED <<source, edits, graph, cache, comparison>>,
         comparison[c].cached /\ role = "reference" => v.stage = "none",
         Running(comparison[c], v, role, graph, source)
  PROVE  IInv'
  <1> DEFINE x == comparison[c]
             u == worker[c]
             n == [u EXCEPT ![role] = v]
  <1>1. x \in ComparisonType /\ u \in [Roles -> WorkerType] /\ x.stage = "running"
        /\ Good(x, u, graph, source, DOMAIN oracle)
    BY Known
  <1>2. n \in [Roles -> WorkerType] /\ n[role] = v
        /\ \A other \in Roles \ {role} : n[other] = u[other]
    BY <1>1
  <1>3. /\ worker' \in [Comparisons -> [Roles -> WorkerType]] /\ worker'[c] = n
        /\ \A d \in Comparisons \ {c} : worker'[d] = worker[d]
    BY <1>2 DEF IInv, TypeInv
  <1> HIDE DEF n
  <1>4. \A other \in Roles : Running(x, n[other], other, graph, source)
    BY <1>1, <1>2 DEF Good
  <1>5. x.cached => n["reference"].stage = "none"
    BY <1>1, <1>2 DEF Good, Roles
  <1> HIDE DEF x, u
  <1>6. Good(x, n, graph, source, DOMAIN oracle)
    BY <1>1, <1>4, <1>5 DEF Good
  <1> QED BY <1>3, <1>6, StepOutsideCache DEF IInv, TypeInv, x

LEMMA CachedReferenceIsAbsent ==
  ASSUME IInv, NEW c \in Comparisons, NEW role \in Roles, comparison[c].stage = "running",
         worker[c][role].stage # "none"
  PROVE  ~(comparison[c].cached /\ role = "reference")
  BY Known DEF Good

LEMMA EndedWorkerKeeps ==
  ASSUME IInv, NEW c \in Comparisons, NEW role \in Roles, NEW kind \in Failures,
         comparison[c].stage = "running", worker[c][role].stage # "none",
         worker' = [worker EXCEPT ![c][role] = [NoWorker EXCEPT !.stage = kind]],
         UNCHANGED <<source, edits, graph, cache, comparison>>
  PROVE  IInv'
  <1> DEFINE v == [NoWorker EXCEPT !.stage = kind]
  <1>1. v \in WorkerType /\ v.stage = kind
    BY DEF NoWorker, WorkerType, WorkerStages, FirstTree, Trees
  <1>2. kind \notin {"imported", "read", "finished"}
    BY DEF Failures
  <1> HIDE DEF v
  <1>3. Running(comparison[c], v, role, graph, source)
    BY <1>1, <1>2 DEF Running
  <1> QED BY <1>1, <1>3, CachedReferenceIsAbsent, WorkerKeeps DEF v

LEMMA ImportKeeps ==
  ASSUME IInv, NEW c \in Comparisons, NEW role \in Roles, Import(c, role)
  PROVE  IInv'
  <1> DEFINE w == worker[c][role]
             v == [w EXCEPT !.stage = "imported", !.code = source]
  <1>1. /\ comparison[c].stage = "running" /\ w.stage = "started" /\ w \in WorkerType
        /\ source \in Trees /\ Below(source, source)
        /\ Below(comparison[c].receipt, source)
    BY Known DEF Import, At, Good
  <1>2. v \in WorkerType /\ v.stage = "imported" /\ v.code = source
    BY <1>1 DEF WorkerType, WorkerStages
  <1>3. /\ worker' = [worker EXCEPT ![c][role] = v]
        /\ UNCHANGED <<source, edits, graph, cache, comparison>>
    BY DEF Import
  <1> HIDE DEF v
  <1>4. Running(comparison[c], v, role, graph, source)
    BY <1>1, <1>2 DEF Running
  <1>5. w.stage # "none"
    BY <1>1
  <1> QED BY <1>1, <1>2, <1>3, <1>4, <1>5, CachedReferenceIsAbsent, WorkerKeeps

LEMMA ReadStoreKeeps ==
  ASSUME IInv, NEW c \in Comparisons, NEW role \in Roles, ReadStore(c, role)
  PROVE  IInv'
  <1> DEFINE w == worker[c][role]
             v == [w EXCEPT !.stage = "read", !.start = source, !.nodes = graph]
  <1>1. /\ comparison[c].stage = "running" /\ w.stage = "imported" /\ w \in WorkerType
        /\ source \in Trees /\ graph \in Nat /\ graph <= graph
        /\ Running(comparison[c], w, role, graph, source)
        /\ comparison[c].nodes <= graph
    BY Known DEF ReadStore, At, Good
  <1>2. v \in WorkerType /\ v.stage = "read" /\ v.code = w.code /\ v.nodes = graph
    BY <1>1 DEF WorkerType, WorkerStages
  <1>3. /\ worker' = [worker EXCEPT ![c][role] = v]
        /\ UNCHANGED <<source, edits, graph, cache, comparison>>
    BY DEF ReadStore
  <1> HIDE DEF v
  <1>4. Running(comparison[c], v, role, graph, source)
    BY <1>1, <1>2 DEF Running
  <1>5. w.stage # "none"
    BY <1>1
  <1> QED BY <1>1, <1>2, <1>3, <1>4, <1>5, CachedReferenceIsAbsent, WorkerKeeps

LEMMA FailKeeps ==
  ASSUME IInv, NEW c \in Comparisons, NEW role \in Roles, Fail(c, role) \/ Timeout(c, role)
  PROVE  IInv'
  <1>1. PICK kind \in Faults :
          worker' = [worker EXCEPT ![c][role] = [NoWorker EXCEPT !.stage = kind]]
    BY DEF Fail, Timeout
  <1>2. kind \in Failures
    BY VerificationAssumption DEF Failures
  <1>3. /\ comparison[c].stage = "running" /\ worker[c][role].stage # "none"
        /\ UNCHANGED <<source, edits, graph, cache, comparison>>
    BY DEF Fail, Timeout, Watched, Alive
  <1> QED BY <1>1, <1>2, <1>3, EndedWorkerKeeps

LEMMA NextWorkerKeeps ==
  ASSUME IInv, NEW c \in Comparisons, NextWorker(c)
  PROVE  IInv'
  <1> DEFINE w == worker[c]["candidate"]
             v == [w EXCEPT !.stage = "started"]
  <1>1. "candidate" \in Roles
    BY DEF Roles
  <1>2. v \in WorkerType /\ v.stage = "started"
    BY <1>1, Known DEF WorkerType, WorkerStages
  <1>3. /\ worker' = [worker EXCEPT ![c]["candidate"] = v]
        /\ UNCHANGED <<source, edits, graph, cache, comparison>>
        /\ comparison[c].stage = "running"
    BY DEF NextWorker
  <1> HIDE DEF v
  <1>4. Running(comparison[c], v, "candidate", graph, source)
    BY <1>2 DEF Running
  <1> QED BY <1>1, <1>2, <1>3, <1>4, WorkerKeeps

\* Two comparisons called alike hold a payload to the same streams.
LEMMA OfCodeAlike ==
  ASSUME NEW x, NEW y, y.nodes = x.nodes, y.candidate = x.candidate, y.receipt = x.receipt
  PROVE  /\ \A role, p, code, g : OfCode(y, role, p, code, g) = OfCode(x, role, p, code, g)
         /\ \A role, p, g : Made(y, role, p, g) = Made(x, role, p, g)
         /\ KeyOf(y) = KeyOf(x) /\ TruthOf(y) = TruthOf(x)
  <1>1. \A role, p, code, g : OfCode(y, role, p, code, g) = OfCode(x, role, p, code, g)
    BY DEF OfCode, ChoiceOf
  <1>2. \A role, p, g : Made(y, role, p, g) = Made(x, role, p, g)
    BY <1>1 DEF Made
  <1> QED BY <1>1, <1>2 DEF KeyOf, TruthOf

LEMMA ExecutedIsMade ==
  ASSUME IInv, NEW c \in Comparisons, NEW role \in Roles, At(c, role, "read"), CanRead(c, role)
  PROVE  /\ Executed(c, role) \in Payloads
         /\ Made(comparison[c], role, Executed(c, role), graph)
  <1> DEFINE x == comparison[c]
             w == worker[c][role]
             choice == Choice(c, role)
             whole == Stream(w.code, choice, w.nodes)
             cut == FirstDifference(Filed(OracleKey(c)).stream, whole)
             stops == role = "candidate" /\ StopEarly(c) /\ cut # 0
             p == Executed(c, role)
  <1>1. /\ x \in ComparisonType /\ w \in WorkerType /\ graph \in Nat /\ source \in Trees
        /\ x.stage = "running" /\ w.stage = "read" /\ (Tree \/ graph = 1)
        /\ Good(x, worker[c], graph, source, DOMAIN oracle)
    BY Known DEF At
  <1>2. /\ Running(x, w, role, graph, source)
        /\ 1 <= x.nodes /\ x.nodes \in Nat /\ x.receipt \in Trees
    BY <1>1 DEF Good, ComparisonType
  <1>3. /\ Below(x.receipt, w.code) /\ Below(w.code, source)
        /\ x.nodes <= w.nodes /\ w.nodes <= graph
        /\ w.code \in Trees /\ w.nodes \in Nat
    BY <1>1, <1>2 DEF Running, WorkerType
  <1>4. choice = ChoiceOf(x, role) /\ OracleKey(c) = KeyOf(x)
    BY DEF Choice, ChoiceOf, OracleKey, KeyOf
  <1>5. /\ p = [status |-> IF stops THEN "DIVERGED" ELSE "COMPLETED",
                stream |-> IF stops THEN SubSeq(whole, 1, cut) ELSE whole,
                nodes |-> w.nodes, hits |-> Hits(w.code, choice), receipt |-> source]
    BY Zenon DEF Executed
  <1>6. /\ p.stream = IF stops THEN SubSeq(whole, 1, cut) ELSE whole
        /\ p.nodes = w.nodes /\ p.hits = Hits(w.code, choice) /\ p.receipt = source
    BY <1>5
  <1>7. whole \in [1..Frames -> Seen] /\ whole \in Seq(Seen)
    BY <1>3, TreeFields, StreamType
  <1>8. /\ p.stream \in Seq(Seen)
        /\ \/ p.stream = whole
           \/ /\ role = "candidate"
              /\ cut = FirstDifference(Stream(x.receipt, "original", w.nodes), whole)
              /\ cut # 0 /\ p.stream = SubSeq(whole, 1, cut)
    <2>1. CASE ~stops
      BY <1>6, <1>7, <2>1
    <2>2. CASE stops
      <3> DEFINE e == Filed(KeyOf(x))
      <3>1. ~Tree /\ x.cached /\ cut # 0 /\ role = "candidate" /\ graph = 1
        BY <1>1, <2>2 DEF StopEarly
      <3>2. KeyOf(x) \in DOMAIN oracle
        BY <1>1, <3>1 DEF Good
      <3>3. Entry(KeyOf(x), e, graph)
        BY <1>4, <2>2, <3>2, FiledIsEntry DEF CanRead
      <3>4. e.nodes = 1 /\ w.nodes = 1
        BY <1>2, <1>3, <3>1, <3>3 DEF Entry, Payloads
      <3>5. e.stream = Stream(x.receipt, "original", w.nodes)
        BY <1>1, <3>3, <3>4, KeyType DEF Entry
      <3>6. Stream(x.receipt, "original", w.nodes) \in [1..Frames -> Seen]
        BY <1>2, <1>3, TreeFields, StreamType
      <3>7. cut = FirstDifference(Stream(x.receipt, "original", w.nodes), whole)
        BY <1>4, <3>5
      <3> HIDE DEF whole
      <3>8. SubSeq(whole, 1, cut) \in Seq(Seen)
        BY <1>7, <3>1, <3>6, <3>7, CutDiffers
      <3> QED BY <1>6, <2>2, <3>1, <3>7, <3>8
    <2> QED BY <2>1, <2>2
  <1>9. p \in Payloads
    <2>1. Hits(w.code, choice) \in BOOLEAN
      BY DEF Hits
    <2> HIDE DEF whole, stops, p
    <2> QED BY <1>1, <1>3, <1>5, <1>6, <1>8, <2>1 DEF Payloads
  <1>10. role = "candidate" => choice = x.candidate
    BY <1>4 DEF ChoiceOf
  <1>11. OfCode(x, role, p, w.code, graph)
    <2> HIDE DEF p, x, w
    <2> QED BY <1>3, <1>4, <1>6, <1>8, <1>9, <1>10 DEF OfCode
  <1> QED BY <1>3, <1>6, <1>9, <1>11 DEF Made

LEMMA FinishKeeps ==
  ASSUME IInv, NEW c \in Comparisons, NEW role \in Roles, Finish(c, role)
  PROVE  IInv'
  <1>1. At(c, role, "read") /\ comparison[c].stage = "running" /\ worker[c][role].stage = "read"
    BY DEF Finish, At
  <1> DEFINE ended == CanRead(c, role)
                      /\ SameExecution(Choice(c, role), worker[c][role].start, source)
  <1>2. CASE ~ended
    <2>1. "error" \in Failures /\ worker[c][role].stage # "none"
      BY <1>1 DEF Failures
    <2>2. /\ worker' = [worker EXCEPT ![c][role] = [NoWorker EXCEPT !.stage = "error"]]
          /\ UNCHANGED <<source, edits, graph, cache, comparison>>
      BY <1>2 DEF Finish
    <2> QED BY <1>1, <2>1, <2>2, EndedWorkerKeeps
  <1>3. CASE ended
    <2> DEFINE p == Executed(c, role)
               x == comparison[c]
               y == [x EXCEPT !.payload[role] = p]
               v == [NoWorker EXCEPT !.stage = "finished"]
               n == [worker[c] EXCEPT ![role] = v]
    <2>1. /\ worker' = [worker EXCEPT ![c][role] = v]
          /\ comparison' = [comparison EXCEPT ![c].payload[role] = p]
          /\ UNCHANGED <<source, edits, graph, cache>>
      BY <1>3, Zenon DEF Finish
    <2>2. v \in WorkerType /\ v.stage = "finished"
      BY DEF NoWorker, WorkerType, WorkerStages, FirstTree, Trees
    <2>3. p \in Payloads /\ Made(x, role, p, graph)
      BY <1>1, <1>3, ExecutedIsMade
    <2>4. /\ x \in ComparisonType /\ worker[c] \in [Roles -> WorkerType]
          /\ Good(x, worker[c], graph, source, DOMAIN oracle)
      BY Known
    <2> HIDE DEF p, v
    <2>5. y \in ComparisonType
      BY <2>3, <2>4 DEF ComparisonType
    <2>6. /\ y.nodes = x.nodes /\ y.candidate = x.candidate /\ y.receipt = x.receipt
          /\ y.stage = "running" /\ y.status = x.status /\ y.cached = x.cached
          /\ y.payload[role] = p
          /\ \A other \in Roles \ {role} : y.payload[other] = x.payload[other]
      BY <1>1, <2>4 DEF ComparisonType
    <2>7. /\ n \in [Roles -> WorkerType] /\ n[role] = v
          /\ \A other \in Roles \ {role} : n[other] = worker[c][other]
      BY <2>2, <2>4
    <2>8. ~(x.cached /\ role = "reference")
      BY <1>1, CachedReferenceIsAbsent
    <2>9. /\ comparison' = [comparison EXCEPT ![c] = y] /\ worker' = [worker EXCEPT ![c] = n]
      BY <2>1
    <2> HIDE DEF x, y, n
    <2>10. /\ \A r, q, g : Made(y, r, q, g) = Made(x, r, q, g)
           /\ \A r, q, code, g : OfCode(y, r, q, code, g) = OfCode(x, r, q, code, g)
           /\ KeyOf(y) = KeyOf(x)
      BY <2>6, OfCodeAlike
    <2>11. Running(y, n[role], role, graph, source)
      BY <2>2, <2>3, <2>6, <2>7, <2>10 DEF Running
    <2>12. ASSUME NEW other \in Roles \ {role}
           PROVE  Running(y, n[other], other, graph, source)
      <3>1. Running(x, n[other], other, graph, source)
        BY <1>1, <2>4, <2>6, <2>7 DEF Good, x
      <3> QED BY <2>6, <2>10, <3>1 DEF Running
    <2>13. y.cached => /\ Sound(y, "reference", graph) /\ KeyOf(y) \in DOMAIN oracle
                       /\ n["reference"].stage = "none"
      <3> SUFFICES ASSUME y.cached
                   PROVE  /\ Sound(y, "reference", graph) /\ KeyOf(y) \in DOMAIN oracle
                          /\ n["reference"].stage = "none"
        OBVIOUS
      <3>1. "reference" \in Roles \ {role}
        BY <2>6, <2>8 DEF Roles
      <3>2. Sound(x, "reference", graph) /\ KeyOf(x) \in DOMAIN oracle
            /\ worker[c]["reference"].stage = "none"
        BY <1>1, <2>4, <2>6 DEF Good, x
      <3> QED BY <2>6, <2>7, <2>10, <3>1, <3>2 DEF Sound
    <2>14. Good(y, n, graph, source, DOMAIN oracle)
      BY <1>1, <2>4, <2>6, <2>11, <2>12, <2>13 DEF Good, x
    <2>15. /\ comparison' \in [Comparisons -> ComparisonType] /\ comparison'[c] = y
           /\ worker' \in [Comparisons -> [Roles -> WorkerType]] /\ worker'[c] = n
           /\ \A d \in Comparisons \ {c} : comparison'[d] = comparison[d] /\ worker'[d] = worker[d]
      BY <2>5, <2>7, <2>9 DEF IInv, TypeInv
    <2> QED BY <1>1, <2>1, <2>14, <2>15, StepOutsideCache
  <1> QED BY <1>2, <1>3

----------------------------------------------------------------------------
\* compare_history after its workers.

LEMMA WorkersFailKeeps ==
  ASSUME IInv, NEW c \in Comparisons, WorkersFail(c)
  PROVE  IInv'
  <1> DEFINE x == comparison[c]
             w == worker[c]
  <1>1. /\ x.stage = "running" /\ Failed(c) # {} /\ Good(x, w, graph, source, DOMAIN oracle)
        /\ Report(c, StatusOfFailure(c), 0)
        /\ UNCHANGED <<source, edits, graph, cache, worker>>
    BY Known DEF WorkersFail
  <1>2. StatusOfFailure(c) \in {"ERROR", "TIMEOUT", "DEPENDENCY_FAILURE", "CANDIDATE_ERROR"}
    BY Zenon DEF StatusOfFailure
  <1>3. ASSUME StatusOfFailure(c) = "CANDIDATE_ERROR"
        PROVE  w["reference"].stage \notin Failures
    <2>1. "reference" \notin Failed(c)
      BY <1>3 DEF StatusOfFailure, Raised
    <2>2. CASE "reference" \in ToRun(c)
      BY <2>1, <2>2 DEF Failed
    <2>3. CASE "reference" \notin ToRun(c)
      <3>1. x.cached
        BY <2>3 DEF ToRun, Roles
      <3>2. w["reference"].stage = "none"
        BY <1>1, <3>1 DEF Good
      <3> QED BY <3>2 DEF Failures
    <2> QED BY <2>2, <2>3
  <1>4. x.stage \notin {"idle", "dead", "writing"}
    BY <1>1
  <1> HIDE DEF x, w
  <1> QED BY <1>1, <1>2, <1>3, <1>4, ReportErrorKeeps DEF x, w

\* A stage reached with both payloads sound.
LEMMA ReachGood ==
  ASSUME IInv, NEW c \in Comparisons, NEW stage \in {"storing", "writing", "replacing", "judging"},
         comparison[c].stage \in {"running", "storing", "writing", "replacing"},
         \A role \in Roles : Sound(comparison[c], role, graph), Reach(c, stage),
         NEW dom
  PROVE  /\ comparison' \in [Comparisons -> ComparisonType]
         /\ \A d \in Comparisons \ {c} : comparison'[d] = comparison[d]
         /\ Good(comparison'[c], worker[c], graph, source, dom)
         /\ comparison'[c].stage = stage
         /\ \A d \in Comparisons : KeyOf(comparison'[d]) = KeyOf(comparison[d])
  <1> DEFINE x == comparison[c]
             y == [x EXCEPT !.stage = stage]
  <1>1. x \in ComparisonType /\ Good(x, worker[c], graph, source, DOMAIN oracle)
    BY Known
  <1>2. y \in ComparisonType
    BY <1>1 DEF ComparisonType, Stages
  <1>3. comparison' = [comparison EXCEPT ![c] = y]
    BY DEF Reach
  <1>4. /\ y.nodes = x.nodes /\ y.candidate = x.candidate /\ y.receipt = x.receipt
        /\ y.stage = stage /\ y.status = x.status /\ y.payload = x.payload
    BY <1>1 DEF ComparisonType
  <1>5. x.stage \in {"running", "storing", "writing", "replacing"} /\ \A role \in Roles : Sound(x, role, graph)
    OBVIOUS
  <1> HIDE DEF x, y
  <1>6. \A role \in Roles : Sound(y, role, graph)
    BY <1>4, <1>5, OfCodeAlike DEF Sound
  <1>7. Good(y, worker[c], graph, source, dom)
    BY <1>1, <1>4, <1>5, <1>6 DEF Good
  <1>8. KeyOf(y) = KeyOf(x)
    BY <1>4, OfCodeAlike
  <1> QED BY <1>2, <1>3, <1>4, <1>7, <1>8 DEF IInv, TypeInv, x

\* A payload whose receipt is the comparison's was made by that tree: the code
\* it ran lies between the two.
LEMMA ValidIsSound ==
  ASSUME NEW x \in ComparisonType, NEW role, NEW p, NEW g,
         Made(x, role, p, g), ReceiptMatches(p, x.receipt, FALSE)
  PROVE  OfCode(x, role, p, x.receipt, g)
  <1>1. PICK code \in Trees : /\ Below(x.receipt, code) /\ Below(code, p.receipt)
                              /\ OfCode(x, role, p, code, g)
    BY DEF Made
  <1>2. p.receipt \in Trees /\ x.receipt \in Trees
    BY <1>1 DEF OfCode, Payloads, ComparisonType
  <1>3. \A part \in Parts : p.receipt[part] = x.receipt[part]
    BY DEF ReceiptMatches, Parts
  <1>4. p.receipt = x.receipt
    BY <1>2, <1>3 DEF Trees
  <1>5. code = x.receipt
    BY <1>1, <1>2, <1>4, BelowOrder
  <1> QED BY <1>1, <1>5

LEMMA ValidateKeeps ==
  ASSUME IInv, NEW c \in Comparisons, Validate(c)
  PROVE  IInv'
  <1> DEFINE x == comparison[c]
             w == worker[c]
             all == \A role \in ToRun(c) : Valid(x.payload[role], x.receipt, FALSE)
             stage == IF x.cached \/ x.refresh THEN "judging" ELSE "storing"
  <1>1. /\ x.stage = "running" /\ Finished(c) = ToRun(c)
        /\ x \in ComparisonType /\ Good(x, w, graph, source, DOMAIN oracle)
        /\ w \in [Roles -> WorkerType]
        /\ UNCHANGED <<source, edits, graph, cache, worker>>
    BY Known DEF Validate
  <1>2. CASE ~all
    <2>1. Report(c, "ERROR", 0) /\ x.stage \notin {"idle", "dead", "writing"}
      BY <1>1, <1>2 DEF Validate
    <2> QED BY <1>1, <2>1, ReportErrorKeeps
  <1>3. CASE all
    <2>1. Reach(c, stage) /\ stage \in {"storing", "writing", "replacing", "judging"}
      BY <1>3 DEF Validate
    <2>2. ASSUME NEW role \in ToRun(c) PROVE Sound(x, role, graph)
      <3>1. role \in Roles /\ w[role].stage = "finished"
        BY <1>1 DEF Finished, ToRun, Roles
      <3>2. Made(x, role, x.payload[role], graph)
        BY <1>1, <3>1 DEF Good, Running
      <3>3. ReceiptMatches(x.payload[role], x.receipt, FALSE)
        BY <1>3 DEF Valid
      <3> QED BY <1>1, <3>2, <3>3, ValidIsSound DEF Sound
    <2>3. ASSUME NEW role \in Roles, role \notin ToRun(c) PROVE Sound(x, role, graph)
      <3>1. x.cached /\ role = "reference"
        BY <2>3 DEF ToRun, Roles
      <3> QED BY <1>1, <3>1 DEF Good
    <2>4. \A role \in Roles : Sound(x, role, graph)
      BY <2>2, <2>3
    <2> HIDE DEF stage
    <2>5. /\ comparison' \in [Comparisons -> ComparisonType]
          /\ \A d \in Comparisons \ {c} : comparison'[d] = comparison[d]
          /\ Good(comparison'[c], worker[c], graph, source, DOMAIN oracle)
      BY <1>1, <2>1, <2>4, ReachGood
    <2> QED BY <1>1, <2>5, StepOutsideCache DEF IInv, TypeInv
  <1> QED BY <1>2, <1>3

\* What is stored is what any original run under its key observes.
LEMMA SoundIsEntry ==
  ASSUME NEW x \in ComparisonType, NEW g \in Nat, 1 <= x.nodes, x.nodes <= g,
         Sound(x, "reference", g)
  PROVE  Entry(KeyOf(x), x.payload["reference"], g)
  <1> DEFINE p == x.payload["reference"]
  <1>1. /\ p \in Payloads /\ x.nodes <= p.nodes /\ p.nodes <= g
        /\ p.stream = Stream(x.receipt, "original", p.nodes)
    BY DEF Sound, OfCode, ChoiceOf
  <1>2. x.nodes \in Nat /\ p.nodes \in Nat
    BY <1>1 DEF ComparisonType, Payloads
  <1>3. /\ KeyOf(x) \in Keys /\ KeyOf(x).nodes = x.nodes
        /\ p.stream = Stream(KeyOf(x), "original", p.nodes)
    BY <1>1, KeyType
  <1> HIDE DEF p
  <1>4. 1 <= p.nodes
    BY <1>1, <1>2
  <1> QED BY <1>1, <1>3, <1>4 DEF Entry, p

LEMMA KeyIs ==
  ASSUME NEW c \in Comparisons
  PROVE  OracleKey(c) = KeyOf(comparison[c])
  BY DEF OracleKey, KeyOf

LEMMA OpenTemporaryKeeps ==
  ASSUME IInv, NEW c \in Comparisons, OpenTemporary(c)
  PROVE  IInv'
  <1> DEFINE k == OracleKey(c)
  <1>1. /\ comparison[c].stage = "storing" /\ Reach(c, "writing")
        /\ Good(comparison[c], worker[c], graph, source, DOMAIN oracle)
        /\ UNCHANGED <<source, edits, graph, oracle, worker>>
        /\ oracleTmp' = With(oracleTmp, k, {}) /\ open' = [open EXCEPT ![c] = "tmp"]
    BY Known DEF OpenTemporary
  <1>2. \A role \in Roles : Sound(comparison[c], role, graph)
    BY <1>1 DEF Good
  <1>3. /\ comparison' \in [Comparisons -> ComparisonType]
        /\ \A d \in Comparisons \ {c} : comparison'[d] = comparison[d]
        /\ Good(comparison'[c], worker[c], graph, source, DOMAIN oracle)
        /\ comparison'[c].stage = "writing"
        /\ \A d \in Comparisons : KeyOf(comparison'[d]) = KeyOf(comparison[d])
    BY <1>1, <1>2, ReachGood
  <1>4. /\ DOMAIN oracleTmp' = DOMAIN oracleTmp \cup {k} /\ oracleTmp'[k] = {}
        /\ \A j \in DOMAIN oracleTmp \ {k} : oracleTmp'[j] = oracleTmp[j]
    BY <1>1 DEF With
  <1>5. k = KeyOf(comparison[c])
    BY KeyIs
  <1> HIDE DEF k
  <1>6. CacheInv'
    BY <1>1, <1>4 DEF IInv, CacheInv
  <1>7. OpenInv'
    BY <1>1, <1>3, <1>4, <1>5 DEF IInv, OpenInv
  <1> QED BY <1>1, <1>3, <1>6, <1>7, StepOfOne DEF IInv, TypeInv

LEMMA StoreTemporaryKeeps ==
  ASSUME IInv, NEW c \in Comparisons, StoreTemporary(c)
  PROVE  IInv'
  <1> DEFINE x == comparison[c]
             k == OracleKey(c)
             entry == [from |-> c, run |-> x.payload["reference"]]
  <1>1. PICK tail \in BOOLEAN :
          /\ oracleTmp' = IF open[c] # "tmp" THEN oracleTmp
                          ELSE With(oracleTmp, k, {entry} \cup IF tail THEN oracleTmp[k] ELSE {})
          /\ oracle' = IF open[c] # "entry" THEN oracle
                       ELSE With(oracle, k, {entry} \cup IF tail THEN oracle[k] ELSE {})
    BY Zenon DEF StoreTemporary
  <1>2. /\ x.stage = "writing" /\ x \in ComparisonType /\ graph \in Nat
        /\ Good(x, worker[c], graph, source, DOMAIN oracle)
        /\ UNCHANGED <<source, edits, graph, worker>> /\ Reach(c, "replacing")
        /\ open' = [open EXCEPT ![c] = "none"]
    BY Known DEF StoreTemporary
  <1>3. /\ \A role \in Roles : Sound(x, role, graph)
        /\ 1 <= x.nodes /\ x.nodes <= graph /\ "reference" \in Roles
    BY <1>2 DEF Good, Roles
  <1>4. k = KeyOf(x)
    BY KeyIs
  <1>5. Entry(k, entry.run, graph)
    BY <1>2, <1>3, <1>4, SoundIsEntry
  <1>6. /\ comparison' \in [Comparisons -> ComparisonType]
        /\ \A d \in Comparisons \ {c} : comparison'[d] = comparison[d]
        /\ Good(comparison'[c], worker[c], graph, source, DOMAIN oracle)
        /\ comparison'[c].stage = "replacing"
        /\ \A d \in Comparisons : KeyOf(comparison'[d]) = KeyOf(comparison[d])
    BY <1>2, <1>3, ReachGood
  <1>7. /\ open[c] = "tmp" => k \in DOMAIN oracleTmp
        /\ open[c] = "entry" => k \in DOMAIN oracle
        /\ \A j \in DOMAIN oracle : \A e \in oracle[j] : Entry(j, e.run, graph)
        /\ \A j \in DOMAIN oracleTmp : \A e \in oracleTmp[j] : Entry(j, e.run, graph)
    BY <1>4 DEF IInv, OpenInv, CacheInv
  <1> HIDE DEF x, k, entry
  <1>8. /\ DOMAIN oracleTmp' = DOMAIN oracleTmp
        /\ \A j \in DOMAIN oracleTmp' : \A e \in oracleTmp'[j] : Entry(j, e.run, graph)
    <2>1. CASE open[c] = "tmp"
      <3> DEFINE file == {entry} \cup IF tail THEN oracleTmp[k] ELSE {}
      <3>1. oracleTmp' = With(oracleTmp, k, file) /\ k \in DOMAIN oracleTmp
        BY <1>1, <1>7, <2>1
      <3>2. \A e \in file : Entry(k, e.run, graph)
        BY <1>5, <1>7, <3>1
      <3> HIDE DEF file
      <3>3. /\ DOMAIN oracleTmp' = DOMAIN oracleTmp /\ oracleTmp'[k] = file
            /\ \A j \in DOMAIN oracleTmp \ {k} : oracleTmp'[j] = oracleTmp[j]
        BY <3>1 DEF With
      <3> QED BY <1>7, <3>2, <3>3
    <2> QED BY <1>1, <1>7, <2>1
  <1>9. /\ DOMAIN oracle' = DOMAIN oracle
        /\ \A j \in DOMAIN oracle' : \A e \in oracle'[j] : Entry(j, e.run, graph)
    <2>1. CASE open[c] = "entry"
      <3> DEFINE file == {entry} \cup IF tail THEN oracle[k] ELSE {}
      <3>1. oracle' = With(oracle, k, file) /\ k \in DOMAIN oracle
        BY <1>1, <1>7, <2>1
      <3>2. \A e \in file : Entry(k, e.run, graph)
        BY <1>5, <1>7, <3>1
      <3> HIDE DEF file
      <3>3. /\ DOMAIN oracle' = DOMAIN oracle /\ oracle'[k] = file
            /\ \A j \in DOMAIN oracle \ {k} : oracle'[j] = oracle[j]
        BY <3>1 DEF With
      <3> QED BY <1>7, <3>2, <3>3
    <2> QED BY <1>1, <1>7, <2>1
  <1>10. CacheInv'
    BY <1>2, <1>8, <1>9 DEF CacheInv
  <1>11. OpenInv'
    BY <1>2, <1>6, <1>8, <1>9 DEF IInv, OpenInv
  <1> QED BY <1>2, <1>6, <1>9, <1>10, <1>11, StepOfOne DEF IInv, TypeInv

LEMMA ReplaceOracleKeeps ==
  ASSUME IInv, NEW c \in Comparisons, ReplaceOracle(c)
  PROVE  IInv'
  <1> DEFINE x == comparison[c]
             k == OracleKey(c)
  <1>1. /\ x.stage = "replacing" /\ Good(x, worker[c], graph, source, DOMAIN oracle)
        /\ UNCHANGED <<source, edits, graph, shared, worker>>
    BY Known DEF ReplaceOracle
  <1>2. CASE k \notin DOMAIN oracleTmp
    <2>1. Report(c, "ERROR", 0) /\ UNCHANGED <<oracle, oracleTmp, open>>
      BY <1>2 DEF ReplaceOracle
    <2>2. x.stage \notin {"idle", "dead", "writing"} /\ UNCHANGED cache
      BY <1>1, <2>1 DEF cache
    <2> QED BY <1>1, <2>1, <2>2, ReportErrorKeeps
  <1>3. CASE k \in DOMAIN oracleTmp
    <2>1. /\ oracle' = With(oracle, k, oracleTmp[k])
          /\ oracleTmp' = [j \in DOMAIN oracleTmp \ {k} |-> oracleTmp[j]]
          /\ open' = [d \in Comparisons |-> IF OracleKey(d) = k THEN Carried(open[d])
                                            ELSE open[d]]
          /\ Reach(c, "judging")
      BY <1>3 DEF ReplaceOracle
    <2>2. /\ DOMAIN oracle' = {k} \cup DOMAIN oracle /\ oracle'[k] = oracleTmp[k]
          /\ \A j \in DOMAIN oracle \ {k} : oracle'[j] = oracle[j]
          /\ DOMAIN oracleTmp' = DOMAIN oracleTmp \ {k}
          /\ \A j \in DOMAIN oracleTmp' : oracleTmp'[j] = oracleTmp[j]
      BY <2>1 DEF With
    <2>3. \A role \in Roles : Sound(x, role, graph)
      BY <1>1 DEF Good
    <2>4. /\ comparison' \in [Comparisons -> ComparisonType]
          /\ \A d \in Comparisons \ {c} : comparison'[d] = comparison[d]
          /\ Good(comparison'[c], worker[c], graph, source, DOMAIN oracle')
          /\ \A d \in Comparisons : KeyOf(comparison'[d]) = KeyOf(comparison[d])
      BY <1>1, <2>1, <2>3, ReachGood
    <2>5. CacheInv'
      <3> HIDE DEF k
      <3> QED BY <1>1, <1>3, <2>2 DEF IInv, CacheInv
    <2>6. OpenInv'
      <3>1. open[c] = "none" /\ open'[c] = "none"
        BY <1>1, <2>1 DEF IInv, OpenInv, Carried
      <3>2. ASSUME NEW d \in Comparisons \ {c}
            PROVE  /\ open'[d] \in {"none", "tmp", "entry", "gone"}
                   /\ open'[d] # "none" => comparison'[d].stage = "writing"
                   /\ open'[d] = "tmp" => KeyOf(comparison'[d]) \in DOMAIN oracleTmp'
                   /\ open'[d] = "entry" => KeyOf(comparison'[d]) \in DOMAIN oracle'
        <4>1. /\ open[d] \in {"none", "tmp", "entry", "gone"}
              /\ open[d] # "none" => comparison[d].stage = "writing"
              /\ open[d] = "tmp" => KeyOf(comparison[d]) \in DOMAIN oracleTmp
              /\ open[d] = "entry" => KeyOf(comparison[d]) \in DOMAIN oracle
          BY DEF IInv, OpenInv
        <4>2. KeyOf(comparison[d]) = OracleKey(d)
          BY KeyIs
        <4>3. CASE OracleKey(d) = k
          <5>1. open'[d] = Carried(open[d])
            BY <2>1, <4>3
          <5>2. open'[d] \in {"none", "entry", "gone"} /\ (open'[d] # "none" => open[d] # "none")
            BY <4>1, <5>1 DEF Carried
          <5> QED BY <2>2, <2>4, <4>1, <4>2, <4>3, <5>2
        <4>4. CASE OracleKey(d) # k
          <5>1. open'[d] = open[d]
            BY <2>1, <4>4
          <5> HIDE DEF k
          <5> QED BY <2>2, <2>4, <4>1, <4>2, <4>4, <5>1
        <4> QED BY <4>3, <4>4
      <3> HIDE DEF k
      <3>3. open' \in [Comparisons -> {"none", "tmp", "entry", "gone"}]
        BY <2>1, <3>1, <3>2
      <3> QED BY <3>1, <3>2, <3>3 DEF OpenInv
    <2> QED BY <1>1, <2>2, <2>4, <2>5, <2>6, StepOfOne DEF IInv, TypeInv
  <1> QED BY <1>2, <1>3

\* A killed comparison has nothing open, and promises nothing.
LEMMA DieKeeps ==
  ASSUME IInv, NEW c \in Comparisons, Die(c)
  PROVE  IInv'
  <1> DEFINE y == [Fresh EXCEPT !.stage = "dead"]
             v == [role \in Roles |-> NoWorker]
  <1>1. /\ comparison' = [comparison EXCEPT ![c] = y] /\ worker' = [worker EXCEPT ![c] = v]
        /\ open' = [open EXCEPT ![c] = "none"]
        /\ UNCHANGED <<source, edits, graph, oracle, oracleTmp>>
    BY DEF Die
  <1>2. FirstTree \in Trees /\ Below(FirstTree, source)
    BY DEF IInv, TypeInv, FirstTree, Trees, Below
  <1>3. y \in ComparisonType /\ y.stage = "dead" /\ y.status = "none" /\ y.receipt = FirstTree
    <2>1. Fresh \in ComparisonType /\ Fresh.status = "none" /\ Fresh.receipt = FirstTree
      BY <1>2, VerificationAssumption DEF ComparisonType, Fresh, Stages, Statuses
    <2>2. "dead" \in Stages
      BY DEF Stages
    <2> QED BY <2>1, <2>2 DEF ComparisonType
  <1>4. v \in [Roles -> WorkerType]
    BY <1>2 DEF NoWorker, WorkerType, WorkerStages
  <1> HIDE DEF y, v
  <1>5. Good(y, v, graph, source, DOMAIN oracle)
    BY <1>2, <1>3 DEF Good
  <1>6. /\ comparison' \in [Comparisons -> ComparisonType] /\ comparison'[c] = y
        /\ worker' \in [Comparisons -> [Roles -> WorkerType]] /\ worker'[c] = v
        /\ \A d \in Comparisons \ {c} : comparison'[d] = comparison[d] /\ worker'[d] = worker[d]
    BY <1>1, <1>3, <1>4 DEF IInv, TypeInv
  <1>7. CacheInv'
    BY <1>1 DEF IInv, CacheInv
  <1>8. OpenInv'
    BY <1>1, <1>6 DEF IInv, OpenInv
  <1> QED BY <1>1, <1>5, <1>6, <1>7, <1>8, StepOfOne

\* Two sound payloads over the graph that was identified differ first where
\* the streams of the receipt's tree do.
LEMMA SoundPair ==
  ASSUME NEW x \in ComparisonType, \A role \in Roles : Sound(x, role, x.nodes)
  PROVE  /\ FirstDifference(x.payload["reference"].stream,
                            x.payload["candidate"].stream) = TruthOf(x)
         /\ TruthOf(x) \in 0..Frames
         /\ \A role \in Roles : x.payload[role].nodes = x.nodes
         /\ x.payload["candidate"].hits = Hits(x.receipt, x.candidate)
  <1> DEFINE a == Stream(x.receipt, "original", x.nodes)
             b == Stream(x.receipt, x.candidate, x.nodes)
             p == x.payload["reference"]
             q == x.payload["candidate"]
  <1>1. x.nodes \in Nat /\ x.receipt \in Trees
    BY DEF ComparisonType
  <1>2. \A role \in Roles : x.payload[role].nodes = x.nodes
    BY <1>1 DEF Sound, OfCode, Payloads
  <1>3. a \in [1..Frames -> Seen] /\ b \in [1..Frames -> Seen]
    BY <1>1, TreeFields, StreamType
  <1>4. OfCode(x, "reference", p, x.receipt, x.nodes)
        /\ OfCode(x, "candidate", q, x.receipt, x.nodes)
        /\ p.nodes = x.nodes /\ q.nodes = x.nodes
    BY <1>2 DEF Sound, Roles
  <1>5. p.stream = a
    BY <1>4 DEF OfCode, ChoiceOf
  <1>6. /\ q.hits = Hits(x.receipt, x.candidate)
        /\ \/ q.stream = b
           \/ FirstDifference(a, b) # 0 /\ q.stream = SubSeq(b, 1, FirstDifference(a, b))
    BY <1>4 DEF OfCode, ChoiceOf
  <1>7. TruthOf(x) = FirstDifference(a, b)
    BY DEF TruthOf
  <1> HIDE DEF a, b, p, q
  <1>8. FirstDifference(a, b) \in 0..Frames
    BY <1>3, WholeDiffer
  <1>9. FirstDifference(p.stream, q.stream) = FirstDifference(a, b)
    BY <1>3, <1>5, <1>6, CutDiffers
  <1> QED BY <1>2, <1>6, <1>7, <1>8, <1>9 DEF p, q

LEMMA JudgeKeeps ==
  ASSUME IInv, NEW c \in Comparisons, Judge(c)
  PROVE  IInv'
  <1> DEFINE x == comparison[c]
             first == FirstDifference(x.payload["reference"].stream,
                                      x.payload["candidate"].stream)
             y == [x EXCEPT !.stage = "done", !.status = Verdict(c, first), !.first = first]
  <1>1. /\ x.stage = "judging" /\ x.stage \notin {"idle", "dead", "writing"} /\ x \in ComparisonType
        /\ Good(x, worker[c], graph, source, DOMAIN oracle)
        /\ UNCHANGED <<source, edits, graph, cache, worker>>
    BY Known DEF Judge
  <1>2. CASE ~SameGraph(c)
    <2>1. Report(c, "ERROR", 0)
      BY <1>2 DEF Judge
    <2> QED BY <1>1, <2>1, ReportErrorKeeps
  <1>3. CASE SameGraph(c)
    <2>1. Report(c, Verdict(c, first), first)
      BY <1>3, Zenon DEF Judge
    <2>2. \A role \in Roles : Sound(x, role, x.nodes)
      BY <1>1, <1>3 DEF Good, SameGraph
    <2>3. /\ first = TruthOf(x) /\ first \in 0..Frames
          /\ \A role \in Roles : x.payload[role].nodes = x.nodes
          /\ x.payload["candidate"].hits = Hits(x.receipt, x.candidate)
      BY <1>1, <2>2, SoundPair
    <2> HIDE DEF first
    <2>4. /\ Verdict(c, first) \in {"PASS", "NOT_EXERCISED", "DIVERGENCE"}
          /\ Verdict(c, first) = "DIVERGENCE" => first # 0
          /\ Verdict(c, first) = "PASS" =>
                /\ first = 0
                /\ x.candidate = "original" \/ x.payload["candidate"].hits
      BY DEF Verdict
    <2>5. Verdict(c, first) \in Statuses \ {"none"}
      BY <2>4 DEF Statuses
    <2>6. /\ y.nodes = x.nodes /\ y.candidate = x.candidate /\ y.receipt = x.receipt
          /\ y.status = Verdict(c, first) /\ y.first = first /\ y.payload = x.payload
      BY <1>1 DEF ComparisonType
    <2>7. TruthOf(y) = TruthOf(x)
      BY <2>6, OfCodeAlike
    <2>8. Verdict(c, first) = "PASS" =>
            x.candidate = "original" \/ x.receipt.game \notin Idle
      BY <2>3, <2>4 DEF Hits
    <2>9. Right(y, worker[c])
      <3> HIDE DEF x, y
      <3> QED BY <2>3, <2>4, <2>6, <2>7, <2>8 DEF Right
    <2> QED BY <1>1, <2>1, <2>3, <2>5, <2>9, ReportKeeps
  <1> QED BY <1>2, <1>3

----------------------------------------------------------------------------
\* The specification.

LEMMA InitHolds ==
  ASSUME Init
  PROVE  IInv
  <1>1. FirstTree \in Trees /\ Below(FirstTree, FirstTree)
        /\ \A part \in Parts : FirstTree[part] = 1
    BY DEF FirstTree, Trees, Below
  <1>2. Fresh \in ComparisonType /\ Fresh.stage = "idle" /\ Fresh.status = "none"
        /\ Fresh.receipt = FirstTree
    BY <1>1, VerificationAssumption DEF ComparisonType, Fresh, Stages, Statuses
  <1>3. NoWorker \in WorkerType
    BY <1>1 DEF NoWorker, WorkerType, WorkerStages
  <1>4. TypeInv
    BY <1>1, <1>2, <1>3, VerificationAssumption DEF Init, TypeInv
  <1>5. CacheInv /\ OpenInv
    BY DEF Init, CacheInv, OpenInv
  <1>6. ASSUME NEW c \in Comparisons
        PROVE  Good(comparison[c], worker[c], graph, source, DOMAIN oracle)
    <2>1. comparison[c] = Fresh /\ source = FirstTree
      BY DEF Init
    <2> QED BY <1>1, <1>2, <2>1 DEF Good
  <1> QED BY <1>4, <1>5, <1>6 DEF IInv

LEMMA NextKeeps ==
  ASSUME IInv, [Next]_vars
  PROVE  IInv'
  <1>1. CASE UNCHANGED vars
    BY <1>1 DEF vars, cache, IInv, TypeInv, CacheInv, OpenInv
  <1>2. CASE Edit
    BY <1>2, EditKeeps
  <1>3. CASE Grow
    BY <1>3, GrowKeeps
  <1>4. ASSUME NEW c \in Comparisons, Identify(c) PROVE IInv'
    BY <1>4, IdentifyKeeps
  <1>5. ASSUME NEW c \in Comparisons, Parent(c) PROVE IInv'
    BY <1>5, TakeReceiptKeeps, StartWorkersKeeps, NextWorkerKeeps, WorkersFailKeeps,
       ValidateKeeps, OpenTemporaryKeeps, StoreTemporaryKeeps, ReplaceOracleKeeps, JudgeKeeps, Zenon DEF Parent
  <1>6. ASSUME NEW c \in Comparisons, Worker(c) PROVE IInv'
    BY <1>6, ImportKeeps, ReadStoreKeeps, FinishKeeps, FailKeeps, Zenon DEF Worker
  <1>7. ASSUME NEW c \in Comparisons, NEW role \in Roles, Timeout(c, role) PROVE IInv'
    BY <1>7, FailKeeps
  <1>8. ASSUME NEW c \in Comparisons, Die(c) PROVE IInv'
    BY <1>8, DieKeeps
  <1> QED BY <1>1, <1>2, <1>3, <1>4, <1>5, <1>6, <1>7, <1>8, Zenon DEF Next

\* Every payload a comparison holds, in the cache or of its workers, is what a
\* tree between its receipt and the present observes.
THEOREM VerifyInvariant == Spec => []IInv
  <1>1. Init => IInv
    BY InitHolds
  <1>2. IInv /\ [Next]_vars => IInv'
    BY NextKeeps
  <1> QED BY <1>1, <1>2, PTL DEF Spec

\* The locals of compare_history keep their types.
THEOREM VerifyTypeOK == Spec => []TypeOK
  <1>1. IInv => TypeOK
    <2> SUFFICES ASSUME IInv PROVE TypeOK
      OBVIOUS
    <2>1. /\ source \in [Parts -> 1..(MaxEdits + 1)] /\ edits \in 0..MaxEdits
          /\ graph \in 1..MaxNodes
      BY VerificationAssumption DEF IInv, TypeInv, Trees
    <2>2. ASSUME NEW c \in Comparisons
          PROVE  /\ comparison[c].stage \in Stages /\ comparison[c].status \in Statuses
                 /\ (comparison[c].status # "none") = (comparison[c].stage = "done")
                 /\ comparison[c].first \in 0..Frames /\ open[c] \in {"none", "tmp", "entry", "gone"}
                 /\ \A role \in Roles : worker[c][role].stage \in
                       {"none", "started", "imported", "read", "finished"} \cup Failures
      BY Known DEF Good, ComparisonType, WorkerType, WorkerStages, IInv, OpenInv
    <2> QED BY <2>1, <2>2 DEF TypeOK
  <1> QED BY <1>1, VerifyInvariant, PTL

\* A PASS, a NOT_EXERCISED and a DIVERGENCE, and the first difference reported
\* with them, are those of the tree in the receipt: however many comparisons
\* share the cache, whatever is edited while a worker imports or runs, and
\* however early the candidate was stopped.
THEOREM VerifyOfReceipt == Spec => []VerdictIsOfReceipt
  <1>1. IInv => VerdictIsOfReceipt
    <2> SUFFICES ASSUME IInv, NEW c \in Comparisons
                 PROVE  /\ comparison[c].status \in {"PASS", "NOT_EXERCISED", "DIVERGENCE"} =>
                              comparison[c].first = Truth(c)
                        /\ comparison[c].status = "PASS" => Truth(c) = 0
                              /\ (comparison[c].candidate = "original"
                                  \/ comparison[c].receipt.game \notin Idle)
                        /\ comparison[c].status = "DIVERGENCE" => Truth(c) # 0
      BY DEF VerdictIsOfReceipt
    <2>1. Truth(c) = TruthOf(comparison[c])
      BY DEF Truth, TruthOf
    <2>2. comparison[c].status # "none" => Right(comparison[c], worker[c])
      BY Known DEF Good
    <2> QED BY <2>1, <2>2 DEF Right
  <1> QED BY <1>1, VerifyInvariant, PTL

\* A verdict is over exactly the graph that was identified, though a session
\* extends the history while the workers read it.
THEOREM VerifyCoversGraph == Spec => []VerdictCoversGraph
  <1>1. IInv => VerdictCoversGraph
    BY Known DEF Good, Right, VerdictCoversGraph
  <1> QED BY <1>1, VerifyInvariant, PTL

\* The candidate is blamed only when the reference did not fail.
THEOREM VerifyBlames == Spec => []BlamesCandidateLast
  <1>1. IInv => BlamesCandidateLast
    BY Known DEF Good, Right, BlamesCandidateLast
  <1> QED BY <1>1, VerifyInvariant, PTL

----------------------------------------------------------------------------
\* A temporary that two comparisons never held at once is written whole before
\* it is moved, so the entry it becomes can be read.

Holder(c) == comparison[c].stage \in {"writing", "replacing"}
HoldInv ==
    /\ \A k \in DOMAIN oracle : Readable(k) \/ k \in shared
    /\ \A c \in Comparisons : Holder(c) /\ OracleKey(c) \notin shared =>
          /\ OracleKey(c) \in DOMAIN oracleTmp
          /\ comparison[c].stage = "writing" =>
                open[c] = "tmp" /\ oracleTmp[OracleKey(c)] = {}
          /\ comparison[c].stage = "replacing" =>
                \E e : oracleTmp[OracleKey(c)] = {e}
    /\ \A c \in Comparisons, d \in Comparisons :
          c # d /\ Holder(c) /\ Holder(d) /\ OracleKey(c) = OracleKey(d) => OracleKey(c) \in shared

\* What happens to a comparison between its writes disturbs no temporary.
LEMMA QuietHolds ==
  ASSUME HoldInv, NEW c \in Comparisons, UNCHANGED <<oracle, oracleTmp, shared>>,
         \A d \in Comparisons \ {c} : comparison'[d] = comparison[d] /\ open'[d] = open[d],
         comparison'[c].stage \notin {"writing", "replacing"}
  PROVE  HoldInv'
  <1>1. ~Holder(c)'
    BY DEF Holder
  <1>2. \A d \in Comparisons \ {c} : Holder(d)' = Holder(d) /\ OracleKey(d)' = OracleKey(d)
    BY DEF Holder, OracleKey
  <1>3. \A k : Readable(k)' = Readable(k)
    BY DEF Readable
  <1> QED BY <1>1, <1>2, <1>3 DEF HoldInv

LEMMA QuietSteps ==
  ASSUME IInv, NEW c \in Comparisons,
         \/ Identify(c) \/ TakeReceipt(c) \/ StartWorkers(c) \/ NextWorker(c)
         \/ WorkersFail(c) \/ Validate(c) \/ Judge(c) \/ Worker(c)
         \/ \E role \in Roles : Timeout(c, role)
  PROVE  /\ UNCHANGED cache
         /\ \A d \in Comparisons \ {c} : comparison'[d] = comparison[d]
         /\ comparison'[c].stage \notin {"writing", "replacing"}
  <1> DEFINE Quiet == /\ UNCHANGED cache
                      /\ \A d \in Comparisons \ {c} : comparison'[d] = comparison[d]
                      /\ comparison'[c].stage \notin {"writing", "replacing"}
  <1>1. comparison \in [Comparisons -> ComparisonType]
    BY DEF IInv, TypeInv
  <1>2. \A status, first : Report(c, status, first) /\ UNCHANGED cache => Quiet
    BY <1>1 DEF Report, ComparisonType
  <1>3. \A stage : Reach(c, stage) /\ UNCHANGED cache /\ stage \in {"storing", "judging"} => Quiet
    BY <1>1 DEF Reach, ComparisonType
  <1>4. CASE Identify(c)
    BY <1>1, <1>4 DEF Identify, Fresh
  <1>5. CASE TakeReceipt(c)
    BY <1>1, <1>5 DEF TakeReceipt, ComparisonType
  <1>6. CASE StartWorkers(c)
    <2>1. UNCHANGED cache
      BY <1>6 DEF StartWorkers
    <2>2. CASE Report(c, "ERROR", 0)
      BY <1>2, <2>1, <2>2
    <2>3. CASE ~Report(c, "ERROR", 0)
      <3>1. comparison' = [comparison EXCEPT
                     ![c].stage = "running", ![c].cached = FromOracle(c),
                     ![c].payload["reference"] =
                        IF FromOracle(c) THEN Filed(OracleKey(c)) ELSE NoPayload]
        BY <1>6, <2>3, Zenon DEF StartWorkers
      <3> QED BY <1>1, <2>1, <3>1 DEF ComparisonType
    <2> QED BY <2>2, <2>3
  <1>7. CASE NextWorker(c)
    BY <1>7 DEF NextWorker
  <1>8. CASE WorkersFail(c)
    BY <1>2, <1>8 DEF WorkersFail
  <1>9. CASE Validate(c)
    BY <1>2, <1>3, <1>9 DEF Validate
  <1>10. CASE Judge(c)
    BY <1>2, <1>10, Zenon DEF Judge
  <1>11. CASE Worker(c) \/ \E role \in Roles : Timeout(c, role)
    <2>1. comparison[c].stage = "running" /\ UNCHANGED cache
      BY <1>11 DEF Worker, Import, ReadStore, Finish, Fail, Timeout, Watched, At, Alive
    <2>2. comparison' = comparison \/ \E role : Finish(c, role)
      BY <1>11 DEF Worker, Import, ReadStore, Fail, Timeout
    <2>3. ASSUME NEW role, Finish(c, role), comparison' # comparison PROVE Quiet
      <3>1. comparison' = [comparison EXCEPT ![c].payload[role] = Executed(c, role)]
        BY <2>3, Zenon DEF Finish
      <3> QED BY <1>1, <2>1, <3>1 DEF ComparisonType
    <2> QED BY <2>1, <2>2, <2>3
  <1> QED BY <1>4, <1>5, <1>6, <1>7, <1>8, <1>9, <1>10, <1>11

LEMMA OpenTemporaryHolds ==
  ASSUME IInv, HoldInv, NEW c \in Comparisons, OpenTemporary(c)
  PROVE  HoldInv'
  <1> DEFINE k == OracleKey(c)
  <1>1. /\ comparison[c].stage = "storing" /\ oracle' = oracle
        /\ comparison' = [comparison EXCEPT ![c].stage = "writing"]
        /\ oracleTmp' = With(oracleTmp, k, {}) /\ open' = [open EXCEPT ![c] = "tmp"]
        /\ shared' = IF \E d \in Comparisons \ {c} : Holding(d, k) THEN shared \cup {k} ELSE shared
    BY DEF OpenTemporary, Reach
  <1>2. /\ comparison'[c].stage = "writing" /\ open'[c] = "tmp"
        /\ \A d \in Comparisons \ {c} : comparison'[d] = comparison[d] /\ open'[d] = open[d]
        /\ \A d \in Comparisons : OracleKey(d)' = OracleKey(d)
    BY <1>1 DEF IInv, TypeInv, OpenInv, ComparisonType, OracleKey
  <1>3. /\ DOMAIN oracleTmp' = DOMAIN oracleTmp \cup {k} /\ oracleTmp'[k] = {}
        /\ \A j \in DOMAIN oracleTmp \ {k} : oracleTmp'[j] = oracleTmp[j]
    BY <1>1 DEF With
  <1>4. /\ shared \subseteq shared'
        /\ \A d \in Comparisons \ {c} : Holder(d) /\ OracleKey(d) = k => k \in shared'
    BY <1>1, <1>2 DEF Holding, Holder
  <1>5. \A j : Readable(j)' = Readable(j)
    BY <1>1 DEF Readable
  <1>6. \A d \in Comparisons \ {c} : Holder(d)' = Holder(d)
    BY <1>2 DEF Holder
  <1> HIDE DEF k
  <1>7. ASSUME NEW d \in Comparisons, Holder(d)', OracleKey(d)' \notin shared'
        PROVE  /\ OracleKey(d)' \in DOMAIN oracleTmp'
               /\ comparison'[d].stage = "writing" =>
                     open'[d] = "tmp" /\ oracleTmp'[OracleKey(d)'] = {}
               /\ comparison'[d].stage = "replacing" => \E e : oracleTmp'[OracleKey(d)'] = {e}
    <2>1. CASE d = c
      BY <1>2, <1>3, <2>1 DEF k
    <2>2. CASE d # c
      <3>1. /\ Holder(d) /\ OracleKey(d) \notin shared /\ OracleKey(d) # k
            /\ comparison'[d] = comparison[d] /\ open'[d] = open[d]
            /\ OracleKey(d)' = OracleKey(d)
        BY <1>2, <1>4, <1>6, <1>7, <2>2
      <3>2. /\ OracleKey(d) \in DOMAIN oracleTmp
            /\ comparison[d].stage = "writing" =>
                  open[d] = "tmp" /\ oracleTmp[OracleKey(d)] = {}
            /\ comparison[d].stage = "replacing" => \E e : oracleTmp[OracleKey(d)] = {e}
        BY <3>1 DEF HoldInv
      <3>3. OracleKey(d) \in DOMAIN oracleTmp' /\ oracleTmp'[OracleKey(d)] = oracleTmp[OracleKey(d)]
        BY <1>3, <3>1, <3>2
      <3> QED BY <3>1, <3>2, <3>3
    <2> QED BY <2>1, <2>2
  <1>8. ASSUME NEW a \in Comparisons, NEW b \in Comparisons, a # b, Holder(a)', Holder(b)',
               OracleKey(a)' = OracleKey(b)'
        PROVE  OracleKey(a)' \in shared'
    BY <1>2, <1>4, <1>6, <1>8 DEF HoldInv, k
  <1> QED BY <1>1, <1>4, <1>5, <1>7, <1>8 DEF HoldInv

LEMMA StoreTemporaryHolds ==
  ASSUME IInv, HoldInv, NEW c \in Comparisons, StoreTemporary(c)
  PROVE  HoldInv'
  <1> DEFINE k == OracleKey(c)
             entry == [from |-> c, run |-> comparison[c].payload["reference"]]
  <1>1. PICK tail \in BOOLEAN :
          /\ oracleTmp' = IF open[c] # "tmp" THEN oracleTmp
                          ELSE With(oracleTmp, k, {entry} \cup IF tail THEN oracleTmp[k] ELSE {})
          /\ oracle' = IF open[c] # "entry" THEN oracle
                       ELSE With(oracle, k, {entry} \cup IF tail THEN oracle[k] ELSE {})
    BY Zenon DEF StoreTemporary
  <1>2. /\ comparison[c].stage = "writing" /\ shared' = shared
        /\ comparison' = [comparison EXCEPT ![c].stage = "replacing"]
        /\ open' = [open EXCEPT ![c] = "none"]
    BY DEF StoreTemporary, Reach
  <1>3. /\ comparison'[c].stage = "replacing"
        /\ \A d \in Comparisons \ {c} : comparison'[d] = comparison[d] /\ open'[d] = open[d]
        /\ \A d \in Comparisons : OracleKey(d)' = OracleKey(d)
    BY <1>2 DEF IInv, TypeInv, OpenInv, ComparisonType, OracleKey
  <1>4. Holder(c) /\ \A d \in Comparisons : Holder(d)' = Holder(d)
    BY <1>2, <1>3 DEF Holder
  <1>5. /\ open[c] = "tmp" => k \in DOMAIN oracleTmp
        /\ open[c] = "entry" => k \in DOMAIN oracle
    BY KeyIs DEF IInv, OpenInv
  <1>6. /\ DOMAIN oracleTmp' = DOMAIN oracleTmp
        /\ \A j \in DOMAIN oracleTmp \ {k} : oracleTmp'[j] = oracleTmp[j]
    BY <1>1, <1>5 DEF With
  <1>7. /\ DOMAIN oracle' = DOMAIN oracle
        /\ \A j \in DOMAIN oracle \ {k} : oracle'[j] = oracle[j]
    BY <1>1, <1>5 DEF With
  <1>8. k \notin shared => /\ open[c] = "tmp" /\ oracle' = oracle
                           /\ k \in DOMAIN oracleTmp /\ oracleTmp'[k] = {entry}
    <2> SUFFICES ASSUME k \notin shared
                 PROVE  /\ open[c] = "tmp" /\ oracle' = oracle
                        /\ k \in DOMAIN oracleTmp /\ oracleTmp'[k] = {entry}
      OBVIOUS
    <2>1. open[c] = "tmp" /\ k \in DOMAIN oracleTmp /\ oracleTmp[k] = {}
      BY <1>2, <1>4 DEF HoldInv
    <2>2. oracleTmp'[k] = {entry} \cup IF tail THEN oracleTmp[k] ELSE {}
      BY <1>1, <2>1 DEF With
    <2> QED BY <1>1, <2>1, <2>2
  <1> HIDE DEF entry
  <1>9. ASSUME NEW j \in DOMAIN oracle' PROVE Readable(j)' \/ j \in shared'
    <2>1. CASE j = k /\ k \in shared
      BY <1>2, <2>1
    <2>2. CASE ~(j = k /\ k \in shared)
      <3>1. j \in DOMAIN oracle /\ oracle'[j] = oracle[j]
        BY <1>7, <1>8, <1>9, <2>2
      <3> QED BY <1>2, <3>1 DEF HoldInv, Readable
    <2> QED BY <2>1, <2>2
  <1>10. ASSUME NEW d \in Comparisons, Holder(d)', OracleKey(d)' \notin shared'
         PROVE  /\ OracleKey(d)' \in DOMAIN oracleTmp'
                /\ comparison'[d].stage = "writing" =>
                      open'[d] = "tmp" /\ oracleTmp'[OracleKey(d)'] = {}
                /\ comparison'[d].stage = "replacing" => \E e : oracleTmp'[OracleKey(d)'] = {e}
    <2>1. CASE d = c
      BY <1>2, <1>3, <1>6, <1>8, <1>10, <2>1
    <2>2. CASE d # c
      <3>1. OracleKey(d) # k
        BY <1>2, <1>3, <1>4, <1>10, <2>2 DEF HoldInv
      <3> HIDE DEF k
      <3>2. Holder(d) /\ OracleKey(d) \notin shared /\ comparison'[d] = comparison[d]
            /\ open'[d] = open[d] /\ OracleKey(d)' = OracleKey(d)
        BY <1>2, <1>3, <1>4, <1>10, <2>2
      <3>3. oracleTmp'[OracleKey(d)] = oracleTmp[OracleKey(d)]
            /\ OracleKey(d) \in DOMAIN oracleTmp'
        BY <1>6, <3>1, <3>2 DEF HoldInv
      <3> QED BY <3>2, <3>3 DEF HoldInv
    <2> QED BY <2>1, <2>2
  <1>11. ASSUME NEW a \in Comparisons, NEW b \in Comparisons, a # b, Holder(a)', Holder(b)',
                OracleKey(a)' = OracleKey(b)'
         PROVE  OracleKey(a)' \in shared'
    BY <1>2, <1>3, <1>4, <1>11 DEF HoldInv
  <1> QED BY <1>9, <1>10, <1>11 DEF HoldInv

LEMMA ReplaceOracleHolds ==
  ASSUME IInv, HoldInv, NEW c \in Comparisons, ReplaceOracle(c)
  PROVE  HoldInv'
  <1> DEFINE k == OracleKey(c)
  <1>1. comparison[c].stage = "replacing" /\ shared' = shared /\ Holder(c)
    BY DEF ReplaceOracle, Holder
  <1>2. CASE k \notin DOMAIN oracleTmp
    <2>1. Report(c, "ERROR", 0) /\ UNCHANGED <<oracle, oracleTmp, open>>
      BY <1>2 DEF ReplaceOracle
    <2>2. comparison'[c].stage = "done"
          /\ \A d \in Comparisons \ {c} : comparison'[d] = comparison[d]
      BY <2>1 DEF Report, IInv, TypeInv, ComparisonType
    <2> QED BY <1>1, <2>1, <2>2, QuietHolds
  <1>3. CASE k \in DOMAIN oracleTmp
    <2>1. /\ oracle' = With(oracle, k, oracleTmp[k])
          /\ oracleTmp' = [j \in DOMAIN oracleTmp \ {k} |-> oracleTmp[j]]
          /\ open' = [d \in Comparisons |-> IF OracleKey(d) = k THEN Carried(open[d])
                                            ELSE open[d]]
          /\ comparison' = [comparison EXCEPT ![c].stage = "judging"]
      BY <1>3 DEF ReplaceOracle, Reach
    <2>2. /\ DOMAIN oracle' = {k} \cup DOMAIN oracle /\ oracle'[k] = oracleTmp[k]
          /\ \A j \in DOMAIN oracle \ {k} : oracle'[j] = oracle[j]
          /\ DOMAIN oracleTmp' = DOMAIN oracleTmp \ {k}
          /\ \A j \in DOMAIN oracleTmp' : oracleTmp'[j] = oracleTmp[j]
      BY <2>1 DEF With
    <2>3. /\ comparison'[c].stage = "judging"
          /\ \A d \in Comparisons \ {c} : comparison'[d] = comparison[d]
          /\ \A d \in Comparisons : OracleKey(d)' = OracleKey(d)
      BY <2>1 DEF IInv, TypeInv, ComparisonType, OracleKey
    <2>4. ~Holder(c)' /\ \A d \in Comparisons \ {c} : Holder(d)' = Holder(d)
      BY <2>3 DEF Holder
    <2>5. k \notin shared => \E e : oracleTmp[k] = {e}
      BY <1>1 DEF HoldInv
    <2>6. ASSUME NEW j \in DOMAIN oracle' PROVE Readable(j)' \/ j \in shared'
      <3>1. CASE j = k
        BY <1>1, <2>2, <2>5, <3>1 DEF Readable
      <3>2. CASE j # k
        <4>1. j \in DOMAIN oracle /\ oracle'[j] = oracle[j]
          BY <2>2, <2>6, <3>2
        <4> QED BY <1>1, <4>1 DEF HoldInv, Readable
      <3> QED BY <3>1, <3>2
    <2>7. ASSUME NEW d \in Comparisons, Holder(d)', OracleKey(d)' \notin shared'
          PROVE  /\ OracleKey(d)' \in DOMAIN oracleTmp'
                 /\ comparison'[d].stage = "writing" =>
                       open'[d] = "tmp" /\ oracleTmp'[OracleKey(d)'] = {}
                 /\ comparison'[d].stage = "replacing" => \E e : oracleTmp'[OracleKey(d)'] = {e}
      <3>1. d # c /\ Holder(d) /\ OracleKey(d) \notin shared /\ comparison'[d] = comparison[d]
            /\ OracleKey(d)' = OracleKey(d)
        BY <1>1, <2>3, <2>4, <2>7
      <3>2. OracleKey(d) # k
        BY <1>1, <3>1 DEF HoldInv
      <3>3. open'[d] = open[d]
        BY <2>1, <3>2
      <3>4. /\ OracleKey(d) \in DOMAIN oracleTmp
            /\ comparison[d].stage = "writing" =>
                  open[d] = "tmp" /\ oracleTmp[OracleKey(d)] = {}
            /\ comparison[d].stage = "replacing" => \E e : oracleTmp[OracleKey(d)] = {e}
        BY <3>1 DEF HoldInv
      <3> HIDE DEF k
      <3>5. OracleKey(d) \in DOMAIN oracleTmp' /\ oracleTmp'[OracleKey(d)] = oracleTmp[OracleKey(d)]
        BY <2>2, <3>2, <3>4
      <3> QED BY <3>1, <3>3, <3>4, <3>5
    <2>8. ASSUME NEW a \in Comparisons, NEW b \in Comparisons, a # b, Holder(a)', Holder(b)',
                 OracleKey(a)' = OracleKey(b)'
          PROVE  OracleKey(a)' \in shared'
      BY <1>1, <2>3, <2>4, <2>8 DEF HoldInv
    <2> QED BY <2>6, <2>7, <2>8 DEF HoldInv
  <1> QED BY <1>2, <1>3

LEMMA HoldNext ==
  ASSUME IInv, HoldInv, [Next]_vars
  PROVE  HoldInv'
  <1>1. CASE UNCHANGED vars \/ Edit \/ Grow
    <2>1. UNCHANGED <<oracle, oracleTmp, open, shared, comparison>>
      BY <1>1 DEF vars, cache, Edit, Grow
    <2> QED BY <2>1 DEF HoldInv, Holder, OracleKey, Readable
  <1>2. ASSUME NEW c \in Comparisons, Identify(c) \/ Parent(c) \/ Worker(c) \/ Die(c)
                                      \/ \E role \in Roles : Timeout(c, role)
        PROVE  HoldInv'
    <2>1. CASE OpenTemporary(c)
      BY <2>1, OpenTemporaryHolds
    <2>2. CASE StoreTemporary(c)
      BY <2>2, StoreTemporaryHolds
    <2>3. CASE ReplaceOracle(c)
      BY <2>3, ReplaceOracleHolds
    <2>4. CASE Die(c)
      <3>1. /\ UNCHANGED <<oracle, oracleTmp, shared>> /\ comparison'[c].stage = "dead"
            /\ \A d \in Comparisons \ {c} : comparison'[d] = comparison[d] /\ open'[d] = open[d]
        BY <2>4 DEF Die, IInv, TypeInv, OpenInv, Fresh
      <3> QED BY <3>1, QuietHolds
    <2>5. CASE ~(OpenTemporary(c) \/ StoreTemporary(c) \/ ReplaceOracle(c) \/ Die(c))
      <3>1. /\ UNCHANGED cache
            /\ \A d \in Comparisons \ {c} : comparison'[d] = comparison[d]
            /\ comparison'[c].stage \notin {"writing", "replacing"}
        BY <1>2, <2>5, QuietSteps, Zenon DEF Parent
      <3> QED BY <3>1, QuietHolds DEF cache
    <2> QED BY <2>1, <2>2, <2>3, <2>4, <2>5
  <1> QED BY <1>1, <1>2, Zenon DEF Next

\* Without --tree whatever bytes are filed in the oracle cache come from the
\* stream any original run under that key observes, and an entry that cannot
\* be read is of a temporary two comparisons held at once: the others are whole
\* however many comparisons share the cache, and wherever one of them is
\* killed.  (With --tree the session extends the graph under the key: the run
\* verify_oracle_graph.)
THEOREM VerifyOracle ==
  ASSUME ~Tree
  PROVE  Spec => []OracleTrue
  <1>1. Init => HoldInv
    BY DEF Init, HoldInv, Holder, Fresh
  <1>2. IInv /\ HoldInv /\ [Next]_vars => HoldInv'
    BY HoldNext
  <1>3. IInv /\ HoldInv => OracleTrue
    <2> SUFFICES ASSUME IInv, HoldInv, NEW k \in DOMAIN oracle
                 PROVE  /\ \A e \in oracle[k] : e.run.stream =
                              Stream([shared |-> k.shared, native |-> k.native, game |-> 1],
                                     "original", k.nodes)
                        /\ Readable(k) \/ k \in shared
      BY DEF OracleTrue
    <2>1. ASSUME NEW e \in oracle[k]
          PROVE  e.run.stream = Stream([shared |-> k.shared, native |-> k.native, game |-> 1],
                                       "original", k.nodes)
      <3>1. Entry(k, e.run, graph) /\ graph = 1
        BY DEF IInv, TypeInv, CacheInv
      <3>2. k.nodes = 1 /\ e.run.nodes = 1
        BY <3>1 DEF Entry, Keys, Payloads
      <3>3. e.run.stream = Stream(k, "original", k.nodes)
        BY <3>1, <3>2 DEF Entry
      <3> QED BY <3>3, OriginalStream
    <2> QED BY <2>1 DEF HoldInv
  <1> QED BY <1>1, <1>2, <1>3, VerifyInvariant, PTL DEF Spec

----------------------------------------------------------------------------
\* A comparison ends.  Reported leaves to fairness that the parent goes on and that its
\* watchdogs expire; what they need is that nothing either process does is begun again.

StageLeft(stage) ==
    CASE stage = "idle" -> 8 [] stage = "identified" -> 7 [] stage = "receipted" -> 6
      [] stage = "running" -> 5 [] stage = "storing" -> 4 [] stage = "writing" -> 3
      [] stage = "replacing" -> 2 [] stage = "judging" -> 1 [] OTHER -> 0

\* A worker that is not started yet may still be.
WorkerLeft(stage) ==
    CASE stage = "none" -> 4 [] stage = "started" -> 3 [] stage = "imported" -> 2
      [] stage = "read" -> 1 [] OTHER -> 0

\* What a comparison x and its workers w can still do.
LeftOf(x, w) == 9 * StageLeft(x.stage) + WorkerLeft(w["reference"].stage)
                                       + WorkerLeft(w["candidate"].stage)
LeftToDo(c) == LeftOf(comparison[c], worker[c])

LEMMA LeftRange ==
  /\ \A stage : StageLeft(stage) \in 0..8 /\ WorkerLeft(stage) \in 0..4
  /\ \A x, w : LeftOf(x, w) \in 0..80
  <1>1. \A stage : StageLeft(stage) \in 0..8 /\ WorkerLeft(stage) \in 0..4
    BY DEF StageLeft, WorkerLeft
  <1>2. \A s \in 0..8, a \in 0..4, b \in 0..4 : 9 * s + a + b \in 0..80
    OBVIOUS
  <1> QED BY <1>1, <1>2 DEF LeftOf

\* The parent reaches a later stage, whatever it starts on the way.
LEMMA StageFalls ==
  ASSUME NEW x, NEW w, NEW y, NEW v, StageLeft(y.stage) < StageLeft(x.stage)
  PROVE  LeftOf(y, v) < LeftOf(x, w)
  <1>1. \A s \in 0..8, t \in 0..8, a \in 0..4, b \in 0..4, d \in 0..4, e \in 0..4 :
           t < s => 9 * t + d + e < 9 * s + a + b
    OBVIOUS
  <1> QED BY <1>1, LeftRange DEF LeftOf

\* A worker reaches a later stage, and the other stays where it is.
LEMMA WorkerFalls ==
  ASSUME NEW x, NEW w, NEW y, NEW v, NEW role \in Roles, y.stage = x.stage,
         WorkerLeft(v[role].stage) < WorkerLeft(w[role].stage),
         \A other \in Roles \ {role} : v[other].stage = w[other].stage
  PROVE  LeftOf(y, v) < LeftOf(x, w)
  <1>1. \A s \in 0..8, a \in 0..4, b \in 0..4, d \in 0..4 :
           b < a => 9 * s + b + d < 9 * s + a + d /\ 9 * s + d + b < 9 * s + d + a
    OBVIOUS
  <1>2. CASE role = "reference"
    <2>1. v["candidate"].stage = w["candidate"].stage
      BY <1>2 DEF Roles
    <2> QED BY <1>1, <1>2, <2>1, LeftRange DEF LeftOf
  <1>3. CASE role = "candidate"
    <2>1. v["reference"].stage = w["reference"].stage
      BY <1>3 DEF Roles
    <2> QED BY <1>1, <1>3, <2>1, LeftRange DEF LeftOf
  <1> QED BY <1>2, <1>3 DEF Roles

\* What a step of the comparison c does to it and to no other.
Onwards(c) ==
    /\ \A d \in Comparisons \ {c} : comparison'[d] = comparison[d] /\ worker'[d] = worker[d]
    /\ LeftToDo(c)' < LeftToDo(c)

LEMMA ParentOnwards ==
  ASSUME IInv, NEW c \in Comparisons, Identify(c) \/ Parent(c) \/ Die(c)
  PROVE  Onwards(c)
  <1>1. /\ comparison \in [Comparisons -> ComparisonType]
        /\ worker \in [Comparisons -> [Roles -> WorkerType]]
    BY DEF IInv, TypeInv
  <1>2. ASSUME NEW stage \in {"identified", "receipted", "running", "storing", "writing",
                              "replacing", "judging", "done"},
               StageLeft(stage) < StageLeft(comparison[c].stage),
               comparison'[c].stage = stage,
               \A d \in Comparisons \ {c} : comparison'[d] = comparison[d]
                                            /\ worker'[d] = worker[d]
        PROVE  Onwards(c)
    BY <1>2, StageFalls DEF Onwards, LeftToDo
  <1>3. ASSUME NEW status, NEW first, Report(c, status, first), comparison[c].stage \notin {"done", "dead"},
               \A d \in Comparisons \ {c} : worker'[d] = worker[d]
        PROVE  Onwards(c)
    <2>1. comparison'[c].stage = "done"
          /\ \A d \in Comparisons \ {c} : comparison'[d] = comparison[d]
      BY <1>1, <1>3 DEF Report, ComparisonType
    <2>2. comparison[c].stage \in Stages \ {"done", "dead"}
      BY <1>1, <1>3 DEF ComparisonType
    <2>3. StageLeft("done") < StageLeft(comparison[c].stage)
      BY <2>2 DEF StageLeft, Stages
    <2> QED BY <1>2, <1>3, <2>1, <2>3
  <1>4. ASSUME NEW stage \in {"storing", "writing", "replacing", "judging"}, Reach(c, stage),
               StageLeft(stage) < StageLeft(comparison[c].stage),
               worker' = worker
        PROVE  Onwards(c)
    <2>1. comparison'[c].stage = stage
          /\ \A d \in Comparisons \ {c} : comparison'[d] = comparison[d]
      BY <1>1, <1>4 DEF Reach, ComparisonType
    <2> QED BY <1>2, <1>4, <2>1
  <1>5. CASE Identify(c)
    <2>1. comparison'[c].stage = "identified" /\ comparison[c].stage = "idle" /\ worker' = worker
          /\ \A d \in Comparisons \ {c} : comparison'[d] = comparison[d]
      BY <1>1, <1>5 DEF Identify, Fresh
    <2>2. StageLeft("identified") < StageLeft("idle")
      BY DEF StageLeft
    <2> QED BY <1>2, <2>1, <2>2
  <1>6. CASE TakeReceipt(c)
    <2>1. comparison'[c].stage = "receipted" /\ comparison[c].stage = "identified"
          /\ worker' = worker
          /\ \A d \in Comparisons \ {c} : comparison'[d] = comparison[d]
      BY <1>1, <1>6 DEF TakeReceipt, ComparisonType
    <2>2. StageLeft("receipted") < StageLeft("identified")
      BY DEF StageLeft
    <2> QED BY <1>2, <2>1, <2>2
  <1>7. CASE StartWorkers(c)
    <2>1. comparison[c].stage = "receipted"
      BY <1>7 DEF StartWorkers
    <2>2. CASE Report(c, "ERROR", 0) /\ worker' = worker
      BY <1>3, <2>1, <2>2
    <2>3. CASE ~(Report(c, "ERROR", 0) /\ worker' = worker)
      <3>1. PICK started :
              /\ comparison' = [comparison EXCEPT
                     ![c].stage = "running", ![c].cached = FromOracle(c),
                     ![c].payload["reference"] =
                        IF FromOracle(c) THEN Filed(OracleKey(c)) ELSE NoPayload]
              /\ worker' = [worker EXCEPT ![c] = started]
        BY <1>7, <2>3, Zenon DEF StartWorkers
      <3>2. /\ comparison'[c].stage = "running"
            /\ \A d \in Comparisons \ {c} : comparison'[d] = comparison[d]
                                            /\ worker'[d] = worker[d]
        BY <1>1, <3>1 DEF ComparisonType
      <3>3. StageLeft("running") < StageLeft("receipted")
        BY DEF StageLeft
      <3> QED BY <1>2, <2>1, <3>2, <3>3
    <2> QED BY <2>2, <2>3
  <1>8. CASE NextWorker(c)
    <2>1. /\ worker' = [worker EXCEPT ![c]["candidate"].stage = "started"]
          /\ comparison' = comparison /\ worker[c]["candidate"].stage = "none"
          /\ "candidate" \in Roles /\ "reference" \in Roles
      BY <1>8 DEF NextWorker, Roles
    <2>2. /\ worker'[c]["candidate"].stage = "started"
          /\ \A other \in Roles \ {"candidate"} : worker'[c][other] = worker[c][other]
          /\ \A d \in Comparisons \ {c} : worker'[d] = worker[d]
      BY <1>1, <2>1 DEF WorkerType
    <2>3. WorkerLeft("started") < WorkerLeft("none")
      BY DEF WorkerLeft
    <2>4. LeftOf(comparison'[c], worker'[c]) < LeftOf(comparison[c], worker[c])
      BY <2>1, <2>2, <2>3, WorkerFalls
    <2> QED BY <2>1, <2>2, <2>4 DEF Onwards, LeftToDo
  <1>9. CASE WorkersFail(c)
    BY <1>3, <1>9 DEF WorkersFail
  <1>10. CASE Validate(c)
    <2>1. comparison[c].stage = "running" /\ worker' = worker
      BY <1>10 DEF Validate
    <2>2. Report(c, "ERROR", 0) \/ Reach(c, "judging") \/ Reach(c, "storing")
      BY <1>10 DEF Validate
    <2>3. StageLeft("judging") < StageLeft("running") /\ StageLeft("storing") < StageLeft("running")
      BY DEF StageLeft
    <2> QED BY <1>3, <1>4, <2>1, <2>2, <2>3
  <1>11. CASE StoreTemporary(c)
    <2>1. StageLeft("replacing") < StageLeft("writing")
      BY DEF StageLeft
    <2> QED BY <1>4, <1>11, <2>1 DEF StoreTemporary
  <1>12. CASE ReplaceOracle(c)
    <2>1. comparison[c].stage = "replacing" /\ worker' = worker
      BY <1>12 DEF ReplaceOracle
    <2>2. Report(c, "ERROR", 0) \/ Reach(c, "judging")
      BY <1>12, Zenon DEF ReplaceOracle
    <2>3. StageLeft("judging") < StageLeft("replacing")
      BY DEF StageLeft
    <2> QED BY <1>3, <1>4, <2>1, <2>2, <2>3
  <1>13. CASE Judge(c)
    <2>1. comparison[c].stage = "judging" /\ worker' = worker
      BY <1>13 DEF Judge
    <2>2. \E status, first : Report(c, status, first)
      BY <1>13, Zenon DEF Judge
    <2> QED BY <1>3, <2>1, <2>2
  <1>14. CASE OpenTemporary(c)
    <2>1. StageLeft("writing") < StageLeft("storing")
      BY DEF StageLeft
    <2> QED BY <1>4, <1>14, <2>1 DEF OpenTemporary
  <1>15. CASE Die(c)
    <2>1. comparison'[c].stage = "dead"
          /\ \A d \in Comparisons \ {c} : comparison'[d] = comparison[d] /\ worker'[d] = worker[d]
      BY <1>1, <1>15 DEF Die, Fresh
    <2>2. comparison[c].stage \in Stages \ {"done", "dead"}
      BY <1>1, <1>15 DEF Die, ComparisonType
    <2>3. StageLeft("dead") < StageLeft(comparison[c].stage)
      BY <2>2 DEF StageLeft, Stages
    <2> QED BY <2>1, <2>3, StageFalls DEF Onwards, LeftToDo
  <1> QED BY <1>5, <1>6, <1>7, <1>8, <1>9, <1>10, <1>11, <1>12, <1>13, <1>14, <1>15 DEF Parent

LEMMA WorkerOnwards ==
  ASSUME IInv, NEW c \in Comparisons, NEW role \in Roles,
         \/ Import(c, role) \/ ReadStore(c, role) \/ Finish(c, role) \/ Fail(c, role)
         \/ Timeout(c, role)
  PROVE  Onwards(c)
  <1>1. /\ comparison \in [Comparisons -> ComparisonType]
        /\ worker \in [Comparisons -> [Roles -> WorkerType]]
    BY DEF IInv, TypeInv
  <1>2. /\ comparison'[c].stage = comparison[c].stage
        /\ \A d \in Comparisons \ {c} : comparison'[d] = comparison[d] /\ worker'[d] = worker[d]
        /\ \A other \in Roles \ {role} : worker'[c][other] = worker[c][other]
    BY <1>1 DEF Import, ReadStore, Finish, Fail, Timeout, ComparisonType
  <1>3. \/ worker[c][role].stage = "started" /\ worker'[c][role].stage = "imported"
        \/ worker[c][role].stage = "imported" /\ worker'[c][role].stage = "read"
        \/ /\ worker[c][role].stage \in {"started", "imported", "read"}
           /\ worker'[c][role].stage \in {"finished"} \cup Failures
    <2>1. CASE Import(c, role) \/ ReadStore(c, role)
      BY <1>1, <2>1 DEF Import, ReadStore, At, WorkerType
    <2>2. CASE Finish(c, role)
      BY <1>1, <2>2 DEF Finish, At, NoWorker, WorkerType, Failures
    <2>3. CASE Fail(c, role) \/ Timeout(c, role)
      <3>1. Faults \subseteq Failures
        BY VerificationAssumption DEF Failures
      <3>2. PICK kind \in Faults :
              worker' = [worker EXCEPT ![c][role] = [NoWorker EXCEPT !.stage = kind]]
        BY <2>3 DEF Fail, Timeout
      <3>3. worker'[c][role].stage = kind
        BY <1>1, <3>2 DEF NoWorker
      <3> QED BY <2>3, <3>1, <3>3 DEF Fail, Timeout, Watched, Alive
    <2> QED BY <2>1, <2>2, <2>3
  <1>4. WorkerLeft(worker'[c][role].stage) < WorkerLeft(worker[c][role].stage)
    BY <1>3 DEF WorkerLeft, Failures
  <1>5. LeftOf(comparison'[c], worker'[c]) < LeftOf(comparison[c], worker[c])
    BY <1>2, <1>4, WorkerFalls
  <1> QED BY <1>2, <1>5 DEF Onwards, LeftToDo

\* A comparison takes at most 80 steps of its own, however its workers hang, fail or are
\* overtaken by edits, and whatever other comparisons do with the cache: everything that
\* happens to it or to its workers brings it nearer to its report, nothing is run twice,
\* and no other comparison touches it.
THEOREM VerifyOnwards ==
  Spec => /\ [](\A c \in Comparisons : LeftToDo(c) \in 0..80)
          /\ [][\A c \in Comparisons :
                   <<comparison[c], worker[c]>>' # <<comparison[c], worker[c]>>
                      => LeftToDo(c)' < LeftToDo(c)]_vars
  <1> DEFINE Falls == \A c \in Comparisons :
                   <<comparison[c], worker[c]>>' # <<comparison[c], worker[c]>>
                      => LeftToDo(c)' < LeftToDo(c)
  <1>1. \A c \in Comparisons : LeftToDo(c) \in 0..80
    BY LeftRange DEF LeftToDo
  <1>2. IInv /\ [Next]_vars => [Falls]_vars
    <2> SUFFICES ASSUME IInv, Next PROVE Falls
      OBVIOUS
    <2>1. ASSUME NEW c \in Comparisons, Onwards(c) PROVE Falls
      BY <2>1 DEF Onwards
    <2>2. CASE Edit \/ Grow
      BY <2>2 DEF Edit, Grow, cache
    <2>3. CASE \E c \in Comparisons : Identify(c) \/ Parent(c) \/ Die(c)
      BY <2>1, <2>3, ParentOnwards
    <2>4. CASE \E c \in Comparisons : Worker(c) \/ \E role \in Roles : Timeout(c, role)
      <3>1. PICK c \in Comparisons, role \in Roles :
              \/ Import(c, role) \/ ReadStore(c, role) \/ Finish(c, role) \/ Fail(c, role)
              \/ Timeout(c, role)
        BY <2>4, Zenon DEF Worker
      <3>2. Onwards(c)
        BY <3>1, WorkerOnwards
      <3> QED BY <2>1, <3>2
    <2> HIDE DEF Falls
    <2> QED BY <2>2, <2>3, <2>4, Zenon DEF Next
  <1> HIDE DEF Falls
  <1>3. Spec => [](\A c \in Comparisons : LeftToDo(c) \in 0..80) /\ [][Falls]_vars
    BY <1>1, <1>2, VerifyInvariant, PTL DEF Spec
  <1> QED BY <1>3 DEF Falls
====
