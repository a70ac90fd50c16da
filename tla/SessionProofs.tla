---- MODULE SessionProofs ----
(***************************************************************************)
(* Proofs about Session, for every number of players, frames, masks,       *)
(* builds and sessions: what a session is to play, preserve or close is    *)
(* always on disk or in its journal.                                       *)
(***************************************************************************)
EXTENDS Session, HistoryStoreProofs, FiniteSetTheorems

----------------------------------------------------------------------------
\* What a session may still have to do: which operation leads to which.

Ends == {"play", "preserve", "close"}
Leads(a, b) ==
    \/ a = "identify" /\ b = "restore"
    \/ a = "restore" /\ b = "play"
    \/ a = "append" /\ b = "present"
    \/ a = "present" /\ b \in {"cache", "main"}
    \/ a = "cache" /\ b \in {"main", "play"}
    \/ a = "main" /\ b \in {"adopt", "close"}
    \/ a = "adopt" /\ b \in {"play", "close"}
Plan(t) ==
    /\ t \in Seq(Ops)
    /\ \A i \in 1..Len(t) : IF i = Len(t) THEN t[i] \in Ends ELSE Leads(t[i], t[i + 1])

\* The operation at hand.
Op(t) == IF t = <<>> THEN "closed" ELSE Head(t)
\* Only a fault leaves the run's mask other than its journal's: a preservation
\* neither caches nor goes on.
Exact(t) == \E i \in 1..Len(t) : t[i] \in {"cache", "adopt", "play"}

LEMMA PlanFacts ==
  ASSUME NEW t, Plan(t)
  PROVE  /\ t \in Seq(Ops) /\ Len(t) \in Nat /\ (t = <<>> <=> Op(t) = "closed")
         /\ t # <<>> => Len(t) > 0 /\ Op(t) = t[1] /\ Op(t) = Head(t) /\ Op(t) \in Ops
         /\ Op(t) \in Ends => Len(t) = 1 /\ t = <<Op(t)>>
         /\ Op(t) \in {"cache", "adopt", "play"} => Exact(t)
  <1>1. t \in Seq(Ops) /\ Len(t) \in Nat /\ (t = <<>> <=> Len(t) = 0)
    BY EmptySeq DEF Plan
  <1>2. t # <<>> => Len(t) > 0 /\ Op(t) = t[1] /\ Op(t) = Head(t) /\ Op(t) \in Ops
    BY <1>1 DEF Op
  <1>3. "closed" \notin Ops /\ "closed" \notin Ends
    BY DEF Ops, Ends
  <1>4. t = <<>> <=> Op(t) = "closed"
    BY <1>2, <1>3 DEF Op
  <1>5. ASSUME Op(t) \in Ends PROVE Len(t) = 1 /\ t = <<Op(t)>>
    <2>1. t # <<>>
      BY <1>3, <1>4, <1>5
    <2>2. \A b : ~Leads(t[1], b)
      BY <1>2, <1>5, <2>1 DEF Leads, Ends
    <2>3. Len(t) = 1
      BY <1>1, <1>2, <2>1, <2>2 DEF Plan
    <2> QED BY <1>1, <1>2, <2>1, <2>3
  <1>6. Op(t) \in {"cache", "adopt", "play"} => Exact(t)
    BY <1>1, <1>2, <1>4 DEF Exact
  <1> QED BY <1>1, <1>2, <1>4, <1>5, <1>6

LEMMA PlanTail ==
  ASSUME NEW t, Plan(t), t # <<>>
  PROVE  /\ Plan(Tail(t)) /\ (Exact(Tail(t)) => Exact(t))
         /\ Op(t) \in Ends => Tail(t) = <<>>
         /\ Op(t) \notin Ends => Leads(Op(t), Op(Tail(t)))
  <1>1. t \in Seq(Ops) /\ Len(t) \in Nat \ {0} /\ Op(t) = t[1]
    BY PlanFacts
  <1>2. /\ Tail(t) \in Seq(Ops) /\ Len(Tail(t)) = Len(t) - 1
        /\ \A i \in 1..(Len(t) - 1) : Tail(t)[i] = t[i + 1]
    BY <1>1
  <1> DEFINE r == Tail(t)
  <1> HIDE DEF r
  <1>3. /\ r \in Seq(Ops) /\ Len(r) = Len(t) - 1 /\ \A i \in 1..(Len(t) - 1) : r[i] = t[i + 1]
    BY <1>2 DEF r
  <1>4. Plan(r)
    <2> SUFFICES ASSUME NEW i \in 1..Len(r)
                 PROVE  IF i = Len(r) THEN r[i] \in Ends ELSE Leads(r[i], r[i + 1])
      BY <1>3 DEF Plan
    <2>1. i + 1 \in 1..Len(t) /\ r[i] = t[i + 1] /\ (i = Len(r) <=> i + 1 = Len(t))
      BY <1>1, <1>3
    <2>2. i # Len(r) => r[i + 1] = t[i + 1 + 1]
      BY <1>1, <1>3
    <2> QED BY <2>1, <2>2 DEF Plan
  <1>5. Exact(r) => Exact(t)
    <2> SUFFICES ASSUME NEW i \in 1..Len(r), r[i] \in {"cache", "adopt", "play"} PROVE Exact(t)
      BY DEF Exact
    <2>1. i + 1 \in 1..Len(t) /\ r[i] = t[i + 1]
      BY <1>1, <1>3
    <2> QED BY <2>1 DEF Exact
  <1>6. Op(t) \in Ends => r = <<>>
    BY <1>3, PlanFacts, EmptySeq
  <1>7. ASSUME Op(t) \notin Ends PROVE Leads(Op(t), Op(r))
    <2>1. Len(t) > 1 /\ 1 \in 1..Len(t) /\ Leads(t[1], t[1 + 1])
      BY <1>1, <1>7 DEF Plan
    <2>2. r # <<>> /\ r[1] = t[2] /\ Op(r) = r[1]
      BY <1>1, <1>3, <1>4, <2>1, PlanFacts, EmptySeq
    <2> QED BY <1>1, <2>1, <2>2
  <1> QED BY <1>4, <1>5, <1>6, <1>7 DEF r

LEMMA ShortSequences ==
  ASSUME NEW S, NEW a \in S, NEW b \in S, NEW c \in S, NEW d \in S, NEW e \in S, NEW f \in S
  PROVE  /\ <<a>> \in Seq(S) /\ <<a, b>> \in Seq(S) /\ <<a, b, c>> \in Seq(S)
         /\ <<a, b, c, d>> \in Seq(S) /\ <<a, b, c, d, e>> \in Seq(S)
         /\ <<a, b, c, d, e, f>> \in Seq(S)
  OBVIOUS

LEMMA CheckpointingIs ==
  ASSUME NEW f \in Ops
  PROVE  Checkpointing \o <<f>> = <<"append", "present", "cache", "main", "adopt", f>>
  <1> DEFINE s == Checkpointing \o <<f>>
             u == <<"append", "present", "cache", "main", "adopt", f>>
  <1>1. /\ "append" \in Ops /\ "present" \in Ops /\ "cache" \in Ops /\ "main" \in Ops
        /\ "adopt" \in Ops
    BY DEF Ops
  <1>2. Checkpointing \in Seq(Ops) /\ <<f>> \in Seq(Ops) /\ u \in Seq(Ops)
    BY <1>1, ShortSequences DEF Checkpointing
  <1>3. s \in Seq(Ops) /\ Len(s) = 6 /\ Len(u) = 6
    BY <1>2 DEF Checkpointing
  <1>4. s[1] = u[1] /\ s[2] = u[2] /\ s[3] = u[3] /\ s[4] = u[4] /\ s[5] = u[5] /\ s[6] = u[6]
    BY <1>2 DEF Checkpointing
  <1> HIDE DEF s, u
  <1>5. \A i \in 1..6 : i = 1 \/ i = 2 \/ i = 3 \/ i = 4 \/ i = 5 \/ i = 6
    OBVIOUS
  <1>6. \A i \in 1..Len(s) : s[i] = u[i]
    BY <1>3, <1>4, <1>5
  <1>7. s = u
    BY <1>2, <1>3, <1>6, SeqEqual
  <1> QED BY <1>7 DEF s, u

\* The plans a session is given.
LEMMA PlansGiven ==
  /\ Plan(<<>>) /\ Op(<<>>) = "closed"
  /\ Plan(<<"identify", "restore", "play">>) /\ Op(<<"identify", "restore", "play">>) = "identify"
  /\ Plan(<<"cache", "play">>) /\ Op(<<"cache", "play">>) = "cache"
  /\ Plan(<<"preserve">>) /\ Op(<<"preserve">>) = "preserve"
  /\ Plan(<<"close">>) /\ Op(<<"close">>) = "close"
  /\ Plan(Preservation) /\ Op(Preservation) = "append" /\ ~Exact(Preservation)
  /\ \A last \in {"play", "close"} : /\ Plan(Checkpointing \o <<last>>)
                                     /\ Op(Checkpointing \o <<last>>) = "append"
  <1>1. /\ "identify" \in Ops /\ "restore" \in Ops /\ "play" \in Ops /\ "append" \in Ops
        /\ "present" \in Ops /\ "cache" \in Ops /\ "main" \in Ops
        /\ "adopt" \in Ops /\ "preserve" \in Ops /\ "close" \in Ops
    BY DEF Ops
  <1>2. Plan(<<>>) /\ Op(<<>>) = "closed"
    BY EmptySeq DEF Plan, Op
  <1>3. Plan(<<"identify", "restore", "play">>) /\ Op(<<"identify", "restore", "play">>) = "identify"
    <2>1. <<"identify", "restore", "play">> \in Seq(Ops)
      BY <1>1, ShortSequences
    <2> QED BY <2>1 DEF Plan, Op, Leads, Ends
  <1>4. Plan(<<"cache", "play">>) /\ Op(<<"cache", "play">>) = "cache"
    <2>1. <<"cache", "play">> \in Seq(Ops)
      BY <1>1, ShortSequences
    <2> QED BY <2>1 DEF Plan, Op, Leads, Ends
  <1>5. /\ Plan(<<"preserve">>) /\ Op(<<"preserve">>) = "preserve"
        /\ Plan(<<"close">>) /\ Op(<<"close">>) = "close"
    <2>1. <<"preserve">> \in Seq(Ops) /\ <<"close">> \in Seq(Ops)
      BY <1>1, ShortSequences
    <2> QED BY <2>1 DEF Plan, Op, Leads, Ends
  <1>6. Plan(Preservation) /\ Op(Preservation) = "append" /\ ~Exact(Preservation)
    <2>1. Preservation \in Seq(Ops)
      BY <1>1, ShortSequences DEF Preservation
    <2> QED BY <2>1 DEF Plan, Op, Leads, Ends, Exact, Preservation
  <1>7. ASSUME NEW last \in {"play", "close"}
        PROVE  Plan(Checkpointing \o <<last>>) /\ Op(Checkpointing \o <<last>>) = "append"
    <2> DEFINE u == <<"append", "present", "cache", "main", "adopt", last>>
    <2>1. u \in Seq(Ops) /\ Checkpointing \o <<last>> = u
      BY <1>1, ShortSequences, CheckpointingIs
    <2>2. Plan(u) /\ Op(u) = "append"
      BY <2>1 DEF Plan, Op, Leads, Ends
    <2> QED BY <2>1, <2>2
  <1> QED BY <1>2, <1>3, <1>4, <1>5, <1>6, <1>7

----------------------------------------------------------------------------
\* What the directory holds.

Reached == {id \in Paths : id.end <= MaxFrames}
Targets == {Main} \cup {NodeFile(id) : id \in Reached} \cup {Presentation(id) : id \in Paths}
           \cup {CacheFile(b, id) : b \in 1..MaxBuild, id \in Paths}

\* A record some session wrote for a target, over the identifiers that are there.
CacheOf(b, id) == [frame |-> id.end, buttons |-> ButtonsOf(id.inputs),
                   state |-> [by |-> b, inputs |-> Held(id.inputs, id.end)]]
FileOk(target, value, ids) ==
    /\ target \in Targets
    /\ target = Main => value \in ids
    /\ \A id \in Paths : target = NodeFile(id) => Fit(id, value) /\ value.parent \in ids
    /\ \A id \in Paths, b \in 1..MaxBuild : target = CacheFile(b, id) => value = CacheOf(b, id)
\* Torn or whole, a file or a temporary comes from such records.
FilesOk(F, ids) == \A f \in DOMAIN F : f \in Targets /\ \A v \in F[f] : FileOk(f, v, ids)

\* OfKind, NodeIds, Readable and Nodes, of any directory; and the identifiers
\* that are there, whether or not their nodes can be read.
StoredIn(F) == {f.id : f \in {g \in DOMAIN F : g.kind = "node"}}
There(F) == StoredIn(F) \cup {RootId}
ReadableIn(F, f) == f \in DOMAIN F /\ \E v \in F[f] : F[f] = {v}
NodesIn(F) == [id \in {i \in StoredIn(F) : ReadableIn(F, NodeFile(i))}
                 |-> CHOOSE v \in F[NodeFile(id)] : TRUE]

LEMMA TargetKinds ==
  /\ \A id : /\ Main # NodeFile(id) /\ Main # Presentation(id)
             /\ NodeFile(id).kind = "node" /\ NodeFile(id).id = id
             /\ Presentation(id).kind = "presentation"
  /\ \A b, id : /\ CacheFile(b, id).kind = "cache" /\ CacheFile(b, id).native = b
                /\ CacheFile(b, id).id = id /\ CacheFile(b, id) # Main
  /\ Main.kind = "main"
  /\ \A i, j : NodeFile(i) = NodeFile(j) => i = j
  /\ \A i, j : NodeFile(i) # Presentation(j)
  /\ \A i, j, b : NodeFile(i) # CacheFile(b, j) /\ Presentation(i) # CacheFile(b, j)
  /\ \A i, j, b, c : CacheFile(b, i) = CacheFile(c, j) => b = c /\ i = j
  <1>1. /\ \A id : NodeFile(id).kind = "node" /\ NodeFile(id).id = id
                   /\ Presentation(id).kind = "presentation"
        /\ \A b, id : CacheFile(b, id).kind = "cache" /\ CacheFile(b, id).native = b
                      /\ CacheFile(b, id).id = id
        /\ Main.kind = "main"
    BY DEF NodeFile, Presentation, CacheFile, Main
  <1>2. \A i, j : NodeFile(i) = NodeFile(j) => NodeFile(i).id = NodeFile(j).id
    OBVIOUS
  <1>3. \A i, j, b, c : CacheFile(b, i) = CacheFile(c, j) =>
          CacheFile(b, i).id = CacheFile(c, j).id /\ CacheFile(b, i).native = CacheFile(c, j).native
    OBVIOUS
  <1>4. /\ \A id : Main # NodeFile(id) /\ Main # Presentation(id)
        /\ \A b, id : CacheFile(b, id) # Main
        /\ \A i, j : NodeFile(i) # Presentation(j)
        /\ \A i, j, b : NodeFile(i) # CacheFile(b, j) /\ Presentation(i) # CacheFile(b, j)
    <2>1. "main" # "node" /\ "main" # "presentation" /\ "main" # "cache" /\ "node" # "cache"
          /\ "node" # "presentation" /\ "presentation" # "cache"
      OBVIOUS
    <2> QED BY <1>1, <2>1
  <1> QED BY <1>1, <1>2, <1>3, <1>4

LEMMA TargetsAre ==
  /\ \A f \in Targets : /\ f.kind \in Kinds
                        /\ f.kind = "node" => \E id \in Reached : f = NodeFile(id)
  /\ Main \in Targets
  /\ \A id \in Reached : NodeFile(id) \in Targets
  /\ \A id \in Paths : Presentation(id) \in Targets
  /\ \A id \in Paths, b \in 1..MaxBuild : CacheFile(b, id) \in Targets
  BY TargetKinds DEF Targets, Kinds

LEMMA ReachedPaths ==
  RootId \in Reached /\ \A id \in Reached : id \in Paths /\ id.end \in 0..MaxFrames
  <1>1. RootId \in Paths /\ RootId.end <= MaxFrames
    BY RootPath, SessionAssumption
  <1>2. \A id \in Reached : id \in Paths /\ id.end \in 0..MaxFrames
    BY PathFields, SessionAssumption DEF Reached
  <1> QED BY <1>1, <1>2 DEF Reached

LEMMA StoredIs ==
  ASSUME NEW F, NEW ids, FilesOk(F, ids)
  PROVE  StoredIn(F) = {id \in Reached : NodeFile(id) \in DOMAIN F}
  <1>1. DOMAIN F \subseteq Targets
    BY DEF FilesOk
  <1>2. \A f \in DOMAIN F : f.kind = "node" => \E id \in Reached : f = NodeFile(id) /\ f.id = id
    BY <1>1, TargetsAre, TargetKinds
  <1>3. ASSUME NEW id \in StoredIn(F) PROVE id \in Reached /\ NodeFile(id) \in DOMAIN F
    <2>1. PICK f \in DOMAIN F : f.kind = "node" /\ f.id = id
      BY DEF StoredIn
    <2> QED BY <1>2, <2>1
  <1>4. ASSUME NEW id \in Reached, NodeFile(id) \in DOMAIN F PROVE id \in StoredIn(F)
    BY <1>4, TargetKinds DEF StoredIn
  <1> QED BY <1>3, <1>4

\* A file that can be read holds what some session wrote for it.
LEMMA ReadableIs ==
  ASSUME NEW F, NEW ids, FilesOk(F, ids), NEW f, ReadableIn(F, f)
  PROVE  LET v == CHOOSE v \in F[f] : TRUE IN F[f] = {v} /\ FileOk(f, v, ids)
  <1>1. PICK v \in F[f] : F[f] = {v}
    BY DEF ReadableIn
  <1>2. (CHOOSE w \in F[f] : TRUE) = v
    BY <1>1
  <1>3. FileOk(f, v, ids)
    BY DEF FilesOk, ReadableIn
  <1> QED BY <1>1, <1>2, <1>3

\* The nodes that can be read are nodes append derived.
LEMMA NodesFit ==
  ASSUME NEW F, NEW ids, FilesOk(F, ids)
  PROVE  /\ Fits(NodesIn(F)) /\ DOMAIN NodesIn(F) \subseteq StoredIn(F)
         /\ \A id \in DOMAIN NodesIn(F) : NodesIn(F)[id].parent \in ids
         /\ \A id \in StoredIn(F) : ReadableIn(F, NodeFile(id)) => id \in DOMAIN NodesIn(F)
  <1>1. /\ DOMAIN NodesIn(F) \subseteq StoredIn(F)
        /\ \A id \in StoredIn(F) : ReadableIn(F, NodeFile(id)) <=> id \in DOMAIN NodesIn(F)
    BY DEF NodesIn
  <1>2. ASSUME NEW id \in DOMAIN NodesIn(F)
        PROVE  Fit(id, NodesIn(F)[id]) /\ NodesIn(F)[id].parent \in ids
    <2> DEFINE v == CHOOSE v \in F[NodeFile(id)] : TRUE
    <2>1. ReadableIn(F, NodeFile(id)) /\ id \in Paths
      BY <1>1, StoredIs, ReachedPaths
    <2>2. FileOk(NodeFile(id), v, ids)
      BY <2>1, ReadableIs
    <2>3. NodesIn(F)[id] = v
      BY DEF NodesIn
    <2> HIDE DEF v
    <2> QED BY <2>1, <2>2, <2>3 DEF FileOk
  <1> QED BY <1>1, <1>2 DEF Fits

LEMMA MoreIds ==
  ASSUME NEW ids, NEW more, ids \subseteq more
  PROVE  /\ \A target, value : FileOk(target, value, ids) => FileOk(target, value, more)
         /\ \A F : FilesOk(F, ids) => FilesOk(F, more)
  <1>1. \A target, value : FileOk(target, value, ids) => FileOk(target, value, more)
    BY DEF FileOk
  <1> QED BY <1>1 DEF FilesOk

LEMMA Wrote ==
  ASSUME NEW F, NEW ids, FilesOk(F, ids), NEW target \in Targets, NEW S,
         \A v \in S : FileOk(target, v, ids)
  PROVE  FilesOk(With(F, target, S), ids)
  BY DEF FilesOk, With

\* No file is lost, and none is a new node's, when one that is there is written.
LEMMA WroteThere ==
  ASSUME NEW F, NEW target \in DOMAIN F, NEW S
  PROVE  There(With(F, target, S)) = There(F)
  <1>1. DOMAIN With(F, target, S) = DOMAIN F
    BY DEF With
  <1> QED BY <1>1 DEF There, StoredIn

\* Moving a temporary over its target loses no node.
LEMMA Moved ==
  ASSUME NEW F, NEW T, FilesOk(F, There(F)), FilesOk(T, There(F)), NEW target \in DOMAIN T
  PROVE  LET G == With(F, target, T[target])
         IN  /\ There(F) \subseteq There(G)
             /\ FilesOk(G, There(G)) /\ FilesOk(Without(T, target), There(G))
             /\ \A id \in Reached : target = NodeFile(id) => id \in There(G)
  <1> DEFINE G == With(F, target, T[target])
             ids == There(F)
             more == There(G)
  <1>1. target \in Targets /\ \A v \in T[target] : FileOk(target, v, ids)
    BY DEF FilesOk
  <1>2. FilesOk(G, ids) /\ DOMAIN G = DOMAIN F \cup {target}
    BY <1>1, Wrote DEF With
  <1>3. /\ ids = {id \in Reached : NodeFile(id) \in DOMAIN F} \cup {RootId}
        /\ more = {id \in Reached : NodeFile(id) \in DOMAIN G} \cup {RootId}
    BY <1>2, StoredIs DEF There
  <1>4. FilesOk(Without(T, target), ids)
    BY DEF FilesOk, Without
  <1> HIDE DEF G, ids, more
  <1>5. ids \subseteq more
    BY <1>2, <1>3
  <1>6. FilesOk(G, more) /\ FilesOk(Without(T, target), more)
    BY <1>2, <1>4, <1>5, MoreIds
  <1>7. \A id \in Reached : target = NodeFile(id) => id \in more
    BY <1>2, <1>3
  <1> QED BY <1>5, <1>6, <1>7 DEF G, ids, more

----------------------------------------------------------------------------
\* Journals: none yet, and the part whose frames completed.

LEMMA EmptyJournal ==
  ASSUME NEW id \in Paths, NEW f \in Nat
  PROVE  /\ Segment(id, <<>>, f) /\ id.inputs \o <<>> = id.inputs
         /\ PathOf(id, <<>>, id.end) = id
  <1>1. id.inputs \in Seq(Event) /\ id = [inputs |-> id.inputs, end |-> id.end]
    BY PathFields
  <1>2. id.inputs \o <<>> = id.inputs
    BY <1>1, ConcatEmptySeq
  <1>3. <<>> \in Seq(Event) /\ Len(<<>>) = 0
    OBVIOUS
  <1>4. Segment(id, <<>>, f)
    BY <1>3 DEF Segment, Ordered, From, Before
  <1> QED BY <1>1, <1>2, <1>4 DEF PathOf

LEMMA NoRoom ==
  ASSUME NEW id \in Paths, NEW ev, Segment(id, ev, id.end)
  PROVE  ev = <<>>
  <1>1. ev \in Seq(Event) /\ From(ev, id.end) /\ Before(ev, id.end) /\ id.end \in Nat
    BY PathFields DEF Segment
  <1>2. Len(ev) \in Nat /\ \A i \in 1..Len(ev) : ev[i].frame \in Nat
    BY <1>1, EventFields
  <1>3. Len(ev) = 0
    <2> SUFFICES ASSUME Len(ev) # 0 PROVE FALSE
      OBVIOUS
    <2>1. 1 \in 1..Len(ev)
      BY <1>2
    <2>2. id.end <= ev[1].frame /\ ev[1].frame < id.end /\ ev[1].frame \in Nat
      BY <1>1, <1>2, <2>1 DEF From, Before
    <2> QED BY <1>1, <2>2
  <1> QED BY <1>1, <1>3, EmptySeq

LEMMA JournalOfCompleted ==
  ASSUME NEW id \in Paths, NEW f \in Nat, id.end <= f, NEW ev, Segment(id, ev, f + 1)
  PROVE  LET kept == SubSeq(ev, 1, Cardinality({i \in 1..Len(ev) : ev[i].frame < f}))
         IN  /\ Segment(id, kept, f)
             /\ Held(id.inputs \o kept, f) = Held(id.inputs \o ev, f)
  <1> DEFINE k == Passed(ev, f)
             kept == SubSeq(ev, 1, k)
             s == id.inputs \o kept
             t == id.inputs \o ev
  <1>1. /\ ev \in Seq(Event) /\ Ordered(ev) /\ From(ev, id.end) /\ id.end \in Nat
        /\ Len(ev) \in Nat /\ \A i \in 1..Len(ev) : ev[i].frame \in Nat
        /\ id.inputs \in Seq(Event) /\ Ordered(id.inputs) /\ Before(id.inputs, id.end)
    BY EventFields, PathFields DEF Segment
  <1>2. /\ k \in 0..Len(ev) /\ \A i \in 1..k : ev[i].frame < f
        /\ \A i \in (k + 1)..Len(ev) : ev[i].frame >= f
    BY <1>1, PassedFacts
  <1> HIDE DEF k
  <1>3. {i \in 1..Len(ev) : ev[i].frame < f} = 1..k
    <2>1. ASSUME NEW i \in 1..Len(ev), ev[i].frame < f PROVE i \in 1..k
      <3> SUFFICES ASSUME ~(i <= k) PROVE FALSE
        BY <1>2
      <3>1. i \in (k + 1)..Len(ev)
        BY <1>1, <1>2
      <3> QED BY <1>1, <1>2, <2>1, <3>1
    <2>2. ASSUME NEW i \in 1..k PROVE i \in 1..Len(ev) /\ ev[i].frame < f
      BY <1>1, <1>2
    <2> QED BY <2>1, <2>2
  <1>4. Cardinality(1..k) = k
    BY <1>2, FS_Interval
  <1>5. /\ kept \in Seq(Event) /\ Len(kept) = k
        /\ \A i \in 1..k : kept[i] = ev[i]
    BY <1>1, <1>2, SubSeqProperties
  <1> HIDE DEF kept
  <1>6. Segment(id, kept, f)
    <2>1. \A i \in 1..k : i \in 1..Len(ev) /\ (i # 1 => i - 1 \in 1..k)
      BY <1>1, <1>2
    <2>2. Ordered(kept) /\ From(kept, id.end) /\ Before(kept, f)
      BY <1>1, <1>2, <1>5, <2>1 DEF Ordered, From, Before
    <2>3. \A i \in 1..k :
            kept[i].buttons # IF i = 1 THEN ButtonsOf(id.inputs) ELSE kept[i - 1].buttons
      BY <1>5, <2>1 DEF Segment
    <2> QED BY <1>5, <2>2, <2>3 DEF Segment
  <1>7. Held(s, f) = Held(t, f)
    <2>1. /\ Len(s) = Len(id.inputs) + k /\ \A i \in 1..Len(id.inputs) : s[i] = id.inputs[i]
          /\ \A i \in 1..k : s[Len(id.inputs) + i] = kept[i]
          /\ s \in Seq(Event) /\ Ordered(s)
      BY <1>1, <1>5, <1>6, Joined DEF Segment
    <2>2. /\ Len(t) = Len(id.inputs) + Len(ev)
          /\ \A i \in 1..Len(id.inputs) : t[i] = id.inputs[i]
          /\ \A i \in 1..Len(ev) : t[Len(id.inputs) + i] = ev[i]
          /\ t \in Seq(Event) /\ Ordered(t)
      BY <1>1, Joined
    <2>3. Len(id.inputs) \in Nat
      BY <1>1, EventFields
    <2> HIDE DEF s, t
    <2>4. Len(s) <= Len(t) /\ Len(s) \in Nat /\ Len(t) \in Nat
      BY <1>1, <1>2, <2>1, <2>2, <2>3
    <2>5. ASSUME NEW i \in 1..Len(s) PROVE t[i] = s[i]
      <3>1. CASE i <= Len(id.inputs)
        BY <2>1, <2>2, <2>3, <2>4, <3>1
      <3>2. CASE i > Len(id.inputs)
        <4> DEFINE j == i - Len(id.inputs)
        <4>1. j \in 1..k /\ j \in 1..Len(ev) /\ Len(id.inputs) + j = i
          BY <1>1, <1>2, <2>1, <2>3, <3>2
        <4> HIDE DEF j
        <4>2. s[Len(id.inputs) + j] = kept[j] /\ t[Len(id.inputs) + j] = ev[j]
          BY <2>1, <2>2, <4>1
        <4> QED BY <1>5, <4>1, <4>2
      <3> QED BY <2>3, <2>4, <3>1, <3>2
    <2>6. ASSUME NEW i \in (Len(s) + 1)..Len(t) PROVE f <= t[i].frame
      <3> DEFINE j == i - Len(id.inputs)
      <3>1. j \in (k + 1)..Len(ev) /\ j \in 1..Len(ev) /\ Len(id.inputs) + j = i
        BY <1>1, <1>2, <2>1, <2>2, <2>3
      <3> HIDE DEF j
      <3>2. t[Len(id.inputs) + j] = ev[j] /\ ev[j].frame >= f /\ ev[j].frame \in Nat
        BY <1>1, <1>2, <2>2, <3>1
      <3> QED BY <3>1, <3>2
    <2> QED BY <2>1, <2>2, <2>4, <2>5, <2>6, HeldPrefix
  <1> QED BY <1>3, <1>4, <1>6, <1>7 DEF kept

----------------------------------------------------------------------------
\* The invariant: one session's state, given the identifiers that are there.

Writers == {"append", "present", "cache", "main"}
Target(op, id, native) ==
    IF op = "append" THEN NodeFile(id) ELSE IF op = "present" THEN Presentation(id)
    ELSE IF op = "cache" THEN CacheFile(native, id) ELSE Main

\* The operations over which a session keeps what it played in its journal, and
\* those that need its node's file.
Keeping == {"play", "append", "present", "cache", "main", "adopt"}
Saved == {"present", "cache", "main", "adopt"}

Kept(t, m, r, P, ev) ==
    /\ Op(t) \in Keeping \cup {"preserve"} =>
          /\ P.end <= r.frame
          /\ m = [by |-> r.native, inputs |-> Held(P.inputs \o ev, r.frame)]
    /\ Op(t) \in Keeping => /\ Segment(P, ev, r.frame)
                            /\ Exact(t) => r.buttons = ButtonsOf(P.inputs \o ev)
    /\ Op(t) = "preserve" => Segment(P, ev, r.frame + 1)
Started(t, m, r, ev) ==
    /\ Op(t) \in {"closed", "identify", "restore"} => ev = <<>>
    /\ Op(t) \in {"identify", "restore"} => m.inputs = <<>>
    /\ Op(t) = "restore" => r = NewRun(m.by)
Chosen(t, w, r, P, ev, nd) ==
    Op(t) \in Saved \/ (Op(t) = "append" /\ w # {}) => nd = PathOf(P, ev, r.frame)
Stored(t, m, P, nd, ids) ==
    /\ Op(t) # "closed" => P \in ids
    /\ Op(t) \in Saved => nd \in ids
    /\ Op(t) = "close" => \E id \in ids : m.inputs = Held(id.inputs, id.end)
Stages == {"begun", "open", "written"}
WriteOk(t, x, r, nd, ids) ==
    /\ x = [target |-> x.target, value |-> x.value, stage |-> x.stage] /\ x.stage \in Stages
    /\ x.target = Target(Op(t), nd, r.native) /\ FileOk(x.target, x.value, ids)
Writing(t, w, r, nd, ids) ==
    w = {} \/ (Op(t) \in Writers /\ \E x : w = {x} /\ WriteOk(t, x, r, nd, ids))

Local(t, w, m, r, P, ev, nd, ids) ==
    /\ Plan(t) /\ Writing(t, w, r, nd, ids) /\ Started(t, m, r, ev) /\ Kept(t, m, r, P, ev)
    /\ Chosen(t, w, r, P, ev, nd) /\ Stored(t, m, P, nd, ids)

Here == NodeIds \cup {RootId}
LocalOf(p) == Local(todo[p], writing[p], machine[p], run[p], parent[p], events[p], node[p], Here)

Machines == [by : 1..MaxBuild, inputs : Seq(Masks)]
Runs == [frame : 0..MaxFrames, buttons : Masks, native : 1..MaxBuild]
TypeInv ==
    /\ library \in 1..MaxBuild
    /\ todo \in [Players -> Seq(Ops)] /\ DOMAIN writing = Players
    /\ machine \in [Players -> Machines] /\ run \in [Players -> Runs]
    /\ parent \in [Players -> Paths] /\ node \in [Players -> Paths]
    /\ events \in [Players -> Seq(Event)]
DiskInv == FilesOk(files, Here) /\ FilesOk(tmp, Here)
\* No build is installed between the loading of the library and its hashing.
LibraryInv == \A p \in Players : Op(todo[p]) = "identify" => machine[p] = PowerOn(library)
Sessions == \A p \in Players : LocalOf(p)

Inv == TypeInv /\ DiskInv /\ LibraryInv /\ Sessions

LEMMA LocalGrows ==
  ASSUME NEW t, NEW w, NEW m, NEW r, NEW P, NEW ev, NEW nd, NEW ids, NEW more,
         Local(t, w, m, r, P, ev, nd, ids), ids \subseteq more
  PROVE  Local(t, w, m, r, P, ev, nd, more)
  <1>1. Writing(t, w, r, nd, more)
    <2>1. CASE w = {}
      BY <2>1 DEF Writing
    <2>2. CASE w # {}
      <3>1. Op(t) \in Writers
        BY <2>2 DEF Local, Writing
      <3>2. PICK x : w = {x} /\ WriteOk(t, x, r, nd, ids)
        BY <2>2 DEF Local, Writing
      <3>3. WriteOk(t, x, r, nd, more)
        BY <3>2, MoreIds DEF WriteOk
      <3> QED BY <3>1, <3>2, <3>3 DEF Writing
    <2> QED BY <2>1, <2>2
  <1>2. Stored(t, m, P, nd, more)
    BY DEF Local, Stored
  <1> QED BY <1>1, <1>2 DEF Local

\* A closed session, and one that has its end to reach.
LEMMA LocalClosed ==
  ASSUME NEW m, NEW r, NEW P, NEW nd, NEW ids
  PROVE  Local(<<>>, {}, m, r, P, <<>>, nd, ids)
  BY PlansGiven DEF Local, Writing, Started, Kept, Chosen, Stored, Keeping, Saved, Writers

LEMMA NodesAre ==
  /\ Nodes = NodesIn(files) /\ Nodes' = NodesIn(files')
  /\ Here = There(files) /\ Here' = There(files')
  /\ NodeIds = StoredIn(files) /\ NodeIds' = StoredIn(files')
  /\ \A f : Readable(f) <=> ReadableIn(files, f)
  <1>1. NodeIds = StoredIn(files) /\ NodeIds' = StoredIn(files')
    BY DEF NodeIds, OfKind, StoredIn
  <1>2. Here = There(files) /\ Here' = There(files')
    BY <1>1 DEF Here, There
  <1>3. Nodes = NodesIn(files) /\ Nodes' = NodesIn(files')
    BY <1>1, Zenon DEF Nodes, NodesIn, Readable, ReadableIn, Content
  <1> QED BY <1>1, <1>2, <1>3 DEF Readable, ReadableIn

LEMMA Constants ==
  /\ 0 \in 0..MaxFrames /\ 1 \in 1..MaxBuild /\ 0 \in Masks
  /\ \A b \in 1..MaxBuild : PowerOn(b) \in Machines /\ NewRun(b) \in Runs
  /\ RootId \in Paths /\ <<>> \in Seq(Event) /\ <<>> \in Seq(Ops)
  <1>1. 0 \in 0..MaxFrames /\ 1 \in 1..MaxBuild /\ 0 \in Masks
    BY SessionAssumption, MasksAssumption
  <1>2. ASSUME NEW b \in 1..MaxBuild PROVE PowerOn(b) \in Machines /\ NewRun(b) \in Runs
    BY <1>1 DEF PowerOn, NewRun, Machines, Runs
  <1> QED BY <1>1, <1>2, RootPath

LEMMA Initial == Init => Inv
  <1> SUFFICES ASSUME Init PROVE Inv
    OBVIOUS
  <1>1. /\ files = <<>> /\ tmp = <<>> /\ library = 1
        /\ todo = [p \in Players |-> <<>>] /\ writing = [p \in Players |-> {}]
        /\ machine = [p \in Players |-> PowerOn(1)] /\ run = [p \in Players |-> NewRun(1)]
        /\ parent = [p \in Players |-> RootId] /\ events = [p \in Players |-> <<>>]
        /\ node = [p \in Players |-> RootId]
    BY DEF Init
  <1>2. TypeInv
    BY <1>1, Constants DEF TypeInv
  <1>3. DiskInv
    BY <1>1 DEF DiskInv, FilesOk
  <1>4. LibraryInv
    <2>1. Op(<<>>) # "identify"
      BY PlansGiven
    <2> QED BY <1>1, <2>1 DEF LibraryInv
  <1>5. Sessions
    BY <1>1, LocalClosed DEF Sessions, LocalOf
  <1> QED BY <1>2, <1>3, <1>4, <1>5 DEF Inv

----------------------------------------------------------------------------
\* What a step has to show.

LEMMA Disk ==
  ASSUME Inv
  PROVE  /\ Fits(Nodes) /\ DOMAIN Nodes \subseteq NodeIds /\ Ids(Nodes) \subseteq Here
         /\ RootId \in Here /\ \A id \in DOMAIN Nodes : Nodes[id].parent \in Here
         /\ \A id \in Here : id \in Paths /\ id.end \in 0..MaxFrames
  <1>1. FilesOk(files, Here) /\ Nodes = NodesIn(files) /\ NodeIds = StoredIn(files)
    BY NodesAre DEF Inv, DiskInv
  <1>2. /\ Fits(Nodes) /\ DOMAIN Nodes \subseteq NodeIds
        /\ \A id \in DOMAIN Nodes : Nodes[id].parent \in Here
    BY <1>1, NodesFit
  <1>3. \A id \in NodeIds : id \in Reached
    BY <1>1, StoredIs
  <1> QED BY <1>2, <1>3, ReachedPaths DEF Here, Ids

\* A path the store accepts: its record, and the inputs it flattens to.
LEMMA Resolved ==
  ASSUME Inv, NEW id, Resolves(Nodes, id)
  PROVE  /\ id \in Here /\ id \in Paths /\ Records(id, Node(Nodes, id))
         /\ Flatten(Nodes, id) = id.inputs /\ Inputs(id) = Held(id.inputs, id.end)
  <1>1. Fits(Nodes) /\ id \in Ids(Nodes) /\ Ids(Nodes) \subseteq Here
    BY Disk DEF Resolves
  <1>2. id \in Paths /\ Records(id, Node(Nodes, id)) /\ Flatten(Nodes, id) = id.inputs
    BY <1>1, NodeIs, FlattenIs
  <1> QED BY <1>1, <1>2 DEF Inputs

LEMMA Player ==
  ASSUME Inv, NEW p \in Players
  PROVE  /\ LocalOf(p) /\ Plan(todo[p])
         /\ machine[p] \in Machines /\ machine[p].by \in 1..MaxBuild
         /\ machine[p].inputs \in Seq(Masks)
         /\ machine[p] = [by |-> machine[p].by, inputs |-> machine[p].inputs]
         /\ run[p] \in Runs /\ run[p].frame \in 0..MaxFrames /\ run[p].buttons \in Masks
         /\ run[p].native \in 1..MaxBuild /\ run[p].frame \in Nat
         /\ parent[p] \in Paths /\ node[p] \in Paths /\ events[p] \in Seq(Event)
         /\ parent[p].end \in Nat /\ todo[p] \in Seq(Ops)
  <1>1. LocalOf(p)
    BY DEF Inv, Sessions
  <1>2. /\ machine[p] \in Machines /\ run[p] \in Runs /\ parent[p] \in Paths /\ node[p] \in Paths
        /\ events[p] \in Seq(Event) /\ todo[p] \in Seq(Ops)
    BY DEF Inv, TypeInv
  <1>3. Plan(todo[p])
    BY <1>1 DEF LocalOf, Local
  <1>4. /\ machine[p].by \in 1..MaxBuild /\ machine[p].inputs \in Seq(Masks)
        /\ machine[p] = [by |-> machine[p].by, inputs |-> machine[p].inputs]
    BY <1>2 DEF Machines
  <1>5. /\ run[p].frame \in 0..MaxFrames /\ run[p].buttons \in Masks
        /\ run[p].native \in 1..MaxBuild
    BY <1>2 DEF Runs
  <1>6. run[p].frame \in Nat
    BY <1>5, SessionAssumption
  <1>7. parent[p].end \in Nat
    BY <1>2, PathFields
  <1> QED BY <1>1, <1>2, <1>3, <1>4, <1>5, <1>6, <1>7

LEMMA DoingIs ==
  ASSUME Inv, NEW p \in Players, NEW op, Doing(p, op)
  PROVE  /\ Op(todo[p]) = op /\ writing[p] = {} /\ todo[p] # <<>>
         /\ Plan(Tail(todo[p])) /\ Tail(todo[p]) \in Seq(Ops)
         /\ Exact(Tail(todo[p])) => Exact(todo[p])
         /\ op \notin Ends => Leads(op, Op(Tail(todo[p])))
         /\ op \in {"play", "close", "preserve"} => todo[p] = <<op>>
         /\ op \in {"cache", "adopt", "play"} => Exact(todo[p])
  <1>1. Op(todo[p]) = op /\ writing[p] = {} /\ todo[p] # <<>>
    BY DEF Doing, Op
  <1>2. Plan(todo[p])
    BY Player
  <1>3. Plan(Tail(todo[p])) /\ (Exact(Tail(todo[p])) => Exact(todo[p]))
        /\ (op \notin Ends => Leads(op, Op(Tail(todo[p]))))
    BY <1>1, <1>2, PlanTail
  <1>4. /\ op \in Ends => todo[p] = <<op>>
        /\ op \in {"cache", "adopt", "play"} => Exact(todo[p])
    BY <1>1, <1>2, PlanFacts
  <1> QED BY <1>1, <1>3, <1>4, PlanFacts DEF Ends

LEMMA DiskStays ==
  ASSUME Inv, files' = files, tmp' = tmp
  PROVE  DiskInv' /\ Here' = Here /\ Nodes' = Nodes
  <1>1. Nodes' = Nodes /\ Here' = Here
    BY NodesAre
  <1> QED BY <1>1 DEF Inv, DiskInv

LEMMA DiskSame ==
  ASSUME Inv, UNCHANGED disk
  PROVE  DiskInv' /\ Here' = Here /\ Nodes' = Nodes
  BY DiskStays DEF disk

Same(q) == /\ todo'[q] = todo[q] /\ writing'[q] = writing[q] /\ machine'[q] = machine[q]
           /\ run'[q] = run[q] /\ parent'[q] = parent[q] /\ events'[q] = events[q]
           /\ node'[q] = node[q]

\* A step of p leaves the other sessions as they were, with no fewer node files.
LEMMA StepOf ==
  ASSUME Inv, NEW p \in Players, TypeInv', DiskInv', Here \subseteq Here',
         library' = library, \A q \in Players : q # p => Same(q), LocalOf(p)',
         Op(todo'[p]) = "identify" => machine'[p] = PowerOn(library)
  PROVE  Inv'
  <1>1. Sessions'
    <2> SUFFICES ASSUME NEW q \in Players PROVE LocalOf(q)'
      BY DEF Sessions
    <2>1. CASE q # p
      <3>1. Local(todo[q], writing[q], machine[q], run[q], parent[q], events[q], node[q], Here)
        BY DEF Inv, Sessions, LocalOf
      <3>2. Local(todo[q], writing[q], machine[q], run[q], parent[q], events[q], node[q], Here')
        BY <3>1, LocalGrows
      <3> QED BY <2>1, <3>2 DEF Same, LocalOf
    <2> QED BY <2>1
  <1>2. LibraryInv'
    <2> SUFFICES ASSUME NEW q \in Players, Op(todo'[q]) = "identify"
                 PROVE  machine'[q] = PowerOn(library)
      BY DEF LibraryInv
    <2> QED BY DEF Same, Inv, LibraryInv
  <1> QED BY <1>1, <1>2 DEF Inv

LEMMA Closes ==
  ASSUME Inv, NEW p \in Players, Closed(p), files' = files, tmp' = tmp, library' = library
  PROVE  Inv'
  <1>1. /\ todo' = [todo EXCEPT ![p] = <<>>] /\ writing' = [writing EXCEPT ![p] = {}]
        /\ machine' = [machine EXCEPT ![p] = PowerOn(1)] /\ run' = [run EXCEPT ![p] = NewRun(1)]
        /\ parent' = [parent EXCEPT ![p] = RootId] /\ events' = [events EXCEPT ![p] = <<>>]
        /\ node' = [node EXCEPT ![p] = RootId] /\ library' = library /\ files' = files /\ tmp' = tmp
    BY DEF Closed
  <1>2. TypeInv
    BY DEF Inv
  <1>3. TypeInv'
    BY <1>1, <1>2, Constants DEF TypeInv
  <1>4. DiskInv' /\ Here' = Here
    BY <1>1, DiskStays
  <1>5. /\ todo'[p] = <<>> /\ writing'[p] = {} /\ events'[p] = <<>>
        /\ \A q \in Players : q # p => Same(q)
    BY <1>1, <1>2 DEF TypeInv, Same
  <1>6. LocalOf(p)'
    BY <1>5, LocalClosed DEF LocalOf
  <1>7. Op(todo'[p]) # "identify"
    BY <1>5, PlansGiven
  <1> QED BY <1>1, <1>3, <1>4, <1>5, <1>6, <1>7, StepOf

----------------------------------------------------------------------------
\* Starting.

LEMMA OpenStep ==
  ASSUME Inv, NEW p \in Players, NEW id, Open(p, id)
  PROVE  Inv'
  <1> DEFINE plan == <<"identify", "restore", "play">>
  <1>1. /\ todo' = [todo EXCEPT ![p] = plan]
        /\ machine' = [machine EXCEPT ![p] = PowerOn(library)]
        /\ parent' = [parent EXCEPT ![p] = id] /\ todo[p] = <<>>
        /\ writing' = writing /\ run' = run /\ events' = events /\ node' = node
        /\ library' = library /\ UNCHANGED disk
        /\ Resolves(Nodes, id)
    BY DEF Open
  <1>2. TypeInv /\ library \in 1..MaxBuild /\ id \in Paths /\ id \in Here
    BY <1>1, Resolved DEF Inv, TypeInv
  <1>3. Plan(plan) /\ Op(plan) = "identify" /\ plan \in Seq(Ops) /\ Op(<<>>) = "closed"
    BY PlansGiven, PlanFacts
  <1> HIDE DEF plan
  <1>4. TypeInv'
    BY <1>1, <1>2, <1>3, Constants DEF TypeInv
  <1>5. DiskInv' /\ Here' = Here
    BY <1>1, DiskSame
  <1>6. /\ todo'[p] = plan /\ machine'[p] = PowerOn(library) /\ parent'[p] = id
        /\ \A q \in Players : q # p => Same(q)
    BY <1>1, <1>2 DEF TypeInv, Same
  <1>7. writing[p] = {} /\ events[p] = <<>>
    BY <1>1, <1>3, Player DEF LocalOf, Local, Writing, Writers, Started
  <1>8. LocalOf(p)'
    <2>1. Plan(plan) /\ Writing(plan, {}, run[p], node[p], Here)
      BY <1>3 DEF Writing
    <2>2. Started(plan, PowerOn(library), run[p], <<>>)
      BY <1>3 DEF Started, PowerOn
    <2>3. /\ Kept(plan, PowerOn(library), run[p], id, <<>>)
          /\ Chosen(plan, {}, run[p], id, <<>>, node[p])
          /\ Stored(plan, PowerOn(library), id, node[p], Here)
      BY <1>2, <1>3 DEF Kept, Chosen, Stored, Keeping, Saved
    <2> QED BY <1>1, <1>5, <1>6, <1>7, <2>1, <2>2, <2>3 DEF LocalOf, Local
  <1> QED BY <1>1, <1>4, <1>5, <1>6, <1>8, StepOf

LEMMA IdentifyStep ==
  ASSUME Inv, NEW p \in Players, Identify(p)
  PROVE  Inv'
  <1> DEFINE plan == Tail(todo[p])
  <1>1. /\ Doing(p, "identify") /\ todo' = [todo EXCEPT ![p] = plan]
        /\ run' = [run EXCEPT ![p] = NewRun(library)]
        /\ writing' = writing /\ machine' = machine /\ parent' = parent /\ events' = events
        /\ node' = node /\ library' = library /\ UNCHANGED disk
    BY DEF Identify, Then
  <1>2. TypeInv /\ library \in 1..MaxBuild
    BY DEF Inv, TypeInv
  <1>3. Op(todo[p]) = "identify" /\ writing[p] = {} /\ Plan(plan) /\ plan \in Seq(Ops)
    BY <1>1, DoingIs
  <1>4. Op(plan) = "restore"
    BY <1>1, DoingIs DEF Ends, Leads
  <1> HIDE DEF plan
  <1>5. TypeInv'
    BY <1>1, <1>2, <1>3, Constants DEF TypeInv
  <1>6. DiskInv' /\ Here' = Here
    BY <1>1, DiskSame
  <1>7. /\ todo'[p] = plan /\ run'[p] = NewRun(library) /\ \A q \in Players : q # p => Same(q)
    BY <1>1, <1>2 DEF TypeInv, Same
  <1>8. machine[p] = PowerOn(library) /\ machine[p].by = library /\ machine[p].inputs = <<>>
    BY <1>3 DEF Inv, LibraryInv, PowerOn
  <1>9. LocalOf(p)'
    <2>1. events[p] = <<>> /\ parent[p] \in Here
      BY <1>3, Player DEF LocalOf, Local, Started, Stored
    <2>2. Writing(plan, {}, NewRun(library), node[p], Here)
      BY DEF Writing
    <2>3. Started(plan, machine[p], NewRun(library), <<>>)
      BY <1>4, <1>8 DEF Started
    <2>4. /\ Kept(plan, machine[p], NewRun(library), parent[p], <<>>)
          /\ Chosen(plan, {}, NewRun(library), parent[p], <<>>, node[p])
          /\ Stored(plan, machine[p], parent[p], node[p], Here)
      BY <1>4, <2>1 DEF Kept, Chosen, Stored, Keeping, Saved
    <2> QED BY <1>1, <1>3, <1>6, <1>7, <2>1, <2>2, <2>3, <2>4 DEF LocalOf, Local
  <1> QED BY <1>1, <1>4, <1>5, <1>6, <1>7, <1>9, StepOf

\* A restored or replayed path, and a cold start, leave an empty journal.
EndRun(b, id) == [frame |-> id.end, buttons |-> ButtonsOf(id.inputs), native |-> b]
EndMachine(b, id) == [by |-> b, inputs |-> Held(id.inputs, id.end)]

LEMMA AtPathEnd ==
  ASSUME NEW t, Plan(t), Op(t) \in {"play", "cache", "close"}, NEW id \in Paths,
         NEW ids, id \in ids,
         NEW b, NEW nd, Op(t) = "cache" => nd = id
  PROVE  Local(t, {}, EndMachine(b, id), EndRun(b, id), id, <<>>, nd, ids)
  <1> DEFINE r == EndRun(b, id)
             m == EndMachine(b, id)
  <1>1. id.end \in Nat /\ id.inputs \o <<>> = id.inputs /\ PathOf(id, <<>>, id.end) = id
        /\ Segment(id, <<>>, id.end)
    BY PathFields, EmptyJournal
  <1>2. r.frame = id.end /\ r.buttons = ButtonsOf(id.inputs) /\ r.native = b
    BY DEF EndRun
  <1>3. m = [by |-> b, inputs |-> Held(id.inputs, id.end)]
    BY DEF EndMachine
  <1> HIDE DEF r, m
  <1>4. Kept(t, m, r, id, <<>>)
    BY <1>1, <1>2, <1>3 DEF Kept, Keeping
  <1>5. Chosen(t, {}, r, id, <<>>, nd)
    BY <1>1, <1>2 DEF Chosen, Saved
  <1>6. Stored(t, m, id, nd, ids)
    <2>1. m.inputs = Held(id.inputs, id.end)
      BY <1>3
    <2> QED BY <2>1 DEF Stored, Saved
  <1>7. Writing(t, {}, r, nd, ids) /\ Started(t, m, r, <<>>)
    BY DEF Writing, Started
  <1> QED BY <1>4, <1>5, <1>6, <1>7 DEF Local, r, m

LEMMA RestoreFacts ==
  ASSUME Inv, NEW p \in Players, Doing(p, "restore")
  PROVE  /\ writing[p] = {} /\ events[p] = <<>> /\ machine[p].inputs = <<>>
         /\ run[p] = NewRun(machine[p].by) /\ run[p].native = machine[p].by
         /\ run[p].frame = 0 /\ run[p].buttons = 0
         /\ parent[p] \in Here /\ parent[p].end \in 0..MaxFrames
         /\ Op(Tail(todo[p])) = "play" /\ Plan(Tail(todo[p])) /\ Tail(todo[p]) \in Seq(Ops)
  <1>1. Op(todo[p]) = "restore" /\ writing[p] = {}
    BY DoingIs
  <1>2. /\ events[p] = <<>> /\ machine[p].inputs = <<>> /\ run[p] = NewRun(machine[p].by)
        /\ parent[p] \in Here
    BY <1>1, Player DEF LocalOf, Local, Started, Stored
  <1>3. run[p].native = machine[p].by /\ run[p].frame = 0 /\ run[p].buttons = 0
    BY <1>2 DEF NewRun
  <1>4. Op(Tail(todo[p])) = "play" /\ Plan(Tail(todo[p])) /\ Tail(todo[p]) \in Seq(Ops)
    BY DoingIs DEF Ends, Leads
  <1> QED BY <1>1, <1>2, <1>3, <1>4, Disk

LEMMA PathEndTypes ==
  ASSUME NEW id \in Paths, id.end \in 0..MaxFrames, NEW b \in 1..MaxBuild
  PROVE  EndRun(b, id) \in Runs /\ EndMachine(b, id) \in Machines
  <1>1. /\ id.inputs \in Seq(Event) /\ Ordered(id.inputs) /\ id.end \in Nat
        /\ Before(id.inputs, id.end)
    BY PathFields
  <1>2. Held(id.inputs, id.end) \in Seq(Masks) /\ ButtonsOf(id.inputs) \in Masks
    BY <1>1, HeldIs, MaskLast
  <1> QED BY <1>2 DEF EndRun, EndMachine, Runs, Machines

LEMMA StartStep ==
  ASSUME Inv, NEW p \in Players, Doing(p, "restore"), Plan(todo'[p]),
         Op(todo'[p]) \in {"play", "cache"}, Op(todo'[p]) = "cache" => node'[p] = parent[p],
         UNCHANGED <<disk, library, writing, parent, events>>,
         todo' \in [Players -> Seq(Ops)], node' \in [Players -> Paths],
         run' \in [Players -> Runs], machine' \in [Players -> Machines],
         run'[p] = EndRun(run[p].native, parent[p]),
         machine'[p] = EndMachine(run[p].native, parent[p]),
         \A q \in Players : q # p => Same(q)
  PROVE  Inv'
  <1>1. /\ TypeInv /\ writing[p] = {} /\ events[p] = <<>> /\ parent[p] \in Here
        /\ parent[p] \in Paths
    BY RestoreFacts, Player DEF Inv
  <1>2. Local(todo'[p], {}, machine'[p], run'[p], parent[p], <<>>, node'[p], Here)
    BY <1>1, AtPathEnd
  <1>3. UNCHANGED disk /\ library' = library /\ writing' = writing /\ parent' = parent
        /\ events' = events
    OBVIOUS
  <1>4. TypeInv'
    BY <1>1, <1>3 DEF TypeInv
  <1>5. DiskInv' /\ Here' = Here
    BY <1>3, DiskSame
  <1>6. LocalOf(p)'
    BY <1>1, <1>2, <1>3, <1>5 DEF LocalOf
  <1> QED BY <1>3, <1>4, <1>5, <1>6, StepOf

LEMMA StartColdStep ==
  ASSUME Inv, NEW p \in Players, StartCold(p)
  PROVE  Inv'
  <1>1. /\ Doing(p, "restore") /\ parent[p] = RootId
        /\ todo' = [todo EXCEPT ![p] = Tail(todo[p])]
        /\ UNCHANGED <<disk, library, writing, parent, events>>
        /\ machine' = machine /\ run' = run /\ node' = node
    BY DEF StartCold, live, Then
  <1>2. /\ machine[p].inputs = <<>> /\ run[p].native = machine[p].by
        /\ run[p] = NewRun(run[p].native)
        /\ Op(Tail(todo[p])) = "play" /\ Plan(Tail(todo[p])) /\ Tail(todo[p]) \in Seq(Ops)
    BY <1>1, RestoreFacts
  <1>3. RootId.inputs = <<>> /\ RootId.end = 0
    BY RootPath
  <1>4. Held(<<>>, 0) = <<>>
    <2>1. RootId.inputs \in Seq(Event) /\ Ordered(RootId.inputs) /\ RootId.end \in Nat
      BY RootPath, PathFields
    <2>2. /\ Held(RootId.inputs, RootId.end) \in Seq(Masks)
          /\ Len(Held(RootId.inputs, RootId.end)) = RootId.end
      BY <2>1, HeldIs
    <2> QED BY <1>3, <2>2, EmptySeq
  <1>5. run[p] = EndRun(run[p].native, parent[p])
    BY <1>1, <1>2, <1>3 DEF EndRun, NewRun, ButtonsOf
  <1>6. machine[p] = EndMachine(run[p].native, parent[p])
    BY <1>1, <1>2, <1>3, <1>4, Player DEF EndMachine
  <1>7. TypeInv
    BY DEF Inv
  <1>8. /\ todo' \in [Players -> Seq(Ops)] /\ todo'[p] = Tail(todo[p])
        /\ node' \in [Players -> Paths] /\ run' \in [Players -> Runs]
        /\ machine' \in [Players -> Machines]
        /\ \A q \in Players : q # p => Same(q)
    BY <1>1, <1>2, <1>7 DEF TypeInv, Same
  <1> QED BY <1>1, <1>2, <1>5, <1>6, <1>8, StartStep

LEMMA CacheIs ==
  ASSUME Inv, NEW p \in Players, Readable(Cached(p))
  PROVE  Content(Cached(p)) = CacheOf(run[p].native, parent[p])
  <1>1. FilesOk(files, Here) /\ ReadableIn(files, Cached(p))
    BY NodesAre DEF Inv, DiskInv
  <1>2. FileOk(Cached(p), Content(Cached(p)), Here)
    BY <1>1, ReadableIs DEF Content
  <1>3. run[p].native \in 1..MaxBuild /\ parent[p] \in Paths
    BY Player
  <1> QED BY <1>2, <1>3 DEF FileOk, Cached

LEMMA Restored ==
  ASSUME Inv, NEW p \in Players, RestoreCache(p)
  PROVE  /\ RestoredRun(p) = EndRun(run[p].native, parent[p])
         /\ Content(Cached(p)).state = EndMachine(run[p].native, parent[p])
  <1>1. Content(Cached(p)) = CacheOf(run[p].native, parent[p])
    BY CacheIs DEF RestoreCache, CacheFits
  <1>2. run[p] = [frame |-> run[p].frame, buttons |-> run[p].buttons, native |-> run[p].native]
    BY Player DEF Runs
  <1>3. /\ Content(Cached(p)).frame = parent[p].end
        /\ Content(Cached(p)).buttons = ButtonsOf(parent[p].inputs)
        /\ Content(Cached(p)).state = EndMachine(run[p].native, parent[p])
    BY <1>1 DEF CacheOf, EndMachine
  <1>4. RestoredRun(p) = [run[p] EXCEPT !.frame = parent[p].end,
                                        !.buttons = ButtonsOf(parent[p].inputs)]
    BY <1>3 DEF RestoredRun
  <1> QED BY <1>2, <1>3, <1>4 DEF EndRun

LEMMA StartTypes ==
  ASSUME Inv, NEW p \in Players, Doing(p, "restore")
  PROVE  /\ EndRun(run[p].native, parent[p]) \in Runs
         /\ EndMachine(run[p].native, parent[p]) \in Machines
  BY RestoreFacts, Player, PathEndTypes

LEMMA RestoreCacheStep ==
  ASSUME Inv, NEW p \in Players, RestoreCache(p)
  PROVE  Inv'
  <1> DEFINE r == EndRun(run[p].native, parent[p])
             m == EndMachine(run[p].native, parent[p])
  <1>1. /\ Doing(p, "restore") /\ todo' = [todo EXCEPT ![p] = Tail(todo[p])]
        /\ UNCHANGED <<disk, library, writing, parent, events>> /\ node' = node
        /\ machine' = [machine EXCEPT ![p] = Content(Cached(p)).state]
        /\ run' = [run EXCEPT ![p] = RestoredRun(p)]
    BY DEF RestoreCache, Then
  <1>2. Op(Tail(todo[p])) = "play" /\ Plan(Tail(todo[p])) /\ Tail(todo[p]) \in Seq(Ops)
    BY <1>1, RestoreFacts
  <1>3. r \in Runs /\ m \in Machines /\ RestoredRun(p) = r /\ Content(Cached(p)).state = m
    BY <1>1, StartTypes, Restored
  <1>4. TypeInv
    BY DEF Inv
  <1> HIDE DEF r, m
  <1>5. /\ todo' \in [Players -> Seq(Ops)] /\ todo'[p] = Tail(todo[p])
        /\ node' \in [Players -> Paths]
        /\ run' \in [Players -> Runs] /\ run'[p] = r
        /\ machine' \in [Players -> Machines] /\ machine'[p] = m
        /\ \A q \in Players : q # p => Same(q)
    BY <1>1, <1>2, <1>3, <1>4 DEF TypeInv, Same
  <1> QED BY <1>1, <1>2, <1>5, StartStep DEF r, m

LEMMA ReplayStep ==
  ASSUME Inv, NEW p \in Players, Replay(p)
  PROVE  Inv'
  <1> DEFINE n == Node(Nodes, parent[p])
             inputs == Held(Flatten(Nodes, parent[p]), n.end_frame)
             Replayed ==
                /\ machine' = [machine EXCEPT ![p].inputs = inputs]
                /\ run' = [run EXCEPT ![p].frame = n.end_frame,
                                      ![p].buttons = IF inputs = <<>> THEN 0 ELSE Last(inputs)]
                /\ todo' = [todo EXCEPT ![p] = <<"cache", "play">>]
                /\ node' = [node EXCEPT ![p] = parent[p]]
                /\ UNCHANGED <<disk, library, writing, parent, events, opened>>
  <1>1. Doing(p, "restore") /\ Resolves(Nodes, parent[p])
        /\ (Replayed \/ (Closed(p) /\ UNCHANGED <<disk, library>>))
    BY Zenon DEF Replay
  <1>2. CASE Closed(p) /\ UNCHANGED <<disk, library>>
    BY <1>2, Closes DEF disk
  <1>3. CASE Replayed
    <2> DEFINE r == EndRun(run[p].native, parent[p])
               m == EndMachine(run[p].native, parent[p])
               plan == <<"cache", "play">>
    <2>1. parent[p] \in Here /\ parent[p] \in Paths
      BY <1>1, RestoreFacts, Player
    <2>2. n.end_frame = parent[p].end /\ Flatten(Nodes, parent[p]) = parent[p].inputs
      BY <1>1, Resolved DEF Records
    <2>3. inputs = Held(parent[p].inputs, parent[p].end)
      BY <2>2
    <2>4. (IF inputs = <<>> THEN 0 ELSE Last(inputs)) = ButtonsOf(parent[p].inputs)
      BY <2>1, <2>3, PathFields, HeldLast
    <2>5. /\ machine' = [machine EXCEPT ![p].inputs = Held(parent[p].inputs, parent[p].end)]
          /\ run' = [run EXCEPT ![p].frame = parent[p].end,
                                ![p].buttons = ButtonsOf(parent[p].inputs)]
          /\ todo' = [todo EXCEPT ![p] = plan] /\ node' = [node EXCEPT ![p] = parent[p]]
          /\ UNCHANGED <<disk, library, writing, parent, events>>
      BY <1>3, <2>2, <2>3, <2>4
    <2> HIDE DEF n, inputs, Replayed
    <2>6. plan \in Seq(Ops) /\ Plan(plan) /\ Op(plan) = "cache"
      BY PlansGiven, PlanFacts
    <2> HIDE DEF plan
    <2>7. TypeInv /\ r \in Runs /\ m \in Machines /\ run[p].native = machine[p].by
      BY <1>1, StartTypes, RestoreFacts DEF Inv
    <2>8. /\ run' \in [Players -> Runs] /\ run'[p] = r
          /\ \A q \in Players : q # p => run'[q] = run[q]
      <3>1. run[p] = [frame |-> run[p].frame, buttons |-> run[p].buttons,
                      native |-> run[p].native]
        BY Player DEF Runs
      <3>2. run'[p] = r
        BY <2>5, <2>7, <3>1 DEF TypeInv, EndRun
      <3> HIDE DEF r
      <3>3. DOMAIN run' = Players /\ run' = [q \in Players |-> run'[q]]
            /\ \A q \in Players : q # p => run'[q] = run[q]
        BY <2>5, <2>7 DEF TypeInv
      <3>4. \A q \in Players : run'[q] \in Runs
        BY <2>7, <3>2, <3>3 DEF TypeInv
      <3> QED BY <3>2, <3>3, <3>4
    <2>9. /\ machine' \in [Players -> Machines] /\ machine'[p] = m
          /\ \A q \in Players : q # p => machine'[q] = machine[q]
      <3>1. machine'[p] = m
        BY <2>5, <2>7, Player DEF TypeInv, EndMachine
      <3> HIDE DEF m
      <3>2. DOMAIN machine' = Players /\ machine' = [q \in Players |-> machine'[q]]
            /\ \A q \in Players : q # p => machine'[q] = machine[q]
        BY <2>5, <2>7 DEF TypeInv
      <3>3. \A q \in Players : machine'[q] \in Machines
        BY <2>7, <3>1, <3>2 DEF TypeInv
      <3> QED BY <3>1, <3>2, <3>3
    <2> HIDE DEF r, m
    <2>10. /\ todo' \in [Players -> Seq(Ops)] /\ todo'[p] = plan
           /\ node' \in [Players -> Paths] /\ node'[p] = parent[p]
           /\ \A q \in Players : q # p => Same(q)
      BY <2>1, <2>5, <2>6, <2>7, <2>8, <2>9 DEF TypeInv, Same
    <2> QED BY <1>1, <2>5, <2>6, <2>8, <2>9, <2>10, StartStep DEF r, m
  <1> QED BY <1>1, <1>2, <1>3

----------------------------------------------------------------------------
\* Playing.

LEMMA TodoStep ==
  ASSUME Inv, NEW p \in Players, NEW t \in Seq(Ops), todo' = [todo EXCEPT ![p] = t],
         UNCHANGED <<disk, library, writing, live>>, writing[p] = {}, Op(t) # "identify",
         Local(t, {}, machine[p], run[p], parent[p], events[p], node[p], Here)
  PROVE  Inv'
  <1>1. /\ UNCHANGED disk /\ library' = library /\ writing' = writing /\ machine' = machine
        /\ run' = run /\ parent' = parent /\ events' = events /\ node' = node
    BY DEF live
  <1>2. TypeInv
    BY DEF Inv
  <1>3. TypeInv'
    BY <1>1, <1>2 DEF TypeInv
  <1>4. DiskInv' /\ Here' = Here
    BY <1>1, DiskSame
  <1>5. todo'[p] = t /\ \A q \in Players : q # p => Same(q)
    BY <1>1, <1>2 DEF TypeInv, Same
  <1>6. LocalOf(p)'
    BY <1>1, <1>4, <1>5 DEF LocalOf
  <1> QED BY <1>1, <1>3, <1>4, <1>5, <1>6, StepOf

\* What a session has while it keeps a journal.
LEMMA KeepingFacts ==
  ASSUME Inv, NEW p \in Players, Op(todo[p]) \in Keeping
  PROVE  /\ parent[p] \in Here /\ parent[p].end <= run[p].frame
         /\ machine[p] = [by |-> run[p].native,
                          inputs |-> Held(parent[p].inputs \o events[p], run[p].frame)]
         /\ Segment(parent[p], events[p], run[p].frame)
         /\ Exact(todo[p]) => run[p].buttons = ButtonsOf(parent[p].inputs \o events[p])
  <1>1. LocalOf(p)
    BY Player
  <1>2. parent[p] \in Here
    BY <1>1, PlansGiven DEF LocalOf, Local, Stored, Keeping
  <1>3. Kept(todo[p], machine[p], run[p], parent[p], events[p])
    BY <1>1 DEF LocalOf, Local
  <1> QED BY <1>2, <1>3 DEF Kept

LEMMA SaveBegins ==
  ASSUME Inv, NEW p \in Players, Doing(p, "play"), NEW last \in {"play", "close"},
         todo' = [todo EXCEPT ![p] = Checkpointing \o <<last>>],
         UNCHANGED <<disk, library, writing, live>>
  PROVE  Inv'
  <1> DEFINE t == Checkpointing \o <<last>>
  <1>1. Plan(t) /\ Op(t) = "append" /\ t \in Seq(Ops)
    BY PlansGiven, PlanFacts
  <1> HIDE DEF t
  <1>2. Op(todo[p]) = "play" /\ Exact(todo[p]) /\ writing[p] = {}
    BY DoingIs
  <1>3. /\ Segment(parent[p], events[p], run[p].frame) /\ parent[p] \in Here
        /\ parent[p].end <= run[p].frame
        /\ machine[p] = [by |-> run[p].native,
                         inputs |-> Held(parent[p].inputs \o events[p], run[p].frame)]
        /\ run[p].buttons = ButtonsOf(parent[p].inputs \o events[p])
    BY <1>2, KeepingFacts DEF Keeping
  <1>4. Kept(t, machine[p], run[p], parent[p], events[p])
    BY <1>1, <1>3 DEF Kept
  <1>5. /\ Started(t, machine[p], run[p], events[p])
        /\ Chosen(t, {}, run[p], parent[p], events[p], node[p])
        /\ Stored(t, machine[p], parent[p], node[p], Here)
        /\ Writing(t, {}, run[p], node[p], Here)
    BY <1>1, <1>3 DEF Started, Chosen, Stored, Writing, Saved
  <1>6. Local(t, {}, machine[p], run[p], parent[p], events[p], node[p], Here)
    BY <1>1, <1>4, <1>5 DEF Local
  <1>7. todo' = [todo EXCEPT ![p] = t]
    BY DEF t
  <1> QED BY <1>1, <1>2, <1>6, <1>7, TodoStep

LEMMA HostFailsStep ==
  ASSUME Inv, NEW p \in Players, HostFails(p)
  PROVE  Inv'
  <1> DEFINE t == <<"preserve">>
  <1>0. /\ Doing(p, "play") /\ todo' = [todo EXCEPT ![p] = t]
        /\ UNCHANGED <<disk, library, writing, live>>
    BY DEF HostFails
  <1>1. Plan(t) /\ Op(t) = "preserve" /\ t \in Seq(Ops)
    BY PlansGiven, PlanFacts
  <1> HIDE DEF t
  <1>2. Op(todo[p]) = "play" /\ writing[p] = {}
    BY <1>0, DoingIs
  <1>3. /\ Segment(parent[p], events[p], run[p].frame) /\ parent[p] \in Here
        /\ parent[p].end <= run[p].frame
        /\ machine[p] = [by |-> run[p].native,
                         inputs |-> Held(parent[p].inputs \o events[p], run[p].frame)]
    BY <1>2, KeepingFacts DEF Keeping
  <1>4. Segment(parent[p], events[p], run[p].frame + 1)
    <2>1. run[p].frame \in Nat /\ events[p] \in Seq(Event)
      BY Player
    <2>2. \A i \in 1..Len(events[p]) : events[p][i].frame \in Nat
      BY <2>1, EventFields
    <2>3. Before(events[p], run[p].frame + 1)
      BY <1>3, <2>1, <2>2 DEF Segment, Before
    <2> QED BY <1>3, <2>3 DEF Segment
  <1>5. Kept(t, machine[p], run[p], parent[p], events[p])
    BY <1>1, <1>3, <1>4 DEF Kept, Keeping
  <1>6. /\ Started(t, machine[p], run[p], events[p])
        /\ Chosen(t, {}, run[p], parent[p], events[p], node[p])
        /\ Stored(t, machine[p], parent[p], node[p], Here)
        /\ Writing(t, {}, run[p], node[p], Here)
    BY <1>1, <1>3 DEF Started, Chosen, Stored, Writing, Saved
  <1>7. Local(t, {}, machine[p], run[p], parent[p], events[p], node[p], Here)
    BY <1>1, <1>5, <1>6 DEF Local
  <1> QED BY <1>0, <1>1, <1>2, <1>7, TodoStep

\* The journal of one more frame, its mask held or not.
LEMMA JournalIs ==
  ASSUME Inv, NEW p \in Players, Doing(p, "play"), NEW mask \in Masks
  PROVE  LET f == run[p].frame
             s == parent[p].inputs \o events[p]
             next == Journal(p, mask)
             t == parent[p].inputs \o next
         IN  /\ Segment(parent[p], next, f + 1) /\ ButtonsOf(t) = mask
             /\ Held(t, f) = machine[p].inputs
             /\ Held(t, f + 1) = Append(machine[p].inputs, mask)
             /\ machine[p].by = run[p].native /\ parent[p] \in Here
             /\ parent[p].end <= f /\ next \in Seq(Event)
  <1> DEFINE f == run[p].frame
             s == parent[p].inputs \o events[p]
             next == Journal(p, mask)
  <1>1. Op(todo[p]) = "play" /\ Exact(todo[p])
    BY DoingIs
  <1>2. /\ Segment(parent[p], events[p], f) /\ parent[p] \in Here /\ parent[p].end <= f
        /\ machine[p] = [by |-> run[p].native, inputs |-> Held(s, f)]
        /\ run[p].buttons = ButtonsOf(s)
    BY <1>1, KeepingFacts DEF Keeping
  <1>3. f \in Nat /\ parent[p] \in Paths
    BY Player
  <1>4. next = Journaled(events[p], ButtonsOf(s), f, mask)
    BY <1>2 DEF Journal, Journaled
  <1>5. machine[p].inputs = Held(s, f) /\ machine[p].by = run[p].native
    BY <1>2
  <1> HIDE DEF next, f
  <1>6. /\ Segment(parent[p], next, f + 1) /\ ButtonsOf(parent[p].inputs \o next) = mask
        /\ Held(parent[p].inputs \o next, f) = Held(s, f)
        /\ Held(parent[p].inputs \o next, f + 1) = Append(Held(s, f), mask)
    BY <1>2, <1>3, <1>4, SegmentStep
  <1>7. next \in Seq(Event)
    BY <1>6 DEF Segment
  <1> QED BY <1>2, <1>5, <1>6, <1>7 DEF next, f

LEMMA StepFaults ==
  ASSUME Inv, NEW p \in Players, NEW mask \in Masks, Doing(p, "play"),
         events' = [events EXCEPT ![p] = Journal(p, mask)],
         run' = [run EXCEPT ![p].buttons = mask],
         todo' = [todo EXCEPT ![p] = <<"preserve">>], machine' = machine,
         UNCHANGED <<disk, library, writing, parent, node, opened>>
  PROVE  Inv'
  <1> DEFINE plan == <<"preserve">>
             f == run[p].frame
             next == Journal(p, mask)
  <1>1. Plan(plan) /\ Op(plan) = "preserve" /\ plan \in Seq(Ops)
    BY PlansGiven, PlanFacts
  <1>2. /\ Segment(parent[p], next, f + 1) /\ Held(parent[p].inputs \o next, f) = machine[p].inputs
        /\ machine[p].by = run[p].native /\ parent[p] \in Here /\ parent[p].end <= f
        /\ next \in Seq(Event)
    BY JournalIs
  <1>3. /\ TypeInv /\ writing[p] = {} /\ mask \in Masks
        /\ machine[p] = [by |-> machine[p].by, inputs |-> machine[p].inputs]
        /\ run[p] = [frame |-> f, buttons |-> run[p].buttons, native |-> run[p].native]
        /\ f \in 0..MaxFrames /\ run[p].native \in 1..MaxBuild
    BY DoingIs, Player DEF Inv, Runs
  <1> HIDE DEF plan, f, next
  <1>4. /\ events' = [events EXCEPT ![p] = next] /\ todo' = [todo EXCEPT ![p] = plan]
        /\ UNCHANGED disk /\ library' = library /\ writing' = writing /\ parent' = parent
        /\ node' = node
    BY DEF next, plan
  <1>5. /\ run'[p] = [frame |-> f, buttons |-> mask, native |-> run[p].native]
        /\ DOMAIN run' = Players /\ run' = [q \in Players |-> run'[q]]
        /\ \A q \in Players : q # p => run'[q] = run[q]
    <2>1. run \in [Players -> Runs]
      BY <1>3 DEF TypeInv
    <2>2. run'[p] = [run[p] EXCEPT !.buttons = mask]
      BY <2>1
    <2>3. run'[p] = [frame |-> f, buttons |-> mask, native |-> run[p].native]
      BY <1>3, <2>2
    <2> QED BY <2>1, <2>3
  <1>6. run' \in [Players -> Runs]
    <2>1. run'[p] \in Runs
      BY <1>3, <1>5 DEF Runs
    <2>2. \A q \in Players : run'[q] \in Runs
      BY <1>3, <1>5, <2>1 DEF TypeInv
    <2> QED BY <1>5, <2>2
  <1>7. TypeInv'
    <2>1. TypeInv /\ next \in Seq(Event) /\ plan \in Seq(Ops)
      BY <1>1, <1>2, <1>3
    <2>2. events' \in [Players -> Seq(Event)] /\ todo' \in [Players -> Seq(Ops)]
      BY <1>4, <2>1 DEF TypeInv
    <2> QED BY <1>4, <1>6, <2>1, <2>2 DEF TypeInv
  <1>8. DiskInv' /\ Here' = Here
    BY <1>4, DiskSame
  <1>9. /\ todo'[p] = plan /\ events'[p] = next
        /\ \A q \in Players : q # p => Same(q)
    BY <1>3, <1>4, <1>5 DEF TypeInv, Same
  <1>10. run'[p].frame = f /\ run'[p].native = run[p].native
    BY <1>5
  <1>11. Local(plan, {}, machine[p], run'[p], parent[p], next, node[p], Here)
    <2>1. Kept(plan, machine[p], run'[p], parent[p], next)
      BY <1>1, <1>2, <1>3, <1>10 DEF Kept, Keeping
    <2>2. /\ Started(plan, machine[p], run'[p], next)
          /\ Chosen(plan, {}, run'[p], parent[p], next, node[p])
          /\ Stored(plan, machine[p], parent[p], node[p], Here)
          /\ Writing(plan, {}, run'[p], node[p], Here)
      BY <1>1, <1>2 DEF Started, Chosen, Stored, Writing, Saved
    <2> QED BY <1>1, <2>1, <2>2 DEF Local
  <1>12. LocalOf(p)'
    BY <1>3, <1>4, <1>8, <1>9, <1>11 DEF LocalOf
  <1> QED BY <1>1, <1>4, <1>7, <1>8, <1>9, <1>12, StepOf

LEMMA StepRuns ==
  ASSUME Inv, NEW p \in Players, NEW mask \in Masks, Doing(p, "play"), run[p].frame < MaxFrames,
         events' = [events EXCEPT ![p] = Journal(p, mask)],
         run' = [run EXCEPT ![p].frame = @ + 1, ![p].buttons = mask],
         machine' = [machine EXCEPT ![p].inputs = Append(@, mask)], todo' = todo,
         UNCHANGED <<disk, library, writing, parent, node, opened>>
  PROVE  Inv'
  <1> DEFINE f == run[p].frame
             next == Journal(p, mask)
  <1>1. Plan(todo[p]) /\ Op(todo[p]) = "play"
    BY DoingIs, Player
  <1>2. /\ Segment(parent[p], next, f + 1) /\ ButtonsOf(parent[p].inputs \o next) = mask
        /\ Held(parent[p].inputs \o next, f + 1) = Append(machine[p].inputs, mask)
        /\ machine[p].by = run[p].native /\ parent[p] \in Here /\ parent[p].end <= f
        /\ next \in Seq(Event)
    BY JournalIs
  <1>3. /\ TypeInv /\ writing[p] = {} /\ mask \in Masks
        /\ machine[p] = [by |-> machine[p].by, inputs |-> machine[p].inputs]
        /\ machine[p].by \in 1..MaxBuild /\ machine[p].inputs \in Seq(Masks)
        /\ run[p] = [frame |-> f, buttons |-> run[p].buttons, native |-> run[p].native]
        /\ run[p].native \in 1..MaxBuild
    BY DoingIs, Player DEF Inv, Runs
  <1>4. f + 1 \in 0..MaxFrames /\ parent[p].end <= f + 1
    <2>1. f \in Nat /\ parent[p].end \in Nat /\ MaxFrames \in Nat
      BY Player, SessionAssumption
    <2> QED BY <1>2, <2>1
  <1> HIDE DEF f, next
  <1>5. /\ events' = [events EXCEPT ![p] = next] /\ todo' = todo
        /\ UNCHANGED disk /\ library' = library /\ writing' = writing /\ parent' = parent
        /\ node' = node
    BY DEF next
  <1>6. /\ run'[p] = [frame |-> f + 1, buttons |-> mask, native |-> run[p].native]
        /\ DOMAIN run' = Players /\ run' = [q \in Players |-> run'[q]]
        /\ \A q \in Players : q # p => run'[q] = run[q]
    BY <1>3 DEF TypeInv, f
  <1>7. run' \in [Players -> Runs]
    <2>1. run'[p] \in Runs
      BY <1>3, <1>4, <1>6 DEF Runs
    <2>2. \A q \in Players : run'[q] \in Runs
      BY <1>3, <1>6, <2>1 DEF TypeInv
    <2> QED BY <1>6, <2>2
  <1>8. /\ machine'[p] = [by |-> machine[p].by, inputs |-> Append(machine[p].inputs, mask)]
        /\ DOMAIN machine' = Players /\ machine' = [q \in Players |-> machine'[q]]
        /\ \A q \in Players : q # p => machine'[q] = machine[q]
    BY <1>3 DEF TypeInv
  <1>9. machine' \in [Players -> Machines]
    <2>0. Append(machine[p].inputs, mask) \in Seq(Masks)
      BY <1>3
    <2>1. machine'[p] \in Machines
      BY <1>3, <1>8, <2>0 DEF Machines
    <2>2. \A q \in Players : machine'[q] \in Machines
      BY <1>3, <1>8, <2>1 DEF TypeInv
    <2> QED BY <1>8, <2>2
  <1>10. TypeInv'
    BY <1>2, <1>3, <1>5, <1>7, <1>9 DEF TypeInv
  <1>11. DiskInv' /\ Here' = Here
    BY <1>5, DiskSame
  <1>12. /\ events'[p] = next /\ \A q \in Players : q # p => Same(q)
    BY <1>3, <1>5, <1>6, <1>8 DEF TypeInv, Same
  <1>13. run'[p].frame = f + 1 /\ run'[p].native = run[p].native /\ run'[p].buttons = mask
    BY <1>6
  <1>14. Local(todo[p], {}, machine'[p], run'[p], parent[p], next, node[p], Here)
    <2>1. machine'[p] = [by |-> run'[p].native,
                         inputs |-> Held(parent[p].inputs \o next, run'[p].frame)]
      BY <1>2, <1>8, <1>13
    <2>2. Kept(todo[p], machine'[p], run'[p], parent[p], next)
      BY <1>1, <1>2, <1>4, <1>13, <2>1 DEF Kept
    <2>3. /\ Started(todo[p], machine'[p], run'[p], next)
          /\ Chosen(todo[p], {}, run'[p], parent[p], next, node[p])
          /\ Stored(todo[p], machine'[p], parent[p], node[p], Here)
          /\ Writing(todo[p], {}, run'[p], node[p], Here)
      BY <1>1, <1>2 DEF Started, Chosen, Stored, Writing, Saved
    <2> QED BY <1>1, <2>2, <2>3 DEF Local
  <1>15. LocalOf(p)'
    BY <1>3, <1>5, <1>11, <1>12, <1>14 DEF LocalOf
  <1> QED BY <1>1, <1>5, <1>10, <1>11, <1>12, <1>15, StepOf

LEMMA PlayingStep ==
  ASSUME Inv, NEW p \in Players, Playing(p)
  PROVE  Inv'
  <1>1. CASE \E mask \in Masks : Step(p, mask)
    <2>1. PICK mask \in Masks : Step(p, mask)
      BY <1>1
    <2>2. CASE Append(machine[p].inputs, mask) \in Fails
      BY <2>1, <2>2, StepFaults DEF Step
    <2>3. CASE Append(machine[p].inputs, mask) \notin Fails
      BY <2>1, <2>3, StepRuns DEF Step
    <2> QED BY <2>2, <2>3
  <1>2. CASE HostFails(p)
    BY <1>2, HostFailsStep
  <1>3. CASE Checkpoint(p)
    <2>1. Doing(p, "play") /\ UNCHANGED <<disk, library, writing, live>>
          /\ todo' = [todo EXCEPT ![p] = Checkpointing \o todo[p]]
      BY <1>3 DEF Checkpoint
    <2>2. todo[p] = <<"play">>
      BY <2>1, DoingIs
    <2> QED BY <2>1, <2>2, SaveBegins
  <1>4. CASE Exit(p)
    BY <1>4, SaveBegins DEF Exit
  <1> QED BY <1>1, <1>2, <1>3, <1>4 DEF Playing

----------------------------------------------------------------------------
\* Preserving and saving.

LEMMA PreserveStep ==
  ASSUME Inv, NEW p \in Players, Preserve(p)
  PROVE  Inv'
  <1> DEFINE f == run[p].frame
             s == parent[p].inputs \o events[p]
  <1>1. /\ Doing(p, "preserve") /\ Resolves(Nodes, parent[p]) /\ UNCHANGED disk /\ library' = library /\ writing' = writing
        /\ machine' = machine /\ run' = run /\ parent' = parent /\ node' = node
        /\ IF Worth(p) THEN /\ events' = [events EXCEPT ![p] = Completed(p)]
                            /\ todo' = [todo EXCEPT ![p] = Preservation]
           ELSE todo' = [todo EXCEPT ![p] = <<"close">>] /\ events' = events
    BY DEF Preserve
  <1>2. Op(todo[p]) = "preserve" /\ writing[p] = {}
    BY <1>1, DoingIs
  <1>3. /\ parent[p] \in Here /\ parent[p].end <= f
        /\ Segment(parent[p], events[p], f + 1)
        /\ machine[p] = [by |-> run[p].native, inputs |-> Held(s, f)]
    BY <1>2, Player DEF LocalOf, Local, Kept, Stored
  <1>4. /\ f \in Nat /\ parent[p] \in Paths /\ parent[p].end \in Nat /\ TypeInv
        /\ Node(Nodes, parent[p]).end_frame = parent[p].end
    BY <1>1, Player, Resolved DEF Records, Inv
  <1>5. /\ Segment(parent[p], Completed(p), f)
        /\ Held(parent[p].inputs \o Completed(p), f) = Held(s, f)
    BY <1>3, <1>4, JournalOfCompleted DEF Completed
  <1>6. DiskInv' /\ Here' = Here
    BY <1>1, DiskSame
  <1>7. CASE Worth(p)
    <2> DEFINE t == Preservation
               next == Completed(p)
    <2>1. Plan(t) /\ Op(t) = "append" /\ ~Exact(t) /\ t \in Seq(Ops)
      BY PlansGiven, PlanFacts
    <2>2. next \in Seq(Event)
      BY <1>5 DEF Segment
    <2> HIDE DEF t
    <2>3. Kept(t, machine[p], run[p], parent[p], next)
      BY <1>3, <1>5, <2>1 DEF Kept
    <2> HIDE DEF next
    <2>4. events' = [events EXCEPT ![p] = next] /\ todo' = [todo EXCEPT ![p] = t]
      BY <1>1, <1>7 DEF next, t
    <2>5. TypeInv'
      BY <1>1, <1>4, <2>1, <2>2, <2>4 DEF TypeInv
    <2>6. /\ todo'[p] = t /\ events'[p] = next /\ \A q \in Players : q # p => Same(q)
      BY <1>1, <1>4, <2>4 DEF TypeInv, Same
    <2>7. /\ Started(t, machine[p], run[p], next)
          /\ Chosen(t, {}, run[p], parent[p], next, node[p])
          /\ Stored(t, machine[p], parent[p], node[p], Here)
          /\ Writing(t, {}, run[p], node[p], Here)
      BY <1>3, <2>1 DEF Started, Chosen, Stored, Writing, Saved
    <2>8. LocalOf(p)'
      BY <1>1, <1>2, <1>6, <2>1, <2>3, <2>6, <2>7 DEF LocalOf, Local
    <2> QED BY <1>1, <1>6, <2>1, <2>5, <2>6, <2>8, StepOf
  <1>8. CASE ~Worth(p)
    <2> DEFINE t == <<"close">>
    <2>1. Plan(t) /\ Op(t) = "close" /\ t \in Seq(Ops)
      BY PlansGiven, PlanFacts
    <2> HIDE DEF t
    <2>2. f = parent[p].end
      BY <1>3, <1>4, <1>8 DEF Worth
    <2>3. machine[p].inputs = Held(parent[p].inputs, parent[p].end)
      <3>1. Held(s, parent[p].end) = Held(parent[p].inputs, parent[p].end)
        <4>1. f + 1 \in Nat /\ parent[p].end <= f + 1
          BY <1>3, <1>4
        <4> QED BY <1>3, <1>4, <4>1, HeldOfPath
      <3> QED BY <1>3, <2>2, <3>1
    <2>4. todo' = [todo EXCEPT ![p] = t] /\ events' = events
      BY <1>1, <1>8 DEF t
    <2>5. TypeInv'
      BY <1>1, <1>4, <2>1, <2>4 DEF TypeInv
    <2>6. /\ todo'[p] = t /\ \A q \in Players : q # p => Same(q)
      BY <1>1, <1>4, <2>4 DEF TypeInv, Same
    <2>7. /\ Started(t, machine[p], run[p], events[p])
          /\ Kept(t, machine[p], run[p], parent[p], events[p])
          /\ Chosen(t, {}, run[p], parent[p], events[p], node[p])
          /\ Stored(t, machine[p], parent[p], node[p], Here)
          /\ Writing(t, {}, run[p], node[p], Here)
      BY <1>3, <2>1, <2>3 DEF Started, Kept, Chosen, Stored, Writing, Saved, Keeping
    <2>8. LocalOf(p)'
      BY <1>1, <1>2, <1>6, <2>1, <2>4, <2>6, <2>7 DEF LocalOf, Local
    <2> QED BY <1>1, <1>6, <2>1, <2>5, <2>6, <2>8, StepOf
  <1> QED BY <1>7, <1>8

\* The journal is a segment the store accepts, and its path is the derived id.
LEMMA AppendFacts ==
  ASSUME Inv, NEW p \in Players, Doing(p, "append"), Resolves(Nodes, parent[p])
  PROVE  /\ Derived(p) = PathOf(parent[p], events[p], run[p].frame)
         /\ DerivedNode(parent[p], Node(Nodes, parent[p]), events[p], run[p].frame)
               = NodeOf(parent[p], events[p], run[p].frame)
         /\ Unmoved(p) => PathOf(parent[p], events[p], run[p].frame) = parent[p]
         /\ ~Unmoved(p) => parent[p].end < run[p].frame /\ Acceptable(p)
         /\ PathOf(parent[p], events[p], run[p].frame) \in Paths
         /\ Op(todo[p]) = "append" /\ writing[p] = {}
  <1> DEFINE P == parent[p]
             ev == events[p]
             f == run[p].frame
             n == Node(Nodes, P)
  <1>1. Op(todo[p]) = "append" /\ writing[p] = {}
    BY DoingIs
  <1>2. Records(P, n) /\ P.end <= f /\ Segment(P, ev, f) /\ P \in Paths /\ f \in Nat
    BY <1>1, KeepingFacts, Player, Resolved DEF Keeping
  <1>3. n.end_frame = P.end /\ P.end \in Nat
    BY <1>2, PathFields DEF Records
  <1>4. Derived(p) = DerivedId(n, ev, f) /\ (Unmoved(p) <=> f = P.end /\ ev = <<>>)
        /\ (Acceptable(p) <=> Canonical(n, ev, f))
    BY <1>3 DEF Derived, Unmoved, Acceptable
  <1> HIDE DEF P, ev, f, n
  <1>5. /\ DerivedId(n, ev, f) = PathOf(P, ev, f) /\ DerivedNode(P, n, ev, f) = NodeOf(P, ev, f)
        /\ P.end < f => Canonical(n, ev, f)
    BY <1>2, Derives
  <1>6. Unmoved(p) => PathOf(P, ev, f) = P
    BY <1>2, <1>4, EmptyJournal
  <1>7. ~Unmoved(p) => P.end < f
    <2> SUFFICES ASSUME ~(P.end < f) PROVE Unmoved(p)
      OBVIOUS
    <2>1. f = P.end
      BY <1>2, <1>3
    <2>2. ev = <<>>
      BY <1>2, <2>1, NoRoom
    <2> QED BY <1>4, <2>1, <2>2
  <1>8. PathOf(P, ev, f) \in Paths
    BY <1>2, Extended
  <1> QED BY <1>1, <1>4, <1>5, <1>6, <1>7, <1>8 DEF P, ev, f, n

LEMMA AppendKnownStep ==
  ASSUME Inv, NEW p \in Players, AppendKnown(p)
  PROVE  Inv'
  <1> DEFINE id == PathOf(parent[p], events[p], run[p].frame)
             t == Tail(todo[p])
  <1>1. /\ Doing(p, "append") /\ Resolves(Nodes, parent[p])
        /\ Unmoved(p) \/ Known(Derived(p))
        /\ node' = [node EXCEPT ![p] = IF Unmoved(p) THEN parent[p] ELSE Derived(p)]
        /\ todo' = [todo EXCEPT ![p] = t]
        /\ UNCHANGED <<disk, library, writing, machine, run, parent, events, opened>>
    BY DEF AppendKnown, Then
  <1>2. /\ Plan(t) /\ t \in Seq(Ops) /\ Op(t) = "present"
        /\ Exact(t) => Exact(todo[p])
    BY <1>1, DoingIs DEF Ends, Leads
  <1>3. /\ (IF Unmoved(p) THEN parent[p] ELSE Derived(p)) = id
        /\ id \in Paths /\ Op(todo[p]) = "append" /\ writing[p] = {}
    BY <1>1, AppendFacts
  <1>4. id \in Here
    <2>1. CASE Unmoved(p)
      <3>1. parent[p] \in Here
        BY <1>1, DoingIs, KeepingFacts DEF Keeping
      <3> QED BY <1>3, <2>1, <3>1
    <2>2. CASE ~Unmoved(p)
      BY <1>1, <1>3, <2>2 DEF Known, Here
    <2> QED BY <2>1, <2>2
  <1>5. node' = [node EXCEPT ![p] = id]
    BY <1>1, <1>3, Zenon
  <1>6. /\ parent[p] \in Here /\ parent[p].end <= run[p].frame
        /\ machine[p] = [by |-> run[p].native,
                         inputs |-> Held(parent[p].inputs \o events[p], run[p].frame)]
        /\ Segment(parent[p], events[p], run[p].frame)
        /\ Exact(t) => run[p].buttons = ButtonsOf(parent[p].inputs \o events[p])
    BY <1>2, <1>3, KeepingFacts DEF Keeping
  <1> HIDE DEF t
  <1>7. Kept(t, machine[p], run[p], parent[p], events[p])
    BY <1>2, <1>6 DEF Kept
  <1>8. /\ Started(t, machine[p], run[p], events[p])
        /\ Chosen(t, {}, run[p], parent[p], events[p], id)
        /\ Stored(t, machine[p], parent[p], id, Here)
    BY <1>2, <1>4, <1>6 DEF Started, Chosen, Stored, Saved
  <1>9. Writing(t, {}, run[p], id, Here)
    BY DEF Writing
  <1> HIDE DEF id
  <1>10. /\ UNCHANGED disk /\ library' = library /\ writing' = writing /\ machine' = machine
         /\ run' = run /\ parent' = parent /\ events' = events
    BY <1>1
  <1>11. TypeInv
    BY DEF Inv
  <1>12. TypeInv'
    BY <1>1, <1>2, <1>3, <1>5, <1>10, <1>11 DEF TypeInv
  <1>13. DiskInv' /\ Here' = Here
    BY <1>10, DiskSame
  <1>14. todo'[p] = t /\ node'[p] = id /\ \A q \in Players : q # p => Same(q)
    BY <1>1, <1>5, <1>10, <1>11 DEF TypeInv, Same
  <1>15. LocalOf(p)'
    BY <1>2, <1>3, <1>7, <1>8, <1>9, <1>10, <1>13, <1>14 DEF LocalOf, Local
  <1> QED BY <1>2, <1>10, <1>12, <1>13, <1>14, <1>15, StepOf

\* A write begins, of a record that is right for its target.
LEMMA BeginStep ==
  ASSUME Inv, NEW p \in Players, NEW op \in Writers, Doing(p, op), NEW value, NEW id \in Paths,
         NEW target, target = Target(op, id, run[p].native), FileOk(target, value, Here),
         Begin(p, target, value), node' = [node EXCEPT ![p] = id],
         id = PathOf(parent[p], events[p], run[p].frame), op \in Saved => id \in Here,
         UNCHANGED <<disk, library, todo, machine, run, parent, events>>
  PROVE  Inv'
  <1> DEFINE x == [target |-> target, value |-> value, stage |-> "begun"]
  <1>1. writing' = [writing EXCEPT ![p] = {x}]
    BY DEF Begin
  <1>2. TypeInv /\ Op(todo[p]) = op /\ Op(todo[p]) # "identify"
    BY DoingIs DEF Inv, Writers
  <1>3. x.target = target /\ x.value = value /\ x.stage = "begun"
        /\ x = [target |-> x.target, value |-> x.value, stage |-> x.stage]
    OBVIOUS
  <1> HIDE DEF x
  <1>4. Writing(todo[p], {x}, run[p], id, Here)
    <2>1. WriteOk(todo[p], x, run[p], id, Here)
      BY <1>2, <1>3 DEF WriteOk, Stages
    <2> QED BY <1>2, <2>1 DEF Writing
  <1>5. TypeInv'
    BY <1>1, <1>2 DEF TypeInv
  <1>6. /\ writing'[p] = {x} /\ node'[p] = id /\ \A q \in Players : q # p => Same(q)
    BY <1>1, <1>2 DEF TypeInv, Same
  <1>7. DiskInv' /\ Here' = Here
    BY DiskSame
  <1>8. LocalOf(p)'
    <2>1. /\ Plan(todo[p]) /\ Started(todo[p], machine[p], run[p], events[p])
          /\ Kept(todo[p], machine[p], run[p], parent[p], events[p])
          /\ Stored(todo[p], machine[p], parent[p], node[p], Here)
      BY Player DEF LocalOf, Local
    <2>2. Chosen(todo[p], {x}, run[p], parent[p], events[p], id)
      BY DEF Chosen
    <2>3. Stored(todo[p], machine[p], parent[p], id, Here)
      BY <1>2, <2>1 DEF Stored
    <2> QED BY <1>4, <1>6, <1>7, <2>1, <2>2, <2>3 DEF LocalOf, Local
  <1> QED BY <1>2, <1>5, <1>6, <1>7, <1>8, StepOf

LEMMA AppendNewStep ==
  ASSUME Inv, NEW p \in Players, AppendNew(p)
  PROVE  Inv'
  <1> DEFINE value == DerivedNode(parent[p], Node(Nodes, parent[p]), events[p], run[p].frame)
             id == PathOf(parent[p], events[p], run[p].frame)
  <1>1. /\ Doing(p, "append") /\ Resolves(Nodes, parent[p]) /\ ~Unmoved(p)
        /\ node' = [node EXCEPT ![p] = Derived(p)]
        /\ Begin(p, NodeFile(Derived(p)), value)
        /\ UNCHANGED <<disk, library, todo, machine, run, parent, events>>
    BY DEF AppendNew
  <1>2. /\ Derived(p) = id /\ value = NodeOf(parent[p], events[p], run[p].frame)
        /\ parent[p].end < run[p].frame /\ id \in Paths /\ Op(todo[p]) = "append"
    BY <1>1, AppendFacts
  <1>3. /\ parent[p] \in Here /\ Records(parent[p], Node(Nodes, parent[p]))
        /\ Segment(parent[p], events[p], run[p].frame) /\ parent[p].end <= run[p].frame
        /\ parent[p] \in Paths /\ run[p].frame \in Nat /\ run[p].frame <= MaxFrames
    <2>1. Op(todo[p]) \in Keeping
      BY <1>2 DEF Keeping
    <2>2. run[p].frame \in 0..MaxFrames /\ run[p].frame \in Nat /\ parent[p] \in Paths
      BY Player
    <2>3. run[p].frame <= MaxFrames
      BY <2>2, SessionAssumption
    <2> QED BY <1>1, <2>1, <2>2, <2>3, KeepingFacts, Resolved
  <1>4. Fit(id, NodeOf(parent[p], events[p], run[p].frame))
    BY <1>2, <1>3, Derives
  <1>5. value.parent = parent[p] /\ id.end = run[p].frame
    BY <1>2 DEF NodeOf, PathOf
  <1>6. Fit(id, value) /\ value.parent \in Here /\ id \in Reached
    BY <1>2, <1>3, <1>4, <1>5 DEF Reached
  <1> HIDE DEF value, id
  <1>7. FileOk(NodeFile(id), value, Here)
    <2>1. NodeFile(id) \in Targets /\ NodeFile(id) # Main
      BY <1>6, TargetsAre, TargetKinds
    <2>2. \A i : NodeFile(id) = NodeFile(i) => i = id
      BY TargetKinds
    <2>3. \A i, b : NodeFile(id) # CacheFile(b, i)
      BY TargetKinds
    <2> QED BY <1>6, <2>1, <2>2, <2>3 DEF FileOk
  <1>8. NodeFile(id) = Target("append", id, run[p].native) /\ "append" \in Writers
        /\ "append" \notin Saved
    BY DEF Target, Writers, Saved
  <1> QED BY <1>1, <1>2, <1>7, <1>8, BeginStep DEF id

\* The node of a session that has chosen it.
LEMMA SavedFacts ==
  ASSUME Inv, NEW p \in Players,
         Op(todo[p]) \in Saved \/ (Op(todo[p]) = "append" /\ writing[p] # {})
  PROVE  /\ node[p] = PathOf(parent[p], events[p], run[p].frame)
         /\ node[p].inputs = parent[p].inputs \o events[p] /\ node[p].end = run[p].frame
         /\ Op(todo[p]) \in Saved => node[p] \in Here
         /\ machine[p] = EndMachine(run[p].native, node[p])
         /\ Exact(todo[p]) => run[p] = EndRun(run[p].native, node[p])
  <1>1. Op(todo[p]) \in Keeping
    BY DEF Saved, Keeping
  <1>2. /\ Chosen(todo[p], writing[p], run[p], parent[p], events[p], node[p])
        /\ Stored(todo[p], machine[p], parent[p], node[p], Here)
    BY Player DEF LocalOf, Local
  <1>3. node[p] = PathOf(parent[p], events[p], run[p].frame)
    BY <1>2 DEF Chosen
  <1>4. node[p].inputs = parent[p].inputs \o events[p] /\ node[p].end = run[p].frame
    <2> DEFINE id == PathOf(parent[p], events[p], run[p].frame)
    <2>1. id.inputs = parent[p].inputs \o events[p] /\ id.end = run[p].frame
      BY DEF PathOf
    <2> HIDE DEF id
    <2>2. node[p] = id
      BY <1>3 DEF id
    <2> QED BY <2>1, <2>2
  <1>5. machine[p] = EndMachine(run[p].native, node[p])
    BY <1>1, <1>4, KeepingFacts DEF EndMachine
  <1>6. run[p] = [frame |-> run[p].frame, buttons |-> run[p].buttons, native |-> run[p].native]
    BY Player DEF Runs
  <1>7. Exact(todo[p]) => run[p].buttons = ButtonsOf(node[p].inputs)
    BY <1>1, <1>4, KeepingFacts
  <1>8. Exact(todo[p]) => run[p] = EndRun(run[p].native, node[p])
    BY <1>4, <1>6, <1>7 DEF EndRun
  <1> QED BY <1>2, <1>3, <1>4, <1>5, <1>8 DEF Stored

\* Its presentation, its cache and main are written under the node's name.
LEMMA SaveStep ==
  ASSUME Inv, NEW p \in Players, NEW op \in {"present", "cache", "main"}, Doing(p, op), NEW value,
         NEW target, target = Target(op, node[p], run[p].native), FileOk(target, value, Here),
         Begin(p, target, value), UNCHANGED <<disk, library, todo, live>>
  PROVE  Inv'
  <1>1. op \in Writers /\ op \in Saved /\ Op(todo[p]) = op
    BY DoingIs DEF Writers, Saved
  <1>2. node[p] = PathOf(parent[p], events[p], run[p].frame) /\ node[p] \in Here
    BY <1>1, SavedFacts
  <1>3. node[p] \in Paths /\ node' = [node EXCEPT ![p] = node[p]]
    <2>1. node \in [Players -> Paths] /\ node' = node
      BY DEF Inv, TypeInv, live
    <2> QED BY <2>1
  <1>4. UNCHANGED <<disk, library, todo, machine, run, parent, events>>
    BY DEF live
  <1> QED BY <1>1, <1>2, <1>3, <1>4, BeginStep

LEMMA PresentStep ==
  ASSUME Inv, NEW p \in Players, Present(p)
  PROVE  Inv'
  <1> DEFINE value == [reason |-> IF Contains(todo[p], "cache") THEN "checkpoint"
                                  ELSE "execution_failure"]
  <1>1. /\ Doing(p, "present") /\ Begin(p, Presentation(node[p]), value)
        /\ UNCHANGED <<disk, library, todo, live>>
    BY DEF Present
  <1> HIDE DEF value
  <1>2. FileOk(Presentation(node[p]), value, Here)
    <2>1. node[p] \in Paths
      BY Player
    <2>2. Presentation(node[p]) \in Targets /\ Presentation(node[p]) # Main
      BY <2>1, TargetsAre, TargetKinds
    <2>3. \A id, b : Presentation(node[p]) # CacheFile(b, id) /\ Presentation(node[p]) # NodeFile(id)
      BY TargetKinds
    <2> QED BY <2>2, <2>3 DEF FileOk
  <1>3. Presentation(node[p]) = Target("present", node[p], run[p].native)
    BY DEF Target
  <1> QED BY <1>1, <1>2, <1>3, SaveStep

LEMMA CacheStep ==
  ASSUME Inv, NEW p \in Players, Cache(p)
  PROVE  Inv'
  <1> DEFINE value == [frame |-> run[p].frame, buttons |-> run[p].buttons, state |-> machine[p]]
             b == run[p].native
  <1>1. /\ Doing(p, "cache") /\ Begin(p, CacheFile(b, node[p]), value)
        /\ UNCHANGED <<disk, library, todo, live>>
    BY DEF Cache
  <1>2. Op(todo[p]) = "cache" /\ Exact(todo[p]) /\ node[p] \in Paths /\ b \in 1..MaxBuild
    BY <1>1, DoingIs, Player
  <1>3. machine[p] = EndMachine(b, node[p]) /\ run[p] = EndRun(b, node[p])
    BY <1>2, SavedFacts DEF Saved
  <1>4. value = CacheOf(b, node[p])
    <2>1. run[p].frame = node[p].end /\ run[p].buttons = ButtonsOf(node[p].inputs)
      BY <1>3 DEF EndRun
    <2> QED BY <1>3, <2>1 DEF CacheOf, EndMachine
  <1> HIDE DEF value, b
  <1>5. FileOk(CacheFile(b, node[p]), value, Here)
    <2>1. CacheFile(b, node[p]) \in Targets /\ CacheFile(b, node[p]) # Main
      BY <1>2, TargetsAre, TargetKinds
    <2>2. \A id : CacheFile(b, node[p]) # NodeFile(id)
      BY TargetKinds
    <2>3. \A id, c : CacheFile(b, node[p]) = CacheFile(c, id) => c = b /\ id = node[p]
      BY TargetKinds
    <2> QED BY <1>4, <2>1, <2>2, <2>3 DEF FileOk
  <1>6. CacheFile(b, node[p]) = Target("cache", node[p], run[p].native)
    BY DEF Target, b
  <1> QED BY <1>1, <1>5, <1>6, SaveStep

LEMMA SetMainStep ==
  ASSUME Inv, NEW p \in Players, SetMain(p)
  PROVE  Inv'
  <1>1. /\ Doing(p, "main") /\ Begin(p, Main, node[p])
        /\ UNCHANGED <<disk, library, todo, live>>
    BY DEF SetMain
  <1>2. node[p] \in Here
    BY <1>1, DoingIs, SavedFacts DEF Saved
  <1>3. FileOk(Main, node[p], Here)
    <2>1. Main \in Targets /\ \A id, b : Main # NodeFile(id) /\ Main # CacheFile(b, id)
      BY TargetsAre, TargetKinds
    <2> QED BY <1>2, <2>1 DEF FileOk
  <1>4. Main = Target("main", node[p], run[p].native)
    BY DEF Target
  <1> QED BY <1>1, <1>3, <1>4, SaveStep

LEMMA AdoptStep ==
  ASSUME Inv, NEW p \in Players, Adopt(p)
  PROVE  Inv'
  <1> DEFINE t == Tail(todo[p])
             b == run[p].native
  <1>1. /\ Doing(p, "adopt") /\ parent' = [parent EXCEPT ![p] = node[p]]
        /\ events' = [events EXCEPT ![p] = <<>>] /\ todo' = [todo EXCEPT ![p] = t]
        /\ UNCHANGED disk /\ library' = library /\ writing' = writing /\ machine' = machine
        /\ run' = run /\ node' = node
    BY DEF Adopt, Then
  <1>2. /\ Op(todo[p]) = "adopt" /\ Exact(todo[p]) /\ writing[p] = {}
        /\ Plan(t) /\ t \in Seq(Ops) /\ Op(t) \in {"play", "close"}
    BY <1>1, DoingIs DEF Ends, Leads
  <1>3. /\ machine[p] = EndMachine(b, node[p]) /\ run[p] = EndRun(b, node[p])
        /\ node[p] \in Here /\ node[p] \in Paths /\ TypeInv
    BY <1>2, SavedFacts, Player DEF Saved, Inv
  <1> HIDE DEF t, b
  <1>4. Local(t, {}, machine[p], run[p], node[p], <<>>, node[p], Here)
    BY <1>2, <1>3, AtPathEnd
  <1>5. TypeInv'
    BY <1>1, <1>2, <1>3 DEF TypeInv
  <1>6. DiskInv' /\ Here' = Here
    BY <1>1, DiskSame
  <1>7. /\ todo'[p] = t /\ parent'[p] = node[p] /\ events'[p] = <<>>
        /\ \A q \in Players : q # p => Same(q)
    BY <1>1, <1>3 DEF TypeInv, Same
  <1>8. LocalOf(p)'
    BY <1>1, <1>2, <1>4, <1>6, <1>7 DEF LocalOf
  <1> QED BY <1>1, <1>2, <1>5, <1>6, <1>7, <1>8, StepOf

----------------------------------------------------------------------------
\* Writing a file.

\* The file a session has open is there, under the name it has by now.
OpenInv ==
    /\ open \in [Players -> {"none", "tmp", "file", "gone"}] /\ shared \subseteq Targets
    /\ \A p \in Players : \A w \in writing[p] : w.stage = "open" =>
          /\ open[p] = "tmp" => w.target \in DOMAIN tmp
          /\ open[p] = "file" => w.target \in DOMAIN files

LEMMA WriteIs ==
  ASSUME Inv, NEW p \in Players, NEW w \in writing[p]
  PROVE  /\ writing[p] = {w} /\ Op(todo[p]) \in Writers /\ todo[p] # <<>>
         /\ w = [target |-> w.target, value |-> w.value, stage |-> w.stage]
         /\ w.target = Target(Op(todo[p]), node[p], run[p].native)
         /\ w.target \in Targets /\ FileOk(w.target, w.value, Here)
  <1>1. Writing(todo[p], writing[p], run[p], node[p], Here)
    BY Player DEF LocalOf, Local
  <1>2. Op(todo[p]) \in Writers /\ \E x : writing[p] = {x} /\ WriteOk(todo[p], x, run[p], node[p], Here)
    BY <1>1 DEF Writing
  <1>3. writing[p] = {w} /\ WriteOk(todo[p], w, run[p], node[p], Here)
    BY <1>2
  <1>4. todo[p] # <<>>
    BY <1>2, Player, PlanFacts DEF Writers
  <1> QED BY <1>2, <1>3, <1>4 DEF WriteOk, FileOk

\* What a session is to write does not change as it writes it.
LEMMA StageStep ==
  ASSUME Inv, NEW p \in Players, NEW w \in writing[p], NEW stage \in Stages,
         writing' = [writing EXCEPT ![p] = {[w EXCEPT !.stage = stage]}],
         UNCHANGED <<library, todo, live>>, DiskInv', Here' = Here
  PROVE  Inv'
  <1> DEFINE x == [w EXCEPT !.stage = stage]
  <1>1. /\ writing[p] = {w} /\ Op(todo[p]) \in Writers
        /\ w = [target |-> w.target, value |-> w.value, stage |-> w.stage]
        /\ w.target = Target(Op(todo[p]), node[p], run[p].native)
        /\ FileOk(w.target, w.value, Here)
    BY WriteIs
  <1>2. x = [target |-> w.target, value |-> w.value, stage |-> stage]
    BY <1>1
  <1>3. x.target = w.target /\ x.value = w.value /\ x.stage = stage
        /\ x = [target |-> x.target, value |-> x.value, stage |-> x.stage]
    BY <1>2
  <1>4. writing' = [writing EXCEPT ![p] = {x}]
    OBVIOUS
  <1> HIDE DEF x
  <1>5. WriteOk(todo[p], x, run[p], node[p], Here)
    BY <1>1, <1>3 DEF WriteOk
  <1>6. Writing(todo[p], {x}, run[p], node[p], Here)
    BY <1>1, <1>5 DEF Writing
  <1>7. /\ library' = library /\ todo' = todo /\ machine' = machine /\ run' = run
        /\ parent' = parent /\ events' = events /\ node' = node
    BY DEF live
  <1>8. TypeInv
    BY DEF Inv
  <1>9. TypeInv'
    BY <1>4, <1>7, <1>8 DEF TypeInv
  <1>10. writing'[p] = {x} /\ \A q \in Players : q # p => Same(q)
    BY <1>4, <1>7, <1>8 DEF TypeInv, Same
  <1>11. LocalOf(p)'
    <2>1. /\ Plan(todo[p]) /\ Started(todo[p], machine[p], run[p], events[p])
          /\ Kept(todo[p], machine[p], run[p], parent[p], events[p])
          /\ Stored(todo[p], machine[p], parent[p], node[p], Here)
          /\ Chosen(todo[p], writing[p], run[p], parent[p], events[p], node[p])
      BY Player DEF LocalOf, Local
    <2>2. Chosen(todo[p], {x}, run[p], parent[p], events[p], node[p])
      BY <1>1, <2>1 DEF Chosen
    <2> QED BY <1>6, <1>7, <1>10, <2>1, <2>2 DEF LocalOf, Local
  <1>12. Op(todo'[p]) # "identify"
    BY <1>1, <1>7 DEF Writers
  <1> QED BY <1>7, <1>9, <1>10, <1>11, <1>12, StepOf

LEMMA OpenTemporaryStep ==
  ASSUME Inv, NEW p \in Players, OpenTemporary(p)
  PROVE  Inv'
  <1>1. PICK w \in writing[p] :
           /\ tmp' = With(tmp, w.target, {}) /\ files' = files
           /\ writing' = [writing EXCEPT ![p] = {[w EXCEPT !.stage = "open"]}]
           /\ UNCHANGED <<library, todo, live>>
    BY DEF OpenTemporary
  <1>2. Here' = Here
    BY <1>1, NodesAre
  <1>3. w.target \in Targets
    BY WriteIs
  <1>4. FilesOk(tmp', Here)
    BY <1>1, <1>3, Wrote DEF Inv, DiskInv
  <1>5. DiskInv'
    BY <1>1, <1>2, <1>4 DEF Inv, DiskInv
  <1>6. "open" \in Stages
    BY DEF Stages
  <1> QED BY <1>1, <1>2, <1>5, <1>6, StageStep

LEMMA WriteTemporaryStep ==
  ASSUME Inv, OpenInv, NEW p \in Players, WriteTemporary(p)
  PROVE  Inv'
  <1> DEFINE Over(w, tail, old) == {w.value} \cup IF tail /\ w.target # Main THEN old ELSE {}
  <1>1. PICK w \in writing[p], tail \in BOOLEAN :
           /\ w.stage = "open"
           /\ tmp' = IF open[p] # "tmp" THEN tmp
                     ELSE With(tmp, w.target, Over(w, tail, tmp[w.target]))
           /\ files' = IF open[p] # "file" THEN files
                       ELSE With(files, w.target, Over(w, tail, files[w.target]))
           /\ writing' = [writing EXCEPT ![p] = {[w EXCEPT !.stage = "written"]}]
           /\ UNCHANGED <<library, todo, live>>
    BY DEF WriteTemporary
  <1>2. w.target \in Targets /\ FileOk(w.target, w.value, Here)
    BY WriteIs
  <1>3. /\ open[p] = "tmp" => w.target \in DOMAIN tmp
        /\ open[p] = "file" => w.target \in DOMAIN files
    BY <1>1 DEF OpenInv
  <1>4. ASSUME NEW F, FilesOk(F, Here), w.target \in DOMAIN F
        PROVE  FilesOk(With(F, w.target, Over(w, tail, F[w.target])), Here)
    <2>1. \A v \in Over(w, tail, F[w.target]) : FileOk(w.target, v, Here)
      BY <1>2, <1>4 DEF FilesOk
    <2> HIDE DEF Over
    <2> QED BY <1>2, <1>4, <2>1, Wrote
  <1> HIDE DEF Over
  <1>5. FilesOk(files, Here) /\ FilesOk(tmp, Here)
    BY DEF Inv, DiskInv
  <1>6. FilesOk(tmp', Here)
    BY <1>1, <1>3, <1>4, <1>5
  <1>7. FilesOk(files', Here)
    BY <1>1, <1>3, <1>4, <1>5
  <1>8. Here' = Here
    <2>1. CASE files' = files
      BY <2>1, NodesAre
    <2>2. CASE files' # files
      <3>1. w.target \in DOMAIN files
            /\ files' = With(files, w.target, Over(w, tail, files[w.target]))
        BY <1>1, <1>3, <2>2
      <3> QED BY <3>1, WroteThere, NodesAre
    <2> QED BY <2>1, <2>2
  <1>9. DiskInv'
    BY <1>6, <1>7, <1>8 DEF DiskInv
  <1>10. "written" \in Stages
    BY DEF Stages
  <1> QED BY <1>1, <1>8, <1>9, <1>10, StageStep

LEMMA ReplaceStep ==
  ASSUME Inv, NEW p \in Players, Replace(p)
  PROVE  Inv'
  <1>1. PICK w \in writing[p] :
           IF w.target \in DOMAIN tmp
           THEN /\ files' = With(files, w.target, tmp[w.target]) /\ tmp' = Without(tmp, w.target)
                /\ writing' = [writing EXCEPT ![p] = {}] /\ Then(p)
                /\ UNCHANGED <<shared, library, live>>
           ELSE Closed(p) /\ UNCHANGED <<disk, library>>
    BY Zenon DEF Replace
  <1>2. CASE w.target \notin DOMAIN tmp
    BY <1>1, <1>2, Closes DEF disk
  <1>3. CASE w.target \in DOMAIN tmp
    <2> DEFINE t == Tail(todo[p])
               target == w.target
    <2>1. /\ files' = With(files, target, tmp[target]) /\ tmp' = Without(tmp, target)
          /\ writing' = [writing EXCEPT ![p] = {}] /\ todo' = [todo EXCEPT ![p] = t]
          /\ library' = library /\ machine' = machine /\ run' = run /\ parent' = parent
          /\ events' = events /\ node' = node
      BY <1>1, <1>3 DEF Then, live
    <2>2. /\ Plan(todo[p]) /\ Op(todo[p]) \in Writers /\ writing[p] # {}
          /\ target = Target(Op(todo[p]), node[p], run[p].native) /\ target \in Targets
      BY WriteIs, Player
    <2> HIDE DEF target
    <2>3. todo[p] # <<>> /\ Op(todo[p]) \notin Ends
      BY <2>2, PlanFacts DEF Writers, Ends
    <2>4. Plan(t) /\ t \in Seq(Ops) /\ (Exact(t) => Exact(todo[p])) /\ Leads(Op(todo[p]), Op(t))
      BY <2>2, <2>3, PlanTail, PlanFacts
    <2> HIDE DEF t
    <2>5. DiskInv' /\ Here \subseteq Here' /\ (Op(todo[p]) = "append" => node[p] \in Here')
      <3>1. FilesOk(files, There(files)) /\ FilesOk(tmp, There(files)) /\ target \in DOMAIN tmp
        BY <1>3, NodesAre DEF Inv, DiskInv, target
      <3>2. /\ There(files) \subseteq There(files')
            /\ FilesOk(files', There(files')) /\ FilesOk(tmp', There(files'))
            /\ \A id \in Reached : target = NodeFile(id) => id \in There(files')
        BY <2>1, <3>1, Moved
      <3>3. Op(todo[p]) = "append" => target = NodeFile(node[p]) /\ node[p] \in Reached
        BY <2>2, TargetsAre, TargetKinds DEF Target
      <3> QED BY <3>2, <3>3, NodesAre DEF DiskInv
    <2>6. TypeInv
      BY DEF Inv
    <2>7. TypeInv'
      BY <2>1, <2>4, <2>6 DEF TypeInv
    <2>8. todo'[p] = t /\ writing'[p] = {} /\ \A q \in Players : q # p => Same(q)
      BY <2>1, <2>6 DEF TypeInv, Same
    <2>9. /\ parent[p] \in Here' /\ parent[p].end <= run[p].frame
          /\ Segment(parent[p], events[p], run[p].frame)
          /\ machine[p] = [by |-> run[p].native,
                           inputs |-> Held(parent[p].inputs \o events[p], run[p].frame)]
          /\ Exact(todo[p]) => run[p].buttons = ButtonsOf(parent[p].inputs \o events[p])
      BY <2>2, <2>5, KeepingFacts DEF Writers, Keeping
    <2>10. /\ node[p] = PathOf(parent[p], events[p], run[p].frame) /\ node[p] \in Here'
           /\ machine[p] = EndMachine(run[p].native, node[p])
      BY <2>2, <2>5, SavedFacts DEF Writers, Saved
    <2>11. Op(t) \in Saved \cup {"play", "close"}
      BY <2>2, <2>4 DEF Writers, Leads, Saved
    <2>0. Writing(t, {}, run[p], node[p], Here')
      BY DEF Writing
    <2>12. CASE Op(t) \in Saved
      <3>1. Kept(t, machine[p], run[p], parent[p], events[p])
        BY <2>4, <2>9, <2>12 DEF Kept, Saved
      <3>2. /\ Started(t, machine[p], run[p], events[p])
            /\ Chosen(t, {}, run[p], parent[p], events[p], node[p])
            /\ Stored(t, machine[p], parent[p], node[p], Here')
        BY <2>9, <2>10, <2>12 DEF Started, Chosen, Stored, Saved
      <3>3. LocalOf(p)'
        BY <2>0, <2>1, <2>4, <2>8, <3>1, <3>2 DEF LocalOf, Local
      <3>4. Op(t) # "identify"
        BY <2>12 DEF Saved
      <3> QED BY <2>1, <2>5, <2>7, <2>8, <3>3, <3>4, StepOf
    <2>13. CASE Op(t) = "play"
      <3>1. Kept(t, machine[p], run[p], parent[p], events[p])
        BY <2>4, <2>9, <2>13 DEF Kept
      <3>2. /\ Started(t, machine[p], run[p], events[p])
            /\ Chosen(t, {}, run[p], parent[p], events[p], node[p])
            /\ Stored(t, machine[p], parent[p], node[p], Here')
        BY <2>9, <2>13 DEF Started, Chosen, Stored, Saved
      <3>3. LocalOf(p)'
        BY <2>0, <2>1, <2>4, <2>8, <3>1, <3>2 DEF LocalOf, Local
      <3> QED BY <2>1, <2>5, <2>7, <2>8, <2>13, <3>3, StepOf
    <2>14. CASE Op(t) = "close"
      <3>1. machine[p].inputs = Held(node[p].inputs, node[p].end)
        BY <2>10 DEF EndMachine
      <3>2. /\ Started(t, machine[p], run[p], events[p])
            /\ Kept(t, machine[p], run[p], parent[p], events[p])
            /\ Chosen(t, {}, run[p], parent[p], events[p], node[p])
            /\ Stored(t, machine[p], parent[p], node[p], Here')
        BY <2>9, <2>10, <2>14, <3>1 DEF Started, Kept, Chosen, Stored, Saved, Keeping
      <3>3. LocalOf(p)'
        BY <2>0, <2>1, <2>4, <2>8, <3>2 DEF LocalOf, Local
      <3> QED BY <2>1, <2>5, <2>7, <2>8, <2>14, <3>3, StepOf
    <2> QED BY <2>11, <2>12, <2>13, <2>14
  <1> QED BY <1>2, <1>3

----------------------------------------------------------------------------
\* Builds, and every step.

LEMMA RebuildStep ==
  ASSUME Inv, Rebuild
  PROVE  Inv'
  <1>1. /\ library < MaxBuild /\ library' = library + 1 /\ UNCHANGED disk
        /\ \A p \in Players : ~Doing(p, "identify")
        /\ todo' = todo /\ writing' = writing /\ machine' = machine /\ run' = run
        /\ parent' = parent /\ events' = events /\ node' = node
    BY DEF Rebuild, live
  <1>2. library + 1 \in 1..MaxBuild
    BY <1>1, SessionAssumption DEF Inv, TypeInv
  <1>3. TypeInv'
    BY <1>1, <1>2 DEF Inv, TypeInv
  <1>4. DiskInv' /\ Here' = Here
    BY <1>1, DiskSame
  <1>5. LibraryInv'
    <2> SUFFICES ASSUME NEW p \in Players, Op(todo[p]) = "identify" PROVE FALSE
      BY <1>1 DEF LibraryInv
    <2>1. Plan(todo[p]) /\ Writing(todo[p], writing[p], run[p], node[p], Here)
      BY Player DEF LocalOf, Local
    <2>2. writing[p] = {}
      BY <2>1 DEF Writing, Writers
    <2>3. todo[p] # <<>> /\ Head(todo[p]) = "identify"
      BY DEF Op
    <2> QED BY <1>1, <2>2, <2>3 DEF Doing
  <1>6. Sessions'
    BY <1>1, <1>4 DEF Inv, Sessions, LocalOf
  <1> QED BY <1>3, <1>4, <1>5, <1>6 DEF Inv

LEMMA Stuttering ==
  ASSUME Inv, UNCHANGED vars
  PROVE  Inv'
  <1>1. /\ UNCHANGED disk /\ library' = library /\ todo' = todo /\ writing' = writing
        /\ machine' = machine /\ run' = run /\ parent' = parent /\ events' = events
        /\ node' = node
    BY DEF vars
  <1>2. DiskInv' /\ Here' = Here
    BY <1>1, DiskSame
  <1>3. TypeInv' /\ LibraryInv'
    BY <1>1 DEF Inv, TypeInv, LibraryInv
  <1>4. Sessions'
    BY <1>1, <1>2 DEF Inv, Sessions, LocalOf
  <1> QED BY <1>2, <1>3, <1>4 DEF Inv

LEMMA Preserved == Inv /\ OpenInv /\ [Next]_vars => Inv'
  <1> SUFFICES ASSUME Inv, OpenInv, [Next]_vars PROVE Inv'
    OBVIOUS
  <1>1. CASE UNCHANGED vars
    BY <1>1, Stuttering
  <1>2. CASE Rebuild
    BY <1>2, RebuildStep
  <1>3. ASSUME NEW p \in Players, Starting(p) PROVE Inv'
    <2>1. CASE \E id \in Ids(Nodes) : Open(p, id)
      BY <2>1, OpenStep
    <2>2. CASE Identify(p) \/ RestoreCache(p) \/ StartCold(p) \/ Replay(p)
      BY <2>2, IdentifyStep, RestoreCacheStep, StartColdStep, ReplayStep
    <2> QED BY <1>3, <2>1, <2>2 DEF Starting
  <1>4. ASSUME NEW p \in Players, Saving(p) PROVE Inv'
    <2>1. CASE Preserve(p) \/ AppendKnown(p) \/ AppendNew(p)
      BY <2>1, PreserveStep, AppendKnownStep, AppendNewStep
    <2>2. CASE Present(p) \/ Cache(p) \/ SetMain(p) \/ Adopt(p)
      BY <2>2, PresentStep, CacheStep, SetMainStep, AdoptStep
    <2>3. CASE OpenTemporary(p) \/ WriteTemporary(p) \/ Replace(p)
      BY <2>3, OpenTemporaryStep, WriteTemporaryStep, ReplaceStep
    <2> QED BY <1>4, <2>1, <2>2, <2>3 DEF Saving
  <1>5. ASSUME NEW p \in Players, Close(p) \/ Crash(p) PROVE Inv'
    BY <1>5, Closes DEF Close, Crash, disk
  <1>6. ASSUME NEW p \in Players, Playing(p) PROVE Inv'
    BY <1>6, PlayingStep
  <1> QED BY <1>1, <1>2, <1>3, <1>4, <1>5, <1>6 DEF Next

----------------------------------------------------------------------------
\* A temporary that two sessions never held at once is written whole before it
\* is moved, so the file it becomes can be read.

Whole == \A f \in DOMAIN files : ReadableIn(files, f) \/ f \in shared
Clean == \A p \in Players : \A w \in writing[p] :
            w.stage # "begun" /\ w.target \notin shared =>
               /\ w.target \in DOMAIN tmp
               /\ w.stage = "open" => open[p] = "tmp" /\ tmp[w.target] = {}
               /\ w.stage = "written" => tmp[w.target] = {w.value}
Both == \A p \in Players, q \in Players : p # q => \A v \in writing[p], w \in writing[q] :
           v.stage # "begun" /\ w.stage # "begun" /\ v.target = w.target => v.target \in shared
HoldInv == Whole /\ Clean /\ Both

\* What a session does between its writes disturbs no file and no temporary.
Quiet(p) ==
    /\ files' = files /\ tmp' = tmp /\ shared' = shared
    /\ open' = open \/ (writing'[p] = {} /\ open' = [open EXCEPT ![p] = "none"])
    /\ \/ writing' = writing
       \/ writing' = [writing EXCEPT ![p] = {}]
       \/ \E target, value : Begin(p, target, value)

LEMMA QuietSteps ==
  ASSUME Inv, NEW p \in Players, Starting(p) \/ Playing(p) \/ Saving(p) \/ Close(p) \/ Crash(p),
         ~OpenTemporary(p), ~WriteTemporary(p), ~Replace(p)
  PROVE  Quiet(p)
  <1> USE DEF disk, live
  <1>1. DOMAIN writing = Players
    BY DEF Inv, TypeInv
  <1>2. Closed(p) /\ UNCHANGED disk => Quiet(p)
    BY DEF Closed, Quiet
  <1>3. UNCHANGED disk /\ writing' = writing => Quiet(p)
    BY DEF Quiet
  <1>4. \A target, value : UNCHANGED disk /\ Begin(p, target, value) => Quiet(p)
    BY DEF Quiet
  <1>5. CASE Starting(p)
    <2>1. CASE Replay(p)
      BY <1>2, <1>3, <2>1 DEF Replay
    <2>2. CASE ~Replay(p)
      BY <1>3, <1>5, <2>2 DEF Starting, Open, Identify, RestoreCache, StartCold
    <2> QED BY <2>1, <2>2
  <1>6. CASE Playing(p)
    BY <1>3, <1>6 DEF Playing, Step, HostFails, Checkpoint, Exit
  <1>7. CASE Saving(p)
    <2>1. CASE Preserve(p) \/ AppendKnown(p) \/ Adopt(p)
      BY <1>3, <2>1 DEF Preserve, AppendKnown, Adopt
    <2>2. CASE AppendNew(p) \/ Present(p) \/ Cache(p) \/ SetMain(p)
      BY <1>4, <2>2 DEF AppendNew, Present, Cache, SetMain
    <2> QED BY <1>7, <2>1, <2>2 DEF Saving
  <1>8. CASE Close(p)
    BY <1>2, <1>8 DEF Close
  <1>9. CASE Crash(p)
    BY <1>1, <1>9 DEF Crash, Closed, Quiet
  <1> QED BY <1>5, <1>6, <1>7, <1>8, <1>9

LEMMA QuietHolds ==
  ASSUME Inv, OpenInv, HoldInv, NEW p \in Players, Quiet(p)
  PROVE  OpenInv' /\ HoldInv'
  <1>1. /\ files' = files /\ tmp' = tmp /\ shared' = shared
        /\ open' \in [Players -> {"none", "tmp", "file", "gone"}]
        /\ \A q \in Players : q # p => open'[q] = open[q]
    BY DEF Quiet, OpenInv
  <1>2. ASSUME NEW q \in Players, NEW w \in writing'[q], w.stage # "begun"
        PROVE  w \in writing[q] /\ open'[q] = open[q]
    <2>1. CASE writing' = writing
      BY <1>1, <1>2, <2>1 DEF Quiet
    <2>2. CASE writing' = [writing EXCEPT ![p] = {}]
      BY <1>1, <1>2, <2>2 DEF Inv, TypeInv
    <2>3. CASE \E target, value : Begin(p, target, value)
      <3>1. PICK target, value : Begin(p, target, value)
        BY <2>3
      <3>2. q # p /\ writing'[q] = writing[q]
        BY <1>2, <3>1 DEF Begin, Inv, TypeInv
      <3> QED BY <1>1, <1>2, <3>2
    <2> QED BY <2>1, <2>2, <2>3 DEF Quiet
  <1>3. OpenInv'
    BY <1>1, <1>2 DEF OpenInv
  <1>4. Whole'
    BY <1>1 DEF HoldInv, Whole
  <1>5. Clean'
    BY <1>1, <1>2 DEF HoldInv, Clean
  <1>6. Both'
    BY <1>1, <1>2 DEF HoldInv, Both
  <1> QED BY <1>3, <1>4, <1>5, <1>6 DEF HoldInv

\* What a session writes does not change while it writes it, and what the
\* others write not at all.
LEMMA StageIs ==
  ASSUME Inv, NEW p \in Players, NEW w \in writing[p], NEW stage,
         writing' = [writing EXCEPT ![p] = {[w EXCEPT !.stage = stage]}]
  PROVE  /\ \A x \in writing'[p] : x.target = w.target /\ x.value = w.value /\ x.stage = stage
         /\ \A q \in Players : q # p => writing'[q] = writing[q]
  <1>1. DOMAIN writing = Players
        /\ w = [target |-> w.target, value |-> w.value, stage |-> w.stage]
    BY WriteIs DEF Inv, TypeInv
  <1>2. writing'[p] = {[w EXCEPT !.stage = stage]}
        /\ \A q \in Players : q # p => writing'[q] = writing[q]
    BY <1>1
  <1>3. [w EXCEPT !.stage = stage] = [target |-> w.target, value |-> w.value, stage |-> stage]
    BY <1>1
  <1> QED BY <1>2, <1>3

LEMMA OpenTemporaryHolds ==
  ASSUME Inv, OpenInv, HoldInv, NEW p \in Players, OpenTemporary(p)
  PROVE  OpenInv' /\ HoldInv'
  <1>1. PICK w \in writing[p] :
           /\ tmp' = With(tmp, w.target, {}) /\ shared' = SharedNow(p, w.target)
           /\ open' = [open EXCEPT ![p] = "tmp"] /\ files' = files
           /\ writing' = [writing EXCEPT ![p] = {[w EXCEPT !.stage = "open"]}]
    BY DEF OpenTemporary
  <1> DEFINE t == w.target
  <1>2. /\ \A x \in writing'[p] : x.target = t /\ x.value = w.value /\ x.stage = "open"
        /\ \A q \in Players : q # p => writing'[q] = writing[q]
    BY <1>1, StageIs
  <1>3. /\ t \in Targets /\ open \in [Players -> {"none", "tmp", "file", "gone"}]
        /\ shared \subseteq Targets
    BY WriteIs DEF OpenInv
  <1>4. /\ open' \in [Players -> {"none", "tmp", "file", "gone"}] /\ open'[p] = "tmp"
        /\ \A q \in Players : q # p => open'[q] = open[q]
    BY <1>1, <1>3
  <1>5. /\ DOMAIN tmp' = DOMAIN tmp \cup {t} /\ tmp'[t] = {}
        /\ \A f \in DOMAIN tmp \ {t} : tmp'[f] = tmp[f]
    BY <1>1 DEF With
  <1>6. shared \subseteq shared' /\ shared' \subseteq shared \cup {t}
    BY <1>1 DEF SharedNow
  <1>7. ASSUME NEW q \in Players, q # p, NEW v \in writing[q], v.stage # "begun", v.target = t
        PROVE  t \in shared'
    BY <1>1, <1>7 DEF SharedNow, Holds
  <1> HIDE DEF t
  <1>8. OpenInv'
    <2>1. ASSUME NEW q \in Players, NEW v \in writing'[q], v.stage = "open"
          PROVE  /\ open'[q] = "tmp" => v.target \in DOMAIN tmp'
                 /\ open'[q] = "file" => v.target \in DOMAIN files'
      <3>1. CASE q = p
        BY <1>2, <1>4, <1>5, <2>1, <3>1
      <3>2. CASE q # p
        BY <1>1, <1>2, <1>4, <1>5, <2>1, <3>2 DEF OpenInv
      <3> QED BY <3>1, <3>2
    <2>2. shared' \subseteq Targets
      BY <1>3, <1>6
    <2> QED BY <1>4, <2>1, <2>2 DEF OpenInv
  <1>9. Whole'
    BY <1>1, <1>6 DEF HoldInv, Whole
  <1>10. Clean'
    <2> SUFFICES ASSUME NEW q \in Players, NEW v \in writing'[q], v.stage # "begun",
                        v.target \notin shared'
                 PROVE  /\ v.target \in DOMAIN tmp'
                        /\ v.stage = "open" => open'[q] = "tmp" /\ tmp'[v.target] = {}
                        /\ v.stage = "written" => tmp'[v.target] = {v.value}
      BY DEF Clean
    <2>1. CASE q = p
      BY <1>2, <1>4, <1>5, <2>1
    <2>2. CASE q # p
      <3>1. v \in writing[q] /\ v.target # t /\ v.target \notin shared /\ open'[q] = open[q]
        BY <1>2, <1>4, <1>6, <1>7, <2>2
      <3>2. /\ v.target \in DOMAIN tmp
            /\ v.stage = "open" => open[q] = "tmp" /\ tmp[v.target] = {}
            /\ v.stage = "written" => tmp[v.target] = {v.value}
        BY <3>1 DEF HoldInv, Clean
      <3>3. v.target \in DOMAIN tmp' /\ tmp'[v.target] = tmp[v.target]
        BY <1>5, <3>1, <3>2
      <3> QED BY <3>1, <3>2, <3>3
    <2> QED BY <2>1, <2>2
  <1>11. Both'
    <2> SUFFICES ASSUME NEW a \in Players, NEW b \in Players, a # b,
                        NEW v \in writing'[a], NEW x \in writing'[b],
                        v.stage # "begun", x.stage # "begun", v.target = x.target
                 PROVE  v.target \in shared'
      BY DEF Both
    <2>1. CASE a = p
      BY <1>2, <1>7, <2>1
    <2>2. CASE b = p
      BY <1>2, <1>7, <2>2
    <2>3. CASE a # p /\ b # p
      BY <1>2, <1>6, <2>3 DEF HoldInv, Both
    <2> QED BY <2>1, <2>2, <2>3
  <1> QED BY <1>8, <1>9, <1>10, <1>11 DEF HoldInv

\* With no other session at its target, only the temporary is written, and whole.
LEMMA WriteClean ==
  ASSUME Inv, OpenInv, HoldInv, NEW p \in Players, NEW w \in writing[p], w.stage = "open",
         w.target \notin shared
  PROVE  open[p] = "tmp" /\ w.target \in DOMAIN tmp /\ tmp[w.target] = {}
  BY DEF HoldInv, Clean

LEMMA WriteTemporaryHolds ==
  ASSUME Inv, OpenInv, HoldInv, NEW p \in Players, WriteTemporary(p)
  PROVE  OpenInv' /\ HoldInv'
  <1> DEFINE Over(w, tail, old) == {w.value} \cup IF tail /\ w.target # Main THEN old ELSE {}
  <1>1. PICK w \in writing[p], tail \in BOOLEAN :
           /\ w.stage = "open" /\ shared' = shared
           /\ tmp' = IF open[p] # "tmp" THEN tmp
                     ELSE With(tmp, w.target, Over(w, tail, tmp[w.target]))
           /\ files' = IF open[p] # "file" THEN files
                       ELSE With(files, w.target, Over(w, tail, files[w.target]))
           /\ open' = [open EXCEPT ![p] = "none"]
           /\ writing' = [writing EXCEPT ![p] = {[w EXCEPT !.stage = "written"]}]
    BY DEF WriteTemporary
  <1> DEFINE t == w.target
  <1>2. /\ \A x \in writing'[p] : x.target = t /\ x.value = w.value /\ x.stage = "written"
        /\ \A q \in Players : q # p => writing'[q] = writing[q]
    BY <1>1, StageIs
  <1>3. open \in [Players -> {"none", "tmp", "file", "gone"}] /\ shared \subseteq Targets
    BY DEF OpenInv
  <1>4. /\ open' \in [Players -> {"none", "tmp", "file", "gone"}] /\ open'[p] = "none"
        /\ \A q \in Players : q # p => open'[q] = open[q]
    BY <1>1, <1>3
  <1>5. /\ open[p] = "tmp" => t \in DOMAIN tmp
        /\ open[p] = "file" => t \in DOMAIN files
    BY <1>1 DEF OpenInv
  <1>6. /\ DOMAIN tmp' = DOMAIN tmp /\ DOMAIN files' = DOMAIN files
        /\ \A f \in DOMAIN tmp \ {t} : tmp'[f] = tmp[f]
        /\ \A f \in DOMAIN files \ {t} : files'[f] = files[f]
    BY <1>1, <1>5 DEF With
  <1>7. t \notin shared => files' = files /\ t \in DOMAIN tmp /\ tmp'[t] = {w.value}
    <2> SUFFICES ASSUME t \notin shared
                 PROVE  files' = files /\ t \in DOMAIN tmp /\ tmp'[t] = {w.value}
      OBVIOUS
    <2>1. open[p] = "tmp" /\ t \in DOMAIN tmp /\ tmp[t] = {}
      BY <1>1, WriteClean
    <2>2. tmp'[t] = Over(w, tail, tmp[t])
      BY <1>1, <2>1 DEF With
    <2> QED BY <1>1, <2>1, <2>2
  <1>8. ASSUME NEW q \in Players, q # p, NEW v \in writing[q], v.stage # "begun", v.target = t
        PROVE  t \in shared
    BY <1>1, <1>8 DEF HoldInv, Both
  <1> HIDE DEF t, Over
  <1>9. OpenInv'
    <2>1. ASSUME NEW q \in Players, NEW v \in writing'[q], v.stage = "open"
          PROVE  /\ open'[q] = "tmp" => v.target \in DOMAIN tmp'
                 /\ open'[q] = "file" => v.target \in DOMAIN files'
      BY <1>2, <1>4, <1>6, <2>1 DEF OpenInv
    <2> QED BY <1>1, <1>3, <1>4, <2>1 DEF OpenInv
  <1>10. Whole'
    <2> SUFFICES ASSUME NEW f \in DOMAIN files' PROVE ReadableIn(files', f) \/ f \in shared'
      BY DEF Whole
    <2>1. f \in DOMAIN files /\ ((f = t /\ f \in shared) \/ files'[f] = files[f])
      BY <1>6, <1>7
    <2> QED BY <1>1, <2>1 DEF HoldInv, Whole, ReadableIn
  <1>11. Clean'
    <2> SUFFICES ASSUME NEW q \in Players, NEW v \in writing'[q], v.stage # "begun",
                        v.target \notin shared'
                 PROVE  /\ v.target \in DOMAIN tmp'
                        /\ v.stage = "open" => open'[q] = "tmp" /\ tmp'[v.target] = {}
                        /\ v.stage = "written" => tmp'[v.target] = {v.value}
      BY DEF Clean
    <2>1. CASE q = p
      BY <1>1, <1>2, <1>6, <1>7, <2>1
    <2>2. CASE q # p
      <3>1. v \in writing[q] /\ v.target # t /\ v.target \notin shared /\ open'[q] = open[q]
        BY <1>1, <1>2, <1>4, <1>8, <2>2
      <3>2. /\ v.target \in DOMAIN tmp
            /\ v.stage = "open" => open[q] = "tmp" /\ tmp[v.target] = {}
            /\ v.stage = "written" => tmp[v.target] = {v.value}
        BY <3>1 DEF HoldInv, Clean
      <3>3. v.target \in DOMAIN tmp' /\ tmp'[v.target] = tmp[v.target]
        BY <1>6, <3>1, <3>2
      <3> QED BY <3>1, <3>2, <3>3
    <2> QED BY <2>1, <2>2
  <1>12. Both'
    <2> SUFFICES ASSUME NEW a \in Players, NEW b \in Players, a # b,
                        NEW v \in writing'[a], NEW x \in writing'[b],
                        v.stage # "begun", x.stage # "begun", v.target = x.target
                 PROVE  v.target \in shared'
      BY DEF Both
    <2>1. CASE a = p
      BY <1>1, <1>2, <1>8, <2>1
    <2>2. CASE b = p
      BY <1>1, <1>2, <1>8, <2>2
    <2>3. CASE a # p /\ b # p
      BY <1>1, <1>2, <2>3 DEF HoldInv, Both
    <2> QED BY <2>1, <2>2, <2>3
  <1> QED BY <1>9, <1>10, <1>11, <1>12 DEF HoldInv

LEMMA ReplaceHolds ==
  ASSUME Inv, OpenInv, HoldInv, NEW p \in Players, Replace(p)
  PROVE  OpenInv' /\ HoldInv'
  <1>1. PICK w \in writing[p] :
           /\ w.stage = "written"
           /\ IF w.target \in DOMAIN tmp
              THEN /\ files' = With(files, w.target, tmp[w.target])
                   /\ tmp' = Without(tmp, w.target)
                   /\ open' = [q \in Players |-> IF Opens(q, w.target) THEN Carried(open[q])
                                                 ELSE open[q]]
                   /\ writing' = [writing EXCEPT ![p] = {}] /\ shared' = shared
              ELSE Closed(p) /\ UNCHANGED <<disk, library>>
    BY Zenon DEF Replace
  <1>2. CASE w.target \notin DOMAIN tmp
    <2>1. Quiet(p)
      BY <1>1, <1>2 DEF Quiet, Closed, disk
    <2> QED BY <2>1, QuietHolds
  <1>3. CASE w.target \in DOMAIN tmp
    <2> DEFINE t == w.target
    <2>1. /\ files' = With(files, t, tmp[t]) /\ tmp' = Without(tmp, t)
          /\ open' = [q \in Players |-> IF Opens(q, t) THEN Carried(open[q]) ELSE open[q]]
          /\ writing' = [writing EXCEPT ![p] = {}] /\ shared' = shared
      BY <1>1, <1>3
    <2>2. /\ DOMAIN files' = DOMAIN files \cup {t} /\ files'[t] = tmp[t]
          /\ \A f \in DOMAIN files \ {t} : files'[f] = files[f]
          /\ DOMAIN tmp' = DOMAIN tmp \ {t} /\ \A f \in DOMAIN tmp \ {t} : tmp'[f] = tmp[f]
      BY <2>1 DEF With, Without
    <2>3. writing'[p] = {} /\ \A q \in Players : q # p => writing'[q] = writing[q]
      BY <2>1 DEF Inv, TypeInv
    <2>4. t \notin shared => tmp[t] = {w.value}
      BY <1>1 DEF HoldInv, Clean
    <2>5. ASSUME NEW q \in Players, q # p, NEW v \in writing[q], v.stage # "begun", v.target = t
          PROVE  t \in shared
      BY <1>1, <2>5 DEF HoldInv, Both
    <2>6. ASSUME NEW q \in Players, NEW v \in writing[q], v.target # t
          PROVE  open'[q] = open[q]
      <3>1. writing[q] = {v}
        BY WriteIs
      <3> QED BY <2>1, <2>6, <3>1 DEF Opens
    <2>7. ASSUME NEW q \in Players, NEW v \in writing[q], v.target = t, v.stage = "open"
          PROVE  open'[q] \in {"file", "gone"}
      BY <2>1, <2>7 DEF Opens, Carried
    <2>8. open' \in [Players -> {"none", "tmp", "file", "gone"}] /\ shared \subseteq Targets
      BY <2>1 DEF Carried, OpenInv
    <2> HIDE DEF t
    <2>9. OpenInv'
      <3>1. ASSUME NEW q \in Players, NEW v \in writing'[q], v.stage = "open"
            PROVE  /\ open'[q] = "tmp" => v.target \in DOMAIN tmp'
                   /\ open'[q] = "file" => v.target \in DOMAIN files'
        <4>1. v \in writing[q]
          BY <2>3, <3>1
        <4>2. CASE v.target = t
          BY <2>2, <2>7, <3>1, <4>1, <4>2
        <4>3. CASE v.target # t
          BY <2>2, <2>6, <3>1, <4>1, <4>3 DEF OpenInv
        <4> QED BY <4>2, <4>3
      <3> QED BY <2>1, <2>8, <3>1 DEF OpenInv
    <2>10. Whole'
      <3> SUFFICES ASSUME NEW f \in DOMAIN files' PROVE ReadableIn(files', f) \/ f \in shared'
        BY DEF Whole
      <3>1. CASE f = t
        BY <2>1, <2>2, <2>4, <3>1 DEF ReadableIn
      <3>2. CASE f # t
        BY <2>1, <2>2, <3>2 DEF HoldInv, Whole, ReadableIn
      <3> QED BY <3>1, <3>2
    <2>11. Clean'
      <3> SUFFICES ASSUME NEW q \in Players, NEW v \in writing'[q], v.stage # "begun",
                          v.target \notin shared'
                   PROVE  /\ v.target \in DOMAIN tmp'
                          /\ v.stage = "open" => open'[q] = "tmp" /\ tmp'[v.target] = {}
                          /\ v.stage = "written" => tmp'[v.target] = {v.value}
        BY DEF Clean
      <3>1. q # p /\ v \in writing[q] /\ v.target \notin shared
        BY <2>1, <2>3
      <3>2. v.target # t
        BY <2>5, <3>1
      <3>3. /\ v.target \in DOMAIN tmp
            /\ v.stage = "open" => open[q] = "tmp" /\ tmp[v.target] = {}
            /\ v.stage = "written" => tmp[v.target] = {v.value}
        BY <3>1 DEF HoldInv, Clean
      <3>4. v.target \in DOMAIN tmp' /\ tmp'[v.target] = tmp[v.target] /\ open'[q] = open[q]
        BY <2>2, <2>6, <3>1, <3>2, <3>3
      <3> QED BY <3>3, <3>4
    <2>12. Both'
      BY <2>1, <2>3 DEF HoldInv, Both
    <2> QED BY <2>9, <2>10, <2>11, <2>12 DEF HoldInv
  <1> QED BY <1>2, <1>3

LEMMA HoldNext ==
  ASSUME Inv, OpenInv, HoldInv, [Next]_vars
  PROVE  OpenInv' /\ HoldInv'
  <1>1. CASE Rebuild \/ UNCHANGED vars
    <2>1. /\ files' = files /\ tmp' = tmp /\ shared' = shared /\ open' = open
          /\ writing' = writing
      BY <1>1 DEF Rebuild, vars, disk
    <2> QED BY <2>1 DEF OpenInv, HoldInv, Whole, Clean, Both
  <1>2. ASSUME NEW p \in Players,
               Starting(p) \/ Playing(p) \/ Saving(p) \/ Close(p) \/ Crash(p)
        PROVE  OpenInv' /\ HoldInv'
    <2>1. CASE OpenTemporary(p)
      BY <2>1, OpenTemporaryHolds
    <2>2. CASE WriteTemporary(p)
      BY <2>2, WriteTemporaryHolds
    <2>3. CASE Replace(p)
      BY <2>3, ReplaceHolds
    <2>4. CASE ~(OpenTemporary(p) \/ WriteTemporary(p) \/ Replace(p))
      BY <1>2, <2>4, QuietSteps, QuietHolds
    <2> QED BY <2>1, <2>2, <2>3, <2>4
  <1> QED BY <1>1, <1>2 DEF Next

IInv == Inv /\ OpenInv /\ HoldInv

\* However many sessions share the directory and wherever their processes die,
\* the bytes of every file come from records whose parents are on disk, each
\* session's parent and journal are what its machine has run under, and a file
\* that cannot be read is one whose temporary two sessions held at once.
THEOREM SessionInv == Spec => []IInv
  <1>1. Init => OpenInv /\ HoldInv
    BY DEF Init, OpenInv, HoldInv, Whole, Clean, Both
  <1>2. Init => IInv
    BY <1>1, Initial DEF IInv
  <1>3. IInv /\ [Next]_vars => IInv'
    BY Preserved, HoldNext DEF IInv
  <1> QED BY <1>2, <1>3, PTL DEF Spec

----------------------------------------------------------------------------
\* What follows for any number of sessions.

LEMMA TypeHolds == ASSUME IInv PROVE TypeOK
  <1>1. ASSUME NEW f \in DOMAIN files \cup DOMAIN tmp \cup shared PROVE f.kind \in Kinds
    <2>1. f \in Targets
      BY DEF IInv, OpenInv, Inv, DiskInv, FilesOk
    <2> QED BY <2>1, TargetsAre
  <1>2. ASSUME NEW p \in Players
        PROVE  /\ todo[p] \in Seq(Ops) /\ Cardinality(writing[p]) <= 1
               /\ \A w \in writing[p] : w.stage \in {"begun", "open", "written"}
               /\ open[p] \in {"none", "tmp", "file", "gone"}
               /\ machine[p].by \in 1..MaxBuild /\ machine[p].inputs \in Seq(Masks)
               /\ run[p].frame \in 0..MaxFrames /\ run[p].buttons \in Masks
               /\ events[p] \in Seq(Event)
    <2>1. Inv /\ Writing(todo[p], writing[p], run[p], node[p], Here)
      BY Player DEF LocalOf, Local, IInv
    <2>2. writing[p] = {} \/ \E x : writing[p] = {x} /\ x.stage \in Stages
      BY <2>1 DEF Writing, WriteOk
    <2>3. Cardinality(writing[p]) \in {0, 1}
      BY <2>2, FS_EmptySet, FS_Singleton
    <2>4. Cardinality(writing[p]) <= 1
      BY <2>3
    <2>5. \A w \in writing[p] : w.stage \in {"begun", "open", "written"}
      BY <2>2 DEF Stages
    <2> QED BY <2>1, <2>4, <2>5, Player DEF IInv, OpenInv
  <1>3. library \in 1..MaxBuild
    BY DEF IInv, Inv, TypeInv
  <1> QED BY <1>1, <1>2, <1>3 DEF TypeOK

\* Targets, operations, stages, frames and masks stay what the program can make
\* them.
THEOREM SessionTypeOK == Spec => []TypeOK
  <1>1. IInv => TypeOK
    BY TypeHolds
  <1> QED BY <1>1, SessionInv, PTL

LEMMA DamageHolds == ASSUME IInv PROVE DamageConfined
  <1>1. Inv /\ Whole
    BY DEF IInv, HoldInv
  <1>2. \A f \in DOMAIN files : Readable(f) \/ f \in shared
    BY <1>1, NodesAre DEF Whole
  <1>3. \A id \in DOMAIN Nodes : Resolves(Nodes, Nodes[id].parent) => Resolves(Nodes, id)
    BY <1>1, Disk, Validates
  <1>4. MainId \in NodeIds \cup {RootId}
    <2>1. CASE Readable(Main)
      <3>1. FilesOk(files, Here) /\ ReadableIn(files, Main)
        BY <1>1, <2>1, NodesAre DEF Inv, DiskInv
      <3>2. FileOk(Main, Content(Main), Here)
        BY <3>1, ReadableIs DEF Content
      <3> QED BY <2>1, <3>2 DEF FileOk, MainId, Here
    <2>2. CASE ~Readable(Main)
      BY <2>2 DEF MainId
    <2> QED BY <2>1, <2>2
  <1> QED BY <1>2, <1>3, <1>4 DEF DamageConfined

\* write_json with temporaries shared by name: whatever the sessions truncate,
\* overwrite or move from under each other, and wherever they die, only a file
\* two of them held at once can be unreadable, every other node resolves as soon
\* as its parent does, and main names a node that was written.
THEOREM DamageAlwaysConfined == Spec => []DamageConfined
  <1>1. IInv => DamageConfined
    BY DamageHolds
  <1> QED BY <1>1, SessionInv, PTL

LEMMA JournalHolds == ASSUME IInv PROVE JournalExact
  <1> SUFFICES ASSUME NEW p \in Players, Doing(p, "play"), Resolves(Nodes, parent[p])
               PROVE  machine[p].inputs
                        = Held(Flatten(Nodes, parent[p]) \o events[p], run[p].frame)
    BY DEF JournalExact
  <1>1. Inv
    BY DEF IInv
  <1>2. Op(todo[p]) \in Keeping
    BY <1>1, DoingIs DEF Keeping
  <1>3. machine[p] = [by |-> run[p].native,
                      inputs |-> Held(parent[p].inputs \o events[p], run[p].frame)]
    BY <1>1, <1>2, KeepingFacts
  <1>4. Flatten(Nodes, parent[p]) = parent[p].inputs
    BY <1>1, Resolved
  <1>5. machine[p].inputs = Held(parent[p].inputs \o events[p], run[p].frame)
    BY <1>3
  <1> QED BY <1>4, <1>5

\* Session.step: replaying the parent and then the journal holds the masks the
\* live machine ran under, however the session started and was checkpointed.
THEOREM JournalAlwaysExact == Spec => []JournalExact
  <1>1. IInv => JournalExact
    BY JournalHolds
  <1> QED BY <1>1, SessionInv, PTL

LEMMA ColdStep ==
  ASSUME Inv, NEW p \in Players, RestoreCache(p)
  PROVE  machine'[p] = [by |-> run[p].native, inputs |-> Inputs(parent[p])]
  <1>1. /\ Resolves(Nodes, parent[p])
        /\ machine' = [machine EXCEPT ![p] = Content(Cached(p)).state]
    BY DEF RestoreCache, CacheFits
  <1>2. machine'[p] = EndMachine(run[p].native, parent[p])
    BY <1>1, Restored DEF Inv, TypeInv
  <1>3. Inputs(parent[p]) = Held(parent[p].inputs, parent[p].end)
    BY <1>1, Resolved
  <1> QED BY <1>2, <1>3 DEF EndMachine

\* The execution cache: a restored machine is the one the native build the
\* session was identified by would reach by running the whole path cold, for any
\* sessions that write caches, torn ones included.
THEOREM RestoresAsCold == Spec => ContinuesAsCold
  <1>1. IInv /\ [Next]_vars => [\A p \in Players : RestoreCache(p) =>
          machine'[p] = [by |-> run[p].native, inputs |-> Inputs(parent[p])]]_vars
    BY ColdStep DEF IInv
  <1> QED BY <1>1, SessionInv, PTL DEF Spec, ContinuesAsCold

\* When no node's temporary was shared, every node on disk can be read, and its
\* parent, so all of them resolve.
LEMMA AllResolve ==
  ASSUME Inv, Whole, NodesApart, NEW id \in Here
  PROVE  id \in Ids(Nodes) /\ Resolves(Nodes, id)
  <1>1. /\ Fits(Nodes) /\ DOMAIN Nodes \subseteq NodeIds
        /\ \A i \in DOMAIN Nodes : Nodes[i].parent \in Here
    BY Disk
  <1>2. FilesOk(files, Here) /\ NodeIds = StoredIn(files) /\ Nodes = NodesIn(files)
    BY NodesAre DEF Inv, DiskInv
  <1>3. ASSUME NEW i \in NodeIds PROVE i \in DOMAIN Nodes
    <2>1. NodeFile(i) \in DOMAIN files
      BY <1>2, StoredIs
    <2>2. ReadableIn(files, NodeFile(i))
      BY <2>1, TargetKinds DEF Whole, NodesApart
    <2> QED BY <1>2, <2>2, NodesFit
  <1>4. Ids(Nodes) = Here
    BY <1>1, <1>3 DEF Ids, Here
  <1>5. Sound(Nodes)
    BY <1>1, <1>4 DEF Sound
  <1> QED BY <1>4, <1>5, AncestryHolds

LEMMA LossNever ==
  ASSUME Inv, Whole, NodesApart
  PROVE  NothingPlayedIsLost
  <1> SUFFICES ASSUME NEW p \in Players, Doing(p, "close")
               PROVE  \E id \in Ids(Nodes) :
                         Resolves(Nodes, id) /\ Inputs(id) = machine[p].inputs
    BY DEF NothingPlayedIsLost
  <1>1. Op(todo[p]) = "close" /\ Stored(todo[p], machine[p], parent[p], node[p], Here)
    BY DoingIs, Player DEF LocalOf, Local
  <1>2. PICK id \in Here : machine[p].inputs = Held(id.inputs, id.end)
    BY <1>1 DEF Stored
  <1>3. id \in Ids(Nodes) /\ Resolves(Nodes, id)
    BY AllResolve
  <1>4. Inputs(id) = Held(id.inputs, id.end)
    BY <1>3, Resolved
  <1> QED BY <1>2, <1>3, <1>4

\* __exit__ and preserve_failure: a session that ends by itself, cleanly or on a
\* fault, leaves a node whose replay is every frame it completed, whatever the
\* others did meanwhile, as long as no two held one node's temporary at once.
THEOREM NothingIsLost == Spec => []LostOnlyIfShared
  <1>1. IInv => LostOnlyIfShared
    BY LossNever DEF IInv, HoldInv, LostOnlyIfShared
  <1> QED BY <1>1, SessionInv, PTL

----------------------------------------------------------------------------
\* One session in the directory: no temporary is shared, and the node it writes
\* is not there before.

Alone == \A p, q \in Players : p = q
Fresh == \A p \in Players :
            Op(todo[p]) = "append" /\ writing[p] # {} => node[p] \notin NodeIds
Undisturbed == shared = {} /\ Fresh
AloneInv == IInv /\ Undisturbed

LEMMA HistoryHolds ==
  ASSUME IInv, shared = {}
  PROVE  HistoryValid
  <1>1. Inv /\ Whole /\ NodesApart
    BY DEF IInv, HoldInv, NodesApart
  <1>2. \A id \in Here : Resolves(Nodes, id)
    BY <1>1, AllResolve
  <1>3. \A id \in NodeIds : Resolves(Nodes, id)
    BY <1>2 DEF Here
  <1>4. Main \in DOMAIN files => Readable(Main) /\ Resolves(Nodes, Content(Main))
    <2> SUFFICES ASSUME Main \in DOMAIN files
                 PROVE  Readable(Main) /\ Resolves(Nodes, Content(Main))
      OBVIOUS
    <2>1. Readable(Main) /\ MainId = Content(Main)
      BY <1>1, NodesAre DEF Whole, MainId
    <2>2. MainId \in Here
      BY DamageHolds DEF DamageConfined, Here
    <2> QED BY <1>2, <2>1, <2>2
  <1> QED BY <1>3, <1>4 DEF HistoryValid

LEMMA RefusalsNever ==
  ASSUME IInv, shared = {}
  PROVE  NeverRefused
  <1>0. Inv /\ Whole /\ NodesApart
    BY DEF IInv, HoldInv, NodesApart
  <1>1. \A id \in Here : Resolves(Nodes, id)
    BY <1>0, AllResolve
  <1> SUFFICES ASSUME NEW p \in Players
               PROVE  /\ Doing(p, "append") \/ Doing(p, "preserve") => Resolves(Nodes, parent[p])
                      /\ Doing(p, "append") /\ ~Unmoved(p) =>
                            /\ Acceptable(p)
                            /\ Known(Derived(p)) => Resolves(Nodes, Derived(p))
                      /\ Doing(p, "present") \/ Doing(p, "cache") \/ Doing(p, "main") =>
                            Resolves(Nodes, node[p])
                      /\ Doing(p, "present") /\ Presentation(node[p]) \in DOMAIN files =>
                            Readable(Presentation(node[p]))
                      /\ Doing(p, "cache") =>
                            /\ Node(Nodes, node[p]).end_frame = run[p].frame
                            /\ Node(Nodes, node[p]).buttons = run[p].buttons
    BY Zenon DEF NeverRefused
  <1>2. Doing(p, "append") \/ Doing(p, "preserve") => Resolves(Nodes, parent[p])
    <2>1. ASSUME NEW op, Doing(p, op), op \in {"append", "preserve"} PROVE parent[p] \in Here
      <3>1. Op(todo[p]) # "closed"
        BY <1>0, <2>1, DoingIs
      <3> QED BY <1>0, <3>1, Player DEF LocalOf, Local, Stored
    <2> QED BY <1>1, <2>1
  <1>3. ASSUME Doing(p, "append"), ~Unmoved(p)
        PROVE  Acceptable(p) /\ (Known(Derived(p)) => Resolves(Nodes, Derived(p)))
    <2>1. Acceptable(p)
      BY <1>0, <1>2, <1>3, AppendFacts
    <2> QED BY <1>1, <2>1 DEF Known, Here
  <1>4. ASSUME NEW op, Doing(p, op), op \in Saved PROVE Resolves(Nodes, node[p])
    <2>1. node[p] \in Here
      BY <1>0, <1>4, DoingIs, SavedFacts
    <2> QED BY <1>1, <2>1
  <1>5. Doing(p, "present") \/ Doing(p, "cache") \/ Doing(p, "main") => Resolves(Nodes, node[p])
    BY <1>4 DEF Saved
  <1>6. \A f \in DOMAIN files : Readable(f)
    BY <1>0, NodesAre DEF Whole
  <1>7. ASSUME Doing(p, "cache")
        PROVE  /\ Node(Nodes, node[p]).end_frame = run[p].frame
               /\ Node(Nodes, node[p]).buttons = run[p].buttons
    <2>1. Op(todo[p]) = "cache" /\ Exact(todo[p]) /\ Op(todo[p]) \in Saved
      BY <1>0, <1>7, DoingIs DEF Saved
    <2>2. run[p] = EndRun(run[p].native, node[p]) /\ node[p].end = run[p].frame
      BY <1>0, <2>1, SavedFacts
    <2>3. run[p].buttons = ButtonsOf(node[p].inputs)
      BY <2>2 DEF EndRun
    <2>4. Records(node[p], Node(Nodes, node[p]))
      BY <1>0, <1>5, <1>7, Resolved
    <2> QED BY <2>2, <2>3, <2>4 DEF Records
  <1> QED BY <1>2, <1>3, <1>5, <1>6, <1>7

\* A session is at the writing of its node only from AppendNew on.
LEMMA AtNode ==
  ASSUME Inv, NEW p \in Players, Starting(p) \/ Playing(p) \/ Saving(p) \/ Close(p) \/ Crash(p),
         ~Replace(p), Op(todo'[p]) = "append", writing'[p] # {}
  PROVE  AppendNew(p) \/ (todo' = todo /\ node' = node /\ writing[p] # {})
  <1> USE DEF disk, live
  <1>1. DOMAIN writing = Players /\ DOMAIN todo = Players
    BY DEF Inv, TypeInv
  <1>2. ~Closed(p)
    BY <1>1 DEF Closed
  <1>3. \A op : Doing(p, op) => writing[p] = {} /\ Op(todo[p]) = op
    BY DoingIs
  <1>4. CASE Starting(p)
    <2>1. CASE \E id \in Ids(Nodes) : Open(p, id)
      <3>1. todo[p] = <<>> /\ writing' = writing
        BY <2>1 DEF Open
      <3>2. writing[p] = {}
        BY <3>1, Player, PlansGiven DEF LocalOf, Local, Writing, Writers
      <3> QED BY <3>1, <3>2
    <2>2. CASE Identify(p) \/ RestoreCache(p) \/ StartCold(p) \/ Replay(p)
      BY <1>2, <1>3, <2>2 DEF Identify, RestoreCache, StartCold, Replay
    <2> QED BY <1>4, <2>1, <2>2 DEF Starting
  <1>5. CASE Playing(p)
    BY <1>3, <1>5 DEF Playing, Step, HostFails, Checkpoint, Exit
  <1>6. CASE Saving(p)
    <2>1. CASE Preserve(p) \/ AppendKnown(p) \/ Adopt(p)
      BY <1>3, <2>1 DEF Preserve, AppendKnown, Adopt
    <2>2. CASE Present(p) \/ Cache(p) \/ SetMain(p)
      BY <1>3, <2>2 DEF Present, Cache, SetMain
    <2>3. CASE OpenTemporary(p) \/ WriteTemporary(p)
      BY <2>3 DEF OpenTemporary, WriteTemporary
    <2> QED BY <1>6, <2>1, <2>2, <2>3 DEF Saving
  <1>7. CASE Close(p) \/ Crash(p)
    BY <1>2, <1>7 DEF Close, Crash
  <1> QED BY <1>4, <1>5, <1>6, <1>7

\* The directory changes only when a temporary is moved over its target.
LEMMA FilesMove ==
  ASSUME IInv, shared = {}, NEW p \in Players,
         Starting(p) \/ Playing(p) \/ Saving(p) \/ Close(p) \/ Crash(p)
  PROVE  \/ files' = files
         \/ /\ Replace(p)
            /\ \E w \in writing[p] : files' = With(files, w.target, tmp[w.target])
  <1>1. Inv /\ OpenInv /\ HoldInv
    BY DEF IInv
  <1>2. CASE Replace(p)
    <2>1. PICK w \in writing[p] :
             files' = With(files, w.target, tmp[w.target]) \/ UNCHANGED disk
      BY <1>2, Zenon DEF Replace
    <2> QED BY <1>2, <2>1 DEF disk
  <1>3. CASE WriteTemporary(p)
    <2>1. PICK w \in writing[p] : w.stage = "open" /\ (open[p] # "file" => files' = files)
      BY <1>3 DEF WriteTemporary
    <2>2. open[p] = "tmp"
      BY <1>1, <2>1, WriteClean
    <2> QED BY <2>1, <2>2
  <1>4. CASE OpenTemporary(p)
    BY <1>4 DEF OpenTemporary
  <1>5. CASE ~(Replace(p) \/ WriteTemporary(p) \/ OpenTemporary(p))
    BY <1>1, <1>5, QuietSteps DEF Quiet
  <1> QED BY <1>2, <1>3, <1>4, <1>5

\* After its node is moved a session goes on to present it.
LEMMA ReplaceLeaves ==
  ASSUME Inv, NEW p \in Players, Replace(p)
  PROVE  writing'[p] = {}
  BY DEF Replace, Closed, Inv, TypeInv

LEMMA AloneStays ==
  ASSUME Alone, AloneInv, [Next]_vars
  PROVE  Undisturbed'
  <1> USE DEF Undisturbed
  <1>0. NodeIds = StoredIn(files) /\ NodeIds' = StoredIn(files')
    BY NodesAre
  <1>1. Inv /\ OpenInv /\ HoldInv
    BY DEF AloneInv, IInv
  <1>2. CASE Rebuild \/ UNCHANGED vars
    <2>1. /\ files' = files /\ todo' = todo /\ node' = node /\ writing' = writing
          /\ shared' = shared
      BY <1>2 DEF Rebuild, vars, disk, live
    <2> QED BY <1>0, <2>1 DEF AloneInv, Fresh
  <1>3. ASSUME NEW p \in Players, Starting(p) \/ Playing(p) \/ Saving(p) \/ Close(p) \/ Crash(p)
        PROVE  Undisturbed'
    <2>1. shared' = {}
      <3>1. CASE OpenTemporary(p)
        <4>1. PICK w \in writing[p] : shared' = SharedNow(p, w.target)
          BY <3>1 DEF OpenTemporary
        <4>2. Players \ {p} = {}
          BY DEF Alone
        <4> QED BY <4>1, <4>2 DEF SharedNow, AloneInv
      <3>2. CASE WriteTemporary(p) \/ Replace(p)
        BY <3>2, Zenon DEF WriteTemporary, Replace, AloneInv, disk
      <3>3. CASE ~(OpenTemporary(p) \/ WriteTemporary(p) \/ Replace(p))
        BY <1>1, <1>3, <3>3, QuietSteps DEF Quiet, AloneInv
      <3> QED BY <3>1, <3>2, <3>3
    <2>2. ASSUME NEW q \in Players, Op(todo'[q]) = "append", writing'[q] # {}
          PROVE  node'[q] \notin NodeIds'
      <3>1. q = p
        BY DEF Alone
      <3>2. ~Replace(p)
        BY <1>1, <2>2, <3>1, ReplaceLeaves
      <3>3. NodeIds' = NodeIds
        BY <1>0, <1>3, <3>2, FilesMove DEF AloneInv
      <3>4. CASE AppendNew(p)
        BY <1>1, <3>1, <3>3, <3>4 DEF AppendNew, Known, Inv, TypeInv
      <3>5. CASE todo' = todo /\ node' = node /\ writing[p] # {}
        BY <2>2, <3>1, <3>3, <3>5 DEF AloneInv, Fresh
      <3> QED BY <1>1, <1>3, <2>2, <3>1, <3>2, <3>4, <3>5, AtNode
    <2> QED BY <2>1, <2>2 DEF Fresh
  <1> QED BY <1>2, <1>3 DEF Next

LEMMA AloneHolds == ASSUME Alone PROVE Spec => []AloneInv
  <1>1. Init => Undisturbed
    BY DEF Init, Fresh, Undisturbed
  <1>2. AloneInv /\ [Next]_vars => Undisturbed'
    BY AloneStays
  <1> QED BY <1>1, <1>2, SessionInv, PTL DEF Spec, AloneInv

\* append, write_json and the crash of the process, for one session at a time in
\* the directory: every node file validates down to the root at every instant,
\* and main names one that does.
THEOREM HistoryAlwaysValid == ASSUME Alone PROVE Spec => []HistoryValid
  <1>1. AloneInv => HistoryValid
    BY HistoryHolds DEF AloneInv, Undisturbed
  <1> QED BY <1>1, AloneHolds, PTL

\* checkpoint and preserve_failure, for one session at a time in the directory:
\* no operation of either is refused by the store or the cache, whatever was
\* played before and by however many sessions in turn.
THEOREM NothingRefused == ASSUME Alone PROVE Spec => []NeverRefused
  <1>1. AloneInv => NeverRefused
    BY RefusalsNever DEF AloneInv, Undisturbed
  <1> QED BY <1>1, AloneHolds, PTL

\* __exit__ and preserve_failure, for one session at a time in the directory: a
\* session that ends by itself leaves a node whose replay is every frame it
\* completed.
THEOREM NothingLostAlone == ASSUME Alone PROVE Spec => []NothingPlayedIsLost
  <1>1. AloneInv => NothingPlayedIsLost
    BY LossNever DEF AloneInv, Undisturbed, IInv, HoldInv, NodesApart
  <1> QED BY <1>1, AloneHolds, PTL

LEMMA NodesStay ==
  ASSUME AloneInv, [Next]_vars
  PROVE  [\A f \in OfKind("node") : f \in DOMAIN files' /\ files'[f] = files[f]]_vars
  <1>1. CASE files' = files
    BY <1>1 DEF OfKind
  <1>2. ASSUME NEW p \in Players, Replace(p), NEW w \in writing[p],
               files' = With(files, w.target, tmp[w.target]), NEW f \in OfKind("node")
        PROVE  f \in DOMAIN files' /\ files'[f] = files[f]
    <2>1. Inv /\ FilesOk(files, Here) /\ Fresh
      BY DEF AloneInv, Undisturbed, IInv, Inv, DiskInv
    <2>2. f \in DOMAIN files /\ f.kind = "node" /\ f.id \in NodeIds
      BY DEF OfKind, NodeIds
    <2>3. w.target = Target(Op(todo[p]), node[p], run[p].native) /\ writing[p] # {}
      BY <2>1, WriteIs
    <2>4. w.target # f
      <3>1. CASE Op(todo[p]) = "append"
        <4>1. w.target.id = node[p] /\ node[p] \notin NodeIds
          BY <2>1, <2>3, <3>1, TargetKinds DEF Target, Fresh
        <4> QED BY <2>2, <4>1
      <3>2. CASE Op(todo[p]) # "append"
        <4>1. \/ w.target = Presentation(node[p]) \/ w.target = CacheFile(run[p].native, node[p])
              \/ w.target = Main
          BY <2>3, <3>2 DEF Target
        <4>2. w.target.kind \in {"presentation", "cache", "main"}
          BY <4>1, TargetKinds
        <4> QED BY <2>2, <4>2
      <3> QED BY <3>1, <3>2
    <2> QED BY <1>2, <2>2, <2>4 DEF With
  <1>3. CASE Rebuild \/ UNCHANGED vars
    BY <1>1, <1>3 DEF Rebuild, vars, disk
  <1>4. ASSUME NEW p \in Players, Starting(p) \/ Playing(p) \/ Saving(p) \/ Close(p) \/ Crash(p),
               files' # files
        PROVE  \A f \in OfKind("node") : f \in DOMAIN files' /\ files'[f] = files[f]
    <2>1. Replace(p) /\ \E w \in writing[p] : files' = With(files, w.target, tmp[w.target])
      BY <1>4, FilesMove DEF AloneInv, Undisturbed
    <2> QED BY <1>2, <2>1
  <1> QED BY <1>1, <1>3, <1>4 DEF Next

\* "nodes are never edited" (history-and-replay.md:15), for one session at a time
\* in the directory: the node append writes is one that target.exists() did not
\* find, and nothing is written into a file that has been moved.
THEOREM NeverEdited == ASSUME Alone PROVE Spec => NodesNeverEdited
  <1>1. AloneInv /\ [Next]_vars =>
          [\A f \in OfKind("node") : f \in DOMAIN files' /\ files'[f] = files[f]]_vars
    BY NodesStay
  <1> QED BY <1>1, AloneHolds, PTL DEF Spec, NodesNeverEdited
====
