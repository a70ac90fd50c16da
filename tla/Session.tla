---- MODULE Session ----
(***************************************************************************)
(* Live sessions over one history store (history_runtime.Session): a cold  *)
(* or cached start, journaled play, checkpoints, the preservation of a     *)
(* failed run and the ways a process ends.  The store is a directory: to   *)
(* write a file a temporary of its name is opened (which empties it),      *)
(* written and moved over it.  A process may die between any two of these, *)
(* and several sessions may share the directory, its temporaries included. *)
(*                                                                         *)
(* A file is the set of the records its bytes come from: one record when   *)
(* it is whole, none when it was emptied and not written, two when one     *)
(* record was written over a longer one.  Only a whole file can be read.   *)
(*                                                                         *)
(* The machine is the sequence of masks its completed frames ran under and *)
(* the native build that ran them: equal sequences under one build are     *)
(* equal states (the original is deterministic), anything else is not.     *)
(***************************************************************************)
EXTENDS HistoryStore, FiniteSets, TLC

CONSTANTS Players,      \* sessions, each a process
          HostFaults,   \* may the host's audio fail a session?
          Fails,        \* sequences of masks whose last frame faults the machine
          MaxFrames,    \* bound: frames of a session
          MaxBuild,     \* bound: native builds installed in turn
          MaxSessions   \* bound: sessions opened in all

ASSUME SessionAssumption ==
    HostFaults \in BOOLEAN /\ MaxFrames \in Nat /\ MaxBuild \in Nat \ {0}

VARIABLES files, tmp,   \* the directory: targets and their temporaries
          shared,       \* targets whose temporary two sessions held at once
          open,         \* what the file a session has open has become
          library,      \* the native build now installed
          todo,         \* what each session has still to do; <<>> when closed
          writing,      \* the file a session is writing
          machine,      \* [by, inputs]
          run,          \* GenesisRun: [frame, buttons, native]
          parent, events,   \* Session
          node,         \* the local of checkpoint and preserve_failure
          opened        \* sessions opened so far

disk == <<files, tmp, shared, open>>
vars == <<disk, library, todo, writing, machine, run, parent, events, node, opened>>

Main == [kind |-> "main"]
NodeFile(id) == [kind |-> "node", id |-> id]
Presentation(id) == [kind |-> "presentation", id |-> id]
\* Slip: caches filed by node alone.
SharedCache(native, id) == [kind |-> "cache", native |-> 0, id |-> id]
CacheFile(native, id) == [kind |-> "cache", native |-> native, id |-> id]

OfKind(kind) == {f \in DOMAIN files : f.kind = kind}
Readable(f) == f \in DOMAIN files /\ \E v \in files[f] : files[f] = {v}
Content(f) == CHOOSE v \in files[f] : TRUE
NodeIds == {f.id : f \in OfKind("node")}
Nodes == [id \in {i \in NodeIds : Readable(NodeFile(i))} |-> Content(NodeFile(id))]
MainId == IF Readable(Main) THEN Content(Main) ELSE RootId

With(f, x, value) == [y \in DOMAIN f \cup {x} |-> IF y = x THEN value ELSE f[y]]
Without(f, x) == [y \in DOMAIN f \ {x} |-> f[y]]
PowerOn(build) == [by |-> build, inputs |-> <<>>]
NewRun(build) == [frame |-> 0, buttons |-> 0, native |-> build]

Init ==
    /\ files = <<>> /\ tmp = <<>> /\ shared = {} /\ library = 1
    /\ todo = [p \in Players |-> <<>>] /\ writing = [p \in Players |-> {}]
    /\ open = [p \in Players |-> "none"]
    /\ machine = [p \in Players |-> PowerOn(1)] /\ run = [p \in Players |-> NewRun(1)]
    /\ parent = [p \in Players |-> RootId] /\ events = [p \in Players |-> <<>>]
    /\ node = [p \in Players |-> RootId] /\ opened = 0

Doing(p, op) == todo[p] # <<>> /\ Head(todo[p]) = op /\ writing[p] = {}
Then(p) == todo' = [todo EXCEPT ![p] = Tail(@)]
Closed(p) == /\ todo' = [todo EXCEPT ![p] = <<>>]
             /\ writing' = [writing EXCEPT ![p] = {}]
             /\ machine' = [machine EXCEPT ![p] = PowerOn(1)]
             /\ run' = [run EXCEPT ![p] = NewRun(1)]
             /\ parent' = [parent EXCEPT ![p] = RootId]
             /\ events' = [events EXCEPT ![p] = <<>>]
             /\ node' = [node EXCEPT ![p] = RootId]
             /\ UNCHANGED opened
live == <<machine, run, parent, events, node, opened>>
----
(* write_json, and the cache's own pack and replace.                       *)

Begin(p, target, value) ==
    writing' = [writing EXCEPT ![p] =
        {[target |-> target, value |-> value, stage |-> "begun"]}]

Holds(q, target) == \E w \in writing[q] : w.target = target /\ w.stage # "begun"
SharedNow(p, target) ==
    IF \E q \in Players \ {p} : Holds(q, target) THEN shared \cup {target} ELSE shared

\* Slip: the target itself is opened.
OpenInPlace(p) ==
    \E w \in writing[p] :
       /\ w.stage = "begun"
       /\ files' = With(files, w.target, {}) /\ tmp' = With(tmp, w.target, {})
       /\ shared' = SharedNow(p, w.target) /\ open' = [open EXCEPT ![p] = "tmp"]
       /\ writing' = [writing EXCEPT ![p] = {[w EXCEPT !.stage = "open"]}]
       /\ UNCHANGED <<library, todo, live>>
OpenTemporary(p) ==
    \E w \in writing[p] :
       /\ w.stage = "begun"
       /\ tmp' = With(tmp, w.target, {})
       /\ shared' = SharedNow(p, w.target) /\ open' = [open EXCEPT ![p] = "tmp"]
       /\ writing' = [writing EXCEPT ![p] = {[w EXCEPT !.stage = "open"]}]
       /\ UNCHANGED <<files, library, todo, live>>

\* Written from the start of the file over what another session wrote there:
\* the tail of a longer record stays.  (Main's records are of one length.)  The
\* open file may by now be the target, or have been replaced as the target.
WriteTemporary(p) ==
    \E w \in writing[p], tail \in BOOLEAN :
       LET over(old) == {w.value} \cup IF tail /\ w.target # Main THEN old ELSE {}
       IN  /\ w.stage = "open"
           /\ tmp' = IF open[p] # "tmp" THEN tmp
                     ELSE With(tmp, w.target, over(tmp[w.target]))
           /\ files' = IF open[p] # "file" THEN files
                       ELSE With(files, w.target, over(files[w.target]))
           /\ open' = [open EXCEPT ![p] = "none"]
           /\ writing' = [writing EXCEPT ![p] = {[w EXCEPT !.stage = "written"]}]
           /\ UNCHANGED <<shared, library, todo, live>>

\* Whatever the temporary now holds becomes the target, open files with it;
\* when another session has already moved it, FileNotFoundError ends this one.
Opens(q, target) == \E w \in writing[q] : w.target = target /\ w.stage = "open"
Carried(file) == IF file = "tmp" THEN "file" ELSE "gone"
Replace(p) ==
    \E w \in writing[p] :
       /\ w.stage = "written"
       /\ IF w.target \in DOMAIN tmp
          THEN /\ files' = With(files, w.target, tmp[w.target])
               /\ tmp' = Without(tmp, w.target)
               /\ open' = [q \in Players |-> IF Opens(q, w.target) THEN Carried(open[q])
                                             ELSE open[q]]
               /\ writing' = [writing EXCEPT ![p] = {}]
               /\ Then(p) /\ UNCHANGED <<shared, library, live>>
          ELSE Closed(p) /\ UNCHANGED <<disk, library>>
----
(* Session.__init__ and GenesisRun.__init__.                               *)

\* Machine(rom) loads the library; the chosen node has been resolved.
Open(p, id) ==
    /\ todo[p] = <<>> /\ Resolves(Nodes, id)
    /\ opened < MaxSessions /\ opened' = opened + 1
    /\ machine' = [machine EXCEPT ![p] = PowerOn(library)]
    /\ parent' = [parent EXCEPT ![p] = id]
    /\ todo' = [todo EXCEPT ![p] = <<"identify", "restore", "play">>]
    /\ UNCHANGED <<disk, library, writing, run, events, node>>

\* execution_receipt hashes the library file.
Identify(p) ==
    /\ Doing(p, "identify")
    /\ run' = [run EXCEPT ![p] = NewRun(library)]
    /\ Then(p)
    /\ UNCHANGED <<disk, library, writing, machine, parent, events, node, opened>>

Cached(p) == CacheFile(run[p].native, parent[p])
CacheFits(p) ==
    /\ Readable(Cached(p)) /\ Resolves(Nodes, parent[p])
    /\ LET meta == Content(Cached(p)) n == Node(Nodes, parent[p])
       IN  meta.frame = n.end_frame /\ meta.buttons = n.buttons

\* Slip: the restored frame counts the frame about to run.
AheadByOne(p) == [run[p] EXCEPT !.frame = Content(Cached(p)).frame + 1,
                                !.buttons = Content(Cached(p)).buttons]
\* Slip: the machine's pad is restored, the run's idea of it is not.
ForgetButtons(p) == [run[p] EXCEPT !.frame = Content(Cached(p)).frame]
RestoredRun(p) == [run[p] EXCEPT !.frame = Content(Cached(p)).frame,
                                 !.buttons = Content(Cached(p)).buttons]
RestoreCache(p) ==
    /\ Doing(p, "restore") /\ parent[p] # RootId /\ CacheFits(p)
    /\ machine' = [machine EXCEPT ![p] = Content(Cached(p)).state]
    /\ run' = [run EXCEPT ![p] = RestoredRun(p)]
    /\ Then(p)
    /\ UNCHANGED <<disk, library, writing, parent, events, node, opened>>

StartCold(p) ==
    /\ Doing(p, "restore") /\ parent[p] = RootId
    /\ Then(p)
    /\ UNCHANGED <<disk, library, writing, live>>

\* No usable cache: the whole path is replayed, and cached.  (What the store or
\* a cache refuses here and below raises out of the session, which is Crash;
\* NeverRefused is that it does not come to that.)
Replay(p) ==
    LET n == Node(Nodes, parent[p])
        inputs == Held(Flatten(Nodes, parent[p]), n.end_frame)
        faults == \E i \in 1..Len(inputs) : SubSeq(inputs, 1, i) \in Fails
    IN  /\ Doing(p, "restore") /\ parent[p] # RootId /\ ~CacheFits(p)
        /\ Resolves(Nodes, parent[p])
        /\ IF faults
           THEN Closed(p) /\ UNCHANGED <<disk, library>>
           ELSE /\ machine' = [machine EXCEPT ![p].inputs = inputs]
                /\ run' = [run EXCEPT ![p].frame = n.end_frame,
                                      ![p].buttons = IF inputs = <<>> THEN 0 ELSE Last(inputs)]
                /\ todo' = [todo EXCEPT ![p] = <<"cache", "play">>]
                /\ node' = [node EXCEPT ![p] = parent[p]]
                /\ UNCHANGED <<disk, library, writing, parent, events, opened>>
----
(* Session.step.                                                           *)

\* Slip: a change is looked for against the last journaled event only.
JournalSinceEvent(p, mask) ==
    IF events[p] # <<>> /\ Last(events[p]).buttons = mask THEN events[p]
    ELSE IF events[p] = <<>> /\ mask = 0 THEN events[p]
    ELSE Append(events[p], [frame |-> run[p].frame, buttons |-> mask])
Journal(p, mask) ==
    IF mask = run[p].buttons THEN events[p]
    ELSE Append(events[p], [frame |-> run[p].frame, buttons |-> mask])

Preservation == <<"append", "present", "main", "close">>

\* The journal is written before the frame runs; a fault leaves both behind.
Step(p, mask) ==
    /\ Doing(p, "play") /\ run[p].frame < MaxFrames
    /\ events' = [events EXCEPT ![p] = Journal(p, mask)]
    /\ IF Append(machine[p].inputs, mask) \in Fails
       THEN /\ run' = [run EXCEPT ![p].buttons = mask]
            /\ todo' = [todo EXCEPT ![p] = <<"preserve">>]
            /\ UNCHANGED machine
       ELSE /\ run' = [run EXCEPT ![p].frame = @ + 1, ![p].buttons = mask]
            /\ machine' = [machine EXCEPT ![p].inputs = Append(@, mask)]
            /\ UNCHANGED todo
    /\ UNCHANGED <<disk, library, writing, parent, node, opened>>

\* Another RuntimeError inside the session (the host's audio buffer is full).
HostFails(p) ==
    /\ HostFaults /\ Doing(p, "play")
    /\ todo' = [todo EXCEPT ![p] = <<"preserve">>]
    /\ UNCHANGED <<disk, library, writing, live>>
----
(* checkpoint, __exit__ and preserve_failure.                              *)

Checkpointing == <<"append", "present", "cache", "main", "adopt">>

Checkpoint(p) ==
    /\ Doing(p, "play")
    /\ todo' = [todo EXCEPT ![p] = Checkpointing \o @]
    /\ UNCHANGED <<disk, library, writing, live>>

Exit(p) ==
    /\ Doing(p, "play")
    /\ todo' = [todo EXCEPT ![p] = Checkpointing \o <<"close">>]
    /\ UNCHANGED <<disk, library, writing, live>>

\* Slip: the journal of the failing frame is kept.
AllEvents(p) == events[p]
\* The journal is in order, so those of completed frames come first.
Completed(p) ==
    LET completed == {i \in 1..Len(events[p]) : events[p][i].frame < run[p].frame}
    IN  SubSeq(events[p], 1, Cardinality(completed))

\* Slip: nothing is preserved when no input changed.
WorthEvents(p) == Completed(p) # <<>>
Worth(p) == run[p].frame > Node(Nodes, parent[p]).end_frame

Preserve(p) ==
    /\ Doing(p, "preserve") /\ Resolves(Nodes, parent[p])
    /\ IF Worth(p)
       THEN /\ events' = [events EXCEPT ![p] = Completed(p)]
            /\ todo' = [todo EXCEPT ![p] = Preservation]
       ELSE todo' = [todo EXCEPT ![p] = <<"close">>] /\ UNCHANGED events
    /\ UNCHANGED <<disk, library, writing, machine, run, parent, node, opened>>

Derived(p) == DerivedId(Node(Nodes, parent[p]), events[p], run[p].frame)
Unmoved(p) == run[p].frame = Node(Nodes, parent[p]).end_frame /\ events[p] = <<>>
Acceptable(p) == Canonical(Node(Nodes, parent[p]), events[p], run[p].frame)

\* Slip: the node is written whether or not its path is already there.
NeverKnown(id) == FALSE
Known(id) == id \in NodeIds

\* append: the same path keeps its first representation, if it can be read.
AppendKnown(p) ==
    /\ Doing(p, "append") /\ Resolves(Nodes, parent[p])
    /\ Unmoved(p) \/ (Acceptable(p) /\ Known(Derived(p)) /\ Resolves(Nodes, Derived(p)))
    /\ node' = [node EXCEPT ![p] = IF Unmoved(p) THEN parent[p] ELSE Derived(p)]
    /\ Then(p)
    /\ UNCHANGED <<disk, library, writing, machine, run, parent, events, opened>>

\* target.exists() is asked here, and acted on some steps later.
AppendNew(p) ==
    /\ Doing(p, "append") /\ Resolves(Nodes, parent[p])
    /\ ~Unmoved(p) /\ Acceptable(p) /\ ~Known(Derived(p))
    /\ node' = [node EXCEPT ![p] = Derived(p)]
    /\ Begin(p, NodeFile(Derived(p)),
          DerivedNode(parent[p], Node(Nodes, parent[p]), events[p], run[p].frame))
    /\ UNCHANGED <<disk, library, todo, machine, run, parent, events, opened>>

\* The present metadata is read first, and kept beside the new reason.
Present(p) ==
    LET target == Presentation(node[p])
    IN  /\ Doing(p, "present") /\ Resolves(Nodes, node[p])
        /\ target \in DOMAIN files => Readable(target)
        /\ Begin(p, target, [reason |-> IF Contains(todo[p], "cache") THEN "checkpoint"
                                       ELSE "execution_failure"])
        /\ UNCHANGED <<disk, library, todo, live>>

Cache(p) ==
    /\ Doing(p, "cache") /\ Resolves(Nodes, node[p])
    /\ Node(Nodes, node[p]).end_frame = run[p].frame
    /\ Node(Nodes, node[p]).buttons = run[p].buttons
    /\ Begin(p, CacheFile(run[p].native, node[p]),
          [frame |-> run[p].frame, buttons |-> run[p].buttons, state |-> machine[p]])
    /\ UNCHANGED <<disk, library, todo, live>>

SetMain(p) ==
    /\ Doing(p, "main") /\ Resolves(Nodes, node[p])
    /\ Begin(p, Main, node[p])
    /\ UNCHANGED <<disk, library, todo, live>>

\* Slip: the session goes on from whatever main names now.
AdoptMain(p) ==
    /\ Doing(p, "adopt")
    /\ parent' = [parent EXCEPT ![p] = MainId]
    /\ events' = [events EXCEPT ![p] = <<>>]
    /\ Then(p)
    /\ UNCHANGED <<disk, library, writing, machine, run, node, opened>>
Adopt(p) ==
    /\ Doing(p, "adopt")
    /\ parent' = [parent EXCEPT ![p] = node[p]]
    /\ events' = [events EXCEPT ![p] = <<>>]
    /\ Then(p)
    /\ UNCHANGED <<disk, library, writing, machine, run, node, opened>>

Close(p) == Doing(p, "close") /\ Closed(p) /\ UNCHANGED <<disk, library>>

\* The process is killed, or an exception __exit__ does not preserve ends it.
Crash(p) == /\ todo[p] # <<>> /\ Closed(p)
            /\ open' = [open EXCEPT ![p] = "none"]
            /\ UNCHANGED <<files, tmp, shared, library>>

\* A build replaces the library file; loaded copies stay as they are.  None is
\* installed between a session's loading of the library and its hashing of it.
Rebuild ==
    /\ library < MaxBuild
    /\ \A p \in Players : ~Doing(p, "identify")
    /\ library' = library + 1
    /\ UNCHANGED <<disk, todo, writing, live>>
----
Starting(p) == \/ \E id \in Ids(Nodes) : Open(p, id)
               \/ Identify(p) \/ RestoreCache(p) \/ StartCold(p) \/ Replay(p)
Playing(p) == \/ \E mask \in Masks : Step(p, mask)
              \/ HostFails(p) \/ Checkpoint(p) \/ Exit(p)
Saving(p) == \/ Preserve(p) \/ AppendKnown(p) \/ AppendNew(p) \/ Present(p)
             \/ Cache(p) \/ SetMain(p) \/ Adopt(p)
             \/ OpenTemporary(p) \/ WriteTemporary(p) \/ Replace(p)
Next == \/ \E p \in Players : Starting(p) \/ Playing(p) \/ Saving(p) \/ Close(p) \/ Crash(p)
        \/ Rebuild

Spec == Init /\ [][Next]_vars
----
Ops == {"identify", "restore", "play", "append", "present", "cache", "main", "adopt",
        "preserve", "close"}
Kinds == {"main", "node", "presentation", "cache"}

TypeOK ==
    /\ \A f \in DOMAIN files \cup DOMAIN tmp \cup shared : f.kind \in Kinds
    /\ library \in 1..MaxBuild
    /\ \A p \in Players :
          /\ todo[p] \in Seq(Ops) /\ Cardinality(writing[p]) <= 1
          /\ \A w \in writing[p] : w.stage \in {"begun", "open", "written"}
          /\ open[p] \in {"none", "tmp", "file", "gone"}
          /\ machine[p].by \in 1..MaxBuild /\ machine[p].inputs \in Seq(Masks)
          /\ run[p].frame \in 0..MaxFrames /\ run[p].buttons \in Masks
          /\ events[p] \in Seq(Event)

Inputs(id) == Held(Flatten(Nodes, id), id.end)

\* At every instant, whoever died where, every node file validates down to the
\* root and main names one: history-validate never fails and play can resume.
\* (Of one session at a time.)
HistoryValid ==
    /\ \A id \in NodeIds : Resolves(Nodes, id)
    /\ Main \in DOMAIN files => Readable(Main) /\ Resolves(Nodes, Content(Main))

\* However many sessions share the directory, a file that cannot be read is one
\* whose temporary two of them held at once, and the damage reaches no further
\* than its descendants: a readable node resolves as soon as its parent does,
\* and what main names was written.
DamageConfined ==
    /\ \A f \in DOMAIN files : Readable(f) \/ f \in shared
    /\ \A id \in DOMAIN Nodes : Resolves(Nodes, Nodes[id].parent) => Resolves(Nodes, id)
    /\ MainId \in NodeIds \cup {RootId}

\* history-and-replay.md:15: nodes are never edited.  (Of one session at a time.)
NodesNeverEdited ==
    [][\A f \in OfKind("node") : f \in DOMAIN files' /\ files'[f] = files[f]]_vars

\* What the journal says was held is what the machine ran under: for a cold, a
\* replayed or a cached start, over checkpoints and held buttons.
JournalExact ==
    \A p \in Players : Doing(p, "play") /\ Resolves(Nodes, parent[p]) =>
        machine[p].inputs = Held(Flatten(Nodes, parent[p]) \o events[p], run[p].frame)

\* No operation of a checkpoint or a preservation is refused: the path played
\* on can be read, the journal is a segment the store accepts, the node is there
\* when it is presented and when main moves to it, and its end is where the
\* machine stands when it is cached.  (Of one session at a time.)
NeverRefused ==
    \A p \in Players :
        /\ Doing(p, "append") \/ Doing(p, "preserve") => Resolves(Nodes, parent[p])
        /\ Doing(p, "append") /\ ~Unmoved(p) =>
              Acceptable(p) /\ (Known(Derived(p)) => Resolves(Nodes, Derived(p)))
        /\ Doing(p, "present") \/ Doing(p, "cache") \/ Doing(p, "main") =>
              Resolves(Nodes, node[p])
        /\ Doing(p, "present") /\ Presentation(node[p]) \in DOMAIN files =>
              Readable(Presentation(node[p]))
        /\ Doing(p, "cache") => /\ Node(Nodes, node[p]).end_frame = run[p].frame
                                /\ Node(Nodes, node[p]).buttons = run[p].buttons

\* A session that ends by itself, cleanly or on a fault, leaves a node whose
\* replay is every frame it completed.  (Of one session at a time.)
NothingPlayedIsLost ==
    \A p \in Players : Doing(p, "close") =>
        \E id \in Ids(Nodes) : Resolves(Nodes, id) /\ Inputs(id) = machine[p].inputs

\* And so do sessions that share the directory, whatever they do to each other's
\* caches, presentations and main, and even when both write one node in turn,
\* as long as no two of them ever held the temporary of one node at once.
NodesApart == \A f \in shared : f.kind # "node"
LostOnlyIfShared == NodesApart => NothingPlayedIsLost

\* evidence-model.md:21: a cached continuation equals the cold run of the
\* native build it was identified by.
ContinuesAsCold ==
    [][\A p \in Players : RestoreCache(p) =>
          machine'[p] = [by |-> run[p].native, inputs |-> Inputs(parent[p])]]_vars

\* preserve_failure: "Resuming the node and stepping once reproduces the
\* failure".  (It does not hold: the mask of the failing frame is not kept.)
FailureReproduces ==
    \A f \in OfKind("presentation") : files[f] = {[reason |-> "execution_failure"]} =>
        Append(Inputs(f.id), Node(Nodes, f.id).buttons) \in Fails
====
