---- MODULE HistoryVerification ----
(***************************************************************************)
(* history-verify (genesis_re/verification.py): compare_history takes a    *)
(* receipt of the source tree, has the original and the candidate executed *)
(* by two worker processes (or takes the original's stream from the oracle *)
(* cache), and judges the two streams.  Meanwhile the tree may be edited,  *)
(* a live session may add nodes to the history and a worker may hang, die  *)
(* or find its own receipt changed; several comparisons share the cache    *)
(* and its temporaries, and any of them may be killed.                     *)
(*                                                                         *)
(* A version number stands for the content of a part of the tree; a stream *)
(* is what a frame's observation depends on and whether the recovered code *)
(* has gone wrong by then.  A file of the cache is the set of the entries  *)
(* its bytes come from: one when it is whole, none when it was emptied and *)
(* not written, two when one was written over a longer one.                *)
(***************************************************************************)
EXTENDS Integers, Sequences, FiniteSetsExt, TLC

CONSTANTS Comparisons,  \* calls of compare_history
          Candidates,   \* subset of {"original", "recovered"}
          Options,      \* ways it is called: [parallel, refresh, expect]
          Diverges,     \* game source version -> first frame it is wrong at
          Idle,         \* game source versions none of whose gates is reached
          Frames,       \* the history's end frame
          Tree,         \* --tree: the whole graph is compared
          Editable,     \* parts of the tree that are edited meanwhile
          Faults,       \* how a worker may fail of itself
          Deaths,       \* may a comparison's own process be killed?
          MaxEdits,     \* bound: edits of the tree
          MaxNodes      \* bound: nodes of the history graph

Parts == {"shared", "game", "native"}
ASSUME VerificationAssumption ==
    /\ Candidates \subseteq {"original", "recovered"} /\ Editable \subseteq Parts
    /\ Options \subseteq [parallel : BOOLEAN, refresh : BOOLEAN,
                          expect : {"pass", "divergence"}]
    /\ Frames \in Nat \ {0} /\ \A v \in DOMAIN Diverges : Diverges[v] \in 1..Frames
    /\ Idle \cap DOMAIN Diverges = {}
    /\ Faults \subseteq {"error", "dependency", "timeout"}
    /\ MaxEdits \in Nat /\ MaxNodes \in Nat \ {0}
    /\ Tree \in BOOLEAN /\ Deaths \in BOOLEAN

VARIABLES source, edits,  \* the tree now: part -> version, and edits so far
          graph,          \* nodes of the history
          oracle, oracleTmp,   \* the cache: key -> file, and its temporaries
          open,           \* the file each comparison writes: the temporary, the
                          \* entry it was moved to, or one no name has any more
          shared,         \* keys whose temporary two comparisons held at once
          comparison,     \* the parent's locals and its report
          worker          \* [comparison][role] -> the worker process
cache == <<oracle, oracleTmp, open, shared>>
vars == <<source, edits, graph, cache, comparison, worker>>

Roles == {"reference", "candidate"}
Choice(c, role) == IF role = "reference" THEN "original" ELSE comparison[c].candidate

\* What execute_history observes, frame by frame.
Stream(code, choice, nodes) ==
    [f \in 1..Frames |->
        [shared |-> code.shared, native |-> code.native, nodes |-> nodes,
         wrong |-> choice = "recovered" /\ code.game \in DOMAIN Diverges
                   /\ f >= Diverges[code.game]]]
Hits(code, choice) == choice = "recovered" /\ code.game \notin Idle

\* The first frame two streams differ at, 0 when they do not.
FirstDifference(a, b) ==
    LET differ == {i \in 1..Max({Len(a), Len(b)}) :
                     i > Len(a) \/ i > Len(b) \/ a[i] # b[i]}
    IN  IF differ = {} THEN 0 ELSE Min(differ)

FirstTree == [part \in Parts |-> 1]
NoWorker == [stage |-> "none", code |-> FirstTree, start |-> FirstTree, nodes |-> 0]
NoPayload == <<>>
Fresh == [stage |-> "idle", candidate |-> "original", parallel |-> TRUE,
          refresh |-> FALSE, expect |-> "pass", nodes |-> 0, receipt |-> FirstTree,
          cached |-> FALSE, payload |-> [role \in Roles |-> NoPayload],
          status |-> "none", first |-> 0]

Init == /\ source = FirstTree /\ edits = 0 /\ graph = 1
        /\ oracle = <<>> /\ oracleTmp = <<>> /\ shared = {}
        /\ open = [c \in Comparisons |-> "none"]
        /\ comparison = [c \in Comparisons |-> Fresh]
        /\ worker = [c \in Comparisons |-> [role \in Roles |-> NoWorker]]

\* Slip: the key is made of the Python modules alone, whichever library is built.
KeyOfModules(c) == [shared |-> comparison[c].receipt.shared, native |-> FirstTree.native,
                    nodes |-> comparison[c].nodes]
OracleKey(c) == [shared |-> comparison[c].receipt.shared,
                 native |-> comparison[c].receipt.native,
                 nodes |-> comparison[c].nodes]

With(f, k, file) == [j \in DOMAIN f \cup {k} |-> IF j = k THEN file ELSE f[j]]
Report(c, status, first) ==
    comparison' = [comparison EXCEPT ![c].stage = "done", ![c].status = status,
                                     ![c].first = first]
Reach(c, stage) == comparison' = [comparison EXCEPT ![c].stage = stage]
----
(* compare_history up to its workers.                                      *)

Identify(c) ==
    /\ comparison[c].stage = "idle"
    /\ \E candidate \in Candidates, option \in Options :
         comparison' = [comparison EXCEPT ![c] =
            [Fresh EXCEPT !.stage = "identified", !.candidate = candidate, !.nodes = graph,
                          !.parallel = option.parallel, !.refresh = option.refresh,
                          !.expect = option.expect]]
    /\ UNCHANGED <<source, edits, graph, cache, worker>>

TakeReceipt(c) ==
    /\ comparison[c].stage = "identified"
    /\ comparison' = [comparison EXCEPT ![c].stage = "receipted", ![c].receipt = source]
    /\ UNCHANGED <<source, edits, graph, cache, worker>>

\* _validate_execution: the whole observation of the history as it is now, by
\* the tree of the receipt (a cached original's game code never ran).
\* Slip: only the native binary of the worker's receipt is compared.
NativeMatches(payload, receipt, sharedOnly) == payload.receipt.native = receipt.native
ReceiptMatches(payload, receipt, sharedOnly) ==
    /\ payload.receipt.native = receipt.native
    /\ payload.receipt.shared = receipt.shared
    /\ sharedOnly \/ payload.receipt.game = receipt.game
Complete(payload) == payload.status = "DIVERGED" \/ Len(payload.stream) = Frames
Valid(payload, receipt, sharedOnly) ==
    ReceiptMatches(payload, receipt, sharedOnly) /\ payload.nodes = graph /\ Complete(payload)

\* An entry is a reference's payload and the comparison it came from.
Readable(k) == \E e \in oracle[k] : oracle[k] = {e}
Filed(k) == (CHOOSE e \in oracle[k] : TRUE).run

FromOracle(c) == ~comparison[c].refresh /\ OracleKey(c) \in DOMAIN oracle
ToRun(c) == IF comparison[c].cached THEN {"candidate"} ELSE Roles
StopEarly(c) == comparison[c].expect = "divergence" /\ comparison[c].cached /\ ~Tree

StartWorkers(c) ==
    /\ comparison[c].stage = "receipted"
    /\ IF FromOracle(c) /\ ~(/\ Readable(OracleKey(c))
                             /\ Valid(Filed(OracleKey(c)), comparison[c].receipt, TRUE))
       THEN Report(c, "ERROR", 0) /\ UNCHANGED worker
       ELSE LET roles == IF FromOracle(c) THEN {"candidate"} ELSE Roles
                first == IF comparison[c].parallel THEN roles
                         ELSE {IF FromOracle(c) THEN "candidate" ELSE "reference"}
            IN  /\ comparison' = [comparison EXCEPT
                     ![c].stage = "running", ![c].cached = FromOracle(c),
                     ![c].payload["reference"] =
                        IF FromOracle(c) THEN Filed(OracleKey(c)) ELSE NoPayload]
                /\ worker' = [worker EXCEPT ![c] = [role \in Roles |->
                     IF role \in first THEN [NoWorker EXCEPT !.stage = "started"]
                     ELSE NoWorker]]
    /\ UNCHANGED <<source, edits, graph, cache>>
----
(* A worker: execute_history in a process of its own, under a watchdog.    *)

Failures == {"error", "dependency", "timeout"}
At(c, role, stage) == comparison[c].stage = "running" /\ worker[c][role].stage = stage
Alive(c, role) == comparison[c].stage = "running"
                  /\ worker[c][role].stage \in {"started", "imported", "read"}

Import(c, role) ==
    /\ At(c, role, "started")
    /\ worker' = [worker EXCEPT ![c][role].stage = "imported", ![c][role].code = source]
    /\ UNCHANGED <<source, edits, graph, cache, comparison>>

\* store.nodes() and the receipt taken at the start.
ReadStore(c, role) ==
    /\ At(c, role, "imported")
    /\ worker' = [worker EXCEPT ![c][role].stage = "read", ![c][role].start = source,
                                ![c][role].nodes = graph]
    /\ UNCHANGED <<source, edits, graph, cache, comparison>>

\* _executing_modules: what an edit during the run would have changed.
SameExecution(choice, start, end) ==
    /\ start.native = end.native /\ start.shared = end.shared
    /\ choice = "original" \/ start.game = end.game

\* Stopped at the first frame that differs from the oracle's.
Executed(c, role) ==
    LET w == worker[c][role]
        stream == Stream(w.code, Choice(c, role), w.nodes)
        cut == FirstDifference(Filed(OracleKey(c)).stream, stream)
        stops == role = "candidate" /\ StopEarly(c) /\ cut # 0
    IN  [status |-> IF stops THEN "DIVERGED" ELSE "COMPLETED",
         stream |-> IF stops THEN SubSeq(stream, 1, cut) ELSE stream,
         nodes |-> w.nodes, hits |-> Hits(w.code, Choice(c, role)), receipt |-> source]

\* The oracle's stream is read again, by a candidate that may stop early.
CanRead(c, role) == role = "candidate" /\ StopEarly(c) => Readable(OracleKey(c))

Finish(c, role) ==
    /\ At(c, role, "read")
    /\ IF CanRead(c, role) /\ SameExecution(Choice(c, role), worker[c][role].start, source)
       THEN /\ worker' = [worker EXCEPT ![c][role] = [NoWorker EXCEPT !.stage = "finished"]]
            /\ comparison' = [comparison EXCEPT ![c].payload[role] = Executed(c, role)]
       ELSE /\ worker' = [worker EXCEPT ![c][role] = [NoWorker EXCEPT !.stage = "error"]]
            /\ UNCHANGED comparison
    /\ UNCHANGED <<source, edits, graph, cache>>

Fail(c, role) ==
    /\ Alive(c, role)
    /\ \E kind \in Faults \ {"timeout"} :
         worker' = [worker EXCEPT ![c][role] = [NoWorker EXCEPT !.stage = kind]]
    /\ UNCHANGED <<source, edits, graph, cache, comparison>>

\* Slip: only the candidate is watched.
WatchCandidate(c, role) == Alive(c, role) /\ role = "candidate"
Watched(c, role) == Alive(c, role)
Timeout(c, role) ==
    /\ Watched(c, role) /\ "timeout" \in Faults
    /\ worker' = [worker EXCEPT ![c][role] = [NoWorker EXCEPT !.stage = "timeout"]]
    /\ UNCHANGED <<source, edits, graph, cache, comparison>>
----
(* compare_history after its workers.                                      *)

Failed(c) == {role \in ToRun(c) : worker[c][role].stage \in Failures}
Finished(c) == {role \in ToRun(c) : worker[c][role].stage = "finished"}

\* Without --parallel the candidate starts when the reference has finished.
NextWorker(c) ==
    /\ comparison[c].stage = "running" /\ Finished(c) = {"reference"}
    /\ worker[c]["candidate"].stage = "none"
    /\ worker' = [worker EXCEPT ![c]["candidate"].stage = "started"]
    /\ UNCHANGED <<source, edits, graph, cache, comparison>>

\* Slip: the candidate's error is raised before the reference's.
CandidateFirst(c) == IF "candidate" \in Failed(c) THEN "candidate" ELSE "reference"
Raised(c) == IF "reference" \in Failed(c) THEN "reference" ELSE "candidate"
StatusOfFailure(c) ==
    LET kind == worker[c][Raised(c)].stage
    IN  CASE kind = "timeout" -> "TIMEOUT"
          [] kind = "dependency" -> "DEPENDENCY_FAILURE"
          [] kind = "error" /\ Raised(c) = "candidate" -> "CANDIDATE_ERROR"
          [] OTHER -> "ERROR"

\* _run_workers raises once every worker it started has ended.
WorkersFail(c) ==
    /\ comparison[c].stage = "running" /\ Failed(c) # {}
    /\ \A role \in Roles : ~Alive(c, role)
    /\ Report(c, StatusOfFailure(c), 0)
    /\ UNCHANGED <<source, edits, graph, cache, worker>>

Validate(c) ==
    /\ comparison[c].stage = "running" /\ Finished(c) = ToRun(c)
    /\ IF \A role \in ToRun(c) : Valid(comparison[c].payload[role], comparison[c].receipt, FALSE)
       THEN Reach(c, IF comparison[c].cached \/ comparison[c].refresh THEN "judging" ELSE "storing")
       ELSE Report(c, "ERROR", 0)
    /\ UNCHANGED <<source, edits, graph, cache, worker>>

\* write_text opens the temporary, which empties it, and then writes it; all
\* comparisons with one key have one temporary.
Holding(c, k) == comparison[c].stage \in {"writing", "replacing"} /\ OracleKey(c) = k
OpenTemporary(c) ==
    LET k == OracleKey(c)
    IN  /\ comparison[c].stage = "storing"
        /\ oracleTmp' = With(oracleTmp, k, {})
        /\ shared' = IF \E d \in Comparisons \ {c} : Holding(d, k) THEN shared \cup {k}
                     ELSE shared
        /\ open' = [open EXCEPT ![c] = "tmp"] /\ Reach(c, "writing")
        /\ UNCHANGED <<source, edits, graph, oracle, worker>>

\* Written from the start of the file, over what another comparison wrote: the
\* tail of a longer entry stays.  The open file may be the entry by now, or
\* have been replaced as the entry in its turn.
StoreTemporary(c) ==
    LET k == OracleKey(c)
        entry == [from |-> c, run |-> comparison[c].payload["reference"]]
        over(old, tail) == {entry} \cup IF tail THEN old ELSE {}
    IN  /\ comparison[c].stage = "writing"
        /\ \E tail \in BOOLEAN :
              /\ oracleTmp' = IF open[c] # "tmp" THEN oracleTmp
                              ELSE With(oracleTmp, k, over(oracleTmp[k], tail))
              /\ oracle' = IF open[c] # "entry" THEN oracle
                           ELSE With(oracle, k, over(oracle[k], tail))
        /\ open' = [open EXCEPT ![c] = "none"] /\ Reach(c, "replacing")
        /\ UNCHANGED <<source, edits, graph, shared, worker>>

\* Whatever the temporary holds becomes the entry, and files open under either
\* name go with it; another comparison with this key may have moved it already.
Carried(file) == CASE file = "tmp" -> "entry" [] file = "entry" -> "gone" [] OTHER -> file
ReplaceOracle(c) ==
    LET k == OracleKey(c)
    IN  /\ comparison[c].stage = "replacing"
        /\ IF k \notin DOMAIN oracleTmp
           THEN Report(c, "ERROR", 0) /\ UNCHANGED <<oracle, oracleTmp, open>>
           ELSE /\ oracle' = With(oracle, k, oracleTmp[k])
                /\ oracleTmp' = [j \in DOMAIN oracleTmp \ {k} |-> oracleTmp[j]]
                /\ open' = [d \in Comparisons |-> IF OracleKey(d) = k THEN Carried(open[d])
                                                  ELSE open[d]]
                /\ Reach(c, "judging")
        /\ UNCHANGED <<source, edits, graph, shared, worker>>

\* Slip: the worker's own status is reported.
WorkerStatus(c, first) == IF first = 0 THEN "PASS" ELSE comparison[c].payload["candidate"].status
Verdict(c, first) ==
    IF first # 0 THEN "DIVERGENCE"
    ELSE IF comparison[c].candidate = "original" \/ comparison[c].payload["candidate"].hits
    THEN "PASS" ELSE "NOT_EXERCISED"

\* Slip: the graph is not looked at again.
AnyGraph(c) == TRUE
SameGraph(c) == graph = comparison[c].nodes

Judge(c) ==
    LET first == FirstDifference(comparison[c].payload["reference"].stream,
                                 comparison[c].payload["candidate"].stream)
    IN  /\ comparison[c].stage = "judging"
        /\ IF SameGraph(c) THEN Report(c, Verdict(c, first), first) ELSE Report(c, "ERROR", 0)
        /\ UNCHANGED <<source, edits, graph, cache, worker>>
----
(* The rest of the checkout.                                               *)

\* An edit is a content never seen before: the receipts cannot tell a content
\* restored while a worker imports from one that never changed.
Edit == /\ edits < MaxEdits /\ edits' = edits + 1
        /\ \E part \in Editable : source' = [source EXCEPT ![part] = @ + 1]
        /\ UNCHANGED <<graph, cache, comparison, worker>>

\* A session checkpoints; a comparison of one node never sees it.
Grow == /\ Tree /\ graph < MaxNodes /\ graph' = graph + 1
        /\ UNCHANGED <<source, edits, cache, comparison, worker>>

\* The comparison's own process is killed; its workers report to nobody.
Die(c) == /\ Deaths /\ comparison[c].stage \notin {"idle", "done", "dead"}
          /\ comparison' = [comparison EXCEPT ![c] = [Fresh EXCEPT !.stage = "dead"]]
          /\ worker' = [worker EXCEPT ![c] = [role \in Roles |-> NoWorker]]
          /\ open' = [open EXCEPT ![c] = "none"]
          /\ UNCHANGED <<source, edits, graph, oracle, oracleTmp, shared>>

Parent(c) == \/ TakeReceipt(c) \/ StartWorkers(c) \/ NextWorker(c)
             \/ WorkersFail(c) \/ Validate(c)
             \/ OpenTemporary(c) \/ StoreTemporary(c) \/ ReplaceOracle(c) \/ Judge(c)
Worker(c) == \E role \in Roles : \/ Import(c, role) \/ ReadStore(c, role)
                                 \/ Finish(c, role) \/ Fail(c, role)
Next == \/ \E c \in Comparisons : Identify(c) \/ Parent(c) \/ Worker(c) \/ Die(c)
                                  \/ \E role \in Roles : Timeout(c, role)
        \/ Edit \/ Grow

\* The parent runs on and its watchdogs expire; nothing makes a worker go on.
Spec == /\ Init /\ [][Next]_vars
        /\ \A c \in Comparisons :
             /\ WF_vars(Parent(c))
             /\ \A role \in Roles : WF_vars(Timeout(c, role))
----
Statuses == {"none", "ERROR", "PASS", "NOT_EXERCISED", "DIVERGENCE", "TIMEOUT",
             "DEPENDENCY_FAILURE", "CANDIDATE_ERROR"}
Stages == {"idle", "identified", "receipted", "running", "storing", "writing",
           "replacing", "judging", "done", "dead"}
TypeOK ==
    /\ source \in [Parts -> 1..(MaxEdits + 1)] /\ edits \in 0..MaxEdits
    /\ graph \in 1..MaxNodes
    /\ \A c \in Comparisons :
          /\ comparison[c].stage \in Stages /\ comparison[c].status \in Statuses
          /\ (comparison[c].status # "none") = (comparison[c].stage = "done")
          /\ comparison[c].first \in 0..Frames /\ open[c] \in {"none", "tmp", "entry", "gone"}
          /\ \A role \in Roles : worker[c][role].stage \in
                {"none", "started", "imported", "read", "finished"} \cup Failures

\* The verdict the receipt of a report stands for: what its tree would observe.
Truth(c) == FirstDifference(
    Stream(comparison[c].receipt, "original", comparison[c].nodes),
    Stream(comparison[c].receipt, comparison[c].candidate, comparison[c].nodes))

\* evidence-model.md: a PASS covers the native binary and the source tree in its
\* receipt.  Whatever is edited while workers run, from the cache or not, and
\* stopped early or not, a verdict and its first difference are those of the
\* receipt's tree.
VerdictIsOfReceipt ==
    \A c \in Comparisons :
        /\ comparison[c].status \in {"PASS", "NOT_EXERCISED", "DIVERGENCE"} =>
              comparison[c].first = Truth(c)
        /\ comparison[c].status = "PASS" => Truth(c) = 0
              /\ (comparison[c].candidate = "original"
                  \/ comparison[c].receipt.game \notin Idle)
        /\ comparison[c].status = "DIVERGENCE" => Truth(c) # 0

\* A verdict covers the graph that was identified, not one a session extended.
VerdictCoversGraph ==
    \A c \in Comparisons :
        comparison[c].status \in {"PASS", "NOT_EXERCISED", "DIVERGENCE"} =>
            \A role \in Roles : comparison[c].payload[role].nodes = comparison[c].nodes

\* oracle_key: two runs with the same key observe the same stream, so whatever
\* is in an entry is the stream any original run under its key would observe;
\* at worst the entry cannot be read, and then two comparisons held its
\* temporary at once.
OracleTrue ==
    \A k \in DOMAIN oracle :
        /\ \A e \in oracle[k] : e.run.stream =
              Stream([shared |-> k.shared, native |-> k.native, game |-> 1], "original", k.nodes)
        /\ Readable(k) \/ k \in shared

\* Role order: the candidate is blamed only when the reference did not fail.
BlamesCandidateLast ==
    \A c \in Comparisons : comparison[c].status = "CANDIDATE_ERROR" =>
        worker[c]["reference"].stage \notin Failures

\* A comparison that was begun and is not killed is reported, however its
\* workers hang.
Reported == \A c \in Comparisons :
    comparison[c].stage = "identified" ~> comparison[c].stage \in {"done", "dead"}

\* _executing_modules: editing a game's recovered code while an oracle run is in
\* flight must not invalidate the oracle.  (It does: the parent compares the
\* whole receipt of a fresh reference.)
OracleSurvivesGameEdits ==
    \A c \in Comparisons : comparison[c].candidate = "original" =>
        comparison[c].status \in {"none", "PASS"}
====
