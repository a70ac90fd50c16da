---- MODULE HistoryStore ----
(***************************************************************************)
(* The immutable input history of genesis_re/history.py: what a node is,   *)
(* what identifies it, when a chain of nodes is valid and which masks its  *)
(* replay holds.  A digest is abstracted to what it digests, so two        *)
(* identifiers are equal exactly when the program's would be.              *)
(***************************************************************************)
EXTENDS Integers, Sequences, SequencesExt

CONSTANT Masks       \* pad masks; 0 is the power-on mask
ASSUME MasksAssumption == 0 \in Masks /\ Masks \subseteq Nat

Event == [frame : Nat, buttons : Masks]

\* A node id digests the ordered input stream and the ending frame.
RootId == [inputs |-> <<>>, end |-> 0]
Root == [parent |-> RootId, end_frame |-> 0, events |-> <<>>,
         input_digest |-> <<>>, buttons |-> 0]

\* Canonical events: inside the segment, in order, each one a change.
Canonical(parent, events, end) ==
    /\ end > parent.end_frame
    /\ \A i \in 1..Len(events) :
          /\ parent.end_frame <= events[i].frame /\ events[i].frame < end
          /\ i > 1 => events[i - 1].frame < events[i].frame
          /\ events[i].buttons # IF i = 1 THEN parent.buttons
                                 ELSE events[i - 1].buttons

DerivedId(parent, events, end) ==
    [inputs |-> parent.input_digest \o events, end |-> end]

DerivedNode(parentId, parent, events, end) ==
    [parent |-> parentId, end_frame |-> end, events |-> events,
     input_digest |-> parent.input_digest \o events,
     buttons |-> IF events = <<>> THEN parent.buttons ELSE Last(events).buttons]

\* nodes: the node files, a function from ids to records; the root has none.
Ids(nodes) == DOMAIN nodes \cup {RootId}
Node(nodes, id) == IF id = RootId THEN Root ELSE nodes[id]

\* ancestry: the chain down to the root, each link derived again and compared.
Ancestry(nodes) ==
    LET derived(id, n, parent) ==
          /\ Canonical(parent, n.events, n.end_frame)
          /\ id = DerivedId(parent, n.events, n.end_frame)
          /\ n = DerivedNode(n.parent, parent, n.events, n.end_frame)
        valid[id \in Ids(nodes)] ==
          IF id = RootId THEN TRUE
          ELSE /\ nodes[id].parent \in Ids(nodes)
               /\ nodes[id].parent.end < id.end
               /\ derived(id, nodes[id], Node(nodes, nodes[id].parent))
               /\ valid[nodes[id].parent]
    IN  valid

\* node and resolve refuse an id whose ancestry does not validate.
Resolves(nodes, id) == id \in Ids(nodes) /\ Ancestry(nodes)[id]

\* flatten: the segments of a valid chain, root first.
Flatten(nodes, id) ==
    LET valid == Ancestry(nodes)
        events[i \in {j \in Ids(nodes) : valid[j]}] ==
          IF i = RootId THEN <<>> ELSE events[nodes[i].parent] \o nodes[i].events
    IN  events[id]

\* GenesisRun.advance: an event's mask holds until the next event's frame.
Held(events, end) ==
    LET at(f) == {i \in 1..Len(events) : events[i].frame = f}
        held[f \in 0..end] ==
          IF f = 0 THEN 0
          ELSE IF at(f - 1) = {} THEN held[f - 1]
          ELSE events[CHOOSE i \in at(f - 1) : TRUE].buttons
    IN  [f \in 1..end |-> held[f]]
====
