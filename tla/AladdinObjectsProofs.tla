---- MODULE AladdinObjectsProofs ----
(***************************************************************************)
(* Who holds which VRAM tile slot, and whose frame it shows, for every     *)
(* number of records, tile slots and cells, all pools and all levels.      *)
(* Each call on the object table keeps the table good; the steps of        *)
(* AladdinObjects are compositions of such calls.  The same calls say      *)
(* where an object's cell comes from: no cell has two, and the player is   *)
(* never the one that finds no tiles.                                      *)
(***************************************************************************)
EXTENDS AladdinObjects, TLAPS

\* What may be relied on: objects point at each other, the level leaks no tiles, no frame
\* was drawn since the last flush.
Linked(m) == "linked" \in m
Leakless(m) == "leakless" \in m
Flushed(m) == "flushed" \in m

\* The records whose pointer into the map counts: where links outlive their
\* riders also those out of use, as a link may still release through them.
Held(w, s, m) == Linked(m) \/ Live(w, s)

Safe(w, m) ==
    /\ \A s \in Slots : Held(w, s, m) =>
           \A t \in w.obj[s].tiles :
               /\ t \in w.taken
               /\ \A r \in Slots : Held(w, r, m) /\ t \in w.obj[r].tiles => r = s
    /\ ~Linked(m) => \A s \in Slots : w.obj[s].rider = NoOne

Up(w, t) == IF w.pending[t] = NoOne THEN w.picture[t] ELSE w.pending[t]

Own(w) == \A s \in Slots : Seen(w, s) => /\ w.obj[s].tiles # {}
                                         /\ \A t \in w.obj[s].tiles : Up(w, t) = s

Tight(w) == \A t \in w.taken : \E s \in Slots : Live(w, s) /\ t \in w.obj[s].tiles

\* What is queued has been sent: clearing the queue loses nothing.
Sent(w) == \A t \in Tiles : w.pending[t] # NoOne => w.picture[t] = w.pending[t]

Good(w, m) == /\ w \in Worlds
              /\ Safe(w, m) /\ Own(w)
              /\ Leakless(m) => Tight(w) /\ ~Linked(m)
              /\ Flushed(m) => Sent(w)

----------------------------------------------------------------------------
\* The types the calls work on.

LEMMA SlotType == /\ 0 \in Slots /\ Main \subseteq Slots /\ Extra \subseteq Slots
                  /\ NoOne \notin Slots /\ Stale \notin Slots /\ NoOne # Stale
                  /\ Slots \subseteq Int
  BY TableAssumption DEF TableAssumption, Slots, Main, Extra, NoOne, Stale

LEMMA WorldFields ==
  ASSUME NEW w \in Worlds
  PROVE  /\ w.obj \in [Slots -> Objects] /\ w.taken \in SUBSET Tiles /\ w.armed \in SUBSET Cells
         /\ w.picture \in [Tiles -> Frames] /\ w.pending \in [Tiles -> Frames]
         /\ w = [obj |-> w.obj, taken |-> w.taken, armed |-> w.armed,
                 picture |-> w.picture, pending |-> w.pending]
  BY DEF Worlds

LEMMA ObjectFields ==
  ASSUME NEW o \in Objects
  PROVE  /\ o.kind \in Kinds /\ o.tiles \in SUBSET Tiles /\ o.shown \in BOOLEAN
         /\ o.rider \in Slots \cup {NoOne} /\ o.carries \in BOOLEAN
         /\ o.cell \in Cells \cup {NoCell} /\ o.owns \in BOOLEAN
  BY DEF Objects

LEMMA RenamedType ==
  ASSUME NEW f \in [Tiles -> Frames], NEW s \in Slots, NEW new \in Frames
  PROVE  /\ Renamed(f, s, new) \in [Tiles -> Frames]
         /\ \A t \in Tiles : Renamed(f, s, new)[t] = IF f[t] = s THEN new ELSE f[t]
  BY DEF Renamed

LEMMA FrameType == Stale \in Frames /\ NoOne \in Frames /\ Slots \subseteq Frames
  BY DEF Frames

LEMMA TemplateType ==
  ASSUME NEW kind \in Kinds
  PROVE  /\ Template(kind) \in Objects
         /\ Template(kind).kind = kind /\ Template(kind).tiles = {}
         /\ Template(kind).shown = FALSE /\ Template(kind).rider = NoOne
  BY DEF Template, Objects

----------------------------------------------------------------------------
\* What each call leaves in the fields.

LEMMA FreedFields ==
  ASSUME NEW o \in Objects
  PROVE  /\ Freed(o) \in Objects /\ Freed(o).kind = "free" /\ Freed(o).tiles = o.tiles
         /\ Freed(o).rider = NoOne /\ Freed(o).cell = o.cell /\ Freed(o).owns = o.owns
  BY DEF Freed, Objects, Kinds

LEMMA WithFrames ==
  ASSUME NEW w \in Worlds, NEW o \in [Slots -> Objects],
         NEW p \in [Tiles -> Frames], NEW q \in [Tiles -> Frames]
  PROVE  [w EXCEPT !.obj = o, !.picture = p, !.pending = q] \in Worlds
  BY DEF Worlds

LEMMA WithTaken ==
  ASSUME NEW w \in Worlds, NEW o \in [Slots -> Objects], NEW x \in SUBSET Tiles
  PROVE  [w EXCEPT !.obj = o, !.taken = x] \in Worlds
  BY DEF Worlds

LEMMA KillFields ==
  ASSUME NEW w \in Worlds, NEW s \in Slots
  PROVE  /\ Kill(w, s) \in Worlds
         /\ Kill(w, s).obj = [w.obj EXCEPT ![s] = Freed(w.obj[s])]
         /\ Kill(w, s).taken = w.taken /\ Kill(w, s).armed = w.armed
         /\ Kill(w, s).picture = Renamed(w.picture, s, Stale)
         /\ Kill(w, s).pending = Renamed(w.pending, s, Stale)
<1>1. [w.obj EXCEPT ![s] = Freed(w.obj[s])] \in [Slots -> Objects]
  BY WorldFields, FreedFields
<1>2. /\ Renamed(w.picture, s, Stale) \in [Tiles -> Frames]
      /\ Renamed(w.pending, s, Stale) \in [Tiles -> Frames]
  BY WorldFields, RenamedType, FrameType
<1>3. Kill(w, s) \in Worlds
  BY <1>1, <1>2, WithFrames DEF Kill
<1> QED BY <1>3 DEF Kill, Worlds

LEMMA FreeFields ==
  ASSUME NEW w \in Worlds, NEW s \in Slots
  PROVE  /\ Free(w, s) \in Worlds
         /\ Free(w, s).obj[s] \in Objects
         /\ Free(w, s).obj[s].kind = "free" /\ Free(w, s).obj[s].tiles = {}
         /\ Free(w, s).obj[s].rider = NoOne
         /\ \A r \in Slots \ {s} : Free(w, s).obj[r] = w.obj[r]
         /\ Free(w, s).taken = w.taken \ w.obj[s].tiles /\ Free(w, s).armed = w.armed
         /\ Free(w, s).picture = Renamed(w.picture, s, Stale)
         /\ Free(w, s).pending = Renamed(w.pending, s, Stale)
<1> DEFINE k == Kill(w, s)
           f == Freed(w.obj[s])
           g == [f EXCEPT !.tiles = {}]
<1>1. w.obj \in [Slots -> Objects] /\ w.obj[s] \in Objects
  BY WorldFields
<1>2. /\ k \in Worlds /\ k.obj \in [Slots -> Objects]
      /\ k.obj[s] = f /\ \A r \in Slots \ {s} : k.obj[r] = w.obj[r]
      /\ k.taken = w.taken /\ k.armed = w.armed
      /\ k.picture = Renamed(w.picture, s, Stale) /\ k.pending = Renamed(w.pending, s, Stale)
  <2>1. /\ k \in Worlds /\ k.obj = [w.obj EXCEPT ![s] = f]
        /\ k.taken = w.taken /\ k.armed = w.armed
        /\ k.picture = Renamed(w.picture, s, Stale) /\ k.pending = Renamed(w.pending, s, Stale)
    BY KillFields
  <2> HIDE DEF k, f
  <2>2. k.obj \in [Slots -> Objects]
    BY <2>1, WorldFields
  <2> QED BY <1>1, <2>1, <2>2
<1>3. g \in Objects /\ g.kind = "free" /\ g.tiles = {} /\ g.rider = NoOne
  BY <1>1, FreedFields DEF Objects
<1>4. f.tiles = w.obj[s].tiles
  BY <1>1, FreedFields
<1> HIDE DEF k, f
<1>5. Release(k, s) = [k EXCEPT !.obj = [k.obj EXCEPT ![s] = g], !.taken = k.taken \ f.tiles]
  BY <1>2 DEF Release
<1> HIDE DEF g
<1>6. [k.obj EXCEPT ![s] = g] \in [Slots -> Objects]
  BY <1>2, <1>3
<1>7. k.taken \ f.tiles \in SUBSET Tiles
  BY <1>2, WorldFields
<1>8. Release(k, s) \in Worlds
  <2> DEFINE o == [k.obj EXCEPT ![s] = g]
             x == k.taken \ f.tiles
  <2> HIDE DEF o, x
  <2>1. [k EXCEPT !.obj = o, !.taken = x] \in Worlds
    BY <1>2, <1>6, <1>7, WithTaken DEF o, x
  <2> QED BY <1>5, <2>1 DEF o, x
<1>9. /\ Release(k, s).obj = [k.obj EXCEPT ![s] = g] /\ Release(k, s).taken = k.taken \ f.tiles
      /\ Release(k, s).armed = k.armed
      /\ Release(k, s).picture = k.picture /\ Release(k, s).pending = k.pending
  BY <1>2, <1>5 DEF Worlds
<1>10. Free(w, s) = Release(k, s)
  BY DEF Free, k
<1> QED BY <1>2, <1>3, <1>4, <1>8, <1>9, <1>10

LEMMA InitialiseFields ==
  ASSUME NEW w \in Worlds, NEW s \in Slots, NEW o \in Objects
  PROVE  /\ Initialise(w, s, o) \in Worlds
         /\ Initialise(w, s, o).obj[s] = o
         /\ \A r \in Slots \ {s} : Initialise(w, s, o).obj[r] = w.obj[r]
         /\ Initialise(w, s, o).taken = w.taken /\ Initialise(w, s, o).armed = w.armed
         /\ Initialise(w, s, o).picture = Renamed(w.picture, s, Stale)
         /\ Initialise(w, s, o).pending = Renamed(w.pending, s, Stale)
<1>1. [w.obj EXCEPT ![s] = o] \in [Slots -> Objects]
  BY WorldFields
<1>2. /\ Renamed(w.picture, s, Stale) \in [Tiles -> Frames]
      /\ Renamed(w.pending, s, Stale) \in [Tiles -> Frames]
  BY WorldFields, RenamedType, FrameType
<1>3. Initialise(w, s, o) \in Worlds
  BY <1>1, <1>2, WithFrames DEF Initialise
<1>4. /\ Initialise(w, s, o).obj = [w.obj EXCEPT ![s] = o]
      /\ Initialise(w, s, o).taken = w.taken /\ Initialise(w, s, o).armed = w.armed
      /\ Initialise(w, s, o).picture = Renamed(w.picture, s, Stale)
      /\ Initialise(w, s, o).pending = Renamed(w.pending, s, Stale)
  BY DEF Initialise, Worlds
<1> QED BY <1>3, <1>4, WorldFields

----------------------------------------------------------------------------
\* Frames that change their owner.

LEMMA RenamedUp ==
  ASSUME NEW w \in Worlds, NEW v \in Worlds, NEW s \in Slots,
         v.picture = Renamed(w.picture, s, Stale), v.pending = Renamed(w.pending, s, Stale),
         NEW t \in Tiles
  PROVE  Up(v, t) = IF Up(w, t) = s THEN Stale ELSE Up(w, t)
<1>1. /\ v.picture[t] = IF w.picture[t] = s THEN Stale ELSE w.picture[t]
      /\ v.pending[t] = IF w.pending[t] = s THEN Stale ELSE w.pending[t]
  BY DEF Renamed
<1> QED BY <1>1, SlotType DEF Up

\* A record taken out of use, or given to an object without tiles.
LEMMA OutOfUseOwn ==
  ASSUME NEW w \in Worlds, NEW v \in Worlds, NEW s \in Slots, Own(w), ~Seen(v, s),
         \A r \in Slots \ {s} : v.obj[r] = w.obj[r],
         v.picture = Renamed(w.picture, s, Stale), v.pending = Renamed(w.pending, s, Stale)
  PROVE  Own(v)
<1> SUFFICES ASSUME NEW r \in Slots, Seen(v, r)
             PROVE  v.obj[r].tiles # {} /\ \A t \in v.obj[r].tiles : Up(v, t) = r
  BY DEF Own
<1>1. r # s /\ v.obj[r] = w.obj[r] /\ Seen(w, r)
  BY DEF Seen, Live
<1>2. ASSUME NEW t \in w.obj[r].tiles PROVE Up(v, t) = r
  <2>1. t \in Tiles /\ Up(w, t) = r
    BY <1>1, WorldFields, ObjectFields DEF Own
  <2> QED BY <2>1, <1>1, RenamedUp
<1> QED BY <1>1, <1>2 DEF Own

LEMMA RenamedSent ==
  ASSUME NEW w \in Worlds, NEW v \in Worlds, NEW s \in Slots, Sent(w),
         v.picture = Renamed(w.picture, s, Stale), v.pending = Renamed(w.pending, s, Stale)
  PROVE  Sent(v)
<1> SUFFICES ASSUME NEW t \in Tiles, v.pending[t] # NoOne PROVE v.picture[t] = v.pending[t]
  BY DEF Sent
<1>1. /\ v.picture[t] = IF w.picture[t] = s THEN Stale ELSE w.picture[t]
      /\ v.pending[t] = IF w.pending[t] = s THEN Stale ELSE w.pending[t]
  BY DEF Renamed
<1> QED BY <1>1, SlotType DEF Sent

LEMMA FreeGood ==
  ASSUME NEW w, NEW m, NEW s \in Slots,
         Good(w, m), Held(w, s, m) \/ w.obj[s].tiles = {}
  PROVE  Good(Free(w, s), m)
<1> DEFINE f == Free(w, s)
<1>1. w \in Worlds
  BY DEF Good
<1>2. /\ f \in Worlds /\ f.obj[s].kind = "free" /\ f.obj[s].tiles = {} /\ f.obj[s].rider = NoOne
      /\ \A r \in Slots \ {s} : f.obj[r] = w.obj[r]
      /\ f.taken = w.taken \ w.obj[s].tiles
      /\ f.picture = Renamed(w.picture, s, Stale) /\ f.pending = Renamed(w.pending, s, Stale)
  BY <1>1, FreeFields
<1> HIDE DEF f
<1>3. Safe(f, m)
  BY <1>2 DEF Good, Safe, Held, Live
<1>4. Own(f)
  <2>1. ~Seen(f, s)
    BY <1>2 DEF Seen, Live
  <2> QED BY <1>1, <1>2, <2>1, OutOfUseOwn DEF Good
<1>5. Leakless(m) => Tight(f) /\ ~Linked(m)
  BY <1>2 DEF Good, Tight, Live
<1>6. Flushed(m) => Sent(f)
  BY <1>1, <1>2, RenamedSent DEF Good
<1> QED BY <1>2, <1>3, <1>4, <1>5, <1>6 DEF Good, f

\* An object in a record out of use; or in any, where the tiles that it held may leak.
LEMMA InitialiseGood ==
  ASSUME NEW w, NEW m, NEW s \in Slots,
         Good(w, m), ~Live(w, s) \/ ~Leakless(m),
         NEW o \in Objects, o.tiles = {}, o.shown = FALSE, o.rider = NoOne
  PROVE  Good(Initialise(w, s, o), m)
<1> DEFINE f == Initialise(w, s, o)
<1>1. w \in Worlds
  BY DEF Good
<1>2. /\ f \in Worlds /\ f.obj[s] = o /\ f.taken = w.taken
      /\ \A r \in Slots \ {s} : f.obj[r] = w.obj[r]
      /\ f.picture = Renamed(w.picture, s, Stale) /\ f.pending = Renamed(w.pending, s, Stale)
  BY <1>1, InitialiseFields
<1> HIDE DEF f
<1>3. Safe(f, m)
  BY <1>2 DEF Good, Safe, Held, Live
<1>4. Own(f)
  <2>1. ~Seen(f, s)
    BY <1>2 DEF Seen
  <2> QED BY <1>1, <1>2, <2>1, OutOfUseOwn DEF Good
<1>5. Leakless(m) => Tight(f) /\ ~Linked(m)
  BY <1>2 DEF Good, Tight, Live
<1>6. Flushed(m) => Sent(f)
  BY <1>1, <1>2, RenamedSent DEF Good
<1> QED BY <1>2, <1>3, <1>4, <1>5, <1>6 DEF Good, f

\* A call that leaves every record in use, its tiles and its frame as they are.
LEMMA SameGood ==
  ASSUME NEW w, NEW m,
         Good(w, m), NEW v \in Worlds,
         v.taken = w.taken, v.picture = w.picture, v.pending = w.pending,
         \A r \in Slots : /\ v.obj[r].tiles = w.obj[r].tiles /\ v.obj[r].shown = w.obj[r].shown
                          /\ Live(v, r) <=> Live(w, r)
                          /\ ~Linked(m) => v.obj[r].rider = NoOne
  PROVE  Good(v, m)
<1>1. Safe(v, m)
  BY DEF Good, Safe, Held
<1>2. Own(v)
  BY DEF Good, Own, Seen, Up
<1>3. Leakless(m) => Tight(v) /\ ~Linked(m)
  BY DEF Good, Tight
<1>4. Flushed(m) => Sent(v)
  BY DEF Good, Sent
<1> QED BY <1>1, <1>2, <1>3, <1>4 DEF Good

LEMMA RestoreGood ==
  ASSUME NEW w, NEW m,
         Good(w, m), NEW s \in Slots
  PROVE  /\ Good(RestoreSpawnFlag(w, s), m)
         /\ RestoreSpawnFlag(w, s).obj = w.obj
<1> DEFINE v == RestoreSpawnFlag(w, s)
<1>1. w \in Worlds
  BY DEF Good
<1>2. /\ v \in Worlds /\ v.obj = w.obj /\ v.taken = w.taken
      /\ v.picture = w.picture /\ v.pending = w.pending
  BY <1>1 DEF RestoreSpawnFlag, Worlds
<1> HIDE DEF v
<1>3. \A r \in Slots : Live(v, r) <=> Live(w, r)
  BY <1>2 DEF Live
<1>4. Good(v, m)
  BY <1>2, <1>3, SameGood DEF Good, Safe
<1> QED BY <1>2, <1>4 DEF v

\* An update of one record that leaves its tiles and its frame.
LEMMA TouchedFields ==
  ASSUME NEW w \in Worlds, NEW s \in Slots, NEW o \in Objects
  PROVE  /\ [w EXCEPT !.obj[s] = o] \in Worlds
         /\ [w EXCEPT !.obj[s] = o].obj = [w.obj EXCEPT ![s] = o]
         /\ [w EXCEPT !.obj[s] = o].taken = w.taken
         /\ [w EXCEPT !.obj[s] = o].picture = w.picture
         /\ [w EXCEPT !.obj[s] = o].pending = w.pending
<1>1. w.obj \in [Slots -> Objects]
  BY WorldFields
<1>2. [w.obj EXCEPT ![s] = o] \in [Slots -> Objects]
  BY <1>1
<1> QED BY <1>2 DEF Worlds

LEMMA TouchedGood ==
  ASSUME NEW w, NEW m,
         Good(w, m), NEW s \in Slots, NEW o \in Objects,
         o.tiles = w.obj[s].tiles, o.shown = w.obj[s].shown,
         (o.kind # "free") <=> Live(w, s), ~Linked(m) => o.rider = NoOne
  PROVE  Good([w EXCEPT !.obj[s] = o], m)
<1> DEFINE v == [w EXCEPT !.obj[s] = o]
<1>1. w \in Worlds /\ w.obj \in [Slots -> Objects]
  BY WorldFields DEF Good
<1>2. /\ v \in Worlds /\ v.obj = [w.obj EXCEPT ![s] = o] /\ v.taken = w.taken
      /\ v.picture = w.picture /\ v.pending = w.pending
  BY <1>1, TouchedFields
<1> HIDE DEF v
<1>3. \A r \in Slots : /\ v.obj[r].tiles = w.obj[r].tiles /\ v.obj[r].shown = w.obj[r].shown
                       /\ Live(v, r) <=> Live(w, r)
                       /\ ~Linked(m) => v.obj[r].rider = NoOne
  <2>1. \A r \in Slots : v.obj[r] = IF r = s THEN o ELSE w.obj[r]
    BY <1>1, <1>2
  <2>2. ~Linked(m) => \A r \in Slots : w.obj[r].rider = NoOne
    BY DEF Good, Safe
  <2> TAKE r \in Slots
  <2>3. CASE r = s
    BY <2>1, <2>3 DEF Live
  <2>4. CASE r # s
    BY <2>1, <2>2, <2>4 DEF Live
  <2> QED BY <2>3, <2>4
<1>4. Good(v, m)
  BY <1>2, <1>3, SameGood DEF Good
<1> QED BY <1>4 DEF v

LEMMA RetypedGood ==
  ASSUME NEW w, NEW m,
         Good(w, m), NEW s \in Slots, Live(w, s),
         NEW kind \in Kinds \ {"free"}
  PROVE  /\ Good(Retyped(w, s, kind), m)
         /\ \A r \in Slots : Live(Retyped(w, s, kind), r) <=> Live(w, r)
<1> DEFINE o == [w.obj[s] EXCEPT !.kind = kind]
<1>1. w \in Worlds /\ w.obj \in [Slots -> Objects] /\ w.obj[s] \in Objects
  BY WorldFields DEF Good
<1>2. /\ o \in Objects /\ o.kind = kind /\ o.tiles = w.obj[s].tiles
      /\ o.shown = w.obj[s].shown /\ o.rider = w.obj[s].rider
  BY <1>1 DEF Objects
<1>3. Retyped(w, s, kind) = [w EXCEPT !.obj[s] = o]
  BY <1>1 DEF Retyped
<1> HIDE DEF o
<1>4. ~Linked(m) => o.rider = NoOne
  BY <1>2 DEF Good, Safe
<1>5. (o.kind # "free") <=> Live(w, s)
  BY <1>2 DEF Live
<1>6. Good(Retyped(w, s, kind), m)
  BY <1>2, <1>3, <1>4, <1>5, TouchedGood
<1>7. Retyped(w, s, kind).obj = [w.obj EXCEPT ![s] = o]
  BY <1>1, <1>2, <1>3, TouchedFields
<1> QED BY <1>1, <1>2, <1>6, <1>7 DEF Live

LEMMA DisownedGood ==
  ASSUME NEW w, NEW m,
         Good(w, m), NEW s \in Slots
  PROVE  /\ Good(Disowned(w, s), m)
         /\ \A r \in Slots : Live(Disowned(w, s), r) <=> Live(w, r)
<1> DEFINE o == [w.obj[s] EXCEPT !.owns = FALSE]
<1>1. w \in Worlds /\ w.obj \in [Slots -> Objects] /\ w.obj[s] \in Objects
  BY WorldFields DEF Good
<1>2. /\ o \in Objects /\ o.kind = w.obj[s].kind /\ o.tiles = w.obj[s].tiles
      /\ o.shown = w.obj[s].shown /\ o.rider = w.obj[s].rider
  BY <1>1 DEF Objects
<1>3. Disowned(w, s) = [w EXCEPT !.obj[s] = o]
  BY <1>1 DEF Disowned
<1> HIDE DEF o
<1>4. ~Linked(m) => o.rider = NoOne
  BY <1>2 DEF Good, Safe
<1>5. (o.kind # "free") <=> Live(w, s)
  BY <1>2 DEF Live
<1>6. Good(Disowned(w, s), m)
  BY <1>2, <1>3, <1>4, <1>5, TouchedGood
<1>7. Disowned(w, s).obj = [w.obj EXCEPT ![s] = o]
  BY <1>1, <1>2, <1>3, TouchedFields
<1> QED BY <1>1, <1>2, <1>6, <1>7 DEF Live

LEMMA UnlinkGood ==
  ASSUME NEW w, NEW m,
         Good(w, m), NEW r \in Slots \cup {NoOne}
  PROVE  Good(Unlink(w, r), m)
<1> CASE r = NoOne
  BY DEF Unlink
<1> CASE r # NoOne
  <2> DEFINE o == [w.obj[r] EXCEPT !.rider = NoOne, !.carries = FALSE]
  <2>1. w \in Worlds /\ w.obj \in [Slots -> Objects] /\ w.obj[r] \in Objects /\ r \in Slots
    BY WorldFields DEF Good
  <2>2. /\ o \in Objects /\ o.kind = w.obj[r].kind /\ o.tiles = w.obj[r].tiles
        /\ o.shown = w.obj[r].shown /\ o.rider = NoOne
    BY <2>1 DEF Objects
  <2>3. Unlink(w, r) = [w EXCEPT !.obj[r] = o]
    BY <2>1 DEF Unlink
  <2> HIDE DEF o
  <2> QED BY <2>1, <2>2, <2>3, TouchedGood DEF Good, Live
<1> QED OBVIOUS

LEMMA LinkedPairGood ==
  ASSUME NEW w, NEW m,
         Good(w, m), Linked(m), NEW s \in Slots, NEW r \in Slots
  PROVE  Good(LinkedPair(w, s, r), m)
<1> DEFINE o == [w.obj[s] EXCEPT !.rider = r, !.carries = TRUE]
           v == [w EXCEPT !.obj[s] = o]
           q == [v.obj[r] EXCEPT !.rider = s]
<1>1. w \in Worlds /\ w.obj \in [Slots -> Objects] /\ w.obj[s] \in Objects
  BY WorldFields DEF Good
<1>2. /\ o \in Objects /\ o.kind = w.obj[s].kind /\ o.tiles = w.obj[s].tiles
      /\ o.shown = w.obj[s].shown
  BY <1>1 DEF Objects
<1>3. LinkedPair(w, s, r) = [v EXCEPT !.obj[r] = q]
  BY <1>1 DEF LinkedPair, Worlds
<1>4. Good(v, m)
  <2> HIDE DEF o
  <2> QED BY <1>2, TouchedGood DEF Live
<1> HIDE DEF v
<1>5. v \in Worlds /\ v.obj \in [Slots -> Objects] /\ v.obj[r] \in Objects
  BY <1>4, WorldFields DEF Good
<1>6. /\ q \in Objects /\ q.kind = v.obj[r].kind /\ q.tiles = v.obj[r].tiles
      /\ q.shown = v.obj[r].shown
  BY <1>5 DEF Objects
<1> HIDE DEF q
<1> QED BY <1>3, <1>4, <1>6, TouchedGood DEF Live

----------------------------------------------------------------------------
\* Records taken out of use.

\* Without the release: a record without tiles, or where links keep what it holds.
LEMMA KillGood ==
  ASSUME NEW w, NEW m, Good(w, m), NEW s \in Slots,
         w.obj[s].tiles = {} \/ Linked(m)
  PROVE  /\ Good(Kill(w, s), m)
         /\ \A r \in Slots : Kill(w, s).obj[r].tiles = w.obj[r].tiles
<1> DEFINE f == Kill(w, s)
<1>1. w \in Worlds /\ w.obj \in [Slots -> Objects]
  BY WorldFields DEF Good
<1>2. /\ f \in Worlds /\ f.obj = [w.obj EXCEPT ![s] = Freed(w.obj[s])] /\ f.taken = w.taken
      /\ f.picture = Renamed(w.picture, s, Stale) /\ f.pending = Renamed(w.pending, s, Stale)
  BY <1>1, KillFields
<1>3. /\ Freed(w.obj[s]).kind = "free" /\ Freed(w.obj[s]).tiles = w.obj[s].tiles
      /\ Freed(w.obj[s]).rider = NoOne
  BY <1>1, FreedFields
<1>4. /\ f.obj[s].kind = "free" /\ f.obj[s].tiles = w.obj[s].tiles /\ f.obj[s].rider = NoOne
      /\ \A r \in Slots \ {s} : f.obj[r] = w.obj[r]
  BY <1>1, <1>2, <1>3
<1> HIDE DEF f
<1>5. Safe(f, m)
  BY <1>2, <1>4 DEF Good, Safe, Held, Live
<1>6. Own(f)
  <2>1. ~Seen(f, s)
    BY <1>4 DEF Seen, Live
  <2> QED BY <1>1, <1>2, <1>4, <2>1, OutOfUseOwn DEF Good
<1>7. Leakless(m) => Tight(f) /\ ~Linked(m)
  BY <1>2, <1>4 DEF Good, Tight, Live
<1>8. Flushed(m) => Sent(f)
  BY <1>1, <1>2, RenamedSent DEF Good
<1> QED BY <1>2, <1>4, <1>5, <1>6, <1>7, <1>8 DEF Good, f

\* Riders are there where objects are linked.
LEMMA RiderType ==
  ASSUME NEW w, NEW m, Good(w, m), NEW s \in Slots
  PROVE  /\ w.obj[s].rider \in Slots \cup {NoOne}
         /\ w.obj[s].rider # NoOne => w.obj[s].rider \in Slots /\ Linked(m)
<1>1. w.obj[s] \in Objects
  BY WorldFields DEF Good
<1>2. w.obj[s].rider \in Slots \cup {NoOne}
  BY <1>1, ObjectFields
<1> QED BY <1>2 DEF Good, Safe

LEMMA FreeRiderGood ==
  ASSUME NEW w, NEW m, Good(w, m), NEW r \in Slots \cup {NoOne},
         r # NoOne => r \in Slots /\ Linked(m)
  PROVE  Good(FreeRider(w, r), m)
<1>1. CASE r = NoOne
  BY <1>1 DEF FreeRider
<1>2. CASE r # NoOne
  <2>1. r \in Slots /\ Held(w, r, m)
    BY <1>2 DEF Held
  <2>2. Good(Free(w, r), m)
    BY <2>1, FreeGood
  <2> QED BY <1>2, <2>2 DEF FreeRider
<1> QED BY <1>1, <1>2

LEMMA RetireGood ==
  ASSUME NEW w, NEW m, Good(w, m), NEW s \in Slots, Live(w, s)
  PROVE  /\ Good(Retire(w, s), m) /\ Retire(w, s).obj[s].tiles = {}
         /\ ~Linked(m) => \A r \in Slots \ {s} : Retire(w, s).obj[r] = w.obj[r]
<1> DEFINE f == Free(w, s)
           r == w.obj[s].rider
<1>1. Good(f, m)
  BY FreeGood DEF Held
<1>2. f \in Worlds /\ f.obj[s].tiles = {} /\ \A u \in Slots \ {s} : f.obj[u] = w.obj[u]
  BY FreeFields DEF Good
<1>3. r \in Slots \cup {NoOne} /\ (r # NoOne => r \in Slots /\ Linked(m))
  BY RiderType
<1>4. Retire(w, s) = FreeRider(f, r)
  BY DEF Retire
<1> HIDE DEF f, r
<1>5. Good(FreeRider(f, r), m)
  BY <1>1, <1>3, FreeRiderGood
<1>6. FreeRider(f, r).obj[s].tiles = {}
  <2>1. CASE r = NoOne
    BY <1>2, <2>1 DEF FreeRider
  <2>2. CASE r # NoOne
    BY <1>2, <1>3, <2>2, FreeFields DEF FreeRider
  <2> QED BY <2>1, <2>2
<1>7. ~Linked(m) => FreeRider(f, r) = f
  BY <1>3 DEF FreeRider
<1> QED BY <1>2, <1>4, <1>5, <1>6, <1>7

LEMMA BecomeGood ==
  ASSUME NEW w, NEW m, Good(w, m), NEW s \in Slots,
         Held(w, s, m) \/ w.obj[s].tiles = {}, NEW kind \in Kinds \ {"free"}
  PROVE  /\ Good(Become(w, s, kind), m) /\ Live(Become(w, s, kind), s)
         /\ \A r \in Slots \ {s} : Become(w, s, kind).obj[r] = w.obj[r]
<1> DEFINE f == Free(w, s)
<1>1. Good(f, m)
  BY FreeGood
<1>2. f.obj[s].kind = "free" /\ \A r \in Slots \ {s} : f.obj[r] = w.obj[r]
  BY FreeFields DEF Good
<1>3. Become(w, s, kind) = Initialise(f, s, Template(kind))
  BY DEF Become
<1> HIDE DEF f
<1>4. ~Live(f, s) /\ f \in Worlds
  BY <1>1, <1>2 DEF Live, Good
<1> DEFINE o == Template(kind)
<1>5. /\ o \in Objects /\ o.kind # "free" /\ o.tiles = {} /\ o.shown = FALSE /\ o.rider = NoOne
  BY TemplateType
<1> HIDE DEF o
<1>6. Good(Initialise(f, s, o), m)
  BY <1>1, <1>4, <1>5, InitialiseGood
<1>7. Initialise(f, s, o).obj[s] = o /\ \A r \in Slots \ {s} : Initialise(f, s, o).obj[r] = f.obj[r]
  BY <1>4, <1>5, InitialiseFields
<1> QED BY <1>2, <1>3, <1>5, <1>6, <1>7 DEF Live, o

LEMMA LeaveScreenGood ==
  ASSUME NEW w, NEW m, Good(w, m), NEW s \in Slots, Held(w, s, m)
  PROVE  Good(LeaveScreen(w, s), m)
<1>1. Good(Free(w, s), m)
  BY FreeGood
<1>2. Good(RestoreSpawnFlag(Free(w, s), s), m)
  BY <1>1, RestoreGood
<1> QED BY <1>1, <1>2 DEF LeaveScreen

LEMMA DespawnGood ==
  ASSUME NEW w, NEW m, Good(w, m), NEW s \in Slots, Live(w, s)
  PROVE  Good(Despawn(w, s), m)
<1> DEFINE r == w.obj[s].rider
           f == LeaveScreen(w, s)
<1>1. Good(f, m)
  BY LeaveScreenGood DEF Held
<1>2. r \in Slots \cup {NoOne} /\ (r # NoOne => r \in Slots /\ Linked(m))
  BY RiderType
<1>3. Despawn(w, s) = IF r = NoOne THEN f ELSE LeaveScreen(f, r)
  BY DEF Despawn
<1> HIDE DEF r, f
<1>4. ASSUME r # NoOne PROVE Good(LeaveScreen(f, r), m)
  <2>1. r \in Slots /\ Held(f, r, m)
    BY <1>2, <1>4 DEF Held
  <2> QED BY <1>1, <2>1, LeaveScreenGood
<1> QED BY <1>1, <1>3, <1>4

LEMMA DestroyGood ==
  ASSUME NEW w, NEW m, Good(w, m), NEW s \in Slots, Live(w, s), NEW mode \in BOOLEAN
  PROVE  Good(Destroy(w, s, mode), m)
<1>1. Good(Retire(w, s), m)
  BY RetireGood
<1>2. Good(Free(w, s), m)
  BY FreeGood DEF Held
<1>3. Good(Unlink(Free(w, s), w.obj[s].rider), m)
  BY <1>2, RiderType, UnlinkGood
<1> QED BY <1>1, <1>3 DEF Destroy

----------------------------------------------------------------------------
\* Objects that come into the table.

LEMMA FirstFreeType ==
  ASSUME NEW w, NEW pool \in PoolNames, NEW s \in FirstFree(w, pool)
  PROVE  s \in Slots \ {0} /\ ~Live(w, s)
<1> DEFINE p == Pools[pool]
<1>1. p \in Seq(Main \cup Extra)
  BY TableAssumption DEF TableAssumption
<1>2. PICK i \in DOMAIN p : s = p[i] /\ ~Live(w, p[i])
  BY DEF FirstFree
<1>3. s \in Main \cup Extra
  BY <1>1, <1>2
<1>4. s # 0
  BY <1>3, TableAssumption DEF TableAssumption, Main, Extra
<1> QED BY <1>2, <1>3, <1>4, SlotType

LEMMA SpawnedGood ==
  ASSUME NEW w, NEW m, Good(w, m), NEW pool \in PoolNames, NEW kind \in Kinds,
         NEW v \in Spawned(w, pool, Template(kind))
  PROVE  Good(v, m) /\ \A r \in Slots : Live(w, r) => Live(v, r)
<1>1. CASE v = w
  BY <1>1
<1>2. CASE v # w
  <2>1. PICK s \in FirstFree(w, pool) : v = Initialise(w, s, Template(kind))
    BY <1>2 DEF Spawned
  <2>2. s \in Slots /\ ~Live(w, s)
    BY FirstFreeType
  <2>3. Good(v, m)
    BY <2>1, <2>2, TemplateType, InitialiseGood
  <2>4. w \in Worlds /\ Template(kind) \in Objects
    BY TemplateType DEF Good
  <2>5. \A r \in Slots \ {s} : v.obj[r] = w.obj[r]
    BY <2>1, <2>2, <2>4, InitialiseFields
  <2> QED BY <2>2, <2>3, <2>5 DEF Live
<1> QED BY <1>1, <1>2

LEMMA SpawnedRiderGood ==
  ASSUME NEW w, NEW m, Good(w, m), Linked(m), NEW s \in Slots, NEW pool \in PoolNames,
         NEW kind \in Kinds, NEW v \in SpawnedRider(w, s, pool, Template(kind))
  PROVE  Good(v, m)
<1>1. CASE v = w
  BY <1>1
<1>2. CASE v # w
  <2>1. PICK r \in FirstFree(w, pool) : v = LinkedPair(Initialise(w, r, Template(kind)), s, r)
    BY <1>2 DEF SpawnedRider
  <2>2. r \in Slots /\ ~Live(w, r)
    BY FirstFreeType
  <2>3. Good(Initialise(w, r, Template(kind)), m)
    BY <2>2, TemplateType, InitialiseGood
  <2> QED BY <2>1, <2>2, <2>3, LinkedPairGood
<1> QED BY <1>1, <1>2

LEMMA PlacedGood ==
  ASSUME NEW w, NEW m, Good(w, m), NEW s \in Slots, ~Live(w, s), NEW c \in Cells,
         NEW site \in SiteKinds
  PROVE  Good(Placed(w, s, c, site), m)
<1> DEFINE o == [Template("actor") EXCEPT !.cell = c, !.owns = site.owns]
           f == Initialise(w, s, o)
           a == IF site.kept THEN f.armed ELSE f.armed \ {c}
           v == [f EXCEPT !.armed = a]
<1>1. o \in Objects /\ o.tiles = {} /\ o.shown = FALSE /\ o.rider = NoOne
  BY DEF Template, Objects, Kinds, SiteKinds
<1> HIDE DEF o
<1>2. Good(f, m)
  BY <1>1, InitialiseGood
<1>3. Placed(w, s, c, site) = v
  BY <1>2 DEF Placed, o, Good, Worlds
<1> HIDE DEF f
<1>4. f \in Worlds /\ a \in SUBSET Cells
  BY <1>2, WorldFields DEF Good
<1> HIDE DEF a
<1>5. /\ v \in Worlds /\ v.obj = f.obj /\ v.taken = f.taken
      /\ v.picture = f.picture /\ v.pending = f.pending
  BY <1>4 DEF Worlds
<1> HIDE DEF v
<1>6. \A r \in Slots : Live(v, r) <=> Live(f, r)
  BY <1>5 DEF Live
<1>7. ~Linked(m) => \A r \in Slots : f.obj[r].rider = NoOne
  BY <1>2 DEF Good, Safe
<1> QED BY <1>2, <1>3, <1>5, <1>6, <1>7, SameGood

----------------------------------------------------------------------------
\* A record moved with its tiles.

LEMMA MoveToFields ==
  ASSUME NEW w \in Worlds, NEW s \in Slots, NEW d \in Slots, s # d
  PROVE  /\ MoveTo(w, s, d) \in Worlds
         /\ MoveTo(w, s, d).obj[d].kind = "shot"
         /\ MoveTo(w, s, d).obj[d].tiles = w.obj[s].tiles
         /\ MoveTo(w, s, d).obj[d].shown = w.obj[s].shown
         /\ MoveTo(w, s, d).obj[d].rider = w.obj[s].rider
         /\ MoveTo(w, s, d).obj[s].kind = "free" /\ MoveTo(w, s, d).obj[s].rider = NoOne
         /\ \A r \in Slots \ {s, d} : MoveTo(w, s, d).obj[r] = w.obj[r]
         /\ MoveTo(w, s, d).taken = w.taken
         /\ MoveTo(w, s, d).picture = Renamed(Renamed(w.picture, d, Stale), s, d)
         /\ MoveTo(w, s, d).pending = Renamed(Renamed(w.pending, d, Stale), s, d)
<1> DEFINE o == [w.obj[s] EXCEPT !.kind = "shot"]
           b == [[w.obj EXCEPT ![d] = o] EXCEPT ![s] = Freed(w.obj[s])]
           p == Renamed(Renamed(w.picture, d, Stale), s, d)
           q == Renamed(Renamed(w.pending, d, Stale), s, d)
<1>1. w.obj \in [Slots -> Objects] /\ w.obj[s] \in Objects
  BY WorldFields
<1>2. /\ o \in Objects /\ o.kind = "shot" /\ o.tiles = w.obj[s].tiles
      /\ o.shown = w.obj[s].shown /\ o.rider = w.obj[s].rider
  BY <1>1 DEF Objects, Kinds
<1>3. Freed(w.obj[s]) \in Objects /\ Freed(w.obj[s]).kind = "free" /\ Freed(w.obj[s]).rider = NoOne
  BY <1>1, FreedFields
<1>4. p \in [Tiles -> Frames] /\ q \in [Tiles -> Frames]
  <2>1. /\ Renamed(w.picture, d, Stale) \in [Tiles -> Frames]
        /\ Renamed(w.pending, d, Stale) \in [Tiles -> Frames]
    BY WorldFields, RenamedType, FrameType
  <2> QED BY <2>1, RenamedType, FrameType
<1>5. MoveTo(w, s, d) = [w EXCEPT !.obj = b, !.picture = p, !.pending = q]
  BY <1>1 DEF MoveTo, Worlds
<1> HIDE DEF o, p, q
<1>6. /\ b \in [Slots -> Objects] /\ b[d] = o /\ b[s] = Freed(w.obj[s])
      /\ \A r \in Slots \ {s, d} : b[r] = w.obj[r]
  BY <1>1, <1>2, <1>3
<1> HIDE DEF b
<1>7. [w EXCEPT !.obj = b, !.picture = p, !.pending = q] \in Worlds
  BY <1>4, <1>6, WithFrames
<1>8. /\ MoveTo(w, s, d).obj = b /\ MoveTo(w, s, d).taken = w.taken
      /\ MoveTo(w, s, d).picture = p /\ MoveTo(w, s, d).pending = q
  BY <1>5 DEF Worlds
<1> QED BY <1>2, <1>3, <1>5, <1>6, <1>7, <1>8 DEF p, q

LEMMA MoveToGood ==
  ASSUME NEW w, NEW m, Good(w, m), ~Linked(m), NEW s \in Slots, Live(w, s),
         NEW d \in Slots, ~Live(w, d)
  PROVE  Good(MoveTo(w, s, d), m) /\ ~Live(MoveTo(w, s, d), s)
<1> DEFINE f == MoveTo(w, s, d)
<1>1. w \in Worlds /\ s # d
  BY DEF Good
<1>2. /\ f \in Worlds
      /\ f.obj[d].kind = "shot" /\ f.obj[d].tiles = w.obj[s].tiles
      /\ f.obj[d].shown = w.obj[s].shown /\ f.obj[d].rider = w.obj[s].rider
      /\ f.obj[s].kind = "free" /\ f.obj[s].rider = NoOne
      /\ \A r \in Slots \ {s, d} : f.obj[r] = w.obj[r]
      /\ f.taken = w.taken
      /\ f.picture = Renamed(Renamed(w.picture, d, Stale), s, d)
      /\ f.pending = Renamed(Renamed(w.pending, d, Stale), s, d)
  BY <1>1, MoveToFields
<1> HIDE DEF f
<1>3. Safe(f, m)
  <2>1. \A r \in Slots : f.obj[r].rider = NoOne
    BY <1>1, <1>2 DEF Good, Safe
  <2>2. ASSUME NEW r \in Slots, Live(f, r), NEW t \in f.obj[r].tiles
        PROVE  /\ t \in f.taken
               /\ \A u \in Slots : Live(f, u) /\ t \in f.obj[u].tiles => u = r
    <3> DEFINE Was(u) == IF u = d THEN s ELSE u
    <3>1. \A u \in Slots : Live(f, u) => /\ Was(u) \in Slots /\ Live(w, Was(u))
                                        /\ f.obj[u].tiles = w.obj[Was(u)].tiles
                                        /\ u # s
      BY <1>1, <1>2 DEF Live
    <3>2. t \in w.taken /\ \A u \in Slots : Live(w, u) /\ t \in w.obj[u].tiles => u = Was(r)
      BY <2>2, <3>1 DEF Good, Safe, Held
    <3> QED BY <1>2, <2>2, <3>1, <3>2
  <2> QED BY <2>1, <2>2 DEF Safe, Held
<1>4. ASSUME NEW t \in Tiles
      PROVE  /\ f.picture[t] = IF w.picture[t] = d THEN Stale
                               ELSE IF w.picture[t] = s THEN d ELSE w.picture[t]
             /\ f.pending[t] = IF w.pending[t] = d THEN Stale
                               ELSE IF w.pending[t] = s THEN d ELSE w.pending[t]
  BY <1>2, SlotType DEF Renamed
<1>5. ASSUME NEW t \in Tiles
      PROVE  Up(f, t) = IF Up(w, t) = d THEN Stale ELSE IF Up(w, t) = s THEN d ELSE Up(w, t)
  BY <1>4, SlotType DEF Up
<1>6. Own(f)
  <2> SUFFICES ASSUME NEW r \in Slots, Seen(f, r)
               PROVE  f.obj[r].tiles # {} /\ \A t \in f.obj[r].tiles : Up(f, t) = r
    BY DEF Own
  <2>1. r # s
    BY <1>2 DEF Seen, Live
  <2>2. CASE r = d
    <3>1. Seen(w, s) /\ f.obj[r].tiles = w.obj[s].tiles
      BY <1>2, <2>2 DEF Seen
    <3>2. \A t \in w.obj[s].tiles : t \in Tiles /\ Up(w, t) = s
      BY <3>1, <1>1, WorldFields, ObjectFields DEF Good, Own
    <3> QED BY <1>1, <1>5, <2>2, <3>1, <3>2 DEF Good, Own
  <2>3. CASE r # d
    <3>1. Seen(w, r) /\ f.obj[r].tiles = w.obj[r].tiles
      BY <1>2, <2>1, <2>3 DEF Seen, Live
    <3>2. \A t \in w.obj[r].tiles : t \in Tiles /\ Up(w, t) = r
      BY <3>1, <1>1, WorldFields, ObjectFields DEF Good, Own
    <3> QED BY <1>5, <2>1, <2>3, <3>1, <3>2 DEF Good, Own
  <2> QED BY <2>2, <2>3
<1>7. Leakless(m) => Tight(f) /\ ~Linked(m)
  <2> SUFFICES ASSUME Leakless(m), NEW t \in f.taken
               PROVE  \E r \in Slots : Live(f, r) /\ t \in f.obj[r].tiles
    BY DEF Tight
  <2>1. PICK u \in Slots : Live(w, u) /\ t \in w.obj[u].tiles
    BY <1>2 DEF Good, Tight
  <2>2. CASE u = s
    BY <1>2, <2>1, <2>2 DEF Live
  <2>3. CASE u # s
    BY <1>2, <2>1, <2>3 DEF Live
  <2> QED BY <2>2, <2>3
<1>8. Flushed(m) => Sent(f)
  BY <1>4, SlotType DEF Good, Sent
<1> QED BY <1>2, <1>3, <1>6, <1>7, <1>8 DEF Good, Live, f

----------------------------------------------------------------------------
\* Tiles, uploads, the queue.

LEMMA AllocatedGood ==
  ASSUME NEW w, NEW m, Good(w, m), NEW s \in Slots, Live(w, s), w.obj[s].tiles = {},
         NEW n \in Needs, NEW t0 \in FirstFit(w, n)
  PROVE  /\ Good(Allocated(w, s, t0, n), m)
         /\ Allocated(w, s, t0, n).obj[s].tiles # {} /\ Live(Allocated(w, s, t0, n), s)
         /\ Allocated(w, s, t0, n).obj[s].shown = FALSE
<1> DEFINE new == Run(t0, n)
           o == [w.obj[s] EXCEPT !.tiles = new]
           b == [w.obj EXCEPT ![s] = o]
           x == w.taken \cup new
           f == Allocated(w, s, t0, n)
<1>1. w \in Worlds /\ w.obj \in [Slots -> Objects] /\ w.obj[s] \in Objects /\ w.taken \in SUBSET Tiles
  BY WorldFields DEF Good
<1>2. new \in SUBSET Tiles /\ new # {} /\ new \cap w.taken = {}
  <2>1. n \in Int /\ 0 <= n /\ n <= TileSlots - 1 /\ TileSlots \in Int
    BY TableAssumption DEF TableAssumption
  <2>2. t0 \in 0..(TileSlots - n - 1) /\ new \cap w.taken = {}
    BY DEF FirstFit
  <2>3. t0 \in new /\ \A u \in new : u \in 0..(TileSlots - 1)
    BY <2>1, <2>2 DEF Run
  <2> QED BY <2>2, <2>3 DEF Tiles
<1>3. w.obj[s].shown = FALSE
  BY <1>1, ObjectFields DEF Good, Own, Seen
<1> HIDE DEF new
<1>4. /\ o \in Objects /\ o.kind = w.obj[s].kind /\ o.tiles = new
      /\ o.shown = FALSE /\ o.rider = w.obj[s].rider
  BY <1>1, <1>2, <1>3 DEF Objects
<1>5. f = [w EXCEPT !.obj = b, !.taken = x]
  BY <1>1 DEF Allocated, Worlds, new
<1> HIDE DEF o
<1>6. b \in [Slots -> Objects] /\ x \in SUBSET Tiles
  BY <1>1, <1>2, <1>4
<1> HIDE DEF f
<1>7. f \in Worlds
  <2> HIDE DEF b, x
  <2> QED BY <1>1, <1>5, <1>6, WithTaken
<1>8. f.obj = b /\ f.taken = x /\ f.picture = w.picture /\ f.pending = w.pending
  BY <1>1, <1>5 DEF Worlds
<1>9. f.obj[s] = o /\ \A r \in Slots \ {s} : f.obj[r] = w.obj[r]
  BY <1>1, <1>4, <1>8
<1> HIDE DEF b
<1>10. Safe(f, m)
  <2>1. ~Linked(m) => \A r \in Slots : f.obj[r].rider = NoOne
    BY <1>4, <1>9 DEF Good, Safe
  <2>2. ASSUME NEW r \in Slots, Held(f, r, m), NEW t \in f.obj[r].tiles
        PROVE  /\ t \in f.taken
               /\ \A u \in Slots : Held(f, u, m) /\ t \in f.obj[u].tiles => u = r
    <3>1. \A u \in Slots \ {s} : Held(f, u, m) => Held(w, u, m) /\ f.obj[u].tiles = w.obj[u].tiles
      BY <1>9 DEF Held, Live
    <3>2. \A u \in Slots \ {s} : Held(f, u, m) => f.obj[u].tiles \cap new = {} /\ f.obj[u].tiles \subseteq w.taken
      BY <3>1, <1>2 DEF Good, Safe
    <3>3. CASE r = s
      BY <1>4, <1>8, <1>9, <2>2, <3>2, <3>3
    <3>4. CASE r # s
      <4>1. t \in w.obj[r].tiles /\ Held(w, r, m) /\ t \notin new /\ t \in w.taken
        BY <2>2, <3>1, <3>2, <3>4
      <4>2. \A u \in Slots : Held(w, u, m) /\ t \in w.obj[u].tiles => u = r
        BY <4>1 DEF Good, Safe
      <4> QED BY <1>4, <1>8, <1>9, <3>1, <4>1, <4>2
    <3> QED BY <3>3, <3>4
  <2> QED BY <2>1, <2>2 DEF Safe
<1>11. Own(f)
  BY <1>4, <1>8, <1>9 DEF Good, Own, Seen, Live, Up
<1>12. Leakless(m) => Tight(f) /\ ~Linked(m)
  <2> SUFFICES ASSUME Leakless(m), NEW t \in f.taken
               PROVE  \E r \in Slots : Live(f, r) /\ t \in f.obj[r].tiles
    BY DEF Tight, Good
  <2>1. CASE t \in new
    BY <1>4, <1>9, <2>1 DEF Live
  <2>2. CASE t \in w.taken
    <3>1. PICK u \in Slots : Live(w, u) /\ t \in w.obj[u].tiles
      BY <2>2 DEF Good, Tight
    <3> QED BY <1>9, <3>1 DEF Live
  <2> QED BY <1>8, <2>1, <2>2
<1>13. Flushed(m) => Sent(f)
  BY <1>8 DEF Good, Sent
<1> QED BY <1>2, <1>4, <1>7, <1>9, <1>10, <1>11, <1>12, <1>13 DEF Good, Live, f

LEMMA DrawGood ==
  ASSUME NEW w, NEW m, Good(w, m), ~Flushed(m), NEW s \in Slots, Live(w, s),
         w.obj[s].tiles # {}
  PROVE  Good(Draw(w, s), m)
<1> DEFINE o == [w.obj[s] EXCEPT !.shown = TRUE]
           b == [w.obj EXCEPT ![s] = o]
           q == [t \in Tiles |-> IF t \in w.obj[s].tiles THEN s ELSE w.pending[t]]
           f == Draw(w, s)
<1>1. /\ w \in Worlds /\ w.obj \in [Slots -> Objects] /\ w.obj[s] \in Objects
      /\ w.picture \in [Tiles -> Frames] /\ w.pending \in [Tiles -> Frames]
  BY WorldFields DEF Good
<1>2. /\ o \in Objects /\ o.kind = w.obj[s].kind /\ o.tiles = w.obj[s].tiles
      /\ o.shown = TRUE /\ o.rider = w.obj[s].rider
  BY <1>1 DEF Objects
<1>3. f = [w EXCEPT !.obj = b, !.picture = w.picture, !.pending = q]
  BY <1>1 DEF Draw, Worlds
<1> HIDE DEF o
<1>4. b \in [Slots -> Objects] /\ b[s] = o /\ \A r \in Slots \ {s} : b[r] = w.obj[r]
  BY <1>1, <1>2
<1>5. q \in [Tiles -> Frames]
  BY <1>1, FrameType
<1> HIDE DEF b, f
<1>6. f \in Worlds
  <2> HIDE DEF q
  <2> QED BY <1>1, <1>3, <1>4, <1>5, WithFrames
<1>7. f.obj = b /\ f.taken = w.taken /\ f.picture = w.picture /\ f.pending = q
  BY <1>1, <1>3 DEF Worlds
<1>8. ASSUME NEW t \in Tiles
      PROVE  Up(f, t) = IF t \in w.obj[s].tiles THEN s ELSE Up(w, t)
  BY <1>7, SlotType DEF Up
<1> HIDE DEF q
<1>9. \A r \in Slots : /\ f.obj[r].tiles = w.obj[r].tiles /\ f.obj[r].rider = w.obj[r].rider
                       /\ f.obj[r].kind = w.obj[r].kind
                       /\ r # s => f.obj[r].shown = w.obj[r].shown
  BY <1>2, <1>4, <1>7
<1>10. Safe(f, m)
  BY <1>7, <1>9 DEF Good, Safe, Held, Live
<1>11. Own(f)
  <2> SUFFICES ASSUME NEW r \in Slots, Seen(f, r)
               PROVE  f.obj[r].tiles # {} /\ \A t \in f.obj[r].tiles : Up(f, t) = r
    BY DEF Own
  <2>1. \A t \in f.obj[r].tiles : t \in Tiles
    BY <1>6, WorldFields, ObjectFields
  <2>2. CASE r = s
    BY <1>8, <1>9, <2>1, <2>2
  <2>3. CASE r # s
    <3>1. Seen(w, r) /\ Held(w, r, m) /\ Held(w, s, m)
      BY <1>9, <2>3 DEF Seen, Live, Held
    <3>2. \A t \in w.obj[r].tiles : t \notin w.obj[s].tiles
      BY <2>3, <3>1 DEF Good, Safe
    <3>3. w.obj[r].tiles # {} /\ \A t \in w.obj[r].tiles : Up(w, t) = r
      BY <3>1 DEF Good, Own
    <3> QED BY <1>8, <1>9, <2>1, <3>2, <3>3
  <2> QED BY <2>2, <2>3
<1>12. Leakless(m) => Tight(f) /\ ~Linked(m)
  BY <1>7, <1>9 DEF Good, Tight, Live
<1> QED BY <1>6, <1>10, <1>11, <1>12 DEF Good, f

LEMMA DropGood ==
  ASSUME NEW w, NEW m, Good(w, m), NEW s \in Slots, w.obj[s].tiles = {}
  PROVE  Good(Drop(w, s), m)
<1> DEFINE a == RestoreSpawnFlag(w, s)
           r == w.obj[s].rider
           b == Kill(a, s)
           c == RestoreSpawnFlag(b, r)
<1>1. Good(a, m) /\ a.obj = w.obj
  BY RestoreGood
<1>2. r \in Slots \cup {NoOne} /\ (r # NoOne => r \in Slots /\ Linked(m))
  BY RiderType
<1>3. Drop(w, s) = IF r = NoOne THEN b ELSE Kill(c, r)
  BY DEF Drop
<1> HIDE DEF a, r
<1>4. Good(b, m)
  BY <1>1, KillGood
<1> HIDE DEF b
<1>5. ASSUME r # NoOne PROVE Good(Kill(c, r), m)
  <2>1. Good(c, m)
    BY <1>2, <1>4, <1>5, RestoreGood
  <2> HIDE DEF c
  <2> QED BY <1>2, <1>5, <2>1, KillGood
<1> QED BY <1>3, <1>4, <1>5

LEMMA ClearedKindGood ==
  ASSUME NEW w, NEW m, Good(w, m), NEW S \in SUBSET Slots, \A s \in S : Live(w, s)
  PROVE  /\ Good(ClearedKind(w, S), m)
         /\ \A r \in Slots \ S : Live(w, r) => Live(ClearedKind(w, S), r)
<1> DEFINE New(r) == [Freed(w.obj[r]) EXCEPT !.tiles = {}]
           b == [r \in Slots |-> IF r \in S THEN New(r) ELSE w.obj[r]]
           x == w.taken \ UNION {w.obj[r].tiles : r \in S}
           f == ClearedKind(w, S)
<1>1. w \in Worlds /\ w.obj \in [Slots -> Objects] /\ w.taken \in SUBSET Tiles
  BY WorldFields DEF Good
<1>2. \A r \in Slots : /\ New(r) \in Objects /\ New(r).kind = "free" /\ New(r).tiles = {}
                       /\ New(r).rider = NoOne
  <2>1. \A o \in Objects : LET n == [o EXCEPT !.tiles = {}]
                           IN  n \in Objects /\ n.tiles = {} /\ n.kind = o.kind /\ n.rider = o.rider
    BY DEF Objects
  <2>2. \A r \in Slots : /\ Freed(w.obj[r]) \in Objects /\ Freed(w.obj[r]).kind = "free"
                         /\ Freed(w.obj[r]).rider = NoOne
    BY <1>1, FreedFields
  <2> QED BY <2>1, <2>2
<1>3. f = [w EXCEPT !.obj = b, !.taken = x]
  BY <1>1 DEF ClearedKind, Worlds
<1> HIDE DEF New, f
<1>4. /\ b \in [Slots -> Objects]
      /\ \A r \in S : b[r].kind = "free" /\ b[r].tiles = {} /\ b[r].rider = NoOne
      /\ \A r \in Slots \ S : b[r] = w.obj[r]
  BY <1>1, <1>2
<1>5. x \in SUBSET Tiles
  BY <1>1
<1>6. f \in Worlds
  <2> HIDE DEF b, x
  <2> QED BY <1>1, <1>3, <1>4, <1>5, WithTaken
<1>7. f.obj = b /\ f.taken = x /\ f.picture = w.picture /\ f.pending = w.pending
  BY <1>1, <1>3 DEF Worlds
<1> HIDE DEF b
<1>8. Safe(f, m)
  <2>1. ~Linked(m) => \A r \in Slots : f.obj[r].rider = NoOne
    BY <1>4, <1>7 DEF Good, Safe
  <2>2. ASSUME NEW r \in Slots, Held(f, r, m), NEW t \in f.obj[r].tiles
        PROVE  /\ t \in f.taken
               /\ \A u \in Slots : Held(f, u, m) /\ t \in f.obj[u].tiles => u = r
    <3>1. \A u \in Slots : t \in f.obj[u].tiles /\ Held(f, u, m) =>
             u \notin S /\ Held(w, u, m) /\ t \in w.obj[u].tiles
      BY <1>4, <1>7 DEF Held, Live
    <3>2. r \notin S /\ t \in w.taken /\ \A u \in Slots : Held(w, u, m) /\ t \in w.obj[u].tiles => u = r
      BY <2>2, <3>1 DEF Good, Safe
    <3>3. \A u \in S : t \notin w.obj[u].tiles
      BY <3>2 DEF Held
    <3> QED BY <1>7, <3>1, <3>2, <3>3
  <2> QED BY <2>1, <2>2 DEF Safe
<1>9. Own(f)
  BY <1>4, <1>7 DEF Good, Own, Seen, Live, Up
<1>10. Leakless(m) => Tight(f) /\ ~Linked(m)
  <2> SUFFICES ASSUME Leakless(m), NEW t \in f.taken
               PROVE  \E r \in Slots : Live(f, r) /\ t \in f.obj[r].tiles
    BY DEF Tight, Good
  <2>1. PICK u \in Slots : Live(w, u) /\ t \in w.obj[u].tiles
    BY <1>7 DEF Good, Tight
  <2>2. u \notin S
    BY <1>7, <2>1
  <2> QED BY <1>4, <1>7, <2>1, <2>2 DEF Live
<1>11. Flushed(m) => Sent(f)
  BY <1>7 DEF Good, Sent
<1> QED BY <1>4, <1>6, <1>7, <1>8, <1>9, <1>10, <1>11 DEF Good, Live, f

\* Records out of use become letters, which have no tiles yet.
LEMMA LetteredFields ==
  ASSUME NEW w \in Worlds, NEW S \in SUBSET Slots
  PROVE  LET v == Lettered(w, S)
         IN  /\ v \in Worlds /\ v.taken = w.taken /\ v.armed = w.armed
             /\ \A r \in S : v.obj[r] = Template("glyph")
             /\ \A r \in Slots \ S : v.obj[r] = w.obj[r]
             /\ \A t \in Tiles :
                    /\ v.picture[t] = IF w.picture[t] \in S THEN Stale ELSE w.picture[t]
                    /\ v.pending[t] = IF w.pending[t] \in S THEN Stale ELSE w.pending[t]
<1> DEFINE o == [r \in Slots |-> IF r \in S THEN Template("glyph") ELSE w.obj[r]]
           p == [t \in Tiles |-> IF w.picture[t] \in S THEN Stale ELSE w.picture[t]]
           q == [t \in Tiles |-> IF w.pending[t] \in S THEN Stale ELSE w.pending[t]]
           v == Lettered(w, S)
<1>1. /\ w.obj \in [Slots -> Objects]
      /\ w.picture \in [Tiles -> Frames] /\ w.pending \in [Tiles -> Frames]
  BY WorldFields
<1>2. o \in [Slots -> Objects]
  <2>1. Template("glyph") \in Objects
    BY TemplateType DEF Kinds
  <2> QED BY <1>1, <2>1
<1>3. p \in [Tiles -> Frames] /\ q \in [Tiles -> Frames]
  BY <1>1, FrameType
<1>4. v = [w EXCEPT !.obj = o, !.picture = p, !.pending = q]
  BY DEF Lettered, Worlds
<1> HIDE DEF v
<1>5. v \in Worlds /\ v.obj = o /\ v.picture = p /\ v.pending = q
      /\ v.taken = w.taken /\ v.armed = w.armed
  <2> HIDE DEF o, p, q
  <2> QED BY <1>2, <1>3, <1>4, WithFrames DEF Worlds
<1> QED BY <1>5 DEF v

LEMMA LetteredGood ==
  ASSUME NEW w, NEW m, Good(w, m), NEW S \in SUBSET Slots, \A s \in S : ~Live(w, s)
  PROVE  Good(Lettered(w, S), m)
<1> DEFINE v == Lettered(w, S)
           o == Template("glyph")
<1>1. w \in Worlds /\ o.tiles = {} /\ o.shown = FALSE /\ o.rider = NoOne
  BY DEF Good, Template
<1>2. /\ v \in Worlds /\ v.taken = w.taken
      /\ \A r \in S : v.obj[r] = o
      /\ \A r \in Slots \ S : v.obj[r] = w.obj[r]
      /\ \A t \in Tiles :
             /\ v.picture[t] = IF w.picture[t] \in S THEN Stale ELSE w.picture[t]
             /\ v.pending[t] = IF w.pending[t] \in S THEN Stale ELSE w.pending[t]
  BY <1>1, LetteredFields
<1> HIDE DEF v, o
<1>3. Safe(v, m)
  <2>1. ASSUME NEW r \in Slots PROVE /\ v.obj[r].tiles = {} \/ v.obj[r] = w.obj[r]
                                     /\ v.obj[r].rider = NoOne \/ v.obj[r] = w.obj[r]
    BY <1>1, <1>2
  <2> QED BY <1>2, <2>1 DEF Good, Safe, Held, Live
<1>4. Own(v)
  <2> SUFFICES ASSUME NEW r \in Slots, Seen(v, r)
               PROVE  v.obj[r].tiles # {} /\ \A t \in v.obj[r].tiles : Up(v, t) = r
    BY DEF Own
  <2>1. r \notin S /\ v.obj[r] = w.obj[r] /\ Seen(w, r)
    BY <1>1, <1>2 DEF Seen, Live
  <2>2. ASSUME NEW t \in w.obj[r].tiles PROVE Up(v, t) = r
    <3>1. t \in Tiles /\ Up(w, t) = r
      BY <1>1, <2>1, <2>2, WorldFields, ObjectFields DEF Good, Own
    <3>2. NoOne \notin S /\ Stale # NoOne
      BY SlotType
    <3> QED BY <1>2, <2>1, <3>1, <3>2 DEF Up
  <2> QED BY <1>1, <2>1, <2>2 DEF Good, Own
<1>5. Leakless(m) => Tight(v) /\ ~Linked(m)
  <2>1. \A r \in Slots : Live(w, r) => v.obj[r] = w.obj[r]
    BY <1>2
  <2> QED BY <1>2, <2>1 DEF Good, Tight, Live
<1>6. Flushed(m) => Sent(v)
  <2>1. NoOne \notin S /\ Stale # NoOne
    BY SlotType
  <2> QED BY <1>2, <2>1 DEF Good, Sent
<1> QED BY <1>2, <1>3, <1>4, <1>5, <1>6 DEF Good, v

\* The letters of the last message go, those of the new one come.
LEMMA MessagesGood ==
  ASSUME NEW w, NEW m, Good(w, m), NEW v \in Messages(w)
  PROVE  /\ Good(v, m)
         /\ v.obj[0] = w.obj[0] /\ v.taken \subseteq w.taken /\ v.armed = w.armed
         /\ \A r \in Slots : \/ v.obj[r] = w.obj[r] \/ v.obj[r].kind = "free"
                             \/ v.obj[r] = Template("glyph")
<1> DEFINE G == Glyphs(w)
           f == ClearedKind(w, G)
<1>1. w \in Worlds /\ w.obj \in [Slots -> Objects]
  BY WorldFields DEF Good
<1>2. G \in SUBSET Slots /\ 0 \notin G /\ \A s \in G : Live(w, s)
  BY DEF Glyphs, Live
<1>3. Good(f, m)
  BY <1>2, ClearedKindGood
<1>4. PICK S \in SUBSET Unused(f) : v = Lettered(f, S)
  BY DEF Messages
<1>5. /\ f.armed = w.armed /\ f.taken \subseteq w.taken
      /\ \A r \in Slots \ G : f.obj[r] = w.obj[r]
      /\ \A r \in G : f.obj[r].kind = "free"
  <2>1. \A r \in Slots : /\ Freed(w.obj[r]) \in Objects /\ Freed(w.obj[r]).kind = "free"
    BY <1>1, FreedFields
  <2>2. \A o \in Objects : [o EXCEPT !.tiles = {}].kind = o.kind
    BY DEF Objects
  <2>3. /\ f.obj = [r \in Slots |-> IF r \in G THEN [Freed(w.obj[r]) EXCEPT !.tiles = {}]
                                              ELSE w.obj[r]]
        /\ f.armed = w.armed /\ f.taken \subseteq w.taken
    BY <1>1 DEF ClearedKind, Worlds
  <2> HIDE DEF f, G
  <2> QED BY <1>2, <2>1, <2>2, <2>3
<1> HIDE DEF f, G
<1>6. S \in SUBSET Slots /\ 0 \notin S /\ \A s \in S : ~Live(f, s)
  BY <1>4 DEF Unused
<1>7. Good(v, m)
  BY <1>3, <1>4, <1>6, LetteredGood
<1>8. /\ v.taken = f.taken /\ v.armed = f.armed
      /\ \A r \in S : v.obj[r] = Template("glyph")
      /\ \A r \in Slots \ S : v.obj[r] = f.obj[r]
  BY <1>3, <1>4, <1>6, LetteredFields DEF Good
<1> QED BY <1>2, <1>5, <1>6, <1>7, <1>8, SlotType

\* The same table, for one who relies on less.
LEMMA LessGood ==
  ASSUME NEW w, NEW m, Good(w, m), NEW n, Linked(n) <=> Linked(m),
         Leakless(n) => Leakless(m), Flushed(n) => Flushed(m)
  PROVE  Good(w, n)
<1>1. Safe(w, n)
  BY DEF Good, Safe, Held
<1> QED BY <1>1 DEF Good

\* Only what the tile slots show, and will show, has changed.
LEMMA FramesGood ==
  ASSUME NEW w, NEW m, Good(w, m), NEW n, Linked(n) <=> Linked(m), Leakless(n) => Leakless(m),
         NEW v \in Worlds, v.obj = w.obj, v.taken = w.taken,
         \A t \in Tiles : Up(v, t) = Up(w, t), Flushed(n) => Sent(v)
  PROVE  Good(v, n)
<1>1. w \in Worlds
  BY DEF Good
<1>2. Safe(v, n)
  BY DEF Good, Safe, Held, Live
<1>3. Own(v)
  <2>1. \A r \in Slots : \A t \in w.obj[r].tiles : t \in Tiles
    BY <1>1, WorldFields, ObjectFields
  <2> QED BY <2>1 DEF Good, Own, Seen, Live
<1>4. Leakless(n) => Tight(v) /\ ~Linked(n)
  BY DEF Good, Tight, Live
<1> QED BY <1>2, <1>3, <1>4 DEF Good

LEMMA FlushGood ==
  ASSUME NEW w, NEW m, Good(w, m), NEW n, Linked(n) <=> Linked(m), Leakless(n) => Leakless(m)
  PROVE  Good(Flush(w), n)
<1> DEFINE p == [t \in Tiles |-> IF w.pending[t] = NoOne THEN w.picture[t] ELSE w.pending[t]]
           v == Flush(w)
<1>1. w \in Worlds /\ w.picture \in [Tiles -> Frames] /\ w.pending \in [Tiles -> Frames]
  BY WorldFields DEF Good
<1>2. p \in [Tiles -> Frames]
  BY <1>1
<1>3. v = [w EXCEPT !.picture = p]
  BY <1>1 DEF Flush, Worlds
<1> HIDE DEF v
<1>4. \A t \in Tiles : p[t] = Up(w, t) /\ (w.pending[t] # NoOne => p[t] = w.pending[t])
  BY DEF Up
<1> HIDE DEF p
<1>5. /\ v \in Worlds /\ v.obj = w.obj /\ v.taken = w.taken
      /\ v.picture = p /\ v.pending = w.pending
  BY <1>1, <1>2, <1>3 DEF Worlds
<1>6. \A t \in Tiles : Up(v, t) = Up(w, t)
  BY <1>4, <1>5 DEF Up
<1>7. Sent(v)
  BY <1>4, <1>5 DEF Sent
<1> QED BY <1>5, <1>6, <1>7, FramesGood DEF v

LEMMA ClearQueueGood ==
  ASSUME NEW w, NEW m, Good(w, m), Flushed(m)
  PROVE  Good(ClearQueue(w), m)
<1> DEFINE q == [t \in Tiles |-> NoOne]
           v == ClearQueue(w)
<1>1. w \in Worlds
  BY DEF Good
<1>2. q \in [Tiles -> Frames] /\ \A t \in Tiles : q[t] = NoOne
  BY FrameType
<1>3. v = [w EXCEPT !.pending = q]
  BY DEF ClearQueue
<1> HIDE DEF v, q
<1>4. /\ v \in Worlds /\ v.obj = w.obj /\ v.taken = w.taken
      /\ v.picture = w.picture /\ v.pending = q
  BY <1>1, <1>2, <1>3 DEF Worlds
<1>5. \A t \in Tiles : Up(v, t) = Up(w, t)
  BY <1>2, <1>4 DEF Good, Sent, Up
<1>6. Sent(v)
  BY <1>2, <1>4 DEF Sent
<1> QED BY <1>4, <1>5, <1>6, FramesGood DEF v

\* A table with the player alone, nothing held.
LEMMA FreshGood ==
  ASSUME NEW w \in Worlds, NEW m, Leakless(m) => ~Linked(m),
         w.obj = [s \in Slots |-> Template(IF s = 0 THEN "player" ELSE "free")], w.taken = {},
         Flushed(m) => Sent(w)
  PROVE  Good(w, m)
<1>1. \A s \in Slots : /\ w.obj[s].tiles = {} /\ w.obj[s].shown = FALSE
                       /\ w.obj[s].rider = NoOne
  BY DEF Template
<1>2. Safe(w, m) /\ Own(w) /\ Tight(w)
  BY <1>1 DEF Safe, Own, Tight, Seen
<1> QED BY <1>2 DEF Good

LEMMA FreshType ==
  [s \in Slots |-> Template(IF s = 0 THEN "player" ELSE "free")] \in [Slots -> Objects]
  BY TemplateType DEF Kinds

LEMMA ResetGood ==
  ASSUME NEW w \in Worlds, NEW m, Leakless(m) => ~Linked(m), NEW cells \in SUBSET Cells
  PROVE  Good(Reset(w, cells), m)
<1> DEFINE f == Reset(w, cells)
<1>1. w.pending \in [Tiles -> Frames]
  BY WorldFields
<1>2. /\ [t \in Tiles |-> Stale] \in [Tiles -> Frames]
      /\ [t \in Tiles |-> IF w.pending[t] = NoOne THEN NoOne ELSE Stale] \in [Tiles -> Frames]
  BY <1>1, FrameType
<1>3. f \in Worlds
  BY <1>2, FreshType DEF Reset, Worlds
<1>4. Sent(f)
  BY SlotType DEF Reset, Sent
<1>5. f.obj = [s \in Slots |-> Template(IF s = 0 THEN "player" ELSE "free")] /\ f.taken = {}
  BY DEF Reset
<1> HIDE DEF f
<1> QED BY <1>3, <1>4, <1>5, FreshGood DEF f

----------------------------------------------------------------------------
\* The steps.

\* The passes that find frames queued and not sent.
Unsent == {"drawAnimation", "drawStrips", "first", "begin", "animation"}

\* What may be relied on in a state.
Relied == {x \in {"linked", "leakless", "flushed"} :
              \/ x = "linked" /\ Linking(level)
              \/ x = "leakless" /\ ~Linking(level) /\ ~level.overwrites
              \/ x = "flushed" /\ pass \notin Unsent}

\* The inductive invariant: the table is good, and the projectile whose box is held is in use.
IInv == /\ TypeOK
        /\ Good(world, Relied)
        /\ running => at \in Slots
        /\ running /\ pass = "shots" => Held(world, at, Relied)

LEMMA ReliedModes ==
  /\ Linked(Relied) <=> Linking(level)
  /\ Leakless(Relied) <=> ~Linking(level) /\ ~level.overwrites
  /\ Flushed(Relied) <=> pass \notin Unsent
  BY DEF Relied, Linked, Leakless, Flushed

LEMMA ReliedSame ==
  ASSUME level' = level, pass' = pass
  PROVE  Relied' = Relied
  BY DEF Relied, Linking

LEMMA LevelType ==
  ASSUME TypeOK
  PROVE  /\ level.throws => ~Linking(level)
         /\ level.links => Linking(level)
         /\ DOMAIN level.sites \in SUBSET Cells
         /\ \A c \in DOMAIN level.sites : /\ c \in Cells /\ level.sites[c] \in SiteKinds
                                          /\ level.sites[c].pair => Linking(level)
<1>1. level \in LevelKinds /\ (level.throws => ~Linking(level))
  BY LevelAssumption DEF LevelAssumption, TypeOK
<1>2. PICK S \in SUBSET Cells : level.sites \in [S -> SiteKinds]
  BY <1>1 DEF LevelKinds
<1> QED BY <1>1, <1>2 DEF Linking

LEMMA SpawnSiteGood ==
  ASSUME IInv, NEW c \in DOMAIN level.sites, SpawnSite(c)
  PROVE  Good(world', Relied)
<1> DEFINE site == level.sites[c]
<1>1. Good(world, Relied) /\ c \in Cells /\ site \in SiteKinds /\ (site.pair => Linked(Relied))
  BY LevelType, ReliedModes DEF IInv
<1>2. CASE ~site.pair
  <2>1. PICK pool \in PoolNames \ {"extra"} : \E s \in FirstFree(world, pool) :
               world' = Placed(world, s, c, site)
    BY <1>2 DEF SpawnSite, SpawnOne
  <2>2. PICK s \in FirstFree(world, pool) : world' = Placed(world, s, c, site)
    BY <2>1
  <2>3. s \in Slots /\ ~Live(world, s)
    BY FirstFreeType
  <2> QED BY <1>1, <2>2, <2>3, PlacedGood
<1>3. CASE site.pair
  <2>0. PICK pool \in PoolNames \ {"extra"} : \E s \in FirstFree(world, pool) :
          \/ world' = Placed(world, s, c, site)
          \/ \E r \in FirstFree(Placed(world, s, c, site), pool) :
                world' = LinkedPair(Placed(Placed(world, s, c, site), r, c, site), s, r)
    BY <1>3 DEF SpawnSite, SpawnPair
  <2>1. PICK s \in FirstFree(world, pool) :
          \/ world' = Placed(world, s, c, site)
          \/ \E r \in FirstFree(Placed(world, s, c, site), pool) :
                world' = LinkedPair(Placed(Placed(world, s, c, site), r, c, site), s, r)
    BY <2>0
  <2> DEFINE v == Placed(world, s, c, site)
  <2>2. s \in Slots /\ ~Live(world, s)
    BY FirstFreeType
  <2>3. Good(v, Relied)
    BY <1>1, <2>2, PlacedGood
  <2> HIDE DEF v
  <2>4. ASSUME NEW r \in FirstFree(v, pool) PROVE Good(LinkedPair(Placed(v, r, c, site), s, r), Relied)
    <3>1. r \in Slots /\ ~Live(v, r)
      BY FirstFreeType
    <3>2. Good(Placed(v, r, c, site), Relied)
      BY <1>1, <2>3, <3>1, PlacedGood
    <3> QED BY <1>1, <1>3, <2>2, <3>1, <3>2, LinkedPairGood
  <2> QED BY <2>1, <2>3, <2>4 DEF v
<1> QED BY <1>2, <1>3

LEMMA KindsUsed == {"player", "actor", "effect", "shot", "glyph"} = Kinds \ {"free"}
  BY DEF Kinds

LEMMA ScriptGood ==
  ASSUME IInv, NEW s \in Slots,
         \/ OpDestroy(s) \/ OpSpawn(s) \/ OpSpawnPlayer(s) \/ OpDropRider(s)
         \/ OpBecomeSplash(s) \/ OpTransform(s) \/ OpStop(s)
  PROVE  Good(world', Relied)
<1>1. Good(world, Relied) /\ Live(world, s) /\ world \in Worlds
  BY DEF IInv, Good, CanRun, OpDestroy, OpSpawn, OpSpawnPlayer, OpDropRider, OpBecomeSplash,
         OpTransform, OpStop
<1>2. CASE OpDestroy(s)
  <2>1. PICK mode \in BOOLEAN : world' = Destroy(world, s, mode)
    BY <1>2 DEF OpDestroy
  <2> QED BY <1>1, <2>1, DestroyGood
<1>3. CASE OpSpawn(s)
  <2>1. PICK pool \in PoolNames, kind \in {"shot", "actor"} :
          \/ world' \in Spawned(world, pool, Template(kind))
          \/ level.links /\ world' \in SpawnedRider(world, s, pool, Template(kind))
    BY <1>3 DEF OpSpawn
  <2>2. kind \in Kinds /\ (level.links => Linked(Relied))
    BY KindsUsed, LevelType, ReliedModes DEF IInv
  <2> QED BY <1>1, <2>1, <2>2, SpawnedGood, SpawnedRiderGood
<1>4. CASE OpSpawnPlayer(s)
  <2>1. world' = Initialise(world, 0, Template("effect")) /\ ~Live(world, 0)
    BY <1>4 DEF OpSpawnPlayer
  <2> QED BY <1>1, <2>1, KindsUsed, SlotType, TemplateType, InitialiseGood
<1>5. CASE OpDropRider(s)
  <2>1. world' = FreeRider(world, world.obj[s].rider)
    BY <1>5 DEF OpDropRider
  <2> QED BY <1>1, <2>1, RiderType, FreeRiderGood
<1>6. CASE OpBecomeSplash(s)
  <2>1. world' = Become(world, s, "effect") /\ Held(world, s, Relied)
    BY <1>1, <1>6 DEF OpBecomeSplash, Held
  <2> QED BY <1>1, <2>1, KindsUsed, BecomeGood
<1>7. CASE OpTransform(s)
  <2>1. PICK t \in Main : /\ world.obj[t].kind = "actor"
                         /\ world' = Retyped(RestoreSpawnFlag(world, t), t, "effect")
    BY <1>7 DEF OpTransform
  <2> DEFINE v == RestoreSpawnFlag(world, t)
  <2>2. t \in Slots
    BY SlotType
  <2>3. Good(v, Relied) /\ v.obj = world.obj
    BY <1>1, <2>2, RestoreGood
  <2> HIDE DEF v
  <2>4. Live(v, t)
    BY <2>1, <2>3 DEF Live
  <2>5. Good(Retyped(v, t, "effect"), Relied)
    BY <2>2, <2>3, <2>4, KindsUsed, RetypedGood
  <2> QED BY <2>1, <2>5 DEF v
<1>8. CASE OpStop(s)
  BY <1>1, <1>8 DEF OpStop
<1> QED BY <1>2, <1>3, <1>4, <1>5, <1>6, <1>7, <1>8

LEMMA MotionGood ==
  ASSUME IInv, NEW s \in Slots, LeaveScreenAt(s) \/ SplatAt(s)
  PROVE  Good(world', Relied)
<1>1. Good(world, Relied) /\ Live(world, s) /\ Held(world, s, Relied)
  BY DEF IInv, LeaveScreenAt, SplatAt, Seen, Held
<1>2. CASE LeaveScreenAt(s)
  BY <1>1, <1>2, DespawnGood DEF LeaveScreenAt
<1>3. CASE SplatAt(s)
  BY <1>1, <1>3, KindsUsed, BecomeGood DEF SplatAt
<1> QED BY <1>2, <1>3

LEMMA ContactGood ==
  ASSUME IInv, NEW s \in Slots,
         \/ Struck(s) \/ Collected(s) \/ Broken(s) \/ Rearmed(s) \/ Spent(s)
         \/ Thrown(s) \/ KindCleared(s) \/ Spoken(s)
  PROVE  Good(world', Relied)
<1>1. /\ Good(world, Relied) /\ Live(world, s) /\ Held(world, s, Relied)
      /\ s \in Main
  BY DEF IInv, Struck, Collected, Broken, Rearmed, Spent, Thrown, KindCleared, Spoken, Touched,
         Seen, Held
<1>2. CASE Struck(s)
  <2>1. PICK retired \in BOOLEAN :
          LET w1 == IF retired THEN Retire(world, s) ELSE world
              w2 == Become(w1, s, "effect")
          IN  world' \in {w2} \cup Spawned(w2, "down", Template("actor"))
    BY <1>2 DEF Struck
  <2> DEFINE w1 == IF retired THEN Retire(world, s) ELSE world
             w2 == Become(w1, s, "effect")
  <2>2. Good(w1, Relied) /\ (Held(w1, s, Relied) \/ w1.obj[s].tiles = {})
    BY <1>1, RetireGood
  <2>3. world' \in {w2} \cup Spawned(w2, "down", Template("actor"))
    BY <2>1
  <2> HIDE DEF w1
  <2>4. Good(w2, Relied)
    BY <2>2, KindsUsed, BecomeGood
  <2> HIDE DEF w2
  <2> QED BY <2>3, <2>4, KindsUsed, SpawnedGood DEF PoolNames
<1>3. CASE Collected(s)
  <2>1. PICK full \in BOOLEAN :
          world' = Become(Retire(IF full THEN RestoreSpawnFlag(world, s) ELSE world, s), s, "effect")
    BY <1>3 DEF Collected
  <2> DEFINE w1 == IF full THEN RestoreSpawnFlag(world, s) ELSE world
             w2 == Retire(w1, s)
  <2>2. Good(w1, Relied) /\ Live(w1, s)
    BY <1>1, RestoreGood DEF Live
  <2>3. world' = Become(w2, s, "effect")
    BY <2>1
  <2> HIDE DEF w1
  <2>4. Good(w2, Relied) /\ w2.obj[s].tiles = {}
    BY <2>2, RetireGood
  <2> HIDE DEF w2
  <2> QED BY <2>3, <2>4, KindsUsed, BecomeGood
<1>4. CASE Broken(s)
  <2>1. PICK kind \in {"actor", "effect"} :
          LET w1 == Retyped(world, s, kind)
          IN  world' \in {w1} \cup Spawned(w1, "middle", Template("actor"))
                            \cup Spawned(w1, "up", Template("effect"))
    BY <1>4 DEF Broken
  <2> DEFINE w1 == Retyped(world, s, kind)
  <2>2. Good(w1, Relied)
    BY <1>1, KindsUsed, RetypedGood
  <2>3. world' \in {w1} \cup Spawned(w1, "middle", Template("actor"))
                      \cup Spawned(w1, "up", Template("effect"))
    BY <2>1
  <2> HIDE DEF w1
  <2> QED BY <2>2, <2>3, KindsUsed, SpawnedGood DEF PoolNames
<1>5. CASE Rearmed(s)
  BY <1>1, <1>5, RestoreGood DEF Rearmed
<1>6. CASE Spent(s)
  BY <1>1, <1>6, FreeGood DEF Spent
<1>7. CASE Thrown(s)
  <2>1. PICK d \in FirstFree(world, "extra") :
          LET w1 == MoveTo(world, s, d)
              w2 == Disowned(Disowned(w1, d), s)
          IN  world' \in {w1} \cup Spawned(w2, "up", Template("effect"))
    BY <1>7 DEF Thrown
  <2> DEFINE w1 == MoveTo(world, s, d)
             w2 == Disowned(w1, d)
             w3 == Disowned(w2, s)
  <2>2. d \in Slots /\ ~Live(world, d)
    BY FirstFreeType DEF PoolNames
  <2>3. ~Linked(Relied)
    BY <1>7, LevelType, ReliedModes DEF IInv, Thrown
  <2>4. Good(w1, Relied)
    BY <1>1, <2>2, <2>3, MoveToGood
  <2>5. world' \in {w1} \cup Spawned(w3, "up", Template("effect"))
    BY <2>1
  <2> HIDE DEF w1
  <2>6. Good(w2, Relied)
    BY <2>2, <2>4, DisownedGood
  <2> HIDE DEF w2
  <2>7. Good(w3, Relied)
    BY <2>6, DisownedGood
  <2> HIDE DEF w3
  <2> QED BY <2>4, <2>5, <2>7, KindsUsed, SpawnedGood DEF PoolNames
<1>8. CASE KindCleared(s)
  <2>1. PICK S \in SUBSET {t \in Main \ {s} : world.obj[t].kind = "actor"} :
          world' = Become(Retire(ClearedKind(world, S), s), s, "effect")
    BY <1>8 DEF KindCleared
  <2> DEFINE w1 == ClearedKind(world, S)
             w2 == Retire(w1, s)
  <2>2. S \in SUBSET Slots /\ s \notin S /\ \A t \in S : Live(world, t)
    BY SlotType DEF Live
  <2>3. Good(w1, Relied) /\ Live(w1, s)
    BY <1>1, <2>2, ClearedKindGood
  <2> HIDE DEF w1
  <2>4. Good(w2, Relied) /\ w2.obj[s].tiles = {}
    BY <2>3, RetireGood
  <2> HIDE DEF w2
  <2> QED BY <2>1, <2>4, KindsUsed, BecomeGood DEF w1, w2
<1>9. CASE Spoken(s)
  BY <1>1, <1>9, MessagesGood DEF Spoken
<1> QED BY <1>2, <1>3, <1>4, <1>5, <1>6, <1>7, <1>8, <1>9

LEMMA CrushedGood ==
  ASSUME IInv, Crushed
  PROVE  Good(world', Relied)
<1> DEFINE f == Free(world, 0)
<1>1. Good(world, Relied) /\ Held(world, 0, Relied) /\ world \in Worlds
  BY DEF IInv, Crushed, Held, Good
<1>2. PICK r \in FirstFree(world, "up") : world' = Initialise(f, r, Template("effect"))
  BY DEF Crushed
<1>3. r \in Slots \ {0} /\ ~Live(world, r)
  BY FirstFreeType DEF PoolNames
<1>4. Good(f, Relied)
  BY <1>1, SlotType, FreeGood
<1>5. f.obj[r] = world.obj[r]
  BY <1>1, <1>3, SlotType, FreeFields
<1> HIDE DEF f
<1>6. ~Live(f, r)
  BY <1>3, <1>5 DEF Live
<1> QED BY <1>2, <1>3, <1>4, <1>6, KindsUsed, TemplateType, InitialiseGood

LEMMA AppleHitGood ==
  ASSUME IInv, NEW t \in Slots, AppleHit(t)
  PROVE  Good(world', Relied) /\ Held(world', at, Relied)
<1>1. /\ Good(world, Relied) /\ Live(world, t) /\ Held(world, at, Relied) /\ at \in Slots
  BY DEF IInv, AppleHit, Struckable, Seen
<1>2. PICK lands \in BOOLEAN, kills \in BOOLEAN, drops \in BOOLEAN :
        LET w1 == IF lands THEN Become(world, at, "effect") ELSE world
            w2 == IF kills THEN Become(Retire(w1, t), t, "effect") ELSE w1
        IN  IF kills /\ drops THEN world' \in Spawned(w2, "down", Template("actor"))
                              ELSE world' = w2
  BY DEF AppleHit
<1> DEFINE w1 == IF lands THEN Become(world, at, "effect") ELSE world
           r1 == Retire(w1, t)
           w2 == IF kills THEN Become(r1, t, "effect") ELSE w1
<1>3. Good(w1, Relied) /\ Held(w1, at, Relied) /\ Live(w1, t)
  <2>1. /\ Good(Become(world, at, "effect"), Relied) /\ Live(Become(world, at, "effect"), at)
        /\ \A r \in Slots \ {at} : Become(world, at, "effect").obj[r] = world.obj[r]
    BY <1>1, KindsUsed, BecomeGood
  <2>2. CASE lands
    BY <1>1, <2>1, <2>2 DEF Held, Live
  <2>3. CASE ~lands
    BY <1>1, <2>3
  <2> QED BY <2>2, <2>3
<1>4. IF kills /\ drops THEN world' \in Spawned(w2, "down", Template("actor")) ELSE world' = w2
  BY <1>2
<1> HIDE DEF w1
<1>5. /\ Good(r1, Relied) /\ r1.obj[t].tiles = {}
      /\ ~Linked(Relied) => \A r \in Slots \ {t} : r1.obj[r] = w1.obj[r]
  BY <1>3, RetireGood
<1> HIDE DEF r1
<1>6. /\ Good(Become(r1, t, "effect"), Relied) /\ Live(Become(r1, t, "effect"), t)
      /\ \A r \in Slots \ {t} : Become(r1, t, "effect").obj[r] = r1.obj[r]
  BY <1>5, KindsUsed, BecomeGood
<1>7. Held(Become(r1, t, "effect"), at, Relied)
  BY <1>1, <1>3, <1>5, <1>6 DEF Held, Live
<1>8. Good(w2, Relied) /\ Held(w2, at, Relied)
  BY <1>3, <1>6, <1>7
<1> HIDE DEF w2
<1>9. ASSUME world' \in Spawned(w2, "down", Template("actor"))
      PROVE  Good(world', Relied) /\ \A r \in Slots : Live(w2, r) => Live(world', r)
  BY <1>8, <1>9, KindsUsed, SpawnedGood DEF PoolNames
<1> QED BY <1>1, <1>4, <1>8, <1>9 DEF Held

LEMMA AppleCaughtGood ==
  ASSUME IInv, NEW t \in Slots, AppleCaught(t)
  PROVE  Good(world', Relied) /\ Held(world', at, Relied)
<1>1. /\ Good(world, Relied) /\ Live(world, t) /\ Held(world, at, Relied) /\ at \in Slots
  BY DEF IInv, AppleCaught, Struckable, Seen
<1> DEFINE w0 == Retyped(world, t, "effect")
           w1 == Disowned(w0, t)
<1>2. PICK fresh \in BOOLEAN :
        world' = IF fresh /\ Live(world, at) THEN Retyped(w1, at, "effect") ELSE w1
  BY DEF AppleCaught
<1>3. Good(w0, Relied) /\ \A r \in Slots : Live(w0, r) <=> Live(world, r)
  BY <1>1, KindsUsed, RetypedGood
<1> HIDE DEF w0
<1>4. Good(w1, Relied) /\ \A r \in Slots : Live(w1, r) <=> Live(w0, r)
  BY <1>3, DisownedGood
<1> HIDE DEF w1
<1>5. Held(w1, at, Relied)
  BY <1>1, <1>3, <1>4 DEF Held
<1>6. ASSUME Live(world, at)
      PROVE  /\ Good(Retyped(w1, at, "effect"), Relied)
             /\ Live(Retyped(w1, at, "effect"), at)
  BY <1>1, <1>3, <1>4, <1>6, KindsUsed, RetypedGood
<1> QED BY <1>2, <1>4, <1>5, <1>6 DEF Held

LEMMA TickGood ==
  ASSUME IInv, TickSpawn \/ TickOverwrite \/ Greeted
  PROVE  Good(world', Relied)
<1>1. Good(world, Relied) /\ world \in Worlds
  BY DEF IInv, Good
<1>2. CASE TickSpawn
  <2>1. PICK pool \in PoolNames \ {"extra"} : world' \in Spawned(world, pool, Template("actor"))
    BY <1>2 DEF TickSpawn
  <2> QED BY <1>1, <2>1, KindsUsed, SpawnedGood DEF PoolNames
<1>3. CASE TickOverwrite
  <2>1. world' = Initialise(world, 1, Template("actor")) /\ ~Leakless(Relied)
    BY <1>3, ReliedModes DEF TickOverwrite
  <2>2. 1 \in Slots
    BY TableAssumption DEF TableAssumption, Slots
  <2> QED BY <1>1, <2>1, <2>2, KindsUsed, TemplateType, InitialiseGood
<1>4. CASE Greeted
  BY <1>1, <1>4, MessagesGood DEF Greeted
<1> QED BY <1>2, <1>3, <1>4

LEMMA AnimateGood ==
  ASSUME IInv, NEW s \in Slots, NoTiles(s) \/ Animate(s)
  PROVE  Good(world', Relied)
<1>1. Good(world, Relied) /\ Live(world, s) /\ ~Flushed(Relied)
  BY ReliedModes DEF IInv, NoTiles, Animate, Visited, AnimationPasses, Unsent
<1>2. CASE NoTiles(s)
  BY <1>1, <1>2, DropGood DEF NoTiles
<1>3. CASE Animate(s)
  <2>1. PICK w \in Equipped(s) : world' = IF world.obj[s].shown THEN w ELSE Draw(w, s)
    BY <1>3 DEF Animate
  <2>2. Good(w, Relied) /\ Live(w, s) /\ w.obj[s].tiles # {}
    <3>1. CASE world.obj[s].tiles # {}
      BY <1>1, <2>1, <3>1 DEF Equipped
    <3>2. CASE world.obj[s].tiles = {}
      <4>1. PICK n \in Needs : w \in {Allocated(world, s, t, n) : t \in FirstFit(world, n)}
        BY <2>1, <3>2 DEF Equipped
      <4>2. PICK t \in FirstFit(world, n) : w = Allocated(world, s, t, n)
        BY <4>1
      <4> QED BY <1>1, <3>2, <4>2, AllocatedGood
    <3> QED BY <3>1, <3>2
  <2>3. Good(Draw(w, s), Relied)
    BY <1>1, <2>2, DrawGood
  <2> QED BY <2>1, <2>2, <2>3
<1> QED BY <1>2, <1>3

\* One pass gives way to another: at most the queue is sent, or cleared where it was sent.
Turning == \/ EndPass \/ DrawScreen \/ DrawAnimation \/ EndFirst \/ EndBegin
           \/ BeginAnimation \/ EndFrame

LEMMA TurningCases ==
  ASSUME Turning
  PROVE  /\ level' = level /\ at' = 0 /\ running' = FALSE
         /\ \/ world' = world /\ (pass' \notin Unsent => pass \notin Unsent)
            \/ world' = Flush(world)
            \/ world' = ClearQueue(world) /\ pass \notin Unsent
            \/ world' = Flush(ClearQueue(world)) /\ pass \notin Unsent
<1>1. CASE EndPass
  BY <1>1 DEF EndPass, Following, Enter, Unsent
<1>2. CASE DrawScreen
  BY <1>2 DEF DrawScreen, Enter, Unsent
<1>3. CASE DrawAnimation
  BY <1>3 DEF DrawAnimation, Enter, Unsent
<1>4. CASE EndFirst
  BY <1>4 DEF EndFirst, Enter, Unsent
<1>5. CASE EndBegin
  BY <1>5 DEF EndBegin, Enter
<1>6. CASE BeginAnimation
  BY <1>6 DEF BeginAnimation, Enter, Unsent
<1>7. CASE EndFrame
  BY <1>7 DEF EndFrame, Enter
<1> QED BY <1>1, <1>2, <1>3, <1>4, <1>5, <1>6, <1>7 DEF Turning

LEMMA TurningGood ==
  ASSUME IInv, Turning
  PROVE  Good(world', Relied')
<1>1. Good(world, Relied) /\ level' = level /\ (Linking(level') <=> Linking(level))
  BY TurningCases DEF IInv
<1>2. /\ Linked(Relied') <=> Linked(Relied)
      /\ Leakless(Relied') => Leakless(Relied)
      /\ Flushed(Relied') <=> pass' \notin Unsent
      /\ Flushed(Relied) <=> pass \notin Unsent
  BY <1>1 DEF Relied, Linked, Leakless, Flushed, Linking, Unsent
<1>3. CASE world' = world /\ (pass' \notin Unsent => pass \notin Unsent)
  BY <1>1, <1>2, <1>3, LessGood
<1>4. CASE world' = Flush(world)
  BY <1>1, <1>2, <1>4, FlushGood
<1>5. CASE world' = ClearQueue(world) /\ pass \notin Unsent
  <2>1. Good(ClearQueue(world), Relied)
    BY <1>1, <1>2, <1>5, ClearQueueGood
  <2> HIDE DEF ClearQueue
  <2> QED BY <1>2, <1>5, <2>1, LessGood
<1>6. CASE world' = Flush(ClearQueue(world)) /\ pass \notin Unsent
  <2>1. Good(ClearQueue(world), Relied)
    BY <1>1, <1>2, <1>6, ClearQueueGood
  <2> QED BY <1>2, <1>6, <2>1, FlushGood
<1> QED BY <1>3, <1>4, <1>5, <1>6, TurningCases

----------------------------------------------------------------------------
\* The invariant.

\* The empty table a game starts with is good.
THEOREM InitHolds == Init => IInv
<1> SUFFICES ASSUME Init PROVE IInv
  OBVIOUS
<1>1. TypeOK
  <2>1. DOMAIN level.sites \in SUBSET Cells
    <3>1. PICK S \in SUBSET Cells : level.sites \in [S -> SiteKinds]
      BY LevelAssumption DEF LevelAssumption, LevelKinds, Init
    <3> QED BY <3>1
  <2>2. [t \in Tiles |-> Stale] \in [Tiles -> Frames] /\ [t \in Tiles |-> NoOne] \in [Tiles -> Frames]
    BY FrameType
  <2>3. world \in Worlds
    BY <2>1, <2>2, FreshType DEF Init, Worlds
  <2> QED BY <2>3 DEF Init, TypeOK, Passes, StripPasses, MotionPasses, AnimationPasses
<1>2. Good(world, Relied)
  <2>1. Sent(world)
    BY DEF Init, Sent
  <2>2. world \in Worlds
    BY <1>1 DEF TypeOK
  <2>3. world.obj = [s \in Slots |-> Template(IF s = 0 THEN "player" ELSE "free")] /\ world.taken = {}
    BY DEF Init
  <2>4. Leakless(Relied) => ~Linked(Relied)
    BY ReliedModes
  <2> QED BY <2>1, <2>2, <2>3, <2>4, FreshGood
<1> QED BY <1>1, <1>2 DEF IInv, Init

\* A step within a pass that keeps the table good.
LEMMA WithinPass ==
  ASSUME IInv, Good(world', Relied), level' = level, pass' = pass, odd' \in BOOLEAN,
         \/ at' = at /\ running' = running
         \/ at' \in Nat /\ running' = FALSE
         \/ at' \in Slots /\ running' = TRUE,
         running' /\ pass = "shots" => Held(world', at', Relied)
  PROVE  IInv'
<1>1. Relied' = Relied
  BY ReliedSame
<1>2. Good(world', Relied') /\ world' \in Worlds
  BY <1>1 DEF Good
<1>3. Slots \subseteq Nat
  BY TableAssumption DEF TableAssumption, Slots
<1>4. TypeOK'
  BY <1>2, <1>3 DEF IInv, TypeOK
<1>5. running' => at' \in Slots
  BY DEF IInv
<1> QED BY <1>1, <1>2, <1>4, <1>5 DEF IInv

\* Every visit, opcode, callback and change of pass keeps the table good.
THEOREM StepHolds == IInv /\ [Next]_vars => IInv'
<1> SUFFICES ASSUME IInv, [Next]_vars PROVE IInv'
  OBVIOUS
<1> USE DEF IInv
<1>a. Slots \subseteq Nat /\ \A s \in Slots : s + 1 \in Nat
  BY TableAssumption DEF TableAssumption, Slots
<1>1. ASSUME NEW c \in DOMAIN level.sites, SpawnSite(c) PROVE IInv'
  <2>1. Good(world', Relied)
    BY <1>1, SpawnSiteGood
  <2>2. c \in Cells
    BY LevelType
  <2>3. c + 1 \in Nat
    BY <2>2, TableAssumption DEF TableAssumption
  <2>4. /\ level' = level /\ pass' = pass /\ at' \in Nat /\ running' = FALSE
        /\ odd' \in BOOLEAN
    BY <1>1, <2>3 DEF SpawnSite, Done, TypeOK
  <2> QED BY <2>1, <2>4, WithinPass
<1>2. ASSUME NEW s \in Slots,
             \/ OpDestroy(s) \/ OpSpawn(s) \/ OpSpawnPlayer(s) \/ OpDropRider(s)
             \/ OpBecomeSplash(s) \/ OpTransform(s) \/ OpStop(s)
      PROVE  IInv'
  <2>1. Good(world', Relied)
    BY <1>2, ScriptGood
  <2>2. pass # "shots" /\ level' = level /\ pass' = pass /\ odd' = odd
    BY <1>2 DEF OpDestroy, OpSpawn, OpSpawnPlayer, OpDropRider, OpBecomeSplash, OpTransform,
                OpStop, CanRun, Done, Visit, frame, AnimationPasses, MotionPasses
  <2>3. \/ at' = at /\ running' = running
        \/ at' \in Nat /\ running' = FALSE
    BY <1>a, <1>2 DEF OpDestroy, OpSpawn, OpSpawnPlayer, OpDropRider, OpBecomeSplash, OpTransform,
                OpStop, Done, Visit, frame
  <2>4. odd' \in BOOLEAN
    BY <2>2 DEF TypeOK
  <2> QED BY <2>1, <2>2, <2>3, <2>4, WithinPass
<1>3. ASSUME NEW s \in Slots, LeaveScreenAt(s) \/ SplatAt(s) PROVE IInv'
  <2>1. Good(world', Relied)
    BY <1>3, MotionGood
  <2>2. pass # "shots" /\ UNCHANGED <<frame, level>>
    BY <1>3 DEF LeaveScreenAt, SplatAt, Visit, MotionPasses
  <2> QED BY <2>1, <2>2, WithinPass DEF TypeOK, frame
<1>4. ASSUME NEW s \in Slots,
             \/ Struck(s) \/ Collected(s) \/ Broken(s) \/ Rearmed(s) \/ Spent(s)
             \/ Thrown(s) \/ KindCleared(s) \/ Spoken(s)
      PROVE  IInv'
  <2>1. Good(world', Relied)
    BY <1>4, ContactGood
  <2>2. pass # "shots" /\ UNCHANGED <<frame, level>>
    BY <1>4 DEF Struck, Collected, Broken, Rearmed, Spent, Thrown, KindCleared, Spoken, Touched,
                Visit
  <2> QED BY <2>1, <2>2, WithinPass DEF TypeOK, frame
<1>5. ASSUME NEW s \in Slots, TakeAim(s) PROVE IInv'
  <2>1. Held(world, s, Relied)
    BY <1>5 DEF TakeAim, Seen, Held
  <2> QED BY <1>5, <2>1, WithinPass DEF TakeAim, TypeOK
<1>6. ASSUME NEW t \in Slots, AppleHit(t) \/ AppleCaught(t) PROVE IInv'
  <2>1. Good(world', Relied) /\ Held(world', at, Relied)
    BY <1>6, AppleHitGood, AppleCaughtGood
  <2>2. UNCHANGED <<frame, level>>
    BY <1>6 DEF AppleHit, AppleCaught
  <2> QED BY <2>1, <2>2, WithinPass DEF TypeOK, frame
<1>7. ASSUME NEW s \in Slots, NoTiles(s) \/ Animate(s) PROVE IInv'
  <2>1. Good(world', Relied)
    BY <1>7, AnimateGood
  <2>2. pass # "shots" /\ level' = level /\ pass' = pass /\ odd' = odd
    BY <1>7 DEF NoTiles, Animate, Visited, Done, AnimationPasses
  <2>3. \/ at' = s + 1 /\ running' = FALSE
        \/ at' = s /\ running' = TRUE
    BY <1>7 DEF NoTiles, Animate, Done
  <2> QED BY <1>a, <2>1, <2>2, <2>3, WithinPass DEF TypeOK
<1>8. CASE Crushed
  <2>1. Good(world', Relied)
    BY <1>8, CrushedGood
  <2> QED BY <1>8, <2>1, WithinPass DEF Crushed, Visit, frame, TypeOK
<1>9. CASE NextProjectile
  BY <1>9, WithinPass DEF NextProjectile, Enter, TypeOK
<1>10. CASE TickSpawn \/ TickOverwrite \/ Greeted
  <2>1. Good(world', Relied)
    BY <1>10, TickGood
  <2>2. /\ level' = level /\ pass' = pass /\ at' \in Nat /\ running' = FALSE
        /\ odd' \in BOOLEAN
    BY <1>10 DEF TickSpawn, TickOverwrite, Greeted, Done, TypeOK
  <2> QED BY <2>1, <2>2, WithinPass
<1>11. CASE Respawn
  <2>1. level' = level /\ (Leakless(Relied') => ~Linked(Relied'))
    BY <1>11 DEF Respawn, Relied, Leakless, Linked, Linking
  <2>2. Good(world', Relied')
    BY <1>11, <2>1, LevelType, ResetGood DEF Respawn, TypeOK
  <2> QED BY <1>11, <2>1, <2>2 DEF Respawn, Enter, TypeOK, Good, Passes
<1>12. CASE Turning
  <2>1. Good(world', Relied')
    BY <1>12, TurningGood
  <2>2. level' = level /\ at' = 0 /\ running' = FALSE
    BY <1>12, TurningCases
  <2>3. odd' \in BOOLEAN
    BY <1>12 DEF Turning, EndPass, DrawScreen, DrawAnimation, EndFirst, EndBegin, BeginAnimation,
                 EndFrame, TypeOK
  <2>4. pass' \in Passes
    BY <1>12 DEF Turning, EndPass, DrawScreen, DrawAnimation, EndFirst, EndBegin, BeginAnimation,
                 EndFrame, Enter, Following, Passes, StripPasses, MotionPasses, AnimationPasses
  <2> QED BY <2>1, <2>2, <2>3, <2>4 DEF TypeOK, Good
<1>13. CASE UNCHANGED vars
  <2>1. world' = world /\ UNCHANGED <<frame, level>>
    BY <1>13 DEF vars
  <2>2. running /\ pass = "shots" => Held(world', at', Relied)
    BY <2>1 DEF frame
  <2> QED BY <2>1, <2>2, WithinPass DEF frame, TypeOK
<1> QED BY <1>1, <1>2, <1>3, <1>4, <1>5, <1>6, <1>7, <1>8, <1>9, <1>10, <1>11, <1>12, <1>13
        DEF Next, Turning

\* The table is good in every state: tiles, frames and map agree as the level lets them.
THEOREM TableHolds == Spec => []IInv
  BY InitHolds, StepHolds, PTL DEF Spec

\* The variables stay in the sets their declarations name.
THEOREM ObjectsTypeOK == Spec => []TypeOK
<1>1. IInv => TypeOK
  BY DEF IInv
<1> QED BY <1>1, TableHolds, PTL

\* No two live objects hold the same tile slot; what one holds is marked in the map.
THEOREM ObjectsTilesExclusive == Spec => []TilesExclusive
<1>1. IInv => TilesExclusive
  BY DEF IInv, Good, Safe, Held, TilesExclusive
<1> QED BY <1>1, TableHolds, PTL

\* Where nothing leaks by design, every marked tile slot has a live holder.
THEOREM ObjectsNoTileLeaks == Spec => []NoTileLeaks
<1>1. IInv => NoTileLeaks
  BY ReliedModes DEF IInv, Good, Tight, NoTileLeaks
<1> QED BY <1>1, TableHolds, PTL

\* The tile slots of a drawn object show its own frame, now or at the next flush.
THEOREM ObjectsOwnFrame == Spec => []OwnFrame
<1>1. IInv => OwnFrame
  BY DEF IInv, Good, Own, Up, OwnFrame, Upcoming
<1> QED BY <1>1, TableHolds, PTL

----------------------------------------------------------------------------
\* Where an object's cell comes from, and the player's tiles.

\* The object n that a call leaves in a record: it has a cell only when the object o before
\* it had, and it is the player only as the player o with its tiles.
Heir(o, n) ==
    /\ n.kind # "free" /\ n.cell # NoCell => o.kind # "free" /\ n.cell = o.cell
    /\ n.kind = "player" => o.kind = "player" /\ n.tiles = o.tiles

\* A call that brings no object of a cell into the table and arms the cells of C at most.
Heirs(w, v, C) ==
    /\ v \in Worlds /\ v.armed \subseteq w.armed \cup C
    /\ \A s \in Slots : Heir(w.obj[s], v.obj[s])

LEMMA HeirsSame ==
  ASSUME NEW w, NEW v \in Worlds, v.obj = w.obj, NEW C, v.armed \subseteq w.armed \cup C
  PROVE  Heirs(w, v, C)
  BY DEF Heirs, Heir

LEMMA HeirsThen ==
  ASSUME NEW u, NEW w, NEW v, NEW C, NEW D, Heirs(u, w, C), Heirs(w, v, D),
         NEW E, C \cup D \subseteq E
  PROVE  Heirs(u, v, E)
  BY DEF Heirs, Heir

LEMMA HeirsMore ==
  ASSUME NEW w, NEW v, NEW C, Heirs(w, v, C), NEW D, C \subseteq D
  PROVE  Heirs(w, v, D)
  BY DEF Heirs

\* The other records are left as they are.
LEMMA HeirsOne ==
  ASSUME NEW w, NEW v \in Worlds, NEW C, v.armed \subseteq w.armed \cup C, NEW s \in Slots,
         \A r \in Slots \ {s} : v.obj[r] = w.obj[r],
         \/ v.obj[s].kind = "free"
         \/ v.obj[s].kind # "player" /\ v.obj[s].cell = NoCell
         \/ Live(w, s) /\ v.obj[s].kind # "player" /\ v.obj[s].cell = w.obj[s].cell
         \/ /\ v.obj[s].kind = w.obj[s].kind /\ v.obj[s].cell = w.obj[s].cell
            /\ v.obj[s].tiles = w.obj[s].tiles
  PROVE  Heirs(w, v, C)
<1>1. Heir(w.obj[s], v.obj[s])
  BY DEF Heir, Live
<1> QED BY <1>1 DEF Heirs, Heir

LEMMA HeirsKill ==
  ASSUME NEW w \in Worlds, NEW s \in Slots
  PROVE  Heirs(w, Kill(w, s), {}) /\ ~Live(Kill(w, s), s)
<1>1. w.obj \in [Slots -> Objects] /\ Freed(w.obj[s]).kind = "free"
  BY WorldFields, FreedFields
<1>2. /\ Kill(w, s) \in Worlds /\ Kill(w, s).obj = [w.obj EXCEPT ![s] = Freed(w.obj[s])]
      /\ Kill(w, s).armed = w.armed
  BY KillFields
<1>3. /\ Kill(w, s).obj[s].kind = "free"
      /\ \A r \in Slots \ {s} : Kill(w, s).obj[r] = w.obj[r]
  BY <1>1, <1>2
<1> QED BY <1>2, <1>3, HeirsOne DEF Live

LEMMA HeirsFree ==
  ASSUME NEW w \in Worlds, NEW s \in Slots
  PROVE  Heirs(w, Free(w, s), {}) /\ ~Live(Free(w, s), s)
<1>1. /\ Free(w, s) \in Worlds /\ Free(w, s).obj[s].kind = "free"
      /\ \A r \in Slots \ {s} : Free(w, s).obj[r] = w.obj[r]
      /\ Free(w, s).armed = w.armed
  BY FreeFields
<1> QED BY <1>1, HeirsOne DEF Live

LEMMA HeirsInitialise ==
  ASSUME NEW w \in Worlds, NEW s \in Slots, NEW kind \in Kinds \ {"player"}
  PROVE  /\ Heirs(w, Initialise(w, s, Template(kind)), {})
         /\ Initialise(w, s, Template(kind)).obj[s].cell = NoCell
<1> DEFINE o == Template(kind)
<1>1. o \in Objects /\ o.kind # "player" /\ o.cell = NoCell
  BY TemplateType DEF Template
<1> HIDE DEF o
<1>2. /\ Initialise(w, s, o) \in Worlds /\ Initialise(w, s, o).obj[s] = o
      /\ \A r \in Slots \ {s} : Initialise(w, s, o).obj[r] = w.obj[r]
      /\ Initialise(w, s, o).armed = w.armed
  BY <1>1, InitialiseFields
<1>3. Heirs(w, Initialise(w, s, o), {})
  BY <1>1, <1>2, HeirsOne
<1> QED BY <1>1, <1>2, <1>3 DEF o

\* A record updated in place: its rider, its owner bit, its kind.
LEMMA HeirsTouched ==
  ASSUME NEW w \in Worlds, NEW s \in Slots, NEW o \in Objects, o.cell = w.obj[s].cell,
         \/ Live(w, s) /\ o.kind # "player"
         \/ o.kind = w.obj[s].kind /\ o.tiles = w.obj[s].tiles
  PROVE  Heirs(w, [w EXCEPT !.obj[s] = o], {})
<1> DEFINE v == [w EXCEPT !.obj[s] = o]
<1>1. w.obj \in [Slots -> Objects]
  BY WorldFields
<1>2. v \in Worlds /\ v.obj = [w.obj EXCEPT ![s] = o]
  BY TouchedFields
<1>3. v.armed = w.armed
  BY DEF Worlds
<1> HIDE DEF v
<1>4. v.obj[s] = o /\ \A r \in Slots \ {s} : v.obj[r] = w.obj[r]
  BY <1>1, <1>2
<1>5. Heirs(w, v, {})
  BY <1>2, <1>3, <1>4, HeirsOne
<1> QED BY <1>5 DEF v

LEMMA HeirsRetyped ==
  ASSUME NEW w \in Worlds, NEW s \in Slots, Live(w, s), NEW kind \in Kinds \ {"player"}
  PROVE  Heirs(w, Retyped(w, s, kind), {})
<1> DEFINE o == [w.obj[s] EXCEPT !.kind = kind]
<1>1. w.obj \in [Slots -> Objects] /\ w.obj[s] \in Objects
  BY WorldFields
<1>2. o \in Objects /\ o.kind = kind /\ o.cell = w.obj[s].cell
  BY <1>1 DEF Objects
<1>3. Retyped(w, s, kind) = [w EXCEPT !.obj[s] = o]
  BY <1>1 DEF Retyped
<1> HIDE DEF o
<1> QED BY <1>2, <1>3, HeirsTouched

LEMMA HeirsDisowned ==
  ASSUME NEW w \in Worlds, NEW s \in Slots
  PROVE  Heirs(w, Disowned(w, s), {})
<1> DEFINE o == [w.obj[s] EXCEPT !.owns = FALSE]
<1>1. w.obj \in [Slots -> Objects] /\ w.obj[s] \in Objects
  BY WorldFields
<1>2. /\ o \in Objects /\ o.kind = w.obj[s].kind /\ o.cell = w.obj[s].cell
      /\ o.tiles = w.obj[s].tiles
  BY <1>1 DEF Objects
<1>3. Disowned(w, s) = [w EXCEPT !.obj[s] = o]
  BY <1>1 DEF Disowned
<1> HIDE DEF o
<1> QED BY <1>2, <1>3, HeirsTouched

LEMMA HeirsUnlink ==
  ASSUME NEW w \in Worlds, NEW r \in Slots \cup {NoOne}
  PROVE  Heirs(w, Unlink(w, r), {})
<1>1. CASE r = NoOne
  BY <1>1, HeirsSame DEF Unlink
<1>2. CASE r # NoOne
  <2> DEFINE o == [w.obj[r] EXCEPT !.rider = NoOne, !.carries = FALSE]
  <2>1. w.obj \in [Slots -> Objects] /\ w.obj[r] \in Objects /\ r \in Slots
    BY <1>2, WorldFields
  <2>2. /\ o \in Objects /\ o.kind = w.obj[r].kind /\ o.cell = w.obj[r].cell
        /\ o.tiles = w.obj[r].tiles
    BY <2>1 DEF Objects
  <2>3. Unlink(w, r) = [w EXCEPT !.obj[r] = o]
    BY <1>2, <2>1 DEF Unlink
  <2> HIDE DEF o
  <2> QED BY <2>1, <2>2, <2>3, HeirsTouched
<1> QED BY <1>1, <1>2

LEMMA HeirsLinkedPair ==
  ASSUME NEW w \in Worlds, NEW s \in Slots, NEW r \in Slots
  PROVE  Heirs(w, LinkedPair(w, s, r), {})
<1> DEFINE o == [w.obj[s] EXCEPT !.rider = r, !.carries = TRUE]
           v == [w EXCEPT !.obj[s] = o]
           q == [v.obj[r] EXCEPT !.rider = s]
<1>1. w.obj \in [Slots -> Objects] /\ w.obj[s] \in Objects
  BY WorldFields
<1>2. /\ o \in Objects /\ o.kind = w.obj[s].kind /\ o.cell = w.obj[s].cell
      /\ o.tiles = w.obj[s].tiles
  BY <1>1 DEF Objects
<1>3. LinkedPair(w, s, r) = [v EXCEPT !.obj[r] = q]
  BY <1>1 DEF LinkedPair, Worlds
<1>4. Heirs(w, v, {})
  <2> HIDE DEF o
  <2> QED BY <1>2, HeirsTouched
<1> HIDE DEF v
<1>5. v \in Worlds /\ v.obj \in [Slots -> Objects] /\ v.obj[r] \in Objects
  BY <1>4, WorldFields DEF Heirs
<1>6. /\ q \in Objects /\ q.kind = v.obj[r].kind /\ q.cell = v.obj[r].cell
      /\ q.tiles = v.obj[r].tiles
  BY <1>5 DEF Objects
<1> HIDE DEF q
<1>7. Heirs(v, LinkedPair(w, s, r), {})
  BY <1>3, <1>5, <1>6, HeirsTouched
<1> QED BY <1>4, <1>7, HeirsThen

\* The cells armed are in the world's own type.
LEMMA HeirsAny ==
  ASSUME NEW w, NEW v, NEW C, Heirs(w, v, C)
  PROVE  Heirs(w, v, Cells)
  BY WorldFields DEF Heirs

LEMMA HeirsRestore ==
  ASSUME NEW w \in Worlds, NEW s \in Slots
  PROVE  /\ Heirs(w, RestoreSpawnFlag(w, s), {w.obj[s].cell})
         /\ RestoreSpawnFlag(w, s).obj = w.obj
<1> DEFINE v == RestoreSpawnFlag(w, s)
<1>1. /\ v \in Worlds /\ v.obj = w.obj /\ v.armed = w.armed \cup ({w.obj[s].cell} \cap Cells)
  BY DEF RestoreSpawnFlag, Worlds
<1> HIDE DEF v
<1>2. Heirs(w, v, {w.obj[s].cell})
  BY <1>1, HeirsSame
<1> QED BY <1>1, <1>2 DEF v

LEMMA FreeRiderHeirs ==
  ASSUME NEW w \in Worlds, NEW r \in Slots \cup {NoOne}
  PROVE  /\ Heirs(w, FreeRider(w, r), {})
         /\ \A s \in Slots : ~Live(w, s) => ~Live(FreeRider(w, r), s)
<1>1. CASE r = NoOne
  BY <1>1, HeirsSame DEF FreeRider
<1>2. CASE r # NoOne
  <2>1. FreeRider(w, r) = Free(w, r) /\ r \in Slots
    BY <1>2 DEF FreeRider
  <2>2. \A s \in Slots \ {r} : Free(w, r).obj[s] = w.obj[s]
    BY <2>1, FreeFields
  <2>3. Heirs(w, Free(w, r), {}) /\ ~Live(Free(w, r), r)
    BY <2>1, HeirsFree
  <2> QED BY <2>1, <2>2, <2>3 DEF Live
<1> QED BY <1>1, <1>2

LEMMA RetireHeirs ==
  ASSUME NEW w \in Worlds, NEW s \in Slots
  PROVE  Heirs(w, Retire(w, s), {}) /\ ~Live(Retire(w, s), s)
<1> DEFINE f == Free(w, s)
<1>1. Heirs(w, f, {}) /\ ~Live(f, s) /\ f \in Worlds
  BY HeirsFree DEF Heirs
<1>2. w.obj[s].rider \in Slots \cup {NoOne}
  BY WorldFields, ObjectFields
<1>3. Retire(w, s) = FreeRider(f, w.obj[s].rider)
  BY DEF Retire
<1> HIDE DEF f
<1>4. /\ Heirs(f, FreeRider(f, w.obj[s].rider), {})
      /\ ~Live(FreeRider(f, w.obj[s].rider), s)
  BY <1>1, <1>2, FreeRiderHeirs
<1> QED BY <1>1, <1>3, <1>4, HeirsThen

LEMMA BecomeHeirs ==
  ASSUME NEW w \in Worlds, NEW s \in Slots, NEW kind \in Kinds \ {"player"}
  PROVE  Heirs(w, Become(w, s, kind), {}) /\ Become(w, s, kind).obj[s].cell = NoCell
<1> DEFINE f == Free(w, s)
<1>1. Heirs(w, f, {}) /\ f \in Worlds
  BY HeirsFree DEF Heirs
<1>2. Become(w, s, kind) = Initialise(f, s, Template(kind))
  BY DEF Become
<1> HIDE DEF f
<1>3. /\ Heirs(f, Initialise(f, s, Template(kind)), {})
      /\ Initialise(f, s, Template(kind)).obj[s].cell = NoCell
  BY <1>1, HeirsInitialise
<1> QED BY <1>1, <1>2, <1>3, HeirsThen

LEMMA DestroyHeirs ==
  ASSUME NEW w \in Worlds, NEW s \in Slots, NEW mode \in BOOLEAN
  PROVE  Heirs(w, Destroy(w, s, mode), {})
<1>1. Heirs(w, Retire(w, s), {})
  BY RetireHeirs
<1>2. Heirs(w, Free(w, s), {}) /\ Free(w, s) \in Worlds
  BY HeirsFree DEF Heirs
<1>3. w.obj[s].rider \in Slots \cup {NoOne}
  BY WorldFields, ObjectFields
<1>4. Heirs(Free(w, s), Unlink(Free(w, s), w.obj[s].rider), {})
  BY <1>2, <1>3, HeirsUnlink
<1>5. Heirs(w, Unlink(Free(w, s), w.obj[s].rider), {})
  BY <1>2, <1>4, HeirsThen
<1> QED BY <1>1, <1>5 DEF Destroy

LEMMA FreeCell ==
  ASSUME NEW w \in Worlds, NEW s \in Slots
  PROVE  Free(w, s).obj[s].cell = w.obj[s].cell
<1> DEFINE k == Kill(w, s)
           f == Freed(w.obj[s])
<1>1. w.obj \in [Slots -> Objects] /\ f \in Objects /\ f.cell = w.obj[s].cell
  BY WorldFields, FreedFields
<1>2. k \in Worlds /\ k.obj = [w.obj EXCEPT ![s] = f]
  BY KillFields
<1> HIDE DEF k, f
<1>3. k.obj \in [Slots -> Objects] /\ k.obj[s] = f
  BY <1>1, <1>2
<1>4. Release(k, s).obj = [k.obj EXCEPT ![s] = [f EXCEPT !.tiles = {}]]
  BY <1>2, <1>3 DEF Release, Worlds
<1>5. [f EXCEPT !.tiles = {}].cell = f.cell
  BY <1>1 DEF Objects
<1> QED BY <1>1, <1>3, <1>4, <1>5 DEF Free, k

LEMMA LeaveScreenHeirs ==
  ASSUME NEW w \in Worlds, NEW s \in Slots
  PROVE  Heirs(w, LeaveScreen(w, s), {w.obj[s].cell}) /\ ~Live(LeaveScreen(w, s), s)
<1> DEFINE f == Free(w, s)
<1>1. Heirs(w, f, {}) /\ ~Live(f, s) /\ f \in Worlds /\ f.obj[s].cell = w.obj[s].cell
  BY HeirsFree, FreeCell DEF Heirs
<1>2. LeaveScreen(w, s) = IF w.obj[s].owns THEN RestoreSpawnFlag(f, s) ELSE f
  BY DEF LeaveScreen
<1> HIDE DEF f
<1>3. Heirs(f, RestoreSpawnFlag(f, s), {w.obj[s].cell}) /\ ~Live(RestoreSpawnFlag(f, s), s)
  BY <1>1, HeirsRestore DEF Live
<1>4. Heirs(w, RestoreSpawnFlag(f, s), {w.obj[s].cell})
  BY <1>1, <1>3, HeirsThen
<1>5. Heirs(w, f, {w.obj[s].cell})
  BY <1>1, HeirsMore
<1> QED BY <1>1, <1>2, <1>3, <1>4, <1>5

LEMMA DespawnHeirs ==
  ASSUME NEW w \in Worlds, NEW s \in Slots
  PROVE  Heirs(w, Despawn(w, s), Cells)
<1> DEFINE r == w.obj[s].rider
           f == LeaveScreen(w, s)
<1>1. Heirs(w, f, Cells) /\ f \in Worlds
  BY LeaveScreenHeirs, HeirsAny DEF Heirs
<1>2. r \in Slots \cup {NoOne}
  BY WorldFields, ObjectFields
<1>3. Despawn(w, s) = IF r = NoOne THEN f ELSE LeaveScreen(f, r)
  BY DEF Despawn
<1> HIDE DEF r, f
<1>4. ASSUME r # NoOne PROVE Heirs(f, LeaveScreen(f, r), Cells)
  BY <1>1, <1>2, <1>4, LeaveScreenHeirs, HeirsAny
<1> QED BY <1>1, <1>3, <1>4, HeirsThen

LEMMA SpawnedHeirs ==
  ASSUME NEW w \in Worlds, NEW pool \in PoolNames, NEW kind \in Kinds \ {"player"},
         NEW v \in Spawned(w, pool, Template(kind))
  PROVE  /\ Heirs(w, v, {})
         /\ \A r \in Slots : Live(w, r) => v.obj[r] = w.obj[r]
<1>1. CASE v = w
  BY <1>1, HeirsSame
<1>2. CASE v # w
  <2>1. PICK s \in FirstFree(w, pool) : v = Initialise(w, s, Template(kind))
    BY <1>2 DEF Spawned
  <2>2. s \in Slots /\ ~Live(w, s)
    BY FirstFreeType
  <2>3. \A r \in Slots \ {s} : v.obj[r] = w.obj[r]
    <3>1. Template(kind) \in Objects
      BY TemplateType
    <3> QED BY <2>1, <2>2, <3>1, InitialiseFields
  <2> QED BY <2>1, <2>2, <2>3, HeirsInitialise
<1> QED BY <1>1, <1>2

LEMMA SpawnedRiderHeirs ==
  ASSUME NEW w \in Worlds, NEW s \in Slots, NEW pool \in PoolNames,
         NEW kind \in Kinds \ {"player"}, NEW v \in SpawnedRider(w, s, pool, Template(kind))
  PROVE  Heirs(w, v, {})
<1>1. CASE v = w
  BY <1>1, HeirsSame
<1>2. CASE v # w
  <2>1. PICK r \in FirstFree(w, pool) : v = LinkedPair(Initialise(w, r, Template(kind)), s, r)
    BY <1>2 DEF SpawnedRider
  <2> DEFINE f == Initialise(w, r, Template(kind))
  <2>2. r \in Slots /\ Heirs(w, f, {}) /\ f \in Worlds
    BY FirstFreeType, HeirsInitialise DEF Heirs
  <2> HIDE DEF f
  <2>3. Heirs(f, LinkedPair(f, s, r), {})
    BY <2>2, HeirsLinkedPair
  <2> QED BY <2>1, <2>2, <2>3, HeirsThen DEF f
<1> QED BY <1>1, <1>2

LEMMA DropHeirs ==
  ASSUME NEW w \in Worlds, NEW s \in Slots
  PROVE  /\ Heirs(w, Drop(w, s), Cells)
         /\ w.obj[s].rider = NoOne =>
                Heirs(w, Drop(w, s), {w.obj[s].cell}) /\ ~Live(Drop(w, s), s)
<1> DEFINE a == RestoreSpawnFlag(w, s)
           r == w.obj[s].rider
           b == Kill(a, s)
           c == RestoreSpawnFlag(b, r)
<1>1. Heirs(w, a, {w.obj[s].cell}) /\ a \in Worlds
  BY HeirsRestore DEF Heirs
<1>2. r \in Slots \cup {NoOne}
  BY WorldFields, ObjectFields
<1>3. Drop(w, s) = IF r = NoOne THEN b ELSE Kill(c, r)
  BY DEF Drop
<1> HIDE DEF a, r
<1>4. Heirs(a, b, {}) /\ b \in Worlds /\ ~Live(b, s)
  BY <1>1, HeirsKill DEF Heirs
<1> HIDE DEF b
<1>5. Heirs(w, b, {w.obj[s].cell}) /\ Heirs(w, b, Cells)
  BY <1>1, <1>4, HeirsThen, HeirsAny
<1>6. ASSUME r # NoOne PROVE Heirs(w, Kill(c, r), Cells)
  <2>1. Heirs(b, c, Cells) /\ c \in Worlds
    BY <1>2, <1>4, <1>6, HeirsRestore, HeirsAny DEF Heirs
  <2> HIDE DEF c
  <2>2. Heirs(c, Kill(c, r), {})
    BY <1>2, <1>6, <2>1, HeirsKill
  <2>3. Heirs(b, Kill(c, r), Cells)
    BY <2>1, <2>2, HeirsThen
  <2> QED BY <1>5, <2>3, HeirsThen
<1> QED BY <1>3, <1>4, <1>5, <1>6 DEF r

LEMMA ClearedKindHeirs ==
  ASSUME NEW w \in Worlds, NEW S \in SUBSET Slots, ClearedKind(w, S) \in Worlds
  PROVE  Heirs(w, ClearedKind(w, S), {})
<1> DEFINE New(r) == [Freed(w.obj[r]) EXCEPT !.tiles = {}]
           b == [r \in Slots |-> IF r \in S THEN New(r) ELSE w.obj[r]]
           f == ClearedKind(w, S)
<1>1. \A r \in Slots : New(r).kind = "free"
  <2>1. \A o \in Objects : [o EXCEPT !.tiles = {}].kind = o.kind
    BY DEF Objects
  <2> QED BY <2>1, WorldFields, FreedFields
<1>2. f.obj = b /\ f.armed = w.armed
  BY DEF ClearedKind, Worlds
<1> HIDE DEF f
<1>3. \A r \in Slots : f.obj[r] = w.obj[r] \/ f.obj[r].kind = "free"
  BY <1>1, <1>2
<1>4. Heirs(w, f, {})
  BY <1>2, <1>3 DEF Heirs, Heir, f
<1> QED BY <1>4 DEF f

LEMMA MessagesHeirs ==
  ASSUME NEW w, NEW m, Good(w, m), NEW v \in Messages(w)
  PROVE  Heirs(w, v, {})
<1>1. Template("glyph").kind = "glyph" /\ Template("glyph").cell = NoCell
  BY DEF Template
<1>2. v \in Worlds /\ v.armed = w.armed
  BY MessagesGood DEF Good
<1>3. \A r \in Slots : \/ v.obj[r] = w.obj[r] \/ v.obj[r].kind = "free"
                     \/ v.obj[r] = Template("glyph")
  BY MessagesGood
<1>4. \A r \in Slots : Heir(w.obj[r], v.obj[r])
  BY <1>1, <1>3 DEF Heir
<1> QED BY <1>2, <1>4 DEF Heirs

\* A cell outside K that an object in use came from is not armed, and no other object's.
Twinless(w, K) ==
    \A s \in Slots : LET c == w.obj[s].cell
                     IN  Live(w, s) /\ c # NoCell /\ c \notin K =>
                         /\ c \notin w.armed
                         /\ \A r \in Slots \ {s} : Live(w, r) => w.obj[r].cell # c

LEMMA TwinlessHeirs ==
  ASSUME NEW w, NEW v, NEW K, Twinless(w, K), Heirs(w, v, {})
  PROVE  Twinless(v, K)
  BY DEF Twinless, Heirs, Heir, Live

\* An object that gives its cell back is gone, and it was the only one of the cell.
LEMMA TwinlessRestored ==
  ASSUME NEW w, NEW v, NEW K, Twinless(w, K), NEW s \in Slots, Live(w, s),
         Heirs(w, v, {w.obj[s].cell}), Live(v, s) => v.obj[s].cell = NoCell
  PROVE  Twinless(v, K)
<1> SUFFICES ASSUME NEW r \in Slots, Live(v, r), v.obj[r].cell # NoCell, v.obj[r].cell \notin K
             PROVE  /\ v.obj[r].cell \notin v.armed
                    /\ \A u \in Slots \ {r} : Live(v, u) => v.obj[u].cell # v.obj[r].cell
  BY DEF Twinless
<1>1. r # s /\ Live(w, r) /\ v.obj[r].cell = w.obj[r].cell
  BY DEF Heirs, Heir, Live
<1>2. /\ w.obj[r].cell \notin w.armed
      /\ \A u \in Slots \ {r} : Live(w, u) => w.obj[u].cell # w.obj[r].cell
  BY <1>1 DEF Twinless
<1>3. w.obj[s].cell # w.obj[r].cell
  BY <1>1, <1>2
<1>4. v.obj[r].cell \notin v.armed
  BY <1>1, <1>2, <1>3 DEF Heirs
<1>5. ASSUME NEW u \in Slots \ {r}, Live(v, u) PROVE v.obj[u].cell # v.obj[r].cell
  <2>1. v.obj[u].cell # NoCell => Live(w, u) /\ v.obj[u].cell = w.obj[u].cell
    BY <1>5 DEF Heirs, Heir, Live
  <2> QED BY <1>1, <1>2, <2>1
<1> QED BY <1>4, <1>5

LEMMA PlacedFields ==
  ASSUME NEW w \in Worlds, NEW s \in Slots, NEW c \in Cells, NEW site \in SiteKinds
  PROVE  /\ Placed(w, s, c, site).obj[s].cell = c
         /\ Placed(w, s, c, site).obj[s].kind = "actor"
         /\ \A r \in Slots \ {s} : Placed(w, s, c, site).obj[r] = w.obj[r]
         /\ ~site.kept => Placed(w, s, c, site).armed = w.armed \ {c}
         /\ Placed(w, s, c, site).armed \subseteq w.armed
         /\ Placed(w, s, c, site).taken = w.taken
<1> DEFINE o == [Template("actor") EXCEPT !.cell = c, !.owns = site.owns]
           f == Initialise(w, s, o)
<1>1. o \in Objects /\ o.cell = c /\ o.kind = "actor"
  BY DEF Template, Objects, Kinds, SiteKinds
<1>2. Placed(w, s, c, site) = [f EXCEPT !.armed = IF site.kept THEN @ ELSE @ \ {c}]
  BY DEF Placed
<1> HIDE DEF o
<1>3. /\ f \in Worlds /\ f.obj[s] = o /\ f.armed = w.armed /\ f.taken = w.taken
      /\ \A r \in Slots \ {s} : f.obj[r] = w.obj[r]
  BY <1>1, InitialiseFields
<1> HIDE DEF f
<1>4. /\ Placed(w, s, c, site).obj = f.obj /\ Placed(w, s, c, site).taken = f.taken
      /\ Placed(w, s, c, site).armed = IF site.kept THEN f.armed ELSE f.armed \ {c}
  BY <1>2, <1>3 DEF Worlds
<1> QED BY <1>1, <1>3, <1>4

\* An armed cell has no object yet, and is armed no more when it has one.
LEMMA TwinlessPlaced ==
  ASSUME NEW w \in Worlds, NEW K, Twinless(w, K), NEW s \in Slots, ~Live(w, s),
         NEW c \in Cells, c \in w.armed, NEW site \in SiteKinds, site.kept => c \in K
  PROVE  Twinless(Placed(w, s, c, site), K)
<1> DEFINE v == Placed(w, s, c, site)
<1>1. /\ v.obj[s].cell = c /\ v.obj[s].kind = "actor"
      /\ \A r \in Slots \ {s} : v.obj[r] = w.obj[r]
      /\ v.armed \subseteq w.armed /\ (~site.kept => c \notin v.armed)
  <2> HIDE DEF v
  <2>1. v = Placed(w, s, c, site)
    BY DEF v
  <2> QED BY <2>1, PlacedFields
<1> HIDE DEF v
<1>2. \A r \in Slots \ {s} : Live(v, r) <=> Live(w, r)
  BY <1>1 DEF Live
<1> SUFFICES ASSUME NEW r \in Slots, Live(v, r), v.obj[r].cell # NoCell, v.obj[r].cell \notin K
             PROVE  /\ v.obj[r].cell \notin v.armed
                    /\ \A u \in Slots \ {r} : Live(v, u) => v.obj[u].cell # v.obj[r].cell
  BY DEF Twinless, v
<1>3. c \notin K => \A u \in Slots \ {s} : Live(v, u) => v.obj[u].cell # c
  <2> SUFFICES ASSUME c \notin K, NEW u \in Slots \ {s}, Live(w, u), w.obj[u].cell = c
               PROVE  FALSE
    BY <1>1, <1>2
  <2>1. c # NoCell
    BY TableAssumption DEF TableAssumption, NoCell
  <2> QED BY <2>1 DEF Twinless
<1>4. CASE r = s
  BY <1>1, <1>3, <1>4
<1>5. CASE r # s
  <2>1. Live(w, r) /\ v.obj[r].cell = w.obj[r].cell
    BY <1>1, <1>2, <1>5
  <2>2. /\ w.obj[r].cell \notin w.armed
        /\ \A u \in Slots \ {r} : Live(w, u) => w.obj[u].cell # w.obj[r].cell
    BY <2>1 DEF Twinless
  <2>3. v.obj[s].cell # v.obj[r].cell
    BY <1>1, <2>1, <2>2
  <2>4. \A u \in Slots \ {r} : Live(v, u) => v.obj[u].cell # v.obj[r].cell
    BY <1>1, <1>2, <2>1, <2>2, <2>3
  <2>5. v.obj[r].cell \notin v.armed
    BY <1>1, <2>1, <2>2
  <2> QED BY <2>4, <2>5
<1> QED BY <1>4, <1>5

LEMMA MoveToCells ==
  ASSUME NEW w \in Worlds, NEW s \in Slots, NEW d \in Slots, s # d
  PROVE  MoveTo(w, s, d).obj[d].cell = w.obj[s].cell /\ MoveTo(w, s, d).armed = w.armed
<1>1. w.obj \in [Slots -> Objects] /\ w.obj[s] \in Objects
  BY WorldFields
<1>2. [w.obj[s] EXCEPT !.kind = "shot"].cell = w.obj[s].cell
  BY <1>1 DEF Objects
<1>3. MoveTo(w, s, d).obj[d] = [w.obj[s] EXCEPT !.kind = "shot"]
  BY <1>1 DEF MoveTo, Worlds
<1>4. MoveTo(w, s, d).armed = w.armed
  BY DEF MoveTo, Worlds
<1> QED BY <1>2, <1>3, <1>4

\* The copy takes the place of the record it was copied from.
LEMMA TwinlessMoved ==
  ASSUME NEW w \in Worlds, NEW K, Twinless(w, K), NEW s \in Slots, Live(w, s),
         NEW d \in Slots, ~Live(w, d)
  PROVE  Twinless(MoveTo(w, s, d), K)
<1> DEFINE v == MoveTo(w, s, d)
<1>1. s # d
  OBVIOUS
<1>2. /\ v.obj[s].kind = "free" /\ v.obj[d].cell = w.obj[s].cell /\ v.armed = w.armed
      /\ \A r \in Slots \ {s, d} : v.obj[r] = w.obj[r]
  BY <1>1, MoveToFields, MoveToCells
<1> HIDE DEF v
<1>3. ~Live(v, s) /\ \A r \in Slots \ {s, d} : Live(v, r) <=> Live(w, r)
  BY <1>2 DEF Live
<1> SUFFICES ASSUME NEW r \in Slots, Live(v, r), v.obj[r].cell # NoCell, v.obj[r].cell \notin K
             PROVE  /\ v.obj[r].cell \notin v.armed
                    /\ \A u \in Slots \ {r} : Live(v, u) => v.obj[u].cell # v.obj[r].cell
  BY DEF Twinless, v
<1>4. CASE r = d
  <2>1. /\ w.obj[s].cell \notin w.armed
        /\ \A u \in Slots \ {s} : Live(w, u) => w.obj[u].cell # w.obj[s].cell
    BY <1>2, <1>4 DEF Twinless
  <2> QED BY <1>2, <1>3, <1>4, <2>1
<1>5. CASE r # d
  <2>1. r # s /\ Live(w, r) /\ v.obj[r].cell = w.obj[r].cell
    BY <1>2, <1>3, <1>5
  <2>2. /\ w.obj[r].cell \notin w.armed
        /\ \A u \in Slots \ {r} : Live(w, u) => w.obj[u].cell # w.obj[r].cell
    BY <2>1 DEF Twinless
  <2>3. v.obj[d].cell # v.obj[r].cell
    BY <1>2, <2>1, <2>2
  <2>4. \A u \in Slots \ {r} : Live(v, u) => v.obj[u].cell # v.obj[r].cell
    BY <1>2, <1>3, <2>1, <2>2, <2>3
  <2> QED BY <1>2, <2>1, <2>2, <2>4
<1> QED BY <1>4, <1>5

----------------------------------------------------------------------------
\* Twins and the player, step by step.

\* Cells may be restored past their objects: through links, or in place.
Tied == Linking(level) \/ level.rearms
KeptCells == {c \in DOMAIN level.sites : level.sites[c].kept}

\* Objects are made of those there were; a cell is armed when its object goes, or where
\* twins are allowed.
Orderly ==
    \/ Heirs(world, world', {})
    \/ Tied /\ Heirs(world, world', Cells)
    \/ \E s \in Slots : /\ Live(world, s) /\ Heirs(world, world', {world.obj[s].cell})
                        /\ Live(world', s) => world'.obj[s].cell = NoCell

LEMMA OrderlyHeirs ==
  ASSUME Orderly
  PROVE  Heirs(world, world', Cells)
  BY HeirsAny DEF Orderly

LEMMA NoRider ==
  ASSUME IInv, ~Tied, NEW s \in Slots
  PROVE  world.obj[s].rider = NoOne
  BY ReliedModes DEF IInv, Good, Safe, Tied

LEMMA ScriptOrderly ==
  ASSUME IInv, NEW s \in Slots,
         \/ OpDestroy(s) \/ OpSpawn(s) \/ OpSpawnPlayer(s) \/ OpDropRider(s)
         \/ OpBecomeSplash(s) \/ OpTransform(s) \/ OpStop(s)
  PROVE  Orderly
<1> USE DEF Orderly
<1>1. world \in Worlds
  BY DEF IInv, Good
<1>2. CASE OpDestroy(s)
  <2>1. PICK mode \in BOOLEAN : world' = Destroy(world, s, mode)
    BY <1>2 DEF OpDestroy
  <2> QED BY <1>1, <2>1, DestroyHeirs
<1>3. CASE OpSpawn(s)
  <2>1. PICK pool \in PoolNames, kind \in {"shot", "actor"} :
          \/ world' \in Spawned(world, pool, Template(kind))
          \/ world' \in SpawnedRider(world, s, pool, Template(kind))
    BY <1>3 DEF OpSpawn
  <2>2. kind \in Kinds \ {"player"}
    BY DEF Kinds
  <2> QED BY <1>1, <2>1, <2>2, SpawnedHeirs, SpawnedRiderHeirs
<1>4. CASE OpSpawnPlayer(s)
  <2>1. world' = Initialise(world, 0, Template("effect")) /\ "effect" \in Kinds \ {"player"}
    BY <1>4 DEF OpSpawnPlayer, Kinds
  <2> QED BY <1>1, <2>1, SlotType, HeirsInitialise
<1>5. CASE OpDropRider(s)
  <2>1. /\ world' = FreeRider(world, world.obj[s].rider)
        /\ world.obj[s].rider \in Slots \cup {NoOne}
    BY <1>1, <1>5, WorldFields, ObjectFields DEF OpDropRider
  <2> QED BY <1>1, <2>1, FreeRiderHeirs
<1>6. CASE OpBecomeSplash(s)
  <2>1. world' = Become(world, s, "effect") /\ "effect" \in Kinds \ {"player"}
    BY <1>6 DEF OpBecomeSplash, Kinds
  <2> QED BY <1>1, <2>1, BecomeHeirs
<1>7. CASE OpTransform(s)
  <2>1. PICK t \in Main : /\ world.obj[t].kind = "actor"
                         /\ world' = Retyped(RestoreSpawnFlag(world, t), t, "effect")
    BY <1>7 DEF OpTransform
  <2> DEFINE v == RestoreSpawnFlag(world, t)
  <2>2. t \in Slots /\ "effect" \in Kinds \ {"player"}
    BY SlotType DEF Kinds
  <2>3. Heirs(world, v, {world.obj[t].cell}) /\ v.obj = world.obj /\ v \in Worlds
    BY <1>1, <2>2, HeirsRestore DEF Heirs
  <2> HIDE DEF v
  <2>4. Live(v, t)
    BY <2>1, <2>3 DEF Live
  <2>5. Heirs(v, Retyped(v, t, "effect"), {})
    BY <2>2, <2>3, <2>4, HeirsRetyped
  <2>6. Heirs(world, world', Cells)
    BY <2>1, <2>3, <2>5, HeirsThen, HeirsAny DEF v
  <2> QED BY <1>7, <2>6 DEF OpTransform, Tied
<1>8. CASE OpStop(s)
  BY <1>1, <1>8, HeirsSame DEF OpStop
<1> QED BY <1>2, <1>3, <1>4, <1>5, <1>6, <1>7, <1>8

LEMMA MotionOrderly ==
  ASSUME IInv, NEW s \in Slots, LeaveScreenAt(s) \/ SplatAt(s)
  PROVE  Orderly
<1> USE DEF Orderly
<1>1. world \in Worlds /\ Live(world, s)
  BY DEF IInv, Good, LeaveScreenAt, SplatAt, Seen
<1>2. CASE LeaveScreenAt(s)
  <2>1. world' = Despawn(world, s)
    BY <1>2 DEF LeaveScreenAt
  <2>2. CASE Tied
    BY <1>1, <2>1, <2>2, DespawnHeirs
  <2>3. CASE ~Tied
    <3>1. world' = LeaveScreen(world, s)
      BY <2>1, <2>3, NoRider DEF Despawn
    <3> QED BY <1>1, <3>1, LeaveScreenHeirs
  <2> QED BY <2>2, <2>3
<1>3. CASE SplatAt(s)
  <2>1. world' = Become(world, s, "effect") /\ "effect" \in Kinds \ {"player"}
    BY <1>3 DEF SplatAt, Kinds
  <2> QED BY <1>1, <2>1, BecomeHeirs
<1> QED BY <1>2, <1>3

LEMMA KindsMade == {"actor", "effect", "shot", "glyph"} \subseteq Kinds \ {"player", "free"}
  BY DEF Kinds

\* Thrown apart: a record moved is no heir of the one it overwrites.
LEMMA ContactOrderly ==
  ASSUME IInv, NEW s \in Slots,
         \/ Struck(s) \/ Collected(s) \/ Broken(s) \/ Rearmed(s) \/ Spent(s) \/ KindCleared(s)
         \/ Spoken(s)
  PROVE  Orderly
<1> USE DEF Orderly
<1>1. /\ Good(world, Relied) /\ world \in Worlds /\ Live(world, s)
  BY DEF IInv, Good, Struck, Collected, Broken, Rearmed, Spent, KindCleared, Spoken, Touched, Seen
<1>2. CASE Struck(s)
  <2>1. PICK retired \in BOOLEAN :
          LET w1 == IF retired THEN Retire(world, s) ELSE world
              w2 == Become(w1, s, "effect")
          IN  world' \in {w2} \cup Spawned(w2, "down", Template("actor"))
    BY <1>2 DEF Struck
  <2> DEFINE w1 == IF retired THEN Retire(world, s) ELSE world
             w2 == Become(w1, s, "effect")
  <2>2. Heirs(world, w1, {}) /\ w1 \in Worlds
    BY <1>1, RetireHeirs, HeirsSame DEF Heirs
  <2>3. world' \in {w2} \cup Spawned(w2, "down", Template("actor"))
    BY <2>1
  <2> HIDE DEF w1
  <2>4. Heirs(w1, w2, {}) /\ w2 \in Worlds
    BY <2>2, KindsMade, BecomeHeirs DEF Heirs
  <2> HIDE DEF w2
  <2>5. Heirs(world, w2, {})
    BY <2>2, <2>4, HeirsThen
  <2>6. ASSUME world' \in Spawned(w2, "down", Template("actor")) PROVE Heirs(w2, world', {})
    BY <2>4, <2>6, KindsMade, SpawnedHeirs DEF PoolNames
  <2> QED BY <2>3, <2>5, <2>6, HeirsThen
<1>3. CASE Collected(s)
  <2>1. PICK full \in BOOLEAN :
          world' = Become(Retire(IF full THEN RestoreSpawnFlag(world, s) ELSE world, s), s, "effect")
    BY <1>3 DEF Collected
  <2> DEFINE w1 == IF full THEN RestoreSpawnFlag(world, s) ELSE world
             w2 == Retire(w1, s)
  <2>2. Heirs(world, w1, {world.obj[s].cell}) /\ w1 \in Worlds
    BY <1>1, HeirsRestore, HeirsSame DEF Heirs
  <2>3. world' = Become(w2, s, "effect")
    BY <2>1
  <2> HIDE DEF w1
  <2>4. Heirs(w1, w2, {}) /\ w2 \in Worlds
    BY <2>2, RetireHeirs DEF Heirs
  <2> HIDE DEF w2
  <2>5. Heirs(w2, world', {}) /\ world'.obj[s].cell = NoCell
    BY <2>3, <2>4, KindsMade, BecomeHeirs
  <2>6. Heirs(world, w2, {world.obj[s].cell})
    BY <2>2, <2>4, HeirsThen
  <2>7. Heirs(world, world', {world.obj[s].cell})
    BY <2>5, <2>6, HeirsThen
  <2> QED BY <1>1, <2>5, <2>7
<1>4. CASE Broken(s)
  <2>1. PICK kind \in {"actor", "effect"} :
          LET w1 == Retyped(world, s, kind)
          IN  world' \in {w1} \cup Spawned(w1, "middle", Template("actor"))
                            \cup Spawned(w1, "up", Template("effect"))
    BY <1>4 DEF Broken
  <2> DEFINE w1 == Retyped(world, s, kind)
  <2>2. Heirs(world, w1, {}) /\ w1 \in Worlds
    BY <1>1, KindsMade, HeirsRetyped DEF Heirs
  <2>3. world' \in {w1} \cup Spawned(w1, "middle", Template("actor"))
                      \cup Spawned(w1, "up", Template("effect"))
    BY <2>1
  <2> HIDE DEF w1
  <2>4. ASSUME NEW pool \in PoolNames, NEW k \in {"actor", "effect"},
               world' \in Spawned(w1, pool, Template(k))
        PROVE  Heirs(w1, world', {})
    BY <2>2, <2>4, KindsMade, SpawnedHeirs
  <2>5. world' = w1 \/ Heirs(w1, world', {})
    BY <2>3, <2>4 DEF PoolNames
  <2> QED BY <2>2, <2>5, HeirsThen
<1>5. CASE Rearmed(s)
  <2>1. Heirs(world, world', {world.obj[s].cell}) /\ Tied
    BY <1>1, <1>5, HeirsRestore DEF Rearmed, Tied
  <2> QED BY <2>1, HeirsAny
<1>6. CASE Spent(s)
  BY <1>1, <1>6, HeirsFree DEF Spent
<1>7. CASE KindCleared(s)
  <2>1. PICK S \in SUBSET {t \in Main \ {s} : world.obj[t].kind = "actor"} :
          world' = Become(Retire(ClearedKind(world, S), s), s, "effect")
    BY <1>7 DEF KindCleared
  <2> DEFINE w1 == ClearedKind(world, S)
             w2 == Retire(w1, s)
  <2>2. S \in SUBSET Slots /\ \A t \in S : Live(world, t)
    BY SlotType DEF Live
  <2>3. w1 \in Worlds
    BY <1>1, <2>2, ClearedKindGood DEF Good
  <2>4. Heirs(world, w1, {})
    BY <1>1, <2>2, <2>3, ClearedKindHeirs
  <2> HIDE DEF w1
  <2>5. Heirs(w1, w2, {}) /\ w2 \in Worlds
    BY <2>3, RetireHeirs DEF Heirs
  <2>6. world' = Become(w2, s, "effect")
    BY <2>1 DEF w1
  <2> HIDE DEF w2
  <2>7. Heirs(w2, world', {})
    BY <2>5, <2>6, KindsMade, BecomeHeirs
  <2>8. Heirs(world, w2, {})
    BY <2>4, <2>5, HeirsThen
  <2> QED BY <2>7, <2>8, HeirsThen
<1>8. CASE Spoken(s)
  BY <1>1, <1>8, MessagesHeirs DEF Spoken
<1> QED BY <1>2, <1>3, <1>4, <1>5, <1>6, <1>7, <1>8

LEMMA CrushedOrderly ==
  ASSUME IInv, Crushed
  PROVE  Orderly
<1> DEFINE f == Free(world, 0)
<1>1. Heirs(world, f, {}) /\ f \in Worlds
  BY SlotType, HeirsFree DEF IInv, Good, Heirs
<1>2. PICK r \in FirstFree(world, "up") : world' = Initialise(f, r, Template("effect"))
  BY DEF Crushed
<1>3. r \in Slots
  BY FirstFreeType DEF PoolNames
<1> HIDE DEF f
<1>4. Heirs(f, world', {})
  BY <1>1, <1>2, <1>3, KindsMade, HeirsInitialise
<1> QED BY <1>1, <1>4, HeirsThen DEF Orderly

LEMMA AppleOrderly ==
  ASSUME IInv, NEW t \in Slots, AppleHit(t) \/ AppleCaught(t)
  PROVE  Orderly
<1>1. /\ Good(world, Relied) /\ world \in Worlds /\ Live(world, t) /\ at \in Slots
  BY DEF IInv, Good, AppleHit, AppleCaught, Struckable, Seen
<1>2. CASE AppleHit(t)
  <2>1. PICK lands \in BOOLEAN, kills \in BOOLEAN, drops \in BOOLEAN :
          LET w1 == IF lands THEN Become(world, at, "effect") ELSE world
              w2 == IF kills THEN Become(Retire(w1, t), t, "effect") ELSE w1
          IN  IF kills /\ drops THEN world' \in Spawned(w2, "down", Template("actor"))
                                ELSE world' = w2
    BY <1>2 DEF AppleHit
  <2> DEFINE w1 == IF lands THEN Become(world, at, "effect") ELSE world
             r1 == Retire(w1, t)
             b1 == Become(r1, t, "effect")
             w2 == IF kills THEN b1 ELSE w1
  <2>2. IF kills /\ drops THEN world' \in Spawned(w2, "down", Template("actor")) ELSE world' = w2
    BY <2>1
  <2>3. Heirs(world, w1, {}) /\ w1 \in Worlds
    BY <1>1, KindsMade, BecomeHeirs, HeirsSame DEF Heirs
  <2> HIDE DEF w1
  <2>4. Heirs(w1, r1, {}) /\ r1 \in Worlds
    BY <2>3, RetireHeirs DEF Heirs
  <2> HIDE DEF r1
  <2>5. Heirs(r1, b1, {}) /\ b1 \in Worlds
    BY <2>4, KindsMade, BecomeHeirs DEF Heirs
  <2> HIDE DEF b1
  <2>6. Heirs(world, r1, {})
    BY <2>3, <2>4, HeirsThen
  <2>7. Heirs(world, b1, {})
    BY <2>5, <2>6, HeirsThen
  <2>8. Heirs(world, w2, {}) /\ w2 \in Worlds
    BY <2>3, <2>5, <2>7
  <2> HIDE DEF w2
  <2>9. ASSUME world' \in Spawned(w2, "down", Template("actor")) PROVE Heirs(w2, world', {})
    BY <2>8, <2>9, KindsMade, SpawnedHeirs DEF PoolNames
  <2> QED BY <2>2, <2>8, <2>9, HeirsThen DEF Orderly
<1>3. CASE AppleCaught(t)
  <2> DEFINE w0 == Retyped(world, t, "effect")
             w1 == Disowned(w0, t)
  <2>1. PICK fresh \in BOOLEAN :
          world' = IF fresh /\ Live(world, at) THEN Retyped(w1, at, "effect") ELSE w1
    BY <1>3 DEF AppleCaught
  <2>2. Good(w0, Relied) /\ \A r \in Slots : Live(w0, r) <=> Live(world, r)
    BY <1>1, KindsUsed, RetypedGood
  <2>3. Heirs(world, w0, {}) /\ w0 \in Worlds
    BY <1>1, KindsMade, HeirsRetyped DEF Heirs
  <2> HIDE DEF w0
  <2>4. \A r \in Slots : Live(w1, r) <=> Live(w0, r)
    BY <2>2, DisownedGood
  <2>5. Heirs(w0, w1, {}) /\ w1 \in Worlds
    BY <2>3, HeirsDisowned DEF Heirs
  <2> HIDE DEF w1
  <2>6. Heirs(world, w1, {})
    BY <2>3, <2>5, HeirsThen
  <2>7. ASSUME Live(world, at) PROVE Heirs(w1, Retyped(w1, at, "effect"), {})
    BY <1>1, <2>2, <2>4, <2>5, <2>7, KindsMade, HeirsRetyped
  <2> QED BY <2>1, <2>6, <2>7, HeirsThen DEF Orderly
<1> QED BY <1>2, <1>3

LEMMA TickOrderly ==
  ASSUME IInv, TickSpawn \/ TickOverwrite
  PROVE  Orderly
<1>1. world \in Worlds
  BY DEF IInv, Good
<1>2. CASE TickSpawn
  <2>1. PICK pool \in PoolNames \ {"extra"} : world' \in Spawned(world, pool, Template("actor"))
    BY <1>2 DEF TickSpawn
  <2>2. pool \in PoolNames /\ "actor" \in Kinds \ {"player"}
    BY KindsMade DEF PoolNames
  <2> QED BY <1>1, <2>1, <2>2, SpawnedHeirs DEF Orderly
<1>3. CASE TickOverwrite
  <2>1. world' = Initialise(world, 1, Template("actor")) /\ 1 \in Slots
    BY <1>3, TableAssumption DEF TickOverwrite, TableAssumption, Slots
  <2> QED BY <1>1, <2>1, KindsMade, HeirsInitialise DEF Orderly
<1> QED BY <1>2, <1>3

LEMMA NoTilesOrderly ==
  ASSUME IInv, NEW s \in Slots, NoTiles(s)
  PROVE  Orderly
<1>1. world \in Worlds /\ Live(world, s) /\ world' = Drop(world, s)
  BY DEF IInv, Good, NoTiles, Visited
<1>2. CASE Tied
  BY <1>1, <1>2, DropHeirs DEF Orderly
<1>3. CASE ~Tied
  BY <1>1, <1>3, NoRider, DropHeirs DEF Orderly
<1> QED BY <1>2, <1>3

LEMMA TurningOrderly ==
  ASSUME IInv, Turning
  PROVE  Orderly /\ world'.obj = world.obj /\ world'.taken = world.taken
<1>1. world \in Worlds /\ world' \in Worlds
  BY TurningGood DEF IInv, Good
<1>2. \/ world' = world \/ world' = Flush(world)
      \/ world' = ClearQueue(world) \/ world' = Flush(ClearQueue(world))
  BY TurningCases
<1>3. world'.obj = world.obj /\ world'.taken = world.taken /\ world'.armed = world.armed
  <2>1. \A w \in Worlds : /\ ClearQueue(w).obj = w.obj /\ ClearQueue(w).taken = w.taken
                          /\ ClearQueue(w).armed = w.armed
                          /\ Flush(w).obj = w.obj /\ Flush(w).taken = w.taken
                          /\ Flush(w).armed = w.armed
    BY DEF ClearQueue, Flush, Worlds
  <2>2. ClearQueue(world) \in Worlds
    BY <1>1, FrameType DEF ClearQueue, Worlds
  <2> QED BY <1>1, <1>2, <2>1, <2>2
<1> QED BY <1>1, <1>3, HeirsSame DEF Orderly

\* A visit to the strips fills records behind the player's.
LEMMA SpawnSiteCells ==
  ASSUME IInv, NEW c \in DOMAIN level.sites, SpawnSite(c)
  PROVE  /\ world'.obj[0] = world.obj[0] /\ world'.taken = world.taken
         /\ ~Tied /\ Twinless(world, KeptCells) => Twinless(world', KeptCells)
<1> DEFINE site == level.sites[c]
<1>1. /\ Good(world, Relied) /\ world \in Worlds /\ c \in Cells /\ site \in SiteKinds
      /\ site.pair => Tied
      /\ site.kept => c \in KeptCells
      /\ c \in world.armed
  BY LevelType DEF IInv, Good, Tied, KeptCells, SpawnSite
<1>2. CASE ~site.pair
  <2>1. PICK pool \in PoolNames \ {"extra"} : \E s \in FirstFree(world, pool) :
               world' = Placed(world, s, c, site)
    BY <1>2 DEF SpawnSite, SpawnOne
  <2>2. PICK s \in FirstFree(world, pool) : world' = Placed(world, s, c, site)
    BY <2>1
  <2>3. s \in Slots \ {0} /\ ~Live(world, s)
    BY FirstFreeType
  <2>4. /\ \A r \in Slots \ {s} : Placed(world, s, c, site).obj[r] = world.obj[r]
        /\ Placed(world, s, c, site).taken = world.taken
    BY <1>1, <2>3, PlacedFields
  <2>5. Twinless(world, KeptCells) => Twinless(Placed(world, s, c, site), KeptCells)
    BY <1>1, <2>3, TwinlessPlaced
  <2> QED BY <2>2, <2>3, <2>4, <2>5, SlotType
<1>3. CASE site.pair
  <2>0. PICK pool \in PoolNames \ {"extra"} : \E s \in FirstFree(world, pool) :
          \/ world' = Placed(world, s, c, site)
          \/ \E r \in FirstFree(Placed(world, s, c, site), pool) :
                world' = LinkedPair(Placed(Placed(world, s, c, site), r, c, site), s, r)
    BY <1>3 DEF SpawnSite, SpawnPair
  <2>1. PICK s \in FirstFree(world, pool) :
          \/ world' = Placed(world, s, c, site)
          \/ \E r \in FirstFree(Placed(world, s, c, site), pool) :
                world' = LinkedPair(Placed(Placed(world, s, c, site), r, c, site), s, r)
    BY <2>0
  <2> DEFINE v == Placed(world, s, c, site)
  <2>2. s \in Slots \ {0} /\ ~Live(world, s)
    BY FirstFreeType
  <2>3. v.obj[0] = world.obj[0] /\ v.taken = world.taken
    BY <1>1, <2>2, PlacedFields, SlotType
  <2>4. Good(v, Relied)
    BY <1>1, <2>2, PlacedGood
  <2> HIDE DEF v
  <2>5. ASSUME NEW r \in FirstFree(v, pool)
        PROVE  /\ LinkedPair(Placed(v, r, c, site), s, r).obj[0] = world.obj[0]
               /\ LinkedPair(Placed(v, r, c, site), s, r).taken = world.taken
    <3> DEFINE x == Placed(v, r, c, site)
    <3>1. r \in Slots \ {0} /\ ~Live(v, r) /\ v \in Worlds
      BY <2>4, FirstFreeType DEF Good
    <3>2. x.obj[0] = v.obj[0] /\ x.taken = v.taken
      BY <1>1, <3>1, PlacedFields, SlotType
    <3>3. x \in Worlds
      BY <1>1, <2>4, <3>1, PlacedGood DEF Good
    <3> HIDE DEF x
    <3>4. LinkedPair(x, s, r).obj[0] = x.obj[0] /\ LinkedPair(x, s, r).taken = x.taken
      BY <2>2, <3>1, <3>3, SlotType DEF LinkedPair, Worlds
    <3> QED BY <2>3, <3>2, <3>4 DEF x
  <2> QED BY <1>1, <1>3, <2>1, <2>3, <2>5 DEF v
<1> QED BY <1>2, <1>3

LEMMA ThrownCells ==
  ASSUME IInv, NEW s \in Slots, Thrown(s)
  PROVE  /\ world'.obj[0].kind = "player" => world'.obj[0] = world.obj[0]
         /\ Twinless(world, KeptCells) => Twinless(world', KeptCells)
<1>1. /\ Good(world, Relied) /\ world \in Worlds /\ Live(world, s) /\ s \in Main /\ s # 0
  BY TableAssumption DEF IInv, Good, Thrown, Touched, Seen, Main, TableAssumption
<1>2. PICK d \in FirstFree(world, "extra") :
        LET w1 == MoveTo(world, s, d)
            w2 == Disowned(Disowned(w1, d), s)
        IN  world' \in {w1} \cup Spawned(w2, "up", Template("effect"))
  BY DEF Thrown
<1> DEFINE w1 == MoveTo(world, s, d)
           w2 == Disowned(w1, d)
           w3 == Disowned(w2, s)
<1>3. d \in Slots \ {0} /\ ~Live(world, d) /\ s # d
  BY <1>1, FirstFreeType DEF PoolNames
<1>4. w1 \in Worlds /\ w1.obj[0] = world.obj[0]
  BY <1>1, <1>3, SlotType, MoveToFields
<1>5. Twinless(world, KeptCells) => Twinless(w1, KeptCells)
  BY <1>1, <1>3, TwinlessMoved
<1>6. world' \in {w1} \cup Spawned(w3, "up", Template("effect"))
  BY <1>2
<1> HIDE DEF w1
<1>7. Heirs(w1, w2, {}) /\ w2 \in Worlds /\ w2.obj[0] = w1.obj[0]
  <2>1. Heirs(w1, w2, {})
    BY <1>3, <1>4, HeirsDisowned
  <2>2. w2.obj[0] = w1.obj[0]
    BY <1>3, <1>4, SlotType DEF Disowned, Worlds
  <2> QED BY <2>1, <2>2 DEF Heirs
<1> HIDE DEF w2
<1>8. Heirs(w2, w3, {}) /\ w3 \in Worlds /\ w3.obj[0] = w2.obj[0]
  <2>1. Heirs(w2, w3, {})
    BY <1>3, <1>7, HeirsDisowned
  <2>2. w3.obj[0] = w2.obj[0]
    BY <1>1, <1>7, SlotType DEF Disowned, Worlds
  <2> QED BY <2>1, <2>2 DEF Heirs
<1> HIDE DEF w3
<1>9. ASSUME world' \in Spawned(w3, "up", Template("effect"))
      PROVE  /\ Heirs(w3, world', {})
             /\ world'.obj[0].kind = "player" => world'.obj[0] = w3.obj[0]
  <2>1. /\ Heirs(w3, world', {})
        /\ \A r \in Slots : Live(w3, r) => world'.obj[r] = w3.obj[r]
    BY <1>8, <1>9, KindsMade, SpawnedHeirs DEF PoolNames
  <2> QED BY <2>1, SlotType DEF Heirs, Heir, Live
<1> QED BY <1>4, <1>5, <1>6, <1>7, <1>8, <1>9, TwinlessHeirs

\* Only the tiles of the object visited change, and it has some then.
LEMMA AnimateCells ==
  ASSUME IInv, NEW s \in Slots, Animate(s)
  PROVE  /\ world'.armed = world.armed /\ world'.obj[s].tiles # {}
         /\ \A r \in Slots : /\ world'.obj[r].kind = world.obj[r].kind
                             /\ world'.obj[r].cell = world.obj[r].cell
                             /\ r # s => world'.obj[r] = world.obj[r]
<1>1. /\ Good(world, Relied) /\ world \in Worlds /\ Live(world, s) /\ world.obj \in [Slots -> Objects]
      /\ world.obj[s] \in Objects
  BY WorldFields DEF IInv, Good, Animate, Visited
<1>2. PICK w \in Equipped(s) : world' = IF world.obj[s].shown THEN w ELSE Draw(w, s)
  BY DEF Animate
<1>3. /\ w \in Worlds /\ w.armed = world.armed /\ w.obj[s].tiles # {}
      /\ \A r \in Slots : /\ w.obj[r].kind = world.obj[r].kind
                          /\ w.obj[r].cell = world.obj[r].cell
                          /\ r # s => w.obj[r] = world.obj[r]
  <2>1. CASE world.obj[s].tiles # {}
    BY <1>1, <1>2, <2>1 DEF Equipped
  <2>2. CASE world.obj[s].tiles = {}
    <3>1. PICK n \in Needs : w \in {Allocated(world, s, t, n) : t \in FirstFit(world, n)}
      BY <1>2, <2>2 DEF Equipped
    <3>2. PICK t \in FirstFit(world, n) : w = Allocated(world, s, t, n)
      BY <3>1
    <3>3. w \in Worlds /\ w.obj[s].tiles # {}
      BY <1>1, <2>2, <3>2, AllocatedGood DEF Good
    <3>4. w.obj = [world.obj EXCEPT ![s] = [world.obj[s] EXCEPT !.tiles = Run(t, n)]]
      BY <1>1, <3>2 DEF Allocated, Worlds
    <3>5. w.armed = world.armed
      BY <3>2 DEF Allocated, Worlds
    <3>6. /\ [world.obj[s] EXCEPT !.tiles = Run(t, n)].kind = world.obj[s].kind
          /\ [world.obj[s] EXCEPT !.tiles = Run(t, n)].cell = world.obj[s].cell
      BY <1>1 DEF Objects
    <3>7. \A r \in Slots : w.obj[r] = IF r = s THEN [world.obj[s] EXCEPT !.tiles = Run(t, n)]
                                               ELSE world.obj[r]
      BY <1>1, <3>4
    <3> QED BY <3>3, <3>5, <3>6, <3>7
  <2> QED BY <2>1, <2>2
<1>4. /\ Draw(w, s).armed = w.armed /\ Draw(w, s).obj[s].tiles = w.obj[s].tiles
      /\ \A r \in Slots : /\ Draw(w, s).obj[r].kind = w.obj[r].kind
                          /\ Draw(w, s).obj[r].cell = w.obj[r].cell
                          /\ r # s => Draw(w, s).obj[r] = w.obj[r]
  <2>1. w.obj \in [Slots -> Objects] /\ w.obj[s] \in Objects
    BY <1>3, WorldFields
  <2>2. /\ Draw(w, s).obj = [w.obj EXCEPT ![s] = [w.obj[s] EXCEPT !.shown = TRUE]]
        /\ Draw(w, s).armed = w.armed
    BY <1>3, <2>1 DEF Draw, Worlds
  <2>3. /\ [w.obj[s] EXCEPT !.shown = TRUE].kind = w.obj[s].kind
        /\ [w.obj[s] EXCEPT !.shown = TRUE].cell = w.obj[s].cell
        /\ [w.obj[s] EXCEPT !.shown = TRUE].tiles = w.obj[s].tiles
    BY <2>1 DEF Objects
  <2>4. \A r \in Slots : Draw(w, s).obj[r] = IF r = s THEN [w.obj[s] EXCEPT !.shown = TRUE]
                                                      ELSE w.obj[r]
    BY <2>1, <2>2
  <2> QED BY <2>2, <2>3, <2>4
<1> QED BY <1>2, <1>3, <1>4

\* A player without tiles is one whose life has just started: the map is empty, and the
\* first animation pass, forced or of draw_screen, comes to it before any other record.
Untiled == world.obj[0].kind = "player" /\ world.obj[0].tiles = {}

PlayerFirst ==
    Untiled => /\ world.taken = {} /\ ~running
               /\ \/ pass \in {"message", "drawMotion", "drawStrips", "edges"}
                  \/ pass \in {"drawAnimation", "first"} /\ at = 0

\* Nothing is drawn from an empty map.
LEMMA NoneSeen ==
  ASSUME IInv, world.taken = {}, NEW s \in Slots
  PROVE  ~Seen(world, s)
<1> SUFFICES ASSUME Seen(world, s) PROVE FALSE
  OBVIOUS
<1>1. Live(world, s) /\ world.obj[s].tiles # {}
  BY DEF IInv, Good, Own, Seen
<1>2. PICK t \in world.obj[s].tiles : TRUE
  BY <1>1
<1>3. t \in world.taken
  BY <1>1, <1>2 DEF IInv, Good, Safe, Held
<1> QED BY <1>3

\* Whoever is seen, runs or is out of the start of a life finds the player with its tiles.
LEMMA Tiled ==
  ASSUME IInv, PlayerFirst,
         \/ running
         \/ \E s \in Slots : Seen(world, s)
         \/ pass \in {"strips", "begin", "motion", "animation", "ground", "contacts", "shots",
                     "fall", "tick"}
  PROVE  ~Untiled
  BY NoneSeen DEF PlayerFirst

LEMMA EmptyMapFits ==
  ASSUME IInv, world.taken = {}, NEW n \in Needs
  PROVE  FirstFit(world, n) # {}
<1>1. n \in Int /\ 0 <= n /\ n <= TileSlots - 1 /\ TileSlots \in Int
  BY TableAssumption DEF TableAssumption
<1>2. 0 \in 0..(TileSlots - n - 1) /\ Run(0, n) \cap world.taken = {}
  BY <1>1
<1>3. 0 \in FirstFit(world, n)
  BY <1>1, <1>2 DEF FirstFit
<1> QED BY <1>3

\* The inductive invariant of cells and player, over that of the table.
Heritage == /\ IInv
            /\ ~Tied => Twinless(world, KeptCells)
            /\ PlayerFirst

LEMMA HeritageInit ==
  ASSUME Init
  PROVE  Heritage
<1>1. IInv
  BY InitHolds
<1>2. \A s \in Slots : world.obj[s].cell = NoCell
  BY DEF Init, Template
<1>3. Twinless(world, KeptCells)
  BY <1>2 DEF Twinless
<1>4. Untiled => world.taken = {} /\ ~running /\ pass = "message"
  BY DEF Init
<1> QED BY <1>1, <1>3, <1>4 DEF Heritage, PlayerFirst

\* An orderly step of a player with its tiles.
LEMMA HeritageOrderly ==
  ASSUME Heritage, IInv', level' = level, Orderly, ~Untiled
  PROVE  Heritage'
<1>1. Tied' = Tied /\ KeptCells' = KeptCells
  BY DEF Tied, KeptCells, Linking
<1>2. ~Tied => Twinless(world', KeptCells)
  BY TwinlessHeirs, TwinlessRestored DEF Heritage, Orderly
<1>3. (~Tied => Twinless(world, KeptCells))'
  BY <1>1, <1>2 DEF Twinless, Live
<1>4. PlayerFirst'
  <2>1. Heir(world.obj[0], world'.obj[0])
    BY OrderlyHeirs, SlotType DEF Heirs
  <2>2. ~Untiled'
    BY <2>1 DEF Heir, Untiled
  <2> QED BY <2>2 DEF PlayerFirst
<1> QED BY <1>3, <1>4 DEF Heritage

LEMMA HeritageStep ==
  ASSUME Heritage, [Next]_vars
  PROVE  Heritage'
<1>a. IInv /\ IInv' /\ PlayerFirst /\ (~Tied => Twinless(world, KeptCells))
  BY StepHolds DEF Heritage
<1>b. ASSUME level' = level, ~Tied => Twinless(world', KeptCells), PlayerFirst'
      PROVE  Heritage'
  BY <1>a, <1>b DEF Heritage, Tied, KeptCells, Linking, Twinless, Live
<1>1. ASSUME NEW c \in DOMAIN level.sites, SpawnSite(c) PROVE Heritage'
  <2>1. /\ world'.obj[0] = world.obj[0] /\ world'.taken = world.taken
        /\ ~Tied => Twinless(world', KeptCells)
    BY <1>1, <1>a, SpawnSiteCells
  <2>2. pass \in StripPasses /\ pass' = pass /\ running' = FALSE /\ level' = level
    BY <1>1 DEF SpawnSite, Done
  <2>3. PlayerFirst'
    BY <1>a, <2>1, <2>2 DEF PlayerFirst, Untiled, StripPasses
  <2> QED BY <1>b, <2>1, <2>2, <2>3
<1>2. ASSUME NEW s \in Slots,
             \/ OpDestroy(s) \/ OpSpawn(s) \/ OpSpawnPlayer(s) \/ OpDropRider(s)
             \/ OpBecomeSplash(s) \/ OpTransform(s) \/ OpStop(s)
      PROVE  Heritage'
  <2>1. Orderly
    BY <1>2, <1>a, ScriptOrderly
  <2>2. level' = level /\ CanRun(s)
    BY <1>2 DEF OpDestroy, OpSpawn, OpSpawnPlayer, OpDropRider, OpBecomeSplash, OpTransform,
                OpStop, Done, Visit
  <2>3. ~Untiled
    BY <1>a, <2>2, Tiled DEF CanRun, Seen
  <2> QED BY <1>a, <2>1, <2>2, <2>3, HeritageOrderly
<1>3. ASSUME NEW s \in Slots, LeaveScreenAt(s) \/ SplatAt(s) PROVE Heritage'
  <2>1. Orderly
    BY <1>3, <1>a, MotionOrderly
  <2>2. level' = level /\ Seen(world, s)
    BY <1>3 DEF LeaveScreenAt, SplatAt, Visit
  <2> QED BY <1>a, <2>1, <2>2, Tiled, HeritageOrderly
<1>4. ASSUME NEW s \in Slots,
             \/ Struck(s) \/ Collected(s) \/ Broken(s) \/ Rearmed(s) \/ Spent(s) \/ KindCleared(s)
             \/ Spoken(s)
      PROVE  Heritage'
  <2>1. Orderly
    BY <1>4, <1>a, ContactOrderly
  <2>2. level' = level /\ pass = "contacts"
    BY <1>4 DEF Struck, Collected, Broken, Rearmed, Spent, KindCleared, Spoken, Touched, Visit
  <2> QED BY <1>a, <2>1, <2>2, Tiled, HeritageOrderly
<1>5. ASSUME NEW s \in Slots, Thrown(s) PROVE Heritage'
  <2>1. /\ world'.obj[0].kind = "player" => world'.obj[0] = world.obj[0]
        /\ Twinless(world, KeptCells) => Twinless(world', KeptCells)
    BY <1>5, <1>a, ThrownCells
  <2>2. level' = level /\ pass = "contacts"
    BY <1>5 DEF Thrown, Touched, Visit
  <2>3. PlayerFirst'
    BY <1>a, <2>1, <2>2, Tiled DEF PlayerFirst, Untiled
  <2> QED BY <1>a, <1>b, <2>1, <2>2, <2>3
<1>6. ASSUME NEW s \in Slots, TakeAim(s) PROVE Heritage'
  BY <1>6, <1>a, <1>b, Tiled DEF TakeAim, PlayerFirst, Untiled
<1>7. ASSUME NEW t \in Slots, AppleHit(t) \/ AppleCaught(t) PROVE Heritage'
  <2>1. Orderly
    BY <1>7, <1>a, AppleOrderly
  <2>2. level' = level /\ pass = "shots"
    BY <1>7 DEF AppleHit, AppleCaught, Struckable
  <2> QED BY <1>a, <2>1, <2>2, Tiled, HeritageOrderly
<1>8. ASSUME NEW s \in Slots, NoTiles(s) \/ Animate(s), PlayerFirst, Untiled
      PROVE  s = 0 /\ Animate(s)
  <2>1. /\ world.taken = {} /\ at = 0 /\ Live(world, 0)
        /\ \A u \in at..(s - 1) : ~Live(world, u)
    BY <1>8 DEF PlayerFirst, Untiled, NoTiles, Animate, Visited, Live, AnimationPasses
  <2>2. s = 0
    BY <2>1, TableAssumption DEF TableAssumption, Slots
  <2>3. ~NoTiles(s)
    BY <1>a, <2>1, EmptyMapFits DEF NoTiles
  <2> QED BY <1>8, <2>2, <2>3
<1>9. ASSUME NEW s \in Slots, NoTiles(s) PROVE Heritage'
  <2>1. Orderly
    BY <1>9, <1>a, NoTilesOrderly
  <2>2. level' = level
    BY <1>9 DEF NoTiles, Done
  <2>3. ~Tied => Twinless(world', KeptCells)
    BY <1>a, <2>1, TwinlessHeirs, TwinlessRestored DEF Orderly
  <2>4. Heir(world.obj[0], world'.obj[0])
    BY <2>1, OrderlyHeirs, SlotType DEF Heirs
  <2>5. ~Untiled
    <3> SUFFICES ASSUME Untiled PROVE FALSE
      OBVIOUS
    <3>1. s = 0 /\ \E n \in Needs : FirstFit(world, n) = {}
      BY <1>8, <1>9, <1>a DEF NoTiles
    <3> QED BY <1>a, <3>1, EmptyMapFits DEF PlayerFirst
  <2>6. PlayerFirst'
    BY <2>4, <2>5 DEF Heir, PlayerFirst, Untiled
  <2> QED BY <1>b, <2>2, <2>3, <2>6
<1>10. ASSUME NEW s \in Slots, Animate(s) PROVE Heritage'
  <2>1. /\ world'.armed = world.armed /\ world'.obj[s].tiles # {}
        /\ \A r \in Slots : /\ world'.obj[r].kind = world.obj[r].kind
                            /\ world'.obj[r].cell = world.obj[r].cell
                            /\ r # s => world'.obj[r] = world.obj[r]
    BY <1>10, <1>a, AnimateCells
  <2>2. level' = level
    BY <1>10 DEF Animate
  <2>3. ~Tied => Twinless(world', KeptCells)
    BY <1>a, <2>1 DEF Twinless, Live
  <2>4. ~Untiled'
    <3> SUFFICES ASSUME Untiled' PROVE FALSE
      OBVIOUS
    <3>1. s # 0 /\ Untiled
      BY <2>1, SlotType DEF Untiled
    <3> QED BY <1>8, <1>10, <1>a, <3>1
  <2>5. PlayerFirst'
    BY <2>4 DEF PlayerFirst
  <2> QED BY <1>b, <2>2, <2>3, <2>5
<1>11. CASE Crushed
  <2>1. Orderly /\ level' = level /\ pass = "contacts"
    BY <1>11, <1>a, CrushedOrderly DEF Crushed, Visit
  <2> QED BY <1>a, <2>1, Tiled, HeritageOrderly
<1>12. CASE NextProjectile
  BY <1>12, <1>a, <1>b, Tiled DEF NextProjectile, Enter, PlayerFirst, Untiled
<1>13. CASE TickSpawn \/ TickOverwrite
  <2>1. Orderly /\ level' = level /\ pass = "tick"
    BY <1>13, <1>a, TickOrderly DEF TickSpawn, TickOverwrite, Done
  <2> QED BY <1>a, <2>1, Tiled, HeritageOrderly
<1>14. CASE Respawn
  <2>1. /\ level' = level /\ pass' = "message" /\ running' = FALSE
        /\ world' = Reset(world, DOMAIN level.sites)
    BY <1>14 DEF Respawn, Enter
  <2>2. world'.taken = {} /\ \A s \in Slots : world'.obj[s].cell = NoCell
    BY <2>1 DEF Reset, Template
  <2> QED BY <1>b, <2>1, <2>2 DEF PlayerFirst, Twinless
<1>15. CASE Turning
  <2>1. Orderly /\ world'.obj = world.obj /\ world'.taken = world.taken
    BY <1>15, <1>a, TurningOrderly
  <2>2. ~Tied => Twinless(world', KeptCells)
    BY <1>a, <2>1, TwinlessHeirs, TwinlessRestored DEF Orderly
  <2>3. level' = level /\ at' = 0 /\ running' = FALSE
    BY <1>15, TurningCases
  <2>4. PlayerFirst'
    <3> SUFFICES ASSUME Untiled
                 PROVE  pass' \in {"drawMotion", "drawAnimation", "drawStrips", "edges", "first"}
      BY <1>a, <2>1, <2>3 DEF PlayerFirst, Untiled
    <3>1. /\ Live(world, 0)
          /\ \/ pass \in {"message", "drawMotion", "drawStrips", "edges"}
             \/ pass \in {"drawAnimation", "first"} /\ at = 0
      BY <1>a DEF PlayerFirst, Untiled, Live
    <3>2. Finished
      BY <1>15 DEF Turning, EndPass, DrawScreen, DrawAnimation, EndFirst, EndBegin,
                   BeginAnimation, EndFrame
    <3>3. pass \in {"message", "drawMotion", "drawStrips", "edges"}
      BY <3>1, <3>2, SlotType DEF Finished, AnimationPasses
    <3> QED BY <1>15, <3>3 DEF Turning, EndPass, DrawScreen, DrawAnimation, EndFirst, EndBegin,
                               BeginAnimation, EndFrame, Following, Enter
  <2> QED BY <1>b, <2>2, <2>3, <2>4
<1>16. CASE UNCHANGED vars
  BY <1>16, <1>a, <1>b DEF vars, frame, PlayerFirst, Untiled
<1>17. CASE Greeted
  <2>1. /\ world' \in Messages(world) /\ pass = "message" /\ pass' = pass /\ running' = FALSE
        /\ level' = level
    BY <1>17 DEF Greeted, Done
  <2>2. Heirs(world, world', {})
    BY <1>a, <2>1, MessagesHeirs DEF IInv
  <2>3. world'.obj[0] = world.obj[0] /\ world'.taken \subseteq world.taken
    BY <1>a, <2>1, MessagesGood DEF IInv
  <2>4. PlayerFirst'
    BY <1>a, <2>1, <2>3 DEF PlayerFirst, Untiled
  <2> QED BY <1>a, <1>b, <2>1, <2>2, <2>4, TwinlessHeirs
<1> QED BY <1>1, <1>2, <1>3, <1>4, <1>5, <1>6, <1>7, <1>9, <1>10, <1>11, <1>12, <1>13, <1>14,
           <1>15, <1>16, <1>17 DEF Next, Turning

\* Cells have one object at most where nothing ties them, and the player comes first.
THEOREM HeritageHolds == Spec => []Heritage
<1>1. Init => Heritage
  BY HeritageInit
<1>2. Heritage /\ [Next]_vars => Heritage'
  BY HeritageStep
<1> QED BY <1>1, <1>2, PTL DEF Spec

\* Where no flag is restored in place and no link outlives its rider, an armed cell has
\* no live object and no cell has two.
THEOREM ObjectsNoTwin == Spec => []NoTwin
<1>1. Heritage => NoTwin
  <2> SUFFICES ASSUME Heritage, ~Linking(level), ~level.rearms, NEW s \in Main,
                      Live(world, s), world.obj[s].cell # NoCell,
                      ~level.sites[world.obj[s].cell].kept
               PROVE  /\ world.obj[s].cell \notin world.armed
                      /\ \A r \in Main \ {s} : Live(world, r) => world.obj[r].cell # world.obj[s].cell
    BY DEF NoTwin
  <2>1. Twinless(world, KeptCells) /\ world.obj[s].cell \notin KeptCells
    BY DEF Heritage, Tied, KeptCells
  <2> QED BY <2>1, SlotType DEF Twinless
<1> QED BY <1>1, HeritageHolds, PTL

\* The player's record is not dropped for want of tiles.
THEOREM ObjectsPlayerNotDropped == Spec => PlayerNotDropped
<1> DEFINE Stays == world.obj[0].kind = "player" /\ world.obj[0].tiles = {} => Live(world', 0)
<1>1. Heritage /\ [Next]_vars => [Stays]_vars
  <2> SUFFICES ASSUME Heritage, Next, Untiled
               PROVE  Live(world', 0)
    BY DEF Stays, Untiled
  <2>a. IInv /\ PlayerFirst /\ Live(world, 0)
    BY DEF Heritage, Live, Untiled
  <2>b. /\ world.taken = {} /\ ~running
        /\ \/ pass \in {"message", "drawMotion", "drawStrips", "edges"}
           \/ pass \in {"drawAnimation", "first"}
    BY <2>a DEF PlayerFirst
  <2>c. \A s \in Slots : ~Seen(world, s)
    BY <2>a, <2>b, NoneSeen
  <2>1. ASSUME NEW c \in DOMAIN level.sites, SpawnSite(c) PROVE Live(world', 0)
    BY <2>1, <2>a, SpawnSiteCells DEF Live
  <2>2. ASSUME NEW s \in Slots, NoTiles(s) PROVE FALSE
    <3>1. PICK n \in Needs : FirstFit(world, n) = {}
      BY <2>2 DEF NoTiles
    <3> QED BY <2>a, <2>b, <3>1, EmptyMapFits
  <2>3. ASSUME NEW s \in Slots, Animate(s) PROVE Live(world', 0)
    BY <2>3, <2>a, AnimateCells, SlotType DEF Live
  <2>4. CASE Respawn
    BY <2>b, <2>4 DEF Respawn
  <2>5. CASE Turning
    BY <2>5, <2>a, TurningOrderly DEF Live
  <2>6. ASSUME NEW s \in Slots,
               \/ OpDestroy(s) \/ OpSpawn(s) \/ OpSpawnPlayer(s) \/ OpDropRider(s)
               \/ OpBecomeSplash(s) \/ OpTransform(s) \/ OpStop(s)
               \/ LeaveScreenAt(s) \/ SplatAt(s)
        PROVE  FALSE
    BY <2>6, <2>b, <2>c DEF OpDestroy, OpSpawn, OpSpawnPlayer, OpDropRider, OpBecomeSplash,
                      OpTransform, OpStop, CanRun, LeaveScreenAt, SplatAt, Seen
  <2>7. ASSUME NEW s \in Slots,
               \/ Struck(s) \/ Collected(s) \/ Broken(s) \/ Rearmed(s) \/ Spent(s)
               \/ Thrown(s) \/ KindCleared(s) \/ Spoken(s)
               \/ TakeAim(s) \/ AppleHit(s) \/ AppleCaught(s)
        PROVE  FALSE
    BY <2>7, <2>b DEF Struck, Collected, Broken, Rearmed, Spent, Thrown, KindCleared, Spoken,
                      Touched, TakeAim, AppleHit, AppleCaught, Struckable
  <2>8. ~Crushed /\ ~NextProjectile /\ ~TickSpawn /\ ~TickOverwrite
    BY <2>b DEF Crushed, NextProjectile, TickSpawn, TickOverwrite
  <2>9. CASE Greeted
    <3>1. world'.obj[0] = world.obj[0]
      BY <2>9, <2>a, MessagesGood DEF Greeted, IInv
    <3> QED BY <2>a, <3>1 DEF Live
  <2> QED BY <2>1, <2>2, <2>3, <2>4, <2>5, <2>6, <2>7, <2>8, <2>9 DEF Next, Turning
<1> QED BY <1>1, HeritageHolds, PTL DEF Spec, PlayerNotDropped
====
