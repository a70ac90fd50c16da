---- MODULE ObjectTable ----
(***************************************************************************)
(* aladdin_sega/game/objects/{record,lifecycle,script_engine}.py, spawn.py *)
(* and video.py: what one call does to the object records, to the map of   *)
(* VRAM tile slots they draw from, to the level's spawn flags and to the   *)
(* upload queue.                                                           *)
(*                                                                         *)
(* A record keeps what these calls read: positions, scripts, hit points    *)
(* and speeds are left out, and a sprite's contents are the slot whose     *)
(* frame they show.  The slots are the player's (0), the main pool and the *)
(* extra pool.                                                             *)
(***************************************************************************)
EXTENDS Integers, Sequences

CONSTANTS MainSize, ExtraSize,   \* records behind the player's: 24 and 7
          Pools,                 \* the orders in which a free record is looked for
          TileSlots,             \* VRAM_SLOT_COUNT
          Needs,                 \* vram_slots of the templates: tile slots beside the first
          Cells                  \* level cells that carry a spawn flag

Slots == 0..(MainSize + ExtraSize)
Main == 1..MainSize
Extra == (MainSize + 1)..(MainSize + ExtraSize)
Tiles == 0..(TileSlots - 1)

NoOne == -1        \* a null record pointer
Stale == -2        \* the frame of an object that is gone
NoCell == -3       \* spawn flag 0: from no cell

PoolNames == {"up", "down", "middle", "extra"}
Kinds == {"free", "player", "actor", "effect", "shot", "glyph"}

ASSUME TableAssumption ==
    /\ MainSize \in Nat \ {0} /\ ExtraSize \in Nat
    /\ Pools \in [PoolNames -> Seq(Main \cup Extra)]
    /\ TileSlots \in Nat \ {0} /\ Needs \subseteq 0..(TileSlots - 1)
    /\ Cells \subseteq Nat

Objects == [kind : Kinds,
            tiles : SUBSET Tiles,          \* the run at vram_map, {} for none
            shown : BOOLEAN,               \* frame is not 0
            rider : Slots \cup {NoOne},
            carries : BOOLEAN,             \* flags3c bit 2
            cell : Cells \cup {NoCell},    \* spawn_index, spawn_flag
            owns : BOOLEAN]                \* flags6 bit 5: the spawn flag is put back

Frames == Slots \cup {NoOne, Stale}

Worlds == [obj : [Slots -> Objects],
           taken : SUBSET Tiles,           \* the map at FFF008
           armed : SUBSET Cells,           \* cells whose spawn flag is set
           picture : [Tiles -> Frames],    \* VRAM
           pending : [Tiles -> Frames]]    \* the upload queue: its last entry for each tile slot

Live(w, s) == w.obj[s].kind # "free"
Seen(w, s) == Live(w, s) /\ w.obj[s].shown

----------------------------------------------------------------------------
\* The life of a record.

\* The record as its template leaves it: no frame, tiles, rider or cell.
Template(kind) == [kind |-> kind, tiles |-> {}, shown |-> FALSE, rider |-> NoOne,
                   carries |-> FALSE, cell |-> NoCell, owns |-> FALSE]

\* What a slot's frame becomes when the slot is given to another object.
Renamed(frames, s, new) == [t \in Tiles |-> IF frames[t] = s THEN new ELSE frames[t]]

\* lifecycle.initialize
Initialise(w, s, o) ==
    [w EXCEPT !.obj[s] = o,
              !.picture = Renamed(@, s, Stale), !.pending = Renamed(@, s, Stale)]

\* kind = 0.  What nothing reads from a record out of use is not kept; its spawn fields
\* are, as a pointer to the record may still restore its flag.
Freed(o) == [o EXCEPT !.kind = "free", !.shown = FALSE, !.rider = NoOne, !.carries = FALSE]

Kill(w, s) == [w EXCEPT !.obj[s] = Freed(@),
                        !.picture = Renamed(@, s, Stale), !.pending = Renamed(@, s, Stale)]

\* Engine.release
Release(w, s) == [w EXCEPT !.obj[s].tiles = {}, !.taken = @ \ w.obj[s].tiles]

Free(w, s) == Release(Kill(w, s), s)

FreeRider(w, r) == IF r = NoOne THEN w ELSE Free(w, r)

\* Engine.retire
Retire(w, s) == FreeRider(Free(w, s), w.obj[s].rider)

Unlink(w, r) ==
    IF r = NoOne THEN w
    ELSE [w EXCEPT !.obj[r].rider = NoOne, !.obj[r].carries = FALSE]

\* Engine.destroy: mode 0 leaves the rider of a record that carries none.
Destroy(w, s, mode) ==
    IF mode \/ w.obj[s].carries THEN Retire(w, s)
    ELSE Unlink(Free(w, s), w.obj[s].rider)

\* Engine.restore_spawn_flag
RestoreSpawnFlag(w, s) == [w EXCEPT !.armed = @ \cup ({w.obj[s].cell} \cap Cells)]

LeaveScreen(w, s) ==
    IF w.obj[s].owns THEN RestoreSpawnFlag(Free(w, s), s) ELSE Free(w, s)

\* Engine.despawn, the rider in the same way.
Despawn(w, s) ==
    LET r == w.obj[s].rider
    IN  IF r = NoOne THEN LeaveScreen(w, s) ELSE LeaveScreen(LeaveScreen(w, s), r)

\* contacts._become, ground._splat, become_splash
\* Slip: the template is expanded over the record without the release.
BecomeUnreleased(w, s, kind) == Initialise(w, s, Template(kind))
Become(w, s, kind) == Initialise(Free(w, s), s, Template(kind))

\* A callback retypes the record in place, or takes its cell from it.
Retyped(w, s, kind) == [w EXCEPT !.obj[s].kind = kind]
Disowned(w, s) == [w EXCEPT !.obj[s].owns = FALSE]

\* carried_object, apple_thrower: the record is copied to d, its own kind set to 0.
\* Slip: the record copied is released, and with it the tiles of the copy.
MoveToReleased(w, s, d) ==
    [w EXCEPT !.obj[d] = [w.obj[s] EXCEPT !.kind = "shot"],
              !.obj[s] = Freed(@), !.taken = @ \ w.obj[s].tiles,
              !.picture = Renamed(Renamed(@, d, Stale), s, d),
              !.pending = Renamed(Renamed(@, d, Stale), s, d)]
MoveTo(w, s, d) ==
    [w EXCEPT !.obj[d] = [w.obj[s] EXCEPT !.kind = "shot"],
              !.obj[s] = Freed(@),
              !.picture = Renamed(Renamed(@, d, Stale), s, d),
              !.pending = Renamed(Renamed(@, d, Stale), s, d)]

----------------------------------------------------------------------------
\* Looking for a free record, placing an object in it.

\* spawn._find, contacts._find_free: none or one.
FirstFree(w, pool) ==
    LET p == Pools[pool]
    IN  {p[i] : i \in {i \in DOMAIN p : /\ ~Live(w, p[i])
                                        /\ \A j \in 1..(i - 1) : Live(w, p[j])}}

\* The outcomes of a spawn: nothing when the pool is full.
Spawned(w, pool, o) ==
    IF FirstFree(w, pool) = {} THEN {w} ELSE {Initialise(w, s, o) : s \in FirstFree(w, pool)}

\* Both records of a pair point at each other.
LinkedPair(w, s, r) ==
    [w EXCEPT !.obj[s].rider = r, !.obj[s].carries = TRUE, !.obj[r].rider = s]

\* Engine.spawn in modes 5 and 6: the new object is the spawner's rider.
SpawnedRider(w, s, pool, o) ==
    IF FirstFree(w, pool) = {} THEN {w}
    ELSE {LinkedPair(Initialise(w, r, o), s, r) : r \in FirstFree(w, pool)}

\* spawn._place: an object of cell c; the flag is cleared unless the pool keeps it.
Placed(w, s, c, site) ==
    [Initialise(w, s, [Template("actor") EXCEPT !.cell = c, !.owns = site.owns])
        EXCEPT !.armed = IF site.kept THEN @ ELSE @ \ {c}]

\* contacts._clear_kind, messages.clear_glyphs: the records of S go, with their tiles.
ClearedKind(w, S) ==
    [w EXCEPT !.obj = [s \in Slots |-> IF s \in S
                                       THEN [Freed(@[s]) EXCEPT !.tiles = {}] ELSE @[s]],
              !.taken = @ \ UNION {w.obj[s].tiles : s \in S}]

\* messages.show: the letters of the last message go, and the new ones take the lowest
\* free slots of the whole table, as far as there are any.
Glyphs(w) == {s \in Slots \ {0} : w.obj[s].kind = "glyph"}
Unused(w) == {s \in Slots \ {0} : ~Live(w, s)}

Lettered(w, S) ==
    LET Blank(frames) == [t \in Tiles |-> IF frames[t] \in S THEN Stale ELSE frames[t]]
    IN  [w EXCEPT !.obj = [s \in Slots |-> IF s \in S THEN Template("glyph") ELSE @[s]],
                  !.picture = Blank(@), !.pending = Blank(@)]

Messages(w) ==
    LET w1 == ClearedKind(w, Glyphs(w))
    IN  {Lettered(w1, S) : S \in {T \in SUBSET Unused(w1) :
                                     \A s \in T, r \in Unused(w1) : r < s => r \in T}}

----------------------------------------------------------------------------
\* Tiles and their upload.

\* Engine.allocate_vram: the starts of runs of n + 1 free tile slots; the first is taken.
\* Slip: the last start looked at is one too far.
Run(start, n) == start..(start + n)
FirstFitBeyond(w, n) ==
    LET fits == {t \in 0..(TileSlots - n) : Run(t, n) \cap w.taken = {}}
    IN  {t \in fits : \A u \in fits : t <= u}
FirstFit(w, n) ==
    LET fits == {t \in 0..(TileSlots - n - 1) : Run(t, n) \cap w.taken = {}}
    IN  {t \in fits : \A u \in fits : t <= u}

Allocated(w, s, t, n) ==
    [w EXCEPT !.obj[s].tiles = Run(t, n), !.taken = @ \cup Run(t, n)]

\* No run: the record and its rider are dropped, their spawn flags restored.
\* Slip: the record lives on.
DropKeepsRecord(w, s) ==
    LET w1 == RestoreSpawnFlag(w, s)
        r == w.obj[s].rider
    IN  IF r = NoOne THEN w1 ELSE Kill(RestoreSpawnFlag(w1, r), r)
Drop(w, s) ==
    LET w1 == Kill(RestoreSpawnFlag(w, s), s)
        r == w.obj[s].rider
    IN  IF r = NoOne THEN w1 ELSE Kill(RestoreSpawnFlag(w1, r), r)

\* Engine.queue_frame_upload
\* Slip: an entry already queued for the tile slot stays the last.
DrawBehind(w, s) ==
    [w EXCEPT !.obj[s].shown = TRUE,
              !.pending = [t \in Tiles |-> IF t \in w.obj[s].tiles /\ @[t] = NoOne
                                           THEN s ELSE @[t]]]
Draw(w, s) ==
    [w EXCEPT !.obj[s].shown = TRUE,
              !.pending = [t \in Tiles |-> IF t \in w.obj[s].tiles THEN s ELSE @[t]]]

\* video.flush_upload_queue: the entries stay queued.
Flush(w) ==
    [w EXCEPT !.picture = [t \in Tiles |-> IF w.pending[t] = NoOne THEN @[t] ELSE w.pending[t]]]

ClearQueue(w) == [w EXCEPT !.pending = [t \in Tiles |-> NoOne]]

\* respawn: clear_records, the tile map cleared, reload_attributes, init_player.
\* Slip: the tile map is left as it was.
ResetKeepsMap(w, cells) ==
    [Initialise([w EXCEPT !.picture = [t \in Tiles |-> Stale],
                          !.pending = [t \in Tiles |-> IF @[t] = NoOne THEN NoOne ELSE Stale]],
                0, Template("player"))
        EXCEPT !.obj = [s \in Slots |-> Template(IF s = 0 THEN "player" ELSE "free")],
               !.armed = cells]
Reset(w, cells) ==
    [obj |-> [s \in Slots |-> Template(IF s = 0 THEN "player" ELSE "free")],
     taken |-> {}, armed |-> cells,
     picture |-> [t \in Tiles |-> Stale],
     pending |-> [t \in Tiles |-> IF w.pending[t] = NoOne THEN NoOne ELSE Stale]]
====
