---- MODULE AladdinObjects ----
(***************************************************************************)
(* native/frame.py STEPS, seen from the object records: the strips that    *)
(* spawn, the motion pass, the ground, the contacts with the player, the   *)
(* projectile contacts, the level's own events, the animation pass on odd  *)
(* frames with its tile allocation and uploads, and the start of a level   *)
(* or of another life, which empties the table and draws the screen in     *)
(* passes of its own (native/sequences.py level_prologue, respawn).        *)
(*                                                                         *)
(* What positions, hit points and scripts decide is left open, so any      *)
(* object may be struck, leave the screen or run any opcode in turn.  A    *)
(* step is one visit, one opcode or one callback.  The level says which of *)
(* the rarer ones its objects have.  Every template has a script.          *)
(***************************************************************************)
EXTENDS ObjectTable

CONSTANT Levels        \* what the levels' objects do: rider links, records moved to the
                       \* extra pool, flags restored in place, slot 1 overwritten, messages,
                       \* a locked camera, and each cell's spawn caller: a pair, its flag
                       \* kept or restored

SiteKinds == [pair : BOOLEAN, kept : BOOLEAN, owns : BOOLEAN]
LevelKinds == [links : BOOLEAN, throws : BOOLEAN, rearms : BOOLEAN, overwrites : BOOLEAN,
               speaks : BOOLEAN, locked : BOOLEAN,
               sites : UNION {[S -> SiteKinds] : S \in SUBSET Cells}]

\* Objects point at each other: riders of scripts, or pairs.
Linking(l) == l.links \/ \E c \in DOMAIN l.sites : l.sites[c].pair

\* No level both links records and moves them: a link that outlived its
\* rider, to a moved record's old slot, would release the tiles of the copy.
ASSUME LevelAssumption ==
    /\ Levels \subseteq LevelKinds
    /\ \A l \in Levels : l.throws => ~Linking(l)

VARIABLES level,
          world,
          pass,       \* the step of the frame, or of the start of a life
          at,         \* the next slot (or cell) the pass visits
          running,    \* the visited object's script runs; a projectile's box is held
          odd         \* bit 0 of FRAME_COUNTER

frame == <<pass, at, running, odd>>
vars == <<level, world, frame>>

\* A life starts with the level's message, the passes of draw_screen while the camera walks
\* over the window, the strips of its edges and a forced animation pass, whether it is the
\* level's first (level_prologue) or follows a lost one (respawn, with a motion pass more).
StripPasses == {"drawStrips", "edges", "strips"}
MotionPasses == {"drawMotion", "begin", "motion"}
AnimationPasses == {"drawAnimation", "first", "animation"}
Passes == StripPasses \cup MotionPasses \cup AnimationPasses
            \cup {"message", "ground", "contacts", "shots", "fall", "tick"}

Enter(p) == pass' = p /\ at' = 0 /\ running' = FALSE

\* The visit of slot s is over.
Done(s) == at' = s + 1 /\ running' = FALSE /\ UNCHANGED <<pass, odd, level>>

\* In a pass that looks at drawn objects alone the order of the visits is left open:
\* what one visit brings into the table has no frame yet and is passed over.
Visit == UNCHANGED <<frame, level>>

Init == /\ level \in Levels
        /\ world = [obj |-> [s \in Slots |-> Template(IF s = 0 THEN "player" ELSE "free")],
                    taken |-> {}, armed |-> DOMAIN level.sites,
                    picture |-> [t \in Tiles |-> Stale],
                    pending |-> [t \in Tiles |-> NoOne]]
        /\ pass = "message" /\ at = 0 /\ running = FALSE /\ odd = TRUE

----------------------------------------------------------------------------
\* Strips: spawn.walk_strip over the cells.

\* run_site for a caller of one record.
SpawnOne(c) ==
    \E pool \in PoolNames \ {"extra"} : \E s \in FirstFree(world, pool) :
        world' = Placed(world, s, c, level.sites[c])

\* A caller of two looks for the second record when it has the first, and links the two.
SpawnPair(c) ==
    \E pool \in PoolNames \ {"extra"} : \E s \in FirstFree(world, pool) :
        LET w1 == Placed(world, s, c, level.sites[c])
        IN  IF FirstFree(w1, pool) = {} THEN world' = w1
            ELSE \E r \in FirstFree(w1, pool) :
                     world' = LinkedPair(Placed(w1, r, c, level.sites[c]), s, r)

SpawnSite(c) ==
    /\ pass \in StripPasses /\ c >= at /\ c \in world.armed
    /\ IF level.sites[c].pair THEN SpawnPair(c) ELSE SpawnOne(c)
    /\ Done(c)

----------------------------------------------------------------------------
\* Scripts: Engine.execute, in either channel.

CanRun(s) == /\ Live(world, s)
             /\ \/ pass \in AnimationPasses /\ running /\ s = at
                \/ pass \in MotionPasses /\ world.obj[s].shown

OpDestroy(s) == /\ CanRun(s)
                /\ \E mode \in BOOLEAN : world' = Destroy(world, s, mode)
                /\ IF running THEN Done(s) ELSE Visit

OpSpawn(s) ==
    /\ CanRun(s)
    /\ \E pool \in PoolNames :
           LET o == Template(IF pool = "extra" THEN "shot" ELSE "actor")
           IN  \/ world' \in Spawned(world, pool, o)
               \/ level.links /\ pool \in {"up", "down"} /\ world' \in SpawnedRider(world, s, pool, o)
    /\ Visit

\* Mode 4: the player's own record when it is free.
OpSpawnPlayer(s) == /\ CanRun(s) /\ ~Live(world, 0)
                    /\ world' = Initialise(world, 0, Template("effect"))
                    /\ Visit

OpDropRider(s) == /\ CanRun(s) /\ world.obj[s].rider # NoOne
                  /\ world' = FreeRider(world, world.obj[s].rider)
                  /\ Visit

OpBecomeSplash(s) == /\ CanRun(s)
                     /\ world' = Become(world, s, "effect")
                     /\ Visit

\* transform_first_89: another object becomes an effect, its flag restored.
OpTransform(s) ==
    /\ CanRun(s) /\ level.rearms
    /\ \E t \in Main : /\ world.obj[t].kind = "actor"
                       /\ world' = Retyped(RestoreSpawnFlag(world, t), t, "effect")
    /\ Visit

\* Opcodes that touch no record, and the frame word that ends the run.
OpStop(s) == CanRun(s) /\ running /\ UNCHANGED world /\ Done(s)

----------------------------------------------------------------------------
\* Motion: Engine.step_motion.

LeaveScreenAt(s) == /\ pass \in MotionPasses
                    /\ Seen(world, s) /\ world.obj[s].kind # "player"
                    /\ world' = Despawn(world, s)
                    /\ Visit

\* Ground: an object that breaks on it (flags3c bit 3) meets it.
SplatAt(s) == /\ pass = "ground" /\ s # 0 /\ Seen(world, s)
              /\ world' = Become(world, s, "effect")
              /\ Visit

----------------------------------------------------------------------------
\* Contacts with the player: contact_scan.player_contact_scan and the callbacks of contacts.py.

Touched(s) == /\ pass = "contacts" /\ s \in Main
              /\ Seen(world, s) /\ world.obj[s].kind = "actor"
              /\ Seen(world, 0)

\* sword_hit, dust_on_sword, burst, flag_on_sword: an effect in its place, the rider
\* retired or not; drop_gem leaves another object.
Struck(s) ==
    /\ Touched(s)
    /\ \E retired \in BOOLEAN :
           LET w1 == IF retired THEN Retire(world, s) ELSE world
               w2 == Become(w1, s, "effect")
           IN  world' \in {w2} \cup Spawned(w2, "down", Template("actor"))
    /\ Visit

\* collect: the counter is full, and the item's flag goes back first; or not.
Collected(s) ==
    /\ Touched(s)
    /\ \E full \in BOOLEAN :
           LET w1 == IF full THEN RestoreSpawnFlag(world, s) ELSE world
           IN  world' = Become(Retire(w1, s), s, "effect")
    /\ Visit

\* pot, cut_rope, lamp, platform_break: a script of its own, with or without another object.
Broken(s) ==
    /\ Touched(s)
    /\ \E kind \in {"actor", "effect"} :
           LET w1 == Retyped(world, s, kind)
           IN  world' \in {w1} \cup Spawned(w1, "middle", Template("actor"))
                             \cup Spawned(w1, "up", Template("effect"))
    /\ Visit

\* platform_lift_switch
Rearmed(s) == /\ Touched(s) /\ level.rearms
              /\ world' = RestoreSpawnFlag(world, s)
              /\ Visit

\* apple_thrower without the sword
Spent(s) == Touched(s) /\ world' = Free(world, s) /\ Visit

\* carried_object; apple_thrower, which clears the owner bit, with its splash.
Thrown(s) ==
    /\ Touched(s) /\ level.throws
    /\ \E d \in FirstFree(world, "extra") :
           LET w1 == MoveTo(world, s, d)
               w2 == Disowned(Disowned(w1, d), s)
           IN  world' \in {w1} \cup Spawned(w2, "up", Template("effect"))
    /\ Visit

\* clear_kind: every object of one kind, then the item itself.
KindCleared(s) ==
    /\ Touched(s)
    /\ \E S \in SUBSET {t \in Main \ {s} : world.obj[t].kind = "actor"} :
           world' = Become(Retire(ClearedKind(world, S), s), s, "effect")
    /\ Visit

\* shop: a message over the level's own.
Spoken(s) == /\ Touched(s) /\ level.speaks
             /\ world' \in Messages(world)
             /\ Visit

\* tiles.crush: the player's record is freed when there is one for the effect.
Crushed ==
    /\ pass = "contacts" /\ Live(world, 0)
    /\ \E r \in FirstFree(world, "up") :
           world' = Initialise(Free(world, 0), r, Template("effect"))
    /\ Visit

----------------------------------------------------------------------------
\* Projectiles: contact_scan.projectile_contact_scan.

\* The projectile's box is read once, before its targets.
TakeAim(p) == /\ pass = "shots" /\ ~running /\ p \in Extra
              /\ Seen(world, p) /\ world.obj[p].kind = "shot"
              /\ at' = p /\ running' = TRUE
              /\ UNCHANGED <<world, pass, odd, level>>

Struckable(t) == /\ pass = "shots" /\ running
                 /\ Seen(world, t) /\ world.obj[t].kind = "actor"

\* apple_lands and apple_kill: each may happen without the other; gem_enemy drops a gem.
AppleHit(t) ==
    /\ Struckable(t)
    /\ \E lands, kills, drops \in BOOLEAN :
           LET w1 == IF lands THEN Become(world, at, "effect") ELSE world
               w2 == IF kills THEN Become(Retire(w1, t), t, "effect") ELSE w1
           IN  /\ lands \/ kills
               /\ IF kills /\ drops THEN world' \in Spawned(w2, "down", Template("actor"))
                                    ELSE world' = w2
    /\ UNCHANGED <<frame, level>>

\* apple_caught: a fresh apple is spent as well.
AppleCaught(t) ==
    /\ Struckable(t)
    /\ \E fresh \in BOOLEAN :
           LET w1 == Disowned(Retyped(world, t, "effect"), t)
           IN  world' = IF fresh /\ Live(world, at) THEN Retyped(w1, at, "effect") ELSE w1
    /\ UNCHANGED <<frame, level>>

NextProjectile == pass = "shots" /\ running /\ Enter("shots") /\ UNCHANGED <<world, odd, level>>

----------------------------------------------------------------------------
\* A lost life, and the level's events.

\* sequences.respawn, up to level_init; or the player continues, and level_prologue clears
\* the same.
Respawn == /\ pass = "fall"
           /\ world' = Reset(world, DOMAIN level.sites)
           /\ Enter("message") /\ odd' = TRUE
           /\ UNCHANGED level

\* level_init shows the level's message.
Greeted == /\ pass = "message" /\ at = 0 /\ level.speaks
           /\ world' \in Messages(world)
           /\ Done(0)

\* flow.level_tick: spawns of the level routines and of the event stream.
TickSpawn == /\ pass = "tick" /\ at = 0
             /\ \E pool \in PoolNames \ {"extra"} :
                    world' \in Spawned(world, pool, Template("actor"))
             /\ Done(0)

\* tick_level_12: slot 1 becomes another object, whatever it held.
TickOverwrite == /\ pass = "tick" /\ at = 0 /\ level.overwrites
                 /\ world' = Initialise(world, 1, Template("actor"))
                 /\ Done(0)

----------------------------------------------------------------------------
\* Animation: Engine.step_animation over the live records.

\* The next live record.
Visited(s) == /\ pass \in AnimationPasses /\ ~running /\ s >= at
              /\ Live(world, s) /\ \A u \in at..(s - 1) : ~Live(world, u)

\* allocate_vram fails: the visit is over.
NoTiles(s) == /\ Visited(s) /\ world.obj[s].tiles = {}
              /\ \E n \in Needs : FirstFit(world, n) = {}
              /\ world' = Drop(world, s)
              /\ Done(s)

\* The worlds in which s has its tiles.
Equipped(s) ==
    IF world.obj[s].tiles # {} THEN {world}
    ELSE UNION {{Allocated(world, s, t, n) : t \in FirstFit(world, n)} : n \in Needs}

\* Its first frame is drawn (a later one goes to the same tiles again); the script runs when
\* no delay is left.
Animate(s) ==
    /\ Visited(s)
    /\ \E w \in Equipped(s) : world' = IF world.obj[s].shown THEN w ELSE Draw(w, s)
    /\ at' = s /\ running' = TRUE
    /\ UNCHANGED <<pass, odd, level>>

----------------------------------------------------------------------------
\* From one pass to the next.

Following == [drawAnimation |-> "drawStrips", edges |-> "first", strips |-> "motion",
              motion |-> "ground", ground |-> "contacts", contacts |-> "shots",
              shots |-> "fall", fall |-> "tick"]

\* Only live records keep an animation pass going.
Finished == /\ ~running
            /\ pass \in AnimationPasses => \A s \in Slots : s >= at => ~Live(world, s)

\* The frame is counted before its motion pass.
EndPass == /\ Finished /\ pass \in DOMAIN Following /\ Enter(Following[pass])
           /\ odd' = IF pass = "strips" THEN ~odd ELSE odd
           /\ UNCHANGED <<world, level>>

\* draw_screen: another strip pass when the camera can move, or none any more; each ends
\* with the queue sent.
DrawScreen == /\ Finished /\ pass \in {"message", "drawStrips"}
              /\ \/ ~level.locked /\ Enter("drawMotion")
                 \/ Enter("edges")
              /\ world' = IF pass = "drawStrips" THEN Flush(world) ELSE world
              /\ UNCHANGED <<odd, level>>

\* It counts the frames of one half of its walk alone: their parity is left open.
DrawAnimation == /\ Finished /\ pass = "drawMotion"
                 /\ \/ Enter("drawAnimation") \/ Enter("drawStrips")
                 /\ world' = ClearQueue(world)
                 /\ UNCHANGED <<odd, level>>

\* The forced animation pass of a life: FRAME_COUNTER is FF before it.  level_prologue sends
\* the queue and the main loop counts on; respawn moves the objects first.
EndFirst == /\ Finished /\ pass = "first"
            /\ \/ Enter("motion") /\ odd' = FALSE /\ world' = Flush(world)
               \/ Enter("begin") /\ UNCHANGED <<odd, world>>
            /\ UNCHANGED level

\* After a lost life the queue is sent once objects have moved, and the frame goes on
\* where it was left.
EndBegin == /\ Finished /\ pass = "begin" /\ Enter("tick")
            /\ world' = Flush(world)
            /\ UNCHANGED <<odd, level>>

\* animation_pass: the queue count is cleared before the parity is looked at.
BeginAnimation ==
    /\ Finished /\ pass = "tick"
    /\ IF odd THEN Enter("animation") /\ world' = ClearQueue(world)
              ELSE Enter("strips") /\ world' = Flush(ClearQueue(world))
    /\ UNCHANGED <<odd, level>>

\* vram_upload_flush, the next frame's first step.
EndFrame == /\ Finished /\ pass = "animation" /\ Enter("strips")
            /\ world' = Flush(world)
            /\ UNCHANGED <<odd, level>>

Next == \/ \E c \in DOMAIN level.sites : SpawnSite(c)
        \/ \E s \in Slots :
              \/ OpDestroy(s) \/ OpSpawn(s) \/ OpSpawnPlayer(s) \/ OpDropRider(s)
              \/ OpBecomeSplash(s) \/ OpTransform(s) \/ OpStop(s)
              \/ LeaveScreenAt(s) \/ SplatAt(s)
              \/ Struck(s) \/ Collected(s) \/ Broken(s) \/ Rearmed(s) \/ Spent(s)
              \/ Thrown(s) \/ KindCleared(s) \/ Spoken(s)
              \/ TakeAim(s) \/ AppleHit(s) \/ AppleCaught(s)
              \/ NoTiles(s) \/ Animate(s)
        \/ Crushed \/ NextProjectile
        \/ Respawn \/ Greeted \/ TickSpawn \/ TickOverwrite
        \/ EndPass \/ DrawScreen \/ DrawAnimation \/ EndFirst \/ EndBegin
        \/ BeginAnimation \/ EndFrame

Spec == Init /\ [][Next]_vars

----------------------------------------------------------------------------
\* Properties.

\* The variables stay in the sets their declarations name.
TypeOK ==
    /\ level \in Levels /\ world \in Worlds
    /\ pass \in Passes /\ at \in Nat /\ running \in BOOLEAN /\ odd \in BOOLEAN

\* No two live objects hold the same VRAM tile slot, and what a live object holds is
\* marked in the map: through retired pairs, records moved with their tiles, effects
\* that take an object's place and records found with a pointer left in them.
TilesExclusive ==
    \A s \in Slots : Live(world, s) =>
        /\ world.obj[s].tiles \subseteq world.taken
        /\ \A r \in Slots \ {s} :
               Live(world, r) => world.obj[s].tiles \cap world.obj[r].tiles = {}

\* Where no rider is dropped with its carrier for want of tiles and slot 1 is not
\* overwritten, every tile slot marked in the map has a live holder: nothing leaks.
NoTileLeaks ==
    ~Linking(level) /\ ~level.overwrites =>
        world.taken \subseteq UNION {world.obj[s].tiles : s \in {r \in Slots : Live(world, r)}}

\* The tile slots of an object that has been drawn show its own frame, or will at the
\* next flush: never that of the object that held them before.
Upcoming(t) == IF world.pending[t] = NoOne THEN world.picture[t] ELSE world.pending[t]
OwnFrame ==
    \A s \in Slots : Seen(world, s) => \A t \in world.obj[s].tiles : Upcoming(t) = s

\* Where no flag is restored in place and no link outlives its rider, a cell that
\* is armed has no live object, and no cell has two.
NoTwin ==
    ~Linking(level) /\ ~level.rearms =>
        \A s \in Main : LET c == world.obj[s].cell
                        IN  Live(world, s) /\ c # NoCell /\ ~level.sites[c].kept =>
                            /\ c \notin world.armed
                            /\ \A r \in Main \ {s} : Live(world, r) => world.obj[r].cell # c

\* The player's record, first in the table, is never dropped for want of tiles: a life
\* starts with the map empty, and the player keeps its tiles until its record goes.
PlayerNotDropped ==
    [][world.obj[0].kind = "player" /\ world.obj[0].tiles = {} => Live(world', 0)]_vars
====
