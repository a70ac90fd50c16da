# TLA+ models of genesis_re

genesis_re recovers Sega Genesis games (Aladdin, Gods) into readable source by
running the original cartridge under a deterministic machine, replacing spans of
its 68000 code by recovered Python under *gates*, and comparing, frame by frame,
the machine with recovered code to the machine without it.  What the repository
claims ("a PASS covers the native binary and the source tree in its receipt",
"a cached continuation equals the cold run", "nodes are never edited") rests on
the shared layer `src/src/genesis_re` and on the adapter `src/native/machine.cpp`:
who may run when, what is on disk when a process dies, which tree a worker
executed.  That layer is what this directory models first, because no recovered
routine is evidence of anything if it is wrong; the games' own code follows.

Paths below are relative to the repository with its top directory named `src/`
(so the package is `src/src/genesis_re`).

## 1. Inventory

| component | state it keeps | operations | what is hard | what makes it correct |
|---|---|---|---|---|
| Native machine adapter (`native/machine.cpp`) around the PortForge board (a git submodule, not in the tree) | engine clock, RAM, pad latch, gate set, single gate, one bypass, PCM vector, "invalid" flag | `al_run`, `al_gate`, `al_gates`, `al_atomic`, `al_pad`, `al_export`, `al_import`, `al_audio` | a gate stops at an instruction boundary *after* interrupt admission; a plan is admitted whole or not at all, against the caller's deadline and the next interrupt | a plan never crosses the deadline or an interrupt; a bypass never outlives the instruction it is for |
| Frame stepping (`history_runtime.GenesisRun`) | frame, held mask, `_run_to` loop counters | `step`, `advance`, `restore`, `pack`, `cache`, `restore_cache` | the pad changes hands at the wrap while recovered code straddles it; progress must be detected | a completed frame is the original's frame; a step always ends |
| Gated execution and seams (`seam.py`, `gods_sega/recovery.py`, `aladdin_sega/recovery.py`) | the open seam: entry, resume, stack basis, guarded words | `arm`, `on_gate`, `run_seam`, `_fallback` | an interrupt or nested call passes the seam's resume; the observation instant falls inside the platform operation; a suffix is refused after its prefix was committed | the original takes over exactly where the recovered code stopped, once |
| Input history (`history.py`) | a directory of immutable node files, presentations, `main` | `append`, `ancestry`, `flatten`, `resolve`, `set_main`, `write_json` | crash between two file operations, two processes in one directory, the same path through different checkpoints | every node derives from its parent down to the root; `main` names one |
| Live session (`history_runtime.Session`) | parent node, journal of mask changes, held mask, machine, cache identity | cold or cached start, `step`, `checkpoint`, `preserve_failure`, `__exit__` | the journal is written before the frame runs; a start may be cold, replayed or cached; a library may be rebuilt | the journal is what the machine ran under; nothing played is lost |
| History verification (`verification.py`, `receipt.py`) | receipts, two worker processes, the oracle cache, payloads, a report | `compare_history`, `execute_history`, `oracle_key`, `_validate_execution`, `_run_workers` | the tree is edited and the graph extended while workers run; workers hang or die; comparisons share the cache; a candidate is stopped early | a verdict is that of the receipt's tree over the identified graph; every comparison is reported |
| PCM output (`audio.py`) | deque of chunks, offset, counters, `playing`; device thread | `push`, `fill`, `clear`, `stats`; `FramePacer` | the device callback against the UI thread, underrun, overflow | order, no loss, no duplication, counters agree |
| Player window (`frontend.py`) | chooser, timeline, paused flag | the event loop: calls `Session` and `AudioOutput` | a full audio buffer or an exception in the loop ends a session | only through what it calls |
| Aladdin objects (`aladdin_sega/game/objects`, `game/spawn.py`, `tiles.py`, `video.py`) | 31 object records, the map of VRAM tile slots, spawn flags, the upload queue | a pass of the frame each: spawn strips, motion, ground, contacts, projectile contacts, the level's events, animation | records are freed, moved, retyped and overwritten by callbacks of each other; the pools, the tile slots and the queue are shared | no tile slot with two holders or none, no object with another's frame, no twin of a spawned object |
| The rest of the Aladdin game (`aladdin_sega/game`), dispatcher (`recovery.py`), planners (`boundary.py`, `recovered.py`) | work RAM (player, scroll and HUD state) | one pure function per routine, one planner per gate | seams written inline, state domains a planner must decline | recovered effect = original effect |
| Aladdin game flow (`native/boot.py`, `title.py`, `sequences.py`, `frame.py`; `game/flow.py`, `pause.py`, `pad.py`) | level, level stream, lives, continues, difficulty, countdowns, stored pad bytes, the any-button latch | one routine per screen, the main loop's steps, `run_transition` | screens reached in every order; state one screen leaves and another reads | the level is the stream's; a demo is never paused; a held Start pauses once |
| The rest of the native runtime (`aladdin_sega/native`) | a flat RAM, replay clock, sound driver machine, VDP and palette state | `SoundService.park/call`, `Replay`, rendering | one host frame is not one game frame: waits nest inside sequences | each step of the frame runs once, in order, and resumes where it waited |
| Gods line walker (`gods_sega/game/walker.py`, `animation.py`, `projectiles.py`) | a walker record per solid and per projectile, the shared budget word | `start`, `run` in two copies, `animation_step`, `launch_toward` | a walk is cut into calls; words wrap and one bit decides; two exits leave different counters | the walk stays on its line; a solid is put on its waypoint when it has walked there |
| The rest of Gods and its planners (`gods_sega/game`, `boundary.py`) | work RAM (player, creatures, pickups, triggers, timers, sprite cache) | one pure function per routine, one planner per gate | numeric edges (BCD score, 16-bit positions), pools at their limit | recovered effect = original effect |
| Command line, profiles, registry; artifacts, diagnostics; scripts | constants, archives | argument parsing, reports | none of their own | — |

### How they interact

* `Session` and `execute_history` own a `GenesisRun`, which owns a native
  `Machine`; the candidate's dispatcher is called back by `_run_to` whenever the
  machine yields at a gate, and itself calls the machine (`atomic`, `gates`,
  `gate`, `run`, `registers`, `peek_ram`), all synchronously on one thread.
* `Session` reads and writes the store's directory; several processes may share
  it, and `history-verify` reads it while a session extends it.
* `compare_history` is a parent process with two workers and a shared cache
  directory; nothing but files and a payload passes between them, and the source
  tree both import from is edited by people and agents meanwhile.
* Both write a file by opening a temporary named after it, which empties it, writing
  it and moving it over the file.  The name is the same for every process, so
  processes that write one file share its temporary too.
* `AudioOutput` is called by the UI thread and by SDL's mixer thread under one lock.

The list of hazards this gives, each at its line with the properties that would
catch it, is in `PROJECT.json`.

## 2. Modules

```
GenesisMachine  <-- CanonicalRun            HistoryStore <-- Session <-- MCSession
      ^               ^ (refines)               ^               ^
      |               |                     HistoryStoreProofs <-- SessionProofs
  GenesisRun ---------+                     HistoryVerification <-- MCHistoryVerification
   ^       ^                                  ^ HistoryVerificationProofs
MCGenesisRun  GenesisRunProofs              PcmStream <-(refines)- PcmBuffer <-- PcmBufferProofs

MCGameFlow --> GameFlow <-- GameFlowProofs

ObjectTable <-- AladdinObjects <-- MCAladdinObjects      LineWalker <-- GodsWalks <-- MCGodsWalks
                      ^                                                     ^
                AladdinObjectsProofs                                  GodsWalksProofs
```

### GenesisMachine (external) and CanonicalRun

The PortForge interpreter is not in the repository; `GenesisMachine` is what the
adapter and the Python layer rely on: a fixed program of instructions with costs,
an interrupt admitted at the first instruction boundary at or after its instant,
a pad latch the program reads, one saved stack word a platform operation may
overwrite.  A machine state records where the last interrupt landed and which
mask was last read, so two executions that a game could tell apart are different
states.  `CanonicalRun` is the promise of docs/common/history-and-replay.md: the
original alone, the mask of a frame set at the wrap, observed at the first
boundary at or after the observation instant.

### GenesisRun

`GenesisRun.step` with a candidate armed.  `py` is where the Python side stands:

| `py` | code |
|---|---|
| `loop` | the head and tail of `_run_to` (`Resume`, `Rejoin`, `ReachWrap`, `ReachObserved`) |
| `running` | inside `al_run`, one instruction boundary at a time (`RunYield`, `RunInstruction`, `RunLimit`) |
| `onGate` | `Candidate.on_gate` (`AdmitPlan`, `OpenSeam`, `Fallback`) |
| `onResume` | `run_seam` stopped at the resume (`ForeignReturn`, `SeamMismatch`, `AdmitSuffix`, `SuffixFallback`) |
| `retireOne` | `_fallback`'s single step under a bypass |
| `raised` | an exception left `step` |

A plan is data (cost, where the original would stand afterwards, whether it saved
the frame).  Whether a plan is right about its own instructions is what
history-verify finds out; the module is about everything around it.  The engine
may decline any plan (DMA, raster, the Z80's bank), so a refusal is always an
alternative.

### HistoryStore and Session

`HistoryStore` is the pure part of history.py: canonical events, derivation,
ancestry, flattening, and which masks a flattened history holds.  A digest is
modelled by what it digests.  `Session` is the directory (`files`, `tmp`) and any
number of sessions over it: each operation of `Session.__init__`, `checkpoint`,
`preserve_failure` and `__exit__` is a list of steps (`todo`), the decision of
`append` (does the node exist?) and its write are separate steps, and a process may
die between any two.  The machine is the sequence of masks its frames ran under and
the native build that ran them.

A write is three steps, as in `write_json` and `GenesisRun.cache`: `OpenTemporary`
empties the temporary, `WriteTemporary` writes it, `Replace` moves whatever it then
holds over the target.  The temporary belongs to the target, not to the session.
`open` says what the file a session has open has become meanwhile: still the temporary,
the target since another session moved it there, or a file without a name.  A file's
content is the set of the records its bytes come from, so an emptied file is `{}` and one
record over the tail of a longer one has two; only a file of one record can be read
(`Readable`).  `shared` is history: the targets whose temporary two sessions ever held
at once.

### HistoryVerification

`compare_history` as a parent process, its workers, the tree (`source`, a version
per part: shared package, game package, native library), the history graph and
the oracle cache.  A worker's stream carries the versions it executed under and
the first frame its recovered code goes wrong; the receipts carry the versions
seen when they were taken.  The cache is written as the store is (`OpenTemporary`,
`StoreTemporary`, `ReplaceOracle`): comparisons with one key share one temporary, and
an entry is again the set of what its bytes come from.  A comparison may be killed
anywhere (`Die`).  All modes are modelled: with and without
`--parallel`, `--refresh-oracle`, expecting a divergence (early stop), one node
or `--tree`.

### PcmStream and PcmBuffer

`PcmBuffer` has every method of audio.py's `PcmBuffer` split at each point
another thread could look if the lock did not exclude it, with the lock explicit;
`PcmStream` is the stream a listener is promised.  Frames are numbered, so a lost,
repeated or reordered one shows.

### GameFlow

The native Aladdin from power-on.  `phase` is the screen shown or the main-loop
step to run next; an action is one screen's routine, or the main-loop steps from
one that moves the flow to the next.

| `phase` | code |
|---|---|
| `title`, `menu` | `title_screen` and its menu, `_options_screen`, `_enter_attract` (`Title`, `Options`, `StartGame`, `StartDemo`) |
| `card`, `level1`, `story`, `intro`, `load` | `level_prologue`, screen by screen |
| `input`, `pause`, `paused` | `attract_input` and `pad_read`; `pause_check`; a VBlank of `pause_loop` |
| `play` | the steps from the ground collision to the health display |
| `fall`, `tick`, `transition` | `fall_check` with `respawn`; `level_tick`; `transition_countdown` and the frame's end |
| `change`, `continue`, `over` | `level_change`; `continue_screen`; `game_over` |
| `gap` | a `NativeGap` was raised: the code reached is not recovered |

Of the pad only Start is followed: as it is held (`held`), as the byte last stored
shows it (`low`), and as `FFF168` remembers it (`block`: FF while a press since
the last pause has not been let go, whatever the name `START_RELEASED` and its
comment at pause.py:17 say).  What a frame's tiles, objects and events may raise
(a countdown, a death, a life, the bonus offer) they may raise in any frame.

### ObjectTable and AladdinObjects

`ObjectTable` is what one call does to the records, to the map of tile slots
(`FFF008`, `taken`), to the spawn flags (`armed`), to VRAM (`picture`) and to the
upload queue (`pending`, its last entry for each tile slot): the retirement paths of
script_engine.py, the three ways to become another object, the copy of a moved
record, placing, allocation, drawing and flushing.  Each is a function from world
to world, so a callback is the composition the code writes.  `AladdinObjects` runs
them in the order of `native/frame.py`, and of the start of a life in `native/sequences.py`
(`level_prologue` for the first, `respawn` after a lost one):

| `pass` | code |
|---|---|
| `message` | the tables emptied; the objects of the level's message (`level_init`, messages.py) |
| `drawMotion`, `drawAnimation`, `drawStrips` | `draw_screen`, where the camera is not locked: any number of its passes, each a motion pass, an animation pass or none, the strips, and the queue sent |
| `edges`, `first` | `edge_strips` and the forced animation pass; `level_prologue` then sends the queue and the main loop begins (`EndFirst`) |
| `begin` | `respawn`: one motion pass more, the queue sent, and the frame goes on at `tick` (`EndBegin`) |
| `strips` | `spawn.walk_strip`, `run_site` |
| `motion` | `Engine.step_motion` over drawn objects: scripts of the second channel, leaving the screen |
| `ground` | `ground.py`: any object that breaks on the ground meets it |
| `contacts` | `player_contact_scan` and the callbacks of contacts.py, `tiles.crush` |
| `shots` | `projectile_contact_scan`: the projectile's box is read once, then its targets |
| `fall` | the life may be lost here (`Respawn`) |
| `tick` | `flow.level_tick`: spawns from any of the three pools of the main table |
| `animation` | odd frames: `Engine.step_animation` with `allocate_vram` and the frame upload; even frames only clear and flush |

What positions, hit points and scripts decide is left open: any drawn object may be
struck, leave the screen or run any opcode.  A level (`Levels`) says which of the
rarer things its objects do: link riders, move records to the extra pool, restore
flags in place, overwrite slot 1, show messages; and whether its camera is locked.  Two
things the flow decides are left open as well: which of the two starts of a life this is
once the forced pass is over, and in which of `draw_screen`'s passes objects are animated
(it counts the frames of one half of the camera's walk only).

### LineWalker and GodsWalks

`LineWalker` is walker.py one pass of a loop body at a time, in words of any width
(`SignBit` is bit 15).  `GodsWalks` is one record in the hands of its owner:

| action | code |
|---|---|
| `Arm`, `Retire` (external) | the original's driver arms a solid's next waypoint, ends a projectile's flight |
| `Launch` | `projectiles.launch_toward`, whose first call follows at once |
| `Resume` | `animation_step` up to the call of the walker: the budget is refreshed; an idle solid returns |
| `Pass` | one pass of the loop that neither spends the budget nor runs out |
| `Leave` | the last pass of a call, what is written back, and what `animation_step` does with it |

`course` is history: the ends of the line and the steps made along it.  The
projectile copy writes a steep walk toward -x back as one toward +x
(`PROJECTILE_REARM`); the module keeps that, and `MovesX` says what it does to the
flight.  The pool of twenty slots is one slot: `launch_toward` touches only the
slot it finds.

## 3. What is checked

| run | instance | question | result |
|---|---|---|---|
| `genesis_run` | a loop of 12 instructions, frames of 31 ticks, one region, one seam whose platform operation may smash the frame, 12 frames, masks {0,1} | does a frame with recovered code observe what the original alone would (`ImplementsCanonical`), does a step end (`StepCompletes`), and is the machine cacheable between steps (`SnapshotSafe`)? can it fail other than by a smashed frame (`RaisesOnlyOnMismatch`)? | holds |
| `session` | one player, masks {0,1}, faults on pressing after a rest or resting on after a release, host faults, 2 frames, 2 builds, 2 sessions, killed anywhere | is the store valid at every instant, the journal exact, no operation refused, nothing lost, no node edited, a cached start the cold one? | holds |
| `session_pair` | two interleaved sessions over one directory and its temporaries | how far does the damage of a shared temporary reach (`DamageConfined`), and is anything lost while no node's was shared (`LostOnlyIfShared`)? | holds |
| `session_failure` | one player, 3 frames | does resuming the preserved node and stepping once reproduce the failure? | violated |
| `verify_cache` | three overlapping sequential comparisons, any of them killed anywhere, 1 edit | is each verdict that of its receipt's tree, and every byte of the cache its key's stream, an unreadable entry one whose temporary was shared? | holds |
| `verify_workers` | one comparison in every mode, tree mode, every fault, 2 edits, a graph that grows | is it reported, does it blame roles in order, does it judge only the graph it identified? | holds |
| `verify_oracle_graph` | tree mode, the graph grows | is a cached stream its key's? | violated |
| `verify_game_edit` | game edits, `--candidate original` | does an original-against-original comparison survive edits of recovered code? | violated |
| `game_flow` | a stream with every kind of entry, level 0xC, a level without init, three demos, two difficulties, lives up to 2, countdowns of 2 frames | do level and stream agree, is a demo never paused, is the latch armed during play on level 0xC only, does a pause need a release within a level? | holds |
| `objects` | two records in the main pool, one in the extra pool, two tile slots, templates of one or two, one cell, five levels (moved records; flags restored and slot 1 overwritten; riders; a pair; messages and a moving camera) | has a tile slot ever two holders (`TilesExclusive`) or none (`NoTileLeaks`), does an object show another's frame (`OwnFrame`), can a cell spawn a twin (`NoTwin`), is the player dropped for want of tiles? | holds |
| `gods_walks` | words of 4 bits, every start among 16 places, four waypoints, budgets 1, 2 and 9 in any order | is the walk on its line after every pass (`OnCourse`), is the waypoint loaded exactly when it has been walked to (`WaypointMet`), and is it reached (`Arrives`)? | holds |
| `pcm_buffer` | capacity 4, priming 2, chunks of 1 to 3, blocks of 1 or 3, 8 frames | counters, order, refinement of `PcmStream`, primed playback starts | holds |

### Bounds, and why they are enough

* `genesis_run`: the loop's cost and the frame length have no common factor that
  keeps them in phase, so over twelve frames the wrap, the interrupt and the
  observation instant fall at every place of the loop, inside the region, inside
  the prefix, the platform operation and the suffix; the handler passes the
  seam's resume on its own stack.
* `session`: two frames and two sessions allow a change of mask, a held mask
  across a checkpoint, a checkpoint of nothing, a cached, a replayed and a cold
  start, the same path by two routes, and a fault on either frame; three frames
  are used where a fault on a mask change after a checkpoint matters.  The two
  players of `session_pair` are interchangeable (symmetry; only safety is checked).
* `verify_*`: two frames separate a stop at the first difference from a full run;
  game version 1 is right, 2 goes wrong at frame 2, 3 reaches no gate; two edits
  allow one before and one during a worker, or one for each of two workers.  The third
  comparison of `verify_cache` is there for the temporary: one moves it, one writes into
  what was moved, and a third meets the result; one edit keeps that affordable.
* `game_flow`: the properties relate levels, stream entries and bytes, not their
  number: the stream has each opcode once and an entry the bonus or the skip
  passes over; level 2 has no story, 3 and 1 have one, 0xC takes neither the card
  nor the intro, 8 cannot be loaded.  The proofs (section 4) hold for the ROM's
  own tables.
* `objects`: the conflicts are between two records, or between a record and the one
  it was copied to, over one tile slot; two tile slots let a run of two fill the
  map, and three records behind the player let a third object meet what two others
  left behind.  The proofs hold for the code's 24 and 7 records and its own map.
* `gods_walks`: spans from 0 to 5 give level, steep, diagonal and empty lines in all
  directions; budget 1 cuts after every pass, 2 at every other, 9 lets a walk run
  out inside the loop.  `MaxSteps` lets a walk run past its end by more than the
  longest line; no solid's gets there.
* `pcm_buffer`: a chunk may exceed a block and a block a chunk, both may straddle
  the priming level and the capacity.

Deadlock is not checked where the program really stops: after the bounded number
of frames or sessions, after a raised step, when every comparison is reported,
when an overflow ended the UI thread, or at a gap in the recovered game.  (`MaxFrames`, `MaxBuild`,
`MaxSessions`, `MaxEdits`, `MaxNodes`, in `GameFlow` `MaxCount` and in `GodsWalks` `MaxSteps` are
bounds; nothing in the code limits these.)

### Fairness

* `GenesisRun`: weak fairness of the steps inside `step`: the call is synchronous
  and runs until it returns or raises.  Nothing makes a caller call `step` again.
* `HistoryVerification`: weak fairness of the parent process and of each
  worker's watchdog (`subprocess.run` with a timeout); none of a worker, which may
  hang for ever in the emulator.
* `PcmBuffer`: weak fairness of finishing a method once begun, strong fairness of
  the device's callback: SDL asks for a block every buffer period, so it gets the
  lock again and again.
* `GodsWalks`: weak fairness of a solid's `animation_step`, which a tick calls for
  every active solid, and of the passes inside a call, which runs until it
  returns.  None of the external driver.
* `Session`, `GameFlow` and `AladdinObjects` have safety properties only: a player
  may stop at any time, every screen waits for one, and what an object does next is
  its script's.

### Assumptions worth knowing

* The vertical interrupt comes after the observation instant of a frame
  (`VBlankOffset > ObservationOffset` in the instance, as on the board), and no
  controller read lies between the wrap and the observation instant inside a seam.
* An edit of the tree is always a content never seen before.  A content that is
  changed and restored while a worker imports is invisible to any receipt
  (verification.py:217); such a verdict would be filed under the restored tree.
* No build is installed between a session's loading of the native library
  (history_runtime.py:31) and its hashing of it (:43).  Such a build would file the
  old library's states under the new one's cache identity, and `ContinuesAsCold`
  would not hold.
* A demo's recorded input is too short to end its level or to lose its last life.
  If it did, the next level's prologue would raise `AttractExit` where nothing
  catches it (only `title_entry` does).
* Level 8 cannot be loaded natively (its init is not recovered), so its own falls,
  and the branch of `respawn` for levels from 0x14, are not reached and not
  modelled.  `PAUSE_INHIBITED` and `INVINCIBLE` are only ever cleared natively.
* Two sessions over one store that reach one path by different checkpoints may both
  find the node absent and write it (history.py:143).  Both go through one temporary
  (history.py:51-53), so one can move over the node, or over `main`, what the other has
  just emptied or half overwritten: the file is torn, for good if the other dies.
  `HistoryValid`, `NeverRefused`, `NodesNeverEdited` and `NothingPlayedIsLost` are
  therefore claimed, checked and proved of one session at a time only, and fail in the
  code with two (as the model does, if their run is given two players).  What holds of
  any number: a torn file is one two sessions held at once, nothing but its descendants is
  refused, `main` names a node that was written or cannot be read (`DamageConfined`);
  nothing is lost while no *node's* temporary was shared (`LostOnlyIfShared`); a
  journal is exact (`JournalExact`); and a cache is either refused or the cold run
  (`ContinuesAsCold`).
* The oracle cache has the same hazard (verification.py:455-457).  An entry torn by two
  comparisons of one key lasts: each later comparison without `--refresh-oracle` reads
  it, raises and reports ERROR.  No comparison believes it (`OracleTrue`).
* A move takes the open file along, as POSIX does; where the system refuses to move an
  open file (Windows) there are fewer behaviours.  The content of a file is written at
  one instant after the file was opened: a reader that comes between two writes of a
  large file sees it torn, which the model has as the emptied file.
* A file's bytes are one record, none, or one over the tail of another; those of two
  `main`s are of one length, so one overwrites the other whole.
* No level both links records and moves them (`LevelAssumption`): a link that
  outlived its rider, to the slot a record was moved from, would release the tiles
  of the copy.  Nothing in the code rules it out but which objects its levels have.
* Tile slots do leak in three ways the code has, which `NoTileLeaks` excludes by
  its premise: a carrier dropped for want of tiles drops its rider without its
  tiles (script_engine.py:569), a link can retire or leave behind a record, and
  `tick_level_12` overwrites slot 1 without a release.  A lost life clears the map.
* Every template has a script; the spawn callers that write through a record they
  did not get (spawn.py:19-21), and the wrap of the upload queue's count byte, are
  not modelled.
* A solid is armed toward the waypoint of its slot from where it stands.  The arming is
  the original's driver, which the repository does not recover; its comments call the
  longword a solid loads when it arrives "the next waypoint", which would also fit a
  driver that arms a walk toward somewhere else than the slot's own.  `WaypointMet` rests
  on the reading under which a solid does not jump when it arrives.  Level coordinates
  have no sign bit (`Room`).  A zero budget, a continuation of no body and a
  full pool are declined by the recovered code and not modelled.
* A receipt is taken at one instant.
* The screens between a lost life and the next (the death scene, the score entry, the
  continue screen) are not modelled: they put records of their own into tables that were
  emptied before and are emptied after, and what they leave in VRAM and in the queue is
  `Stale` to the life that follows (`Reset`).
* `TilesExclusive`, `OwnFrame` and `NoTwin` are about what two records share.  A callback
  that frees a live object it has nothing to do with (the stale link of hazard H33) leaves
  a smaller table in order, so none of them would notice it.

## 4. What is proved

TLAPS checks `GenesisRunProofs`, `HistoryStoreProofs`, `SessionProofs`,
`HistoryVerificationProofs`, `PcmBufferProofs`, `GameFlowProofs`, `AladdinObjectsProofs`
and `GodsWalksProofs`, for every value of the constants that satisfies the modules'
assumptions: any program, handler, frame length, divider, observation instant, set of
regions, plans and seams; any number of players, sessions, frames, builds and masks and
any set of faulting inputs; any number of comparisons, history length, edits and faults
of workers; any
capacity, priming level, chunk and block length; any level stream, demo list, set
of recovered levels and difficulty table; any number of records and tile slots,
order of looking for a free one and set of levels; any word width, level,
waypoints and budgets.

**GenesisRun.**  `RunTypes`, `RunSnapshotSafe`, `RunNeverParks` and `RunCanonical`.
None of the first three is inductive.  That a step never parks needs to know that each way back to
`_run_to`'s loop has moved the clock, which needs to know that a refused gate is
stepped under a bypass (so the instruction really retires), which needs to know
who may hold the bypass; and that snapshots are safe needs to know what is gated
while a seam is open.  The invariant `IInv` is that division of the control state:
`PhaseInv` (the phase brackets the Python side), `SeamInv` (what is armed inside
and outside a seam), `GateInv` (a stop stands at an admitted boundary on its
gate; where a bypass may live), `LoopInv` (the run began below its target and
`parked` is always 0) and `RaisesOnlyOnMismatch` itself.  A lemma per action
shows that it is preserved; the lemmas about the machine (every operation stays
in its type and costs time) are stated first and cited by name.  In passing this
shows that `_run_to`'s limit of eight parked rounds is never used.

`RunCanonical` is the refinement: `GenesisRun` implements `CanonicalRun`, provided the
regions are right about their own instructions.  That is not for the code to
guarantee (a comparison with the original finds it out), so it is a hypothesis on the
constants, `RegionsRight`, which `MCGenesisRun` assumes and TLC evaluates on the
instance.  It says that a plan costs and leaves what the instructions it stands for
cost and leave, none of which reads the pad (the comment at history_runtime.py:98-106
rests on that); that a platform operation reaches its own resume without reading the
pad or returning through the frame the guards watch; that the handler reads the pad
before the wrap and is over before the next interrupt; and that a frame is observed
before its interrupt (profile.py:31 and 69).  With a read in a plan or in a platform
operation, a wrong cost, a frame not saved or a handler that reads past the wrap, TLC
finds the refinement violated, so those parts are needed.

The argument: let `Outcome(n, b, s)` be the state in which the original, left alone
from `s`, is observed in frame `n` under the mask `b`.  Between `BeginStep` and
`ReachObserved` every action keeps the outcome of the machine (`FrameInv`): an
instruction does, unless it reads a mask past the wrap that is not the frame's own
(`OutcomeOnce`); admitting an interrupt, and the pad changing hands after the wrap
instead of at it, do (`OutcomeBoundary`, `OutcomePast`); a plan does because it is its
instructions one after the other (`AlongStep`, `PlanOutcome`), between which no
interrupt falls since admission refused that.  What an instruction may read is then
the matter of the other parts: `StopInv` (a stop stands before the instants that bound
it), `PlatformInv` (in a seam the loop is between the end of the prefix and its own
return, and a bypass there is for another activation's stop) and `Timely` (the handler
is entered within one instruction of its instant and keeps its pace).  `RunOriginal` is
a recursion on the distance to an instant; that it has a solution is itself proved, from
traces (`EndsSomewhere`, `EndsOnce`, `RunSolves`), not assumed.

`RunStepFalls` and `RunStepBounded` are what of `StepCompletes` is safety, and need no
right regions.  `Rank` weighs the ticks left before the observation instant (`Ahead`)
above where the Python side stands (`Standoff`): every move either advances the clock
below that instant (`TimeFalls`) or leaves it and goes on (`StandoffFalls`): a run stops
at a gate, the gate is lifted by a bypass, and under a bypass the next move is an
instruction; a plan is admitted only where the instant has not been reached
(`AdmitFalls`).  The observation instant is never more than a frame away (`Near`), which
bounds the measure.

**HistoryStore.**  `Validates`: where each readable node file is one its parent's path
derives (`Fits`, a fact about one link), a node validates exactly when its parent does, so
a missing or torn file is refused with its descendants and nothing else.  `AncestryHolds`: when every parent
is there too (`Sound`), the whole chain of every node validates.  `FlattenIs`: a chain that validates
flattens to the inputs its id digests.  Chains have any length; the argument takes the
node with the fewest frames that would fail and looks at its parent.  The masks a
flattened history holds (`Held`) are likewise given in closed form (`MaskAt`: the mask of the last event before a frame).

**Session.**  For any number of sessions in one directory: `SessionTypeOK`,
`DamageAlwaysConfined` (`DamageConfined`), `NothingIsLost` (`LostOnlyIfShared`),
`JournalAlwaysExact` and `RestoresAsCold`.  For one session at a time, which is a
hypothesis of the theorems (`Alone`): `HistoryAlwaysValid`, `NothingRefused`,
`NothingLostAlone` (`NothingPlayedIsLost`) and `NeverEdited`.  The invariant has a part for the disk and one for each session.
`DiskInv`: every record whose bytes are in a node file, *or in a temporary on its way to
being one*, derives from a parent already on disk, and those of a cache are the state its
name says; temporaries have to be included because another session may move one, and
single records because several may have left bytes in one file.  `OpenInv` says which file
an open one is.  `HoldInv` is what sharing costs: outside `shared` a target can
be read (`Whole`) and the temporary a session opened holds what it has written and nothing
else (`Clean`); two sessions never hold one temporary unknown to `shared` (`Both`).
`Local`: the plan left to a session is one of those the code makes (`Plan`), while it
plays or saves its machine has run under its parent's inputs and then its journal
(`Kept`), the journal is a canonical segment (`Segment`), the node it has chosen is the
path of both (`Chosen`) and was put on disk before it is presented or adopted (`Stored`).
Because the ids on disk only grow, a step of one session cannot break another's part
(`StepOf`), which is why the theorems hold for any number of them.  What a fault leaves is
weaker: the mask of the failing frame is in the run and not in the history, so only a plan
that goes on playing (`Exact`) may rely on it.  That is finding 3, seen from the proof.
With one session `shared` stays empty (`Undisturbed`), so every file can be read, and
`NeverEdited` needs one fact more (`Fresh`: the node a session is about to write is not
there); a second session can break both.

**HistoryVerification.**  `VerifyTypeOK`, `VerifyOfReceipt` (`VerdictIsOfReceipt`),
`VerifyCoversGraph`, `VerifyBlames` and, without `--tree`, `VerifyOracle`
(`OracleTrue`).  The invariant follows a payload from the tree that made it
(`Made`): a worker imports a tree that lies between the receipt and the tree it ends
under, because edits only add versions, so a payload whose receipt is the
comparison's (`ValidIsSound`) was made by that very tree.  Whatever
comparison left bytes in an entry of the cache, they are of a stream that depends on the
key alone (`OriginalStream`), and an entry none shared is whole (`HoldInv`, as for the
session).  A candidate stopped early was cut at its
first difference from the reference, and a stream cut there differs there first
(`CutDiffers`), so judging the two payloads finds what comparing the whole streams
would (`SoundPair`), provided the graph they read is the one identified: the graph
only grows, so when it is the same at the end it was the same in between.
`VerifyOnwards` is what of `Reported` is safety: a comparison and its workers only go
on, so it is reported after at most 80 steps of theirs.

**PcmBuffer.**  `BufferTypeOK`, `FramesAccounted` (`NoFrameLost`), `CounterAgrees`
(`CountsChunks`) and `BufferIsStream` (`ImplementsStream`).  The invariant says
who holds the lock is who is inside a method, the deque is one run of frame
numbers that ends at the last frame appended, and the counter agrees with it
except while `clear` is half done.  The refinement rests on one identity
(`ConsumedIsHeard`: what the listener has consumed is what was submitted and is
no longer buffered) and on the capacity bound; each action is then a step of
`PcmStream` or none.
`LockIsReturned` is what `PrimedPlays` leans on: no method keeps the lock.  It needs
the invariant, since a turn of `fill`'s loop copies something only because the offset
stays inside the head chunk (`TakeSomething`).

**GameFlow.**  All five properties of its run: `FlowTypes`, `FlowStreamAgrees`,
`FlowNoPauseInDemo`, `FlowLatch`, `FlowPauseReleased`.  The parts of the invariant
lean on each other.  That level and stream agree needs to know that the title is
only reached with a new game's defaults or out of a demo (`TitleInv`), and that a
demo leaves the stream alone, which needs to know that it never reaches a level
change (`DemoInv`): no step of its loop arms the countdown, and the one that
could, the pause screen's hidden sequence, is out of reach because the stored pad
byte shows no Start when a demo's loop begins and nothing stores one in it.  The
pause property needs to know that while Start has been held since a toggle it is
blocked, and that what the pause check reads was stored in this life of the
level (`HeldInv`).  `NextEntry` says where a level change stops in the stream
without saying how it gets there.

**AladdinObjects.**  All six properties of its run: `ObjectsTypeOK`,
`ObjectsTilesExclusive`, `ObjectsNoTileLeaks`, `ObjectsOwnFrame`, `ObjectsNoTwin` and
`ObjectsPlayerNotDropped`.  `IInv` says of the world that it is `Good`, of which there are
grades (`Relied`), because what may be relied on depends on the level and the pass.
`Safe`: the tile runs of records in use are disjoint and marked.  Where links may
outlive their riders, a record out of use counts as well, since a link may still
release what its pointer names; that is why a record keeps its pointer in the model
after it is freed, and why no level may both link and move.  `Own`: a drawn object's slots show
its frame or will.  `Tight`: every marked slot has a live holder, kept where nothing
leaks.  `Sent`: between a flush and the next animation pass the queue holds only
what VRAM shows, so clearing its count on even frames and in `draw_screen` loses nothing
(`Unsent` names the passes in between, of a frame and of the start of a life).  Each function
of `ObjectTable` has a lemma that it keeps a world good; an action is then the
lemmas of the calls it makes.
`Heritage` adds where objects come from.  A call of the table makes records only out of
those there were (`Heir`: a record in use took its cell, and the player its tiles, from
the record before), so a step can bring a cell a second object only by arming it, and a
cell is armed when its object goes (`Orderly`), unless links or restored flags tie
records together (`Tied`).  Hence `Twinless`, over every slot of the table and not only
those the property reads, since a record is moved from one to another.  The player is
dropped only when no run of free slots fits; without tiles it stands before an empty
map (`PlayerFirst`), where any run fits (`EmptyMapFits`).  That holds through the
passes of `draw_screen` because none looks for tiles before an animation pass, whose first
record is the player, and nothing is drawn from an empty map (`NoneSeen`), so no script runs.

**GodsWalks.**  `WalksTypeOK`, `WalksOnCourse` and `WalksMeet`.  The invariant gives
every word of the record as a function of the line and the steps made: the
accumulator is half the major axis, less the minor axis for each step, plus the
major axis for each move aside (`Balanced`), and stays below the major axis, so it
never reaches the sign bit and a drained one is negative exactly when it should be
(`DrainFacts`); the position is the start plus the moves, as a word (`Placed`); a
moving solid's counter is what is left of the line (`Remains`), so its sign after a
call tells the end whichever exit was taken (`EndFacts`).  One step past the end of the
line the other axis has moved its whole length or once more (`EndAside`), which puts
the walk on the waypoint or next to it.
`WalksNearer` and `WalksBounded` are what of `Arrives` is safety: a pass lowers the
measure by two, the end of a call gives one back, and the next call takes it again.

**Only model-checked.**  Liveness: `StepCompletes`, `Reported`, `PrimedPlays` and
`Arrives`.  It is beyond the prover, which has no rule for fairness or for `ENABLED`.
Of each the half that is safety is proved: a measure in the natural numbers that the
steps lower (`RunStepFalls`, `VerifyOnwards`, `LockIsReturned`, `WalksNearer`).  What
stays with TLC is that a step is always there to be taken and, for `PrimedPlays`, that
the device gets the lock.  Every other property of the passing runs is stated by a
theorem.

## 5. Findings

Each is shown by a run that TLC finds violated, and is described with its lines
in `PROJECT.json`.

1. `verify_oracle_graph` (verification.py:452): in tree mode the reference stream
   is stored in the oracle cache before the graph is compared again, so a graph
   extended meanwhile files a stream under a key that does not describe it.  A
   later comparison refuses the entry, it is never believed, but `--refresh-oracle`
   does not replace it either: a run without the cache stores nothing (:452), though
   the docstring at :402 says it refreshes the entry.
2. `verify_game_edit` (verification.py:450): a fresh reference is validated
   against the whole receipt, so an edit of recovered code while the original runs
   ends the comparison in ERROR, which a docstring says must not happen.
3. `session_failure` (history_runtime.py:246): the mask of the failing frame is
   dropped, so stepping the preserved node once need not reproduce the failure.

## 6. Not modelled, and why

* `al_frame`, `al_ram`, `al_info`, the audio drain, diagnostics and artifacts
  only read or format.
* The store's manifest and prefix matching of ids in `resolve`.
* `execute_history --cache`, the segment tools' `Observer` and
  `scripts/tree_verify.py`'s segmentation: candidates for a later module.
* The planners (`gods_sega/boundary.py`, `aladdin_sega/boundary.py`, half of all
  lines): for each gate they restate a game routine with its cost in 68000 cycles,
  its condition codes and the registers it leaves.  The consumers of those are
  admission (modelled) and the comparison itself, which checks them against the
  original; a model of them would be the table of an instruction set.
* The rest of the Aladdin game: the player's control, scroll and tile streaming, the
  HUD, and what scripts, positions and hit points decide.
* The rest of Gods: player, creatures, pickups, spawn table, triggers, timers, score.
* The rest of the native runtime: video, the sound service, the replay clock.
* The Aladdin dispatcher, whose seam is written inline.
* `AudioOutput` (a wrapper of SDL) and `FramePacer` (a host sleep).
* The YM2612 and PSG cores under third_party.

## 7. Plan

The order is by how much rests on a part.

1. **Done**: the shared layer, the course of the Aladdin game, its object table,
   and the Gods line walker (sections 2 to 4).
2. **Aladdin native runtime**, the rest: a module for the sound service (park,
   call, resume) and the replay clock, and what a sequence's nested waits suspend
   and resume.
3. **Aladdin game**, the rest: scroll and tile streaming (the scroll never leaves
   the map, a column is streamed before it shows), the player's control.
4. **Aladdin dispatcher**: its seam is written inline; the same invariants as
   `GenesisRun`, ideally the same proof.
5. **Gods game**, the rest: trigger records and actions, inventory and pickups,
   creature timers, BCD score and the sprite cache.
6. **Planners**: that a declined state is left to the original untouched.
7. **Player window**: its loop over `Session` and `AudioOutput`, composing
   `Session` with `PcmBuffer`'s failure.

Theorems next: those of each new component, with its module.
