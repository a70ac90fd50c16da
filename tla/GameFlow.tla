---- MODULE GameFlow ----
(***************************************************************************)
(* aladdin_sega/native and game/{flow,pause,pad}.py: the course of the     *)
(* native game from power-on: title and menu, the screens before a level,  *)
(* the main loop's frame with its pause, a lost life, the level change,    *)
(* the continue and game-over screens and the attract demo.                *)
(*                                                                         *)
(* One action stands for one screen, or for the main-loop steps between    *)
(* two that move the flow.  How long a screen stands is left open; of the  *)
(* pad only Start is followed, live and as the byte last stored in RAM,    *)
(* because the pause reads the stored one.  Countdowns count MaxCount      *)
(* frames at most; 255 is the code's "at once".                            *)
(***************************************************************************)
EXTENDS Integers, Sequences

CONSTANTS Stream,        \* ROM 4082: the level sequence, [op, level] each
          Demos,         \* ROM 4B04: the levels of the attract demos
          Initialised,   \* levels whose init routine is recovered
          Difficulties,  \* the digits the options screen cycles through
          LivesOf,       \* lives at the start of a game, by difficulty
          ContinuesOf,   \* continues, by difficulty
          MaxLives,      \* most lives the counter holds ("9")
          MaxCount       \* bound: frames in a countdown

Ops == {"take", "bonus", "alternate", "ending"}

ASSUME FlowAssumption ==
    /\ Stream \in Seq([op : Ops, level : Nat])
    /\ Demos \in Seq(Nat) /\ Demos # <<>>
    /\ Initialised \subseteq Nat
    /\ 1 \in Difficulties /\ MaxLives \in Nat /\ MaxCount \in 1..254
    /\ LivesOf \in [Difficulties -> 1..MaxLives]
    /\ ContinuesOf \in [Difficulties -> Nat]

VARIABLES phase,        \* the screen shown, or the next main-loop step to run
          demo,         \* GAME_MODE (FFF57C) = 1
          nextDemo,     \* FFF57A, from 1
          level,        \* LEVEL_INDEX (FF7E26)
          pos,          \* SEQUENCE_STREAM (FFF572): index of its next entry
          skip,         \* SKIP_ALTERNATE (FFF005)
          bonus,        \* BONUS_OFFERED (FFF176)
          difficulty,   \* DIFFICULTY (FF7E21)
          lives,        \* LIVES (FF7E3C)
          continues,    \* CONTINUES (FF7E3F)
          dying,        \* DYING (FFF0E6)
          countdown,    \* TRANSITION_COUNTDOWN (FFF0E9)
          held,         \* Start is held on the pad
          low,          \* Start is pressed in RAW_TH_LOW (FFF155)
          block,        \* START_RELEASED (FFF168) is FF
          armed,        \* ANY_BUTTON_ARMED (FF7E23)
          since         \* Start since the pause was last toggled: "held", "released", or
                        \* "loaded" when a level was loaded meanwhile (history variable)

pad == <<held, low, block, armed, since>>
session == <<level, pos, skip, bonus, difficulty, lives, continues>>
counts == <<dying, countdown>>
vars == <<phase, demo, nextDemo, session, counts, pad>>

AtOnce == 255
Counts == 0..MaxCount \cup {AtOnce}
LoopSteps == {"input", "pause", "paused", "play", "fall", "tick", "transition"}
Screens == {"title", "menu", "card", "level1", "story", "intro", "load",
            "change", "continue", "over", "gap"}

\* A VBlank passes: Start may be pressed or let go.
VBlank == /\ held' \in BOOLEAN
          /\ since' = IF held' THEN since ELSE "released"

\* Several pass, and Start may have been let go and pressed again.
VBlanks == /\ held' \in BOOLEAN
           /\ since' \in IF held' THEN {since, "released"} ELSE {"released"}

----------------------------------------------------------------------------
\* What the sequences share.

\* boot.new_game_setup: the session defaults; the title follows.
NewGame == /\ level' = 1 /\ pos' = 1 /\ skip' = FALSE
           /\ continues' = ContinuesOf[difficulty]
           /\ phase' = "title"

\* sequences.attract_exit_tail, then the title entry again.
\* Slip: the demo's level stays.
AttractExitOnLevel == /\ phase' = "title" /\ VBlanks
                      /\ UNCHANGED <<demo, nextDemo, session, counts, low, block, armed>>
AttractExit == /\ level' = 1 /\ phase' = "title"
               /\ VBlanks
               /\ UNCHANGED <<demo, nextDemo, pos, skip, bonus, difficulty, lives,
                              continues, counts, low, block, armed>>

\* sequences.clear_bytes over FFF008..FFF12D.
ClearCounts == dying' = 0 /\ countdown' = 0

\* init_player, title_screen: the stored pad bytes are released.
\* Slip: they stay as the last screen stored them.
KeepPad == UNCHANGED low
ReleasePad == low' = FALSE

\* disarm_any_button.
\* Slip: only the latch is cleared.
ClearLatch == UNCHANGED armed
Disarm == armed' = FALSE

----------------------------------------------------------------------------
\* Power-on, the title, the menu.

\* boot.power_on, game_init and new_game up to the title.
Init ==
    /\ difficulty = 1 /\ continues = ContinuesOf[1] /\ lives = 0
    /\ phase = "title" /\ demo = FALSE /\ nextDemo = 1
    /\ level = 1 /\ pos = 1 /\ skip = FALSE /\ bonus = FALSE
    /\ dying = 0 /\ countdown = 0
    /\ held \in BOOLEAN /\ low = FALSE /\ block = FALSE
    /\ armed = FALSE /\ since = "released"

\* title_entry and title.title_screen up to its menu: the any-button latch is armed for the logo
\* and disarmed after it, the stored pad bytes are released.
Title == /\ phase = "title"
         /\ phase' = "menu" /\ demo' = FALSE /\ Disarm /\ ReleasePad
         /\ ClearCounts /\ VBlanks
         /\ UNCHANGED <<nextDemo, session, block>>

\* The options screen; its hidden button sequence is a gap.
Options == /\ phase = "menu"
           /\ difficulty' \in Difficulties
           /\ phase' \in {"menu", "gap"}
           /\ VBlanks
           /\ UNCHANGED <<demo, nextDemo, level, pos, skip, bonus, lives,
                          continues, counts, low, block, armed>>

\* title_entry after the menu chose a game ...
StartGame == /\ phase = "menu"
             /\ lives' = LivesOf[difficulty]
             /\ phase' = "card"
             /\ VBlanks
             /\ UNCHANGED <<demo, nextDemo, level, pos, skip, bonus, difficulty,
                            continues, counts, low, block, armed>>

\* ... or after it stood 1500 frames: the next demo, or after the last entry a
\* gap (the high-score table).
StartDemo == /\ phase = "menu"
             /\ demo' = TRUE /\ level' = Demos[nextDemo]
             /\ ClearCounts /\ armed' = TRUE /\ low' = FALSE
             /\ IF nextDemo = Len(Demos)
                  THEN phase' = "gap" /\ UNCHANGED <<nextDemo, lives>>
                  ELSE /\ phase' = "card" /\ nextDemo' = nextDemo + 1
                       /\ lives' = LivesOf[difficulty]
             /\ VBlanks
             /\ UNCHANGED <<pos, skip, bonus, difficulty, continues, block>>

----------------------------------------------------------------------------
\* sequences.level_prologue: the screens before a level and its loading.

\* level_card, which level 0xC does not have; in a demo a button leaves it.
Card == /\ phase = "card"
        /\ \/ /\ level # 12 /\ demo
              /\ AttractExit
           \/ /\ level # 12 => ClearCounts
              /\ level = 12 => UNCHANGED counts
              /\ phase' = "level1" /\ VBlanks
              /\ UNCHANGED <<demo, nextDemo, session, low, block, armed>>

\* level_1_title, after which a demo ends, button or not.
Level1Title == /\ phase = "level1"
               /\ \/ /\ level = 1 /\ demo
                     /\ AttractExit
                  \/ /\ level # 1 \/ ~demo
                     /\ phase' = "story" /\ VBlanks
                     /\ UNCHANGED <<demo, nextDemo, session, counts, low, block, armed>>

WithoutStory == {2, 6, 8, 12}
WithStory == {0, 1, 3, 4, 5, 7, 9, 10, 11}

\* story_screen: the latch is armed, the pages store the pad bytes they read,
\* and level_intro disarms it; level 0xC returns before either.
Story == /\ phase = "story"
         /\ \/ level = 12 /\ phase' = "load" /\ armed' = TRUE
            \/ /\ level \in (WithoutStory \cup WithStory) \ {12}
               /\ phase' = "intro" /\ Disarm
            \/ /\ level \notin WithoutStory \cup WithStory
               /\ phase' = "gap" /\ armed' = TRUE
         /\ IF level \in WithStory THEN low' \in BOOLEAN ELSE low' = FALSE
         /\ VBlanks
         /\ UNCHANGED <<demo, nextDemo, session, counts, block>>

\* level_intro, the name card; in a demo a button leaves it.
Intro == /\ phase = "intro"
         /\ \/ /\ demo
               /\ AttractExit
            \/ /\ phase' = "load" /\ VBlanks
               /\ UNCHANGED <<demo, nextDemo, session, counts, low, block, armed>>

\* load_level clears FFF008..FFF570 and init_player releases the stored pad
\* bytes; the main loop starts at its frame counter, past the pad read.
Load == /\ phase = "load"
        /\ ClearCounts /\ bonus' = FALSE /\ block' = FALSE /\ ReleasePad
        /\ phase' = IF level \in Initialised THEN "pause" ELSE "gap"
        /\ held' \in BOOLEAN
        /\ since' \in IF held' THEN {"released", IF since = "held" THEN "loaded" ELSE since}
                      ELSE {"released"}
        /\ UNCHANGED <<demo, nextDemo, level, pos, skip, difficulty, lives,
                       continues, armed>>

----------------------------------------------------------------------------
\* The main loop (frame.STEPS).

\* attract_input and pad_read: a demo ends with its recorded input or a button
\* and stores no pad byte; in a game the pad's bytes are stored.
PadRead == /\ phase = "input"
           /\ \/ demo /\ AttractExit
              \/ /\ low' = IF demo THEN low ELSE held
                 /\ phase' = "pause"
                 /\ UNCHANGED <<demo, nextDemo, session, counts, held, block, armed, since>>

\* A pause starts or ends with Start held or not: since counts from here.
Toggled(pressed) == since' = IF pressed THEN "held" ELSE "released"

\* FFF168, which the loop writes as it starts and as it ends.
\* Slip: written the way its name reads.
WriteReleased == block' = FALSE
BlockPause == block' = TRUE

\* pause.pause_requested: the stored Start after a stored release, or the way on.
PauseCheck == /\ phase = "pause"
              /\ IF low /\ ~block
                   THEN phase' = "paused" /\ BlockPause /\ Toggled(held)
                   ELSE phase' = "play" /\ block' = (low /\ block) /\ UNCHANGED since
              /\ UNCHANGED <<demo, nextDemo, session, counts, held, low, armed>>

\* pause_loop, one VBlank: the hidden button sequence arms the level's end after
\* some waits; a running countdown ends the pause, and so does Start after a
\* release.
Paused == /\ phase = "paused"
          /\ \/ /\ countdown' = AtOnce /\ held' \in BOOLEAN /\ low' \in BOOLEAN
                /\ phase' = "play" /\ BlockPause /\ Toggled(held')
             \/ /\ held' \in BOOLEAN /\ UNCHANGED <<countdown, low>>
                /\ IF countdown # 0 \/ (held' /\ ~block)
                     THEN phase' = "play" /\ BlockPause /\ Toggled(held')
                     ELSE /\ phase' = "paused" /\ block' = (held' /\ block)
                          /\ since' = IF held' THEN since ELSE "released"
          /\ UNCHANGED <<demo, nextDemo, session, dying, armed>>

\* The steps from player_ground_collision to hud_health: tiles and objects that
\* kill at once, in a frame or after a countdown, end the level, give a life or
\* offer the bonus stage.  A demo's input is too short to end its level.
Play == /\ phase = "play"
        /\ dying' \in {dying, 1, AtOnce} \cup IF dying = 0 THEN {MaxCount} ELSE {}
        /\ countdown' \in {countdown} \cup IF demo THEN {} ELSE {MaxCount}
        /\ bonus' \in {bonus, TRUE}
        /\ lives' \in {lives} \cup IF lives < MaxLives THEN {lives + 1} ELSE {}
        /\ phase' = "fall"
        /\ UNCHANGED <<demo, nextDemo, level, pos, skip, difficulty, continues, pad>>

\* Slip: the digit '0' is not compared.
NeverLast == FALSE
LastLife == lives = 0

\* sequences.respawn, fallen or dead.  With lives left one is taken and the level
\* goes on from its checkpoint; the last life offers a continue, or ends the
\* game.  A demo's input is too short for its last life.
LoseLife(fell) ==
    /\ VBlanks
    /\ \/ /\ ~LastLife
          /\ lives' = lives - 1 /\ ClearCounts /\ ReleasePad
          /\ phase' = "tick"
       \/ /\ LastLife /\ ~demo
          /\ phase' = IF continues > 0 THEN "continue" ELSE "over"
          /\ IF fell THEN low' \in BOOLEAN /\ dying' = dying
                     ELSE low' = low /\ dying' = 0
          /\ UNCHANGED <<lives, countdown>>
    /\ UNCHANGED <<demo, nextDemo, level, pos, skip, bonus, difficulty,
                   continues, block, armed>>

\* flow.fall_check: below the level, or the dying countdown at its end, unless
\* the player is invulnerable.
FallCheck == /\ phase = "fall"
             /\ \/ LoseLife(TRUE)
                \/ dying \in {1, AtOnce} /\ LoseLife(FALSE)
                \/ /\ dying' = IF dying \in {0, 1, AtOnce} THEN 0 ELSE dying - 1
                   /\ phase' = "tick"
                   /\ UNCHANGED <<demo, nextDemo, session, countdown, pad>>

\* flow.level_tick and the counters up to the last publish_player_position:
\* the level's end by position or event, and event F2, which also has the
\* stream skip its alternate.
LevelTick == /\ phase = "tick"
             /\ \/ UNCHANGED <<countdown, skip>>
                \/ ~demo /\ countdown' \in {1, MaxCount, AtOnce} /\ UNCHANGED skip
                \/ ~demo /\ countdown' = 1 /\ skip' = TRUE
             /\ phase' = "transition"
             /\ UNCHANGED <<demo, nextDemo, level, pos, bonus, difficulty, lives,
                            continues, dying, pad>>

\* flow.transition_countdown, and the frame's end (one VBlank) while it runs.
TransitionCountdown ==
    /\ phase = "transition"
    /\ \/ /\ countdown \in {1, AtOnce}
          /\ countdown' = IF countdown = 1 THEN 0 ELSE countdown
          /\ phase' = "change"
          /\ UNCHANGED <<held, since>>
       \/ /\ countdown \notin {1, AtOnce}
          /\ countdown' = IF countdown = 0 THEN 0 ELSE countdown - 1
          /\ phase' = "input" /\ VBlank
    /\ UNCHANGED <<demo, nextDemo, session, dying, low, block, armed>>

\* A tile, object, level event or level routine that is not recovered.
Gap == /\ phase \in {"play", "tick"} /\ phase' = "gap"
       /\ UNCHANGED <<demo, nextDemo, session, counts, pad>>

----------------------------------------------------------------------------
\* Out of the level.

\* Entries next_level_from_stream stops at.
Admits(i) == \/ Stream[i].op \in {"take", "ending"}
             \/ Stream[i].op = "bonus" /\ bonus
             \/ Stream[i].op = "alternate" /\ ~skip

\* level_change: the tally, the scarab wheel with its lives, and the next level
\* of the stream; the ending is a gap.
LevelChange ==
    /\ phase = "change"
    /\ lives' \in lives..MaxLives
    /\ \E i \in pos..Len(Stream) :
          /\ Admits(i) /\ \A j \in pos..(i - 1) : ~Admits(j)
          /\ IF Stream[i].op = "ending"
               THEN phase' = "gap" /\ UNCHANGED <<level, pos>>
               ELSE phase' = "card" /\ level' = Stream[i].level /\ pos' = i + 1
    /\ low' \in BOOLEAN /\ VBlanks
    /\ UNCHANGED <<demo, nextDemo, skip, bonus, difficulty, continues, counts, block, armed>>

\* continue_screen: Left declines, and a new game is set up; Right takes one
\* continue and the level starts over.
Continue ==
    /\ phase = "continue"
    /\ \/ NewGame /\ UNCHANGED lives
       \/ /\ lives' = LivesOf[difficulty] /\ continues' = continues - 1
          /\ phase' = "card"
          /\ UNCHANGED <<level, pos, skip>>
    /\ VBlanks
    /\ UNCHANGED <<demo, nextDemo, bonus, difficulty, counts, low, block, armed>>

\* game_over, and the new game it ends in.
GameOver == /\ phase = "over"
            /\ NewGame /\ VBlanks
            /\ UNCHANGED <<demo, nextDemo, bonus, difficulty, lives, counts, low, block, armed>>

Next == \/ Title \/ Options \/ StartGame \/ StartDemo
        \/ Card \/ Level1Title \/ Story \/ Intro \/ Load
        \/ PadRead \/ PauseCheck \/ Paused \/ Play \/ FallCheck
        \/ LevelTick \/ TransitionCountdown \/ Gap
        \/ LevelChange \/ Continue \/ GameOver

Spec == Init /\ [][Next]_vars

----------------------------------------------------------------------------
\* Properties.

\* The ranges, by what they are about.
ScreenType == /\ phase \in LoopSteps \cup Screens
              /\ demo \in BOOLEAN /\ nextDemo \in 1..Len(Demos)
LevelType == /\ level \in Nat /\ pos \in 1..Len(Stream) + 1
             /\ skip \in BOOLEAN /\ bonus \in BOOLEAN
LivesType == /\ difficulty \in Difficulties
             /\ lives \in 0..MaxLives /\ continues \in Nat
CountType == dying \in Counts /\ countdown \in Counts
PadType == /\ held \in BOOLEAN /\ low \in BOOLEAN /\ block \in BOOLEAN
           /\ armed \in BOOLEAN /\ since \in {"held", "released", "loaded"}
\* Every variable keeps to its range: lives and continues never pass below zero
\* (respawn and continue_screen subtract unchecked).
TypeOK == ScreenType /\ LevelType /\ LivesType /\ CountType /\ PadType

\* In a game the stream stands right behind the entry of the level being played,
\* or at its start on level 1: demos, game overs and declined continues set the
\* level and the stream in different places.
StreamAgrees == phase \in LoopSteps /\ ~demo =>
    level = IF pos = 1 THEN 1 ELSE Stream[pos - 1].level

\* A demo is never paused: a paused demo would wait for a Start that no one
\* presses.  The stored pad byte must show no press when the demo's loop begins,
\* though the screens before it store what they read.
NoPauseInDemo == demo => phase # "paused"

\* The any-button latch is armed during play on no level but 0xC, whose story
\* screen arms it and returns; wait_frames_or_button relies on it after a fall.
LatchOnlyOnLevelC == phase \in LoopSteps /\ armed => level = 12

PauseStarts == phase # "paused" /\ phase' = "paused"

\* Within a level a pause starts only after Start was let go since the last one
\* was toggled (pause.py:3), also across a lost life, which releases the stored
\* pad byte.  Not across a level change: load_level clears FFF168, so a Start held
\* from the last toggle through the change pauses the next level at once.
PauseReleasedInLevel == [][PauseStarts => since # "held"]_vars
====
