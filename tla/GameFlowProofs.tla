---- MODULE GameFlowProofs ----
(***************************************************************************)
(* The safety properties of GameFlow, for every level sequence, demo list, *)
(* set of levels and difficulty table.                                     *)
(***************************************************************************)
EXTENDS GameFlow, TLAPS

\* The level is the entry behind the stream's next one.
Aligned == level = IF pos = 1 THEN 1 ELSE Stream[pos - 1].level

\* The title shows a new game's defaults.
TitleInv == phase \in {"title", "menu"} => level = 1 /\ pos = 1

\* A demo plays without pad, countdown or stream.
DemoInv == demo => /\ pos = 1
                   /\ phase \notin {"menu", "paused", "change", "continue", "over"}
                   /\ phase \in LoopSteps => ~low /\ countdown = 0

AlignInv == ~demo => Aligned

ContinueInv == phase = "continue" => continues > 0

\* Who leaves the latch armed.
LatchInv == /\ phase = "intro" => ~armed
            /\ phase \in LoopSteps \cup {"load"} => (armed => level = 12)

\* Start held since a toggle blocks the pause.
HeldInv == phase \in LoopSteps /\ since = "held" =>
    held /\ block /\ ~demo /\ (phase = "pause" => low)

IInv == TypeOK /\ TitleInv /\ DemoInv /\ AlignInv /\ ContinueInv /\ LatchInv /\ HeldInv

----------------------------------------------------------------------------
\* What the two ROM tables hold.

LEMMA ElementType == ASSUME NEW S, NEW s \in Seq(S), NEW i \in 1..Len(s)
                     PROVE  s[i] \in S
  OBVIOUS

LEMMA StreamType == /\ Len(Stream) \in Nat
                    /\ \A i \in 1..Len(Stream) : Stream[i].level \in Nat
<1>1. Stream \in Seq([op : Ops, level : Nat])
  BY FlowAssumption DEF FlowAssumption
<1>2. Len(Stream) \in Nat
  BY <1>1
<1>3. ASSUME NEW i \in 1..Len(Stream) PROVE Stream[i] \in [op : Ops, level : Nat]
  BY <1>1, ElementType
<1>4. QED
  BY <1>2, <1>3

LEMMA DemoType == /\ Len(Demos) \in Nat \ {0}
                  /\ \A i \in 1..Len(Demos) : Demos[i] \in Nat
<1>1. Demos \in Seq(Nat) /\ Demos # <<>>
  BY FlowAssumption DEF FlowAssumption
<1>2. QED
  BY <1>1

\* Both begin somewhere.
LEMMA FirstEntries == 1 \in 1..Len(Stream) + 1 /\ 1 \in 1..Len(Demos)
  BY StreamType, DemoType

\* The difficulty tables and the bounds.
LEMMA TableType == /\ 1 \in Difficulties /\ MaxLives \in Nat
                   /\ MaxCount \in Nat /\ 0 < MaxCount /\ MaxCount < AtOnce
                   /\ LivesOf \in [Difficulties -> 1..MaxLives]
                   /\ ContinuesOf \in [Difficulties -> Nat]
  BY FlowAssumption DEF FlowAssumption, AtOnce

\* Which entry a level change takes, wherever it stops.
LEMMA NextEntry ==
  ASSUME TypeOK, LevelChange
  PROVE  \/ phase' = "gap" /\ level' = level /\ pos' = pos
         \/ \E i \in 1..Len(Stream) :
               phase' = "card" /\ level' = Stream[i].level /\ pos' = i + 1
<1>1. PICK i \in pos..Len(Stream) :
         IF Stream[i].op = "ending"
           THEN phase' = "gap" /\ UNCHANGED <<level, pos>>
           ELSE phase' = "card" /\ level' = Stream[i].level /\ pos' = i + 1
  BY DEF LevelChange
<1>2. i \in 1..Len(Stream) /\ i \in Nat
  BY StreamType DEF TypeOK, LevelType
<1>3. CASE Stream[i].op = "ending"
  BY <1>1, <1>3
<1>4. CASE Stream[i].op # "ending"
  BY <1>1, <1>2, <1>4
<1>5. QED
  BY <1>3, <1>4

LEMMA NextLevel ==
  ASSUME TypeOK, LevelChange
  PROVE  level' \in Nat /\ pos' \in 1..Len(Stream) + 1 /\ skip' = skip /\ bonus' = bonus
<1>1. level \in Nat /\ pos \in 1..Len(Stream) + 1
  BY DEF TypeOK, LevelType
<1>2. skip' = skip /\ bonus' = bonus
  BY DEF LevelChange
<1>3. CASE level' = level /\ pos' = pos
  BY <1>1, <1>2, <1>3
<1>4. CASE \E i \in 1..Len(Stream) : level' = Stream[i].level /\ pos' = i + 1
  <2>1. PICK i \in 1..Len(Stream) : level' = Stream[i].level /\ pos' = i + 1
    BY <1>4
  <2>2. QED
    BY <1>2, <2>1, StreamType
<1>5. QED
  BY <1>3, <1>4, NextEntry

\* The values a countdown is set to.
LEMMA CountFacts == 0 \in Counts /\ 1 \in Counts /\ MaxCount \in Counts /\ AtOnce \in Counts
  BY TableType DEF Counts, AtOnce

LEMMA CountsDown ==
  ASSUME TransitionCountdown
  PROVE  /\ dying' = dying
         /\ \/ countdown' = 0 \/ countdown' = countdown
            \/ countdown \notin {0, 1, AtOnce} /\ countdown' = countdown - 1
  BY DEF TransitionCountdown

----------------------------------------------------------------------------
\* Each part of the invariant is kept by every step.

\* Every step leads to a screen or a main-loop step.
LEMMA ScreenStep == TypeOK /\ ContinueInv /\ [Next]_vars => ScreenType'
<1> SUFFICES ASSUME TypeOK /\ ContinueInv, [Next]_vars PROVE ScreenType'
  OBVIOUS
<1> USE DEF TypeOK, ScreenType, LevelType, LivesType, CountType, PadType,
         ContinueInv, Screens, session, counts, pad, LoopSteps
<1>1. CASE Title
  BY <1>1 DEF Title, Disarm, ReleasePad, ClearCounts, VBlanks
<1>2. CASE Options
  BY <1>2 DEF Options, VBlanks
<1>3. CASE StartGame
  BY <1>3 DEF StartGame, VBlanks
<1>4. CASE StartDemo
  BY <1>4, DemoType DEF StartDemo, ClearCounts, VBlanks
<1>5. CASE Card
  BY <1>5 DEF Card, AttractExit, ClearCounts, VBlanks
<1>6. CASE Level1Title
  BY <1>6 DEF Level1Title, AttractExit, VBlanks
<1>7. CASE Story
  BY <1>7 DEF Story, Disarm, WithStory, WithoutStory, VBlanks
<1>8. CASE Intro
  BY <1>8 DEF Intro, AttractExit, VBlanks
<1>9. CASE Load
  BY <1>9 DEF Load, ClearCounts, ReleasePad
<1>10. CASE PadRead
  BY <1>10 DEF PadRead, AttractExit, VBlanks
<1>11. CASE PauseCheck
  BY <1>11 DEF PauseCheck, BlockPause, Toggled
<1>12. CASE Paused
  BY <1>12 DEF Paused, BlockPause, Toggled
<1>13. CASE Play
  BY <1>13 DEF Play
<1>14. CASE FallCheck
  BY <1>14 DEF FallCheck, LoseLife, LastLife, ClearCounts, ReleasePad, VBlanks
<1>15. CASE LevelTick
  BY <1>15 DEF LevelTick
<1>16. CASE TransitionCountdown
  BY <1>16 DEF TransitionCountdown, VBlank
<1>17. CASE Gap
  BY <1>17 DEF Gap
<1>18. CASE LevelChange
  BY <1>18, NextEntry DEF LevelChange, VBlanks
<1>19. CASE Continue
  BY <1>19 DEF Continue, NewGame, VBlanks
<1>20. CASE GameOver
  BY <1>20 DEF GameOver, NewGame, VBlanks
<1>21. CASE UNCHANGED vars
  BY <1>21 DEF vars
<1>22. QED
  BY <1>1, <1>2, <1>3, <1>4, <1>5, <1>6, <1>7, <1>8, <1>9, <1>10, <1>11, <1>12,
         <1>13, <1>14, <1>15, <1>16, <1>17, <1>18, <1>19, <1>20, <1>21 DEF Next

\* The stream is never read past its end.
LEMMA LevelStep == TypeOK /\ ContinueInv /\ [Next]_vars => LevelType'
<1> SUFFICES ASSUME TypeOK /\ ContinueInv, [Next]_vars PROVE LevelType'
  OBVIOUS
<1> USE DEF TypeOK, ScreenType, LevelType, LivesType, CountType, PadType,
         ContinueInv, session, counts, pad, LoopSteps
<1>1. CASE StartDemo
  BY <1>1, DemoType DEF StartDemo, ClearCounts, VBlanks
<1>2. CASE Card
  BY <1>2 DEF Card, AttractExit, ClearCounts, VBlanks
<1>3. CASE Level1Title
  BY <1>3 DEF Level1Title, AttractExit, VBlanks
<1>4. CASE Intro
  BY <1>4 DEF Intro, AttractExit, VBlanks
<1>5. CASE Load
  BY <1>5 DEF Load, ClearCounts, ReleasePad
<1>6. CASE PadRead
  BY <1>6 DEF PadRead, AttractExit, VBlanks
<1>7. CASE Play
  BY <1>7 DEF Play
<1>8. CASE LevelTick
  BY <1>8 DEF LevelTick
<1>9. CASE LevelChange
  BY <1>9, NextLevel DEF LevelChange, VBlanks
<1>10. CASE Continue
  <2>1. CASE level' = 1 /\ pos' = 1 /\ skip' = FALSE /\ bonus' = bonus
    BY <2>1, FirstEntries
  <2>2. CASE UNCHANGED <<level, pos, skip, bonus>>
    BY <2>2
  <2>3. QED
    BY <1>10, <2>1, <2>2 DEF Continue, NewGame
<1>11. CASE GameOver
  BY <1>11, FirstEntries DEF GameOver, NewGame, VBlanks
<1>12. CASE Title \/ Options \/ StartGame \/ Story \/ PauseCheck \/ Paused \/
         FallCheck \/ TransitionCountdown \/ Gap
  BY <1>12 DEF Title, Disarm, ReleasePad, ClearCounts, VBlanks, Options,
         StartGame, Story, WithStory, WithoutStory, PauseCheck, BlockPause,
         Toggled, Paused, FallCheck, LoseLife, LastLife, TransitionCountdown,
         VBlank, Gap
<1>13. CASE UNCHANGED vars
  BY <1>13 DEF vars
<1>14. QED
  BY <1>1, <1>2, <1>3, <1>4, <1>5, <1>6, <1>7, <1>8, <1>9, <1>10, <1>11, <1>12,
         <1>13 DEF Next

\* Lives and continues never pass below zero.
LEMMA LivesStep == TypeOK /\ ContinueInv /\ [Next]_vars => LivesType'
<1> SUFFICES ASSUME TypeOK /\ ContinueInv, [Next]_vars PROVE LivesType'
  OBVIOUS
<1> USE TableType
<1> USE DEF TypeOK, ScreenType, LevelType, LivesType, CountType, PadType,
         ContinueInv, session, counts, pad, LoopSteps
<1>1. CASE Options
  BY <1>1 DEF Options, VBlanks
<1>2. CASE StartGame
  BY <1>2 DEF StartGame, VBlanks
<1>3. CASE StartDemo
  BY <1>3 DEF StartDemo, ClearCounts, VBlanks
<1>4. CASE Play
  BY <1>4 DEF Play
<1>5. CASE FallCheck
  <2>1. CASE \E fell \in BOOLEAN : LoseLife(fell)
    BY <2>1 DEF LoseLife, LastLife, ClearCounts, ReleasePad, VBlanks
  <2>2. CASE phase = "fall" /\ phase' = "tick" /\ UNCHANGED <<demo, nextDemo, session, countdown, pad>>
    BY <2>2
  <2>3. QED
    BY <1>5, <2>1, <2>2 DEF FallCheck
<1>6. CASE LevelChange
  BY <1>6 DEF LevelChange, VBlanks
<1>7. CASE Continue
  <2>1. CASE NewGame /\ UNCHANGED lives
    BY <1>7, <2>1 DEF Continue, NewGame
  <2>2. CASE lives' = LivesOf[difficulty] /\ continues' = continues - 1
    BY <1>7, <2>2 DEF Continue
  <2>3. QED
    BY <1>7, <2>1, <2>2 DEF Continue
<1>8. CASE GameOver
  BY <1>8 DEF GameOver, NewGame, VBlanks
<1>9. CASE Title \/ Card \/ Level1Title \/ Story \/ Intro \/ Load \/ PadRead \/
         PauseCheck \/ Paused \/ LevelTick \/ TransitionCountdown \/ Gap
  BY <1>9 DEF Title, Disarm, ReleasePad, ClearCounts, VBlanks, Card,
         AttractExit, Level1Title, Story, WithStory, WithoutStory, Intro, Load,
         PadRead, PauseCheck, BlockPause, Toggled, Paused, LevelTick,
         TransitionCountdown, VBlank, Gap
<1>10. CASE UNCHANGED vars
  BY <1>10 DEF vars
<1>11. QED
  BY <1>1, <1>2, <1>3, <1>4, <1>5, <1>6, <1>7, <1>8, <1>9, <1>10 DEF Next

\* Countdowns end at zero.
LEMMA CountStep == TypeOK /\ ContinueInv /\ [Next]_vars => CountType'
<1> SUFFICES ASSUME TypeOK /\ ContinueInv, [Next]_vars PROVE CountType'
  OBVIOUS
<1> USE CountFacts
<1> USE DEF TypeOK, ScreenType, LevelType, LivesType, CountType, PadType,
         ContinueInv, session, counts, pad, LoopSteps
<1>1. CASE Title
  BY <1>1 DEF Title, Disarm, ReleasePad, ClearCounts, VBlanks
<1>2. CASE Options
  BY <1>2 DEF Options, VBlanks
<1>3. CASE StartGame
  BY <1>3 DEF StartGame, VBlanks
<1>4. CASE StartDemo
  BY <1>4 DEF StartDemo, ClearCounts, VBlanks
<1>5. CASE Card
  BY <1>5 DEF Card, AttractExit, ClearCounts, VBlanks
<1>6. CASE Level1Title
  BY <1>6 DEF Level1Title, AttractExit, VBlanks
<1>7. CASE Story
  BY <1>7 DEF Story, Disarm, WithStory, WithoutStory, VBlanks
<1>8. CASE Intro
  BY <1>8 DEF Intro, AttractExit, VBlanks
<1>9. CASE Load
  BY <1>9 DEF Load, ClearCounts, ReleasePad
<1>10. CASE PadRead
  BY <1>10 DEF PadRead, AttractExit, VBlanks
<1>11. CASE PauseCheck
  BY <1>11 DEF PauseCheck, BlockPause, Toggled
<1>12. CASE Paused
  BY <1>12 DEF Paused, BlockPause, Toggled
<1>13. CASE Play
  BY <1>13 DEF Play
<1>14. CASE FallCheck
  <2>1. CASE \E fell \in BOOLEAN : LoseLife(fell)
    BY <2>1 DEF LoseLife, ClearCounts
  <2>2. CASE /\ dying' = IF dying \in {0, 1, AtOnce} THEN 0 ELSE dying - 1
             /\ countdown' = countdown
    BY <2>2, TableType DEF Counts, AtOnce
  <2>3. QED
    BY <1>14, <2>1, <2>2 DEF FallCheck
<1>15. CASE LevelTick
  BY <1>15 DEF LevelTick
<1>16. CASE TransitionCountdown
  <2>1. dying' = dying
    BY <1>16, CountsDown
  <2>2. countdown' \in Counts
    BY <1>16, CountsDown, TableType DEF Counts, AtOnce
  <2>3. QED
    BY <2>1, <2>2
<1>17. CASE Gap
  BY <1>17 DEF Gap
<1>18. CASE LevelChange
  BY <1>18 DEF LevelChange, VBlanks
<1>19. CASE Continue
  BY <1>19 DEF Continue, NewGame, VBlanks
<1>20. CASE GameOver
  BY <1>20 DEF GameOver, NewGame, VBlanks
<1>21. CASE UNCHANGED vars
  BY <1>21 DEF vars
<1>22. QED
  BY <1>1, <1>2, <1>3, <1>4, <1>5, <1>6, <1>7, <1>8, <1>9, <1>10, <1>11, <1>12,
         <1>13, <1>14, <1>15, <1>16, <1>17, <1>18, <1>19, <1>20, <1>21 DEF Next

\* The pad.
LEMMA PadStep == TypeOK /\ ContinueInv /\ [Next]_vars => PadType'
<1> SUFFICES ASSUME TypeOK /\ ContinueInv, [Next]_vars PROVE PadType'
  OBVIOUS
<1> USE DEF TypeOK, ScreenType, LevelType, LivesType, CountType, PadType,
         ContinueInv, session, counts, pad, LoopSteps
<1>1. CASE Title
  BY <1>1 DEF Title, Disarm, ReleasePad, ClearCounts, VBlanks
<1>2. CASE Options
  BY <1>2 DEF Options, VBlanks
<1>3. CASE StartGame
  BY <1>3 DEF StartGame, VBlanks
<1>4. CASE StartDemo
  BY <1>4 DEF StartDemo, ClearCounts, VBlanks
<1>5. CASE Card
  BY <1>5 DEF Card, AttractExit, ClearCounts, VBlanks
<1>6. CASE Level1Title
  BY <1>6 DEF Level1Title, AttractExit, VBlanks
<1>7. CASE Story
  BY <1>7 DEF Story, Disarm, WithStory, WithoutStory, VBlanks
<1>8. CASE Intro
  BY <1>8 DEF Intro, AttractExit, VBlanks
<1>9. CASE Load
  BY <1>9 DEF Load, ClearCounts, ReleasePad
<1>10. CASE PadRead
  BY <1>10 DEF PadRead, AttractExit, VBlanks
<1>11. CASE PauseCheck
  BY <1>11 DEF PauseCheck, BlockPause, Toggled
<1>12. CASE Paused
  BY <1>12 DEF Paused, BlockPause, Toggled
<1>13. CASE Play
  BY <1>13 DEF Play
<1>14. CASE FallCheck
  BY <1>14 DEF FallCheck, LoseLife, LastLife, ClearCounts, ReleasePad, VBlanks
<1>15. CASE LevelTick
  BY <1>15 DEF LevelTick
<1>16. CASE TransitionCountdown
  BY <1>16 DEF TransitionCountdown, VBlank
<1>17. CASE Gap
  BY <1>17 DEF Gap
<1>18. CASE LevelChange
  BY <1>18 DEF LevelChange, VBlanks
<1>19. CASE Continue
  BY <1>19 DEF Continue, NewGame, VBlanks
<1>20. CASE GameOver
  BY <1>20 DEF GameOver, NewGame, VBlanks
<1>21. CASE UNCHANGED vars
  BY <1>21 DEF vars
<1>22. QED
  BY <1>1, <1>2, <1>3, <1>4, <1>5, <1>6, <1>7, <1>8, <1>9, <1>10, <1>11, <1>12,
         <1>13, <1>14, <1>15, <1>16, <1>17, <1>18, <1>19, <1>20, <1>21 DEF Next

LEMMA TypeStep == TypeOK /\ ContinueInv /\ [Next]_vars => TypeOK'
  BY ScreenStep, LevelStep, LivesStep, CountStep, PadStep DEF TypeOK

\* The title is reached by a new game, or from a demo, which left the stream alone.
LEMMA TitleStep == TypeOK /\ TitleInv /\ DemoInv /\ [Next]_vars => TitleInv'
<1> SUFFICES ASSUME TypeOK /\ TitleInv /\ DemoInv, [Next]_vars PROVE TitleInv'
  OBVIOUS
<1> USE DEF TypeOK, ScreenType, LevelType, LivesType, CountType, PadType,
         TitleInv, DemoInv, session, counts, pad, LoopSteps
<1>1. CASE Title
  BY <1>1 DEF Title, Disarm, ReleasePad, ClearCounts, VBlanks
<1>2. CASE Options
  BY <1>2 DEF Options, VBlanks
<1>3. CASE StartGame
  BY <1>3 DEF StartGame, VBlanks
<1>4. CASE StartDemo
  BY <1>4 DEF StartDemo, ClearCounts, VBlanks
<1>5. CASE Card
  BY <1>5 DEF Card, AttractExit, ClearCounts, VBlanks
<1>6. CASE Level1Title
  BY <1>6 DEF Level1Title, AttractExit, VBlanks
<1>7. CASE Story
  BY <1>7 DEF Story, Disarm, WithStory, WithoutStory, VBlanks
<1>8. CASE Intro
  BY <1>8 DEF Intro, AttractExit, VBlanks
<1>9. CASE Load
  BY <1>9 DEF Load, ClearCounts, ReleasePad
<1>10. CASE PadRead
  BY <1>10 DEF PadRead, AttractExit, VBlanks
<1>11. CASE PauseCheck
  BY <1>11 DEF PauseCheck, BlockPause, Toggled
<1>12. CASE Paused
  BY <1>12 DEF Paused, BlockPause, Toggled
<1>13. CASE Play
  BY <1>13 DEF Play
<1>14. CASE FallCheck
  BY <1>14 DEF FallCheck, LoseLife, LastLife, ClearCounts, ReleasePad, VBlanks
<1>15. CASE LevelTick
  BY <1>15 DEF LevelTick
<1>16. CASE TransitionCountdown
  BY <1>16 DEF TransitionCountdown, VBlank
<1>17. CASE Gap
  BY <1>17 DEF Gap
<1>18. CASE LevelChange
  BY <1>18, NextEntry DEF LevelChange, VBlanks
<1>19. CASE Continue
  BY <1>19 DEF Continue, NewGame, VBlanks
<1>20. CASE GameOver
  BY <1>20 DEF GameOver, NewGame, VBlanks
<1>21. CASE UNCHANGED vars
  BY <1>21 DEF vars
<1>22. QED
  BY <1>1, <1>2, <1>3, <1>4, <1>5, <1>6, <1>7, <1>8, <1>9, <1>10, <1>11, <1>12,
         <1>13, <1>14, <1>15, <1>16, <1>17, <1>18, <1>19, <1>20, <1>21 DEF Next

\* A demo never leaves its loop but to the title.
LEMMA DemoStep == TypeOK /\ TitleInv /\ DemoInv /\ [Next]_vars => DemoInv'
<1> SUFFICES ASSUME TypeOK /\ TitleInv /\ DemoInv, [Next]_vars PROVE DemoInv'
  OBVIOUS
<1> USE DEF TypeOK, ScreenType, LevelType, LivesType, CountType, PadType,
         TitleInv, DemoInv, AtOnce, session, counts, pad, LoopSteps
<1>1. CASE Title
  BY <1>1 DEF Title, Disarm, ReleasePad, ClearCounts, VBlanks
<1>2. CASE Options
  BY <1>2 DEF Options, VBlanks
<1>3. CASE StartGame
  BY <1>3 DEF StartGame, VBlanks
<1>4. CASE StartDemo
  BY <1>4 DEF StartDemo, ClearCounts, VBlanks
<1>5. CASE Card
  BY <1>5 DEF Card, AttractExit, ClearCounts, VBlanks
<1>6. CASE Level1Title
  BY <1>6 DEF Level1Title, AttractExit, VBlanks
<1>7. CASE Story
  BY <1>7 DEF Story, Disarm, WithStory, WithoutStory, VBlanks
<1>8. CASE Intro
  BY <1>8 DEF Intro, AttractExit, VBlanks
<1>9. CASE Load
  BY <1>9 DEF Load, ClearCounts, ReleasePad
<1>10. CASE PadRead
  BY <1>10 DEF PadRead, AttractExit, VBlanks
<1>11. CASE PauseCheck
  BY <1>11 DEF PauseCheck, BlockPause, Toggled
<1>12. CASE Paused
  BY <1>12 DEF Paused, BlockPause, Toggled
<1>13. CASE Play
  BY <1>13 DEF Play
<1>14. CASE FallCheck
  <2>1. CASE \E fell \in BOOLEAN : LoseLife(fell)
    BY <2>1 DEF LoseLife, LastLife, ClearCounts, ReleasePad, VBlanks
  <2>2. CASE phase = "fall" /\ phase' = "tick" /\ UNCHANGED <<demo, nextDemo, session, countdown, pad>>
    BY <2>2
  <2>3. QED
    BY <1>14, <2>1, <2>2 DEF FallCheck
<1>15. CASE LevelTick
  BY <1>15 DEF LevelTick
<1>16. CASE TransitionCountdown
  BY <1>16 DEF TransitionCountdown, VBlank
<1>17. CASE Gap
  BY <1>17 DEF Gap
<1>18. CASE LevelChange
  BY <1>18, NextEntry DEF LevelChange, VBlanks
<1>19. CASE Continue
  BY <1>19 DEF Continue, NewGame, VBlanks
<1>20. CASE GameOver
  BY <1>20 DEF GameOver, NewGame, VBlanks
<1>21. CASE UNCHANGED vars
  BY <1>21 DEF vars
<1>22. QED
  BY <1>1, <1>2, <1>3, <1>4, <1>5, <1>6, <1>7, <1>8, <1>9, <1>10, <1>11, <1>12,
         <1>13, <1>14, <1>15, <1>16, <1>17, <1>18, <1>19, <1>20, <1>21 DEF Next

\* The stream moves with the level.
LEMMA AlignStep == TypeOK /\ TitleInv /\ DemoInv /\ AlignInv /\ [Next]_vars => AlignInv'
<1> SUFFICES ASSUME TypeOK /\ TitleInv /\ DemoInv /\ AlignInv, [Next]_vars PROVE AlignInv'
  OBVIOUS
<1> USE DEF TypeOK, ScreenType, LevelType, LivesType, CountType, PadType,
         TitleInv, DemoInv, AlignInv, Aligned, session, counts, pad, LoopSteps
<1>1. CASE Title
  BY <1>1 DEF Title, Disarm, ReleasePad, ClearCounts, VBlanks
<1>2. CASE Options
  BY <1>2 DEF Options, VBlanks
<1>3. CASE StartGame
  BY <1>3 DEF StartGame, VBlanks
<1>4. CASE StartDemo
  BY <1>4 DEF StartDemo, ClearCounts, VBlanks
<1>5. CASE Card
  BY <1>5 DEF Card, AttractExit, ClearCounts, VBlanks
<1>6. CASE Level1Title
  BY <1>6 DEF Level1Title, AttractExit, VBlanks
<1>7. CASE Story
  BY <1>7 DEF Story, Disarm, WithStory, WithoutStory, VBlanks
<1>8. CASE Intro
  BY <1>8 DEF Intro, AttractExit, VBlanks
<1>9. CASE Load
  BY <1>9 DEF Load, ClearCounts, ReleasePad
<1>10. CASE PadRead
  BY <1>10 DEF PadRead, AttractExit, VBlanks
<1>11. CASE PauseCheck
  BY <1>11 DEF PauseCheck, BlockPause, Toggled
<1>12. CASE Paused
  BY <1>12 DEF Paused, BlockPause, Toggled
<1>13. CASE Play
  BY <1>13 DEF Play
<1>14. CASE FallCheck
  BY <1>14 DEF FallCheck, LoseLife, LastLife, ClearCounts, ReleasePad, VBlanks
<1>15. CASE LevelTick
  BY <1>15 DEF LevelTick
<1>16. CASE TransitionCountdown
  BY <1>16 DEF TransitionCountdown, VBlank
<1>17. CASE Gap
  BY <1>17 DEF Gap
<1>18. CASE LevelChange
  BY <1>18, NextEntry, StreamType DEF LevelChange, VBlanks
<1>19. CASE Continue
  BY <1>19 DEF Continue, NewGame, VBlanks
<1>20. CASE GameOver
  BY <1>20 DEF GameOver, NewGame, VBlanks
<1>21. CASE UNCHANGED vars
  BY <1>21 DEF vars
<1>22. QED
  BY <1>1, <1>2, <1>3, <1>4, <1>5, <1>6, <1>7, <1>8, <1>9, <1>10, <1>11, <1>12,
         <1>13, <1>14, <1>15, <1>16, <1>17, <1>18, <1>19, <1>20, <1>21 DEF Next

\* A continue is offered while one is left.
LEMMA ContinueStep == TypeOK /\ ContinueInv /\ [Next]_vars => ContinueInv'
<1> SUFFICES ASSUME TypeOK /\ ContinueInv, [Next]_vars PROVE ContinueInv'
  OBVIOUS
<1> USE DEF TypeOK, ScreenType, LevelType, LivesType, CountType, PadType,
         ContinueInv, session, counts, pad, LoopSteps
<1>1. CASE Title
  BY <1>1 DEF Title, Disarm, ReleasePad, ClearCounts, VBlanks
<1>2. CASE Options
  BY <1>2 DEF Options, VBlanks
<1>3. CASE StartGame
  BY <1>3 DEF StartGame, VBlanks
<1>4. CASE StartDemo
  BY <1>4 DEF StartDemo, ClearCounts, VBlanks
<1>5. CASE Card
  BY <1>5 DEF Card, AttractExit, ClearCounts, VBlanks
<1>6. CASE Level1Title
  BY <1>6 DEF Level1Title, AttractExit, VBlanks
<1>7. CASE Story
  BY <1>7 DEF Story, Disarm, WithStory, WithoutStory, VBlanks
<1>8. CASE Intro
  BY <1>8 DEF Intro, AttractExit, VBlanks
<1>9. CASE Load
  BY <1>9 DEF Load, ClearCounts, ReleasePad
<1>10. CASE PadRead
  BY <1>10 DEF PadRead, AttractExit, VBlanks
<1>11. CASE PauseCheck
  BY <1>11 DEF PauseCheck, BlockPause, Toggled
<1>12. CASE Paused
  BY <1>12 DEF Paused, BlockPause, Toggled
<1>13. CASE Play
  BY <1>13 DEF Play
<1>14. CASE FallCheck
  BY <1>14 DEF FallCheck, LoseLife, LastLife, ClearCounts, ReleasePad, VBlanks
<1>15. CASE LevelTick
  BY <1>15 DEF LevelTick
<1>16. CASE TransitionCountdown
  BY <1>16 DEF TransitionCountdown, VBlank
<1>17. CASE Gap
  BY <1>17 DEF Gap
<1>18. CASE LevelChange
  BY <1>18, NextEntry DEF LevelChange, VBlanks
<1>19. CASE Continue
  BY <1>19 DEF Continue, NewGame, VBlanks
<1>20. CASE GameOver
  BY <1>20 DEF GameOver, NewGame, VBlanks
<1>21. CASE UNCHANGED vars
  BY <1>21 DEF vars
<1>22. QED
  BY <1>1, <1>2, <1>3, <1>4, <1>5, <1>6, <1>7, <1>8, <1>9, <1>10, <1>11, <1>12,
         <1>13, <1>14, <1>15, <1>16, <1>17, <1>18, <1>19, <1>20, <1>21 DEF Next

\* The latch is armed before the loop on level 0xC only.
LEMMA LatchStep == TypeOK /\ LatchInv /\ [Next]_vars => LatchInv'
<1> SUFFICES ASSUME TypeOK /\ LatchInv, [Next]_vars PROVE LatchInv'
  OBVIOUS
<1> USE DEF TypeOK, ScreenType, LevelType, LivesType, CountType, PadType,
         LatchInv, session, counts, pad, LoopSteps
<1>1. CASE Title
  BY <1>1 DEF Title, Disarm, ReleasePad, ClearCounts, VBlanks
<1>2. CASE Options
  BY <1>2 DEF Options, VBlanks
<1>3. CASE StartGame
  BY <1>3 DEF StartGame, VBlanks
<1>4. CASE StartDemo
  BY <1>4 DEF StartDemo, ClearCounts, VBlanks
<1>5. CASE Card
  BY <1>5 DEF Card, AttractExit, ClearCounts, VBlanks
<1>6. CASE Level1Title
  BY <1>6 DEF Level1Title, AttractExit, VBlanks
<1>7. CASE Story
  BY <1>7 DEF Story, Disarm, WithStory, WithoutStory, VBlanks
<1>8. CASE Intro
  BY <1>8 DEF Intro, AttractExit, VBlanks
<1>9. CASE Load
  BY <1>9 DEF Load, ClearCounts, ReleasePad
<1>10. CASE PadRead
  BY <1>10 DEF PadRead, AttractExit, VBlanks
<1>11. CASE PauseCheck
  BY <1>11 DEF PauseCheck, BlockPause, Toggled
<1>12. CASE Paused
  BY <1>12 DEF Paused, BlockPause, Toggled
<1>13. CASE Play
  BY <1>13 DEF Play
<1>14. CASE FallCheck
  BY <1>14 DEF FallCheck, LoseLife, LastLife, ClearCounts, ReleasePad, VBlanks
<1>15. CASE LevelTick
  BY <1>15 DEF LevelTick
<1>16. CASE TransitionCountdown
  BY <1>16 DEF TransitionCountdown, VBlank
<1>17. CASE Gap
  BY <1>17 DEF Gap
<1>18. CASE LevelChange
  BY <1>18, NextEntry DEF LevelChange, VBlanks
<1>19. CASE Continue
  BY <1>19 DEF Continue, NewGame, VBlanks
<1>20. CASE GameOver
  BY <1>20 DEF GameOver, NewGame, VBlanks
<1>21. CASE UNCHANGED vars
  BY <1>21 DEF vars
<1>22. QED
  BY <1>1, <1>2, <1>3, <1>4, <1>5, <1>6, <1>7, <1>8, <1>9, <1>10, <1>11, <1>12,
         <1>13, <1>14, <1>15, <1>16, <1>17, <1>18, <1>19, <1>20, <1>21 DEF Next

\* Start held since a toggle stays held and blocked.
LEMMA HeldStep == TypeOK /\ DemoInv /\ HeldInv /\ [Next]_vars => HeldInv'
<1> SUFFICES ASSUME TypeOK /\ DemoInv /\ HeldInv, [Next]_vars PROVE HeldInv'
  OBVIOUS
<1> USE DEF TypeOK, ScreenType, LevelType, LivesType, CountType, PadType,
         DemoInv, HeldInv, session, counts, pad, LoopSteps
<1>1. CASE Title
  BY <1>1 DEF Title, Disarm, ReleasePad, ClearCounts, VBlanks
<1>2. CASE Options
  BY <1>2 DEF Options, VBlanks
<1>3. CASE StartGame
  BY <1>3 DEF StartGame, VBlanks
<1>4. CASE StartDemo
  BY <1>4 DEF StartDemo, ClearCounts, VBlanks
<1>5. CASE Card
  BY <1>5 DEF Card, AttractExit, ClearCounts, VBlanks
<1>6. CASE Level1Title
  BY <1>6 DEF Level1Title, AttractExit, VBlanks
<1>7. CASE Story
  BY <1>7 DEF Story, Disarm, WithStory, WithoutStory, VBlanks
<1>8. CASE Intro
  BY <1>8 DEF Intro, AttractExit, VBlanks
<1>9. CASE Load
  BY <1>9 DEF Load, ClearCounts, ReleasePad
<1>10. CASE PadRead
  BY <1>10 DEF PadRead, AttractExit, VBlanks
<1>11. CASE PauseCheck
  BY <1>11 DEF PauseCheck, BlockPause, Toggled
<1>12. CASE Paused
  BY <1>12 DEF Paused, BlockPause, Toggled
<1>13. CASE Play
  BY <1>13 DEF Play
<1>14. CASE FallCheck
  BY <1>14 DEF FallCheck, LoseLife, LastLife, ClearCounts, ReleasePad, VBlanks
<1>15. CASE LevelTick
  BY <1>15 DEF LevelTick
<1>16. CASE TransitionCountdown
  BY <1>16 DEF TransitionCountdown, VBlank
<1>17. CASE Gap
  BY <1>17 DEF Gap
<1>18. CASE LevelChange
  BY <1>18, NextEntry DEF LevelChange, VBlanks
<1>19. CASE Continue
  BY <1>19 DEF Continue, NewGame, VBlanks
<1>20. CASE GameOver
  BY <1>20 DEF GameOver, NewGame, VBlanks
<1>21. CASE UNCHANGED vars
  BY <1>21 DEF vars
<1>22. QED
  BY <1>1, <1>2, <1>3, <1>4, <1>5, <1>6, <1>7, <1>8, <1>9, <1>10, <1>11, <1>12,
         <1>13, <1>14, <1>15, <1>16, <1>17, <1>18, <1>19, <1>20, <1>21 DEF Next

----------------------------------------------------------------------------
\* The theorems.

LEMMA FlowInit == Init => IInv
<1> SUFFICES ASSUME Init PROVE IInv
  OBVIOUS
<1> USE DEF Init, LoopSteps
<1>1. ScreenType
  BY FirstEntries DEF ScreenType, Screens
<1>2. LevelType
  BY FirstEntries DEF LevelType
<1>3. LivesType
  BY TableType DEF LivesType
<1>4. CountType
  BY TableType DEF CountType, Counts
<1>5. PadType
  BY DEF PadType
<1>6. TitleInv /\ DemoInv /\ AlignInv /\ ContinueInv
  BY DEF TitleInv, DemoInv, AlignInv, Aligned, ContinueInv
<1>7. LatchInv /\ HeldInv
  BY DEF LatchInv, HeldInv
<1>8. QED
  BY <1>1, <1>2, <1>3, <1>4, <1>5, <1>6, <1>7 DEF IInv, TypeOK

LEMMA FlowStep == IInv /\ [Next]_vars => IInv'
  BY TypeStep, TitleStep, DemoStep, AlignStep, ContinueStep, LatchStep, HeldStep DEF IInv

\* The invariant: what each screen and each main-loop step may find in the
\* level, the stream, the pad and the latch.
THEOREM FlowInvariant == Spec => []IInv
  BY FlowInit, FlowStep, PTL DEF Spec

\* Type correctness: no counter underflows and no stream index is passed.
THEOREM FlowTypes == Spec => []TypeOK
<1>1. IInv => TypeOK
  BY DEF IInv
<1>2. QED
  BY <1>1, FlowInvariant, PTL

\* Game levels are those of the stream, in its order, whatever demos, game overs
\* and continues come between.
THEOREM FlowStreamAgrees == Spec => []StreamAgrees
<1>1. IInv => StreamAgrees
  BY DEF IInv, AlignInv, Aligned, StreamAgrees
<1>2. QED
  BY <1>1, FlowInvariant, PTL

\* A demo is never paused.
THEOREM FlowNoPauseInDemo == Spec => []NoPauseInDemo
<1>1. IInv => NoPauseInDemo
  BY DEF IInv, DemoInv, NoPauseInDemo
<1>2. QED
  BY <1>1, FlowInvariant, PTL

\* The any-button latch is armed during play on level 0xC only.
THEOREM FlowLatch == Spec => []LatchOnlyOnLevelC
<1>1. IInv => LatchOnlyOnLevelC
  BY DEF IInv, LatchInv, LatchOnlyOnLevelC
<1>2. QED
  BY <1>1, FlowInvariant, PTL

\* Only the pause check starts a pause.
LEMMA PauseStartsInCheck == IInv /\ [Next]_vars => (PauseStarts => since # "held")
<1> SUFFICES ASSUME IInv, [Next]_vars, PauseStarts PROVE since # "held"
  OBVIOUS
<1> USE DEF IInv, TypeOK, ScreenType, LevelType, LivesType, CountType, PadType,
         HeldInv, PauseStarts, session, counts, pad, LoopSteps
<1>1. CASE Title
  BY <1>1 DEF Title, Disarm, ReleasePad, ClearCounts, VBlanks
<1>2. CASE Options
  BY <1>2 DEF Options, VBlanks
<1>3. CASE StartGame
  BY <1>3 DEF StartGame, VBlanks
<1>4. CASE StartDemo
  BY <1>4 DEF StartDemo, ClearCounts, VBlanks
<1>5. CASE Card
  BY <1>5 DEF Card, AttractExit, ClearCounts, VBlanks
<1>6. CASE Level1Title
  BY <1>6 DEF Level1Title, AttractExit, VBlanks
<1>7. CASE Story
  BY <1>7 DEF Story, Disarm, WithStory, WithoutStory, VBlanks
<1>8. CASE Intro
  BY <1>8 DEF Intro, AttractExit, VBlanks
<1>9. CASE Load
  BY <1>9 DEF Load, ClearCounts, ReleasePad
<1>10. CASE PadRead
  BY <1>10 DEF PadRead, AttractExit, VBlanks
<1>11. CASE PauseCheck
  BY <1>11 DEF PauseCheck, BlockPause, Toggled
<1>12. CASE Paused
  BY <1>12 DEF Paused, BlockPause, Toggled
<1>13. CASE Play
  BY <1>13 DEF Play
<1>14. CASE FallCheck
  BY <1>14 DEF FallCheck, LoseLife, LastLife, ClearCounts, ReleasePad, VBlanks
<1>15. CASE LevelTick
  BY <1>15 DEF LevelTick
<1>16. CASE TransitionCountdown
  BY <1>16 DEF TransitionCountdown, VBlank
<1>17. CASE Gap
  BY <1>17 DEF Gap
<1>18. CASE LevelChange
  BY <1>18, NextEntry DEF LevelChange, VBlanks
<1>19. CASE Continue
  BY <1>19 DEF Continue, NewGame, VBlanks
<1>20. CASE GameOver
  BY <1>20 DEF GameOver, NewGame, VBlanks
<1>21. CASE UNCHANGED vars
  BY <1>21 DEF vars
<1>22. QED
  BY <1>1, <1>2, <1>3, <1>4, <1>5, <1>6, <1>7, <1>8, <1>9, <1>10, <1>11, <1>12,
         <1>13, <1>14, <1>15, <1>16, <1>17, <1>18, <1>19, <1>20, <1>21 DEF Next
\* No pause starts before Start was let go, within a level.
THEOREM FlowPauseReleased == Spec => PauseReleasedInLevel
  BY FlowInvariant, PauseStartsInCheck, PTL DEF Spec, PauseReleasedInLevel
====
