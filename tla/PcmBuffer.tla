---- MODULE PcmBuffer ----
(***************************************************************************)
(* genesis_re/audio.py: the PCM buffer between the emulation (UI) thread,  *)
(* which pushes and clears, and the device callback, which fills output    *)
(* blocks.  Every method body runs under one lock; the model takes the     *)
(* lock explicitly and splits each body where another thread could look.   *)
(* Sizes are stereo frames (the code counts bytes and refuses an           *)
(* incomplete frame before it takes the lock).  A chunk is the run of      *)
(* frame numbers it holds.                                                 *)
(***************************************************************************)
EXTENDS Integers, Sequences

CONSTANTS PrimeFrames,      \* frames to hold before playback starts
          CapacityFrames,   \* most frames the buffer may hold
          PushSizes,        \* lengths of a pushed chunk
          BlockSizes,       \* lengths of a device block
          MaxFrames         \* bound: frames submitted in one behaviour

ASSUME PcmAssumption ==
    /\ PrimeFrames \in Nat \ {0} /\ CapacityFrames \in Nat
    /\ PrimeFrames <= CapacityFrames
    /\ PushSizes \subseteq Nat \ {0} /\ BlockSizes \subseteq Nat \ {0}
    /\ MaxFrames \in Nat

VARIABLES lock,        \* "free", "ui" or "device"
          chunks,      \* _chunks: sequence of [first, size]
          offset,      \* _offset into the head chunk
          buffered,    \* _buffered
          playing,     \* _playing
          submitted,   \* _stats["submitted_frames"]
          played,      \* _stats["played_frames"]
          starved,     \* _stats["underruns"], saturated at 1
          flushed,     \* frames dropped by clear (history variable)
          ui,          \* UI thread: "ready", inside a method, or "failed"
          pushing,     \* size of the chunk appended and not yet counted, or 0
          want,        \* length of the block being filled, 0 between calls
          used         \* frames copied into that block so far

audio == <<chunks, offset, buffered, playing>>
stats == <<submitted, played, starved, flushed>>
threads == <<lock, ui, pushing, want, used>>
vars == <<audio, stats, threads>>

Chunk == [first : Nat, size : Nat \ {0}]

Init == /\ lock = "free" /\ chunks = <<>> /\ offset = 0 /\ buffered = 0
        /\ playing = FALSE /\ submitted = 0 /\ played = 0 /\ starved = 0
        /\ flushed = 0 /\ ui = "ready" /\ pushing = 0
        /\ want = 0 /\ used = 0

\* push over capacity raises and keeps nothing; the exception ends the session.
PushRefused(n) ==
    /\ ui = "ready" /\ lock = "free"
    /\ submitted + n <= MaxFrames
    /\ buffered + n > CapacityFrames
    /\ ui' = "failed"
    /\ UNCHANGED <<audio, stats, lock, pushing, want, used>>

\* A slip: the capacity check forgets the chunk being pushed.
PushAppendLate(n) ==
    /\ ui = "ready" /\ lock = "free"
    /\ submitted + n <= MaxFrames
    /\ buffered <= CapacityFrames
    /\ lock' = "ui" /\ ui' = "pushing" /\ pushing' = n
    /\ chunks' = Append(chunks, [first |-> submitted + 1, size |-> n])
    /\ UNCHANGED <<offset, buffered, playing, stats, want, used>>

\* push, up to the append ...
PushAppend(n) ==
    /\ ui = "ready" /\ lock = "free"
    /\ submitted + n <= MaxFrames
    /\ buffered + n <= CapacityFrames
    /\ lock' = "ui" /\ ui' = "pushing" /\ pushing' = n
    /\ chunks' = Append(chunks, [first |-> submitted + 1, size |-> n])
    /\ UNCHANGED <<offset, buffered, playing, stats, want, used>>

\* ... and the counters after it.
PushCount ==
    /\ ui = "pushing"
    /\ buffered' = buffered + pushing
    /\ submitted' = submitted + pushing
    /\ pushing' = 0 /\ ui' = "ready" /\ lock' = "free"
    /\ UNCHANGED <<chunks, offset, playing, played, starved, flushed, want, used>>

\* clear: the chunks go first, the counters after them.
ClearChunks ==
    /\ ui = "ready" /\ lock = "free"
    /\ lock' = "ui" /\ ui' = "clearing" /\ chunks' = <<>>
    /\ UNCHANGED <<offset, buffered, playing, stats, pushing, want, used>>

\* A slip: clear keeps the offset into a chunk that is gone.
ClearCountOnly ==
    /\ ui = "clearing"
    /\ flushed' = flushed + buffered
    /\ buffered' = 0 /\ playing' = FALSE
    /\ ui' = "ready" /\ lock' = "free"
    /\ UNCHANGED <<chunks, offset, submitted, played, starved, pushing, want, used>>

ClearCount ==
    /\ ui = "clearing"
    /\ flushed' = flushed + buffered
    /\ offset' = 0 /\ buffered' = 0 /\ playing' = FALSE
    /\ ui' = "ready" /\ lock' = "free"
    /\ UNCHANGED <<chunks, submitted, played, starved, pushing, want, used>>

\* A slip: playback waits for more than the priming level.
FillStartAbove(n) ==
    /\ lock = "free"
    /\ playing \/ buffered > PrimeFrames
    /\ lock' = "device" /\ playing' = TRUE /\ want' = n
    /\ UNCHANGED <<chunks, offset, buffered, stats, ui, pushing, used>>

\* fill: enough is buffered, or playback is already running.  (While it is
\* still priming the callback leaves a silent block and changes nothing else.)
FillStart(n) ==
    /\ lock = "free"
    /\ playing \/ buffered >= PrimeFrames
    /\ lock' = "device" /\ playing' = TRUE /\ want' = n
    /\ UNCHANGED <<chunks, offset, buffered, stats, ui, pushing, used>>

\* One turn of fill's loop: copy from the head chunk, drop it when used up.
Least(a, b) == IF a < b THEN a ELSE b
TakeAll == want - used    \* a slip: the head chunk's end is not a limit
Take == Least(Head(chunks).size - offset, want - used)

FillCopy ==
    /\ lock = "device" /\ chunks # <<>> /\ used < want
    /\ used' = used + Take
    /\ buffered' = buffered - Take
    /\ IF offset + Take = Head(chunks).size
       THEN chunks' = Tail(chunks) /\ offset' = 0
       ELSE chunks' = chunks /\ offset' = offset + Take
    /\ UNCHANGED <<playing, stats, lock, ui, pushing, want>>

\* A slip: the block's length is counted as played.
FillEndWhole ==
    /\ lock = "device" /\ (chunks = <<>> \/ used = want)
    /\ played' = played + want
    /\ IF used < want
       THEN starved' = 1 /\ playing' = FALSE
       ELSE UNCHANGED <<starved, playing>>
    /\ lock' = "free" /\ want' = 0 /\ used' = 0
    /\ UNCHANGED <<chunks, offset, buffered, submitted, flushed, ui, pushing>>

\* The loop is over; a short block is an underrun and priming starts again.
FillEnd ==
    /\ lock = "device" /\ (chunks = <<>> \/ used = want)
    /\ played' = played + used
    /\ IF used < want
       THEN starved' = 1 /\ playing' = FALSE
       ELSE UNCHANGED <<starved, playing>>
    /\ lock' = "free" /\ want' = 0 /\ used' = 0
    /\ UNCHANGED <<chunks, offset, buffered, submitted, flushed, ui, pushing>>

Push == PushCount \/ \E n \in PushSizes : PushRefused(n) \/ PushAppend(n)
Clear == ClearChunks \/ ClearCount
Fill == FillCopy \/ FillEnd \/ \E n \in BlockSizes : FillStart(n)
Next == Push \/ Clear \/ Fill

\* The UI thread finishes a method it has begun, and the device keeps calling
\* back: SDL's mixer thread asks for a block every buffer period, so it gets
\* the lock again and again however often the UI thread takes it.
Spec == /\ Init /\ [][Next]_vars
        /\ WF_vars(PushCount) /\ WF_vars(ClearCount)
        /\ WF_vars(FillCopy \/ FillEnd)
        /\ SF_vars(\E n \in BlockSizes : FillStart(n))
----
TypeOK ==
    /\ lock \in {"free", "ui", "device"}
    /\ chunks \in Seq(Chunk)
    /\ offset \in Nat /\ buffered \in Nat /\ playing \in BOOLEAN
    /\ submitted \in Nat /\ played \in Nat /\ starved \in {0, 1}
    /\ flushed \in Nat /\ ui \in {"ready", "pushing", "clearing", "failed"}
    /\ pushing \in Nat /\ want \in Nat /\ used \in Nat

\* Every frame submitted was played, was dropped by a clear, or is still
\* buffered: the counters AudioOutput reports never drift apart, whatever the
\* interleaving of push, clear and the callback (used: copied in the fill under
\* way).
NoFrameLost == submitted = played + used + flushed + buffered

\* A buffer left by its last method holds exactly the frames it counts: the
\* deque is one run that ends at the last frame submitted.
CountsChunks ==
    lock = "free" =>
        IF chunks = <<>> THEN buffered = 0 /\ offset = 0
        ELSE /\ offset < Head(chunks).size
             /\ buffered = submitted + 1 - (Head(chunks).first + offset)

\* A primed buffer starts to play or is flushed: neither thread can keep the
\* other out for ever.
PrimedPlays ==
    (~playing /\ buffered >= PrimeFrames) ~> (playing \/ buffered = 0)

\* The buffer implements the stream: in order, no frame twice, none skipped
\* except by a flush, never more than the capacity outstanding.
Stream == INSTANCE PcmStream WITH
    Capacity <- CapacityFrames,
    accepted <- submitted + pushing,
    consumed <- IF chunks = <<>> THEN submitted + pushing
                ELSE chunks[1].first + offset - 1

ImplementsStream == Stream!Spec
====
