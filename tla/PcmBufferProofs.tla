---- MODULE PcmBufferProofs ----
(***************************************************************************)
(* For every priming level, capacity, chunk length and block length, and   *)
(* every interleaving of the UI thread and the device callback:            *)
(* PcmBuffer's counters account for every frame, and the buffer implements *)
(* PcmStream.                                                              *)
(***************************************************************************)
EXTENDS PcmBuffer, TLAPS

\* Who holds the lock is who is inside a method body.
LockDiscipline ==
    /\ lock = "ui" <=> ui \in {"pushing", "clearing"}
    /\ pushing > 0 <=> ui = "pushing"
    /\ lock # "device" => want = 0 /\ used = 0
    /\ lock = "device" => used <= want
    /\ ui = "clearing" => chunks = <<>>
    /\ ui = "pushing" => chunks # <<>>

\* One past the last frame appended.
Edge == submitted + pushing + 1

\* The deque is one run of frames ending at the last frame appended.
Contiguous ==
    /\ \A i \in 1..Len(chunks) : chunks[i].first + chunks[i].size <= Edge
    /\ \A i \in 1..(Len(chunks) - 1) :
          chunks[i+1].first = chunks[i].first + chunks[i].size
    /\ chunks # <<>> =>
          chunks[Len(chunks)].first + chunks[Len(chunks)].size = Edge

\* The counter agrees with the deque, except while clear is half done.
Counted ==
    /\ chunks = <<>> /\ ui # "clearing" => buffered = 0 /\ offset = 0
    /\ chunks # <<>> => /\ offset < chunks[1].size
                        /\ buffered = Edge - pushing - (chunks[1].first + offset)

IInv == TypeOK /\ LockDiscipline /\ Contiguous /\ Counted /\ NoFrameLost

---------------------------------------------------------------------------
(* Sequences and chunks.                                                   *)

LEMMA HeadFacts ==
  ASSUME NEW C, NEW s \in Seq(C), s # <<>>
  PROVE  Head(s) = s[1] /\ 1 \in 1..Len(s) /\ s[1] \in C /\ Len(s) \in Nat \ {0}
  OBVIOUS

LEMMA EmptyFacts ==
  ASSUME NEW C, NEW s \in Seq(C) PROVE Len(s) = 0 <=> s = <<>>
  OBVIOUS

LEMMA TailFacts ==
  ASSUME NEW C, NEW s \in Seq(C), s # <<>>
  PROVE  /\ Tail(s) \in Seq(C) /\ Len(Tail(s)) = Len(s) - 1
         /\ \A i \in 1..Len(Tail(s)) : Tail(s)[i] = s[i+1] /\ i + 1 \in 1..Len(s)
         /\ Len(s) \in Nat \ {0}
         /\ Len(s) = 1 <=> Tail(s) = <<>>
<1>1. Tail(s) \in Seq(C) /\ Len(Tail(s)) = Len(s) - 1 /\ Len(s) \in Nat \ {0}
  OBVIOUS
<1>2. Len(Tail(s)) = 0 <=> Tail(s) = <<>>
  BY <1>1, EmptyFacts
<1>3. \A i \in 1..Len(Tail(s)) : Tail(s)[i] = s[i+1] /\ i + 1 \in 1..Len(s)
  BY <1>1
<1>4. Len(s) = 1 <=> Len(Tail(s)) = 0
  BY <1>1
<1> QED BY <1>1, <1>2, <1>3, <1>4

LEMMA AppendFacts ==
  ASSUME NEW C, NEW s \in Seq(C), NEW c \in C
  PROVE  /\ Append(s, c) \in Seq(C) /\ Len(Append(s, c)) = Len(s) + 1
         /\ Append(s, c)[Len(s) + 1] = c /\ Append(s, c) # <<>>
         /\ \A i \in 1..Len(s) : Append(s, c)[i] = s[i]
         /\ Len(s) \in Nat /\ (s = <<>> <=> Len(s) = 0)
  OBVIOUS

LEMMA ChunkFacts ==
  ASSUME NEW c \in Chunk PROVE c.first \in Nat /\ c.size \in Nat /\ c.size > 0
  BY DEF Chunk

---------------------------------------------------------------------------
LEMMA InitIInv == Init => IInv
<1> SUFFICES ASSUME Init PROVE IInv
  OBVIOUS
<1>1. chunks = <<>> /\ Len(chunks) = 0 /\ chunks \in Seq(Chunk)
  BY DEF Init
<1>2. TypeOK
  BY <1>1 DEF Init, TypeOK
<1>3. LockDiscipline
  BY DEF Init, LockDiscipline
<1>4. Contiguous
  BY <1>1 DEF Contiguous
<1>5. Counted
  BY DEF Init, Counted
<1>6. NoFrameLost
  BY DEF Init, NoFrameLost
<1> QED BY <1>2, <1>3, <1>4, <1>5, <1>6 DEF IInv

\* push's first half: the new chunk continues the run.
LEMMA AppendStep ==
  ASSUME IInv, NEW n \in PushSizes, PushAppend(n) PROVE IInv'
<1> DEFINE c == [first |-> submitted + 1, size |-> n]
<1>0. n \in Nat /\ n > 0
  BY PcmAssumption DEF PcmAssumption
<1>1. /\ submitted \in Nat /\ buffered \in Nat /\ offset \in Nat
      /\ chunks \in Seq(Chunk) /\ pushing \in Nat
  BY DEF IInv, TypeOK
<1>2. pushing = 0 /\ want = 0 /\ used = 0
  BY <1>1 DEF IInv, LockDiscipline, PushAppend
<1>3. c \in Chunk /\ c.first = submitted + 1 /\ c.size = n
  BY <1>0, <1>1 DEF Chunk
<1> HIDE DEF c
<1>4. /\ chunks' = Append(chunks, c) /\ pushing' = n /\ submitted' = submitted
      /\ buffered' = buffered /\ offset' = offset /\ played' = played
      /\ flushed' = flushed /\ used' = used /\ want' = want
      /\ lock' = "ui" /\ ui' = "pushing" /\ starved' = starved
      /\ playing' = playing
  BY DEF PushAppend, stats, c
<1>5. /\ chunks' \in Seq(Chunk) /\ Len(chunks') = Len(chunks) + 1
      /\ chunks'[Len(chunks) + 1] = c /\ chunks' # <<>>
      /\ \A i \in 1..Len(chunks) : chunks'[i] = chunks[i]
      /\ Len(chunks) \in Nat /\ (chunks = <<>> <=> Len(chunks) = 0)
  BY <1>1, <1>3, <1>4, AppendFacts
<1>6. TypeOK'
  BY <1>0, <1>4, <1>5 DEF IInv, TypeOK
<1>7. LockDiscipline'
  BY <1>0, <1>2, <1>4, <1>5 DEF LockDiscipline
<1>8. Edge' = submitted + n + 1 /\ Edge = submitted + 1
  BY <1>1, <1>2, <1>4 DEF Edge
<1>9. Contiguous'
  <2>1. ASSUME NEW i \in 1..Len(chunks')
        PROVE  chunks'[i].first + chunks'[i].size <= Edge'
    <3>1. CASE i = Len(chunks) + 1
      BY <1>0, <1>1, <1>3, <1>5, <1>8, <3>1
    <3>2. CASE i \in 1..Len(chunks)
      <4>1. chunks[i].first + chunks[i].size <= Edge
        BY <3>2 DEF IInv, Contiguous
      <4>2. chunks[i] \in Chunk
        BY <1>1, <3>2
      <4> QED BY <1>0, <1>1, <1>5, <1>8, <3>2, <4>1, <4>2, ChunkFacts
    <3> QED BY <1>5, <3>1, <3>2
  <2>2. ASSUME NEW i \in 1..(Len(chunks') - 1)
        PROVE  chunks'[i+1].first = chunks'[i].first + chunks'[i].size
    <3>1. CASE i = Len(chunks)
      <4>1. chunks[i].first + chunks[i].size = Edge
        BY <1>5, <3>1 DEF IInv, Contiguous
      <4> QED BY <1>3, <1>5, <1>8, <3>1, <4>1
    <3>2. CASE i \in 1..(Len(chunks) - 1)
      <4>1. chunks[i+1].first = chunks[i].first + chunks[i].size
        BY <3>2 DEF IInv, Contiguous
      <4>2. i \in 1..Len(chunks) /\ i + 1 \in 1..Len(chunks)
        BY <1>5, <3>2
      <4> QED BY <1>5, <4>1, <4>2
    <3> QED BY <1>5, <3>1, <3>2
  <2>3. chunks'[Len(chunks')].first + chunks'[Len(chunks')].size = Edge'
    BY <1>0, <1>1, <1>3, <1>5, <1>8
  <2> QED BY <2>1, <2>2, <2>3 DEF Contiguous
<1>10. Counted'
  <2>1. CASE chunks = <<>>
    <3>1. buffered = 0 /\ offset = 0
      BY <2>1 DEF IInv, Counted, PushAppend
    <3>2. chunks'[1] = c
      BY <1>5, <2>1
    <3> QED BY <1>0, <1>1, <1>3, <1>4, <1>5, <1>8, <3>1, <3>2 DEF Counted
  <2>2. CASE chunks # <<>>
    <3>1. chunks'[1] = chunks[1]
      BY <1>5, <2>2
    <3>2. /\ offset < chunks[1].size
          /\ buffered = Edge - pushing - (chunks[1].first + offset)
      BY <2>2 DEF IInv, Counted
    <3>3. chunks[1] \in Chunk
      BY <1>1, <2>2, HeadFacts
    <3> QED BY <1>0, <1>1, <1>2, <1>4, <1>5, <1>8, <3>1, <3>2, <3>3, ChunkFacts
            DEF Counted
  <2> QED BY <2>1, <2>2
<1>11. NoFrameLost'
  BY <1>4 DEF IInv, NoFrameLost
<1> QED BY <1>6, <1>7, <1>9, <1>10, <1>11 DEF IInv

\* What fill takes from the head chunk is there to take.
LEMMA TakeBound ==
  ASSUME IInv, FillCopy
  PROVE  /\ Take \in Nat /\ Take <= buffered /\ used + Take <= want
         /\ chunks[1] \in Chunk /\ Head(chunks) = chunks[1]
         /\ offset + Take <= chunks[1].size
         /\ buffered = submitted + 1 - (chunks[1].first + offset)
         /\ pushing = 0 /\ ui \notin {"pushing", "clearing"}
<1>1. /\ chunks # <<>> /\ used < want /\ lock = "device"
      /\ used \in Nat /\ want \in Nat /\ offset \in Nat /\ pushing \in Nat
      /\ buffered \in Nat /\ submitted \in Nat /\ chunks \in Seq(Chunk)
  BY DEF IInv, TypeOK, FillCopy
<1>2. ui \notin {"pushing", "clearing"} /\ pushing = 0
  BY <1>1 DEF IInv, LockDiscipline
<1>3. Head(chunks) = chunks[1] /\ 1 \in 1..Len(chunks) /\ chunks[1] \in Chunk
  BY <1>1, HeadFacts
<1>4. chunks[1].first \in Nat /\ chunks[1].size \in Nat
  BY <1>3, ChunkFacts
<1>5. /\ offset < chunks[1].size
      /\ buffered = Edge - pushing - (chunks[1].first + offset)
      /\ chunks[1].first + chunks[1].size <= Edge
  BY <1>1, <1>3 DEF IInv, Counted, Contiguous
<1>6. Edge = submitted + 1
  BY <1>1, <1>2 DEF Edge
<1> DEFINE f == chunks[1].first
           z == chunks[1].size
<1>7. /\ f \in Nat /\ z \in Nat /\ offset < z /\ f + z <= submitted + 1
      /\ buffered = submitted + 1 - pushing - (f + offset)
  BY <1>1, <1>4, <1>5, <1>6
<1>8. Take = IF z - offset < want - used THEN z - offset ELSE want - used
  BY <1>3 DEF Take, Least
<1> HIDE DEF f, z
<1>9. used < want /\ used \in Nat /\ want \in Nat /\ offset \in Nat
      /\ submitted \in Nat /\ pushing = 0
  BY <1>1, <1>2
<1>10. /\ Take \in Nat /\ Take <= z - offset /\ Take <= want - used
  BY <1>7, <1>8, <1>9
<1>11. /\ Take <= buffered /\ used + Take <= want /\ offset + Take <= z
       /\ buffered = submitted + 1 - (f + offset)
  BY <1>7, <1>9, <1>10
<1> QED BY <1>2, <1>3, <1>10, <1>11 DEF f, z

\* One turn of fill's loop.
LEMMA CopyStep ==
  ASSUME IInv, FillCopy PROVE IInv'
<1> DEFINE f == chunks[1].first
           z == chunks[1].size
           t == Take
<1>1. /\ t \in Nat /\ t <= buffered /\ used + t <= want
      /\ offset + t <= z /\ buffered = submitted + 1 - (f + offset)
  BY TakeBound
<1>2. /\ chunks[1] \in Chunk /\ Head(chunks) = chunks[1]
      /\ pushing = 0 /\ ui \notin {"pushing", "clearing"}
  BY TakeBound
<1>3. /\ used' = used + t /\ buffered' = buffered - t
      /\ submitted' = submitted /\ played' = played /\ flushed' = flushed
      /\ want' = want /\ pushing' = pushing
  BY DEF FillCopy, stats
<1>4. /\ lock = "device" /\ lock' = lock /\ ui' = ui
      /\ starved' = starved /\ playing' = playing /\ chunks # <<>>
  BY DEF FillCopy, stats
<1>5. IF offset + t = z THEN chunks' = Tail(chunks) /\ offset' = 0
                        ELSE chunks' = chunks /\ offset' = offset + t
  BY <1>2 DEF FillCopy
<1>6. /\ submitted \in Nat /\ offset \in Nat /\ buffered \in Nat
      /\ played \in Nat /\ flushed \in Nat /\ used \in Nat /\ want \in Nat
  BY DEF IInv, TypeOK
<1>7. chunks \in Seq(Chunk)
  BY DEF IInv, TypeOK
<1>8. f \in Nat /\ z \in Nat
  BY <1>2, ChunkFacts
<1>9. Edge = submitted + 1 /\ Edge' = submitted + 1
  BY <1>2, <1>3, <1>6 DEF Edge
<1>10. LockDiscipline'
  BY <1>1, <1>2, <1>3, <1>4, <1>6 DEF LockDiscipline
<1> HIDE DEF f, z, t
<1>11. NoFrameLost'
  <2>1. submitted = played + used + flushed + buffered
    BY DEF IInv, NoFrameLost
  <2>2. submitted = played + (used + t) + flushed + (buffered - t)
    BY <1>1, <1>6, <2>1
  <2> QED BY <1>3, <2>2 DEF NoFrameLost
<1>12. buffered' \in Nat /\ used' \in Nat /\ buffered' = submitted + 1 - (f + offset + t)
  BY <1>1, <1>3, <1>6, <1>8
<1>13. CASE offset + t = z
  <2>1. chunks' = Tail(chunks) /\ offset' = 0
    BY <1>5, <1>13
  <2>2. /\ chunks' \in Seq(Chunk) /\ Len(chunks') = Len(chunks) - 1
        /\ \A i \in 1..Len(chunks') :
              chunks'[i] = chunks[i+1] /\ i + 1 \in 1..Len(chunks)
        /\ Len(chunks) \in Nat \ {0}
        /\ Len(chunks) = 1 <=> chunks' = <<>>
    BY <1>4, <1>7, <2>1, TailFacts
  <2>3. TypeOK'
    BY <1>2, <1>3, <1>4, <1>6, <1>12, <2>1, <2>2 DEF IInv, TypeOK
  <2>4. Contiguous'
    <3>1. ASSUME NEW i \in 1..Len(chunks')
          PROVE  chunks'[i].first + chunks'[i].size <= Edge'
      <4>1. i + 1 \in 1..Len(chunks) /\ chunks'[i] = chunks[i+1]
        BY <2>2
      <4>2. chunks[i+1].first + chunks[i+1].size <= Edge
        BY <4>1 DEF IInv, Contiguous
      <4> QED BY <1>9, <4>1, <4>2
    <3>2. ASSUME NEW i \in 1..(Len(chunks') - 1)
          PROVE  chunks'[i+1].first = chunks'[i].first + chunks'[i].size
      <4>1. /\ i + 1 \in 1..(Len(chunks) - 1) /\ i \in 1..Len(chunks')
            /\ i + 1 \in 1..Len(chunks')
        BY <2>2
      <4>2. chunks'[i] = chunks[i+1] /\ chunks'[i+1] = chunks[(i+1)+1]
        BY <2>2, <4>1
      <4>3. chunks[(i+1)+1].first = chunks[i+1].first + chunks[i+1].size
        BY <4>1 DEF IInv, Contiguous
      <4> QED BY <4>2, <4>3
    <3>3. ASSUME chunks' # <<>>
          PROVE  chunks'[Len(chunks')].first + chunks'[Len(chunks')].size = Edge'
      <4>1. Len(chunks') \in 1..Len(chunks') /\ Len(chunks') + 1 = Len(chunks)
        BY <2>2, <3>3, HeadFacts
      <4>2. chunks'[Len(chunks')] = chunks[Len(chunks)]
        BY <2>2, <4>1
      <4>3. chunks[Len(chunks)].first + chunks[Len(chunks)].size = Edge
        BY <1>4 DEF IInv, Contiguous
      <4> QED BY <1>9, <4>2, <4>3
    <3> QED BY <3>1, <3>2, <3>3 DEF Contiguous
  <2>5. Counted'
    <3>1. CASE chunks' = <<>>
      <4>1. Len(chunks) = 1
        BY <2>2, <3>1
      <4>2. f + z = Edge
        BY <1>4, <4>1 DEF IInv, Contiguous, f, z
      <4>3. buffered' = 0
        BY <1>1, <1>6, <1>8, <1>9, <1>12, <1>13, <4>2
      <4> QED BY <2>1, <3>1, <4>3 DEF Counted
    <3>2. CASE chunks' # <<>>
      <4>1. 1 \in 1..Len(chunks') /\ chunks'[1] \in Chunk
        BY <2>2, <3>2, HeadFacts
      <4>2. chunks'[1] = chunks[1+1] /\ 1 \in 1..(Len(chunks) - 1)
        BY <2>2, <4>1
      <4>3. chunks[1+1].first = f + z
        BY <4>2 DEF IInv, Contiguous, f, z
      <4>4. chunks'[1].first = f + z
        BY <4>2, <4>3
      <4>5. 0 < chunks'[1].size
        BY <4>1, ChunkFacts
      <4>6. buffered' = Edge' - pushing' - (f + z + 0)
        BY <1>1, <1>2, <1>3, <1>6, <1>8, <1>9, <1>12, <1>13
      <4> QED BY <2>1, <3>2, <4>4, <4>5, <4>6 DEF Counted
    <3> QED BY <3>1, <3>2
  <2> QED BY <1>10, <1>11, <2>3, <2>4, <2>5 DEF IInv
<1>14. CASE offset + t # z
  <2>1. chunks' = chunks /\ offset' = offset + t
    BY <1>5, <1>14
  <2>2. TypeOK'
    BY <1>1, <1>2, <1>3, <1>4, <1>6, <1>7, <1>12, <2>1 DEF IInv, TypeOK
  <2>3. Contiguous'
    BY <1>9, <2>1 DEF IInv, Contiguous
  <2>4. Counted'
    <3>1. offset + t < z
      BY <1>1, <1>6, <1>8, <1>14
    <3>2. buffered' = Edge' - pushing' - (f + (offset + t))
      BY <1>1, <1>2, <1>3, <1>6, <1>8, <1>9, <1>12
    <3>3. offset' < chunks'[1].size /\ buffered' = Edge' - pushing' - (chunks'[1].first + offset')
      BY <2>1, <3>1, <3>2 DEF f, z
    <3> QED BY <1>4, <2>1, <3>3 DEF Counted
  <2> QED BY <1>10, <1>11, <2>2, <2>3, <2>4 DEF IInv
<1> QED BY <1>13, <1>14

\* Steps that leave the deque alone.
LEMMA OtherSteps ==
  ASSUME IInv,
         \/ PushCount \/ ClearChunks \/ ClearCount \/ FillEnd
         \/ (\E n \in PushSizes : PushRefused(n))
         \/ (\E n \in BlockSizes : FillStart(n))
         \/ UNCHANGED vars
  PROVE  IInv'
<1>0. /\ submitted \in Nat /\ offset \in Nat /\ buffered \in Nat
      /\ played \in Nat /\ flushed \in Nat /\ used \in Nat /\ want \in Nat
      /\ pushing \in Nat
  BY DEF IInv, TypeOK
<1> USE DEF audio, stats, threads
<1>1. CASE PushCount
  <2>1. /\ pushing > 0 /\ ui = "pushing" /\ lock = "ui" /\ want = 0 /\ used = 0
    BY <1>1 DEF IInv, LockDiscipline, PushCount
  <2>2. /\ buffered' = buffered + pushing /\ submitted' = submitted + pushing
        /\ pushing' = 0 /\ ui' = "ready" /\ lock' = "free" /\ chunks' = chunks
        /\ offset' = offset /\ playing' = playing /\ played' = played
        /\ starved' = starved /\ flushed' = flushed /\ want' = want /\ used' = used
    BY <1>1 DEF PushCount
  <2>3. TypeOK'
    BY <1>0, <2>2 DEF IInv, TypeOK
  <2>4. LockDiscipline'
    BY <2>1, <2>2 DEF LockDiscipline
  <2>5. Edge' = Edge
    BY <1>0, <2>2 DEF Edge
  <2>6. Contiguous'
    BY <2>2, <2>5 DEF IInv, Contiguous
  <2>7. chunks # <<>> /\ chunks \in Seq(Chunk)
    BY <2>1 DEF IInv, LockDiscipline, TypeOK
  <2>8. Counted'
    <3> DEFINE f == chunks[1].first
    <3>1. f \in Nat
      BY <2>7, HeadFacts, ChunkFacts
    <3>2. offset < chunks[1].size /\ buffered = Edge - pushing - (f + offset)
      BY <2>7 DEF IInv, Counted
    <3>3. Edge \in Nat
      BY <1>0 DEF Edge
    <3> HIDE DEF f
    <3>4. buffered + pushing = Edge - 0 - (f + offset)
      BY <1>0, <3>1, <3>2, <3>3
    <3>5. buffered' = Edge' - pushing' - (f + offset')
      BY <2>2, <2>5, <3>4
    <3> QED BY <2>2, <2>7, <3>2, <3>5 DEF Counted, f
  <2>9. NoFrameLost'
    BY <1>0, <2>1, <2>2 DEF IInv, NoFrameLost
  <2> QED BY <2>3, <2>4, <2>6, <2>8, <2>9 DEF IInv
<1>2. CASE ClearChunks
  <2>1. /\ lock = "free" /\ ui = "ready" /\ lock' = "ui" /\ ui' = "clearing"
        /\ chunks' = <<>> /\ Len(chunks') = 0 /\ chunks' \in Seq(Chunk)
        /\ offset' = offset /\ buffered' = buffered /\ playing' = playing
        /\ submitted' = submitted /\ played' = played /\ starved' = starved
        /\ flushed' = flushed /\ pushing' = pushing /\ want' = want /\ used' = used
    BY <1>2 DEF ClearChunks
  <2>2. TypeOK'
    BY <2>1 DEF IInv, TypeOK
  <2>3. LockDiscipline'
    BY <2>1 DEF IInv, LockDiscipline
  <2>4. Contiguous'
    BY <2>1 DEF Contiguous
  <2>5. Counted' /\ NoFrameLost'
    BY <2>1 DEF IInv, Counted, NoFrameLost
  <2> QED BY <2>2, <2>3, <2>4, <2>5 DEF IInv
<1>3. CASE ClearCount
  <2>1. /\ ui = "clearing" /\ lock = "ui" /\ pushing = 0 /\ chunks = <<>>
        /\ want = 0 /\ used = 0
    BY <1>0, <1>3 DEF IInv, LockDiscipline, ClearCount
  <2>2. /\ flushed' = flushed + buffered /\ offset' = 0 /\ buffered' = 0
        /\ playing' = FALSE /\ ui' = "ready" /\ lock' = "free" /\ chunks' = chunks
        /\ submitted' = submitted /\ played' = played /\ starved' = starved
        /\ pushing' = pushing /\ want' = want /\ used' = used
    BY <1>3 DEF ClearCount
  <2>3. TypeOK'
    <3>1. flushed' \in Nat
      BY <1>0, <2>2
    <3> QED BY <1>0, <2>2, <3>1 DEF IInv, TypeOK
  <2>4. LockDiscipline'
    BY <2>1, <2>2 DEF LockDiscipline
  <2>5. Contiguous' /\ Counted'
    BY <2>1, <2>2 DEF IInv, Contiguous, Counted, Edge
  <2>6. NoFrameLost'
    BY <1>0, <2>2 DEF IInv, NoFrameLost
  <2> QED BY <2>3, <2>4, <2>5, <2>6 DEF IInv
<1>4. CASE FillEnd
  <2>1. lock = "device" /\ pushing = 0 /\ ui \notin {"pushing", "clearing"}
    BY <1>0, <1>4 DEF IInv, LockDiscipline, FillEnd
  <2>2. /\ played' = played + used /\ lock' = "free" /\ want' = 0 /\ used' = 0
        /\ chunks' = chunks /\ offset' = offset /\ buffered' = buffered
        /\ submitted' = submitted /\ flushed' = flushed /\ ui' = ui
        /\ pushing' = pushing
    BY <1>4 DEF FillEnd
  <2>3. starved' \in {0, 1} /\ playing' \in BOOLEAN
    BY <1>4 DEF IInv, TypeOK, FillEnd
  <2>4. TypeOK'
    BY <1>0, <2>2, <2>3 DEF IInv, TypeOK
  <2>5. LockDiscipline'
    BY <2>1, <2>2 DEF LockDiscipline
  <2>6. Contiguous' /\ Counted'
    BY <2>2 DEF IInv, Contiguous, Counted, Edge
  <2>7. NoFrameLost'
    BY <1>0, <2>2 DEF IInv, NoFrameLost
  <2> QED BY <2>4, <2>5, <2>6, <2>7 DEF IInv
<1>5. ASSUME NEW n \in PushSizes, PushRefused(n) PROVE IInv'
  BY <1>5 DEF PushRefused, IInv, TypeOK, LockDiscipline, Contiguous, Counted,
     NoFrameLost, Edge
<1>6. ASSUME NEW n \in BlockSizes, FillStart(n) PROVE IInv'
  <2>1. n \in Nat
    BY PcmAssumption DEF PcmAssumption
  <2> QED BY <1>6, <2>1 DEF FillStart, IInv, TypeOK, LockDiscipline, Contiguous,
             Counted, NoFrameLost, Edge
<1>7. CASE UNCHANGED vars
  BY <1>7 DEF vars, IInv, TypeOK, LockDiscipline, Contiguous, Counted,
     NoFrameLost, Edge
<1> QED BY <1>1, <1>2, <1>3, <1>4, <1>5, <1>6, <1>7

\* Whatever the two threads do, the invariant holds.
THEOREM BufferInvariant == Spec => []IInv
<1>1. IInv /\ [Next]_vars => IInv'
  <2> SUFFICES ASSUME IInv, [Next]_vars PROVE IInv'
    OBVIOUS
  <2>1. CASE \E n \in PushSizes : PushAppend(n)
    BY <2>1, AppendStep
  <2>2. CASE FillCopy
    BY <2>2, CopyStep
  <2> QED BY <2>1, <2>2, OtherSteps DEF Next, Push, Clear, Fill
<1> QED BY <1>1, InitIInv, PTL DEF Spec

\* The counters never go below zero and the deque holds only whole chunks.
THEOREM BufferTypeOK == Spec => []TypeOK
<1>1. IInv => TypeOK
  BY DEF IInv
<1> QED BY <1>1, BufferInvariant, PTL

\* No frame is lost or counted twice (AudioOutput's report adds up).
THEOREM FramesAccounted == Spec => []NoFrameLost
<1>1. IInv => NoFrameLost
  BY DEF IInv
<1> QED BY <1>1, BufferInvariant, PTL

\* Between two methods the deque holds exactly the frames it counts.
THEOREM CounterAgrees == Spec => []CountsChunks
<1>1. IInv => CountsChunks
  <2> SUFFICES ASSUME IInv, lock = "free"
               PROVE  IF chunks = <<>> THEN buffered = 0 /\ offset = 0
                      ELSE /\ offset < Head(chunks).size
                           /\ buffered = submitted + 1 - (Head(chunks).first + offset)
    BY DEF CountsChunks
  <2>1. ui # "clearing" /\ pushing = 0 /\ Edge = submitted + 1 /\ submitted \in Nat
    BY DEF IInv, LockDiscipline, TypeOK, Edge
  <2>2. CASE chunks = <<>>
    BY <2>1, <2>2 DEF IInv, Counted
  <2>3. CASE chunks # <<>>
    <3>1. chunks \in Seq(Chunk)
      BY DEF IInv, TypeOK
    <3>2. Head(chunks) = chunks[1]
      BY <2>3, <3>1, HeadFacts
    <3>3. /\ offset < chunks[1].size
          /\ buffered = Edge - pushing - (chunks[1].first + offset)
      BY <2>3 DEF IInv, Counted
    <3>4. chunks[1].first \in Nat /\ offset \in Nat
      BY <2>3, <3>1, HeadFacts, ChunkFacts DEF IInv, TypeOK
    <3> DEFINE f == chunks[1].first
    <3> HIDE DEF f
    <3>5. buffered = submitted + 1 - (f + offset)
      BY <2>1, <3>3, <3>4 DEF f
    <3>6. /\ offset < Head(chunks).size
          /\ buffered = submitted + 1 - (Head(chunks).first + offset)
      BY <3>2, <3>3, <3>5 DEF f
    <3> QED BY <2>3, <3>6
  <2> QED BY <2>2, <2>3
<1> QED BY <1>1, BufferInvariant, PTL

---------------------------------------------------------------------------
(* The buffer implements the stream.                                       *)

\* What push's capacity check buys.
Bounded == buffered + pushing <= CapacityFrames

\* The listener has heard, or a flush has dropped, all but what is counted; a
\* clear under way has dropped everything and not counted it yet.
Heard == IF ui = "clearing" THEN submitted ELSE submitted - buffered
Consumed == IF chunks = <<>> THEN submitted + pushing ELSE chunks[1].first + offset - 1

Agrees == Consumed = Heard

LEMMA ConsumedIsHeard == IInv => Agrees
<1> SUFFICES ASSUME IInv PROVE Consumed = Heard
  BY DEF Agrees
<1>1. /\ submitted \in Nat /\ offset \in Nat /\ buffered \in Nat /\ pushing \in Nat
      /\ chunks \in Seq(Chunk)
  BY DEF IInv, TypeOK
<1>2. CASE chunks = <<>>
  <2>1. pushing = 0
    BY <1>1, <1>2 DEF IInv, LockDiscipline
  <2>2. ui # "clearing" => buffered = 0
    BY <1>2 DEF IInv, Counted
  <2> QED BY <1>1, <1>2, <2>1, <2>2 DEF Consumed, Heard
<1>3. CASE chunks # <<>>
  <2> DEFINE f == chunks[1].first
  <2>1. f \in Nat
    BY <1>1, <1>3, HeadFacts, ChunkFacts
  <2>2. ui # "clearing"
    BY <1>3 DEF IInv, LockDiscipline
  <2>3. buffered = Edge - pushing - (f + offset) /\ Edge = submitted + pushing + 1
    BY <1>3 DEF IInv, Counted, Edge
  <2>4. Consumed = f + offset - 1
    BY <1>3 DEF Consumed
  <2> HIDE DEF f
  <2>5. f + offset - 1 = submitted - buffered
    BY <1>1, <2>1, <2>3
  <2> QED BY <2>2, <2>4, <2>5 DEF Heard
<1> QED BY <1>2, <1>3

LEMMA BoundedStep == IInv /\ Bounded /\ [Next]_vars => Bounded'
<1> SUFFICES ASSUME IInv, Bounded, [Next]_vars PROVE Bounded'
  OBVIOUS
<1>0. buffered \in Nat /\ pushing \in Nat /\ CapacityFrames \in Nat
  BY PcmAssumption DEF IInv, TypeOK
<1>1. CASE \E n \in PushSizes : PushAppend(n)
  <2>1. PICK n \in PushSizes : PushAppend(n)
    BY <1>1
  <2> QED BY <1>0, <2>1 DEF PushAppend, Bounded
<1>2. CASE FillCopy
  <2>1. Take \in Nat /\ buffered' = buffered - Take /\ pushing' = pushing
    BY <1>2, TakeBound DEF FillCopy
  <2> QED BY <1>0, <2>1 DEF Bounded
<1>3. CASE PushCount
  BY <1>0, <1>3 DEF PushCount, Bounded
<1>4. CASE ClearCount
  BY <1>0, <1>4 DEF ClearCount, Bounded
<1>5. CASE \/ ClearChunks \/ FillEnd \/ UNCHANGED vars
           \/ (\E n \in PushSizes : PushRefused(n))
           \/ (\E n \in BlockSizes : FillStart(n))
  BY <1>5 DEF ClearChunks, FillEnd, PushRefused, FillStart, Bounded, vars, audio,
     threads
<1> QED BY <1>1, <1>2, <1>3, <1>4, <1>5 DEF Next, Push, Clear, Fill

LEMMA StillHeard == IInv' => Agrees'
  BY ConsumedIsHeard, PTL

\* Every step of the buffer is a step of the stream, or none.
LEMMA StepIsStream ==
  ASSUME IInv, Bounded, IInv', [Next]_vars
  PROVE  [Stream!Next]_(Stream!stream)
<1> DEFINE accepted == submitted + pushing
<1>0. /\ submitted \in Nat /\ buffered \in Nat /\ pushing \in Nat
      /\ CapacityFrames \in Nat
  BY PcmAssumption DEF IInv, TypeOK
<1>1. Consumed = Heard /\ Consumed' = Heard'
  BY ConsumedIsHeard, StillHeard DEF Agrees
<1>2. ASSUME NEW n \in PushSizes, PushAppend(n) PROVE Stream!Next
  <2>1. n \in Nat /\ n > 0
    BY PcmAssumption
  <2>2. /\ ui # "clearing" /\ ui' # "clearing" /\ pushing = 0 /\ pushing' = n
        /\ submitted' = submitted /\ buffered' = buffered
        /\ buffered + n <= CapacityFrames
    BY <1>0, <1>2 DEF PushAppend, stats, IInv, LockDiscipline
  <2>3. n \in 1..CapacityFrames /\ accepted' = accepted + n
    BY <1>0, <2>1, <2>2
  <2>4. Heard' = Heard /\ accepted + n - Heard <= CapacityFrames
    BY <1>0, <2>1, <2>2 DEF Heard
  <2>5. Stream!Accept(n)
    BY <1>1, <2>3, <2>4 DEF Stream!Accept, Consumed
  <2> QED BY <2>3, <2>5 DEF Stream!Next
<1>3. CASE ClearChunks
  <2>1. /\ ui' = "clearing" /\ submitted' = submitted /\ pushing' = pushing
        /\ pushing = 0
    BY <1>0, <1>3 DEF ClearChunks, stats, IInv, LockDiscipline
  <2>2. Heard' = accepted /\ accepted' = accepted
    BY <1>0, <2>1 DEF Heard
  <2>3. Stream!Flush
    BY <1>1, <2>2 DEF Stream!Flush, Consumed
  <2> QED BY <2>3 DEF Stream!Next
<1>4. CASE FillCopy
  <2> DEFINE t == Take
  <2>1. /\ t \in Nat /\ t <= buffered /\ ui # "clearing" /\ pushing = 0
    BY <1>4, TakeBound
  <2>2. /\ ui' = ui /\ submitted' = submitted /\ pushing' = pushing
        /\ buffered' = buffered - t
    BY <1>4 DEF FillCopy, stats
  <2>3. t > 0
    <3>1. /\ used < want /\ chunks # <<>> /\ Head(chunks) = chunks[1]
          /\ offset < chunks[1].size
      BY <1>4, TakeBound DEF FillCopy, IInv, Counted
    <3>2. /\ used \in Nat /\ want \in Nat /\ offset \in Nat
          /\ chunks[1].size \in Nat
      BY <1>4, TakeBound, ChunkFacts DEF IInv, TypeOK
    <3> DEFINE z == chunks[1].size
    <3>3. Take = IF z - offset < want - used THEN z - offset ELSE want - used
      BY <3>1 DEF Take, Least
    <3>4. z \in Nat /\ offset < z
      BY <3>1, <3>2
    <3> HIDE DEF z
    <3> QED BY <3>1, <3>2, <3>3, <3>4
  <2> HIDE DEF t
  <2>4. t \in 1..CapacityFrames
    BY <1>0, <2>1, <2>3 DEF Bounded
  <2>5. Heard' = Heard + t /\ accepted' = accepted /\ Heard + t <= accepted
    BY <1>0, <2>1, <2>2 DEF Heard
  <2>6. Stream!Play(t)
    BY <1>1, <2>5 DEF Stream!Play, Consumed
  <2> QED BY <2>4, <2>6 DEF Stream!Next
<1>5. CASE PushCount
  <2>1. /\ ui = "pushing" /\ ui' = "ready" /\ pushing' = 0
        /\ buffered' = buffered + pushing /\ submitted' = submitted + pushing
    BY <1>5 DEF PushCount
  <2>2. Heard' = Heard /\ accepted' = accepted
    BY <1>0, <2>1 DEF Heard
  <2> QED BY <1>1, <2>2 DEF Stream!stream, Consumed
<1>6. CASE ClearCount
  <2>1. /\ ui = "clearing" /\ ui' = "ready" /\ pushing' = pushing
        /\ buffered' = 0 /\ submitted' = submitted
    BY <1>6 DEF ClearCount
  <2>2. Heard' = Heard /\ accepted' = accepted
    BY <1>0, <2>1 DEF Heard
  <2> QED BY <1>1, <2>2 DEF Stream!stream, Consumed
<1>7. CASE FillEnd \/ UNCHANGED vars \/ (\E n \in PushSizes : PushRefused(n))
           \/ (\E n \in BlockSizes : FillStart(n))
  <2>1. /\ chunks' = chunks /\ offset' = offset
        /\ submitted' = submitted /\ pushing' = pushing
    BY <1>7 DEF FillEnd, PushRefused, FillStart, vars, audio, stats, threads
  <2> QED BY <2>1 DEF Stream!stream
<1> QED BY <1>2, <1>3, <1>4, <1>5, <1>6, <1>7 DEF Next, Push, Clear, Fill

\* The buffer implements the stream: what the device plays is what the emulator
\* produced, in order and at most once, and never more than the capacity waits.
THEOREM BufferIsStream == Spec => ImplementsStream
<1>1. Init => Stream!Init /\ Bounded
  BY PcmAssumption DEF Init, Stream!Init, Bounded
<1>2. IInv /\ Bounded /\ IInv' /\ [Next]_vars => [Stream!Next]_(Stream!stream)
  BY StepIsStream
<1> QED
  BY <1>1, <1>2, BufferInvariant, BoundedStep, PTL
  DEF Spec, ImplementsStream, Stream!Spec

---------------------------------------------------------------------------
(* The lock.  PrimedPlays needs both threads to get it again and again; it *)
(* is theirs to get because no method keeps it.                            *)

\* What is left of the method under way: of fill, the frames its block still lacks.
Inside == IF lock = "free" THEN 0 ELSE IF lock = "ui" THEN 1 ELSE 1 + (want - used)

LEMMA InsideType == IInv => Inside \in Nat
<1> SUFFICES ASSUME IInv PROVE Inside \in Nat
  OBVIOUS
<1>1. want \in Nat /\ used \in Nat /\ (lock = "device" => used <= want)
      /\ lock \in {"free", "ui", "device"}
  BY DEF IInv, TypeOK, LockDiscipline
<1> QED BY <1>1 DEF Inside

\* The head chunk is never empty, so a turn of the loop is never idle.
LEMMA TakeSomething ==
  ASSUME IInv, FillCopy PROVE Take > 0
<1>1. /\ chunks # <<>> /\ used < want /\ used \in Nat /\ want \in Nat /\ offset \in Nat
  BY DEF IInv, TypeOK, FillCopy
<1>2. Head(chunks) = chunks[1] /\ chunks[1].size \in Nat
  BY TakeBound, ChunkFacts
<1>3. offset < chunks[1].size
  BY <1>1 DEF IInv, Counted
<1> QED BY <1>1, <1>2, <1>3 DEF Take, Least

LEMMA StepLeaves ==
  ASSUME IInv, [Next]_vars, vars' # vars, lock # "free"
  PROVE  Inside' < Inside
<1>1. CASE PushCount \/ ClearCount
  <2>1. lock = "ui" /\ lock' = "free"
    BY <1>1 DEF IInv, LockDiscipline, PushCount, ClearCount
  <2> QED BY <2>1 DEF Inside
<1>2. CASE FillCopy
  <2>1. /\ used' = used + Take /\ want' = want /\ lock = "device" /\ lock' = "device"
        /\ used \in Nat /\ want \in Nat
    BY <1>2 DEF FillCopy, IInv, TypeOK
  <2>2. Take \in Nat /\ Take > 0
    BY <1>2, TakeBound, TakeSomething
  <2>3. Inside = 1 + (want - used) /\ Inside' = 1 + (want - (used + Take))
    BY <2>1 DEF Inside
  <2> HIDE DEF Take
  <2> QED BY <2>1, <2>2, <2>3
<1>3. CASE FillEnd
  <2>1. lock = "device" /\ lock' = "free" /\ used \in Nat /\ want \in Nat /\ used <= want
    BY <1>3 DEF FillEnd, IInv, TypeOK, LockDiscipline
  <2> QED BY <2>1 DEF Inside
<1> QED BY <1>1, <1>2, <1>3
        DEF Next, Push, Clear, Fill, PushRefused, PushAppend, ClearChunks, FillStart

\* Neither thread keeps the lock: whoever holds it, every step that is taken brings its
\* method nearer to its end, and no step of the other thread comes between.  fill's loop
\* copies something in every turn, so the mixer's callback cannot hang in it.
THEOREM LockIsReturned ==
  Spec => [](Inside \in Nat) /\ [][lock # "free" => Inside' < Inside]_vars
<1>1. IInv /\ [Next]_vars => [lock # "free" => Inside' < Inside]_vars
  BY StepLeaves
<1> QED BY <1>1, InsideType, BufferInvariant, PTL DEF Spec
====
