--------------------------- MODULE HashCopy_proofs ---------------------------
(***************************************************************************)
(* Proofs of the safety properties of HashCopy, for streams of any length. *)
(*                                                                         *)
(* The two events are what keeps the continuations in their order, and     *)
(* Ordered says how: all reads but the last two are over, the last but one *)
(* may still be writing or hashing, and hashReady and writerReady are set  *)
(* exactly when the one before has hashed and its write has ended and the  *)
(* last one has not gone past its wait.                                    *)
(***************************************************************************)
EXTENDS HashCopy, TLAPS

Outcomes == {"pending", "written", "failed"}
Write    == [buffer : Nat, result : Outcomes]

Last == Len(reads)

\* The read before the last one has not been written, or not been hashed, yet.
Unwritten == Last > 1 /\ reads[Last - 1] = "write"
Unhashed  == Last > 1 /\ reads[Last - 1] \in {"write", "hash"}

AwaitsHash   == reads[Last] \in {"pending", "ready", "faulted"}
AwaitsWriter == AwaitsHash \/ reads[Last] \in {"writer", "faultedWriter"}

Hashed == IF Unhashed THEN Last - 2 ELSE Last - 1
Begun  == IF Unwritten THEN Last - 2 ELSE Last - 1

NonePending == \A w \in 1..Len(writes) : writes[w].result # "pending"

Sorts ==
  /\ copier \in {"start", "waiting", "returned"}
  /\ reads \in Seq(Progress) /\ writes \in Seq(Write)
  /\ hashReady \in BOOLEAN /\ writerReady \in BOOLEAN /\ done \in BOOLEAN
  /\ inputBuffer \in Nat /\ hashBuffer \in Nat /\ outputBuffer \in Nat

Idle ==
  /\ reads = <<>> /\ writes = <<>> /\ hashed = <<>>
  /\ inputBuffer = 0 /\ hashBuffer = 0 /\ outputBuffer = 0
  /\ done = FALSE

Ordered ==
  /\ Last \in 1..(Size + 1)
  /\ inputBuffer = Last /\ hashBuffer = Last - 1 /\ outputBuffer <= Last
  /\ \A r \in 1..Last : r < Last - 1 => reads[r] = "over"
  /\ \A r \in 1..Last : r = Last - 1 => reads[r] \in {"write", "hash", "over"}
  /\ reads[Last] \notin {"write", "hash"}
  /\ reads[Last] = "over" => Last = Size + 1
  /\ reads[Last] = "next" => Last <= Size
  /\ Unhashed => AwaitsHash /\ ~hashReady
  /\ hashReady => AwaitsHash
  /\ Unwritten => ~writerReady
  /\ writerReady => AwaitsWriter
  /\ ~Unwritten => (writerReady \/ ~NonePending \/ ~AwaitsWriter)
  /\ (writerReady \/ Unwritten \/ ~AwaitsWriter) => NonePending
  /\ done => reads[Last] = "over"
  /\ copier = "returned" => reads[Last] = "over"
  /\ Len(writes) = Begun
  /\ \A w \in 1..Len(writes) : writes[w].buffer = w
  /\ \A w \in 1..(Len(writes) - 1) : writes[w].result # "pending"
  /\ hashed = [i \in 1..Hashed |-> i]

IInv == Sorts /\ (copier = "start" => Idle) /\ (copier # "start" => Ordered)

----------------------------------------------------------------------------
\* A continuation that changes only how far its read has come.
LEMMA Moved ==
  ASSUME reads \in Seq(Progress), NEW r \in 1..Len(reads), NEW step \in Progress, Move(r, step)
  PROVE  /\ reads' \in Seq(Progress) /\ Last' = Last /\ Last \in Nat
         /\ reads'[r] = step
         /\ \A q \in 1..Last : q # r => reads'[q] = reads[q]
  BY DEF Move, Last

\* What a continuation that is under way says of its place: it is that of the last
\* read, or it writes or hashes and is that of the read before.
LEMMA Place ==
  ASSUME IInv, copier # "start", NEW r \in 1..Len(reads)
  PROVE  /\ Last \in 1..(Size + 1) /\ Last \in Nat
         /\ reads[r] \in {"write", "hash"} => r = Last - 1 /\ r > 0
         /\ reads[r] \notin {"write", "hash", "over"} => r = Last
  <1>1. Ordered /\ Last \in 1..(Size + 1) /\ Size \in Nat
    BY SizeAssumption DEF IInv, Ordered
  <1>2. r < Last - 1 \/ r = Last - 1 \/ r = Last
    BY <1>1 DEF Last
  <1> QED  BY <1>1, <1>2 DEF Ordered, Last

\* A continuation exists only once DoCopy has begun.
LEMMA NotIdle ==
  ASSUME IInv, NEW r \in 1..Len(reads)
  PROVE  copier # "start" /\ Ordered /\ Sorts
  BY DEF IInv, Idle

\* Before DoCopy nothing was read.
LEMMA InitIInv == Init => IInv
  <1> SUFFICES ASSUME Init PROVE IInv
    OBVIOUS
  <1>1. reads = <<>> /\ writes = <<>> /\ copier = "start"
    BY DEF Init
  <1>2. reads \in Seq(Progress) /\ writes \in Seq(Write)
    BY <1>1
  <1>3. hashReady \in BOOLEAN /\ writerReady \in BOOLEAN /\ done \in BOOLEAN
    BY Zenon DEF Init
  <1>4. Sorts
    BY <1>1, <1>2, <1>3 DEF Init, Sorts
  <1>5. Idle
    BY DEF Init, Idle
  <1> QED  BY <1>1, <1>4, <1>5 DEF IInv

\* DoCopy sets both events, so that the first read waits for no block before it.
LEMMA DoCopyIInv == IInv /\ DoCopy => IInv'
  <1> SUFFICES ASSUME IInv, DoCopy PROVE IInv'
    OBVIOUS
  <1>1. Idle /\ Sorts /\ copier' = "waiting"
    BY DEF IInv, DoCopy
  <1>2. /\ reads' = <<"pending">> /\ reads' \in Seq(Progress) /\ Last' = 1
        /\ reads'[1] = "pending"
    BY DEF DoCopy, Progress, Last
  <1>3. writes' = <<>> /\ hashed' = <<>> /\ Len(writes') = 0
    BY <1>1 DEF DoCopy, Idle
  <1>4. hashReady' /\ writerReady' /\ ~done'
    BY DEF DoCopy
  <1>5. inputBuffer' = 1 /\ hashBuffer' = 0 /\ outputBuffer' = 0
    BY <1>1 DEF DoCopy, Idle
  <1>6. hashReady' \in BOOLEAN /\ writerReady' \in BOOLEAN /\ done' \in BOOLEAN
    BY Zenon DEF DoCopy
  <1>7. Sorts'
    BY <1>1, <1>2, <1>3, <1>5, <1>6 DEF Sorts
  <1>8. ~Unwritten' /\ ~Unhashed' /\ AwaitsHash' /\ AwaitsWriter' /\ NonePending'
    BY <1>2, <1>3 DEF Unwritten, Unhashed, AwaitsHash, AwaitsWriter, NonePending
  <1>9. hashed' = [i \in 1..0 |-> i]
    BY <1>3
  <1>10. Ordered'
    BY <1>1, <1>2, <1>3, <1>4, <1>5, <1>8, <1>9, SizeAssumption DEF Ordered, Hashed, Begun
  <1> QED  BY <1>1, <1>7, <1>10 DEF IInv

\* Steps of the last read that touch no block: its answer, and its two waits.
LEMMA WaitIInv ==
  ASSUME NEW r \in 1..Len(reads)
  PROVE  IInv /\ (ReadCompletes(r) \/ WaitForHash(r) \/ WaitForWriter(r)) => IInv'
  <1> SUFFICES ASSUME IInv, ReadCompletes(r) \/ WaitForHash(r) \/ WaitForWriter(r)
               PROVE  IInv'
    OBVIOUS
  <1>1. copier # "start" /\ Ordered /\ Sorts
    BY NotIdle
  <1>2. reads[r] \in {"pending", "ready", "faulted", "writer", "faultedWriter"}
    BY DEF ReadCompletes, WaitForHash, WaitForWriter
  <1>3. r = Last /\ Last \in 1..(Size + 1) /\ Last \in Nat
    BY <1>1, <1>2, Place
  <1>4. ~done /\ copier = "waiting"
    BY <1>1, <1>2, <1>3 DEF Ordered, Sorts
  <1>5. PICK step \in Progress :
          /\ Move(r, step)
          /\ step \in {"ready", "faulted", "writer", "faultedWriter", "failed", "over", "next"}
    BY DEF ReadCompletes, WaitForHash, WaitForWriter, Progress, Faulted
  <1>6. /\ reads' \in Seq(Progress) /\ Last' = Last /\ reads'[Last] = step
        /\ \A q \in 1..Last : q # Last => reads'[q] = reads[q]
    BY <1>1, <1>3, <1>5, Moved DEF Sorts
  <1>7. /\ UNCHANGED <<copier, buffers, writes, hashed>>
        /\ hashReady' \in BOOLEAN /\ writerReady' \in BOOLEAN /\ done' \in BOOLEAN
    <2>1. UNCHANGED <<copier, buffers, writes, hashed>>
      BY DEF ReadCompletes, WaitForHash, WaitForWriter
    <2>2. CASE ReadCompletes(r)
      BY <1>1, <2>1, <2>2 DEF Sorts, ReadCompletes, events
    <2>3. CASE WaitForHash(r)
      <3>1. hashReady' \in BOOLEAN
        BY <2>3, Zenon DEF WaitForHash
      <3> QED  BY <1>1, <2>1, <2>3, <3>1 DEF Sorts, WaitForHash
    <2>4. CASE WaitForWriter(r)
      <3>1. writerReady' \in BOOLEAN
        BY <2>4, Zenon DEF WaitForWriter
      <3>2. done' \in BOOLEAN
        <4>1. done' = TRUE \/ done' = done
          BY <2>4, Zenon DEF WaitForWriter
        <4> QED  BY <1>1, <4>1 DEF Sorts
      <3> QED  BY <1>1, <2>1, <2>4, <3>1, <3>2 DEF Sorts, WaitForWriter
    <2> QED  BY <2>1, <2>2, <2>3, <2>4
  <1>8. Sorts'
    BY <1>1, <1>6, <1>7 DEF Sorts, buffers
  <1>9. (Unwritten' <=> Unwritten) /\ (Unhashed' <=> Unhashed)
    BY <1>3, <1>6 DEF Unwritten, Unhashed
  <1>10. /\ Hashed' = Hashed /\ Begun' = Begun /\ (NonePending' <=> NonePending)
    BY <1>6, <1>7, <1>9 DEF Hashed, Begun, NonePending
  <1>11. (AwaitsHash /\ AwaitsWriter) \/ (AwaitsWriter /\ ~AwaitsHash /\ ~hashReady /\ ~Unhashed)
    BY <1>1, <1>2, <1>3 DEF AwaitsHash, AwaitsWriter, Ordered
  <1>12. CASE ReadCompletes(r)
    <2>1. reads'[Last] \in {"ready", "faulted"}
      <3>1. PICK outcome \in {"ready", "faulted"} : Move(r, outcome)
        BY <1>12 DEF ReadCompletes
      <3>2. outcome \in Progress
        BY DEF Progress
      <3>3. reads'[r] = outcome
        BY <1>1, <3>1, <3>2, Moved DEF Sorts
      <3> QED  BY <1>3, <3>3
    <2>2. AwaitsHash /\ AwaitsHash' /\ AwaitsWriter /\ AwaitsWriter'
      BY <1>12, <1>3, <1>6, <2>1 DEF AwaitsHash, AwaitsWriter, ReadCompletes
    <2>3. UNCHANGED <<hashReady, writerReady, done>>
      BY <1>12 DEF ReadCompletes, events
    <2> QED  BY <1>1, <1>3, <1>4, <1>6, <1>7, <1>8, <1>9, <1>10, <2>1, <2>2, <2>3
             DEF IInv, Ordered, buffers
  <1>13. CASE WaitForHash(r)
    <2>1. reads'[Last] \in {"writer", "faultedWriter"}
      <3>1. PICK next \in {"writer", "faultedWriter"} : Move(r, next)
        BY <1>13 DEF WaitForHash
      <3>2. next \in Progress
        BY DEF Progress
      <3>3. reads'[r] = next
        BY <1>1, <3>1, <3>2, Moved DEF Sorts
      <3> QED  BY <1>3, <3>3
    <2>2. AwaitsHash /\ ~AwaitsHash' /\ AwaitsWriter /\ AwaitsWriter'
      BY <1>13, <1>3, <1>6, <2>1 DEF AwaitsHash, AwaitsWriter, WaitForHash
    <2>3. UNCHANGED <<writerReady, done>> /\ hashReady /\ ~hashReady'
      BY <1>13 DEF WaitForHash
    <2>4. ~Unhashed /\ ~Unwritten
      BY <1>1, <2>3 DEF Ordered, Unhashed, Unwritten
    <2> QED  BY <1>1, <1>3, <1>4, <1>6, <1>7, <1>8, <1>9, <1>10, <2>1, <2>2, <2>3, <2>4
             DEF IInv, Ordered, buffers
  <1>14. CASE WaitForWriter(r)
    <2>1. /\ reads'[Last] \in {"failed", "over", "next"}
          /\ reads'[Last] = "over" => Last > Size
          /\ reads'[Last] = "next" => Last <= Size
          /\ done' => reads'[Last] = "over"
      <3>1. PICK next \in {"failed", "over", "next"} :
              /\ Move(r, next)
              /\ next = "over" => r > Size
              /\ next = "next" => ~(r > Size)
              /\ done' => next = "over" \/ done
        BY <1>14 DEF WaitForWriter
      <3>2. next \in Progress
        BY DEF Progress
      <3>3. reads'[r] = next
        BY <1>1, <3>1, <3>2, Moved DEF Sorts
      <3> QED  BY <1>3, <1>4, <3>1, <3>3, SizeAssumption
    <2>2. ~AwaitsHash /\ ~AwaitsHash' /\ AwaitsWriter /\ ~AwaitsWriter'
      BY <1>14, <1>3, <1>6, <2>1 DEF AwaitsHash, AwaitsWriter, WaitForWriter
    <2>3. UNCHANGED hashReady /\ writerReady /\ ~writerReady'
      BY <1>14 DEF WaitForWriter
    <2>4. ~Unhashed /\ ~Unwritten /\ ~hashReady /\ NonePending
      BY <1>1, <2>2, <2>3 DEF Ordered, Unhashed, Unwritten
    <2>5. reads'[Last] = "over" => Last = Size + 1
      BY <1>3, <2>1, SizeAssumption
    <2> QED  BY <1>1, <1>3, <1>4, <1>6, <1>7, <1>8, <1>9, <1>10, <2>1, <2>2, <2>3, <2>4, <2>5
             DEF IInv, Ordered, buffers
  <1> QED  BY <1>12, <1>13, <1>14

\* ReadMore makes the last read the last but one.
LEMMA ReadMoreIInv ==
  ASSUME NEW r \in 1..Len(reads)
  PROVE  IInv /\ ReadMore(r) => IInv'
  <1> SUFFICES ASSUME IInv, ReadMore(r) PROVE IInv'
    OBVIOUS
  <1>1. copier # "start" /\ Ordered /\ Sorts
    BY NotIdle
  <1>2. r = Last /\ Last \in 1..(Size + 1) /\ Last \in Nat /\ reads[Last] = "next"
    BY <1>1, Place DEF ReadMore
  <1>3. Last <= Size /\ ~AwaitsHash /\ ~AwaitsWriter /\ ~done /\ copier # "returned"
    BY <1>1, <1>2 DEF Ordered, AwaitsHash, AwaitsWriter
  <1>4. ~Unhashed /\ ~Unwritten /\ ~hashReady /\ ~writerReady /\ NonePending
    BY <1>1, <1>3 DEF Ordered, Unhashed, Unwritten
  <1>5. /\ reads' \in Seq(Progress) /\ Last' = Last + 1
        /\ reads'[Last] = "write" /\ reads'[Last + 1] = "pending"
        /\ \A q \in 1..Last : q # Last => reads'[q] = reads[q]
    <2>1. reads \in Seq(Progress) /\ {"write", "pending"} \subseteq Progress
      BY <1>1 DEF Sorts, Progress
    <2>2. reads' = Append([reads EXCEPT ![Last] = "write"], "pending")
      BY <1>2 DEF ReadMore
    <2> QED  BY <1>2, <2>1, <2>2 DEF Last
  <1>6. /\ UNCHANGED <<copier, outputBuffer, hashReady, writerReady, done, writes, hashed>>
        /\ hashBuffer' = Last /\ inputBuffer' = Last + 1
    BY <1>1, <1>2 DEF ReadMore, events, Ordered
  <1>7. Sorts'
    BY <1>1, <1>2, <1>5, <1>6 DEF Sorts
  <1>8. Unwritten' /\ Unhashed' /\ AwaitsHash' /\ AwaitsWriter'
    BY <1>2, <1>5 DEF Unwritten, Unhashed, AwaitsHash, AwaitsWriter
  <1>9. Hashed' = Hashed /\ Begun' = Begun /\ (NonePending' <=> NonePending)
    BY <1>2, <1>4, <1>5, <1>6, <1>8 DEF Hashed, Begun, NonePending
  <1>10. \A q \in 1..Last : q # Last => reads'[q] = "over"
    <2>1. Last > 1 => reads[Last - 1] = "over"
      BY <1>1, <1>2, <1>4 DEF Ordered, Unhashed
    <2> QED  BY <1>1, <1>2, <1>5, <2>1 DEF Ordered
  <1>11. Ordered'
    <2>1. Last' \in 1..(Size + 1) /\ reads'[Last'] = "pending"
      BY <1>2, <1>3, <1>5, SizeAssumption
    <2>2. /\ \A q \in 1..Last' : q < Last' - 1 => reads'[q] = "over"
          /\ \A q \in 1..Last' : q = Last' - 1 => reads'[q] = "write"
      BY <1>2, <1>5, <1>10
    <2>3. inputBuffer' = Last' /\ hashBuffer' = Last' - 1 /\ outputBuffer' <= Last'
      BY <1>1, <1>2, <1>5, <1>6 DEF Ordered, Sorts
    <2>4. /\ Len(writes') = Begun' /\ hashed' = [i \in 1..Hashed' |-> i]
          /\ \A w \in 1..Len(writes') : writes'[w].buffer = w
          /\ \A w \in 1..(Len(writes') - 1) : writes'[w].result # "pending"
      BY <1>1, <1>6, <1>9 DEF Ordered
    <2>5. /\ \A q \in 1..Last' : q < Last' - 1 => reads'[q] = "over"
          /\ \A q \in 1..Last' : q = Last' - 1 => reads'[q] \in {"write", "hash", "over"}
      BY <2>2
    <2>6. /\ reads'[Last'] \notin {"write", "hash"}
          /\ reads'[Last'] # "over" /\ reads'[Last'] # "next"
      BY <2>1
    <2>7. ~hashReady' /\ ~writerReady' /\ ~done' /\ copier' # "returned" /\ NonePending'
      <3>1. UNCHANGED <<hashReady, writerReady, done, copier>>
        BY <1>6
      <3> QED  BY <1>3, <1>4, <1>9, <3>1
    <2> QED  BY <1>8, <2>1, <2>3, <2>4, <2>5, <2>6, <2>7, Zenon DEF Ordered
  <1> QED  BY <1>1, <1>6, <1>7, <1>11 DEF IInv

\* WriteMore begins the one write that is under way.
LEMMA WriteMoreIInv ==
  ASSUME NEW r \in 1..Len(reads)
  PROVE  IInv /\ WriteMore(r) => IInv'
  <1> SUFFICES ASSUME IInv, WriteMore(r) PROVE IInv'
    OBVIOUS
  <1>1. copier # "start" /\ Ordered /\ Sorts
    BY NotIdle
  <1>2. r = Last - 1 /\ r > 0 /\ Last \in 1..(Size + 1) /\ Last \in Nat /\ reads[r] = "write"
    BY <1>1, Place DEF WriteMore
  <1>3. /\ Unwritten /\ Unhashed /\ ~writerReady /\ AwaitsHash /\ AwaitsWriter
        /\ NonePending /\ Len(writes) = r - 1
    BY <1>1, <1>2 DEF Ordered, Unwritten, Unhashed, AwaitsWriter, Begun
  <1>4. /\ reads' \in Seq(Progress) /\ Last' = Last /\ reads'[r] = "hash"
        /\ \A q \in 1..Last : q # r => reads'[q] = reads[q]
    <2>1. Move(r, "hash") /\ "hash" \in Progress
      BY DEF WriteMore, Progress
    <2> QED  BY <1>1, <2>1, Moved DEF Sorts
  <1>5. /\ UNCHANGED <<copier, inputBuffer, hashBuffer, hashReady, writerReady, done, hashed>>
        /\ outputBuffer' = r
    BY <1>1, <1>2 DEF WriteMore, events, Ordered
  <1>6. /\ writes' \in Seq(Write) /\ Len(writes') = r
        /\ writes'[r] = [buffer |-> r, result |-> "pending"]
        /\ \A w \in 1..(r - 1) : writes'[w] = writes[w]
    <2>1. writes \in Seq(Write) /\ r \in Nat
      BY <1>1, <1>2 DEF Sorts
    <2>2. writes' = Append(writes, [buffer |-> r, result |-> "pending"])
      BY <1>1, <1>2 DEF WriteMore, Ordered
    <2>3. [buffer |-> r, result |-> "pending"] \in Write
      BY <2>1 DEF Write, Outcomes
    <2> QED  BY <1>3, <2>1, <2>2, <2>3
  <1>7. Sorts'
    BY <1>1, <1>2, <1>4, <1>5, <1>6 DEF Sorts
  <1>8. ~Unwritten' /\ Unhashed' /\ AwaitsHash' /\ AwaitsWriter' /\ ~NonePending'
    BY <1>2, <1>3, <1>4, <1>6 DEF Unwritten, Unhashed, AwaitsHash, AwaitsWriter, NonePending
  <1>9. Hashed' = Hashed /\ Begun' = r
    BY <1>2, <1>3, <1>4, <1>8 DEF Hashed, Begun
  <1>10. /\ \A w \in 1..Len(writes') : writes'[w].buffer = w
         /\ \A w \in 1..(Len(writes') - 1) : writes'[w].result # "pending"
    <2>1. \A w \in 1..(r - 1) : writes[w].buffer = w /\ writes[w].result # "pending"
      BY <1>1, <1>3 DEF Ordered, NonePending
    <2>2. Len(writes') = r /\ r \in Nat
      BY <1>2, <1>6
    <2> QED  BY <1>6, <2>1, <2>2
  <1>11. Ordered'
    BY <1>1, <1>2, <1>3, <1>4, <1>5, <1>6, <1>8, <1>9, <1>10 DEF Ordered
  <1> QED  BY <1>1, <1>5, <1>7, <1>11 DEF IInv

\* HashBlock hashes the block before the last read's.
LEMMA HashBlockIInv ==
  ASSUME NEW r \in 1..Len(reads)
  PROVE  IInv /\ HashBlock(r) => IInv'
  <1> SUFFICES ASSUME IInv, HashBlock(r) PROVE IInv'
    OBVIOUS
  <1>1. copier # "start" /\ Ordered /\ Sorts
    BY NotIdle
  <1>2. r = Last - 1 /\ r > 0 /\ Last \in 1..(Size + 1) /\ Last \in Nat /\ reads[r] = "hash"
    BY <1>1, Place DEF HashBlock
  <1>3. ~Unwritten /\ Unhashed /\ AwaitsHash /\ hashed = [i \in 1..(r - 1) |-> i]
    BY <1>1, <1>2 DEF Ordered, Unwritten, Unhashed, Hashed
  <1>4. /\ reads' \in Seq(Progress) /\ Last' = Last /\ reads'[r] = "over"
        /\ \A q \in 1..Last : q # r => reads'[q] = reads[q]
    <2>1. Move(r, "over") /\ "over" \in Progress
      BY DEF HashBlock, Progress
    <2> QED  BY <1>1, <2>1, Moved DEF Sorts
  <1>5. UNCHANGED <<copier, buffers, writerReady, done, writes>> /\ hashReady' = TRUE
    BY DEF HashBlock
  <1>6. hashed' = [i \in 1..r |-> i]
    <2>1. hashed' = Append(hashed, r)
      BY <1>1, <1>2 DEF HashBlock, Ordered
    <2>2. Append([i \in 1..(r - 1) |-> i], r) = [i \in 1..r |-> i]
      <3>1. r - 1 \in Nat /\ r \in Nat
        BY <1>2
      <3> QED  BY <3>1
    <2> QED  BY <1>3, <2>1, <2>2
  <1>7. Sorts'
    BY <1>1, <1>4, <1>5 DEF Sorts, buffers
  <1>8. ~Unwritten' /\ ~Unhashed' /\ AwaitsHash' /\ (AwaitsWriter' <=> AwaitsWriter)
    BY <1>2, <1>3, <1>4 DEF Unwritten, Unhashed, AwaitsHash, AwaitsWriter
  <1>9. Hashed' = r /\ Begun' = Begun /\ (NonePending' <=> NonePending)
    BY <1>2, <1>3, <1>4, <1>5, <1>8 DEF Hashed, Begun, NonePending
  <1>10. Ordered'
    BY <1>1, <1>2, <1>3, <1>4, <1>5, <1>6, <1>8, <1>9 DEF Ordered, buffers
  <1> QED  BY <1>1, <1>5, <1>7, <1>10 DEF IInv

\* A write ends: it was the last one begun, and the event is set only while the
\* last read has not gone past its wait for it.
LEMMA FinishedWriteIInv ==
  ASSUME NEW w \in 1..Len(writes)
  PROVE  IInv /\ FinishedWrite(w) => IInv'
  <1> SUFFICES ASSUME IInv, FinishedWrite(w) PROVE IInv'
    OBVIOUS
  <1>1. copier # "start" /\ Ordered /\ Sorts
    BY DEF IInv, Idle
  <1>2. writes[w].result = "pending" /\ Len(writes) \in Nat
    BY <1>1 DEF FinishedWrite, Sorts
  <1>3. w = Len(writes) /\ ~NonePending
    BY <1>1, <1>2 DEF Ordered, NonePending
  <1>4. ~Unwritten /\ AwaitsWriter
    BY <1>1, <1>3 DEF Ordered
  <1>5. PICK outcome \in {"written", "failed"} : writes' = [writes EXCEPT ![w].result = outcome]
    BY DEF FinishedWrite
  <1>6. /\ writes' \in Seq(Write) /\ Len(writes') = Len(writes)
        /\ writes'[w].result = outcome /\ writes'[w].buffer = writes[w].buffer
        /\ \A x \in 1..Len(writes) : x # w => writes'[x] = writes[x]
    <2>1. writes \in Seq(Write) /\ writes[w] \in Write
      BY <1>1 DEF Sorts
    <2>2. [writes[w] EXCEPT !.result = outcome] \in Write
      BY <2>1 DEF Write, Outcomes
    <2>3. writes' = [writes EXCEPT ![w] = [writes[w] EXCEPT !.result = outcome]]
      BY <1>5
    <2>4. [writes[w] EXCEPT !.result = outcome].buffer = writes[w].buffer
      BY <2>1 DEF Write
    <2>5. [writes[w] EXCEPT !.result = outcome].result = outcome
      BY <2>1 DEF Write
    <2> QED  BY <2>1, <2>2, <2>3, <2>4, <2>5
  <1>7. UNCHANGED <<copier, reads, buffers, hashReady, done, hashed>> /\ writerReady' = TRUE
    BY DEF FinishedWrite
  <1>8. Sorts'
    BY <1>1, <1>6, <1>7 DEF Sorts, buffers
  <1>9. /\ Last' = Last /\ ~Unwritten' /\ (Unhashed' <=> Unhashed)
        /\ (AwaitsHash' <=> AwaitsHash) /\ AwaitsWriter'
    BY <1>4, <1>7 DEF Last, Unwritten, Unhashed, AwaitsHash, AwaitsWriter
  <1>10. Hashed' = Hashed /\ Begun' = Begun
    BY <1>4, <1>9 DEF Hashed, Begun
  <1>11. NonePending'
    BY <1>1, <1>2, <1>3, <1>6 DEF Ordered, NonePending
  <1>12. /\ \A x \in 1..Len(writes') : writes'[x].buffer = x
         /\ \A x \in 1..(Len(writes') - 1) : writes'[x].result # "pending"
    BY <1>1, <1>3, <1>6 DEF Ordered
  <1>13. Ordered'
    BY <1>1, <1>6, <1>7, <1>9, <1>10, <1>11, <1>12 DEF Ordered, buffers
  <1> QED  BY <1>1, <1>7, <1>8, <1>13 DEF IInv

\* DoCopy returns when the last read was the one after the last block.
LEMMA ReturnIInv == IInv /\ Return => IInv'
  <1> SUFFICES ASSUME IInv, Return PROVE IInv'
    OBVIOUS
  <1>1. Ordered /\ Sorts /\ done /\ copier' = "returned" /\ done' = FALSE
    BY DEF IInv, Return
  <1>2. UNCHANGED <<reads, buffers, hashReady, writerReady, writes, hashed>>
    BY DEF Return
  <1>3. done' \in BOOLEAN
    BY <1>1
  <1>4. Sorts'
    BY <1>1, <1>2, <1>3 DEF Sorts, buffers
  <1>5. /\ Last' = Last /\ (Unwritten' <=> Unwritten) /\ (Unhashed' <=> Unhashed)
        /\ (AwaitsHash' <=> AwaitsHash) /\ (AwaitsWriter' <=> AwaitsWriter)
        /\ (NonePending' <=> NonePending)
    BY <1>2 DEF Last, Unwritten, Unhashed, AwaitsHash, AwaitsWriter, NonePending
  <1>6. Hashed' = Hashed /\ Begun' = Begun
    BY <1>5 DEF Hashed, Begun
  <1>7. Ordered'
    BY <1>1, <1>2, <1>5, <1>6 DEF Ordered, buffers
  <1> QED  BY <1>1, <1>4, <1>7 DEF IInv

----------------------------------------------------------------------------
\* Every step keeps the invariant, whatever the pool runs first.
THEOREM Inductive == Spec => []IInv
  <1>1. IInv /\ [Next]_vars => IInv'
    <2> SUFFICES ASSUME IInv, [Next]_vars PROVE IInv'
      OBVIOUS
    <2>1. CASE UNCHANGED vars
      BY <2>1 DEF vars, IInv, Sorts, Idle, Ordered, Last, Unwritten, Unhashed, AwaitsHash,
                  AwaitsWriter, NonePending, Hashed, Begun
    <2>2. CASE DoCopy
      BY <2>2, DoCopyIInv
    <2>3. CASE Return
      BY <2>3, ReturnIInv
    <2>4. CASE \E r \in 1..Len(reads) : Continuation(r)
      BY <2>4, WaitIInv, ReadMoreIInv, WriteMoreIInv, HashBlockIInv DEF Continuation
    <2>5. CASE \E w \in 1..Len(writes) : FinishedWrite(w)
      BY <2>5, FinishedWriteIInv
    <2> QED  BY <2>1, <2>2, <2>3, <2>4, <2>5 DEF Next
  <1> QED  BY <1>1, InitIInv, PTL DEF Spec

\* No read is begun behind the one that finds the end of the stream, and the three
\* fields never name a buffer no read was begun for (ReadMore).
THEOREM TypeCorrect == Spec => []TypeOK
  <1>1. ASSUME IInv PROVE TypeOK
    <2>1. /\ DOMAIN reads = 1..Len(reads) /\ Len(reads) \in Nat
          /\ DOMAIN writes = 1..Len(writes)
          /\ \A r \in 1..Len(reads) : reads[r] \in Progress
          /\ \A w \in 1..Len(writes) : writes[w] \in Write
      BY <1>1 DEF IInv, Sorts
    <2>2. \A w \in DOMAIN writes : writes[w].result \in {"pending", "written", "failed"}
      BY <2>1 DEF Write, Outcomes
    <2>3. /\ Len(reads) <= Size + 1
          /\ {inputBuffer, hashBuffer, outputBuffer} \subseteq 0..Len(reads)
      <3>1. CASE copier = "start"
        BY <1>1, <3>1, SizeAssumption DEF IInv, Idle
      <3>2. CASE copier # "start"
        BY <1>1, <2>1, <3>2, SizeAssumption DEF IInv, Ordered, Sorts, Last
      <3> QED  BY <3>1, <3>2
    <2> QED  BY <1>1, <2>1, <2>2, <2>3 DEF IInv, Sorts, TypeOK
  <1> QED  BY <1>1, Inductive, PTL

\* Blocks are hashed and written once and in order, one write at a time, however
\* long the stream is (FinishedRead, ReadMore, WriteMore).
THEOREM InOrder == Spec => []BlocksInOrder
  <1>1. ASSUME IInv PROVE BlocksInOrder
    <2>1. CASE copier = "start"
      <3>1. hashed = [i \in 1..Len(hashed) |-> i]
        BY <1>1, <2>1 DEF IInv, Idle
      <3> QED  BY <1>1, <2>1, <3>1 DEF IInv, Idle, BlocksInOrder
    <2>2. CASE copier # "start"
      <3>1. Hashed \in Nat /\ hashed = [i \in 1..Hashed |-> i]
        BY <1>1, <2>2, SizeAssumption DEF IInv, Ordered, Hashed, Unhashed
      <3>2. Len(hashed) = Hashed
        BY <3>1
      <3>3. DOMAIN writes = 1..Len(writes)
        BY <1>1 DEF IInv, Sorts
      <3> QED  BY <1>1, <2>2, <3>1, <3>2, <3>3 DEF IInv, Ordered, BlocksInOrder
    <2> QED  BY <2>1, <2>2
  <1> QED  BY <1>1, Inductive, PTL

\* When DoCopy returns, everything was hashed and every write has ended.
THEOREM Copied == Spec => []CopiedWhenReturned
  <1>1. ASSUME IInv, copier = "returned"
        PROVE  /\ Len(hashed) = Size /\ Len(writes) = Size
               /\ \A w \in DOMAIN writes : writes[w].result # "pending"
    <2>1. Ordered /\ Last = Size + 1 /\ reads[Last] = "over"
      BY <1>1 DEF IInv, Ordered
    <2>2. ~AwaitsWriter /\ ~Unhashed /\ ~Unwritten
      BY <2>1 DEF Ordered, AwaitsHash, AwaitsWriter, Unhashed, Unwritten
    <2>3. NonePending /\ Hashed = Size /\ Begun = Size
      BY <2>1, <2>2, SizeAssumption DEF Ordered, Hashed, Begun
    <2>4. Len(writes) = Size /\ Len(hashed) = Size
      BY <2>1, <2>3, SizeAssumption DEF Ordered
    <2>5. DOMAIN writes = 1..Len(writes)
      BY <1>1 DEF IInv, Sorts
    <2> QED  BY <2>3, <2>4, <2>5 DEF NonePending
  <1>2. IInv => CopiedWhenReturned
    BY <1>1 DEF CopiedWhenReturned
  <1> QED  BY <1>2, Inductive, PTL
=============================================================================
