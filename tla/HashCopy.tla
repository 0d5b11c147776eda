------------------------------ MODULE HashCopy ------------------------------
(***************************************************************************)
(* InlineHashCalculator::DoCopy: reads of a stream overlap the writing and *)
(* the hashing of the block read before.  A continuation runs on any       *)
(* thread of the pool; the events hashReady and writerReady order them.    *)
(*                                                                         *)
(* The stream is the blocks 1..Size.  _inputBuffer is new for each read;   *)
(* _hashBuffer and _outputBuffer name the buffer of one read, and a buffer *)
(* is named by the number of its read.                                     *)
(***************************************************************************)
EXTENDS Integers, Sequences

CONSTANT Size  \* blocks of the input stream

ASSUME SizeAssumption == Size \in Nat

VARIABLES
  copier,      \* DoCopy: "start", "waiting" for _done, "returned"
  reads,       \* per read: "pending", "ready" (continuation due), the step its
               \* continuation has come to, "over" or "failed"
  inputBuffer, hashBuffer, outputBuffer, \* the fields: a read, or 0
  hashReady, writerReady, done,          \* the events, TRUE when set
  writes,      \* per WriteAsync: [buffer, result], result "pending", "written", "failed"
  hashed       \* what TransformBlock was given, in order

vars == <<copier, reads, inputBuffer, hashBuffer, outputBuffer, hashReady, writerReady,
          done, writes, hashed>>

events == <<hashReady, writerReady, done>>
buffers == <<inputBuffer, hashBuffer, outputBuffer>>

Move(r, step) == reads' = [reads EXCEPT ![r] = step]

\* DoCopy: the events, and the first read.
DoCopy ==
  /\ copier = "start"
  /\ copier' = "waiting"
  /\ hashReady' = TRUE /\ writerReady' = TRUE /\ done' = FALSE
  /\ inputBuffer' = 1
  /\ reads' = <<"pending">>
  /\ UNCHANGED <<hashBuffer, outputBuffer, writes, hashed>>

\* The stream answers a ReadAsync: with a block, with none at the end, or with an
\* error; the continuation is due in each case.  External.
ReadCompletes(r) ==
  /\ reads[r] = "pending"
  /\ \E outcome \in {"ready", "faulted"} : Move(r, outcome)
  /\ UNCHANGED <<copier, buffers, events, writes, hashed>>

Faulted(r) == reads[r] = "faulted"

\* FinishedRead waits for the hash of the block before.
WaitForHash(r) ==
  /\ reads[r] \in {"ready", "faulted"} /\ hashReady
  /\ hashReady' = FALSE
  /\ Move(r, IF Faulted(r) THEN "faultedWriter" ELSE "writer")
  /\ UNCHANGED <<copier, buffers, writerReady, done, writes, hashed>>

WaitForWriter_WrongNoWait(r) ==
  /\ reads[r] \in {"writer", "faultedWriter"}
  /\ UNCHANGED writerReady
  /\ IF reads[r] = "faultedWriter" THEN Move(r, "failed") /\ UNCHANGED done
     ELSE IF r > Size THEN Move(r, "over") /\ done' = TRUE
     ELSE Move(r, "next") /\ UNCHANGED done
  /\ UNCHANGED <<copier, buffers, hashReady, writes, hashed>>

WaitForWriter_WrongEnd(r) ==
  /\ reads[r] \in {"writer", "faultedWriter"} /\ writerReady
  /\ writerReady' = FALSE
  /\ IF reads[r] = "faultedWriter" THEN Move(r, "failed") /\ UNCHANGED done
     ELSE IF r > Size + 1 THEN Move(r, "over") /\ done' = TRUE
     ELSE Move(r, "next") /\ UNCHANGED done
  /\ UNCHANGED <<copier, buffers, hashReady, writes, hashed>>

\* Then for the write of the block before.  The result of a failed read throws
\* in the continuation, where nobody sees it; no bytes are the end of the copy.
WaitForWriter(r) ==
  /\ reads[r] \in {"writer", "faultedWriter"} /\ writerReady
  /\ writerReady' = FALSE
  /\ IF reads[r] = "faultedWriter" THEN Move(r, "failed") /\ UNCHANGED done
     ELSE IF r > Size THEN Move(r, "over") /\ done' = TRUE
     ELSE Move(r, "next") /\ UNCHANGED done
  /\ UNCHANGED <<copier, buffers, hashReady, writes, hashed>>

\* _hashBuffer is the block; ReadMore begins the next read, whose continuation may
\* run beside the rest of this one.
ReadMore(r) ==
  /\ reads[r] = "next"
  /\ hashBuffer' = inputBuffer
  /\ inputBuffer' = r + 1
  /\ reads' = Append([reads EXCEPT ![r] = "write"], "pending")
  /\ UNCHANGED <<copier, outputBuffer, events, writes, hashed>>

\* WriteMore(count).
WriteMore(r) ==
  /\ reads[r] = "write"
  /\ outputBuffer' = hashBuffer
  /\ writes' = Append(writes, [buffer |-> hashBuffer, result |-> "pending"])
  /\ Move(r, "hash")
  /\ UNCHANGED <<copier, inputBuffer, hashBuffer, events, hashed>>

HashBlock_WrongBuffer(r) ==
  /\ reads[r] = "hash"
  /\ hashed' = Append(hashed, inputBuffer)
  /\ hashReady' = TRUE
  /\ Move(r, "over")
  /\ UNCHANGED <<copier, buffers, writerReady, done, writes>>

\* TransformBlock, and the event.
HashBlock(r) ==
  /\ reads[r] = "hash"
  /\ hashed' = Append(hashed, hashBuffer)
  /\ hashReady' = TRUE
  /\ Move(r, "over")
  /\ UNCHANGED <<copier, buffers, writerReady, done, writes>>

FinishedWrite_WrongOnError(w) ==
  /\ writes[w].result = "pending"
  /\ \E outcome \in {"written", "failed"} :
       /\ writes' = [writes EXCEPT ![w].result = outcome]
       /\ writerReady' = (writerReady \/ outcome = "written")
  /\ UNCHANGED <<copier, reads, buffers, hashReady, done, hashed>>

\* A write completes or fails; FinishedWrite does not look which.
FinishedWrite(w) ==
  /\ writes[w].result = "pending"
  /\ \E outcome \in {"written", "failed"} :
       writes' = [writes EXCEPT ![w].result = outcome]
  /\ writerReady' = TRUE
  /\ UNCHANGED <<copier, reads, buffers, hashReady, done, hashed>>

\* DoCopy wakes up and returns.
Return ==
  /\ copier = "waiting" /\ done
  /\ done' = FALSE
  /\ copier' = "returned"
  /\ UNCHANGED <<reads, buffers, hashReady, writerReady, writes, hashed>>

Init ==
  /\ copier = "start"
  /\ reads = <<>> /\ writes = <<>> /\ hashed = <<>>
  /\ inputBuffer = 0 /\ hashBuffer = 0 /\ outputBuffer = 0
  /\ hashReady = FALSE /\ writerReady = FALSE /\ done = FALSE

Continuation(r) ==
  ReadCompletes(r) \/ WaitForHash(r) \/ WaitForWriter(r) \/ ReadMore(r) \/ WriteMore(r)
    \/ HashBlock(r)

Next ==
  \/ DoCopy \/ Return
  \/ \E r \in 1..Len(reads) : Continuation(r)
  \/ \E w \in 1..Len(writes) : FinishedWrite(w)

Fairness ==
  /\ WF_vars(DoCopy) /\ WF_vars(Return)
  /\ \A r \in 1..(Size + 1) : WF_vars(r \in DOMAIN reads /\ Continuation(r))
  /\ \A w \in 1..Size : WF_vars(w \in DOMAIN writes /\ FinishedWrite(w))

\* The pool runs what is due, and the streams answer.
Spec == Init /\ [][Next]_vars /\ Fairness

----------------------------------------------------------------------------
(* Properties                                                              *)

Progress == {"pending", "ready", "faulted", "writer", "faultedWriter", "next", "write",
          "hash", "over", "failed"}

\* Every variable has its sort, and a copy has at most one read more than blocks.
TypeOK ==
  /\ copier \in {"start", "waiting", "returned"}
  /\ \A r \in DOMAIN reads : reads[r] \in Progress
  /\ Len(reads) <= Size + 1
  /\ {inputBuffer, hashBuffer, outputBuffer} \subseteq 0..Len(reads)
  /\ \A w \in DOMAIN writes : writes[w].result \in {"pending", "written", "failed"}

\* Each block is hashed once and written once, in their order, and one write ends
\* before the next begins: the read begun before a block is hashed does not take its
\* buffer away, though the continuation that begins a write does not await it.
BlocksInOrder ==
  /\ hashed = [i \in 1..Len(hashed) |-> i]
  /\ \A w \in DOMAIN writes : writes[w].buffer = w
  /\ \A w \in 1..(Len(writes) - 1) : writes[w].result # "pending"

\* When DoCopy returns, every block was hashed and its write has ended; that one
\* failed is not noticed.
CopiedWhenReturned ==
  copier = "returned" =>
    /\ Len(hashed) = Size /\ Len(writes) = Size
    /\ \A w \in DOMAIN writes : writes[w].result # "pending"

\* DoCopy returns, or a read has failed and it waits for an event nobody sets.
ReturnsUnlessReadFails ==
  \/ <>(copier = "returned")
  \/ <>[](copier = "waiting" /\ \E r \in DOMAIN reads : reads[r] = "failed")
=============================================================================
