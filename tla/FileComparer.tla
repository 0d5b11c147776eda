---------------------------- MODULE FileComparer -----------------------------
(***************************************************************************)
(* FileComparer (src/BackupEngineNativePart/FileComparer.cpp) describes a  *)
(* new file as blocks of an old one and bytes of its own.  While it reads  *)
(* the new file, a second thread builds that file's table of block hashes  *)
(* from buffers it gets through a queue.                                   *)
(*                                                                         *)
(* Hashes stand for what they were computed from, so that the checksum and *)
(* the bitmap, which only save computing hashes, are left out.  A table is *)
(* a set, since a sorted vector is determined by its elements.             *)
(*                                                                         *)
(* (Definitions named ..._Wrong... are plausible errors: with one of them  *)
(* in place of the definition that follows it, a property fails.)          *)
(***************************************************************************)
EXTENDS Integers, Sequences, SequencesExt

CONSTANTS
  Bytes,          \* what the files consist of
  MaxOld, MaxNew, \* bounds: lengths of the two files
  BlockSize,      \* block size of the old file's table
  NewBlockSizes   \* block sizes of the new file's table

ASSUME FileComparerAssumption ==
  /\ MaxOld \in Nat /\ MaxNew \in Nat
  /\ BlockSize \in Nat \ {0}
  /\ NewBlockSizes \subseteq Nat \ {0}

Block == Seq(Bytes)

VARIABLES
  old, new,         \* the contents of the two files
  capacity,         \* of new_buffer: the new file's block size
  main, state,      \* where process() is; its state machine
  position,         \* bytes of the new file that were read
  buffer,           \* the window that is compared
  newOffset,        \* new_offset
  result,           \* commands so far
  unstored,         \* bytes read and not yet in new_buffer
  newBuffer,        \* new_buffer
  signalDue,        \* a buffer was queued, the event is not set yet
  queue, event,     \* processing_queue and the auto-reset event
  worker, taken,    \* where the thread is; the buffer it took
  table, digested   \* new_table; what went into new_sha1

files    == <<old, new, capacity>>
matching == <<state, position, buffer, newOffset, result>>
filling  == <<unstored, newBuffer, signalDue>>
hashing  == <<worker, taken, table, digested>>
vars     == <<files, main, matching, filling, queue, event, hashing>>

-----------------------------------------------------------------------------
Command == [file_offset : Nat, length : Nat, copy_from_old : BOOLEAN]

\* A simple_buffer that is queued; the one without memory is the stop sign.
Stop      == [stop |-> TRUE, data |-> <<>>]
Data(b)   == [stop |-> FALSE, data |-> b]

SmallerOf(a, b) == IF a < b THEN a ELSE b

Piece(file, from, size) ==
  SubSeq(file, from + 1, SmallerOf(from + size, Len(file)))

\* Offsets of the old file's blocks; the last block may be short.
OldOffsets == {o \in 0..(Len(old) - 1) : o % BlockSize = 0}

Occurrences_WrongStart(b) ==  \* a short window matches what it begins
  {o \in OldOffsets : IsPrefix(b, Piece(old, o, BlockSize))}
Occurrences(b) == {o \in OldOffsets : Piece(old, o, BlockSize) = b}

NoTarget == -1

\* search: the wanted offset if the block is there, or else the first one.
IsFound_WrongFirst(b, offset, wanted) ==  \* the wanted offset is not preferred
  offset \in Occurrences(b) /\ \A o \in Occurrences(b) : offset <= o
IsFound_WrongWantedOnly(b, offset, wanted) ==  \* no other offset will do
  /\ offset \in Occurrences(b)
  /\ IF wanted # NoTarget THEN offset = wanted
     ELSE \A o \in Occurrences(b) : offset <= o
IsFound(b, offset, wanted) ==
  /\ offset \in Occurrences(b)
  /\ IF wanted \in Occurrences(b) THEN offset = wanted
     ELSE \A o \in Occurrences(b) : offset <= o

Init ==
  /\ old \in BoundedSeq(Bytes, MaxOld) /\ new \in BoundedSeq(Bytes, MaxNew)
  /\ capacity \in NewBlockSizes
  /\ main = "start" /\ state = "Initial"
  /\ position = 0 /\ buffer = <<>> /\ newOffset = 0 /\ result = <<>>
  /\ unstored = <<>> /\ newBuffer = <<>> /\ signalDue = FALSE
  /\ queue = <<>> /\ event = FALSE
  /\ worker = "none" /\ taken = Stop /\ table = {} /\ digested = <<>>

\* started(): the thread is created before anything is read; nobody notices when
\* it cannot be.
CreateWorker ==
  /\ main = "start" /\ main' = "run"
  /\ worker' \in {"look", "none"}
  /\ UNCHANGED <<files, matching, filling, queue, event, taken, table, digested>>

-----------------------------------------------------------------------------
(***************************************************************************)
(* The matching states.  Every byte read goes to new_buffer too, before    *)
(* the comparison goes on (add_byte, add_block).                           *)
(***************************************************************************)
Comparing(s) ==
  /\ main = "run" /\ state = s
  /\ unstored = <<>> /\ ~signalDue
  /\ UNCHANGED <<files, main, newBuffer, signalDue, queue, event, hashing>>

AtEnd == position = Len(new)

\* read_more_data
ReadBlock ==
  /\ ~AtEnd
  /\ buffer' = Piece(new, position, BlockSize)
  /\ position' = position + Len(buffer')
  /\ unstored' = buffer'

Found(offset, wanted) == IsFound(buffer', offset, wanted)
NotFound(wanted) == \A o \in OldOffsets : ~Found(o, wanted)

NewCommand(cmds, from, copy) ==
  Append(cmds, [file_offset |-> from, length |-> 0, copy_from_old |-> copy])

\* The last command grows.
Longer(n) ==
  [result EXCEPT ![Len(result)].length = @ + n]

LastTarget(cmds) ==
  cmds[Len(cmds)].file_offset + cmds[Len(cmds)].length

Enter(s, cmds, from, copy) ==
  state' = s /\ result' = NewCommand(cmds, from, copy)

Finished ==
  /\ state' = "Final"
  /\ UNCHANGED <<position, unstored>>

StateInitial ==
  /\ Comparing("Initial")
  /\ newOffset' = 0
  /\ \/ AtEnd /\ Finished /\ UNCHANGED <<buffer, result>>
     \/ /\ ReadBlock
        /\ \/ \E o \in OldOffsets :
                Found(o, NoTarget) /\ Enter("Matching", result, o, TRUE)
           \/ NotFound(NoTarget) /\ Enter("NonMatching", result, 0, FALSE)

\* A match counts as a whole block, whatever was read.
StateMatching ==
  /\ Comparing("Matching")
  /\ newOffset' = newOffset + BlockSize
  /\ LET cmds   == Longer(BlockSize)
         target == LastTarget(cmds)
     IN  \/ AtEnd /\ Finished /\ result' = cmds /\ UNCHANGED buffer
         \/ /\ ReadBlock
            /\ \/ Found(target, target) /\ result' = cmds /\ UNCHANGED state
               \/ \E o \in OldOffsets \ {target} :
                    Found(o, target) /\ Enter("Matching", cmds, o, TRUE)
               \/ NotFound(target) /\ Enter("NonMatching", cmds, newOffset', FALSE)

\* non_matching_read_more_data: the window moves by a byte, and shrinks at the
\* end of the file.
MoveWindow ==
  \/ /\ ~AtEnd
     /\ buffer' = Append(Tail(buffer), new[position + 1])
     /\ position' = position + 1
     /\ unstored' = <<new[position + 1]>>
  \/ /\ AtEnd
     /\ buffer' = Tail(buffer) /\ buffer' # <<>>
     /\ UNCHANGED <<position, unstored>>

StateNonMatching ==
  /\ Comparing("NonMatching")
  /\ newOffset' = newOffset + 1
  /\ LET cmds == Longer(1)
     IN  \/ AtEnd /\ Len(buffer) = 1 /\ Finished /\ result' = cmds /\ buffer' = <<>>
         \/ /\ MoveWindow
            /\ \/ \E o \in OldOffsets :
                    Found(o, NoTarget) /\ Enter("Matching", cmds, o, TRUE)
               \/ NotFound(NoTarget) /\ result' = cmds /\ UNCHANGED state

-----------------------------------------------------------------------------
(***************************************************************************)
(* Handing buffers to the thread.                                          *)
(***************************************************************************)
\* The thread is inside its critical section while it is at "take".
MutexFree == worker # "take"

Enqueue_WrongKept(b) ==  \* new_buffer goes on with what was queued
  /\ MutexFree
  /\ queue' = Append(queue, Data(b))
  /\ newBuffer' = b
  /\ signalDue' = TRUE
Enqueue_WrongEnd(b) ==  \* push_front
  /\ MutexFree
  /\ queue' = <<Data(b)>> \o queue
  /\ newBuffer' = <<>>
  /\ signalDue' = TRUE
Enqueue_WrongSilent(b) ==  \* the event is set for full buffers only
  /\ MutexFree
  /\ queue' = Append(queue, Data(b))
  /\ newBuffer' = <<>>
  /\ signalDue' = (Len(b) = capacity)
Enqueue(b) ==
  /\ MutexFree
  /\ queue' = Append(queue, Data(b))
  /\ newBuffer' = <<>>
  /\ signalDue' = TRUE

\* add_block, once around its loop: new_buffer is queued when it is full.
StoreBytes ==
  /\ unstored # <<>> /\ ~signalDue
  /\ LET n == SmallerOf(capacity - Len(newBuffer), Len(unstored))
         b == newBuffer \o Piece(unstored, 0, n)
     IN  /\ unstored' = SubSeq(unstored, n + 1, Len(unstored))
         /\ IF Len(b) = capacity
              THEN Enqueue(b)
              ELSE newBuffer' = b /\ UNCHANGED <<signalDue, queue>>
  /\ UNCHANGED <<files, main, matching, event, hashing>>

SetEvent ==
  /\ signalDue /\ signalDue' = FALSE
  /\ event' = TRUE
  /\ UNCHANGED <<files, main, matching, unstored, newBuffer, queue, hashing>>

\* finished(): what is left in new_buffer is queued, even if that is nothing.
ForceBuffer ==
  /\ main = "run" /\ main' = "stop"
  /\ state = "Final" /\ unstored = <<>> /\ ~signalDue
  /\ Enqueue(newBuffer)
  /\ UNCHANGED <<files, matching, unstored, event, hashing>>

\* The stop sign is queued without the mutex and without the event.  When the
\* thread is taking a buffer at that moment, the two updates of the queue's
\* size race, and the new element may be lost.  (When the other update is lost,
\* what stays behind the stop sign is never looked at.)
PushStop ==
  /\ main = "stop" /\ main' = "join"
  /\ ~signalDue
  /\ \/ queue' = Append(queue, Stop)
     \/ ~MutexFree /\ UNCHANGED queue
  /\ UNCHANGED <<files, matching, filling, event, hashing>>

Join ==
  /\ main = "join" /\ main' = "done"
  /\ worker \in {"none", "ended"}
  /\ UNCHANGED <<files, matching, filling, queue, event, hashing>>

-----------------------------------------------------------------------------
(***************************************************************************)
(* The thread.                                                             *)
(***************************************************************************)
LookAtQueue ==
  /\ worker = "look"
  /\ worker' = IF queue # <<>> THEN "take" ELSE "wait"
  /\ UNCHANGED <<files, main, matching, filling, queue, event, taken, table,
                 digested>>

TakeBuffer ==
  /\ worker = "take" /\ worker' = "hash"
  /\ taken' = Head(queue) /\ queue' = Tail(queue)
  /\ UNCHANGED <<files, main, matching, filling, event, table, digested>>

\* An auto-reset event remembers that it was set, not how often.
WaitForEvent ==
  /\ worker = "wait" /\ worker' = "look"
  /\ event /\ event' = FALSE
  /\ UNCHANGED <<files, main, matching, filling, queue, taken, table, digested>>

\* The offset of a block is what was hashed before it.
HashBuffer ==
  /\ worker = "hash"
  /\ IF taken.stop
       THEN worker' = "ended" /\ UNCHANGED <<table, digested>>
       ELSE /\ worker' = "look"
            /\ table' = table \cup {[file_offset |-> Len(digested), hash |-> taken.data]}
            /\ digested' = digested \o taken.data
  /\ UNCHANGED <<files, main, matching, filling, queue, event, taken>>

-----------------------------------------------------------------------------
Process ==
  \/ CreateWorker \/ StateInitial \/ StateMatching \/ StateNonMatching
  \/ StoreBytes \/ SetEvent \/ ForceBuffer \/ PushStop \/ Join

Thread == LookAtQueue \/ TakeBuffer \/ WaitForEvent \/ HashBuffer

Next == Process \/ Thread

\* The system schedules a thread that can run.
Spec == Init /\ [][Next]_vars /\ WF_vars(Process) /\ WF_vars(Thread)

-----------------------------------------------------------------------------
(***************************************************************************)
(* Properties.                                                             *)
(***************************************************************************)
TypeOK ==
  /\ old \in Block /\ new \in Block /\ capacity \in NewBlockSizes
  /\ main \in {"start", "run", "stop", "join", "done"}
  /\ state \in {"Initial", "Matching", "NonMatching", "Final"}
  /\ position \in 0..Len(new) /\ buffer \in Block /\ newOffset \in Nat
  /\ result \in Seq(Command)
  /\ unstored \in Block /\ newBuffer \in Block /\ Len(newBuffer) < capacity
  /\ signalDue \in BOOLEAN /\ event \in BOOLEAN
  /\ worker \in {"none", "look", "take", "wait", "hash", "ended"}

\* What a command stands for; a copy stops at the end of the old file.
Meaning(c) ==
  Piece(IF c.copy_from_old THEN old ELSE new, c.file_offset, c.length)

Commands == [i \in DOMAIN result |-> Meaning(result[i])]

\* The commands put the new file together, from matching windows that moved
\* by blocks and by bytes (state_Matching, state_NonMatching), also when the
\* last block of either file is short.
CommandsRebuild == state = "Final" => FlattenSeq(Commands) = new

\* No byte is given as new that starts a whole block of the old file: no match
\* is missed when the window moves, and after a match the search starts right
\* behind it.
NoMatchMissed ==
  \A i \in DOMAIN result :
    LET c == result[i]
    IN  ~c.copy_from_old =>
          \A k \in c.file_offset..(c.file_offset + c.length - 1) :
            Occurrences(Piece(new, k, BlockSize)) = {}

\* The old block behind the last one is preferred, so that a run of blocks
\* that goes on in the old file is one command (search's target_offset).
RunsAreMerged ==
  \A i \in DOMAIN result \ {1} :
    LET c == result[i - 1] d == result[i]
    IN  c.copy_from_old /\ d.copy_from_old =>
          LET o == c.file_offset + c.length
          IN  Piece(old, o, BlockSize) # Piece(old, d.file_offset, BlockSize)

BlocksOf(file, size) ==
  {[file_offset |-> o, hash |-> Piece(file, o, size)] :
     o \in {k \in 0..Len(file) : k % size = 0}}

\* However the threads interleave, the thread that was told to stop has hashed
\* every byte once and in order: its table has each block of the new file, and
\* an empty block at the end if the last one was full (request_thread_stop).
TableDescribesNewFile ==
  worker = "ended" => table = BlocksOf(new, capacity) /\ digested = new

\* The thread sleeps and nobody will wake it: the stop sign was queued after
\* it had looked, or was lost, and the event had been used up.
StopMissed ==
  /\ main = "join" /\ worker = "wait" /\ ~event
  /\ queue \in {<<>>, <<Stop>>}

\* process() returns, unless the stop sign is missed; even then every block
\* has been hashed (process, thread_func).
ReturnsOrMissesStop ==
  <>(main = "done" \/ (StopMissed /\ digested = new))

-----------------------------------------------------------------------------
(***************************************************************************)
(* What the repository says of the program and its code does not do.       *)
(***************************************************************************)
\* main.cpp:11 waits for process() and then prints how long it took.
ProcessReturns == <>(main = "done")
=============================================================================
