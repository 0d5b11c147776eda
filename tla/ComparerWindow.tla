--------------------------- MODULE ComparerWindow ---------------------------
(***************************************************************************)
(* How FileComparer gets a window of the new file and finds it in the old  *)
(* one: the reader, the circular buffer that holds the window, the rolling *)
(* checksum kept beside it, the bitmap and the three searches of the       *)
(* sorted table.  And what the commands are for: RsyncChainLink, which     *)
(* tells where a section of the new file is.                               *)
(*                                                                         *)
(* Bytes are numbers here.  The 16 bits of either half of a checksum are   *)
(* ChecksumBase values, few enough for different blocks to share one.      *)
(***************************************************************************)
EXTENDS FileComparer, FiniteSetsExt

CONSTANTS
  DiskBlocks,   \* bytes read at a time; the code's default is 2^13
  ChecksumBase, \* values of a half of a checksum, for 2^16
  BitmapBase    \* values of the part of the upper half in the bitmap, for 2^8

ASSUME ComparerWindowAssumption ==
  /\ Bytes \subseteq Nat
  /\ DiskBlocks \subseteq Nat \ {0}
  /\ ChecksumBase \in Nat \ {0} /\ BitmapBase \in Nat \ {0}

VARIABLES
  reader,   \* ByteByByteReader
  ring,     \* circular_buffer: its cells, where it starts, how many it holds
  checksum  \* of the window: the halves a and b

window == <<reader, ring, checksum>>

----------------------------------------------------------------------------
(* The circular buffer                                                     *)

Garbage == 0  \* memory that was not written: any byte will do

Capacity(r) == Len(r.cells)

\* circular_buffer(1); it starts full.
NewRing == [cells |-> <<Garbage>>, start |-> 0, size |-> 1]

\* realloc and reset_size, as a block is read into the buffer.
Emptied(r) ==
  [cells |-> IF Capacity(r) = BlockSize THEN r.cells ELSE [i \in 1..BlockSize |-> Garbage],
   start |-> 0, size |-> 0]

\* push_buffer.  Where it goes round the end it copies the beginning of the bytes
\* once more, but a buffer that blocks are read into starts at 0.
PushBuffer(r, bytes) ==
  LET n == SmallerOf(Len(bytes), Capacity(r) - r.size)
      begin == (r.start + r.size) % Capacity(r)
      over == begin + n - Capacity(r)
  IN [r EXCEPT !.size = @ + n,
               !.cells = [i \in DOMAIN @ |->
                            IF i - 1 \in begin..(begin + n - 1) THEN bytes[i - begin]
                            ELSE IF i <= over THEN bytes[i] ELSE @[i]]]

First(r) == r.cells[r.start + 1]

\* pop and push.
Pop(r) == [r EXCEPT !.start = (@ + 1) % Capacity(r), !.size = @ - 1]
Push(r, byte) ==
  IF r.size = Capacity(r) THEN r
  ELSE [r EXCEPT !.cells[((r.start + r.size) % Capacity(r)) + 1] = byte, !.size = @ + 1]

\* process_whole: what the buffer holds, in order.
Contents(r) == [i \in 1..r.size |-> r.cells[((r.start + i - 1) % Capacity(r)) + 1]]

----------------------------------------------------------------------------
(* The reader.  Its buffers are filled from their start and never go round *)
(* their end, so that sequences stand for them.  A read that was begun is  *)
(* waited for before anything else looks at it: reading ahead is left out. *)

NoReader == [diskBlock |-> 0, offset |-> 0, eof |-> FALSE, current |-> <<>>, second |-> <<>>]

Drop(bytes, n) == SubSeq(bytes, n + 1, Len(bytes))

\* next_block into current_buffer2 (read_more2): what is left of the last disk block
\* and, if that is not enough, as many disk blocks as are needed or there are.
ReadMore2(r) ==
  LET missing == BlockSize - Len(r.current)
      blocks == (missing + r.diskBlock - 1) \div r.diskBlock
      bytes == IF missing <= 0 THEN <<>> ELSE Piece(new, r.offset, blocks * r.diskBlock)
  IN IF r.eof THEN r
     ELSE [r EXCEPT !.offset = @ + Len(bytes),
                    !.eof = Len(bytes) < missing,
                    !.second = Piece(r.current \o bytes, 0, BlockSize),
                    !.current = Drop(@ \o bytes, BlockSize)]

Refilled(r) == IF r.second = <<>> THEN ReadMore2(r) ELSE r

\* The constructors, which read the first block, and the seek(0) of reset_state.
OpenReader(diskBlock) == ReadMore2([NoReader EXCEPT !.diskBlock = diskBlock])
SeekStart(r) == [NoReader EXCEPT !.diskBlock = r.diskBlock]

\* next_byte: the byte is the first of current_buffer2, if there is one.
NextByte(r) == Refilled([r EXCEPT !.second = Tail(@)])

WholeBlock_WrongNoRefill(r) ==
  LET full == Refilled(r)
      n == BlockSize - Len(full.second)
      more == ReadMore2([full EXCEPT !.second = <<>>])
  IN IF full.second = <<>> \/ n = 0
       THEN [reader |-> [full EXCEPT !.second = <<>>], pieces |-> <<full.second>>]
     ELSE [reader |-> [more EXCEPT !.second = Drop(@, n)],
           pieces |-> <<full.second, Piece(more.second, 0, n)>>]

\* whole_block: what is left in current_buffer2 and, if that is no whole block, the
\* beginning of the next one.  No pieces are the end of the file.
WholeBlock(r) ==
  LET full == Refilled(r)
      n == BlockSize - Len(full.second)
      more == ReadMore2([full EXCEPT !.second = <<>>])
  IN IF full.second = <<>> THEN [reader |-> full, pieces |-> <<>>]
     ELSE IF n = 0
       THEN [reader |-> ReadMore2([full EXCEPT !.second = <<>>]), pieces |-> <<full.second>>]
     ELSE [reader |-> Refilled([more EXCEPT !.second = Drop(@, n)]),
           pieces |-> <<full.second, Piece(more.second, 0, n)>>]

----------------------------------------------------------------------------
(* The rolling checksum                                                    *)

\* compute_rsync_rolling_checksum
Checksum(bytes) ==
  LET n == Len(bytes)
  IN [a |-> MapThenSumSet(LAMBDA i : bytes[i], 1..n) % ChecksumBase,
      b |-> MapThenSumSet(LAMBDA i : bytes[i] * (n - i + 2), 1..n) % ChecksumBase]

\* subtract_rsync_rolling_checksum
Subtract(c, byte, size) ==
  [a |-> (c.a - byte) % ChecksumBase, b |-> (c.b - byte * (size + 1)) % ChecksumBase]

\* add_rsync_rolling_checksum
Add(c, byte) ==
  LET a == (c.a + byte) % ChecksumBase
  IN [a |-> a, b |-> (c.b + a + byte) % ChecksumBase]

----------------------------------------------------------------------------
(* The table and its searches                                              *)

Order(x, y) == IF x < y THEN -1 ELSE IF x > y THEN 1 ELSE 0

\* A checksum as the code packs it, and its bits in the bitmap.
Packed(c) == c.a + ChecksumBase * c.b
Bits(c) == <<c.a, c.b % BitmapBase>>

\* SHA-1, which memcmp puts into some order: a number, equal for equal bytes only.
Digest(bytes) == FoldLeft(LAMBDA d, byte : d * (Max(Bytes) + 1) + byte, 1, bytes)

ItemLess_WrongHashFirst(x, y) ==
  \/ x.hash < y.hash
  \/ x.hash = y.hash /\ x.file_offset < y.file_offset

\* rsync_table_item's operator<, and the old file's table sorted by it.
ItemLess(x, y) ==
  \/ x.rolling < y.rolling
  \/ /\ x.rolling = y.rolling
     /\ x.hash < y.hash \/ (x.hash = y.hash /\ x.file_offset < y.file_offset)

Table ==
  SetToSortSeq({[rolling |-> Packed(Checksum(Piece(old, o, BlockSize))),
                 hash |-> Digest(Piece(old, o, BlockSize)),
                 file_offset |-> o] : o \in OldOffsets}, ItemLess)

Pivot(begin, end) == begin + (end - begin) \div 2

\* The loop of both sides of a search: halves [begin, end) while it has more than
\* one element, to the right where the order at the pivot is one of these.
RECURSIVE Narrowed(_, _, _, _)
Narrowed(f, begin, end, right) ==
  LET pivot == Pivot(begin, end)
  IN IF begin >= end - 1 THEN <<begin, end>>
     ELSE IF f[pivot + 1] \in right THEN Narrowed(f, pivot, end, right)
     ELSE Narrowed(f, begin, pivot, right)

\* The first loop of a search: it stops where it meets an equal element.
RECURSIVE Met(_, _, _)
Met(f, begin, end) ==
  LET pivot == Pivot(begin, end)
  IN IF begin >= end - 1 THEN [begin |-> begin, end |-> end, in |-> -1]
     ELSE IF f[pivot + 1] < 0 THEN Met(f, pivot, end)
     ELSE IF f[pivot + 1] > 0 THEN Met(f, begin, pivot)
     ELSE [begin |-> begin, end |-> end, in |-> pivot]

TripleSearch_WrongEnd(f) ==
  LET n == Len(f) m == Met(f, 0, Len(f))
  IN IF n = 0 \/ f[1] > 0 THEN <<0, 0>>
     ELSE IF f[n] < 0 THEN <<n, n>>
     ELSE IF m.in = -1 THEN IF f[m.begin + 1] = 0 THEN <<m.begin, m.end>> ELSE <<0, 0>>
     ELSE <<IF f[1] = 0 THEN 0 ELSE Narrowed(f, m.begin, m.in, {-1})[2],
            IF f[n] = 0 THEN n ELSE Narrowed(f, m.in, m.end, {-1})[2]>>

\* triple_search over elements whose orders to what is sought are f: the range of
\* the equal ones, counted from 0, or an empty one.
TripleSearch(f) ==
  LET n == Len(f) m == Met(f, 0, Len(f))
  IN IF n = 0 \/ f[1] > 0 THEN <<0, 0>>
     ELSE IF f[n] < 0 THEN <<n, n>>
     ELSE IF f[1] = 0 /\ f[n] = 0 THEN <<0, n>>
     ELSE IF m.in = -1 THEN IF f[m.begin + 1] = 0 THEN <<m.begin, m.end>> ELSE <<0, 0>>
     ELSE <<IF f[1] = 0 THEN 0 ELSE Narrowed(f, m.begin, m.in, {-1})[2],
            IF f[n] = 0 THEN n ELSE Narrowed(f, m.in, m.end, {-1, 0})[2]>>

\* The items of a table that a search for the value of a field finds.
Equal(items, field, value) ==
  LET range == TripleSearch([i \in DOMAIN items |-> Order(items[i][field], value)])
  IN SubSeq(items, range[1] + 1, range[2])

\* search: bitmap, checksum, hash, and the wanted offset if it is there.
Search(target) ==
  LET byChecksum == Equal(Table, "rolling", Packed(checksum))
      byHash == Equal(byChecksum, "hash", Digest(Contents(ring)))
      wanted == Equal(byHash, "file_offset", target)
  IN IF \A o \in OldOffsets : Bits(Checksum(Piece(old, o, BlockSize))) # Bits(checksum)
     THEN NoTarget
     ELSE IF byHash = <<>> THEN NoTarget
     ELSE IF target = NoTarget \/ wanted = <<>> THEN byHash[1].file_offset
     ELSE wanted[1].file_offset

----------------------------------------------------------------------------
(* The steps of FileComparer, with the window                              *)

\* read_more_data; the first time, reset_state comes before.
ReadMoreData ==
  /\ StateInitial \/ StateMatching
  /\ \E block \in {WholeBlock(IF state = "Initial" THEN SeekStart(reader) ELSE reader)} :
        /\ reader' = block.reader
        /\ IF block.pieces = <<>> THEN UNCHANGED <<ring, checksum>>
           ELSE /\ ring' = FoldLeft(PushBuffer, Emptied(ring), block.pieces)
                /\ checksum' = Checksum(Contents(ring'))

\* non_matching_read_more_data
NonMatchingReadMoreData ==
  /\ StateNonMatching
  /\ LET less == Subtract(checksum, First(ring), ring.size)
         byte == Head(reader.second)
     IN IF reader.second = <<>>
          THEN ring' = Pop(ring) /\ checksum' = less /\ UNCHANGED reader
        ELSE /\ reader' = NextByte(reader)
             /\ ring' = Push(Pop(ring), byte)
             /\ checksum' = Add(less, byte)

WindowInit ==
  /\ Init
  /\ \E n \in DiskBlocks : reader = OpenReader(n)
  /\ ring = NewRing
  /\ checksum = Checksum(<<>>)

WindowProcess ==
  \/ ReadMoreData \/ NonMatchingReadMoreData
  \/ UNCHANGED window /\ (CreateWorker \/ StoreBytes \/ SetEvent \/ ForceBuffer \/ PushStop \/ Join)
WindowThread == Thread /\ UNCHANGED window

WindowNext == WindowProcess \/ WindowThread

WindowSpec ==
  /\ WindowInit /\ [][WindowNext]_<<vars, window>>
  /\ WF_<<vars, window>>(WindowProcess) /\ WF_<<vars, window>>(WindowThread)

----------------------------------------------------------------------------
(* RsyncChainLink                                                          *)

\* Its constructor: the parts of the new file, in the order of their places.
Parts(commands) ==
  LET before(i) == MapThenSumSet(LAMBDA k : commands[k].length, 1..(i - 1))
  IN [i \in DOMAIN commands |->
        [physical |-> commands[i].file_offset, virtual |-> before(i),
         size |-> commands[i].length, old |-> commands[i].copy_from_old]]

\* find_all with find_part's predicate: the part that holds the offset.
FindPart(parts, offset) ==
  LET holds(p) == \/ p.virtual <= offset /\ offset < p.virtual + p.size
                  \/ p.virtual >= offset
      f == [i \in DOMAIN parts |-> IF holds(parts[i]) THEN 1 ELSE 0]
  IN IF f = <<>> \/ f[1] = 1 THEN 1
     ELSE Narrowed(f, 0, Len(f), {0})[2] + 1

Consumed_Wrong(part, offset, size) == SmallerOf(size, part.size)

\* What a part gives of a section that begins in it.
Consumed(part, offset, size) == SmallerOf(size, part.size - (offset - part.virtual))

\* reconstruct_section, down to the two files: the bytes its pieces stand for.
ReconstructSection(commands, from, length) ==
  LET parts == Parts(commands)
      reconstruct[offset \in from..(from + length)] ==
        LET i == FindPart(parts, offset)
            size == from + length - offset
            n == Consumed(parts[i], offset, size)
            source == IF parts[i].old THEN old ELSE new
        IN IF size = 0 \/ i > Len(parts) \/ offset >= parts[i].virtual + parts[i].size
           THEN <<>>
           ELSE Piece(source, parts[i].physical + offset - parts[i].virtual, n)
                  \o (IF n = size THEN <<>> ELSE reconstruct[offset + n])
  IN reconstruct[from]

----------------------------------------------------------------------------
(* Properties                                                              *)

\* The window is what FileComparer takes it for, after every move by a block or by
\* a byte, in the middle of the file or shrinking at its end: the reader hands out
\* every byte once, in order and to the end, whichever way it is asked, and the
\* checksum that was carried along is the window's.
WindowIsWhatWasRead ==
  main = "run" =>
    /\ state \in {"Matching", "NonMatching"} =>
         Contents(ring) = buffer /\ checksum = Checksum(buffer)
    /\ state = "Final" => reader.offset = Len(new) /\ reader.second = <<>>

\* search() answers as if it compared the window with every block: neither the
\* bitmap nor a search of the sorted table drops a match or finds one that is not
\* there, though different blocks may share a checksum.
SearchIsExact ==
  main = "run" /\ state \in {"Matching", "NonMatching"} =>
    \A target \in {NoTarget} \cup 0..(MaxOld + BlockSize) :
      IF Search(target) = NoTarget THEN Occurrences(Contents(ring)) = {}
      ELSE IsFound(buffer, Search(target), target)

\* The postconditions of triple_search (binary_search.h:29-43), for orders with x
\* elements below, y equal and z above, up to one more than the old file has bytes:
\* the equal ones are found, and where nothing but lower or nothing but higher ones
\* are, the empty range lies at their end or at their beginning.
\* (Asked once for each pair of files, before anything is read.)
TripleSearchFindsRange ==
  main = "start" =>
    \A x, y, z \in 0..(Len(old) + 1) :
      LET range == TripleSearch([i \in 1..(x + y + z) |->
                                   IF i <= x THEN -1 ELSE IF i <= x + y THEN 0 ELSE 1])
      IN /\ IF y > 0 THEN range = <<x, x + y>> ELSE range[1] = range[2]
         /\ x + y = 0 => range = <<0, 0>>
         /\ y + z = 0 => range = <<x, x>>

\* Every section of the new file can be put together from the finished commands,
\* also one that begins or ends inside a command.
SectionsReconstructed ==
  main = "done" =>
    \A from \in 0..Len(new) : \A length \in 0..(Len(new) - from) :
      ReconstructSection(result, from, length) = Piece(new, from, length)
=============================================================================
