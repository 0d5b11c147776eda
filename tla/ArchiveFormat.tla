--------------------------- MODULE ArchiveFormat ---------------------------
(***************************************************************************)
(* One version file, from the first byte written to the last read:         *)
(* ArchiveWriter puts files, objects and the manifest through LZMA and     *)
(* hash filters into a transacted file; ArchiveReader finds its way back   *)
(* from the end of the file.                                               *)
(*                                                                         *)
(* A byte of plaintext is <<kind, number, position>>, so that no two are   *)
(* equal: the code never looks at one.  A unit of the file is a block the  *)
(* encoder packed, the end of a packed stream, the length of the manifest  *)
(* or the hash of what precedes it.                                        *)
(***************************************************************************)
EXTENDS Integers, FiniteSets, Sequences, SequencesExt

CONSTANTS
  MaxFiles,    \* bound: files in the archive
  MaxObjects,  \* bound: base objects in the archive
  FileLengths, \* bound: bytes of a file
  ObjectLengths, \* bound: bytes of a serialized object
  OutSize,     \* units the encoder's output buffer holds
  InSize,      \* units the decoder's input buffer holds
  ReadSize     \* bytes a consumer asks for at once

ASSUME ArchiveFormatAssumption ==
  /\ {MaxFiles, MaxObjects} \cup FileLengths \subseteq Nat
  /\ ObjectLengths \subseteq Nat \ {0}
  /\ {OutSize, InSize, ReadSize} \subseteq Nat \ {0}

VARIABLES
  writer,   \* the writer's _state, "Failed" once it threw
  image,    \* the transacted file
  hashed,   \* what _hashedStream has passed on and hashed
  encoder,  \* the LzmaOutputStream under _outputFilter
  call,     \* the native call the writer is in: "idle", "write", "flush"
  after,    \* what AddFso and AddVersionManifest go on with after a flush
  metadata, \* _streamIds, _streamSizes, _baseObjectEntrySizes, _initialFsoOffset
  archive,  \* the version file others can open, <<>> while there is none
  reader,   \* ArchiveReader, its file position and the item it is at
  decoder,  \* the LzmaInputStream it reads through
  files,    \* ghost: the contents given to AddFile
  objects   \* ghost: the contents given to AddFso

writing == <<writer, image, hashed, encoder, call, after, metadata, files, objects>>
reading == <<reader, decoder>>
vars == <<writing, archive, reading>>

Bytes(kind, number, length) == [i \in 1..length |-> <<kind, number, i>>]

\* A serialized manifest is two bytes long, so that it may be packed as one
\* block or two.
Serialized(manifest) == [i \in 1..2 |-> <<"manifest", manifest, i>>]
Deserialized(bytes) == bytes[1][2]

Block(bytes) == <<"block", bytes>>
End == <<"end">>
Length(n) == <<"length", n>>
Hash(units) == <<"hash", units>>

----------------------------------------------------------------------------
(* The encoder                                                             *)

Closed == [open |-> FALSE, action |-> "RUN", input |-> <<>>, pending |-> <<>>, out |-> <<>>]
NewEncoder == [Closed EXCEPT !.open = TRUE]

\* lzma_code: takes some of the input, packs none or some of what it holds
\* and, told to finish, ends the stream when it holds nothing.
Encoded(e) ==
  LET Absorb(n) == [e EXCEPT !.input = SubSeq(@, n + 1, Len(@)),
                             !.pending = @ \o SubSeq(e.input, 1, n)]
      Pack(f, n) == [f EXCEPT !.pending = SubSeq(@, n + 1, Len(@)),
                              !.out = Append(@, Block(SubSeq(f.pending, 1, n)))]
      absorbed == {Absorb(n) : n \in 1..Len(e.input)}
  IN IF e.action = "RUN"
     THEN absorbed \cup UNION {{Pack(f, n) : n \in 1..Len(f.pending)} : f \in absorbed}
     ELSE IF e.pending # <<>>
          THEN {Pack(e, n) : n \in 1..Len(e.pending)}
          ELSE {[e EXCEPT !.out = Append(@, End)]}

StreamEnded(e) == e.out # <<>> /\ Last(e.out) = End

PassData_WrongOnlyAtEnd(e) ==
  IF StreamEnded(e)
  THEN /\ image' = image \o e.out
       /\ hashed' = hashed \o e.out
       /\ encoder' = [e EXCEPT !.out = <<>>]
  ELSE encoder' = e /\ UNCHANGED <<image, hashed>>

\* LzmaOutputStream::pass_data_to_stream: the buffer goes on when it is full or
\* the stream has ended.
PassData(e) ==
  IF Len(e.out) = OutSize \/ StreamEnded(e)
  THEN /\ image' = image \o e.out
       /\ hashed' = hashed \o e.out
       /\ encoder' = [e EXCEPT !.out = <<>>]
  ELSE encoder' = e /\ UNCHANGED <<image, hashed>>

\* One turn of the loop of LzmaOutputStream::write, which ends when the input
\* is used up, or of flush, which ends with the stream.
Encode ==
  /\ call # "idle"
  /\ \E e \in Encoded(encoder) :
       /\ PassData(e)
       /\ call' = IF (IF call = "write" THEN e.input = <<>> ELSE StreamEnded(e))
                  THEN "idle" ELSE call
  /\ UNCHANGED <<writer, after, metadata, archive, reading, files, objects>>

\* OutputFilter.Write, through to LzmaOutputStream::write; nothing to write
\* leaves its loop at once.
Write(e, bytes) ==
  /\ encoder' = [e EXCEPT !.input = bytes]
  /\ call' = IF bytes = <<>> THEN "idle" ELSE "write"

\* LzmaOutputStream::flush: finishes the stream, whatever its name says.
Flush ==
  /\ encoder' = [encoder EXCEPT !.action = "FINISH"]
  /\ call' = "flush"

----------------------------------------------------------------------------
(* The writer                                                              *)

NoMetadata == [ids |-> <<>>, sizes |-> <<>>, entries |-> <<>>, offset |-> 0]

\* AddFile: all files go through one filter.
AddFile(length) ==
  LET id == Len(files) + 1
      bytes == Bytes("file", id, length)
  IN /\ call = "idle" /\ after = "nothing"
     /\ writer \in {"Initial", "PushingFiles"}
     /\ Len(files) < MaxFiles
     /\ Write(IF writer = "Initial" THEN NewEncoder ELSE encoder, bytes)
     /\ writer' = "PushingFiles"
     /\ metadata' = [metadata EXCEPT !.ids = Append(@, id), !.sizes = Append(@, length)]
     /\ files' = Append(files, bytes)
     /\ UNCHANGED <<image, hashed, after, archive, reading, objects>>

\* The rest of AddFso, with the objects' filter open: the size of the entry is
\* what BytesWritten of the filter grows by.
PushObject(e, offset) ==
  LET bytes == Last(objects')
  IN /\ Write(e, bytes)
     /\ writer' = "PushingFsos"
     /\ metadata' = [metadata EXCEPT !.entries = Append(@, Len(bytes)), !.offset = offset]

AddFso(length) ==
  /\ call = "idle" /\ after = "nothing"
  /\ writer \in {"Initial", "PushingFiles", "PushingFsos"}
  /\ Len(objects) < MaxObjects
  /\ objects' = Append(objects, Bytes("object", Len(objects) + 1, length))
  /\ CASE writer = "Initial" -> PushObject(NewEncoder, Len(hashed)) /\ after' = after
       [] writer = "PushingFiles" -> Flush /\ after' = "object" /\ UNCHANGED <<writer, metadata>>
       [] writer = "PushingFsos" -> PushObject(encoder, metadata.offset) /\ after' = after
  /\ UNCHANGED <<image, hashed, archive, reading, files>>

\* The files' filter has been flushed and disposed of; it took no other stream
\* with it, as _hashedStream keeps the file open.
FirstObject ==
  /\ after = "object" /\ call = "idle"
  /\ UNCHANGED objects
  /\ PushObject(NewEncoder, Len(hashed))
  /\ after' = "nothing"
  /\ UNCHANGED <<image, hashed, archive, reading, files>>

AddVersionManifest_WrongNoCheck ==
  /\ call = "idle" /\ after = "nothing"
  /\ writer \in {"PushingFiles", "PushingFsos"}
  /\ Flush /\ after' = "manifest"
  /\ UNCHANGED <<writer, image, hashed, metadata, archive, reading, files, objects>>

\* AddVersionManifest is refused before the first object.
AddVersionManifest ==
  /\ call = "idle" /\ after = "nothing"
  /\ writer \in {"Initial", "PushingFiles", "PushingFsos"}
  /\ IF writer = "PushingFsos"
     THEN Flush /\ after' = "manifest" /\ UNCHANGED writer
     ELSE writer' = "Failed" /\ UNCHANGED <<encoder, call, after>>
  /\ UNCHANGED <<image, hashed, metadata, archive, reading, files, objects>>

Manifest == [ids |-> metadata.ids, sizes |-> metadata.sizes, entries |-> metadata.entries,
             entriesSize |-> Len(hashed) - metadata.offset]

\* The manifest goes through a filter of its own; x0 is kept in the metadata.
WriteManifest ==
  /\ after = "manifest" /\ call = "idle"
  /\ Write(NewEncoder, Serialized(Manifest))
  /\ after' = "flush"
  /\ metadata' = [metadata EXCEPT !.offset = Len(hashed)]
  /\ UNCHANGED <<writer, image, hashed, archive, reading, files, objects>>

FlushManifest_WrongNoFlush ==
  /\ after = "flush" /\ call = "idle"
  /\ after' = "trailer"
  /\ UNCHANGED <<writer, image, hashed, encoder, call, metadata, archive, reading, files, objects>>

FlushManifest ==
  /\ after = "flush" /\ call = "idle"
  /\ Flush
  /\ after' = "trailer"
  /\ UNCHANGED <<writer, image, hashed, metadata, archive, reading, files, objects>>

\* The length of the packed manifest goes through the hashed stream, the hash
\* of everything written so far does not.
Trailed(units) ==
  LET whole == Append(units, Length(Len(units) - metadata.offset))
  IN Append(whole, Hash(hashed \o <<Last(whole)>>))

\* The rest of AddVersionManifest: the transaction makes the file visible.
Commit ==
  /\ after = "trailer" /\ call = "idle"
  /\ archive' = Trailed(image)
  /\ writer' = "Final"
  /\ image' = <<>> /\ hashed' = <<>> /\ encoder' = Closed /\ metadata' = NoMetadata
  /\ after' = "nothing"
  /\ UNCHANGED <<call, reading, files, objects>>

\* An exception, or the end of the process, anywhere: Dispose finishes what is
\* open and rolls the transaction back.
Fail ==
  /\ writer \notin {"Final", "Failed"}
  /\ writer' = "Failed"
  /\ image' = <<>> /\ hashed' = <<>> /\ encoder' = Closed /\ metadata' = NoMetadata
  /\ call' = "idle" /\ after' = "nothing"
  /\ UNCHANGED <<archive, reading, files, objects>>

----------------------------------------------------------------------------
(* The decoder                                                             *)

NewDecoder == [input |-> <<>>, pending |-> <<>>, ended |-> FALSE, finish |-> FALSE,
               atEof |-> FALSE, room |-> 0, output |-> <<>>]

\* What the stream under the decoder still has: the file from the position on,
\* up to the bound of the BoundedStream between them.
Available == SubSeq(archive, reader.position + 1, reader.limit)

Smaller(a, b) == IF a < b THEN a ELSE b

\* A turn of the loop of LzmaInputStream::read first fills the input buffer; a
\* buffer that does not fill has met the end of the stream.
Filled ==
  IF decoder.input = <<>> /\ ~decoder.finish
  THEN [decoder EXCEPT !.input = SubSeq(Available, 1, Smaller(InSize, Len(Available))),
                       !.finish = Len(Available) < InSize]
  ELSE decoder

\* lzma_code: gives out what fits, unpacks a block, or meets the end of the
\* stream, behind which it takes no more.
Decoded(d) ==
  LET n == Smaller(d.room, Len(d.pending))
  IN IF d.pending # <<>>
     THEN [d EXCEPT !.pending = SubSeq(@, n + 1, Len(@)), !.room = @ - n,
                    !.output = @ \o SubSeq(d.pending, 1, n)]
     ELSE IF Head(d.input)[1] = "block"
     THEN [d EXCEPT !.input = Tail(@), !.pending = Head(d.input)[2]]
     ELSE [d EXCEPT !.input = Tail(@), !.ended = TRUE]

\* One turn of the loop.  What is no packed data, or ends before its stream
\* does, is an exception.
Decode ==
  LET d == Filled
      broken == /\ ~d.ended /\ d.pending = <<>>
                /\ d.input = <<>> \/ Head(d.input)[1] \notin {"block", "end"}
  IN /\ reader.step = "read" /\ decoder.room > 0 /\ ~decoder.ended /\ ~decoder.atEof
     /\ decoder' = IF broken \/ d.ended THEN d ELSE Decoded(d)
     /\ reader' = [reader EXCEPT !.position = @ + Len(d.input) - Len(decoder.input),
                                 !.step = IF broken THEN "failed" ELSE @]
     /\ UNCHANGED <<writing, archive>>

Returned_WrongEof(d, asked) == [d EXCEPT !.atEof = @ \/ d.output = <<>>]

\* How a read ends: nothing read means the end of the stream, unless nothing was
\* asked for.
Returned(d, asked) == [d EXCEPT !.atEof = @ \/ (d.output = <<>> /\ asked > 0)]

----------------------------------------------------------------------------
(* The reader                                                              *)

NoReader == [task |-> "none", step |-> "idle", position |-> 0, limit |-> 0,
             manifest |-> <<>>, manifestOffset |-> 0, wanted |-> 0, asked |-> 0,
             item |-> <<>>, result |-> <<>>]

MayStart(task) == archive # <<>> /\ reader.step = "idle" /\ reader.task # "streams"

\* Seek, put a BoundedStream and a filter on the file.
Start(task, position, limit, r) ==
  /\ reader' = [r EXCEPT !.task = task, !.step = "next", !.position = position,
                         !.limit = limit, !.item = <<>>, !.result = <<>>]
  /\ decoder' = NewDecoder
  /\ UNCHANGED <<writing, archive>>

\* ReadManifest: the last unit is the hash, the one before it the length.
ReadManifest ==
  LET offset == IF reader.manifest # <<>> THEN reader.manifestOffset
                ELSE Len(archive) - 2 - archive[Len(archive) - 1][2]
      size == archive[Len(archive) - 1][2]
  IN /\ MayStart("manifest")
     /\ Start("manifest", offset, offset + size, [reader EXCEPT !.manifestOffset = offset])

\* ReadBaseObjects, with the manifest read (by itself, where it has to).
ReadBaseObjects ==
  /\ MayStart("objects") /\ reader.manifest # <<>>
  /\ Start("objects", reader.manifestOffset - reader.manifest[1].entriesSize,
           reader.manifestOffset, reader)

\* Begin, whose callback takes the first wanted streams whole and of the others,
\* whose ids are above all it needs, nothing.
Begin ==
  /\ MayStart("streams") /\ reader.manifest # <<>>
  /\ \E wanted \in 0..Len(reader.manifest[1].ids) :
       Start("streams", 0, Len(archive), [reader EXCEPT !.wanted = wanted])

Sizes ==
  CASE reader.task = "manifest" -> <<>>
    [] reader.task = "objects" -> reader.manifest[1].entries
    [] reader.task = "streams" -> SubSeq(reader.manifest[1].sizes, 1, reader.wanted)

\* The consumer of the current item asks for more, through the BoundedStream of
\* the item unless it is the manifest.
Ask ==
  LET size == Sizes[Len(reader.result) + 1]
      count == IF reader.task = "manifest" THEN ReadSize
               ELSE Smaller(ReadSize, size - Len(reader.item))
  IN /\ reader.step = "next"
     /\ reader.task = "manifest" \/ Len(reader.result) < Len(Sizes)
     /\ reader' = [reader EXCEPT !.step = "read", !.asked = count]
     /\ decoder' = [decoder EXCEPT !.room = count, !.output = <<>>]
     /\ UNCHANGED <<writing, archive>>

Return_WrongIgnoresEnd ==
  /\ reader.step = "read" /\ decoder.room = 0
  /\ decoder' = Returned(decoder, reader.asked)
  /\ reader' = IF decoder.output # <<>>
               THEN [reader EXCEPT !.step = "next", !.item = @ \o decoder.output]
               ELSE [reader EXCEPT !.step = "next", !.item = <<>>,
                                   !.result = Append(reader.result, reader.item)]
  /\ UNCHANGED <<writing, archive>>

\* A read returns when it is filled, the packed stream has ended or the filter
\* was at its end before; nothing read ends the item.
Return ==
  LET got == decoder.output
      items == Append(reader.result, reader.item)
  IN /\ reader.step = "read"
     /\ decoder.room = 0 \/ decoder.ended \/ decoder.atEof
     /\ decoder' = Returned(decoder, reader.asked)
     /\ reader' =
          IF got # <<>> THEN [reader EXCEPT !.step = "next", !.item = @ \o got]
          ELSE IF reader.task = "manifest"
          THEN [reader EXCEPT !.step = "idle", !.result = items,
                              !.manifest = <<Deserialized(reader.item)>>]
          ELSE [reader EXCEPT !.step = "next", !.result = items, !.item = <<>>]
     /\ UNCHANGED <<writing, archive>>

\* All items were read.
EndRead ==
  /\ reader.step = "next"
  /\ reader.task # "manifest" /\ Len(reader.result) = Len(Sizes)
  /\ reader' = [reader EXCEPT !.step = "idle"]
  /\ decoder' = NewDecoder
  /\ UNCHANGED <<writing, archive>>

----------------------------------------------------------------------------
Init ==
  /\ writer = "Initial"
  /\ image = <<>> /\ hashed = <<>> /\ archive = <<>>
  /\ encoder = Closed /\ call = "idle" /\ after = "nothing"
  /\ metadata = NoMetadata
  /\ reader = NoReader /\ decoder = NewDecoder
  /\ files = <<>> /\ objects = <<>>

Writer ==
  \/ \E n \in FileLengths : AddFile(n)
  \/ \E n \in ObjectLengths : AddFso(n)
  \/ FirstObject \/ AddVersionManifest \/ WriteManifest \/ FlushManifest \/ Commit
  \/ Encode
  \/ Fail

Reader == ReadManifest \/ ReadBaseObjects \/ Begin \/ Ask \/ Decode \/ Return \/ EndRead

Next == Writer \/ Reader

Spec == Init /\ [][Next]_vars

\* A task of the reader runs until it ends.
FairSpec == Spec /\ WF_vars(Ask \/ Decode \/ Return \/ EndRead)

----------------------------------------------------------------------------
(* Properties                                                              *)

Unit == {"block", "end", "length", "hash"}

\* Every variable has its sort, and the encoder holds nothing unless open.
TypeOK ==
  /\ writer \in {"Initial", "PushingFiles", "PushingFsos", "Final", "Failed"}
  /\ call \in {"idle", "write", "flush"}
  /\ after \in {"nothing", "object", "manifest", "flush", "trailer"}
  /\ encoder.action \in {"RUN", "FINISH"}
  /\ Len(encoder.out) < OutSize
  /\ \A units \in {image, hashed, archive} : \A i \in 1..Len(units) : units[i][1] \in Unit
  /\ reader.task \in {"none", "manifest", "objects", "streams"}
  /\ reader.step \in {"idle", "next", "read", "failed"}
  /\ {reader.position, reader.limit} \subseteq 0..Len(archive)

\* What ArchiveReader reads is what ArchiveWriter was given: every object
\* (ReadBaseObjects, from an offset computed backwards from the end) and every
\* stream Begin gives out, in order and under its id, with no byte of another.
ReadsBackWhatWasWritten ==
  LET given == IF reader.task = "objects" THEN objects ELSE SubSeq(files, 1, reader.wanted)
  IN reader.task \in {"objects", "streams"} =>
       /\ IsPrefix(reader.result, given)
       /\ reader.step = "idle" => reader.result = given
       /\ reader.task = "streams" =>
            reader.manifest[1].ids = [i \in 1..Len(files) |-> i]

\* A version file that others see can be read: no read of it throws.
ArchivesAreReadable == reader.step # "failed"

\* The transaction shows a version file only whole: with every file and object
\* given, ended streams, and a hash of all that precedes the hash.
OnlyWholeArchives ==
  archive # <<>> =>
    /\ writer = "Final" /\ objects # <<>>
    /\ Last(archive) = Hash(Front(archive))
    /\ Cardinality({i \in 1..Len(archive) : archive[i] = End}) = (IF files = <<>> THEN 2 ELSE 3)

\* A task of the reader ends: no loop of the filters waits for data or for an
\* end of the stream that does not come.
ReadsEnd == reader.step \in {"next", "read"} ~> reader.step \notin {"next", "read"}
=============================================================================
