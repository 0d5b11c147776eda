------------------------ MODULE BackupRestore_proofs ------------------------
(***************************************************************************)
(* What a restore leaves in the source directory.  The backup half of the  *)
(* engine keeps its invariants through restores: to it a session that      *)
(* restores is an open one in which the source is replaced.                *)
(***************************************************************************)
EXTENDS BackupRestore, FiniteSetTheorems, TLAPS

Restoring == pc \in {"recreate", "copy", "failed"}

phase == IF Restoring THEN "open" ELSE pc

E == INSTANCE BackupData_proofs WITH pc <- phase

-----------------------------------------------------------------------------
(***************************************************************************)
(* The steps of a session as the backup half of the engine sees them.      *)
(***************************************************************************)
LEMMA EngineNone ==
  /\ None \notin E!Main /\ None \notin E!Fso /\ None \notin E!StoredFso
  /\ None \notin E!Archive /\ None \notin E!Shadow
BY NoneAssumption
   DEF E!Main, E!Fso, E!StoredFso, E!Archive, E!Shadow, Main, Fso, StoredFso, Archive, Shadow,
       E!FileTypes, FileTypes, E!Modes, Modes, E!Locs, Locs, E!Paths, Paths, E!Inode, Inode,
       E!Written, Written

LEMMA EngineExclusions == Exclusions \subseteq SUBSET E!Paths
BY BackupEngineAssumption DEF E!Paths, Paths

LEMMA EngineVars ==
  UNCHANGED <<vars, phase>> => UNCHANGED E!vars
BY DEF vars, disk, store, settings, objects, oldTree, ids, pending, E!vars, E!disk, E!store,
       E!settings, E!objects, E!oldTree, E!ids, E!pending

LEMMA PhaseKept ==
  /\ pc = "closed" \/ pc = "open" \/ pc = "list" \/ pc = "scan" \/ pc = "archive" => phase = pc
  /\ pc' = "closed" \/ pc' = "open" \/ pc' = "list" \/ pc' = "scan" \/ pc' = "archive"
       => phase' = pc'
BY DEF phase, Restoring

LEMMA EngineOpen == OpenTarget => E!Open
BY PhaseKept
   DEF OpenTarget, Open, Stored, Versions, IsVersionCount, IsLatest, disk, store, objects,
       oldTree, ids, pending, E!Open, E!Stored, E!Versions, E!IsVersionCount, E!IsLatest,
       E!disk, E!store, E!objects, E!oldTree, E!ids, E!pending

LEMMA EngineQuit == Quit => E!EndSession
<1> SUFFICES ASSUME Quit PROVE E!EndSession
  OBVIOUS
<1>1. phase # "closed" /\ phase' = "closed"
  BY PhaseKept DEF Quit, EndSession, phase, Restoring
<1> QED
  BY <1>1
     DEF Quit, EndSession, disk, store, NoObjects, NoTruth, Paths, E!EndSession, E!disk,
         E!store, E!NoObjects, E!NoTruth, E!Paths

LEMMA EngineBegin == BeginBackup => E!BeginBackup
BY PhaseKept
   DEF BeginBackup, IsLatest, LoadedStreamId, ContentsOf, IsFile, Paths, disk, store, settings,
       objects, oldTree, pending, E!BeginBackup, E!IsLatest, E!LoadedStreamId, E!ContentsOf,
       E!IsFile, E!Paths, E!disk, E!store, E!settings, E!objects, E!oldTree, E!pending

LEMMA EngineList == ListSource \/ ReuseBaseObjects => E!ListSource \/ E!ReuseBaseObjects
BY PhaseKept
   DEF ListSource, ReuseBaseObjects, CurrentSourceLocation, SourceLocation, MapPathForward,
       Reachable, EntryAt, Paths, disk, store, settings, objects, oldTree, ids, pending,
       E!ListSource, E!ReuseBaseObjects, E!CurrentSourceLocation, E!SourceLocation,
       E!MapPathForward, E!Reachable, E!EntryAt,
       E!Paths, E!disk, E!store, E!settings, E!objects, E!oldTree, E!ids, E!pending

LEMMA EngineScan ==
  ASSUME NEW p \in Paths, ScanEntry(p) \/ RecalculateFileGuid(p)
  PROVE  p \in E!Paths /\ (E!ScanEntry(p) \/ E!RecalculateFileGuid(p))
BY PhaseKept
   DEF ScanEntry, RecalculateFileGuid, IsFirst, FsoFor, BackupModeFor, FileTypes, Reachable,
       EntryAt, InodeAt, IsFile, Paths, disk, store, settings, objects, oldTree, ids, pending,
       E!ScanEntry, E!RecalculateFileGuid, E!IsFirst, E!FsoFor, E!BackupModeFor, E!FileTypes,
       E!Reachable, E!EntryAt, E!InodeAt, E!IsFile, E!Paths, E!disk, E!store, E!settings,
       E!objects, E!oldTree, E!ids, E!pending

LEMMA EnginePrepare == PrepareStreams => E!PrepareStreams
BY PhaseKept
   DEF PrepareStreams, OldObject, Paths, disk, store, settings, oldTree, pending,
       E!PrepareStreams, E!OldObject, E!Paths, E!disk, E!store, E!settings, E!oldTree,
       E!pending

LEMMA EngineVisit == \A p : Visit(p) => E!Visit(p)
BY PhaseKept
   DEF Visit, IsFirst, disk, store, settings, oldTree, E!Visit, E!IsFirst, E!disk, E!store,
       E!settings, E!oldTree

LEMMA EngineObjects ==
  /\ \A p : OldObject(p) = E!OldObject(p)
  /\ \A f : /\ HasKnownGuid(f) <=> E!HasKnownGuid(f)
            /\ Eligible(f) <=> E!Eligible(f)
            /\ Criterium(f) = E!Criterium(f)
  /\ \A l, p : ReadAt(l, p) = E!ReadAt(l, p)
BY DEF OldObject, HasKnownGuid, Eligible, FileTypes, Criterium, HashAutoLimit, ReadAt, EntryAt,
       InodeAt, Reachable, IsFile, E!OldObject, E!HasKnownGuid, E!Eligible, E!FileTypes,
       E!Criterium, E!HashAutoLimit, E!ReadAt, E!EntryAt, E!InodeAt, E!Reachable, E!IsFile

LEMMA EngineSkip ==
  ASSUME NEW p \in Paths, SkipObject(p)
  PROVE  E!SkipObject(p)
<1>1. Marked(base[p]) = E!Marked(base[p])
  BY EngineObjects DEF Marked, E!Marked
<1>2. \A f : FixUpStreamReference(f) = E!FixUpStreamReference(f)
  BY EngineObjects DEF FixUpStreamReference, E!FixUpStreamReference
<1>3. Visit(p) /\ E!Visit(p) /\ (ShouldBeAdded(base[p]) <=> E!ShouldBeAdded(base[p]))
  BY EngineVisit, EngineObjects DEF SkipObject, ShouldBeAdded, E!ShouldBeAdded
<1> QED
  BY <1>1, <1>2, <1>3 DEF SkipObject, E!SkipObject

LEMMA EngineAddFull ==
  ASSUME NEW p \in Paths, NEW h, AddFullStream(p, h)
  PROVE  E!AddFullStream(p, h)
BY EngineObjects
   DEF AddFullStream, Marked, Register, E!AddFullStream, E!Marked, E!Register

LEMMA EngineAdd ==
  ASSUME NEW p \in Paths, AddInitialStream(p) \/ AddChangedFile(p)
  PROVE  E!AddInitialStream(p) \/ E!AddChangedFile(p)
BY EngineVisit, EngineObjects, EngineAddFull
   DEF AddInitialStream, AddChangedFile, ShouldBeAdded, NeedsHash, HashOf, FileHasChanged,
       E!AddInitialStream, E!AddChangedFile, E!ShouldBeAdded, E!NeedsHash, E!HashOf,
       E!FileHasChanged

LEMMA EngineKeep ==
  ASSUME NEW p \in Paths, KeepUnmodified(p)
  PROVE  E!KeepUnmodified(p)
BY EngineVisit, EngineObjects
   DEF KeepUnmodified, ShouldBeAdded, NeedsHash, HashOf, FileHasChanged, AsUnmodified, Register,
       E!KeepUnmodified, E!ShouldBeAdded, E!NeedsHash, E!HashOf, E!FileHasChanged,
       E!AsUnmodified, E!Register

LEMMA EngineWrite == WriteStream => E!WriteStream
BY PhaseKept, EngineObjects
   DEF WriteStream, disk, store, settings, oldTree, ids, E!WriteStream, E!disk, E!store,
       E!settings, E!oldTree, E!ids

LEMMA EngineCommit == CommitArchive => E!CommitArchive
BY PhaseKept
   DEF CommitArchive, NewArchive, Dependencies, Serialized, NoTruth, Paths, disk, settings,
       objects, oldTree, E!CommitArchive, E!NewArchive, E!Dependencies, E!Serialized,
       E!NoTruth, E!Paths, E!disk, E!settings, E!objects, E!oldTree

LEMMA EngineBackup == Backup => E!Backup
<1> SUFFICES ASSUME Backup PROVE E!Backup
  OBVIOUS
<1>1. ASSUME NEW p \in Paths, \/ ScanEntry(p) \/ RecalculateFileGuid(p)
                              \/ SkipObject(p) \/ AddInitialStream(p)
                              \/ AddChangedFile(p) \/ KeepUnmodified(p)
      PROVE  E!Backup
  <2>1. p \in E!Paths
    BY DEF Paths, E!Paths
  <2> QED
    BY <1>1, <2>1, EngineScan, EngineSkip, EngineAdd, EngineKeep DEF E!Backup
<1> QED
  BY <1>1, EngineBegin, EngineList, EnginePrepare, EngineWrite, EngineCommit
     DEF Backup, E!Backup

\* Nothing edits the source during a restore either.
LEMMA EngineEdit ==
  ASSUME ~ConcurrentEdits, NEW kind, Edit(kind)
  PROVE  E!Edit(kind)
<1>1. ~Busy /\ ~E!Busy /\ phase' = phase
  BY DEF Edit, phase, Restoring, Busy, E!Busy
<1> QED
  BY <1>1
     DEF Edit, store, settings, objects, oldTree, ids, pending, E!Edit, E!store, E!settings,
         E!objects, E!oldTree, E!ids, E!pending

LEMMA EngineEnvironment ==
  ASSUME ~ConcurrentEdits, Environment
  PROVE  E!Environment
<1>1. E!Paths = Paths /\ E!Versions = Versions
  BY DEF Paths, E!Paths, Versions, E!Versions
<1>2. ASSUME NEW v \in Versions, RemoveVersion(v) PROVE E!RemoveVersion(v)
  BY <1>2, PhaseKept
     DEF RemoveVersion, disk, settings, objects, oldTree, ids, pending, E!RemoveVersion, E!disk,
         E!settings, E!objects, E!oldTree, E!ids, E!pending
<1>3. ASSUME NEW p \in Paths, NEW c \in Contents, WriteFile(p, c) PROVE E!WriteFile(p, c)
  BY <1>3, EngineEdit DEF WriteFile, IsFile, E!WriteFile, E!IsFile
<1>4. ASSUME NEW p \in Paths, NEW g \in Guids, NEW c \in Contents, CreateFile(p, g, c)
      PROVE  E!CreateFile(p, g, c)
  BY <1>1, <1>4, EngineEdit DEF CreateFile, InUse, E!CreateFile, E!InUse
<1>5. ASSUME NEW p \in Paths, NEW q \in Paths, LinkFile(p, q) \/ RenameFile(q, p)
      PROVE  E!LinkFile(p, q) \/ E!RenameFile(q, p)
  BY <1>5, EngineEdit DEF LinkFile, RenameFile, IsFile, E!LinkFile, E!RenameFile, E!IsFile
<1>6. ASSUME NEW p \in Paths, DeletePath(p) \/ MakeDirectory(p) \/ ClearArchiveFlag(p)
      PROVE  E!DeletePath(p) \/ E!MakeDirectory(p) \/ E!ClearArchiveFlag(p)
  BY <1>6, EngineEdit
     DEF DeletePath, MakeDirectory, ClearArchiveFlag, IsFile, E!DeletePath, E!MakeDirectory,
         E!ClearArchiveFlag, E!IsFile
<1> QED
  BY <1>1, <1>2, <1>3, <1>4, <1>5, <1>6 DEF Environment, E!Environment

-----------------------------------------------------------------------------
(***************************************************************************)
(* What a restore relies on, and how far it has come.                      *)
(***************************************************************************)
EngineInv == E!DataInv /\ E!RefInv /\ E!ReachInv

\* What of it a restore needs.
StoreInv ==
  /\ live \in [Paths -> Guids \cup {None, Dir}] /\ inode \in [Guids -> Inode]
  /\ arc \in [Versions -> Archive \cup {None}]
  /\ StreamIdsUnique /\ ReferencesResolve
  /\ \A v \in Stored : arc[v].main.UnmappedBasePath = Live => arc[v].main.Type = "Directory"
  /\ \A v \in Stored : \A p \in Paths :
       arc[v].BaseObjects[p] # None => arc[v].BaseObjects[p].Type # "Junction"

WithData == {p \in Paths : HasData(Objects[p])}

\* All that a restore opens is there.
Loaded == Restoring => Opened \subseteq Stored /\ trees >= 1

\* Every file that needs data waits for it, once for each tree.
LaterInv ==
  /\ later \in Seq(WithData)
  /\ \A p \in WithData : \E i \in DOMAIN later : later[i] = p
  /\ \A i, j \in DOMAIN later : i < j => IdOf(later[i]) <= IdOf(later[j])
  /\ trees = 1 => \A i, j \in DOMAIN later : later[i] = later[j] => i = j

\* What is read first is never left for later.
ReadsInv ==
  /\ reads \subseteq StreamsToRead
  /\ \A r \in reads, s \in StreamsToRead : ReadBefore(r, s) => s \in reads

\* p's own stream was read.
HasRead(p) == \E r \in StreamsToRead \ reads : StreamAt(r).StreamId = IdOf(p)

FirstForId(p) == \E i \in DOMAIN later : later[i] = p /\ IsFirst(i, From(IdOf(p)))

\* Before its own stream is read a file is only there if it is the first with its
\* id, filled by another's stream; after that it is one file with those that
\* share the stream, and has its data unless another stream is to overwrite it.
Copied(p) ==
  /\ live[p] # Dir
  /\ live[p] # None /\ ~HasRead(p) => FirstForId(p)
  /\ HasRead(p) => live[p] # None /\ (Overwritten(p) \/ DataOf(p) = {inode[live[p]].content})
  /\ \A q \in WithData :
       /\ live[p] # None /\ live[q] = live[p] => IdOf(q) = IdOf(p)
       /\ HasRead(p) /\ IdOf(q) = IdOf(p) => live[q] = live[p]

CopyInv ==
  pc = "copy" =>
    /\ Destination = Live
    /\ LaterInv /\ ReadsInv
    /\ \A p \in Paths \ WithData : live[p] = IF Recreated(p) THEN Dir ELSE None
    /\ \A p \in WithData : Copied(p)

RestoreInv == restores \in Nat /\ trees \in Nat /\ Loaded /\ CopyInv

LEMMA EngineNames ==
  /\ E!Paths = Paths /\ E!Versions = Versions /\ E!Stored = Stored
  /\ E!Inode = Inode /\ E!Archive = Archive
  /\ \A o : HasData(o) <=> E!HasData(o)
  /\ \A n, id : StreamData(n, id) = E!StreamData(n, id)
<1>1. E!Paths = Paths /\ E!Versions = Versions /\ E!Inode = Inode
  BY DEF Paths, E!Paths, Versions, E!Versions, Inode, E!Inode
<1>2. E!Stored = Stored
  BY <1>1 DEF Stored, E!Stored
<1>3. E!FileTypes = FileTypes /\ E!Written = Written
  BY DEF FileTypes, E!FileTypes, Written, E!Written
<1>4. E!Main = Main /\ E!StoredFso = StoredFso
  BY <1>3 DEF Main, E!Main, Locs, E!Locs, StoredFso, E!StoredFso
<1>5. E!Archive = Archive
  BY <1>1, <1>3, <1>4 DEF Archive, E!Archive
<1>6. \A o : HasData(o) <=> E!HasData(o)
  BY <1>3 DEF HasData, E!HasData
<1>7. \A n, id : StreamData(n, id) = E!StreamData(n, id)
  BY DEF StreamData, E!StreamData
<1> QED
  BY <1>1, <1>2, <1>5, <1>6, <1>7

LEMMA StoreInvHolds == EngineInv => StoreInv
<1> SUFFICES ASSUME EngineInv PROVE StoreInv
  OBVIOUS
<1>1. E!TypeOK /\ E!TypeInv /\ E!IdInv /\ E!RefsArc
  BY DEF EngineInv, E!DataInv, E!RefInv, E!TypeInv
<1>2. /\ live \in [Paths -> Guids \cup {None, Dir}] /\ inode \in [Guids -> Inode]
      /\ arc \in [Versions -> Archive \cup {None}]
  BY <1>1, EngineNames DEF E!TypeOK
<1>3. StreamIdsUnique
  BY <1>1, EngineNames DEF E!IdInv, E!StreamIdsUnique, StreamIdsUnique
<1>4. E!ReferencesResolve
  BY <1>1, E!RefsMeanData, BackupEngineAssumption, EngineNone, EngineExclusions
<1>5. ReferencesResolve
  BY <1>4, EngineNames DEF E!ReferencesResolve, ReferencesResolve
<1>6. ASSUME NEW v \in Stored, arc[v].main.UnmappedBasePath = Live
      PROVE  arc[v].main.Type = "Directory"
  <2>1. arc[v] \in E!Archive
    BY <1>1, <1>6, EngineNames DEF E!TypeOK, Stored
  <2>2. arc[v].main # None
    BY <2>1, EngineNone DEF E!Archive
  <2> QED
    BY <1>6, <2>2, EngineNames DEF EngineInv, E!ReachInv, E!MainsAttained, E!Attained
<1>7. \A v \in Stored : \A p \in Paths :
        arc[v].BaseObjects[p] # None => arc[v].BaseObjects[p].Type # "Junction"
  BY EngineNames DEF EngineInv, E!ReachInv, E!NoJunctions, E!NoJunction
<1> QED
  BY <1>2, <1>3, <1>5, <1>6, <1>7 DEF StoreInv

-----------------------------------------------------------------------------
(***************************************************************************)
(* The streams a restore reads.                                            *)
(***************************************************************************)
LEMMA StreamsAre ==
  ASSUME StoreInv, Loaded, Restoring
  PROVE  /\ restored \in Opened /\ restored \in Nat
         /\ \A d \in arc[restored].VersionDependencies : d \in Opened /\ d < restored
         /\ \A r \in StreamsToRead :
              /\ r[1] \in Opened /\ r[1] \in Stored /\ r[1] \in Int /\ r[1] <= restored
              /\ r[2] \in DOMAIN arc[r[1]].Streams /\ r[2] \in Int /\ r = <<r[1], r[2]>>
              /\ StreamAt(r) \in Written
         /\ \A v \in Opened : \A i \in DOMAIN arc[v].Streams : <<v, i>> \in StreamsToRead
<1>1. Opened \subseteq Stored /\ restored \in Opened
  BY DEF Loaded, Opened
<1>2. Stored \subseteq Nat
  BY BackupEngineAssumption DEF Stored, Versions
<1>3. \A d \in arc[restored].VersionDependencies : d \in Opened /\ d < restored
  <2>1. restored \in Stored /\ restored \in Nat
    BY <1>1, <1>2
  <2>2. \A d \in arc[restored].VersionDependencies : d \in 0..(restored - 1)
    BY <2>1 DEF StoreInv, ReferencesResolve
  <2>3. \A d \in arc[restored].VersionDependencies : d < restored
    BY <2>1, <2>2
  <2> QED
    BY <2>3 DEF Opened
<1>4. \A v \in Opened : arc[v] \in Archive /\ v <= restored
  BY <1>1, <1>2, <1>3 DEF StoreInv, Stored, Opened
<1>5. \A v \in Opened : /\ DOMAIN arc[v].Streams \subseteq Int
                        /\ \A i \in DOMAIN arc[v].Streams : arc[v].Streams[i] \in Written
  BY <1>4 DEF Archive
<1>6. ASSUME NEW r \in StreamsToRead
      PROVE  /\ r[1] \in Opened /\ r[2] \in DOMAIN arc[r[1]].Streams /\ r = <<r[1], r[2]>>
  <2>1. PICK v \in Opened : r \in {v} \X DOMAIN arc[v].Streams
    BY DEF StreamsToRead
  <2> QED
    BY <2>1
<1>7. \A v \in Opened : \A i \in DOMAIN arc[v].Streams : <<v, i>> \in StreamsToRead
  BY DEF StreamsToRead
<1> QED
  BY <1>1, <1>2, <1>3, <1>4, <1>5, <1>6, <1>7 DEF StreamAt

\* Ids ascend in a version, and from version to version.
LEMMA IdsAscend ==
  ASSUME StoreInv, Loaded, Restoring, NEW r \in StreamsToRead, NEW s \in StreamsToRead
  PROVE  /\ r[1] < s[1] => StreamAt(r).StreamId < StreamAt(s).StreamId
         /\ r[1] = s[1] /\ r[2] < s[2] => StreamAt(r).StreamId < StreamAt(s).StreamId
         /\ StreamAt(r).StreamId = StreamAt(s).StreamId => r = s
<1>1. ASSUME NEW a \in StreamsToRead, NEW b \in StreamsToRead
      PROVE  /\ a[1] < b[1] => StreamAt(a).StreamId < StreamAt(b).StreamId
             /\ a[1] = b[1] /\ a[2] < b[2] => StreamAt(a).StreamId < StreamAt(b).StreamId
  <2>1. /\ a[1] \in Stored /\ b[1] \in Stored /\ a[1] \in Int /\ b[1] \in Int
        /\ a[2] \in DOMAIN arc[a[1]].Streams /\ b[2] \in DOMAIN arc[b[1]].Streams
        /\ StreamAt(a) \in Written /\ StreamAt(b) \in Written
    BY StreamsAre
  <2>2. /\ arc[a[1]] \in Archive /\ arc[b[1]] \in Archive
    BY <2>1 DEF StoreInv, Stored
  <2>3. ASSUME a[1] < b[1] PROVE StreamAt(a).StreamId < StreamAt(b).StreamId
    <3>1. arc[a[1]].NextStreamUniqueId <= arc[b[1]].FirstStreamUniqueId
      BY <2>1, <2>3 DEF StoreInv, StreamIdsUnique
    <3>2. /\ StreamAt(a).StreamId \in arc[a[1]].FirstStreamUniqueId ..
                                        (arc[a[1]].NextStreamUniqueId - 1)
          /\ StreamAt(b).StreamId \in arc[b[1]].FirstStreamUniqueId ..
                                        (arc[b[1]].NextStreamUniqueId - 1)
      BY <2>1 DEF StoreInv, StreamIdsUnique, StreamAt
    <3>3. /\ arc[a[1]].NextStreamUniqueId \in Nat /\ arc[a[1]].FirstStreamUniqueId \in Nat
          /\ arc[b[1]].NextStreamUniqueId \in Nat /\ arc[b[1]].FirstStreamUniqueId \in Nat
      BY <2>2 DEF Archive
    <3> QED
      BY <3>1, <3>2, <3>3
  <2>4. ASSUME a[1] = b[1], a[2] < b[2] PROVE StreamAt(a).StreamId < StreamAt(b).StreamId
    BY <2>1, <2>4 DEF StoreInv, StreamIdsUnique, StreamAt
  <2> QED
    BY <2>3, <2>4
<1>2. /\ r[1] \in Int /\ s[1] \in Int /\ r[2] \in Int /\ s[2] \in Int
      /\ r = <<r[1], r[2]>> /\ s = <<s[1], s[2]>>
      /\ StreamAt(r).StreamId \in Nat /\ StreamAt(s).StreamId \in Nat
  BY StreamsAre DEF Written
<1>3. ASSUME StreamAt(r).StreamId = StreamAt(s).StreamId PROVE r = s
  <2>1. ~(r[1] < s[1]) /\ ~(s[1] < r[1])
    BY <1>1, <1>2, <1>3
  <2>2. r[1] = s[1]
    BY <1>2, <2>1
  <2>3. ~(r[2] < s[2]) /\ ~(s[2] < r[2])
    BY <1>1, <1>2, <1>3, <2>2
  <2>4. r[2] = s[2]
    BY <1>2, <2>3
  <2> QED
    BY <1>2, <2>2, <2>4
<1> QED
  BY <1>1, <1>3

\* The stream of a file is among them, and gives it its data.
LEMMA StreamOfFile ==
  ASSUME StoreInv, Loaded, Restoring, NEW p \in WithData
  PROVE  /\ IdOf(p) \in Nat
         /\ \E r \in StreamsToRead : StreamAt(r).StreamId = IdOf(p)
         /\ \A r \in StreamsToRead : StreamAt(r).StreamId = IdOf(p) =>
              r[1] = Objects[p].LatestVersion /\ DataOf(p) = {StreamAt(r).data}
<1> DEFINE o == Objects[p]
<1>1. p \in Paths /\ HasData(o) /\ o = arc[restored].BaseObjects[p] /\ restored \in Stored
  BY StreamsAre DEF WithData, Objects, Loaded
<1>2. o \in StoredFso
  <2>1. arc[restored] \in Archive
    BY <1>1 DEF StoreInv, Stored
  <2> QED
    BY <1>1, <2>1 DEF Archive, HasData
<1>3. o.LatestVersion \in Opened /\ o.LatestVersion \in Stored
  <2>1. o.LatestVersion \in arc[restored].VersionDependencies \cup {restored}
    BY <1>1 DEF StoreInv, ReferencesResolve
  <2>2. o.LatestVersion \in Opened
    BY <2>1 DEF Opened
  <2> HIDE DEF o
  <2> QED
    BY <2>2 DEF Loaded
<1>4. PICK c \in Contents : StreamData(o.LatestVersion, o.StreamUniqueId) = {c}
  <2> HIDE DEF o
  <2>1. \A x \in Paths :
          LET f == arc[restored].BaseObjects[x]
          IN  HasData(f) /\ f.LatestVersion \in Stored =>
                  \E c \in Contents : StreamData(f.LatestVersion, f.StreamUniqueId) = {c}
    BY <1>1 DEF StoreInv, ReferencesResolve
  <2> QED
    BY <1>1, <1>3, <2>1
<1>5. PICK i \in DOMAIN arc[o.LatestVersion].Streams :
        arc[o.LatestVersion].Streams[i].StreamId = o.StreamUniqueId
  <2>1. c \in StreamData(o.LatestVersion, o.StreamUniqueId)
    BY <1>4
  <2> QED
    BY <2>1 DEF StreamData
<1> DEFINE s == <<o.LatestVersion, i>>
<1>6. s \in StreamsToRead
  BY <1>3, StreamsAre
<1>7. s[1] = o.LatestVersion /\ s[2] = i
  OBVIOUS
<1>8. StreamAt(s).StreamId = IdOf(p)
  BY <1>5, <1>7 DEF StreamAt, IdOf
<1>9. DataOf(p) = {StreamAt(s).data}
  <2>1. arc[o.LatestVersion].Streams[i].data \in StreamData(o.LatestVersion, o.StreamUniqueId)
    BY <1>5 DEF StreamData
  <2>2. StreamAt(s).data \in DataOf(p)
    BY <1>7, <2>1 DEF StreamAt, DataOf, IdOf
  <2> QED
    BY <1>4, <2>2 DEF DataOf, IdOf
<1> HIDE DEF s
<1>10. \A r \in StreamsToRead : StreamAt(r).StreamId = IdOf(p) => r = s
  BY <1>6, <1>8, IdsAscend
<1>11. IdOf(p) \in Nat
  BY <1>2 DEF IdOf, StoredFso
<1> QED
  BY <1>6, <1>7, <1>8, <1>9, <1>10, <1>11

-----------------------------------------------------------------------------
(***************************************************************************)
(* Reading a stream.                                                       *)
(***************************************************************************)
LEMMA VersionKept ==
  ASSUME UNCHANGED <<arc, restored>>
  PROVE  /\ Opened' = Opened /\ StreamsToRead' = StreamsToRead /\ WithData' = WithData
         /\ Junctions' = Junctions
         /\ \A r, s : /\ StreamAt(r)' = StreamAt(r)
                      /\ ReadBefore(r, s)' <=> ReadBefore(r, s)
         /\ \A p : /\ IdOf(p)' = IdOf(p) /\ DataOf(p)' = DataOf(p)
                   /\ Overwritten(p)' <=> Overwritten(p)
                   /\ Recreated(p)' <=> Recreated(p)
                   /\ Objects[p]' = Objects[p]
<1>1. Opened' = Opened /\ WithData' = WithData
  BY DEF Opened, WithData, Objects
<1>2. StreamsToRead' = StreamsToRead
  BY <1>1 DEF StreamsToRead
<1>3. Junctions' = Junctions
  BY DEF Junctions, Objects
<1>4. \A r, s : StreamAt(r)' = StreamAt(r) /\ (ReadBefore(r, s)' <=> ReadBefore(r, s))
  BY DEF StreamAt, ReadBefore
<1>5. \A p : IdOf(p)' = IdOf(p) /\ DataOf(p)' = DataOf(p) /\ Objects[p]' = Objects[p]
  BY DEF IdOf, DataOf, StreamData, Objects
<1>6. \A p : Overwritten(p)' <=> Overwritten(p)
  BY DEF Overwritten, IdOf, Objects
<1>7. \A p : Recreated(p)' <=> Recreated(p)
  BY <1>3 DEF Recreated, Objects
<1> QED
  BY <1>1, <1>2, <1>3, <1>4, <1>5, <1>6, <1>7

LEMMA ReadOne ==
  ASSUME StoreInv, Loaded, Restoring, ReadsInv, NEW r, NextRead(r), reads' = reads \ {r},
         UNCHANGED <<arc, restored>>
  PROVE  /\ r \in StreamsToRead /\ ReadsInv'
         /\ \A p : HasRead(p)' <=> HasRead(p) \/ IdOf(p) = StreamAt(r).StreamId
         /\ \A p : IdOf(p) = StreamAt(r).StreamId => ~HasRead(p)
<1>1. r \in reads /\ r \in StreamsToRead /\ \A s \in reads \ {r} : ReadBefore(r, s)
  BY DEF NextRead, ReadsInv
<1>2. \A s \in StreamsToRead : ReadBefore(r, s) => ~ReadBefore(s, r)
  BY <1>1, StreamsAre DEF ReadBefore
<1>3. ASSUME NEW a \in reads \ {r}, NEW b \in StreamsToRead, ReadBefore(a, b)
      PROVE  b \in reads \ {r}
  BY <1>1, <1>2, <1>3 DEF ReadsInv
<1>4. ReadsInv'
  BY <1>3, VersionKept DEF ReadsInv
<1>5. ASSUME NEW p
      PROVE  /\ HasRead(p)' <=> HasRead(p) \/ IdOf(p) = StreamAt(r).StreamId
             /\ IdOf(p) = StreamAt(r).StreamId => ~HasRead(p)
  <2>1. /\ StreamsToRead' = StreamsToRead /\ IdOf(p)' = IdOf(p)
        /\ \A s : StreamAt(s)' = StreamAt(s)
    BY VersionKept
  <2>2. HasRead(p)' <=> \E s \in StreamsToRead \ (reads \ {r}) : StreamAt(s).StreamId = IdOf(p)
    BY <2>1 DEF HasRead
  <2>3. \A s \in StreamsToRead : StreamAt(s).StreamId = StreamAt(r).StreamId => s = r
    BY <1>1, IdsAscend
  <2> QED
    BY <1>1, <2>2, <2>3 DEF HasRead
<1> QED
  BY <1>1, <1>4, <1>5

\* A stream read after a file's own, and with a smaller id, is from an older
\* archive than the version itself.
LEMMA ReadLate ==
  ASSUME StoreInv, Loaded, Restoring, ReadsInv, NEW r \in reads, NEW p \in WithData, HasRead(p),
         StreamAt(r).StreamId < IdOf(p)
  PROVE  /\ r[1] \in arc[restored].VersionDependencies
         /\ Objects[p].LatestVersion = restored
<1>1. PICK s \in StreamsToRead \ reads : StreamAt(s).StreamId = IdOf(p)
  BY DEF HasRead
<1>2. s[1] = Objects[p].LatestVersion
  BY <1>1, StreamOfFile
<1>3. r \in StreamsToRead /\ ~ReadBefore(r, s)
  BY <1>1 DEF ReadsInv
<1>4. /\ r[1] \in Int /\ s[1] \in Int /\ r[2] \in Int /\ s[2] \in Int
      /\ r = <<r[1], r[2]>> /\ s = <<s[1], s[2]>> /\ r[1] \in Opened
      /\ StreamAt(r).StreamId \in Nat /\ StreamAt(s).StreamId \in Nat
  BY <1>1, <1>3, StreamsAre DEF Written
<1>5. ~(s[1] < r[1]) /\ ~(s[1] = r[1] /\ s[2] < r[2]) /\ s # r
  BY <1>1, <1>3, <1>4, IdsAscend
<1>6. r[1] < s[1]
  <2>1. r[1] # s[1]
    BY <1>3, <1>4, <1>5 DEF ReadBefore
  <2> QED
    BY <1>4, <1>5, <2>1
<1>7. s[1] = restored
  BY <1>3, <1>6 DEF ReadBefore
<1> QED
  BY <1>2, <1>4, <1>6, <1>7 DEF Opened

LEMMA SkipKeeps ==
  ASSUME StoreInv, RestoreInv, SkipStream
  PROVE  CopyInv'
<1>1. PICK r \in reads : /\ NextRead(r) /\ reads' = reads \ {r}
                         /\ From(StreamAt(r).StreamId) = {}
  BY DEF SkipStream
<1>2. /\ pc = "copy" /\ Restoring /\ Loaded /\ LaterInv /\ ReadsInv
      /\ UNCHANGED <<live, inode, arc, restored, trees, later, pc>>
  BY DEF SkipStream, RestoreInv, CopyInv, Restoring, disk, store
<1>3. ReadsInv' /\ \A p \in WithData : HasRead(p)' <=> HasRead(p)
  <2>1. ASSUME NEW p \in WithData PROVE IdOf(p) # StreamAt(r).StreamId
    <3>1. PICK i \in DOMAIN later : later[i] = p
      BY <1>2 DEF LaterInv
    <3> QED
      BY <1>1, <1>2, <3>1, StreamOfFile DEF From
  <2> QED
    BY <1>1, <1>2, <2>1, ReadOne
<1>4. \A p : FirstForId(p)' <=> FirstForId(p)
  BY <1>2, VersionKept DEF FirstForId, From
<1>5. LaterInv'
  BY <1>2, VersionKept DEF LaterInv
<1>6. \A p \in WithData : Copied(p)'
  BY <1>2, <1>3, <1>4, VersionKept DEF Copied, RestoreInv, CopyInv
<1>7. \A p \in Paths \ WithData : live'[p] = IF Recreated(p) THEN Dir ELSE None
  BY <1>2 DEF RestoreInv, CopyInv
<1>8. Destination' = Live
  BY <1>2 DEF RestoreInv, CopyInv, Destination
<1> QED
  BY <1>2, <1>3, <1>5, <1>6, <1>7, <1>8, VersionKept DEF CopyInv, Paths

-----------------------------------------------------------------------------
(***************************************************************************)
(* Copying a stream.                                                       *)
(***************************************************************************)
\* The file a stream is written to, the first from its id on.
LEMMA TargetIs ==
  ASSUME StoreInv, Loaded, Restoring, LaterInv, NEW r \in StreamsToRead,
         NEW i \in DOMAIN later, IsFirst(i, From(StreamAt(r).StreamId))
  PROVE  /\ later[i] \in WithData /\ IdOf(later[i]) >= StreamAt(r).StreamId
         /\ \A j \in DOMAIN later : IdOf(later[j]) >= StreamAt(r).StreamId =>
              i <= j /\ IdOf(later[j]) >= IdOf(later[i])
         /\ \A q \in WithData : IdOf(q) >= StreamAt(r).StreamId => IdOf(q) >= IdOf(later[i])
         /\ FirstForId(later[i])
<1>1. \A j \in DOMAIN later : later[j] \in WithData /\ IdOf(later[j]) \in Nat /\ j \in Nat
  BY StreamOfFile DEF LaterInv
<1>2. IdOf(later[i]) >= StreamAt(r).StreamId
  BY DEF IsFirst, From
<1>3. ASSUME NEW j \in DOMAIN later, IdOf(later[j]) >= StreamAt(r).StreamId
      PROVE  i <= j /\ IdOf(later[j]) >= IdOf(later[i])
  <2>1. i <= j
    BY <1>3 DEF IsFirst, From
  <2>2. i = j \/ i < j
    BY <1>1, <2>1
  <2> QED
    BY <1>1, <2>1, <2>2 DEF LaterInv
<1>4. \A q \in WithData : IdOf(q) >= StreamAt(r).StreamId => IdOf(q) >= IdOf(later[i])
  BY <1>3 DEF LaterInv
<1>5. FirstForId(later[i])
  <2>1. StreamAt(r).StreamId \in Nat
    BY StreamsAre DEF Written
  <2>2. From(IdOf(later[i])) \subseteq From(StreamAt(r).StreamId)
    BY <1>1, <1>2, <2>1 DEF From
  <2>3. i \in From(IdOf(later[i]))
    BY <1>1 DEF From
  <2> QED
    BY <2>2, <2>3 DEF FirstForId, IsFirst
<1> QED
  BY <1>1, <1>2, <1>3, <1>4, <1>5

\* What copying the stream r to the i-th file, as file g, writes.
Linked(r, i) ==
  LET links == LinksAfter(i, StreamAt(r).StreamId)
      bad   == {j \in links : CannotLink(i, j)}
  IN  {j \in links : \A b \in bad : j < b}

CopyTo(r, i, g) ==
  /\ IsFirst(i, From(StreamAt(r).StreamId))
  /\ IF IsFile(live[later[i]]) THEN g = live[later[i]] ELSE \A q \in Paths : live[q] # g
  /\ inode' = [inode EXCEPT ![g] =
                 [content |-> StreamAt(r).data, mtime |-> MaxEdits + restores,
                  archive |-> TRUE]]
  /\ live' = [q \in Paths |->
                IF q = later[i] \/ \E j \in Linked(r, i) : later[j] = q THEN g ELSE live[q]]
  /\ pc' = IF {j \in LinksAfter(i, StreamAt(r).StreamId) : CannotLink(i, j)} = {}
             THEN "copy" ELSE "failed"

LEMMA CopyStreamIs ==
  ASSUME CopyStream
  PROVE  \E r \in reads :
           /\ NextRead(r) /\ reads' = reads \ {r}
           /\ \E i \in From(StreamAt(r).StreamId), g \in Guids : CopyTo(r, i, g)
BY DEF CopyStream, CopyTo, Linked

\* What copying a stream does, unless a file cannot be linked.
Gets(q, i, r) ==
  q = later[i] \/ (q \in WithData /\ IdOf(q) = StreamAt(r).StreamId)

LEMMA CopyIs ==
  ASSUME StoreInv, RestoreInv, CopyStream, pc' = "copy"
  PROVE  \E r \in reads, i \in DOMAIN later, g \in Guids :
           /\ NextRead(r) /\ reads' = reads \ {r}
           /\ IsFirst(i, From(StreamAt(r).StreamId))
           /\ IF IsFile(live[later[i]]) THEN g = live[later[i]]
                                        ELSE \A q \in Paths : live[q] # g
           /\ \A q \in Paths : live'[q] = IF Gets(q, i, r) THEN g ELSE live[q]
           /\ inode'[g].content = StreamAt(r).data
           /\ \A h \in Guids \ {g} : inode'[h] = inode[h]
<1>1. pc = "copy" /\ Restoring /\ Loaded /\ LaterInv /\ ReadsInv
  BY DEF CopyStream, RestoreInv, CopyInv, Restoring
<1>2. PICK r \in reads :
        /\ NextRead(r) /\ reads' = reads \ {r}
        /\ \E i \in From(StreamAt(r).StreamId), g \in Guids : CopyTo(r, i, g)
  BY CopyStreamIs
<1>3. PICK i \in From(StreamAt(r).StreamId), g \in Guids : CopyTo(r, i, g)
  BY <1>2
<1>4. Linked(r, i) = LinksAfter(i, StreamAt(r).StreamId)
  BY <1>3 DEF CopyTo, Linked
<1>5. i \in DOMAIN later /\ r \in StreamsToRead
  BY <1>1 DEF From, ReadsInv
<1>6. ASSUME NEW q \in Paths
      PROVE  (q = later[i] \/ \E j \in Linked(r, i) : later[j] = q) <=> Gets(q, i, r)
  <2>1. ASSUME NEW j \in DOMAIN later, later[j] = q, IdOf(q) = StreamAt(r).StreamId
        PROVE  j = i \/ j > i
    <3>1. IdOf(later[j]) >= StreamAt(r).StreamId
      BY <1>1, <1>5, <2>1, StreamsAre DEF Written
    <3>2. i <= j /\ i \in Int /\ j \in Int
      BY <1>1, <1>3, <1>5, <3>1, TargetIs DEF LaterInv, CopyTo
    <3> QED
      BY <3>2
  <2>2. \A j \in DOMAIN later : later[j] \in WithData
    BY <1>1 DEF LaterInv
  <2>3. q \in WithData => \E j \in DOMAIN later : later[j] = q
    BY <1>1 DEF LaterInv
  <2> QED
    BY <1>4, <2>1, <2>2, <2>3 DEF Gets, LinksAfter
<1>7. inode'[g].content = StreamAt(r).data /\ \A h \in Guids \ {g} : inode'[h] = inode[h]
  BY <1>3 DEF StoreInv, CopyTo
<1>8. \A q \in Paths : live'[q] = IF Gets(q, i, r) THEN g ELSE live[q]
  BY <1>3, <1>6 DEF CopyTo
<1> QED
  BY <1>2, <1>3, <1>5, <1>7, <1>8 DEF CopyTo

\* Copies the stream r to the i-th file, as file g.
Copies(r, i, g) ==
  /\ r \in reads /\ i \in DOMAIN later /\ g \in Guids
  /\ NextRead(r) /\ reads' = reads \ {r}
  /\ IsFirst(i, From(StreamAt(r).StreamId))
  /\ IF IsFile(live[later[i]]) THEN g = live[later[i]] ELSE \A q \in Paths : live[q] # g
  /\ \A q \in Paths : live'[q] = IF Gets(q, i, r) THEN g ELSE live[q]
  /\ inode'[g].content = StreamAt(r).data
  /\ \A h \in Guids \ {g} : inode'[h] = inode[h]
  /\ UNCHANGED <<arc, restored, later, trees>>

Copying ==
  /\ StoreInv /\ Restoring /\ Loaded /\ LaterInv /\ ReadsInv
  /\ \A p \in Paths \ WithData : live[p] = IF Recreated(p) THEN Dir ELSE None
  /\ \A p \in WithData : Copied(p)

LEMMA CopiesIs ==
  ASSUME Copying, NEW r, NEW i, NEW g, Copies(r, i, g)
  PROVE  /\ r \in StreamsToRead /\ StreamAt(r).StreamId \in Nat /\ later[i] \in WithData
         /\ \A q \in WithData : IdOf(q) \in Nat /\ live[q] \in Guids \cup {None}
         /\ IdOf(later[i]) >= StreamAt(r).StreamId
         /\ \A q \in WithData : IdOf(q) >= StreamAt(r).StreamId => IdOf(q) >= IdOf(later[i])
         /\ FirstForId(later[i])
         /\ \A p : FirstForId(p)' <=> FirstForId(p)
         /\ \A p : HasRead(p)' <=> HasRead(p) \/ IdOf(p) = StreamAt(r).StreamId
         /\ \A p : IdOf(p) = StreamAt(r).StreamId => ~HasRead(p)
         /\ ReadsInv' /\ LaterInv'
         /\ \A q \in Paths \ WithData : live[q] # g
         /\ \A q \in WithData : live[q] = g => IdOf(q) = IdOf(later[i])
<1>1. r \in StreamsToRead /\ StreamAt(r).StreamId \in Nat
  BY StreamsAre DEF Copying, Copies, ReadsInv, Written
<1>2. \A q \in WithData : IdOf(q) \in Nat /\ live[q] \in Guids \cup {None}
  BY StreamOfFile DEF Copying, Copied, StoreInv, WithData
<1>3. /\ later[i] \in WithData /\ IdOf(later[i]) >= StreamAt(r).StreamId
      /\ \A q \in WithData : IdOf(q) >= StreamAt(r).StreamId => IdOf(q) >= IdOf(later[i])
      /\ FirstForId(later[i])
  BY <1>1, TargetIs DEF Copying, Copies
<1>4. \A p : FirstForId(p)' <=> FirstForId(p)
  BY VersionKept DEF FirstForId, From, Copies
<1>5. /\ ReadsInv' /\ \A p : HasRead(p)' <=> HasRead(p) \/ IdOf(p) = StreamAt(r).StreamId
      /\ \A p : IdOf(p) = StreamAt(r).StreamId => ~HasRead(p)
  BY ReadOne DEF Copying, Copies
<1>6. LaterInv'
  BY VersionKept DEF LaterInv, Copying, Copies
<1>7. \A q \in Paths \ WithData : live[q] # g
  BY BackupEngineAssumption DEF Copying, Copies
<1>8. \A q \in WithData : live[q] = g => IdOf(q) = IdOf(later[i])
  <2> SUFFICES ASSUME NEW q \in WithData, live[q] = g PROVE IdOf(q) = IdOf(later[i])
    OBVIOUS
  <2>1. q \in Paths
    BY DEF WithData
  <2>2. live[later[i]] = g /\ g # None
    BY <2>1, BackupEngineAssumption DEF Copies
  <2> QED
    BY <1>3, <2>2 DEF Copying, Copied
<1> QED
  BY <1>1, <1>2, <1>3, <1>4, <1>5, <1>6, <1>7, <1>8

\* The stream is that of the file: all that share it become one file with its
\* data.
LEMMA CopyOwn ==
  ASSUME Copying, NEW r, NEW i, NEW g, Copies(r, i, g), IdOf(later[i]) = StreamAt(r).StreamId
  PROVE  \A p \in WithData : Copied(p)'
<1> DEFINE id == StreamAt(r).StreamId
<1>1. \A q \in WithData : live'[q] = IF IdOf(q) = id THEN g ELSE live[q]
  BY CopiesIs DEF Copies, Gets, WithData
<1>2. g \in Guids /\ g # None /\ g # Dir
  BY BackupEngineAssumption DEF Copies
<1>3. \A q \in WithData : IdOf(q) # id => live[q] # g
  BY CopiesIs
<1>4. \A q \in WithData : (HasRead(q)' <=> HasRead(q) \/ IdOf(q) = id)
                          /\ (FirstForId(q)' <=> FirstForId(q)) /\ live[q] \in Guids \cup {None}
  BY CopiesIs
<1>5. \A q \in WithData : IdOf(q)' = IdOf(q) /\ (Overwritten(q)' <=> Overwritten(q))
                          /\ DataOf(q)' = DataOf(q)
  BY VersionKept DEF Copies
<1>6. WithData' = WithData
  BY VersionKept DEF Copies
<1> SUFFICES ASSUME NEW p \in WithData PROVE Copied(p)'
  OBVIOUS
<1>7. CASE IdOf(p) = id
  <2>1. DataOf(p) = {StreamAt(r).data}
    BY <1>7, CopiesIs, StreamOfFile DEF Copying
  <2>2. inode'[live'[p]].content = StreamAt(r).data
    BY <1>1, <1>7 DEF Copies
  <2>3. DataOf(p)' = {inode'[live'[p]].content}
    BY <1>5, <2>1, <2>2
  <2>4. live'[p] = g /\ HasRead(p)'
    BY <1>1, <1>4, <1>7
  <2>5. ASSUME NEW q \in WithData
        PROVE  /\ live'[q] = live'[p] => IdOf(q)' = IdOf(p)'
               /\ IdOf(q)' = IdOf(p)' => live'[q] = live'[p]
    BY <1>1, <1>3, <1>5, <1>7, <2>4
  <2> QED
    BY <1>2, <1>6, <2>3, <2>4, <2>5 DEF Copied
<1>8. CASE IdOf(p) # id
  <2>1. live'[p] = live[p] /\ live[p] # g /\ (HasRead(p)' <=> HasRead(p)) /\ Copied(p)
    BY <1>1, <1>3, <1>4, <1>8 DEF Copying
  <2>2. live[p] # None => inode'[live'[p]] = inode[live[p]]
    BY <1>4, <2>1 DEF Copies
  <2>3. ASSUME NEW q \in WithData
        PROVE  /\ live'[p] # None /\ live'[q] = live'[p] => IdOf(q)' = IdOf(p)'
               /\ HasRead(p)' /\ IdOf(q)' = IdOf(p)' => live'[q] = live'[p]
    BY <1>1, <1>2, <1>5, <1>8, <2>1 DEF Copied
  <2>4. /\ live'[p] # Dir
        /\ live'[p] # None /\ ~HasRead(p)' => FirstForId(p)'
        /\ HasRead(p)' => /\ live'[p] # None
                          /\ Overwritten(p)' \/ DataOf(p)' = {inode'[live'[p]].content}
    BY <1>4, <1>5, <2>1, <2>2 DEF Copied
  <2> QED
    BY <1>6, <2>3, <2>4 DEF Copied
<1> QED
  BY <1>7, <1>8

\* The stream is one no file needs: it is written to the next file, which
\* either waits for its own or is overwritten.
LEMMA CopyOther ==
  ASSUME Copying, NEW r, NEW i, NEW g, Copies(r, i, g), IdOf(later[i]) # StreamAt(r).StreamId
  PROVE  \A p \in WithData : Copied(p)'
<1> DEFINE id == StreamAt(r).StreamId
           t  == later[i]
<1>1. id \in Nat /\ t \in WithData /\ IdOf(t) \in Nat /\ id < IdOf(t)
  BY CopiesIs
<1>2. \A q \in WithData : IdOf(q) \in Nat /\ IdOf(q) # id
                          /\ (IdOf(q) >= id => IdOf(q) >= IdOf(t))
  <2>1. \A q \in WithData : IdOf(q) \in Nat /\ (IdOf(q) >= id => IdOf(q) >= IdOf(t))
    BY CopiesIs
  <2> QED
    BY <1>1, <2>1
<1>3. \A q \in WithData : live'[q] = IF q = t THEN g ELSE live[q]
  BY <1>2 DEF Copies, Gets, WithData
<1>4. g \in Guids /\ g # None /\ g # Dir
  BY BackupEngineAssumption DEF Copies
<1>5. \A q \in WithData : (HasRead(q)' <=> HasRead(q)) /\ (FirstForId(q)' <=> FirstForId(q))
                          /\ live[q] \in Guids \cup {None} /\ Copied(q)
  BY <1>2, CopiesIs DEF Copying
<1>6. \A q \in WithData : IdOf(q)' = IdOf(q) /\ (Overwritten(q)' <=> Overwritten(q))
                          /\ DataOf(q)' = DataOf(q)
  BY VersionKept DEF Copies
<1>7. WithData' = WithData
  BY VersionKept DEF Copies
<1>8. FirstForId(t)
  BY CopiesIs
<1>9. live[t] # None => g = live[t]
  BY <1>1, <1>5, BackupEngineAssumption DEF Copies, IsFile
<1>10. live[t] = None => \A q \in WithData : live[q] # g
  BY DEF Copies, IsFile, WithData
<1>11. ASSUME NEW q \in WithData, HasRead(q), live[q] = g
       PROVE  Overwritten(q)
  <2>1. IdOf(q) = IdOf(t)
    BY <1>11, CopiesIs
  <2>2. r \in reads /\ id < IdOf(q)
    BY <1>1, <2>1 DEF Copies
  <2>3. r[1] \in arc[restored].VersionDependencies /\ Objects[q].LatestVersion = restored
    BY <1>11, <2>2, ReadLate DEF Copying
  <2>4. r[2] \in DOMAIN arc[r[1]].Streams
    BY CopiesIs, StreamsAre DEF Copying
  <2>5. \A x \in Paths : HasData(Objects[x]) => IdOf(x) \notin id..(IdOf(q) - 1)
    BY <1>1, <1>2, <2>1 DEF WithData
  <2>6. arc[r[1]].Streams[r[2]].StreamId = id
    BY DEF StreamAt
  <2> HIDE DEF id
  <2> QED
    BY <2>2, <2>3, <2>4, <2>5, <2>6 DEF Overwritten
<1> HIDE DEF id, t
<1> SUFFICES ASSUME NEW p \in WithData PROVE Copied(p)'
  OBVIOUS
<1>12. /\ live'[p] # Dir
       /\ live'[p] # None /\ ~HasRead(p)' => FirstForId(p)'
  BY <1>3, <1>4, <1>5, <1>8 DEF Copied
<1>13. ASSUME HasRead(p) PROVE live'[p] = live[p] /\ live[p] # None
  BY <1>3, <1>5, <1>9, <1>13 DEF Copied
<1>14. ASSUME HasRead(p) PROVE Overwritten(p)' \/ DataOf(p)' = {inode'[live'[p]].content}
  <2>1. CASE live[p] = g
    BY <1>6, <1>11, <1>14, <2>1
  <2>2. CASE live[p] # g
    <3>1. inode'[live'[p]] = inode[live[p]]
      BY <1>5, <1>13, <1>14, <2>2 DEF Copies
    <3> QED
      BY <1>5, <1>6, <1>14, <3>1 DEF Copied
  <2> QED
    BY <2>1, <2>2
<1>15. ASSUME NEW q \in WithData, live'[p] # None, live'[q] = live'[p]
       PROVE  IdOf(q)' = IdOf(p)'
  BY <1>1, <1>3, <1>4, <1>5, <1>6, <1>9, <1>10, <1>15 DEF Copied
<1>16. ASSUME NEW q \in WithData, HasRead(p), IdOf(q) = IdOf(p)
       PROVE  live'[q] = live'[p]
  <2>1. HasRead(q)
    BY <1>16 DEF HasRead
  <2>2. live[q] = live[p] /\ live[p] # None
    BY <1>5, <1>16 DEF Copied
  <2> QED
    BY <1>3, <1>9, <2>2
<1> QED
  BY <1>5, <1>6, <1>7, <1>12, <1>13, <1>14, <1>15, <1>16 DEF Copied

LEMMA CopyKeeps ==
  ASSUME StoreInv, RestoreInv, CopyStream
  PROVE  CopyInv'
<1> SUFFICES ASSUME pc' = "copy" PROVE CopyInv'
  BY DEF CopyInv
<1>1. Copying /\ UNCHANGED <<arc, restored, later, trees>>
  BY DEF CopyStream, RestoreInv, CopyInv, Restoring, Copying, store
<1>2. PICK r, i, g : Copies(r, i, g)
  BY <1>1, CopyIs DEF Copies
<1>3. \A p \in WithData : Copied(p)'
  BY <1>1, <1>2, CopyOwn, CopyOther
<1>4. \A p \in Paths \ WithData : live'[p] = IF Recreated(p) THEN Dir ELSE None
  BY <1>1, <1>2, CopiesIs DEF Copying, Copies, Gets
<1>5. LaterInv' /\ ReadsInv'
  BY <1>1, <1>2, CopiesIs
<1>6. Destination' = Live
  BY <1>1 DEF CopyStream, RestoreInv, CopyInv, Destination
<1> QED
  BY <1>1, <1>3, <1>4, <1>5, <1>6, VersionKept DEF CopyInv, Paths

\* A stream that cannot be linked to all its files is one of a tree read twice.
OnlyLinksShare ==
  \A v \in Stored : \A p, q \in Paths :
    LET o == arc[v].BaseObjects
    IN  /\ p # q /\ HasData(o[p]) /\ HasData(o[q])
        /\ o[p].StreamUniqueId = o[q].StreamUniqueId
        => o[q].Type = "FileHardlink"

LEMMA CopyFails ==
  ASSUME StoreInv, OnlyLinksShare, RestoreInv, CopyStream, pc' = "failed"
  PROVE  trees > 1
<1> SUFFICES ASSUME trees = 1 PROVE FALSE
  BY DEF CopyStream, RestoreInv, Loaded, Restoring
<1>1. Copying /\ trees = 1
  BY DEF CopyStream, RestoreInv, CopyInv, Restoring, Copying
<1>2. PICK r \in reads :
        /\ NextRead(r)
        /\ \E i \in From(StreamAt(r).StreamId) :
             /\ IsFirst(i, From(StreamAt(r).StreamId))
             /\ \E j \in LinksAfter(i, StreamAt(r).StreamId) : CannotLink(i, j)
  BY DEF CopyStream
<1>3. PICK i \in From(StreamAt(r).StreamId) :
        /\ IsFirst(i, From(StreamAt(r).StreamId))
        /\ \E j \in LinksAfter(i, StreamAt(r).StreamId) : CannotLink(i, j)
  BY <1>2
<1>4. PICK j \in LinksAfter(i, StreamAt(r).StreamId) : CannotLink(i, j)
  BY <1>3
<1> DEFINE p == later[i]
           q == later[j]
<1>5. /\ StoreInv /\ Restoring /\ Loaded /\ LaterInv /\ ReadsInv /\ r \in StreamsToRead
      /\ i \in DOMAIN later /\ j \in DOMAIN later /\ i \in Int /\ j \in Int /\ i < j
      /\ IdOf(q) = StreamAt(r).StreamId
  BY <1>1 DEF Copying, ReadsInv, LaterInv, From, LinksAfter
<1>6. p \in WithData /\ q \in WithData /\ p \in Paths /\ q \in Paths
  BY <1>5 DEF LaterInv, WithData
<1>7. \A k \in DOMAIN later : k \in Int /\ (IdOf(later[k]) >= StreamAt(r).StreamId => i <= k)
  BY <1>3, <1>5, TargetIs DEF LaterInv
<1>8. IdOf(p) = StreamAt(r).StreamId
  <2>1. IdOf(p) >= StreamAt(r).StreamId /\ IdOf(p) <= IdOf(q)
    BY <1>3, <1>5, TargetIs DEF LaterInv
  <2> QED
    BY <1>5, <1>6, <2>1, StreamOfFile
<1>9. \A k \in DOMAIN later : later[k] = q => k = j
  BY <1>1, <1>5 DEF LaterInv
<1>10. p # q
  BY <1>5, <1>9
<1>11. Objects[q].Type = "FileHardlink"
  <2>1. restored \in Stored
    BY <1>5, StreamsAre DEF Loaded
  <2> QED
    BY <1>5, <1>6, <1>8, <1>10, <2>1 DEF OnlyLinksShare, WithData, Objects, IdOf
<1>12. ~HasRead(q)
  BY <1>2, <1>5, IdsAscend DEF HasRead
<1>13. live[q] = None
  <2> SUFFICES ASSUME live[q] # None PROVE FALSE
    OBVIOUS
  <2>1. FirstForId(q)
    BY <1>1, <1>6, <1>12 DEF Copying, Copied
  <2>2. PICK k \in DOMAIN later : later[k] = q /\ IsFirst(k, From(IdOf(q)))
    BY <2>1 DEF FirstForId
  <2>3. i \in From(IdOf(q))
    BY <1>5
  <2>4. k <= i
    BY <2>2, <2>3 DEF IsFirst
  <2> QED
    BY <1>5, <1>9, <2>2, <2>4
<1>14. \A k \in i..(j - 1) : later[k] # q
  <2> SUFFICES ASSUME NEW k \in i..(j - 1), later[k] = q PROVE FALSE
    OBVIOUS
  <2>1. k \in DOMAIN later /\ k < j
    BY <1>5 DEF LaterInv
  <2> QED
    BY <1>9, <2>1
<1> QED
  BY <1>4, <1>11, <1>13, <1>14 DEF CannotLink

-----------------------------------------------------------------------------
(***************************************************************************)
(* The start of a restore.                                                 *)
(***************************************************************************)
LEMMA LoadKeeps ==
  ASSUME StoreInv, RestoreInv, LoadVersions
  PROVE  RestoreInv'
<1>1. /\ pc' = "recreate" /\ restores' = restores + 1 /\ trees' = trees + 1
      /\ restored' \in known /\ Restorable(restored') /\ UNCHANGED arc
  BY DEF LoadVersions, store
<1>2. restores \in Nat /\ trees \in Nat
  BY DEF RestoreInv
<1>3. PICK opened \in SUBSET Stored :
        /\ restored' \in opened
        /\ \A w \in opened : \A d \in arc[w].VersionDependencies : d < w /\ d \in opened
  BY <1>1 DEF Restorable
<1>4. Opened' \subseteq Stored'
  BY <1>1, <1>3 DEF Opened, Stored
<1>5. Loaded'
  BY <1>1, <1>2, <1>4 DEF Loaded
<1> QED
  BY <1>1, <1>2, <1>5 DEF RestoreInv, CopyInv

\* The waiting files in some order are all of them.
LEMMA EveryoneWaits ==
  ASSUME NEW s \in SetToSeqs(Waiting), trees \in Nat
  PROVE  /\ DOMAIN s = 1..Len(s) /\ Len(s) \in Nat
         /\ \A i \in DOMAIN s : s[i] \in Waiting
         /\ \A i, j \in DOMAIN s : s[i] = s[j] => i = j
         /\ \A w \in Waiting : \E i \in DOMAIN s : s[i] = w
<1> DEFINE D == 1..Cardinality(Waiting)
<1>1. IsFiniteSet(Waiting)
  <2>1. IsFiniteSet(1..trees) /\ IsFiniteSet(Paths)
    BY FS_Interval, BackupEngineAssumption DEF Paths
  <2>2. IsFiniteSet({p \in Paths : HasData(Objects[p])})
    BY <2>1, FS_Subset
  <2> QED
    BY <2>1, <2>2, FS_Product DEF Waiting
<1>2. Cardinality(Waiting) \in Nat
  BY <1>1, FS_CardinalityType
<1>3. s \in [D -> Waiting] /\ \A i, j \in D : i # j => s[i] # s[j]
  BY DEF SetToSeqs
<1>4. Cardinality(D) = Cardinality(Waiting)
  BY <1>2, FS_Interval
<1>5. s \in Injection(D, Waiting)
  BY <1>3 DEF Injection, IsInjective
<1>6. s \in Surjection(D, Waiting)
  BY <1>1, <1>4, <1>5, FS_Injection
<1>7. \A w \in Waiting : \E i \in D : s[i] = w
  BY <1>6 DEF Surjection
<1>8. Len(s) = Cardinality(Waiting) /\ DOMAIN s = D
  BY <1>2, <1>3
<1> QED
  BY <1>2, <1>3, <1>7, <1>8

LEMMA PairIs ==
  ASSUME NEW S, NEW T
  PROVE  /\ \A w \in S \X T : w[1] \in S /\ w[2] \in T
         /\ \A v, w \in S \X T : v[1] = w[1] /\ v[2] = w[2] => v = w
OBVIOUS

LEMMA RecreateKeeps ==
  ASSUME StoreInv, RestoreInv, RecreateTree
  PROVE  CopyInv'
<1> SUFFICES ASSUME pc' = "copy" PROVE CopyInv'
  BY DEF CopyInv
<1>1. /\ Restoring /\ UNCHANGED <<arc, restored, trees>> /\ trees \in Nat
      /\ Destination = Live
      /\ live' = [p \in Paths |-> IF Recreated(p) THEN Dir ELSE None]
      /\ reads' = StreamsToRead
  BY DEF RecreateTree, Restoring, RestoreInv, store
<1>2. PICK s \in SetToSeqs(Waiting) :
        InIdOrder(s) /\ later' = [i \in DOMAIN s |-> s[i][2]]
  BY DEF RecreateTree
<1>3. /\ DOMAIN s = 1..Len(s) /\ Len(s) \in Nat
      /\ \A i \in DOMAIN s : s[i] \in Waiting
      /\ \A i, j \in DOMAIN s : s[i] = s[j] => i = j
      /\ \A w \in Waiting : \E i \in DOMAIN s : s[i] = w
  BY <1>1, <1>2, EveryoneWaits
<1>4. Waiting = (1..trees) \X WithData
  BY DEF Waiting, WithData
<1>5. DOMAIN later' = DOMAIN s /\ \A i \in DOMAIN s : later'[i] = s[i][2]
  BY <1>2
<1>6. /\ \A w \in Waiting : w[1] \in 1..trees /\ w[2] \in WithData
      /\ \A v, w \in Waiting : v[1] = w[1] /\ v[2] = w[2] => v = w
  BY <1>4, PairIs
<1>7. later' \in Seq(WithData)
  <2>1. \A i \in DOMAIN s : s[i] \in Waiting
    BY <1>3
  <2>2. \A i \in DOMAIN s : s[i][2] \in WithData
    BY <1>6, <2>1
  <2>3. later' \in [1..Len(s) -> WithData]
    BY <1>2, <1>3, <2>2
  <2> QED
    BY <1>3, <2>3
<1>8. \A p \in WithData : \E i \in DOMAIN later' : later'[i] = p
  <2> SUFFICES ASSUME NEW p \in WithData PROVE \E i \in DOMAIN later' : later'[i] = p
    OBVIOUS
  <2>1. trees >= 1
    BY <1>1 DEF RestoreInv, Loaded
  <2>2. <<1, p>> \in Waiting
    BY <1>1, <1>4, <2>1
  <2>3. PICK i \in DOMAIN s : s[i] = <<1, p>>
    BY <1>3, <2>2
  <2> QED
    BY <1>5, <2>3
<1>9. \A i, j \in DOMAIN later' : i < j => IdOf(later'[i]) <= IdOf(later'[j])
  BY <1>2, <1>5 DEF InIdOrder
<1>10. trees = 1 => \A i, j \in DOMAIN later' : later'[i] = later'[j] => i = j
  <2> SUFFICES ASSUME trees = 1, NEW i \in DOMAIN s, NEW j \in DOMAIN s, s[i][2] = s[j][2]
      PROVE  i = j
    BY <1>5
  <2>1. s[i] \in Waiting /\ s[j] \in Waiting
    BY <1>3
  <2>2. s[i] = s[j]
    <3>1. s[i][1] = s[j][1]
      BY <1>6, <2>1
    <3> QED
      BY <1>6, <2>1, <3>1
  <2> QED
    BY <1>3, <2>2
<1>11. LaterInv'
  BY <1>1, <1>7, <1>8, <1>9, <1>10, VersionKept DEF LaterInv
<1>12. ReadsInv' /\ \A p : ~HasRead(p)'
  BY <1>1, VersionKept DEF ReadsInv, HasRead
<1>13. \A p \in WithData : live'[p] = None
  BY <1>1 DEF WithData, HasData, FileTypes, Recreated
<1>14. \A p \in WithData : Copied(p)'
  BY <1>12, <1>13, BackupEngineAssumption DEF Copied
<1> QED
  BY <1>1, <1>11, <1>12, <1>14, VersionKept DEF CopyInv, WithData, Destination

-----------------------------------------------------------------------------
(***************************************************************************)
(* Every step.                                                             *)
(***************************************************************************)
\* What a restore has not begun, or has ended, needs nothing of this.
LEMMA NotRestoring ==
  ASSUME restores \in Nat, trees \in Nat, trees' \in Nat, UNCHANGED restores, ~Restoring'
  PROVE  RestoreInv'
BY DEF RestoreInv, Loaded, CopyInv, Restoring

LEMMA SourceRests ==
  ASSUME ~ConcurrentEdits, Restoring
  PROVE  ~Environment
BY DEF Environment, WriteFile, CreateFile, LinkFile, RenameFile, DeletePath, MakeDirectory,
       ClearArchiveFlag, Edit, RemoveVersion, Restoring, Busy

LEMMA BackupPhases ==
  ASSUME Backup
  PROVE  ~Restoring /\ ~Restoring'
BY DEF Backup, BeginBackup, ListSource, ReuseBaseObjects, ScanEntry, RecalculateFileGuid,
       PrepareStreams, SkipObject, AddInitialStream, AddChangedFile, KeepUnmodified, Visit,
       WriteStream, CommitArchive, Restoring

LEMMA SourceKeepsPhase == Environment => UNCHANGED pc
BY DEF Environment, WriteFile, CreateFile, LinkFile, RenameFile, DeletePath, MakeDirectory,
       ClearArchiveFlag, Edit, RemoveVersion

LEMMA RestoreInvNext ==
  ASSUME ~ConcurrentEdits
  PROVE  StoreInv /\ RestoreInv /\ [RestoreNext]_<<vars, restoring>> => RestoreInv'
<1> SUFFICES ASSUME StoreInv, RestoreInv, [RestoreNext]_<<vars, restoring>> PROVE RestoreInv'
  OBVIOUS
<1>1. restores \in Nat /\ trees \in Nat
  BY DEF RestoreInv
<1>2. CASE OpenTarget \/ BackupStep
  <2>1. ~Restoring' /\ UNCHANGED restores /\ trees' \in Nat
    BY <1>1, <1>2, BackupPhases DEF OpenTarget, Open, BackupStep, Restoring, restoring
  <2> QED
    BY <1>1, <2>1, NotRestoring
<1>3. CASE SourceStep
  <2>1. ~Restoring /\ UNCHANGED pc /\ UNCHANGED <<restores, trees>>
    BY <1>3, SourceRests, SourceKeepsPhase DEF SourceStep, restoring
  <2>2. ~Restoring'
    BY <2>1 DEF Restoring
  <2> QED
    BY <1>1, <2>1, <2>2, NotRestoring
<1>4. CASE Quit \/ FinishRestore
  <2>1. ~Restoring' /\ UNCHANGED restores /\ trees' \in Nat
    BY <1>1, <1>4 DEF Quit, EndSession, FinishRestore, Restoring
  <2> QED
    BY <1>1, <2>1, NotRestoring
<1>5. CASE LoadVersions
  BY <1>5, LoadKeeps
<1>6. CASE RecreateTree \/ FailBelowDevice \/ SkipStream \/ CopyStream
  <2>1. CopyInv'
    <3>1. FailBelowDevice => CopyInv'
      BY DEF FailBelowDevice, CopyInv
    <3> QED
      BY <1>6, <3>1, RecreateKeeps, SkipKeeps, CopyKeeps
  <2>2. Restoring /\ UNCHANGED <<arc, restored, trees, restores>>
    BY <1>6 DEF RecreateTree, FailBelowDevice, SkipStream, CopyStream, Restoring, store
  <2>3. Loaded'
    BY <2>2, VersionKept DEF Loaded, RestoreInv, Stored
  <2> QED
    BY <1>1, <2>1, <2>2, <2>3 DEF RestoreInv
<1>7. CASE UNCHANGED <<vars, restoring>>
  <2>1. UNCHANGED <<live, inode, arc, pc, restored, trees, later, reads, restores>>
    BY <1>7 DEF vars, disk, store, restoring
  <2>2. \A p : /\ HasRead(p)' <=> HasRead(p)
               /\ FirstForId(p)' <=> FirstForId(p)
    BY <2>1, VersionKept DEF HasRead, FirstForId, From
  <2>3. /\ LaterInv' <=> LaterInv
        /\ ReadsInv' <=> ReadsInv
    BY <2>1, VersionKept DEF LaterInv, ReadsInv
  <2>4. \A p : Copied(p)' <=> Copied(p)
    BY <2>1, <2>2, VersionKept DEF Copied
  <2>5. CopyInv'
    BY <2>1, <2>3, <2>4, VersionKept DEF RestoreInv, CopyInv, Paths, Destination
  <2>6. Loaded'
    BY <2>1, VersionKept DEF Loaded, RestoreInv, Stored, Restoring
  <2> QED
    BY <1>1, <2>1, <2>5, <2>6 DEF RestoreInv
<1> QED
  BY <1>2, <1>3, <1>4, <1>5, <1>6, <1>7 DEF RestoreNext

\* To the backup half a step is one of its own, or replaces the source.
LEMMA EngineStep ==
  ASSUME ~ConcurrentEdits, StoreInv, RestoreInv, [RestoreNext]_<<vars, restoring>>
  PROVE  [E!Next]_(E!vars) \/ E!Replaced
<1>1. CASE OpenTarget \/ BackupStep \/ SourceStep \/ Quit
  BY <1>1, EngineOpen, EngineBackup, EngineEnvironment, EngineQuit
     DEF BackupStep, SourceStep, E!Next
<1>2. ASSUME phase = "open", phase' = "open",
             live' \in [Paths -> Guids \cup {None, Dir}], inode' \in [Guids -> Inode],
             UNCHANGED <<edits, store, settings, backups, shadow, objects, oldTree, todo, retry,
                         ids, pending, seen>>
      PROVE  E!Replaced
  BY <1>2, EngineNames
     DEF store, settings, objects, oldTree, ids, pending, E!Replaced, E!store, E!settings,
         E!objects, E!oldTree, E!ids, E!pending
<1>3. CASE LoadVersions \/ FailBelowDevice \/ SkipStream \/ FinishRestore
  <2>1. phase = "open" /\ phase' = "open" /\ UNCHANGED <<live, inode, edits>>
    BY <1>3 DEF LoadVersions, FailBelowDevice, SkipStream, FinishRestore, phase, Restoring, disk
  <2>2. E!Replaced
    BY <1>2, <1>3, <2>1 DEF LoadVersions, FailBelowDevice, SkipStream, FinishRestore, StoreInv
  <2> QED
    BY <2>2
<1>4. CASE RecreateTree
  <2>1. phase = "open" /\ phase' = "open"
    BY <1>4 DEF RecreateTree, phase, Restoring
  <2>2. live' \in [Paths -> Guids \cup {None, Dir}]
    BY <1>4 DEF RecreateTree
  <2>3. E!Replaced
    BY <1>2, <1>4, <2>1, <2>2 DEF RecreateTree, StoreInv
  <2> QED
    BY <2>3
<1>5. CASE CopyStream
  <2>1. phase = "open" /\ phase' = "open" /\ Restoring /\ Loaded /\ ReadsInv
    BY <1>5 DEF CopyStream, phase, Restoring, RestoreInv, CopyInv
  <2>2. PICK r \in reads, g \in Guids :
          /\ inode' = [inode EXCEPT ![g] = [content |-> StreamAt(r).data,
                                            mtime |-> MaxEdits + restores, archive |-> TRUE]]
          /\ \E Q \in SUBSET Paths : live' = [q \in Paths |-> IF q \in Q THEN g ELSE live[q]]
    <3>1. PICK r \in reads :
            \E i \in From(StreamAt(r).StreamId), g \in Guids : CopyTo(r, i, g)
      BY <1>5, CopyStreamIs
    <3>2. PICK i \in From(StreamAt(r).StreamId), g \in Guids : CopyTo(r, i, g)
      BY <3>1
    <3> DEFINE Q == {q \in Paths : q = later[i] \/ \E j \in Linked(r, i) : later[j] = q}
    <3>3. live' = [q \in Paths |-> IF q \in Q THEN g ELSE live[q]] /\ Q \in SUBSET Paths
      BY <3>2 DEF CopyTo
    <3>4. inode' = [inode EXCEPT ![g] = [content |-> StreamAt(r).data,
                                        mtime |-> MaxEdits + restores, archive |-> TRUE]]
      BY <3>2 DEF CopyTo
    <3>5. \E P \in SUBSET Paths : live' = [q \in Paths |-> IF q \in P THEN g ELSE live[q]]
      BY <3>3
    <3> QED
      BY <3>4, <3>5, Zenon
  <2>3. StreamAt(r).data \in Contents
    BY <2>1, StreamsAre DEF ReadsInv, Written
  <2>4. MaxEdits + restores \in Nat
    BY BackupEngineAssumption DEF RestoreInv
  <2>5. inode' \in [Guids -> Inode]
    BY <2>2, <2>3, <2>4 DEF StoreInv, Inode
  <2>6. live' \in [Paths -> Guids \cup {None, Dir}]
    BY <2>2 DEF StoreInv
  <2>7. E!Replaced
    BY <1>2, <1>5, <2>1, <2>5, <2>6 DEF CopyStream
  <2> QED
    BY <2>7
<1>6. CASE UNCHANGED <<vars, restoring>>
  <2>1. UNCHANGED phase
    BY <1>6 DEF vars, phase, Restoring
  <2> QED
    BY <1>6, <2>1, EngineVars
<1> QED
  BY <1>1, <1>3, <1>4, <1>5, <1>6 DEF RestoreNext

-----------------------------------------------------------------------------
(***************************************************************************)
(* What a restore leaves in the source.                                    *)
(***************************************************************************)
LEMMA RestoreInvInit == RestoreInit => E!Init /\ RestoreInv
<1> SUFFICES ASSUME RestoreInit PROVE E!Init /\ RestoreInv
  OBVIOUS
<1>1. RestoreInv
  BY DEF RestoreInit, Init, RestoreInv, Loaded, CopyInv, Restoring
<1>2. phase = pc
  BY PhaseKept DEF RestoreInit, Init
<1>3. E!Init
  BY <1>2
     DEF RestoreInit, Init, NoObjects, NoTruth, Paths, Versions, E!Init, E!NoObjects, E!NoTruth,
         E!Paths, E!Versions
<1> QED
  BY <1>1, <1>3

LEMMA EngineInvInit == E!Init => EngineInv
BY E!DataInvInit, E!RefInvInit, E!ReachInvInit, BackupEngineAssumption, EngineNone, EngineExclusions
   DEF EngineInv

LEMMA EngineInvNext ==
  ASSUME ~ConcurrentEdits
  PROVE  EngineInv /\ ([E!Next]_(E!vars) \/ E!Replaced) => EngineInv'
BY E!DataInvNext, E!RefInvNext, E!ReachInvNext, E!DataInvReplaced, E!RefInvReplaced,
   E!ReachInvReplaced, BackupEngineAssumption, EngineNone, EngineExclusions DEF EngineInv

LEMMA RestoredSource ==
  ASSUME StoreInv, RestoreInv
  PROVE  RestoredExactly
<1>1. AllRead => pc = "copy" /\ reads = {} /\ Restoring /\ Loaded
  BY DEF AllRead, Restoring, RestoreInv
<1>2. AllRead => Destination = Live /\ arc[restored].main.Type = "Directory"
  <2> SUFFICES ASSUME AllRead PROVE Destination = Live /\ arc[restored].main.Type = "Directory"
    OBVIOUS
  <2>1. Destination = Live
    BY <1>1 DEF RestoreInv, CopyInv
  <2>2. restored \in Stored
    BY <1>1 DEF Loaded, Opened
  <2> QED
    BY <2>1, <2>2 DEF Destination, StoreInv
<1> SUFFICES ASSUME AllRead
    PROVE  \A p \in Paths :
             IF HasData(Objects[p])
               THEN /\ IsFile(live[p])
                    /\ \A q \in Paths :
                         HasData(Objects[q]) => (live[p] = live[q] <=> IdOf(p) = IdOf(q))
                    /\ Overwritten(p) \/ DataOf(p) = {inode[live[p]].content}
               ELSE live[p] = IF Recreated(p) THEN Dir ELSE None
  BY <1>2 DEF RestoredExactly
<1>3. \A p \in Paths \ WithData : live[p] = IF Recreated(p) THEN Dir ELSE None
  BY <1>1 DEF RestoreInv, CopyInv
<1>4. \A p \in WithData : HasRead(p) /\ Copied(p)
  BY <1>1, StreamOfFile DEF HasRead, RestoreInv, CopyInv
<1>5. ASSUME NEW p \in WithData
      PROVE  /\ IsFile(live[p])
             /\ \A q \in WithData : live[p] = live[q] <=> IdOf(p) = IdOf(q)
             /\ Overwritten(p) \/ DataOf(p) = {inode[live[p]].content}
  BY <1>4 DEF Copied, IsFile
<1> QED
  BY <1>3, <1>5 DEF WithData

\* When a restore has read everything it has worked at the source's own path, not
\* at a shadow copy's, and the source is what the version holds, whatever it was
\* before, for every number of paths, versions, restores and
\* removed versions, if nothing else changes it while a backup or a restore
\* runs (RestoreBackup): the version's directories, one file for all the paths
\* that share a stream and for no other, each with its data unless an older
\* archive's unneeded stream was written over it (restoreLater).
THEOREM SourceRestored ==
  ASSUME ~ConcurrentEdits
  PROVE  RestoreSpec => []RestoredExactly
<1>1. RestoreInit => EngineInv /\ RestoreInv
  BY RestoreInvInit, EngineInvInit
<1>2. EngineInv /\ RestoreInv /\ [RestoreNext]_<<vars, restoring>> => (EngineInv /\ RestoreInv)'
  BY StoreInvHolds, RestoreInvNext, EngineStep, EngineInvNext
<1>3. EngineInv /\ RestoreInv => RestoredExactly
  BY StoreInvHolds, RestoredSource
<1> QED
  BY <1>1, <1>2, <1>3, PTL DEF RestoreSpec

-----------------------------------------------------------------------------
(***************************************************************************)
(* Why a restore can stop half way.                                        *)
(***************************************************************************)
HashedInv ==
  EngineInv /\ E!NumberFree /\ E!HashInv /\ E!HashMatchesData /\ E!ShareInv

LEMMA HashedInvInit == E!Init => HashedInv
BY EngineInvInit, E!NumberFreeInit, E!HashInvInit, E!ShareInvInit, BackupEngineAssumption,
   EngineNone, EngineExclusions DEF HashedInv

LEMMA HashedInvNext ==
  ASSUME ~ConcurrentEdits, MaxSessionBackups = 1, Criteria \subseteq {"Hash"}
  PROVE  HashedInv /\ ([E!Next]_(E!vars) \/ E!Replaced) => HashedInv'
<1>1. HashedInv /\ [E!Next]_(E!vars) => HashedInv'
  <2> SUFFICES ASSUME HashedInv, [E!Next]_(E!vars) PROVE HashedInv'
    OBVIOUS
  <2>1. EngineInv'
    BY EngineInvNext DEF HashedInv
  <2>2. E!NumberFree'
    BY E!NumberFreeNext, BackupEngineAssumption, EngineNone, EngineExclusions
       DEF HashedInv, EngineInv, E!DataInv
  <2>3. E!HashInv' /\ E!HashMatchesData'
    BY E!HashInvNext, BackupEngineAssumption, EngineNone, EngineExclusions
       DEF HashedInv, EngineInv
  <2>4. E!ShareInv'
    BY E!ShareInvNext, BackupEngineAssumption, EngineNone, EngineExclusions
       DEF HashedInv, EngineInv
  <2> QED
    BY <2>1, <2>2, <2>3, <2>4 DEF HashedInv
<1>2. HashedInv /\ E!Replaced => HashedInv'
  BY EngineInvNext, E!HashInvReplaced, E!ShareInvReplaced, BackupEngineAssumption, EngineNone,
     EngineExclusions DEF HashedInv, EngineInv
<1> QED
  BY <1>1, <1>2

LEMMA LinksShare == HashedInv => OnlyLinksShare
BY EngineNames
   DEF HashedInv, OnlyLinksShare, E!ShareInv, E!ArcShare, E!OneStreamFor, E!OneFile

LEMMA FailuresNext ==
  ASSUME ~ConcurrentEdits
  PROVE  StoreInv /\ OnlyLinksShare /\ RestoreInv /\ FailuresKnown
         /\ [RestoreNext]_<<vars, restoring>> => FailuresKnown'
<1> SUFFICES ASSUME StoreInv, OnlyLinksShare, RestoreInv, FailuresKnown,
                    [RestoreNext]_<<vars, restoring>>, pc' = "failed"
    PROVE  trees' > 1 \/ arc'[restored'].main.UnmappedBasePath \in Devices
  BY DEF FailuresKnown
<1>1. CASE RecreateTree \/ FailBelowDevice
  <2>1. restored \in Stored /\ UNCHANGED <<arc, restored>>
    BY <1>1 DEF RecreateTree, FailBelowDevice, store, RestoreInv, Loaded, Opened, Restoring
  <2>2. Junctions = {}
    BY <2>1 DEF StoreInv, Junctions, Objects
  <2>3. FailBelowDevice
    BY <1>1, <2>2 DEF RecreateTree
  <2>4. arc[restored] \in Archive
    BY <2>1 DEF StoreInv, Stored
  <2>5. arc[restored].main.UnmappedBasePath \in Locs
    BY <2>4 DEF Archive, Main
  <2> QED
    BY <2>1, <2>3, <2>5 DEF FailBelowDevice, Destination, Locs
<1>2. CASE CopyStream
  BY <1>2, CopyFails DEF CopyStream
<1>3. CASE UNCHANGED <<pc, trees, restored, arc>>
  BY <1>3, VersionKept DEF FailuresKnown
<1>4. CASE SourceStep
  BY <1>4, SourceRests, SourceKeepsPhase DEF SourceStep, Restoring
<1>5. CASE BackupStep
  BY <1>5, BackupPhases DEF BackupStep, Restoring
<1> QED
  BY <1>1, <1>2, <1>3, <1>4, <1>5
     DEF RestoreNext, OpenTarget, Open, Quit, EndSession, LoadVersions, SkipStream,
         FinishRestore, vars, store, restoring

\* When files are compared by hash, sessions make one backup and the source
\* rests while one runs, a restore that works at the source's own path never
\* finds a regular file where it expects a hardlink, a file in the place of one
\* (the cast and CreateHardlink in RestoreBackup) or a junction without a target,
\* unless the tree is there twice: no two objects of a version have one stream
\* but hardlinks of one file, and no path vanishes under a scan.  What is left is
\* a version whose main object stands for a shadow copy's path.
THEOREM RestoresFailForKnownReasons ==
  ASSUME ~ConcurrentEdits, MaxSessionBackups = 1, Criteria \subseteq {"Hash"}
  PROVE  RestoreSpec => []FailuresKnown
<1> DEFINE Inv == HashedInv /\ RestoreInv /\ FailuresKnown
<1>1. RestoreInit => Inv
  BY RestoreInvInit, HashedInvInit DEF FailuresKnown, RestoreInit, Init
<1>2. Inv /\ [RestoreNext]_<<vars, restoring>> => Inv'
  <2> SUFFICES ASSUME Inv, [RestoreNext]_<<vars, restoring>> PROVE Inv'
    OBVIOUS
  <2>1. StoreInv /\ OnlyLinksShare
    BY StoreInvHolds, LinksShare DEF HashedInv
  <2>2. RestoreInv'
    BY <2>1, RestoreInvNext
  <2>3. HashedInv'
    BY <2>1, EngineStep, HashedInvNext
  <2>4. FailuresKnown'
    BY <2>1, FailuresNext
  <2> QED
    BY <2>2, <2>3, <2>4
<1>3. Inv => FailuresKnown
  OBVIOUS
<1> QED
  BY <1>1, <1>2, <1>3, PTL DEF RestoreSpec
=============================================================================
