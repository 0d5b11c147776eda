------------------------- MODULE BackupStore_proofs -------------------------
(***************************************************************************)
(* The archives BackupEngine writes implement VersionStore, as long as     *)
(* nothing else changes the source under a backup, a session makes one     *)
(* backup, files are compared by hash and no shadow copies are used.       *)
(* Whatever files are compared by, what is included has data, as long as   *)
(* nothing is taken away from the source or the target.  Versions read     *)
(* through shadow copies are exact but for files whose identity clashes    *)
(* with another's, whatever happens to the source.                         *)
(***************************************************************************)
EXTENDS BackupStore, BackupData_proofs

Undisturbed ==
  ~ConcurrentEdits /\ MaxSessionBackups = 1 /\ SnapshotModes \subseteq {FALSE}

Assumptions == Undisturbed /\ Criteria \subseteq {"Hash"}

-----------------------------------------------------------------------------
(***************************************************************************)
(* The inductive invariant.                                                *)
(***************************************************************************)
\* Without snapshots the source is read where it is, in every version.
AtLive(m) == m # None => m.MappedBasePath = Live

InPlace ==
  /\ shadow = None /\ retry = {}
  /\ pc # "closed" => ~useSnapshots
  /\ AtLive(main) /\ AtLive(oldMain)
  /\ \A v \in Stored : AtLive(arc[v].main)

\* The objects are the entries of the source, files with their identities.
Identity(e) == IF IsFile(e) THEN e ELSE None

Listed(p) ==
  /\ live[p] # None <=> base[p] # None \/ (pc = "scan" /\ p \in todo)
  /\ base[p] # None =>
       /\ base[p].Type \in FileTypes <=> IsFile(live[p])
       /\ base[p].FileSystemGuid = Identity(live[p])

AllListed == pc \in {"scan", "archive"} => \A p \in Paths : Listed(p)

\* An object with a hash has data.
Backed(o) == o # None /\ o.Hashes # None => HasData(o)

AllBacked == \A p \in Paths : Visited(p) => Backed(base[p])
ArcBacked == \A v \in Stored : \A p \in Paths : Backed(arc[v].BaseObjects[p])

Content(p) == inode[live[p]].content

\* A visited file refers to its present content, in this version or before.
Right(p) ==
  p \notin excluded /\ IsFile(live[p]) =>
    /\ base[p].LatestVersion >= 0
    /\ IF base[p].BackupStream = "Full"
         THEN \E i \in DOMAIN streams :
                /\ streams[i].UniqueId = base[p].StreamUniqueId
                /\ live[streams[i].fso] = live[p]
         ELSE base[p].LatestVersion \in Stored =>
                StreamData(base[p].LatestVersion, base[p].StreamUniqueId) = {Content(p)}

AllRight == \A p \in Paths : Visited(p) => Right(p)

StoreInv == ByHash /\ InPlace /\ AllListed /\ AllBacked /\ ArcBacked /\ AllRight

-----------------------------------------------------------------------------
(***************************************************************************)
(* What is added for sessions with any criterion, as long as nothing is    *)
(* taken away from the source or the target.                               *)
(***************************************************************************)
FilesStay == EditKinds \cap {"delete", "rename", "remove"} = {}

Recorded == \A v \in Stored : truth[v] \in Truth

SeenExact == Busy => \A p \in Paths : seen[p] # {} <=> IsFile(live[p])

\* Whatever a version has an object of is still there.
ArcListed ==
  \A v \in Stored : \A p \in Paths :
    LET o == arc[v].BaseObjects[p]
    IN  o # None =>
          /\ live[p] # None
          /\ o.Type \in FileTypes <=> IsFile(live[p])
          /\ o.FileSystemGuid = Identity(live[p])
          /\ truth[v].seen[p] # {} <=> IsFile(live[p])

\* Why a file that is backed up now may stay without data.
Excused(p) ==
  \E w \in 0..(count - 1) \cap Stored :
    /\ \E q \in truth[w].excluded : live[q] = live[p]
    /\ crit # "Hash"
    /\ \A x \in (w + 1)..(count - 1) \cap Stored : truth[x].crit # "Hash"

Included(p) ==
  p \notin excluded /\ IsFile(live[p]) => base[p].LatestVersion >= 0 \/ Excused(p)

AllIncluded == \A p \in Paths : Visited(p) => Included(p)

IncludedInv ==
  /\ InPlace /\ AllListed /\ AllBacked /\ ArcBacked
  /\ Recorded /\ SeenExact /\ ArcListed /\ AllIncluded

-----------------------------------------------------------------------------
(***************************************************************************)
(* The source is read where it is.                                         *)
(***************************************************************************)
LEMMA InPlaceNext ==
  ASSUME Undisturbed, TypeInv, InPlace, [Next]_vars
  PROVE  InPlace'
<1> USE DEF settings, objects, oldTree, store
<1>1. CASE UNCHANGED <<arc, shadow, retry, useSnapshots, crit, main, oldMain>> /\ pc # "closed"
  BY <1>1 DEF InPlace, AtLive, Stored
<1>2. CASE Open
  BY <1>2 DEF Open, InPlace, AtLive, Stored, Undisturbed
<1>3. CASE EndSession
  BY <1>3 DEF EndSession, InPlace, AtLive, Stored
<1>4. CASE BeginBackup
  <2>1. /\ UNCHANGED <<arc, useSnapshots, crit, main, retry>> /\ pc = "open"
        /\ shadow' = None
    BY <1>4 DEF BeginBackup, InPlace
  <2>2. AtLive(oldMain')
    <3>1. CASE count = 0
      BY <1>4, <3>1 DEF BeginBackup, InPlace
    <3>2. CASE count # 0
      <4>1. PICK v \in known : oldMain' = arc[v].main
        BY <1>4, <3>2 DEF BeginBackup
      <4>2. v \in Stored
        BY <2>1 DEF TypeInv, WellFormed
      <4> QED
        BY <4>1, <4>2 DEF InPlace
    <3> QED
      BY <3>1, <3>2
  <2> QED
    BY <2>1, <2>2 DEF InPlace, AtLive, Stored
<1>5. CASE ListSource
  <2>1. /\ UNCHANGED <<arc, shadow, retry, useSnapshots, crit, oldMain>> /\ pc = "list"
        /\ main'.MappedBasePath = SourceLocation
    BY <1>5 DEF ListSource
  <2>2. SourceLocation = Live
    <3>1. count # 0 => oldMain # None
      BY <2>1 DEF TypeInv, TypeOK, WellFormed, Busy
    <3> QED
      BY <3>1 DEF SourceLocation, CurrentSourceLocation, MapPathForward, InPlace, AtLive
  <2> QED
    BY <2>1, <2>2 DEF InPlace, AtLive, Stored
<1>6. ASSUME NEW p \in Paths, ScanEntry(p) \/ RecalculateFileGuid(p) PROVE InPlace'
  <2>1. /\ UNCHANGED <<arc, shadow, useSnapshots, crit, main, oldMain>> /\ pc = "scan"
    BY <1>6 DEF ScanEntry, RecalculateFileGuid
  <2>2. main.MappedBasePath = Live
    BY <2>1 DEF TypeInv, WellFormed, InPlace, AtLive
  <2>3. retry' = retry
    BY <1>6, <2>2 DEF ScanEntry, RecalculateFileGuid, InPlace, IsFirst
  <2> QED
    BY <1>1, <2>1, <2>3
<1>7. CASE CommitArchive
  <2>1. /\ UNCHANGED <<retry, useSnapshots, crit, main, oldMain>> /\ pc = "archive"
        /\ shadow' = None
    BY <1>7 DEF CommitArchive
  <2>2. ASSUME NEW v \in Stored' PROVE AtLive(arc'[v].main)
    <3>1. CASE v # count
      BY <1>7, <3>1, CommitIs DEF InPlace
    <3>2. CASE v = count
      <4>1. arc'[v] = NewArchive
        BY <1>7, <3>2, CommitIs
      <4>2. NewArchive.main = main
        BY DEF NewArchive
      <4> QED
        BY <4>1, <4>2 DEF InPlace
    <3> QED
      BY <3>1, <3>2
  <2> QED
    BY <2>1, <2>2 DEF InPlace, AtLive
<1>8. ASSUME NEW p \in Paths, SkipObject(p) \/ AddInitialStream(p)
                              \/ AddChangedFile(p) \/ KeepUnmodified(p)
      PROVE  InPlace'
  <2>1. Visit(p)
    BY <1>8 DEF SkipObject, AddInitialStream, AddChangedFile, KeepUnmodified
  <2> QED
    BY <1>1, <2>1, VisitLeaves
<1>9. CASE Environment
  <2>1. ASSUME NEW v \in Versions, RemoveVersion(v) PROVE InPlace'
    BY <2>1, RemoveLeaves DEF InPlace, AtLive
  <2>2. CASE \A v \in Versions : ~RemoveVersion(v)
    BY <1>9, <2>2, EditIs, EditLeaves DEF InPlace, AtLive, Stored
  <2> QED
    BY <2>1, <2>2
<1>10. CASE UNCHANGED vars
  BY <1>10 DEF vars, InPlace, AtLive, Stored
<1> QED
  BY <1>1, <1>2, <1>3, <1>4, <1>5, <1>6, <1>7, <1>8, <1>9, <1>10
     DEF Next, Backup, ReuseBaseObjects, PrepareStreams, WriteStream

LEMMA ReadsLive ==
  ASSUME TypeInv, InPlace, baseSet, NEW p \in Paths
  PROVE  /\ Found(p) = live[p]
         /\ ReadAt(main.MappedBasePath, p) = IF IsFile(live[p]) THEN Content(p) ELSE None
<1>1. main.MappedBasePath = Live
  BY DEF InPlace, AtLive, TypeInv, WellFormed
<1> QED
  BY <1>1 DEF Found, ReadAt, EntryAt, InodeAt, Content

-----------------------------------------------------------------------------
(***************************************************************************)
(* The objects are the entries of the source.                              *)
(***************************************************************************)
\* Steps of the backup that leave the source and what the objects are alone.
LEMMA ListedKept ==
  ASSUME AllListed, UNCHANGED live, pc \in {"scan", "archive"},
         pc = "scan" => (todo = {} /\ pc' = "archive") \/ (todo' = todo /\ pc' = pc),
         pc = "archive" => pc' = pc,
         \A p \in Paths : base[p] = None => base'[p] = base[p],
         \A p \in Paths : base[p] # None => base'[p] # None /\ SameFile(base[p], base'[p])
  PROVE  AllListed'
<1> SUFFICES ASSUME NEW p \in Paths PROVE Listed(p)'
  BY DEF AllListed
<1>1. Listed(p)
  BY DEF AllListed
<1> QED
  BY <1>1 DEF Listed, SameFile

LEMMA ListedVisit ==
  ASSUME AllListed, NEW p \in Paths, Replaces(p), SameFile(base[p], base'[p]),
         pc = "archive", UNCHANGED <<pc, live>>
  PROVE  AllListed'
<1>1. \A q \in Paths : base[q] = None => base'[q] = base[q]
  BY DEF Replaces
<1>2. \A q \in Paths : base[q] # None => base'[q] # None /\ SameFile(base[q], base'[q])
  BY OthersKeep
<1> QED
  BY <1>1, <1>2, ListedKept

LEMMA ListedScan ==
  ASSUME TypeInv, InPlace, InPlace', AllListed, NEW p \in Paths, ScanEntry(p)
  PROVE  AllListed'
<1>1. pc = "scan" /\ pc' = pc /\ baseSet /\ UNCHANGED live
  BY DEF ScanEntry, disk, TypeInv, WellFormed
<1>2. PICK g \in Guids \cup {None} :
        /\ base' = [base EXCEPT ![p] = FsoFor(p, Found(p), g)]
        /\ FsoFor(p, Found(p), g) \in Fso
        /\ \/ retry' = retry /\ g = IF IsFile(Found(p)) THEN Found(p) ELSE None
           \/ IsFile(Found(p)) /\ g = None /\ retry' = retry \cup {p}
        /\ p \in todo /\ todo' = todo \ {p}
  BY ScanIs
<1>3. Found(p) = live[p]
  BY <1>1, ReadsLive
<1>4. /\ base'[p] = FsoFor(p, live[p], g) /\ base'[p] # None
      /\ \A q \in Paths \ {p} : base'[q] = base[q]
  BY <1>2, <1>3, NoneAssumption DEF TypeInv, TypeOK
<1>5. g = Identity(live[p])
  BY <1>2, <1>3 DEF InPlace, Identity
<1>6. base'[p].FileSystemGuid = g /\ (base'[p].Type \in FileTypes <=> IsFile(live[p]))
  BY <1>4 DEF FsoFor, FileTypes, IsFile
<1>7. Listed(p)'
  <2>1. live[p] # None
    BY <1>1, <1>2 DEF AllListed, Listed
  <2> QED
    BY <1>1, <1>4, <1>5, <1>6, <2>1 DEF Listed, Identity
<1>8. ASSUME NEW q \in Paths \ {p} PROVE Listed(q)'
  <2>1. Listed(q)
    BY <1>1 DEF AllListed
  <2> QED
    BY <1>1, <1>2, <1>4, <2>1 DEF Listed
<1> QED
  BY <1>7, <1>8 DEF AllListed

LEMMA AllListedNext ==
  ASSUME Undisturbed, TypeInv, TypeInv', Phases, NumberFree, FirstScan, InPlace, InPlace',
         AllListed, [Next]_vars
  PROVE  AllListed'
<1>1. CASE pc' \notin {"scan", "archive"}
  BY <1>1 DEF AllListed
<1>2. CASE ListSource
  <2>1. /\ pc' = "scan" /\ UNCHANGED <<live, base>> /\ shadow = None
        /\ main'.MappedBasePath = SourceLocation
        /\ todo' = {p \in Paths : EntryAt(SourceLocation, p) # None}
    BY <1>2 DEF ListSource, disk, InPlace
  <2>2. main'.MappedBasePath = Live
    <3>1. main' # None
      BY <1>2 DEF ListSource, TypeInv, WellFormed
    <3> QED
      BY <3>1 DEF InPlace, AtLive
  <2>3. todo' = {p \in Paths : live[p] # None}
    BY <2>1, <2>2 DEF EntryAt
  <2>4. base = NoObjects
    BY <1>2, NothingReused DEF Undisturbed
  <2> QED
    BY <2>1, <2>3, <2>4 DEF AllListed, Listed, NoObjects
<1>3. CASE ReuseBaseObjects
  BY <1>3, NothingReused DEF Undisturbed, ReuseBaseObjects
<1>4. CASE \E p \in Paths : ScanEntry(p)
  BY <1>4, ListedScan
<1>5. CASE \E p \in Paths : RecalculateFileGuid(p)
  BY <1>5 DEF RecalculateFileGuid, InPlace, IsFirst
<1>6. CASE PrepareStreams
  <2>1. pc = "scan" /\ pc' = "archive" /\ todo = {} /\ UNCHANGED live
    BY <1>6 DEF PrepareStreams, disk
  <2>2. \A p \in Paths : base[p] = None => base'[p] = base[p]
    BY <1>6, PrepareIs
  <2>3. ASSUME NEW p \in Paths, base[p] # None PROVE base'[p] # None /\ SameFile(base[p], base'[p])
    <3>1. CASE OldObject(p) = None
      BY <1>6, <2>3, <3>1, PrepareIs DEF SameFile
    <3>2. CASE OldObject(p) # None
      BY <1>6, <2>3, <3>2, PrepareIs
    <3> QED
      BY <3>1, <3>2
  <2> QED
    BY <2>1, <2>2, <2>3, ListedKept
<1>7. ASSUME NEW p \in Paths, SkipObject(p) \/ KeepUnmodified(p) PROVE AllListed'
  <2>1. Visit(p) /\ Replaces(p) /\ SameFile(base[p], base'[p])
    BY <1>7, SkipIs, KeepIs
  <2> QED
    BY <2>1, VisitLeaves, ListedVisit
<1>8. ASSUME NEW p \in Paths, AddInitialStream(p) \/ AddChangedFile(p) PROVE AllListed'
  <2>1. Visit(p) /\ Replaces(p) /\ SameFile(base[p], base'[p])
    BY <1>8, AddStreamIs, AddIs
  <2> QED
    BY <2>1, VisitLeaves, ListedVisit
<1>9. CASE WriteStream
  <2>1. PICK p \in Paths : /\ pc = "archive" /\ UNCHANGED <<pc, live>>
                           /\ Replaces(p) /\ SameFile(base[p], base'[p])
    BY <1>9, WriteIs
  <2> QED
    BY <2>1, ListedVisit
<1>10. CASE Environment
  <2>1. CASE \E v \in Versions : RemoveVersion(v)
    BY <1>1, <2>1, RemoveLeaves
  <2>2. CASE \A v \in Versions : ~RemoveVersion(v)
    <3>1. pc' = pc /\ pc \notin {"scan", "archive"}
      BY <1>10, <2>2, EditIs, EditLeaves DEF Busy, Undisturbed
    <3> QED
      BY <1>1, <3>1
  <2> QED
    BY <2>1, <2>2
<1>11. CASE UNCHANGED vars
  BY <1>11 DEF vars, disk, objects, AllListed, Listed
<1> QED
  BY <1>1, <1>2, <1>3, <1>4, <1>5, <1>6, <1>7, <1>8, <1>9, <1>10, <1>11
     DEF Next, Backup, Open, EndSession, BeginBackup, CommitArchive

-----------------------------------------------------------------------------
(***************************************************************************)
(* An object with a hash has data.                                         *)
(***************************************************************************)
LEMMA BackedAt ==
  ASSUME AllBacked, NEW p \in Paths, Visit(p), Replaces(p), Backed(base'[p])
  PROVE  AllBacked'
<1> SUFFICES ASSUME NEW q \in Paths, Visited(q)' PROVE Backed(base'[q])
  BY DEF AllBacked, Backed, HasData
<1>1. CASE q = p
  BY <1>1
<1>2. CASE q # p
  BY <1>2, VisitedNow DEF AllBacked, Replaces
<1> QED
  BY <1>1, <1>2

LEMMA BackedVisit ==
  ASSUME TypeInv, VisitOrder, OldLoaded, NoHashYet, ArcBacked, AllBacked, NEW p \in Paths,
         SkipObject(p) \/ AddInitialStream(p) \/ AddChangedFile(p) \/ KeepUnmodified(p)
  PROVE  AllBacked'
<1>1. Visit(p)
  BY DEF SkipObject, AddInitialStream, AddChangedFile, KeepUnmodified
<1>2. pc = "archive" /\ p \in todo /\ count \in Nat
  BY <1>1, VisitLeaves DEF TypeInv, TypeOK
<1>3. base[p] # None /\ base[p].Hashes = None
  <2>1. base[p] # None
    BY <1>2 DEF TypeInv, WellFormed
  <2> QED
    BY <1>2, <2>1 DEF NoHashYet, Busy, Visited
<1>4. CASE SkipObject(p)
  BY <1>1, <1>3, <1>4, SkipIs, BackedAt DEF Backed
<1>5. CASE AddInitialStream(p) \/ AddChangedFile(p)
  <2>1. /\ Replaces(p) /\ SameFile(base[p], base'[p]) /\ ShouldBeAdded(base[p])
        /\ base'[p].LatestVersion = count
    BY <1>5, AddStreamIs, AddIs
  <2>2. Backed(base'[p])
    BY <1>2, <2>1 DEF Backed, HasData, SameFile, ShouldBeAdded, Eligible
  <2> QED
    BY <1>1, <2>1, <2>2, BackedAt
<1>6. CASE KeepUnmodified(p)
  <2>1. /\ Replaces(p) /\ SameFile(base[p], base'[p]) /\ ShouldBeAdded(base[p])
        /\ OldObject(p) # None /\ base'[p].LatestVersion = OldObject(p).LatestVersion
        /\ base'[p].Hashes = IF OldObject(p).Hashes = None THEN base[p].Hashes
                             ELSE OldObject(p).Hashes
    BY <1>6, KeepIs
  <2>2. Backed(OldObject(p))
    <3>1. count - 1 \in Stored /\ OldObject(p) = arc[count - 1].BaseObjects[p]
      BY <1>2, <2>1, OldObjectIs DEF Busy
    <3> QED
      BY <3>1 DEF ArcBacked
  <2>3. Backed(base'[p])
    BY <1>3, <2>1, <2>2 DEF Backed, HasData, SameFile, ShouldBeAdded, Eligible, Replaces
  <2> QED
    BY <1>1, <2>1, <2>3, BackedAt
<1> QED
  BY <1>4, <1>5, <1>6

LEMMA AllBackedNext ==
  ASSUME Undisturbed, TypeInv, VisitInv, VisitOrder, OldLoaded, NoHashYet, ArcBacked,
         AllBacked, [Next]_vars
  PROVE  AllBacked'
<1>1. CASE pc' # "archive"
  BY <1>1 DEF AllBacked, Visited
<1>2. CASE PrepareStreams
  <2>1. \A p \in Paths : ~Visited(p)'
    BY <1>2, PrepareIs DEF PrepareStreams, Visited
  <2> QED
    BY <2>1 DEF AllBacked
<1>3. CASE \E p \in Paths : SkipObject(p) \/ AddInitialStream(p)
                            \/ AddChangedFile(p) \/ KeepUnmodified(p)
  BY <1>3, BackedVisit
<1>4. CASE WriteStream
  <2>1. PICK p \in Paths, c \in Contents :
          /\ Len(out) < Len(streams) /\ p = streams[Len(out) + 1].fso
          /\ Replaces(p) /\ SameFile(base[p], base'[p])
          /\ base'[p].LatestVersion = base[p].LatestVersion /\ UNCHANGED <<pc, todo>>
    BY <1>4, WriteIs
  <2>2. Len(out) + 1 \in DOMAIN streams /\ count \in Nat
    BY <2>1 DEF TypeInv, TypeOK
  <2>3. base[p].Type \in FileTypes /\ base[p].LatestVersion = count
    BY <2>1, <2>2 DEF VisitInv, StreamsOfFiles, IsStreamOf
  <2>4. Backed(base'[p])
    BY <2>1, <2>2, <2>3 DEF Backed, HasData, SameFile
  <2>5. ASSUME NEW q \in Paths \ {p}, Visited(q)' PROVE Backed(base'[q])
    BY <2>1, <2>5 DEF Visited, Replaces, AllBacked
  <2> QED
    BY <2>4, <2>5 DEF AllBacked, Backed, HasData
<1>5. CASE Environment
  <2>1. CASE \E v \in Versions : RemoveVersion(v)
    BY <1>1, <2>1, RemoveLeaves
  <2>2. CASE \A v \in Versions : ~RemoveVersion(v)
    <3>1. pc' = pc /\ pc # "archive"
      BY <1>5, <2>2, EditIs, EditLeaves DEF Busy, Undisturbed
    <3> QED
      BY <1>1, <3>1
  <2> QED
    BY <2>1, <2>2
<1>6. CASE UNCHANGED vars
  BY <1>6 DEF vars, objects, AllBacked, Visited, Backed, HasData
<1> QED
  BY <1>1, <1>2, <1>3, <1>4, <1>5, <1>6
     DEF Next, Backup, Open, EndSession, BeginBackup, ListSource, ReuseBaseObjects, ScanEntry,
         RecalculateFileGuid, CommitArchive

LEMMA ArcBackedNext ==
  ASSUME TypeInv, AllBacked, ArcBacked, [Next]_vars
  PROVE  ArcBacked'
<1>1. CASE UNCHANGED <<arc, truth>>
  BY <1>1 DEF ArcBacked, Stored, Backed, HasData
<1>2. ASSUME NEW v \in Versions, RemoveVersion(v) PROVE ArcBacked'
  <2>1. \A w \in Stored' : w \in Stored /\ arc'[w] = arc[w]
    BY <1>2, RemoveLeaves
  <2> QED
    BY <2>1 DEF ArcBacked, Backed, HasData
<1>3. CASE CommitArchive
  <2> SUFFICES ASSUME NEW v \in Stored', NEW p \in Paths
               PROVE  Backed(arc'[v].BaseObjects[p])
    BY DEF ArcBacked, Backed, HasData
  <2>1. CASE v # count
    BY <1>3, <2>1, CommitIs DEF ArcBacked
  <2>2. CASE v = count
    <3>1. arc'[v] = NewArchive /\ pc = "archive" /\ todo = {}
      BY <1>3, <2>2, CommitIs
    <3>2. base[p] # None => Backed(base[p])
      BY <3>1 DEF AllBacked, Visited
    <3> QED
      BY <3>1, <3>2, NewObject DEF Backed
  <2> QED
    BY <2>1, <2>2
<1> QED
  BY <1>1, <1>2, <1>3, StoredChanges

-----------------------------------------------------------------------------
(***************************************************************************)
(* A visited file refers to its present content.                           *)
(***************************************************************************)
LEMMA RightKept ==
  ASSUME UNCHANGED <<live, inode, excluded, arc>>, NEW p \in Paths, Right(p),
         base'[p].LatestVersion = base[p].LatestVersion,
         base'[p].StreamUniqueId = base[p].StreamUniqueId,
         base'[p].BackupStream = base[p].BackupStream,
         \A i \in DOMAIN streams : i \in DOMAIN streams' /\ streams'[i] = streams[i]
  PROVE  Right(p)'
<1>1. Stored' = Stored /\ Content(p)' = Content(p)
  BY DEF Stored, Content
<1>2. StreamData(base[p].LatestVersion, base[p].StreamUniqueId)'
        = StreamData(base[p].LatestVersion, base[p].StreamUniqueId)
  BY DEF StreamData
<1> QED
  BY <1>1, <1>2 DEF Right

LEMMA RightAt ==
  ASSUME AllRight, NEW p \in Paths, Visit(p), Replaces(p), Right(p)',
         \A i \in DOMAIN streams : i \in DOMAIN streams' /\ streams'[i] = streams[i]
  PROVE  AllRight'
<1> SUFFICES ASSUME NEW q \in Paths \ {p}, Visited(q)' PROVE Right(q)'
  BY DEF AllRight
<1>1. Visited(q) /\ base'[q] = base[q] /\ Right(q)
  BY VisitedNow DEF AllRight, Replaces
<1> QED
  BY <1>1, VisitLeaves, RightKept

\* What the visit of an included file starts from.
LEMMA IncludedFile ==
  ASSUME TypeInv, ExclusionsKept, AllListed, NoHashYet, NEW p \in Paths, Visit(p),
         p \notin excluded, IsFile(live[p])
  PROVE  Eligible(base[p]) /\ base[p] \in Fso /\ base[p].Hashes = None /\ Listed(p)
<1>1. pc = "archive" /\ p \in todo
  BY VisitLeaves
<1>2. base[p] # None /\ base[p] \in Fso /\ Listed(p)
  BY <1>1 DEF TypeInv, TypeOK, WellFormed, AllListed
<1>3. base[p].Hashes = None
  BY <1>1, <1>2 DEF NoHashYet, Busy, Visited
<1> QED
  BY <1>2, <1>3 DEF Listed, Eligible, ExclusionsKept

LEMMA RightSkip ==
  ASSUME TypeInv, ExclusionsKept, VisitInv, VisitOrder, LinksAgree, AllListed, NoHashYet,
         AllRight, NEW p \in Paths, SkipObject(p)
  PROVE  AllRight'
<1>1. Visit(p) /\ Replaces(p) /\ ~ShouldBeAdded(base[p]) /\ UNCHANGED streams
  BY SkipIs
<1>2. pc = "archive" /\ p \in todo /\ UNCHANGED <<live, inode, excluded, arc>>
  BY <1>1, VisitLeaves
<1>3. Right(p)'
  <2> SUFFICES ASSUME p \notin excluded, IsFile(live[p]) PROVE Right(p)'
    BY <1>2 DEF Right
  <2>1. Eligible(base[p]) /\ base[p] \in Fso /\ base[p] # None /\ Listed(p)
    BY <1>1, IncludedFile DEF Replaces
  <2>2. HasKnownGuid(base[p])
    BY <1>1, <2>1 DEF ShouldBeAdded
  <2>3. PICK q \in Paths : /\ q = guids[base[p].FileSystemGuid] /\ q < p /\ Visited(q)
                           /\ Eligible(base[q]) /\ base[q] # None
                           /\ base[q].FileSystemGuid = base[p].FileSystemGuid
    BY <1>2, <2>1, <2>2, OwnerIs
  <2>4. base[p].Type = "FileHardlink"
    <3>1. p # q /\ base[p].FileSystemGuid # None
      <4>1. p \in Int /\ q \in Int
        BY BackupEngineAssumption DEF Paths
      <4> QED
        BY <2>2, <2>3, <4>1 DEF HasKnownGuid
    <3> QED
      BY <2>1, <2>3, <3>1 DEF LinksAgree
  <2>5. live[q] = live[p]
    <3>1. Listed(q)
      BY <1>2 DEF AllListed
    <3> QED
      BY <2>1, <2>2, <2>3, <3>1 DEF Listed, HasKnownGuid, Identity
  <2>6. Right(q) /\ q \notin excluded
    BY <2>3 DEF AllRight, Eligible, ExclusionsKept
  <2>7. /\ base'[p].LatestVersion = base[q].LatestVersion
        /\ base'[p].StreamUniqueId = base[q].StreamUniqueId
        /\ base'[p].BackupStream = IF base[q].BackupStream = "Full" THEN "Full"
                                   ELSE "Unmodified"
    BY <2>2, <2>3, <2>4, SkipIs DEF Shares, OwnerOf
  <2>8. Stored' = Stored /\ Content(p)' = Content(q)
    BY <1>2, <2>5 DEF Stored, Content
  <2>9. StreamData(base[p].LatestVersion, base[p].StreamUniqueId)'
           = StreamData(base[q].LatestVersion, base[q].StreamUniqueId)
    BY <1>2, <2>7 DEF StreamData
  <2> QED
    BY <1>1, <1>2, <2>5, <2>6, <2>7, <2>8, <2>9 DEF Right
<1> QED
  BY <1>1, <1>3, RightAt

LEMMA RightAdd ==
  ASSUME TypeInv, AllRight, NEW p \in Paths, AddInitialStream(p) \/ AddChangedFile(p)
  PROVE  AllRight'
<1>1. /\ Visit(p) /\ Replaces(p) /\ base'[p].LatestVersion = count
      /\ base'[p].StreamUniqueId = nextId /\ base'[p].BackupStream = "Full"
      /\ streams' = Append(streams, [UniqueId |-> nextId, fso |-> p])
  BY AddStreamIs, AddIs
<1>2. /\ \A i \in DOMAIN streams : i \in DOMAIN streams' /\ streams'[i] = streams[i]
      /\ \E i \in DOMAIN streams' : streams'[i] = [UniqueId |-> nextId, fso |-> p]
  BY <1>1, AppendedStreams
<1>3. Right(p)'
  <2>1. count \in Nat
    BY DEF TypeInv, TypeOK
  <2>2. PICK i \in DOMAIN streams' : streams'[i].UniqueId = nextId /\ streams'[i].fso = p
    BY <1>2
  <2> QED
    BY <1>1, <2>1, <2>2 DEF Right
<1> QED
  BY <1>1, <1>2, <1>3, RightAt

LEMMA RightKeep ==
  ASSUME TypeInv, ExclusionsKept, VisitOrder, OldLoaded, FullAgain, HashMatchesData, NoHashYet,
         ByHash, InPlace, AllListed, ArcBacked, AllRight, NEW p \in Paths, KeepUnmodified(p)
  PROVE  AllRight'
<1> DEFINE o == OldObject(p)
<1>1. /\ Visit(p) /\ Replaces(p) /\ o # None
      /\ NeedsHash(base[p], o) => HashFor(p) # None
      /\ ~FileHasChanged(base[p], o, HashFor(p))
      /\ base'[p].LatestVersion = o.LatestVersion
      /\ base'[p].StreamUniqueId = base[p].StreamUniqueId
      /\ base'[p].BackupStream # "Full" /\ UNCHANGED streams
  BY KeepIs, KeptIsNotFull
<1>2. /\ pc = "archive" /\ p \in todo /\ UNCHANGED <<live, inode, excluded, arc>>
  BY <1>1, VisitLeaves
<1>3. base[p].StreamUniqueId = o.StreamUniqueId
  BY <1>1, <1>2 DEF VisitOrder, IdsHanded
<1>4. count - 1 \in Stored /\ o = arc[count - 1].BaseObjects[p]
  BY <1>1, <1>2, OldObjectIs DEF Busy
<1>5. Right(p)'
  <2> SUFFICES ASSUME p \notin excluded, IsFile(live[p]) PROVE Right(p)'
    BY <1>2 DEF Right
  <2>1. base[p].Hashes = None
    BY <1>1, IncludedFile
  <2>2. o.Hashes # None /\ HashFor(p) = o.Hashes /\ NeedsHash(base[p], o)
    BY <1>1, <1>2 DEF ByHash, Criterium, FileHasChanged, NeedsHash
  <2>3. HashFor(p) = Content(p)
    <3>1. ReadAt(main.MappedBasePath, p) = Content(p)
      BY <1>2, ReadsLive DEF TypeInv, WellFormed
    <3> QED
      BY <2>1, <2>2, <3>1 DEF HashFor, HashOf
  <2>4. HasData(o)
    BY <1>1, <1>4, <2>2 DEF ArcBacked, Backed
  <2> HIDE DEF o
  <2>5. o.LatestVersion \in Stored =>
          StreamData(o.LatestVersion, o.StreamUniqueId) = {Content(p)}
    BY <1>4, <2>2, <2>3, <2>4 DEF HashMatchesData
  <2>6. Stored' = Stored /\ Content(p)' = Content(p)
    BY <1>2 DEF Stored, Content
  <2>7. StreamData(base[p].LatestVersion, base[p].StreamUniqueId)'
          = StreamData(o.LatestVersion, o.StreamUniqueId)
    BY <1>1, <1>2, <1>3 DEF StreamData
  <2> QED
    BY <1>1, <2>4, <2>5, <2>6, <2>7 DEF Right, HasData
<1> QED
  BY <1>1, <1>5, RightAt

LEMMA AllRightNext ==
  ASSUME Undisturbed, TypeInv, ExclusionsKept, VisitInv, RefInv, HashMatchesData, NoHashYet,
         ByHash, InPlace, AllListed, ArcBacked, AllRight, [Next]_vars
  PROVE  AllRight'
<1> USE DEF RefInv
<1>1. CASE pc' # "archive"
  BY <1>1 DEF AllRight, Visited
<1>2. CASE PrepareStreams
  <2>1. \A p \in Paths : ~Visited(p)'
    BY <1>2, PrepareIs DEF PrepareStreams, Visited
  <2> QED
    BY <2>1 DEF AllRight
<1>3. CASE \E p \in Paths : SkipObject(p) \/ AddInitialStream(p)
                            \/ AddChangedFile(p) \/ KeepUnmodified(p)
  BY <1>3, RightSkip, RightAdd, RightKeep
<1>4. CASE WriteStream
  <2>1. PICK p \in Paths :
          /\ Replaces(p)
          /\ base'[p].LatestVersion = base[p].LatestVersion
          /\ base'[p].StreamUniqueId = base[p].StreamUniqueId
          /\ base'[p].BackupStream = base[p].BackupStream
          /\ UNCHANGED <<live, inode, arc, excluded, pc, todo, streams>>
    BY <1>4, WriteIs
  <2>2. ASSUME NEW q \in Paths, Visited(q)' PROVE Right(q)'
    <3>1. Visited(q) /\ Right(q)
      BY <2>1, <2>2 DEF Visited, Replaces, AllRight
    <3>2. /\ base'[q].LatestVersion = base[q].LatestVersion
          /\ base'[q].StreamUniqueId = base[q].StreamUniqueId
          /\ base'[q].BackupStream = base[q].BackupStream
      BY <2>1 DEF Replaces
    <3> QED
      BY <2>1, <3>1, <3>2, RightKept
  <2> QED
    BY <2>2 DEF AllRight
<1>5. CASE Environment
  <2>1. CASE \E v \in Versions : RemoveVersion(v)
    BY <1>1, <2>1, RemoveLeaves
  <2>2. CASE \A v \in Versions : ~RemoveVersion(v)
    <3>1. pc' = pc /\ pc # "archive"
      BY <1>5, <2>2, EditIs, EditLeaves DEF Busy, Undisturbed
    <3> QED
      BY <1>1, <3>1
  <2> QED
    BY <2>1, <2>2
<1>6. CASE UNCHANGED vars
  <2>1. UNCHANGED <<live, inode, excluded, arc, base, pc, todo, streams>>
    BY <1>6 DEF vars, disk, store, settings, objects, pending
  <2> QED
    BY <2>1, RightKept DEF AllRight, Visited
<1> QED
  BY <1>1, <1>2, <1>3, <1>4, <1>5, <1>6
     DEF Next, Backup, Open, EndSession, BeginBackup, ListSource, ReuseBaseObjects, ScanEntry,
         RecalculateFileGuid, CommitArchive

-----------------------------------------------------------------------------
(***************************************************************************)
(* A file that was there and is included has data.                         *)
(***************************************************************************)
LEMMA NothingLeaves ==
  ASSUME FilesStay, TypeInv, [Next]_vars
  PROVE  /\ \A p \in Paths : live[p] # None => live'[p] = live[p]
         /\ \A v \in Versions : ~RemoveVersion(v)
<1>1. CASE UNCHANGED disk
  BY <1>1 DEF disk, FilesStay, RemoveVersion
<1>2. CASE Environment
  <2>1. \A p, q \in Paths : ~RenameFile(q, p) /\ ~DeletePath(p)
    BY DEF RenameFile, DeletePath, Edit, FilesStay
  <2>2. \A v \in Versions : ~RemoveVersion(v)
    BY DEF RemoveVersion, FilesStay
  <2>3. live \in [Paths -> Guids \cup {None, Dir}]
    BY DEF TypeInv, TypeOK
  <2> QED
    BY <1>2, <2>1, <2>2, <2>3
       DEF Environment, WriteFile, CreateFile, LinkFile, MakeDirectory, ClearArchiveFlag
<1>3. ASSUME NEW p \in Paths, SkipObject(p) \/ AddInitialStream(p)
                              \/ AddChangedFile(p) \/ KeepUnmodified(p)
      PROVE  UNCHANGED disk
  <2>1. Visit(p)
    BY <1>3 DEF SkipObject, AddInitialStream, AddChangedFile, KeepUnmodified
  <2> QED
    BY <2>1 DEF Visit
<1> QED
  BY <1>1, <1>2, <1>3
     DEF Next, Backup, Open, EndSession, BeginBackup, ListSource, ReuseBaseObjects, ScanEntry,
         RecalculateFileGuid, PrepareStreams, WriteStream, CommitArchive, vars

LEMMA SeenExactNext ==
  ASSUME Undisturbed, TypeInv, SeenExact, [Next]_vars
  PROVE  SeenExact'
<1>1. CASE Busy /\ UNCHANGED <<live, seen>>
  BY <1>1 DEF SeenExact, Busy
<1>2. CASE ~Busy'
  BY <1>2 DEF SeenExact, Busy
<1>3. CASE BeginBackup
  BY <1>3 DEF BeginBackup, disk, SeenExact, Busy, ContentsOf
<1>4. CASE Environment
  <2>1. CASE \E v \in Versions : RemoveVersion(v)
    BY <1>2, <2>1, RemoveLeaves DEF Busy
  <2>2. CASE \A v \in Versions : ~RemoveVersion(v)
    BY <1>2, <1>4, <2>2, EditIs, EditLeaves DEF Busy, Undisturbed
  <2> QED
    BY <2>1, <2>2
<1>5. ASSUME NEW p \in Paths, SkipObject(p) \/ AddInitialStream(p)
                              \/ AddChangedFile(p) \/ KeepUnmodified(p)
      PROVE  SeenExact'
  <2>1. Visit(p)
    BY <1>5 DEF SkipObject, AddInitialStream, AddChangedFile, KeepUnmodified
  <2> QED
    BY <1>1, <2>1, VisitLeaves DEF Busy
<1>6. CASE UNCHANGED vars
  BY <1>6 DEF vars, disk, SeenExact, Busy
<1> QED
  BY <1>1, <1>2, <1>3, <1>4, <1>5, <1>6
     DEF Next, Backup, Open, EndSession, ListSource, ReuseBaseObjects, ScanEntry,
         RecalculateFileGuid, PrepareStreams, WriteStream, CommitArchive, Busy, disk

\* What a commit adds.
LEMMA CommitRecords ==
  ASSUME TypeInv, CommitArchive, count \in Stored'
  PROVE  /\ pc = "archive" /\ todo = {} /\ UNCHANGED live
         /\ arc'[count] = NewArchive /\ truth'[count].seen = seen
         /\ truth'[count].excluded = excluded /\ truth'[count].crit = crit
         /\ \A v \in Stored : v # count => v \in Stored'
<1>1. count \in Versions /\ truth \in [Versions -> Truth \cup {None}]
      /\ arc \in [Versions -> Archive \cup {None}]
  BY DEF Stored, TypeInv, TypeOK
<1> QED
  BY <1>1 DEF CommitArchive, disk, Stored

LEMMA RecordedNext ==
  ASSUME TypeInv, Recorded, [Next]_vars
  PROVE  Recorded'
<1> SUFFICES ASSUME NEW v \in Stored' PROVE truth'[v] \in Truth
  BY DEF Recorded
<1>1. CASE v \in Stored /\ truth'[v] = truth[v]
  BY <1>1 DEF Recorded
<1>2. CASE CommitArchive
  <2>1. CASE v # count
    BY <1>1, <1>2, <2>1, CommitIs
  <2>2. CASE v = count
    <3>1. truth'[v] = [seen |-> seen, excluded |-> excluded, crit |-> crit,
                       useSnapshots |-> useSnapshots, attempt |-> backups]
      BY <1>2, <2>2 DEF CommitArchive, Stored, TypeInv, TypeOK
    <3> QED
      BY <1>2, <3>1 DEF CommitArchive, Truth, TypeInv, TypeOK, WellFormed
  <2> QED
    BY <2>1, <2>2
<1> QED
  BY <1>1, <1>2, StoredChanges, RemoveLeaves DEF Stored

LEMMA ArcListedNext ==
  ASSUME FilesStay, TypeInv, SeenExact, AllListed, ArcListed, [Next]_vars
  PROVE  ArcListed'
<1> DEFINE Same(v, p) == LET o == arc[v].BaseObjects[p]
                         IN  o # None =>
                               /\ live[p] # None
                               /\ o.Type \in FileTypes <=> IsFile(live[p])
                               /\ o.FileSystemGuid = Identity(live[p])
                               /\ truth[v].seen[p] # {} <=> IsFile(live[p])
<1> SUFFICES ASSUME NEW v \in Stored', NEW p \in Paths PROVE Same(v, p)'
  BY DEF ArcListed
<1>1. CASE v \in Stored /\ arc'[v] = arc[v] /\ truth'[v] = truth[v]
  BY <1>1, NothingLeaves DEF ArcListed
<1>2. CASE CommitArchive
  <2>1. CASE v # count
    BY <1>1, <1>2, <2>1, CommitIs
  <2>2. CASE v = count
    <3>1. /\ pc = "archive" /\ todo = {} /\ UNCHANGED live
          /\ arc'[v] = NewArchive /\ truth'[v].seen = seen
      BY <1>2, <2>2, CommitRecords
    <3>2. Listed(p) /\ (seen[p] # {} <=> IsFile(live[p]))
      BY <3>1 DEF AllListed, SeenExact, Busy
    <3> QED
      BY <3>1, <3>2, NewObject DEF Listed
  <2> QED
    BY <2>1, <2>2
<1>3. CASE UNCHANGED <<arc, truth>>
  BY <1>1, <1>3 DEF Stored
<1> QED
  BY <1>2, <1>3, NothingLeaves, StoredChanges

\* Why an object has no data does not change under a backup.
LEMMA IncludedKept ==
  ASSUME UNCHANGED <<live, arc, truth, count, crit, excluded>>, NEW p \in Paths, Included(p),
         base'[p].LatestVersion = base[p].LatestVersion
  PROVE  Included(p)'
<1>1. Stored' = Stored
  BY DEF Stored
<1>2. Excused(p)' = Excused(p)
  BY <1>1 DEF Excused
<1> QED
  BY <1>2 DEF Included

LEMMA IncludedAt ==
  ASSUME AllIncluded, NEW p \in Paths, Visit(p), Replaces(p), Included(p)'
  PROVE  AllIncluded'
<1> SUFFICES ASSUME NEW q \in Paths \ {p}, Visited(q)' PROVE Included(q)'
  BY DEF AllIncluded
<1>1. Visited(q) /\ base'[q] = base[q] /\ Included(q)
  BY VisitedNow DEF AllIncluded, Replaces
<1> QED
  BY <1>1, VisitLeaves, IncludedKept

LEMMA ExcusedAfter ==
  ASSUME NEW p \in Paths, NEW q \in Paths, Visit(q), Excused(p)
  PROVE  Excused(p)'
<1>1. UNCHANGED <<live, arc, truth, count, crit>>
  BY VisitLeaves
<1> QED
  BY <1>1 DEF Excused, Stored

LEMMA IncludedSkip ==
  ASSUME TypeInv, ExclusionsKept, VisitInv, VisitOrder, LinksAgree, AllListed, NoHashYet,
         AllIncluded, NEW p \in Paths, SkipObject(p)
  PROVE  AllIncluded'
<1>1. Visit(p) /\ Replaces(p) /\ ~ShouldBeAdded(base[p])
  BY SkipIs
<1>2. /\ pc = "archive" /\ p \in todo
      /\ UNCHANGED <<live, arc, truth, count, crit, excluded>>
  BY <1>1, VisitLeaves
<1>3. Included(p)'
  <2> SUFFICES ASSUME p \notin excluded, IsFile(live[p]) PROVE Included(p)'
    BY <1>2 DEF Included
  <2>1. Eligible(base[p]) /\ base[p] \in Fso /\ base[p] # None /\ Listed(p)
    BY <1>1, IncludedFile DEF Replaces
  <2>2. HasKnownGuid(base[p])
    BY <1>1, <2>1 DEF ShouldBeAdded
  <2>3. PICK q \in Paths : /\ q = guids[base[p].FileSystemGuid] /\ q < p /\ Visited(q)
                           /\ Eligible(base[q]) /\ base[q] # None
                           /\ base[q].FileSystemGuid = base[p].FileSystemGuid
    BY <1>2, <2>1, <2>2, OwnerIs
  <2>4. base[p].Type = "FileHardlink"
    <3>1. p # q /\ base[p].FileSystemGuid # None
      <4>1. p \in Int /\ q \in Int
        BY BackupEngineAssumption DEF Paths
      <4> QED
        BY <2>2, <2>3, <4>1 DEF HasKnownGuid
    <3> QED
      BY <2>1, <2>3, <3>1 DEF LinksAgree
  <2>5. live[q] = live[p]
    <3>1. Listed(q)
      BY <1>2 DEF AllListed
    <3> QED
      BY <2>1, <2>2, <2>3, <3>1 DEF Listed, HasKnownGuid, Identity
  <2>6. Included(q) /\ q \notin excluded
    BY <2>3 DEF AllIncluded, Eligible, ExclusionsKept
  <2>7. base'[p].LatestVersion = base[q].LatestVersion
    BY <2>2, <2>3, <2>4, SkipIs DEF Shares, OwnerOf
  <2>8. base[q].LatestVersion >= 0 \/ Excused(p)
    BY <2>5, <2>6 DEF Included, Excused
  <2> QED
    BY <1>1, <2>7, <2>8, ExcusedAfter DEF Included
<1> QED
  BY <1>1, <1>3, IncludedAt

LEMMA IncludedAdd ==
  ASSUME TypeInv, AllIncluded, NEW p \in Paths, AddInitialStream(p) \/ AddChangedFile(p)
  PROVE  AllIncluded'
<1>1. Visit(p) /\ Replaces(p) /\ base'[p].LatestVersion = count
  BY AddStreamIs, AddIs
<1>2. count \in Nat
  BY DEF TypeInv, TypeOK
<1> QED
  BY <1>1, <1>2, IncludedAt DEF Included

LEMMA ExcludedPaths ==
  ASSUME Recorded, NEW v \in Stored
  PROVE  truth[v].excluded \subseteq Paths
BY DEF Recorded, Truth

\* What the latest version had no data of, and no comparison by hash corrects.
LEMMA IncludedKeep ==
  ASSUME TypeInv, OldLoaded, NoHashYet, ExclusionsKept, Recorded, AllListed, ArcBacked, ArcListed,
         IncludedHaveData, AllIncluded, NEW p \in Paths, KeepUnmodified(p)
  PROVE  AllIncluded'
<1> DEFINE o == OldObject(p)
           v == count - 1
<1>1. /\ Visit(p) /\ Replaces(p) /\ o # None
      /\ ~FileHasChanged(base[p], o, HashFor(p))
      /\ base'[p].LatestVersion = o.LatestVersion
  BY KeepIs
<1>2. pc = "archive" /\ UNCHANGED <<live, excluded>>
  BY <1>1, VisitLeaves
<1>3. v \in Stored /\ o = arc[v].BaseObjects[p] /\ o.LatestVersion \in Int
  BY <1>1, <1>2, OldObjectIs DEF Busy, StoredFso
<1>4. v \in Nat /\ count = v + 1
  BY <1>3, BackupEngineAssumption DEF Stored, Versions, TypeInv, TypeOK
<1>5. Included(p)'
  <2> SUFFICES ASSUME p \notin excluded, IsFile(live[p]), ~(o.LatestVersion >= 0)
               PROVE  Excused(p)
    BY <1>1, <1>2, ExcusedAfter DEF Included
  <2>1. crit # "Hash"
    <3>1. o.Hashes = None
      BY <1>1, <1>3 DEF ArcBacked, Backed, HasData
    <3> QED
      BY <1>1, <3>1 DEF FileHasChanged, Criterium
  <2> HIDE DEF o, v
  <2>2. CASE p \in truth[v].excluded
    <3>1. v \in 0..(count - 1) /\ \A x \in (v + 1)..(count - 1) : FALSE
      BY <1>4
    <3> QED
      BY <1>3, <2>1, <2>2, <3>1 DEF Excused
  <2>3. CASE p \notin truth[v].excluded
    <3>1. truth[v].seen[p] # {} /\ o.FileSystemGuid = live[p]
      BY <1>1, <1>3 DEF ArcListed, Identity
    <3>2. PICK w \in 0..(v - 1) \cap Stored :
            /\ \E q \in truth[w].excluded :
                 /\ arc[v].BaseObjects[q] # None
                 /\ arc[v].BaseObjects[q].FileSystemGuid = o.FileSystemGuid
            /\ \A x \in (w + 1)..v \cap Stored : truth[x].crit # "Hash"
      BY <1>3, <2>3, <3>1 DEF IncludedHaveData, HasData
    <3>3. PICK q \in truth[w].excluded :
            /\ arc[v].BaseObjects[q] # None
            /\ arc[v].BaseObjects[q].FileSystemGuid = o.FileSystemGuid
      BY <3>2
    <3>4. q \in Paths
      BY <3>3, ExcludedPaths
    <3>5. live[q] = live[p]
      BY <1>3, <3>1, <3>3, <3>4 DEF ArcListed, Identity, IsFile
    <3>6. w \in 0..(count - 1) /\ v = count - 1
      BY <1>4
    <3> QED
      BY <2>1, <3>2, <3>3, <3>5, <3>6 DEF Excused
  <2> QED
    BY <2>2, <2>3
<1> QED
  BY <1>1, <1>5, IncludedAt

LEMMA AllIncludedNext ==
  ASSUME Undisturbed, TypeInv, ExclusionsKept, VisitInv, RefInv, NoHashYet, AllListed, ArcBacked,
         Recorded, ArcListed, IncludedHaveData, AllIncluded, [Next]_vars
  PROVE  AllIncluded'
<1> USE DEF RefInv
<1>1. CASE pc' # "archive"
  BY <1>1 DEF AllIncluded, Visited
<1>2. CASE PrepareStreams
  <2>1. \A p \in Paths : ~Visited(p)'
    BY <1>2, PrepareIs DEF PrepareStreams, Visited
  <2> QED
    BY <2>1 DEF AllIncluded
<1>3. CASE \E p \in Paths : SkipObject(p) \/ AddInitialStream(p)
                            \/ AddChangedFile(p) \/ KeepUnmodified(p)
  BY <1>3, IncludedSkip, IncludedAdd, IncludedKeep
<1>4. CASE WriteStream
  <2>1. PICK p \in Paths :
          /\ Replaces(p)
          /\ base'[p].LatestVersion = base[p].LatestVersion
          /\ UNCHANGED <<live, arc, truth, count, crit, excluded, pc, todo>>
    BY <1>4, WriteIs
  <2> SUFFICES ASSUME NEW q \in Paths, Visited(q)' PROVE Included(q)'
    BY DEF AllIncluded
  <2>2. Visited(q) /\ Included(q) /\ base'[q].LatestVersion = base[q].LatestVersion
    BY <2>1 DEF Visited, Replaces, AllIncluded
  <2> QED
    BY <2>1, <2>2, IncludedKept
<1>5. CASE Environment
  <2>1. CASE \E v \in Versions : RemoveVersion(v)
    BY <1>1, <2>1, RemoveLeaves
  <2>2. CASE \A v \in Versions : ~RemoveVersion(v)
    <3>1. pc' = pc /\ pc # "archive"
      BY <1>5, <2>2, EditIs, EditLeaves DEF Busy, Undisturbed
    <3> QED
      BY <1>1, <3>1
  <2> QED
    BY <2>1, <2>2
<1>6. CASE UNCHANGED vars
  <2>1. UNCHANGED <<live, arc, truth, count, crit, excluded, base, pc, todo>>
    BY <1>6 DEF vars, disk, store, settings, objects
  <2> QED
    BY <2>1, IncludedKept DEF AllIncluded, Visited
<1> QED
  BY <1>1, <1>2, <1>3, <1>4, <1>5, <1>6
     DEF Next, Backup, Open, EndSession, BeginBackup, ListSource, ReuseBaseObjects, ScanEntry,
         RecalculateFileGuid, CommitArchive

LEMMA IncludedHaveDataNext ==
  ASSUME Undisturbed, FilesStay, TypeInv, NumberFree, Recorded, SeenExact, AllListed, AllPlaced,
         AllIncluded, IncludedHaveData, [Next]_vars
  PROVE  IncludedHaveData'
<1>1. CASE UNCHANGED <<arc, truth>>
  BY <1>1 DEF IncludedHaveData, Stored, HasData
<1>2. CASE CommitArchive
  <2> DEFINE Covered(v, p) ==
               LET o == arc[v].BaseObjects
               IN  \E w \in 0..(v - 1) \cap Stored :
                     /\ \E q \in truth[w].excluded :
                          o[q] # None /\ o[q].FileSystemGuid = o[p].FileSystemGuid
                     /\ \A x \in (w + 1)..v \cap Stored : truth[x].crit # "Hash"
  <2> SUFFICES ASSUME NEW v \in Stored', NEW p \in Paths \ truth'[v].excluded,
                      truth'[v].seen[p] # {}, ~HasData(arc'[v].BaseObjects[p])
               PROVE  Covered(v, p)'
    BY DEF IncludedHaveData, HasData
  <2>1. count \in Nat /\ v \in Int /\ Stored \subseteq Int
    BY BackupEngineAssumption DEF Stored, Versions, TypeInv, TypeOK
  <2>2. \A x \in Stored' \ {count} : x \in Stored /\ arc'[x] = arc[x] /\ truth'[x] = truth[x]
    BY <1>2, CommitIs
  <2>3. \A x \in Stored : x < count /\ x \in Stored'
    <3>1. backups \in Nat /\ pc = "archive" /\ MaxSessionBackups = 1
      BY <1>2 DEF CommitArchive, TypeInv, TypeOK, Undisturbed
    <3>2. \A x \in Stored : x < count
      BY <3>1 DEF NumberFree, Busy
    <3>3. \A x \in Versions \ {count} : arc'[x] = arc[x]
      BY <1>2 DEF CommitArchive, TypeInv, TypeOK
    <3> QED
      BY <2>1, <3>2, <3>3 DEF Stored
  <2>4. CASE v # count
    <3>1. v \in Stored /\ arc'[v] = arc[v] /\ truth'[v] = truth[v]
      BY <2>2, <2>4
    <3>2. PICK w \in 0..(v - 1) \cap Stored :
            /\ \E q \in truth[w].excluded :
                 /\ arc[v].BaseObjects[q] # None
                 /\ arc[v].BaseObjects[q].FileSystemGuid = arc[v].BaseObjects[p].FileSystemGuid
            /\ \A x \in (w + 1)..v \cap Stored : truth[x].crit # "Hash"
      BY <3>1 DEF IncludedHaveData, HasData
    <3>3. w \in 0..(v - 1) \cap Stored' /\ truth'[w] = truth[w]
      BY <2>2, <2>3
    <3>4. \A x \in (w + 1)..v \cap Stored' : x \in Stored /\ truth'[x] = truth[x]
      BY <2>1, <2>2, <2>3, <3>1
    <3> QED
      BY <3>1, <3>2, <3>3, <3>4
  <2>5. CASE v = count
    <3>1. /\ pc = "archive" /\ todo = {} /\ UNCHANGED live
          /\ arc'[v] = NewArchive /\ truth'[v].seen = seen
          /\ truth'[v].excluded = excluded /\ truth'[v].crit = crit
      BY <1>2, <2>5, CommitRecords
    <3>2. IsFile(live[p]) /\ Listed(p) /\ p \notin excluded
      BY <3>1 DEF AllListed, SeenExact, Busy
    <3>3. Visited(p) /\ base[p].Type \in FileTypes
      BY <3>1, <3>2 DEF Listed, Visited, IsFile
    <3>4. ~(base[p].LatestVersion >= 0)
      BY <3>1, <3>3, NewObject DEF HasData, Visited
    <3>5. Excused(p)
      BY <3>2, <3>3, <3>4 DEF AllIncluded, Included
    <3>6. PICK w \in 0..(count - 1) \cap Stored :
            /\ \E q \in truth[w].excluded : live[q] = live[p]
            /\ crit # "Hash"
            /\ \A x \in (w + 1)..(count - 1) \cap Stored : truth[x].crit # "Hash"
      BY <3>5 DEF Excused
    <3>7. PICK q \in truth[w].excluded : live[q] = live[p]
      BY <3>6
    <3>8. q \in Paths
      BY <3>7, ExcludedPaths
    <3>9. /\ arc'[v].BaseObjects[q] # None
          /\ arc'[v].BaseObjects[q].FileSystemGuid = arc'[v].BaseObjects[p].FileSystemGuid
      <4>1. Listed(q)
        BY <3>1, <3>8 DEF AllListed
      <4>2. /\ base[q] # None /\ base[p] # None
            /\ base[q].FileSystemGuid = base[p].FileSystemGuid
        BY <3>1, <3>2, <3>7, <4>1 DEF Listed, IsFile
      <4> QED
        BY <3>1, <3>8, <4>2, NewObject
    <3>10. w \in 0..(v - 1) \cap Stored' /\ truth'[w] = truth[w]
      BY <2>2, <2>3, <2>5
    <3>11. ASSUME NEW x \in (w + 1)..v \cap Stored' PROVE truth'[x].crit # "Hash"
      <4>1. CASE x = count
        BY <2>5, <3>1, <3>6, <4>1
      <4>2. CASE x # count
        <5>1. x \in (w + 1)..(count - 1) \cap Stored /\ truth'[x] = truth[x]
          BY <2>1, <2>2, <2>5, <4>2
        <5> QED
          BY <3>6, <5>1
      <4> QED
        BY <4>1, <4>2
    <3> QED
      BY <3>7, <3>9, <3>10, <3>11
  <2> QED
    BY <2>4, <2>5
<1> QED
  BY <1>1, <1>2, NothingLeaves, StoredChanges

IncludedSafe ==
  DataInv /\ NumberFree /\ RefInv /\ HashInv /\ HashMatchesData /\ IncludedInv /\ IncludedHaveData

\* As long as nothing but the backup runs while it does, the source is read
\* where it is and nothing is taken away from the source or the target, every
\* included file that was there has data, unless an exclusion explains why not,
\* whichever criterion each session compares with.
THEOREM IncludedFiles ==
  ASSUME Undisturbed, FilesStay
  PROVE  Spec => []IncludedHaveData
<1>1. Init => IncludedSafe
  <2> SUFFICES ASSUME Init PROVE IncludedSafe
    OBVIOUS
  <2>1. DataInv /\ NumberFree /\ RefInv /\ HashInv /\ HashMatchesData
    BY DataInvInit, NumberFreeInit, RefInvInit, HashInvInit
  <2>2. Stored = {} /\ pc = "closed" /\ main = None /\ oldMain = None /\ shadow = None /\ retry = {}
    BY DEF Init, Stored
  <2>3. IncludedInv /\ IncludedHaveData
    BY <2>2 DEF IncludedInv, InPlace, AtLive, AllListed, AllBacked, ArcBacked, Recorded, SeenExact,
                ArcListed, AllIncluded, IncludedHaveData, Visited, Busy
  <2> QED
    BY <2>1, <2>3 DEF IncludedSafe
<1>2. IncludedSafe /\ [Next]_vars => IncludedSafe'
  <2> SUFFICES ASSUME IncludedSafe, [Next]_vars PROVE IncludedSafe'
    OBVIOUS
  <2> USE DEF IncludedSafe
  <2>1. /\ TypeInv /\ Phases /\ ExclusionsKept /\ VisitInv /\ VisitOrder /\ OldLoaded
        /\ FirstScan /\ NoHashYet /\ AllPlaced
    BY DEF DataInv, SessionInv, RefInv, HashInv
  <2>2. ~ConcurrentEdits /\ MaxSessionBackups = 1
    BY DEF Undisturbed
  <2>3. DataInv' /\ RefInv' /\ NumberFree' /\ HashInv' /\ HashMatchesData'
    BY <2>1, <2>2, DataInvNext, RefInvNext, NumberFreeNext, HashInvNext
  <2>4. InPlace' /\ TypeInv'
    BY <2>1, InPlaceNext, TypeInvNext DEF IncludedInv
  <2>5. AllListed'
    BY <2>1, <2>4, AllListedNext DEF IncludedInv
  <2>6. AllBacked' /\ ArcBacked'
    BY <2>1, AllBackedNext, ArcBackedNext DEF IncludedInv
  <2>7. Recorded' /\ SeenExact' /\ ArcListed'
    BY <2>1, RecordedNext, SeenExactNext, ArcListedNext DEF IncludedInv
  <2>8. AllIncluded'
    BY <2>1, AllIncludedNext DEF IncludedInv
  <2>9. IncludedHaveData'
    BY <2>1, IncludedHaveDataNext DEF IncludedInv
  <2> QED
    BY <2>3, <2>4, <2>5, <2>6, <2>7, <2>8, <2>9 DEF IncludedInv
<1>3. IncludedSafe => IncludedHaveData
  BY DEF IncludedSafe
<1> QED
  BY <1>1, <1>2, <1>3, PTL DEF Spec

-----------------------------------------------------------------------------
(***************************************************************************)
(* All of it together.                                                     *)
(***************************************************************************)
Inv == DataInv /\ NumberFree /\ RefInv /\ HashInv /\ HashMatchesData /\ StoreInv

LEMMA InvInit ==
  ASSUME Assumptions
  PROVE  Init => Inv
<1> SUFFICES ASSUME Init PROVE Inv
  OBVIOUS
<1>1. DataInv /\ NumberFree /\ RefInv /\ HashInv /\ HashMatchesData
  BY DataInvInit, NumberFreeInit, RefInvInit, HashInvInit
<1>2. StoreInv
  BY DEF Init, StoreInv, ByHash, InPlace, AtLive, AllListed, AllBacked, ArcBacked, AllRight, Stored,
         Visited
<1> QED
  BY <1>1, <1>2 DEF Inv

LEMMA InvNext ==
  ASSUME Assumptions
  PROVE  Inv /\ [Next]_vars => Inv'
<1> SUFFICES ASSUME Inv, [Next]_vars PROVE Inv'
  OBVIOUS
<1> USE DEF Inv, Assumptions, Undisturbed
<1>1. /\ TypeInv /\ Phases /\ ExclusionsKept /\ VisitInv /\ VisitOrder /\ OldLoaded
      /\ FirstScan /\ NoHashYet
  BY DEF DataInv, SessionInv, RefInv, HashInv
<1>2. DataInv' /\ RefInv' /\ NumberFree' /\ HashInv' /\ HashMatchesData'
  BY <1>1, DataInvNext, RefInvNext, NumberFreeNext, HashInvNext
<1>3. InPlace' /\ TypeInv'
  BY <1>1, InPlaceNext, TypeInvNext DEF StoreInv
<1>4. AllListed'
  BY <1>1, <1>3, AllListedNext DEF StoreInv
<1>5. AllBacked' /\ ArcBacked'
  BY <1>1, AllBackedNext, ArcBackedNext DEF StoreInv
<1>6. AllRight'
  BY <1>1, AllRightNext DEF StoreInv
<1>7. ByHash'
  BY <1>1, ByHashNext DEF StoreInv
<1> QED
  BY <1>2, <1>3, <1>4, <1>5, <1>6, <1>7 DEF StoreInv

-----------------------------------------------------------------------------
(***************************************************************************)
(* What can be restored.                                                   *)
(***************************************************************************)
\* A version that is restored finds its data in versions that are, too.
LEMMA OpensWhatItNeeds ==
  ASSUME RefsArc, NEW v \in Versions, Restorable(v), NEW p \in Paths,
         HasData(arc[v].BaseObjects[p])
  PROVE  Restorable(arc[v].BaseObjects[p].LatestVersion)
<1> DEFINE d == arc[v].BaseObjects[p].LatestVersion
<1>1. PICK opened \in SUBSET Stored :
        /\ v \in opened
        /\ \A w \in opened : \A e \in arc[w].VersionDependencies : e < w /\ e \in opened
  BY DEF Restorable
<1>2. d \in arc[v].VersionDependencies \cup {v}
  BY <1>1 DEF RefsArc, Resolved, HasData
<1>3. d \in opened
  BY <1>1, <1>2
<1> QED
  BY <1>1, <1>3 DEF Restorable

LEMMA RestorableStored ==
  \A v : Restorable(v) => v \in Stored
BY DEF Restorable

LEMMA ResolveKept ==
  ASSUME NEW v, NEW p \in Paths, arc'[v] = arc[v], truth'[v] = truth[v],
         HasData(arc[v].BaseObjects[p]) =>
           arc'[arc[v].BaseObjects[p].LatestVersion] = arc[arc[v].BaseObjects[p].LatestVersion]
  PROVE  Resolve(v, p)' = Resolve(v, p)
<1>1. HasData(arc[v].BaseObjects[p])' <=> HasData(arc[v].BaseObjects[p])
  BY DEF HasData
<1>2. HasData(arc[v].BaseObjects[p]) =>
        StreamData(arc[v].BaseObjects[p].LatestVersion, arc[v].BaseObjects[p].StreamUniqueId)'
          = StreamData(arc[v].BaseObjects[p].LatestVersion, arc[v].BaseObjects[p].StreamUniqueId)
  BY DEF StreamData
<1> QED
  BY <1>1, <1>2 DEF Resolve

\* What the steps of the store are made of.
LEMMA CopyKept ==
  ASSUME NEW v \in Versions, Restorable(v)' <=> Restorable(v),
         Restorable(v) => \A p \in Paths : Resolve(v, p)' = Resolve(v, p)
  PROVE  StoredCopies'[v] = StoredCopies[v]
<1>1. StoredCopies[v] = IF Restorable(v) THEN [p \in Paths |-> Resolve(v, p)] ELSE None
  BY DEF StoredCopies
<1>2. StoredCopies'[v] = IF Restorable(v)' THEN [p \in Paths |-> Resolve(v, p)'] ELSE None
  BY DEF StoredCopies
<1> QED
  BY <1>1, <1>2

LEMMA SourceIsCopy == TypeOK => SourceContent \in Store!Copy
BY DEF TypeOK, SourceContent, Store!Copy, IsFile, Inode

-----------------------------------------------------------------------------
(***************************************************************************)
(* Deleting a version.                                                     *)
(***************************************************************************)
LEMMA RemoveMaps ==
  ASSUME TypeInv, RefsArc, NEW v \in Versions, RemoveVersion(v)
  PROVE  Store!Remove(v)
<1>1. /\ \A w \in Stored' : w \in Stored /\ w # v /\ arc'[w] = arc[w] /\ truth'[w] = truth[w]
      /\ UNCHANGED <<live, inode, excluded>>
  BY RemoveLeaves
<1>2. \A w \in Stored : w # v => w \in Stored' /\ arc'[w] = arc[w]
  BY RemoveLeaves DEF Stored, TypeInv, TypeOK
<1>3. ASSUME NEW w \in Versions, Restorable(w)' PROVE Restorable(w) /\ w # v
  <2>1. PICK opened \in SUBSET Stored' :
          /\ w \in opened
          /\ \A x \in opened : \A d \in arc'[x].VersionDependencies : d < x /\ d \in opened
    BY <1>3 DEF Restorable
  <2>2. opened \in SUBSET Stored /\ \A x \in opened : arc'[x] = arc[x]
    BY <1>1
  <2> QED
    BY <1>1, <2>1, <2>2 DEF Restorable
<1>4. ASSUME NEW w \in Versions, w < v, Restorable(w) PROVE Restorable(w)'
  <2>1. PICK opened \in SUBSET Stored :
          /\ w \in opened
          /\ \A x \in opened : \A d \in arc[x].VersionDependencies : d < x /\ d \in opened
    BY <1>4 DEF Restorable
  <2> DEFINE older == {x \in opened : x < v}
  <2>2. \A x \in older : x \in Int /\ v \in Int
    BY BackupEngineAssumption DEF Stored, Versions
  <2>3. older \in SUBSET Stored' /\ \A x \in older : arc'[x] = arc[x]
    BY <1>2, <2>2
  <2>4. ASSUME NEW x \in older, NEW d \in arc'[x].VersionDependencies
        PROVE  d < x /\ d \in older
    <3>1. d < x /\ d \in opened
      BY <2>1, <2>3, <2>4
    <3>2. d \in Int /\ x \in Int /\ v \in Int
      BY <2>2, <3>1, BackupEngineAssumption DEF Stored, Versions
    <3> QED
      BY <3>1, <3>2
  <2>5. w \in older
    BY <1>4, <2>1
  <2> QED
    BY <2>3, <2>4, <2>5 DEF Restorable
<1>5. ASSUME NEW w \in Versions, Restorable(w)', NEW p \in Paths
      PROVE  Resolve(w, p)' = Resolve(w, p)
  <2>1. Restorable(w) /\ w \in Stored'
    BY <1>3, <1>5 DEF Restorable
  <2>2. arc'[w] = arc[w] /\ truth'[w] = truth[w]
    BY <1>1, <2>1
  <2>3. PICK opened \in SUBSET Stored' :
          /\ w \in opened
          /\ \A x \in opened : \A d \in arc'[x].VersionDependencies : d < x /\ d \in opened
    BY <1>5 DEF Restorable
  <2>4. ASSUME HasData(arc[w].BaseObjects[p])
        PROVE  arc[w].BaseObjects[p].LatestVersion \in opened
    <3>1. Resolved(w, arc[w].BaseObjects[p])
      BY <1>1, <2>1 DEF RefsArc
    <3> QED
      BY <2>2, <2>3, <2>4, <3>1 DEF Resolved, HasData
  <2> QED
    BY <1>1, <2>2, <2>4, ResolveKept
<1> DEFINE lost == {w \in Versions : w > v /\ ~Restorable(w)'}
<1>6. StoredCopies' = [w \in Versions |-> IF w = v \/ w \in lost THEN None ELSE StoredCopies[w]]
  <2>1. ASSUME NEW w \in Versions
        PROVE  StoredCopies'[w] = IF w = v \/ w \in lost THEN None ELSE StoredCopies[w]
    <3>1. CASE ~Restorable(w)' /\ (w = v \/ w \in lost)
      BY <3>1 DEF StoredCopies
    <3>2. CASE Restorable(w)'
      BY <1>3, <1>5, <3>2, CopyKept
    <3>3. CASE ~Restorable(w)' /\ w # v /\ w \notin lost
      <4>1. w < v
        BY <3>3, BackupEngineAssumption DEF Versions
      <4>2. ~Restorable(w)
        BY <1>4, <3>3, <4>1
      <4> QED
        BY <3>3, <4>2, CopyKept
    <3> QED
      BY <1>3, <3>1, <3>2, <3>3
  <2> QED
    BY <2>1 DEF StoredCopies
<1>7. UNCHANGED <<SourceContent, excluded>>
  BY <1>1 DEF SourceContent
<1>8. lost \in SUBSET {w \in Versions : w > v}
  OBVIOUS
<1> HIDE DEF lost
<1> QED
  BY <1>6, <1>7, <1>8 DEF Store!Remove

-----------------------------------------------------------------------------
(***************************************************************************)
(* Committing a version.                                                   *)
(***************************************************************************)
\* What the new version holds of p, if its dependencies are there.
LEMMA NewCopy ==
  ASSUME Inv, Inv', CommitArchive, Restorable(count)', NEW p \in Paths
  PROVE  Resolve(count, p)' = IF p \in excluded THEN None ELSE SourceContent[p]
<1>1. TypeInv /\ TypeInv' /\ IdInv /\ IdInv' /\ RefsArc' /\ AllPlaced /\ OutNow /\ InPlace
  BY DEF Inv, DataInv, RefInv, HashInv, StoreInv
<1>2. /\ pc = "archive" /\ todo = {} /\ UNCHANGED <<count, base>> /\ count \in Stored'
      /\ \A v \in Stored' : v # count => v \in Stored /\ arc'[v] = arc[v]
      /\ arc'[count] = NewArchive /\ truth'[count].excluded = excluded
  <2>1. UNCHANGED count
    BY <1>1, CommitIs
  <2>2. count \in Stored'
    BY <2>1 DEF Restorable
  <2> QED
    BY <1>1, <2>2, CommitIs
<1>3. PICK o : o = NewArchive.BaseObjects[p]
  OBVIOUS
<1>4. /\ HasData(o) <=> HasData(base[p])
      /\ base[p] # None => /\ o.StreamUniqueId = base[p].StreamUniqueId
                           /\ o.LatestVersion = base[p].LatestVersion
  BY <1>1, <1>3, NewObject
<1>5. Listed(p) /\ baseSet
  BY <1>1, <1>2 DEF Inv, StoreInv, AllListed, TypeInv, WellFormed
<1>6. CASE p \in excluded \/ ~IsFile(live[p])
  <2>1. p \in excluded \/ ~HasData(o)
    BY <1>4, <1>5, <1>6 DEF Listed, HasData
  <2>2. ~(p \in excluded) => SourceContent[p] = None
    BY <1>6 DEF SourceContent
  <2> QED
    BY <1>2, <1>3, <2>1, <2>2 DEF Resolve, HasData
<1>7. CASE p \notin excluded /\ IsFile(live[p])
  <2>1. /\ base[p] # None /\ base[p].Type \in FileTypes /\ Visited(p)
    BY <1>2, <1>5, <1>7 DEF Listed, IsFile, Visited
  <2>2. Right(p) /\ Placed(base[p])
    BY <1>1, <2>1 DEF Inv, StoreInv, AllRight, AllPlaced
  <2>3. HasData(o)
    BY <1>4, <1>7, <2>1, <2>2 DEF HasData, Right
  <2>4. o.LatestVersion \in Stored'
    <3>1. PICK opened \in SUBSET Stored' :
            /\ count \in opened
            /\ \A x \in opened : \A d \in arc'[x].VersionDependencies : d < x /\ d \in opened
      BY <1>2 DEF Restorable
    <3>2. o.LatestVersion \in arc'[count].VersionDependencies \cup {count}
      <4>1. Resolved(count, o)'
        BY <1>1, <1>2, <1>3 DEF RefsArc
      <4> QED
        BY <1>2, <2>3, <4>1 DEF Resolved, HasData
    <3> QED
      BY <3>1, <3>2
  <2>5. ASSUME NEW n, NEW id, n = base[p].LatestVersion, id = base[p].StreamUniqueId
        PROVE  StreamData(n, id)' = {Content(p)}
    <3>1. CASE base[p].BackupStream = "Full"
      <4>1. PICK i \in DOMAIN streams :
              streams[i].UniqueId = id /\ live[streams[i].fso] = live[p]
        BY <1>7, <2>2, <2>5, <3>1 DEF Right
      <4>2. ReadAt(main.MappedBasePath, streams[i].fso) = Content(p)
        <5>1. PICK q \in Paths : q = streams[i].fso
          BY <1>1, StreamOf
        <5>2. live[q] = live[p]
          BY <4>1, <5>1
        <5> QED
          BY <1>1, <1>5, <1>7, <5>1, <5>2, ReadsLive DEF Content
      <4>3. n = count
        BY <1>7, <2>2, <2>5, <3>1 DEF Right, Placed
      <4>4. StreamData(count, id)' = {Content(p)}
        BY <1>1, <1>2, <4>1, <4>2, StreamWritten
      <4> QED
        BY <1>2, <4>3, <4>4
    <3>2. CASE base[p].BackupStream # "Full"
      <4>1. n \in Stored' /\ n # count
        <5>1. n \in Int /\ count \in Int /\ n < count
          BY <1>1, <1>7, <2>1, <2>2, <2>5, <3>2 DEF Right, Placed, TypeInv, TypeOK, Fso
        <5> QED
          BY <1>4, <2>1, <2>4, <2>5, <5>1
      <4>2. StreamData(n, id) = {Content(p)}
        BY <1>2, <1>7, <2>2, <2>5, <3>2, <4>1 DEF Right
      <4> QED
        BY <1>2, <4>1, <4>2 DEF StreamData
    <3> QED
      BY <3>1, <3>2
  <2>6. StreamData(o.LatestVersion, o.StreamUniqueId)' = {Content(p)}
    <3>1. PICK n, id : n = base[p].LatestVersion /\ id = base[p].StreamUniqueId
      OBVIOUS
    <3>2. StreamData(n, id)' = {Content(p)} /\ n = o.LatestVersion /\ id = o.StreamUniqueId
      BY <1>4, <2>1, <2>5, <3>1
    <3> QED
      BY <3>2 DEF StreamData
  <2>7. Content(p) \in Contents
    BY <1>1, <1>7 DEF TypeInv, TypeOK, IsFile, Content, Inode
  <2>8. truth'[count].excluded = excluded /\ HasData(o)' /\ arc'[count].BaseObjects[p] = o
    BY <1>2, <1>3, <2>3 DEF HasData
  <2>9. Resolve(count, p)' = Content(p)
    BY <1>2, <1>7, <2>6, <2>7, <2>8 DEF Resolve
  <2> QED
    BY <1>7, <2>9 DEF SourceContent, Content
<1> QED
  BY <1>6, <1>7

LEMMA CommitMaps ==
  ASSUME Assumptions, Inv, Inv', CommitArchive
  PROVE  Store!Commit(count) \/ UNCHANGED StoredCopies
<1>1. /\ TypeInv /\ RefsArc /\ count \in Nat /\ UNCHANGED excluded
      /\ \A v \in Stored : v < count
    BY DEF Assumptions, Undisturbed, Inv, DataInv, RefInv, NumberFree, Busy, CommitArchive, settings,
           TypeInv, TypeOK
<1>2. /\ UNCHANGED <<live, inode, count>>
      /\ arc' = [arc EXCEPT ![count] = NewArchive]
      /\ \A v \in Versions \ {count} : arc'[v] = arc[v] /\ truth'[v] = truth[v]
  BY <1>1 DEF CommitArchive, disk, settings, TypeInv, TypeOK
<1>3. \A v \in Stored : v # count /\ v \in Stored'
  BY <1>1, <1>2 DEF Stored, Versions
<1>4. ~Restorable(count)
  BY <1>3 DEF Restorable
<1>5. ASSUME NEW v \in Versions \ {count} PROVE Restorable(v)' <=> Restorable(v)
  <2>1. ASSUME Restorable(v) PROVE Restorable(v)'
    <3>1. PICK opened \in SUBSET Stored :
            /\ v \in opened
            /\ \A x \in opened : \A d \in arc[x].VersionDependencies : d < x /\ d \in opened
      BY <2>1 DEF Restorable
    <3>2. opened \in SUBSET Stored' /\ \A x \in opened : arc'[x] = arc[x]
      BY <1>2, <1>3 DEF Stored
    <3> QED
      BY <3>1, <3>2 DEF Restorable
  <2>2. ASSUME Restorable(v)' PROVE Restorable(v)
    <3>1. PICK opened \in SUBSET Stored' :
            /\ v \in opened
            /\ \A x \in opened : \A d \in arc'[x].VersionDependencies : d < x /\ d \in opened
      BY <2>2 DEF Restorable
    <3> DEFINE others == opened \ {count}
    <3>2. others \in SUBSET Stored /\ \A x \in others : arc'[x] = arc[x]
      BY <1>2 DEF Stored
    <3>3. ASSUME NEW x \in others, NEW d \in arc[x].VersionDependencies
          PROVE  d < x /\ d \in others
      <4>1. d < x /\ d \in opened /\ x < count
        BY <1>1, <3>1, <3>2, <3>3
      <4>2. d \in Int /\ x \in Int /\ count \in Int
        BY <1>1, <4>1, BackupEngineAssumption DEF Stored, Versions
      <4> QED
        BY <4>1, <4>2
    <3> QED
      BY <3>1, <3>2, <3>3 DEF Restorable
  <2> QED
    BY <2>1, <2>2
<1>6. ASSUME NEW v \in Versions \ {count}, Restorable(v), NEW p \in Paths
      PROVE  Resolve(v, p)' = Resolve(v, p)
  <2>1. ASSUME HasData(arc[v].BaseObjects[p])
        PROVE  arc[v].BaseObjects[p].LatestVersion \in Stored
    BY <1>1, <1>6, <2>1, OpensWhatItNeeds, RestorableStored
  <2>2. arc'[v] = arc[v] /\ truth'[v] = truth[v]
    BY <1>2
  <2>3. HasData(arc[v].BaseObjects[p]) =>
          arc'[arc[v].BaseObjects[p].LatestVersion] = arc[arc[v].BaseObjects[p].LatestVersion]
    BY <1>2, <1>3, <2>1 DEF Stored
  <2> QED
    BY <2>2, <2>3, ResolveKept
<1>7. \A v \in Versions \ {count} : StoredCopies'[v] = StoredCopies[v]
  BY <1>5, <1>6, CopyKept
<1>8. CASE count \in Versions /\ Restorable(count)'
  <2>1. StoredCopies'[count]
          = [p \in Paths |-> IF p \in excluded THEN None ELSE SourceContent[p]]
    <3>1. StoredCopies'[count] = [p \in Paths |-> Resolve(count, p)']
      BY <1>2, <1>8 DEF StoredCopies
    <3>2. \A p \in Paths :
            Resolve(count, p)' = IF p \in excluded THEN None ELSE SourceContent[p]
      BY <1>8, NewCopy
    <3> QED
      BY <3>1, <3>2
  <2>2. \A v \in Store!Kept : v < count
    BY <1>1, RestorableStored DEF Store!Kept, StoredCopies
  <2>3. UNCHANGED <<SourceContent, excluded>>
    BY <1>1, <1>2 DEF SourceContent
  <2>4. StoredCopies' = [StoredCopies EXCEPT ![count] =
                           [p \in Paths |-> IF p \in excluded THEN None ELSE SourceContent[p]]]
    BY <1>7, <1>8, <2>1 DEF StoredCopies
  <2> QED
    BY <2>2, <2>3, <2>4 DEF Store!Commit
<1>9. CASE count \in Versions /\ ~Restorable(count)'
  <2>1. StoredCopies'[count] = StoredCopies[count]
    BY <1>2, <1>4, <1>9 DEF StoredCopies
  <2> QED
    BY <1>7, <2>1 DEF StoredCopies
<1>10. CASE count \notin Versions
  BY <1>7, <1>10 DEF StoredCopies
<1> QED
  BY <1>8, <1>9, <1>10

-----------------------------------------------------------------------------
(***************************************************************************)
(* The refinement.                                                         *)
(***************************************************************************)
\* As long as the source rests while a backup runs, a session makes one backup,
\* files are compared by hash and read where they are, what restores from the
\* target is what VersionStore promises: every version is the source as it was
\* when it was committed, less the excluded paths; versions that come later or
\* are deleted never change what another restores to; and a version that lost a
\* dependency (FillDependencies) never comes back.
THEOREM Implements ==
  ASSUME Assumptions
  PROVE  Spec => ImplementsStore
<1>1. Init => Store!Init
  <2> SUFFICES ASSUME Init PROVE Store!Init
    OBVIOUS
  <2>1. SourceContent \in Store!Copy /\ excluded \in SUBSET Paths
    BY TypeInvInit, SourceIsCopy DEF TypeInv, TypeOK
  <2>2. \A v \in Versions : ~Restorable(v)
    BY DEF Init, Restorable, Stored
  <2>3. StoredCopies = [v \in Versions |-> None]
    BY <2>2 DEF StoredCopies
  <2> QED
    BY <2>1, <2>3 DEF Store!Init
<1>2. Inv /\ Inv' /\ [Next]_vars => [Store!Next]_<<SourceContent, excluded, StoredCopies>>
  <2> SUFFICES ASSUME Inv, Inv', [Next]_vars
               PROVE  [Store!Next]_<<SourceContent, excluded, StoredCopies>>
    OBVIOUS
  <2>1. TypeInv /\ TypeInv' /\ RefsArc
    BY DEF Inv, DataInv, RefInv
  <2>2. SourceContent' \in Store!Copy /\ excluded' \in SUBSET Paths
    BY <2>1 DEF TypeInv, TypeOK, SourceContent, Store!Copy, IsFile, Inode
  <2>3. ASSUME UNCHANGED StoredCopies PROVE Store!Next
    BY <2>2, <2>3 DEF Store!Next, Store!ChangeSource
  <2>4. CASE UNCHANGED <<arc, truth>>
    <3>1. \A v : Restorable(v)' <=> Restorable(v)
      BY <2>4 DEF Restorable, Stored
    <3>2. \A v \in Versions, p \in Paths : Resolve(v, p)' = Resolve(v, p)
      BY <2>4, ResolveKept
    <3> QED
      BY <2>3, <3>1, <3>2 DEF StoredCopies
  <2>5. CASE CommitArchive
    <3>1. count \in Versions \/ UNCHANGED <<arc, truth>>
      BY <2>1, <2>5 DEF CommitArchive, TypeInv, TypeOK
    <3> QED
      BY <2>3, <2>4, <2>5, <3>1, CommitMaps DEF Store!Next
  <2>6. ASSUME NEW v \in Versions, RemoveVersion(v) PROVE Store!Next
    BY <2>1, <2>6, RemoveMaps DEF Store!Next
  <2> QED
    BY <2>4, <2>5, <2>6, StoredChanges
<1> QED
  BY <1>1, <1>2, InvInit, InvNext, PTL DEF Spec, ImplementsStore, Store!Spec

-----------------------------------------------------------------------------
(***************************************************************************)
(* Versions read through a shadow copy, compared by hash, are exact,       *)
(* whatever happens to the source meanwhile, but for the files whose       *)
(* identity clashes with another object's (Clashes).                       *)
(***************************************************************************)
\* Firsts of their sessions: all versions there are.
Firsts == \A w \in Stored : truth[w].attempt = 0

\* Then no removal of another version makes all that remain firsts.
FirstsStay == MaxSessionBackups = 1 \/ "remove" \notin EditKinds

OneBackup == MaxSessionBackups = 1 => Firsts

\* A session's first backup reads a shadow copy, of this backup or an older one.
InCopy == pc \in {"scan", "archive"} /\ backups = 0 /\ main.MappedBasePath # Live

ReadOf(p) == ReadAt(main.MappedBasePath, p)

\* The shadow copy holds what the backup has seen.
CopySeen ==
  Busy /\ shadow # None =>
    \A p \in Paths : seen[p] = ContentsOf(shadow.live, shadow.inode)[p]

CopyReached == InCopy /\ main.Type = "Directory" => Reachable(main.MappedBasePath)

\* The objects are the entries of the copy, and carry nothing before the visit.
FoundIn(p) ==
  /\ Found(p) # None <=> base[p] # None \/ (pc = "scan" /\ p \in todo)
  /\ base[p] # None => (base[p].Type \in FileTypes <=> IsFile(Found(p)))

CopyListed == InCopy => \A p \in Paths : FoundIn(p)

Unmarked(f) == f.Hashes = None /\ f.BackupStream = "None"

CopyFresh == InCopy => \A p \in Paths : base[p] # None /\ ~Visited(p) => Unmarked(base[p])

\* Nothing refers to a later version.
BaseBelow == pc # "closed" => \A p \in Paths : base[p] # None => base[p].LatestVersion <= count
ArcBelow  == \A v \in Stored : \A p \in Paths :
               arc[v].BaseObjects[p] # None => arc[v].BaseObjects[p].LatestVersion <= v

\* Where an object of a version or of the copy has a hash, it is its data's.
HashIsData(o) ==
  /\ HasData(o)
  /\ o.LatestVersion \in Stored => StreamData(o.LatestVersion, o.StreamUniqueId) = {o.Hashes}

ArcCopies ==
  Firsts => \A v \in Stored : arc[v].main.MappedBasePath # Live =>
    \A p \in Paths : LET o == arc[v].BaseObjects[p]
                     IN  o # None /\ o.Hashes # None => HashIsData(o)

CopyHash(p) ==
  base[p].Hashes # None =>
    /\ HasData(base[p])
    /\ base[p].BackupStream # "Full" => base[p].LatestVersion < count
    /\ HashRight(p)

CopyHashes == Firsts /\ InCopy => \A p \in Paths : Visited(p) => CopyHash(p)

\* What Clashes says of a version, of the objects it is made from.
Sharer(p, q) ==
  /\ base[q] # None /\ base[q].FileSystemGuid # None
  /\ base[q].FileSystemGuid = base[p].FileSystemGuid

Linked(p, q) ==
  base[p].Type = "FileHardlink" /\ base[q].Type = "FileHardlink" /\ seen[p] = seen[q]

Clean(p) == \A q \in Paths \ {p} : Sharer(p, q) => Linked(p, q)

Streamed(q, id) == \E i \in DOMAIN streams : streams[i].UniqueId = id /\ streams[i].fso = q

\* An included file that was visited refers to what the copy holds of it.
CopyRight(p) ==
  p \notin excluded /\ IsFile(Found(p)) =>
    /\ base[p].LatestVersion >= 0
    /\ Clean(p) =>
         IF base[p].BackupStream = "Full"
           THEN /\ base[p].LatestVersion = count
                /\ \E q \in Paths : Streamed(q, base[p].StreamUniqueId) /\ ReadOf(q) = ReadOf(p)
           ELSE /\ base[p].LatestVersion < count
                /\ base[p].LatestVersion \in Stored =>
                     StreamData(base[p].LatestVersion, base[p].StreamUniqueId) = {ReadOf(p)}

CopyIsRight == Firsts /\ InCopy => \A p \in Paths : Visited(p) => CopyRight(p)

CopyOut == InCopy => OutNow

CopyInv ==
  /\ ByHash /\ OneBackup /\ CopySeen /\ CopyReached /\ CopyListed /\ CopyFresh
  /\ BaseBelow /\ ArcBelow /\ ArcCopies /\ CopyHashes /\ CopyIsRight /\ CopyOut

-----------------------------------------------------------------------------
LEMMA FirstsCommit ==
  ASSUME TypeInv, NumberFree, CommitArchive, Firsts'
  PROVE  /\ Firsts
         /\ count \in Stored' => backups = 0 /\ \A v \in Stored : v < count
<1>1. /\ pc = "archive" /\ count \in Nat
      /\ arc' = [arc EXCEPT ![count] = NewArchive]
      /\ truth' = [truth EXCEPT ![count] =
                     [seen |-> seen, excluded |-> excluded, crit |-> crit,
                      useSnapshots |-> useSnapshots, attempt |-> backups]]
      /\ arc \in [Versions -> Archive \cup {None}] /\ truth \in [Versions -> Truth \cup {None}]
  BY DEF CommitArchive, TypeInv, TypeOK
<1>2. CASE count \in Versions
  <2>1. NewArchive # None
    BY <1>1, NewArchiveType, NoneAssumption
  <2>2. count \in Stored' /\ truth'[count].attempt = backups
    BY <1>1, <1>2, <2>1 DEF Stored
  <2>3. backups = 0
    BY <2>2 DEF Firsts
  <2>4. \A v \in Stored : v < count
    BY <1>1, <2>3 DEF NumberFree
  <2>5. \A v \in Stored : v \in Stored' /\ truth'[v] = truth[v]
    <3> SUFFICES ASSUME NEW v \in Stored PROVE v \in Stored' /\ truth'[v] = truth[v]
      OBVIOUS
    <3>1. v \in Versions /\ arc[v] # None /\ v # count
      BY <1>1, <2>4 DEF Stored
    <3> QED
      BY <1>1, <3>1 DEF Stored
  <2> QED
    BY <2>3, <2>4, <2>5 DEF Firsts
<1>3. CASE count \notin Versions
  <2>1. arc' = arc /\ truth' = truth
    BY <1>1, <1>3
  <2> QED
    BY <1>3, <2>1 DEF Firsts, Stored
<1> QED
  BY <1>2, <1>3

\* A step that makes every version a first one found it so.
LEMMA FirstsBack ==
  ASSUME FirstsStay, TypeInv, NumberFree, OneBackup, [Next]_vars, Firsts'
  PROVE  Firsts
<1>1. CASE CommitArchive
  BY <1>1, FirstsCommit
<1>2. ASSUME NEW v \in Versions, RemoveVersion(v) PROVE Firsts
  BY <1>2 DEF RemoveVersion, FirstsStay, OneBackup
<1>3. CASE UNCHANGED <<arc, truth>>
  BY <1>3 DEF Firsts, Stored
<1> QED
  BY <1>1, <1>2, <1>3, StoredChanges

LEMMA OneBackupNext ==
  ASSUME TypeInv, NumberFree, OneBackup, [Next]_vars
  PROVE  OneBackup'
<1> SUFFICES ASSUME MaxSessionBackups = 1, Firsts PROVE Firsts'
  BY DEF OneBackup
<1>1. CASE CommitArchive
  <2>1. backups = 0
    BY <1>1 DEF CommitArchive, NumberFree, Busy, TypeInv, TypeOK
  <2>2. ASSUME NEW v \in Stored' PROVE truth'[v].attempt = 0
    <3>1. CASE v # count
      BY <1>1, <3>1, CommitIs DEF Firsts
    <3>2. CASE v = count
      <4>1. truth'[v].attempt = backups
        BY <1>1, <3>2 DEF CommitArchive, Stored, TypeInv, TypeOK
      <4> QED
        BY <2>1, <4>1
    <3> QED
      BY <3>1, <3>2
  <2> QED
    BY <2>2 DEF Firsts
<1>2. ASSUME NEW v \in Versions, RemoveVersion(v) PROVE Firsts'
  BY <1>2, RemoveLeaves DEF Firsts
<1>3. CASE UNCHANGED <<arc, truth>>
  BY <1>3 DEF Firsts, Stored
<1> QED
  BY <1>1, <1>2, <1>3, StoredChanges

\* Steps of a backup that reads a copy leave the reading alone.
LEMMA ReadOfKept ==
  ASSUME main.MappedBasePath # Live, UNCHANGED <<shadow, main>>
  PROVE  \A p : Found(p)' = Found(p) /\ ReadOf(p)' = ReadOf(p)
<1>1. \A p : Found(p)' = Found(p)
  BY DEF Found, EntryAt, Reachable
<1>2. \A g : InodeAt(main.MappedBasePath, g)' = InodeAt(main.MappedBasePath, g)
  BY DEF InodeAt
<1> QED
  BY <1>1, <1>2 DEF ReadOf, ReadAt, Found

\* A file in a copy is one in the shadow copy of this backup.
LEMMA CopyIs ==
  ASSUME CopySeen, Busy, main.MappedBasePath # Live, NEW p \in Paths, IsFile(Found(p))
  PROVE  /\ shadow # None /\ Reachable(main.MappedBasePath) /\ Found(p) = shadow.live[p]
         /\ seen[p] = {ReadOf(p)}
<1>1. shadow # None /\ Reachable(main.MappedBasePath) /\ Found(p) = shadow.live[p]
  BY DEF Found, EntryAt, Reachable, IsFile
<1>2. seen[p] = {shadow.inode[shadow.live[p]].content}
  BY <1>1 DEF CopySeen, ContentsOf
<1>3. ReadOf(p) = shadow.inode[shadow.live[p]].content
  BY <1>1 DEF ReadOf, ReadAt, InodeAt, Found
<1> QED
  BY <1>1, <1>2, <1>3

LEMMA CopySeenNext ==
  ASSUME TypeInv, CopySeen, [Next]_vars
  PROVE  CopySeen'
<1> USE DEF settings, objects, Busy, disk, store
<1>1. CASE UNCHANGED <<shadow, seen>> /\ (pc' = pc \/ Busy)
  BY <1>1 DEF CopySeen
<1>2. CASE Open \/ EndSession \/ CommitArchive
  BY <1>2 DEF Open, EndSession, CommitArchive, CopySeen
<1>3. CASE BeginBackup
  <2>1. shadow' = None \/ \E d : shadow' = [device |-> d, live |-> live, inode |-> inode]
    BY <1>3 DEF BeginBackup
  <2>2. seen' = ContentsOf(live, inode)
    BY <1>3 DEF BeginBackup
  <2> QED
    BY <2>1, <2>2 DEF CopySeen, ContentsOf
<1>4. CASE \E p \in Paths : SkipObject(p) \/ AddInitialStream(p)
                            \/ AddChangedFile(p) \/ KeepUnmodified(p)
  <2>1. PICK p \in Paths : Visit(p)
    BY <1>4 DEF SkipObject, AddInitialStream, AddChangedFile, KeepUnmodified
  <2> QED
    BY <1>1, <2>1, VisitLeaves
<1>5. CASE Environment
  <2>1. CASE \E v \in Versions : RemoveVersion(v)
    BY <1>1, <2>1, RemoveLeaves
  <2>2. CASE \A v \in Versions : ~RemoveVersion(v)
    <3>1. PICK kind : Edit(kind)
      BY <1>5, <2>2, EditIs
    <3>2. UNCHANGED <<shadow, pc>> /\ (Busy /\ shadow # None => seen' = seen)
      BY <3>1 DEF Edit
    <3> QED
      BY <3>2 DEF CopySeen
  <2> QED
    BY <2>1, <2>2
<1> QED
  BY <1>1, <1>2, <1>3, <1>4, <1>5
     DEF Next, Backup, vars, ListSource, ReuseBaseObjects, ScanEntry, RecalculateFileGuid,
         PrepareStreams, WriteStream

\* What happens while a session's first backup reads a copy.
Quiet == UNCHANGED <<pc, base, todo, guids, streams, out>> /\ (shadow = None \/ seen' = seen)

VisitsOne == \E p \in Paths : SkipObject(p) \/ AddInitialStream(p)
                              \/ AddChangedFile(p) \/ KeepUnmodified(p)

LEMMA CopySteps ==
  ASSUME TypeInv, Phases, FirstScan, [Next]_vars, InCopy'
  PROVE  \/ ListSource /\ base' = NoObjects
         \/ /\ InCopy
            /\ UNCHANGED <<backups, shadow, main, count, excluded, arc, truth, old, oldMain>>
            /\ \/ \E p \in Paths : ScanEntry(p) \/ RecalculateFileGuid(p)
               \/ PrepareStreams \/ VisitsOne \/ WriteStream \/ Quiet
<1> USE DEF settings, objects, oldTree, pending, store, disk
<1> DEFINE Same == UNCHANGED <<backups, shadow, main, count, excluded, arc, truth, old, oldMain>>
<1>1. CASE ListSource
  <2>1. ~baseSet
    BY <1>1 DEF ListSource
  <2> QED
    BY <1>1, <2>1 DEF ListSource, Phases
<1>2. CASE ReuseBaseObjects
  BY <1>2 DEF ReuseBaseObjects, FirstScan, InCopy
<1>3. CASE Open \/ EndSession \/ BeginBackup \/ CommitArchive
  BY <1>3 DEF Open, EndSession, BeginBackup, CommitArchive, InCopy
<1>4. CASE \E p \in Paths : ScanEntry(p) \/ RecalculateFileGuid(p)
  <2>1. InCopy /\ Same
    BY <1>4 DEF ScanEntry, RecalculateFileGuid, InCopy
  <2> QED
    BY <1>4, <2>1
<1>5. CASE PrepareStreams
  BY <1>5 DEF PrepareStreams, InCopy
<1>6. CASE WriteStream
  <2>1. InCopy /\ Same
    BY <1>6 DEF WriteStream, InCopy
  <2> QED
    BY <1>6, <2>1
<1>7. CASE VisitsOne
  <2>1. PICK p \in Paths : Visit(p)
    BY <1>7 DEF VisitsOne, SkipObject, AddInitialStream, AddChangedFile, KeepUnmodified
  <2>2. InCopy /\ Same
    BY <2>1, VisitLeaves DEF InCopy
  <2> QED
    BY <1>7, <2>2
<1>8. CASE Environment
  <2>1. CASE \E v \in Versions : RemoveVersion(v)
    BY <2>1, RemoveLeaves DEF InCopy
  <2>2. CASE \A v \in Versions : ~RemoveVersion(v)
    <3>1. PICK kind : Edit(kind)
      BY <1>8, <2>2, EditIs
    <3>2. Same /\ UNCHANGED <<pc, base, todo, guids, streams, out>>
      BY <3>1, EditLeaves
    <3>3. InCopy
      BY <3>2 DEF InCopy
    <3>4. shadow = None \/ seen' = seen
      BY <3>1, <3>3 DEF Edit
    <3> QED
      BY <3>2, <3>3, <3>4 DEF Quiet
  <2> QED
    BY <2>1, <2>2
<1>9. CASE UNCHANGED vars
  BY <1>9 DEF vars, InCopy, Quiet
<1> QED
  BY <1>1, <1>2, <1>3, <1>4, <1>5, <1>6, <1>7, <1>8, <1>9 DEF Next, Backup, VisitsOne

LEMMA CopyReachedNext ==
  ASSUME TypeInv, Phases, FirstScan, CopyReached, [Next]_vars
  PROVE  CopyReached'
<1> SUFFICES ASSUME InCopy', main'.Type = "Directory" PROVE Reachable(main.MappedBasePath)'
  BY DEF CopyReached
<1>1. CASE ListSource
  <2>1. /\ main'.MappedBasePath = SourceLocation
        /\ main'.Type = IF Reachable(SourceLocation) THEN "Directory" ELSE "Junction"
    BY <1>1 DEF ListSource
  <2>2. Reachable(SourceLocation) /\ main'.MappedBasePath = SourceLocation /\ shadow' = shadow
    BY <1>1, <2>1 DEF ListSource
  <2> QED
    BY <2>2 DEF Reachable
<1>2. CASE InCopy /\ UNCHANGED <<shadow, main>>
  BY <1>2 DEF CopyReached, Reachable
<1> QED
  BY <1>1, <1>2, CopySteps

\* The objects are the entries of the copy.
LEMMA FoundInKept ==
  ASSUME main.MappedBasePath # Live, UNCHANGED <<shadow, main>>, NEW q \in Paths, FoundIn(q),
         base[q] = None <=> base'[q] = None, base[q] # None => base'[q].Type = base[q].Type,
         (pc = "scan" /\ q \in todo) <=> (pc' = "scan" /\ q \in todo')
  PROVE  FoundIn(q)'
BY ReadOfKept DEF FoundIn

LEMMA FoundInScan ==
  ASSUME TypeInv, main.MappedBasePath # Live, UNCHANGED <<shadow, main>>,
         \A q \in Paths : FoundIn(q), NEW p \in Paths, ScanEntry(p)
  PROVE  \A q \in Paths : FoundIn(q)'
<1>1. PICK g \in Guids \cup {None} :
        /\ base' = [base EXCEPT ![p] = FsoFor(p, Found(p), g)]
        /\ FsoFor(p, Found(p), g) \in Fso /\ p \in todo /\ todo' = todo \ {p}
  BY ScanIs
<1>2. pc = "scan" /\ UNCHANGED pc
  BY DEF ScanEntry
<1>3. base \in [Paths -> Fso \cup {None}]
  BY DEF TypeInv, TypeOK
<1>4. \A q \in Paths : base'[q] = IF q = p THEN FsoFor(p, Found(p), g) ELSE base[q]
  BY <1>1, <1>3
<1>5. \A q \in Paths \ {p} : FoundIn(q)'
  BY <1>1, <1>2, <1>4, FoundInKept
<1>6. Found(p) # None
  BY <1>1, <1>2 DEF FoundIn
<1>7. FsoFor(p, Found(p), g).Type \in FileTypes <=> IsFile(Found(p))
  <2>1. FsoFor(p, Found(p), g).Type
          = IF Found(p) = Dir THEN "Directory"
            ELSE IF \E q \in Paths \ {p} : EntryAt(main.MappedBasePath, q) = Found(p)
                   THEN "FileHardlink" ELSE "RegularFile"
    BY <1>6 DEF FsoFor
  <2> QED
    BY <1>6, <2>1 DEF IsFile, FileTypes
<1>8. FoundIn(p)'
  BY <1>1, <1>4, <1>6, <1>7, ReadOfKept, NoneAssumption DEF FoundIn
<1> QED
  BY <1>5, <1>8

LEMMA CopyListedNext ==
  ASSUME TypeInv, VisitInv, Phases, FirstScan, CopyListed, [Next]_vars
  PROVE  CopyListed'
<1> SUFFICES ASSUME InCopy' PROVE \A q \in Paths : FoundIn(q)'
  BY DEF CopyListed
<1>1. CASE ListSource /\ base' = NoObjects
  <2> DEFINE l == SourceLocation
  <2>1. /\ main'.MappedBasePath = l /\ pc' = "scan" /\ shadow' = shadow
        /\ todo' = {p \in Paths : EntryAt(l, p) # None}
    BY <1>1 DEF ListSource
  <2>2. l # Live
    BY <2>1 DEF InCopy
  <2> HIDE DEF l
  <2>3. \A q \in Paths : Found(q)' = EntryAt(l, q)
    BY <2>1, <2>2 DEF Found, EntryAt, Reachable
  <2> QED
    BY <1>1, <2>1, <2>3 DEF FoundIn, NoObjects
<1>2. CASE InCopy /\ UNCHANGED <<shadow, main>>
  <2> USE <1>2
  <2>1. main.MappedBasePath # Live /\ \A q \in Paths : FoundIn(q)
    BY DEF InCopy, CopyListed
  <2>2. ASSUME NEW p \in Paths, ScanEntry(p) PROVE \A q \in Paths : FoundIn(q)'
    BY <2>1, <2>2, FoundInScan
  <2>3. ASSUME NEW p \in Paths, RecalculateFileGuid(p) PROVE \A q \in Paths : FoundIn(q)'
    <3>1. Replaces(p) /\ base'[p].Type = base[p].Type
      BY <2>3, RecalculateIs DEF Replaces, Fso
    <3>2. UNCHANGED <<pc, todo>>
      BY <2>3 DEF RecalculateFileGuid
    <3>3. \A q \in Paths : /\ base[q] = None <=> base'[q] = None
                           /\ base[q] # None => base'[q].Type = base[q].Type
      BY <3>1 DEF Replaces
    <3> QED
      BY <2>1, <3>2, <3>3, FoundInKept
  <2>4. CASE PrepareStreams
    <3>1. pc = "scan" /\ pc' = "archive" /\ todo = {}
      BY <2>4 DEF PrepareStreams
    <3>2. \A q \in Paths : /\ base[q] = None <=> base'[q] = None
                           /\ base[q] # None => base'[q].Type = base[q].Type
      BY <2>4, PrepareIs DEF SameFile
    <3> QED
      BY <2>1, <3>1, <3>2, FoundInKept
  <2>5. ASSUME NEW p \in Paths, pc = "archive", pc' = pc, Replaces(p), SameFile(base[p], base'[p])
        PROVE  \A q \in Paths : FoundIn(q)'
    <3>1. \A q \in Paths : /\ base[q] = None <=> base'[q] = None
                           /\ base[q] # None => base'[q].Type = base[q].Type
      BY <2>5 DEF Replaces, SameFile
    <3> QED
      BY <2>1, <2>5, <3>1, FoundInKept
  <2>6. CASE VisitsOne
    BY <2>5, <2>6, SkipIs, AddStreamIs, AddIs, KeepIs, VisitLeaves DEF VisitsOne
  <2>7. CASE WriteStream
    BY <2>5, <2>7, WriteIs
  <2>8. CASE Quiet
    BY <2>1, <2>8, FoundInKept DEF Quiet
  <2> QED
    BY <2>2, <2>3, <2>4, <2>6, <2>7, <2>8, CopySteps DEF ListSource, InCopy
<1> QED
  BY <1>1, <1>2, CopySteps

\* What was scanned carries nothing until it is visited.
LEMMA CopyFreshVisit ==
  ASSUME TypeInv, CopyFresh, InCopy, NEW p \in Paths, Visit(p), Replaces(p)
  PROVE  CopyFresh'
<1>1. \A q \in Paths : base'[q] # None /\ ~Visited(q)' => base[q] # None /\ ~Visited(q) /\ base'[q] = base[q]
  BY VisitedNow DEF Replaces
<1> QED
  BY <1>1 DEF CopyFresh, Unmarked

LEMMA CopyFreshNext ==
  ASSUME TypeInv, VisitInv, Phases, FirstScan, CopyFresh, [Next]_vars
  PROVE  CopyFresh'
<1> SUFFICES ASSUME InCopy' PROVE CopyFresh'
  BY DEF CopyFresh
<1>1. CASE base' = NoObjects
  BY <1>1 DEF CopyFresh, NoObjects
<1>2. CASE InCopy
  <2> USE <1>2
  <2>1. pc = "scan" => \A q \in Paths : base[q] # None => Unmarked(base[q])
    BY DEF CopyFresh, Visited
  <2>2. ASSUME NEW p \in Paths, ScanEntry(p) PROVE CopyFresh'
    <3>1. PICK g \in Guids \cup {None} : base' = [base EXCEPT ![p] = FsoFor(p, Found(p), g)]
      BY <2>2, ScanIs
    <3>2. Unmarked(FsoFor(p, Found(p), g))
      BY DEF FsoFor, Unmarked
    <3>3. \A q \in Paths : base'[q] = IF q = p THEN FsoFor(p, Found(p), g) ELSE base[q]
      BY <3>1 DEF TypeInv, TypeOK
    <3>4. pc = "scan"
      BY <2>2 DEF ScanEntry
    <3>5. \A q \in Paths : base'[q] # None => Unmarked(base'[q])
      BY <2>1, <3>2, <3>3, <3>4
    <3> QED
      BY <3>5 DEF CopyFresh, Unmarked
  <2>3. ASSUME NEW p \in Paths, RecalculateFileGuid(p) PROVE CopyFresh'
    <3>1. Replaces(p) /\ base'[p].Hashes = base[p].Hashes
          /\ base'[p].BackupStream = base[p].BackupStream
      BY <2>3, RecalculateIs DEF Replaces, Fso
    <3>2. pc = "scan"
      BY <2>3 DEF RecalculateFileGuid
    <3> QED
      BY <2>1, <3>1, <3>2 DEF CopyFresh, Unmarked, Replaces
  <2>4. CASE PrepareStreams
    <3>1. pc = "scan"
      BY <2>4 DEF PrepareStreams
    <3> QED
      BY <2>1, <2>4, <3>1, PrepareIs DEF CopyFresh, Unmarked
  <2>5. CASE VisitsOne
    BY <2>5, SkipIs, AddStreamIs, AddIs, KeepIs, CopyFreshVisit DEF VisitsOne
  <2>6. CASE WriteStream
    <3>1. PICK p \in Paths : /\ pc = "archive" /\ Len(out) < Len(streams)
                             /\ p = streams[Len(out) + 1].fso
                             /\ Replaces(p) /\ UNCHANGED <<pc, todo>>
      BY <2>6, WriteIs
    <3>2. Len(out) + 1 \in DOMAIN streams
      BY <3>1 DEF TypeInv, TypeOK
    <3>3. Visited(p)
      BY <3>1, <3>2 DEF VisitInv, StreamsOfFiles, IsStreamOf
    <3> QED
      BY <3>1, <3>3 DEF CopyFresh, Unmarked, Visited, Replaces
  <2>7. CASE Quiet
    BY <2>7 DEF Quiet, CopyFresh, Unmarked, Visited
  <2> QED
    BY <1>1, <2>2, <2>3, <2>4, <2>5, <2>6, <2>7, CopySteps
<1> QED
  BY <1>1, <1>2, CopySteps

\* Nothing refers to a later version.
LEMMA BelowAt ==
  ASSUME BaseBelow, NEW p \in Paths, pc # "closed", UNCHANGED count, Replaces(p),
         base'[p].LatestVersion <= count
  PROVE  BaseBelow'
BY DEF BaseBelow, Replaces

LEMMA BelowVisit ==
  ASSUME TypeInv, OldLoaded, VisitInv, BaseBelow, ArcBelow, VisitsOne
  PROVE  BaseBelow'
<1>1. PICK p \in Paths : SkipObject(p) \/ AddInitialStream(p) \/ AddChangedFile(p)
                         \/ KeepUnmodified(p)
  BY DEF VisitsOne
<1>2. Visit(p)
  BY <1>1 DEF SkipObject, AddInitialStream, AddChangedFile, KeepUnmodified
<1>3. pc = "archive" /\ UNCHANGED count /\ count \in Nat /\ p \in todo
  BY <1>2, VisitLeaves DEF TypeInv, TypeOK
<1>4. CASE SkipObject(p)
  <2>1. Replaces(p)
    BY <1>4, SkipIs
  <2>2. CASE Shares(base[p])
    <3>1. base'[p].LatestVersion = OwnerOf(base[p]).LatestVersion
      BY <1>4, <2>2, SkipIs
    <3>2. PICK q \in Paths : q = guids[base[p].FileSystemGuid] /\ base[q] # None
      BY <2>1, <2>2, RegisteredIs DEF Shares, Replaces, VisitInv, GuidsVisited, Visited
    <3> QED
      BY <1>3, <2>1, <3>1, <3>2, BelowAt DEF OwnerOf, BaseBelow
  <2>3. CASE ~Shares(base[p])
    <3>1. base'[p].LatestVersion = IF Eligible(base[p]) THEN count ELSE -1
      BY <1>4, <2>3, SkipIs
    <3>2. base'[p].LatestVersion <= count
      BY <1>3, <3>1
    <3> QED
      BY <1>3, <2>1, <3>2, BelowAt
  <2> QED
    BY <2>2, <2>3
<1>5. CASE AddInitialStream(p) \/ AddChangedFile(p)
  <2>1. Replaces(p) /\ base'[p].LatestVersion = count
    BY <1>5, AddStreamIs, AddIs
  <2> QED
    BY <1>3, <2>1, BelowAt
<1>6. CASE KeepUnmodified(p)
  <2>1. Replaces(p) /\ OldObject(p) # None /\ base'[p].LatestVersion = OldObject(p).LatestVersion
        /\ OldObject(p) \in StoredFso
    BY <1>6, KeepIs
  <2>2. count - 1 \in Stored /\ OldObject(p) = arc[count - 1].BaseObjects[p]
    BY <1>3, <2>1, OldObjectIs DEF Busy
  <2>3. OldObject(p).LatestVersion <= count - 1 /\ OldObject(p).LatestVersion \in Int
    BY <2>1, <2>2 DEF ArcBelow, StoredFso
  <2>4. base'[p].LatestVersion <= count
    BY <1>3, <2>1, <2>3
  <2> QED
    BY <1>3, <2>1, <2>4, BelowAt
<1> QED
  BY <1>1, <1>4, <1>5, <1>6

LEMMA BaseBelowNext ==
  ASSUME TypeInv, Phases, OldLoaded, VisitInv, BaseBelow, ArcBelow, [Next]_vars
  PROVE  BaseBelow'
<1> USE DEF settings, objects
<1>1. CASE UNCHANGED <<count, base>> /\ pc # "closed"
  BY <1>1 DEF BaseBelow
<1>2. CASE EndSession
  BY <1>2 DEF EndSession, BaseBelow
<1>3. CASE Open
  BY <1>3 DEF Open, BaseBelow, Phases, NoObjects
<1>4. ASSUME NEW p \in Paths, ScanEntry(p) PROVE BaseBelow'
  <2>1. PICK g \in Guids \cup {None} : base' = [base EXCEPT ![p] = FsoFor(p, Found(p), g)]
    BY <1>4, ScanIs
  <2>2. FsoFor(p, Found(p), g).LatestVersion = 0
    BY DEF FsoFor
  <2>3. \A q \in Paths : base'[q] = IF q = p THEN FsoFor(p, Found(p), g) ELSE base[q]
    BY <2>1 DEF TypeInv, TypeOK
  <2>4. pc = "scan" /\ count' = count /\ count \in Nat
    BY <1>4 DEF ScanEntry, TypeInv, TypeOK
  <2> QED
    BY <2>2, <2>3, <2>4 DEF BaseBelow
<1>5. ASSUME NEW p \in Paths, RecalculateFileGuid(p) PROVE BaseBelow'
  <2>1. Replaces(p) /\ base'[p].LatestVersion = base[p].LatestVersion
    BY <1>5, RecalculateIs DEF Replaces, Fso
  <2>2. pc = "scan" /\ count' = count
    BY <1>5 DEF RecalculateFileGuid
  <2> QED
    BY <2>1, <2>2 DEF BaseBelow, Replaces
<1>6. CASE PrepareStreams
  <2>1. pc = "scan" /\ count' = count
    BY <1>6 DEF PrepareStreams
  <2> QED
    BY <1>6, <2>1, PrepareIs DEF BaseBelow
<1>7. CASE VisitsOne
  BY <1>7, BelowVisit
<1>8. CASE WriteStream
  <2>1. PICK p \in Paths : /\ pc = "archive" /\ Replaces(p) /\ count' = count
                           /\ base'[p].LatestVersion = base[p].LatestVersion
    BY <1>8, WriteIs
  <2> QED
    BY <2>1 DEF BaseBelow, Replaces
<1>9. CASE Environment
  <2>1. UNCHANGED <<count, base, pc>>
    BY <1>9, EditIs, EditLeaves, RemoveLeaves
  <2> QED
    BY <2>1 DEF BaseBelow
<1>10. CASE UNCHANGED vars
  BY <1>10 DEF vars, BaseBelow
<1> QED
  BY <1>1, <1>2, <1>3, <1>4, <1>5, <1>6, <1>7, <1>8, <1>9, <1>10
     DEF Next, Backup, VisitsOne, BeginBackup, ListSource, ReuseBaseObjects, CommitArchive

LEMMA ArcBelowNext ==
  ASSUME TypeInv, BaseBelow, ArcBelow, [Next]_vars
  PROVE  ArcBelow'
<1>1. CASE UNCHANGED <<arc, truth>>
  BY <1>1 DEF ArcBelow, Stored
<1>2. ASSUME NEW v \in Versions, RemoveVersion(v) PROVE ArcBelow'
  BY <1>2, RemoveLeaves DEF ArcBelow
<1>3. CASE CommitArchive
  <2> SUFFICES ASSUME NEW v \in Stored', NEW p \in Paths, arc'[v].BaseObjects[p] # None
               PROVE  arc'[v].BaseObjects[p].LatestVersion <= v
    BY DEF ArcBelow
  <2>1. CASE v # count
    BY <1>3, <2>1, CommitIs DEF ArcBelow
  <2>2. CASE v = count
    <3>1. arc'[v] = NewArchive /\ pc = "archive"
      BY <1>3, <2>2, CommitIs
    <3> QED
      BY <2>2, <3>1, NewObject DEF BaseBelow
  <2> QED
    BY <2>1, <2>2
<1> QED
  BY <1>1, <1>2, <1>3, StoredChanges

-----------------------------------------------------------------------------
StreamsStay == \A i \in DOMAIN streams : i \in DOMAIN streams' /\ streams'[i] = streams[i]

ObjectsStay ==
  \A q \in Paths : /\ base'[q] = None <=> base[q] = None
                   /\ base[q] # None => /\ base'[q].Type = base[q].Type
                                        /\ base'[q].FileSystemGuid = base[q].FileSystemGuid

CopyStays ==
  /\ main.MappedBasePath # Live /\ UNCHANGED <<shadow, main, arc, count, excluded>>
  /\ StreamsStay

LEMMA CleanKept ==
  ASSUME ObjectsStay, UNCHANGED seen, NEW p \in Paths, base[p] # None
  PROVE  Clean(p)' <=> Clean(p)
<1>1. ASSUME NEW q \in Paths PROVE (Sharer(p, q)' <=> Sharer(p, q))
                                   /\ (Sharer(p, q) => (Linked(p, q)' <=> Linked(p, q)))
  BY DEF ObjectsStay, Sharer, Linked
<1> QED
  BY <1>1 DEF Clean

LEMMA CopyHashKept ==
  ASSUME CopyStays, NEW q \in Paths, CopyHash(q), base'[q] = base[q]
  PROVE  CopyHash(q)'
<1>1. ReadAt(main.MappedBasePath, q)' = ReadAt(main.MappedBasePath, q)
  BY ReadOfKept DEF CopyStays, ReadOf
<1>2. Stored' = Stored /\ \A n, id : StreamData(n, id)' = StreamData(n, id)
  BY DEF CopyStays, Stored, StreamData
<1>3. HashRight(q) => HashRight(q)'
  BY <1>1, <1>2 DEF HashRight, CopyStays, StreamsStay
<1> QED
  BY <1>3 DEF CopyHash, HasData, CopyStays

LEMMA CopyRightKept ==
  ASSUME CopyStays, ObjectsStay, shadow = None \/ seen' = seen,
         NEW p \in Paths, CopyRight(p), base[p] # None,
         base'[p].LatestVersion = base[p].LatestVersion,
         base'[p].StreamUniqueId = base[p].StreamUniqueId,
         base'[p].BackupStream = base[p].BackupStream
  PROVE  CopyRight(p)'
<1> SUFFICES ASSUME p \notin excluded, IsFile(Found(p)) PROVE CopyRight(p)'
  BY ReadOfKept DEF CopyStays, CopyRight
<1>1. shadow # None
  BY DEF Found, EntryAt, Reachable, IsFile, CopyStays
<1>2. Clean(p)' <=> Clean(p)
  BY <1>1, CleanKept
<1>3. Stored' = Stored
      /\ StreamData(base[p].LatestVersion, base[p].StreamUniqueId)'
           = StreamData(base[p].LatestVersion, base[p].StreamUniqueId)
  BY DEF CopyStays, Stored, StreamData
<1>4. \A q \in Paths : /\ ReadOf(q)' = ReadOf(q)
                       /\ \A id : Streamed(q, id) => Streamed(q, id)'
  BY ReadOfKept DEF CopyStays, StreamsStay, Streamed
<1>5. base[p].LatestVersion >= 0 /\ UNCHANGED <<count, excluded>>
  BY DEF CopyRight, CopyStays
<1>6. CASE ~Clean(p)
  BY <1>2, <1>5, <1>6 DEF CopyRight
<1>7. CASE Clean(p) /\ base[p].BackupStream = "Full"
  <2>1. PICK q \in Paths : Streamed(q, base[p].StreamUniqueId) /\ ReadOf(q) = ReadOf(p)
    BY <1>7 DEF CopyRight
  <2>2. \E id : id = base[p].StreamUniqueId /\ Streamed(q, id) /\ Streamed(q, id)'
    BY <1>4, <2>1
  <2>3. Streamed(q, base[p].StreamUniqueId)'
    BY <2>2 DEF Streamed
  <2> QED
    BY <1>4, <1>5, <1>7, <2>1, <2>3 DEF CopyRight
<1>8. CASE Clean(p) /\ base[p].BackupStream # "Full"
  <2>1. /\ base[p].LatestVersion < count
        /\ base[p].LatestVersion \in Stored =>
             StreamData(base[p].LatestVersion, base[p].StreamUniqueId) = {ReadOf(p)}
    BY <1>8 DEF CopyRight
  <2> QED
    BY <1>3, <1>4, <1>5, <1>8, <2>1 DEF CopyRight
<1> QED
  BY <1>6, <1>7, <1>8

\* What a visit leaves alone.
LEMMA CopyVisit ==
  ASSUME TypeInv, InCopy, NEW p \in Paths, Visit(p), Replaces(p), SameFile(base[p], base'[p]),
         StreamsStay
  PROVE  CopyStays /\ ObjectsStay /\ seen' = seen
BY VisitLeaves DEF InCopy, CopyStays, ObjectsStay, Replaces, SameFile

\* The object at hand, before it is visited.
LEMMA CopyAtHand ==
  ASSUME TypeInv, InCopy, CopyFresh, NEW p \in Paths, Visit(p)
  PROVE  /\ pc = "archive" /\ p \in todo /\ base[p] # None /\ base[p] \in Fso
         /\ base[p].Hashes = None /\ base[p].BackupStream = "None"
<1>1. pc = "archive" /\ p \in todo /\ base[p] # None /\ base[p] \in Fso
  BY VisitLeaves DEF TypeInv, TypeOK, WellFormed
<1> QED
  BY <1>1 DEF CopyFresh, Unmarked, Visited

LEMMA StreamsGrow ==
  ASSUME TypeInv, NEW s, streams' = Append(streams, s)
  PROVE  StreamsStay /\ \E i \in DOMAIN streams' : streams'[i] = s
BY AppendedStreams DEF StreamsStay

LEMMA CopyHashSkip ==
  ASSUME TypeInv, InCopy, CopyFresh, NEW p \in Paths, SkipObject(p)
  PROVE  CopyHash(p)' /\ StreamsStay
BY SkipIs, CopyAtHand DEF CopyHash, StreamsStay

LEMMA CopyHashAdd ==
  ASSUME TypeInv, InCopy, CopyFresh, NEW p \in Paths, AddInitialStream(p) \/ AddChangedFile(p)
  PROVE  CopyHash(p)' /\ StreamsStay
<1>1. Visit(p) /\ ShouldBeAdded(base[p])
  BY AddStreamIs
<1>2. base[p] \in Fso /\ base[p].Hashes = None /\ main.MappedBasePath \in Locs
      /\ count \in Nat /\ UNCHANGED <<shadow, main>>
  BY <1>1, CopyAtHand, VisitedObject, VisitLeaves DEF TypeInv, TypeOK
<1>3. PICK h \in Contents \cup {None} :
        AddFullStream(p, h) /\ (h = None \/ h = ReadOf(p))
  <2>1. HashOf(p, base[p]) = ReadOf(p) /\ ReadOf(p) \in Contents \cup {None}
    BY <1>2, EntryType DEF HashOf, ReadOf, TypeInv
  <2> QED
    BY <1>2, <2>1 DEF AddInitialStream, AddChangedFile
<1>4. /\ Replaces(p) /\ SameFile(base[p], base'[p])
      /\ base'[p].Hashes = h /\ base'[p].BackupStream = "Full" /\ base'[p].LatestVersion = count
      /\ streams' = Append(streams, [UniqueId |-> nextId, fso |-> p])
  BY <1>1, <1>3, AddIs
<1>5. StreamsStay /\ \E i \in DOMAIN streams' : streams'[i].fso = p
  BY <1>4, StreamsGrow
<1>6. ReadAt(main.MappedBasePath, p)' = ReadOf(p)
  BY <1>2, ReadOfKept DEF InCopy, ReadOf
<1>7. HasData(base'[p])
  BY <1>1, <1>2, <1>4 DEF HasData, Replaces, SameFile, ShouldBeAdded, Eligible
<1> QED
  BY <1>3, <1>4, <1>5, <1>6, <1>7 DEF CopyHash, HashRight, HasData

\* The object of the latest version that a copy's object is compared with.
LEMMA CopyOld ==
  ASSUME TypeInv, OldLoaded, ArcBelow, ArcCopies, Firsts, InCopy, NEW p \in Paths,
         OldObject(p) # None, OldObject(p).Hashes # None
  PROVE  HashIsData(OldObject(p)) /\ OldObject(p).LatestVersion < count
<1>1. /\ count > 0 /\ count - 1 \in Stored /\ count \in Nat
      /\ OldObject(p) = arc[count - 1].BaseObjects[p] /\ OldObject(p) \in StoredFso
  BY OldObjectIs DEF InCopy, Busy, TypeInv, TypeOK
<1>2. arc[count - 1].main.MappedBasePath # Live
  <2>1. oldMain.MappedBasePath = main.MappedBasePath
    BY DEF OldObject
  <2> QED
    BY <1>1, <2>1 DEF OldLoaded, InCopy, Busy
<1>3. HashIsData(OldObject(p))
  BY <1>1, <1>2 DEF ArcCopies
<1>4. OldObject(p).LatestVersion <= count - 1 /\ OldObject(p).LatestVersion \in Int
  BY <1>1 DEF ArcBelow, StoredFso
<1> QED
  BY <1>1, <1>3, <1>4

\* The data an unmodified object refers to.
LEMMA KeptData ==
  ASSUME TypeInv, VisitOrder, InCopy, CopyFresh, NEW p \in Paths, KeepUnmodified(p)
  PROVE  /\ base'[p].LatestVersion = OldObject(p).LatestVersion
         /\ base'[p].BackupStream # "Full" /\ UNCHANGED streams /\ Stored' = Stored
         /\ base'[p].Hashes = OldObject(p).Hashes
         /\ StreamData(base[p].LatestVersion, base[p].StreamUniqueId)'
              = StreamData(OldObject(p).LatestVersion, OldObject(p).StreamUniqueId)
<1> DEFINE o == OldObject(p)
<1>1. /\ Visit(p) /\ o # None /\ base'[p].LatestVersion = o.LatestVersion
      /\ base'[p].StreamUniqueId = base[p].StreamUniqueId
      /\ base'[p].BackupStream = base[p].BackupStream /\ UNCHANGED streams
      /\ base'[p].Hashes = IF o.Hashes = None THEN base[p].Hashes ELSE o.Hashes
  BY KeepIs
<1>2. /\ pc = "archive" /\ p \in todo /\ UNCHANGED arc
      /\ base[p].Hashes = None /\ base[p].BackupStream = "None"
  BY <1>1, CopyAtHand, VisitLeaves
<1>3. base[p].StreamUniqueId = o.StreamUniqueId
  BY <1>1, <1>2 DEF VisitOrder, IdsHanded
<1> HIDE DEF o
<1>4. StreamData(base[p].LatestVersion, base[p].StreamUniqueId)'
        = StreamData(o.LatestVersion, o.StreamUniqueId)
  BY <1>1, <1>2, <1>3 DEF StreamData
<1> QED
  BY <1>1, <1>2, <1>4 DEF o, Stored

LEMMA CopyHashKeep ==
  ASSUME TypeInv, VisitOrder, OldLoaded, ArcBelow, ArcCopies, Firsts, InCopy, CopyFresh,
         NEW p \in Paths, KeepUnmodified(p)
  PROVE  CopyHash(p)' /\ StreamsStay
<1> DEFINE o == OldObject(p)
<1>1. /\ Replaces(p) /\ SameFile(base[p], base'[p]) /\ ShouldBeAdded(base[p])
      /\ Visit(p) /\ o # None
  BY KeepIs
<1>2. /\ base'[p].LatestVersion = o.LatestVersion /\ base'[p].BackupStream # "Full"
      /\ UNCHANGED streams /\ Stored' = Stored /\ base'[p].Hashes = o.Hashes
      /\ StreamData(base[p].LatestVersion, base[p].StreamUniqueId)'
           = StreamData(o.LatestVersion, o.StreamUniqueId)
  BY KeptData
<1>3. o.Hashes # None => HashIsData(o) /\ o.LatestVersion < count
  BY <1>1, CopyOld
<1> HIDE DEF o
<1>4. UNCHANGED count
  BY <1>1, VisitLeaves
<1>5. o.Hashes # None => HasData(base'[p])
  BY <1>1, <1>2, <1>3 DEF HashIsData, HasData, Replaces, SameFile, ShouldBeAdded, Eligible
<1>6. o.Hashes # None => HashRight(p)'
  BY <1>2, <1>3 DEF HashIsData, HashRight
<1> QED
  BY <1>2, <1>3, <1>4, <1>5, <1>6 DEF CopyHash, HasData, StreamsStay

LEMMA CopyHashesNext ==
  ASSUME FirstsStay, TypeInv, Phases, VisitInv, NumberFree, FirstScan, OldLoaded, VisitOrder,
         OneBackup, CopyFresh, ArcBelow, ArcCopies, CopyHashes, [Next]_vars
  PROVE  CopyHashes'
<1> SUFFICES ASSUME Firsts', InCopy' PROVE \A q \in Paths : Visited(q)' => CopyHash(q)'
  BY DEF CopyHashes
<1>1. Firsts
  BY FirstsBack
<1>2. CASE ListSource \/ PrepareStreams
  <2>1. \A q \in Paths : ~Visited(q)'
    BY <1>2, PrepareIs DEF ListSource, PrepareStreams, Visited
  <2> QED
    BY <2>1
<1>3. CASE InCopy /\ UNCHANGED <<shadow, main, count, excluded, arc>>
  <2> USE <1>3
  <2>1. \A q \in Paths : Visited(q) => CopyHash(q)
    BY <1>1 DEF CopyHashes
  <2>2. StreamsStay => CopyStays
    BY DEF InCopy, CopyStays
  <2>3. ASSUME NEW p \in Paths, ScanEntry(p) \/ RecalculateFileGuid(p)
        PROVE  \A q \in Paths : Visited(q)' => CopyHash(q)'
    BY <2>3 DEF ScanEntry, RecalculateFileGuid, Visited
  <2>4. ASSUME NEW p \in Paths, Visit(p), Replaces(p), StreamsStay, CopyHash(p)'
        PROVE  \A q \in Paths : Visited(q)' => CopyHash(q)'
    <3> SUFFICES ASSUME NEW q \in Paths, q # p, Visited(q)' PROVE CopyHash(q)'
      BY <2>4
    <3>1. Visited(q) /\ base'[q] = base[q]
      BY <2>4, VisitedNow
    <3> QED
      BY <2>1, <2>2, <2>4, <3>1, CopyHashKept
  <2>5. CASE VisitsOne
    <3>1. PICK p \in Paths : SkipObject(p) \/ AddInitialStream(p) \/ AddChangedFile(p)
                             \/ KeepUnmodified(p)
      BY <2>5 DEF VisitsOne
    <3>2. Visit(p) /\ Replaces(p)
      BY <3>1, SkipIs, AddStreamIs, AddIs, KeepIs
    <3>3. CopyHash(p)' /\ StreamsStay
      BY <1>1, <3>1, CopyHashSkip, CopyHashAdd, CopyHashKeep
    <3> QED
      BY <2>4, <3>2, <3>3
  <2>6. CASE WriteStream
    <3>1. PICK p \in Paths, c \in Contents :
            /\ pc = "archive" /\ Len(out) < Len(streams)
            /\ p = streams[Len(out) + 1].fso /\ c = ReadAt(main.MappedBasePath, p)
            /\ Replaces(p) /\ SameFile(base[p], base'[p])
            /\ base'[p].LatestVersion = base[p].LatestVersion
            /\ base'[p].StreamUniqueId = base[p].StreamUniqueId
            /\ base'[p].BackupStream = base[p].BackupStream
            /\ base'[p].Hashes = IF base[p].Hashes = None THEN c ELSE base[p].Hashes
            /\ UNCHANGED <<pc, todo, streams>>
      BY <2>6, WriteIs
    <3>2. Len(out) + 1 \in DOMAIN streams /\ count \in Nat
      BY <3>1 DEF TypeInv, TypeOK
    <3>3. /\ Visited(p) /\ base[p].BackupStream = "Full" /\ base[p].LatestVersion = count
          /\ base[p].Type \in FileTypes
      BY <3>1, <3>2 DEF VisitInv, StreamsOfFiles, IsStreamOf
    <3>4. StreamsStay /\ CopyStays
      BY <2>2, <3>1 DEF StreamsStay
    <3>5. ReadAt(main.MappedBasePath, p)' = ReadAt(main.MappedBasePath, p)
      BY ReadOfKept DEF InCopy, ReadOf
    <3>6. HashRight(p)'
      <4>1. base[p].Hashes # None => HashRight(p)
        BY <2>1, <3>3 DEF CopyHash
      <4>2. \E i \in DOMAIN streams : streams[i].fso = p
        BY <3>1, <3>2
      <4> QED
        BY <3>1, <3>2, <3>3, <3>5, <4>1, <4>2 DEF HashRight
    <3>7. CopyHash(p)'
      BY <3>1, <3>2, <3>3, <3>6 DEF CopyHash, HasData, Replaces, SameFile
    <3>8. ASSUME NEW q \in Paths, q # p, Visited(q)' PROVE CopyHash(q)'
      <4>1. Visited(q) /\ base'[q] = base[q]
        BY <3>1, <3>8 DEF Visited, Replaces
      <4> QED
        BY <2>1, <3>4, <4>1, CopyHashKept
    <3> QED
      BY <3>7, <3>8
  <2>7. CASE Quiet
    <3>1. StreamsStay /\ CopyStays /\ UNCHANGED <<base, pc, todo>>
      BY <2>2, <2>7 DEF Quiet, StreamsStay
    <3> QED
      BY <2>1, <3>1, CopyHashKept DEF Visited
  <2> QED
    BY <1>2, <2>3, <2>5, <2>6, <2>7, CopySteps
<1> QED
  BY <1>2, <1>3, CopySteps

\* The object that shares its stream with the hardlink p, if neither clashes.
LEMMA OwnerClean ==
  ASSUME NEW p \in Paths, NEW q \in Paths, q # p, Clean(p), Sharer(p, q)
  PROVE  /\ base[p].Type = "FileHardlink" /\ seen[q] = seen[p] /\ Clean(q)
<1>1. /\ base[p].Type = "FileHardlink" /\ base[q].Type = "FileHardlink" /\ seen[q] = seen[p]
  BY DEF Clean, Linked
<1>2. ASSUME NEW r \in Paths \ {q}, Sharer(q, r) PROVE Linked(q, r)
  <2>1. CASE r = p
    BY <1>1, <2>1 DEF Linked
  <2>2. CASE r # p
    <3>1. Linked(p, r)
      BY <1>2, <2>2 DEF Clean, Sharer
    <3> QED
      BY <1>1, <3>1 DEF Linked
  <2> QED
    BY <2>1, <2>2
<1> QED
  BY <1>1, <1>2 DEF Clean

LEMMA CopyRightSkip ==
  ASSUME TypeInv, ExclusionsKept, VisitInv, VisitOrder, CopySeen, InCopy, CopyListed, CopyFresh,
         \A r \in Paths : Visited(r) => CopyRight(r), NEW p \in Paths, SkipObject(p)
  PROVE  CopyRight(p)'
<1>1. /\ Visit(p) /\ Replaces(p) /\ SameFile(base[p], base'[p]) /\ ~ShouldBeAdded(base[p])
      /\ UNCHANGED streams
  BY SkipIs
<1>2. /\ pc = "archive" /\ p \in todo /\ base[p] # None /\ base[p] \in Fso
      /\ base[p].BackupStream = "None" /\ count \in Nat
  BY <1>1, CopyAtHand DEF TypeInv, TypeOK
<1>3. StreamsStay
  BY <1>1 DEF StreamsStay
<1>4. CopyStays /\ ObjectsStay /\ seen' = seen
  BY <1>1, <1>3, CopyVisit
<1>5. \A r \in Paths : Found(r)' = Found(r) /\ ReadOf(r)' = ReadOf(r)
  BY <1>4, ReadOfKept DEF CopyStays
<1> SUFFICES ASSUME p \notin excluded, IsFile(Found(p)) PROVE CopyRight(p)'
  BY <1>4, <1>5 DEF CopyRight, CopyStays
<1>6. Eligible(base[p]) /\ HasKnownGuid(base[p])
  <2>1. base[p].Type \in FileTypes
    BY <1>2 DEF CopyListed, FoundIn
  <2> QED
    BY <1>1, <1>2, <2>1 DEF Eligible, ExclusionsKept, ShouldBeAdded
<1>7. PICK q \in Paths : /\ q = guids[base[p].FileSystemGuid] /\ q < p /\ Visited(q)
                         /\ Eligible(base[q]) /\ base[q] # None
                         /\ base[q].FileSystemGuid = base[p].FileSystemGuid
  BY <1>2, <1>6, OwnerIs
<1>8. q # p /\ Sharer(p, q)
  <2>1. p \in Int /\ q \in Int
    BY BackupEngineAssumption DEF Paths
  <2> QED
    BY <1>6, <1>7, <2>1 DEF Sharer, HasKnownGuid
<1>9. Clean(p)' <=> Clean(p)
  BY <1>2, <1>4, CleanKept
<1>10. UNCHANGED <<count, excluded>>
  BY <1>4 DEF CopyStays
<1>11. CopyRight(q) /\ q \notin excluded /\ IsFile(Found(q))
  BY <1>7 DEF Eligible, ExclusionsKept, CopyListed, FoundIn
<1>12. CASE ~Shares(base[p])
  <2>1. base'[p].LatestVersion = count
    BY <1>6, <1>12, SkipIs
  <2>2. ~Clean(p)
    BY <1>6, <1>8, <1>12, OwnerClean DEF Shares
  <2> QED
    BY <1>2, <1>9, <1>10, <2>1, <2>2 DEF CopyRight
<1>13. CASE Shares(base[p])
  <2>1. /\ base'[p].LatestVersion = base[q].LatestVersion
        /\ base'[p].StreamUniqueId = base[q].StreamUniqueId
        /\ base'[p].BackupStream = IF base[q].BackupStream = "Full" THEN "Full"
                                   ELSE "Unmodified"
    BY <1>7, <1>13, SkipIs DEF OwnerOf
  <2>2. base'[p].LatestVersion >= 0
    BY <1>11, <2>1 DEF CopyRight
  <2> SUFFICES ASSUME Clean(p) PROVE CopyRight(p)'
    BY <1>9, <2>2 DEF CopyRight
  <2>3. Clean(q) /\ ReadOf(q) = ReadOf(p)
    <3>1. Clean(q) /\ seen[q] = seen[p]
      BY <1>8, OwnerClean
    <3>2. seen[p] = {ReadOf(p)} /\ seen[q] = {ReadOf(q)}
      BY <1>11, CopyIs DEF InCopy, Busy
    <3> QED
      BY <3>1, <3>2
  <2>4. CASE base[q].BackupStream = "Full"
    <3>1. base[q].LatestVersion = count
          /\ \E r \in Paths : Streamed(r, base[q].StreamUniqueId) /\ ReadOf(r) = ReadOf(q)
      BY <1>11, <2>3, <2>4 DEF CopyRight
    <3>2. PICK r \in Paths : Streamed(r, base[q].StreamUniqueId) /\ ReadOf(r) = ReadOf(q)
      BY <3>1
    <3>3. Streamed(r, base[p].StreamUniqueId)'
      BY <1>1, <2>1, <3>2 DEF Streamed
    <3>4. ReadOf(r)' = ReadOf(p)'
      BY <1>5, <2>3, <3>2
    <3> QED
      BY <1>10, <2>1, <2>2, <2>4, <3>1, <3>3, <3>4 DEF CopyRight
  <2>5. CASE base[q].BackupStream # "Full"
    <3>1. /\ base[q].LatestVersion < count
          /\ base[q].LatestVersion \in Stored =>
               StreamData(base[q].LatestVersion, base[q].StreamUniqueId) = {ReadOf(p)}
      BY <1>11, <2>3, <2>5 DEF CopyRight
    <3>2. Stored' = Stored
          /\ StreamData(base[p].LatestVersion, base[p].StreamUniqueId)'
               = StreamData(base[q].LatestVersion, base[q].StreamUniqueId)
      BY <1>4, <2>1 DEF CopyStays, Stored, StreamData
    <3> QED
      BY <1>5, <1>10, <2>1, <2>2, <2>5, <3>1, <3>2 DEF CopyRight
  <2> QED
    BY <2>4, <2>5
<1> QED
  BY <1>12, <1>13

LEMMA CopyRightAdd ==
  ASSUME TypeInv, InCopy, NEW p \in Paths, AddInitialStream(p) \/ AddChangedFile(p)
  PROVE  CopyRight(p)'
<1>1. /\ Visit(p) /\ base'[p].LatestVersion = count
      /\ base'[p].StreamUniqueId = nextId /\ base'[p].BackupStream = "Full"
      /\ streams' = Append(streams, [UniqueId |-> nextId, fso |-> p])
  BY AddStreamIs, AddIs
<1>2. \E i \in DOMAIN streams' : streams'[i].UniqueId = nextId /\ streams'[i].fso = p
  BY <1>1, StreamsGrow
<1>3. Streamed(p, base[p].StreamUniqueId)'
  BY <1>1, <1>2 DEF Streamed
<1>4. count \in Nat /\ UNCHANGED count
  BY <1>1, VisitLeaves DEF TypeInv, TypeOK
<1> QED
  BY <1>1, <1>3, <1>4 DEF CopyRight

LEMMA CopyRightKeep ==
  ASSUME TypeInv, VisitOrder, OldLoaded, ByHash, ArcBelow, ArcCopies, Firsts, InCopy, CopyFresh,
         NEW p \in Paths, KeepUnmodified(p)
  PROVE  CopyRight(p)'
<1> DEFINE o == OldObject(p)
<1>1. /\ Visit(p) /\ o # None
      /\ NeedsHash(base[p], o) => HashFor(p) # None
      /\ ~FileHasChanged(base[p], o, HashFor(p))
  BY KeepIs
<1>2. /\ base'[p].LatestVersion = o.LatestVersion /\ base'[p].BackupStream # "Full"
      /\ Stored' = Stored
      /\ StreamData(base[p].LatestVersion, base[p].StreamUniqueId)'
           = StreamData(o.LatestVersion, o.StreamUniqueId)
  BY KeptData
<1>3. base[p].Hashes = None /\ UNCHANGED <<count, shadow, main>>
  BY <1>1, CopyAtHand, VisitLeaves
<1>4. o.Hashes # None /\ HashFor(p) = o.Hashes /\ NeedsHash(base[p], o)
  BY <1>1 DEF ByHash, Criterium, FileHasChanged, NeedsHash
<1>5. HashFor(p) = ReadOf(p)
  BY <1>3, <1>4 DEF HashFor, HashOf, ReadOf
<1>6. HashIsData(o) /\ o.LatestVersion < count
  BY <1>1, <1>4, CopyOld
<1> HIDE DEF o
<1>7. ReadOf(p)' = ReadOf(p)
  BY <1>3, ReadOfKept DEF InCopy
<1> QED
  BY <1>2, <1>3, <1>4, <1>5, <1>6, <1>7 DEF CopyRight, HashIsData, HasData

LEMMA CopyIsRightNext ==
  ASSUME FirstsStay, TypeInv, Phases, ExclusionsKept, VisitInv, NumberFree, FirstScan, OldLoaded,
         VisitOrder, ByHash, OneBackup, CopySeen, CopyListed, CopyFresh, ArcBelow, ArcCopies,
         CopyIsRight, [Next]_vars
  PROVE  CopyIsRight'
<1> SUFFICES ASSUME Firsts', InCopy' PROVE \A q \in Paths : Visited(q)' => CopyRight(q)'
  BY DEF CopyIsRight
<1>1. Firsts
  BY FirstsBack
<1>2. CASE ListSource \/ PrepareStreams
  <2>1. \A q \in Paths : ~Visited(q)'
    BY <1>2, PrepareIs DEF ListSource, PrepareStreams, Visited
  <2> QED
    BY <2>1
<1>3. CASE InCopy /\ UNCHANGED <<shadow, main, count, excluded, arc>>
  <2> USE <1>3
  <2>1. \A q \in Paths : Visited(q) => CopyRight(q)
    BY <1>1 DEF CopyIsRight
  <2>2. StreamsStay => CopyStays
    BY DEF InCopy, CopyStays
  <2>3. ASSUME NEW p \in Paths, ScanEntry(p) \/ RecalculateFileGuid(p)
        PROVE  \A q \in Paths : Visited(q)' => CopyRight(q)'
    BY <2>3 DEF ScanEntry, RecalculateFileGuid, Visited
  <2>4. CASE VisitsOne
    <3>1. PICK p \in Paths : SkipObject(p) \/ AddInitialStream(p) \/ AddChangedFile(p)
                             \/ KeepUnmodified(p)
      BY <2>4 DEF VisitsOne
    <3>2. Visit(p) /\ Replaces(p) /\ SameFile(base[p], base'[p])
      BY <3>1, SkipIs, AddStreamIs, AddIs, KeepIs
    <3>3. StreamsStay
      BY <1>1, <3>1, CopyHashSkip, CopyHashAdd, CopyHashKeep
    <3>4. CopyRight(p)'
      BY <1>1, <2>1, <3>1, CopyRightSkip, CopyRightAdd, CopyRightKeep
    <3> SUFFICES ASSUME NEW q \in Paths, q # p, Visited(q)' PROVE CopyRight(q)'
      BY <3>4
    <3>5. CopyStays /\ ObjectsStay /\ seen' = seen
      BY <3>2, <3>3, CopyVisit
    <3>6. Visited(q) /\ base'[q] = base[q] /\ base[q] # None
      BY <3>2, VisitedNow DEF Visited
    <3> QED
      BY <2>1, <3>5, <3>6, CopyRightKept
  <2>5. CASE WriteStream
    <3>1. PICK p \in Paths :
            /\ Replaces(p) /\ SameFile(base[p], base'[p])
            /\ base'[p].LatestVersion = base[p].LatestVersion
            /\ base'[p].StreamUniqueId = base[p].StreamUniqueId
            /\ base'[p].BackupStream = base[p].BackupStream
            /\ UNCHANGED <<pc, todo, streams, seen>>
      BY <2>5, WriteIs
    <3>2. CopyStays /\ ObjectsStay
      BY <2>2, <3>1 DEF StreamsStay, ObjectsStay, Replaces, SameFile
    <3> SUFFICES ASSUME NEW q \in Paths, Visited(q)' PROVE CopyRight(q)'
      OBVIOUS
    <3>3. /\ Visited(q) /\ base[q] # None
          /\ base'[q].LatestVersion = base[q].LatestVersion
          /\ base'[q].StreamUniqueId = base[q].StreamUniqueId
          /\ base'[q].BackupStream = base[q].BackupStream
      BY <3>1 DEF Visited, Replaces
    <3> QED
      BY <2>1, <3>1, <3>2, <3>3, CopyRightKept
  <2>6. CASE Quiet
    <3>1. CopyStays /\ ObjectsStay /\ UNCHANGED <<base, pc, todo>> /\ (shadow = None \/ seen' = seen)
      BY <2>2, <2>6 DEF Quiet, StreamsStay, ObjectsStay
    <3> SUFFICES ASSUME NEW q \in Paths, Visited(q)' PROVE CopyRight(q)'
      OBVIOUS
    <3>2. Visited(q) /\ base[q] # None
      BY <3>1 DEF Visited
    <3> QED
      BY <2>1, <3>1, <3>2, CopyRightKept
  <2> QED
    BY <1>2, <2>3, <2>4, <2>5, <2>6, CopySteps
<1> QED
  BY <1>2, <1>3, CopySteps

\* The data written are those of the copy.
LEMMA CopyOutKept ==
  ASSUME TypeInv, StreamsInOrder, OutNow, main.MappedBasePath # Live,
         UNCHANGED <<shadow, main, out>>, StreamsStay
  PROVE  OutNow'
<1> SUFFICES ASSUME NEW i \in DOMAIN out
    PROVE  out[i].data = ReadAt(main.MappedBasePath, streams[i].fso)'
  BY DEF OutNow
<1>1. i \in DOMAIN streams
  BY DEF StreamsInOrder, TypeInv, TypeOK
<1>2. PICK p \in Paths : p = streams[i].fso
  BY <1>1, StreamOf
<1>3. streams'[i].fso = p /\ out[i].data = ReadOf(p)
  BY <1>1, <1>2 DEF StreamsStay, OutNow, ReadOf
<1>4. ReadOf(p)' = ReadOf(p)
  BY ReadOfKept
<1> QED
  BY <1>3, <1>4 DEF ReadOf, ReadAt

LEMMA CopyOutNext ==
  ASSUME TypeInv, Phases, FirstScan, StreamsInOrder, StreamsInOrder', InCopy => OutNow,
         [Next]_vars, InCopy'
  PROVE  OutNow'
<1>1. CASE pc' # "archive"
  BY <1>1 DEF StreamsInOrder, OutNow
<1>2. CASE PrepareStreams
  BY <1>2 DEF PrepareStreams, pending, StreamsInOrder, OutNow
<1>3. CASE InCopy /\ UNCHANGED <<shadow, main>>
  <2> USE <1>3
  <2>1. main.MappedBasePath # Live /\ OutNow
    BY DEF InCopy
  <2>2. CASE VisitsOne
    <3>1. PICK p \in Paths : SkipObject(p) \/ AddInitialStream(p) \/ AddChangedFile(p)
                             \/ KeepUnmodified(p)
      BY <2>2 DEF VisitsOne
    <3>2. Visit(p)
      BY <3>1 DEF SkipObject, AddInitialStream, AddChangedFile, KeepUnmodified
    <3>3. StreamsStay
      <4>1. CASE SkipObject(p) \/ KeepUnmodified(p)
        BY <4>1, SkipIs, KeepIs DEF StreamsStay
      <4>2. CASE AddInitialStream(p) \/ AddChangedFile(p)
        BY <4>2, AddStreamIs, AddIs, StreamsGrow
      <4> QED
        BY <3>1, <4>1, <4>2
    <3> QED
      BY <2>1, <3>2, <3>3, VisitLeaves, CopyOutKept
  <2>3. CASE WriteStream
    <3>1. PICK p \in Paths, c \in Contents :
            /\ p = streams[Len(out) + 1].fso /\ c = ReadOf(p)
            /\ out' = Append(out, [StreamId |-> streams[Len(out) + 1].UniqueId, data |-> c])
            /\ Len(out) < Len(streams) /\ UNCHANGED streams
      BY <2>3, WriteIs DEF ReadOf
    <3>2. out \in Seq(Written) /\ streams \in Seq(Stream)
      BY DEF TypeInv, TypeOK
    <3>3. /\ DOMAIN out' = 1..(Len(out) + 1) /\ DOMAIN out = 1..Len(out) /\ Len(out) \in Nat
          /\ \A i \in DOMAIN out : out'[i] = out[i]
          /\ out'[Len(out) + 1].data = c
          /\ \A i \in DOMAIN out' : i \in DOMAIN streams
      BY <3>1, <3>2
    <3>4. ASSUME NEW i \in DOMAIN out'
          PROVE  out'[i].data = ReadAt(main.MappedBasePath, streams[i].fso)'
      <4>1. PICK q \in Paths : q = streams[i].fso
        BY <3>3, StreamOf
      <4>2. out'[i].data = ReadOf(q)
        <5>1. CASE i \in DOMAIN out
          BY <2>1, <3>3, <4>1, <5>1 DEF OutNow, ReadOf
        <5>2. CASE i = Len(out) + 1
          BY <3>1, <3>3, <4>1, <5>2
        <5> QED
          BY <3>3, <5>1, <5>2
      <4>3. ReadOf(q)' = ReadOf(q) /\ streams'[i].fso = q
        BY <2>1, <3>1, <4>1, ReadOfKept
      <4> QED
        BY <4>2, <4>3 DEF ReadOf, ReadAt
    <3> QED
      BY <3>4 DEF OutNow
  <2>4. CASE Quiet
    BY <2>1, <2>4, CopyOutKept DEF Quiet, StreamsStay
  <2> QED
    BY <1>1, <1>2, <2>2, <2>3, <2>4, CopySteps DEF ListSource, ScanEntry, RecalculateFileGuid
<1> QED
  BY <1>1, <1>3, CopySteps DEF ListSource

-----------------------------------------------------------------------------
LEMMA StoredBefore ==
  ASSUME TypeInv, [Next]_vars, NEW v \in Stored'
  PROVE  \/ v \in Stored /\ arc'[v] = arc[v] /\ truth'[v] = truth[v]
         \/ CommitArchive /\ v = count
<1>1. CASE UNCHANGED <<arc, truth>>
  BY <1>1 DEF Stored
<1> QED
  BY <1>1, StoredChanges, RemoveLeaves, CommitIs

\* The data an older version refers to stay: its numbers are not given again.
LEMMA OlderData ==
  ASSUME TypeInv, NumberFree, ArcBelow, [Next]_vars, Firsts', NEW v \in Stored, NEW p \in Paths,
         arc[v].BaseObjects[p] # None,
         NEW n \in Stored', n = arc[v].BaseObjects[p].LatestVersion
  PROVE  n \in Stored /\ \A id : StreamData(n, id)' = StreamData(n, id)
<1>1. n <= v
  BY DEF ArcBelow
<1>2. ~(CommitArchive /\ n = count)
  <2> SUFFICES ASSUME CommitArchive, n = count PROVE FALSE
    OBVIOUS
  <2>1. v < count
    BY FirstsCommit
  <2>2. v \in Int /\ count \in Nat
    BY BackupEngineAssumption DEF Stored, Versions, TypeInv, TypeOK
  <2> QED
    BY <1>1, <2>1, <2>2
<1> QED
  BY <1>2, StoredBefore, DataKept

\* What a new version that reads a copy holds for an object.
LEMMA NewIsOf ==
  ASSUME TypeInv, VisitInv, NumberFree, CommitArchive, count \in Stored', Firsts',
         main.MappedBasePath # Live
  PROVE  /\ Firsts /\ InCopy /\ backups = 0 /\ count' = count
         /\ arc'[count] = NewArchive
         /\ \A n \in Stored' : n # count => n \in Stored /\ \A id : StreamData(n, id)' = StreamData(n, id)
         /\ \A p \in Paths : base[p] # None => Visited(p)
<1>1. Firsts /\ backups = 0
  BY FirstsCommit
<1>2. /\ pc = "archive" /\ todo = {} /\ count' = count /\ arc'[count] = NewArchive
      /\ \A n \in Stored' : n # count => n \in Stored /\ arc'[n] = arc[n]
  BY CommitIs
<1>3. \A p \in Paths : base[p] # None => Visited(p)
  BY <1>2 DEF Visited
<1>4. \A n \in Stored' : n # count => \A id : StreamData(n, id)' = StreamData(n, id)
  BY <1>2, DataKept
<1> QED
  BY <1>1, <1>2, <1>3, <1>4 DEF InCopy

LEMMA NewHash ==
  ASSUME TypeInv, TypeInv', IdInv, IdInv', VisitInv, NumberFree, CopyHashes, CopyOut,
         CommitArchive, count \in Stored', Firsts', main.MappedBasePath # Live,
         NEW p \in Paths, base[p] # None, base[p].Hashes # None
  PROVE  /\ HasData(base[p])
         /\ base[p].LatestVersion \in Stored' =>
              \E n, id : /\ n = base[p].LatestVersion /\ id = base[p].StreamUniqueId
                         /\ StreamData(n, id)' = {base[p].Hashes}
<1>1. Firsts /\ InCopy /\ Visited(p) /\ count' = count
  BY NewIsOf
<1>2. CopyHash(p) /\ OutNow
  BY <1>1 DEF CopyHashes, CopyOut
<1>3. HasData(base[p]) /\ HashRight(p) /\ base[p] \in Fso /\ count \in Nat
  BY <1>2 DEF CopyHash, TypeInv, TypeOK
<1>4. CASE base[p].BackupStream = "Full"
  <2>1. HashRight(p) /\ base[p].LatestVersion >= 0
    BY <1>3 DEF HasData
  <2>2. PICK n, id : n = count /\ id = base[p].StreamUniqueId
    OBVIOUS
  <2>3. StreamData(count, base[p].StreamUniqueId)' = {base[p].Hashes}
    BY <1>1, <1>2, <1>4, <2>1, NewData
  <2>4. StreamData(n, id)' = {base[p].Hashes}
    <3>1. base'[p] = base[p]
      BY CommitIs
    <3> QED
      BY <1>1, <2>2, <2>3, <3>1 DEF StreamData
  <2>5. base[p].LatestVersion = count
    <3>1. PICK i \in DOMAIN streams : streams[i].fso = p
      BY <1>4, <2>1 DEF HashRight
    <3> QED
      BY <3>1 DEF VisitInv, StreamsOfFiles, IsStreamOf
  <2> QED
    BY <1>3, <2>2, <2>4, <2>5
<1>5. CASE base[p].BackupStream # "Full"
  <2> SUFFICES ASSUME base[p].LatestVersion \in Stored'
      PROVE  \E n, id : /\ n = base[p].LatestVersion /\ id = base[p].StreamUniqueId
                        /\ StreamData(n, id)' = {base[p].Hashes}
    BY <1>3
  <2>1. PICK n, id : n = base[p].LatestVersion /\ id = base[p].StreamUniqueId
    OBVIOUS
  <2>2. n \in Stored' /\ n < count /\ n \in Int
    BY <1>2, <1>3, <1>5, <2>1 DEF CopyHash, Fso
  <2>3. n # count
    BY <1>3, <2>2
  <2>4. n \in Stored /\ StreamData(n, id)' = StreamData(n, id)
    BY <2>2, <2>3, NewIsOf
  <2>5. StreamData(n, id) = {base[p].Hashes}
    BY <1>3, <1>5, <2>1, <2>4 DEF HashRight, HasData
  <2> QED
    BY <2>1, <2>4, <2>5
<1> QED
  BY <1>4, <1>5

LEMMA ArcCopiesNext ==
  ASSUME FirstsStay, TypeInv, TypeInv', IdInv, IdInv', VisitInv, NumberFree, OneBackup, ArcBelow,
         CopyHashes, CopyOut, ArcCopies, [Next]_vars
  PROVE  ArcCopies'
<1> SUFFICES ASSUME Firsts', NEW v \in Stored', arc'[v].main.MappedBasePath # Live,
                    NEW p \in Paths, arc'[v].BaseObjects[p] # None,
                    arc'[v].BaseObjects[p].Hashes # None
    PROVE  HashIsData(arc[v].BaseObjects[p])'
  BY DEF ArcCopies
<1> SUFFICES \E o : /\ o = arc'[v].BaseObjects[p] /\ HasData(o)
                    /\ o.LatestVersion \in Stored' =>
                         \E n, id : /\ n = o.LatestVersion /\ id = o.StreamUniqueId
                                    /\ StreamData(n, id)' = {o.Hashes}
  <2>1. PICK o : /\ o = arc'[v].BaseObjects[p] /\ HasData(o)
                 /\ o.LatestVersion \in Stored' =>
                      \E n, id : /\ n = o.LatestVersion /\ id = o.StreamUniqueId
                                 /\ StreamData(n, id)' = {o.Hashes}
    OBVIOUS
  <2> QED
    BY <2>1 DEF HashIsData, HasData
<1>1. CASE v \in Stored /\ arc'[v] = arc[v]
  <2>1. PICK o : o = arc[v].BaseObjects[p]
    OBVIOUS
  <2>2. Firsts /\ o # None /\ o.Hashes # None /\ arc[v].main.MappedBasePath # Live
    BY <1>1, <2>1, FirstsBack
  <2>3. HashIsData(o)
    BY <1>1, <2>1, <2>2 DEF ArcCopies
  <2>4. ASSUME o.LatestVersion \in Stored'
        PROVE  \E n, id : /\ n = o.LatestVersion /\ id = o.StreamUniqueId
                          /\ StreamData(n, id)' = {o.Hashes}
    <3>1. PICK n, id : n = o.LatestVersion /\ id = o.StreamUniqueId
      OBVIOUS
    <3>2. n \in Stored /\ StreamData(n, id)' = StreamData(n, id)
      BY <1>1, <2>1, <2>2, <2>4, <3>1, OlderData
    <3>3. StreamData(n, id) = {o.Hashes}
      BY <2>3, <3>1, <3>2 DEF HashIsData
    <3> QED
      BY <3>1, <3>2, <3>3
  <2> QED
    BY <1>1, <2>1, <2>3, <2>4 DEF HashIsData
<1>2. CASE CommitArchive /\ v = count
  <2>1. arc'[v] = NewArchive /\ main.MappedBasePath # Live
    BY <1>2, CommitIs DEF NewArchive
  <2>2. /\ base[p] # None /\ base[p].Hashes # None
        /\ \E o : /\ o = arc'[v].BaseObjects[p] /\ (HasData(o) <=> HasData(base[p]))
                  /\ o.LatestVersion = base[p].LatestVersion
                  /\ o.StreamUniqueId = base[p].StreamUniqueId /\ o.Hashes = base[p].Hashes
    BY <2>1, NewObject
  <2> QED
    BY <1>2, <2>1, <2>2, NewHash
<1> QED
  BY <1>1, <1>2, StoredBefore

-----------------------------------------------------------------------------
\* What SnapshotExact says of an included path of a version, in terms of the
\* object there and what was seen.
ExactAt(v, p) ==
  LET o == arc[v].BaseObjects[p]
  IN  truth[v].seen[p] # {} =>
        /\ HasData(o)
        /\ ~Clashes(v, p) /\ o.LatestVersion \in Stored =>
             StreamData(o.LatestVersion, o.StreamUniqueId) = truth[v].seen[p]

LEMMA ExactFrom ==
  ASSUME NEW v, NEW p, NEW o, o = arc'[v].BaseObjects[p], NEW s, s = truth'[v].seen[p],
         s # {} => HasData(o),
         \A n, id : /\ s # {} /\ ~Clashes(v, p)'
                    /\ n \in Stored' /\ n = o.LatestVersion /\ id = o.StreamUniqueId
                    => StreamData(n, id)' = s
  PROVE  ExactAt(v, p)'
<1>1. PICK n, id : n = o.LatestVersion /\ id = o.StreamUniqueId
  OBVIOUS
<1>2. s # {} /\ ~Clashes(v, p)' /\ n \in Stored' => StreamData(n, id)' = s
  BY <1>1
<1>3. HasData(arc[v].BaseObjects[p])' <=> HasData(o)
  BY DEF HasData
<1>4. StreamData(arc[v].BaseObjects[p].LatestVersion, arc[v].BaseObjects[p].StreamUniqueId)'
        = StreamData(n, id)'
  BY <1>1 DEF StreamData
<1> QED
  BY <1>1, <1>2, <1>3, <1>4 DEF ExactAt

LEMMA ExactStays ==
  ASSUME TypeInv, NumberFree, ArcBelow, [Next]_vars, Firsts', NEW v \in Stored, NEW p \in Paths,
         arc'[v] = arc[v], truth'[v] = truth[v], ExactAt(v, p)
  PROVE  ExactAt(v, p)'
<1>1. PICK o, s : o = arc[v].BaseObjects[p] /\ s = truth[v].seen[p]
  OBVIOUS
<1>2. s # {} => HasData(o)
  BY <1>1 DEF ExactAt
<1>3. Clashes(v, p)' <=> Clashes(v, p)
  BY DEF Clashes
<1>4. ASSUME NEW n, NEW id, s # {}, ~Clashes(v, p)', n \in Stored', n = o.LatestVersion,
             id = o.StreamUniqueId
      PROVE  StreamData(n, id)' = s
  <2>1. n \in Stored /\ StreamData(n, id)' = StreamData(n, id)
    BY <1>1, <1>2, <1>4, OlderData DEF HasData
  <2>2. StreamData(n, id) = s
    BY <1>1, <1>3, <1>4, <2>1 DEF ExactAt
  <2> QED
    BY <2>1, <2>2
<1> QED
  BY <1>1, <1>2, <1>4, ExactFrom

\* A path of the new version clashes with none if its object is clean.
LEMMA CleanNew ==
  ASSUME TypeInv, CommitArchive, count \in Stored', NEW p \in Paths, base[p] # None,
         ~Clashes(count, p)'
  PROVE  Clean(p)
<1>1. /\ UNCHANGED count /\ arc'[count] = NewArchive /\ truth'[count].seen = seen
  BY CommitIs
<1> SUFFICES ASSUME NEW q \in Paths \ {p}, Sharer(p, q) PROVE Linked(p, q)
  BY DEF Clean
<1> DEFINE o == NewArchive.BaseObjects
<1>2. /\ o[p].Type = base[p].Type /\ o[p].FileSystemGuid = base[p].FileSystemGuid
      /\ o[q] # None /\ o[q].Type = base[q].Type /\ o[q].FileSystemGuid = base[q].FileSystemGuid
  BY NewObject DEF Sharer
<1>3. /\ arc'[count'].BaseObjects = o /\ truth'[count'].seen = seen
  BY <1>1
<1> HIDE DEF o
<1> QED
  BY <1>2, <1>3 DEF Sharer, Linked, Clashes

LEMMA ExactNew ==
  ASSUME TypeInv, TypeInv', IdInv, IdInv', SessionInv, VisitInv, NumberFree, CopySeen,
         CopyReached, CopyListed, CopyIsRight, CopyOut, CommitArchive, count \in Stored', Firsts',
         truth'[count].useSnapshots, arc'[count].main.Type = "Directory",
         NEW p \in Paths \ truth'[count].excluded
  PROVE  \E v : v = count /\ ExactAt(v, p)'
<1>1. /\ pc = "archive" /\ UNCHANGED <<count, base>> /\ arc'[count] = NewArchive
      /\ truth'[count].seen = seen /\ truth'[count].excluded = excluded
  BY CommitIs
<1>2. useSnapshots /\ main.Type = "Directory"
  <2>1. truth'[count].useSnapshots = useSnapshots
    BY DEF CommitArchive, Stored, TypeInv, TypeOK
  <2> QED
    BY <1>1, <2>1 DEF NewArchive
<1>3. shadow # None /\ main.MappedBasePath # Live
  BY <1>1, <1>2 DEF SessionInv, Shadowed, Busy, TypeInv, WellFormed
<1>4. /\ Firsts /\ InCopy /\ \A q \in Paths : base[q] # None => Visited(q)
      /\ \A n \in Stored' : n # count =>
           n \in Stored /\ \A id : StreamData(n, id)' = StreamData(n, id)
  BY <1>3, NewIsOf
<1>5. PICK v, o, s : v = count /\ o = arc'[v].BaseObjects[p] /\ s = truth'[v].seen[p]
  OBVIOUS
<1>6. o = NewArchive.BaseObjects[p] /\ s = seen[p] /\ p \notin excluded /\ v \in Stored'
  BY <1>1, <1>5
<1>7. ASSUME s # {}
      PROVE  /\ s = {ReadOf(p)} /\ Visited(p) /\ CopyRight(p) /\ base[p] # None
             /\ base[p].Type \in FileTypes /\ IsFile(Found(p))
  <2>1. IsFile(Found(p))
    <3>1. IsFile(shadow.live[p])
      BY <1>1, <1>3, <1>6, <1>7 DEF CopySeen, ContentsOf, Busy
    <3>2. Reachable(main.MappedBasePath)
      BY <1>2, <1>4 DEF CopyReached
    <3> QED
      BY <1>3, <3>1, <3>2 DEF Found, EntryAt
  <2>2. s = {ReadOf(p)}
    BY <1>1, <1>3, <1>6, <2>1, CopyIs DEF Busy
  <2>3. base[p] # None /\ base[p].Type \in FileTypes
    BY <1>1, <1>4, <2>1 DEF CopyListed, FoundIn, IsFile
  <2> QED
    BY <1>4, <2>1, <2>2, <2>3 DEF CopyIsRight
<1>8. s # {} => HasData(o)
  <2> SUFFICES ASSUME s # {} PROVE HasData(o)
    OBVIOUS
  <2>1. HasData(base[p])
    BY <1>6, <1>7 DEF CopyRight, HasData
  <2> QED
    BY <1>6, <2>1, NewObject
<1>9. ASSUME NEW n, NEW id, s # {}, ~Clashes(v, p)', n \in Stored', n = o.LatestVersion,
             id = o.StreamUniqueId
      PROVE  StreamData(n, id)' = s
  <2>1. base[p] # None /\ n = base[p].LatestVersion /\ id = base[p].StreamUniqueId
    BY <1>6, <1>7, <1>9, NewObject
  <2>2. Clean(p)
    <3>1. ~Clashes(count, p)'
      BY <1>1, <1>5, <1>9 DEF Clashes
    <3> QED
      BY <2>1, <3>1, CleanNew
  <2>3. base[p] \in Fso /\ count \in Nat
    BY <2>1 DEF TypeInv, TypeOK
  <2>4. CASE base[p].BackupStream = "Full"
    <3>1. n = count /\ \E q \in Paths : Streamed(q, id) /\ ReadOf(q) = ReadOf(p)
      BY <1>6, <1>7, <1>9, <2>1, <2>2, <2>4 DEF CopyRight
    <3>2. PICK i \in DOMAIN streams : /\ streams[i].UniqueId = id
                                      /\ ReadAt(main.MappedBasePath, streams[i].fso) = ReadOf(p)
      BY <3>1 DEF Streamed, ReadOf
    <3>3. StreamData(count, id)' = {ReadOf(p)}
      BY <1>4, <3>2, StreamWritten DEF CopyOut
    <3>4. StreamData(n, id)' = {ReadOf(p)}
      BY <1>1, <3>1, <3>3 DEF StreamData
    <3> QED
      BY <1>7, <1>9, <3>4
  <2>5. CASE base[p].BackupStream # "Full"
    <3>1. n < count /\ (n \in Stored => StreamData(n, id) = {ReadOf(p)})
      BY <1>6, <1>7, <1>9, <2>1, <2>2, <2>5 DEF CopyRight
    <3>2. n # count
      BY <2>1, <2>3, <3>1 DEF Fso
    <3>3. n \in Stored /\ StreamData(n, id)' = StreamData(n, id)
      BY <1>4, <1>9, <3>2
    <3> QED
      BY <1>7, <1>9, <3>1, <3>3
  <2> QED
    BY <2>4, <2>5
<1>10. ExactAt(v, p)'
  BY <1>5, <1>8, <1>9, ExactFrom
<1> QED
  BY <1>5, <1>10

LEMMA SnapshotExactIs ==
  SnapshotExact <=>
    (Firsts => \A v \in Stored : truth[v].useSnapshots /\ arc[v].main.Type = "Directory" =>
                 \A p \in Paths \ truth[v].excluded : ExactAt(v, p))
BY DEF SnapshotExact, Firsts, ExactAt

LEMMA SnapshotExactNext ==
  ASSUME FirstsStay, DataInv, DataInv', NumberFree, CopyInv, SnapshotExact, [Next]_vars
  PROVE  SnapshotExact'
<1> USE DEF DataInv, CopyInv
<1>1. ASSUME Firsts', NEW v \in Stored', truth'[v].useSnapshots,
             arc'[v].main.Type = "Directory", NEW p \in Paths \ truth'[v].excluded
      PROVE  ExactAt(v, p)'
  <2>1. CASE v \in Stored /\ arc'[v] = arc[v] /\ truth'[v] = truth[v]
    <3>1. Firsts
      BY <1>1, FirstsBack
    <3>2. ExactAt(v, p)
      BY <1>1, <2>1, <3>1, SnapshotExactIs
    <3> QED
      BY <1>1, <2>1, <3>2, ExactStays
  <2>2. CASE CommitArchive /\ v = count
    <3>1. PICK w : w = count /\ ExactAt(w, p)'
      BY <1>1, <2>2, ExactNew
    <3> QED
      BY <2>2, <3>1
  <2> QED
    BY <1>1, <2>1, <2>2, StoredBefore
<1> QED
  BY <1>1 DEF SnapshotExact, Firsts, ExactAt

LEMMA CopyInvInit == Init => CopyInv
BY DEF Init, CopyInv, ByHash, OneBackup, Firsts, CopySeen, CopyReached, CopyListed, CopyFresh,
       BaseBelow, ArcBelow, ArcCopies, CopyHashes, CopyIsRight, CopyOut, InCopy, Busy, Stored

LEMMA CopyInvNext ==
  ASSUME Criteria \subseteq {"Hash"}, FirstsStay, DataInv, DataInv', NumberFree, FirstScan,
         OldLoaded, VisitOrder, CopyInv, [Next]_vars
  PROVE  CopyInv'
<1> USE DEF DataInv, SessionInv, CopyInv
<1>1. ByHash' /\ OneBackup'
  BY ByHashNext, OneBackupNext
<1>2. CopySeen' /\ CopyReached' /\ CopyListed' /\ CopyFresh'
  BY CopySeenNext, CopyReachedNext, CopyListedNext, CopyFreshNext
<1>3. BaseBelow' /\ ArcBelow'
  BY BaseBelowNext, ArcBelowNext
<1>4. ArcCopies'
  BY ArcCopiesNext
<1>5. CopyHashes'
  BY CopyHashesNext
<1>6. CopyIsRight'
  BY CopyIsRightNext
<1>7. CopyOut'
  BY CopyOutNext DEF CopyOut, IdInv
<1> QED
  BY <1>1, <1>2, <1>3, <1>4, <1>5, <1>6, <1>7

\* What is kept of versions read through shadow copies.
LEMMA CopiesHold ==
  ASSUME Criteria \subseteq {"Hash"}, MaxSessionBackups = 1 \/ "remove" \notin EditKinds
  PROVE  Spec => [](CopyInv /\ SnapshotExact)
<1> DEFINE SInv == /\ DataInv /\ NumberFree /\ FirstScan /\ OldLoaded /\ VisitOrder
                   /\ CopyInv /\ SnapshotExact
<1>1. Init => SInv
  <2>1. Init => DataInv /\ NumberFree /\ FirstScan /\ OldLoaded /\ VisitOrder
    BY DataInvInit, NumberFreeInit, HashInvInit, RefInvInit DEF HashInv, RefInv
  <2>2. Init => SnapshotExact
    BY DEF Init, SnapshotExact, Stored
  <2> QED
    BY <2>1, <2>2, CopyInvInit
<1>2. SInv /\ [Next]_vars => SInv'
  <2> SUFFICES ASSUME SInv, [Next]_vars PROVE SInv'
    OBVIOUS
  <2>1. DataInv'
    BY DataInvNext
  <2>2. FirstsStay
    BY DEF FirstsStay
  <2>3. NumberFree' /\ FirstScan' /\ OldLoaded' /\ VisitOrder'
    BY NumberFreeNext, FirstScanNext, OldLoadedNext, VisitOrderNext DEF DataInv, SessionInv
  <2>4. CopyInv'
    BY <2>1, <2>2, CopyInvNext
  <2>5. SnapshotExact'
    BY <2>1, <2>2, SnapshotExactNext
  <2> QED
    BY <2>1, <2>3, <2>4, <2>5
<1>3. SInv => CopyInv /\ SnapshotExact
  OBVIOUS
<1> QED
  BY <1>1, <1>2, <1>3, PTL DEF Spec

\* A version read through a shadow copy and compared by hash names a version for
\* the data of every included file, and that data is what the file held when the
\* snapshot was taken, whatever other programs write meanwhile, for every file
\* whose identity is not another object's too.  A file that clashes is exempt:
\* RecalculateFileGuids may have asked for its identity after a rename, and of two
\* objects with one identity the second gets the other's stream, or none.  Every version must be
\* its session's first.  ComputeHash and AddFile read the copy, and an object of
\* the latest version is found unmodified only where that one read the same copy
\* and its hash is that of its data (FileHasChanged).
\* Either a session makes one backup or no version is removed: when versions
\* that second backups wrote are deleted, the property speaks of the others
\* again, whose references to them are lost; the proof leaves that case out.
THEOREM SnapshotsAreExact ==
  ASSUME Criteria \subseteq {"Hash"}, MaxSessionBackups = 1 \/ "remove" \notin EditKinds
  PROVE  Spec => []SnapshotExact
BY CopiesHold, PTL

\* In a version read through a shadow copy every hash is that of the data it
\* stands for, whatever other programs write between ComputeHash and AddFile,
\* also for files whose identity clashes with another's: both read the copy.
THEOREM SnapshotHashesHold ==
  ASSUME Criteria \subseteq {"Hash"}, MaxSessionBackups = 1 \/ "remove" \notin EditKinds
  PROVE  Spec => []SnapshotHashesMatch
<1>1. CopyInv => SnapshotHashesMatch
  BY DEF CopyInv, ArcCopies, Firsts, HashIsData, HasData, SnapshotHashesMatch
<1> QED
  BY <1>1, CopiesHold, PTL
=============================================================================
