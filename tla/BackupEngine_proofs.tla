------------------------ MODULE BackupEngine_proofs ------------------------
(***************************************************************************)
(* What holds of BackupEngine for every number of paths, versions, edits   *)
(* and backups a session.                                                  *)
(***************************************************************************)
EXTENDS BackupEngine, TLAPS, SequenceTheorems

-----------------------------------------------------------------------------
(***************************************************************************)
(* Type correctness.  TypeOK alone is not inductive: a step that reads an  *)
(* object, an archive or the main base object needs to know it is there.   *)
(***************************************************************************)
WellFormed ==
  /\ pc # "closed" => known \subseteq Stored /\ crit \in Criteria
  /\ pc \in {"scan", "archive"} => baseSet
  /\ baseSet => main # None
  /\ Busy /\ count > 0 => oldMain # None
  /\ \A p \in retry : base[p] # None
  /\ pc = "archive" => \A p \in todo : base[p] # None
  /\ \A g \in Guids : guids[g] # 0 => base[guids[g]] # None
  /\ \A i \in DOMAIN streams : base[streams[i].fso] # None

TypeInv == TypeOK /\ WellFormed

LEMMA TypeInvInit == Init => TypeInv
<1> SUFFICES ASSUME Init PROVE TypeInv
  OBVIOUS
<1>1. inode \in [Guids -> Inode]
  <2> DEFINE Flags == {TRUE}
             Fresh == [content : Contents, mtime : {0}, archive : Flags]
  <2>1. inode \in [Guids -> Fresh]
    BY DEF Init
  <2>2. Flags \subseteq BOOLEAN
    BY Zenon
  <2> HIDE DEF Flags
  <2>3. Fresh \subseteq Inode
    BY <2>2 DEF Inode
  <2> HIDE DEF Fresh
  <2> QED
    BY <2>1, <2>3
<1>2. TypeOK
  <2>1. /\ streams \in Seq(Stream) /\ out \in Seq(Written)
        /\ guids \in [Guids -> Paths \cup {0}]
        /\ seen \in [Paths -> SUBSET Contents]
    BY DEF Init, NoTruth
  <2>2. /\ base \in [Paths -> Fso \cup {None}]
        /\ old \in [Paths -> StoredFso \cup {None}]
        /\ arc \in [Versions -> Archive \cup {None}]
        /\ truth \in [Versions -> Truth \cup {None}]
    BY DEF Init, NoObjects
  <2> QED
    BY <1>1, <2>1, <2>2 DEF Init, TypeOK
<1>3. WellFormed
  BY DEF Init, WellFormed, Busy, NoObjects
<1> QED
  BY <1>2, <1>3 DEF TypeInv

USE DEF Locs

\* What a path holds, as a reader of location l sees it.
LEMMA EntryType ==
  ASSUME TypeOK, NEW l \in Locs, NEW p \in Paths
  PROVE  /\ EntryAt(l, p) \in Guids \cup {None, Dir}
         /\ IsFile(EntryAt(l, p)) => InodeAt(l, EntryAt(l, p)) \in Inode
         /\ ReadAt(l, p) \in Contents \cup {None}
<1>1. EntryAt(l, p) \in Guids \cup {None, Dir}
  BY DEF TypeOK, EntryAt, Reachable, Shadow
<1>2. ASSUME IsFile(EntryAt(l, p)) PROVE InodeAt(l, EntryAt(l, p)) \in Inode
  BY <1>1, <1>2 DEF TypeOK, EntryAt, InodeAt, IsFile, Reachable, Shadow
<1> QED
  BY <1>1, <1>2 DEF ReadAt, Inode

\* The object the scan builds.
LEMMA FsoForType ==
  ASSUME TypeInv, main # None, NEW p \in Paths, NEW g \in Guids \cup {None}
  PROVE  FsoFor(p, EntryAt(main.MappedBasePath, p), g) \in Fso
<1> DEFINE l == main.MappedBasePath
           e == EntryAt(l, p)
           f == FsoFor(p, e, g)
<1>1. l \in Locs
  BY DEF TypeInv, TypeOK, Main
<1>2. IsFile(e) => /\ InodeAt(l, e).mtime \in Nat
                   /\ SizeOf[InodeAt(l, e).content] \in Nat
                   /\ InodeAt(l, e).archive \in BOOLEAN
  BY <1>1, EntryType, BackupEngineAssumption DEF TypeInv, Inode
<1>3. /\ f.Type \in FileTypes \cup {"Directory", "Junction"}
      /\ f.BackupMode \in Modes
  BY DEF FsoFor, FileTypes, Modes, BackupModeFor
<1>4. /\ f.ModificationTime \in Nat /\ f.Size \in Nat
      /\ f.ArchiveFlag \in BOOLEAN
  BY <1>2 DEF FsoFor
<1>5. f = [Type |-> f.Type, StreamUniqueId |-> 0, LatestVersion |-> 0,
           FileSystemGuid |-> g, Hashes |-> None,
           ModificationTime |-> f.ModificationTime, Size |-> f.Size,
           ArchiveFlag |-> f.ArchiveFlag, BackupMode |-> f.BackupMode,
           BackupStream |-> "None"]
  BY DEF FsoFor
<1>6. f \in Fso
  <2> HIDE DEF f
  <2> QED
    BY <1>3, <1>4, <1>5 DEF Fso
<1> QED
  BY <1>6

\* The steps that begin and end sessions and backups.
LEMMA TypeInvOpen == TypeInv /\ Open => TypeInv'
<1> SUFFICES ASSUME TypeInv, Open PROVE TypeInv'
  OBVIOUS
<1> USE DEF TypeInv, disk, store, objects, oldTree, ids, pending
<1>1. TypeOK'
  BY BackupEngineAssumption DEF Open, TypeOK, Stored
<1>2. WellFormed'
  BY DEF Open, TypeOK, WellFormed, Stored, Busy
<1> QED
  BY <1>1, <1>2

LEMMA TypeInvEndSession == TypeInv /\ EndSession => TypeInv'
<1> SUFFICES ASSUME TypeInv, EndSession PROVE TypeInv'
  OBVIOUS
<1> USE DEF TypeInv, disk, store
<1>1. /\ guids' \in [Guids -> Paths \cup {0}]
      /\ streams' \in Seq(Stream) /\ out' \in Seq(Written)
      /\ base' \in [Paths -> Fso \cup {None}]
      /\ old' \in [Paths -> StoredFso \cup {None}]
      /\ seen' \in [Paths -> SUBSET Contents]
  BY DEF EndSession, NoObjects, NoTruth
<1>2. TypeOK'
  BY <1>1 DEF EndSession, TypeOK
<1>3. WellFormed'
  BY DEF EndSession, WellFormed, NoObjects, Busy
<1> QED
  BY <1>2, <1>3

LEMMA TypeInvBeginBackup == TypeInv /\ BeginBackup => TypeInv'
<1> SUFFICES ASSUME TypeInv, BeginBackup PROVE TypeInv'
  OBVIOUS
<1> USE DEF TypeInv, disk, store, settings, objects, pending
<1>1. shadow' \in Shadow \cup {None}
  BY DEF BeginBackup, TypeOK, Shadow
<1>2. /\ old' \in [Paths -> StoredFso \cup {None}]
      /\ oldMain' \in Main \cup {None}
      /\ nextId' \in Nat
      /\ count > 0 => oldMain' # None
  <2>1. CASE count = 0
    BY <2>1 DEF BeginBackup, oldTree, TypeOK
  <2>2. CASE count # 0
    <3>1. PICK v \in known : /\ old' = arc[v].BaseObjects
                             /\ oldMain' = arc[v].main
                             /\ nextId' = LoadedStreamId(arc[v])
      BY <2>2 DEF BeginBackup
    <3>2. arc[v] \in Archive
      BY DEF BeginBackup, TypeOK, WellFormed, Stored
    <3> QED
      BY <3>1, <3>2, NoneAssumption DEF Archive, LoadedStreamId
  <2> QED
    BY <2>1, <2>2
<1>3. seen' \in [Paths -> SUBSET Contents]
  BY DEF BeginBackup, ContentsOf, TypeOK, IsFile, Inode
<1>4. TypeOK'
  BY <1>1, <1>2, <1>3 DEF BeginBackup, TypeOK
<1>5. WellFormed'
  BY <1>2 DEF BeginBackup, WellFormed, Stored, Busy
<1> QED
  BY <1>4, <1>5

LEMMA TypeInvListSource ==
  TypeInv /\ (ListSource \/ ReuseBaseObjects) => TypeInv'
<1> SUFFICES ASSUME TypeInv, ListSource \/ ReuseBaseObjects PROVE TypeInv'
  OBVIOUS
<1> USE DEF TypeInv, disk, store, settings, objects, oldTree, ids, pending
<1>1. CASE ListSource
  <2>1. CurrentSourceLocation \in Locs /\ SourceLocation \in Locs
    BY <1>1 DEF ListSource, CurrentSourceLocation, SourceLocation, MapPathForward, Locs,
                TypeOK, WellFormed, Main, Shadow, Busy
  <2>2. main' \in Main /\ main' # None /\ todo' \subseteq Paths
    BY <1>1, <2>1, NoneAssumption DEF ListSource, Main
  <2>3. TypeOK'
    BY <1>1, <2>2 DEF ListSource, TypeOK
  <2>4. WellFormed'
    BY <1>1, <2>2 DEF ListSource, WellFormed, Stored, Busy
  <2> QED
    BY <2>3, <2>4
<1>2. CASE ReuseBaseObjects
  BY <1>2 DEF ReuseBaseObjects, TypeOK, WellFormed, Stored, Busy
<1> QED
  BY <1>1, <1>2

\* Objects other structures refer to stay as long as no object is dropped.
LEMMA ReferencesKept ==
  ASSUME TypeInv, \A q \in Paths : base[q] # None => base'[q] # None,
         UNCHANGED <<guids, streams>>
  PROVE  /\ \A g \in Guids : guids'[g] # 0 => base'[guids'[g]] # None
         /\ \A i \in DOMAIN streams' : base'[streams'[i].fso] # None
<1>1. \A g \in Guids : guids[g] # 0 => guids[g] \in Paths
  BY DEF TypeInv, TypeOK
<1>2. \A i \in DOMAIN streams : streams[i].fso \in Paths
  <2>1. streams \in Seq(Stream)
    BY DEF TypeInv, TypeOK
  <2>2. \A i \in DOMAIN streams : streams[i] \in Stream
    BY <2>1
  <2> QED
    BY <2>2 DEF Stream
<1> QED
  BY <1>1, <1>2 DEF TypeInv, WellFormed

\* The scan.
LEMMA TypeInvScanEntry ==
  ASSUME TypeInv, NEW p \in Paths, ScanEntry(p)
  PROVE  TypeInv'
<1> USE DEF TypeInv, disk, store, settings, oldTree, ids, pending
<1> DEFINE e == EntryAt(main.MappedBasePath, p)
<1>1. main # None /\ main.MappedBasePath \in Locs
  BY DEF ScanEntry, TypeOK, WellFormed, Main
<1>2. e \in Guids \cup {None, Dir}
  BY <1>1, EntryType
<1>3. PICK g \in Guids \cup {None} :
        /\ base' = [base EXCEPT ![p] = FsoFor(p, e, g)]
        /\ retry' \subseteq retry \cup {p}
  <2>1. CASE base' = [base EXCEPT ![p] = FsoFor(p, e, None)]
    BY <2>1 DEF ScanEntry
  <2>2. CASE base' = [base EXCEPT ![p] = FsoFor(p, e, IF IsFile(e) THEN e ELSE None)]
    <3>1. (IF IsFile(e) THEN e ELSE None) \in Guids \cup {None}
      BY <1>2 DEF IsFile
    <3> QED
      BY <2>2, <3>1 DEF ScanEntry
  <2> QED
    BY <2>1, <2>2 DEF ScanEntry
<1>4. FsoFor(p, e, g) \in Fso /\ FsoFor(p, e, g) # None
  BY <1>1, FsoForType, NoneAssumption
<1>5. base' \in [Paths -> Fso \cup {None}]
  BY <1>3, <1>4 DEF TypeOK
<1>6. \A q \in Paths : base[q] # None \/ q = p => base'[q] # None
  BY <1>3, <1>4 DEF TypeOK
<1> HIDE DEF e
<1>7. TypeOK'
  BY <1>3, <1>5 DEF ScanEntry, TypeOK
<1>8. WellFormed'
  <2>1. UNCHANGED <<guids, streams>>
    BY DEF ScanEntry
  <2>2. /\ \A g1 \in Guids : guids'[g1] # 0 => base'[guids'[g1]] # None
        /\ \A i \in DOMAIN streams' : base'[streams'[i].fso] # None
    BY <1>6, <2>1, ReferencesKept
  <2> QED
    BY <1>3, <1>6, <2>2 DEF ScanEntry, WellFormed, TypeOK, Stored, Busy
<1> QED
  BY <1>7, <1>8

LEMMA TypeInvRecalculateFileGuid ==
  ASSUME TypeInv, NEW p \in Paths, RecalculateFileGuid(p)
  PROVE  TypeInv'
<1> USE DEF TypeInv, disk, store, settings, oldTree, ids, pending
<1>1. base[p] \in Fso
  BY DEF RecalculateFileGuid, IsFirst, TypeOK, WellFormed
<1>2. base'[p] \in Fso
  BY <1>1 DEF RecalculateFileGuid, TypeOK, IsFile, Fso
<1>3. \A q \in Paths : q # p => base'[q] = base[q]
  BY DEF RecalculateFileGuid, TypeOK
<1>4. base' \in [Paths -> Fso \cup {None}]
  BY <1>2, <1>3 DEF RecalculateFileGuid, TypeOK
<1>5. \A q \in Paths : base[q] # None => base'[q] # None
  BY <1>2, <1>3, NoneAssumption
<1>6. TypeOK'
  BY <1>4 DEF RecalculateFileGuid, TypeOK
<1>7. WellFormed'
  <2>1. UNCHANGED <<guids, streams>>
    BY DEF RecalculateFileGuid
  <2>2. /\ \A g1 \in Guids : guids'[g1] # 0 => base'[guids'[g1]] # None
        /\ \A i \in DOMAIN streams' : base'[streams'[i].fso] # None
    BY <1>5, <2>1, ReferencesKept
  <2> QED
    BY <1>5, <2>2 DEF RecalculateFileGuid, WellFormed, TypeOK, Stored, Busy
<1> QED
  BY <1>6, <1>7

LEMMA TypeInvPrepareStreams == TypeInv /\ PrepareStreams => TypeInv'
<1> SUFFICES ASSUME TypeInv, PrepareStreams PROVE TypeInv'
  OBVIOUS
<1> USE DEF TypeInv, disk, store, settings, oldTree, pending
<1>1. ASSUME NEW p \in Paths, base[p] # None, OldObject(p) # None
      PROVE  [base[p] EXCEPT !.StreamUniqueId = OldObject(p).StreamUniqueId] \in Fso
  <2>1. base[p] \in Fso
    BY <1>1 DEF TypeOK
  <2>2. OldObject(p) \in StoredFso
    BY <1>1 DEF OldObject, TypeOK
  <2>3. OldObject(p).StreamUniqueId \in Nat
    BY <2>2 DEF StoredFso
  <2> QED
    BY <2>1, <2>3 DEF Fso
<1>2. /\ base' \in [Paths -> Fso \cup {None}]
      /\ \A p \in Paths : base[p] # None => base'[p] # None
  BY <1>1, NoneAssumption DEF PrepareStreams, TypeOK
<1>3. TypeOK'
  BY <1>2 DEF PrepareStreams, TypeOK
<1>4. WellFormed'
  <2>1. UNCHANGED <<guids, streams>>
    BY DEF PrepareStreams
  <2>2. /\ \A g1 \in Guids : guids'[g1] # 0 => base'[guids'[g1]] # None
        /\ \A i \in DOMAIN streams' : base'[streams'[i].fso] # None
    BY <1>2, <2>1, ReferencesKept
  <2> QED
    BY <1>2, <2>2 DEF PrepareStreams, WellFormed, TypeOK, Stored, Busy
<1> QED
  BY <1>3, <1>4

\* The visit of the objects.
LEMMA VisitedObject ==
  ASSUME TypeInv, NEW p \in Paths, Visit(p)
  PROVE  base[p] \in Fso /\ base[p] # None /\ main.MappedBasePath \in Locs
  BY DEF TypeInv, TypeOK, WellFormed, Visit, IsFirst, Main

LEMMA TypeInvVisit ==
  ASSUME TypeInv, NEW p \in Paths, Visit(p), nextId' \in Nat,
         base' \in [Paths -> Fso \cup {None}],
         \A q \in Paths : base[q] # None => base'[q] # None,
         guids' \in [Guids -> Paths \cup {0}], streams' \in Seq(Stream),
         \A g \in Guids : guids'[g] # 0 => base'[guids'[g]] # None,
         \A i \in DOMAIN streams' : base'[streams'[i].fso] # None
  PROVE  TypeInv'
<1> USE DEF TypeInv, disk, store, settings, oldTree
<1>1. TypeOK'
  BY DEF Visit, TypeOK
<1>2. WellFormed'
  BY DEF Visit, WellFormed, TypeOK, Stored, Busy
<1> QED
  BY <1>1, <1>2

LEMMA RegisterType ==
  ASSUME TypeInv, NEW p \in Paths, base[p] \in Fso, guids' = Register(base[p], p),
         base[p] # None, \A q \in Paths : base[q] # None => base'[q] # None
  PROVE  /\ guids' \in [Guids -> Paths \cup {0}]
         /\ \A g \in Guids : guids'[g] # 0 => base'[guids'[g]] # None
<1>1. guids' \in [Guids -> Paths \cup {0}]
  BY DEF TypeInv, TypeOK, Register, Fso
<1>2. \A g \in Guids : guids'[g] \in {guids[g], p}
  BY DEF TypeInv, TypeOK, Register, Fso
<1>3. \A g \in Guids : guids[g] # 0 => base[guids[g]] # None /\ guids[g] \in Paths
  BY DEF TypeInv, TypeOK, WellFormed
<1> QED
  BY <1>1, <1>2, <1>3

LEMMA MarkedType ==
  ASSUME TypeInv, NEW f \in Fso
  PROVE  Marked(f) \in Fso
<1> DEFINE v == IF Eligible(f) THEN count ELSE -1
<1>1. v \in Int
  BY DEF TypeInv, TypeOK
<1>2. Marked(f) = [f EXCEPT !.LatestVersion = v]
  BY DEF Marked
<1> HIDE DEF v
<1> QED
  BY <1>1, <1>2 DEF Fso

LEMMA AddFullStreamType ==
  ASSUME TypeInv, NEW p \in Paths, Visit(p), NEW h \in Contents \cup {None},
         AddFullStream(p, h)
  PROVE  TypeInv'
<1>1. base[p] \in Fso /\ base[p] # None
  BY VisitedObject
<1> DEFINE f == [Marked(base[p]) EXCEPT !.StreamUniqueId = nextId,
                                        !.Hashes = h, !.BackupStream = "Full"]
<1>2. f \in Fso
  <2>1. Marked(base[p]) \in Fso /\ nextId \in Nat
    BY <1>1, MarkedType DEF TypeInv, TypeOK
  <2> QED
    BY <2>1 DEF Fso
<1>3. base' = [base EXCEPT ![p] = f]
  BY DEF AddFullStream
<1> HIDE DEF f
<1>4. /\ base' \in [Paths -> Fso \cup {None}]
      /\ \A q \in Paths : base[q] # None => base'[q] # None
  BY <1>2, <1>3, NoneAssumption DEF TypeInv, TypeOK
<1>5. /\ guids' \in [Guids -> Paths \cup {0}]
      /\ \A g \in Guids : guids'[g] # 0 => base'[guids'[g]] # None
  BY <1>1, <1>4, RegisterType DEF AddFullStream
<1> DEFINE s == [UniqueId |-> nextId, fso |-> p]
<1>6. s \in Stream /\ streams' = Append(streams, s) /\ nextId' \in Nat
  BY DEF AddFullStream, TypeInv, TypeOK, Stream
<1>7. streams' \in Seq(Stream)
  BY <1>6 DEF TypeInv, TypeOK
<1>8. \A i \in DOMAIN streams' : base'[streams'[i].fso] # None
  <2>1. streams \in Seq(Stream) /\ \A i \in DOMAIN streams : streams[i] \in Stream
    <3>1. streams \in Seq(Stream)
      BY DEF TypeInv, TypeOK
    <3> QED
      BY <3>1
  <2>2. \A i \in DOMAIN streams : base[streams[i].fso] # None /\ streams[i].fso \in Paths
    BY <2>1 DEF TypeInv, WellFormed, Stream
  <2>3. \A i \in DOMAIN streams' : i \in DOMAIN streams \/ i = Len(streams) + 1
    BY <1>6, <2>1
  <2>4. \A i \in DOMAIN streams : streams'[i] = streams[i]
    BY <1>6, <2>1
  <2>5. streams'[Len(streams) + 1].fso = p
    BY <1>6, <2>1
  <2> QED
    BY <1>1, <1>4, <2>2, <2>3, <2>4, <2>5
<1> QED
  BY <1>4, <1>5, <1>6, <1>7, <1>8, TypeInvVisit

LEMMA TypeInvSkipObject ==
  ASSUME TypeInv, NEW p \in Paths, SkipObject(p)
  PROVE  TypeInv'
<1>1. Visit(p) /\ UNCHANGED <<nextId, guids, streams>>
  BY DEF SkipObject
<1>2. base[p] \in Fso
  BY <1>1, VisitedObject
<1> DEFINE f == Marked(base[p])
<1>3. f \in Fso
  BY <1>2, MarkedType
<1> HIDE DEF f
<1>4. FixUpStreamReference(f) \in Fso
  <2>1. CASE f.Type = "FileHardlink" /\ HasKnownGuid(f)
    <3> DEFINE owner == base[guids[f.FileSystemGuid]]
    <3>1. owner \in Fso
      BY <1>3, <2>1 DEF TypeInv, TypeOK, WellFormed, HasKnownGuid, Fso
    <3> QED
      BY <1>3, <2>1, <3>1 DEF FixUpStreamReference, Fso
  <2> QED
    BY <1>3, <2>1 DEF FixUpStreamReference
<1>5. base' = [base EXCEPT ![p] = FixUpStreamReference(f)]
  BY DEF SkipObject, f
<1>6. /\ base' \in [Paths -> Fso \cup {None}]
      /\ \A q \in Paths : base[q] # None => base'[q] # None
  BY <1>4, <1>5, NoneAssumption DEF TypeInv, TypeOK
<1>7. /\ \A g \in Guids : guids'[g] # 0 => base'[guids'[g]] # None
      /\ \A i \in DOMAIN streams' : base'[streams'[i].fso] # None
  BY <1>1, <1>6, ReferencesKept
<1>8. /\ nextId' \in Nat /\ guids' \in [Guids -> Paths \cup {0}]
      /\ streams' \in Seq(Stream)
  BY <1>1 DEF TypeInv, TypeOK
<1> QED
  BY <1>1, <1>6, <1>7, <1>8, TypeInvVisit

LEMMA TypeInvAddStream ==
  ASSUME TypeInv, NEW p \in Paths, AddInitialStream(p) \/ AddChangedFile(p)
  PROVE  TypeInv'
<1>1. Visit(p)
  BY DEF AddInitialStream, AddChangedFile
<1>2. base[p] \in Fso /\ main.MappedBasePath \in Locs
  BY <1>1, VisitedObject
<1>3. base[p].Hashes \in Contents \cup {None}
  BY <1>2 DEF Fso
<1>4. HashOf(p, base[p]) \in Contents \cup {None}
  BY <1>2, <1>3, EntryType DEF HashOf, TypeInv
<1>5. PICK h \in Contents \cup {None} : AddFullStream(p, h)
  BY <1>3, <1>4 DEF AddInitialStream, AddChangedFile
<1> QED
  BY <1>1, <1>5, AddFullStreamType

LEMMA TypeInvKeepUnmodified ==
  ASSUME TypeInv, NEW p \in Paths, KeepUnmodified(p)
  PROVE  TypeInv'
<1>1. Visit(p) /\ UNCHANGED <<nextId, streams>>
  BY DEF KeepUnmodified
<1>2. base[p] \in Fso /\ base[p] # None
  BY <1>1, VisitedObject
<1> DEFINE o == OldObject(p)
           f == AsUnmodified(base[p], o)
<1>3. o \in StoredFso
  BY DEF KeepUnmodified, OldObject, TypeInv, TypeOK
<1>4. base' = [base EXCEPT ![p] = f] /\ guids' = Register(base[p], p)
  BY DEF KeepUnmodified
<1> HIDE DEF o
<1>5. f \in Fso
  BY <1>2, <1>3 DEF AsUnmodified, Fso, StoredFso, Modes
<1> HIDE DEF f
<1>6. /\ base' \in [Paths -> Fso \cup {None}]
      /\ \A q \in Paths : base[q] # None => base'[q] # None
  BY <1>4, <1>5, NoneAssumption DEF TypeInv, TypeOK
<1>7. /\ guids' \in [Guids -> Paths \cup {0}]
      /\ \A g \in Guids : guids'[g] # 0 => base'[guids'[g]] # None
  BY <1>2, <1>4, <1>6, RegisterType
<1>8. /\ nextId' \in Nat /\ streams' \in Seq(Stream)
      /\ \A i \in DOMAIN streams' : base'[streams'[i].fso] # None
  <2>1. streams \in Seq(Stream) /\ nextId \in Nat
    BY DEF TypeInv, TypeOK
  <2>2. \A i \in DOMAIN streams : streams[i] \in Stream
    BY <2>1
  <2> QED
    BY <1>1, <1>6, <2>1, <2>2 DEF TypeInv, WellFormed, Stream
<1> QED
  BY <1>1, <1>6, <1>7, <1>8, TypeInvVisit

\* Writing the archive.
LEMMA TypeInvWriteStream == TypeInv /\ WriteStream => TypeInv'
<1> SUFFICES ASSUME TypeInv, WriteStream PROVE TypeInv'
  OBVIOUS
<1> USE DEF TypeInv, disk, store, settings, oldTree, ids
<1> DEFINE s == streams[Len(out) + 1]
           c == ReadAt(main.MappedBasePath, s.fso)
<1>1. s \in Stream /\ base[s.fso] # None /\ out \in Seq(Written)
  <2>1. streams \in Seq(Stream) /\ out \in Seq(Written)
    BY DEF TypeOK
  <2>2. Len(out) + 1 \in DOMAIN streams
    BY <2>1 DEF WriteStream
  <2> QED
    BY <2>1, <2>2 DEF WellFormed
<1>2. s.fso \in Paths /\ s.UniqueId \in Nat /\ base[s.fso] \in Fso
  BY <1>1 DEF Stream, TypeOK
<1>3. main.MappedBasePath \in Locs
  BY DEF WriteStream, WellFormed, TypeOK, Main
<1>4. c \in Contents
  <2>1. c \in Contents \cup {None}
    BY <1>2, <1>3, EntryType
  <2> QED
    BY <2>1 DEF WriteStream
<1>5. /\ out' = Append(out, [StreamId |-> s.UniqueId, data |-> c])
      /\ base' = [base EXCEPT ![s.fso].Hashes = IF @ = None THEN c ELSE @]
  BY DEF WriteStream
<1> HIDE DEF s, c
<1>6. out' \in Seq(Written)
  <2>1. [StreamId |-> s.UniqueId, data |-> c] \in Written
    BY <1>2, <1>4 DEF Written
  <2> QED
    BY <1>1, <1>5, <2>1
<1>7. /\ base' \in [Paths -> Fso \cup {None}]
      /\ \A q \in Paths : base[q] # None => base'[q] # None
  <2> DEFINE f == [base[s.fso] EXCEPT !.Hashes = IF @ = None THEN c ELSE @]
  <2>1. f \in Fso
    BY <1>2, <1>4 DEF Fso
  <2>2. base' = [base EXCEPT ![s.fso] = f]
    BY <1>5
  <2> HIDE DEF f
  <2> QED
    BY <2>1, <2>2, <1>2, NoneAssumption DEF TypeOK
<1>8. TypeOK'
  BY <1>6, <1>7 DEF WriteStream, TypeOK
<1>9. WellFormed'
  <2>1. UNCHANGED <<guids, streams>>
    BY DEF WriteStream
  <2>2. /\ \A g1 \in Guids : guids'[g1] # 0 => base'[guids'[g1]] # None
        /\ \A i \in DOMAIN streams' : base'[streams'[i].fso] # None
    BY <1>7, <2>1, ReferencesKept
  <2> QED
    BY <1>7, <2>2 DEF WriteStream, WellFormed, TypeOK, Stored, Busy
<1> QED
  BY <1>8, <1>9

LEMMA NewArchiveType ==
  ASSUME TypeInv, pc = "archive"
  PROVE  NewArchive \in Archive
<1>1. main \in Main
  BY DEF TypeInv, TypeOK, WellFormed
<1>2. Dependencies \subseteq Int
  BY DEF Dependencies, TypeInv, TypeOK, Fso
<1> DEFINE objs == [p \in Paths |-> IF base[p] = None THEN None
                                   ELSE Serialized(base[p])]
<1>3. objs \in [Paths -> StoredFso \cup {None}]
  <2>1. \A f \in Fso : Serialized(f) \in StoredFso
    BY DEF Serialized, Fso, StoredFso
  <2> QED
    BY <2>1 DEF TypeInv, TypeOK
<1>4. firstId \in Nat /\ nextId \in Nat /\ out \in Seq(Written)
  BY DEF TypeInv, TypeOK
<1>5. NewArchive = [VersionDependencies |-> Dependencies,
                    FirstStreamUniqueId |-> firstId,
                    NextStreamUniqueId |-> nextId, main |-> main,
                    BaseObjects |-> objs, Streams |-> out]
  BY DEF NewArchive
<1> HIDE DEF objs
<1> QED
  BY <1>1, <1>2, <1>3, <1>4, <1>5 DEF Archive

LEMMA TypeInvCommitArchive == TypeInv /\ CommitArchive => TypeInv'
<1> SUFFICES ASSUME TypeInv, CommitArchive PROVE TypeInv'
  OBVIOUS
<1> USE DEF TypeInv, disk, settings, objects, oldTree
<1>1. NewArchive \in Archive
  BY NewArchiveType DEF CommitArchive
<1>2. /\ arc' \in [Versions -> Archive \cup {None}]
      /\ \A v \in Versions : arc[v] # None => arc'[v] # None
  BY <1>1, NoneAssumption DEF CommitArchive, TypeOK
<1>3. truth' \in [Versions -> Truth \cup {None}]
  <2> DEFINE t == [seen |-> seen, excluded |-> excluded, crit |-> crit,
                   useSnapshots |-> useSnapshots, attempt |-> backups]
  <2>1. t \in Truth
    BY DEF CommitArchive, TypeOK, WellFormed, Truth
  <2>2. truth' = [truth EXCEPT ![count] = t]
    BY DEF CommitArchive
  <2> HIDE DEF t
  <2> QED
    BY <2>1, <2>2 DEF TypeOK
<1>4. /\ guids' \in [Guids -> Paths \cup {0}]
      /\ streams' \in Seq(Stream) /\ out' \in Seq(Written)
      /\ seen' \in [Paths -> SUBSET Contents]
  BY DEF CommitArchive, NoTruth
<1>5. TypeOK'
  BY <1>2, <1>3, <1>4 DEF CommitArchive, TypeOK
<1>6. WellFormed'
  BY <1>2 DEF CommitArchive, WellFormed, Stored, Busy
<1> QED
  BY <1>5, <1>6

\* Everyone else.
LEMMA TypeInvEdit ==
  ASSUME TypeInv, NEW kind, Edit(kind), live' \in [Paths -> Guids \cup {None, Dir}],
         inode' \in [Guids -> Inode]
  PROVE  TypeInv'
<1> USE DEF TypeInv, store, settings, objects, oldTree, ids, pending
<1>1. seen' \in [Paths -> SUBSET Contents]
  <2>1. \A p \in Paths : ContentsOf(live', inode')[p] \subseteq Contents
    BY DEF ContentsOf, IsFile, Inode
  <2> QED
    BY <2>1 DEF Edit, TypeOK
<1>2. TypeOK'
  BY <1>1 DEF Edit, TypeOK
<1>3. WellFormed'
  BY DEF Edit, WellFormed, Stored, Busy
<1> QED
  BY <1>2, <1>3

LEMMA TypeInvEnvironment == TypeInv /\ Environment => TypeInv'
<1> SUFFICES ASSUME TypeInv, Environment PROVE TypeInv'
  OBVIOUS
<1>1. /\ live \in [Paths -> Guids \cup {None, Dir}] /\ inode \in [Guids -> Inode]
      /\ edits \in Nat
  BY DEF TypeInv, TypeOK
<1>2. ASSUME NEW c \in Contents
      PROVE  [content |-> c, mtime |-> edits + 1, archive |-> TRUE] \in Inode
  BY <1>1 DEF Inode
<1>3. ASSUME NEW p \in Paths, NEW c \in Contents, WriteFile(p, c) PROVE TypeInv'
  BY <1>1, <1>2, <1>3, TypeInvEdit DEF WriteFile
<1>4. ASSUME NEW p \in Paths, NEW g \in Guids, NEW c \in Contents, CreateFile(p, g, c)
      PROVE  TypeInv'
  BY <1>1, <1>2, <1>4, TypeInvEdit DEF CreateFile
<1>5. ASSUME NEW p \in Paths, NEW q \in Paths, LinkFile(p, q) \/ RenameFile(q, p)
      PROVE  TypeInv'
  BY <1>1, <1>5, TypeInvEdit DEF LinkFile, RenameFile
<1>6. ASSUME NEW p \in Paths, DeletePath(p) \/ MakeDirectory(p) PROVE TypeInv'
  BY <1>1, <1>6, TypeInvEdit DEF DeletePath, MakeDirectory
<1>7. ASSUME NEW p \in Paths, ClearArchiveFlag(p) PROVE TypeInv'
  <2>1. live[p] \in Guids
    BY <1>1, <1>7 DEF ClearArchiveFlag, IsFile
  <2>2. [inode[live[p]] EXCEPT !.archive = FALSE] \in Inode
    BY <1>1, <2>1 DEF Inode
  <2> DEFINE i == [inode[live[p]] EXCEPT !.archive = FALSE]
  <2>3. inode' = [inode EXCEPT ![live[p]] = i]
    BY <1>7 DEF ClearArchiveFlag
  <2> HIDE DEF i
  <2>4. inode' \in [Guids -> Inode]
    BY <1>1, <2>2, <2>3 DEF i
  <2> QED
    BY <1>1, <1>7, <2>4, TypeInvEdit DEF ClearArchiveFlag
<1>8. ASSUME NEW v \in Versions, RemoveVersion(v) PROVE TypeInv'
  <2> USE DEF TypeInv, disk, settings, objects, oldTree, ids, pending
  <2>1. TypeOK'
    BY <1>8 DEF RemoveVersion, TypeOK
  <2>2. WellFormed'
    BY <1>8 DEF RemoveVersion, WellFormed, Busy
  <2> QED
    BY <2>1, <2>2
<1> QED
  BY <1>3, <1>4, <1>5, <1>6, <1>7, <1>8 DEF Environment

LEMMA TypeInvNext == TypeInv /\ [Next]_vars => TypeInv'
<1> SUFFICES ASSUME TypeInv, [Next]_vars PROVE TypeInv'
  OBVIOUS
<1>1. CASE Open \/ EndSession
  BY <1>1, TypeInvOpen, TypeInvEndSession
<1>2. CASE Backup
  BY <1>2, TypeInvBeginBackup, TypeInvListSource, TypeInvScanEntry,
     TypeInvRecalculateFileGuid, TypeInvPrepareStreams, TypeInvSkipObject,
     TypeInvAddStream, TypeInvKeepUnmodified, TypeInvWriteStream,
     TypeInvCommitArchive DEF Backup
<1>3. CASE Environment
  BY <1>3, TypeInvEnvironment
<1>4. CASE UNCHANGED vars
  BY <1>4 DEF TypeInv, TypeOK, WellFormed, vars, disk, store, settings, objects,
              oldTree, ids, pending, Stored, Busy
<1> QED
  BY <1>1, <1>2, <1>3, <1>4 DEF Next

\* Every variable of the backup engine keeps the shape the code gives it,
\* whatever other programs do and wherever a session ends; in particular no
\* archive ever holds a stream without data (AddFile).
THEOREM TypeCorrect == Spec => []TypeOK
<1>1. Spec => []TypeInv
  BY TypeInvInit, TypeInvNext, PTL DEF Spec
<1>2. TypeInv => TypeOK
  BY DEF TypeInv
<1> QED
  BY <1>1, <1>2, PTL

-----------------------------------------------------------------------------
(***************************************************************************)
(* Stream ids.  The argument: a session knows every stored version but the *)
(* one it writes itself, the ids of a backup start where the latest known  *)
(* version stopped, and ranges of older versions lie below that one's.     *)
(***************************************************************************)
\* While a session is open: what it does not know of is the version it made.
SessionKnows ==
  pc # "closed" =>
    /\ \A v \in known : v < count
    /\ \A v \in Stored : v \in known \/ v = count

\* The ids still to be given lie above those of every older version.
IdsAbove ==
  /\ pc \in {"list", "scan"} =>
       \A v \in known : arc[v].NextStreamUniqueId <= nextId
  /\ pc = "archive" =>
       /\ firstId <= nextId
       /\ \A v \in known : arc[v].NextStreamUniqueId <= firstId

\* The streams of a backup are numbered in order, and written in order.
StreamsInOrder ==
  /\ pc # "archive" => streams = <<>> /\ out = <<>>
  /\ \A i \in DOMAIN streams : streams[i].UniqueId \in firstId..(nextId - 1)
  /\ \A i, j \in DOMAIN streams : i < j => streams[i].UniqueId < streams[j].UniqueId
  /\ Len(out) <= Len(streams)
  /\ \A i \in DOMAIN out : out[i].StreamId = streams[i].UniqueId

RangesInOrder ==
  \A v \in Stored : arc[v].FirstStreamUniqueId <= arc[v].NextStreamUniqueId

IdInv == SessionKnows /\ IdsAbove /\ StreamsInOrder /\ RangesInOrder /\ StreamIdsUnique

LEMMA IdInvInit == Init => IdInv
  BY DEF Init, IdInv, SessionKnows, IdsAbove, StreamsInOrder, RangesInOrder,
         StreamIdsUnique, Stored

\* Steps that neither number nor store anything.
LEMMA IdInvFrame ==
  ASSUME IdInv, UNCHANGED <<arc, known, count, nextId, firstId, streams, out>>,
         pc' = pc \/ (pc = "list" /\ pc' = "scan")
  PROVE  IdInv'
<1> USE DEF IdInv
<1>1. SessionKnows'
  BY DEF SessionKnows, Stored
<1>2. IdsAbove'
  BY DEF IdsAbove
<1>3. StreamsInOrder'
  BY DEF StreamsInOrder
<1>4. RangesInOrder' /\ StreamIdsUnique'
  BY DEF RangesInOrder, StreamIdsUnique, Stored
<1> QED
  BY <1>1, <1>2, <1>3, <1>4

LEMMA IdInvOpen == TypeInv /\ IdInv /\ Open => IdInv'
<1> SUFFICES ASSUME TypeInv, IdInv, Open PROVE IdInv'
  OBVIOUS
<1> USE DEF IdInv, disk, store, objects, oldTree, ids, pending
<1>1. \A v \in Stored : v < count'
  <2>1. Stored \subseteq Nat /\ Stored # {} =>
          \E v \in Stored : IsLatest(v, Stored) /\ count' = v + 1
    BY BackupEngineAssumption DEF Open, IsVersionCount, Stored, Versions
  <2> QED
    BY <2>1 DEF IsLatest, Stored, Versions
<1>2. SessionKnows'
  BY <1>1 DEF Open, SessionKnows, Stored
<1>3. IdsAbove' /\ StreamsInOrder'
  BY DEF Open, IdsAbove, StreamsInOrder
<1>4. RangesInOrder' /\ StreamIdsUnique'
  BY DEF Open, RangesInOrder, StreamIdsUnique, Stored
<1> QED
  BY <1>2, <1>3, <1>4

LEMMA IdInvEndSession == IdInv /\ EndSession => IdInv'
<1> SUFFICES ASSUME IdInv, EndSession PROVE IdInv'
  OBVIOUS
<1> USE DEF IdInv, disk, store
<1>1. SessionKnows' /\ IdsAbove' /\ StreamsInOrder'
  BY DEF EndSession, SessionKnows, IdsAbove, StreamsInOrder
<1>2. RangesInOrder' /\ StreamIdsUnique'
  BY DEF EndSession, RangesInOrder, StreamIdsUnique, Stored
<1> QED
  BY <1>1, <1>2

\* The latest known version's manifest bounds the ids of all known versions.
LEMMA IdInvBeginBackup == TypeInv /\ IdInv /\ BeginBackup => IdInv'
<1> SUFFICES ASSUME TypeInv, IdInv, BeginBackup PROVE IdInv'
  OBVIOUS
<1> USE DEF IdInv, disk, store, settings, objects, pending
<1>1. known \subseteq Stored /\ Stored \subseteq Versions /\ Versions \subseteq Nat
  BY BackupEngineAssumption DEF BeginBackup, TypeInv, WellFormed, Stored, Versions
<1>2. \A w \in known : arc[w].NextStreamUniqueId <= nextId'
  <2>1. CASE count = 0
    BY <1>1, <2>1 DEF SessionKnows, BeginBackup
  <2>2. CASE count # 0
    <3>1. PICK v \in known : IsLatest(v, known) /\ nextId' = arc[v].NextStreamUniqueId
      BY <2>2 DEF BeginBackup, LoadedStreamId
    <3>2. \A w \in known : arc[w] \in Archive
      BY <1>1 DEF TypeInv, TypeOK, Stored
    <3>3. ASSUME NEW w \in known
          PROVE  arc[w].NextStreamUniqueId <= arc[v].NextStreamUniqueId
      <4>1. CASE w = v
        BY <3>2, <4>1 DEF Archive
      <4>2. CASE w < v
        <5>1. /\ arc[w].NextStreamUniqueId <= arc[v].FirstStreamUniqueId
              /\ arc[v].FirstStreamUniqueId <= arc[v].NextStreamUniqueId
          BY <1>1, <4>2 DEF StreamIdsUnique, RangesInOrder
        <5> QED
          BY <3>2, <5>1 DEF Archive
      <4> QED
        BY <1>1, <3>1, <4>1, <4>2 DEF IsLatest
    <3> QED
      BY <3>1, <3>3
  <2> QED
    BY <2>1, <2>2
<1>3. SessionKnows'
  BY DEF BeginBackup, SessionKnows, Stored
<1>4. IdsAbove'
  BY <1>2 DEF BeginBackup, IdsAbove
<1>5. StreamsInOrder'
  BY DEF BeginBackup, StreamsInOrder
<1>6. RangesInOrder' /\ StreamIdsUnique'
  BY DEF BeginBackup, RangesInOrder, StreamIdsUnique, Stored
<1> QED
  BY <1>3, <1>4, <1>5, <1>6

LEMMA IdInvPrepareStreams == TypeInv /\ IdInv /\ PrepareStreams => IdInv'
<1> SUFFICES ASSUME TypeInv, IdInv, PrepareStreams PROVE IdInv'
  OBVIOUS
<1> USE DEF IdInv, disk, store, settings, objects, oldTree, pending
<1>1. nextId \in Nat
  BY DEF TypeInv, TypeOK
<1>2. SessionKnows'
  BY DEF PrepareStreams, SessionKnows, Stored
<1>3. IdsAbove'
  BY <1>1 DEF PrepareStreams, IdsAbove
<1>4. StreamsInOrder'
  BY DEF PrepareStreams, StreamsInOrder
<1>5. RangesInOrder' /\ StreamIdsUnique'
  BY DEF PrepareStreams, RangesInOrder, StreamIdsUnique, Stored
<1> QED
  BY <1>2, <1>3, <1>4, <1>5

\* A stream that is added gets the next id.
LEMMA IdInvAddStream ==
  ASSUME TypeInv, IdInv, NEW p \in Paths, AddInitialStream(p) \/ AddChangedFile(p)
  PROVE  IdInv'
<1> USE DEF IdInv
<1>1. Visit(p) /\ \E h : AddFullStream(p, h)
  BY DEF AddInitialStream, AddChangedFile
<1> DEFINE s == [UniqueId |-> nextId, fso |-> p]
<1>2. /\ pc = "archive" /\ pc' = "archive" /\ nextId' = nextId + 1
      /\ UNCHANGED <<arc, known, count, firstId, out>>
      /\ streams' = Append(streams, s)
  BY <1>1 DEF Visit, AddFullStream, store, settings
<1>3. nextId \in Nat /\ firstId \in Nat /\ streams \in Seq(Stream) /\ out \in Seq(Written)
  BY DEF TypeInv, TypeOK
<1>4. firstId <= nextId
  BY <1>2 DEF IdsAbove
<1>5. SessionKnows'
  BY <1>2 DEF SessionKnows, Stored
<1>6. IdsAbove'
  BY <1>2, <1>3 DEF IdsAbove
<1>7. StreamsInOrder'
  <2>1. /\ Len(streams') = Len(streams) + 1 /\ DOMAIN streams' = 1..(Len(streams) + 1)
        /\ DOMAIN streams = 1..Len(streams) /\ Len(streams) \in Nat
        /\ Len(out) \in Nat /\ DOMAIN out = 1..Len(out)
        /\ \A i \in DOMAIN streams : streams'[i] = streams[i]
        /\ streams'[Len(streams) + 1].UniqueId = nextId
    BY <1>2, <1>3
  <2>2. \A i \in DOMAIN streams : streams[i].UniqueId \in firstId..(nextId - 1)
    BY DEF StreamsInOrder
  <2>3. \A i \in DOMAIN streams' : streams'[i].UniqueId \in firstId'..(nextId' - 1)
    BY <1>2, <1>3, <1>4, <2>1, <2>2
  <2>4. ASSUME NEW i \in DOMAIN streams', NEW j \in DOMAIN streams', i < j
        PROVE  streams'[i].UniqueId < streams'[j].UniqueId
    <3>1. i \in DOMAIN streams
      BY <2>1, <2>4
    <3>2. CASE j \in DOMAIN streams
      BY <2>1, <2>4, <3>1, <3>2 DEF StreamsInOrder
    <3>3. CASE j = Len(streams) + 1
      BY <1>3, <2>1, <2>2, <3>1, <3>3
    <3> QED
      BY <2>1, <3>2, <3>3
  <2>5. Len(out) <= Len(streams') /\ \A i \in DOMAIN out : out[i].StreamId = streams'[i].UniqueId
    BY <2>1 DEF StreamsInOrder
  <2> QED
    BY <1>2, <2>3, <2>4, <2>5 DEF StreamsInOrder
<1>8. RangesInOrder' /\ StreamIdsUnique'
  BY <1>2 DEF RangesInOrder, StreamIdsUnique, Stored
<1> QED
  BY <1>5, <1>6, <1>7, <1>8

\* The streams are written in the order of their ids.
LEMMA IdInvWriteStream == TypeInv /\ IdInv /\ WriteStream => IdInv'
<1> SUFFICES ASSUME TypeInv, IdInv, WriteStream PROVE IdInv'
  OBVIOUS
<1> USE DEF IdInv
<1>1. PICK c : out' = Append(out, [StreamId |-> streams[Len(out) + 1].UniqueId, data |-> c])
  BY DEF WriteStream
<1>2. /\ pc = "archive" /\ Len(out) < Len(streams)
      /\ UNCHANGED <<arc, known, count, pc, firstId, nextId, streams>>
  BY DEF WriteStream, store, settings, ids
<1>3. streams \in Seq(Stream) /\ out \in Seq(Written)
  BY DEF TypeInv, TypeOK
<1>4. /\ Len(out') = Len(out) + 1 /\ DOMAIN out' = 1..(Len(out) + 1)
      /\ DOMAIN out = 1..Len(out) /\ Len(out) \in Nat /\ Len(streams) \in Nat
      /\ \A i \in DOMAIN out : out'[i] = out[i]
      /\ out'[Len(out) + 1].StreamId = streams[Len(out) + 1].UniqueId
  BY <1>1, <1>3
<1>5. StreamsInOrder'
  <2>1. \A i \in DOMAIN out' : out'[i].StreamId = streams[i].UniqueId
    BY <1>4 DEF StreamsInOrder
  <2> QED
    BY <1>2, <1>4, <2>1 DEF StreamsInOrder
<1>6. SessionKnows' /\ IdsAbove' /\ RangesInOrder' /\ StreamIdsUnique'
  BY <1>2 DEF SessionKnows, IdsAbove, RangesInOrder, StreamIdsUnique, Stored
<1> QED
  BY <1>5, <1>6

\* The new archive's ids fill the range above all older ones.
LEMMA IdInvCommitArchive == TypeInv /\ IdInv /\ CommitArchive => IdInv'
<1> SUFFICES ASSUME TypeInv, IdInv, CommitArchive PROVE IdInv'
  OBVIOUS
<1> USE DEF IdInv
<1>1. /\ pc = "archive" /\ pc' = "open" /\ UNCHANGED <<known, count>>
      /\ streams' = <<>> /\ out' = <<>> /\ Len(out) = Len(streams)
      /\ arc' = [arc EXCEPT ![count] = NewArchive]
  BY DEF CommitArchive, settings
<1>2. /\ arc \in [Versions -> Archive \cup {None}] /\ Versions \subseteq Nat
      /\ nextId \in Nat /\ firstId \in Nat
      /\ streams \in Seq(Stream) /\ out \in Seq(Written)
  BY BackupEngineAssumption DEF TypeInv, TypeOK, Versions
<1>3. /\ NewArchive.FirstStreamUniqueId = firstId
      /\ NewArchive.NextStreamUniqueId = nextId
      /\ NewArchive.Streams = out
  BY DEF NewArchive
<1>4. ASSUME NEW v \in Stored', v # count
      PROVE  v \in Stored /\ v \in known /\ v < count /\ arc'[v] = arc[v] /\ v \in Nat
             /\ arc[v].NextStreamUniqueId <= firstId
  <2>1. v \in Stored /\ arc'[v] = arc[v]
    BY <1>1, <1>2, <1>4 DEF Stored
  <2> QED
    BY <1>1, <1>2, <1>4, <2>1 DEF SessionKnows, IdsAbove, Stored
<1>5. count \in Stored' => arc'[count] = NewArchive
  BY <1>1, <1>2 DEF Stored
<1>6. SessionKnows'
  BY <1>1, <1>4 DEF SessionKnows
<1>7. IdsAbove' /\ StreamsInOrder'
  BY <1>1 DEF IdsAbove, StreamsInOrder
<1>8. RangesInOrder'
  BY <1>1, <1>3, <1>4, <1>5 DEF RangesInOrder, IdsAbove
<1>9. StreamIdsUnique'
  <2>1. ASSUME NEW v \in Stored'
        PROVE  LET s == arc'[v].Streams
               IN  /\ \A i \in DOMAIN s :
                        s[i].StreamId \in arc'[v].FirstStreamUniqueId ..
                                            (arc'[v].NextStreamUniqueId - 1)
                   /\ \A i, j \in DOMAIN s : i < j => s[i].StreamId < s[j].StreamId
    <3>1. CASE v # count
      BY <1>4, <3>1 DEF StreamIdsUnique
    <3>2. CASE v = count
      <4>1. DOMAIN out = DOMAIN streams
        BY <1>1, <1>2
      <4>2. \A i \in DOMAIN out : out[i].StreamId = streams[i].UniqueId
        BY DEF StreamsInOrder
      <4>3. /\ \A i \in DOMAIN out : out[i].StreamId \in firstId..(nextId - 1)
            /\ \A i, j \in DOMAIN out : i < j => out[i].StreamId < out[j].StreamId
        BY <4>1, <4>2 DEF StreamsInOrder
      <4> QED
        BY <1>3, <1>5, <3>2, <4>3
    <3> QED
      BY <3>1, <3>2
  <2>2. ASSUME NEW v \in Stored', NEW w \in Stored', v < w
        PROVE  arc'[v].NextStreamUniqueId <= arc'[w].FirstStreamUniqueId
    <3>1. CASE v = count
      BY <1>2, <1>4, <2>2, <3>1 DEF Stored
    <3>2. CASE v # count /\ w = count
      BY <1>3, <1>4, <1>5, <3>2
    <3>3. CASE v # count /\ w # count
      BY <1>4, <2>2, <3>3 DEF StreamIdsUnique
    <3> QED
      BY <3>1, <3>2, <3>3
  <2> QED
    BY <2>1, <2>2 DEF StreamIdsUnique
<1> QED
  BY <1>6, <1>7, <1>8, <1>9

LEMMA IdInvEnvironment == IdInv /\ Environment => IdInv'
<1> SUFFICES ASSUME IdInv, Environment PROVE IdInv'
  OBVIOUS
<1>1. CASE \E v \in Versions : RemoveVersion(v)
  <2>1. PICK v \in Versions : RemoveVersion(v)
    BY <1>1
  <2>2. /\ pc = "closed" /\ UNCHANGED <<pc, known, count, nextId, firstId, streams, out>>
        /\ arc' = [arc EXCEPT ![v] = None]
    BY <2>1 DEF RemoveVersion, settings, ids, pending
  <2>3. \A w \in Stored' : w \in Stored /\ arc'[w] = arc[w]
    BY <2>2 DEF Stored
  <2>4. SessionKnows' /\ IdsAbove' /\ StreamsInOrder'
    BY <2>2 DEF IdInv, SessionKnows, IdsAbove, StreamsInOrder
  <2>5. RangesInOrder'
    BY <2>3 DEF IdInv, RangesInOrder
  <2>6. StreamIdsUnique'
    BY <2>3 DEF IdInv, StreamIdsUnique
  <2> QED
    BY <2>4, <2>5, <2>6 DEF IdInv
<1>2. CASE \E kind : Edit(kind)
  BY <1>2, IdInvFrame DEF Edit, store, settings, ids, pending
<1> QED
  BY <1>1, <1>2 DEF Environment, WriteFile, CreateFile, LinkFile, RenameFile,
                    DeletePath, MakeDirectory, ClearArchiveFlag

LEMMA IdInvNext == TypeInv /\ IdInv /\ [Next]_vars => IdInv'
<1> SUFFICES ASSUME TypeInv, IdInv, [Next]_vars PROVE IdInv'
  OBVIOUS
<1> USE DEF store, settings, ids, pending
<1>1. CASE Open \/ EndSession
  BY <1>1, IdInvOpen, IdInvEndSession
<1>2. CASE ListSource \/ ReuseBaseObjects
  BY <1>2, IdInvFrame DEF ListSource, ReuseBaseObjects
<1>3. CASE \E p \in Paths : ScanEntry(p) \/ RecalculateFileGuid(p)
  BY <1>3, IdInvFrame DEF ScanEntry, RecalculateFileGuid
<1>4. CASE \E p \in Paths : SkipObject(p) \/ KeepUnmodified(p)
  BY <1>4, IdInvFrame DEF SkipObject, KeepUnmodified, Visit
<1>5. CASE UNCHANGED vars
  BY <1>5, IdInvFrame DEF vars
<1> QED
  BY <1>1, <1>2, <1>3, <1>4, <1>5, IdInvBeginBackup, IdInvPrepareStreams,
     IdInvAddStream, IdInvWriteStream, IdInvCommitArchive, IdInvEnvironment
     DEF Next, Backup

\* No stream id is ever used twice on a target, within a version or across
\* versions, and ids ascend from version to version (GetStreamId and the
\* NextStreamUniqueId that manifests hand on), for every number of versions
\* and however sessions end.
THEOREM StreamIdsNeverReused == Spec => []StreamIdsUnique
<1>1. Init => TypeInv /\ IdInv
  BY TypeInvInit, IdInvInit
<1>2. TypeInv /\ IdInv /\ [Next]_vars => (TypeInv /\ IdInv)'
  BY TypeInvNext, IdInvNext
<1>3. IdInv => StreamIdsUnique
  BY DEF IdInv
<1> QED
  BY <1>1, <1>2, <1>3, PTL DEF Spec

-----------------------------------------------------------------------------
(***************************************************************************)
(* Committed versions.  The number a session writes is free until it made  *)
(* a backup.                                                               *)
(***************************************************************************)
NumberFree ==
  /\ pc # "closed" /\ backups = 0 => \A v \in Stored : v < count
  /\ Busy => backups < MaxSessionBackups

LEMMA NumberFreeInit == Init => NumberFree
  BY DEF Init, NumberFree, Busy

LEMMA NumberFreeFrame ==
  ASSUME NumberFree, UNCHANGED <<arc, count, backups>>, pc' = pc \/ (Busy /\ Busy')
  PROVE  NumberFree'
  BY DEF NumberFree, Busy, Stored

LEMMA NumberFreeNext ==
  TypeInv /\ NumberFree /\ [Next]_vars => NumberFree'
<1> SUFFICES ASSUME TypeInv, NumberFree, [Next]_vars PROVE NumberFree'
  OBVIOUS
<1> USE DEF store, settings
<1>1. CASE Open
  <2>1. \A v \in Stored : v < count'
    <3>1. Stored \subseteq Nat /\ Stored # {} =>
            \E v \in Stored : IsLatest(v, Stored) /\ count' = v + 1
      BY <1>1, BackupEngineAssumption DEF Open, IsVersionCount, Stored, Versions
    <3> QED
      BY <3>1 DEF IsLatest, Stored, Versions
  <2> QED
    BY <1>1, <2>1 DEF Open, NumberFree, Busy, Stored
<1>2. CASE EndSession
  BY <1>2 DEF EndSession, NumberFree, Busy
<1>3. CASE BeginBackup
  BY <1>3 DEF BeginBackup, NumberFree, Busy, Stored
<1>4. CASE ListSource \/ ReuseBaseObjects \/ PrepareStreams \/ WriteStream
  BY <1>4, NumberFreeFrame DEF ListSource, ReuseBaseObjects, PrepareStreams,
                               WriteStream, Busy
<1>5. CASE \E p \in Paths : ScanEntry(p) \/ RecalculateFileGuid(p)
  BY <1>5, NumberFreeFrame DEF ScanEntry, RecalculateFileGuid
<1>6. CASE \E p \in Paths : SkipObject(p) \/ AddInitialStream(p)
                            \/ AddChangedFile(p) \/ KeepUnmodified(p)
  BY <1>6, NumberFreeFrame DEF SkipObject, AddInitialStream, AddChangedFile,
                               KeepUnmodified, Visit
<1>7. CASE CommitArchive
  BY <1>7 DEF CommitArchive, NumberFree, Busy, TypeInv, TypeOK
<1>8. CASE Environment
  <2>1. CASE \E kind : Edit(kind)
    BY <2>1, NumberFreeFrame DEF Edit
  <2>2. CASE \E v \in Versions : RemoveVersion(v)
    BY <2>2 DEF RemoveVersion, NumberFree, Busy
  <2> QED
    BY <1>8, <2>1, <2>2 DEF Environment, WriteFile, CreateFile, LinkFile,
       RenameFile, DeletePath, MakeDirectory, ClearArchiveFlag
<1>9. CASE UNCHANGED vars
  BY <1>9, NumberFreeFrame DEF vars
<1> QED
  BY <1>1, <1>2, <1>3, <1>4, <1>5, <1>6, <1>7, <1>8, <1>9 DEF Next, Backup

\* What a step may make of a version, as CommittedImmutable says it.
VersionStays(v) ==
  arc[v] # None =>
    \/ arc'[v] \in {arc[v], None}
    \/ pc = "archive" /\ backups > 0 /\ v \notin known

\* A commit that finds a file under the number it writes is not the session's
\* first, and the session did not find that version: it knows lower ones only.
LEMMA CommitLeavesVersions ==
  ASSUME TypeInv, SessionKnows, NumberFree, CommitArchive, NEW v \in Versions
  PROVE  VersionStays(v)
<1>1. pc = "archive" /\ arc' = [arc EXCEPT ![count] = NewArchive] /\ backups \in Nat
  BY DEF CommitArchive, TypeInv, TypeOK
<1>2. CASE v # count
  BY <1>1, <1>2 DEF VersionStays, TypeInv, TypeOK
<1>3. CASE v = count
  <2> SUFFICES ASSUME arc[v] # None PROVE backups > 0 /\ v \notin known
    BY <1>1 DEF VersionStays
  <2>1. v \in Stored /\ v \in Int
    BY DEF Stored, Versions
  <2>2. backups # 0
    BY <1>1, <1>3, <2>1 DEF NumberFree
  <2>3. v \notin known
    BY <1>1, <1>3, <2>1 DEF SessionKnows
  <2> QED
    BY <1>1, <2>2, <2>3
<1> QED
  BY <1>2, <1>3

LEMMA StepLeavesVersions ==
  ASSUME TypeInv, SessionKnows, NumberFree, [Next]_vars
  PROVE  \A v \in Versions : VersionStays(v)
<1> SUFFICES ASSUME NEW v \in Versions PROVE VersionStays(v)
  OBVIOUS
<1>1. CASE CommitArchive
  BY <1>1, CommitLeavesVersions
<1>2. CASE \E w \in Versions : RemoveVersion(w)
  BY <1>2 DEF RemoveVersion, VersionStays, TypeInv, TypeOK
<1>3. CASE UNCHANGED arc
  BY <1>3 DEF VersionStays
<1> QED
  BY <1>1, <1>2, <1>3
     DEF Next, Backup, Environment, vars, store, Open, EndSession, BeginBackup,
         ListSource, ReuseBaseObjects, ScanEntry, RecalculateFileGuid,
         PrepareStreams, SkipObject, AddInitialStream, AddChangedFile,
         KeepUnmodified, Visit, WriteStream, WriteFile, CreateFile, LinkFile,
         RenameFile, DeletePath, MakeDirectory, ClearArchiveFlag, Edit

\* No step changes a version a session found when it began: VersionCount gives
\* a number no version had then, and an archive that is not finished is not seen
\* (ArchiveWriter's transaction).  What a step does change is the version its
\* own session wrote before, by a further commit under the same number.
THEOREM CommittedVersionsStay == Spec => CommittedImmutable
<1> DEFINE Inv == TypeInv /\ IdInv /\ NumberFree
<1>1. Init => Inv
  BY TypeInvInit, IdInvInit, NumberFreeInit
<1>2. Inv /\ [Next]_vars => Inv'
  BY TypeInvNext, IdInvNext, NumberFreeNext
<1>3. Inv /\ [Next]_vars
        => [\A v \in Versions :
              arc[v] # None =>
                \/ arc'[v] \in {arc[v], None}
                \/ pc = "archive" /\ backups > 0 /\ v \notin known]_vars
  BY StepLeavesVersions DEF VersionStays, IdInv
<1> QED
  BY <1>1, <1>2, <1>3, PTL DEF Spec, CommittedImmutable

=============================================================================
