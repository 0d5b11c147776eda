---------------------------- MODULE BackupEngine ----------------------------
(***************************************************************************)
(* The backup half of BaseBackupEngine (src/BackupEngine/BackupEngine.cs): *)
(* sessions that open a target location, scan a source directory, decide   *)
(* which files changed since the latest version, write the changed ones as *)
(* numbered streams into a transacted archive and commit it.               *)
(*                                                                         *)
(* One source directory is modelled.  Its entries are Paths, numbered in   *)
(* the order Iterate visits them.  Files have an identity (the NTFS object *)
(* id, Guids), so that two paths may be hardlinks to one file.  A hash     *)
(* stands for the content it was computed from.                            *)
(***************************************************************************)
EXTENDS Integers, Sequences, FiniteSets

CONSTANTS
  NPaths,             \* entries of the source directory
  Guids,              \* identities of files
  Contents,           \* what a file may hold
  SizeOf,             \* the size of each content
  MaxVersions,        \* bound: version numbers are 0..MaxVersions-1
  Devices,            \* names a shadow copy device can get
  SnapshotModes,      \* values of UseSnapshots, a subset of BOOLEAN
  Criteria,           \* change criteria a session may be opened with
  Exclusions,         \* sets of excluded paths a session may be opened with
  EditKinds,          \* what other programs do to the source directory
  MaxEdits,           \* bound: number of those edits
  ConcurrentEdits,    \* may they happen while a backup runs?
  MaxSessionBackups,  \* bound: backups run in one session
  None, Dir, Live     \* no value; a directory entry; the unmapped location

Paths    == 1..NPaths
Versions == 0..(MaxVersions - 1)
Locs     == Devices \cup {Live}

\* HashAuto hashes files below a size limit and trusts the date above it; the
\* limit of 1 MiB is 2 units of SizeOf here.
HashAutoLimit == 2

ASSUME BackupEngineAssumption ==
  /\ NPaths \in Nat
  /\ MaxVersions \in Nat
  /\ MaxEdits \in Nat
  /\ MaxSessionBackups \in Nat
  /\ SizeOf \in [Contents -> Nat]
  /\ SnapshotModes \subseteq BOOLEAN
  /\ Criteria \subseteq {"Hash", "Date", "Size", "ArchiveFlag", "HashAuto"}
  /\ Exclusions \subseteq SUBSET Paths
  /\ ConcurrentEdits \in BOOLEAN
  /\ None \notin Guids \cup Contents \cup Devices \cup {Dir, Live}
  /\ Dir \notin Guids
  /\ Live \notin Devices

-----------------------------------------------------------------------------
(***************************************************************************)
(* Values: a file system object as the scan builds it, the part of it an   *)
(* archive stores, and an archive.                                         *)
(***************************************************************************)
FileTypes == {"RegularFile", "FileHardlink"}

Modes     == {"NoBackup", "Directory", "Full", "Unmodified"}

\* What an archive keeps of an object.  A directory and a path that vanished
\* before it was looked at (which get_file_system_object_type takes for a
\* junction) are objects without data.
StoredFso ==
  [Type             : FileTypes \cup {"Directory", "Junction"},
   StreamUniqueId   : Nat,
   LatestVersion    : Int,
   FileSystemGuid   : Guids \cup {None},
   Hashes           : Contents \cup {None},
   ModificationTime : Nat,
   Size             : Nat]

\* In memory an object has three more fields, which are not serialized:
\* BackupStream is the kind of stream it is attached to.
Fso ==
  [Type             : FileTypes \cup {"Directory", "Junction"},
   StreamUniqueId   : Nat,
   LatestVersion    : Int,
   FileSystemGuid   : Guids \cup {None},
   Hashes           : Contents \cup {None},
   ModificationTime : Nat,
   Size             : Nat,
   ArchiveFlag      : BOOLEAN,
   BackupMode       : Modes,
   BackupStream     : {"None", "Full", "Unmodified"}]

Serialized(f) ==
  [Type |-> f.Type, StreamUniqueId |-> f.StreamUniqueId,
   LatestVersion |-> f.LatestVersion, FileSystemGuid |-> f.FileSystemGuid,
   Hashes |-> f.Hashes, ModificationTime |-> f.ModificationTime, Size |-> f.Size]

\* The main base object: where it was read, what path that stands for (a
\* restore works there), and as what it was read.
Main   == [MappedBasePath : Locs, UnmappedBasePath : Locs,
           Type : {"Directory", "Junction"}]
Inode  == [content : Contents, mtime : Nat, archive : BOOLEAN]
Shadow == [device : Devices,
           live   : [Paths -> Guids \cup {None, Dir}],
           inode  : [Guids -> Inode]]

Stream  == [UniqueId : Nat, fso : Paths]
Written == [StreamId : Nat, data : Contents]

Archive ==
  [VersionDependencies : SUBSET Int,
   FirstStreamUniqueId : Nat,
   NextStreamUniqueId  : Nat,
   main                : Main,
   BaseObjects         : [Paths -> StoredFso \cup {None}],
   Streams             : Seq(Written)]

\* What a backup was asked for, and what each path held while it ran.  Only
\* the properties read it.
Truth ==
  [seen : [Paths -> SUBSET Contents], excluded : SUBSET Paths,
   crit : Criteria, useSnapshots : BOOLEAN, attempt : Nat]

\* None, the null reference, is none of the objects it stands in for.
ASSUME NoneAssumption ==
  /\ None \notin Main /\ None \notin Fso /\ None \notin StoredFso
  /\ None \notin Archive /\ None \notin Shadow

NoObjects == [p \in Paths |-> None]
NoTruth   == [p \in Paths |-> {}]

-----------------------------------------------------------------------------
VARIABLES
  live, inode, edits,          \* the source directory, changed by anyone
  arc, truth,                  \* the target location; what it should hold
  pc,                          \* where the session is
  known, count,                \* Versions and _versionCount, set by the open
  useSnapshots, crit, excluded,\* the session's settings
  backups,                     \* backups this session completed
  shadow,                      \* _currentSnapshot
  baseSet, main, base,         \* _baseObjectsSet and BaseObjects
  old, oldMain,                \* _oldObjects
  todo, retry,                 \* paths left in a loop; _recalculateFileGuids
  nextId, firstId,             \* NextStreamUniqueId; its value at the start
  guids, streams, out,         \* knownGuids; streams to write; streams written
  seen                         \* contents seen since this backup started

disk     == <<live, inode, edits>>
store    == <<arc, truth>>
settings == <<known, count, useSnapshots, crit, excluded>>
objects  == <<baseSet, main, base>>
oldTree  == <<old, oldMain>>
ids      == <<nextId, firstId>>
pending  == <<guids, streams, out>>
vars == <<disk, store, pc, settings, backups, shadow, objects, oldTree,
          todo, retry, ids, pending, seen>>

Stored == {v \in Versions : arc[v] # None}
Busy   == pc \notin {"closed", "open"}

\* Versions.Back() of a sorted list of version numbers.
IsLatest(v, S) == v \in S /\ \A w \in S : w <= v
IsFirst(p, S)  == p \in S /\ \A q \in S : p <= q

-----------------------------------------------------------------------------
(***************************************************************************)
(* Reading the source through a location: the live tree, or a shadow copy, *)
(* which can be reached only while its snapshot exists.                    *)
(***************************************************************************)
Reachable(l) == l = Live \/ (shadow # None /\ shadow.device = l)

EntryAt(l, p) ==
  IF l = Live THEN live[p] ELSE IF Reachable(l) THEN shadow.live[p] ELSE None

InodeAt(l, g) == IF l = Live THEN inode[g] ELSE shadow.inode[g]

IsFile(e) == e \notin {None, Dir}

\* The content a reader of p gets, None when the path cannot be opened.
ReadAt(l, p) ==
  LET e == EntryAt(l, p) IN IF IsFile(e) THEN InodeAt(l, e).content ELSE None

\* MapPathForward: only live paths have a shadow copy's path.
MapPathForward_WrongIdentity(l) == l
MapPathForward(l) == IF l = Live /\ shadow # None THEN shadow.device ELSE l

ContentsOf(lv, ino) ==
  [p \in Paths |-> IF IsFile(lv[p]) THEN {ino[lv[p]].content} ELSE {}]

-----------------------------------------------------------------------------
(***************************************************************************)
(* Sessions.  A target starts empty.  Opening it lists the versions there  *)
(* and computes the number of the next one; neither is updated again while *)
(* the session lasts.                                                      *)
(***************************************************************************)
Init ==
  /\ live \in [Paths -> Guids \cup {None, Dir}]
  /\ inode \in [Guids -> [content : Contents, mtime : {0}, archive : {TRUE}]]
  /\ edits = 0
  /\ arc = [v \in Versions |-> None] /\ truth = [v \in Versions |-> None]
  /\ pc = "closed"
  /\ known = {} /\ count = 0
  /\ useSnapshots = TRUE /\ crit = "Hash" /\ excluded = {}
  /\ backups = 0 /\ shadow = None
  /\ baseSet = FALSE /\ main = None /\ base = NoObjects
  /\ old = NoObjects /\ oldMain = None
  /\ todo = {} /\ retry = {}
  /\ nextId = 1 /\ firstId = 1
  /\ guids = [g \in Guids |-> 0] /\ streams = <<>> /\ out = <<>>
  /\ seen = NoTruth

\* n is the VersionCount of a target that holds the versions S.  (Definitions
\* named ..._Wrong... are plausible errors: with one of them in place of the
\* definition that follows it, a property below fails.)
IsVersionCount_WrongHowMany(n, S) == n = Cardinality(S)
IsVersionCount(n, S) ==
  IF S = {} THEN n = 0 ELSE \E v \in S : IsLatest(v, S) /\ n = v + 1

Open ==
  /\ pc = "closed" /\ pc' = "open"
  /\ known' = Stored
  /\ \E n \in 0..MaxVersions : IsVersionCount(n, Stored) /\ count' = n
  /\ useSnapshots' \in SnapshotModes
  /\ crit' \in Criteria
  /\ excluded' \in Exclusions
  /\ UNCHANGED <<disk, store, backups, shadow, objects, oldTree, todo, retry,
                 ids, pending, seen>>

\* The process ends: its user quits, it is killed, or an exception nobody
\* catches stops it.  The transaction an archive is written in rolls back.
EndSession ==
  /\ pc # "closed" /\ pc' = "closed"
  /\ known' = {} /\ count' = 0
  /\ useSnapshots' = TRUE /\ crit' = "Hash" /\ excluded' = {}
  /\ backups' = 0 /\ shadow' = None
  /\ baseSet' = FALSE /\ main' = None /\ base' = NoObjects
  /\ old' = NoObjects /\ oldMain' = None
  /\ todo' = {} /\ retry' = {}
  /\ nextId' = 1 /\ firstId' = 1
  /\ guids' = [g \in Guids |-> 0] /\ streams' = <<>> /\ out' = <<>>
  /\ seen' = NoTruth
  /\ UNCHANGED <<disk, store>>

-----------------------------------------------------------------------------
(***************************************************************************)
(* A backup: take the snapshot, load the latest version, scan the source.  *)
(***************************************************************************)
\* Stream ids go on where the latest version's manifest says they stopped.
LoadedStreamId_WrongField(a) == a.FirstStreamUniqueId
LoadedStreamId(a) == a.NextStreamUniqueId

BeginBackup ==
  /\ pc = "open" /\ pc' = "list"
  /\ backups < MaxSessionBackups /\ count < MaxVersions
  /\ IF useSnapshots
       THEN \E d \in Devices :
              shadow' = [device |-> d, live |-> live, inode |-> inode]
       ELSE shadow' = None
  /\ IF count = 0
       THEN UNCHANGED <<oldTree, nextId>>
       ELSE \E v \in known :
              /\ IsLatest(v, known)
              /\ old' = arc[v].BaseObjects
              /\ oldMain' = arc[v].main
              /\ nextId' = LoadedStreamId(arc[v])
  /\ seen' = ContentsOf(live, inode)
  /\ UNCHANGED <<disk, store, settings, backups, objects, todo, retry, firstId,
                 pending>>

\* GetCurrentSourceLocations: the location given by the user in a first
\* version, in a later one the path the latest version was read at.
CurrentSourceLocation == IF count = 0 THEN Live ELSE oldMain.MappedBasePath

\* Where the source is read.
SourceLocation == MapPathForward(CurrentSourceLocation)

ListSource ==
  /\ pc = "list" /\ pc' = "scan"
  /\ ~baseSet /\ baseSet' = TRUE
  /\ LET l == SourceLocation
     IN  /\ main' = [MappedBasePath |-> l,
                     UnmappedBasePath |-> CurrentSourceLocation,
                     Type |-> IF Reachable(l) THEN "Directory" ELSE "Junction"]
         /\ todo' = {p \in Paths : EntryAt(l, p) # None}
  /\ UNCHANGED <<disk, store, settings, backups, shadow, base, oldTree, retry,
                 ids, pending, seen>>

\* A session scans once.
ReuseBaseObjects ==
  /\ pc = "list" /\ pc' = "scan"
  /\ baseSet
  /\ UNCHANGED <<disk, store, settings, backups, shadow, objects, oldTree, todo,
                 retry, ids, pending, seen>>

BackupModeFor(p, type) ==
  IF p \in excluded THEN "NoBackup"
  ELSE IF type \in FileTypes THEN "Full" ELSE "Directory"

\* The object for path p, where the scan finds entry e and the identity g.
FsoFor(p, e, g) ==
  LET l    == main.MappedBasePath
      type == CASE e = None -> "Junction"
                [] e = Dir  -> "Directory"
                [] OTHER    -> IF \E q \in Paths \ {p} : EntryAt(l, q) = e
                                 THEN "FileHardlink" ELSE "RegularFile"
  IN  [Type |-> type,
       StreamUniqueId |-> 0, LatestVersion |-> 0,
       FileSystemGuid |-> g, Hashes |-> None,
       ModificationTime |-> IF IsFile(e) THEN InodeAt(l, e).mtime ELSE 0,
       Size |-> IF IsFile(e) THEN SizeOf[InodeAt(l, e).content] ELSE 0,
       ArchiveFlag |-> IF IsFile(e) THEN InodeAt(l, e).archive ELSE TRUE,
       BackupMode |-> BackupModeFor(p, type), BackupStream |-> "None"]

\* CreateChild.  A shadow copy is read-only: the identity of a file without
\* an object id cannot be set there and is asked for again after the scan.
ScanEntry(p) ==
  /\ pc = "scan"
  /\ IsFirst(p, todo) /\ todo' = todo \ {p}
  /\ LET e == EntryAt(main.MappedBasePath, p)
     IN  \/ /\ base' = [base EXCEPT ![p] = FsoFor(p, e, IF IsFile(e) THEN e ELSE None)]
            /\ UNCHANGED retry
         \/ /\ IsFile(e) /\ main.MappedBasePath # Live
            /\ base' = [base EXCEPT ![p] = FsoFor(p, e, None)]
            /\ retry' = retry \cup {p}
  /\ UNCHANGED <<disk, store, pc, settings, backups, shadow, baseSet, main,
                 oldTree, ids, pending, seen>>

\* The second try opens the live path the shadow copy's path stands for.
RecalculateFileGuid(p) ==
  /\ pc = "scan" /\ todo = {}
  /\ IsFirst(p, retry) /\ retry' = retry \ {p}
  /\ base' = [base EXCEPT ![p].FileSystemGuid =
                IF IsFile(live[p]) THEN live[p] ELSE None]
  /\ UNCHANGED <<disk, store, pc, settings, backups, shadow, baseSet, main,
                 oldTree, todo, ids, pending, seen>>

-----------------------------------------------------------------------------
(***************************************************************************)
(* Deciding what to write.  Every object found at the same mapped path in  *)
(* the latest version hands its stream id over; then the objects are       *)
(* visited in order.                                                       *)
(***************************************************************************)
\* The object at p in the latest version (FindPath, _oldObjectsDict): paths
\* are compared as they were mapped.
OldObject(p) ==
  IF count > 0 /\ oldMain.MappedBasePath = main.MappedBasePath
    THEN old[p] ELSE None

PrepareStreams ==
  /\ pc = "scan" /\ todo = {} /\ retry = {} /\ pc' = "archive"
  /\ base' = [p \in Paths |->
                IF base[p] = None \/ OldObject(p) = None THEN base[p]
                ELSE [base[p] EXCEPT !.StreamUniqueId = OldObject(p).StreamUniqueId]]
  /\ todo' = {p \in Paths : base[p] # None}
  /\ firstId' = nextId
  /\ UNCHANGED <<disk, store, settings, backups, shadow, baseSet, main, oldTree,
                 retry, nextId, pending, seen>>

HasKnownGuid(f) == f.FileSystemGuid # None /\ guids[f.FileSystemGuid] # 0

Eligible_WrongModeIgnored(f) == f.Type \in FileTypes
Eligible(f) == f.Type \in FileTypes /\ f.BackupMode # "NoBackup"

ShouldBeAdded(f) == Eligible(f) /\ ~HasKnownGuid(f)

\* ShouldBeAdded also marks the object with the version it is in.
Marked(f) == [f EXCEPT !.LatestVersion = IF Eligible(f) THEN count ELSE -1]

\* A hardlink to a file that already has a stream shares it.
FixUpStreamReference_WrongVersion(f) ==
  IF f.Type = "FileHardlink" /\ HasKnownGuid(f)
    THEN [f EXCEPT !.StreamUniqueId = base[guids[f.FileSystemGuid]].StreamUniqueId]
    ELSE f
FixUpStreamReference(f) ==
  IF f.Type = "FileHardlink" /\ HasKnownGuid(f)
    THEN LET owner == base[guids[f.FileSystemGuid]]
         IN  [f EXCEPT !.StreamUniqueId = owner.StreamUniqueId,
                       !.LatestVersion  = owner.LatestVersion,
                       !.BackupStream   = IF owner.BackupStream = "Full"
                                            THEN "Full" ELSE "Unmodified"]
    ELSE f

Criterium(f) ==
  IF crit = "HashAuto" THEN IF f.Size < HashAutoLimit THEN "Hash" ELSE "Date"
  ELSE crit

\* FileHasChanged computes the hash of a file the latest version does not
\* know, and of one it compares by hash and has a hash of.
NeedsHash(f, o) == o = None \/ (Criterium(f) = "Hash" /\ o.Hashes # None)

HashOf_WrongUnmapped(p, f) ==  \* hashes the file at its unmapped path
  IF f.Hashes # None THEN f.Hashes ELSE ReadAt(main.UnmappedBasePath, p)
\* ComputeHash: a hash already computed is kept; None when p cannot be read.
HashOf(p, f) ==
  IF f.Hashes # None THEN f.Hashes ELSE ReadAt(main.MappedBasePath, p)

FileHasChanged_WrongNoHash(f, o, h) ==  \* no hash counts as the same hash
  \/ Criterium(f) = "ArchiveFlag" /\ f.ArchiveFlag
  \/ Criterium(f) = "Size" /\ f.Size # o.Size
  \/ Criterium(f) = "Date" /\ f.ModificationTime # o.ModificationTime
  \/ Criterium(f) = "Hash" /\ o.Hashes # None /\ h # o.Hashes
FileHasChanged(f, o, h) ==
  \/ Criterium(f) = "ArchiveFlag" /\ f.ArchiveFlag
  \/ Criterium(f) = "Size" /\ f.Size # o.Size
  \/ Criterium(f) = "Date" /\ f.ModificationTime # o.ModificationTime
  \/ Criterium(f) = "Hash" /\ (o.Hashes = None \/ h # o.Hashes)

Register(f, p) ==
  IF f.FileSystemGuid = None THEN guids ELSE [guids EXCEPT ![f.FileSystemGuid] = p]

Visit(p) ==
  /\ pc = "archive"
  /\ IsFirst(p, todo) /\ todo' = todo \ {p}
  /\ UNCHANGED <<disk, store, pc, settings, backups, shadow, baseSet, main,
                 oldTree, retry, firstId, out, seen>>

SkipObject(p) ==
  /\ Visit(p)
  /\ ~ShouldBeAdded(base[p])
  /\ base' = [base EXCEPT ![p] = FixUpStreamReference(Marked(base[p]))]
  /\ UNCHANGED <<nextId, guids, streams>>

\* The object gets a stream id of its own (SetUniqueIds) and a stream.
AddFullStream_WrongHash(p, h) ==  \* the old hash is kept for a changed file
  /\ base' = [base EXCEPT ![p] =
                [Marked(base[p]) EXCEPT
                   !.StreamUniqueId = nextId, !.BackupStream = "Full",
                   !.Hashes = IF OldObject(p) = None THEN h ELSE OldObject(p).Hashes]]
  /\ nextId' = nextId + 1
  /\ streams' = Append(streams, [UniqueId |-> nextId, fso |-> p])
  /\ guids' = Register(base[p], p)
AddFullStream_WrongId(p, h) ==  \* SetUniqueIds left out
  /\ base' = [base EXCEPT ![p] =
                [Marked(base[p]) EXCEPT !.Hashes = h, !.BackupStream = "Full"]]
  /\ nextId' = nextId + 1
  /\ streams' = Append(streams, [UniqueId |-> nextId, fso |-> p])
  /\ guids' = Register(base[p], p)
AddFullStream(p, h) ==
  /\ base' = [base EXCEPT ![p] =
                [Marked(base[p]) EXCEPT !.StreamUniqueId = nextId,
                                        !.Hashes = h, !.BackupStream = "Full"]]
  /\ nextId' = nextId + 1
  /\ streams' = Append(streams, [UniqueId |-> nextId, fso |-> p])
  /\ guids' = Register(base[p], p)

\* GenerateInitialStream: a first version takes everything.
AddInitialStream(p) ==
  /\ Visit(p)
  /\ count = 0
  /\ ShouldBeAdded(base[p])
  /\ AddFullStream(p, base[p].Hashes)

\* CheckAndMaybeAdd, when the file is new or has changed.
AddChangedFile(p) ==
  /\ Visit(p)
  /\ count > 0
  /\ ShouldBeAdded(base[p])
  /\ LET f == base[p]
         o == OldObject(p)
         h == IF NeedsHash(f, o) THEN HashOf(p, f) ELSE f.Hashes
     IN  /\ o # None => /\ NeedsHash(f, o) => h # None
                        /\ FileHasChanged(f, o, h)
         /\ AddFullStream(p, h)

\* An unchanged object points at what the latest version points at.
AsUnmodified_WrongVersion(f, o) ==  \* the latest version has no such data
  [f EXCEPT !.LatestVersion = count - 1, !.BackupMode = "Unmodified",
            !.Hashes = IF o.Hashes = None THEN @ ELSE o.Hashes]
AsUnmodified(f, o) ==
  [f EXCEPT !.LatestVersion = o.LatestVersion, !.BackupMode = "Unmodified",
            !.Hashes = IF o.Hashes = None THEN @ ELSE o.Hashes]

\* CheckAndMaybeAdd, when the file has not changed.
KeepUnmodified(p) ==
  /\ Visit(p)
  /\ count > 0
  /\ ShouldBeAdded(base[p])
  /\ LET f == base[p]
         o == OldObject(p)
         h == IF NeedsHash(f, o) THEN HashOf(p, f) ELSE f.Hashes
     IN  /\ o # None
         /\ NeedsHash(f, o) => h # None
         /\ ~FileHasChanged(f, o, h)
         /\ base' = [base EXCEPT ![p] = AsUnmodified(f, o)]
         /\ guids' = Register(f, p)
  /\ UNCHANGED <<nextId, streams>>

-----------------------------------------------------------------------------
(***************************************************************************)
(* Writing the archive: the data of every stream, then the objects and the *)
(* manifest, then the commit of the transaction.                           *)
(***************************************************************************)
\* AddFile reads the file again; the hash is computed on the way if there is
\* none yet.  A file that cannot be opened ends the backup (EndSession).
WriteStream_WrongUnread ==  \* a file that cannot be opened is no error
  /\ pc = "archive" /\ todo = {}
  /\ Len(out) < Len(streams)
  /\ LET s == streams[Len(out) + 1]
         c == ReadAt(main.MappedBasePath, s.fso)
     IN  /\ out' = Append(out, [StreamId |-> s.UniqueId, data |-> c])
         /\ base' = [base EXCEPT ![s.fso].Hashes = IF @ = None THEN c ELSE @]
  /\ UNCHANGED <<disk, store, pc, settings, backups, shadow, baseSet, main,
                 oldTree, todo, retry, ids, guids, streams, seen>>
WriteStream ==
  /\ pc = "archive" /\ todo = {}
  /\ Len(out) < Len(streams)
  /\ LET s == streams[Len(out) + 1]
         c == ReadAt(main.MappedBasePath, s.fso)
     IN  /\ c # None
         /\ out' = Append(out, [StreamId |-> s.UniqueId, data |-> c])
         /\ base' = [base EXCEPT ![s.fso].Hashes = IF @ = None THEN c ELSE @]
  /\ UNCHANGED <<disk, store, pc, settings, backups, shadow, baseSet, main,
                 oldTree, todo, retry, ids, guids, streams, seen>>

\* GetDependencies: an object attached to a full stream has none.
Dependencies ==
  {base[p].LatestVersion :
     p \in {q \in Paths : /\ base[q] # None
                          /\ base[q].LatestVersion >= 0
                          /\ base[q].BackupStream # "Full"}}

NewArchive ==
  [VersionDependencies |-> Dependencies,
   FirstStreamUniqueId |-> firstId,
   NextStreamUniqueId  |-> nextId,
   main                |-> main,
   BaseObjects         |-> [p \in Paths |-> IF base[p] = None THEN None
                                            ELSE Serialized(base[p])],
   Streams             |-> out]

CommitArchive ==
  /\ pc = "archive" /\ todo = {} /\ Len(out) = Len(streams)
  /\ arc' = [arc EXCEPT ![count] = NewArchive]
  /\ truth' = [truth EXCEPT ![count] =
                 [seen |-> seen, excluded |-> excluded, crit |-> crit,
                  useSnapshots |-> useSnapshots, attempt |-> backups]]
  /\ backups' = backups + 1
  /\ pc' = "open" /\ shadow' = None
  /\ guids' = [g \in Guids |-> 0] /\ streams' = <<>> /\ out' = <<>>
  /\ seen' = NoTruth /\ firstId' = 1
  /\ UNCHANGED <<disk, settings, objects, oldTree, todo, retry, nextId>>

-----------------------------------------------------------------------------
(***************************************************************************)
(* Everyone else: programs that change the source directory, and the user  *)
(* who deletes the file of a version.                                      *)
(***************************************************************************)
\* The k-th edit leaves time k on what it writes.
Edit(kind) ==
  /\ kind \in EditKinds
  /\ edits < MaxEdits /\ edits' = edits + 1
  /\ ConcurrentEdits \/ ~Busy
  /\ seen' = IF Busy /\ shadow = None
               THEN [p \in Paths |-> seen[p] \cup ContentsOf(live', inode')[p]]
               ELSE seen
  /\ UNCHANGED <<store, pc, settings, backups, shadow, objects, oldTree, todo,
                 retry, ids, pending>>

\* A new file does not get an identity the running backup has met.
InUse(g) ==
  \/ \E p \in Paths : live[p] = g \/ (shadow # None /\ shadow.live[p] = g)
  \/ \E p \in Paths : base[p] # None /\ base[p].FileSystemGuid = g

WriteFile(p, c) ==
  /\ IsFile(live[p])
  /\ inode' = [inode EXCEPT ![live[p]] =
                 [content |-> c, mtime |-> edits + 1, archive |-> TRUE]]
  /\ UNCHANGED live
  /\ Edit("write")

CreateFile(p, g, c) ==
  /\ live[p] = None /\ ~InUse(g)
  /\ live' = [live EXCEPT ![p] = g]
  /\ inode' = [inode EXCEPT ![g] =
                 [content |-> c, mtime |-> edits + 1, archive |-> TRUE]]
  /\ Edit("create")

DeletePath(p) ==
  /\ live[p] # None
  /\ live' = [live EXCEPT ![p] = None]
  /\ UNCHANGED inode
  /\ Edit("delete")

LinkFile(p, q) ==
  /\ live[p] = None /\ IsFile(live[q])
  /\ live' = [live EXCEPT ![p] = live[q]]
  /\ UNCHANGED inode
  /\ Edit("link")

\* A rename keeps identity and times and replaces a file that is in the way.
RenameFile(q, p) ==
  /\ p # q /\ IsFile(live[q]) /\ live[p] # Dir
  /\ live' = [live EXCEPT ![p] = live[q], ![q] = None]
  /\ UNCHANGED inode
  /\ Edit("rename")

MakeDirectory(p) ==
  /\ live[p] = None
  /\ live' = [live EXCEPT ![p] = Dir]
  /\ UNCHANGED inode
  /\ Edit("mkdir")

ClearArchiveFlag(p) ==
  /\ IsFile(live[p]) /\ inode[live[p]].archive
  /\ inode' = [inode EXCEPT ![live[p]].archive = FALSE]
  /\ UNCHANGED live
  /\ Edit("clear")

RemoveVersion(v) ==
  /\ "remove" \in EditKinds
  /\ pc = "closed" /\ arc[v] # None
  /\ arc' = [arc EXCEPT ![v] = None]
  /\ truth' = [truth EXCEPT ![v] = None]
  /\ UNCHANGED <<disk, pc, settings, backups, shadow, objects, oldTree, todo,
                 retry, ids, pending, seen>>

-----------------------------------------------------------------------------
Environment ==
  \/ \E p \in Paths, c \in Contents : WriteFile(p, c)
  \/ \E p \in Paths, g \in Guids, c \in Contents : CreateFile(p, g, c)
  \/ \E p, q \in Paths : LinkFile(p, q) \/ RenameFile(q, p)
  \/ \E p \in Paths : DeletePath(p) \/ MakeDirectory(p) \/ ClearArchiveFlag(p)
  \/ \E v \in Versions : RemoveVersion(v)

Backup ==
  \/ BeginBackup \/ ListSource \/ ReuseBaseObjects
  \/ \E p \in Paths : ScanEntry(p) \/ RecalculateFileGuid(p)
  \/ PrepareStreams
  \/ \E p \in Paths : \/ SkipObject(p) \/ AddInitialStream(p)
                      \/ AddChangedFile(p) \/ KeepUnmodified(p)
  \/ WriteStream \/ CommitArchive

Next == Open \/ EndSession \/ Backup \/ Environment

Spec == Init /\ [][Next]_vars

-----------------------------------------------------------------------------
(***************************************************************************)
(* Properties.                                                             *)
(***************************************************************************)
\* Every variable has the shape the code gives it: in particular a stream
\* that was written holds the data of a file that could be opened (AddFile).
TypeOK ==
  /\ live \in [Paths -> Guids \cup {None, Dir}] /\ inode \in [Guids -> Inode]
  /\ edits \in Nat
  /\ arc \in [Versions -> Archive \cup {None}]
  /\ truth \in [Versions -> Truth \cup {None}]
  /\ pc \in {"closed", "open", "list", "scan", "archive"}
  /\ known \subseteq Versions /\ count \in Nat
  /\ useSnapshots \in BOOLEAN
  /\ crit \in Criteria \cup {"Hash"} /\ excluded \subseteq Paths
  /\ backups \in Nat /\ shadow \in Shadow \cup {None}
  /\ baseSet \in BOOLEAN /\ main \in Main \cup {None}
  /\ base \in [Paths -> Fso \cup {None}]
  /\ old \in [Paths -> StoredFso \cup {None}] /\ oldMain \in Main \cup {None}
  /\ todo \subseteq Paths /\ retry \subseteq Paths
  /\ nextId \in Nat /\ firstId \in Nat
  /\ guids \in [Guids -> Paths \cup {0}]
  /\ streams \in Seq(Stream) /\ out \in Seq(Written)
  /\ seen \in [Paths -> SUBSET Contents]

\* What the versions on disk hold for an object: the data of the stream with
\* its id in the version it points at.
StreamData(n, id) ==
  {arc[n].Streams[i].data :
     i \in {j \in DOMAIN arc[n].Streams : arc[n].Streams[j].StreamId = id}}

HasData(o) == o # None /\ o.Type \in FileTypes /\ o.LatestVersion >= 0

\* A Regular object that shares its identity with another object of its
\* version, or a hardlink that shares it with a path that held something else:
\* the scan saw two moments of a rename.
Clashes(v, p) ==
  LET o == arc[v].BaseObjects
  IN  \E q \in Paths \ {p} :
        /\ o[q] # None /\ o[q].FileSystemGuid # None
        /\ o[q].FileSystemGuid = o[p].FileSystemGuid
        /\ ~(/\ o[p].Type = "FileHardlink" /\ o[q].Type = "FileHardlink"
             /\ truth[v].seen[p] = truth[v].seen[q])

\* Stream ids are never used twice, within a version or across versions, so
\* that an id in an object list names one stream of the whole target: the ids
\* of a version ascend in the range its manifest gives, and the ranges of
\* successive versions do not overlap (GetStreamId, NextStreamUniqueId).  The
\* order is what lets a restore skip streams without reading them.
StreamIdsUnique ==
  /\ \A v \in Stored :
       LET s == arc[v].Streams
       IN  /\ \A i \in DOMAIN s :
                s[i].StreamId \in arc[v].FirstStreamUniqueId ..
                                    (arc[v].NextStreamUniqueId - 1)
           /\ \A i, j \in DOMAIN s : i < j => s[i].StreamId < s[j].StreamId
  /\ \A v, w \in Stored :
       v < w => arc[v].NextStreamUniqueId <= arc[w].FirstStreamUniqueId

\* Every file a version lists can be found: the version it points at is the
\* version itself or one its manifest names as a dependency (so that
\* RestoreBackup opens it), and that version, if its file is still there, has
\* exactly one stream with the object's id.  Dependencies are older versions.
ReferencesResolve ==
  \A v \in Stored :
    /\ \A d \in arc[v].VersionDependencies : d \in 0..(v - 1)
    /\ \A p \in Paths :
         LET o == arc[v].BaseObjects[p]
         IN  HasData(o) =>
               /\ o.LatestVersion \in arc[v].VersionDependencies \cup {v}
               /\ o.LatestVersion \in Stored =>
                    \E c \in Contents : StreamData(o.LatestVersion, o.StreamUniqueId) = {c}

\* The hash an object carries is the hash of the data it points at, whichever
\* criterion each version was made with: FileHasChanged copies hashes from
\* version to version, and a later comparison by hash trusts them.
HashMatchesData ==
  \A v \in Stored : \A p \in Paths :
    LET o == arc[v].BaseObjects[p]
    IN  HasData(o) /\ o.Hashes # None /\ o.LatestVersion \in Stored =>
          StreamData(o.LatestVersion, o.StreamUniqueId) = {o.Hashes}

\* No session changes a version it found on the target when it opened it, and
\* no backup that fails or is killed changes any (TxF); the user may remove a
\* version.  Only a commit changes one, and only one made in its own session:
\* a second backup writes over the file of the first (_versionCount,
\* FileMode.Create).
CommittedImmutable ==
  [][\A v \in Versions :
       arc[v] # None =>
         \/ arc'[v] \in {arc[v], None}
         \/ pc = "archive" /\ backups > 0 /\ v \notin known]_vars

\* The data of a stream was the content of a file that carries its id at some
\* moment of the backup that wrote it, whatever happened to the source in the
\* meantime, and a snapshot shows one moment only.
StreamsComeFromTheirFiles ==
  \A v \in Stored : \A i \in DOMAIN arc[v].Streams :
    \E p \in Paths :
      /\ HasData(arc[v].BaseObjects[p])
      /\ arc[v].BaseObjects[p].StreamUniqueId = arc[v].Streams[i].StreamId
      /\ arc[v].Streams[i].data \in truth[v].seen[p]

\* A version read through a shadow copy that could be reached, compared by
\* hash, names a version for the data of every included file; and for every
\* one whose identity clashes with no other object's, that data is what the file
\* held when the snapshot was taken, even if it changed under the backup.  Files that
\* clash are exempt: an identity asked for at the live path after a rename, or
\* a deletion and a new link, may be another file's, and the file is then given
\* that one's stream, or none (FilesInUseKept).  All this is so as long as no
\* session made a second backup: that one scans nothing anew and stores new
\* data under the old hashes.
SnapshotExact ==
  (\A w \in Stored : truth[w].attempt = 0) =>
    \A v \in Stored :
      truth[v].useSnapshots /\ arc[v].main.Type = "Directory" =>
      \A p \in Paths \ truth[v].excluded :
        LET o == arc[v].BaseObjects[p]
        IN  truth[v].seen[p] # {} =>
              /\ HasData(o)
              /\ ~Clashes(v, p) /\ o.LatestVersion \in Stored =>
                   StreamData(o.LatestVersion, o.StreamUniqueId) = truth[v].seen[p]

\* FileHasChanged hashes a file, and AddFile reads it again later: what is
\* written to it in between is stored under the old hash, and a later version
\* takes the file for unmodified when its old content comes back.  Not so in a
\* version read through a shadow copy, which rests while others edit the files:
\* there every hash is that of the data, also where it was taken over from an
\* older version, or the identity is another file's.  (As above, a session's
\* second backup is another matter.)
SnapshotHashesMatch ==
  (\A w \in Stored : truth[w].attempt = 0) =>
    \A v \in Stored : arc[v].main.MappedBasePath # Live =>
      \A p \in Paths :
        LET o == arc[v].BaseObjects[p]
        IN  HasData(o) /\ o.Hashes # None /\ o.LatestVersion \in Stored =>
              StreamData(o.LatestVersion, o.StreamUniqueId) = {o.Hashes}

\* An excluded path (BackupMode.NoBackup) gets data only when it is a hardlink
\* to an included file, whose stream FixUpStreamReference gives it.
ExcludedOnlyThroughHardlinks ==
  \A v \in Stored : \A p \in truth[v].excluded :
    LET o == arc[v].BaseObjects
    IN  HasData(o[p]) =>
          /\ o[p].Type = "FileHardlink"
          /\ \E q \in Paths \ truth[v].excluded :
               /\ HasData(o[q]) /\ o[q].FileSystemGuid = o[p].FileSystemGuid
               /\ o[q].StreamUniqueId = o[p].StreamUniqueId

\* A file that was there and is included has data, unless an earlier version
\* excluded it, or a file it is a hardlink to now, and no version since then was
\* compared by hash: date, size and archive flag find that one unchanged against an
\* object that never had data, and it and its hardlinks stay without for as long as
\* they do (FileHasChanged, LatestVersion of -1, FixUpStreamReference).  This is
\* so as long as nothing is taken away from the source or the target: a file that
\* takes the place of a directory is compared with the directory's object, whose
\* type FileHasChanged does not look at, and kept as an unmodified file of it.
IncludedHaveData ==
  \A v \in Stored : \A p \in Paths \ truth[v].excluded :
    LET o == arc[v].BaseObjects
    IN  truth[v].seen[p] # {} /\ ~HasData(o[p]) =>
          \E w \in 0..(v - 1) \cap Stored :
            /\ \E q \in truth[w].excluded :
                 o[q] # None /\ o[q].FileSystemGuid = o[p].FileSystemGuid
            /\ \A x \in (w + 1)..v \cap Stored : truth[x].crit # "Hash"

-----------------------------------------------------------------------------
(***************************************************************************)
(* What the repository says of the program and its code does not do.       *)
(***************************************************************************)
\* "Incremental backups | Yes" (README.md:23) and "Backing up files in use |
\* Yes (through VSS)" (README.md:28): every version has the data of every
\* included file.  UpdateExistingVersion scans the path the previous version
\* mapped the source to, a shadow copy that is gone.
IncrementalsCoverSource ==
  \A v \in Stored : \A p \in Paths \ truth[v].excluded :
    truth[v].seen[p] # {} => HasData(arc[v].BaseObjects[p])

\* "Backing up files in use | Yes (through VSS)" (README.md:28), and files that
\* change between the snapshot and the question for their identity are "stored
\* redundantly" at worst (README.md:38): a version read through a shadow copy
\* has every included file as it was in the snapshot.  RecalculateFileGuids asks
\* the live path, where another file may be by then; of two objects with one
\* identity only the first gets a stream.
FilesInUseKept ==
  \A v \in Stored :
    truth[v].useSnapshots /\ arc[v].main.Type = "Directory" =>
    \A p \in Paths \ truth[v].excluded :
      LET o == arc[v].BaseObjects[p]
      IN  truth[v].seen[p] # {} =>
            /\ HasData(o)
            /\ o.LatestVersion \in Stored =>
                 StreamData(o.LatestVersion, o.StreamUniqueId) = truth[v].seen[p]
=============================================================================
