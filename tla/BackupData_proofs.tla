------------------------- MODULE BackupData_proofs -------------------------
(***************************************************************************)
(* What the versions of BackupEngine hold: where the data of a stream come *)
(* from, whose data an object refers to, and what its hash is of.          *)
(***************************************************************************)
EXTENDS BackupEngine_proofs

-----------------------------------------------------------------------------
(***************************************************************************)
(* A session, between its steps.                                           *)
(***************************************************************************)
\* What a phase leaves empty for the others.
Phases ==
  /\ ~baseSet => base = NoObjects
  /\ pc = "closed" => ~baseSet
  /\ pc \notin {"scan", "archive"} => todo = {}
  /\ pc # "scan" => retry = {}
  /\ pc # "archive" => \A g \in Guids : guids[g] = 0

ExclusionsKept ==
  \A p \in Paths : base[p] # None =>
    (p \in excluded <=> base[p].BackupMode = "NoBackup")

\* With snapshots the source is never read at its own place.
Shadowed ==
  /\ Busy => (useSnapshots <=> shadow # None)
  /\ useSnapshots /\ baseSet => main.MappedBasePath # Live

\* What can be read now was seen by the backup that is running.
Readable == IF shadow = None THEN ContentsOf(live, inode)
            ELSE ContentsOf(shadow.live, shadow.inode)
SeenAll  == Busy => \A p \in Paths : Readable[p] \subseteq seen[p]

SessionInv == Phases /\ ExclusionsKept /\ Shadowed /\ SeenAll

-----------------------------------------------------------------------------
(***************************************************************************)
(* The visit of the objects.                                               *)
(***************************************************************************)
Visited(p) == pc = "archive" /\ p \notin todo /\ base[p] # None

\* knownGuids names objects that were visited and have that identity.
GuidsVisited ==
  \A g \in Guids : guids[g] # 0 =>
    /\ Visited(guids[g]) /\ Eligible(base[guids[g]])
    /\ base[guids[g]].FileSystemGuid = g

IsStreamOf(p, id) ==
  /\ Visited(p) /\ base[p].Type \in FileTypes
  /\ base[p].LatestVersion = count /\ base[p].BackupStream = "Full"
  /\ base[p].StreamUniqueId = id

StreamsOfFiles ==
  \A i \in DOMAIN streams : IsStreamOf(streams[i].fso, streams[i].UniqueId)

OutSeen == \A i \in DOMAIN out : out[i].data \in seen[streams[i].fso]

\* The object that has the stream a hardlink shares.
OwnerOf(f) == base[guids[f.FileSystemGuid]]

ExcludedShare ==
  \A p \in excluded : Visited(p) /\ HasData(base[p]) =>
    /\ base[p].Type = "FileHardlink" /\ HasKnownGuid(base[p])
    /\ HasData(OwnerOf(base[p]))
    /\ OwnerOf(base[p]).StreamUniqueId = base[p].StreamUniqueId

VisitInv == GuidsVisited /\ StreamsOfFiles /\ OutSeen /\ ExcludedShare

-----------------------------------------------------------------------------
(***************************************************************************)
(* References.                                                             *)
(***************************************************************************)
\* The latest version is the one before the next, and it was loaded.
OldLoaded ==
  /\ pc # "closed" /\ count > 0 => count - 1 \in known
  /\ (Busy \/ baseSet) /\ count > 0 =>
       old = arc[count - 1].BaseObjects /\ oldMain = arc[count - 1].main

\* Nothing changes under a backup.
StillBusy == Busy /\ shadow # None => shadow.live = live /\ shadow.inode = inode

\* Entry p of the source, where it is read.
Found(p) == EntryAt(main.MappedBasePath, p)

Scanned(p) ==
  /\ base[p].FileSystemGuid # None => IsFile(Found(p)) /\ base[p].FileSystemGuid = Found(p)
  /\ base[p].Type = "FileHardlink" <=>
       IsFile(Found(p)) /\ \E q \in Paths \ {p} : Found(q) = Found(p)
  /\ p \in retry => IsFile(Found(p))
  /\ base[p].BackupStream = "None"

ScanInv ==
  pc = "scan" /\ (todo # {} \/ retry # {}) =>
    \A p \in Paths : base[p] # None => Scanned(p)

\* Objects with one identity are hardlinks.
LinksAgree ==
  \A p, q \in Paths :
    /\ p # q /\ base[p] # None /\ base[q] # None
    /\ base[p].FileSystemGuid # None /\ base[q].FileSystemGuid = base[p].FileSystemGuid
    => base[p].Type = "FileHardlink"

\* The visit goes up, and registers what it takes.
Ascending  == \A q \in Paths : Visited(q) => \A p \in todo : q < p
Registered == \A q \in Paths : Visited(q) /\ Eligible(base[q]) /\ base[q].FileSystemGuid # None
                => guids[base[q].FileSystemGuid] # 0
IdsHanded  == pc = "archive" => \A p \in todo : OldObject(p) # None =>
                base[p].StreamUniqueId = OldObject(p).StreamUniqueId
VisitOrder == Ascending /\ Registered /\ IdsHanded

\* What an earlier backup of the session gave a full stream gets one again.
HasOwner(p) ==
  \E q \in Paths :
    /\ q < p /\ base[q] # None /\ Eligible(base[q])
    /\ base[p].FileSystemGuid # None /\ base[q].FileSystemGuid = base[p].FileSystemGuid

Changed(f, o) ==
  o = None \/ (FileHasChanged(f, o, f.Hashes) /\ (NeedsHash(f, o) => f.Hashes # None))

GetsStream(p) == ~Eligible(base[p]) \/ HasOwner(p) \/ Changed(base[p], OldObject(p))

FullAgain ==
  \A p \in Paths : base[p] # None /\ base[p].BackupStream = "Full" => GetsStream(p)

HasStream(a, id) == \E i \in DOMAIN a.Streams : a.Streams[i].StreamId = id

\* Where the data of a visited object are.
Placed(f) ==
  f.LatestVersion >= 0 =>
    /\ f.Type \in FileTypes
    /\ IF f.BackupStream = "Full"
         THEN /\ f.LatestVersion = count
              /\ \E i \in DOMAIN streams : streams[i].UniqueId = f.StreamUniqueId
         ELSE /\ f.LatestVersion < count
              /\ f.LatestVersion \in Stored =>
                   HasStream(arc[f.LatestVersion], f.StreamUniqueId)

AllPlaced == \A p \in Paths : Visited(p) => Placed(base[p])

\* Where the data of a stored object are.
Resolved(v, o) ==
  o # None /\ o.LatestVersion >= 0 =>
    /\ o.Type \in FileTypes
    /\ o.LatestVersion \in arc[v].VersionDependencies \cup {v}
    /\ o.LatestVersion \in Stored => HasStream(arc[o.LatestVersion], o.StreamUniqueId)

RefsArc ==
  \A v \in Stored :
    /\ arc[v].VersionDependencies \subseteq 0..(v - 1)
    /\ \A p \in Paths : Resolved(v, arc[v].BaseObjects[p])

RefInv ==
  /\ OldLoaded /\ StillBusy /\ ScanInv /\ LinksAgree /\ VisitOrder /\ FullAgain
  /\ AllPlaced /\ RefsArc

-----------------------------------------------------------------------------
(***************************************************************************)
(* Hashes.                                                                 *)
(***************************************************************************)
\* A session that makes one backup builds its objects for it.
FirstScan == pc \in {"open", "list"} /\ backups = 0 => ~baseSet

NoHashYet ==
  Busy => \A p \in Paths : base[p] # None /\ ~Visited(p) => base[p].Hashes = None

HashRight(p) ==
  base[p].LatestVersion >= 0 /\ base[p].Hashes # None =>
    IF base[p].BackupStream = "Full"
      THEN /\ ReadAt(main.MappedBasePath, p) = base[p].Hashes
           /\ \E i \in DOMAIN streams : streams[i].fso = p
      ELSE base[p].LatestVersion \in Stored =>
             StreamData(base[p].LatestVersion, base[p].StreamUniqueId) = {base[p].Hashes}

HashesRight == \A p \in Paths : Visited(p) => HashRight(p)

OutNow == \A i \in DOMAIN out : out[i].data = ReadAt(main.MappedBasePath, streams[i].fso)

HashInv == FirstScan /\ NoHashYet /\ HashesRight /\ OutNow

-----------------------------------------------------------------------------
(***************************************************************************)
(* Sharing of streams, when files are compared by hash.                    *)
(***************************************************************************)
ByHash == crit = "Hash"

OneStreamFor(f, g) == HasData(f) /\ HasData(g) /\ f.StreamUniqueId = g.StreamUniqueId

OneFile(f, g) ==
  /\ f.Type = "FileHardlink" /\ g.Type = "FileHardlink"
  /\ f.FileSystemGuid # None /\ g.FileSystemGuid = f.FileSystemGuid

\* Objects of a version that have one stream are hardlinks of one file, and at
\* most one of them has a hash: no other is ever found unmodified by its hash.
ArcShare ==
  \A v \in Stored : \A p, q \in Paths :
    LET o == arc[v].BaseObjects
    IN  p # q /\ OneStreamFor(o[p], o[q]) =>
          OneFile(o[p], o[q]) /\ (o[p].Hashes = None \/ o[q].Hashes = None)

ArcIds ==
  \A v \in Stored : \A p \in Paths :
    LET o == arc[v].BaseObjects[p]
    IN  HasData(o) => o.StreamUniqueId < arc[v].NextStreamUniqueId

\* A visited object without a stream of this backup has one of a visited path.
Handed ==
  \A p \in Paths : Visited(p) /\ HasData(base[p]) /\ base[p].BackupStream # "Full" =>
    \E q \in Paths :
      /\ Visited(q) /\ HasData(OldObject(q)) /\ OldObject(q).Hashes # None
      /\ base[p].StreamUniqueId = OldObject(q).StreamUniqueId

ShareNow ==
  \A p, q \in Paths :
    p # q /\ Visited(p) /\ Visited(q) /\ OneStreamFor(base[p], base[q]) =>
      OneFile(base[p], base[q])

\* Only the object that registered an identity gets a stream and a hash.
Own(p) == base[p].FileSystemGuid # None => guids[base[p].FileSystemGuid] = p

OwnStreams == \A i \in DOMAIN streams : Own(streams[i].fso)
OwnHashes  == \A p \in Paths : Visited(p) /\ base[p].Hashes # None => Own(p)

ShareInv == ByHash /\ ArcShare /\ ArcIds /\ Handed /\ ShareNow /\ OwnStreams /\ OwnHashes

-----------------------------------------------------------------------------
(***************************************************************************)
(* A session keeps its phases apart.                                       *)
(***************************************************************************)
\* What other programs do to the source.
LEMMA EditIs ==
  ASSUME Environment, \A v \in Versions : ~RemoveVersion(v)
  PROVE  \E kind : Edit(kind)
BY DEF Environment, WriteFile, CreateFile, LinkFile, RenameFile, DeletePath,
       MakeDirectory, ClearArchiveFlag

LEMMA EditLeaves ==
  ASSUME NEW kind, Edit(kind)
  PROVE  /\ UNCHANGED <<arc, truth, pc, known, count, useSnapshots, crit, excluded, backups,
                        shadow, baseSet, main, base, old, oldMain, todo, retry, nextId,
                        firstId, guids, streams, out>>
         /\ ~ConcurrentEdits => ~Busy
BY DEF Edit, store, settings, objects, oldTree, ids, pending

LEMMA RemoveLeaves ==
  ASSUME TypeInv, NEW v \in Versions, RemoveVersion(v)
  PROVE  /\ pc = "closed" /\ arc' = [arc EXCEPT ![v] = None]
         /\ UNCHANGED <<live, inode, pc, known, count, useSnapshots, crit, excluded, backups,
                        shadow, baseSet, main, base, old, oldMain, todo, retry, nextId,
                        firstId, guids, streams, out, seen>>
         /\ \A w \in Stored' : w \in Stored /\ w # v /\ arc'[w] = arc[w] /\ truth'[w] = truth[w]
<1>1. /\ pc = "closed" /\ arc' = [arc EXCEPT ![v] = None] /\ truth' = [truth EXCEPT ![v] = None]
      /\ UNCHANGED <<disk, pc, settings, backups, shadow, objects, oldTree, todo, retry, ids,
                     pending, seen>>
  BY DEF RemoveVersion
<1>2. arc \in [Versions -> Archive \cup {None}] /\ truth \in [Versions -> Truth \cup {None}]
  BY DEF TypeInv, TypeOK
<1>3. \A w \in Stored' : w \in Stored /\ w # v /\ arc'[w] = arc[w] /\ truth'[w] = truth[w]
  BY <1>1, <1>2 DEF Stored
<1> QED
  BY <1>1, <1>3 DEF disk, settings, objects, oldTree, ids, pending

LEMMA VisitLeaves ==
  ASSUME NEW p \in Paths, Visit(p)
  PROVE  /\ pc = "archive" /\ IsFirst(p, todo) /\ p \in todo /\ todo' = todo \ {p}
         /\ UNCHANGED <<live, inode, edits, arc, truth, pc, known, count, useSnapshots, crit,
                        excluded, backups, shadow, baseSet, main, old, oldMain, retry,
                        firstId, out, seen>>
BY DEF Visit, IsFirst, disk, store, settings, oldTree

\* What a step makes of the object it visits; the others it leaves alone.
Replaces(p) ==
  /\ base[p] \in Fso /\ base[p] # None /\ base'[p] \in Fso /\ base'[p] # None
  /\ \A q \in Paths \ {p} : base'[q] = base[q]

SameFile(f, g) ==
  /\ g.Type = f.Type /\ g.FileSystemGuid = f.FileSystemGuid
  /\ g.Size = f.Size /\ g.ModificationTime = f.ModificationTime /\ g.ArchiveFlag = f.ArchiveFlag
  /\ g.BackupMode = "NoBackup" <=> f.BackupMode = "NoBackup"

Shares(f) == f.Type = "FileHardlink" /\ HasKnownGuid(f)

LEMMA VisitReplaces ==
  ASSUME TypeInv, NEW p \in Paths, Visit(p), NEW f \in Fso, base' = [base EXCEPT ![p] = f]
  PROVE  Replaces(p) /\ base'[p] = f
<1>1. base[p] \in Fso /\ base[p] # None
  BY VisitedObject
<1>2. base \in [Paths -> Fso \cup {None}]
  BY DEF TypeInv, TypeOK
<1>3. base'[p] = f /\ \A q \in Paths \ {p} : base'[q] = base[q]
  BY <1>2
<1> QED
  BY <1>1, <1>3, NoneAssumption DEF Replaces

LEMMA SkipIs ==
  ASSUME TypeInv, NEW p \in Paths, SkipObject(p)
  PROVE  /\ Visit(p) /\ Replaces(p) /\ SameFile(base[p], base'[p])
         /\ ~ShouldBeAdded(base[p]) /\ base'[p].Hashes = base[p].Hashes
         /\ UNCHANGED <<nextId, guids, streams>>
         /\ Shares(base[p]) =>
              /\ base'[p].LatestVersion = OwnerOf(base[p]).LatestVersion
              /\ base'[p].StreamUniqueId = OwnerOf(base[p]).StreamUniqueId
              /\ base'[p].BackupStream =
                   IF OwnerOf(base[p]).BackupStream = "Full" THEN "Full" ELSE "Unmodified"
         /\ ~Shares(base[p]) =>
              /\ base'[p].LatestVersion = IF Eligible(base[p]) THEN count ELSE -1
              /\ base'[p].StreamUniqueId = base[p].StreamUniqueId
              /\ base'[p].BackupStream = base[p].BackupStream
<1>1. Visit(p) /\ ~ShouldBeAdded(base[p]) /\ UNCHANGED <<nextId, guids, streams>>
      /\ base' = [base EXCEPT ![p] = FixUpStreamReference(Marked(base[p]))]
  BY DEF SkipObject
<1> DEFINE f == Marked(base[p])
<1>2. base[p] \in Fso
  BY <1>1, VisitedObject
<1> DEFINE n == IF Eligible(base[p]) THEN count ELSE -1
<1>3. f = [base[p] EXCEPT !.LatestVersion = n]
  BY DEF Marked
<1> HIDE DEF n
<1>4. /\ f.Type = base[p].Type /\ f.StreamUniqueId = base[p].StreamUniqueId
      /\ f.LatestVersion = n /\ f.FileSystemGuid = base[p].FileSystemGuid
      /\ f.Hashes = base[p].Hashes /\ f.ModificationTime = base[p].ModificationTime
      /\ f.Size = base[p].Size /\ f.ArchiveFlag = base[p].ArchiveFlag
      /\ f.BackupMode = base[p].BackupMode /\ f.BackupStream = base[p].BackupStream
  BY <1>2, <1>3 DEF Fso
<1>5. f \in Fso
  BY <1>2, MarkedType
<1> HIDE DEF f
<1>6. Shares(base[p]) <=> f.Type = "FileHardlink" /\ HasKnownGuid(f)
  BY <1>4 DEF Shares, HasKnownGuid
<1>7. CASE Shares(base[p])
  <2> DEFINE o == OwnerOf(base[p])
             k == IF o.BackupStream = "Full" THEN "Full" ELSE "Unmodified"
             g == [f EXCEPT !.StreamUniqueId = o.StreamUniqueId,
                            !.LatestVersion = o.LatestVersion, !.BackupStream = k]
  <2>1. FixUpStreamReference(f) = g
    BY <1>4, <1>6, <1>7 DEF FixUpStreamReference, OwnerOf
  <2>2. o \in Fso
    BY <1>2, <1>7 DEF Shares, HasKnownGuid, OwnerOf, TypeInv, TypeOK, WellFormed, Fso
  <2>3. k \in {"Full", "Unmodified"}
    OBVIOUS
  <2> HIDE DEF o, k
  <2>4. /\ g \in Fso /\ g.StreamUniqueId = o.StreamUniqueId
        /\ g.LatestVersion = o.LatestVersion /\ g.BackupStream = k
        /\ g.Type = f.Type /\ g.FileSystemGuid = f.FileSystemGuid /\ g.Hashes = f.Hashes
        /\ g.ModificationTime = f.ModificationTime /\ g.Size = f.Size
        /\ g.ArchiveFlag = f.ArchiveFlag /\ g.BackupMode = f.BackupMode
    BY <1>5, <2>2, <2>3 DEF Fso
  <2> HIDE DEF g
  <2>5. Replaces(p) /\ base'[p] = g
    BY <1>1, <2>1, <2>4, VisitReplaces DEF f
  <2> QED
    BY <1>1, <1>4, <1>7, <2>4, <2>5 DEF SameFile, o, k
<1>8. CASE ~Shares(base[p])
  <2>1. FixUpStreamReference(f) = f
    BY <1>6, <1>8 DEF FixUpStreamReference
  <2>2. Replaces(p) /\ base'[p] = f
    BY <1>1, <1>5, <2>1, VisitReplaces DEF f
  <2> QED
    BY <1>1, <1>4, <1>8, <2>2 DEF SameFile, n
<1> QED
  BY <1>7, <1>8

LEMMA AddIs ==
  ASSUME TypeInv, NEW p \in Paths, NEW h \in Contents \cup {None}, Visit(p), AddFullStream(p, h),
         ShouldBeAdded(base[p])
  PROVE  /\ Replaces(p) /\ SameFile(base[p], base'[p])
         /\ base'[p].Hashes = h /\ base'[p].LatestVersion = count
         /\ base'[p].StreamUniqueId = nextId /\ base'[p].BackupStream = "Full"
         /\ nextId' = nextId + 1 /\ guids' = Register(base[p], p)
         /\ streams' = Append(streams, [UniqueId |-> nextId, fso |-> p])
<1> DEFINE f == [base[p] EXCEPT !.LatestVersion = count]
           g == [f EXCEPT !.StreamUniqueId = nextId, !.Hashes = h, !.BackupStream = "Full"]
<1>1. /\ base' = [base EXCEPT ![p] = g] /\ nextId' = nextId + 1
      /\ guids' = Register(base[p], p)
      /\ streams' = Append(streams, [UniqueId |-> nextId, fso |-> p])
  BY DEF AddFullStream, Marked, ShouldBeAdded
<1>2. base[p] \in Fso
  BY VisitedObject
<1>3. count \in Nat /\ nextId \in Nat
  BY DEF TypeInv, TypeOK
<1>4. /\ f \in Fso /\ f.Type = base[p].Type /\ f.FileSystemGuid = base[p].FileSystemGuid
      /\ f.Size = base[p].Size /\ f.ModificationTime = base[p].ModificationTime
      /\ f.ArchiveFlag = base[p].ArchiveFlag /\ f.BackupMode = base[p].BackupMode
      /\ f.LatestVersion = count
  BY <1>2, <1>3 DEF Fso
<1> HIDE DEF f, g
<1>5. /\ g.Type = base[p].Type /\ g.FileSystemGuid = base[p].FileSystemGuid
      /\ g.Size = base[p].Size /\ g.ModificationTime = base[p].ModificationTime
      /\ g.ArchiveFlag = base[p].ArchiveFlag /\ g.BackupMode = base[p].BackupMode
      /\ g.LatestVersion = count /\ g.StreamUniqueId = nextId /\ g.Hashes = h
      /\ g.BackupStream = "Full" /\ g \in Fso
  BY <1>3, <1>4 DEF Fso, g
<1>6. Replaces(p) /\ base'[p] = g
  BY <1>1, <1>5, VisitReplaces
<1> QED
  BY <1>1, <1>5, <1>6 DEF SameFile

LEMMA AddStreamIs ==
  ASSUME TypeInv, NEW p \in Paths, AddInitialStream(p) \/ AddChangedFile(p)
  PROVE  /\ Visit(p) /\ ShouldBeAdded(base[p])
         /\ \E h \in Contents \cup {None} : AddFullStream(p, h)
<1>1. Visit(p) /\ ShouldBeAdded(base[p])
  BY DEF AddInitialStream, AddChangedFile
<1>2. base[p] \in Fso /\ main.MappedBasePath \in Locs
  BY <1>1, VisitedObject
<1>3. base[p].Hashes \in Contents \cup {None}
  BY <1>2 DEF Fso
<1>4. HashOf(p, base[p]) \in Contents \cup {None}
  BY <1>2, <1>3, EntryType DEF HashOf, TypeInv
<1> QED
  BY <1>1, <1>3, <1>4 DEF AddInitialStream, AddChangedFile

\* The hash a comparison with the latest version uses.
HashFor(p) == IF NeedsHash(base[p], OldObject(p)) THEN HashOf(p, base[p]) ELSE base[p].Hashes

LEMMA KeepIs ==
  ASSUME TypeInv, NEW p \in Paths, KeepUnmodified(p)
  PROVE  /\ Visit(p) /\ Replaces(p) /\ SameFile(base[p], base'[p])
         /\ count > 0 /\ ShouldBeAdded(base[p]) /\ OldObject(p) # None
         /\ OldObject(p) \in StoredFso
         /\ NeedsHash(base[p], OldObject(p)) => HashFor(p) # None
         /\ ~FileHasChanged(base[p], OldObject(p), HashFor(p))
         /\ base'[p].LatestVersion = OldObject(p).LatestVersion
         /\ base'[p].StreamUniqueId = base[p].StreamUniqueId
         /\ base'[p].BackupStream = base[p].BackupStream
         /\ base'[p].Hashes = IF OldObject(p).Hashes = None THEN base[p].Hashes
                              ELSE OldObject(p).Hashes
         /\ guids' = Register(base[p], p) /\ UNCHANGED <<nextId, streams>>
<1> DEFINE o == OldObject(p)
           g == AsUnmodified(base[p], o)
<1>1. /\ Visit(p) /\ count > 0 /\ ShouldBeAdded(base[p]) /\ o # None
      /\ NeedsHash(base[p], o) => HashFor(p) # None
      /\ ~FileHasChanged(base[p], o, HashFor(p))
      /\ base' = [base EXCEPT ![p] = g] /\ guids' = Register(base[p], p)
      /\ UNCHANGED <<nextId, streams>>
  BY DEF KeepUnmodified, HashFor
<1>2. base[p] \in Fso /\ o \in StoredFso
  BY <1>1, VisitedObject DEF OldObject, TypeInv, TypeOK
<1> HIDE DEF g, o
<1>3. /\ g.Type = base[p].Type /\ g.FileSystemGuid = base[p].FileSystemGuid
      /\ g.Size = base[p].Size /\ g.ModificationTime = base[p].ModificationTime
      /\ g.ArchiveFlag = base[p].ArchiveFlag /\ g.BackupMode = "Unmodified"
      /\ g.LatestVersion = o.LatestVersion /\ g.StreamUniqueId = base[p].StreamUniqueId
      /\ g.Hashes = IF o.Hashes = None THEN base[p].Hashes ELSE o.Hashes
      /\ g.BackupStream = base[p].BackupStream /\ g \in Fso
  BY <1>2 DEF Fso, StoredFso, Modes, g, AsUnmodified
<1>4. Replaces(p) /\ base'[p] = g
  BY <1>1, <1>3, VisitReplaces
<1> QED
  BY <1>1, <1>2, <1>3, <1>4 DEF SameFile, o, ShouldBeAdded, Eligible

LEMMA WriteIs ==
  ASSUME TypeInv, WriteStream
  PROVE  \E p \in Paths, c \in Contents :
           /\ pc = "archive" /\ todo = {} /\ Len(out) < Len(streams)
           /\ p = streams[Len(out) + 1].fso /\ c = ReadAt(main.MappedBasePath, p)
           /\ out' = Append(out, [StreamId |-> streams[Len(out) + 1].UniqueId, data |-> c])
           /\ Replaces(p) /\ SameFile(base[p], base'[p])
           /\ base'[p].LatestVersion = base[p].LatestVersion
           /\ base'[p].StreamUniqueId = base[p].StreamUniqueId
           /\ base'[p].BackupStream = base[p].BackupStream
           /\ base'[p].Hashes = IF base[p].Hashes = None THEN c ELSE base[p].Hashes
           /\ UNCHANGED <<live, inode, edits, arc, truth, pc, known, count, useSnapshots, crit,
                          excluded, backups, shadow, baseSet, main, old, oldMain, todo, retry,
                          nextId, firstId, guids, streams, seen>>
<1> DEFINE s == streams[Len(out) + 1]
           p == s.fso
           c == ReadAt(main.MappedBasePath, p)
           h == IF base[p].Hashes = None THEN c ELSE base[p].Hashes
<1>1. /\ pc = "archive" /\ todo = {} /\ Len(out) < Len(streams) /\ c # None
      /\ out' = Append(out, [StreamId |-> s.UniqueId, data |-> c])
      /\ base' = [base EXCEPT ![p].Hashes = h]
      /\ UNCHANGED <<live, inode, edits, arc, truth, pc, known, count, useSnapshots, crit,
                     excluded, backups, shadow, baseSet, main, old, oldMain, todo, retry,
                     nextId, firstId, guids, streams, seen>>
  BY DEF WriteStream, disk, store, settings, oldTree, ids
<1>2. streams \in Seq(Stream) /\ out \in Seq(Written)
  BY DEF TypeInv, TypeOK
<1>3. Len(out) + 1 \in DOMAIN streams
  BY <1>1, <1>2
<1>4. s \in Stream
  BY <1>2, <1>3
<1>5. p \in Paths /\ base[p] # None
  BY <1>3, <1>4 DEF Stream, TypeInv, WellFormed
<1>6. base \in [Paths -> Fso \cup {None}]
  BY DEF TypeInv, TypeOK
<1>7. main.MappedBasePath \in Locs
  BY <1>1 DEF TypeInv, TypeOK, WellFormed, Main
<1>8. c \in Contents
  BY <1>1, <1>5, <1>7, EntryType DEF TypeInv
<1> HIDE DEF s, p, c, h
<1>9. base[p] \in Fso /\ base'[p] = [base[p] EXCEPT !.Hashes = h]
      /\ \A q \in Paths \ {p} : base'[q] = base[q]
  BY <1>1, <1>5, <1>6
<1>10. h \in Contents \cup {None}
  BY <1>8, <1>9 DEF h, Fso
<1>11. base'[p] \in Fso /\ base'[p] # None
  BY <1>9, <1>10, NoneAssumption DEF Fso
<1>12. /\ Replaces(p) /\ SameFile(base[p], base'[p])
       /\ base'[p].LatestVersion = base[p].LatestVersion
       /\ base'[p].StreamUniqueId = base[p].StreamUniqueId
       /\ base'[p].BackupStream = base[p].BackupStream
       /\ base'[p].Hashes = h
  BY <1>5, <1>9, <1>11 DEF Replaces, SameFile, Fso
<1> QED
  BY <1>1, <1>5, <1>8, <1>12 DEF s, p, c, h

LEMMA InitSession == Init => SessionInv
BY DEF Init, SessionInv, Phases, ExclusionsKept, Shadowed, SeenAll, NoObjects, Busy

LEMMA PhasesNext == TypeInv /\ Phases /\ [Next]_vars => Phases'
<1> SUFFICES ASSUME TypeInv, Phases, [Next]_vars PROVE Phases'
  OBVIOUS
<1> USE DEF Phases, objects, pending
<1>1. CASE Open \/ EndSession \/ BeginBackup \/ ListSource \/ ReuseBaseObjects
  BY <1>1 DEF Open, EndSession, BeginBackup, ListSource, ReuseBaseObjects
<1>2. CASE \E p \in Paths : ScanEntry(p) \/ RecalculateFileGuid(p)
  BY <1>2 DEF ScanEntry, RecalculateFileGuid, TypeInv, WellFormed
<1>3. CASE PrepareStreams \/ WriteStream
  BY <1>3 DEF PrepareStreams, WriteStream, TypeInv, WellFormed
<1>4. CASE CommitArchive
  BY <1>4 DEF CommitArchive
<1>5. CASE \E p \in Paths : SkipObject(p) \/ AddInitialStream(p)
                            \/ AddChangedFile(p) \/ KeepUnmodified(p)
  <2>1. PICK p \in Paths : Visit(p)
    BY <1>5 DEF SkipObject, AddInitialStream, AddChangedFile, KeepUnmodified
  <2> QED
    BY <2>1, VisitLeaves DEF TypeInv, WellFormed
<1>6. CASE Environment
  BY <1>6, EditIs, EditLeaves, RemoveLeaves
<1>7. CASE UNCHANGED vars
  BY <1>7 DEF vars
<1> QED
  BY <1>1, <1>2, <1>3, <1>4, <1>5, <1>6, <1>7 DEF Next, Backup
LEMMA ScanIs ==
  ASSUME TypeInv, NEW p \in Paths, ScanEntry(p)
  PROVE  \E g \in Guids \cup {None} :
           /\ base' = [base EXCEPT ![p] = FsoFor(p, Found(p), g)]
           /\ FsoFor(p, Found(p), g) \in Fso
           /\ \/ retry' = retry /\ g = IF IsFile(Found(p)) THEN Found(p) ELSE None
              \/ IsFile(Found(p)) /\ g = None /\ retry' = retry \cup {p}
           /\ p \in todo /\ todo' = todo \ {p}
<1>1. main # None /\ main.MappedBasePath \in Locs
  BY DEF ScanEntry, TypeInv, TypeOK, WellFormed, Main
<1>2. Found(p) \in Guids \cup {None, Dir}
  BY <1>1, EntryType DEF Found, TypeInv
<1>3. PICK g \in Guids \cup {None} :
        /\ base' = [base EXCEPT ![p] = FsoFor(p, Found(p), g)]
        /\ \/ retry' = retry /\ g = IF IsFile(Found(p)) THEN Found(p) ELSE None
           \/ IsFile(Found(p)) /\ g = None /\ retry' = retry \cup {p}
  <2>1. (IF IsFile(Found(p)) THEN Found(p) ELSE None) \in Guids \cup {None}
    BY <1>2 DEF IsFile
  <2> QED
    BY <2>1 DEF ScanEntry, Found
<1>4. FsoFor(p, Found(p), g) \in Fso
  BY <1>1, FsoForType DEF Found
<1> QED
  BY <1>3, <1>4 DEF ScanEntry, IsFirst

LEMMA RecalculateIs ==
  ASSUME TypeInv, NEW p \in Paths, RecalculateFileGuid(p)
  PROVE  /\ Replaces(p)
         /\ base'[p] = [base[p] EXCEPT !.FileSystemGuid =
                          IF IsFile(live[p]) THEN live[p] ELSE None]
         /\ p \in retry /\ retry' = retry \ {p}
<1> DEFINE g == IF IsFile(live[p]) THEN live[p] ELSE None
<1>1. /\ base' = [base EXCEPT ![p].FileSystemGuid = g]
      /\ p \in retry /\ retry' = retry \ {p}
  BY DEF RecalculateFileGuid, IsFirst
<1>2. base \in [Paths -> Fso \cup {None}] /\ base[p] \in Fso /\ base[p] # None
  BY <1>1 DEF TypeInv, TypeOK, WellFormed
<1>3. g \in Guids \cup {None}
  BY DEF IsFile, TypeInv, TypeOK
<1> HIDE DEF g
<1>4. base'[p] = [base[p] EXCEPT !.FileSystemGuid = g]
      /\ \A q \in Paths \ {p} : base'[q] = base[q]
  BY <1>1, <1>2
<1>5. base'[p] \in Fso
  BY <1>2, <1>3, <1>4 DEF Fso
<1> QED
  BY <1>1, <1>2, <1>4, <1>5, NoneAssumption DEF Replaces, g

LEMMA PrepareIs ==
  ASSUME TypeInv, PrepareStreams
  PROVE  \A p \in Paths :
           /\ base[p] = None \/ OldObject(p) = None => base'[p] = base[p]
           /\ base[p] # None /\ OldObject(p) # None =>
                /\ base'[p] = [base[p] EXCEPT !.StreamUniqueId = OldObject(p).StreamUniqueId]
                /\ base[p] \in Fso /\ base'[p] \in Fso /\ base'[p] # None
                /\ SameFile(base[p], base'[p]) /\ base'[p].Hashes = base[p].Hashes
                /\ base'[p].LatestVersion = base[p].LatestVersion
                /\ base'[p].BackupStream = base[p].BackupStream
<1> SUFFICES ASSUME NEW p \in Paths, base[p] # None, OldObject(p) # None
    PROVE  /\ base'[p] = [base[p] EXCEPT !.StreamUniqueId = OldObject(p).StreamUniqueId]
           /\ base[p] \in Fso /\ base'[p] \in Fso /\ base'[p] # None
           /\ SameFile(base[p], base'[p]) /\ base'[p].Hashes = base[p].Hashes
           /\ base'[p].LatestVersion = base[p].LatestVersion
           /\ base'[p].BackupStream = base[p].BackupStream
  BY DEF PrepareStreams
<1>1. base[p] \in Fso /\ OldObject(p).StreamUniqueId \in Nat
  BY DEF TypeInv, TypeOK, OldObject, StoredFso
<1>2. base'[p] = [base[p] EXCEPT !.StreamUniqueId = OldObject(p).StreamUniqueId]
  BY DEF PrepareStreams
<1>3. base'[p] \in Fso
  BY <1>1, <1>2 DEF Fso
<1> QED
  BY <1>1, <1>2, <1>3, NoneAssumption DEF SameFile, Fso

LEMMA ExclusionsKeptNext == TypeInv /\ Phases /\ ExclusionsKept /\ [Next]_vars => ExclusionsKept'
<1> SUFFICES ASSUME TypeInv, Phases, ExclusionsKept, [Next]_vars PROVE ExclusionsKept'
  OBVIOUS
<1> USE DEF settings, objects
<1>1. CASE Open \/ EndSession
  BY <1>1 DEF Open, EndSession, Phases, ExclusionsKept, NoObjects
<1>2. CASE UNCHANGED <<base, excluded>>
  BY <1>2 DEF ExclusionsKept
<1>3. ASSUME NEW p \in Paths, Replaces(p), SameFile(base[p], base'[p]), UNCHANGED excluded
      PROVE  ExclusionsKept'
  BY <1>3 DEF ExclusionsKept, Replaces, SameFile
<1>4. ASSUME NEW p \in Paths, ScanEntry(p) PROVE ExclusionsKept'
  <2>1. PICK g \in Guids \cup {None} :
          base' = [base EXCEPT ![p] = FsoFor(p, Found(p), g)] /\ UNCHANGED excluded
    BY <1>4, ScanIs DEF ScanEntry
  <2>2. FsoFor(p, Found(p), g).BackupMode = "NoBackup" <=> p \in excluded
    BY DEF FsoFor, BackupModeFor
  <2>3. \A q \in Paths : base'[q] = IF q = p THEN FsoFor(p, Found(p), g) ELSE base[q]
    BY <2>1 DEF TypeInv, TypeOK
  <2> QED
    BY <2>1, <2>2, <2>3 DEF ExclusionsKept
<1>5. ASSUME NEW p \in Paths, RecalculateFileGuid(p) PROVE ExclusionsKept'
  <2>1. base'[p].BackupMode = base[p].BackupMode /\ UNCHANGED excluded
    BY <1>5, RecalculateIs DEF RecalculateFileGuid, Replaces, Fso
  <2> QED
    BY <1>5, <2>1, RecalculateIs DEF ExclusionsKept, Replaces
<1>6. CASE PrepareStreams
  BY <1>6, PrepareIs DEF PrepareStreams, ExclusionsKept, SameFile
<1>7. ASSUME NEW p \in Paths, SkipObject(p) \/ KeepUnmodified(p) PROVE ExclusionsKept'
  BY <1>3, <1>7, SkipIs, KeepIs, VisitLeaves
<1>8. ASSUME NEW p \in Paths, AddInitialStream(p) \/ AddChangedFile(p) PROVE ExclusionsKept'
  BY <1>3, <1>8, AddStreamIs, AddIs, VisitLeaves
<1>9. CASE WriteStream
  BY <1>3, <1>9, WriteIs
<1>10. CASE Environment
  BY <1>2, <1>10, EditIs, EditLeaves, RemoveLeaves
<1> QED
  BY <1>1, <1>2, <1>4, <1>5, <1>6, <1>7, <1>8, <1>9, <1>10
     DEF Next, Backup, vars, BeginBackup, ListSource, ReuseBaseObjects, CommitArchive

LEMMA ShadowedNext ==
  TypeInv /\ TypeInv' /\ Phases /\ Shadowed /\ [Next]_vars => Shadowed'
<1> SUFFICES ASSUME TypeInv, TypeInv', Phases, Shadowed, [Next]_vars PROVE Shadowed'
  OBVIOUS
<1> USE DEF settings, objects, Busy
<1>1. CASE UNCHANGED <<useSnapshots, shadow, baseSet, main>> /\ (pc' = pc \/ Busy)
  BY <1>1 DEF Shadowed
<1>2. CASE Open \/ EndSession
  BY <1>2 DEF Open, EndSession, Phases, Shadowed
<1>3. CASE BeginBackup
  <2>1. pc = "open" /\ UNCHANGED <<useSnapshots, baseSet, main>>
    BY <1>3 DEF BeginBackup
  <2>2. CASE useSnapshots
    <3>1. PICK d \in Devices : shadow' = [device |-> d, live |-> live, inode |-> inode]
      BY <1>3, <2>2 DEF BeginBackup
    <3>2. shadow' \in Shadow
      BY <3>1 DEF Shadow, TypeInv, TypeOK
    <3> QED
      BY <2>1, <2>2, <3>2, NoneAssumption DEF Shadowed
  <2>3. CASE ~useSnapshots
    BY <1>3, <2>1, <2>3 DEF BeginBackup, Shadowed
  <2> QED
    BY <2>2, <2>3
<1>4. CASE ListSource
  <2>1. main'.MappedBasePath = SourceLocation
    BY <1>4 DEF ListSource
  <2>2. useSnapshots => SourceLocation # Live
    BY <1>4, BackupEngineAssumption
       DEF ListSource, Shadowed, SourceLocation, MapPathForward, TypeInv, TypeOK, Shadow
  <2> QED
    BY <1>4, <2>1, <2>2 DEF ListSource, Shadowed
<1>5. CASE CommitArchive
  BY <1>5 DEF CommitArchive, Shadowed
<1>6. CASE \E p \in Paths : SkipObject(p) \/ AddInitialStream(p)
                            \/ AddChangedFile(p) \/ KeepUnmodified(p)
  <2>1. PICK p \in Paths : Visit(p)
    BY <1>6 DEF SkipObject, AddInitialStream, AddChangedFile, KeepUnmodified
  <2> QED
    BY <1>1, <2>1, VisitLeaves
<1>7. CASE Environment
  BY <1>1, <1>7, EditIs, EditLeaves, RemoveLeaves
<1> QED
  BY <1>1, <1>2, <1>3, <1>4, <1>5, <1>6, <1>7
     DEF Next, Backup, vars, ReuseBaseObjects, ScanEntry, RecalculateFileGuid,
         PrepareStreams, WriteStream

LEMMA SeenAllNext == TypeInv /\ SeenAll /\ [Next]_vars => SeenAll'
<1> SUFFICES ASSUME TypeInv, SeenAll, [Next]_vars PROVE SeenAll'
  OBVIOUS
<1> USE DEF settings, objects, Busy, disk, store
<1>1. CASE UNCHANGED <<live, inode, shadow, seen>> /\ (pc' = pc \/ Busy)
  BY <1>1 DEF SeenAll, Readable
<1>2. CASE Open \/ EndSession \/ CommitArchive
  BY <1>2 DEF Open, EndSession, CommitArchive, SeenAll
<1>3. CASE BeginBackup
  <2>1. PICK d : shadow' = [device |-> d, live |-> live, inode |-> inode] \/ shadow' = None
    BY <1>3 DEF BeginBackup
  <2>2. UNCHANGED <<live, inode>> /\ seen' = ContentsOf(live, inode)
    BY <1>3 DEF BeginBackup
  <2>3. Readable' = ContentsOf(live, inode)
    BY <2>1, <2>2 DEF Readable
  <2> QED
    BY <2>2, <2>3 DEF SeenAll
<1>4. CASE \E p \in Paths : SkipObject(p) \/ AddInitialStream(p)
                            \/ AddChangedFile(p) \/ KeepUnmodified(p)
  <2>1. PICK p \in Paths : Visit(p)
    BY <1>4 DEF SkipObject, AddInitialStream, AddChangedFile, KeepUnmodified
  <2> QED
    BY <1>1, <2>1, VisitLeaves
<1>5. ASSUME NEW kind, Edit(kind) PROVE SeenAll'
  <2>1. UNCHANGED <<pc, shadow>>
    BY <1>5, EditLeaves
  <2>2. CASE Busy /\ shadow = None
    <3>1. seen' = [p \in Paths |-> seen[p] \cup ContentsOf(live', inode')[p]]
      BY <1>5, <2>2 DEF Edit
    <3>2. Readable' = ContentsOf(live', inode')
      BY <2>1, <2>2 DEF Readable
    <3> QED
      BY <3>1, <3>2 DEF SeenAll
  <2>3. CASE Busy /\ shadow # None
    <3>1. seen' = seen /\ Readable' = Readable
      BY <1>5, <2>1, <2>3 DEF Edit, Readable
    <3> QED
      BY <2>1, <3>1 DEF SeenAll
  <2> QED
    BY <2>1, <2>2, <2>3 DEF SeenAll
<1>6. CASE Environment
  BY <1>1, <1>5, <1>6, EditIs, RemoveLeaves
<1> QED
  BY <1>1, <1>2, <1>3, <1>4, <1>6
     DEF Next, Backup, vars, ListSource, ReuseBaseObjects, ScanEntry, RecalculateFileGuid,
         PrepareStreams, WriteStream

LEMMA SessionInvNext == TypeInv /\ TypeInv' /\ SessionInv /\ [Next]_vars => SessionInv'
  BY PhasesNext, ExclusionsKeptNext, ShadowedNext, SeenAllNext DEF SessionInv

\* What a reader of the source gets, this backup saw there.
LEMMA ReadWasSeen ==
  ASSUME TypeInv, SessionInv, Busy, baseSet, NEW p \in Paths,
         ReadAt(main.MappedBasePath, p) # None
  PROVE  ReadAt(main.MappedBasePath, p) \in seen[p]
<1> DEFINE l == main.MappedBasePath
           e == EntryAt(l, p)
<1>1. l \in Locs
  BY DEF TypeInv, TypeOK, WellFormed, Main
<1>2. /\ IsFile(e) /\ ReadAt(l, p) = InodeAt(l, e).content
      /\ e # None
  BY DEF ReadAt, IsFile
<1>3. Readable[p] \subseteq seen[p]
  BY DEF SessionInv, SeenAll
<1>4. CASE shadow = None
  <2>1. l = Live
    BY <1>2, <1>4 DEF EntryAt, Reachable
  <2>2. e = live[p] /\ InodeAt(l, e) = inode[live[p]]
    BY <2>1 DEF EntryAt, InodeAt
  <2>3. Readable[p] = {inode[live[p]].content}
    BY <1>2, <1>4, <2>2 DEF Readable, ContentsOf
  <2> QED
    BY <1>2, <1>3, <2>2, <2>3
<1>5. CASE shadow # None
  <2>1. l # Live
    BY <1>5 DEF SessionInv, Shadowed
  <2>2. e = shadow.live[p] /\ InodeAt(l, e) = shadow.inode[e]
    BY <1>2, <2>1 DEF EntryAt, InodeAt
  <2>3. Readable[p] = {shadow.inode[e].content}
    BY <1>2, <1>5, <2>2 DEF Readable, ContentsOf
  <2> QED
    BY <1>2, <1>3, <2>2, <2>3
<1> QED
  BY <1>4, <1>5

-----------------------------------------------------------------------------
(***************************************************************************)
(* The visit gives streams to files.                                       *)
(***************************************************************************)
LEMMA VisitIdle ==
  ASSUME Phases, StreamsInOrder, pc # "archive"
  PROVE  VisitInv
BY DEF Phases, StreamsInOrder, VisitInv, GuidsVisited, StreamsOfFiles, OutSeen, ExcludedShare,
       Visited

LEMMA VisitPrepare ==
  ASSUME TypeInv, Phases, StreamsInOrder, PrepareStreams
  PROVE  VisitInv'
<1>1. /\ pc = "scan" /\ UNCHANGED <<guids, streams, out, excluded>>
      /\ todo' = {p \in Paths : base[p] # None}
  BY DEF PrepareStreams, pending, settings
<1>2. \A p \in Paths : ~Visited(p)'
  BY <1>1, PrepareIs DEF Visited
<1> QED
  BY <1>1, <1>2, VisitIdle DEF VisitInv, GuidsVisited, StreamsOfFiles, OutSeen, ExcludedShare,
     Phases, StreamsInOrder, TypeInv, TypeOK

\* The object a stream belongs to, and the one that is registered for an identity.
LEMMA StreamOf ==
  ASSUME TypeInv, NEW i \in DOMAIN streams
  PROVE  streams[i].fso \in Paths
<1>1. streams \in Seq(Stream)
  BY DEF TypeInv, TypeOK
<1>2. streams[i] \in Stream
  BY <1>1
<1> QED
  BY <1>2 DEF Stream

LEMMA RegisteredIs ==
  ASSUME TypeInv, NEW f \in Fso, HasKnownGuid(f)
  PROVE  /\ f.FileSystemGuid \in Guids /\ guids[f.FileSystemGuid] \in Paths
         /\ guids[f.FileSystemGuid] # 0
BY DEF TypeInv, TypeOK, HasKnownGuid, Fso

\* Registering an object hides none of those that are registered.
LEMMA RegisterIs ==
  ASSUME TypeInv, NEW p \in Paths, base[p] \in Fso, ~HasKnownGuid(base[p]),
         guids' = Register(base[p], p)
  PROVE  \A g \in Guids : /\ guids[g] # 0 => guids'[g] = guids[g]
                          /\ guids'[g] # guids[g] => guids'[g] = p /\ base[p].FileSystemGuid = g
<1>1. guids \in [Guids -> Paths \cup {0}] /\ base[p].FileSystemGuid \in Guids \cup {None}
  BY DEF TypeInv, TypeOK, Fso
<1> QED
  BY <1>1 DEF Register, HasKnownGuid

LEMMA VisitedNow ==
  ASSUME NEW p \in Paths, Visit(p), Replaces(p)
  PROVE  /\ ~Visited(p) /\ Visited(p)'
         /\ \A q \in Paths \ {p} : Visited(q)' <=> Visited(q)
         /\ \A q \in Paths : Visited(q) => q # p /\ base'[q] = base[q] /\ Visited(q)'
BY VisitLeaves DEF Replaces, Visited

\* What was visited stays, and its owner with it.
LEMMA VisitKeeps ==
  ASSUME TypeInv, VisitInv, NEW p \in Paths, Visit(p), Replaces(p), SameFile(base[p], base'[p]),
         \/ guids' = guids
         \/ ShouldBeAdded(base[p]) /\ guids' = Register(base[p], p)
  PROVE  /\ GuidsVisited'
         /\ \A q \in Paths, id \in Nat : IsStreamOf(q, id) => IsStreamOf(q, id)'
         /\ \A q \in excluded \ {p} : Visited(q)' /\ HasData(base'[q]) =>
              /\ base'[q].Type = "FileHardlink" /\ HasKnownGuid(base[q])'
              /\ HasData(OwnerOf(base[q]))'
              /\ OwnerOf(base[q])'.StreamUniqueId = base'[q].StreamUniqueId
<1>1. /\ base[p] \in Fso
      /\ \A g \in Guids : /\ guids[g] # 0 => guids'[g] = guids[g]
                          /\ guids'[g] # guids[g] => /\ guids'[g] = p /\ Eligible(base[p])
                                                     /\ base[p].FileSystemGuid = g
  BY RegisterIs DEF Replaces, ShouldBeAdded
<1>2. GuidsVisited'
  <2> SUFFICES ASSUME NEW g \in Guids, NEW q, q = guids'[g], q # 0
      PROVE  Visited(q)' /\ Eligible(base[q])' /\ base'[q].FileSystemGuid = g
    BY Zenon DEF GuidsVisited
  <2>1. CASE q = guids[g]
    <3>1. q \in Paths /\ Visited(q) /\ Eligible(base[q]) /\ base[q].FileSystemGuid = g
      BY <2>1 DEF VisitInv, GuidsVisited, TypeInv, TypeOK
    <3>2. Visited(q)' /\ base'[q] = base[q]
      BY <3>1, VisitedNow
    <3> QED
      BY <3>1, <3>2 DEF Eligible
  <2>2. CASE q # guids[g]
    <3>1. q = p /\ Eligible(base[p]) /\ base[p].FileSystemGuid = g
      BY <1>1, <2>2
    <3>2. Visited(p)' /\ Eligible(base[p])'
      BY <3>1, VisitedNow DEF SameFile, Eligible
    <3> QED
      BY <3>1, <3>2 DEF SameFile
  <2> QED
    BY <2>1, <2>2
<1>3. UNCHANGED count
  BY VisitLeaves
<1>4. ASSUME NEW q \in Paths, NEW id \in Nat, IsStreamOf(q, id)
      PROVE  IsStreamOf(q, id)'
  BY <1>3, <1>4, VisitedNow DEF IsStreamOf
<1>5. ASSUME NEW q \in excluded \ {p}, Visited(q)', HasData(base'[q])
      PROVE  /\ base'[q].Type = "FileHardlink" /\ HasKnownGuid(base[q])'
             /\ HasData(OwnerOf(base[q]))'
             /\ OwnerOf(base[q])'.StreamUniqueId = base'[q].StreamUniqueId
  <2>1. q \in Paths \ {p}
    BY DEF TypeInv, TypeOK
  <2>2. Visited(q) /\ base'[q] = base[q]
    BY <1>5, <2>1, VisitedNow
  <2>3. /\ base[q].Type = "FileHardlink" /\ HasKnownGuid(base[q])
        /\ HasData(OwnerOf(base[q])) /\ OwnerOf(base[q]).StreamUniqueId = base[q].StreamUniqueId
    BY <1>5, <2>2 DEF VisitInv, ExcludedShare
  <2>4. base[q] \in Fso
    BY <2>1, <2>2 DEF Visited, TypeInv, TypeOK
  <2> DEFINE g == base[q].FileSystemGuid
  <2>5. g \in Guids /\ guids[g] \in Paths /\ guids[g] # 0
    BY <2>3, <2>4, RegisteredIs
  <2>6. guids'[g] = guids[g] /\ base'[guids[g]] = base[guids[g]]
    BY <1>1, <2>5, VisitedNow DEF VisitInv, GuidsVisited
  <2> QED
    BY <2>2, <2>3, <2>5, <2>6 DEF HasKnownGuid, OwnerOf, HasData
<1> QED
  BY <1>2, <1>4, <1>5

\* The streams after one is added.
LEMMA AppendedStreams ==
  ASSUME TypeInv, NEW s, streams' = Append(streams, s)
  PROVE  /\ DOMAIN streams' = 1..(Len(streams) + 1) /\ DOMAIN streams = 1..Len(streams)
         /\ Len(streams) \in Nat
         /\ \A i \in DOMAIN streams : streams'[i] = streams[i]
         /\ streams'[Len(streams) + 1] = s
<1>1. streams \in Seq(Stream)
  BY DEF TypeInv, TypeOK
<1> QED
  BY <1>1

LEMMA VisitInvSkip ==
  ASSUME TypeInv, SessionInv, StreamsInOrder, VisitInv, NEW p \in Paths, SkipObject(p)
  PROVE  VisitInv'
<1>1. /\ Visit(p) /\ Replaces(p) /\ SameFile(base[p], base'[p]) /\ ~ShouldBeAdded(base[p])
      /\ UNCHANGED <<guids, streams, out, seen, excluded>>
  BY SkipIs, VisitLeaves
<1>2. GuidsVisited'
  BY <1>1, VisitKeeps
<1>3. StreamsOfFiles'
  <2>1. ASSUME NEW i \in DOMAIN streams
        PROVE  streams[i].fso \in Paths /\ streams[i].UniqueId \in Nat
               /\ IsStreamOf(streams[i].fso, streams[i].UniqueId)
    <3>1. streams \in Seq(Stream)
      BY DEF TypeInv, TypeOK
    <3>2. streams[i] \in Stream
      BY <3>1
    <3> QED
      BY <3>2 DEF Stream, VisitInv, StreamsOfFiles
  <2>2. ASSUME NEW i \in DOMAIN streams
        PROVE  \A q, id : q = streams[i].fso /\ id = streams[i].UniqueId => IsStreamOf(q, id)'
    BY <1>1, <2>1, VisitKeeps
  <2>3. \A i \in DOMAIN streams' : \A q, id :
          q = streams'[i].fso /\ id = streams'[i].UniqueId => IsStreamOf(q, id)'
    BY <1>1, <2>2
  <2> QED
    BY <2>3, Zenon DEF StreamsOfFiles
<1>4. OutSeen'
  BY <1>1 DEF VisitInv, OutSeen
<1>5. ASSUME p \in excluded, HasData(base'[p])
      PROVE  /\ base'[p].Type = "FileHardlink" /\ HasKnownGuid(base[p])'
             /\ HasData(OwnerOf(base[p]))'
             /\ OwnerOf(base[p])'.StreamUniqueId = base'[p].StreamUniqueId
  <2>1. base[p] \in Fso /\ ~Eligible(base[p])
    BY <1>1, <1>5 DEF Replaces, Eligible, SessionInv, ExclusionsKept
  <2>2. Shares(base[p])
    BY <1>5, <2>1, SkipIs DEF HasData
  <2> DEFINE g == base[p].FileSystemGuid
  <2>3. g \in Guids /\ guids[g] \in Paths /\ guids[g] # 0
    BY <2>1, <2>2, RegisteredIs DEF Shares
  <2>4. Visited(guids[g]) /\ Eligible(base[guids[g]])
    BY <2>3 DEF VisitInv, GuidsVisited
  <2>5. base'[guids[g]] = base[guids[g]]
    BY <1>1, <2>3, <2>4, VisitedNow
  <2>6. /\ base'[p].LatestVersion = base[guids[g]].LatestVersion
        /\ base'[p].StreamUniqueId = base[guids[g]].StreamUniqueId
    BY <2>2, SkipIs DEF OwnerOf
  <2>7. HasData(base[guids[g]])
    BY <1>5, <2>4, <2>6 DEF HasData, Visited, Eligible
  <2>8. base'[p].FileSystemGuid = g /\ base'[p].Type = "FileHardlink"
    BY <1>1, <2>2 DEF SameFile, Shares
  <2> QED
    BY <1>1, <2>2, <2>3, <2>5, <2>6, <2>7, <2>8 DEF HasKnownGuid, OwnerOf, HasData, Shares
<1>6. ExcludedShare'
  BY <1>1, <1>5, VisitKeeps DEF ExcludedShare
<1> QED
  BY <1>2, <1>3, <1>4, <1>6 DEF VisitInv

\* A file that is visited because it is included.
LEMMA VisitInvIncluded ==
  ASSUME TypeInv, SessionInv, StreamsInOrder, VisitInv, NEW p \in Paths, Visit(p),
         Replaces(p), SameFile(base[p], base'[p]), ShouldBeAdded(base[p]),
         guids' = Register(base[p], p),
         \/ streams' = streams
         \/ \E id \in Nat : /\ streams' = Append(streams, [UniqueId |-> id, fso |-> p])
                            /\ IsStreamOf(p, id)'
  PROVE  VisitInv'
<1>1. UNCHANGED <<out, seen, excluded>>
  BY VisitLeaves
<1>2. GuidsVisited'
  BY VisitKeeps
<1>3. streams \in Seq(Stream) /\ out \in Seq(Written)
  BY DEF TypeInv, TypeOK
<1>4. ASSUME NEW i \in DOMAIN streams
      PROVE  \A q, id : q = streams[i].fso /\ id = streams[i].UniqueId => IsStreamOf(q, id)'
  <2>1. streams[i] \in Stream
    BY <1>3
  <2>2. IsStreamOf(streams[i].fso, streams[i].UniqueId)
    BY DEF VisitInv, StreamsOfFiles
  <2>3. \A q \in Paths, id \in Nat : IsStreamOf(q, id) => IsStreamOf(q, id)'
    BY VisitKeeps
  <2>4. streams[i].fso \in Paths /\ streams[i].UniqueId \in Nat
    BY <2>1 DEF Stream
  <2> QED
    BY <2>2, <2>3, <2>4
<1>5. /\ \A i \in DOMAIN streams' : \A q, id :
           q = streams'[i].fso /\ id = streams'[i].UniqueId => IsStreamOf(q, id)'
      /\ \A i \in DOMAIN streams : i \in DOMAIN streams' /\ streams'[i] = streams[i]
  <2>1. CASE streams' = streams
    BY <1>4, <2>1
  <2>2. CASE \E id \in Nat : /\ streams' = Append(streams, [UniqueId |-> id, fso |-> p])
                             /\ IsStreamOf(p, id)'
    <3>1. PICK n \in Nat : /\ streams' = Append(streams, [UniqueId |-> n, fso |-> p])
                           /\ IsStreamOf(p, n)'
      BY <2>2
    <3>2. /\ DOMAIN streams' = 1..(Len(streams) + 1) /\ DOMAIN streams = 1..Len(streams)
          /\ Len(streams) \in Nat
          /\ \A i \in DOMAIN streams : streams'[i] = streams[i]
          /\ streams'[Len(streams) + 1] = [UniqueId |-> n, fso |-> p]
      BY <3>1, AppendedStreams
    <3>3. \A i \in DOMAIN streams' : i \in DOMAIN streams \/ i = Len(streams) + 1
      BY <3>2
    <3>4. \A q, id : q = p /\ id = n => IsStreamOf(q, id)'
      BY <3>1 DEF IsStreamOf
    <3>5. streams'[Len(streams) + 1].fso = p /\ streams'[Len(streams) + 1].UniqueId = n
      BY <3>2
    <3>6. ASSUME NEW i \in DOMAIN streams', NEW q, NEW id, q = streams'[i].fso,
                 id = streams'[i].UniqueId
          PROVE  IsStreamOf(q, id)'
      <4>1. CASE i \in DOMAIN streams
        BY <1>4, <3>2, <3>6, <4>1
      <4>2. CASE i = Len(streams) + 1
        BY <3>4, <3>5, <3>6, <4>2
      <4> QED
        BY <3>3, <4>1, <4>2
    <3>7. \A i \in DOMAIN streams : i \in DOMAIN streams'
      BY <3>2
    <3> QED
      BY <3>2, <3>6, <3>7
  <2> QED
    BY <2>1, <2>2
<1>6. StreamsOfFiles'
  BY <1>5, Zenon DEF StreamsOfFiles
<1>7. OutSeen'
  <2>1. DOMAIN out \subseteq DOMAIN streams
    BY <1>3 DEF StreamsInOrder
  <2> QED
    BY <1>1, <1>5, <2>1 DEF VisitInv, OutSeen
<1>8. p \notin excluded
  BY DEF ShouldBeAdded, Eligible, SessionInv, ExclusionsKept, Replaces
<1>9. ExcludedShare'
  BY <1>1, <1>8, VisitKeeps DEF ExcludedShare
<1> QED
  BY <1>2, <1>6, <1>7, <1>9 DEF VisitInv

LEMMA VisitInvAdd ==
  ASSUME TypeInv, SessionInv, StreamsInOrder, VisitInv, NEW p \in Paths,
         AddInitialStream(p) \/ AddChangedFile(p)
  PROVE  VisitInv'
<1>1. PICK h \in Contents \cup {None} : AddFullStream(p, h)
  BY AddStreamIs
<1>2. Visit(p) /\ ShouldBeAdded(base[p])
  BY AddStreamIs
<1>3. /\ Replaces(p) /\ SameFile(base[p], base'[p])
      /\ base'[p].LatestVersion = count /\ base'[p].StreamUniqueId = nextId
      /\ base'[p].BackupStream = "Full" /\ guids' = Register(base[p], p)
      /\ streams' = Append(streams, [UniqueId |-> nextId, fso |-> p])
  BY <1>1, <1>2, AddIs
<1>4. nextId \in Nat /\ UNCHANGED count
  BY <1>2, VisitLeaves DEF TypeInv, TypeOK
<1>5. \A id : id = nextId => IsStreamOf(p, id)'
  BY <1>2, <1>3, <1>4, VisitedNow DEF IsStreamOf, SameFile, ShouldBeAdded, Eligible
<1> QED
  BY <1>2, <1>3, <1>4, <1>5, VisitInvIncluded

LEMMA VisitInvKeep ==
  ASSUME TypeInv, SessionInv, StreamsInOrder, VisitInv, NEW p \in Paths, KeepUnmodified(p)
  PROVE  VisitInv'
BY KeepIs, VisitInvIncluded

LEMMA VisitInvWrite ==
  ASSUME TypeInv, SessionInv, StreamsInOrder, VisitInv, WriteStream
  PROVE  VisitInv'
<1>1. PICK p \in Paths, c \in Contents :
        /\ pc = "archive" /\ Len(out) < Len(streams)
        /\ p = streams[Len(out) + 1].fso /\ c = ReadAt(main.MappedBasePath, p)
        /\ out' = Append(out, [StreamId |-> streams[Len(out) + 1].UniqueId, data |-> c])
        /\ Replaces(p) /\ SameFile(base[p], base'[p])
        /\ base'[p].LatestVersion = base[p].LatestVersion
        /\ base'[p].StreamUniqueId = base[p].StreamUniqueId
        /\ base'[p].BackupStream = base[p].BackupStream
        /\ UNCHANGED <<pc, todo, count, excluded, guids, streams, seen>>
  BY WriteIs
<1>2. \A q \in Paths : /\ Visited(q)' <=> Visited(q)
                       /\ SameFile(base[q], base'[q])
                       /\ HasData(base'[q]) <=> HasData(base[q])
                       /\ base'[q].LatestVersion = base[q].LatestVersion
                       /\ base'[q].StreamUniqueId = base[q].StreamUniqueId
                       /\ base'[q].BackupStream = base[q].BackupStream
  BY <1>1 DEF Replaces, Visited, SameFile, HasData
<1>3. GuidsVisited'
  <2> SUFFICES ASSUME NEW g \in Guids, NEW q, q = guids'[g], q # 0
      PROVE  Visited(q)' /\ Eligible(base[q])' /\ base'[q].FileSystemGuid = g
    BY Zenon DEF GuidsVisited
  <2>1. q \in Paths /\ Visited(q) /\ Eligible(base[q]) /\ base[q].FileSystemGuid = g
    BY <1>1 DEF VisitInv, GuidsVisited, TypeInv, TypeOK
  <2> QED
    BY <1>2, <2>1 DEF SameFile, Eligible
<1>4. StreamsOfFiles'
  <2>1. \A q \in Paths : \A id : IsStreamOf(q, id) => IsStreamOf(q, id)'
    BY <1>1, <1>2 DEF IsStreamOf, SameFile
  <2>2. \A i \in DOMAIN streams' : \A q, id :
          q = streams'[i].fso /\ id = streams'[i].UniqueId => IsStreamOf(q, id)'
    BY <1>1, <2>1, StreamOf DEF VisitInv, StreamsOfFiles
  <2> QED
    BY <2>2, Zenon DEF StreamsOfFiles
<1>5. OutSeen'
  <2>1. out \in Seq(Written)
    BY DEF TypeInv, TypeOK
  <2>2. DOMAIN out' = 1..(Len(out) + 1) /\ DOMAIN out = 1..Len(out) /\ Len(out) \in Nat
    BY <1>1, <2>1
  <2>3. /\ \A i \in DOMAIN out : out'[i] = out[i]
        /\ out'[Len(out) + 1].data = c
    BY <1>1, <2>1
  <2>4. c \in seen[p]
    BY <1>1, ReadWasSeen, BackupEngineAssumption DEF Busy, TypeInv, WellFormed
  <2> QED
    BY <1>1, <2>2, <2>3, <2>4 DEF VisitInv, OutSeen
<1>6. ExcludedShare'
  <2> SUFFICES ASSUME NEW q \in excluded, Visited(q), HasData(base[q])
      PROVE  /\ base'[q].Type = "FileHardlink" /\ HasKnownGuid(base[q])'
             /\ HasData(OwnerOf(base[q]))'
             /\ OwnerOf(base[q])'.StreamUniqueId = base'[q].StreamUniqueId
    BY <1>1, <1>2 DEF ExcludedShare, TypeInv, TypeOK
  <2>1. q \in Paths /\ base[q] \in Fso
    BY DEF TypeInv, TypeOK, Visited
  <2>2. /\ base[q].Type = "FileHardlink" /\ HasKnownGuid(base[q])
        /\ HasData(OwnerOf(base[q])) /\ OwnerOf(base[q]).StreamUniqueId = base[q].StreamUniqueId
    BY DEF VisitInv, ExcludedShare
  <2>3. guids[base[q].FileSystemGuid] \in Paths
    BY <2>1, <2>2, RegisteredIs
  <2> QED
    BY <1>1, <1>2, <2>1, <2>2, <2>3 DEF HasKnownGuid, OwnerOf, SameFile
<1> QED
  BY <1>3, <1>4, <1>5, <1>6 DEF VisitInv

\* Edits only add to what was seen.
LEMMA VisitInvEdit ==
  ASSUME TypeInv, VisitInv, StreamsInOrder, NEW kind, Edit(kind)
  PROVE  VisitInv'
<1>1. UNCHANGED <<pc, count, excluded, base, todo, guids, streams, out>>
  BY EditLeaves
<1>2. \A p \in Paths : seen[p] \subseteq seen'[p]
  BY DEF Edit
<1>3. \A i \in DOMAIN out : streams[i].fso \in Paths
  <2>1. streams \in Seq(Stream) /\ out \in Seq(Written)
    BY DEF TypeInv, TypeOK
  <2>2. DOMAIN out \subseteq DOMAIN streams
    BY <2>1 DEF StreamsInOrder
  <2> QED
    BY <2>2, StreamOf
<1>4. OutSeen'
  BY <1>1, <1>2, <1>3 DEF VisitInv, OutSeen
<1>5. GuidsVisited' /\ StreamsOfFiles' /\ ExcludedShare'
  BY <1>1 DEF VisitInv, GuidsVisited, StreamsOfFiles, ExcludedShare, Visited, IsStreamOf,
              HasKnownGuid, OwnerOf
<1> QED
  BY <1>4, <1>5 DEF VisitInv

LEMMA VisitInvNext ==
  TypeInv /\ SessionInv /\ SessionInv' /\ IdInv /\ IdInv' /\ VisitInv /\ [Next]_vars => VisitInv'
<1> SUFFICES ASSUME TypeInv, SessionInv, SessionInv', IdInv, IdInv', VisitInv, [Next]_vars
    PROVE  VisitInv'
  OBVIOUS
<1>1. Phases /\ StreamsInOrder /\ Phases' /\ StreamsInOrder'
  BY DEF SessionInv, IdInv
<1>2. CASE pc' # "archive"
  BY <1>1, <1>2 DEF Phases, StreamsInOrder, VisitInv, GuidsVisited, StreamsOfFiles, OutSeen,
                    ExcludedShare, Visited
<1>3. CASE PrepareStreams
  BY <1>1, <1>3, VisitPrepare
<1>4. CASE \E p \in Paths : SkipObject(p) \/ AddInitialStream(p)
                            \/ AddChangedFile(p) \/ KeepUnmodified(p)
  BY <1>1, <1>4, VisitInvSkip, VisitInvAdd, VisitInvKeep
<1>5. CASE WriteStream
  BY <1>1, <1>5, VisitInvWrite
<1>6. CASE Environment
  <2>1. CASE \E v \in Versions : RemoveVersion(v)
    BY <1>1, <1>2, <2>1, RemoveLeaves
  <2>2. CASE \A v \in Versions : ~RemoveVersion(v)
    BY <1>1, <1>6, <2>2, EditIs, VisitInvEdit
  <2> QED
    BY <2>1, <2>2
<1>7. CASE UNCHANGED vars
  BY <1>7 DEF vars, settings, objects, pending, VisitInv, GuidsVisited, StreamsOfFiles, OutSeen,
              ExcludedShare, Visited, IsStreamOf, HasKnownGuid, OwnerOf
<1> QED
  BY <1>2, <1>3, <1>4, <1>5, <1>6, <1>7
     DEF Next, Backup, Open, EndSession, BeginBackup, ListSource, ReuseBaseObjects, ScanEntry,
         RecalculateFileGuid, CommitArchive

\* The steps that change what is stored.
LEMMA StoredChanges ==
  ASSUME [Next]_vars
  PROVE  \/ CommitArchive
         \/ \E v \in Versions : RemoveVersion(v)
         \/ UNCHANGED <<arc, truth>>
BY DEF Next, Backup, Environment, vars, store, Open, EndSession, BeginBackup,
       ListSource, ReuseBaseObjects, ScanEntry, RecalculateFileGuid,
       PrepareStreams, SkipObject, AddInitialStream, AddChangedFile,
       KeepUnmodified, Visit, WriteStream, WriteFile, CreateFile, LinkFile,
       RenameFile, DeletePath, MakeDirectory, ClearArchiveFlag, Edit

LEMMA CommitIs ==
  ASSUME TypeInv, CommitArchive
  PROVE  /\ pc = "archive" /\ todo = {} /\ Len(out) = Len(streams)
         /\ UNCHANGED <<known, count, baseSet, main, base, old, oldMain>>
         /\ \A v \in Stored' :
              /\ v # count => v \in Stored /\ arc'[v] = arc[v] /\ truth'[v] = truth[v]
              /\ v = count => /\ arc'[v] = NewArchive
                              /\ truth'[v].seen = seen /\ truth'[v].excluded = excluded
<1>1. /\ pc = "archive" /\ todo = {} /\ Len(out) = Len(streams)
      /\ arc' = [arc EXCEPT ![count] = NewArchive]
      /\ truth' = [truth EXCEPT ![count] =
                     [seen |-> seen, excluded |-> excluded, crit |-> crit,
                      useSnapshots |-> useSnapshots, attempt |-> backups]]
      /\ UNCHANGED <<known, count, baseSet, main, base, old, oldMain>>
  BY DEF CommitArchive, settings, objects, oldTree
<1>2. arc \in [Versions -> Archive \cup {None}] /\ truth \in [Versions -> Truth \cup {None}]
  BY DEF TypeInv, TypeOK
<1>3. \A v \in Stored' : v \in Versions
  BY DEF Stored
<1>4. \A v \in Stored' : v # count => v \in Stored /\ arc'[v] = arc[v] /\ truth'[v] = truth[v]
  BY <1>1, <1>2 DEF Stored
<1>5. \A v \in Stored' : v = count => /\ arc'[v] = NewArchive
                                      /\ truth'[v].seen = seen /\ truth'[v].excluded = excluded
  BY <1>1, <1>2, <1>3
<1> QED
  BY <1>1, <1>4, <1>5

\* What the new archive says of an object.
LEMMA NewObject ==
  ASSUME TypeInv, NEW p \in Paths
  PROVE  LET o == NewArchive.BaseObjects[p]
         IN  /\ o = None <=> base[p] = None
             /\ base[p] # None =>
                  /\ o.Type = base[p].Type /\ o.StreamUniqueId = base[p].StreamUniqueId
                  /\ o.LatestVersion = base[p].LatestVersion /\ o.Hashes = base[p].Hashes
                  /\ o.FileSystemGuid = base[p].FileSystemGuid
             /\ HasData(o) <=> HasData(base[p])
<1> DEFINE o == NewArchive.BaseObjects[p]
<1>1. o = IF base[p] = None THEN None ELSE Serialized(base[p])
  BY DEF NewArchive
<1>2. base[p] # None => o # None
  <2>1. \A f \in Fso : Serialized(f) \in StoredFso
    BY DEF Serialized, Fso, StoredFso
  <2> QED
    BY <1>1, <2>1, NoneAssumption DEF TypeInv, TypeOK
<1> QED
  BY <1>1, <1>2 DEF Serialized, HasData

LEMMA StreamsCommitted ==
  ASSUME TypeInv, IdInv, VisitInv, StreamsComeFromTheirFiles, CommitArchive
  PROVE  StreamsComeFromTheirFiles'
<1> SUFFICES ASSUME NEW v \in Stored', NEW i \in DOMAIN arc'[v].Streams
    PROVE  \E p \in Paths :
             /\ HasData(arc'[v].BaseObjects[p])
             /\ arc'[v].BaseObjects[p].StreamUniqueId = arc'[v].Streams[i].StreamId
             /\ arc'[v].Streams[i].data \in truth'[v].seen[p]
  BY DEF StreamsComeFromTheirFiles, HasData
<1>1. CASE v # count
  BY <1>1, CommitIs DEF StreamsComeFromTheirFiles
<1>2. CASE v = count
  <2>1. arc'[v] = NewArchive /\ truth'[v].seen = seen /\ Len(out) = Len(streams)
    BY <1>2, CommitIs
  <2>2. i \in DOMAIN out /\ arc'[v].Streams[i] = out[i]
    BY <2>1 DEF NewArchive
  <2>3. i \in DOMAIN streams
    <3>1. out \in Seq(Written) /\ streams \in Seq(Stream)
      BY DEF TypeInv, TypeOK
    <3> QED
      BY <2>1, <2>2, <3>1
  <2> DEFINE p == streams[i].fso
  <2>4. p \in Paths /\ IsStreamOf(p, streams[i].UniqueId) /\ out[i].data \in seen[p]
    BY <2>2, <2>3, StreamOf DEF VisitInv, StreamsOfFiles, OutSeen
  <2>5. streams[i].UniqueId = out[i].StreamId
    BY <2>2 DEF IdInv, StreamsInOrder
  <2>6. HasData(base[p]) /\ base[p].StreamUniqueId = out[i].StreamId /\ base[p] # None
    BY <2>4, <2>5 DEF IsStreamOf, HasData, Visited, TypeInv, TypeOK
  <2> QED
    BY <2>1, <2>2, <2>4, <2>6, NewObject
<1> QED
  BY <1>1, <1>2

LEMMA StreamsNext ==
  TypeInv /\ IdInv /\ VisitInv /\ StreamsComeFromTheirFiles /\ [Next]_vars
    => StreamsComeFromTheirFiles'
<1> SUFFICES ASSUME TypeInv, IdInv, VisitInv, StreamsComeFromTheirFiles, [Next]_vars
    PROVE  StreamsComeFromTheirFiles'
  OBVIOUS
<1>1. CASE CommitArchive
  BY <1>1, StreamsCommitted
<1>2. CASE \E v \in Versions : RemoveVersion(v)
  BY <1>2, RemoveLeaves DEF StreamsComeFromTheirFiles
<1>3. CASE UNCHANGED <<arc, truth>>
  BY <1>3 DEF StreamsComeFromTheirFiles, Stored
<1> QED
  BY <1>1, <1>2, <1>3, StoredChanges

\* An excluded object of a new version.
LEMMA ExcludedObject ==
  ASSUME TypeInv, SessionInv, VisitInv, pc = "archive", todo = {},
         NEW p \in excluded, HasData(base[p])
  PROVE  /\ base[p].Type = "FileHardlink"
         /\ \E q \in Paths \ excluded :
              /\ HasData(base[q]) /\ base[q].FileSystemGuid = base[p].FileSystemGuid
              /\ base[q].StreamUniqueId = base[p].StreamUniqueId
<1>1. p \in Paths /\ Visited(p) /\ base[p] \in Fso
  BY DEF TypeInv, TypeOK, Visited, HasData
<1>2. /\ base[p].Type = "FileHardlink" /\ HasKnownGuid(base[p])
      /\ HasData(OwnerOf(base[p])) /\ OwnerOf(base[p]).StreamUniqueId = base[p].StreamUniqueId
  BY <1>1 DEF VisitInv, ExcludedShare
<1> DEFINE g == base[p].FileSystemGuid
<1>3. g \in Guids /\ guids[g] \in Paths /\ guids[g] # 0
  BY <1>1, <1>2, RegisteredIs
<1>4. Eligible(base[guids[g]]) /\ base[guids[g]].FileSystemGuid = g /\ base[guids[g]] # None
  BY <1>3 DEF VisitInv, GuidsVisited, Visited
<1>5. guids[g] \notin excluded
  BY <1>3, <1>4 DEF SessionInv, ExclusionsKept, Eligible
<1> QED
  BY <1>2, <1>3, <1>4, <1>5 DEF OwnerOf

LEMMA ExcludedNext ==
  TypeInv /\ SessionInv /\ VisitInv /\ ExcludedOnlyThroughHardlinks /\ [Next]_vars
    => ExcludedOnlyThroughHardlinks'
<1> SUFFICES ASSUME TypeInv, SessionInv, VisitInv, ExcludedOnlyThroughHardlinks, [Next]_vars
    PROVE  ExcludedOnlyThroughHardlinks'
  OBVIOUS
<1>1. CASE CommitArchive
  <2> SUFFICES ASSUME NEW v \in Stored', NEW p \in truth'[v].excluded,
                      HasData(arc'[v].BaseObjects[p])
      PROVE  /\ arc'[v].BaseObjects[p].Type = "FileHardlink"
             /\ \E q \in Paths \ truth'[v].excluded :
                  /\ HasData(arc'[v].BaseObjects[q])
                  /\ arc'[v].BaseObjects[q].FileSystemGuid = arc'[v].BaseObjects[p].FileSystemGuid
                  /\ arc'[v].BaseObjects[q].StreamUniqueId = arc'[v].BaseObjects[p].StreamUniqueId
    BY DEF ExcludedOnlyThroughHardlinks, HasData
  <2>1. CASE v # count
    BY <1>1, <2>1, CommitIs DEF ExcludedOnlyThroughHardlinks
  <2>2. CASE v = count
    <3>1. /\ arc'[v] = NewArchive /\ truth'[v].excluded = excluded
          /\ pc = "archive" /\ todo = {}
      BY <1>1, <2>2, CommitIs
    <3>2. p \in excluded /\ p \in Paths
      BY <3>1 DEF TypeInv, TypeOK
    <3>3. HasData(base[p]) /\ base[p] # None
      BY <3>1, <3>2, NewObject DEF HasData
    <3>4. PICK q \in Paths \ excluded :
            /\ base[p].Type = "FileHardlink" /\ HasData(base[q])
            /\ base[q].FileSystemGuid = base[p].FileSystemGuid
            /\ base[q].StreamUniqueId = base[p].StreamUniqueId
      BY <3>1, <3>2, <3>3, ExcludedObject
    <3>5. base[q] # None
      BY <3>4 DEF HasData
    <3> QED
      BY <3>1, <3>2, <3>3, <3>4, <3>5, NewObject
  <2> QED
    BY <2>1, <2>2
<1>2. CASE \E v \in Versions : RemoveVersion(v)
  BY <1>2, RemoveLeaves DEF ExcludedOnlyThroughHardlinks
<1>3. CASE UNCHANGED <<arc, truth>>
  BY <1>3 DEF ExcludedOnlyThroughHardlinks, Stored
<1> QED
  BY <1>1, <1>2, <1>3, StoredChanges

DataInv == TypeInv /\ IdInv /\ SessionInv /\ VisitInv

LEMMA DataInvInit == Init => DataInv
<1> SUFFICES ASSUME Init PROVE DataInv
  OBVIOUS
<1>1. TypeInv /\ IdInv /\ SessionInv
  BY TypeInvInit, IdInvInit, InitSession
<1>2. VisitInv
  BY <1>1, VisitIdle DEF SessionInv, IdInv, Init
<1> QED
  BY <1>1, <1>2 DEF DataInv

LEMMA DataInvNext == DataInv /\ [Next]_vars => DataInv'
<1> SUFFICES ASSUME DataInv, [Next]_vars PROVE DataInv'
  OBVIOUS
<1>1. TypeInv' /\ IdInv'
  BY TypeInvNext, IdInvNext DEF DataInv
<1>2. SessionInv'
  BY <1>1, SessionInvNext DEF DataInv
<1>3. VisitInv'
  BY <1>1, <1>2, VisitInvNext DEF DataInv
<1> QED
  BY <1>1, <1>2, <1>3 DEF DataInv

\* The data of every stream of every version was, at some moment of the backup
\* that wrote it, the content of a file that carries the stream's id: with
\* snapshots the source is read through the shadow copy only, without them
\* whatever is read was there (AddFile), and a stream belongs to the one file
\* it was added for (CheckAndMaybeAdd, GenerateInitialStream).  This holds
\* whatever is done to the source in the meantime.
THEOREM StreamsAreOfFiles == Spec => []StreamsComeFromTheirFiles
<1>1. Init => StreamsComeFromTheirFiles
  BY DEF Init, StreamsComeFromTheirFiles, Stored
<1>2. DataInv /\ StreamsComeFromTheirFiles /\ [Next]_vars => StreamsComeFromTheirFiles'
  BY StreamsNext DEF DataInv
<1> QED
  BY <1>1, <1>2, DataInvInit, DataInvNext, PTL DEF Spec

\* Excluding a path keeps its data out of every version, but for a hardlink to
\* a file that is included: that one shares the file's stream
\* (FixUpStreamReference), in a later backup of the same session too.
THEOREM ExclusionsRespected == Spec => []ExcludedOnlyThroughHardlinks
<1>1. Init => ExcludedOnlyThroughHardlinks
  BY DEF Init, ExcludedOnlyThroughHardlinks, Stored
<1>2. DataInv /\ ExcludedOnlyThroughHardlinks /\ [Next]_vars => ExcludedOnlyThroughHardlinks'
  BY ExcludedNext DEF DataInv
<1> QED
  BY <1>1, <1>2, DataInvInit, DataInvNext, PTL DEF Spec

-----------------------------------------------------------------------------
(***************************************************************************)
(* References, when nothing else changes the source during a backup.       *)
(***************************************************************************)
LEMMA CountKnown ==
  ASSUME TypeInv, Open
  PROVE  count' > 0 => count' - 1 \in known'
<1>1. known' = Stored /\ IsVersionCount(count', Stored)
  BY DEF Open
<1>2. Stored \subseteq Nat
  BY BackupEngineAssumption DEF Stored, Versions
<1> QED
  BY <1>1, <1>2 DEF IsVersionCount

LEMMA LatestLoaded ==
  ASSUME TypeInv, IdInv, OldLoaded, BeginBackup, count > 0
  PROVE  old' = arc[count - 1].BaseObjects /\ oldMain' = arc[count - 1].main
<1>1. PICK v \in known : IsLatest(v, known) /\ old' = arc[v].BaseObjects /\ oldMain' = arc[v].main
  BY DEF BeginBackup
<1>2. count - 1 \in known /\ v < count
  BY <1>1 DEF OldLoaded, IdInv, SessionKnows, BeginBackup
<1>3. count \in Nat /\ v \in Nat
  BY BackupEngineAssumption DEF TypeInv, TypeOK, Versions
<1>4. v = count - 1
  BY <1>1, <1>2, <1>3 DEF IsLatest
<1> QED
  BY <1>1, <1>4

LEMMA OldLoadedNext ==
  TypeInv /\ Phases /\ IdInv /\ OldLoaded /\ [Next]_vars => OldLoaded'
<1> SUFFICES ASSUME TypeInv, Phases, IdInv, OldLoaded, [Next]_vars PROVE OldLoaded'
  OBVIOUS
<1> USE DEF settings, objects, oldTree, store, Busy
<1>1. CASE /\ UNCHANGED <<arc, known, count, baseSet, old, oldMain>>
           /\ pc' = pc \/ (Busy /\ pc' # "closed")
  BY <1>1 DEF OldLoaded
<1>2. CASE Open
  BY <1>2, CountKnown DEF Open, Phases, OldLoaded
<1>3. CASE EndSession
  BY <1>3 DEF EndSession, OldLoaded
<1>4. CASE BeginBackup
  <2>1. UNCHANGED <<arc, known, count>> /\ pc = "open" /\ pc' # "closed"
    BY <1>4 DEF BeginBackup
  <2> QED
    BY <1>4, <2>1, LatestLoaded DEF OldLoaded
<1>5. CASE ListSource \/ ReuseBaseObjects
  BY <1>5 DEF ListSource, ReuseBaseObjects, OldLoaded
<1>6. CASE CommitArchive
  <2>1. /\ UNCHANGED <<known, count, baseSet, old, oldMain>> /\ pc = "archive" /\ pc' # "closed"
        /\ arc' = [arc EXCEPT ![count] = NewArchive]
    BY <1>6 DEF CommitArchive
  <2>2. arc \in [Versions -> Archive \cup {None}] /\ count \in Nat
    BY DEF TypeInv, TypeOK
  <2>3. count > 0 => arc'[count - 1] = arc[count - 1]
    <3>1. count - 1 # count
      BY <2>2
    <3>2. count > 0 => count - 1 \in Versions
      BY <2>1 DEF OldLoaded, TypeInv, TypeOK
    <3> QED
      BY <2>1, <2>2, <3>1, <3>2
  <2> QED
    BY <2>1, <2>3 DEF OldLoaded
<1>7. CASE \E p \in Paths : SkipObject(p) \/ AddInitialStream(p)
                            \/ AddChangedFile(p) \/ KeepUnmodified(p)
  <2>1. PICK p \in Paths : Visit(p)
    BY <1>7 DEF SkipObject, AddInitialStream, AddChangedFile, KeepUnmodified
  <2> QED
    BY <1>1, <2>1, VisitLeaves
<1>8. CASE Environment
  <2>1. CASE \E v \in Versions : RemoveVersion(v)
    BY <2>1, RemoveLeaves DEF OldLoaded, Phases
  <2>2. CASE \A v \in Versions : ~RemoveVersion(v)
    BY <1>1, <1>8, <2>2, EditIs, EditLeaves
  <2> QED
    BY <2>1, <2>2
<1> QED
  BY <1>1, <1>2, <1>3, <1>4, <1>5, <1>6, <1>7, <1>8
     DEF Next, Backup, vars, ScanEntry, RecalculateFileGuid, PrepareStreams, WriteStream

LEMMA StillBusyNext ==
  ASSUME ~ConcurrentEdits, TypeInv, StillBusy, [Next]_vars
  PROVE  StillBusy'
<1> USE DEF disk, Busy
<1>1. CASE UNCHANGED <<live, inode, shadow>> /\ (pc' = pc \/ Busy)
  BY <1>1 DEF StillBusy
<1>2. CASE Open \/ EndSession \/ CommitArchive
  BY <1>2 DEF Open, EndSession, CommitArchive, StillBusy
<1>3. CASE BeginBackup
  <2>1. shadow' = None \/ \E d : shadow' = [device |-> d, live |-> live, inode |-> inode]
    BY <1>3 DEF BeginBackup
  <2>2. UNCHANGED <<live, inode>>
    BY <1>3 DEF BeginBackup
  <2> QED
    BY <2>1, <2>2 DEF StillBusy
<1>4. CASE \E p \in Paths : SkipObject(p) \/ AddInitialStream(p)
                            \/ AddChangedFile(p) \/ KeepUnmodified(p)
  <2>1. PICK p \in Paths : Visit(p)
    BY <1>4 DEF SkipObject, AddInitialStream, AddChangedFile, KeepUnmodified
  <2> QED
    BY <1>1, <2>1, VisitLeaves
<1>5. CASE Environment
  BY <1>1, <1>5, EditIs, EditLeaves, RemoveLeaves DEF StillBusy
<1> QED
  BY <1>1, <1>2, <1>3, <1>4, <1>5
     DEF Next, Backup, vars, ListSource, ReuseBaseObjects, ScanEntry, RecalculateFileGuid,
         PrepareStreams, WriteStream

\* What the scan builds agrees with what is found.
AllScanned == \A p \in Paths : base[p] # None => Scanned(p)

LEMMA FoundKept ==
  ASSUME UNCHANGED <<live, shadow, main>>
  PROVE  \A p \in Paths : Found(p)' = Found(p)
BY DEF Found, EntryAt, Reachable

LEMMA ScannedOther ==
  ASSUME NEW q \in Paths, Scanned(q), base'[q] = base[q], q \in retry' => q \in retry,
         \A r \in Paths : Found(r)' = Found(r)
  PROVE  Scanned(q)'
BY DEF Scanned

LEMMA ScanEntryScans ==
  ASSUME TypeInv, ScanInv, NEW p \in Paths, ScanEntry(p)
  PROVE  AllScanned'
<1>1. PICK g \in Guids \cup {None} :
        /\ base' = [base EXCEPT ![p] = FsoFor(p, Found(p), g)]
        /\ \/ retry' = retry /\ g = IF IsFile(Found(p)) THEN Found(p) ELSE None
           \/ IsFile(Found(p)) /\ g = None /\ retry' = retry \cup {p}
        /\ p \in todo
  BY ScanIs
<1>2. pc = "scan" /\ \A q \in Paths : Found(q)' = Found(q)
  BY FoundKept DEF ScanEntry, disk
<1>3. base' = [base EXCEPT ![p] = FsoFor(p, Found(p), g)]
  BY <1>1
<1>4. base'[p] = FsoFor(p, Found(p), g) /\ \A q \in Paths \ {p} : base'[q] = base[q]
  BY <1>3 DEF TypeInv, TypeOK
<1>5. /\ base'[p].FileSystemGuid = g /\ base'[p].BackupStream = "None"
      /\ base'[p].Type = CASE Found(p) = None -> "Junction"
                           [] Found(p) = Dir  -> "Directory"
                           [] OTHER -> IF \E q \in Paths \ {p} : Found(q) = Found(p)
                                         THEN "FileHardlink" ELSE "RegularFile"
  BY <1>4 DEF FsoFor, Found
<1>6. base'[p].Type = "FileHardlink" <=>
        IsFile(Found(p)) /\ \E q \in Paths \ {p} : Found(q) = Found(p)
  BY <1>5 DEF IsFile
<1>7. p \in retry => IsFile(Found(p))
  BY <1>1, <1>2 DEF ScanInv, Scanned, TypeInv, WellFormed
<1>8. Scanned(p)'
  BY <1>1, <1>2, <1>5, <1>6, <1>7 DEF Scanned
<1>9. ASSUME NEW q \in Paths \ {p}, base'[q] # None PROVE Scanned(q)'
  <2>1. Scanned(q) /\ (q \in retry' => q \in retry) /\ base'[q] = base[q]
    BY <1>1, <1>2, <1>4, <1>9 DEF ScanInv
  <2> QED
    BY <1>2, <2>1, ScannedOther
<1> QED
  BY <1>8, <1>9 DEF AllScanned

LEMMA RecalculateScans ==
  ASSUME TypeInv, ScanInv, StillBusy, NEW p \in Paths, RecalculateFileGuid(p)
  PROVE  AllScanned'
<1> DEFINE g == IF IsFile(live[p]) THEN live[p] ELSE None
<1>1. /\ Replaces(p) /\ base'[p] = [base[p] EXCEPT !.FileSystemGuid = g]
      /\ p \in retry /\ retry' = retry \ {p}
  BY RecalculateIs
<1>2. pc = "scan" /\ \A q \in Paths : Found(q)' = Found(q)
  BY FoundKept DEF RecalculateFileGuid, disk
<1>3. Scanned(p) /\ IsFile(Found(p))
  BY <1>1, <1>2 DEF ScanInv, Replaces, Scanned
<1>4. Found(p) = live[p]
  <2>1. Found(p) # None
    BY <1>3 DEF IsFile
  <2> QED
    BY <1>2, <2>1 DEF Found, EntryAt, Reachable, StillBusy, Busy
<1> HIDE DEF g
<1>5. /\ base'[p].FileSystemGuid = g /\ base'[p].Type = base[p].Type
      /\ base'[p].BackupStream = base[p].BackupStream
  BY <1>1 DEF Replaces, Fso
<1>6. Scanned(p)'
  BY <1>1, <1>2, <1>3, <1>4, <1>5 DEF Scanned, g
<1>7. ASSUME NEW q \in Paths \ {p}, base'[q] # None PROVE Scanned(q)'
  <2>1. Scanned(q) /\ (q \in retry' => q \in retry) /\ base'[q] = base[q]
    BY <1>1, <1>2, <1>7 DEF ScanInv, Replaces
  <2> QED
    BY <1>2, <2>1, ScannedOther
<1> QED
  BY <1>6, <1>7 DEF AllScanned

LEMMA ScanInvNext ==
  ASSUME ~ConcurrentEdits, TypeInv, Phases, Phases', StillBusy, ScanInv, [Next]_vars
  PROVE  ScanInv'
<1>1. CASE pc' # "scan"
  BY <1>1 DEF ScanInv
<1>2. CASE \E p \in Paths : ScanEntry(p) \/ RecalculateFileGuid(p)
  BY <1>2, ScanEntryScans, RecalculateScans DEF AllScanned, ScanInv
<1>3. CASE UNCHANGED <<live, shadow, main, base, pc, todo, retry>>
  <2>1. \A q \in Paths : Scanned(q) => Scanned(q)'
    BY <1>3, FoundKept, ScannedOther
  <2> QED
    BY <1>3, <2>1 DEF ScanInv
<1>4. CASE ListSource
  <2>1. base' = NoObjects
    BY <1>4 DEF ListSource, Phases
  <2> QED
    BY <2>1 DEF ScanInv, NoObjects
<1>5. CASE ReuseBaseObjects
  <2>1. todo' = {} /\ retry' = {}
    BY <1>5 DEF ReuseBaseObjects, Phases
  <2> QED
    BY <2>1 DEF ScanInv
<1>6. CASE \E p \in Paths : SkipObject(p) \/ AddInitialStream(p)
                            \/ AddChangedFile(p) \/ KeepUnmodified(p)
  <2>1. PICK p \in Paths : Visit(p)
    BY <1>6 DEF SkipObject, AddInitialStream, AddChangedFile, KeepUnmodified
  <2> QED
    BY <1>1, <2>1, VisitLeaves
<1>7. CASE Environment
  <2>1. CASE \E v \in Versions : RemoveVersion(v)
    BY <1>1, <2>1, RemoveLeaves
  <2>2. CASE \A v \in Versions : ~RemoveVersion(v)
    <3>1. pc' = pc /\ pc # "scan"
      BY <1>7, <2>2, EditIs, EditLeaves DEF Busy
    <3> QED
      BY <1>1, <3>1
  <2> QED
    BY <2>1, <2>2
<1>8. CASE UNCHANGED vars
  BY <1>3, <1>8 DEF vars, disk, objects
<1> QED
  BY <1>1, <1>2, <1>4, <1>5, <1>6, <1>7, <1>8
     DEF Next, Backup, Open, EndSession, BeginBackup, PrepareStreams, WriteStream, CommitArchive

\* Steps that keep every object's type and identity.
SameObjects ==
  \A p \in Paths : base'[p] # None =>
    /\ base[p] # None /\ base'[p].Type = base[p].Type
    /\ base'[p].FileSystemGuid = base[p].FileSystemGuid

LEMMA SameObjectsAt ==
  ASSUME NEW p \in Paths, Replaces(p), SameFile(base[p], base'[p])
  PROVE  SameObjects
BY DEF Replaces, SameFile, SameObjects

LEMMA ObjectsChange ==
  ASSUME TypeInv, Phases, [Next]_vars
  PROVE  \/ \E p \in Paths : ScanEntry(p) \/ RecalculateFileGuid(p)
         \/ SameObjects
<1> USE DEF objects
<1>1. CASE UNCHANGED base
  BY <1>1 DEF SameObjects
<1>2. CASE EndSession
  BY <1>2 DEF EndSession, SameObjects, NoObjects
<1>3. CASE PrepareStreams
  BY <1>3, PrepareIs DEF SameObjects, SameFile
<1>4. ASSUME NEW p \in Paths, SkipObject(p) \/ KeepUnmodified(p) PROVE SameObjects
  BY <1>4, SkipIs, KeepIs, SameObjectsAt
<1>5. ASSUME NEW p \in Paths, AddInitialStream(p) \/ AddChangedFile(p) PROVE SameObjects
  BY <1>5, AddStreamIs, AddIs, SameObjectsAt
<1>6. CASE WriteStream
  BY <1>6, WriteIs, SameObjectsAt
<1>7. CASE Environment
  BY <1>1, <1>7, EditIs, EditLeaves, RemoveLeaves
<1> QED
  BY <1>1, <1>2, <1>3, <1>4, <1>5, <1>6, <1>7
     DEF Next, Backup, vars, Open, BeginBackup, ListSource, ReuseBaseObjects, CommitArchive

LEMMA LinksAgreeNext ==
  ASSUME TypeInv, Phases, StillBusy, ScanInv, LinksAgree, [Next]_vars
  PROVE  LinksAgree'
<1>1. CASE SameObjects
  BY <1>1 DEF SameObjects, LinksAgree
<1>2. CASE \E p \in Paths : ScanEntry(p) \/ RecalculateFileGuid(p)
  <2>1. AllScanned'
    BY <1>2, ScanEntryScans, RecalculateScans
  <2> QED
    BY <2>1 DEF AllScanned, Scanned, LinksAgree
<1> QED
  BY <1>1, <1>2, ObjectsChange

-----------------------------------------------------------------------------
(***************************************************************************)
(* The order of the visit.                                                 *)
(***************************************************************************)
LEMMA OldKept ==
  ASSUME UNCHANGED <<count, old, oldMain, main>>, NEW p \in Paths
  PROVE  OldObject(p)' = OldObject(p)
BY DEF OldObject

LEMMA VisitOrderVisit ==
  ASSUME TypeInv, VisitOrder, NEW p \in Paths, Visit(p), Replaces(p),
         SameFile(base[p], base'[p]),
         \/ guids' = guids /\ ~ShouldBeAdded(base[p])
         \/ guids' = Register(base[p], p) /\ ShouldBeAdded(base[p])
  PROVE  VisitOrder'
<1>1. /\ IsFirst(p, todo) /\ todo' = todo \ {p} /\ todo \subseteq Paths
      /\ UNCHANGED <<pc, count, old, oldMain, main>>
  BY VisitLeaves DEF TypeInv, TypeOK
<1>2. \A q \in Paths : Visited(q)' => q = p \/ (Visited(q) /\ base'[q] = base[q])
  BY VisitedNow
<1>3. Ascending'
  <2>1. \A q \in todo' : p < q
    BY <1>1, BackupEngineAssumption DEF IsFirst, Paths
  <2> QED
    BY <1>1, <1>2, <2>1 DEF Ascending, VisitOrder
<1>4. Registered'
  <2>1. guids \in [Guids -> Paths \cup {0}] /\ 0 \notin Paths
    BY BackupEngineAssumption DEF TypeInv, TypeOK, Paths
  <2>2. /\ \A g \in Guids : guids[g] # 0 => guids'[g] # 0
        /\ Eligible(base[p]) /\ base[p].FileSystemGuid # None
             => guids'[base[p].FileSystemGuid] # 0
    <3>1. CASE guids' = guids /\ ~ShouldBeAdded(base[p])
      BY <3>1 DEF ShouldBeAdded, HasKnownGuid
    <3>2. CASE guids' = Register(base[p], p) /\ ShouldBeAdded(base[p])
      BY <2>1, <3>2 DEF Register, Replaces, Fso
    <3> QED
      BY <3>1, <3>2
  <2> SUFFICES ASSUME NEW q \in Paths, Visited(q)', Eligible(base[q])',
                      base'[q].FileSystemGuid # None
      PROVE  guids'[base'[q].FileSystemGuid] # 0
    BY DEF Registered
  <2>3. CASE q = p
    BY <2>2, <2>3 DEF SameFile, Eligible
  <2>4. CASE Visited(q) /\ base'[q] = base[q]
    <3>1. base[q].FileSystemGuid \in Guids
      BY <2>4 DEF Visited, TypeInv, TypeOK, Fso
    <3> QED
      BY <2>2, <2>4, <3>1 DEF VisitOrder, Registered, Eligible
  <2> QED
    BY <1>2, <2>3, <2>4
<1>5. IdsHanded'
  <2>1. \A q \in Paths : OldObject(q)' = OldObject(q)
    BY <1>1, OldKept
  <2>2. pc = "archive" /\ \A q \in todo' : q \in todo /\ q \in Paths /\ base'[q] = base[q]
    BY <1>1 DEF Visit, Replaces
  <2> QED
    BY <2>1, <2>2 DEF IdsHanded, VisitOrder
<1> QED
  BY <1>3, <1>4, <1>5 DEF VisitOrder, Ascending, Registered, IdsHanded

LEMMA VisitOrderPrepare ==
  ASSUME TypeInv, PrepareStreams
  PROVE  VisitOrder'
<1>1. UNCHANGED <<count, old, oldMain, main, guids>> /\ todo' = {p \in Paths : base[p] # None}
  BY DEF PrepareStreams, settings, oldTree, pending
<1>2. \A p \in Paths : ~Visited(p)' /\ OldObject(p)' = OldObject(p)
  BY <1>1, PrepareIs, OldKept DEF Visited
<1>3. ASSUME NEW p \in todo', OldObject(p) # None
      PROVE  base'[p].StreamUniqueId = OldObject(p).StreamUniqueId
  <2>1. p \in Paths /\ base[p] # None
    BY <1>1
  <2>2. base[p] \in Fso /\ base'[p] = [base[p] EXCEPT !.StreamUniqueId = OldObject(p).StreamUniqueId]
    BY <1>3, <2>1, PrepareIs
  <2> QED
    BY <2>2 DEF Fso
<1>4. Ascending' /\ Registered'
  BY <1>2 DEF Ascending, Registered
<1>5. IdsHanded'
  BY <1>1, <1>2, <1>3 DEF IdsHanded
<1> QED
  BY <1>4, <1>5 DEF VisitOrder

LEMMA VisitOrderWrite ==
  ASSUME TypeInv, VisitOrder, WriteStream
  PROVE  VisitOrder'
<1>1. /\ pc = "archive" /\ todo = {} /\ UNCHANGED <<pc, todo, guids>>
      /\ \E p \in Paths : Replaces(p) /\ SameFile(base[p], base'[p])
  BY WriteIs
<1>2. \A q \in Paths : /\ Visited(q)' <=> Visited(q)
                       /\ Visited(q) => SameFile(base[q], base'[q])
  BY <1>1 DEF Visited, Replaces, SameFile
<1>3. Ascending' /\ IdsHanded'
  BY <1>1 DEF Ascending, IdsHanded
<1>4. Registered'
  BY <1>1, <1>2 DEF VisitOrder, Registered, SameFile, Eligible
<1> QED
  BY <1>3, <1>4 DEF VisitOrder, Ascending, Registered, IdsHanded

LEMMA VisitOrderNext ==
  ASSUME TypeInv, VisitOrder, [Next]_vars
  PROVE  VisitOrder'
<1>1. CASE pc' # "archive"
  BY <1>1 DEF VisitOrder, Ascending, Registered, IdsHanded, Visited
<1>2. CASE PrepareStreams \/ WriteStream
  BY <1>2, VisitOrderPrepare, VisitOrderWrite
<1>3. ASSUME NEW p \in Paths, SkipObject(p) \/ KeepUnmodified(p) PROVE VisitOrder'
  BY <1>3, SkipIs, KeepIs, VisitOrderVisit
<1>4. ASSUME NEW p \in Paths, AddInitialStream(p) \/ AddChangedFile(p) PROVE VisitOrder'
  BY <1>4, AddStreamIs, AddIs, VisitOrderVisit
<1>5. CASE Environment
  <2>1. CASE \E v \in Versions : RemoveVersion(v)
    BY <1>1, <2>1, RemoveLeaves
  <2>2. CASE \A v \in Versions : ~RemoveVersion(v)
    <3>1. UNCHANGED <<pc, count, main, base, old, oldMain, todo, guids>>
      BY <1>5, <2>2, EditIs, EditLeaves
    <3> QED
      BY <3>1 DEF VisitOrder, Ascending, Registered, IdsHanded, Visited, OldObject
  <2> QED
    BY <2>1, <2>2
<1>6. CASE UNCHANGED vars
  BY <1>6 DEF vars, settings, objects, oldTree, pending, VisitOrder, Ascending, Registered, IdsHanded,
              Visited, OldObject
<1> QED
  BY <1>1, <1>2, <1>3, <1>4, <1>5, <1>6
     DEF Next, Backup, Open, EndSession, BeginBackup, ListSource, ReuseBaseObjects, ScanEntry,
         RecalculateFileGuid, CommitArchive

-----------------------------------------------------------------------------
(***************************************************************************)
(* A full stream is not kept from one backup of a session to the next.     *)
(***************************************************************************)
\* AddChangedFile compared the file with the hash it now carries.
LEMMA AddedChanged ==
  ASSUME TypeInv, NEW p \in Paths, AddInitialStream(p) \/ AddChangedFile(p)
  PROVE  Changed(base[p], OldObject(p))'
<1>1. UNCHANGED <<count, old, oldMain, main, crit>>
  BY AddStreamIs, VisitLeaves
<1>2. OldObject(p)' = OldObject(p)
  BY <1>1, OldKept
<1>3. CASE AddInitialStream(p)
  BY <1>2, <1>3 DEF AddInitialStream, OldObject, Changed
<1>4. CASE AddChangedFile(p)
  <2> DEFINE o == OldObject(p)
  <2>1. /\ Visit(p) /\ ShouldBeAdded(base[p]) /\ AddFullStream(p, HashFor(p))
        /\ o # None => /\ NeedsHash(base[p], o) => HashFor(p) # None
                       /\ FileHasChanged(base[p], o, HashFor(p))
    BY <1>4 DEF AddChangedFile, HashFor
  <2>2. HashFor(p) \in Contents \cup {None}
    <3>1. base[p] \in Fso /\ main.MappedBasePath \in Locs
      BY <2>1, VisitedObject
    <3> QED
      BY <3>1, EntryType DEF HashFor, HashOf, Fso, TypeInv
  <2>3. SameFile(base[p], base'[p]) /\ base'[p].Hashes = HashFor(p)
    BY <2>1, <2>2, AddIs
  <2>4. Criterium(base[p])' = Criterium(base[p])
    BY <1>1, <2>3 DEF Criterium, SameFile
  <2>5. CASE o = None
    BY <1>2, <2>5 DEF Changed
  <2>6. CASE o # None
    <3>1. FileHasChanged(base[p], OldObject(p), base[p].Hashes)'
      BY <1>2, <2>1, <2>3, <2>4, <2>6 DEF FileHasChanged, SameFile
    <3>2. NeedsHash(base[p], OldObject(p))' => base'[p].Hashes # None
      BY <1>2, <2>1, <2>3, <2>4, <2>6 DEF NeedsHash
    <3> QED
      BY <3>1, <3>2 DEF Changed
  <2> QED
    BY <2>5, <2>6
<1> QED
  BY <1>3, <1>4

\* The reasons for a new stream last as long as the objects do.
LEMMA ReasonKept ==
  ASSUME NEW p \in Paths, base[p] # None, GetsStream(p), UNCHANGED crit,
         OldObject(p)' = OldObject(p),
         \A q \in Paths : base[q] # None => base'[q] # None /\ SameFile(base[q], base'[q]),
         base'[p].Hashes = base[p].Hashes
  PROVE  GetsStream(p)'
<1>1. CASE ~Eligible(base[p])
  BY <1>1 DEF GetsStream, SameFile, Eligible
<1>2. CASE HasOwner(p)
  BY <1>2 DEF GetsStream, HasOwner, SameFile, Eligible
<1>3. CASE Changed(base[p], OldObject(p))
  <2>1. Criterium(base[p])' = Criterium(base[p])
    BY DEF Criterium, SameFile
  <2>2. Changed(base[p], OldObject(p))'
    BY <1>3, <2>1 DEF Changed, FileHasChanged, NeedsHash, SameFile
  <2> QED
    BY <2>2 DEF GetsStream
<1> QED
  BY <1>1, <1>2, <1>3 DEF GetsStream

\* A registered object with the identity of p comes before p.
LEMMA OwnerIs ==
  ASSUME TypeInv, VisitInv, VisitOrder, NEW p \in Paths, p \in todo, base[p] \in Fso,
         HasKnownGuid(base[p])
  PROVE  LET q == guids[base[p].FileSystemGuid]
         IN  /\ q \in Paths /\ q < p /\ Visited(q) /\ Eligible(base[q])
             /\ base[q] # None /\ base[q].FileSystemGuid = base[p].FileSystemGuid
<1>1. base[p].FileSystemGuid \in Guids /\ guids[base[p].FileSystemGuid] \in Paths
      /\ guids[base[p].FileSystemGuid] # 0
  BY RegisteredIs
<1> QED
  BY <1>1 DEF VisitInv, GuidsVisited, VisitOrder, Ascending, Visited

\* An unchanged object has no full stream from an earlier backup.
LEMMA KeptIsNotFull ==
  ASSUME TypeInv, VisitOrder, FullAgain, NEW p \in Paths, KeepUnmodified(p)
  PROVE  base[p].BackupStream # "Full"
<1> SUFFICES ASSUME base[p].BackupStream = "Full" PROVE FALSE
  OBVIOUS
<1>1. /\ Visit(p) /\ base[p] # None /\ ShouldBeAdded(base[p]) /\ OldObject(p) # None
      /\ NeedsHash(base[p], OldObject(p)) => HashFor(p) # None
      /\ ~FileHasChanged(base[p], OldObject(p), HashFor(p))
  BY KeepIs DEF Replaces
<1>2. pc = "archive" /\ IsFirst(p, todo)
  BY <1>1, VisitLeaves
<1>3. ~HasOwner(p)
  <2> SUFFICES ASSUME NEW q \in Paths, q < p, base[q] # None, Eligible(base[q]),
                      base[p].FileSystemGuid # None,
                      base[q].FileSystemGuid = base[p].FileSystemGuid
      PROVE  FALSE
    BY DEF HasOwner
  <2>1. q \notin todo
    BY <1>2, BackupEngineAssumption DEF IsFirst, Paths
  <2>2. Visited(q)
    BY <1>2, <2>1 DEF Visited
  <2>3. guids[base[q].FileSystemGuid] # 0
    BY <2>2 DEF VisitOrder, Registered
  <2> QED
    BY <1>1, <2>3 DEF ShouldBeAdded, HasKnownGuid
<1>4. Changed(base[p], OldObject(p))
  BY <1>1, <1>3 DEF FullAgain, GetsStream, ShouldBeAdded
<1>5. /\ FileHasChanged(base[p], OldObject(p), base[p].Hashes)
      /\ NeedsHash(base[p], OldObject(p)) => base[p].Hashes # None
  BY <1>1, <1>4 DEF Changed
<1>6. HashFor(p) = base[p].Hashes
  BY <1>5 DEF HashFor, HashOf
<1> QED
  BY <1>1, <1>5, <1>6

LEMMA OthersKeep ==
  ASSUME NEW p \in Paths, Replaces(p), SameFile(base[p], base'[p])
  PROVE  \A q \in Paths : base[q] # None => base'[q] # None /\ SameFile(base[q], base'[q])
BY DEF Replaces, SameFile

\* One object is replaced, and has a reason if its stream is full now.
LEMMA FullAgainAt ==
  ASSUME TypeInv, FullAgain, NEW p \in Paths, Replaces(p), SameFile(base[p], base'[p]),
         UNCHANGED <<count, old, oldMain, main, crit>>,
         base'[p].BackupStream = "Full" =>
           GetsStream(p)' \/ (base[p].BackupStream = "Full" /\ base'[p].Hashes = base[p].Hashes)
  PROVE  FullAgain'
<1> SUFFICES ASSUME NEW q \in Paths, base'[q] # None, base'[q].BackupStream = "Full"
    PROVE  GetsStream(q)'
  BY DEF FullAgain
<1>1. OldObject(q)' = OldObject(q)
  BY OldKept
<1>2. CASE q # p \/ (base[p].BackupStream = "Full" /\ base'[p].Hashes = base[p].Hashes)
  <2>1. /\ base[q] # None /\ GetsStream(q) /\ base'[q].Hashes = base[q].Hashes
        /\ UNCHANGED crit
    BY <1>2 DEF Replaces, FullAgain
  <2>2. \A r \in Paths : base[r] # None => base'[r] # None /\ SameFile(base[r], base'[r])
    BY OthersKeep
  <2> QED
    BY <1>1, <2>1, <2>2, ReasonKept
<1>3. CASE q = p /\ GetsStream(p)'
  BY <1>3
<1> QED
  BY <1>2, <1>3

LEMMA FullAgainSkip ==
  ASSUME TypeInv, VisitInv, VisitOrder, FullAgain, NEW p \in Paths, SkipObject(p)
  PROVE  FullAgain'
<1>1. /\ Visit(p) /\ Replaces(p) /\ SameFile(base[p], base'[p])
      /\ base'[p].Hashes = base[p].Hashes
      /\ ~Shares(base[p]) => base'[p].BackupStream = base[p].BackupStream
  BY SkipIs
<1>2. p \in todo /\ base[p] \in Fso /\ UNCHANGED <<count, old, oldMain, main, crit>>
  BY <1>1, VisitLeaves DEF Replaces
<1>3. Shares(base[p]) => HasOwner(p)'
  <2> SUFFICES ASSUME Shares(base[p]) PROVE HasOwner(p)'
    OBVIOUS
  <2> DEFINE q == guids[base[p].FileSystemGuid]
  <2>1. /\ q \in Paths /\ q < p /\ Eligible(base[q]) /\ base[q] # None
        /\ base[q].FileSystemGuid = base[p].FileSystemGuid
    BY <1>2, OwnerIs DEF Shares
  <2>2. base[p].FileSystemGuid # None
    BY DEF Shares, HasKnownGuid
  <2>3. \A r \in Paths : base[r] # None => base'[r] # None /\ SameFile(base[r], base'[r])
    BY <1>1, OthersKeep
  <2>4. PICK r \in Paths : r = q
    BY <2>1
  <2> HIDE DEF q
  <2>5. /\ base'[r] # None /\ Eligible(base[r])' /\ r < p
        /\ base'[r].FileSystemGuid = base'[p].FileSystemGuid
        /\ base'[p].FileSystemGuid # None
    BY <1>1, <2>1, <2>2, <2>3, <2>4 DEF SameFile, Eligible
  <2> QED
    BY <2>5 DEF HasOwner
<1>4. Shares(base[p]) => GetsStream(p)'
  BY <1>3 DEF GetsStream
<1> QED
  BY <1>1, <1>2, <1>4, FullAgainAt

LEMMA FullAgainWrite ==
  ASSUME TypeInv, FullAgain, WriteStream
  PROVE  FullAgain'
<1>1. PICK p \in Paths, c \in Contents :
        /\ Replaces(p) /\ SameFile(base[p], base'[p])
        /\ base'[p].BackupStream = base[p].BackupStream
        /\ base'[p].Hashes = IF base[p].Hashes = None THEN c ELSE base[p].Hashes
        /\ UNCHANGED <<count, old, oldMain, main, crit>>
  BY WriteIs
<1>2. OldObject(p)' = OldObject(p)
  BY <1>1, OldKept
<1>3. ASSUME base[p].BackupStream = "Full", base[p].Hashes = None
      PROVE  GetsStream(p)'
  <2>1. \A r \in Paths : base[r] # None => base'[r] # None /\ SameFile(base[r], base'[r])
    BY <1>1, OthersKeep
  <2>2. GetsStream(p)
    BY <1>1, <1>3 DEF Replaces, FullAgain
  <2>3. CASE ~Eligible(base[p])
    BY <1>1, <2>3 DEF GetsStream, SameFile, Eligible
  <2>4. CASE HasOwner(p)
    <3>1. HasOwner(p)'
      BY <1>1, <2>1, <2>4 DEF HasOwner, SameFile, Eligible
    <3> QED
      BY <3>1 DEF GetsStream
  <2>5. CASE Changed(base[p], OldObject(p))
    <3>1. Criterium(base[p])' = Criterium(base[p])
      BY <1>1 DEF Criterium, SameFile
    <3>2. base'[p].Hashes # None
      BY <1>1, <1>3, BackupEngineAssumption
    <3>3. Changed(base[p], OldObject(p))'
      BY <1>1, <1>2, <1>3, <2>5, <3>1, <3>2 DEF Changed, FileHasChanged, NeedsHash, SameFile
    <3> QED
      BY <3>3 DEF GetsStream
  <2> QED
    BY <2>2, <2>3, <2>4, <2>5 DEF GetsStream
<1> QED
  BY <1>1, <1>3, FullAgainAt

LEMMA FullAgainNext ==
  ASSUME TypeInv, Phases, IdInv, VisitInv, OldLoaded, StillBusy, ScanInv, VisitOrder,
         FullAgain, [Next]_vars
  PROVE  FullAgain'
<1> USE DEF settings, objects, oldTree
<1>1. CASE UNCHANGED <<base, count, old, oldMain, main, crit>>
  BY <1>1 DEF FullAgain, GetsStream, HasOwner, Changed, OldObject, FileHasChanged, NeedsHash,
              Criterium
<1>2. CASE Open \/ EndSession
  BY <1>2 DEF Open, EndSession, Phases, FullAgain, NoObjects
<1>3. CASE BeginBackup
  <2>1. CASE ~baseSet
    BY <1>3, <2>1 DEF BeginBackup, Phases, FullAgain, NoObjects
  <2>2. CASE baseSet
    <3>1. UNCHANGED <<base, count, main, crit>>
      BY <1>3 DEF BeginBackup
    <3>2. CASE count = 0
      BY <1>1, <1>3, <3>1, <3>2 DEF BeginBackup
    <3>3. CASE count # 0
      <4>1. count > 0
        BY <3>3 DEF TypeInv, TypeOK
      <4> QED
        BY <1>1, <1>3, <2>2, <3>1, <4>1, LatestLoaded DEF OldLoaded
    <3> QED
      BY <3>2, <3>3
  <2> QED
    BY <2>1, <2>2
<1>4. CASE ListSource
  BY <1>4 DEF ListSource, Phases, FullAgain, NoObjects
<1>5. CASE \E p \in Paths : ScanEntry(p) \/ RecalculateFileGuid(p)
  <2>1. AllScanned'
    BY <1>5, ScanEntryScans, RecalculateScans
  <2> QED
    BY <2>1 DEF AllScanned, Scanned, FullAgain
<1>6. CASE PrepareStreams
  <2> SUFFICES ASSUME NEW p \in Paths, base'[p] # None, base'[p].BackupStream = "Full"
      PROVE  GetsStream(p)'
    BY DEF FullAgain
  <2>1. \A q \in Paths : base[q] # None => base'[q] # None /\ SameFile(base[q], base'[q])
    BY <1>6, PrepareIs DEF SameFile
  <2>2. /\ base[p] # None /\ base[p].BackupStream = "Full" /\ base'[p].Hashes = base[p].Hashes
    BY <1>6, PrepareIs
  <2>3. UNCHANGED crit /\ OldObject(p)' = OldObject(p)
    BY <1>6, OldKept DEF PrepareStreams
  <2> QED
    BY <2>1, <2>2, <2>3, ReasonKept DEF FullAgain
<1>7. ASSUME NEW p \in Paths, SkipObject(p) PROVE FullAgain'
  BY <1>7, FullAgainSkip
<1>8. ASSUME NEW p \in Paths, AddInitialStream(p) \/ AddChangedFile(p) PROVE FullAgain'
  <2>1. Visit(p) /\ Replaces(p) /\ SameFile(base[p], base'[p])
    BY <1>8, AddStreamIs, AddIs
  <2>2. GetsStream(p)'
    BY <1>8, AddedChanged DEF GetsStream
  <2> QED
    BY <2>1, <2>2, VisitLeaves, FullAgainAt
<1>9. ASSUME NEW p \in Paths, KeepUnmodified(p) PROVE FullAgain'
  <2>1. /\ Visit(p) /\ Replaces(p) /\ SameFile(base[p], base'[p])
        /\ base'[p].BackupStream # "Full"
    BY <1>9, KeepIs, KeptIsNotFull
  <2> QED
    BY <2>1, VisitLeaves, FullAgainAt
<1>10. CASE WriteStream
  BY <1>10, FullAgainWrite
<1>11. CASE Environment
  BY <1>1, <1>11, EditIs, EditLeaves, RemoveLeaves
<1> QED
  BY <1>1, <1>2, <1>3, <1>4, <1>5, <1>6, <1>7, <1>8, <1>9, <1>10, <1>11
     DEF Next, Backup, vars, ReuseBaseObjects, CommitArchive

-----------------------------------------------------------------------------
(***************************************************************************)
(* Every object that was visited knows where its data are.                 *)
(***************************************************************************)
\* A place remains where nothing is removed.
LEMMA PlaceKept ==
  ASSUME NEW q \in Paths, Placed(base[q]), UNCHANGED <<arc, count>>,
         base'[q].Type = base[q].Type, base'[q].LatestVersion = base[q].LatestVersion,
         base'[q].StreamUniqueId = base[q].StreamUniqueId,
         base'[q].BackupStream = base[q].BackupStream,
         \A i \in DOMAIN streams : i \in DOMAIN streams' /\ streams'[i] = streams[i]
  PROVE  Placed(base[q])'
BY DEF Placed, Stored, HasStream

LEMMA AllPlacedAt ==
  ASSUME TypeInv, AllPlaced, NEW p \in Paths, Visit(p), Replaces(p), Placed(base[p])',
         \A i \in DOMAIN streams : i \in DOMAIN streams' /\ streams'[i] = streams[i]
  PROVE  AllPlaced'
<1> SUFFICES ASSUME NEW q \in Paths, Visited(q)' PROVE Placed(base[q])'
  BY DEF AllPlaced
<1>1. CASE q = p
  BY <1>1
<1>2. CASE q # p
  <2>1. Visited(q) /\ base'[q] = base[q] /\ UNCHANGED <<arc, count>>
    BY <1>2, VisitedNow, VisitLeaves
  <2> QED
    BY <2>1, PlaceKept DEF AllPlaced
<1> QED
  BY <1>1, <1>2

\* An object that gets no stream and shares none has no data.
LEMMA SkippedEmpty ==
  ASSUME TypeInv, VisitInv, VisitOrder, LinksAgree, NEW p \in Paths, SkipObject(p),
         ~Shares(base[p])
  PROVE  base'[p].LatestVersion = -1
<1>1. /\ Visit(p) /\ Replaces(p) /\ ~ShouldBeAdded(base[p])
  BY SkipIs
<1>2. base[p] \in Fso /\ base[p] # None /\ p \in todo
  BY <1>1, VisitLeaves DEF Replaces
<1>3. ~Eligible(base[p])
  <2> SUFFICES ASSUME Eligible(base[p]) PROVE FALSE
    OBVIOUS
  <2> DEFINE q == guids[base[p].FileSystemGuid]
  <2>1. HasKnownGuid(base[p])
    BY <1>1 DEF ShouldBeAdded
  <2>2. /\ q \in Paths /\ q < p /\ base[q] # None
        /\ base[q].FileSystemGuid = base[p].FileSystemGuid
    BY <1>2, <2>1, OwnerIs
  <2>3. base[p].FileSystemGuid # None /\ q # p
    BY <2>1, <2>2, BackupEngineAssumption DEF HasKnownGuid, Paths
  <2> HIDE DEF q
  <2>4. base[p].Type = "FileHardlink"
    BY <1>2, <2>2, <2>3 DEF LinksAgree
  <2> QED
    BY <2>1, <2>4 DEF Shares
<1> QED
  BY <1>3, SkipIs

LEMMA AllPlacedSkip ==
  ASSUME TypeInv, VisitInv, VisitOrder, LinksAgree, AllPlaced, NEW p \in Paths, SkipObject(p)
  PROVE  AllPlaced'
<1>1. /\ Visit(p) /\ Replaces(p) /\ SameFile(base[p], base'[p]) /\ ~ShouldBeAdded(base[p])
      /\ UNCHANGED streams
  BY SkipIs
<1>2. base[p] \in Fso /\ base[p] # None /\ p \in todo /\ UNCHANGED <<arc, count>>
  BY <1>1, VisitLeaves DEF Replaces
<1>3. CASE Shares(base[p])
  <2> DEFINE q == guids[base[p].FileSystemGuid]
  <2>1. q \in Paths /\ Visited(q)
    BY <1>2, <1>3, OwnerIs DEF Shares
  <2>2. Placed(base[q])
    BY <2>1 DEF AllPlaced
  <2>3. /\ base'[p].LatestVersion = base[q].LatestVersion
        /\ base'[p].StreamUniqueId = base[q].StreamUniqueId
        /\ base'[p].BackupStream = IF base[q].BackupStream = "Full" THEN "Full" ELSE "Unmodified"
    BY <1>3, SkipIs DEF OwnerOf
  <2>4. base'[p].Type \in FileTypes
    BY <1>1, <1>3 DEF SameFile, Shares, FileTypes
  <2> HIDE DEF q
  <2>5. Placed(base[p])'
    BY <1>1, <1>2, <2>2, <2>3, <2>4 DEF Placed, Stored, HasStream
  <2> QED
    BY <1>1, <2>5, AllPlacedAt
<1>4. CASE ~Shares(base[p])
  <2>1. base'[p].LatestVersion = -1
    BY <1>4, SkippedEmpty
  <2>2. Placed(base[p])'
    BY <2>1 DEF Placed
  <2> QED
    BY <1>1, <2>2, AllPlacedAt
<1> QED
  BY <1>3, <1>4

LEMMA AllPlacedAdd ==
  ASSUME TypeInv, AllPlaced, NEW p \in Paths, AddInitialStream(p) \/ AddChangedFile(p)
  PROVE  AllPlaced'
<1>1. Visit(p) /\ ShouldBeAdded(base[p]) /\ UNCHANGED count
  BY AddStreamIs, VisitLeaves
<1>2. /\ Replaces(p) /\ SameFile(base[p], base'[p]) /\ base'[p].LatestVersion = count
      /\ base'[p].StreamUniqueId = nextId /\ base'[p].BackupStream = "Full"
      /\ streams' = Append(streams, [UniqueId |-> nextId, fso |-> p])
  BY AddStreamIs, AddIs
<1>3. /\ DOMAIN streams' = 1..(Len(streams) + 1) /\ DOMAIN streams = 1..Len(streams)
      /\ Len(streams) \in Nat
      /\ \A i \in DOMAIN streams : streams'[i] = streams[i]
      /\ streams'[Len(streams) + 1] = [UniqueId |-> nextId, fso |-> p]
  BY <1>2, AppendedStreams
<1>4. Len(streams) + 1 \in DOMAIN streams' /\ streams'[Len(streams) + 1].UniqueId = nextId
      /\ \A i \in DOMAIN streams : i \in DOMAIN streams'
  BY <1>3
<1>5. \E i \in DOMAIN streams' : streams'[i].UniqueId = base'[p].StreamUniqueId
  BY <1>2, <1>4
<1>6. base'[p].Type \in FileTypes
  BY <1>1, <1>2 DEF SameFile, ShouldBeAdded, Eligible
<1>7. Placed(base[p])'
  BY <1>1, <1>2, <1>5, <1>6 DEF Placed
<1> QED
  BY <1>1, <1>2, <1>3, <1>4, <1>7, AllPlacedAt

\* An unchanged object refers to what the latest version referred to.
LEMMA OldObjectIs ==
  ASSUME TypeInv, OldLoaded, NEW p \in Paths, Busy, OldObject(p) # None
  PROVE  /\ count > 0 /\ count - 1 \in Stored
         /\ OldObject(p) = arc[count - 1].BaseObjects[p]
         /\ OldObject(p) \in StoredFso
<1>1. count > 0 /\ OldObject(p) = old[p]
  BY DEF OldObject
<1> QED
  BY <1>1 DEF OldLoaded, TypeInv, TypeOK, WellFormed, Busy

LEMMA AllPlacedKeep ==
  ASSUME TypeInv, VisitOrder, OldLoaded, FullAgain, RefsArc, AllPlaced, NEW p \in Paths,
         KeepUnmodified(p)
  PROVE  AllPlaced'
<1> DEFINE o == OldObject(p)
<1>1. /\ Visit(p) /\ Replaces(p) /\ SameFile(base[p], base'[p]) /\ ShouldBeAdded(base[p])
      /\ o # None /\ base'[p].LatestVersion = o.LatestVersion
      /\ base'[p].StreamUniqueId = base[p].StreamUniqueId
      /\ base'[p].BackupStream # "Full" /\ UNCHANGED streams
  BY KeepIs, KeptIsNotFull
<1>2. pc = "archive" /\ p \in todo /\ UNCHANGED <<arc, count>>
  BY <1>1, VisitLeaves
<1>3. base[p].StreamUniqueId = o.StreamUniqueId
  BY <1>1, <1>2 DEF VisitOrder, IdsHanded
<1>4. /\ count > 0 /\ count - 1 \in Stored /\ o = arc[count - 1].BaseObjects[p]
      /\ o \in StoredFso
  BY <1>1, <1>2, OldObjectIs DEF Busy
<1>5. count \in Nat /\ o.LatestVersion \in Int
  BY <1>4 DEF TypeInv, TypeOK, StoredFso
<1>6. /\ Resolved(count - 1, o)
      /\ arc[count - 1].VersionDependencies \subseteq 0..(count - 2)
  <2>1. (count - 1) - 1 = count - 2
    BY <1>5
  <2> QED
    BY <1>4, <2>1 DEF RefsArc
<1> HIDE DEF o
<1>7. ASSUME o.LatestVersion >= 0
      PROVE  /\ o.LatestVersion < count
             /\ o.LatestVersion \in Stored => HasStream(arc[o.LatestVersion], o.StreamUniqueId)
  <2>1. o.LatestVersion \in arc[count - 1].VersionDependencies \cup {count - 1}
    BY <1>1, <1>6, <1>7 DEF Resolved
  <2>2. o.LatestVersion < count
    BY <1>5, <1>6, <2>1
  <2> QED
    BY <1>1, <1>6, <1>7, <2>2 DEF Resolved
<1>8. base'[p].Type \in FileTypes
  BY <1>1 DEF SameFile, ShouldBeAdded, Eligible
<1>9. Placed(base[p])'
  BY <1>1, <1>2, <1>3, <1>7, <1>8 DEF Placed, Stored, HasStream
<1> QED
  BY <1>1, <1>9, AllPlacedAt

LEMMA AllPlacedNext ==
  ASSUME ~ConcurrentEdits, TypeInv, VisitInv, VisitOrder, LinksAgree, OldLoaded, FullAgain,
         RefsArc, AllPlaced, [Next]_vars
  PROVE  AllPlaced'
<1>1. CASE pc' # "archive"
  BY <1>1 DEF AllPlaced, Visited
<1>2. CASE PrepareStreams
  <2>1. \A p \in Paths : ~Visited(p)'
    BY <1>2, PrepareIs DEF PrepareStreams, Visited
  <2> QED
    BY <2>1 DEF AllPlaced
<1>3. CASE \E p \in Paths : SkipObject(p) \/ AddInitialStream(p)
                            \/ AddChangedFile(p) \/ KeepUnmodified(p)
  BY <1>3, AllPlacedSkip, AllPlacedAdd, AllPlacedKeep
<1>4. CASE WriteStream
  <2>1. PICK p \in Paths :
          /\ Replaces(p) /\ SameFile(base[p], base'[p])
          /\ base'[p].LatestVersion = base[p].LatestVersion
          /\ base'[p].StreamUniqueId = base[p].StreamUniqueId
          /\ base'[p].BackupStream = base[p].BackupStream
          /\ UNCHANGED <<pc, arc, count, todo, streams>>
    BY <1>4, WriteIs
  <2>2. ASSUME NEW q \in Paths, Visited(q)' PROVE Placed(base[q])'
    <3>1. Visited(q) /\ Placed(base[q])
      BY <2>1, <2>2 DEF Replaces, Visited, AllPlaced
    <3>2. /\ base'[q].Type = base[q].Type /\ base'[q].LatestVersion = base[q].LatestVersion
          /\ base'[q].StreamUniqueId = base[q].StreamUniqueId
          /\ base'[q].BackupStream = base[q].BackupStream
      BY <2>1 DEF Replaces, SameFile
    <3> QED
      BY <2>1, <3>1, <3>2, PlaceKept
  <2> QED
    BY <2>2 DEF AllPlaced
<1>5. CASE Environment
  <2>1. CASE \E v \in Versions : RemoveVersion(v)
    BY <1>1, <2>1, RemoveLeaves
  <2>2. CASE \A v \in Versions : ~RemoveVersion(v)
    <3>1. pc' = pc /\ pc # "archive"
      BY <1>5, <2>2, EditIs, EditLeaves DEF Busy
    <3> QED
      BY <1>1, <3>1
  <2> QED
    BY <2>1, <2>2
<1>6. CASE UNCHANGED vars
  BY <1>6 DEF vars, store, settings, objects, pending, AllPlaced, Visited, Placed, Stored, HasStream
<1> QED
  BY <1>1, <1>2, <1>3, <1>4, <1>5, <1>6
     DEF Next, Backup, Open, EndSession, BeginBackup, ListSource, ReuseBaseObjects, ScanEntry,
         RecalculateFileGuid, CommitArchive

-----------------------------------------------------------------------------
(***************************************************************************)
(* The references a backup writes.                                         *)
(***************************************************************************)
\* The new archive has the streams that were to be written.
LEMMA CommittedStreams ==
  ASSUME TypeInv, IdInv, Len(out) = Len(streams), NEW i \in DOMAIN streams
  PROVE  HasStream(NewArchive, streams[i].UniqueId)
<1>1. DOMAIN out = DOMAIN streams
  BY DEF TypeInv, TypeOK
<1>2. out[i].StreamId = streams[i].UniqueId
  BY <1>1 DEF IdInv, StreamsInOrder
<1> QED
  BY <1>1, <1>2 DEF HasStream, NewArchive

LEMMA RefsCommit ==
  ASSUME TypeInv, IdInv, AllPlaced, RefsArc, CommitArchive
  PROVE  RefsArc'
<1>1. /\ pc = "archive" /\ todo = {} /\ Len(out) = Len(streams) /\ UNCHANGED count
      /\ \A v \in Stored' : /\ v # count => v \in Stored /\ arc'[v] = arc[v]
                            /\ v = count => arc'[v] = NewArchive
  BY CommitIs
<1>2. count \in Nat /\ Stored' \subseteq Nat
  BY BackupEngineAssumption DEF TypeInv, TypeOK, Stored, Versions
<1>3. \A p \in Paths : base[p] # None => base[p] \in Fso /\ Placed(base[p])
  BY <1>1 DEF AllPlaced, Visited, TypeInv, TypeOK
<1>4. ASSUME NEW v \in Stored', v # count
      PROVE  /\ arc'[v].VersionDependencies \subseteq 0..(v - 1)
             /\ \A p \in Paths : Resolved(v, arc[v].BaseObjects[p])'
  <2>1. v \in Stored /\ arc'[v] = arc[v] /\ v < count
    BY <1>1, <1>4 DEF IdInv, SessionKnows
  <2>2. arc[v].VersionDependencies \subseteq 0..(v - 1)
    BY <2>1 DEF RefsArc
  <2>3. ASSUME NEW p \in Paths, NEW o, o = arc'[v].BaseObjects[p], o # None,
               o.LatestVersion >= 0
        PROVE  /\ o.Type \in FileTypes
               /\ o.LatestVersion \in arc'[v].VersionDependencies \cup {v}
               /\ o.LatestVersion \in Stored' =>
                    HasStream(arc'[o.LatestVersion], o.StreamUniqueId)
    <3>1. /\ o.Type \in FileTypes
          /\ o.LatestVersion \in arc[v].VersionDependencies \cup {v}
          /\ o.LatestVersion \in Stored => HasStream(arc[o.LatestVersion], o.StreamUniqueId)
      BY <2>1, <2>3 DEF RefsArc, Resolved
    <3>2. o.LatestVersion # count
      BY <1>2, <2>1, <2>2, <3>1
    <3> QED
      BY <1>1, <2>1, <3>1, <3>2
  <2> QED
    BY <2>1, <2>2, <2>3 DEF Resolved, HasStream
<1>5. ASSUME NEW v \in Stored', v = count
      PROVE  /\ arc'[v].VersionDependencies \subseteq 0..(v - 1)
             /\ \A p \in Paths : Resolved(v, arc[v].BaseObjects[p])'
  <2>1. arc'[v] = NewArchive /\ NewArchive.VersionDependencies = Dependencies
    BY <1>1, <1>5 DEF NewArchive
  <2>2. Dependencies \subseteq 0..(v - 1)
    BY <1>2, <1>3, <1>5 DEF Dependencies, Placed, Fso
  <2>3. ASSUME NEW p \in Paths, NEW o, o = arc'[v].BaseObjects[p], o # None,
               o.LatestVersion >= 0
        PROVE  /\ o.Type \in FileTypes
               /\ o.LatestVersion \in arc'[v].VersionDependencies \cup {v}
               /\ o.LatestVersion \in Stored' =>
                    HasStream(arc'[o.LatestVersion], o.StreamUniqueId)
    <3>1. /\ base[p] # None /\ o.Type = base[p].Type
          /\ o.LatestVersion = base[p].LatestVersion
          /\ o.StreamUniqueId = base[p].StreamUniqueId
      BY <2>1, <2>3, NewObject
    <3>2. base[p] \in Fso /\ Placed(base[p]) /\ o.LatestVersion \in Int
      BY <1>3, <3>1 DEF Fso
    <3>3. CASE base[p].BackupStream = "Full"
      <4>1. PICK i \in DOMAIN streams : streams[i].UniqueId = base[p].StreamUniqueId
        BY <2>3, <3>1, <3>2, <3>3 DEF Placed
      <4>2. HasStream(NewArchive, o.StreamUniqueId)
        BY <1>1, <3>1, <4>1, CommittedStreams
      <4> QED
        BY <1>5, <2>1, <2>3, <3>1, <3>2, <3>3, <4>2 DEF Placed
    <3>4. CASE base[p].BackupStream # "Full"
      <4>1. o.LatestVersion \in Dependencies
        BY <2>3, <3>1, <3>4 DEF Dependencies
      <4>2. /\ o.Type \in FileTypes /\ o.LatestVersion < count
            /\ o.LatestVersion \in Stored => HasStream(arc[o.LatestVersion], o.StreamUniqueId)
        BY <2>3, <3>1, <3>2, <3>4 DEF Placed
      <4> QED
        BY <1>1, <1>2, <2>1, <3>2, <4>1, <4>2
    <3> QED
      BY <3>3, <3>4
  <2> QED
    BY <2>1, <2>2, <2>3 DEF Resolved, HasStream
<1> QED
  BY <1>4, <1>5 DEF RefsArc

LEMMA RefsKept ==
  ASSUME RefsArc, \A w \in Stored' : w \in Stored /\ arc'[w] = arc[w]
  PROVE  RefsArc'
<1>1. ASSUME NEW w \in Stored', NEW o, Resolved(w, o) PROVE Resolved(w, o)'
  BY <1>1 DEF Resolved, HasStream
<1>2. ASSUME NEW w \in Stored', NEW p \in Paths
      PROVE  Resolved(w, arc[w].BaseObjects[p])'
  <2>1. PICK o : o = arc[w].BaseObjects[p] /\ o = arc'[w].BaseObjects[p]
    OBVIOUS
  <2>2. Resolved(w, o)
    BY <2>1 DEF RefsArc
  <2>3. Resolved(w, o)'
    BY <1>1, <2>2
  <2> QED
    BY <2>1, <2>3
<1> QED
  BY <1>2 DEF RefsArc

LEMMA RefsArcNext ==
  ASSUME TypeInv, IdInv, AllPlaced, RefsArc, [Next]_vars
  PROVE  RefsArc'
<1>1. CASE UNCHANGED <<arc, truth>>
  BY <1>1, RefsKept DEF Stored
<1>2. ASSUME NEW v \in Versions, RemoveVersion(v) PROVE RefsArc'
  BY <1>2, RemoveLeaves, RefsKept
<1> QED
  BY <1>1, <1>2, StoredChanges, RefsCommit

\* A stream id that is there names one stream.
DataIn(a, id) ==
  {a.Streams[i].data : i \in {j \in DOMAIN a.Streams : a.Streams[j].StreamId = id}}

IdsAscend(a) ==
  \A i, j \in DOMAIN a.Streams : i < j => a.Streams[i].StreamId < a.Streams[j].StreamId

LEMMA OneStream ==
  ASSUME NEW a \in Archive, IdsAscend(a), NEW id, HasStream(a, id)
  PROVE  \E c \in Contents : DataIn(a, id) = {c}
<1>1. a.Streams \in Seq(Written)
  BY DEF Archive
<1>2. PICK i \in DOMAIN a.Streams : a.Streams[i].StreamId = id
  BY DEF HasStream
<1>3. /\ DOMAIN a.Streams \subseteq Nat
      /\ \A j \in DOMAIN a.Streams : a.Streams[j] \in Written
  BY <1>1
<1>4. \A j \in DOMAIN a.Streams : a.Streams[j].StreamId = id => j = i
  <2>1. \A j \in DOMAIN a.Streams : a.Streams[j].StreamId \in Nat
    BY <1>3 DEF Written
  <2> QED
    BY <1>2, <1>3, <2>1 DEF IdsAscend
<1>5. DataIn(a, id) = {a.Streams[i].data}
  BY <1>2, <1>4 DEF DataIn
<1> QED
  BY <1>2, <1>3, <1>5 DEF Written

LEMMA RefsMeanData ==
  ASSUME TypeInv, IdInv, RefsArc
  PROVE  ReferencesResolve
<1> SUFFICES ASSUME NEW v \in Stored
    PROVE  /\ \A d \in arc[v].VersionDependencies : d \in 0..(v - 1)
           /\ \A p \in Paths :
                LET o == arc[v].BaseObjects[p]
                IN  HasData(o) =>
                      /\ o.LatestVersion \in arc[v].VersionDependencies \cup {v}
                      /\ o.LatestVersion \in Stored =>
                           \E c \in Contents : StreamData(o.LatestVersion, o.StreamUniqueId) = {c}
  BY DEF ReferencesResolve
<1>1. \A d \in arc[v].VersionDependencies : d \in 0..(v - 1)
  BY DEF RefsArc
<1>2. ASSUME NEW p \in Paths, NEW o, o = arc[v].BaseObjects[p], HasData(o)
      PROVE  /\ o.LatestVersion \in arc[v].VersionDependencies \cup {v}
             /\ o.LatestVersion \in Stored =>
                  \E c \in Contents : StreamData(o.LatestVersion, o.StreamUniqueId) = {c}
  <2>1. /\ o.LatestVersion \in arc[v].VersionDependencies \cup {v}
        /\ o.LatestVersion \in Stored => HasStream(arc[o.LatestVersion], o.StreamUniqueId)
    BY <1>2 DEF HasData, RefsArc, Resolved
  <2>2. ASSUME NEW n \in Stored, HasStream(arc[n], o.StreamUniqueId)
        PROVE  \E c \in Contents : StreamData(n, o.StreamUniqueId) = {c}
    <3>1. arc[n] \in Archive
      BY DEF TypeInv, TypeOK, Stored
    <3>2. IdsAscend(arc[n])
      BY DEF IdInv, StreamIdsUnique, IdsAscend
    <3>3. \E c \in Contents : DataIn(arc[n], o.StreamUniqueId) = {c}
      BY <2>2, <3>1, <3>2, OneStream
    <3> QED
      BY <3>3 DEF DataIn, StreamData
  <2> QED
    BY <2>1, <2>2
<1> QED
  BY <1>1, <1>2

LEMMA RefInvInit == Init => RefInv
BY DEF Init, RefInv, OldLoaded, StillBusy, ScanInv, LinksAgree, VisitOrder, Ascending,
       Registered, IdsHanded, FullAgain, AllPlaced, RefsArc, NoObjects, Busy, Visited, Stored

LEMMA RefInvNext ==
  ASSUME ~ConcurrentEdits
  PROVE  DataInv /\ RefInv /\ [Next]_vars => RefInv'
<1> SUFFICES ASSUME DataInv, RefInv, [Next]_vars PROVE RefInv'
  OBVIOUS
<1>1. TypeInv /\ IdInv /\ Phases /\ VisitInv
  BY DEF DataInv, SessionInv
<1>2. Phases'
  BY <1>1, PhasesNext
<1>3. OldLoaded' /\ StillBusy'
  BY <1>1, OldLoadedNext, StillBusyNext DEF RefInv
<1>4. ScanInv' /\ LinksAgree'
  BY <1>1, <1>2, ScanInvNext, LinksAgreeNext DEF RefInv
<1>5. VisitOrder' /\ FullAgain'
  BY <1>1, VisitOrderNext, FullAgainNext DEF RefInv
<1>6. AllPlaced' /\ RefsArc'
  BY <1>1, AllPlacedNext, RefsArcNext DEF RefInv
<1> QED
  BY <1>3, <1>4, <1>5, <1>6 DEF RefInv

\* If nothing else changes the source while a backup runs, every file a
\* version lists is found where the version says: in itself or in one of its
\* dependencies, all of them older, under an id that names one stream there,
\* for every number of versions, backups a session and versions removed.
\* GenerateInitialStream's and CheckAndMaybeAdd's streams, hardlinks that share
\* them (FixUpStreamReference), references handed on (FileHasChanged) and
\* GetDependencies have to agree for it.
THEOREM ReferencesHold ==
  ASSUME ~ConcurrentEdits
  PROVE  Spec => []ReferencesResolve
<1>1. Init => DataInv /\ RefInv
  BY DataInvInit, RefInvInit
<1>2. DataInv /\ RefInv /\ [Next]_vars => (DataInv /\ RefInv)'
  BY DataInvNext, RefInvNext
<1>3. DataInv /\ RefInv => ReferencesResolve
  BY RefsMeanData DEF DataInv, RefInv
<1> QED
  BY <1>1, <1>2, <1>3, PTL DEF Spec

-----------------------------------------------------------------------------
(***************************************************************************)
(* Hashes, when a session makes one backup and nothing changes under it.   *)
(***************************************************************************)
LEMMA FirstScanNext ==
  ASSUME TypeInv, Phases, FirstScan, [Next]_vars
  PROVE  FirstScan'
<1> USE DEF settings, objects
<1>1. CASE UNCHANGED <<backups, baseSet>> /\ (pc' = pc \/ pc' \notin {"open", "list"})
  BY <1>1 DEF FirstScan
<1>2. CASE Open \/ EndSession \/ BeginBackup
  BY <1>2 DEF Open, EndSession, BeginBackup, FirstScan, Phases
<1>3. CASE CommitArchive
  BY <1>3 DEF CommitArchive, FirstScan, TypeInv, TypeOK
<1>4. CASE ListSource \/ ReuseBaseObjects
  BY <1>4 DEF ListSource, ReuseBaseObjects, FirstScan
<1>5. CASE \E p \in Paths : SkipObject(p) \/ AddInitialStream(p)
                            \/ AddChangedFile(p) \/ KeepUnmodified(p)
  <2>1. PICK p \in Paths : Visit(p)
    BY <1>5 DEF SkipObject, AddInitialStream, AddChangedFile, KeepUnmodified
  <2> QED
    BY <1>1, <2>1, VisitLeaves
<1>6. CASE Environment
  BY <1>1, <1>6, EditIs, EditLeaves, RemoveLeaves
<1> QED
  BY <1>1, <1>2, <1>3, <1>4, <1>5, <1>6
     DEF Next, Backup, vars, ScanEntry, RecalculateFileGuid, PrepareStreams, WriteStream

\* One backup a session: no objects are left from an earlier one.
LEMMA NothingReused ==
  ASSUME MaxSessionBackups = 1, TypeInv, Phases, NumberFree, FirstScan,
         BeginBackup \/ ListSource \/ ReuseBaseObjects
  PROVE  ~baseSet /\ base = NoObjects
<1>1. backups \in Nat /\ backups < 1
  BY DEF BeginBackup, ListSource, ReuseBaseObjects, NumberFree, Busy, TypeInv, TypeOK
<1>2. backups = 0 /\ pc \in {"open", "list"}
  BY <1>1 DEF BeginBackup, ListSource, ReuseBaseObjects
<1> QED
  BY <1>2 DEF FirstScan, Phases

LEMMA NoHashVisit ==
  ASSUME TypeInv, NoHashYet, NEW p \in Paths, Visit(p), Replaces(p)
  PROVE  NoHashYet'
<1>1. pc = "archive"
  BY VisitLeaves
<1>2. \A q \in Paths : ~Visited(q)' => q # p /\ ~Visited(q) /\ base'[q] = base[q]
  BY VisitedNow DEF Replaces
<1> QED
  BY <1>1, <1>2 DEF NoHashYet, Busy

LEMMA NoHashYetNext ==
  ASSUME MaxSessionBackups = 1, TypeInv, Phases, NumberFree, VisitInv, FirstScan,
         NoHashYet, [Next]_vars
  PROVE  NoHashYet'
<1> USE DEF objects
<1>1. CASE UNCHANGED <<base, pc, todo>> \/ pc' \in {"closed", "open"}
  BY <1>1 DEF NoHashYet, Busy, Visited
<1>2. CASE BeginBackup \/ ListSource \/ ReuseBaseObjects
  <2>1. base = NoObjects /\ UNCHANGED base
    BY <1>2, NothingReused DEF BeginBackup, ListSource, ReuseBaseObjects
  <2> QED
    BY <2>1 DEF NoHashYet, NoObjects
<1>3. ASSUME NEW p \in Paths, ScanEntry(p) \/ RecalculateFileGuid(p) PROVE NoHashYet'
  <2>1. pc = "scan" /\ base \in [Paths -> Fso \cup {None}]
    BY <1>3 DEF ScanEntry, RecalculateFileGuid, TypeInv, TypeOK
  <2>2. \A q \in Paths : base[q] # None => base[q].Hashes = None
    BY <2>1 DEF NoHashYet, Busy, Visited
  <2>3. CASE ScanEntry(p)
    <3>1. PICK g \in Guids \cup {None} : base' = [base EXCEPT ![p] = FsoFor(p, Found(p), g)]
      BY <2>3, ScanIs
    <3>2. FsoFor(p, Found(p), g).Hashes = None
      BY DEF FsoFor
    <3>3. \A q \in Paths : base'[q] = IF q = p THEN FsoFor(p, Found(p), g) ELSE base[q]
      BY <2>1, <3>1
    <3> QED
      BY <2>2, <3>2, <3>3 DEF NoHashYet
  <2>4. CASE RecalculateFileGuid(p)
    <3>1. Replaces(p) /\ base'[p].Hashes = base[p].Hashes
      BY <2>4, RecalculateIs DEF Replaces, Fso
    <3> QED
      BY <2>2, <3>1 DEF NoHashYet, Replaces
  <2> QED
    BY <1>3, <2>3, <2>4
<1>4. CASE PrepareStreams
  <2>1. pc = "scan"
    BY <1>4 DEF PrepareStreams
  <2>2. \A q \in Paths : base[q] # None => base[q].Hashes = None
    BY <2>1 DEF NoHashYet, Busy, Visited
  <2>3. ASSUME NEW q \in Paths, base'[q] # None PROVE base'[q].Hashes = None
    BY <1>4, <2>2, <2>3, PrepareIs
  <2> QED
    BY <2>3 DEF NoHashYet
<1>5. ASSUME NEW p \in Paths, SkipObject(p) \/ KeepUnmodified(p) PROVE NoHashYet'
  BY <1>5, SkipIs, KeepIs, NoHashVisit
<1>6. ASSUME NEW p \in Paths, AddInitialStream(p) \/ AddChangedFile(p) PROVE NoHashYet'
  BY <1>6, AddStreamIs, AddIs, NoHashVisit
<1>7. CASE WriteStream
  <2>1. PICK p \in Paths : /\ pc = "archive" /\ Len(out) < Len(streams)
                           /\ p = streams[Len(out) + 1].fso
                           /\ Replaces(p) /\ UNCHANGED <<pc, todo>>
    BY <1>7, WriteIs
  <2>2. Len(out) + 1 \in DOMAIN streams
    BY <2>1 DEF TypeInv, TypeOK
  <2>3. Visited(p)
    BY <2>1, <2>2 DEF VisitInv, StreamsOfFiles, IsStreamOf
  <2> QED
    BY <2>1, <2>3 DEF NoHashYet, Busy, Visited, Replaces
<1>8. CASE Environment
  BY <1>1, <1>8, EditIs, EditLeaves, RemoveLeaves
<1>9. CASE Open \/ EndSession \/ CommitArchive
  BY <1>1, <1>9 DEF Open, EndSession, CommitArchive
<1> QED
  BY <1>1, <1>2, <1>3, <1>4, <1>5, <1>6, <1>7, <1>8, <1>9 DEF Next, Backup, vars

\* What was visited reads the same as long as the backup runs.
LEMMA ReadKept ==
  ASSUME UNCHANGED <<live, inode, shadow, main>>, NEW p \in Paths
  PROVE  ReadAt(main.MappedBasePath, p)' = ReadAt(main.MappedBasePath, p)
<1> DEFINE l == main.MappedBasePath
<1>1. main'.MappedBasePath = l /\ EntryAt(l, p)' = EntryAt(l, p)
  BY DEF EntryAt, Reachable
<1>2. \A g : InodeAt(l, g)' = InodeAt(l, g)
  BY <1>1 DEF InodeAt
<1> QED
  BY <1>1, <1>2 DEF ReadAt

LEMMA HashKept ==
  ASSUME UNCHANGED <<live, inode, shadow, main, arc>>, NEW q \in Paths, HashRight(q),
         base'[q] = base[q],
         \A i \in DOMAIN streams : i \in DOMAIN streams' /\ streams'[i] = streams[i]
  PROVE  HashRight(q)'
<1>1. ReadAt(main.MappedBasePath, q)' = ReadAt(main.MappedBasePath, q)
  BY ReadKept
<1>2. Stored' = Stored /\ \A n, id : StreamData(n, id)' = StreamData(n, id)
  BY DEF Stored, StreamData
<1> QED
  BY <1>1, <1>2 DEF HashRight

LEMMA HashesRightAt ==
  ASSUME TypeInv, HashesRight, NEW p \in Paths, Visit(p), Replaces(p), HashRight(p)',
         \A i \in DOMAIN streams : i \in DOMAIN streams' /\ streams'[i] = streams[i]
  PROVE  HashesRight'
<1> SUFFICES ASSUME NEW q \in Paths, Visited(q)' PROVE HashRight(q)'
  BY DEF HashesRight
<1>1. CASE q = p
  BY <1>1
<1>2. CASE q # p
  <2>1. Visited(q) /\ base'[q] = base[q] /\ UNCHANGED <<live, inode, shadow, main, arc>>
    BY <1>2, VisitedNow, VisitLeaves
  <2> QED
    BY <2>1, HashKept DEF HashesRight
<1> QED
  BY <1>1, <1>2

LEMMA HashesRightSkip ==
  ASSUME TypeInv, NoHashYet, HashesRight, NEW p \in Paths, SkipObject(p)
  PROVE  HashesRight'
<1>1. /\ Visit(p) /\ Replaces(p) /\ base'[p].Hashes = base[p].Hashes /\ UNCHANGED streams
  BY SkipIs
<1>2. base[p].Hashes = None
  BY <1>1, VisitLeaves, VisitedNow DEF NoHashYet, Busy, Replaces
<1>3. HashRight(p)'
  BY <1>1, <1>2 DEF HashRight
<1> QED
  BY <1>1, <1>3, HashesRightAt

LEMMA HashesRightAdd ==
  ASSUME TypeInv, NoHashYet, HashesRight, NEW p \in Paths,
         AddInitialStream(p) \/ AddChangedFile(p)
  PROVE  HashesRight'
<1>1. Visit(p) /\ ShouldBeAdded(base[p])
  BY AddStreamIs
<1>2. PICK h \in Contents \cup {None} :
        AddFullStream(p, h) /\ (h = base[p].Hashes \/ h = HashOf(p, base[p]))
  <2>1. base[p] \in Fso /\ main.MappedBasePath \in Locs
    BY <1>1, VisitedObject
  <2>2. base[p].Hashes \in Contents \cup {None}
    BY <2>1 DEF Fso
  <2>3. HashOf(p, base[p]) \in Contents \cup {None}
    BY <2>1, <2>2, EntryType DEF HashOf, TypeInv
  <2> QED
    BY <2>2, <2>3 DEF AddInitialStream, AddChangedFile
<1>3. /\ Replaces(p) /\ base'[p].Hashes = h /\ base'[p].BackupStream = "Full"
      /\ streams' = Append(streams, [UniqueId |-> nextId, fso |-> p])
  BY <1>1, <1>2, AddIs
<1>4. base[p].Hashes = None
  BY <1>1, <1>3, VisitLeaves, VisitedNow DEF NoHashYet, Busy, Replaces
<1>5. h # None => h = ReadAt(main.MappedBasePath, p)
  BY <1>2, <1>4 DEF HashOf
<1>6. ReadAt(main.MappedBasePath, p)' = ReadAt(main.MappedBasePath, p)
  BY <1>1, VisitLeaves, ReadKept
<1>7. /\ DOMAIN streams' = 1..(Len(streams) + 1) /\ DOMAIN streams = 1..Len(streams)
      /\ Len(streams) \in Nat
      /\ \A i \in DOMAIN streams : streams'[i] = streams[i]
      /\ streams'[Len(streams) + 1] = [UniqueId |-> nextId, fso |-> p]
  BY <1>3, AppendedStreams
<1>8. /\ Len(streams) + 1 \in DOMAIN streams' /\ streams'[Len(streams) + 1].fso = p
      /\ \A i \in DOMAIN streams : i \in DOMAIN streams'
  BY <1>7
<1>9. HashRight(p)'
  BY <1>3, <1>5, <1>6, <1>8 DEF HashRight
<1> QED
  BY <1>1, <1>3, <1>7, <1>8, <1>9, HashesRightAt

LEMMA HashesRightKeep ==
  ASSUME TypeInv, VisitOrder, OldLoaded, FullAgain, RefsArc, HashMatchesData, NoHashYet,
         HashesRight, NEW p \in Paths, KeepUnmodified(p)
  PROVE  HashesRight'
<1> DEFINE o == OldObject(p)
<1>1. /\ Visit(p) /\ Replaces(p) /\ o # None
      /\ base'[p].LatestVersion = o.LatestVersion
      /\ base'[p].StreamUniqueId = base[p].StreamUniqueId
      /\ base'[p].BackupStream # "Full" /\ UNCHANGED streams
      /\ base'[p].Hashes = IF o.Hashes = None THEN base[p].Hashes ELSE o.Hashes
  BY KeepIs, KeptIsNotFull
<1>2. pc = "archive" /\ p \in todo /\ UNCHANGED arc
  BY <1>1, VisitLeaves
<1>3. base[p].StreamUniqueId = o.StreamUniqueId
  BY <1>1, <1>2 DEF VisitOrder, IdsHanded
<1>4. count - 1 \in Stored /\ o = arc[count - 1].BaseObjects[p]
  BY <1>1, <1>2, OldObjectIs DEF Busy
<1>5. base[p].Hashes = None
  BY <1>1, <1>2, VisitedNow DEF NoHashYet, Busy, Replaces
<1>6. Resolved(count - 1, o)
  BY <1>4 DEF RefsArc
<1> HIDE DEF o
<1>7. ASSUME o.LatestVersion >= 0, o.Hashes # None, o.LatestVersion \in Stored
      PROVE  StreamData(o.LatestVersion, o.StreamUniqueId) = {o.Hashes}
  <2>1. HasData(o)
    BY <1>1, <1>6, <1>7 DEF Resolved, HasData
  <2> QED
    BY <1>4, <1>7, <2>1 DEF HashMatchesData
<1>8. Stored' = Stored /\ \A n, id : StreamData(n, id)' = StreamData(n, id)
  BY <1>2 DEF Stored, StreamData
<1>9. HashRight(p)'
  <2> SUFFICES ASSUME base'[p].LatestVersion >= 0, base'[p].Hashes # None,
                      base'[p].LatestVersion \in Stored'
      PROVE  StreamData(base[p].LatestVersion, base[p].StreamUniqueId)' = {base'[p].Hashes}
    BY <1>1 DEF HashRight
  <2>1. base'[p].Hashes = o.Hashes /\ o.Hashes # None
    BY <1>1, <1>5
  <2>2. StreamData(o.LatestVersion, o.StreamUniqueId) = {o.Hashes}
    BY <1>1, <1>7, <1>8, <2>1
  <2>3. StreamData(base[p].LatestVersion, base[p].StreamUniqueId)'
          = StreamData(o.LatestVersion, o.StreamUniqueId)
    BY <1>1, <1>2, <1>3 DEF StreamData
  <2> QED
    BY <2>1, <2>2, <2>3
<1> QED
  BY <1>1, <1>9, HashesRightAt

LEMMA HashesRightWrite ==
  ASSUME TypeInv, VisitInv, HashesRight, WriteStream
  PROVE  HashesRight'
<1>1. PICK p \in Paths, c \in Contents :
        /\ pc = "archive" /\ Len(out) < Len(streams)
        /\ p = streams[Len(out) + 1].fso /\ c = ReadAt(main.MappedBasePath, p)
        /\ Replaces(p)
        /\ base'[p].LatestVersion = base[p].LatestVersion
        /\ base'[p].StreamUniqueId = base[p].StreamUniqueId
        /\ base'[p].BackupStream = base[p].BackupStream
        /\ base'[p].Hashes = IF base[p].Hashes = None THEN c ELSE base[p].Hashes
        /\ UNCHANGED <<live, inode, shadow, main, arc, pc, todo, streams>>
  BY WriteIs
<1>2. Len(out) + 1 \in DOMAIN streams
  BY <1>1 DEF TypeInv, TypeOK
<1>3. Visited(p) /\ base[p].BackupStream = "Full"
  BY <1>1, <1>2 DEF VisitInv, StreamsOfFiles, IsStreamOf
<1>4. ReadAt(main.MappedBasePath, p)' = ReadAt(main.MappedBasePath, p)
  BY <1>1, ReadKept
<1>5. HashRight(p)'
  <2>1. HashRight(p)
    BY <1>3 DEF HashesRight
  <2>2. \E i \in DOMAIN streams : streams[i].fso = p
    BY <1>1, <1>2
  <2> QED
    BY <1>1, <1>3, <1>4, <2>1, <2>2 DEF HashRight
<1>6. ASSUME NEW q \in Paths \ {p}, Visited(q)' PROVE HashRight(q)'
  <2>1. Visited(q) /\ base'[q] = base[q] /\ HashRight(q)
    BY <1>1, <1>6 DEF Visited, Replaces, HashesRight
  <2> QED
    BY <1>1, <2>1, HashKept
<1> QED
  BY <1>5, <1>6 DEF HashesRight

LEMMA HashesRightNext ==
  ASSUME ~ConcurrentEdits, TypeInv, VisitInv, VisitOrder, OldLoaded, FullAgain, RefsArc,
         HashMatchesData, NoHashYet, HashesRight, [Next]_vars
  PROVE  HashesRight'
<1>1. CASE pc' # "archive"
  BY <1>1 DEF HashesRight, Visited
<1>2. CASE PrepareStreams
  <2>1. \A p \in Paths : ~Visited(p)'
    BY <1>2, PrepareIs DEF PrepareStreams, Visited
  <2> QED
    BY <2>1 DEF HashesRight
<1>3. CASE \E p \in Paths : SkipObject(p) \/ AddInitialStream(p)
                            \/ AddChangedFile(p) \/ KeepUnmodified(p)
  BY <1>3, HashesRightSkip, HashesRightAdd, HashesRightKeep
<1>4. CASE WriteStream
  BY <1>4, HashesRightWrite
<1>5. CASE Environment
  <2>1. CASE \E v \in Versions : RemoveVersion(v)
    BY <1>1, <2>1, RemoveLeaves
  <2>2. CASE \A v \in Versions : ~RemoveVersion(v)
    <3>1. pc' = pc /\ pc # "archive"
      BY <1>5, <2>2, EditIs, EditLeaves DEF Busy
    <3> QED
      BY <1>1, <3>1
  <2> QED
    BY <2>1, <2>2
<1>6. CASE UNCHANGED vars
  <2>1. UNCHANGED <<live, inode, shadow, main, arc, base, pc, todo, streams>>
    BY <1>6 DEF vars, disk, store, objects, pending
  <2> QED
    BY <2>1, HashKept DEF HashesRight, Visited
<1> QED
  BY <1>1, <1>2, <1>3, <1>4, <1>5, <1>6
     DEF Next, Backup, Open, EndSession, BeginBackup, ListSource, ReuseBaseObjects, ScanEntry,
         RecalculateFileGuid, CommitArchive

\* The data written are those that can still be read.
LEMMA OutNowKept ==
  ASSUME TypeInv, StreamsInOrder, OutNow, UNCHANGED <<live, inode, shadow, main, out>>,
         \A i \in DOMAIN streams : streams'[i] = streams[i]
  PROVE  OutNow'
<1>1. DOMAIN out \subseteq DOMAIN streams
  BY DEF StreamsInOrder, TypeInv, TypeOK
<1> SUFFICES ASSUME NEW i \in DOMAIN out
    PROVE  out[i].data = ReadAt(main.MappedBasePath, streams[i].fso)'
  BY DEF OutNow
<1>2. PICK p \in Paths : p = streams[i].fso
  BY <1>1, StreamOf
<1>3. streams'[i].fso = p /\ out[i].data = ReadAt(main.MappedBasePath, p)
  BY <1>1, <1>2 DEF OutNow
<1>4. ReadAt(main.MappedBasePath, p)' = ReadAt(main.MappedBasePath, p)
  BY ReadKept
<1> QED
  BY <1>3, <1>4 DEF ReadAt

LEMMA OutNowNext ==
  ASSUME ~ConcurrentEdits, TypeInv, StreamsInOrder, StreamsInOrder', OutNow, [Next]_vars
  PROVE  OutNow'
<1>1. CASE pc' # "archive"
  BY <1>1 DEF OutNow, StreamsInOrder
<1>2. CASE PrepareStreams
  BY <1>2 DEF PrepareStreams, pending, StreamsInOrder, OutNow
<1>3. ASSUME NEW p \in Paths, SkipObject(p) \/ KeepUnmodified(p) PROVE OutNow'
  BY <1>3, SkipIs, KeepIs, VisitLeaves, OutNowKept
<1>4. ASSUME NEW p \in Paths, AddInitialStream(p) \/ AddChangedFile(p) PROVE OutNow'
  <2>1. Visit(p) /\ \E s : streams' = Append(streams, s)
    BY <1>4, AddStreamIs DEF AddFullStream
  <2>2. \A i \in DOMAIN streams : streams'[i] = streams[i]
    BY <2>1, AppendedStreams
  <2> QED
    BY <2>1, <2>2, VisitLeaves, OutNowKept
<1>5. CASE WriteStream
  <2>1. PICK p \in Paths, c \in Contents :
          /\ p = streams[Len(out) + 1].fso /\ c = ReadAt(main.MappedBasePath, p)
          /\ out' = Append(out, [StreamId |-> streams[Len(out) + 1].UniqueId, data |-> c])
          /\ UNCHANGED <<live, inode, shadow, main, streams>>
    BY <1>5, WriteIs
  <2>2. out \in Seq(Written)
    BY DEF TypeInv, TypeOK
  <2>3. /\ DOMAIN out' = 1..(Len(out) + 1) /\ DOMAIN out = 1..Len(out) /\ Len(out) \in Nat
        /\ \A i \in DOMAIN out : out'[i] = out[i]
        /\ out'[Len(out) + 1].data = c
    BY <2>1, <2>2
  <2>4. \A l, q : ReadAt(l, q)' = ReadAt(l, q)
    BY <2>1 DEF ReadAt, EntryAt, InodeAt, Reachable
  <2>5. ASSUME NEW i \in DOMAIN out'
        PROVE  out'[i].data = ReadAt(main.MappedBasePath, streams[i].fso)
    <3>1. CASE i \in DOMAIN out
      BY <2>3, <3>1 DEF OutNow
    <3>2. CASE i = Len(out) + 1
      BY <2>1, <2>3, <3>2
    <3> QED
      BY <2>3, <3>1, <3>2
  <2>6. ASSUME NEW i \in DOMAIN out'
        PROVE  ReadAt(main.MappedBasePath, streams[i].fso)'
                 = ReadAt(main.MappedBasePath, streams[i].fso)
    BY <2>1 DEF ReadAt, EntryAt, InodeAt, Reachable
  <2> QED
    BY <2>5, <2>6 DEF OutNow
<1>6. CASE Environment
  <2>1. CASE \E v \in Versions : RemoveVersion(v)
    BY <1>1, <2>1, RemoveLeaves
  <2>2. CASE \A v \in Versions : ~RemoveVersion(v)
    <3>1. pc' = pc /\ pc # "archive"
      BY <1>6, <2>2, EditIs, EditLeaves DEF Busy
    <3> QED
      BY <1>1, <3>1
  <2> QED
    BY <2>1, <2>2
<1>7. CASE UNCHANGED vars
  <2>1. UNCHANGED <<live, inode, shadow, main, out, streams>>
    BY <1>7 DEF vars, disk, objects, pending
  <2> QED
    BY <2>1, OutNowKept
<1> QED
  BY <1>1, <1>2, <1>3, <1>4, <1>5, <1>6, <1>7
     DEF Next, Backup, Open, EndSession, BeginBackup, ListSource, ReuseBaseObjects, ScanEntry,
         RecalculateFileGuid, CommitArchive

\* The data of a stream of the new version.
LEMMA StreamWritten ==
  ASSUME TypeInv, TypeInv', IdInv, IdInv', OutNow, CommitArchive, count \in Stored',
         NEW i \in DOMAIN streams, NEW id, id = streams[i].UniqueId
  PROVE  StreamData(count, id)' = {ReadAt(main.MappedBasePath, streams[i].fso)}
<1> DEFINE c == ReadAt(main.MappedBasePath, streams[i].fso)
<1>1. Len(out) = Len(streams) /\ UNCHANGED count /\ arc'[count] = NewArchive
  BY CommitIs
<1>2. i \in DOMAIN out /\ out[i].StreamId = id /\ out[i].data = c
  <2>1. DOMAIN out = DOMAIN streams
    BY <1>1 DEF TypeInv, TypeOK
  <2> QED
    BY <2>1 DEF IdInv, StreamsInOrder, OutNow
<1> HIDE DEF c
<1>3. c \in StreamData(count, id)'
  BY <1>1, <1>2 DEF StreamData, NewArchive
<1>4. HasStream(arc'[count], id)
  BY <1>1, <1>2 DEF HasStream, NewArchive
<1>5. \E d \in Contents : DataIn(arc'[count], id) = {d}
  <2>1. arc'[count] \in Archive
    BY DEF TypeInv, TypeOK, Stored
  <2>2. IdsAscend(arc'[count])
    BY DEF IdInv, StreamIdsUnique, IdsAscend
  <2> QED
    BY <1>4, <2>1, <2>2, OneStream
<1>6. StreamData(count, id)' = DataIn(arc'[count], id)
  BY <1>1 DEF StreamData, DataIn
<1>7. StreamData(count, id)' = {c}
  BY <1>3, <1>5, <1>6
<1> QED
  BY <1>7 DEF c

\* A new object's data, if they are in the new version.
LEMMA NewData ==
  ASSUME TypeInv, TypeInv', IdInv, IdInv', VisitInv, OutNow, CommitArchive, count \in Stored',
         NEW p \in Paths, Visited(p), HashRight(p), base[p].LatestVersion >= 0,
         base[p].Hashes # None, base[p].BackupStream = "Full"
  PROVE  StreamData(count, base[p].StreamUniqueId)' = {base[p].Hashes}
<1>1. UNCHANGED <<count, base>>
  BY CommitIs
<1>2. PICK i \in DOMAIN streams : streams[i].fso = p
  BY DEF HashRight
<1>3. ReadAt(main.MappedBasePath, streams[i].fso) = base[p].Hashes
  BY <1>2 DEF HashRight
<1>4. PICK id : id = base[p].StreamUniqueId
  OBVIOUS
<1>5. id = streams[i].UniqueId
  BY <1>2, <1>4 DEF VisitInv, StreamsOfFiles, IsStreamOf
<1>6. StreamData(count, id)' = {base[p].Hashes}
  BY <1>3, <1>5, StreamWritten
<1> QED
  BY <1>1, <1>4, <1>6 DEF StreamData

\* The goal for one object, of one version after a step.
HashOfData(v, p) ==
  LET o == arc[v].BaseObjects[p]
  IN  HasData(o) /\ o.Hashes # None /\ o.LatestVersion \in Stored =>
        StreamData(o.LatestVersion, o.StreamUniqueId) = {o.Hashes}

\* The data of a stream are a function of the archive that holds it.
LEMMA DataKept ==
  ASSUME NEW n, arc'[n] = arc[n]
  PROVE  \A id : StreamData(n, id)' = StreamData(n, id)
BY DEF StreamData

\* The goal after a step, with the object, the version and the id named.
LEMMA HashOfNext ==
  ASSUME NEW v, NEW p,
         \A o, n, id : /\ o = arc'[v].BaseObjects[p] /\ HasData(o) /\ o.Hashes # None
                       /\ n \in Stored' /\ n = o.LatestVersion /\ id = o.StreamUniqueId
                       => StreamData(n, id)' = {o.Hashes}
  PROVE  HashOfData(v, p)'
<1>1. PICK o : o = arc'[v].BaseObjects[p]
  OBVIOUS
<1>2. HasData(o) /\ o.Hashes # None /\ o.LatestVersion \in Stored' =>
        StreamData(o.LatestVersion, o.StreamUniqueId)' = {o.Hashes}
  BY <1>1
<1> QED
  BY <1>1, <1>2 DEF HashOfData

LEMMA HashCommit ==
  ASSUME TypeInv, TypeInv', IdInv, IdInv', VisitInv, RefsArc, AllPlaced, HashesRight, OutNow,
         HashMatchesData, CommitArchive
  PROVE  HashMatchesData'
<1> SUFFICES ASSUME NEW v \in Stored', NEW p \in Paths PROVE HashOfData(v, p)'
  BY DEF HashMatchesData, HashOfData
<1>1. /\ pc = "archive" /\ todo = {} /\ UNCHANGED <<count, base>>
      /\ \A w \in Stored' : w # count => w \in Stored /\ arc'[w] = arc[w]
      /\ count \in Stored' => arc'[count] = NewArchive
  BY CommitIs
<1>2. \A w \in Stored' : w # count => \A id : StreamData(w, id)' = StreamData(w, id)
  BY <1>1, DataKept
<1>3. CASE v # count
  <2> SUFFICES ASSUME NEW o, o = arc[v].BaseObjects[p], HasData(o), o.Hashes # None,
                      NEW n \in Stored', n = o.LatestVersion,
                      NEW id, id = o.StreamUniqueId
      PROVE  StreamData(n, id)' = {o.Hashes}
    <3>1. arc'[v] = arc[v]
      BY <1>1, <1>3
    <3> QED
      BY <3>1, HashOfNext
  <2>1. v \in Stored /\ v < count /\ v \in Nat /\ count \in Nat
    BY <1>1, <1>3, BackupEngineAssumption
       DEF IdInv, SessionKnows, TypeInv, TypeOK, Stored, Versions
  <2>2. o.LatestVersion \in arc[v].VersionDependencies \cup {v}
        /\ arc[v].VersionDependencies \subseteq 0..(v - 1)
    BY <2>1 DEF HasData, RefsArc, Resolved
  <2>3. o.LatestVersion # count
    BY <2>1, <2>2
  <2>4. n # count /\ n \in Stored
    BY <1>1, <2>3
  <2>5. StreamData(n, id) = {o.Hashes}
    BY <2>1, <2>4 DEF HashMatchesData
  <2>6. StreamData(n, id)' = StreamData(n, id)
    BY <1>2, <2>4
  <2> QED
    BY <2>5, <2>6
<1>4. CASE v = count
  <2> DEFINE f == base[p]
  <2>1. f # None => \E o : /\ o = arc'[v].BaseObjects[p] /\ o.Hashes = f.Hashes
                           /\ o.LatestVersion = f.LatestVersion
                           /\ o.StreamUniqueId = f.StreamUniqueId
    BY <1>1, <1>4, NewObject
  <2>2. HasData(arc'[v].BaseObjects[p]) => f # None /\ f.LatestVersion >= 0
    BY <1>1, <1>4, NewObject DEF HasData
  <2> SUFFICES ASSUME f # None, f.LatestVersion >= 0, f.Hashes # None,
                      f.LatestVersion \in Stored'
      PROVE  \E n, id : /\ n = f.LatestVersion /\ id = f.StreamUniqueId
                        /\ StreamData(n, id)' = {f.Hashes}
    <3> SUFFICES ASSUME NEW o, o = arc'[v].BaseObjects[p], HasData(o), o.Hashes # None,
                        NEW n \in Stored', n = o.LatestVersion,
                        NEW id, id = o.StreamUniqueId
        PROVE  StreamData(n, id)' = {o.Hashes}
      BY HashOfNext
    <3>1. /\ f # None /\ f.LatestVersion >= 0 /\ o.Hashes = f.Hashes
          /\ n = f.LatestVersion /\ id = f.StreamUniqueId
      BY <2>1, <2>2
    <3> QED
      BY <3>1
  <2>3. Visited(p) /\ f \in Fso
    BY <1>1 DEF Visited, TypeInv, TypeOK
  <2>4. Placed(f) /\ HashRight(p)
    BY <2>3 DEF AllPlaced, HashesRight
  <2>5. CASE f.BackupStream = "Full"
    <3>1. f.LatestVersion = count
      BY <2>4, <2>5 DEF Placed
    <3>2. StreamData(count, f.StreamUniqueId)' = {f.Hashes}
      BY <2>3, <2>4, <2>5, <3>1, NewData
    <3> QED
      BY <1>1, <3>1, <3>2 DEF StreamData
  <2>6. CASE f.BackupStream # "Full"
    <3>1. f.LatestVersion < count /\ count \in Nat /\ f.LatestVersion \in Int
      BY <2>3, <2>4, <2>6 DEF Placed, TypeInv, TypeOK, Fso
    <3>2. f.LatestVersion # count
      BY <3>1
    <3>3. StreamData(f.LatestVersion, f.StreamUniqueId) = {f.Hashes}
      BY <1>1, <2>4, <2>6, <3>2 DEF HashRight
    <3>4. PICK n, id : n = f.LatestVersion /\ id = f.StreamUniqueId
      OBVIOUS
    <3>5. StreamData(n, id) = {f.Hashes} /\ n \in Stored' /\ n # count
      BY <3>2, <3>3, <3>4
    <3>6. StreamData(n, id)' = {f.Hashes}
      BY <1>2, <3>5
    <3> QED
      BY <3>4, <3>6
  <2> QED
    BY <2>5, <2>6
<1> QED
  BY <1>3, <1>4

LEMMA HashAfterRemoval ==
  ASSUME HashMatchesData, \A w \in Stored' : w \in Stored /\ arc'[w] = arc[w]
  PROVE  HashMatchesData'
<1> SUFFICES ASSUME NEW v \in Stored', NEW p \in Paths PROVE HashOfData(v, p)'
  BY DEF HashMatchesData, HashOfData
<1> SUFFICES ASSUME NEW o, o = arc'[v].BaseObjects[p], HasData(o), o.Hashes # None,
                    NEW n \in Stored', n = o.LatestVersion,
                    NEW id, id = o.StreamUniqueId
    PROVE  StreamData(n, id)' = {o.Hashes}
  BY HashOfNext
<1>1. v \in Stored /\ o = arc[v].BaseObjects[p] /\ n \in Stored
  OBVIOUS
<1>2. StreamData(n, id) = {o.Hashes}
  BY <1>1 DEF HashMatchesData
<1>3. StreamData(n, id)' = StreamData(n, id)
  BY DataKept
<1> QED
  BY <1>2, <1>3

LEMMA HashMatchesNext ==
  ASSUME TypeInv, TypeInv', IdInv, IdInv', VisitInv, RefsArc, AllPlaced, HashesRight, OutNow,
         HashMatchesData, [Next]_vars
  PROVE  HashMatchesData'
<1>1. CASE UNCHANGED <<arc, truth>>
  BY <1>1, HashAfterRemoval DEF Stored
<1>2. ASSUME NEW v \in Versions, RemoveVersion(v) PROVE HashMatchesData'
  BY <1>2, RemoveLeaves, HashAfterRemoval
<1> QED
  BY <1>1, <1>2, StoredChanges, HashCommit

LEMMA HashInvInit == Init => HashInv /\ HashMatchesData
BY DEF Init, HashInv, FirstScan, NoHashYet, HashesRight, OutNow, HashMatchesData, NoObjects,
       Busy, Visited, Stored

LEMMA HashInvNext ==
  ASSUME ~ConcurrentEdits, MaxSessionBackups = 1
  PROVE  DataInv /\ NumberFree /\ RefInv /\ HashInv /\ HashMatchesData /\ [Next]_vars
            => (HashInv /\ HashMatchesData)'
<1> SUFFICES ASSUME DataInv, NumberFree, RefInv, HashInv, HashMatchesData, [Next]_vars
    PROVE  (HashInv /\ HashMatchesData)'
  OBVIOUS
<1>1. TypeInv /\ IdInv /\ Phases /\ VisitInv
  BY DEF DataInv, SessionInv
<1>2. TypeInv' /\ IdInv'
  BY <1>1, TypeInvNext, IdInvNext
<1>3. StreamsInOrder /\ StreamsInOrder'
  BY <1>1, <1>2 DEF IdInv
<1>4. FirstScan' /\ NoHashYet'
  BY <1>1, FirstScanNext, NoHashYetNext DEF HashInv
<1>5. HashesRight'
  BY <1>1, HashesRightNext DEF HashInv, RefInv
<1>6. OutNow'
  BY <1>1, <1>3, OutNowNext DEF HashInv
<1>7. HashMatchesData'
  BY <1>1, <1>2, HashMatchesNext DEF HashInv, RefInv
<1> QED
  BY <1>4, <1>5, <1>6, <1>7 DEF HashInv

\* If moreover every session makes one backup, the hash an object carries is
\* the hash of the data it points at, whichever criterion each version was
\* made with and however many versions the hash was handed on through
\* (FileHasChanged, ComputeHash, AddFile).
THEOREM HashesHold ==
  ASSUME ~ConcurrentEdits, MaxSessionBackups = 1
  PROVE  Spec => []HashMatchesData
<1> DEFINE Inv == DataInv /\ NumberFree /\ RefInv /\ HashInv /\ HashMatchesData
<1>1. Init => Inv
  BY DataInvInit, NumberFreeInit, RefInvInit, HashInvInit
<1>2. Inv /\ [Next]_vars => Inv'
  <2> SUFFICES ASSUME Inv, [Next]_vars PROVE Inv'
    OBVIOUS
  <2>1. DataInv' /\ RefInv'
    BY DataInvNext, RefInvNext
  <2>2. NumberFree'
    BY NumberFreeNext DEF DataInv
  <2>3. HashInv' /\ HashMatchesData'
    BY HashInvNext
  <2> QED
    BY <2>1, <2>2, <2>3
<1>3. Inv => HashMatchesData
  OBVIOUS
<1> QED
  BY <1>1, <1>2, <1>3, PTL DEF Spec

-----------------------------------------------------------------------------
(***************************************************************************)
(* Streams are shared by hardlinks only, when files are compared by hash.  *)
(***************************************************************************)
LEMMA ByHashNext ==
  ASSUME Criteria \subseteq {"Hash"}, TypeInv, ByHash, [Next]_vars
  PROVE  ByHash'
<1> SUFFICES crit' = crit \/ crit' \in Criteria \/ crit' = "Hash"
  BY DEF ByHash
<1>1. CASE Environment
  <2>1. CASE \E v \in Versions : RemoveVersion(v)
    BY <2>1, RemoveLeaves
  <2>2. CASE \A v \in Versions : ~RemoveVersion(v)
    BY <1>1, <2>2, EditIs, EditLeaves
  <2> QED
    BY <2>1, <2>2
<1>2. ASSUME NEW p \in Paths, SkipObject(p) \/ AddInitialStream(p)
                              \/ AddChangedFile(p) \/ KeepUnmodified(p)
      PROVE  crit' = crit
  <2>1. Visit(p)
    BY <1>2 DEF SkipObject, AddInitialStream, AddChangedFile, KeepUnmodified
  <2> QED
    BY <2>1, VisitLeaves
<1>3. CASE UNCHANGED settings
  BY <1>3 DEF settings
<1>4. CASE Open \/ EndSession
  BY <1>4 DEF Open, EndSession
<1> QED
  BY <1>1, <1>2, <1>3, <1>4
     DEF Next, Backup, BeginBackup, ListSource, ReuseBaseObjects, ScanEntry, RecalculateFileGuid,
         PrepareStreams, WriteStream, CommitArchive, vars

\* The ids of the latest version lie below those of the backup that is running.
LEMMA OldIds ==
  ASSUME TypeInv, IdInv, OldLoaded, ArcIds, pc = "archive", NEW p \in Paths,
         HasData(OldObject(p))
  PROVE  OldObject(p).StreamUniqueId < firstId
<1>1. /\ count > 0 /\ count - 1 \in Stored /\ OldObject(p) = arc[count - 1].BaseObjects[p]
      /\ OldObject(p) \in StoredFso
  BY OldObjectIs DEF Busy, HasData
<1>2. OldObject(p).StreamUniqueId < arc[count - 1].NextStreamUniqueId
  BY <1>1 DEF ArcIds
<1>3. count - 1 \in known /\ count \in Nat /\ firstId \in Nat
  BY <1>1 DEF OldLoaded, TypeInv, TypeOK
<1>4. arc[count - 1].NextStreamUniqueId <= firstId
  BY <1>3 DEF IdInv, IdsAbove
<1>5. arc[count - 1] \in Archive
  BY <1>1 DEF TypeInv, TypeOK, Stored
<1> QED
  BY <1>1, <1>2, <1>3, <1>4, <1>5 DEF Archive, StoredFso

LEMMA VisitedIds ==
  ASSUME TypeInv, IdInv, OldLoaded, AllPlaced, ArcIds, Handed, NEW p \in Paths,
         Visited(p), HasData(base[p])
  PROVE  /\ base[p].StreamUniqueId < nextId
         /\ base[p].BackupStream = "Full" => base[p].StreamUniqueId >= firstId
         /\ base[p].BackupStream # "Full" => base[p].StreamUniqueId < firstId
<1>1. /\ pc = "archive" /\ base[p] \in Fso /\ Placed(base[p]) /\ firstId <= nextId
      /\ firstId \in Nat /\ nextId \in Nat
  BY DEF Visited, TypeInv, TypeOK, AllPlaced, IdInv, IdsAbove
<1>2. base[p].StreamUniqueId \in Nat
  BY <1>1 DEF Fso
<1>3. CASE base[p].BackupStream = "Full"
  <2>1. PICK i \in DOMAIN streams : streams[i].UniqueId = base[p].StreamUniqueId
    BY <1>1, <1>3 DEF Placed, HasData
  <2>2. streams[i].UniqueId \in firstId..(nextId - 1)
    BY DEF IdInv, StreamsInOrder
  <2> QED
    BY <1>1, <1>2, <1>3, <2>1, <2>2
<1>4. CASE base[p].BackupStream # "Full"
  <2>1. PICK q \in Paths : HasData(OldObject(q))
                           /\ base[p].StreamUniqueId = OldObject(q).StreamUniqueId
    BY <1>4 DEF Handed
  <2>2. base[p].StreamUniqueId < firstId
    BY <1>1, <2>1, OldIds
  <2> QED
    BY <1>1, <1>2, <1>4, <2>2
<1> QED
  BY <1>3, <1>4

\* What a visit keeps.
LEMMA OldObjectKept ==
  ASSUME UNCHANGED <<count, main, old, oldMain>>
  PROVE  \A q \in Paths : OldObject(q)' = OldObject(q)
BY DEF OldObject

LEMMA OwnKept ==
  ASSUME TypeInv, NEW p \in Paths, Visit(p), Replaces(p), SameFile(base[p], base'[p]),
         \/ guids' = guids
         \/ ShouldBeAdded(base[p]) /\ guids' = Register(base[p], p),
         NEW q \in Paths, Visited(q), Own(q)
  PROVE  Own(q)'
<1>1. base'[q] = base[q] /\ base[q] \in Fso /\ q # 0
  BY VisitedNow, BackupEngineAssumption DEF Visited, TypeInv, TypeOK, Paths
<1>2. ASSUME NEW g \in Guids, guids[g] = q PROVE guids'[g] = q
  BY <1>1, <1>2, RegisterIs DEF Replaces, ShouldBeAdded
<1> QED
  BY <1>1, <1>2 DEF Own, Fso

LEMMA HandedAt ==
  ASSUME TypeInv, Handed, NEW p \in Paths, Visit(p), Replaces(p),
         HasData(base'[p]) /\ base'[p].BackupStream # "Full" =>
           \E q \in Paths : /\ Visited(q)' /\ HasData(OldObject(q)) /\ OldObject(q).Hashes # None
                            /\ base'[p].StreamUniqueId = OldObject(q).StreamUniqueId
  PROVE  Handed'
<1>1. \A q \in Paths : OldObject(q)' = OldObject(q)
  BY VisitLeaves, OldObjectKept
<1>2. ASSUME NEW q \in Paths, Visited(q)', HasData(base'[q]), base'[q].BackupStream # "Full"
      PROVE  \E x \in Paths :
               /\ Visited(x)' /\ HasData(OldObject(x)) /\ OldObject(x).Hashes # None
               /\ base'[q].StreamUniqueId = OldObject(x).StreamUniqueId
  <2>1. CASE q = p
    BY <1>2, <2>1
  <2>2. CASE q # p
    <3>1. Visited(q) /\ base'[q] = base[q]
      BY <1>2, <2>2, VisitedNow
    <3>2. PICK x \in Paths : /\ Visited(x) /\ HasData(OldObject(x)) /\ OldObject(x).Hashes # None
                             /\ base[q].StreamUniqueId = OldObject(x).StreamUniqueId
      BY <1>2, <3>1 DEF Handed
    <3> QED
      BY <3>1, <3>2, VisitedNow
  <2> QED
    BY <2>1, <2>2
<1> QED
  BY <1>1, <1>2 DEF Handed

LEMMA ShareNowAt ==
  ASSUME ShareNow, NEW p \in Paths, Visit(p), Replaces(p),
         \A q \in Paths : Visited(q) /\ OneStreamFor(base'[p], base[q]) =>
           OneFile(base'[p], base[q])
  PROVE  ShareNow'
<1> SUFFICES ASSUME NEW q \in Paths, NEW x \in Paths, q # x, Visited(q)', Visited(x)',
                    OneStreamFor(base'[q], base'[x])
    PROVE  OneFile(base'[q], base'[x])
  BY DEF ShareNow, OneStreamFor, OneFile, HasData
<1>1. \A y \in {q, x} \ {p} : Visited(y) /\ base'[y] = base[y]
  BY VisitedNow
<1>2. OneStreamFor(base'[x], base'[q])
  BY DEF OneStreamFor
<1>3. OneFile(base'[x], base'[q]) => OneFile(base'[q], base'[x])
  BY DEF OneFile
<1>4. CASE q = p
  BY <1>1, <1>4
<1>5. CASE x = p
  BY <1>1, <1>2, <1>3, <1>5
<1>6. CASE q # p /\ x # p
  BY <1>1, <1>6 DEF ShareNow
<1> QED
  BY <1>4, <1>5, <1>6

LEMMA OwnHashesAt ==
  ASSUME TypeInv, OwnHashes, NEW p \in Paths, Visit(p), Replaces(p), SameFile(base[p], base'[p]),
         \/ guids' = guids
         \/ ShouldBeAdded(base[p]) /\ guids' = Register(base[p], p),
         base'[p].Hashes # None => Own(p)'
  PROVE  OwnHashes'
<1> SUFFICES ASSUME NEW q \in Paths, Visited(q)', base'[q].Hashes # None PROVE Own(q)'
  BY DEF OwnHashes
<1>1. CASE q = p
  BY <1>1
<1>2. CASE q # p
  <2>1. Visited(q) /\ base'[q] = base[q]
    BY <1>2, VisitedNow
  <2> QED
    BY <2>1, OwnKept DEF OwnHashes
<1> QED
  BY <1>1, <1>2

\* An object that registers its identity owns it.
LEMMA OwnNow ==
  ASSUME TypeInv, NEW p \in Paths, base[p] \in Fso, guids' = Register(base[p], p),
         base'[p].FileSystemGuid = base[p].FileSystemGuid
  PROVE  Own(p)'
BY DEF Own, Register, TypeInv, TypeOK, Fso

LEMMA OwnStreamsKept ==
  ASSUME TypeInv, VisitInv, OwnStreams, UNCHANGED streams, NEW p \in Paths, Visit(p),
         Replaces(p), SameFile(base[p], base'[p]),
         \/ guids' = guids
         \/ ShouldBeAdded(base[p]) /\ guids' = Register(base[p], p)
  PROVE  OwnStreams'
<1> SUFFICES ASSUME NEW i \in DOMAIN streams PROVE Own(streams[i].fso)'
  BY DEF OwnStreams, Own
<1>1. streams[i].fso \in Paths /\ Visited(streams[i].fso) /\ Own(streams[i].fso)
  BY StreamOf DEF VisitInv, StreamsOfFiles, IsStreamOf, OwnStreams
<1> QED
  BY <1>1, OwnKept DEF Own

LEMMA ShareSkip ==
  ASSUME TypeInv, VisitInv, VisitOrder, LinksAgree, NoHashYet, Handed, ShareNow, OwnStreams,
         OwnHashes, NEW p \in Paths, SkipObject(p)
  PROVE  Handed' /\ ShareNow' /\ OwnStreams' /\ OwnHashes'
<1>1. /\ Visit(p) /\ Replaces(p) /\ SameFile(base[p], base'[p]) /\ UNCHANGED <<guids, streams>>
      /\ base'[p].Hashes = base[p].Hashes
  BY SkipIs
<1>2. base[p] \in Fso /\ base[p] # None /\ p \in todo /\ pc = "archive"
  BY <1>1, VisitLeaves DEF Replaces
<1>3. base'[p].Hashes = None
  BY <1>1, <1>2 DEF NoHashYet, Visited, Busy
<1>4. OwnStreams' /\ OwnHashes'
  BY <1>1, <1>3, OwnStreamsKept, OwnHashesAt
<1>5. CASE Shares(base[p])
  <2> DEFINE x == guids[base[p].FileSystemGuid]
  <2>1. /\ x \in Paths /\ x < p /\ Visited(x) /\ Eligible(base[x])
        /\ base[x] # None /\ base[x].FileSystemGuid = base[p].FileSystemGuid
    BY <1>2, <1>5, OwnerIs DEF Shares
  <2>2. /\ base'[p].LatestVersion = base[x].LatestVersion
        /\ base'[p].StreamUniqueId = base[x].StreamUniqueId
        /\ base'[p].BackupStream = IF base[x].BackupStream = "Full" THEN "Full" ELSE "Unmodified"
    BY <1>5, SkipIs DEF OwnerOf
  <2>3. base[p].FileSystemGuid # None /\ base'[p].Type = "FileHardlink"
        /\ base'[p].FileSystemGuid = base[p].FileSystemGuid
    BY <1>1, <1>5 DEF Shares, HasKnownGuid, SameFile
  <2> HIDE DEF x
  <2>4. x # p
    BY <2>1, BackupEngineAssumption DEF Paths
  <2>5. HasData(base'[p]) => HasData(base[x])
    BY <2>1, <2>2 DEF HasData, Eligible
  <2>6. OneFile(base'[p], base[x])
    BY <1>2, <2>1, <2>3, <2>4 DEF LinksAgree, OneFile
  <2>7. ASSUME NEW q \in Paths, Visited(q), OneStreamFor(base'[p], base[q])
        PROVE  OneFile(base'[p], base[q])
    <3>1. CASE q = x
      BY <2>6, <3>1
    <3>2. CASE q # x
      <4>1. OneStreamFor(base[x], base[q])
        BY <2>2, <2>5, <2>7 DEF OneStreamFor
      <4>2. OneFile(base[x], base[q])
        BY <2>1, <2>7, <3>2, <4>1 DEF ShareNow
      <4> QED
        BY <2>6, <4>2 DEF OneFile
    <3> QED
      BY <3>1, <3>2
  <2>8. ShareNow'
    BY <1>1, <2>7, ShareNowAt
  <2>9. ASSUME HasData(base'[p]), base'[p].BackupStream # "Full"
        PROVE  \E q \in Paths :
                 /\ Visited(q)' /\ HasData(OldObject(q)) /\ OldObject(q).Hashes # None
                 /\ base'[p].StreamUniqueId = OldObject(q).StreamUniqueId
    <3>1. PICK q \in Paths : /\ Visited(q) /\ HasData(OldObject(q)) /\ OldObject(q).Hashes # None
                             /\ base[x].StreamUniqueId = OldObject(q).StreamUniqueId
      BY <2>1, <2>2, <2>5, <2>9 DEF Handed
    <3> QED
      BY <1>1, <2>2, <3>1, VisitedNow
  <2>10. Handed'
    BY <1>1, <2>9, HandedAt
  <2> QED
    BY <1>4, <2>8, <2>10
<1>6. CASE ~Shares(base[p])
  <2>1. ~HasData(base'[p])
    BY <1>6, SkippedEmpty DEF HasData
  <2>2. Handed'
    BY <1>1, <2>1, HandedAt
  <2>3. ShareNow'
    BY <1>1, <2>1, ShareNowAt DEF OneStreamFor
  <2> QED
    BY <1>4, <2>2, <2>3
<1> QED
  BY <1>5, <1>6

LEMMA ShareAdd ==
  ASSUME TypeInv, IdInv, VisitInv, OldLoaded, AllPlaced, ArcIds, Handed, ShareNow, OwnStreams,
         OwnHashes, NEW p \in Paths, AddInitialStream(p) \/ AddChangedFile(p)
  PROVE  Handed' /\ ShareNow' /\ OwnStreams' /\ OwnHashes'
<1>1. Visit(p) /\ ShouldBeAdded(base[p])
  BY AddStreamIs
<1>2. /\ Replaces(p) /\ SameFile(base[p], base'[p])
      /\ base'[p].StreamUniqueId = nextId /\ base'[p].BackupStream = "Full"
      /\ guids' = Register(base[p], p)
      /\ streams' = Append(streams, [UniqueId |-> nextId, fso |-> p])
  BY AddStreamIs, AddIs
<1>3. Own(p)'
  BY <1>2, OwnNow DEF Replaces, SameFile
<1>4. OwnHashes' /\ Handed'
  BY <1>1, <1>2, <1>3, OwnHashesAt, HandedAt
<1>5. ASSUME NEW q \in Paths, Visited(q), OneStreamFor(base'[p], base[q])
      PROVE  FALSE
  <2>1. base[q].StreamUniqueId < nextId /\ base[q].StreamUniqueId = nextId
    BY <1>2, <1>5, VisitedIds DEF OneStreamFor
  <2>2. nextId \in Nat
    BY DEF TypeInv, TypeOK
  <2> QED
    BY <2>1, <2>2
<1>6. ShareNow'
  BY <1>1, <1>2, <1>5, ShareNowAt
<1>7. OwnStreams'
  <2>1. /\ DOMAIN streams' = 1..(Len(streams) + 1) /\ DOMAIN streams = 1..Len(streams)
        /\ Len(streams) \in Nat
        /\ \A i \in DOMAIN streams : streams'[i] = streams[i]
        /\ streams'[Len(streams) + 1] = [UniqueId |-> nextId, fso |-> p]
    BY <1>2, AppendedStreams
  <2> SUFFICES ASSUME NEW i \in DOMAIN streams' PROVE Own(streams[i].fso)'
    BY DEF OwnStreams
  <2>2. CASE i \in DOMAIN streams
    <3>1. streams[i].fso \in Paths /\ Visited(streams[i].fso) /\ Own(streams[i].fso)
      BY <2>2, StreamOf DEF VisitInv, StreamsOfFiles, IsStreamOf, OwnStreams
    <3> DEFINE q == streams[i].fso
    <3>2. Own(q)' <=> (base'[q].FileSystemGuid # None => guids'[base'[q].FileSystemGuid] = q)
      BY <2>1, <2>2 DEF Own
    <3>3. streams'[i].fso = q
      BY <2>1, <2>2
    <3> HIDE DEF q
    <3>4. Visited(q) /\ Own(q) /\ q \in Paths
      BY <3>1 DEF q
    <3>5. base'[q].FileSystemGuid # None => guids'[base'[q].FileSystemGuid] = q
      BY <1>1, <1>2, <3>4, OwnKept DEF Own
    <3> QED
      BY <3>3, <3>5 DEF Own
  <2>3. CASE i \notin DOMAIN streams
    <3>1. streams'[i].fso = p
      BY <2>1, <2>3
    <3> QED
      BY <1>3, <3>1 DEF Own
  <2> QED
    BY <2>2, <2>3
<1> QED
  BY <1>4, <1>6, <1>7

LEMMA ShareKeep ==
  ASSUME TypeInv, IdInv, VisitInv, VisitOrder, OldLoaded, FullAgain, RefsArc, AllPlaced, ByHash,
         ArcShare, ArcIds, Handed, ShareNow, OwnStreams, OwnHashes,
         NEW p \in Paths, KeepUnmodified(p)
  PROVE  Handed' /\ ShareNow' /\ OwnStreams' /\ OwnHashes'
<1> DEFINE o == OldObject(p)
<1>1. /\ Visit(p) /\ Replaces(p) /\ SameFile(base[p], base'[p]) /\ ShouldBeAdded(base[p])
      /\ o # None /\ o \in StoredFso /\ base'[p].LatestVersion = o.LatestVersion
      /\ base'[p].StreamUniqueId = base[p].StreamUniqueId
      /\ ~FileHasChanged(base[p], o, HashFor(p))
      /\ guids' = Register(base[p], p) /\ UNCHANGED streams
  BY KeepIs
<1>2. pc = "archive" /\ p \in todo /\ ~Visited(p)
  BY <1>1, VisitLeaves DEF Visited
<1>3. base'[p].StreamUniqueId = o.StreamUniqueId
  BY <1>1, <1>2 DEF VisitOrder, IdsHanded
<1>4. o.Hashes # None
  BY <1>1 DEF FileHasChanged, Criterium, ByHash
<1>5. /\ count - 1 \in Stored /\ o = arc[count - 1].BaseObjects[p]
  BY <1>1, <1>2, OldObjectIs DEF Busy
<1>6. HasData(base'[p]) => HasData(o)
  BY <1>1, <1>5 DEF RefsArc, Resolved, HasData
<1>7. Own(p)'
  BY <1>1, OwnNow DEF Replaces, SameFile
<1>8. OwnHashes' /\ OwnStreams'
  BY <1>1, <1>7, OwnHashesAt, OwnStreamsKept
<1>9. Handed'
  <2>1. Visited(p)'
    BY <1>1, VisitedNow
  <2> QED
    BY <1>1, <1>3, <1>4, <1>6, <2>1, HandedAt
<1>10. ASSUME NEW q \in Paths, Visited(q), OneStreamFor(base'[p], base[q])
       PROVE  FALSE
  <2>1. /\ HasData(o) /\ HasData(base[q]) /\ base[q].StreamUniqueId = o.StreamUniqueId
    BY <1>3, <1>6, <1>10 DEF OneStreamFor
  <2>2. o.StreamUniqueId < firstId /\ o.StreamUniqueId \in Nat /\ firstId \in Nat
    BY <1>1, <1>2, <2>1, OldIds DEF StoredFso, TypeInv, TypeOK
  <2>3. base[q].BackupStream # "Full"
    BY <1>10, <2>1, <2>2, VisitedIds
  <2>4. PICK x \in Paths : /\ Visited(x) /\ HasData(OldObject(x)) /\ OldObject(x).Hashes # None
                           /\ base[q].StreamUniqueId = OldObject(x).StreamUniqueId
    BY <1>10, <2>1, <2>3 DEF Handed
  <2>5. OldObject(x) = arc[count - 1].BaseObjects[x]
    BY <1>2, <2>4, OldObjectIs DEF Busy, HasData
  <2>6. OneStreamFor(arc[count - 1].BaseObjects[p], arc[count - 1].BaseObjects[x])
    BY <1>5, <2>1, <2>4, <2>5 DEF OneStreamFor
  <2>7. o.Hashes = None \/ OldObject(x).Hashes = None
    BY <1>2, <1>5, <2>4, <2>5, <2>6 DEF ArcShare
  <2> QED
    BY <1>4, <2>4, <2>7
<1>11. ShareNow'
  BY <1>1, <1>10, ShareNowAt
<1> QED
  BY <1>8, <1>9, <1>11

LEMMA ShareWrite ==
  ASSUME TypeInv, Handed, ShareNow, OwnStreams, OwnHashes, WriteStream
  PROVE  Handed' /\ ShareNow' /\ OwnStreams' /\ OwnHashes'
<1>1. PICK p \in Paths :
        /\ Len(out) < Len(streams) /\ p = streams[Len(out) + 1].fso
        /\ Replaces(p) /\ SameFile(base[p], base'[p])
        /\ base'[p].LatestVersion = base[p].LatestVersion
        /\ base'[p].StreamUniqueId = base[p].StreamUniqueId
        /\ base'[p].BackupStream = base[p].BackupStream
        /\ UNCHANGED <<pc, count, main, old, oldMain, todo, guids, streams>>
  BY WriteIs
<1>2. Own(p)
  <2>1. Len(out) + 1 \in DOMAIN streams
    BY <1>1 DEF TypeInv, TypeOK
  <2> QED
    BY <1>1, <2>1 DEF OwnStreams
<1>3. \A q \in Paths :
        /\ Visited(q)' <=> Visited(q)
        /\ base[q] # None => SameFile(base[q], base'[q])
        /\ base'[q].LatestVersion = base[q].LatestVersion
        /\ base'[q].StreamUniqueId = base[q].StreamUniqueId
        /\ base'[q].BackupStream = base[q].BackupStream
        /\ q # p => base'[q] = base[q]
  BY <1>1 DEF Replaces, SameFile, Visited
<1>4. \A q \in Paths : /\ OldObject(q)' = OldObject(q)
                       /\ Visited(q) => (HasData(base'[q]) <=> HasData(base[q]))
                       /\ Visited(q) => (Own(q)' <=> Own(q))
  BY <1>1, <1>3, OldObjectKept DEF HasData, Own, SameFile, Replaces, Visited
<1>5. Handed'
  BY <1>3, <1>4 DEF Handed
<1>6. ShareNow'
  BY <1>3, <1>4 DEF ShareNow, OneStreamFor, OneFile, SameFile, Visited
<1>7. OwnHashes'
  BY <1>2, <1>3, <1>4 DEF OwnHashes
<1>8. OwnStreams'
  <2> SUFFICES ASSUME NEW i \in DOMAIN streams PROVE Own(streams[i].fso)'
    BY <1>1 DEF OwnStreams
  <2>1. streams[i].fso \in Paths /\ Own(streams[i].fso)
    BY StreamOf DEF OwnStreams
  <2>2. \A q \in Paths : base'[q].FileSystemGuid = base[q].FileSystemGuid
    BY <1>1 DEF Replaces, SameFile
  <2> QED
    BY <1>1, <2>1, <2>2 DEF Own
<1> QED
  BY <1>5, <1>6, <1>7, <1>8

\* Nothing is visited outside the visit, and no step but those of the visit
\* changes what was.
LEMMA ShareIdle ==
  ASSUME Phases', StreamsInOrder', \A p \in Paths : ~Visited(p)'
  PROVE  Handed' /\ ShareNow' /\ OwnHashes' /\ (pc' # "archive" => OwnStreams')
BY DEF Phases, StreamsInOrder, Handed, ShareNow, OwnStreams, OwnHashes

LEMMA SharePrepare ==
  ASSUME TypeInv, Phases, IdInv, PrepareStreams
  PROVE  Handed' /\ ShareNow' /\ OwnStreams' /\ OwnHashes'
<1>1. /\ pc = "scan" /\ UNCHANGED streams
      /\ todo' = {p \in Paths : base[p] # None}
  BY DEF PrepareStreams, pending
<1>2. \A p \in Paths : ~Visited(p)'
  BY <1>1, PrepareIs DEF Visited
<1>3. streams = <<>>
  BY <1>1 DEF IdInv, StreamsInOrder
<1>4. DOMAIN streams' = {}
  BY <1>1, <1>3
<1> QED
  BY <1>2, <1>4 DEF Handed, ShareNow, OwnStreams, OwnHashes

\* Every stored object comes from the visit.
LEMMA ArcShareCommit ==
  ASSUME TypeInv, IdInv, OldLoaded, AllPlaced, ArcShare, ArcIds, Handed, ShareNow, OwnHashes,
         CommitArchive
  PROVE  ArcShare' /\ ArcIds'
<1>1. /\ pc = "archive" /\ todo = {}
      /\ \A v \in Stored' : /\ v # count => v \in Stored /\ arc'[v] = arc[v]
                            /\ v = count => arc'[v] = NewArchive
  BY CommitIs
<1>2. \A p \in Paths : HasData(base[p]) => Visited(p)
  BY <1>1 DEF HasData, Visited
<1>3. ASSUME NEW v \in Stored', v # count
      PROVE  /\ \A p, q \in Paths :
                  LET o == arc'[v].BaseObjects
                  IN  p # q /\ OneStreamFor(o[p], o[q]) =>
                        OneFile(o[p], o[q]) /\ (o[p].Hashes = None \/ o[q].Hashes = None)
             /\ \A p \in Paths :
                  LET o == arc'[v].BaseObjects[p]
                  IN  HasData(o) => o.StreamUniqueId < arc'[v].NextStreamUniqueId
  BY <1>1, <1>3 DEF ArcShare, ArcIds
<1> DEFINE o == NewArchive.BaseObjects
<1>4. ASSUME NEW p \in Paths, HasData(o[p])
      PROVE  /\ Visited(p) /\ HasData(base[p]) /\ base[p] # None
             /\ o[p].Type = base[p].Type /\ o[p].StreamUniqueId = base[p].StreamUniqueId
             /\ o[p].Hashes = base[p].Hashes /\ o[p].FileSystemGuid = base[p].FileSystemGuid
  BY <1>2, <1>4, NewObject DEF HasData
<1>5. ASSUME NEW p \in Paths, NEW q \in Paths, p # q, OneStreamFor(o[p], o[q])
      PROVE  OneFile(o[p], o[q]) /\ (o[p].Hashes = None \/ o[q].Hashes = None)
  <2>1. /\ Visited(p) /\ Visited(q) /\ OneStreamFor(base[p], base[q])
    BY <1>4, <1>5 DEF OneStreamFor
  <2>2. OneFile(base[p], base[q])
    BY <1>5, <2>1 DEF ShareNow
  <2>3. OneFile(o[p], o[q])
    BY <1>4, <1>5, <2>2 DEF OneFile, OneStreamFor
  <2>4. base[p].Hashes = None \/ base[q].Hashes = None
    BY <1>5, <2>1, <2>2 DEF OwnHashes, Own, OneFile
  <2> QED
    BY <1>4, <1>5, <2>3, <2>4 DEF OneStreamFor
<1>6. ASSUME NEW p \in Paths, HasData(o[p])
      PROVE  o[p].StreamUniqueId < NewArchive.NextStreamUniqueId
  <2>1. base[p].StreamUniqueId < nextId
    BY <1>4, <1>6, VisitedIds
  <2> QED
    BY <1>4, <1>6, <2>1 DEF NewArchive
<1> HIDE DEF o
<1>7. ASSUME NEW v \in Stored', v = count
      PROVE  arc'[v].BaseObjects = o
             /\ arc'[v].NextStreamUniqueId = NewArchive.NextStreamUniqueId
  BY <1>1, <1>7 DEF o
<1>8. ArcShare'
  BY <1>3, <1>5, <1>7 DEF ArcShare, OneStreamFor, OneFile, HasData
<1>9. ArcIds'
  BY <1>3, <1>6, <1>7 DEF ArcIds, HasData
<1> QED
  BY <1>8, <1>9

LEMMA ArcShareNext ==
  ASSUME TypeInv, IdInv, OldLoaded, AllPlaced, ArcShare, ArcIds, Handed, ShareNow, OwnHashes,
         [Next]_vars
  PROVE  ArcShare' /\ ArcIds'
<1>1. ASSUME \A w \in Stored' : w \in Stored /\ arc'[w] = arc[w]
      PROVE  ArcShare' /\ ArcIds'
  BY <1>1 DEF ArcShare, ArcIds, OneStreamFor, OneFile, HasData
<1>2. CASE UNCHANGED <<arc, truth>>
  BY <1>1, <1>2 DEF Stored
<1>3. ASSUME NEW v \in Versions, RemoveVersion(v) PROVE ArcShare' /\ ArcIds'
  BY <1>1, <1>3, RemoveLeaves
<1> QED
  BY <1>2, <1>3, StoredChanges, ArcShareCommit

LEMMA ShareInvInit == Init => ShareInv
BY DEF Init, ShareInv, ByHash, ArcShare, ArcIds, Handed, ShareNow, OwnStreams, OwnHashes,
       NoObjects, Visited, Stored

LEMMA ShareInvNext ==
  ASSUME ~ConcurrentEdits, MaxSessionBackups = 1, Criteria \subseteq {"Hash"}
  PROVE  DataInv /\ NumberFree /\ RefInv /\ HashInv /\ ShareInv /\ [Next]_vars => ShareInv'
<1> SUFFICES ASSUME DataInv, NumberFree, RefInv, HashInv, ShareInv, [Next]_vars
    PROVE  ShareInv'
  OBVIOUS
<1>1. /\ TypeInv /\ IdInv /\ Phases /\ VisitInv /\ OldLoaded /\ LinksAgree /\ VisitOrder
      /\ FullAgain /\ AllPlaced /\ RefsArc /\ NoHashYet
  BY DEF DataInv, SessionInv, RefInv, HashInv
<1>2. /\ ByHash /\ ArcShare /\ ArcIds /\ Handed /\ ShareNow /\ OwnStreams /\ OwnHashes
  BY DEF ShareInv
<1>3. Phases' /\ StreamsInOrder'
  BY <1>1, PhasesNext, IdInvNext DEF IdInv
<1>4. ByHash' /\ ArcShare' /\ ArcIds'
  BY <1>1, <1>2, ByHashNext, ArcShareNext
<1>5. Handed' /\ ShareNow' /\ OwnStreams' /\ OwnHashes'
  <2>1. CASE pc' # "archive"
    BY <1>3, <2>1, ShareIdle DEF Visited
  <2>2. CASE PrepareStreams
    BY <1>1, <2>2, SharePrepare
  <2>3. CASE \E p \in Paths : SkipObject(p) \/ AddInitialStream(p)
                              \/ AddChangedFile(p) \/ KeepUnmodified(p)
    BY <1>1, <1>2, <2>3, ShareSkip, ShareAdd, ShareKeep
  <2>4. CASE WriteStream
    BY <1>1, <1>2, <2>4, ShareWrite
  <2>5. CASE Environment
    <3>1. CASE \E v \in Versions : RemoveVersion(v)
      BY <1>1, <2>1, <3>1, RemoveLeaves
    <3>2. CASE \A v \in Versions : ~RemoveVersion(v)
      <4>1. pc' = pc /\ pc # "archive"
        BY <2>5, <3>2, EditIs, EditLeaves DEF Busy
      <4> QED
        BY <2>1, <4>1
    <3> QED
      BY <3>1, <3>2
  <2>6. CASE UNCHANGED vars
    <3>1. UNCHANGED <<base, pc, todo, guids, streams, count, main, old, oldMain>>
      BY <2>6 DEF vars, settings, objects, oldTree, pending
    <3> QED
      BY <1>2, <3>1 DEF Handed, ShareNow, OwnStreams, OwnHashes, Own, Visited, OldObject
  <2> QED
    BY <2>1, <2>2, <2>3, <2>4, <2>5, <2>6
       DEF Next, Backup, Open, EndSession, BeginBackup, ListSource, ReuseBaseObjects, ScanEntry,
           RecalculateFileGuid, CommitArchive
<1> QED
  BY <1>4, <1>5 DEF ShareInv

-----------------------------------------------------------------------------
(***************************************************************************)
(* What was there when it was scanned.                                     *)
(***************************************************************************)
\* A main object that stands for the source itself was reached.
Attained(m) == m # None /\ m.UnmappedBasePath = Live => m.Type = "Directory"
MainsAttained == Attained(main) /\ \A v \in Stored : Attained(arc[v].main)

\* While the source rests no path vanishes between the listing and its visit.
NoJunction(o) == o # None => o.Type # "Junction"
NoJunctions ==
  /\ pc = "scan" => \A p \in todo : Found(p) # None
  /\ \A p \in Paths : NoJunction(base[p])
  /\ \A v \in Stored : \A p \in Paths : NoJunction(arc[v].BaseObjects[p])

ReachInv == MainsAttained /\ NoJunctions

LEMMA ReachInvInit == Init => ReachInv
BY DEF Init, ReachInv, MainsAttained, Attained, NoJunctions, NoJunction, NoObjects, Stored

LEMMA ListedIs ==
  ASSUME ListSource
  PROVE  /\ UNCHANGED <<arc, shadow, live, base>> /\ pc' = "scan"
         /\ Attained(main)' /\ \A p \in todo' : Found(p)' # None
<1>1. /\ UNCHANGED <<arc, shadow, live, base, count, oldMain>> /\ pc' = "scan"
      /\ main'.MappedBasePath = SourceLocation
      /\ main'.UnmappedBasePath = CurrentSourceLocation
      /\ main'.Type = IF Reachable(SourceLocation) THEN "Directory" ELSE "Junction"
      /\ todo' = {p \in Paths : EntryAt(SourceLocation, p) # None}
  BY DEF ListSource, disk, store, settings, oldTree
<1>2. CurrentSourceLocation = Live => Reachable(SourceLocation)
  BY DEF SourceLocation, MapPathForward, Reachable
<1>3. \A p \in todo' : Found(p)' # None
  BY <1>1 DEF Found, EntryAt, Reachable
<1> QED
  BY <1>1, <1>2, <1>3 DEF Attained

LEMMA MainKept ==
  ASSUME [Next]_vars
  PROVE  UNCHANGED main \/ main' = None \/ ListSource
<1>1. CASE \E p \in Paths : SkipObject(p) \/ AddInitialStream(p)
                            \/ AddChangedFile(p) \/ KeepUnmodified(p)
  BY <1>1 DEF SkipObject, AddInitialStream, AddChangedFile, KeepUnmodified, Visit
<1>2. CASE Environment
  BY <1>2 DEF Environment, Edit, WriteFile, CreateFile, LinkFile, RenameFile, DeletePath,
              MakeDirectory, ClearArchiveFlag, RemoveVersion, objects
<1> QED
  BY <1>1, <1>2
     DEF Next, Backup, vars, objects, Open, EndSession, BeginBackup, ListSource,
         ReuseBaseObjects, ScanEntry, RecalculateFileGuid, PrepareStreams, WriteStream,
         CommitArchive

LEMMA MainsAttainedNext ==
  ASSUME TypeInv, MainsAttained, [Next]_vars
  PROVE  MainsAttained'
<1>1. Attained(main)'
  BY MainKept, ListedIs DEF MainsAttained, Attained
<1>2. ASSUME NEW v \in Stored' PROVE Attained(arc[v].main)'
  <2>1. CASE v \in Stored /\ arc'[v] = arc[v]
    BY <2>1 DEF MainsAttained, Attained
  <2>2. CASE CommitArchive
    <3>1. v # count => v \in Stored /\ arc'[v] = arc[v]
      BY <2>2, CommitIs
    <3>2. v = count => arc'[v] = NewArchive
      BY <2>2, CommitIs
    <3>3. NewArchive.main = main
      BY DEF NewArchive
    <3> QED
      BY <2>1, <3>1, <3>2, <3>3 DEF MainsAttained, Attained
  <2>3. CASE \E w \in Versions : RemoveVersion(w)
    BY <2>1, <2>3, RemoveLeaves
  <2> QED
    BY <2>1, <2>2, <2>3, StoredChanges DEF Stored
<1> QED
  BY <1>1, <1>2 DEF MainsAttained

\* The scan makes a junction only of what is not there any more.
LEMMA BaseJunctions ==
  ASSUME TypeInv, Phases, NoJunctions, [Next]_vars, NEW q \in Paths
  PROVE  NoJunction(base'[q])
<1>1. CASE SameObjects
  BY <1>1 DEF SameObjects, NoJunctions, NoJunction
<1>2. ASSUME NEW p \in Paths, ScanEntry(p) PROVE NoJunction(base'[q])
  <2>1. PICK g \in Guids \cup {None} :
          base' = [base EXCEPT ![p] = FsoFor(p, Found(p), g)] /\ p \in todo
    BY <1>2, ScanIs
  <2>2. Found(p) # None
    BY <1>2, <2>1 DEF ScanEntry, NoJunctions
  <2>3. FsoFor(p, Found(p), g).Type # "Junction"
    BY <2>2 DEF FsoFor
  <2>4. base'[q] = IF q = p THEN FsoFor(p, Found(p), g) ELSE base[q]
    BY <2>1 DEF TypeInv, TypeOK
  <2> QED
    BY <2>3, <2>4 DEF NoJunctions, NoJunction
<1>3. ASSUME NEW p \in Paths, RecalculateFileGuid(p) PROVE NoJunction(base'[q])
  <2>1. Replaces(p) /\ base'[p].Type = base[p].Type
    BY <1>3, RecalculateIs DEF Replaces, Fso
  <2> QED
    BY <2>1 DEF Replaces, NoJunctions, NoJunction
<1> QED
  BY <1>1, <1>2, <1>3, ObjectsChange

LEMMA ListingHolds ==
  ASSUME ~ConcurrentEdits, TypeInv, Phases, NoJunctions, [Next]_vars, pc' = "scan"
  PROVE  \A p \in todo' : Found(p)' # None
<1>1. CASE ListSource
  BY <1>1, ListedIs
<1>2. CASE ReuseBaseObjects
  BY <1>2 DEF ReuseBaseObjects, Phases
<1>3. CASE pc = "scan" /\ UNCHANGED <<live, shadow, main>> /\ todo' \subseteq todo
  <2>1. todo \subseteq Paths
    BY DEF TypeInv, TypeOK
  <2> QED
    BY <1>3, <2>1, FoundKept DEF NoJunctions
<1>4. CASE \E p \in Paths : ScanEntry(p) \/ RecalculateFileGuid(p)
  BY <1>3, <1>4 DEF ScanEntry, RecalculateFileGuid, disk
<1>5. CASE \E p \in Paths : SkipObject(p) \/ AddInitialStream(p)
                            \/ AddChangedFile(p) \/ KeepUnmodified(p)
  BY <1>5, VisitLeaves DEF SkipObject, AddInitialStream, AddChangedFile, KeepUnmodified
<1>6. CASE Environment
  BY <1>6, EditIs, EditLeaves, RemoveLeaves DEF Busy
<1>7. CASE UNCHANGED vars
  BY <1>3, <1>7 DEF vars, disk, objects
<1> QED
  BY <1>1, <1>2, <1>4, <1>5, <1>6, <1>7
     DEF Next, Backup, Open, EndSession, BeginBackup, PrepareStreams, WriteStream, CommitArchive

LEMMA ReachInvNext ==
  ASSUME ~ConcurrentEdits
  PROVE  DataInv /\ ReachInv /\ [Next]_vars => ReachInv'
<1> SUFFICES ASSUME DataInv, ReachInv, [Next]_vars PROVE ReachInv'
  OBVIOUS
<1>1. TypeInv /\ Phases /\ MainsAttained /\ NoJunctions
  BY DEF DataInv, SessionInv, ReachInv
<1>2. ASSUME NEW v \in Stored', NEW p \in Paths PROVE NoJunction(arc'[v].BaseObjects[p])
  <2>1. CASE v \in Stored /\ arc'[v] = arc[v]
    BY <1>1, <2>1 DEF NoJunctions
  <2>2. CASE CommitArchive
    <3>1. v # count => v \in Stored /\ arc'[v] = arc[v]
      BY <1>1, <2>2, CommitIs
    <3>2. v = count => arc'[v] = NewArchive
      BY <1>1, <2>2, CommitIs
    <3>3. NoJunction(NewArchive.BaseObjects[p])
      BY <1>1, NewObject DEF NoJunctions, NoJunction
    <3> QED
      BY <2>1, <3>1, <3>2, <3>3
  <2>3. CASE \E w \in Versions : RemoveVersion(w)
    BY <1>1, <2>1, <2>3, RemoveLeaves
  <2> QED
    BY <2>1, <2>2, <2>3, StoredChanges DEF Stored
<1>3. NoJunctions'
  BY <1>1, <1>2, BaseJunctions, ListingHolds DEF NoJunctions
<1> QED
  BY <1>1, <1>3, MainsAttainedNext DEF ReachInv

-----------------------------------------------------------------------------
\* The source changes between two backups in a way no edit would, as it does
\* when a restore writes it.
Replaced ==
  /\ pc = "open" /\ live' \in [Paths -> Guids \cup {None, Dir}] /\ inode' \in [Guids -> Inode]
  /\ UNCHANGED <<edits, store, pc, settings, backups, shadow, objects, oldTree, todo, retry,
                 ids, pending, seen>>

LEMMA DataInvReplaced == DataInv /\ Replaced => DataInv'
<1> SUFFICES ASSUME DataInv, Replaced PROVE DataInv'
  OBVIOUS
<1>1. /\ pc = "open" /\ live' \in [Paths -> Guids \cup {None, Dir}]
      /\ inode' \in [Guids -> Inode]
      /\ UNCHANGED <<edits, arc, truth, pc, known, count, useSnapshots, crit, excluded, backups,
                     shadow, baseSet, main, base, old, oldMain, todo, retry, nextId, firstId,
                     guids, streams, out, seen>>
  BY DEF Replaced, store, settings, objects, oldTree, ids, pending
<1>2. TypeInv'
  BY <1>1 DEF DataInv, TypeInv, TypeOK, WellFormed, Stored, Busy
<1>3. IdInv'
  BY <1>1, IdInvFrame DEF DataInv
<1>4. SessionInv'
  BY <1>1 DEF DataInv, SessionInv, Phases, ExclusionsKept, Shadowed, SeenAll, Busy
<1>5. VisitInv'
  BY <1>1, <1>3, <1>4, VisitIdle
     DEF SessionInv, Phases, StreamsInOrder, IdInv, VisitInv, GuidsVisited, StreamsOfFiles,
         OutSeen, ExcludedShare, Visited
<1> QED
  BY <1>2, <1>3, <1>4, <1>5 DEF DataInv

LEMMA RefInvReplaced == DataInv /\ RefInv /\ Replaced => RefInv'
<1> SUFFICES ASSUME DataInv, RefInv, Replaced PROVE RefInv'
  OBVIOUS
<1>1. /\ pc = "open"
      /\ UNCHANGED <<arc, pc, known, count, crit, baseSet, main, base, old, oldMain, todo, guids>>
  BY DEF Replaced, store, settings, objects, oldTree, pending
<1>2. OldLoaded' /\ StillBusy' /\ ScanInv' /\ LinksAgree'
  BY <1>1 DEF RefInv, OldLoaded, StillBusy, ScanInv, LinksAgree, Busy
<1>3. VisitOrder' /\ AllPlaced'
  BY <1>1 DEF VisitOrder, Ascending, Registered, IdsHanded, AllPlaced, Visited
<1>4. \A q \in Paths : OldObject(q)' = OldObject(q)
  BY <1>1, OldKept
<1>5. FullAgain'
  <2> SUFFICES ASSUME NEW p \in Paths, base[p] # None, base[p].BackupStream = "Full"
      PROVE  GetsStream(p)'
    BY <1>1 DEF FullAgain
  <2>1. GetsStream(p) /\ \A q \in Paths : base[q] # None => SameFile(base[q], base'[q])
    BY <1>1 DEF RefInv, FullAgain, SameFile
  <2> QED
    BY <1>1, <1>4, <2>1, ReasonKept
<1>6. RefsArc'
  BY <1>1, RefsKept DEF RefInv, Stored
<1> QED
  BY <1>2, <1>3, <1>5, <1>6 DEF RefInv

LEMMA HashInvReplaced ==
  /\ DataInv /\ HashInv /\ HashMatchesData /\ Replaced => HashInv' /\ HashMatchesData'
  /\ NumberFree /\ Replaced => NumberFree'
<1> SUFFICES ASSUME Replaced
    PROVE  /\ DataInv /\ HashInv /\ HashMatchesData => HashInv' /\ HashMatchesData'
           /\ NumberFree => NumberFree'
  OBVIOUS
<1>1. pc = "open" /\ UNCHANGED <<arc, truth, pc, count, backups, baseSet, base, todo, out>>
  BY DEF Replaced, store, settings, objects, pending
<1>2. NumberFree => NumberFree'
  BY <1>1, NumberFreeFrame
<1>3. ASSUME DataInv, HashInv, HashMatchesData PROVE HashInv' /\ HashMatchesData'
  <2>1. FirstScan' /\ NoHashYet' /\ HashesRight'
    BY <1>1, <1>3 DEF HashInv, FirstScan, NoHashYet, HashesRight, Visited, Busy
  <2>2. OutNow'
    <3>1. out = <<>>
      BY <1>1, <1>3 DEF DataInv, IdInv, StreamsInOrder
    <3> QED
      BY <1>1, <3>1 DEF OutNow
  <2>3. HashMatchesData'
    BY <1>1, <1>3, HashAfterRemoval DEF Stored
  <2> QED
    BY <2>1, <2>2, <2>3 DEF HashInv
<1> QED
  BY <1>2, <1>3

LEMMA ShareInvReplaced == DataInv /\ ShareInv /\ Replaced => ShareInv'
<1> SUFFICES ASSUME DataInv, ShareInv, Replaced PROVE ShareInv'
  OBVIOUS
<1>1. pc = "open" /\ UNCHANGED <<arc, pc, crit, streams>>
  BY DEF Replaced, store, settings, pending
<1>2. streams = <<>>
  BY <1>1 DEF DataInv, IdInv, StreamsInOrder
<1> QED
  BY <1>1, <1>2
     DEF ShareInv, ByHash, ArcShare, ArcIds, Handed, ShareNow, OwnStreams, OwnHashes, Visited,
         OneStreamFor, OneFile, HasData, Stored

LEMMA ReachInvReplaced == DataInv /\ ReachInv /\ Replaced => ReachInv'
<1> SUFFICES ASSUME DataInv, ReachInv, Replaced PROVE ReachInv'
  OBVIOUS
<1>1. pc = "open" /\ UNCHANGED <<arc, pc, main, base>>
  BY DEF Replaced, store, objects
<1> QED
  BY <1>1 DEF ReachInv, MainsAttained, Attained, NoJunctions, NoJunction, Stored
=============================================================================
