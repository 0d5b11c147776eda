---------------------------- MODULE BackupRestore ----------------------------
(***************************************************************************)
(* RestoreBackup: a session puts the source directory back as its latest   *)
(* version has it.  It deletes the directory, recreates what needs no      *)
(* data, and then copies streams archive by archive, choosing the path for *)
(* each by its id.  None of this is transacted.  It works at the unmapped  *)
(* path of the version's main object, which is the source's only as long   *)
(* as no version before it was made with a snapshot.                       *)
(*                                                                         *)
(* Bounds: one restore in a session, MaxRestores in all.                   *)
(***************************************************************************)
EXTENDS BackupStore, SequencesExt

CONSTANT MaxRestores

VARIABLES
  restored,   \* the version being restored, None when none is
  trees,      \* copies of the latest version's tree in _oldObjects
  used,       \* a restore was made in this session
  later,      \* restoreLater: the files that wait for data, by stream id
  reads,      \* the streams still to be read: a version and a place in its archive
  restores    \* restores begun

restoring == <<restored, trees, used, later, reads, restores>>

Objects == arc[restored].BaseObjects
IdOf(p) == Objects[p].StreamUniqueId

\* PathOverrideUnmappedBaseWeak: where everything is deleted and written.
Destination_WrongMapped == arc[restored].main.MappedBasePath
Destination == arc[restored].main.UnmappedBasePath

RestoreInit ==
  /\ Init
  /\ restored = None /\ trees = 0 /\ used = FALSE
  /\ later = <<>> /\ reads = {} /\ restores = 0

-----------------------------------------------------------------------------
(* The rest of the engine.  UpdateExistingVersion replaces _oldObjects.    *)
OpenTarget == Open /\ UNCHANGED restoring

BackupStep ==
  /\ Backup
  /\ trees' = IF pc = "open" /\ count > 0 THEN 1 ELSE trees
  /\ UNCHANGED <<restored, used, later, reads, restores>>

SourceStep == Environment /\ UNCHANGED restoring

Quit ==
  /\ EndSession
  /\ restored' = None /\ trees' = 0 /\ used' = FALSE
  /\ later' = <<>> /\ reads' = {}
  /\ UNCHANGED restores

-----------------------------------------------------------------------------
Opened == {restored} \cup arc[restored].VersionDependencies

StreamAt(r) == arc[r[1]].Streams[r[2]]

StreamsToRead == UNION {{v} \X DOMAIN arc[v].Streams : v \in Opened}

\* Every version is read once: the latest, then those it depends on, sorted,
\* each from its first stream to its last.
ReadBefore(r, s) ==
  \/ r[1] = s[1] /\ r[2] < s[2]
  \/ r[1] = restored /\ s[1] # restored
  \/ s[1] # restored /\ r[1] < s[1]

NextRead(r) == r \in reads /\ \A s \in reads \ {r} : ReadBefore(r, s)

\* The latest version and all it depends on are opened; if one is missing the
\* session ends before anything was changed (Quit).  Its tree is added to
\* _oldObjects, which nothing has cleared.
LoadVersions ==
  /\ pc = "open" /\ pc' = "recreate"
  /\ ~used /\ used' = TRUE
  /\ restores < MaxRestores /\ restores' = restores + 1
  /\ \E v \in known : IsLatest(v, known) /\ Restorable(v) /\ restored' = v
  /\ trees' = trees + 1
  /\ UNCHANGED <<disk, store, settings, backups, shadow, objects, oldTree,
                 todo, retry, ids, pending, seen, later, reads>>

\* Files wait for the data of their stream, one entry for each tree they are
\* in.  List.Sort leaves the order of equal ids open.
Waiting == (1..trees) \X {p \in Paths : HasData(Objects[p])}

InIdOrder(s) ==
  \A i, j \in DOMAIN s : i < j => IdOf(s[i][2]) <= IdOf(s[j][2])

Junctions == {p \in Paths : Objects[p] # None /\ Objects[p].Type = "Junction"}

Recreated(p) ==
  Objects[p] # None /\ Objects[p].Type = "Directory" /\ \A j \in Junctions : p < j

\* DeleteExisting takes the whole directory away, Restore makes directories.
\* A path that had vanished was stored as a junction without a target, and
\* making one of those throws.
RecreateTree ==
  /\ pc = "recreate"
  /\ Destination = Live
  /\ pc' = IF Junctions = {} THEN "copy" ELSE "failed"
  /\ live' = [p \in Paths |-> IF Recreated(p) THEN Dir ELSE None]
  /\ \E s \in SetToSeqs(Waiting) :
       InIdOrder(s) /\ later' = [i \in DOMAIN s |-> s[i][2]]
  /\ reads' = StreamsToRead
  /\ UNCHANGED <<inode, edits, store, settings, backups, shadow, objects,
                 oldTree, todo, retry, ids, pending, seen, restored, trees, used,
                 restores>>

\* Where the unmapped path is one of a shadow copy, that copy was deleted when
\* its backup ended: DeleteExisting finds nothing to delete, and making the
\* directory (or, for a main object that could not be reached, the junction
\* without a target) throws.  If another program has a shadow copy of that name
\* by now, it is read-only and nothing can be deleted in it.
FailBelowDevice ==
  /\ pc = "recreate" /\ pc' = "failed"
  /\ Destination # Live
  /\ UNCHANGED <<disk, store, settings, backups, shadow, objects, oldTree, todo,
                 retry, ids, pending, seen, restored, trees, used, later, reads,
                 restores>>

\* BinaryFindFirst: the first file whose id is not below the stream's.
From_WrongAbove(id) == {i \in DOMAIN later : IdOf(later[i]) > id}
From(id) == {i \in DOMAIN later : IdOf(later[i]) >= id}

\* No file needs this stream or one after it in the archive.
SkipStream ==
  /\ pc = "copy"
  /\ \E r \in reads :
       /\ NextRead(r) /\ reads' = reads \ {r}
       /\ From(StreamAt(r).StreamId) = {}
  /\ UNCHANGED <<disk, store, pc, settings, backups, shadow, objects, oldTree,
                 todo, retry, ids, pending, seen, restored, trees, used, later,
                 restores>>

\* The files after the i-th that share the stream.
LinksAfter_WrongStart(i, id) == {j \in DOMAIN later : j >= i /\ IdOf(later[j]) = id}
LinksAfter(i, id) == {j \in DOMAIN later : j > i /\ IdOf(later[j]) = id}

\* The j-th file is no FileHardlinkFso (a cast that throws), or there is a
\* file at its path already (CreateHardlink throws).
CannotLink(i, j) ==
  \/ Objects[later[j]].Type # "FileHardlink"
  \/ live[later[j]] # None
  \/ \E k \in i..(j - 1) : later[k] = later[j]

\* The first file from the stream's id on gets the data, whether or not the
\* stream is its own; the files after it that have that id are linked to it,
\* up to one that cannot be.  The paths are below the Destination, which is Live
\* by now.
CopyStream ==
  /\ pc = "copy"
  /\ \E r \in reads :
       /\ NextRead(r) /\ reads' = reads \ {r}
       /\ \E i \in From(StreamAt(r).StreamId), g \in Guids :
            LET w      == StreamAt(r)
                p      == later[i]
                links  == LinksAfter(i, w.StreamId)
                bad    == {j \in links : CannotLink(i, j)}
                linked == {j \in links : \A b \in bad : j < b}
            IN  /\ IsFirst(i, From(w.StreamId))
                /\ IF IsFile(live[p]) THEN g = live[p]
                                      ELSE \A q \in Paths : live[q] # g
                /\ inode' = [inode EXCEPT ![g] =
                               [content |-> w.data, mtime |-> MaxEdits + restores,
                                archive |-> TRUE]]
                /\ live' = [q \in Paths |->
                              IF q = p \/ \E j \in linked : later[j] = q
                                THEN g ELSE live[q]]
                /\ pc' = IF bad = {} THEN "copy" ELSE "failed"
  /\ UNCHANGED <<edits, store, settings, backups, shadow, objects, oldTree, todo,
                 retry, ids, pending, seen, restored, trees, used, later, restores>>

FinishRestore ==
  /\ pc = "copy" /\ reads = {} /\ pc' = "open"
  /\ restored' = None /\ later' = <<>>
  /\ UNCHANGED <<disk, store, settings, backups, shadow, objects, oldTree, todo,
                 retry, ids, pending, seen, trees, used, reads, restores>>

-----------------------------------------------------------------------------
RestoreNext ==
  \/ OpenTarget \/ BackupStep \/ SourceStep \/ Quit
  \/ LoadVersions \/ RecreateTree \/ FailBelowDevice \/ SkipStream \/ CopyStream \/ FinishRestore

RestoreSpec == RestoreInit /\ [][RestoreNext]_<<vars, restoring>>

-----------------------------------------------------------------------------
(***************************************************************************)
(* Properties.                                                             *)
(***************************************************************************)
AllRead == pc = "copy" /\ reads = {}

DataOf(p) == StreamData(Objects[p].LatestVersion, IdOf(p))

\* An older archive has a stream that the version does not need, and p is the
\* first file from its id on: that stream is written over p, which the latest
\* version's own archive filled before.
Overwritten(p) ==
  /\ Objects[p].LatestVersion = restored
  /\ \E d \in arc[restored].VersionDependencies :
     \E i \in DOMAIN arc[d].Streams :
       LET id == arc[d].Streams[i].StreamId
       IN  /\ id < IdOf(p)
           /\ \A q \in Paths : HasData(Objects[q]) => IdOf(q) \notin id..(IdOf(p) - 1)

\* A restore that ends has worked on the source itself, from a version whose
\* source could be reached; and whatever was there before and however earlier
\* restores ended, the source has the version's directories, a file for each
\* object with data and nothing else; files are one file exactly when they
\* share a stream; and each has its data, except the ones an older archive's
\* stream is known to overwrite (restoreLater, BinaryFindFirst).
RestoredExactly ==
  AllRead =>
    /\ Destination = Live /\ arc[restored].main.Type = "Directory"
    /\ \A p \in Paths :
         IF HasData(Objects[p])
           THEN /\ IsFile(live[p])
                /\ \A q \in Paths :
                     HasData(Objects[q]) => (live[p] = live[q] <=> IdOf(p) = IdOf(q))
                /\ Overwritten(p) \/ DataOf(p) = {inode[live[p]].content}
           ELSE live[p] = IF Recreated(p) THEN Dir ELSE None

\* When files are compared by hash and the source rests while it is backed up,
\* a restore stops half way for two reasons only.  Its destination is a path of
\* a shadow copy that is gone, because an earlier version was made with a
\* snapshot; then the source was not touched.  Or the tree was read twice, by a
\* restore after an incremental backup in the same session; then the source was
\* deleted.  No hardlink is made on a path that was filled before, no regular
\* file is taken for a hardlink and no junction without a target is met.
FailuresKnown ==
  pc = "failed" => trees > 1 \/ arc[restored].main.UnmappedBasePath \in Devices

\* "Incremental backups | Yes" (README.md:23): a restored version has the data
\* its objects refer to.
RestoreGivesData ==
  AllRead =>
    \A p \in Paths :
      HasData(Objects[p]) => DataOf(p) = {inode[live[p]].content}
=============================================================================
