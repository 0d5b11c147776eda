# TLA+ models of ObsoleteBackupProgram

A backup program for NTFS: it keeps, in a *target location*, numbered versions of
one or more source directories.  The first version is full, later ones are
incremental and refer to data in older ones.  The core is C# (`src/BackupEngine`),
with a native part (`src/BackupEngineNativePart`) for file identities, volume
shadow copies, LZMA, and an rsync-like block comparer.  `src/test1` is the
command interpreter users drive it with.

## Inventory

| Component | State | Operations | What makes it correct |
|---|---|---|---|
| Sessions and versions (`BackupEngine.cs`, `test1`) | list of versions, next version number, settings | open, list, number, select | a new version never takes an existing number |
| Scan (`FileSystemObject` and subclasses) | tree of objects, queue of files whose identity is asked again | create a child by its type, set mode, size, time, identity | each entry appears once; hardlinks carry one identity |
| Change detection and streams (`BackupEngine.cs`) | old tree, known identities, stream list, next ids | generate first or next streams, compare with the old object, share a stream between hardlinks | ids unique over the target; a reference names data that is there; an unchanged file is unchanged |
| Archive (`ArchiveWriter`, `ArchiveReader`, LZMA and hash filters) | writer state 0..3, stream ids and sizes, offsets, the filters' buffers | add file, add object, add manifest, commit, read back | what is read back is what was written; nothing is seen before the commit |
| Restore (`RestoreBackup`, `VersionForRestore`) | loaded versions, objects to restore later | load the dependencies, delete, recreate, copy streams | the source is what the version says |
| Shadow copies (`vss.cpp`, `SystemOperations.cs`) | state machine, set of shadows | begin, push a target, snapshot, release | a set that was made is deleted |
| File comparer (`FileComparer.cpp`) | matching state, window, queue, worker thread | read, search, hash blocks in the worker, stop | the commands rebuild the new file; the worker ends |
| Inline hash calculator | three buffers, three events | overlapped read, hash, write | copies and hashes everything, and ends |
| The comparer's window (reader, circular buffer, rolling checksum, table searches) | two buffers of the reader, the ring, the checksum carried along | next block, next byte, search | the window is what was read; a search finds what is there |

Interactions: the interpreter calls the engine; the engine builds the tree, which
calls back for modes and queues identities; the engine passes streams to the
writer in the order of the tree; the reader calls the engine back once per stream;
everyone else on the machine changes the source at the same time.  Hard:
programs that write, rename and link files between the listing, the hashing and
the reading of a file; sessions that end anywhere; state cached in a session;
references through chains of versions; deleted versions; the comparer's worker
thread.  `PROJECT.json` lists the hazards at their lines.

## Modules

| Module | Models |
|---|---|
| `BackupEngine` | the backup half of `BaseBackupEngine`: open, snapshot, scan, change detection, streams, archive, commit, end of a session anywhere; the source directory and everyone who changes it |
| `VersionStore` | what a target promises: numbered copies of the source, less the paths excluded at the time |
| `BackupStore` | the refinement mapping from `BackupEngine` to `VersionStore` |
| `BackupRestore` | `RestoreBackup` in the same sessions: loading versions, deleting and recreating the tree, copying streams, linking, failing and quitting half way |
| `FileComparer` | the block comparer: `process()` with its matching state machine, the queue to the hashing thread, the event, the stop |
| `ComparerWindow` | extends `FileComparer`: how the window is read, kept, summed and searched for, and the reconstruction from the commands |
| `ArchiveFormat` | a version file from the first byte written to the last read: `ArchiveWriter`, the filters' loops, `ArchiveReader` |
| `VssSnapshot` | the shadow copy set of a backup: the native object, the C# object that uses it, the service's failures |
| `HashCopy` | `InlineHashCalculator` |
| `BackupEngine_proofs`, `VssSnapshot_proofs`, `HashCopy_proofs`, `FileComparer_proofs`, `ArchiveFormat_proofs` | theorems about the modules of that name |
| `BackupData_proofs` | extends `BackupEngine_proofs`: theorems about what the versions hold |
| `BackupRestore_proofs` | extends `BackupRestore`, and instantiates `BackupData_proofs` for the backup half: what a restore leaves in the source, and when it fails |
| `BackupStore_proofs` | extends `BackupStore` and `BackupData_proofs`: the refinement of `VersionStore`, that included files have data, and that versions read through shadow copies are exact |
| `MCBackupEngine`, `MCBackupStore`, `MCBackupRestore`, `MCFileComparer` | constants for TLC |

### BackupEngine and the code

`pc` follows `PerformBackup`: `open` -> `list` (snapshot taken, latest version
loaded) -> `scan` (`SetBaseObjects`) -> `archive` (`GenerateArchive`) -> `open`.
`known` and `count` are `Versions` and `_versionCount`, which a session computes
once.  `baseSet`, `main`, `base` are `_baseObjectsSet` and the tree: `base[p]` is
the object of path `p`, in the order `Iterate` visits it.  `old`, `oldMain` are
`_oldObjects`.  A main object has two paths: `MappedBasePath`, where it was read, and
`UnmappedBasePath`, what that stands for.  In a first version the latter is the
user's; in a later one it is the path the version before was read at
(`CurrentSourceLocation`), which after a snapshot is one of a shadow copy.  A restore
works there.  `guids` is `knownGuids`: the path whose object registered an
identity.  `streams` are the full streams in order, `out` those written.  `arc`
is the target, one archive per version file.  `truth` and `seen` are ghosts:
what each path held while a version was made.

Each action is one step between which other programs can act: one scanned entry,
one visited object (with its hash, if it is computed), one stream read.
`CommitArchive` is the commit of the transaction; `EndSession` stands for quitting,
being killed and exceptions nobody catches, and drops everything in memory, as the
transaction rolls back.

Abstractions: one source directory with leaf entries; a hash is the content it was
computed from (no collisions); an entry's type, times and identity are read in one
step; the 1 MiB limit of `HashAuto` is 2 units of size; settings are chosen when
the target is opened; version files are removed only between sessions; no second
process uses the target; a shadow copy's device name may be used again after it is
gone; symlinks and nested directories are left out, as they carry no streams.
Exclusions are a set of paths for each session: by name or extension, that is, since
`BackupSystem.cs:45-49` compares excluded paths with unmapped ones, which in the
versions after a snapshot are no longer the user's, so that nothing matches.

### BackupRestore and the code

The module adds to `BackupEngine`'s sessions the phases `recreate` (versions
loaded, `restored` set), `copy` and `failed` (an exception nobody catches; only the
end of the session follows).  `trees` counts the copies of the latest version's
tree in `_oldObjects`: an incremental backup leaves one there and a restore adds
one.  `later` is `restoreLater` after the sort, in any order the unstable sort may
give; `reads` are the streams still to be read, and `NextRead` the one whose turn it is:
those of the version's archive first, then those of the archives it depends on, in
the manifest's (ascending) order, each archive from its first stream on.
`Destination` is the unmapped path of the version's main object, at which
`DeleteExisting`, `CreateDirectory` and the files' `Restore` work.  Where it is the
source's, `RecreateTree` empties and refills the source; where it is a path of a
shadow copy, there is nothing to delete and making the directory throws
(`FailBelowDevice`): the source is left as it is.  `RecreateTree` is one step, since
whatever it leaves when it is cut short is deleted again by the next restore.  `CopyStream` is one callback of
`ArchiveReader.Begin`: the file found by the binary search gets the data, the ones
behind it with the same id are linked.  One restore a session is modelled:
in a second one the objects also carry the hardlink targets of the first, and
`_oldObjects` holds the tree twice, as it does in the modelled restore after a
backup, which fails.

### FileComparer and the code

`main` is where `process()` is: `start` (before the thread is created), `run` (the
state machine), `stop` (the last buffer is forced out), `join`, `done`.  `state`,
`newOffset`, `buffer`, `result` are the fields of that name; `position` is how much
the reader has handed out.  Every byte read also goes to `new_buffer`: `unstored`
holds the bytes `add_block` has not yet copied, `StoreBytes` is one turn of its
loop, `Enqueue` the push under the mutex, and `SetEvent` the `event.set()` behind
it, which is a step of its own, as the thread can run in between.  `worker` is the
thread: `look` (about to lock), `take` (inside the critical section), `wait`,
`hash`, `ended`; `none` before it is created, or when `CreateThread` failed.

The stop sign is pushed without the mutex.  Where the thread is in its critical
section at that moment, `PushStop` may also leave the queue as it is: both change
the deque's size without synchronisation.  A race that corrupts the deque so that
the program crashes is left out; it would end the program and violates no more
than `ProcessReturns` does already.

In this module hashes are the contents they are computed from, a table is a set and
a window is what the next bytes of the file are: it says what `process()` does with
a reader and a search that work.  `ComparerWindow` shows that these do.
The block sizes, which the code computes from the files' sizes, are any of a
set, independent of each other.  Fairness is weak fairness of each thread: the
system schedules a thread that can run.  Nothing else is assumed of the order.

### ComparerWindow and the code

The module adds three variables to `FileComparer`'s and gives its three reading steps
the code beneath them.  `reader` is `ByteByByteReader`: `current` and `second` are
`current_buffer` and `current_buffer2`, `ReadMore2` is `next_block` with the disk
reads it needs, `WholeBlock` and `NextByte` the two ways of taking bytes out.
`ring` is the `circular_buffer` that holds the window, with its cells, start and size;
`checksum` is the field, with 16 bits of each half shrunk to `ChecksumBase` values, so
that different blocks share one.  `Search` is `search()`: bitmap, then `triple_search`
by checksum, by SHA-1 and by offset in the sorted `Table`.  `ReconstructSection` is
`RsyncChainLink`'s, over the commands of a finished comparison.

The overlapped reads are waited for when they are begun: reading ahead changes what
`finish_read` returns only if a cancelled read still writes to the buffer, which
is up to the driver.  The reader's own buffers never go round their end, so that
they are sequences here; the ring does.

### ArchiveFormat and the code

`image` is the transacted file, `hashed` what went through `_hashedStream`
(`BytesWritten` is its length), `encoder` the `LzmaOutputStream` under
`_outputFilter`.  `call` says in which of its loops the writer is; `Encode` is one turn
of one, `after` what `AddFso` and `AddVersionManifest` go on with when it ends.
`archive` is the file others can open.  `Fail` is an exception or the end of the
process anywhere before the commit.  The reader's `task` is the public method it is
in; `Ask` is a consumer's read through the bounded stream of an item, `Decode` a
turn of the loop of `LzmaInputStream::read`, `Return` its end.

The compressor is external: `Encoded` may take any part of its input, pack any part of
what it holds and keep the rest, and ends its stream when it is told to finish and
holds nothing.  A unit of the file is one packed block, an end, the length
or the hash, which abstracts their lengths but not their order.  Contents are
marked bytes, so that a byte read in the wrong place shows.  `Begin`'s callback takes
the first streams whole and of the others nothing, as `RestoreBackup`'s does, which
stops at ids above those it needs.  Encryption is left out: nothing calls
`AddFilterGenerator`.

### VssSnapshot and the code

`op` is what `PerformBackup` is in: `begin`, `push`, `do`, `properties` (the
constructor of `VolumeSnapshot`), `backup`, `destroy` (`Dispose`).  `at` counts the
calls of the service within `VssSnapshot::begin`, `do_snapshot` and the destructor
(`Calls`), each of which may fail.  `state` and `vbc` are the fields; `sets` is the
machine's view: a set is `started` with `StartSnapshotSet`, `exists` from
`DoSnapshotSet` until `DeleteSnapshots`.  The context `VSS_CTX_APP_ROLLBACK` makes it
outlive the process.  `mishap` is a ghost: the operation in which something first
went wrong.  `Thrown` is an exception of the constructor: there is no object to
dispose of, and nothing in the program catches it, so the process ends.  When the
backup throws, the runtime may or may not run the `finally` of the `using` block,
as the exception is caught nowhere.  `IncorrectUsage` is a native exception crossing
an exported function.

### HashCopy and the code

A buffer is named by the number of its read, since `ReadMore` makes a new one each time.
`reads[r]` is how far the continuation of read r has come in `FinishedRead`; every
wait, and every assignment of a buffer another thread uses, is a step of its own.
`ReadMore` is the point where the next read begins and its continuation may overtake
this one.  A failed read throws at `task.Result` in the continuation, where nobody
looks.  `FinishedWrite` sets its event whether the write failed or not.

## Runs

| Run | Shows | Bounds |
|---|---|---|
| `sessions` | `TypeOK`, `StreamIdsUnique`, `StreamsComeFromTheirFiles`, `SnapshotExact`, `SnapshotHashesMatch`, `CommittedImmutable` while others write, create, delete, link and rename, and versions are removed | 2 paths, 2 identities, 2 contents, 2 versions, 2 backups a session, 2 device names, 2 edits at any moment |
| `criteria` | `ReferencesResolve`, `HashMatchesData`, `ExcludedOnlyThroughHardlinks`, `IncludedHaveData` under Hash, Date and ArchiveFlag, changed from session to session | 3 versions, 2 edits between backups, path 1 excluded or not |
| `store` | `ImplementsStore` with versions deleted | 3 versions, 2 edits between backups |
| `restore` | `RestoredExactly`, `FailuresKnown`, restores quit anywhere and begun again, with and without snapshots | 3 versions, 2 edits between backups, 2 restores, one device name |
| `restore_order` | violates `RestoreGivesData` | 2 versions |
| `comparer` | `WindowIsWhatWasRead`, `SearchIsExact`, `TripleSearchFindsRange`, `CommandsRebuild`, `SectionsReconstructed`, `NoMatchMissed`, `RunsAreMerged`, `TableDescribesNewFile`, and, under fairness, `ReturnsOrMissesStop` | files of up to 4 bytes of 2 values, old blocks of 2 bytes, new blocks of 1 or 4, disk blocks of 1 or 4, 2 values for each half of a checksum, 1 for its part of the bitmap |
| `comparer_stop` | violates `ProcessReturns` | files of up to 2 bytes |
| `archive` | `ReadsBackWhatWasWritten`, `ArchivesAreReadable`, `OnlyWholeArchives`, and, under fairness, `ReadsEnd` | 2 files of 0, 1 or 3 bytes, 2 objects of 1 or 2, an output buffer of 2 units, an input buffer of 3, reads of 2 bytes |
| `snapshot` | `UsedCorrectly`, `BackupHasItsShadows`, `SetsLeftForKnownReasons`, and, under fairness, `InterfaceIsReleased` | 2 volumes, 2 backups over all processes |
| `copy` | `BlocksInOrder`, `CopiedWhenReturned`, and, under fairness, `ReturnsUnlessReadFails` | 4 blocks |
| `snapshot_incremental` | violates `IncrementalsCoverSource` | 2 versions |
| `snapshot_clash` | violates `FilesInUseKept` | 1 version, 2 edits at any moment |

Two paths are enough for a hardlink pair, a rename and an exclusion of one of two
links; three versions for a reference that skips a version and for a deletion in
the middle; two edits for a change and its return within one backup.  Guids and
Contents are symmetric: neither is ordered or named by an action, and the runs
with symmetry check no liveness.  `TypeOK` is checked once for each module.  In the runs of the engine deadlock is checked:
`EndSession` and `Open` are always possible.  They state no liveness: a backup is a
sequential program which the user may stop, and no fairness is assumed.

For the comparer, four bytes in blocks of two give a file with two whole blocks, with
a short last block, with a block that occurs twice, and a match after a
mismatch; new blocks of 1 and 4 bytes make the queue fill faster and
slower than blocks are read, disk blocks of 1 and 4 make a window come from one read
or from several, and two values for half a checksum make different blocks collide.
`TripleSearchFindsRange` asks every shape of a range up to 15 elements.  Deadlock is
not checked there, since `process()` returns, and may also wait for ever
(`comparer_stop`).

In `archive`, a file without bytes, one shorter and one longer than a read, and blocks
packed in any sizes give a buffer that is full in the middle of a file, at its
end and after the end of a stream; an input buffer of 3 reads past the stream of the
files into that of the objects.  Deadlock is not checked: after `Final` or a failure
nothing need happen, and a reader that has given out its streams is done.  In
`snapshot`, two volumes are enough for one to fail and the other not, two backups for
a set of the first to outlive it; deadlock is checked, since the program can be
killed and started again.  In `copy`, four blocks let two continuations and a write
overlap, with reads before and behind them; the copy ends, so deadlock is not checked.

Fairness: each thread of the comparer runs when it can; a task of the reader, a call
of the shadow copy service and a backup go on until they end (no action of the user
is fair); the thread pool runs every continuation that is due, and streams answer
every read and write.  The code is written on these assumptions: it waits without
time limits.

Mutants (definitions `..._Wrong...`) stand next to the definitions they replace.

### Disagreements found

* README.md:23,28 promise incremental backups and backups through VSS.  Together
  they do not work: the second backup with a snapshot reads
  the first one's device path (`BackupEngine.cs:611`).
* README.md:28 promises backups of files in use, and README.md:38 that a hardlink
  deleted after the snapshot costs no more than space.  When the shadow copy cannot be
  given an identity it is asked of the source (`BackupEngine.cs:775`), where another file
  may be by then: one moved over the other, or linked anew.  Two objects of the copy then
  have one identity, and the second has the first one's stream or none, although the copy
  holds it whole (`snapshot_clash`).  `SnapshotExact` shows that all other files of the copy
  are right.
* README.md:23 promises incremental backups.  A restore writes an older stream that
  the version does not need over the file with the next needed id
  (`BackupEngine.cs:384`).  If that file came from the latest archive, it ends with
  old data.  `RestoredExactly` shows that this is the only way a completed restore
  differs from its version (within the bounds).

No version made after one with a snapshot can be restored, even if it has all files, as it
has when a later shadow copy got the same device name.  Its objects' unmapped path is
that of the earlier shadow copy (`BackupEngine.cs:629`), where a restore finds nothing to
delete and cannot make a directory (`DirectoryishFso.cs:85,199`).  It throws before it
touches the source.  A restore also fails, then after deleting the source, when the
session has made an incremental backup before (`BackupEngine.cs:363`).  `FailuresKnown`
shows that these two are all that stops one when files are compared by hash and the
source rests during backups; in particular no version that is restored to the source's
own path has a junction without target, which could not be made again
(`DirectoryishFso.cs:287`).  Compared by date, size or archive flag, two files of one
version can come to share a stream of an older one: of two hardlinks one is overwritten
by a rename of another file with the same date (size, clear archive flag), which is then
taken for unmodified.  A restore meets a regular file where it casts to `FileHardlinkFso` and throws after the source was
deleted (`BackupEngine.cs:397`); TLC finds this with three paths.
Excluded files are deleted with the rest of the source and are not restored.

The comparer's `main.cpp:11-17` expects `process()` to return, but the stop sign is
queued without the mutex and without the event (`FileComparer.cpp:155`); a thread
that has just found the queue empty is never woken.  `ReturnsOrMissesStop` shows
that this is the only way `process()` hangs, and that all data were hashed by then.

Without a run of their own:

* `BackupEngine.cs:29-31` says that Unmodified means no change since the last backup.
  A file is hashed and read at two moments (`BackupEngine.cs:518`), so that new data may
  lie under the old hash; when the old content comes back, the next version keeps the
  file as unmodified and refers to data it did not hold.  TLC finds this with one file,
  three versions and three writes.  `SnapshotHashesMatch` shows that it cannot happen in
  a version read through a shadow copy.
* A second backup in a session takes the version number of the first, which is cached
  (`BackupEngine.cs:85-87`), and writes over its file (`ArchiveWriter.cs:57`,
  `FileMode.Create`): the first version is lost.  `CommittedImmutable` shows that this is
  the only way a version on the target changes; no text promises otherwise.
* The debug assertion in `matching_increment` (`FileComparer.cpp:224`) fails when the
  short last blocks of both files are equal; the command is then a whole block long.
* `vss.h:103-104` says that the snapshot is deleted when the object is destructed; it
  stays when one of the destructor's calls fails, and when the
  constructor of `VolumeSnapshot` throws after the set was made, as it then loses the
  handle (`SetsLeftForKnownReasons` lists these cases).  `vss.h:77-78` requires a
  target before `do_snapshot`; nothing checks that there is one.
* `BackupEngine.cs:62-63` (a path has another stream id in every version) does not
  hold for unmodified files; `BackupEngine.cs:18` (NoBackup is not backed up) not for
  hardlinks to included files.

A file excluded and included again is stored only when it is next compared by hash
(`BackupEngine.cs:700`); so is a hardlink that was never excluded itself, when the
object that owns its identity was: `FixUpStreamReference` passes on the version -1.
`IncludedHaveData` shows that nothing else leaves an included file without data.
`ReturnsUnlessReadFails` shows that `DoCopy` hangs only when a read fails.  (A
`WriteAsync` that throws before it returns a task would also end the continuation; the
streams of the model fail through their tasks only.)

Seen while reading, not modelled: a regular file with an identity already known
makes a version depend on itself, and `FillDependencies` recurses for ever
(`VersionForRestore.cs:88`); `Archive.cs:33,45` put several filters on a stream in an
order in which a reader would decompress before it decrypts, were there a second one;
`ArchiveReader` never compares the hash at the end of the file; `RsyncChainLink::seek`
refuses the offsets it finds (`Rsync.cpp:189`); `SparseFile` keeps the commands that
copy from the old file, takes lengths with their flag bit (`Rsync.cpp:71-79`) and counts
a part from the end (`Rsync.cpp:111`); `circular_buffer::push_buffer` copies the
beginning of its bytes twice where it goes round the end, and `pop_buffer` does not
wrap the start (`circular_buffer.h:46,54`): as they are used, neither happens.

## Proofs

`BackupEngine_proofs` proves, for every value of the constants allowed by
`BackupEngineAssumption` (sorts of the constants, None is no identity, content or
device) and `NoneAssumption` (None is no object, stored object, main object, archive
or shadow copy):

* `TypeCorrect`: `Spec => []TypeOK`.  `TypeOK` is not inductive, since a step that
  reads an object, an archive or the main object must know it is not None;
  `WellFormed` adds that (known versions are stored, objects named by the visit,
  by identities and by streams exist, a later version's session has loaded the
  old main object).
* `StreamIdsNeverReused`: `Spec => []StreamIdsUnique`.  Inductive invariant `IdInv`:
  a session knows every stored version but the one it writes (`SessionKnows`); the
  ids it will give lie above those of all known versions, because the latest
  version's manifest bounds them and older ranges lie below it (`IdsAbove`,
  `RangesInOrder`); streams are numbered and written in order (`StreamsInOrder`).
* `CommittedVersionsStay`: `Spec => CommittedImmutable`, for any number of backups a
  session.  A commit writes to the number `count`, which no version the session found has
  (`SessionKnows`), and which is stored already only when the session has made a backup
  before: the exception the property names.

`VssSnapshot_proofs` proves, for any volumes and any number of backups, `TypeCorrect`,
`NeverCrashes`, `HasItsShadows` and `LeftForKnownReasons` from one invariant, `IInv`.
To the properties it adds `Stages`, which says for each operation and each number of
its next call what the object's state, the set and the volumes are, and `Earlier`:
a set that is over is gone or was left for a reason.  `GivenUp` covers every way an
operation ends early.

`BackupData_proofs` goes on from the same assumptions.  `DataInv` adds to the type and
id invariants `SessionInv` (what each phase leaves empty, exclusions stay what they
were, with snapshots nothing is read at its own place, what can be read was seen) and
`VisitInv` (registered identities, streams and shared streams belong to objects
already visited).  From it follow, whatever is done to the source and however many
backups a session makes:

* `StreamsAreOfFiles`: `Spec => []StreamsComeFromTheirFiles`.
* `ExclusionsRespected`: `Spec => []ExcludedOnlyThroughHardlinks`.

`ReferencesHold` proves `ReferencesResolve` with one more invariant, `RefInv`: the old
tree is that of the version before (`OldLoaded`); objects with one identity are
hardlinks (`LinksAgree`, from `ScanInv` and `StillBusy`); the visit goes up, and the first
object of an identity registers it and has its stream numbered (`VisitOrder`); an object
visited is where it says (`AllPlaced`); so is everything in the target, in the version
itself or in dependencies that are all older (`RefsArc`).  It assumes `~ConcurrentEdits`.
The hypothesis is needed: TLC finds a file renamed between the listing of two entries,
which is then seen at two paths with one identity, neither of them a hardlink.

`HashesHold` proves `HashMatchesData` with `HashInv`: no object has a hash before it is
visited, what a visited object refers to has the data of its hash, and what is
written now has the hash computed now.  It assumes besides that a session makes one
backup, and needs to: a second one reuses objects with the hashes of the first, and TLC
then finds new data under an old hash without any concurrent edit.  These two
hypotheses are those of the run that checks the two properties.

`BackupStore_proofs` proves `Implements`: `Spec => ImplementsStore`.  `Assumptions` adds
to the two hypotheses that files are compared by hash and that no shadow copies are
used, as in the run `store`; without either TLC finds a version that does not hold the
source (compared by date, a file renamed over one of the same date; with snapshots, a
second version read from the first one's device, which is gone).  `StoreInv` says
that the source is read where it is (`InPlace`), that the objects are its entries
(`AllListed`), that an object with a hash has data (`AllBacked`, `ArcBacked`), and that a
visited file that is included refers to its present content, in this version's streams
or in an older version (`AllRight`).  A commit is then a `Commit` of the store, or no
step of it when a dependency was deleted before the backup; a deletion is a `Remove`
that also loses what depended on the version; every other step leaves all copies as they
are.  `Restorable` says that a set of stored versions has the version and
all dependencies of its members, which is what `FillDependencies` collects; it is not a
recursive definition so that it can be reasoned about.

The same module proves `IncludedFiles`, `Spec => []IncludedHaveData`, for sessions that
compare by hash, date or archive flag in any order.  `IncludedSafe` adds to the
invariants above that a visited file that is included has a stream or is `Excused`, i.e.
shares its identity with a path an older version excluded and no session since has
compared by hash (`AllIncluded`), and what is recorded of every version (`Recorded`,
`ArcListed`).  Besides `Undisturbed` (no concurrent edits, one backup a session, no shadow
copies) it assumes `FilesStay`: the user writes, links, creates files and clears archive
flags, but deletes and renames nothing, and no version is removed.  These are the
hypotheses of the run `criteria`.  They are needed: `FileHasChanged`
(`BackupEngine.cs:670-706`) never looks at the type of the old object, so a file created
where a directory was is taken for unmodified when its archive flag is clear, and stays
without data; TLC finds this with deletions allowed.

Its last theorems are `SnapshotsAreExact`, `Spec => []SnapshotExact`, and
`SnapshotHashesHold`, `Spec => []SnapshotHashesMatch`, with `ConcurrentEdits` or
without, for any snapshot modes, exclusions and numbers of paths and versions.  They assume
comparison by hash, and either one backup a session or no removal of versions.  `CopyInv` is
about a session's first backup while it reads a shadow copy (`InCopy`), and about the versions
stored as long as all are firsts of their sessions (`Firsts`): what was seen is what the copy
holds (`CopySeen`); the objects are the entries of the copy, and are unmarked until visited
(`CopyListed`, `CopyFresh`); a visited object's hash, and that of an object of a version read
through a copy, is the hash of the data it refers to (`CopyHashes`, `ArcCopies`); nothing refers
to a later version (`BaseBelow`, `ArcBelow`); and an included file that was visited refers to
what the copy holds of it, in a stream still to be written or in an older version
(`CopyIsRight`), unless it shares its identity with an object it is no hardlink of, which is
what `Clashes` says: of such files the first theorem says nothing, and `snapshot_clash` what happens.
The run `sessions` has both second backups and removals, and nothing is violated within
its bounds.  Versions read at the source itself lie beside these: their main object has another
path, so that no file of a copy is compared with an object of theirs.  The second
hypothesis is the proof's (`FirstsStay`): when the versions that second backups wrote are
removed, the properties speak of the remaining ones again, and to show that those no longer
depend on the lost ones takes an invariant on every single reference.

`BackupData_proofs` also has the invariant a restore's failures need, `ReachInv`: without
concurrent edits the main object was reached where its unmapped path is the source's
(`MainsAttained`), and no version has a junction (`NoJunctions`), since what was listed, at
the source or in a shadow copy, is there when it is looked at.

`BackupRestore_proofs` proves `SourceRestored`, `RestoreSpec => []RestoredExactly`, for any
number of paths, versions and restores, any criterion, backups with and without shadow
copies, and any end of earlier restores.  It assumes `~ConcurrentEdits` alone, which is
needed: what another program writes between two steps of a restore is in the source
when the restore ends.  To the backup half of the engine a session that restores is an open
one in which the source is replaced at once by anything: `phase` is `pc` with the restore's
phases as `open`, the instance `E` is `BackupData_proofs` with `phase` for `pc`, and every
step of `RestoreSpec` is a step of `E`, or `Replaced`, or neither moves (`EngineStep`).
`DataInvReplaced` to `ReachInvReplaced` say that the engine's invariants survive a
replacement.  `RestoreInv` adds the restore's own: all that will be opened is there
(`Loaded`); the list of waiting files has every file once for each tree, by id
(`LaterInv`); what is left to read is closed under the reading order (`ReadsInv`); and, for
each file (`Copied`), before its own stream was read it is there only if it is the first
with its id, afterwards it is one file with those that share the stream, and has its data
unless a stream that will overwrite it is still to be read or was.

The source is touched only where `Destination` is `Live`, which the invariant carries
through the phase `copy`; a restore to another destination fails at its first step.

`RestoresFailForKnownReasons` proves `RestoreSpec => []FailuresKnown` with two hypotheses
more: one backup a session and comparison by hash only, both those of the run `restore`.
The second is needed (see above).  Its invariant in the backup half is `ShareInv`: objects
of one version that share a stream are hardlinks of one file, and at most one of them has a
hash (`ArcShare`, `ShareNow`); a new reference is made only to an object with a hash of
the version before, for the one object of an identity that is compared (`Handed`,
`OwnHashes`).

The invariants of the engine were checked with TLC on instances of the runs' size before
they were proved.

`HashCopy_proofs` proves, for streams of any length, `TypeCorrect`, `InOrder` and
`Copied`.  The invariant, `Ordered`, says that all continuations but two are over, that
the last but one writes or hashes only while the last waits, and that each event is set
exactly when the step it stands for is done and nobody has used it up: so at most one
write is under way and no buffer is taken away before it was hashed.

`FileComparer_proofs` proves, for files of any length, any block sizes and every
interleaving of the two threads, `TypeCorrect`, `Rebuilds`, `NoMatchIsMissed`,
`RunsMerged` and `TableIsOfNewFile`.  The invariant has four parts.  `Shape`: the types,
and those of the queue.  `Matched`: the window is the block that is not described
yet, the last command ends where the state machine left it, and the commands so far,
put together, are the file up to the window.  `QueueInv`: there is an offset up to
which the thread has hashed; behind it lie, block by block, what it has in hand, what is
queued, what is in `new_buffer` and what was read and not yet stored, up to the
position of the reader.  `StopInv`: a stop sign, queued or taken, comes after
everything else; it is what remains true when the sign is pushed outside the mutex and is
lost.  The theorems are about `FileComparer`'s specification; the run checks the
properties on the steps of `ComparerWindow`, which are steps of it with the code beneath.
Two facts need induction over data: that there is a least block boundary behind an
offset, and what the fold `FlattenSeq` gives for a longer sequence.  The library's
induction theorems cannot be instantiated here; the module's first lemmas take least
elements of sets of numbers (`WFMin`) instead.

`ArchiveFormat_proofs` proves `TypeCorrect`, `WholeArchives`, `Readable` and `ReadsBack` from
`ArchiveFormatAssumption` alone: for any number and length of files and objects, any sizes
of the buffers and of the reads, and any cutting of the bytes into blocks.  Two
invariants, of the writer and of the reader, are preserved by every step.  `WriterInv` says
for each state of `ArchiveWriter` which streams the file holds whole, and of the one
being written that what is packed, what the compressor keeps and what it has not yet taken
are together the items added so far.  `Laid` is what it comes to at the commit:
the file is the stream of the files, if there are any, that of the objects, that of
the manifest, the manifest's length and the hash, and the manifest has the sizes and the
offset that go with it (`Describes`).  `ReaderInv` says that the manifest the reader has is
the one that was written (`Knows`), that what it gave out before is right (`Gave`), and of
a read under way that the units up to one position were taken, the bytes up to another
were given out, and what the decoder holds lies between (`DecoderAt`, `ItemAt`).  Bytes
that end an item and bytes that begin the next may come in one block; the proof is about
slices of sequences (`SliceJoin`, `SliceSlice`) and needs no induction, since the
invariant names where in the bytes each item and each block ends (`Splits`, `Packs`).  These two invariants name
positions by unbounded quantifiers, so that TLC checked only the properties themselves.

Only model-checked:

* `ComparerWindow`'s, as its searches are RECURSIVE operators, which the prover does not
  take (`WindowIsWhatWasRead` only stands in the same module);
* liveness under fairness (`ReturnsOrMissesStop`, `ReadsEnd`, `InterfaceIsReleased`,
  `ReturnsUnlessReadFails`) and ENABLED, which are out of the prover's reach.

## Plan

1. (done) `BackupEngine`, `VersionStore`, `BackupStore`.
2. (done) `BackupRestore`.
3. (done) `FileComparer`, and `ComparerWindow` beneath it.
4. (done) `ArchiveFormat`.
5. (done) `VssSnapshot`, `HashCopy`, with their proofs.
6. Nested directories and several sources in `BackupEngine`.
7. (done) Theorems about references and hashes (`BackupData_proofs`) and about the comparer
   (`FileComparer_proofs`), the refinement and `IncludedHaveData` (`BackupStore_proofs`), and
   what is read back from an archive (`ArchiveFormat_proofs`).
8. (done) What a restore leaves behind (`BackupRestore_proofs`).
9. (done) Versions read through shadow copies (`SnapshotsAreExact`).

## Not modelled

Most lines of the repository are vendored: Crypto++ headers (`include/cryptlib`),
liblzma and the xz tool (`liblzma`).  They are not this program's logic, and what the
program relies on of them is external in the models (`Encoded`, `Decoded`,
`Digest`).  A map of the program's own code is therefore a small part of all lines.

Also left out: the wrappers of Windows calls, key generation and encryption (pure
calls, and no filter for it is ever added), formatting and console output, the size
report, rdiff, the rest of `Rsync.cpp` (no other code calls that file yet; of it only the
reconstruction from commands is modelled), the hand-run test
programs, and the overlapped reads beneath the comparer's reader, where what matters
is what the driver does with a cancelled one.
