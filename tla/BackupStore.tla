---------------------------- MODULE BackupStore -----------------------------
(***************************************************************************)
(* The archives BackupEngine writes implement VersionStore: what a version *)
(* holds is what its object list resolves to, stream by stream, through    *)
(* the versions it depends on.                                             *)
(***************************************************************************)
EXTENDS BackupEngine

SourceContent ==
  [p \in Paths |-> IF IsFile(live[p]) THEN inode[live[p]].content ELSE None]

\* The content version v has for p, from the archive it points at; an object
\* whose stream is not there has no content a source could have.
Resolve(v, p) ==
  LET o == arc[v].BaseObjects[p]
      S == StreamData(o.LatestVersion, o.StreamUniqueId)
  IN  IF p \in truth[v].excluded \/ ~HasData(o) THEN None
      ELSE IF \E c \in Contents : S = {c} THEN CHOOSE c \in S : TRUE
      ELSE "corrupt"

\* RestoreBackup opens every dependency, and theirs, before it touches anything:
\* all that it opens must be there.
Restorable(v) ==
  \E opened \in SUBSET Stored :
    /\ v \in opened
    /\ \A w \in opened : \A d \in arc[w].VersionDependencies : d < w /\ d \in opened

StoredCopies ==
  [v \in Versions |->
     IF Restorable(v) THEN [p \in Paths |-> Resolve(v, p)] ELSE None]

Store == INSTANCE VersionStore
           WITH source <- SourceContent, excluded <- excluded, versions <- StoredCopies

\* As long as the source rests while a backup runs, sessions back up once and
\* files are compared by hash, every version restores to the source as it was
\* (FileHasChanged, FixUpStreamReference, GetDependencies, GenerateArchive),
\* later versions and deletions never change what an older one restores to,
\* and a version that lost a dependency never comes back with other content.
ImplementsStore == Store!Spec
=============================================================================
