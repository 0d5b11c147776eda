---------------------------- MODULE VssSnapshot ----------------------------
(***************************************************************************)
(* A backup through a volume shadow copy set: PerformBackup, the           *)
(* constructor and Dispose of VolumeSnapshot, the native VssSnapshot under *)
(* them and the shadow copy service, any of whose calls may fail.          *)
(*                                                                         *)
(* The context VSS_CTX_APP_ROLLBACK makes sets persistent: once            *)
(* DoSnapshotSet succeeds, a set stays on the machine until somebody       *)
(* deletes it.  Before that it goes with the interface or the process that *)
(* started it.                                                             *)
(***************************************************************************)
EXTENDS Integers, Sequences

CONSTANTS
  Volumes,    \* the volumes that can be backed up
  MaxBackups  \* bound: backups begun, over all processes

ASSUME VssAssumption == MaxBackups \in Nat

VARIABLES
  process,   \* the backup program: "running", "ended", "crashed"
  op,        \* what PerformBackup is in, "none" between backups
  at,        \* the number of the next call of that operation
  state,     \* VssSnapshot::state
  vbc,       \* whether the IVssBackupComponents interface is held
  volumes,   \* _currentVolumes, the volumes of the current backup
  waiting,   \* those the constructor has yet to push
  shadows,   \* volumes with a shadow in props
  described, \* shadows whose properties were read
  failed,    \* _failedVolumes
  sets,      \* per backup, its set: "none", "started", "exists"
  mishap     \* ghost: per backup, the operation something first went wrong in

vars == <<process, op, at, state, vbc, volumes, waiting, shadows, described, failed, sets, mishap>>

Backup == Len(sets)  \* the current backup, or the last one

\* The calls VssSnapshot::begin, do_snapshot and the destructor make, in order.
Calls(o) ==
  CASE o = "begin" -> <<"CreateVssBackupComponents", "InitializeForBackup",
                        "GatherWriterMetadata", "FreeWriterMetadata", "SetContext",
                        "StartSnapshotSet">>
    [] o = "do" -> <<"SetBackupState", "PrepareForBackup", "GatherWriterStatus",
                     "FreeWriterStatus", "DoSnapshotSet">>
    [] o = "destroy" -> <<"GatherWriterStatus", "FreeWriterStatus", "BackupComplete",
                          "DeleteSnapshots">>

Wrong == mishap' = [mishap EXCEPT ![Backup] = IF @ = "none" THEN op ELSE @]

\* The interface is released, by the destructor or with the process: a set that
\* was only started goes with it.
Released == [n \in DOMAIN sets |-> IF sets[n] = "started" THEN "none" ELSE sets[n]]

\* An exception in the constructor of VolumeSnapshot: there is no object to
\* dispose of, the handle is lost and nothing catches the exception.
Thrown ==
  /\ process' = "ended" /\ op' = "none" /\ at' = 1
  /\ vbc' = FALSE /\ sets' = Released

----------------------------------------------------------------------------
\* PerformBackup makes a VolumeSnapshot: create_snapshot begins it.
PerformBackup ==
  /\ process = "running" /\ op = "none" /\ Backup < MaxBackups
  /\ op' = "begin" /\ at' = 1
  /\ state' = "Invalid" /\ vbc' = FALSE
  /\ volumes' \in SUBSET Volumes /\ waiting' = volumes'
  /\ shadows' = {} /\ described' = {} /\ failed' = {}
  /\ sets' = Append(sets, "none") /\ mishap' = Append(mishap, "none")
  /\ UNCHANGED process

\* One call of begin, do_snapshot or the destructor succeeds.
CallSucceeds ==
  /\ op \in {"begin", "do", "destroy"} /\ at <= Len(Calls(op))
  /\ LET call == Calls(op)[at]
     IN /\ vbc' = (vbc \/ call = "CreateVssBackupComponents")
        /\ sets' = [sets EXCEPT ![Backup] =
                      CASE call = "StartSnapshotSet" -> "started"
                        [] call = "DoSnapshotSet" -> "exists"
                        [] call = "DeleteSnapshots" -> "none"
                        [] OTHER -> @]
  /\ at' = at + 1
  /\ UNCHANGED <<process, op, state, volumes, waiting, shadows, described, failed, mishap>>

\* A destructor that does not catch the error.
CallFails_WrongUncaught ==
  /\ op \in {"begin", "do", "destroy"} /\ at <= Len(Calls(op))
  /\ Wrong
  /\ IF op = "destroy"
     THEN op' = "none" /\ at' = 1 /\ UNCHANGED <<process, vbc, sets>>
     ELSE Thrown
  /\ UNCHANGED <<state, volumes, waiting, shadows, described, failed>>

\* One fails.  begin and do_snapshot leave the object Invalid and their error is
\* thrown by the constructor; the destructor catches it and makes no further call.
CallFails ==
  /\ op \in {"begin", "do", "destroy"} /\ at <= Len(Calls(op))
  /\ Wrong
  /\ IF op = "destroy"
     THEN at' = Len(Calls(op)) + 1 /\ UNCHANGED <<process, op, vbc, sets>>
     ELSE Thrown
  /\ UNCHANGED <<state, volumes, waiting, shadows, described, failed>>

\* begin ends.
Begun ==
  /\ op = "begin" /\ at > Len(Calls(op))
  /\ op' = "push" /\ state' = "PushingTargets"
  /\ UNCHANGED <<process, at, vbc, volumes, waiting, shadows, described, failed, sets, mishap>>

\* What the service answers to AddToSnapshotSet.
Answers == {"S_OK", "VSS_E_UNEXPECTED_PROVIDER_ERROR", "VSS_E_NESTED_VOLUME_LIMIT", "other"}
Tolerated == {"VSS_E_UNEXPECTED_PROVIDER_ERROR", "VSS_E_NESTED_VOLUME_LIMIT"}

AfterPush_Wrong(answer) == IF answer = "S_OK" THEN "PushingTargets" ELSE "Invalid"

\* The state push_target leaves.
AfterPush(answer) ==
  IF answer = "S_OK" \/ answer \in Tolerated THEN "PushingTargets" ELSE "Invalid"

KeptAsFailed_Wrong(answer) == answer = "VSS_E_UNEXPECTED_PROVIDER_ERROR"

\* The errors with which the constructor keeps the volume as failed and goes on.
KeptAsFailed(answer) == answer \in Tolerated

\* A native function called in another state than its own throws an exception
\* the exported functions do not catch.
IncorrectUsage ==
  /\ process' = "crashed" /\ op' = "none" /\ at' = 1
  /\ vbc' = FALSE /\ sets' = Released
  /\ UNCHANGED <<state, volumes, waiting, shadows, described, failed, mishap>>

\* The constructor pushes a volume.  With the two tolerated errors it goes on and
\* keeps the volume among the failed ones; any other one it throws.
PushTarget(v) ==
  /\ op = "push" /\ v \in waiting
  /\ IF state # "PushingTargets" THEN IncorrectUsage
     ELSE \E answer \in Answers :
            /\ state' = AfterPush(answer)
            /\ waiting' = waiting \ {v}
            /\ shadows' = IF answer = "S_OK" THEN shadows \cup {v} ELSE shadows
            /\ failed' = IF KeptAsFailed(answer) THEN failed \cup {v} ELSE failed
            /\ IF answer = "other" THEN Wrong /\ Thrown
               ELSE UNCHANGED <<process, op, at, vbc, sets, mishap>>
            /\ UNCHANGED <<volumes, described>>

\* All were pushed, however many have shadows: do_snapshot begins.
DoSnapshot ==
  /\ op = "push" /\ waiting = {}
  /\ IF state # "PushingTargets" THEN IncorrectUsage
     ELSE /\ op' = "do" /\ at' = 1 /\ state' = "Invalid"
          /\ UNCHANGED <<process, vbc, volumes, waiting, shadows, described, failed, sets,
                         mishap>>

\* do_snapshot has made the set; its properties are next.
SnapshotPerformed ==
  /\ op = "do" /\ at > Len(Calls(op))
  /\ op' = "properties" /\ state' = "SnapshotPerformed"
  /\ UNCHANGED <<process, at, vbc, volumes, waiting, shadows, described, failed, sets, mishap>>

\* populate_properties for one shadow; a failure is thrown by the constructor.
GetSnapshotProperties(v) ==
  /\ op = "properties" /\ v \in shadows \ described
  /\ \/ /\ described' = described \cup {v}
        /\ UNCHANGED <<process, op, at, vbc, sets, mishap>>
     \/ Wrong /\ Thrown /\ UNCHANGED described
  /\ UNCHANGED <<state, volumes, waiting, shadows, failed>>

\* The constructor returns: the path mapper is set and the backup runs.
BackupBegins ==
  /\ op = "properties" /\ described = shadows
  /\ op' = "backup"
  /\ UNCHANGED <<process, at, state, vbc, volumes, waiting, shadows, described, failed, sets, mishap>>

DestroyFrom_Wrong == IF state = "PushingTargets" THEN 1 ELSE Len(Calls("destroy")) + 1

\* The destructor deletes the set only if the snapshot was performed.
DestroyFrom == IF state = "SnapshotPerformed" THEN 1 ELSE Len(Calls("destroy")) + 1

\* The backup returns and the using block disposes of the snapshot.
BackupEnds ==
  /\ op = "backup"
  /\ op' = "destroy" /\ at' = DestroyFrom
  /\ UNCHANGED <<process, state, vbc, volumes, waiting, shadows, described, failed, sets, mishap>>

\* The backup throws.  Nothing catches the exception, so that the runtime may end
\* the process without running the finally part of the using block.
BackupThrows ==
  /\ op = "backup"
  /\ Wrong
  /\ \/ op' = "destroy" /\ at' = DestroyFrom /\ UNCHANGED <<process, vbc, sets>>
     \/ Thrown
  /\ UNCHANGED <<state, volumes, waiting, shadows, described, failed>>

Release_WrongKeepsInterface ==
  /\ op = "destroy" /\ at > Len(Calls(op))
  /\ op' = "none" /\ at' = 1
  /\ UNCHANGED <<vbc, sets>>
  /\ process' = IF mishap[Backup] = "backup" THEN "ended" ELSE process
  /\ UNCHANGED <<state, volumes, waiting, shadows, described, failed, mishap>>

\* The end of the destructor.
Release ==
  /\ op = "destroy" /\ at > Len(Calls(op))
  /\ op' = "none" /\ at' = 1
  /\ vbc' = FALSE /\ sets' = Released
  /\ process' = IF mishap[Backup] = "backup" THEN "ended" ELSE process
  /\ UNCHANGED <<state, volumes, waiting, shadows, described, failed, mishap>>

\* The process is killed, or ended by its user, at any moment.
Kill ==
  /\ process = "running"
  /\ IF op = "none" THEN UNCHANGED mishap ELSE Wrong
  /\ Thrown
  /\ UNCHANGED <<state, volumes, waiting, shadows, described, failed>>

\* The program is started again.
StartProcess ==
  /\ process \in {"ended", "crashed"}
  /\ process' = "running"
  /\ UNCHANGED <<op, at, state, vbc, volumes, waiting, shadows, described, failed, sets, mishap>>

Init ==
  /\ process = "running" /\ op = "none" /\ at = 1
  /\ state = "Initial" /\ vbc = FALSE
  /\ volumes = {} /\ waiting = {} /\ shadows = {} /\ described = {} /\ failed = {}
  /\ sets = <<>> /\ mishap = <<>>

\* The program's own steps; to begin a backup is the user's.
Step ==
  \/ CallSucceeds \/ CallFails \/ Begun
  \/ \E v \in Volumes : PushTarget(v)
  \/ DoSnapshot \/ SnapshotPerformed
  \/ \E v \in Volumes : GetSnapshotProperties(v)
  \/ BackupBegins \/ BackupEnds \/ BackupThrows \/ Release

Next == PerformBackup \/ Step \/ Kill \/ StartProcess

\* Every call of the service returns, and so does the backup; nobody need begin
\* another one.
Spec == Init /\ [][Next]_vars /\ WF_vars(Step)

----------------------------------------------------------------------------
(* Properties                                                              *)

Operations == {"none", "begin", "push", "do", "properties", "backup", "destroy"}

\* Every variable has its sort, and the interface is held within a backup only.
TypeOK ==
  /\ process \in {"running", "ended", "crashed"}
  /\ op \in Operations /\ at \in 1..7
  /\ state \in {"Initial", "PushingTargets", "SnapshotPerformed", "Invalid"}
  /\ vbc \in BOOLEAN /\ (vbc => op # "none")
  /\ volumes \subseteq Volumes /\ waiting \subseteq Volumes /\ shadows \subseteq Volumes
  /\ described \subseteq Volumes /\ failed \subseteq Volumes
  /\ sets \in Seq({"none", "started", "exists"})
  /\ mishap \in Seq(Operations)
  /\ Len(mishap) = Len(sets)

\* The calls the constructor makes never meet the object in a state in which the
\* native code throws an exception that crosses the exported functions: the
\* errors the two sides tolerate are the same.
UsedCorrectly == process # "crashed"

\* While a backup runs, its set exists, and each volume it was asked for either
\* has a described shadow in it or is known to have failed.
BackupHasItsShadows ==
  op = "backup" =>
    /\ sets[Backup] = "exists"
    /\ waiting = {} /\ described = shadows
    /\ shadows \cup failed = volumes /\ shadows \cap failed = {}

\* A set that outlives its backup is left for one of these reasons: reading its
\* properties failed, the backup threw, a call of the destructor failed before the
\* deletion, or the process was killed while the set existed.  A failure before
\* the set is made leaves none.
SetsLeftForKnownReasons ==
  \A n \in 1..Len(sets) :
    /\ sets[n] = "started" => n = Backup /\ op # "none"
    /\ sets[n] = "exists" /\ (n < Backup \/ op = "none") =>
         mishap[n] \in {"do", "properties", "backup", "destroy"}

\* A destructor that has begun releases the interface, whichever of its calls
\* fails, or the process ends.
InterfaceIsReleased == op = "destroy" ~> ~vbc
=============================================================================
