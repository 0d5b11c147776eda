------------------------- MODULE VssSnapshot_proofs -------------------------
(***************************************************************************)
(* Proofs of the safety properties of VssSnapshot, for every set of        *)
(* volumes and any number of backups.                                      *)
(*                                                                         *)
(* None of them is inductive.  What a shadow copy set is depends on how    *)
(* far the calls of an operation have come, and why a set was left on      *)
(* what went wrong before: Stages says of each operation what the object,  *)
(* the volumes and the current set are meanwhile, Earlier what became of   *)
(* the sets of the backups before.                                         *)
(***************************************************************************)
EXTENDS VssSnapshot, TLAPS

SetStates == {"none", "started", "exists"}
Reasons   == {"do", "properties", "backup", "destroy"}

\* Pushing divides the volumes into those to come, those with a shadow and those
\* that failed.
Divided ==
  /\ waiting \cup shadows \cup failed = volumes
  /\ shadows \cap failed = {} /\ waiting \cap shadows = {} /\ waiting \cap failed = {}

Stages ==
  /\ op # "none" => process = "running" /\ Backup > 0
  /\ op \in {"begin", "push", "do", "properties", "backup"} => mishap[Backup] = "none"
  /\ op \in {"begin", "push", "do"} => described = {}
  /\ op # "none" /\ op # "destroy" => Divided
  /\ op = "begin" => sets[Backup] = IF at = 7 THEN "started" ELSE "none"
  /\ op = "push" => state = "PushingTargets" /\ sets[Backup] = "started"
  /\ op \in {"do", "properties", "backup"} => waiting = {}
  /\ op = "do" => at <= 6 /\ sets[Backup] = IF at = 6 THEN "exists" ELSE "started"
  /\ op \in {"properties", "backup"} => sets[Backup] = "exists"
  /\ op \in {"properties", "backup", "destroy"} => state = "SnapshotPerformed"
  /\ op = "backup" => described = shadows
  /\ op = "destroy" => /\ at <= 5 /\ sets[Backup] # "started"
                       /\ mishap[Backup] \in {"none", "backup", "destroy"}
                       /\ at = 5 /\ sets[Backup] = "exists" => mishap[Backup] # "none"

\* A set that is over is gone, or was left for a reason.
Over(n) == sets[n] = "none" \/ (sets[n] = "exists" /\ mishap[n] \in Reasons)

Earlier == \A n \in 1..Len(sets) : (n < Backup \/ op = "none") => Over(n)

IInv == TypeOK /\ UsedCorrectly /\ Stages /\ Earlier

----------------------------------------------------------------------------
\* The calls of an operation, as far as they change anything: how many there are
\* and which of them make, perform and delete the set.
LEMMA CallsOf ==
  /\ Len(Calls("begin")) = 6 /\ Len(Calls("do")) = 5 /\ Len(Calls("destroy")) = 4
  /\ \A i \in 1..6 : /\ Calls("begin")[i] = "StartSnapshotSet" <=> i = 6
                     /\ Calls("begin")[i] \notin {"DoSnapshotSet", "DeleteSnapshots"}
  /\ \A i \in 1..5 : /\ Calls("do")[i] = "DoSnapshotSet" <=> i = 5
                     /\ Calls("do")[i] \notin {"StartSnapshotSet", "DeleteSnapshots"}
  /\ \A i \in 1..4 : /\ Calls("destroy")[i] = "DeleteSnapshots" <=> i = 4
                     /\ Calls("destroy")[i] \notin {"StartSnapshotSet", "DoSnapshotSet"}
  BY DEF Calls

\* Releasing the interface takes away the sets that were only started.
LEMMA ReleasedSets ==
  ASSUME sets \in Seq(SetStates)
  PROVE  /\ Released \in Seq(SetStates) /\ Len(Released) = Len(sets)
         /\ \A n \in 1..Len(sets) :
              Released[n] = IF sets[n] = "started" THEN "none" ELSE sets[n]
  <1>1. DOMAIN sets = 1..Len(sets) /\ Len(sets) \in Nat
    OBVIOUS
  <1>2. \A n \in 1..Len(sets) : sets[n] \in SetStates
    OBVIOUS
  <1>3. Released = [n \in 1..Len(sets) |-> IF sets[n] = "started" THEN "none" ELSE sets[n]]
    BY <1>1 DEF Released
  <1> QED  BY <1>1, <1>2, <1>3 DEF SetStates

\* The first thing that goes wrong in a backup is remembered, and nothing else of
\* the past changes.
LEMMA WrongMishap ==
  ASSUME TypeOK, Backup > 0, op # "none", Wrong
  PROVE  /\ mishap' \in Seq(Operations) /\ Len(mishap') = Len(mishap)
         /\ mishap'[Backup] = IF mishap[Backup] = "none" THEN op ELSE mishap[Backup]
         /\ \A n \in 1..Len(sets) : n < Backup => mishap'[n] = mishap[n]
  BY DEF TypeOK, Wrong, Backup

\* Stages and Earlier speak of an ended operation only through its set.
LEMMA OverWhenNone ==
  ASSUME TypeOK', op' = "none", process' # "crashed", \A n \in 1..Len(sets') : Over(n)'
  PROVE  IInv'
  BY DEF IInv, UsedCorrectly, Stages, Earlier

\* An operation that is given up, or has come to its end, leaves no set that was
\* only started; one that exists was left for a reason, since the operation had got
\* beyond begin and push.
LEMMA GivenUp ==
  ASSUME IInv, process' \in {"running", "ended"}, op' = "none", at' = 1, vbc' = FALSE,
         sets' = Released,
         state' \in {"Initial", "PushingTargets", "SnapshotPerformed", "Invalid"},
         volumes' = volumes, waiting' \subseteq Volumes, shadows' \subseteq Volumes,
         described' \subseteq Volumes, failed' \subseteq Volumes,
         \/ op = "none" /\ mishap' = mishap
         \/ op # "none" /\ Wrong
         \/ op = "destroy" /\ at = 5 /\ mishap' = mishap
  PROVE  IInv'
  <1>1. /\ sets' \in Seq(SetStates) /\ Len(sets') = Len(sets) /\ Len(sets) \in Nat
        /\ \A n \in 1..Len(sets) :
             sets'[n] = IF sets[n] = "started" THEN "none" ELSE sets[n]
    BY ReleasedSets DEF IInv, TypeOK, SetStates
  <1>2. /\ mishap' \in Seq(Operations) /\ Len(mishap') = Len(sets')
        /\ \A n \in 1..Len(sets) : n < Backup => mishap'[n] = mishap[n]
    BY <1>1, WrongMishap DEF IInv, TypeOK, Stages, Backup
  <1>3. TypeOK'
    <2>1. volumes' \subseteq Volumes
      BY DEF IInv, TypeOK
    <2>2. /\ sets' \in Seq({"none", "started", "exists"})
          /\ mishap' \in Seq(Operations) /\ Len(mishap') = Len(sets')
      BY <1>1, <1>2 DEF SetStates
    <2>3. op' \in Operations /\ at' \in 1..7
      BY DEF Operations
    <2>5. vbc' \in BOOLEAN /\ (vbc' => op' # "none")
      BY Zenon
    <2>4. process' \in {"running", "ended", "crashed"}
      OBVIOUS
    <2> HIDE DEF Operations
    <2> QED  BY <2>1, <2>2, <2>3, <2>4, <2>5 DEF TypeOK
  <1>4. \A n \in 1..Len(sets) : sets[n] \in SetStates
    BY DEF IInv, TypeOK, SetStates
  <1>5. ASSUME NEW n \in 1..Len(sets') PROVE Over(n)'
    <2>1. n \in 1..Len(sets)
      BY <1>1
    <2>2. CASE n < Backup \/ op = "none"
      <3>1. Over(n) /\ mishap'[n] = mishap[n]
        BY <1>2, <2>1, <2>2 DEF IInv, Earlier
      <3> QED  BY <1>1, <2>1, <3>1 DEF Over
    <2>3. CASE op # "none" /\ n = Backup
      <3>1. op \in Operations /\ mishap[Backup] \in Operations
        BY <2>1, <2>3, <1>1 DEF IInv, TypeOK
      <3>2. CASE Wrong
        <4>1. mishap'[Backup] = IF mishap[Backup] = "none" THEN op ELSE mishap[Backup]
          BY <2>3, <3>2, WrongMishap DEF IInv, Stages
        <4>2. CASE op \in {"begin", "push"}
          <5>1. sets[Backup] # "exists"
            BY <4>2 DEF IInv, Stages
          <5> QED  BY <1>1, <1>4, <2>1, <2>3, <5>1 DEF Over, SetStates
        <4>3. CASE op \in {"do", "properties", "backup"}
          <5>1. mishap'[Backup] = op
            BY <4>1, <4>3 DEF IInv, Stages
          <5> QED  BY <1>1, <1>4, <2>1, <2>3, <4>3, <5>1 DEF Over, SetStates, Reasons
        <4>4. CASE op = "destroy"
          <5>1. mishap'[Backup] \in {"destroy", "backup"}
            BY <4>1, <4>4 DEF IInv, Stages
          <5> QED  BY <1>1, <1>4, <2>1, <2>3, <5>1 DEF Over, SetStates, Reasons
        <4> QED  BY <2>3, <3>1, <4>2, <4>3, <4>4 DEF Operations
      <3>3. CASE op = "destroy" /\ at = 5 /\ mishap' = mishap
        <4>1. sets[Backup] = "exists" => mishap[Backup] \in {"backup", "destroy"}
          BY <3>3 DEF IInv, Stages
        <4> QED  BY <1>1, <1>4, <2>1, <2>3, <3>3, <4>1 DEF Over, SetStates, Reasons
      <3> QED  BY <2>3, <3>2, <3>3
    <2> QED  BY <2>1, <2>2, <2>3, <1>1 DEF Backup
  <1> QED  BY <1>3, <1>5, OverWhenNone

\* A step of an operation that goes on and neither touches a set nor goes wrong
\* leaves the past as it was.
LEMMA EarlierKept ==
  ASSUME IInv, sets' = sets, mishap' = mishap, op # "none", op' # "none"
  PROVE  Earlier'
  BY DEF IInv, Earlier, Over, Backup

----------------------------------------------------------------------------
\* The first state, and then each action.
LEMMA InitIInv == Init => IInv
  <1> SUFFICES ASSUME Init PROVE IInv
    OBVIOUS
  <1>1. sets = <<>> /\ mishap = <<>> /\ op = "none" /\ vbc = FALSE /\ at = 1
    BY DEF Init
  <1>2. TypeOK
    <2>1. vbc \in BOOLEAN /\ (vbc => op # "none")
      BY <1>1, Zenon
    <2>2. /\ sets \in Seq({"none", "started", "exists"}) /\ mishap \in Seq(Operations)
          /\ Len(mishap) = Len(sets)
      BY <1>1
    <2>3. at \in 1..7 /\ op \in Operations
      BY <1>1 DEF Operations
    <2> QED  BY <2>1, <2>2, <2>3 DEF Init, TypeOK
  <1>3. UsedCorrectly /\ Stages
    BY <1>1 DEF Init, UsedCorrectly, Stages
  <1>4. Earlier
    BY <1>1 DEF Earlier
  <1> QED  BY <1>2, <1>3, <1>4 DEF IInv

\* PerformBackup begins with an object of its own and no set.
LEMMA PerformBackupIInv == IInv /\ PerformBackup => IInv'
  <1> SUFFICES ASSUME IInv, PerformBackup PROVE IInv'
    OBVIOUS
  <1>1. /\ sets \in Seq(SetStates) /\ mishap \in Seq(Operations) /\ Len(mishap) = Len(sets)
        /\ Len(sets) \in Nat
    BY DEF IInv, TypeOK, SetStates
  <1>2. /\ sets' \in Seq(SetStates) /\ mishap' \in Seq(Operations)
        /\ Len(sets') = Len(sets) + 1 /\ Len(mishap') = Len(sets')
        /\ sets'[Len(sets')] = "none" /\ mishap'[Len(sets')] = "none"
        /\ \A n \in 1..Len(sets) : sets'[n] = sets[n] /\ mishap'[n] = mishap[n]
    BY <1>1 DEF PerformBackup, SetStates, Operations
  <1>3. TypeOK'
    <2>1. vbc' \in BOOLEAN /\ (vbc' => op' # "none")
      BY Zenon DEF PerformBackup
    <2>2. at' \in 1..7 /\ op' \in Operations
      BY DEF PerformBackup, Operations
    <2> QED  BY <1>2, <2>1, <2>2 DEF IInv, TypeOK, PerformBackup, SetStates
  <1>4. Stages'
    BY <1>1, <1>2 DEF Stages, Divided, PerformBackup, Backup
  <1>5. Earlier'
    BY <1>1, <1>2 DEF IInv, Earlier, Over, PerformBackup, Backup
  <1> QED  BY <1>3, <1>4, <1>5 DEF IInv, UsedCorrectly, PerformBackup

\* A call that succeeds changes the current set as CallsOf says.
LEMMA CallSucceedsIInv == IInv /\ CallSucceeds => IInv'
  <1> SUFFICES ASSUME IInv, CallSucceeds PROVE IInv'
    OBVIOUS
  <1> DEFINE call == Calls(op)[at]
             set == CASE call = "StartSnapshotSet" -> "started"
                      [] call = "DoSnapshotSet" -> "exists"
                      [] call = "DeleteSnapshots" -> "none"
                      [] OTHER -> sets[Backup]
  <1>1. /\ sets \in Seq(SetStates) /\ Len(sets) \in Nat /\ Backup = Len(sets) /\ Backup > 0
        /\ op \in {"begin", "do", "destroy"} /\ at \in 1..7 /\ at <= Len(Calls(op))
    BY DEF IInv, TypeOK, Stages, SetStates, Backup, CallSucceeds
  <1>2. /\ op = "begin" => at <= 6 /\ set = IF at = 6 THEN "started" ELSE "none"
        /\ op = "do" => at <= 5 /\ set = IF at = 5 THEN "exists" ELSE "started"
        /\ op = "destroy" => at <= 4 /\ set = IF at = 4 THEN "none" ELSE sets[Backup]
    <2>1. CASE op = "begin"
      <3>1. Calls(op) = Calls("begin")
        BY <2>1
      <3>5. Len(Calls(op)) = 6
        BY <3>1, CallsOf
      <3>6. at \in 1..6
        BY <1>1, <3>5
      <3>2. at \in 1..6 /\ (call = "StartSnapshotSet" <=> at = 6) /\ call \notin {"DoSnapshotSet", "DeleteSnapshots"}
        BY <3>1, <3>6, CallsOf, Zenon
      <3> HIDE DEF call
      <3> QED  BY <1>1, <2>1, <3>2 DEF IInv, Stages
    <2>2. CASE op = "do"
      <3>1. Calls(op) = Calls("do")
        BY <2>2
      <3>5. Len(Calls(op)) = 5
        BY <3>1, CallsOf
      <3>6. at \in 1..5
        BY <1>1, <3>5
      <3>2. at \in 1..5 /\ (call = "DoSnapshotSet" <=> at = 5) /\ call \notin {"StartSnapshotSet", "DeleteSnapshots"}
        BY <3>1, <3>6, CallsOf, Zenon
      <3> HIDE DEF call
      <3> QED  BY <1>1, <2>2, <3>2 DEF IInv, Stages
    <2>3. CASE op = "destroy"
      <3>1. Calls(op) = Calls("destroy")
        BY <2>3
      <3>5. Len(Calls(op)) = 4
        BY <3>1, CallsOf
      <3>6. at \in 1..4
        BY <1>1, <3>5
      <3>2. at \in 1..4 /\ (call = "DeleteSnapshots" <=> at = 4) /\ call \notin {"StartSnapshotSet", "DoSnapshotSet"}
        BY <3>1, <3>6, CallsOf, Zenon
      <3> HIDE DEF call
      <3> QED  BY <1>1, <2>3, <3>2 DEF IInv, Stages
    <2> QED  BY <1>1, <2>1, <2>2, <2>3
  <1>3. sets' = [sets EXCEPT ![Backup] = set]
    BY DEF CallSucceeds
  <1>4. set \in SetStates
    BY <1>1, <1>2 DEF SetStates
  <1> HIDE DEF set
  <1>5. /\ sets' \in Seq(SetStates) /\ Len(sets') = Len(sets) /\ sets'[Backup] = set
        /\ \A n \in 1..Len(sets) : n < Backup => sets'[n] = sets[n]
    BY <1>1, <1>3, <1>4
  <1>6. vbc' \in BOOLEAN /\ op' # "none" /\ op' = op /\ at' = at + 1
    BY <1>1 DEF CallSucceeds, IInv, TypeOK
  <1>7. TypeOK'
    BY <1>1, <1>2, <1>5, <1>6 DEF IInv, TypeOK, CallSucceeds, SetStates
  <1>8. Stages'
    BY <1>1, <1>2, <1>5, <1>6 DEF IInv, Stages, Divided, Backup, CallSucceeds
  <1>9. Earlier'
    BY <1>1, <1>5, <1>6 DEF IInv, Earlier, Over, Backup, CallSucceeds
  <1> QED  BY <1>7, <1>8, <1>9 DEF IInv, UsedCorrectly, CallSucceeds

\* A call that fails gives the operation up, except in the destructor.
LEMMA CallFailsIInv == IInv /\ CallFails => IInv'
  <1> SUFFICES ASSUME IInv, CallFails PROVE IInv'
    OBVIOUS
  <1>1. CASE op = "destroy"
    <2>1. /\ at' = 5 /\ op' = op /\ sets' = sets /\ vbc' = vbc /\ Backup > 0
          /\ Len(sets) \in Nat /\ Backup = Len(sets)
      <3>1. Calls(op) = Calls("destroy")
        BY <1>1
      <3>2. Len(Calls(op)) = 4
        BY <3>1, CallsOf
      <3>3. /\ op' = op /\ sets' = sets /\ vbc' = vbc /\ at' = Len(Calls(op)) + 1
        BY <1>1, Zenon DEF CallFails
      <3>4. Backup > 0 /\ Len(sets) \in Nat /\ Backup = Len(sets)
        BY <1>1 DEF IInv, Stages, TypeOK, Backup
      <3> QED  BY <3>2, <3>3, <3>4
    <2>2. /\ mishap' \in Seq(Operations) /\ Len(mishap') = Len(mishap)
          /\ mishap'[Backup] = IF mishap[Backup] = "none" THEN op ELSE mishap[Backup]
          /\ \A n \in 1..Len(sets) : n < Backup => mishap'[n] = mishap[n]
      BY <1>1, <2>1, WrongMishap DEF CallFails, IInv
    <2>3. TypeOK'
      BY <1>1, <2>1, <2>2 DEF IInv, TypeOK, CallFails
    <2>4. Stages'
      BY <1>1, <2>1, <2>2 DEF IInv, Stages, Divided, Backup, CallFails
    <2>5. Earlier'
      BY <1>1, <2>1, <2>2 DEF IInv, Earlier, Over, Backup
    <2> QED  BY <1>1, <2>3, <2>4, <2>5 DEF IInv, UsedCorrectly, CallFails
  <1>2. CASE op # "destroy"
    BY <1>2, GivenUp DEF CallFails, Thrown, IInv, TypeOK
  <1> QED  BY <1>1, <1>2

\* The steps that call nothing: to the next operation, or to the next volume.
LEMMA QuietIInv ==
  IInv /\ (Begun \/ DoSnapshot \/ SnapshotPerformed \/ BackupBegins \/ BackupEnds) => IInv'
  <1> SUFFICES ASSUME IInv,
                      Begun \/ DoSnapshot \/ SnapshotPerformed \/ BackupBegins \/ BackupEnds
               PROVE  IInv'
    OBVIOUS
  <1>1. op \in {"begin", "push", "do", "properties", "backup"} /\ Backup > 0
    BY DEF IInv, Stages, Begun, DoSnapshot, SnapshotPerformed, BackupBegins, BackupEnds
  <1>2. /\ sets' = sets /\ mishap' = mishap /\ vbc' = vbc /\ process' = process
        /\ op' \in {"push", "do", "properties", "backup", "destroy"}
        /\ at' \in 1..7
        /\ state' \in {"Initial", "PushingTargets", "SnapshotPerformed", "Invalid"}
        /\ UNCHANGED <<volumes, waiting, shadows, described, failed>>
    <2>1. CASE Begun
      BY <2>1 DEF Begun, IInv, TypeOK
    <2>2. CASE DoSnapshot
      BY <2>2 DEF DoSnapshot, IInv, Stages
    <2>3. CASE SnapshotPerformed
      BY <2>3 DEF SnapshotPerformed, IInv, TypeOK
    <2>4. CASE BackupBegins
      BY <2>4 DEF BackupBegins, IInv, TypeOK
    <2>5. CASE BackupEnds
      <3>1. at' = 1
        BY <2>5 DEF BackupEnds, DestroyFrom, IInv, Stages
      <3> QED  BY <2>5, <3>1 DEF BackupEnds, IInv, TypeOK
    <2> QED  BY <2>1, <2>2, <2>3, <2>4, <2>5
  <1>3. TypeOK'
    <2>1. op' \in Operations
      BY <1>2 DEF Operations
    <2>2. vbc' \in BOOLEAN /\ (vbc' => op' # "none")
      BY <1>2 DEF IInv, TypeOK
    <2> QED  BY <1>2, <2>1, <2>2 DEF IInv, TypeOK
  <1>4. Stages'
    <2>1. CASE Begun
      <3>1. Len(Calls(op)) = 6
        BY <2>1, CallsOf DEF Begun
      <3>2. at \in 1..7 /\ at > 6
        BY <2>1, <3>1 DEF Begun, IInv, TypeOK
      <3> QED  BY <2>1, <3>2 DEF Begun, IInv, Stages, Divided, Backup
    <2>2. CASE DoSnapshot
      BY <2>2 DEF DoSnapshot, IInv, Stages, Divided, Backup
    <2>3. CASE SnapshotPerformed
      <3>1. Len(Calls(op)) = 5
        BY <2>3, CallsOf DEF SnapshotPerformed
      <3>2. at \in 1..7 /\ at > 5
        BY <2>3, <3>1 DEF SnapshotPerformed, IInv, TypeOK
      <3> QED  BY <2>3, <3>2 DEF SnapshotPerformed, IInv, Stages, Divided, Backup
    <2>4. CASE BackupBegins
      BY <2>4 DEF BackupBegins, IInv, Stages, Divided, Backup
    <2>5. CASE BackupEnds
      <3>1. at' = 1
        BY <2>5 DEF BackupEnds, DestroyFrom, IInv, Stages
      <3> QED  BY <2>5, <3>1 DEF BackupEnds, IInv, Stages, Backup
    <2> QED  BY <2>1, <2>2, <2>3, <2>4, <2>5
  <1>5. Earlier'
    BY <1>1, <1>2, EarlierKept
  <1> QED  BY <1>2, <1>3, <1>4, <1>5 DEF IInv, UsedCorrectly

\* A pushed volume goes to one side of the division, or the backup is given up.
LEMMA PushTargetIInv ==
  ASSUME NEW v \in Volumes
  PROVE  IInv /\ PushTarget(v) => IInv'
  <1> SUFFICES ASSUME IInv, PushTarget(v) PROVE IInv'
    OBVIOUS
  <1>1. /\ op = "push" /\ state = "PushingTargets" /\ v \in waiting
        /\ UNCHANGED <<volumes, described>> /\ waiting' = waiting \ {v}
    BY DEF PushTarget, IInv, Stages
  <1>2. PICK answer \in Answers :
          /\ state' = AfterPush(answer)
          /\ shadows' = IF answer = "S_OK" THEN shadows \cup {v} ELSE shadows
          /\ failed' = IF KeptAsFailed(answer) THEN failed \cup {v} ELSE failed
          /\ IF answer = "other" THEN Wrong /\ Thrown
             ELSE UNCHANGED <<process, op, at, vbc, sets, mishap>>
    BY <1>1 DEF PushTarget
  <1>3. CASE answer = "other"
    BY <1>1, <1>2, <1>3, GivenUp DEF Thrown, AfterPush, IInv, TypeOK
  <1>4. CASE answer # "other"
    <2>1. state' = "PushingTargets" /\ (answer = "S_OK" <=> ~KeptAsFailed(answer))
      BY <1>2, <1>4 DEF Answers, AfterPush, KeptAsFailed, Tolerated
    <2>2. UNCHANGED <<process, op, at, vbc, sets, mishap>>
      BY <1>2, <1>4
    <2>3. TypeOK'
      BY <1>1, <1>2, <2>1, <2>2 DEF IInv, TypeOK
    <2>4. Divided'
      BY <1>1, <1>2, <2>1 DEF IInv, Stages, Divided
    <2>5. Stages'
      BY <1>1, <2>1, <2>2, <2>4 DEF IInv, Stages, Backup
    <2>6. Earlier'
      BY <1>1, <2>2, EarlierKept
    <2> QED  BY <2>2, <2>3, <2>5, <2>6 DEF IInv, UsedCorrectly
  <1> QED  BY <1>3, <1>4

\* A shadow is described, or the backup is given up.
LEMMA GetSnapshotPropertiesIInv ==
  ASSUME NEW v \in Volumes
  PROVE  IInv /\ GetSnapshotProperties(v) => IInv'
  <1> SUFFICES ASSUME IInv, GetSnapshotProperties(v) PROVE IInv'
    OBVIOUS
  <1>1. op = "properties" /\ v \in shadows /\ UNCHANGED <<state, volumes, waiting, shadows, failed>>
    BY DEF GetSnapshotProperties
  <1>2. CASE Wrong /\ Thrown /\ UNCHANGED described
    BY <1>1, <1>2, GivenUp DEF Thrown, IInv, TypeOK
  <1>3. CASE described' = described \cup {v} /\ UNCHANGED <<process, op, at, vbc, sets, mishap>>
    <2>1. TypeOK'
      BY <1>1, <1>3 DEF IInv, TypeOK
    <2>2. Stages'
      BY <1>1, <1>3 DEF IInv, Stages, Divided, Backup
    <2>3. Earlier'
      BY <1>1, <1>3, EarlierKept
    <2> QED  BY <1>3, <2>1, <2>2, <2>3 DEF IInv, UsedCorrectly
  <1> QED  BY <1>2, <1>3 DEF GetSnapshotProperties

\* A backup that throws is disposed of or given up.
LEMMA BackupThrowsIInv == IInv /\ BackupThrows => IInv'
  <1> SUFFICES ASSUME IInv, BackupThrows PROVE IInv'
    OBVIOUS
  <1>1. op = "backup" /\ Wrong /\ UNCHANGED <<state, volumes, waiting, shadows, described, failed>>
    BY DEF BackupThrows
  <1>2. CASE Thrown
    BY <1>1, <1>2, GivenUp DEF Thrown, IInv, TypeOK
  <1>3. CASE op' = "destroy" /\ at' = DestroyFrom /\ UNCHANGED <<process, vbc, sets>>
    <2>1. at' = 1 /\ Backup > 0 /\ Len(sets) \in Nat /\ Backup = Len(sets)
      BY <1>1, <1>3 DEF DestroyFrom, IInv, TypeOK, Stages, Backup
    <2>2. /\ mishap' \in Seq(Operations) /\ Len(mishap') = Len(mishap)
          /\ mishap'[Backup] = "backup"
          /\ \A n \in 1..Len(sets) : n < Backup => mishap'[n] = mishap[n]
      BY <1>1, <2>1, WrongMishap DEF IInv, Stages
    <2>3. TypeOK'
      <3>1. op' \in Operations
        BY <1>3 DEF Operations
      <3>2. vbc' \in BOOLEAN /\ (vbc' => op' # "none")
        BY <1>3 DEF IInv, TypeOK
      <3> QED  BY <1>1, <1>3, <2>1, <2>2, <3>1, <3>2 DEF IInv, TypeOK
    <2>4. Stages'
      BY <1>1, <1>3, <2>1, <2>2 DEF IInv, Stages, Backup
    <2>5. Earlier'
      BY <1>1, <1>3, <2>1, <2>2 DEF IInv, Earlier, Over, Backup
    <2> QED  BY <1>3, <2>3, <2>4, <2>5 DEF IInv, UsedCorrectly
  <1> QED  BY <1>2, <1>3 DEF BackupThrows

\* The end of the destructor is the end of the backup.
LEMMA ReleaseIInv == IInv /\ Release => IInv'
  <1> SUFFICES ASSUME IInv, Release PROVE IInv'
    OBVIOUS
  <1>1. Len(Calls("destroy")) = 4
    BY CallsOf
  <1>2. op = "destroy" /\ at > 4
    BY <1>1 DEF Release
  <1>3. at = 5
    BY <1>2 DEF IInv, TypeOK, Stages
  <1>4. process' \in {"running", "ended"}
    BY <1>2 DEF Release, IInv, Stages
  <1> QED  BY <1>2, <1>3, <1>4, GivenUp DEF Release, IInv, TypeOK

\* A killed process gives up what it was in.
LEMMA KillIInv == IInv /\ Kill => IInv'
  <1> SUFFICES ASSUME IInv, Kill PROVE IInv'
    OBVIOUS
  <1>1. (op = "none" /\ mishap' = mishap) \/ (op # "none" /\ Wrong)
    BY DEF Kill
  <1> QED  BY <1>1, GivenUp DEF Kill, Thrown, IInv, TypeOK

\* A new process finds the sets as they were left.
LEMMA StartProcessIInv == IInv /\ StartProcess => IInv'
  <1> SUFFICES ASSUME IInv, StartProcess PROVE IInv'
    OBVIOUS
  <1>1. /\ op = "none" /\ process' = "running"
        /\ UNCHANGED <<op, at, state, vbc, volumes, waiting, shadows, described, failed, sets,
                       mishap>>
    BY DEF StartProcess, IInv, Stages
  <1>2. TypeOK'
    BY <1>1 DEF IInv, TypeOK
  <1>3. \A n \in 1..Len(sets') : Over(n)'
    BY <1>1 DEF IInv, Earlier, Over
  <1> QED  BY <1>1, <1>2, <1>3, OverWhenNone

----------------------------------------------------------------------------
\* Every step keeps the invariant (VssSnapshot, its owner and the service).
THEOREM Inductive == Spec => []IInv
  <1>1. IInv /\ [Next]_vars => IInv'
    <2> SUFFICES ASSUME IInv, [Next]_vars PROVE IInv'
      OBVIOUS
    <2>1. CASE UNCHANGED vars
      BY <2>1 DEF vars, IInv, TypeOK, UsedCorrectly, Stages, Divided, Earlier, Over, Backup
    <2>2. CASE PerformBackup
      BY <2>2, PerformBackupIInv
    <2>3. CASE Kill
      BY <2>3, KillIInv
    <2>4. CASE StartProcess
      BY <2>4, StartProcessIInv
    <2>5. CASE Step
      BY <2>5, CallSucceedsIInv, CallFailsIInv, QuietIInv, PushTargetIInv,
         GetSnapshotPropertiesIInv, BackupThrowsIInv, ReleaseIInv DEF Step
    <2> QED  BY <2>1, <2>2, <2>3, <2>4, <2>5 DEF Next
  <1> QED  BY <1>1, InitIInv, PTL DEF Spec

\* Type correctness of VssSnapshot.
THEOREM TypeCorrect == Spec => []TypeOK
  <1>1. IInv => TypeOK
    BY DEF IInv
  <1> QED  BY <1>1, Inductive, PTL

\* VolumeSnapshot never calls a native function in a state it throws in across
\* the exported functions, whichever errors the service answers with.
THEOREM NeverCrashes == Spec => []UsedCorrectly
  <1>1. IInv => UsedCorrectly
    BY DEF IInv
  <1> QED  BY <1>1, Inductive, PTL

\* A backup that runs has its set, and a shadow of each volume that did not fail,
\* however many volumes there are.
THEOREM HasItsShadows == Spec => []BackupHasItsShadows
  <1>1. IInv => BackupHasItsShadows
    BY DEF IInv, Stages, Divided, BackupHasItsShadows
  <1> QED  BY <1>1, Inductive, PTL

\* Sets are left on the machine for the known reasons only, after any number of
\* backups and processes.
THEOREM LeftForKnownReasons == Spec => []SetsLeftForKnownReasons
  <1>1. ASSUME IInv, NEW n \in 1..Len(sets)
        PROVE  /\ sets[n] = "started" => n = Backup /\ op # "none"
               /\ sets[n] = "exists" /\ (n < Backup \/ op = "none") => mishap[n] \in Reasons
    <2>1. Len(sets) \in Nat /\ Backup = Len(sets)
      BY <1>1 DEF IInv, TypeOK, Backup
    <2> QED  BY <1>1, <2>1 DEF IInv, Earlier, Over
  <1>2. IInv => SetsLeftForKnownReasons
    BY <1>1 DEF SetsLeftForKnownReasons, Reasons
  <1> QED  BY <1>2, Inductive, PTL
=============================================================================
