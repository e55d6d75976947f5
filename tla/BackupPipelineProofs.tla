------------------------ MODULE BackupPipelineProofs ------------------------
(***************************************************************************)
(* For every retention of two days or more and any number of retries of    *)
(* the mirror: pruning never empties the bucket and removes nothing that a *)
(* mirror had no chance to copy.                                           *)
(***************************************************************************)
EXTENDS BackupPipeline, TLAPS

\* Pruning has the object before it that its job has just stored.
PruningHasNew ==
  uploader = "pruning" => \E o \in bucket : o.age < RetentionDays

\* The inductive invariant.
Safe ==
  /\ bucket \subseteq Objects
  /\ mirror \in {"idle", "running", "stale"}
  /\ mirror = "running" => sync = "started"
  /\ PruningHasNew
  /\ OffsiteInTime

\* What happens to the fields of an object.
LEMMA OlderFields ==
  ASSUME NEW o \in Objects
  PROVE  /\ Older(o) \in Objects
         /\ Older(o).offsite = o.offsite /\ Older(o).listed = o.listed
         /\ Older(o).missed = (o.missed \/ sync # "done")
         /\ Older(o).age = IF o.age <= RetentionDays THEN o.age + 1 ELSE o.age
<1>1. o.age \in 0 .. RetentionDays + 1 /\ o.missed \in BOOLEAN
  BY DEF Objects
<1>2. (o.missed \/ sync # "done") \in BOOLEAN
  BY Zenon
<1>3. (IF o.age <= RetentionDays THEN o.age + 1 ELSE o.age)
        \in 0 .. RetentionDays + 1
  BY <1>1, BackupAssumption
<1> DEFINE age == IF o.age <= RetentionDays THEN o.age + 1 ELSE o.age
           missed == o.missed \/ sync # "done"
<1> HIDE DEF age, missed
<1>4. Older(o) = [o EXCEPT !.age = age, !.missed = missed]
  BY DEF Older, age, missed
<1>5. age \in 0 .. RetentionDays + 1 /\ missed \in BOOLEAN
  BY <1>2, <1>3 DEF age, missed
<1>6. /\ Older(o) \in Objects
      /\ Older(o).offsite = o.offsite /\ Older(o).listed = o.listed
      /\ Older(o).missed = missed /\ Older(o).age = age
  BY <1>4, <1>5 DEF Objects
<1> QED
  BY <1>6 DEF age, missed

LEMMA ListedFields ==
  ASSUME NEW o \in Objects, NEW b \in BOOLEAN
  PROVE  LET p == [o EXCEPT !.listed = b]
         IN  /\ p \in Objects /\ p.age = o.age /\ p.offsite = o.offsite
             /\ p.missed = o.missed /\ p.listed = b
  BY DEF Objects

LEMMA OffsiteFields ==
  ASSUME NEW o \in Objects
  PROVE  LET p == [o EXCEPT !.offsite = TRUE, !.listed = FALSE]
         IN  p \in Objects /\ p.age = o.age /\ p.offsite = TRUE
  BY DEF Objects

LEMMA NewObjectFields ==
  /\ NewObject \in Objects
  /\ NewObject.age = 0
  BY BackupAssumption DEF NewObject, Objects

LEMMA InitSafe == Init => Safe
  BY DEF Init, Safe, PruningHasNew, OffsiteInTime

\* Only an object of today can be neither off-site nor missed at midnight.
LEMMA NewDaySafe == Safe /\ NewDay => Safe'
<1> SUFFICES ASSUME Safe, NewDay PROVE Safe'
  OBVIOUS
<1>1. \A p \in bucket' : \E o \in bucket : p = Older(o)
  BY DEF NewDay
<1>2. bucket' \subseteq Objects
  BY <1>1, OlderFields DEF Safe
<1>3. mirror' \in {"idle", "stale"} /\ sync' = "due"
  BY DEF NewDay, Safe
<1>4. PruningHasNew'
  <2> SUFFICES ASSUME uploader = "pruning"
               PROVE  \E p \in bucket' : p.age < RetentionDays
    BY DEF PruningHasNew, NewDay
  <2>1. PICK o \in bucket : o.age < RetentionDays - 1
    BY DEF NewDay, PruningIsTimely
  <2>2. o.age \in Nat /\ o \in Objects
    BY DEF Safe, Objects
  <2>3. Older(o).age = o.age + 1
    BY <2>1, <2>2, OlderFields, BackupAssumption
  <2>4. Older(o) \in bucket'
    BY DEF NewDay
  <2> QED
    BY <2>1, <2>2, <2>3, <2>4, BackupAssumption
<1>5. OffsiteInTime'
  <2> SUFFICES ASSUME NEW p \in bucket', ~p.offsite, ~p.missed
               PROVE  p.age <= 1
    BY <1>3 DEF OffsiteInTime
  <2>1. PICK o \in bucket : p = Older(o)
    BY <1>1
  <2>2. o \in Objects
    BY DEF Safe
  <2>3. ~o.offsite /\ ~o.missed /\ sync = "done"
    BY <2>1, <2>2, OlderFields
  <2>4. o.age <= 1 /\ o.age # 1
    BY <2>3 DEF Safe, OffsiteInTime
  <2>5. o.age \in Nat
    BY <2>2 DEF Objects
  <2> QED
    BY <2>1, <2>2, <2>4, <2>5, OlderFields, BackupAssumption
<1> QED
  BY <1>2, <1>3, <1>4, <1>5 DEF Safe

\* Listing leaves ages and places alone.
LEMMA RelistSafe ==
  ASSUME Safe, UNCHANGED uploader,
         \A p \in bucket' : \E o \in bucket, b \in BOOLEAN :
             p = [o EXCEPT !.listed = b] /\ (mirror' = "running" => b = ~o.offsite),
         \A o \in bucket : \E b \in BOOLEAN : [o EXCEPT !.listed = b] \in bucket',
         mirror' \in {"idle", "running", "stale"},
         mirror' = "running" => sync' = "started",
         sync' = sync \/ sync' = "started"
  PROVE  Safe'
<1>1. bucket' \subseteq Objects
  BY ListedFields DEF Safe
<1>2. PruningHasNew'
  <2> SUFFICES ASSUME uploader = "pruning"
               PROVE  \E p \in bucket' : p.age < RetentionDays
    BY DEF PruningHasNew
  <2>1. PICK o \in bucket : o.age < RetentionDays
    BY DEF Safe, PruningHasNew
  <2>2. PICK b \in BOOLEAN : [o EXCEPT !.listed = b] \in bucket'
    OBVIOUS
  <2>3. [o EXCEPT !.listed = b].age = o.age
    BY ListedFields DEF Safe
  <2> QED
    BY <2>1, <2>2, <2>3
<1>3. OffsiteInTime'
  <2> SUFFICES ASSUME NEW p \in bucket', ~p.offsite, ~p.missed
               PROVE  /\ p.age <= 1
                      /\ p.age = 1 => /\ sync' # "done"
                                      /\ mirror' = "running" => p.listed
    BY DEF OffsiteInTime
  <2>1. PICK o \in bucket, b \in BOOLEAN :
          p = [o EXCEPT !.listed = b] /\ (mirror' = "running" => b = ~o.offsite)
    OBVIOUS
  <2>2. /\ p.age = o.age /\ p.offsite = o.offsite /\ p.missed = o.missed
        /\ p.listed = b
    BY <2>1, ListedFields DEF Safe
  <2>3. o.age <= 1 /\ (o.age = 1 => sync # "done")
    BY <2>2 DEF Safe, OffsiteInTime
  <2> QED
    BY <2>1, <2>2, <2>3
<1> QED
  BY <1>1, <1>2, <1>3 DEF Safe

LEMMA MirrorSafe == Safe /\ Mirror => Safe'
<1> SUFFICES ASSUME Safe, Mirror PROVE Safe'
  OBVIOUS
<1>0. UNCHANGED uploader
  BY DEF Mirror, StartMirror, MirrorOne, EndMirror, FailMirror, backupVars
<1>1. ASSUME List
      PROVE  /\ \A p \in bucket' : \E o \in bucket, b \in BOOLEAN :
                   p = [o EXCEPT !.listed = b] /\ b = ~o.offsite
             /\ \A o \in bucket : \E b \in BOOLEAN :
                   [o EXCEPT !.listed = b] \in bucket'
  <2>1. \A o \in bucket : (~o.offsite) \in BOOLEAN
    OBVIOUS
  <2> QED
    BY <1>1, <2>1 DEF List
<1>2. CASE StartMirror
  BY <1>0, <1>1, <1>2, RelistSafe DEF StartMirror
<1>3. CASE MirrorOne
  <2>1. PICK o \in bucket :
          bucket' = (bucket \ {o}) \cup {[o EXCEPT !.offsite = TRUE, !.listed = FALSE]}
    BY <1>3 DEF MirrorOne
  <2> DEFINE new == [o EXCEPT !.offsite = TRUE, !.listed = FALSE]
  <2>2. new \in Objects /\ new.age = o.age /\ new.offsite = TRUE
    BY OffsiteFields DEF Safe
  <2>3. UNCHANGED <<mirror, sync>>
    BY <1>3 DEF MirrorOne, mirrorVars
  <2> HIDE DEF new
  <2>4. \A p \in bucket' : p \in bucket \/ p = new
    BY <2>1 DEF new
  <2>5. OffsiteInTime'
    BY <2>2, <2>3, <2>4 DEF Safe, OffsiteInTime
  <2>6. PruningHasNew'
    <3>1. \A p \in bucket : p = o \/ p \in bucket'
      BY <2>1
    <3>2. new \in bucket'
      BY <2>1 DEF new
    <3> QED
      BY <1>0, <2>2, <3>1, <3>2 DEF Safe, PruningHasNew
  <2> QED
    BY <2>2, <2>3, <2>4, <2>5, <2>6 DEF Safe
<1>4. CASE EndMirror
  <2>1. UNCHANGED bucket /\ mirror' = "idle" /\ \A o \in bucket : ~o.listed
    BY <1>4 DEF EndMirror
  <2>2. sync' # sync => mirror = "running"
    BY <1>4 DEF EndMirror
  <2>3. OffsiteInTime'
    BY <2>1, <2>2 DEF Safe, OffsiteInTime
  <2> QED
    BY <1>0, <2>1, <2>3 DEF Safe, PruningHasNew
<1>5. CASE FailMirror
  <2>1. UNCHANGED sync
    BY <1>5 DEF FailMirror
  <2>2. CASE List /\ UNCHANGED mirror
    BY <1>0, <1>1, <2>1, <2>2, RelistSafe DEF Safe
  <2>3. CASE mirror' = "idle" /\ bucket' = {[o EXCEPT !.listed = FALSE] : o \in bucket}
    <3>1. \A p \in bucket' : \E o \in bucket, b \in BOOLEAN :
             p = [o EXCEPT !.listed = b]
      BY <2>3
    <3>2. \A o \in bucket : \E b \in BOOLEAN : [o EXCEPT !.listed = b] \in bucket'
      BY <2>3
    <3> QED
      BY <1>0, <2>1, <2>3, <3>1, <3>2, RelistSafe
  <2> QED
    BY <1>5, <2>2, <2>3 DEF FailMirror
<1> QED
  BY <1>2, <1>3, <1>4, <1>5 DEF Mirror

\* The job adds objects of today and removes old ones.
LEMMA BackupSafe == Safe /\ Backup => Safe'
<1> SUFFICES ASSUME Safe, Backup PROVE Safe'
  OBVIOUS
<1>1. UNCHANGED <<mirror, sync>>
  BY DEF Backup, StartBackup, StartDump, EndDump, KillDumper, FindDump, GiveUp,
         Copy, Prune, KillUploader, EndBackup, mirrorVars
<1>2. CASE Copy
  <2>1. /\ \A p \in bucket' : p \in bucket \/ p = NewObject
        /\ uploader' = "pruning" => NewObject \in bucket'
    BY <1>2 DEF Copy
  <2>2. OffsiteInTime'
    BY <1>1, <2>1, NewObjectFields DEF Safe, OffsiteInTime
  <2> QED
    BY <1>1, <2>1, <2>2, NewObjectFields, BackupAssumption DEF Safe, PruningHasNew
<1>3. CASE Prune
  <2>1. bucket' \subseteq bucket /\ uploader' # "pruning"
    BY <1>3 DEF Prune
  <2> QED
    BY <1>1, <2>1 DEF Safe, PruningHasNew, OffsiteInTime
<1>4. CASE ~Copy /\ ~Prune
  <2>1. UNCHANGED bucket /\ (uploader' = "pruning" => uploader = "pruning")
    BY <1>4 DEF Backup, StartBackup, StartDump, EndDump, KillDumper, FindDump,
                GiveUp, KillUploader, EndBackup
  <2> QED
    BY <1>1, <2>1 DEF Safe, PruningHasNew, OffsiteInTime
<1> QED
  BY <1>2, <1>3, <1>4

LEMMA NextSafe == Safe /\ [Next]_vars => Safe'
<1>1. Safe /\ UNCHANGED vars => Safe'
  BY DEF Safe, PruningHasNew, OffsiteInTime, vars, backupVars, mirrorVars
<1> QED
  BY <1>1, NewDaySafe, MirrorSafe, BackupSafe DEF Next

\* Every object that is still only in the bucket waits for a mirror that will
\* take it.
THEOREM MirrorIsInTime == Spec => []OffsiteInTime
<1>1. Safe => OffsiteInTime
  BY DEF Safe
<1> QED
  BY <1>1, InitSafe, NextSafe, PTL DEF Spec

\* What a step prunes.
LEMMA PrunedAreOld ==
  ASSUME Safe, [Next]_vars, NEW o \in Pruned
  PROVE  o \in bucket /\ o.age >= RetentionDays
<1>1. uploader = "pruning" /\ uploader' # "pruning" /\ o \in bucket \ bucket'
  BY DEF Pruned
<1>2. Prune \/ KillUploader
  BY <1>1 DEF Next, NewDay, Backup, StartBackup, StartDump, EndDump, KillDumper,
     FindDump, GiveUp, Copy, EndBackup, Mirror, StartMirror, MirrorOne, EndMirror,
     FailMirror, vars, backupVars
<1>3. ~KillUploader
  BY <1>1 DEF KillUploader
<1> QED
  BY <1>1, <1>2, <1>3 DEF Prune, MaybeExpired

\* Nothing is pruned that no mirror had a chance to copy.
THEOREM PruningWaitsForMirror == Spec => PrunedIsOffsite
<1>1. ASSUME Safe, [Next]_vars, NEW o \in Pruned
      PROVE  o.offsite \/ o.missed
  <2>1. o \in bucket /\ o.age >= RetentionDays
    BY <1>1, PrunedAreOld
  <2>2. o.age \in Nat
    BY <1>1, <2>1 DEF Safe, Objects
  <2>3. ~(o.age <= 1)
    BY <2>1, <2>2, BackupAssumption
  <2> QED
    BY <1>1, <2>1, <2>3 DEF Safe, OffsiteInTime
<1>2. Safe /\ [Next]_vars => [\A o \in Pruned : o.offsite \/ o.missed]_vars
  BY <1>1
<1> QED
  BY <1>2, InitSafe, NextSafe, PTL DEF Spec, PrunedIsOffsite

\* The bucket is never emptied.
THEOREM BucketStaysFilled == Spec => NeverEmptied
<1>1. ASSUME Safe, [Next]_vars, bucket # {}
      PROVE  bucket' # {}
  <2>1. CASE Prune
    <3>1. PICK o \in bucket : o.age < RetentionDays
      BY <1>1, <2>1 DEF Safe, PruningHasNew, Prune
    <3>2. o.age \in Nat
      BY <1>1 DEF Safe, Objects
    <3>3. o \notin MaybeExpired
      BY <3>1, <3>2, BackupAssumption DEF MaybeExpired
    <3> QED
      BY <2>1, <3>3 DEF Prune
  <2>2. PICK o \in bucket : TRUE
    BY <1>1
  <2>3. CASE NewDay
    BY <2>2, <2>3 DEF NewDay
  <2>4. CASE Mirror
    BY <1>1, <2>2, <2>4 DEF Mirror, StartMirror, MirrorOne, EndMirror, FailMirror, List
  <2>5. CASE Backup /\ ~Prune
    BY <1>1, <2>5 DEF Backup, StartBackup, StartDump, EndDump, KillDumper, FindDump,
       GiveUp, Copy, KillUploader, EndBackup
  <2>6. CASE UNCHANGED vars
    BY <1>1, <2>6 DEF vars
  <2> QED
    BY <1>1, <2>1, <2>3, <2>4, <2>5, <2>6 DEF Next
<1>2. Safe /\ [Next]_vars => [bucket # {} => bucket' # {}]_bucket
  BY <1>1
<1> QED
  BY <1>2, InitSafe, NextSafe, PTL DEF Spec, NeverEmptied

-----------------------------------------------------------------------------
\* Type correctness of the backup pipeline.
THEOREM TypeCorrect == Spec => []TypeOK
<1>1. ASSUME Init
      PROVE  TypeOK
  <2>1. 0 \in 0 .. MirrorRetries
    BY BackupAssumption
  <2> QED
    BY <1>1, <2>1 DEF Init, TypeOK
<1>2. ASSUME TypeOK, Safe', [Next]_vars
      PROVE  TypeOK'
  <2>1. bucket' \subseteq Objects
    BY <1>2 DEF Safe
  <2>2. CASE NewDay
    BY <1>2, <2>1, <2>2 DEF TypeOK, NewDay
  <2>3. ASSUME StartBackup \/ StartDump \/ EndDump \/ KillDumper
        PROVE  TypeOK'
    BY <1>2, <2>1, <2>3 DEF TypeOK, StartBackup, StartDump, EndDump, KillDumper,
       Idle, Dumps, Ended, mirrorVars
  <2>4. ASSUME FindDump \/ GiveUp \/ Copy \/ Prune \/ KillUploader \/ EndBackup
        PROVE  TypeOK'
    BY <1>2, <2>1, <2>4 DEF TypeOK, FindDump, GiveUp, Copy, Prune, KillUploader,
       EndBackup, Dumps, Ended, mirrorVars
  <2>5. ASSUME Mirror
        PROVE  TypeOK'
    <3>1. /\ MirrorRetries \in 0 .. MirrorRetries
          /\ retries > 0 => retries - 1 \in 0 .. MirrorRetries
      BY <1>2, BackupAssumption DEF TypeOK
    <3>2. UNCHANGED backupVars
      BY <2>5 DEF Mirror, StartMirror, MirrorOne, EndMirror, FailMirror
    <3>3. /\ retries' \in 0 .. MirrorRetries
          /\ mirror' \in {mirror, "idle", "running"}
          /\ sync' \in {sync, "started", "done"}
      <4>1. CASE StartMirror
        BY <3>1, <4>1 DEF StartMirror
      <4>2. CASE MirrorOne
        BY <1>2, <4>2 DEF TypeOK, MirrorOne, mirrorVars
      <4>3. CASE EndMirror
        BY <1>2, <4>3 DEF TypeOK, EndMirror
      <4>4. CASE FailMirror
        BY <1>2, <3>1, <4>4 DEF TypeOK, FailMirror
      <4> QED
        BY <2>5, <4>1, <4>2, <4>3, <4>4 DEF Mirror
    <3> QED
      BY <1>2, <2>1, <3>2, <3>3 DEF TypeOK, backupVars
  <2>6. CASE UNCHANGED vars
    BY <1>2, <2>6 DEF TypeOK, vars, backupVars, mirrorVars
  <2> QED
    BY <1>2, <2>2, <2>3, <2>4, <2>5, <2>6 DEF Next, Backup
<1> QED
  BY <1>1, <1>2, InitSafe, NextSafe, PTL DEF Spec
=============================================================================
