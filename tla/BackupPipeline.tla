--------------------------- MODULE BackupPipeline ---------------------------
(***************************************************************************)
(* The daily backup: one pod with two containers, a dumper that writes the *)
(* dump of MySQL to a shared volume and an uploader that copies it to a    *)
(* bucket and prunes old objects; and another CronJob that mirrors the     *)
(* bucket off-site.  The two containers share nothing but the volume, the  *)
(* two jobs nothing but the bucket.                                        *)
(*                                                                         *)
(* Time is relative: an object knows its age in days, so days go on        *)
(* without bound.  What is older than the retention is equally old.        *)
(***************************************************************************)
EXTENDS Integers

CONSTANTS
  RetentionDays,  \* RETENTION_DAYS
  MirrorRetries   \* backoffLimit of the mirror's job

ASSUME BackupAssumption ==
  /\ RetentionDays \in Nat \ {0, 1}
  /\ MirrorRetries \in Nat

VARIABLES
  ran,       \* has db-backup been started today
  dumper,    \* its two containers
  uploader,
  file,      \* the dump in the shared volume
  copy,      \* what the uploader found when it began to copy
  bucket,    \* the objects in MinIO
  mirror,    \* the mirror's job; "stale" if it was started on an earlier day
  retries,   \* how often its container may still start again
  sync       \* today's mirror: still due, started, or done with success

backupVars == <<ran, dumper, uploader, file, copy>>
mirrorVars == <<mirror, retries, sync>>
vars == <<backupVars, bucket, mirrorVars>>

-----------------------------------------------------------------------------
Dumps == {"partial", "whole"}

\* offsite: it has been mirrored.  listed: a running mirror has yet to copy
\* it.  missed: it lay in the bucket at the end of a day without
\* a successful mirror.  Objects that agree in all this are one element.
Objects == [age : 0 .. RetentionDays + 1, offsite : BOOLEAN, listed : BOOLEAN,
            missed : BOOLEAN]

Ended == {"ok", "failed"}
Idle  == dumper = "idle" /\ uploader = "idle"

\* The volume is an emptyDir: a new pod finds it empty.
TypeOK ==
  /\ ran \in BOOLEAN
  /\ dumper \in {"idle", "waiting", "dumping"} \cup Ended
  /\ uploader \in {"idle", "polling", "copying", "pruning"} \cup Ended
  /\ file \in Dumps \cup {"absent"}
  /\ copy \in Dumps \cup {"none"}
  /\ dumper \in {"idle", "waiting"} => file = "absent"
  /\ uploader \in {"copying", "pruning", "ok"} => copy # "none"
  /\ bucket \subseteq Objects
  /\ mirror \in {"idle", "running", "stale"}
  /\ retries \in 0 .. MirrorRetries
  /\ sync \in {"due", "started", "done"}

Init ==
  /\ ran = FALSE
  /\ dumper = "idle" /\ uploader = "idle"
  /\ file = "absent" /\ copy = "none"
  /\ bucket = {}
  /\ mirror = "idle" /\ retries = 0 /\ sync = "due"

\* A day ends.  Jobs may run on into the next one.
Older(o) ==
  [o EXCEPT !.age    = IF o.age <= RetentionDays THEN o.age + 1 ELSE o.age,
            !.missed = (o.missed \/ sync # "done")]

\* The clock's only bound: the uploader does not spend RetentionDays days on
\* the pruning that follows its upload.
PruningIsTimely ==
  uploader = "pruning" => \E o \in bucket : o.age < RetentionDays - 1

NewDay ==
  /\ PruningIsTimely
  /\ ran' = FALSE
  /\ bucket' = {Older(o) : o \in bucket}
  /\ mirror' = IF mirror = "running" THEN "stale" ELSE mirror
  /\ sync' = "due"
  /\ UNCHANGED <<dumper, uploader, file, copy, retries>>

-----------------------------------------------------------------------------
(* CronJob db-backup: concurrencyPolicy Forbid, no retry *)

\* The time table starts a pod unless the last one still runs.
StartBackup ==
  /\ Idle /\ ~ran
  /\ ran' = TRUE
  /\ dumper' = "waiting" /\ uploader' = "polling"
  /\ UNCHANGED <<file, copy, bucket, mirrorVars>>

\* MySQL answers, or does not within 60 attempts: mysqldump is started in
\* either case, and the shell creates the file at once.
StartDump ==
  /\ dumper = "waiting"
  /\ dumper' = "dumping"
  /\ file' = "partial"
  /\ UNCHANGED <<ran, uploader, copy, bucket, mirrorVars>>

\* mysqldump | gzip ends with a complete dump, or fails and leaves what gzip
\* has written by then.
EndDump ==
  /\ dumper = "dumping"
  /\ \/ dumper' = "ok" /\ file' = "whole"
     \/ dumper' = "failed" /\ UNCHANGED file
  /\ UNCHANGED <<ran, uploader, copy, bucket, mirrorVars>>

\* The container is killed (memory, volume limit).
KillDumper ==
  /\ dumper \in {"waiting", "dumping"}
  /\ dumper' = "failed"
  /\ UNCHANGED <<ran, uploader, file, copy, bucket, mirrorVars>>

\* The uploader sees the file and begins to copy what is in it now.
FindDump ==
  /\ uploader = "polling"
  /\ file # "absent"
  /\ uploader' = "copying"
  /\ copy' = file
  /\ UNCHANGED <<ran, dumper, file, bucket, mirrorVars>>

\* BUG: the loop has no end.
GiveUpNever ==
  /\ uploader = "polling"
  /\ file = "absent"
  /\ UNCHANGED vars

\* After 180 looks without a file the uploader ends with an error.
GiveUp ==
  /\ uploader = "polling"
  /\ file = "absent"
  /\ uploader' = "failed"
  /\ UNCHANGED <<ran, dumper, file, copy, bucket, mirrorVars>>

NewObject == [age |-> 0, offsite |-> FALSE, listed |-> FALSE, missed |-> FALSE]

\* BUG: errors do not end the script (no set -e).
CopyRegardless ==
  /\ uploader = "copying"
  /\ uploader' = "pruning"
  /\ bucket' \in {bucket, bucket \cup {NewObject}}
  /\ UNCHANGED <<ran, dumper, file, copy, mirrorVars>>

\* mc cp: the object is there when it ends well, and may be there when not.
Copy ==
  /\ uploader = "copying"
  /\ \/ uploader' = "pruning" /\ bucket' = bucket \cup {NewObject}
     \/ uploader' = "failed" /\ bucket' \in {bucket, bucket \cup {NewObject}}
  /\ UNCHANGED <<ran, dumper, file, copy, mirrorVars>>

\* An object of exactly RetentionDays days may be some hours older or younger
\* than that.
Expired    == {o \in bucket : o.age > RetentionDays}
MaybeExpired == {o \in bucket : o.age >= RetentionDays}

\* mc find --older-than ... --exec mc rm, which may stop half-way.
Prune ==
  /\ uploader = "pruning"
  /\ \E gone \in SUBSET MaybeExpired :
       /\ bucket' = bucket \ gone
       /\ \/ uploader' = "ok" /\ Expired \subseteq gone
          \/ uploader' = "failed"
  /\ UNCHANGED <<ran, dumper, file, copy, mirrorVars>>

KillUploader ==
  /\ uploader \in {"polling", "copying", "pruning"}
  /\ uploader' = "failed"
  /\ UNCHANGED <<ran, dumper, file, copy, bucket, mirrorVars>>

\* BUG: the volume outlives the pod.
EndBackupKeepingVolume ==
  /\ dumper \in Ended /\ uploader \in Ended
  /\ dumper' = "idle" /\ uploader' = "idle"
  /\ copy' = "none"
  /\ UNCHANGED <<ran, file, bucket, mirrorVars>>

\* Both containers have ended.  The job is successful if both were; the
\* volume goes with the pod.
EndBackup ==
  /\ dumper \in Ended /\ uploader \in Ended
  /\ dumper' = "idle" /\ uploader' = "idle"
  /\ file' = "absent" /\ copy' = "none"
  /\ UNCHANGED <<ran, bucket, mirrorVars>>

-----------------------------------------------------------------------------
(* CronJob mysql-backup-sync: concurrencyPolicy Forbid *)

List == bucket' = {[o EXCEPT !.listed = ~o.offsite] : o \in bucket}

StartMirror ==
  /\ mirror = "idle" /\ sync = "due"
  /\ mirror' = "running" /\ sync' = "started"
  /\ retries' = MirrorRetries
  /\ List
  /\ UNCHANGED backupVars

\* An object arrives off-site.  One that came after the mirror began may be
\* copied as well.
MirrorOne ==
  /\ mirror # "idle"
  /\ \E o \in bucket :
       /\ ~o.offsite
       /\ bucket' = (bucket \ {o})
            \cup {[o EXCEPT !.offsite = TRUE, !.listed = FALSE]}
  /\ UNCHANGED <<backupVars, mirrorVars>>

\* BUG: an object that could not be copied is no error.
EndMirrorRegardless ==
  /\ mirror # "idle"
  /\ mirror' = "idle"
  /\ sync' = IF mirror = "running" THEN "done" ELSE sync
  /\ bucket' = {[o EXCEPT !.listed = FALSE] : o \in bucket}
  /\ UNCHANGED <<backupVars, retries>>

\* Everything listed has been copied or is gone.
EndMirror ==
  /\ mirror # "idle"
  /\ \A o \in bucket : ~o.listed
  /\ mirror' = "idle"
  /\ sync' = IF mirror = "running" THEN "done" ELSE sync
  /\ UNCHANGED <<backupVars, bucket, retries>>

\* The container fails (a copy fails, a listed object is gone, it is killed)
\* and starts again from the listing, or the job has failed.
FailMirror ==
  /\ mirror # "idle"
  /\ \/ /\ retries > 0
        /\ retries' = retries - 1
        /\ List
        /\ UNCHANGED mirror
     \/ /\ retries = 0
        /\ mirror' = "idle"
        /\ bucket' = {[o EXCEPT !.listed = FALSE] : o \in bucket}
        /\ UNCHANGED retries
  /\ UNCHANGED <<backupVars, sync>>

-----------------------------------------------------------------------------
Backup == \/ StartBackup \/ StartDump \/ EndDump \/ KillDumper
          \/ FindDump \/ GiveUp \/ Copy \/ Prune \/ KillUploader \/ EndBackup

Mirror == StartMirror \/ MirrorOne \/ EndMirror \/ FailMirror

Next == NewDay \/ Backup \/ Mirror

Spec == Init /\ [][Next]_vars

\* The uploader's loop looks 180 times and no more, and the job controller
\* notices when both containers have ended.  Nothing is assumed of mysqladmin,
\* mysqldump, mc cp and mc find: none of them has a time limit, and neither
\* has the job.
Fairness == WF_vars(FindDump \/ GiveUp) /\ WF_vars(EndBackup)

FairSpec == Spec /\ Fairness

-----------------------------------------------------------------------------
(* Properties *)

\* Pruning never empties the bucket, even after weeks without a backup: the
\* script comes to the pruning only when it has just stored a new object.
NeverEmptied == [][bucket # {} => bucket' # {}]_bucket

\* What a step prunes.
Pruned == IF uploader = "pruning" /\ uploader' # "pruning" THEN bucket \ bucket' ELSE {}

\* An object is off-site before it is pruned, unless there was a day of its
\* life without a successful mirror: however the two time tables lie to each
\* other, one mirror lies between the upload and the pruning.
PrunedIsOffsite == [][\A o \in Pruned : o.offsite \/ o.missed]_vars

\* A command of one of the two scripts is running.
InCommand == dumper \in {"waiting", "dumping"} \/ uploader \in {"copying", "pruning"}

\* Only a command that hangs holds a job for ever, and with it, because of
\* concurrencyPolicy Forbid, every later backup: a job in which none is running
\* ends or comes to the next one.  The uploader does not wait for ever for a
\* dumper that died before there was a file.  Each command runs once in a job,
\* so a job that does not end has one that does not end.
OnlyCommandsHold == ~Idle /\ ~InCommand ~> Idle \/ InCommand

\* What PrunedIsOffsite rests on: an object that is still only in the bucket
\* is of today, or of yesterday while today's mirror has not succeeded, and a
\* mirror that was started today has every older object on its list.
OffsiteInTime ==
  \A o \in bucket :
    ~o.offsite /\ ~o.missed =>
      /\ o.age <= 1
      /\ o.age = 1 => sync # "done" /\ (mirror = "running" => o.listed)

-----------------------------------------------------------------------------
(* What the repository says and the code does not do. *)

\* k8s/cron/db-backup.yaml:100: the uploader waits for the product of the
\* dumper.  A job that succeeds would have stored a complete dump.
SuccessIsWhole == dumper = "ok" /\ uploader = "ok" => copy = "whole"
=============================================================================
