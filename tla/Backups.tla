------------------------------- MODULE Backups -------------------------------
(***************************************************************************)
(* Off-machine backups as a whole: admission of captures, restores and     *)
(* purges, the worker of BackupWork, the retention operator that deletes   *)
(* purged objects, the operator's recovery of an unresolved upload, and    *)
(* what machines, credentials and time do meanwhile.                       *)
(*                                                                         *)
(* Source: apps/control/src/backups.ts, backup-purges.ts,                  *)
(* backup-retention.ts, backup-recovery.ts, tasks.ts.                      *)
(***************************************************************************)
EXTENDS BackupWork

CONSTANTS Accounts, Owner,                \* the account each backup is admitted for
          AccountLimit, GlobalLimit       \* maxAccountBytes, maxGlobalBytes

ASSUME BackupsAssumption ==
  /\ Owner \in [Backups -> Accounts]
  /\ AccountLimit \in Nat /\ GlobalLimit \in Nat

VARIABLE pg       \* [Backups -> PurgeRow], the backup_purges table

\* after: whose deadline the next attempt waits for, the record's or the store's.
PurgeRow == [state : {"none", "waiting", "submitted", "blocked", "purged"},
             after : {"record", "store"}]

vars == <<guestVars, storeVars, workVars, pg>>

\* Every variable has its type.
TypeOK == GuestTypeOK /\ StoreTypeOK /\ WorkTypeOK /\ pg \in [Backups -> PurgeRow]

Init ==
  /\ GuestInit /\ StoreInit /\ WorkInit
  /\ pg = [b \in Backups |-> [state |-> "none", after |-> "record"]]

-----------------------------------------------------------------------------
(* Admission, under the capacity lock and the account lock.                  *)

ReservedBy(bs) == MapThenSumSet(LAMBDA b : bk[b].reserved, bs)
Of(a) == {b \in Backups : Owner[b] = a}

AdmitBackup(b) ==
  /\ bk[b].state = "none" /\ ~revoked /\ source = "up"
  /\ ReservedBy(Of(Owner[b])) + MaxBytes <= AccountLimit
  /\ ReservedBy(Backups) + MaxBytes <= GlobalLimit
  /\ bk' = [bk EXCEPT ![b].state = "pending", ![b].reserved = MaxBytes]
  /\ BackupOnly /\ UNCHANGED <<scratch, wk, guestVars, storeVars, pg>>

\* The target machine is admitted in the same transaction.
AdmitRestore(r, b) ==
  /\ rs[r].state = "none" /\ ~revoked
  /\ bk[b].state = "captured" /\ bk[b].work = "stored"
  /\ rs' = [rs EXCEPT ![r].state = "pending", ![r].of = b]
  /\ target' = [target EXCEPT ![r] = "provisioning"]
  /\ UNCHANGED <<bk, scratch, source, revoked, wk, guestVars, storeVars, pg>>

\* Mutant: only a restore still being worked on keeps the object.
PinnedByPending(b) == \E r \in Restores : rs[r].of = b /\ rs[r].state = "pending"

\* A failed or uncertain restore pins the object until its target is destroyed.
Pinned(b) ==
  \E r \in Restores :
    /\ rs[r].state # "none" /\ rs[r].of = b
    /\ rs[r].work # "done" /\ target[r] # "destroyed"

AssertPurgeable(b) ==
  /\ bk[b].state = "captured" /\ bk[b].work = "stored"
  /\ bk[b].cleanup = "done" \/ source = "destroyed"
  /\ ~Pinned(b)

\* admitPurge, for a customer (whose credential is checked) or for retention.
AdmitPurge(b) ==
  /\ ~revoked \/ expired[b]
  /\ AssertPurgeable(b)
  /\ bk' = [bk EXCEPT ![b].state = "purge_pending"]
  /\ pg' = [pg EXCEPT ![b] = [state |-> "waiting", after |-> "record"]]
  /\ BackupOnly /\ UNCHANGED <<scratch, wk, guestVars, storeVars>>

-----------------------------------------------------------------------------
(* The retention operator, under the same worker lock.                       *)

\* Mutant: a purge found submitted is left to whoever submitted it.
DueUnsubmitted(b) ==
  /\ pg[b].state \in {"waiting", "blocked"}
  /\ IF pg[b].after = "store" THEN unlocked[b] ELSE expired[b]

Due(b) ==
  /\ pg[b].state \in {"waiting", "submitted", "blocked"}
  /\ IF pg[b].after = "store" THEN unlocked[b] ELSE expired[b]

PurgeOnly == UNCHANGED <<scratch, rs, target, source, revoked, guestVars>>

StartPurge(b) ==
  /\ wk = Free /\ Due(b) /\ bk[b].state = "purge_pending" /\ bk[b].work = "stored"
  /\ pg' = [pg EXCEPT ![b].state = "submitted"]
  /\ Goto(b, "purge") /\ PurgeOnly /\ UNCHANGED <<bk, storeVars>>

\* The version exists and its retention is over.
DeleteVersion(b) ==
  /\ At(b, "purge") /\ SendDelete(b)
  /\ Goto(b, "deleting") /\ PurgeOnly /\ UNCHANGED <<bk, pg>>

\* The store may hold an object longer than its record says.
StillRetained(b) ==
  /\ At(b, "purge") /\ obj[b] # 0 /\ ~unlocked[b]
  /\ pg' = [pg EXCEPT ![b] = [state |-> "waiting", after |-> "store"]]
  /\ wk' = Free /\ PurgeOnly /\ UNCHANGED <<bk, storeVars>>

ConfirmAbsent(b) ==
  /\ At(b, "purge") \/ At(b, "deleting")
  /\ obj[b] = 0
  /\ Goto(b, "absent") /\ PurgeOnly /\ UNCHANGED <<bk, pg, storeVars>>

\* The store answers with an error, or still shows the version after the DELETE.
PurgeFails(b) ==
  /\ At(b, "purge") \/ At(b, "deleting")
  /\ pg' = [pg EXCEPT ![b].state = "blocked"]
  /\ wk' = Free /\ PurgeOnly /\ UNCHANGED <<bk, storeVars>>

CompletePurge(b) ==
  /\ At(b, "absent") /\ bk[b].state = "purge_pending"
  /\ bk' = [bk EXCEPT ![b].state = "purged", ![b].reserved = 0]
  /\ pg' = [pg EXCEPT ![b].state = "purged"]
  /\ wk' = Free /\ PurgeOnly /\ UNCHANGED storeVars

-----------------------------------------------------------------------------
\* Operator recovery: a recorded upload is found again, blocked or not.
RecoverUpload(b) ==
  /\ wk = Free
  /\ bk[b].work = "submitted" /\ bk[b].state \in {"pending", "blocked"}
  /\ ReadBack(b, bk[b].gen)
  /\ bk' = [bk EXCEPT ![b] = Stored(@)]
  /\ BackupOnly /\ UNCHANGED <<scratch, wk, guestVars, storeVars, pg>>

-----------------------------------------------------------------------------
(* Machines, credentials and time.                                           *)

DestroySource ==
  /\ source = "up" /\ source' = "destroyed"
  /\ UNCHANGED <<bk, scratch, rs, target, revoked, wk, guestVars, storeVars, pg>>

Revoke ==
  /\ ~revoked /\ revoked' = TRUE
  /\ UNCHANGED <<bk, scratch, rs, target, source, wk, guestVars, storeVars, pg>>

SetTarget(r, from, to) ==
  /\ target[r] \in from /\ target' = [target EXCEPT ![r] = to]
  /\ UNCHANGED <<bk, scratch, rs, source, revoked, wk, guestVars, storeVars, pg>>

Provision(r) == \E to \in {"ready", "failed"} : SetTarget(r, {"provisioning"}, to)
DestroyTarget(r) == SetTarget(r, {"provisioning", "ready", "failed"}, "destroyed")

BackupStep(b) ==
  \/ GiveUp(b) \/ StartCapture(b) \/ AskCapture(b) \/ CaptureReplied(b)
  \/ NoSpace(b) \/ StartEncrypt(b) \/ Encrypt(b) \/ SaveReady(b)
  \/ SaveSubmitted(b) \/ Upload(b) \/ UploadReplied(b)
  \/ StartRecover(b) \/ Recovered(b)
  \/ StartCleanup(b) \/ CleanGuest(b) \/ SaveCleanup(b)

RestoreStep(r) ==
  \/ GiveUpRestore(r) \/ Provisioned(r) \/ Prepare(r) \/ Download(r)
  \/ SubmitRestore(r) \/ AskRestore(r) \/ RestoreReplied(r)
  \/ StartInspect(r) \/ Inspected(r)

PurgeStep(b) ==
  \/ StartPurge(b) \/ DeleteVersion(b) \/ StillRetained(b)
  \/ ConfirmAbsent(b) \/ PurgeFails(b) \/ CompletePurge(b)

GuestStep ==
  \/ \E b \in Backups : CaptureDone(b) \/ CaptureFails(b)
  \/ \E r \in Restores : RestoreDone(r) \/ RestoreFails(r)
  \/ GuestInterrupted

StoreStep(b) == PutLands(b) \/ PutLost(b) \/ DeleteLands(b) \/ DeleteLost(b) \/ RetentionEnds(b)

Next ==
  \/ \E b \in Backups : AdmitBackup(b) \/ AdmitPurge(b) \/ PurgeStep(b) \/ RecoverUpload(b)
  \/ \E r \in Restores, b \in Backups : AdmitRestore(r, b)
  \/ (StopWork \/ Crash \/ \E b \in Backups : BackupStep(b)) /\ UNCHANGED pg
  \/ (\E r \in Restores : RestoreStep(r)) /\ UNCHANGED pg
  \/ GuestStep /\ UNCHANGED <<storeVars, workVars, pg>>
  \/ (\E b \in Backups : StoreStep(b)) /\ UNCHANGED <<guestVars, workVars, pg>>
  \/ DestroySource \/ Revoke
  \/ \E r \in Restores : Provision(r) \/ DestroyTarget(r)

Spec == Init /\ [][Next]_vars

\* Jobs are queued again until their row is settled and swept up by the
\* reconciler, and every call in a job has a deadline. A job is started again
\* after every crash; disk space, the wrapping key, the store and retention
\* time are assumed to come round.
BackupJob(b) ==
  /\ GiveUp(b) \/ StartCapture(b) \/ StartEncrypt(b) \/ SaveSubmitted(b) \/ StartRecover(b)
  /\ UNCHANGED pg
RestoreJob(r) ==
  /\ GiveUpRestore(r) \/ Provisioned(r) \/ Prepare(r) \/ StartInspect(r)
  /\ UNCHANGED pg
JobEnds == StopWork /\ UNCHANGED pg

FairSpec ==
  /\ Spec
  /\ WF_vars(JobEnds)
  /\ \A b \in Backups :
       /\ SF_vars(BackupJob(b) \/ StartPurge(b))
       /\ SF_vars(DeleteVersion(b) \/ ConfirmAbsent(b)) /\ SF_vars(CompletePurge(b))
       /\ WF_vars(StillRetained(b) \/ PurgeFails(b))
       /\ SF_vars(DeleteLands(b) /\ UNCHANGED <<guestVars, workVars, pg>>)
       /\ WF_vars(RetentionEnds(b) /\ UNCHANGED <<guestVars, workVars, pg>>)
  /\ \A r \in Restores : SF_vars(RestoreJob(r)) /\ WF_vars(Provision(r))

-----------------------------------------------------------------------------
(* Properties.                                                               *)

\* At most one PUT is ever sent for a backup, whatever crashes or replies are
\* lost (backup-work.ts upload_submitted: "the same PUT will not be repeated").
UploadedOnce == \A b \in Backups : puts[b] <= 1

\* A capture or a restore runs at most once in its guest: an interrupted one
\* is failed, never run again (guestctl backups.ts, started.json).
GuestRunsOnce ==
  /\ \A b \in Backups : cap[b].runs <= 1
  /\ \A r \in Restores : res[r].runs <= 1

\* Every object in the store, and every PUT that may still create one, is
\* described by its backup's row, so that it can be found again and paid for.
NoOrphanObject ==
  \A b \in Backups :
    /\ put[b] # 0 => bk[b].work = "submitted" /\ bk[b].gen = put[b]
    /\ obj[b] # 0 => bk[b].work \in {"submitted", "stored"} /\ bk[b].gen = obj[b]

\* No purge is admitted, and nothing deleted, under a restore that is not
\* finished and whose target still exists (backup-purges.ts assertPurgeable).
PurgeSparesRestores ==
  \A r \in Restores :
    rs[r].state # "none" /\ bk[rs[r].of].state \in {"purge_pending", "purged"} =>
      rs[r].work = "done" \/ target[r] = "destroyed"

\* A target is opened to customers (assertRestoreAccessible), and a backup is
\* called verified, only on the guest's own report of a completed restore.
RestoreProven ==
  /\ \A r \in Restores : rs[r].state = "restored" => res[r].result = "restored"
  /\ \A b \in Backups :
       bk[b].verified => \E r \in Restores : rs[r].state = "restored" /\ rs[r].of = b

\* Every admitted capture and restore is settled.
WorkSettles ==
  /\ \A b \in Backups : []<>(bk[b].state # "pending")
  /\ \A r \in Restores : []<>(rs[r].state # "pending")

\* An admitted purge ends with the object gone and its bytes released.
PurgeFinishes ==
  \A b \in Backups : bk[b].state = "purge_pending" ~> bk[b].state = "purged" /\ obj[b] = 0

=============================================================================
