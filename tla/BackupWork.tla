----------------------------- MODULE BackupWork ------------------------------
(***************************************************************************)
(* The backup worker: one job at a time, under a session lock, carries a   *)
(* capture or a restore from phase to phase. Every phase is recorded       *)
(* before the effect it announces, so that a crash or a lost reply leaves  *)
(* enough to decide whether the effect may be repeated.                    *)
(*                                                                         *)
(* Source: apps/control/src/backup-work.ts, backup-records.ts. The worker  *)
(* writes over the connection that holds the lock: losing the lock is a    *)
(* crash, after which only requests already sent still take effect.        *)
(***************************************************************************)
EXTENDS BackupStore

CONSTANTS MaxBytes,     \* bytes reserved for an admitted capture (limits.maxBytes)
          Size          \* bytes of a stored archive

ASSUME WorkAssumption == MaxBytes \in Nat /\ Size \in 1..MaxBytes /\ Backups # {}

VARIABLES
  bk,         \* [Backups -> BackupRow], the backups table
  scratch,    \* [Backups -> Generations], the ciphertext in the worker's scratch
  rs,         \* [Restores -> RestoreRow], the backup_restores table
  target,     \* [Restores -> Targets], the machine a restore is admitted with
  source,     \* {"up", "destroyed"}, the machine the captures come from
  revoked,    \* BOOLEAN, the admitting credential has lost its authority
  wk          \* what the lock holder is doing, Free if nobody holds it

workVars == <<bk, scratch, rs, target, source, revoked, wk>>

BackupRow == [state : {"none", "pending", "captured", "blocked", "purge_pending", "purged"},
              work : {"capture", "encrypt", "ready", "submitted", "stored"},
              attempts : 0..MaxAttempts, gen : Generations, cleanup : {"pending", "done"},
              reserved : 0..MaxBytes, verified : BOOLEAN]
RestoreRow == [state : {"none", "pending", "restored", "blocked"},
               work : {"waiting", "prepare", "submitted", "done"},
               attempts : 0..MaxAttempts, of : Backups]
Targets == {"none", "provisioning", "failed", "ready", "destroyed"}

Steps == {"next", "capture", "capturing", "encrypt", "seal", "upload", "uploading", "recover",
          "cleanup", "cleaned", "download", "send", "restore", "restoring", "inspect",
          "purge", "deleting", "absent"}
Free == [pc |-> "free"]
Working == {Free} \cup [pc : Steps, id : Backups \cup Restores]

WorkTypeOK ==
  /\ bk \in [Backups -> BackupRow] /\ scratch \in [Backups -> Generations]
  /\ rs \in [Restores -> RestoreRow] /\ target \in [Restores -> Targets]
  /\ source \in {"up", "destroyed"} /\ revoked \in BOOLEAN /\ wk \in Working

WorkInit ==
  /\ bk = [b \in Backups |-> [state |-> "none", work |-> "capture", attempts |-> 0, gen |-> 0,
                              cleanup |-> "pending", reserved |-> 0, verified |-> FALSE]]
  /\ scratch = [b \in Backups |-> 0]
  /\ rs \in [Restores -> {[state |-> "none", work |-> "waiting", attempts |-> 0,
                           of |-> CHOOSE b \in Backups : TRUE]}]
  /\ target = [r \in Restores |-> "none"]
  /\ source = "up" /\ revoked = FALSE /\ wk = Free

-----------------------------------------------------------------------------
(* The lock and the ways out of a job.                                       *)

\* advance: a new job takes the free lock, or the same job goes on to its next phase.
Turn(x) == wk \in {Free, [pc |-> "next", id |-> x]}
At(x, pc) == wk = [pc |-> pc, id |-> x]
Goto(x, pc) == wk' = [pc |-> pc, id |-> x]

BackupOnly == UNCHANGED <<rs, target, source, revoked>>
RestoreOnly == UNCHANGED <<bk, scratch, target, source, revoked>>

RemoveScratchFile(b) == [scratch EXCEPT ![b] = 0]

\* The finally of advance: the ciphertext stays only for a job about to upload it.
Swept(b) == IF bk[b].work = "ready" THEN scratch ELSE RemoveScratchFile(b)

\* A step fails, or the job is done: the error leaves advance and the lock is released.
StopWork ==
  /\ wk.pc \notin {"free", "purge", "deleting", "absent"}
  /\ wk' = Free
  /\ scratch' = IF wk.id \in Backups THEN Swept(wk.id) ELSE scratch
  /\ UNCHANGED <<bk, rs, target, source, revoked, guestVars, storeVars>>

\* The worker dies or loses the lock: nothing is tidied up.
Crash ==
  /\ wk # Free /\ wk' = Free
  /\ UNCHANGED <<bk, scratch, rs, target, source, revoked, guestVars, storeVars>>

\* block, and the authority failure of advance: reservation and phase are kept.
Block(b) ==
  /\ bk' = [bk EXCEPT ![b].state = "blocked"]
  /\ scratch' = Swept(b) /\ wk' = Free
  /\ BackupOnly /\ UNCHANGED <<guestVars, storeVars>>

BlockRestore(r) ==
  /\ rs' = [rs EXCEPT ![r].state = "blocked"] /\ wk' = Free
  /\ RestoreOnly /\ UNCHANGED <<guestVars, storeVars>>

-----------------------------------------------------------------------------
(* Capture, encryption, upload.                                              *)

Phase(b, w) == Turn(b) /\ bk[b].state = "pending" /\ bk[b].work = w

\* Mutant: only a lost credential ends a job.
GiveUpRevoked(b) ==
  /\ revoked /\ \E w \in {"capture", "encrypt"} : Phase(b, w)
  /\ Block(b)

\* Too many attempts, or the admitting credential is gone.
GiveUp(b) ==
  /\ \E w \in {"capture", "encrypt", "submitted"} :
       /\ Phase(b, w)
       /\ bk[b].attempts >= MaxAttempts \/ (revoked /\ w # "submitted")
  /\ Block(b)

Attempt(b, w, pc) ==
  /\ Phase(b, w) /\ bk[b].attempts < MaxAttempts
  /\ bk' = [bk EXCEPT ![b].attempts = @ + 1]
  /\ Goto(b, pc) /\ BackupOnly

StartCapture(b) ==
  /\ ~revoked /\ Attempt(b, "capture", "capture")
  /\ UNCHANGED <<scratch, guestVars, storeVars>>

AskCapture(b) ==
  /\ At(b, "capture") /\ source = "up"
  /\ CallCapture(b) /\ Goto(b, "capturing")
  /\ UNCHANGED <<bk, scratch, storeVars>> /\ BackupOnly

CaptureReplied(b) ==
  /\ At(b, "capturing") /\ ~cap[b].running /\ cap[b].result = "captured"
  /\ bk' = [bk EXCEPT ![b].work = "encrypt", ![b].attempts = 0]
  /\ Goto(b, "next")
  /\ UNCHANGED <<scratch, guestVars, storeVars>> /\ BackupOnly

\* An orphan ciphertext goes before the space check and the authority check.
NoSpace(b) ==
  /\ Phase(b, "encrypt") /\ bk[b].attempts < MaxAttempts
  /\ scratch' = RemoveScratchFile(b) /\ wk' = Free
  /\ UNCHANGED <<bk, guestVars, storeVars>> /\ BackupOnly

StartEncrypt(b) ==
  /\ ~revoked /\ Attempt(b, "encrypt", "encrypt")
  /\ scratch' = RemoveScratchFile(b)
  /\ UNCHANGED <<guestVars, storeVars>>

\* encryptBackup: a data key and nonces of its own for every attempt, so the
\* ciphertexts of two attempts differ; the file is synced before it counts.
Sealed(b) == bk[b].attempts

\* The archive is streamed from the guest into the cipher.
Encrypt(b) ==
  /\ At(b, "encrypt") /\ source = "up" /\ Readable(b)
  /\ scratch' = [scratch EXCEPT ![b] = Sealed(b)]
  /\ Goto(b, "seal")
  /\ UNCHANGED <<bk, guestVars, storeVars>> /\ BackupOnly

\* prepareUpload binds the intent to the file and to retention that still runs.
SaveReady(b) ==
  /\ At(b, "seal") /\ ~expired[b]
  /\ bk' = [bk EXCEPT ![b].work = "ready", ![b].gen = scratch[b]]
  /\ Goto(b, "next")
  /\ UNCHANGED <<scratch, guestVars, storeVars>> /\ BackupOnly

\* Mutant: the PUT goes out before its submission is recorded.
UploadUnrecorded(b) ==
  /\ Phase(b, "ready")
  /\ Goto(b, "upload")
  /\ UNCHANGED <<bk, scratch, guestVars, storeVars>> /\ BackupOnly

SaveSubmitted(b) ==
  /\ Phase(b, "ready")
  /\ bk' = [bk EXCEPT ![b].work = "submitted", ![b].attempts = 0]
  /\ Goto(b, "upload")
  /\ UNCHANGED <<scratch, guestVars, storeVars>> /\ BackupOnly

Upload(b) ==
  /\ At(b, "upload") /\ SendPut(b, bk[b].gen, scratch[b])
  /\ Goto(b, "uploading")
  /\ UNCHANGED <<bk, scratch, guestVars>> /\ BackupOnly

\* saveStored: the object as read back is the record; the reservation shrinks to it.
Stored(row) == [row EXCEPT !.work = "stored", !.attempts = 0, !.cleanup = "pending",
                           !.reserved = Size, !.state = "captured"]

UploadReplied(b) ==
  /\ At(b, "uploading") /\ ReadBack(b, bk[b].gen) /\ ~expired[b]
  /\ bk' = [bk EXCEPT ![b] = Stored(@)]
  /\ Goto(b, "next")
  /\ UNCHANGED <<scratch, guestVars, storeVars>> /\ BackupOnly

\* Mutant: an upload without an answer is sent again.
Resubmit(b) ==
  /\ wk = Free /\ Attempt(b, "submitted", "upload")
  /\ UNCHANGED <<scratch, guestVars, storeVars>>

\* A submitted upload is only ever looked up again.
StartRecover(b) ==
  /\ wk = Free /\ Attempt(b, "submitted", "recover")
  /\ UNCHANGED <<scratch, guestVars, storeVars>>

Recovered(b) ==
  /\ At(b, "recover") /\ ReadBack(b, bk[b].gen)
  /\ bk' = [bk EXCEPT ![b] = Stored(@)]
  /\ Goto(b, "next")
  /\ UNCHANGED <<scratch, guestVars, storeVars>> /\ BackupOnly

CleanupDue(b) ==
  bk[b].work = "stored" /\ bk[b].cleanup = "pending" /\ bk[b].attempts < MaxAttempts

StartCleanup(b) ==
  /\ Turn(b) /\ CleanupDue(b) /\ (wk = Free => bk[b].state = "captured")
  /\ bk' = [bk EXCEPT ![b].attempts = @ + 1] /\ scratch' = RemoveScratchFile(b)
  /\ Goto(b, "cleanup") /\ BackupOnly /\ UNCHANGED <<guestVars, storeVars>>

CleanGuest(b) ==
  /\ At(b, "cleanup")
  /\ IF source = "destroyed" THEN UNCHANGED guestVars ELSE RemoveCapture(b)
  /\ Goto(b, "cleaned")
  /\ UNCHANGED <<bk, scratch, storeVars>> /\ BackupOnly

SaveCleanup(b) ==
  /\ At(b, "cleaned")
  /\ bk' = [bk EXCEPT ![b].cleanup = "done"]
  /\ wk' = Free
  /\ UNCHANGED <<scratch, guestVars, storeVars>> /\ BackupOnly

-----------------------------------------------------------------------------
(* Restore into a machine of its own.                                        *)

\* The target was destroyed, its provisioning failed, or a phase ran out of
\* attempts or of authority.
GiveUpRestore(r) ==
  /\ rs[r].state = "pending"
  /\ \/ wk = Free /\ target[r] = "destroyed"
     \/ wk = Free /\ rs[r].work = "waiting" /\ target[r] = "failed"
     \/ wk = Free /\ rs[r].work = "submitted" /\ target[r] = "ready" /\ rs[r].attempts >= MaxAttempts
     \/ /\ Turn(r) /\ rs[r].work = "prepare" /\ target[r] = "ready"
        /\ revoked \/ rs[r].attempts >= MaxAttempts
  /\ BlockRestore(r)

Provisioned(r) ==
  /\ wk = Free /\ rs[r].state = "pending" /\ rs[r].work = "waiting" /\ target[r] = "ready"
  /\ rs' = [rs EXCEPT ![r].work = "prepare", ![r].attempts = 0]
  /\ Goto(r, "next") /\ RestoreOnly /\ UNCHANGED <<guestVars, storeVars>>

\* Reached only with the matching key; without it the job stops uncounted.
Prepare(r) ==
  /\ Turn(r) /\ rs[r].state = "pending" /\ rs[r].work = "prepare"
  /\ wk = Free => target[r] = "ready"
  /\ rs[r].attempts < MaxAttempts /\ ~revoked /\ bk[rs[r].of].work = "stored"
  /\ rs' = [rs EXCEPT ![r].attempts = @ + 1]
  /\ Goto(r, "download") /\ RestoreOnly /\ UNCHANGED <<guestVars, storeVars>>

\* decryptBackup: only the ciphertext of the recorded encryption authenticates,
\* and nothing is published before all of it does.
Opens(r) == ReadBack(rs[r].of, bk[rs[r].of].gen)

Download(r) ==
  /\ At(r, "download") /\ Opens(r)
  /\ Goto(r, "send")
  /\ UNCHANGED <<rs, guestVars, storeVars>> /\ RestoreOnly

\* beforeSubmit: the last local step before anything can reach the guest.
SubmitRestore(r) ==
  /\ At(r, "send") /\ ~revoked
  /\ rs' = [rs EXCEPT ![r].work = "submitted", ![r].attempts = 0]
  /\ Goto(r, "restore") /\ RestoreOnly /\ UNCHANGED <<guestVars, storeVars>>

AskRestore(r) ==
  /\ At(r, "restore") /\ target[r] = "ready"
  /\ CallRestore(r) /\ Goto(r, "restoring")
  /\ UNCHANGED <<rs, storeVars>> /\ RestoreOnly

\* finish: one transaction; a source that is no longer captured aborts it.
Finish(r) ==
  /\ bk[rs[r].of].state = "captured"
  /\ rs' = [rs EXCEPT ![r].state = "restored", ![r].work = "done"]
  /\ bk' = [bk EXCEPT ![rs[r].of].verified = TRUE]
  /\ wk' = Free
  /\ UNCHANGED <<scratch, target, source, revoked, guestVars, storeVars>>

\* Mutant: a guest that reports no failure has succeeded.
ConcludeOptimistic(r) ==
  \/ res[r].result # "failed" /\ Finish(r)
  \/ res[r].result = "failed" /\ BlockRestore(r)

\* The guest's own result decides; while it has none the job stops and asks again.
Conclude(r) ==
  \/ res[r].result = "restored" /\ Finish(r)
  \/ res[r].result = "failed" /\ BlockRestore(r)

RestoreReplied(r) == At(r, "restoring") /\ ~res[r].running /\ Conclude(r)

StartInspect(r) ==
  /\ wk = Free /\ rs[r].state = "pending" /\ rs[r].work = "submitted" /\ target[r] = "ready"
  /\ rs[r].attempts < MaxAttempts
  /\ rs' = [rs EXCEPT ![r].attempts = @ + 1]
  /\ Goto(r, "inspect") /\ RestoreOnly /\ UNCHANGED <<guestVars, storeVars>>

Inspected(r) == At(r, "inspect") /\ target[r] = "ready" /\ ~res[r].running /\ Conclude(r)

=============================================================================
