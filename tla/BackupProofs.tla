---------------------------- MODULE BackupProofs -----------------------------
(***************************************************************************)
(* What protected backups guarantee for any number of backups, restores    *)
(* and attempts: one PUT per backup, one run per capture or restore, no    *)
(* object without its row, no purge under a restore, and no restore called *)
(* complete but on the guest's word.                                       *)
(***************************************************************************)
EXTENDS Backups, TLAPS

\* The worker is at one of these points of the job for x.
Doing(x, pcs) == wk.pc \in pcs /\ wk.id = x

\* Where the worker is agrees with the phase on record: no row changes under a job.
CaptureInv(b) ==
  /\ Doing(b, {"capture", "capturing"}) => bk[b].state = "pending" /\ bk[b].work = "capture"
  /\ Doing(b, {"encrypt", "seal"}) =>
       bk[b].state = "pending" /\ bk[b].work = "encrypt" /\ bk[b].attempts # 0
  /\ Doing(b, {"seal"}) => scratch[b] # 0
  /\ Doing(b, {"upload", "uploading", "recover"}) => bk[b].state = "pending" /\ bk[b].work = "submitted"
  /\ Doing(b, {"upload"}) => puts[b] = 0

\* One PUT, announced by the row before it is sent; the object is what it carried.
UploadInv(b) ==
  /\ puts[b] \in {0, 1}
  /\ puts[b] = 0 => put[b] = 0 /\ obj[b] = 0
  /\ bk[b].work \in {"capture", "encrypt", "ready"} => puts[b] = 0
  /\ bk[b].work \in {"ready", "submitted", "stored"} => bk[b].gen # 0
  /\ put[b] # 0 => obj[b] = 0 /\ bk[b].work = "submitted" /\ bk[b].gen = put[b]
  /\ obj[b] # 0 => bk[b].work \in {"submitted", "stored"} /\ bk[b].gen = obj[b]

VerifiedInv(b) == bk[b].verified => \E r \in Restores : rs[r].state = "restored" /\ rs[r].of = b

RestoreInv(r) ==
  /\ Doing(r, {"download", "send"}) => rs[r].state = "pending" /\ rs[r].work = "prepare"
  /\ Doing(r, {"restore", "restoring", "inspect"}) => rs[r].state = "pending" /\ rs[r].work = "submitted"
  /\ rs[r].state = "restored" => res[r].result = "restored"

SparedInv(r) ==
  rs[r].state # "none" /\ bk[rs[r].of].state \in {"purge_pending", "purged"} =>
    rs[r].work = "done" \/ target[r] = "destroyed"

\* The start marker is written before the work and never removed.
CaptureRuns(b) == cap[b].runs \in {0, 1} /\ (~cap[b].started => cap[b].runs = 0)
RestoreRuns(r) ==
  /\ res[r].runs \in {0, 1} /\ (~res[r].started => res[r].runs = 0)
  /\ res[r].running => res[r].result = "none"

BackupInv ==
  /\ TypeOK
  /\ \A b \in Backups : CaptureInv(b) /\ UploadInv(b) /\ VerifiedInv(b) /\ CaptureRuns(b)
  /\ \A r \in Restores : RestoreInv(r) /\ SparedInv(r) /\ RestoreRuns(r)

-----------------------------------------------------------------------------
RestorePcs == {"download", "send", "restore", "restoring", "inspect"}
BackupPcs == Steps \ RestorePcs

LEMMA Numbers ==
  /\ 0 \in Generations /\ 0 \in 0..MaxAttempts /\ Generations = 0..MaxAttempts
  /\ 0 \in 0..MaxBytes /\ MaxBytes \in 0..MaxBytes /\ Size \in 0..MaxBytes
  /\ \A n \in 0..MaxAttempts : n < MaxAttempts => n + 1 \in 0..MaxAttempts /\ n + 1 # 0
BY StoreAssumption, WorkAssumption DEF Generations

LEMMA WorkerAt ==
  ASSUME NEW x \in Backups \cup Restores, NEW pc \in Steps
  PROVE  LET w == [pc |-> pc, id |-> x] IN w \in Working /\ w # Free /\ w.pc = pc /\ w.id = x
BY DEF Working, Free, Steps

LEMMA FreeFacts == Free \in Working /\ Free.pc = "free" /\ "free" \notin Steps
BY DEF Free, Working, Steps

LEMMA RowFacts ==
  ASSUME BackupInv, NEW b \in Backups
  PROVE  /\ bk \in [Backups -> BackupRow] /\ bk[b] \in BackupRow
         /\ scratch \in [Backups -> Generations] /\ scratch[b] \in Generations
         /\ wk \in Working /\ pg \in [Backups -> PurgeRow]
         /\ CaptureInv(b) /\ UploadInv(b)
BY DEF BackupInv, TypeOK, WorkTypeOK

LEMMA InitBackups == Init => BackupInv
<1> SUFFICES ASSUME Init PROVE BackupInv
  OBVIOUS
<1>1. GuestTypeOK
  BY DEF Init, GuestInit, GuestTypeOK, CaptureFiles, RestoreFiles
<1>2. StoreTypeOK
  BY Numbers DEF Init, StoreInit, StoreTypeOK
<1>3. WorkTypeOK
  <2>1. bk \in [Backups -> BackupRow]
    BY Numbers DEF Init, WorkInit, BackupRow
  <2>2. rs \in [Restores -> RestoreRow]
    <3> DEFINE first == CHOOSE b \in Backups : TRUE
    <3>1. first \in Backups
      BY WorkAssumption
    <3>2. rs \in [Restores -> {[state |-> "none", work |-> "waiting", attempts |-> 0, of |-> first]}]
      BY DEF Init, WorkInit
    <3> HIDE DEF first
    <3> QED BY <3>1, <3>2, Numbers DEF RestoreRow
  <2>3. scratch \in [Backups -> Generations]
    BY Numbers DEF Init, WorkInit
  <2> QED BY <2>1, <2>2, <2>3, FreeFacts DEF Init, WorkInit, WorkTypeOK, Targets
<1>4. pg \in [Backups -> PurgeRow]
  BY DEF Init, PurgeRow
<1>5. \A x, pcs : Doing(x, pcs) => "free" \in pcs
  BY FreeFacts DEF Init, WorkInit, Doing
<1>6. \A b \in Backups : CaptureInv(b)
  BY <1>5 DEF CaptureInv
<1>7. \A b \in Backups : UploadInv(b) /\ VerifiedInv(b)
  BY DEF Init, WorkInit, StoreInit, UploadInv, VerifiedInv
<1>8. \A b \in Backups : CaptureRuns(b)
  BY DEF Init, GuestInit, CaptureRuns
<1>9. \A r \in Restores : rs[r].state = "none" /\ RestoreRuns(r)
  BY DEF Init, GuestInit, WorkInit, RestoreRuns
<1>10. \A r \in Restores : RestoreInv(r) /\ SparedInv(r)
  BY <1>5, <1>9 DEF RestoreInv, SparedInv
<1> QED BY <1>1, <1>2, <1>3, <1>4, <1>6, <1>7, <1>8, <1>9, <1>10 DEF BackupInv, TypeOK

-----------------------------------------------------------------------------
(* Steps of the worker and of admission that touch one row.                 *)

LEMMA RowFrame ==
  ASSUME BackupInv, NEW b \in Backups,
         UNCHANGED <<guestVars, storeVars>>, BackupOnly, pg' \in [Backups -> PurgeRow],
         bk' \in [Backups -> BackupRow], scratch' \in [Backups -> Generations],
         \A x \in Backups : x # b => bk'[x] = bk[x] /\ scratch'[x] = scratch[x],
         wk' \in Working, wk' = wk \/ wk' = Free \/ (wk'.id = b /\ wk'.pc \in BackupPcs),
         bk'[b].verified = bk[b].verified,
         bk'[b].state \in {"purge_pending", "purged"} =>
           bk[b].state \in {"purge_pending", "purged"} \/ ~Pinned(b),
         CaptureInv(b)', UploadInv(b)'
  PROVE  BackupInv'
<1>1. /\ UNCHANGED <<cap, res, put, puts, obj, del, expired, unlocked, rs, target, source, revoked>>
      /\ GuestTypeOK /\ StoreTypeOK /\ WorkTypeOK
  BY DEF guestVars, storeVars, BackupOnly, BackupInv, TypeOK
<1>2. TypeOK'
  BY <1>1 DEF TypeOK, GuestTypeOK, StoreTypeOK, WorkTypeOK
<1>3. ASSUME NEW x, NEW pcs, Doing(x, pcs)', "free" \notin pcs
      PROVE  Doing(x, pcs) \/ (x = b /\ wk'.pc \in BackupPcs)
  BY <1>3, FreeFacts DEF Doing
<1>4. ASSUME NEW x \in Backups, x # b PROVE CaptureInv(x)' /\ UploadInv(x)'
  <2>1. CaptureInv(x) /\ UploadInv(x)
    BY DEF BackupInv
  <2>2. bk'[x] = bk[x] /\ scratch'[x] = scratch[x]
    BY <1>4
  <2>3. CaptureInv(x)'
    BY <1>1, <1>3, <1>4, <2>1, <2>2 DEF CaptureInv
  <2> QED BY <1>1, <2>1, <2>2, <2>3 DEF UploadInv
<1>5. \A x \in Backups : VerifiedInv(x)' /\ CaptureRuns(x)'
  BY <1>1 DEF BackupInv, VerifiedInv, CaptureRuns
<1>6. ASSUME NEW r \in Restores PROVE RestoreInv(r)' /\ SparedInv(r)' /\ RestoreRuns(r)'
  <2>1. RestoreInv(r) /\ SparedInv(r) /\ RestoreRuns(r) /\ rs[r] \in RestoreRow /\ rs[r].of \in Backups
    BY <1>1 DEF BackupInv, WorkTypeOK, RestoreRow
  <2>2. ASSUME NEW pcs \in SUBSET RestorePcs, Doing(r, pcs)' PROVE Doing(r, pcs)
    BY <1>3, <2>2 DEF Doing, BackupPcs, RestorePcs
  <2>3. RestoreInv(r)'
    BY <1>1, <2>1, <2>2 DEF RestoreInv, RestorePcs
  <2>4. SparedInv(r)'
    <3>1. CASE rs[r].of = b
      BY <1>1, <2>1, <3>1 DEF SparedInv, Pinned
    <3>2. CASE rs[r].of # b
      BY <1>1, <2>1, <3>2 DEF SparedInv
    <3> QED BY <3>1, <3>2
  <2> QED BY <1>1, <2>1, <2>3, <2>4 DEF RestoreRuns
<1> QED BY <1>2, <1>4, <1>5, <1>6 DEF BackupInv

\* The ciphertext stays or goes; it belongs to this backup.
LEMMA SweptFacts ==
  ASSUME BackupInv, NEW b \in Backups, scratch' \in {scratch, Swept(b), RemoveScratchFile(b)}
  PROVE  /\ scratch' \in [Backups -> Generations]
         /\ \A x \in Backups : x # b => scratch'[x] = scratch[x]
<1>1. scratch \in [Backups -> Generations]
  BY RowFacts
<1> QED BY <1>1, Numbers DEF Swept, RemoveScratchFile

\* Outside a job for b, or with its row pending as before, nothing is asked of the row.
LEMMA IdleCapture ==
  ASSUME NEW b, wk' = Free \/ ~(wk'.id = b)
  PROVE  CaptureInv(b)'
BY FreeFacts DEF CaptureInv, Doing

LEMMA AdmitBackupKeeps ==
  ASSUME BackupInv, NEW b \in Backups, AdmitBackup(b)
  PROVE  BackupInv'
<1>1. /\ bk[b].state = "none" /\ bk' = [bk EXCEPT ![b].state = "pending", ![b].reserved = MaxBytes]
      /\ BackupOnly /\ UNCHANGED <<scratch, wk, guestVars, storeVars, pg>>
  BY DEF AdmitBackup
<1>2. /\ bk \in [Backups -> BackupRow] /\ bk[b] \in BackupRow
      /\ scratch \in [Backups -> Generations] /\ wk \in Working /\ pg \in [Backups -> PurgeRow]
      /\ CaptureInv(b) /\ UploadInv(b)
  BY RowFacts
<1>3. /\ bk' \in [Backups -> BackupRow] /\ \A x \in Backups : x # b => bk'[x] = bk[x]
      /\ bk'[b].state = "pending" /\ bk'[b].verified = bk[b].verified
      /\ bk'[b].work = bk[b].work /\ bk'[b].gen = bk[b].gen
  BY <1>1, <1>2, Numbers DEF BackupRow
<1>4. CaptureInv(b)'
  BY <1>1, <1>2 DEF CaptureInv, Doing
<1>5. UploadInv(b)'
  BY <1>1, <1>2, <1>3 DEF UploadInv, storeVars
<1> QED BY <1>1, <1>2, <1>3, <1>4, <1>5, RowFrame

LEMMA GiveUpKeeps ==
  ASSUME BackupInv, NEW b \in Backups, GiveUp(b), UNCHANGED pg
  PROVE  BackupInv'
<1>1. /\ bk' = [bk EXCEPT ![b].state = "blocked"] /\ scratch' = Swept(b) /\ wk' = Free
      /\ BackupOnly /\ UNCHANGED <<guestVars, storeVars>>
  BY DEF GiveUp, Block
<1>2. /\ bk \in [Backups -> BackupRow] /\ bk[b] \in BackupRow /\ UploadInv(b)
      /\ pg \in [Backups -> PurgeRow]
  BY RowFacts
<1>3. /\ bk' \in [Backups -> BackupRow] /\ \A x \in Backups : x # b => bk'[x] = bk[x]
      /\ bk'[b].state = "blocked" /\ bk'[b].verified = bk[b].verified
      /\ bk'[b].work = bk[b].work /\ bk'[b].gen = bk[b].gen
  BY <1>1, <1>2 DEF BackupRow
<1>4. UploadInv(b)'
  BY <1>1, <1>2, <1>3 DEF UploadInv, storeVars
<1> QED BY <1>1, <1>2, <1>3, <1>4, SweptFacts, IdleCapture, FreeFacts, RowFrame

\* An attempt is counted before the effect it stands for.
LEMMA AttemptFacts ==
  ASSUME BackupInv, NEW b \in Backups, bk[b].attempts < MaxAttempts,
         bk' = [bk EXCEPT ![b].attempts = @ + 1]
  PROVE  /\ bk' \in [Backups -> BackupRow] /\ \A x \in Backups : x # b => bk'[x] = bk[x]
         /\ bk'[b].state = bk[b].state /\ bk'[b].verified = bk[b].verified
         /\ bk'[b].work = bk[b].work /\ bk'[b].gen = bk[b].gen /\ bk'[b].attempts # 0
<1>1. bk \in [Backups -> BackupRow] /\ bk[b] \in BackupRow /\ bk[b].attempts \in 0..MaxAttempts
  BY RowFacts DEF BackupRow
<1>2. PICK n \in 0..MaxAttempts : n = bk[b].attempts + 1 /\ n # 0
  BY <1>1, Numbers
<1>3. bk' = [bk EXCEPT ![b].attempts = n]
  BY <1>2
<1> QED BY <1>1, <1>2, <1>3 DEF BackupRow

LEMMA AttemptKeeps ==
  ASSUME BackupInv, NEW b \in Backups, NEW w, NEW pc, Attempt(b, w, pc), UNCHANGED pg,
         <<w, pc>> \in {<<"capture", "capture">>, <<"encrypt", "encrypt">>, <<"submitted", "recover">>},
         scratch' \in {scratch, RemoveScratchFile(b)}, UNCHANGED <<guestVars, storeVars>>
  PROVE  BackupInv'
<1>1. /\ bk[b].state = "pending" /\ bk[b].work = w /\ bk[b].attempts < MaxAttempts
      /\ bk' = [bk EXCEPT ![b].attempts = @ + 1] /\ wk' = [pc |-> pc, id |-> b] /\ BackupOnly
  BY DEF Attempt, Phase, Goto
<1>2. bk[b] \in BackupRow /\ UploadInv(b) /\ pg \in [Backups -> PurgeRow]
  BY RowFacts
<1>3. /\ bk' \in [Backups -> BackupRow] /\ \A x \in Backups : x # b => bk'[x] = bk[x]
      /\ bk'[b].state = "pending" /\ bk'[b].verified = bk[b].verified
      /\ bk'[b].work = w /\ bk'[b].gen = bk[b].gen /\ bk'[b].attempts # 0
  BY <1>1, AttemptFacts
<1>4. /\ \/ w = "capture" /\ pc = "capture"
         \/ w = "encrypt" /\ pc = "encrypt"
         \/ w = "submitted" /\ pc = "recover"
      /\ pc \in Steps /\ pc \in BackupPcs
  BY DEF Steps, BackupPcs, RestorePcs
<1>5. wk' \in Working /\ wk'.pc = pc /\ wk'.id = b
  BY <1>1, <1>4, WorkerAt
<1>6. CaptureInv(b)'
  BY <1>3, <1>4, <1>5 DEF CaptureInv, Doing
<1>7. UploadInv(b)'
  BY <1>1, <1>2, <1>3 DEF UploadInv, storeVars
<1> QED BY <1>1, <1>2, <1>3, <1>4, <1>5, <1>6, <1>7, SweptFacts, RowFrame

\* The guest's answer to a capture, and the intent of an upload, move the row on.
LEMMA AdvanceKeeps ==
  ASSUME BackupInv, NEW b \in Backups, UNCHANGED pg,
         CaptureReplied(b) \/ SaveReady(b) \/ SaveSubmitted(b)
  PROVE  BackupInv'
<1>1. /\ BackupOnly /\ UNCHANGED <<guestVars, storeVars>> /\ scratch' = scratch
  BY DEF CaptureReplied, SaveReady, SaveSubmitted
<1>2. /\ bk \in [Backups -> BackupRow] /\ bk[b] \in BackupRow
      /\ scratch \in [Backups -> Generations] /\ scratch[b] \in Generations /\ pg \in [Backups -> PurgeRow]
      /\ CaptureInv(b) /\ UploadInv(b)
  BY RowFacts
<1>3. "next" \in Steps /\ "upload" \in Steps /\ "next" \in BackupPcs /\ "upload" \in BackupPcs
  BY DEF Steps, BackupPcs, RestorePcs
<1>4. CASE CaptureReplied(b)
  <2>1. wk = [pc |-> "capturing", id |-> b] /\ wk' = [pc |-> "next", id |-> b]
        /\ bk' = [bk EXCEPT ![b].work = "encrypt", ![b].attempts = 0]
    BY <1>4 DEF CaptureReplied, At, Goto
  <2>2. bk[b].state = "pending" /\ bk[b].work = "capture"
    BY <1>2, <2>1 DEF CaptureInv, Doing
  <2>3. wk' \in Working /\ wk'.pc = "next" /\ wk'.id = b
    BY <1>3, <2>1, WorkerAt
  <2>4. /\ bk' \in [Backups -> BackupRow] /\ \A x \in Backups : x # b => bk'[x] = bk[x]
        /\ bk'[b].state = "pending" /\ bk'[b].verified = bk[b].verified /\ bk'[b].work = "encrypt"
    BY <1>2, <2>1, <2>2, Numbers DEF BackupRow
  <2>5. CaptureInv(b)'
    BY <2>3 DEF CaptureInv, Doing
  <2>6. UploadInv(b)'
    BY <1>1, <1>2, <2>2, <2>4 DEF UploadInv, storeVars
  <2> QED BY <1>1, <1>2, <1>3, <2>3, <2>4, <2>5, <2>6, RowFrame
<1>5. CASE SaveReady(b)
  <2>1. wk = [pc |-> "seal", id |-> b] /\ wk' = [pc |-> "next", id |-> b]
        /\ bk' = [bk EXCEPT ![b].work = "ready", ![b].gen = scratch[b]]
    BY <1>5 DEF SaveReady, At, Goto
  <2>2. bk[b].state = "pending" /\ bk[b].work = "encrypt" /\ scratch[b] # 0
    BY <1>2, <2>1 DEF CaptureInv, Doing
  <2>3. wk' \in Working /\ wk'.pc = "next" /\ wk'.id = b
    BY <1>3, <2>1, WorkerAt
  <2>4. /\ bk' \in [Backups -> BackupRow] /\ \A x \in Backups : x # b => bk'[x] = bk[x]
        /\ bk'[b].state = "pending" /\ bk'[b].verified = bk[b].verified /\ bk'[b].work = "ready"
        /\ bk'[b].gen = scratch[b]
    BY <1>2, <2>1, <2>2 DEF BackupRow
  <2>5. CaptureInv(b)'
    BY <2>3 DEF CaptureInv, Doing
  <2>6. UploadInv(b)'
    BY <1>1, <1>2, <2>2, <2>4 DEF UploadInv, storeVars
  <2> QED BY <1>1, <1>2, <1>3, <2>3, <2>4, <2>5, <2>6, RowFrame
<1>6. CASE SaveSubmitted(b)
  <2>1. bk[b].state = "pending" /\ bk[b].work = "ready" /\ wk' = [pc |-> "upload", id |-> b]
        /\ bk' = [bk EXCEPT ![b].work = "submitted", ![b].attempts = 0]
    BY <1>6 DEF SaveSubmitted, Phase, Goto
  <2>2. wk' \in Working /\ wk'.pc = "upload" /\ wk'.id = b
    BY <1>3, <2>1, WorkerAt
  <2>3. /\ bk' \in [Backups -> BackupRow] /\ \A x \in Backups : x # b => bk'[x] = bk[x]
        /\ bk'[b].state = "pending" /\ bk'[b].verified = bk[b].verified /\ bk'[b].work = "submitted"
        /\ bk'[b].gen = bk[b].gen
    BY <1>2, <2>1, Numbers DEF BackupRow
  <2>4. UploadInv(b)' /\ puts'[b] = 0
    BY <1>1, <1>2, <2>1, <2>3 DEF UploadInv, storeVars
  <2>5. CaptureInv(b)'
    BY <2>2, <2>3, <2>4 DEF CaptureInv, Doing
  <2> QED BY <1>1, <1>2, <1>3, <2>2, <2>3, <2>4, <2>5, RowFrame
<1> QED BY <1>4, <1>5, <1>6

\* The ciphertext: without room for it, and written.
LEMMA EncryptKeeps ==
  ASSUME BackupInv, NEW b \in Backups, UNCHANGED pg, NoSpace(b) \/ Encrypt(b)
  PROVE  BackupInv'
<1>1. /\ BackupOnly /\ UNCHANGED <<bk, guestVars, storeVars>>
  BY DEF NoSpace, Encrypt
<1>2. /\ bk \in [Backups -> BackupRow] /\ bk[b] \in BackupRow /\ bk[b].attempts \in Generations
      /\ scratch \in [Backups -> Generations] /\ pg \in [Backups -> PurgeRow]
      /\ CaptureInv(b) /\ UploadInv(b)
  BY RowFacts, Numbers DEF BackupRow
<1>3. UploadInv(b)'
  BY <1>1, <1>2 DEF UploadInv, storeVars
<1>4. CASE NoSpace(b)
  <2>1. wk' = Free /\ scratch' = RemoveScratchFile(b)
    BY <1>4 DEF NoSpace
  <2>2. bk'[b] = bk[b]
    BY <1>1
  <2> QED BY <1>1, <1>2, <1>3, <2>1, <2>2, SweptFacts, IdleCapture, FreeFacts, RowFrame
<1>5. CASE Encrypt(b)
  <2>1. wk = [pc |-> "encrypt", id |-> b] /\ wk' = [pc |-> "seal", id |-> b]
        /\ scratch' = [scratch EXCEPT ![b] = bk[b].attempts]
    BY <1>5 DEF Encrypt, At, Goto, Sealed
  <2>2. bk[b].state = "pending" /\ bk[b].work = "encrypt" /\ bk[b].attempts # 0
    BY <1>2, <2>1 DEF CaptureInv, Doing
  <2>3. "seal" \in Steps /\ "seal" \in BackupPcs
    BY DEF Steps, BackupPcs, RestorePcs
  <2>4. wk' \in Working /\ wk'.pc = "seal" /\ wk'.id = b
    BY <2>1, <2>3, WorkerAt
  <2>5. /\ scratch' \in [Backups -> Generations] /\ \A x \in Backups : x # b => scratch'[x] = scratch[x]
        /\ scratch'[b] # 0
    BY <1>2, <2>1, <2>2
  <2>6. CaptureInv(b)'
    BY <1>1, <2>2, <2>4, <2>5 DEF CaptureInv, Doing
  <2>7. bk'[b] = bk[b]
    BY <1>1
  <2> QED BY <1>1, <1>2, <1>3, <2>3, <2>4, <2>5, <2>6, <2>7, RowFrame
<1> QED BY <1>4, <1>5

\* saveStored: the object read back is the one the row announced, and no PUT is left.
LEMMA StoredKeeps ==
  ASSUME BackupInv, NEW b \in Backups, UNCHANGED <<pg, scratch, guestVars, storeVars>>, BackupOnly,
         bk[b].work = "submitted", obj[b] = bk[b].gen, bk[b].state \in {"pending", "blocked"},
         bk' = [bk EXCEPT ![b] = Stored(@)],
         wk' = [pc |-> "next", id |-> b] \/ (wk = Free /\ wk' = wk)
  PROVE  BackupInv'
<1>1. /\ bk \in [Backups -> BackupRow] /\ bk[b] \in BackupRow /\ wk \in Working
      /\ scratch \in [Backups -> Generations] /\ pg \in [Backups -> PurgeRow] /\ UploadInv(b)
  BY RowFacts
<1>2. "next" \in Steps /\ "next" \in BackupPcs
  BY DEF Steps, BackupPcs, RestorePcs
<1>3. /\ bk' \in [Backups -> BackupRow] /\ \A x \in Backups : x # b => bk'[x] = bk[x]
      /\ bk'[b].state = "captured" /\ bk'[b].verified = bk[b].verified /\ bk'[b].work = "stored"
      /\ bk'[b].gen = bk[b].gen
  BY <1>1, Numbers DEF Stored, BackupRow
<1>4. UploadInv(b)'
  BY <1>1, <1>3 DEF UploadInv, storeVars
<1>5. wk' \in Working /\ (wk' = Free \/ (wk'.pc = "next" /\ wk'.id = b))
  BY <1>1, <1>2, WorkerAt
<1>6. CaptureInv(b)'
  BY <1>5, FreeFacts DEF CaptureInv, Doing
<1> QED BY <1>1, <1>2, <1>3, <1>4, <1>5, <1>6, RowFrame

LEMMA UploadedKeeps ==
  ASSUME BackupInv, NEW b \in Backups, UNCHANGED pg, UploadReplied(b) \/ Recovered(b) \/ RecoverUpload(b)
  PROVE  BackupInv'
<1>1. CASE UploadReplied(b) \/ Recovered(b)
  <2>1. (wk = [pc |-> "uploading", id |-> b] \/ wk = [pc |-> "recover", id |-> b])
        /\ wk' = [pc |-> "next", id |-> b] /\ obj[b] = bk[b].gen
        /\ bk' = [bk EXCEPT ![b] = Stored(@)] /\ BackupOnly /\ UNCHANGED <<scratch, guestVars, storeVars>>
    BY <1>1 DEF UploadReplied, Recovered, At, Goto, ReadBack
  <2>2. bk[b].work = "submitted" /\ bk[b].state = "pending"
    BY <2>1, RowFacts DEF CaptureInv, Doing
  <2> QED BY <2>1, <2>2, StoredKeeps
<1>2. CASE RecoverUpload(b)
  BY <1>2, StoredKeeps DEF RecoverUpload, ReadBack
<1> QED BY <1>1, <1>2

LEMMA CleanupKeeps ==
  ASSUME BackupInv, NEW b \in Backups, UNCHANGED pg, StartCleanup(b) \/ SaveCleanup(b)
  PROVE  BackupInv'
<1>1. /\ bk \in [Backups -> BackupRow] /\ bk[b] \in BackupRow /\ pg \in [Backups -> PurgeRow]
      /\ scratch \in [Backups -> Generations] /\ UploadInv(b)
  BY RowFacts
<1>2. CASE StartCleanup(b)
  <2>1. /\ bk[b].attempts < MaxAttempts /\ bk' = [bk EXCEPT ![b].attempts = @ + 1]
        /\ scratch' = RemoveScratchFile(b) /\ wk' = [pc |-> "cleanup", id |-> b]
        /\ BackupOnly /\ UNCHANGED <<guestVars, storeVars>>
    BY <1>2 DEF StartCleanup, CleanupDue, Goto
  <2>2. /\ bk' \in [Backups -> BackupRow] /\ \A x \in Backups : x # b => bk'[x] = bk[x]
        /\ bk'[b].state = bk[b].state /\ bk'[b].verified = bk[b].verified
        /\ bk'[b].work = bk[b].work /\ bk'[b].gen = bk[b].gen
    BY <2>1, AttemptFacts
  <2>3. "cleanup" \in Steps /\ "cleanup" \in BackupPcs
    BY DEF Steps, BackupPcs, RestorePcs
  <2>4. wk' \in Working /\ wk'.pc = "cleanup" /\ wk'.id = b
    BY <2>1, <2>3, WorkerAt
  <2>5. CaptureInv(b)'
    BY <2>4 DEF CaptureInv, Doing
  <2>6. UploadInv(b)'
    BY <1>1, <2>1, <2>2 DEF UploadInv, storeVars
  <2> QED BY <1>1, <2>1, <2>2, <2>3, <2>4, <2>5, <2>6, SweptFacts, RowFrame
<1>3. CASE SaveCleanup(b)
  <2>1. /\ bk' = [bk EXCEPT ![b].cleanup = "done"] /\ wk' = Free
        /\ BackupOnly /\ UNCHANGED <<scratch, guestVars, storeVars>>
    BY <1>3 DEF SaveCleanup
  <2>2. /\ bk' \in [Backups -> BackupRow] /\ \A x \in Backups : x # b => bk'[x] = bk[x]
        /\ bk'[b].state = bk[b].state /\ bk'[b].verified = bk[b].verified
        /\ bk'[b].work = bk[b].work /\ bk'[b].gen = bk[b].gen
    BY <1>1, <2>1 DEF BackupRow
  <2>3. UploadInv(b)'
    BY <1>1, <2>1, <2>2 DEF UploadInv, storeVars
  <2> QED BY <1>1, <2>1, <2>2, <2>3, IdleCapture, FreeFacts, RowFrame
<1> QED BY <1>2, <1>3

\* The job ends, in order or not; only its own ciphertext may go.
LEMMA WorkEndsKeeps ==
  ASSUME BackupInv, UNCHANGED pg, StopWork \/ Crash
  PROVE  BackupInv'
<1>1. /\ wk' = Free /\ bk' = bk /\ UNCHANGED <<guestVars, storeVars>> /\ BackupOnly
  BY DEF StopWork, Crash, BackupOnly
<1>2. PICK b \in Backups : scratch' \in {scratch, Swept(b)}
  <2>1. CASE scratch' = scratch
    BY <2>1, WorkAssumption
  <2>2. CASE scratch' # scratch
    BY <2>2 DEF StopWork, Crash
  <2> QED BY <2>1, <2>2
<1>3. /\ bk \in [Backups -> BackupRow] /\ bk[b] \in BackupRow /\ pg \in [Backups -> PurgeRow] /\ UploadInv(b)
  BY RowFacts
<1>4. UploadInv(b)'
  BY <1>1, <1>3 DEF UploadInv, storeVars
<1> QED BY <1>1, <1>2, <1>3, <1>4, SweptFacts, IdleCapture, FreeFacts, RowFrame

\* Purges: admitted only where no restore needs the object.
LEMMA PurgeKeeps ==
  ASSUME BackupInv, NEW b \in Backups,
         AdmitPurge(b) \/ StartPurge(b) \/ StillRetained(b) \/ ConfirmAbsent(b) \/ PurgeFails(b) \/ CompletePurge(b)
  PROVE  BackupInv'
<1>1. /\ BackupOnly /\ UNCHANGED <<scratch, guestVars, storeVars>>
  BY DEF AdmitPurge, StartPurge, StillRetained, ConfirmAbsent, PurgeFails, CompletePurge, PurgeOnly, BackupOnly
<1>2. /\ bk \in [Backups -> BackupRow] /\ bk[b] \in BackupRow /\ wk \in Working /\ pg \in [Backups -> PurgeRow]
      /\ scratch \in [Backups -> Generations] /\ UploadInv(b) /\ CaptureInv(b)
  BY RowFacts
<1>3. pg' \in [Backups -> PurgeRow]
  BY <1>2 DEF AdmitPurge, StartPurge, StillRetained, ConfirmAbsent, PurgeFails, CompletePurge, PurgeRow
<1>4. /\ bk' \in [Backups -> BackupRow] /\ \A x \in Backups : x # b => bk'[x] = bk[x]
      /\ bk'[b].verified = bk[b].verified /\ bk'[b].work = bk[b].work /\ bk'[b].gen = bk[b].gen
      /\ bk'[b].state \in {"purge_pending", "purged"} =>
           bk[b].state \in {"purge_pending", "purged"} \/ ~Pinned(b)
  <2>1. CASE AdmitPurge(b)
    BY <1>2, <2>1 DEF AdmitPurge, AssertPurgeable, BackupRow
  <2>2. CASE CompletePurge(b)
    BY <1>2, <2>2, Numbers DEF CompletePurge, BackupRow
  <2>3. CASE StartPurge(b) \/ StillRetained(b) \/ ConfirmAbsent(b) \/ PurgeFails(b)
    BY <1>2, <2>3 DEF StartPurge, StillRetained, ConfirmAbsent, PurgeFails
  <2> QED BY <2>1, <2>2, <2>3
<1>5. UploadInv(b)'
  BY <1>1, <1>2, <1>4 DEF UploadInv, storeVars
<1>6. /\ wk' \in Working /\ CaptureInv(b)'
      /\ wk' = wk \/ wk' = Free \/ (wk'.id = b /\ wk'.pc \in BackupPcs)
  <2>1. CASE AdmitPurge(b)
    <3>1. bk[b].state = "captured" /\ wk' = wk
      BY <2>1 DEF AdmitPurge, AssertPurgeable
    <3> QED BY <1>2, <3>1 DEF CaptureInv, Doing
  <2>2. CASE StillRetained(b) \/ PurgeFails(b) \/ CompletePurge(b)
    <3>1. wk' = Free
      BY <2>2 DEF StillRetained, PurgeFails, CompletePurge
    <3> QED BY <3>1, IdleCapture, FreeFacts
  <2>3. CASE StartPurge(b) \/ ConfirmAbsent(b)
    <3>1. PICK pc \in {"purge", "absent"} : wk' = [pc |-> pc, id |-> b]
      BY <2>3 DEF StartPurge, ConfirmAbsent, Goto
    <3>2. pc \in Steps /\ pc \in BackupPcs
      BY DEF Steps, BackupPcs, RestorePcs
    <3>3. wk' \in Working /\ wk'.pc = pc /\ wk'.id = b
      BY <3>1, <3>2, WorkerAt
    <3> QED BY <3>2, <3>3 DEF CaptureInv, Doing
  <2> QED BY <2>1, <2>2, <2>3
<1> QED BY <1>1, <1>2, <1>3, <1>4, <1>5, <1>6, RowFrame

-----------------------------------------------------------------------------
(* Steps that reach the store or a guest.                                   *)

LEMMA StoreFacts ==
  ASSUME BackupInv
  PROVE  /\ put \in [Backups -> Generations] /\ puts \in [Backups -> Nat]
         /\ obj \in [Backups -> Generations] /\ del \in [Backups -> BOOLEAN]
         /\ expired \in [Backups -> BOOLEAN] /\ unlocked \in [Backups -> BOOLEAN]
         /\ GuestTypeOK /\ StoreTypeOK /\ WorkTypeOK
BY DEF BackupInv, TypeOK, StoreTypeOK

\* A step in the store: the rows stay, and each object is still what its row says.
LEMMA StoreFrame ==
  ASSUME BackupInv, UNCHANGED <<guestVars, bk, scratch, rs, target, source, revoked, pg>>,
         StoreTypeOK', wk' \in Working, \A b \in Backups : CaptureInv(b)' /\ UploadInv(b)',
         wk' = wk \/ wk'.pc \in BackupPcs
  PROVE  BackupInv'
<1>1. UNCHANGED <<cap, res>> /\ GuestTypeOK /\ WorkTypeOK
  BY StoreFacts DEF guestVars
<1>2. TypeOK'
  BY <1>1 DEF BackupInv, TypeOK, GuestTypeOK, WorkTypeOK
<1>3. \A b \in Backups : VerifiedInv(b)' /\ CaptureRuns(b)'
  BY <1>1 DEF BackupInv, VerifiedInv, CaptureRuns
<1>4. ASSUME NEW r \in Restores PROVE RestoreInv(r)' /\ SparedInv(r)' /\ RestoreRuns(r)'
  <2>1. RestoreInv(r) /\ SparedInv(r) /\ RestoreRuns(r)
    BY DEF BackupInv
  <2>2. ASSUME NEW pcs \in SUBSET RestorePcs, Doing(r, pcs)' PROVE Doing(r, pcs)
    BY <2>2 DEF Doing, BackupPcs
  <2> QED BY <1>1, <2>1, <2>2 DEF RestoreInv, SparedInv, RestoreRuns, RestorePcs
<1> QED BY <1>2, <1>3, <1>4 DEF BackupInv

LEMMA UploadKeeps ==
  ASSUME BackupInv, NEW b \in Backups, UNCHANGED pg, Upload(b)
  PROVE  BackupInv'
<1>1. /\ wk = [pc |-> "upload", id |-> b] /\ wk' = [pc |-> "uploading", id |-> b] /\ bk[b].gen # 0
      /\ put' = [put EXCEPT ![b] = bk[b].gen] /\ puts' = [puts EXCEPT ![b] = @ + 1]
      /\ UNCHANGED <<obj, del, expired, unlocked>> /\ UNCHANGED <<bk, scratch, guestVars>> /\ BackupOnly
  BY DEF Upload, At, Goto, SendPut
<1>2. bk[b].state = "pending" /\ bk[b].work = "submitted" /\ puts[b] = 0 /\ bk[b].gen \in Generations
  BY <1>1, RowFacts DEF CaptureInv, Doing, BackupRow
<1>3. put[b] = 0 /\ obj[b] = 0
  BY <1>2, RowFacts DEF UploadInv
<1>4. /\ put' \in [Backups -> Generations] /\ puts' \in [Backups -> Nat]
      /\ put'[b] = bk[b].gen /\ puts'[b] = 1
      /\ \A x \in Backups : x # b => put'[x] = put[x] /\ puts'[x] = puts[x]
  BY <1>1, <1>2, StoreFacts
<1>5. "uploading" \in Steps /\ "uploading" \in BackupPcs
  BY DEF Steps, BackupPcs, RestorePcs
<1>6. wk' \in Working /\ wk'.pc = "uploading" /\ wk'.id = b
  BY <1>1, <1>5, WorkerAt
<1>7. ASSUME NEW x \in Backups PROVE CaptureInv(x)' /\ UploadInv(x)'
  <2>1. UploadInv(x)
    BY RowFacts
  <2>2. CASE x = b
    <3>1. UploadInv(b)'
      BY <1>1, <1>2, <1>3, <1>4, <2>1, <2>2 DEF UploadInv
    <3>2. CaptureInv(b)'
      BY <1>1, <1>2, <1>6 DEF CaptureInv, Doing
    <3> QED BY <2>2, <3>1, <3>2
  <2>3. CASE x # b
    BY <1>1, <1>4, <1>6, <2>1, <2>3 DEF UploadInv, CaptureInv, Doing
  <2> QED BY <2>2, <2>3
<1>8. StoreTypeOK'
  BY <1>1, <1>4, StoreFacts DEF StoreTypeOK
<1> QED BY <1>1, <1>5, <1>6, <1>7, <1>8, StoreFrame DEF BackupOnly

LEMMA StoreStepKeeps ==
  ASSUME BackupInv, NEW b \in Backups,
         \/ StoreStep(b) /\ UNCHANGED <<guestVars, workVars, pg>>
         \/ DeleteVersion(b)
  PROVE  BackupInv'
<1>0. UNCHANGED <<guestVars, bk, scratch, rs, target, source, revoked, pg>>
  BY DEF workVars, DeleteVersion, PurgeOnly
<1>1. UploadInv(b) /\ wk \in Working
  BY RowFacts
<1>2. /\ put' \in [Backups -> Generations] /\ puts' = puts /\ obj' \in [Backups -> Generations]
      /\ \A x \in Backups : x # b => put'[x] = put[x] /\ obj'[x] = obj[x]
      /\ \/ put'[b] = put[b] /\ obj'[b] = obj[b]
         \/ put[b] # 0 /\ obj[b] = 0 /\ put'[b] = 0 /\ obj'[b] = put[b]
         \/ put'[b] = 0 /\ obj'[b] = obj[b]
         \/ put'[b] = put[b] /\ obj'[b] = 0
  <2>1. CASE PutLands(b) \/ PutLost(b) \/ DeleteLands(b) \/ DeleteLost(b) \/ RetentionEnds(b)
    <3>1. CASE PutLands(b)
      BY <3>1, StoreFacts, Numbers DEF PutLands
    <3>2. CASE PutLost(b)
      BY <3>2, StoreFacts, Numbers DEF PutLost
    <3>3. CASE DeleteLands(b)
      BY <3>3, StoreFacts, Numbers DEF DeleteLands
    <3>4. CASE DeleteLost(b) \/ RetentionEnds(b)
      BY <3>4, StoreFacts DEF DeleteLost, RetentionEnds
    <3> QED BY <2>1, <3>1, <3>2, <3>3, <3>4
  <2>2. CASE DeleteVersion(b)
    BY <2>2, StoreFacts DEF DeleteVersion, SendDelete
  <2> QED BY <2>1, <2>2 DEF StoreStep
<1>3. del' \in [Backups -> BOOLEAN] /\ expired' \in [Backups -> BOOLEAN] /\ unlocked' \in [Backups -> BOOLEAN]
  BY StoreFacts DEF StoreStep, PutLands, PutLost, DeleteLands, DeleteLost, RetentionEnds, DeleteVersion, SendDelete
<1>4. StoreTypeOK'
  BY <1>2, <1>3, StoreFacts DEF StoreTypeOK
<1>5. "deleting" \in Steps /\ "deleting" \in BackupPcs
  BY DEF Steps, BackupPcs, RestorePcs
<1>6. wk' \in Working /\ (wk' = wk \/ wk'.pc = "deleting")
  BY <1>1, <1>5, WorkerAt DEF workVars, DeleteVersion, Goto
<1>7. ASSUME NEW x \in Backups PROVE CaptureInv(x)' /\ UploadInv(x)'
  <2>1. CaptureInv(x) /\ UploadInv(x)
    BY RowFacts
  <2>2. CaptureInv(x)'
    BY <1>0, <1>2, <1>6, <2>1 DEF CaptureInv, Doing
  <2>3. UploadInv(x)'
    BY <1>0, <1>2, <2>1 DEF UploadInv
  <2> QED BY <2>2, <2>3
<1> QED BY <1>0, <1>4, <1>5, <1>6, <1>7, StoreFrame

\* A step in a guest: what it has recorded stays recorded.
LEMMA GuestFrame ==
  ASSUME BackupInv, UNCHANGED <<storeVars, bk, scratch, rs, target, source, revoked, pg>>,
         GuestTypeOK', wk' \in Working,
         \A b \in Backups : CaptureRuns(b)', \A b \in Backups : CaptureInv(b)',
         \A r \in Restores : RestoreRuns(r)' /\ (res[r].result = "restored" => res'[r].result = "restored"),
         \A r \in Restores, pcs \in SUBSET RestorePcs : Doing(r, pcs)' =>
            \/ Doing(r, pcs)
            \/ rs[r].state = "pending" /\ rs[r].work = "submitted" /\ wk'.pc = "restoring"
  PROVE  BackupInv'
<1>1. UNCHANGED <<put, puts, obj, del, expired, unlocked>> /\ StoreTypeOK /\ WorkTypeOK
  BY StoreFacts DEF storeVars
<1>2. TypeOK'
  BY <1>1 DEF BackupInv, TypeOK, StoreTypeOK, WorkTypeOK
<1>3. \A b \in Backups : VerifiedInv(b)' /\ UploadInv(b)'
  BY <1>1 DEF BackupInv, VerifiedInv, UploadInv
<1>4. ASSUME NEW r \in Restores PROVE RestoreInv(r)' /\ SparedInv(r)'
  <2>1. RestoreInv(r) /\ SparedInv(r)
    BY DEF BackupInv
  <2>2. {"download", "send"} \in SUBSET RestorePcs /\ {"restore", "restoring", "inspect"} \in SUBSET RestorePcs
    BY DEF RestorePcs
  <2>3. Doing(r, {"download", "send"})' => Doing(r, {"download", "send"})
    BY <2>2 DEF Doing
  <2>4. Doing(r, {"restore", "restoring", "inspect"})' =>
          \/ Doing(r, {"restore", "restoring", "inspect"})
          \/ rs[r].state = "pending" /\ rs[r].work = "submitted"
    BY <2>2
  <2>5. rs' = rs /\ target' = target /\ bk' = bk
    OBVIOUS
  <2>6. RestoreInv(r)'
    BY <2>1, <2>3, <2>4, <2>5 DEF RestoreInv
  <2> QED BY <2>1, <2>5, <2>6 DEF SparedInv
<1> QED BY <1>2, <1>3, <1>4 DEF BackupInv

LEMMA GuestFacts ==
  ASSUME BackupInv
  PROVE  /\ cap \in [Backups -> CaptureFiles] /\ res \in [Restores -> RestoreFiles] /\ wk \in Working
         /\ \A b \in Backups : CaptureInv(b) /\ CaptureRuns(b) /\ cap[b] \in CaptureFiles
         /\ \A r \in Restores : RestoreInv(r) /\ RestoreRuns(r) /\ res[r] \in RestoreFiles
BY DEF BackupInv, TypeOK, GuestTypeOK, WorkTypeOK

\* capture, restore: work starts only where no marker says that it started before.
LEMMA ServeCapture ==
  ASSUME NEW f \in CaptureFiles, f.runs \in {0, 1}, ~f.started => f.runs = 0
  PROVE  Serve(f) \in CaptureFiles /\ Serve(f).runs \in {0, 1} /\ (~Serve(f).started => Serve(f).runs = 0)
<1>1. CASE f.result # "none"
  BY <1>1 DEF Serve
<1>2. CASE f.result = "none" /\ f.started
  BY <1>2 DEF Serve, CaptureFiles
<1>3. CASE f.result = "none" /\ ~f.started
  <2> DEFINE n == f.runs + 1
  <2>1. Serve(f) = [f EXCEPT !.started = TRUE, !.running = TRUE, !.runs = n]
    BY <1>3 DEF Serve
  <2>2. n \in Nat /\ n = 1
    BY <1>3
  <2> HIDE DEF n
  <2>3. /\ Serve(f) \in CaptureFiles /\ Serve(f).runs = n /\ Serve(f).started = TRUE
        /\ Serve(f).result = f.result
    BY <2>1, <2>2 DEF CaptureFiles
  <2> QED BY <1>3, <2>2, <2>3
<1> QED BY <1>1, <1>2, <1>3

LEMMA ServeRestore ==
  ASSUME NEW f \in RestoreFiles, f.runs \in {0, 1}, ~f.started => f.runs = 0, ~f.running
  PROVE  /\ Serve(f) \in RestoreFiles /\ Serve(f).runs \in {0, 1} /\ (~Serve(f).started => Serve(f).runs = 0)
         /\ Serve(f).running => Serve(f).result = "none"
         /\ f.result = "restored" => Serve(f).result = "restored"
<1>1. CASE f.result # "none"
  BY <1>1 DEF Serve
<1>2. CASE f.result = "none" /\ f.started
  BY <1>2 DEF Serve, RestoreFiles
<1>3. CASE f.result = "none" /\ ~f.started
  <2> DEFINE n == f.runs + 1
  <2>1. Serve(f) = [f EXCEPT !.started = TRUE, !.running = TRUE, !.runs = n]
    BY <1>3 DEF Serve
  <2>2. n \in Nat /\ n = 1
    BY <1>3
  <2> HIDE DEF n
  <2>3. /\ Serve(f) \in RestoreFiles /\ Serve(f).runs = n /\ Serve(f).started = TRUE
        /\ Serve(f).result = f.result
    BY <2>1, <2>2 DEF RestoreFiles
  <2> QED BY <1>3, <2>2, <2>3
<1> QED BY <1>1, <1>2, <1>3

LEMMA AskCaptureKeeps ==
  ASSUME BackupInv, NEW b \in Backups, UNCHANGED pg, AskCapture(b) \/ CleanGuest(b)
  PROVE  BackupInv'
<1>1. /\ BackupOnly /\ UNCHANGED <<bk, scratch, storeVars>> /\ res' = res
  BY DEF AskCapture, CleanGuest, CallCapture, RemoveCapture, guestVars
<1>2. /\ cap \in [Backups -> CaptureFiles] /\ res \in [Restores -> RestoreFiles]
      /\ cap[b] \in CaptureFiles /\ CaptureRuns(b)
  BY GuestFacts
<1>3. PICK f \in CaptureFiles : /\ cap' = cap \/ cap' = [cap EXCEPT ![b] = f]
                                /\ f.runs \in {0, 1} /\ (~f.started => f.runs = 0)
  <2>1. CASE AskCapture(b)
    <3>1. cap' = [cap EXCEPT ![b] = Serve(cap[b])]
      BY <2>1 DEF AskCapture, CallCapture
    <3> QED BY <1>2, <3>1, ServeCapture DEF CaptureRuns
  <2>2. CASE CleanGuest(b)
    <3>1. CASE cap' = cap
      BY <1>2, <3>1 DEF CaptureRuns
    <3>2. CASE cap' # cap
      <4> DEFINE g == [cap[b] EXCEPT !.archive = FALSE, !.result = IF cap[b].started THEN "failed" ELSE cap[b].result]
      <4>1. RemoveCapture(b)
        BY <2>2, <3>2 DEF CleanGuest, guestVars
      <4>2. cap' = [cap EXCEPT ![b] = g]
        BY <1>2, <4>1 DEF RemoveCapture
      <4>3. g \in CaptureFiles /\ g.runs = cap[b].runs /\ g.started = cap[b].started
        BY <1>2 DEF CaptureFiles
      <4> HIDE DEF g
      <4> QED BY <1>2, <4>2, <4>3 DEF CaptureRuns
    <3> QED BY <3>1, <3>2
  <2> QED BY <2>1, <2>2
<1>4. \A x \in Backups : CaptureRuns(x)'
  BY <1>2, <1>3, GuestFacts DEF CaptureRuns
<1>5. GuestTypeOK'
  BY <1>1, <1>2, <1>3 DEF GuestTypeOK
<1>6. /\ wk' \in Working /\ wk'.id = b
      /\ \/ wk = [pc |-> "capture", id |-> b] /\ wk'.pc = "capturing"
         \/ wk'.pc = "cleaned"
  <2>1. "capturing" \in Steps /\ "cleaned" \in Steps
    BY DEF Steps
  <2> QED BY <2>1, WorkerAt DEF AskCapture, CleanGuest, At, Goto
<1>7. \A x \in Backups : CaptureInv(x)'
  <2>1. CASE wk = [pc |-> "capture", id |-> b] /\ wk'.pc = "capturing"
    <3>1. bk[b].state = "pending" /\ bk[b].work = "capture"
      BY <2>1, GuestFacts DEF CaptureInv, Doing
    <3> QED BY <1>1, <1>6, <2>1, <3>1 DEF CaptureInv, Doing
  <2>2. CASE wk'.pc = "cleaned"
    BY <2>2 DEF CaptureInv, Doing
  <2> QED BY <1>6, <2>1, <2>2
<1>8. \A r \in Restores : RestoreRuns(r)'
  BY <1>1, GuestFacts DEF RestoreRuns
<1>9. \A r \in Restores, pcs \in SUBSET RestorePcs : ~Doing(r, pcs)'
  BY <1>6 DEF Doing, RestorePcs
<1> QED BY <1>1, <1>4, <1>5, <1>6, <1>7, <1>8, <1>9, GuestFrame DEF BackupOnly

\* Guests work on by themselves; an interrupted one keeps its marker.
LEMMA GuestStepKeeps ==
  ASSUME BackupInv, GuestStep, UNCHANGED <<storeVars, workVars, pg>>
  PROVE  BackupInv'
<1>0. UNCHANGED <<bk, scratch, rs, target, source, revoked, wk, puts>>
  BY DEF workVars, storeVars
<1>1. /\ cap \in [Backups -> CaptureFiles] /\ res \in [Restores -> RestoreFiles] /\ wk \in Working
      /\ \A b \in Backups : CaptureInv(b) /\ CaptureRuns(b) /\ cap[b] \in CaptureFiles
      /\ \A r \in Restores : RestoreInv(r) /\ RestoreRuns(r) /\ res[r] \in RestoreFiles
  BY GuestFacts
<1>2. /\ cap' \in [Backups -> CaptureFiles]
      /\ \A b \in Backups : cap'[b].runs = cap[b].runs /\ cap'[b].started = cap[b].started
  <2>1. CASE cap' = cap
    BY <1>1, <2>1
  <2>2. CASE \E b \in Backups : CaptureDone(b) \/ CaptureFails(b)
    <3>1. PICK b \in Backups : CaptureDone(b) \/ CaptureFails(b)
      BY <2>2
    <3>2. CASE CaptureDone(b)
      BY <1>1, <3>2 DEF CaptureDone, CaptureFiles
    <3>3. CASE CaptureFails(b)
      BY <1>1, <3>3 DEF CaptureFails, CaptureFiles
    <3> QED BY <3>1, <3>2, <3>3
  <2>3. CASE GuestInterrupted
    <3>1. cap' = [b \in Backups |-> [cap[b] EXCEPT !.running = FALSE]]
      BY <2>3 DEF GuestInterrupted
    <3> QED BY <1>1, <3>1 DEF CaptureFiles
  <2> QED BY <2>1, <2>2, <2>3 DEF GuestStep, RestoreDone, RestoreFails
<1>3. /\ res' \in [Restores -> RestoreFiles]
      /\ \A r \in Restores :
           /\ res'[r].runs = res[r].runs /\ res'[r].started = res[r].started
           /\ res'[r].running => res'[r].result = "none"
           /\ res[r].result = "restored" => res'[r].result = "restored"
  <2>1. CASE res' = res
    BY <1>1, <2>1 DEF RestoreRuns
  <2>2. CASE \E r \in Restores : RestoreDone(r) \/ RestoreFails(r)
    <3>1. PICK r \in Restores : RestoreDone(r) \/ RestoreFails(r)
      BY <2>2
    <3>2. res[r].running /\ res[r].result = "none"
      BY <1>1, <3>1 DEF RestoreDone, RestoreFails, RestoreRuns
    <3>3. CASE RestoreDone(r)
      BY <1>1, <3>2, <3>3 DEF RestoreDone, RestoreFiles, RestoreRuns
    <3>4. CASE RestoreFails(r)
      BY <1>1, <3>2, <3>4 DEF RestoreFails, RestoreFiles, RestoreRuns
    <3> QED BY <3>1, <3>3, <3>4
  <2>3. CASE GuestInterrupted
    <3>1. res' = [r \in Restores |-> [res[r] EXCEPT !.running = FALSE]]
      BY <2>3 DEF GuestInterrupted
    <3> QED BY <1>1, <3>1 DEF RestoreFiles
  <2> QED BY <2>1, <2>2, <2>3 DEF GuestStep, CaptureDone, CaptureFails
<1>4. \A b \in Backups : CaptureRuns(b)' /\ CaptureInv(b)'
  BY <1>0, <1>1, <1>2 DEF CaptureRuns, CaptureInv, Doing
<1>5. \A r \in Restores : RestoreRuns(r)'
  BY <1>1, <1>3 DEF RestoreRuns
<1>6. GuestTypeOK'
  BY <1>2, <1>3 DEF GuestTypeOK
<1>7. \A r \in Restores, pcs \in SUBSET RestorePcs : Doing(r, pcs)' => Doing(r, pcs)
  BY <1>0 DEF Doing
<1> QED BY <1>0, <1>1, <1>3, <1>4, <1>5, <1>6, <1>7, GuestFrame

-----------------------------------------------------------------------------
(* Restores.                                                                *)

LEMMA RestoreFacts ==
  ASSUME BackupInv, NEW r \in Restores
  PROVE  /\ rs \in [Restores -> RestoreRow] /\ rs[r] \in RestoreRow /\ rs[r].of \in Backups
         /\ target \in [Restores -> Targets] /\ wk \in Working /\ bk \in [Backups -> BackupRow]
         /\ RestoreInv(r) /\ SparedInv(r) /\ RestoreRuns(r)
BY DEF BackupInv, TypeOK, WorkTypeOK, RestoreRow

\* A step for one restore: the backup's row changes only to be called verified.
LEMMA RestoreFrame ==
  ASSUME BackupInv, NEW r \in Restores,
         UNCHANGED <<guestVars, storeVars, scratch, source, revoked, pg>>,
         rs' \in [Restores -> RestoreRow], \A x \in Restores : x # r => rs'[x] = rs[x],
         rs[r].state = "restored" => rs'[r] = rs[r],
         target' \in [Restores -> Targets], \A x \in Restores : x # r => target'[x] = target[x],
         bk' \in [Backups -> BackupRow],
         \A b \in Backups :
           /\ bk'[b].state = bk[b].state /\ bk'[b].work = bk[b].work /\ bk'[b].gen = bk[b].gen
           /\ bk'[b].attempts = bk[b].attempts
           /\ bk'[b].verified => bk[b].verified \/ (rs'[r].state = "restored" /\ rs'[r].of = b),
         wk' \in Working, wk' = wk \/ wk' = Free \/ (wk'.id = r /\ wk'.pc \in RestorePcs \cup {"next"}),
         RestoreInv(r)', SparedInv(r)'
  PROVE  BackupInv'
<1>1. /\ UNCHANGED <<cap, res, put, puts, obj, del, expired, unlocked>>
      /\ GuestTypeOK /\ StoreTypeOK /\ WorkTypeOK
  BY StoreFacts DEF guestVars, storeVars
<1>2. TypeOK'
  BY <1>1 DEF BackupInv, TypeOK, GuestTypeOK, StoreTypeOK, WorkTypeOK
<1>3. ASSUME NEW b \in Backups PROVE CaptureInv(b)' /\ UploadInv(b)' /\ VerifiedInv(b)' /\ CaptureRuns(b)'
  <2>1. CaptureInv(b) /\ UploadInv(b) /\ VerifiedInv(b) /\ CaptureRuns(b)
    BY DEF BackupInv
  <2>2. CaptureInv(b)'
    <3>1. ASSUME NEW pcs, pcs \cap (RestorePcs \cup {"next", "free"}) = {}, Doing(b, pcs)' PROVE Doing(b, pcs)
      BY <3>1, FreeFacts DEF Doing
    <3> QED BY <1>1, <2>1, <3>1 DEF CaptureInv, RestorePcs
  <2>3. UploadInv(b)'
    BY <1>1, <2>1 DEF UploadInv
  <2>4. VerifiedInv(b)'
    BY <2>1 DEF VerifiedInv
  <2> QED BY <1>1, <2>1, <2>2, <2>3, <2>4 DEF CaptureRuns
<1>4. ASSUME NEW x \in Restores, x # r PROVE RestoreInv(x)' /\ SparedInv(x)' /\ RestoreRuns(x)'
  <2>1. RestoreInv(x) /\ SparedInv(x) /\ RestoreRuns(x) /\ rs'[x] = rs[x] /\ target'[x] = target[x] /\ rs[x].of \in Backups
    BY <1>4, RestoreFacts
  <2>2. ASSUME NEW pcs, "free" \notin pcs, Doing(x, pcs)' PROVE Doing(x, pcs)
    BY <1>4, <2>2, FreeFacts DEF Doing
  <2>3. RestoreInv(x)'
    BY <1>1, <2>1, <2>2 DEF RestoreInv
  <2> QED BY <1>1, <2>1, <2>3 DEF SparedInv, RestoreRuns
<1>5. RestoreRuns(r)'
  BY <1>1, RestoreFacts DEF RestoreRuns
<1> QED BY <1>2, <1>3, <1>4, <1>5 DEF BackupInv

LEMMA RestoreWorkerAt ==
  ASSUME NEW r \in Restores, NEW pc \in RestorePcs \cup {"next"}, wk' = [pc |-> pc, id |-> r]
  PROVE  wk' \in Working /\ wk'.pc = pc /\ wk'.id = r
<1>1. pc \in Steps
  BY DEF RestorePcs, Steps
<1> QED BY <1>1, WorkerAt

LEMMA AdmitRestoreKeeps ==
  ASSUME BackupInv, NEW r \in Restores, NEW b \in Backups, AdmitRestore(r, b)
  PROVE  BackupInv'
<1>1. /\ rs[r].state = "none" /\ bk[b].state = "captured"
      /\ rs' = [rs EXCEPT ![r].state = "pending", ![r].of = b]
      /\ target' = [target EXCEPT ![r] = "provisioning"]
      /\ UNCHANGED <<bk, scratch, source, revoked, wk, guestVars, storeVars, pg>>
  BY DEF AdmitRestore
<1>2. /\ rs \in [Restores -> RestoreRow] /\ rs[r] \in RestoreRow /\ target \in [Restores -> Targets]
      /\ wk \in Working /\ bk \in [Backups -> BackupRow] /\ RestoreInv(r)
  BY RestoreFacts
<1>3. /\ rs' \in [Restores -> RestoreRow] /\ \A x \in Restores : x # r => rs'[x] = rs[x]
      /\ rs'[r].state = "pending" /\ rs'[r].of = b
  BY <1>1, <1>2 DEF RestoreRow
<1>4. target' \in [Restores -> Targets] /\ \A x \in Restores : x # r => target'[x] = target[x]
  BY <1>1, <1>2 DEF Targets
<1>5. RestoreInv(r)'
  BY <1>1, <1>2, <1>3 DEF RestoreInv, Doing
<1>6. SparedInv(r)'
  BY <1>1, <1>3 DEF SparedInv
<1> QED BY <1>1, <1>2, <1>3, <1>4, <1>5, <1>6, RestoreFrame

\* Steps that move the row of a restore on, before its guest has answered.
LEMMA RestoreAdvanceKeeps ==
  ASSUME BackupInv, NEW r \in Restores, UNCHANGED pg,
         Provisioned(r) \/ Prepare(r) \/ Download(r) \/ SubmitRestore(r) \/ StartInspect(r)
  PROVE  BackupInv'
<1>1. /\ RestoreOnly /\ UNCHANGED <<guestVars, storeVars>>
  BY DEF Provisioned, Prepare, Download, SubmitRestore, StartInspect
<1>2. /\ rs \in [Restores -> RestoreRow] /\ rs[r] \in RestoreRow /\ target \in [Restores -> Targets]
      /\ wk \in Working /\ bk \in [Backups -> BackupRow] /\ RestoreInv(r) /\ SparedInv(r)
  BY RestoreFacts
<1>3. PICK pc \in RestorePcs \cup {"next"} :
        /\ wk' = [pc |-> pc, id |-> r]
        /\ rs[r].state = "pending" /\ rs[r].work # "done"
        /\ rs' \in [Restores -> RestoreRow] /\ \A x \in Restores : x # r => rs'[x] = rs[x]
        /\ rs'[r].state = "pending" /\ rs'[r].of = rs[r].of
        /\ pc \in {"download", "send"} => rs'[r].work = "prepare"
        /\ pc \in {"restore", "restoring", "inspect"} => rs'[r].work = "submitted"
  <2>1. CASE Provisioned(r)
    <3>1. wk' = [pc |-> "next", id |-> r] /\ rs[r].state = "pending" /\ rs[r].work = "waiting"
          /\ rs' = [rs EXCEPT ![r].work = "prepare", ![r].attempts = 0]
      BY <2>1 DEF Provisioned, Goto
    <3>2. /\ rs' \in [Restores -> RestoreRow] /\ \A x \in Restores : x # r => rs'[x] = rs[x]
          /\ rs'[r].state = "pending" /\ rs'[r].of = rs[r].of
      BY <1>2, <3>1, Numbers DEF RestoreRow
    <3> QED BY <3>1, <3>2 DEF RestorePcs
  <2>2. CASE Prepare(r) \/ StartInspect(r)
    <3>1. /\ rs[r].state = "pending" /\ rs[r].attempts < MaxAttempts
          /\ rs' = [rs EXCEPT ![r].attempts = @ + 1]
          /\ \/ rs[r].work = "prepare" /\ wk' = [pc |-> "download", id |-> r]
             \/ rs[r].work = "submitted" /\ wk' = [pc |-> "inspect", id |-> r]
      BY <2>2 DEF Prepare, StartInspect, Goto
    <3>2. rs[r].attempts \in 0..MaxAttempts
      BY <1>2 DEF RestoreRow
    <3>3. PICK n \in 0..MaxAttempts : n = rs[r].attempts + 1
      BY <3>1, <3>2, Numbers
    <3>4. rs' = [rs EXCEPT ![r].attempts = n]
      BY <3>1, <3>3
    <3>5. /\ rs' \in [Restores -> RestoreRow] /\ \A x \in Restores : x # r => rs'[x] = rs[x]
          /\ rs'[r].state = "pending" /\ rs'[r].of = rs[r].of /\ rs'[r].work = rs[r].work
      BY <1>2, <3>1, <3>3, <3>4 DEF RestoreRow
    <3> QED BY <3>1, <3>5 DEF RestorePcs
  <2>3. CASE Download(r)
    <3>1. wk = [pc |-> "download", id |-> r] /\ wk' = [pc |-> "send", id |-> r] /\ rs' = rs
      BY <2>3 DEF Download, At, Goto
    <3>2. rs[r].state = "pending" /\ rs[r].work = "prepare"
      BY <1>2, <3>1 DEF RestoreInv, Doing
    <3> QED BY <1>2, <3>1, <3>2 DEF RestorePcs
  <2>4. CASE SubmitRestore(r)
    <3>1. wk = [pc |-> "send", id |-> r] /\ wk' = [pc |-> "restore", id |-> r]
          /\ rs' = [rs EXCEPT ![r].work = "submitted", ![r].attempts = 0]
      BY <2>4 DEF SubmitRestore, At, Goto
    <3>2. rs[r].state = "pending" /\ rs[r].work = "prepare"
      BY <1>2, <3>1 DEF RestoreInv, Doing
    <3>3. /\ rs' \in [Restores -> RestoreRow] /\ \A x \in Restores : x # r => rs'[x] = rs[x]
          /\ rs'[r].state = "pending" /\ rs'[r].of = rs[r].of /\ rs'[r].work = "submitted"
      BY <1>2, <3>1, <3>2, Numbers DEF RestoreRow
    <3> QED BY <3>1, <3>2, <3>3 DEF RestorePcs
  <2> QED BY <2>1, <2>2, <2>3, <2>4
<1>4. wk' \in Working /\ wk'.pc = pc /\ wk'.id = r
  BY <1>3, RestoreWorkerAt
<1>5. RestoreInv(r)'
  BY <1>3, <1>4 DEF RestoreInv, Doing
<1>6. UNCHANGED <<bk, scratch, target, source, revoked>>
  BY <1>1 DEF RestoreOnly
<1>7. SparedInv(r)'
  BY <1>2, <1>3, <1>6 DEF SparedInv
<1> QED BY <1>1, <1>2, <1>3, <1>4, <1>5, <1>6, <1>7, RestoreFrame

LEMMA AskRestoreKeeps ==
  ASSUME BackupInv, NEW r \in Restores, UNCHANGED pg, AskRestore(r)
  PROVE  BackupInv'
<1>1. /\ wk = [pc |-> "restore", id |-> r] /\ wk' = [pc |-> "restoring", id |-> r]
      /\ ~res[r].running /\ res' = [res EXCEPT ![r] = Serve(res[r])] /\ cap' = cap
      /\ UNCHANGED <<bk, scratch, rs, target, source, revoked, storeVars>>
  BY DEF AskRestore, At, Goto, CallRestore, RestoreOnly
<1>2. /\ cap \in [Backups -> CaptureFiles] /\ res \in [Restores -> RestoreFiles]
      /\ RestoreInv(r) /\ RestoreRuns(r) /\ res[r] \in RestoreFiles
  BY GuestFacts
<1>3. rs[r].state = "pending" /\ rs[r].work = "submitted"
  BY <1>1, <1>2 DEF RestoreInv, Doing
<1>4. PICK f \in RestoreFiles :
        /\ f = Serve(res[r]) /\ f.runs \in {0, 1} /\ (~f.started => f.runs = 0)
        /\ f.running => f.result = "none"
        /\ res[r].result = "restored" => f.result = "restored"
  BY <1>1, <1>2, ServeRestore DEF RestoreRuns
<1>5. res' \in [Restores -> RestoreFiles] /\ res'[r] = f /\ \A x \in Restores : x # r => res'[x] = res[x]
  BY <1>1, <1>2, <1>4
<1>6. \A x \in Restores : RestoreRuns(x)' /\ (res[x].result = "restored" => res'[x].result = "restored")
  BY <1>4, <1>5, GuestFacts DEF RestoreRuns
<1>7. wk' \in Working /\ wk'.pc = "restoring" /\ wk'.id = r
  BY <1>1, RestoreWorkerAt DEF RestorePcs
<1>8. GuestTypeOK'
  BY <1>1, <1>2, <1>5 DEF GuestTypeOK
<1>9. \A b \in Backups : CaptureInv(b)' /\ CaptureRuns(b)'
  BY <1>1, <1>7, GuestFacts DEF CaptureInv, Doing, CaptureRuns
<1>10. \A x \in Restores, pcs \in SUBSET RestorePcs : Doing(x, pcs)' =>
            rs[x].state = "pending" /\ rs[x].work = "submitted" /\ wk'.pc = "restoring"
  BY <1>3, <1>7 DEF Doing
<1> QED BY <1>1, <1>6, <1>7, <1>8, <1>9, <1>10, GuestFrame

LEMMA BlockRestoreKeeps ==
  ASSUME BackupInv, NEW r \in Restores, UNCHANGED pg, BlockRestore(r), rs[r].state = "pending"
  PROVE  BackupInv'
<1>1. /\ rs' = [rs EXCEPT ![r].state = "blocked"] /\ wk' = Free
      /\ UNCHANGED <<bk, scratch, target, source, revoked, guestVars, storeVars>>
  BY DEF BlockRestore, RestoreOnly
<1>2. /\ rs \in [Restores -> RestoreRow] /\ rs[r] \in RestoreRow /\ target \in [Restores -> Targets]
      /\ bk \in [Backups -> BackupRow] /\ SparedInv(r)
  BY RestoreFacts
<1>3. /\ rs' \in [Restores -> RestoreRow] /\ \A x \in Restores : x # r => rs'[x] = rs[x]
      /\ rs'[r].state = "blocked" /\ rs'[r].of = rs[r].of /\ rs'[r].work = rs[r].work
  BY <1>1, <1>2 DEF RestoreRow
<1>4. RestoreInv(r)'
  BY <1>1, <1>3, FreeFacts DEF RestoreInv, Doing
<1>5. SparedInv(r)'
  BY <1>1, <1>2, <1>3 DEF SparedInv
<1> QED BY <1>1, <1>2, <1>3, <1>4, <1>5, FreeFacts, RestoreFrame

\* finish: on the guest's report, and only while the source is still captured.
LEMMA FinishKeeps ==
  ASSUME BackupInv, NEW r \in Restores, UNCHANGED pg, Finish(r), rs[r].state = "pending",
         res[r].result = "restored"
  PROVE  BackupInv'
<1>1. /\ rs' = [rs EXCEPT ![r].state = "restored", ![r].work = "done"] /\ wk' = Free
      /\ bk' = [bk EXCEPT ![rs[r].of].verified = TRUE]
      /\ UNCHANGED <<scratch, target, source, revoked, guestVars, storeVars>>
  BY DEF Finish
<1>2. /\ rs \in [Restores -> RestoreRow] /\ rs[r] \in RestoreRow /\ target \in [Restores -> Targets]
      /\ bk \in [Backups -> BackupRow] /\ SparedInv(r) /\ rs[r].of \in Backups
  BY RestoreFacts
<1>3. /\ rs' \in [Restores -> RestoreRow] /\ \A x \in Restores : x # r => rs'[x] = rs[x]
      /\ rs'[r].state = "restored" /\ rs'[r].of = rs[r].of /\ rs'[r].work = "done"
  BY <1>1, <1>2 DEF RestoreRow
<1>4. PICK o \in Backups : o = rs[r].of
  BY <1>2
<1>5. bk' = [bk EXCEPT ![o].verified = TRUE]
  BY <1>1, <1>4
<1>6. /\ bk' \in [Backups -> BackupRow]
      /\ \A b \in Backups :
           /\ bk'[b].state = bk[b].state /\ bk'[b].work = bk[b].work /\ bk'[b].gen = bk[b].gen
           /\ bk'[b].attempts = bk[b].attempts /\ (bk'[b].verified => bk[b].verified \/ b = o)
  <2>1. bk' \in [Backups -> BackupRow] /\ \A b \in Backups : b # o => bk'[b] = bk[b]
    BY <1>2, <1>5 DEF BackupRow
  <2>2. /\ bk'[o].state = bk[o].state /\ bk'[o].work = bk[o].work /\ bk'[o].gen = bk[o].gen
        /\ bk'[o].attempts = bk[o].attempts
    BY <1>2, <1>5 DEF BackupRow
  <2> QED BY <2>1, <2>2
<1>7. res' = res
  BY <1>1 DEF guestVars
<1>8. RestoreInv(r)'
  <2>1. wk'.pc = "free"
    BY <1>1, FreeFacts
  <2> QED BY <1>7, <2>1 DEF RestoreInv, Doing
<1>9. SparedInv(r)'
  BY <1>3 DEF SparedInv
<1> QED BY <1>1, <1>2, <1>3, <1>4, <1>6, <1>8, <1>9, FreeFacts, RestoreFrame

LEMMA ConcludeKeeps ==
  ASSUME BackupInv, NEW r \in Restores, UNCHANGED pg,
         GiveUpRestore(r) \/ RestoreReplied(r) \/ Inspected(r)
  PROVE  BackupInv'
<1>1. CASE GiveUpRestore(r)
  BY <1>1, BlockRestoreKeeps DEF GiveUpRestore
<1>2. CASE RestoreReplied(r) \/ Inspected(r)
  <2>1. (wk = [pc |-> "restoring", id |-> r] \/ wk = [pc |-> "inspect", id |-> r]) /\ Conclude(r)
    BY <1>2 DEF RestoreReplied, Inspected, At
  <2>2. rs[r].state = "pending"
    BY <2>1, RestoreFacts DEF RestoreInv, Doing
  <2> QED BY <2>1, <2>2, BlockRestoreKeeps, FinishKeeps DEF Conclude
<1> QED BY <1>1, <1>2

\* Machines and credentials: a destroyed target stays destroyed.
LEMMA OutsideKeeps ==
  ASSUME BackupInv,
         DestroySource \/ Revoke \/ (\E r \in Restores : Provision(r) \/ DestroyTarget(r)) \/ UNCHANGED vars
  PROVE  BackupInv'
<1>1. UNCHANGED <<bk, scratch, rs, wk, guestVars, storeVars, pg>>
  BY DEF DestroySource, Revoke, Provision, DestroyTarget, SetTarget, vars, workVars
<1>2. UNCHANGED <<cap, res, put, puts, obj, del, expired, unlocked>> /\ GuestTypeOK /\ StoreTypeOK /\ WorkTypeOK
  BY <1>1, StoreFacts DEF guestVars, storeVars
<1>3. target \in [Restores -> Targets] /\ source \in {"up", "destroyed"} /\ revoked \in BOOLEAN
  BY <1>2 DEF WorkTypeOK
<1>4. /\ target' \in [Restores -> Targets]
      /\ \A r \in Restores : target[r] = "destroyed" => target'[r] = "destroyed"
  <2>1. CASE target' = target
    BY <1>3, <2>1
  <2>2. CASE \E r \in Restores : Provision(r) \/ DestroyTarget(r)
    <3>1. PICK r \in Restores, to \in {"ready", "failed", "destroyed"} :
            target[r] # "destroyed" /\ target' = [target EXCEPT ![r] = to]
      BY <2>2 DEF Provision, DestroyTarget, SetTarget
    <3> QED BY <1>3, <3>1 DEF Targets
  <2> QED BY <2>1, <2>2 DEF DestroySource, Revoke, vars, workVars
<1>5. source' \in {"up", "destroyed"} /\ revoked' \in BOOLEAN
  BY <1>3 DEF DestroySource, Revoke, Provision, DestroyTarget, SetTarget, vars, workVars
<1>6. TypeOK'
  BY <1>1, <1>2, <1>4, <1>5 DEF BackupInv, TypeOK, GuestTypeOK, StoreTypeOK, WorkTypeOK
<1>7. \A b \in Backups : CaptureInv(b)' /\ UploadInv(b)' /\ VerifiedInv(b)' /\ CaptureRuns(b)'
  BY <1>1, <1>2 DEF BackupInv, CaptureInv, UploadInv, VerifiedInv, CaptureRuns, Doing
<1>8. \A r \in Restores : RestoreInv(r)' /\ SparedInv(r)' /\ RestoreRuns(r)'
  BY <1>1, <1>2, <1>4 DEF BackupInv, RestoreInv, SparedInv, RestoreRuns, Doing
<1> QED BY <1>6, <1>7, <1>8 DEF BackupInv

-----------------------------------------------------------------------------
LEMMA BackupStepKeeps ==
  ASSUME BackupInv, NEW b \in Backups, BackupStep(b), UNCHANGED pg
  PROVE  BackupInv'
<1>1. CASE StartCapture(b) \/ StartEncrypt(b) \/ StartRecover(b)
  <2>1. UNCHANGED <<guestVars, storeVars>> /\ scratch' \in {scratch, RemoveScratchFile(b)}
        /\ \/ Attempt(b, "capture", "capture")
           \/ Attempt(b, "encrypt", "encrypt")
           \/ Attempt(b, "submitted", "recover")
    BY <1>1 DEF StartCapture, StartEncrypt, StartRecover
  <2> QED BY <2>1, AttemptKeeps
<1> QED BY <1>1, GiveUpKeeps, AskCaptureKeeps, AdvanceKeeps, EncryptKeeps, UploadKeeps, UploadedKeeps,
           CleanupKeeps DEF BackupStep

LEMMA BackupNext == BackupInv /\ [Next]_vars => BackupInv'
<1> SUFFICES ASSUME BackupInv, [Next]_vars PROVE BackupInv'
  OBVIOUS
<1>1. CASE \E b \in Backups : AdmitBackup(b) \/ AdmitPurge(b) \/ PurgeStep(b) \/ RecoverUpload(b)
  <2>1. PICK b \in Backups : AdmitBackup(b) \/ AdmitPurge(b) \/ PurgeStep(b) \/ RecoverUpload(b)
    BY <1>1
  <2>2. RecoverUpload(b) => UNCHANGED pg
    BY DEF RecoverUpload
  <2> QED BY <2>1, <2>2, AdmitBackupKeeps, PurgeKeeps, UploadedKeeps, StoreStepKeeps DEF PurgeStep
<1>2. CASE \E r \in Restores, b \in Backups : AdmitRestore(r, b)
  BY <1>2, AdmitRestoreKeeps
<1>3. CASE (StopWork \/ Crash \/ \E b \in Backups : BackupStep(b)) /\ UNCHANGED pg
  BY <1>3, WorkEndsKeeps, BackupStepKeeps
<1>4. CASE (\E r \in Restores : RestoreStep(r)) /\ UNCHANGED pg
  BY <1>4, RestoreAdvanceKeeps, AskRestoreKeeps, ConcludeKeeps DEF RestoreStep
<1>5. CASE GuestStep /\ UNCHANGED <<storeVars, workVars, pg>>
  BY <1>5, GuestStepKeeps
<1>6. CASE (\E b \in Backups : StoreStep(b)) /\ UNCHANGED <<guestVars, workVars, pg>>
  BY <1>6, StoreStepKeeps
<1>7. CASE DestroySource \/ Revoke \/ (\E r \in Restores : Provision(r) \/ DestroyTarget(r)) \/ UNCHANGED vars
  BY <1>7, OutsideKeeps
<1> QED BY <1>1, <1>2, <1>3, <1>4, <1>5, <1>6, <1>7 DEF Next

LEMMA BackupsCorrect == Spec => []BackupInv
<1> QED BY InitBackups, BackupNext, PTL DEF Spec

\* backup-work.ts: at most one PUT is ever sent for a backup, whatever crashes, lost
\* replies and retries the worker goes through.
THEOREM OnePutPerBackup == Spec => []UploadedOnce
<1>1. BackupInv => UploadedOnce
  BY DEF BackupInv, UploadInv, UploadedOnce
<1> QED BY <1>1, BackupsCorrect, PTL

\* guestctl backups.ts: a capture or a restore runs at most once in its guest, however
\* often it is asked for and interrupted.
THEOREM OneRunPerRequest == Spec => []GuestRunsOnce
<1>1. BackupInv => GuestRunsOnce
  BY DEF BackupInv, CaptureRuns, RestoreRuns, GuestRunsOnce
<1> QED BY <1>1, BackupsCorrect, PTL

\* backup-work.ts, backup-store: every object in the store, and every PUT that may
\* still create one, is described by the row of its backup.
THEOREM ObjectsAccountedFor == Spec => []NoOrphanObject
<1>1. BackupInv => NoOrphanObject
  BY DEF BackupInv, UploadInv, NoOrphanObject
<1> QED BY <1>1, BackupsCorrect, PTL

\* backup-purges.ts assertPurgeable: nothing is purged under a restore that is not
\* finished and whose target still exists, whichever is admitted first.
THEOREM RestoresSpared == Spec => []PurgeSparesRestores
<1>1. BackupInv => PurgeSparesRestores
  BY DEF BackupInv, SparedInv, PurgeSparesRestores
<1> QED BY <1>1, BackupsCorrect, PTL

\* backup-work.ts finish: a restore is called complete, and its backup verified, only
\* on the guest's own report.
THEOREM RestoresProven == Spec => []RestoreProven
<1>1. BackupInv => RestoreProven
  BY DEF BackupInv, RestoreInv, VerifiedInv, RestoreProven
<1> QED BY <1>1, BackupsCorrect, PTL
=============================================================================
