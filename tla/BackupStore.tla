----------------------------- MODULE BackupStore -----------------------------
(***************************************************************************)
(* The protected object store as the backup worker uses it: one key per    *)
(* backup, written by a conditional PUT and deleted by exact version. A    *)
(* request the caller gave up on may still be executed.                    *)
(*                                                                         *)
(* Source: packages/backup-store/src/index.ts; the S3 service behind it is *)
(* external. Sizes, pages of the version listing and metadata are left     *)
(* out; a generation stands for the digest of one encryption.              *)
(***************************************************************************)
EXTENDS BackupGuest

CONSTANT MaxAttempts        \* work attempts per phase (5 in the code)

ASSUME StoreAssumption == MaxAttempts \in Nat \ {0}

Generations == 0..MaxAttempts      \* 0: none

VARIABLES
  put,        \* [Backups -> Generations], the PUT under way
  puts,       \* [Backups -> Nat], PUTs ever sent (history)
  obj,        \* [Backups -> Generations], the object version stored
  del,        \* [Backups -> BOOLEAN], a DELETE of that version under way
  expired,    \* [Backups -> BOOLEAN], retainUntil of the record has passed
  unlocked    \* [Backups -> BOOLEAN], the store's retention, perhaps extended, is over

storeVars == <<put, puts, obj, del, expired, unlocked>>

StoreTypeOK ==
  /\ put \in [Backups -> Generations] /\ puts \in [Backups -> Nat]
  /\ obj \in [Backups -> Generations] /\ del \in [Backups -> BOOLEAN]
  /\ expired \in [Backups -> BOOLEAN] /\ unlocked \in [Backups -> BOOLEAN]

StoreInit ==
  /\ put = [b \in Backups |-> 0] /\ puts = [b \in Backups |-> 0]
  /\ obj = [b \in Backups |-> 0] /\ del = [b \in Backups |-> FALSE]
  /\ expired = [b \in Backups |-> FALSE] /\ unlocked = [b \in Backups |-> FALSE]

\* upload: bound to unexpired retention, and the file's digest is the intent's.
SendPut(b, intent, file) ==
  /\ ~expired[b] /\ file = intent /\ intent # 0
  /\ put' = [put EXCEPT ![b] = intent] /\ puts' = [puts EXCEPT ![b] = @ + 1]
  /\ UNCHANGED <<obj, del, expired, unlocked>>

\* readVersion, checkMetadata: the version on record, of the recorded size, metadata
\* and digest, is in the store.
ReadBack(b, gen) == obj[b] = gen

\* If-None-Match: the key has no object yet.
PutLands(b) ==
  /\ put[b] # 0 /\ obj[b] = 0
  /\ obj' = [obj EXCEPT ![b] = put[b]] /\ put' = [put EXCEPT ![b] = 0]
  /\ UNCHANGED <<puts, del, expired, unlocked>>

PutLost(b) ==
  /\ put[b] # 0 /\ put' = [put EXCEPT ![b] = 0]
  /\ UNCHANGED <<puts, obj, del, expired, unlocked>>

\* purge: only a version whose retention is over is asked to be deleted.
SendDelete(b) ==
  /\ unlocked[b] /\ obj[b] # 0 /\ ~del[b]
  /\ del' = [del EXCEPT ![b] = TRUE]
  /\ UNCHANGED <<put, puts, obj, expired, unlocked>>

DeleteLands(b) ==
  /\ del[b] /\ obj' = [obj EXCEPT ![b] = 0] /\ del' = [del EXCEPT ![b] = FALSE]
  /\ UNCHANGED <<put, puts, expired, unlocked>>

DeleteLost(b) ==
  /\ del[b] /\ del' = [del EXCEPT ![b] = FALSE]
  /\ UNCHANGED <<put, puts, obj, expired, unlocked>>

\* Time passes: the recorded deadline first, the store's own not before it.
RetentionEnds(b) ==
  /\ \/ ~expired[b] /\ expired' = [expired EXCEPT ![b] = TRUE] /\ UNCHANGED unlocked
     \/ expired[b] /\ ~unlocked[b] /\ unlocked' = [unlocked EXCEPT ![b] = TRUE] /\ UNCHANGED expired
  /\ UNCHANGED <<put, puts, obj, del>>

=============================================================================
