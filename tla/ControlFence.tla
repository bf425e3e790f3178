---------------------------- MODULE ControlFence ----------------------------
(***************************************************************************)
(* The fence between a control database and the processes that act on it.  *)
(* The generation file lives outside every archive; the database repeats   *)
(* the generation it is ready for. A process holds one shared session lock *)
(* for its lifetime and compares the two before each request or task; the  *)
(* recovery commands hold the lock exclusively. A restore puts an older    *)
(* database under a target that has no generation file yet.                *)
(*                                                                         *)
(* Source: apps/control/src/control-fence.ts, control-recovery.ts          *)
(* (prepare, exclusive), worker.ts, api.ts, packages/db/src/connection.ts. *)
(***************************************************************************)
EXTENDS Naturals, FiniteSets

CONSTANTS MaxRestores,      \* databases restored from a checkpoint
          MaxFaults         \* crashes, lost sessions, lost replies

ASSUME ControlFenceAssumption == MaxRestores \in Nat /\ MaxFaults \in Nat

VARIABLES db,       \* the database the target uses: one record, restored as a whole
          saved,    \* the checkpoint
          file,     \* the generation file of the target; 0 when there is none
          gens,     \* generations prepared so far (random in the code, never repeated)
          proc,     \* the API or worker process: what it does and its session lock
          restores, faults

fenceVars == <<db, saved, file, gens, proc, restores, faults>>

Unset == [kind |-> "none", gen |-> 0]
Down  == [st |-> "down", lease |-> "none", task |-> <<>>]

\* inspect: the row's generation is the file's and its kind is the mode's.
Matches(kind) == db.ctl.kind = kind /\ file # 0 /\ db.ctl.gen = file

Open == Matches("ready")

\* pg_try_advisory_lock fails while any session holds it shared.
Exclusive == proc.lease # "held"

-----------------------------------------------------------------------------
(* prepareControlGeneration creates the file or fails: 'wx'.                 *)
PrepareControlGeneration ==
  /\ file = 0
  /\ gens' = gens + 1 /\ file' = gens + 1
  /\ UNCHANGED <<db, saved, proc, restores, faults>>

\* openControlFence: take the shared lock, then inspect; any refusal ends the process.
OpenControlFence ==
  /\ proc.st = "down" /\ Open
  /\ proc' = [st |-> "idle", lease |-> "held", task |-> <<>>]
  /\ UNCHANGED <<db, saved, file, gens, restores, faults>>

\* check, before a request or a task: the session must be alive and still match.
Checked == proc.st = "idle" /\ proc.lease = "held" /\ Open

Busy(t) == proc' = [proc EXCEPT !.st = "busy", !.task = t]
Idle    == proc' = IF proc.lease = "held" THEN [proc EXCEPT !.st = "idle", !.task = <<>>] ELSE Down
At(t)   == proc.st = "busy" /\ proc.task = t

\* What a process writes reaches this database unless it belongs to the one before.
Here == proc.lease # "old"

\* The process closes its fence, or dies.
Stop ==
  /\ proc.st = "idle" /\ proc' = Down
  /\ UNCHANGED <<db, saved, file, gens, restores, faults>>

Crash ==
  /\ proc.st = "busy" /\ faults < MaxFaults
  /\ proc' = Down /\ faults' = faults + 1
  /\ UNCHANGED <<db, saved, file, gens, restores>>

\* The database drops the session. onLost ends the process, but only once it hears of it:
\* until then it goes on with the task it is in.
LoseSession ==
  /\ proc.lease = "held" /\ faults < MaxFaults
  /\ proc' = IF proc.st = "busy" THEN [proc EXCEPT !.lease = "lost"] ELSE Down
  /\ faults' = faults + 1
  /\ UNCHANGED <<db, saved, file, gens, restores>>

Exit ==
  /\ proc.lease \in {"lost", "old"} /\ proc' = Down
  /\ UNCHANGED <<db, saved, file, gens, restores, faults>>

-----------------------------------------------------------------------------
(* The archive.                                                              *)
TakeCheckpoint ==
  /\ db.ctl # Unset /\ saved # db /\ restores < MaxRestores
  /\ saved' = db
  /\ UNCHANGED <<db, file, gens, proc, restores, faults>>

\* A new target: the checkpoint's database, no generation file, and perhaps a process of the
\* source that nobody stopped.
RestoreDatabase ==
  /\ saved.ctl # Unset /\ restores < MaxRestores
  /\ restores' = restores + 1 /\ db' = saved /\ file' = 0
  /\ proc' = IF proc.st = "busy" THEN [proc EXCEPT !.lease = "old"] ELSE Down
  /\ UNCHANGED <<saved, gens, faults>>

FenceNext ==
  \/ PrepareControlGeneration \/ OpenControlFence \/ Stop \/ Crash \/ LoseSession \/ Exit
  \/ TakeCheckpoint \/ RestoreDatabase
=============================================================================
