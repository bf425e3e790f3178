--------------------------- MODULE ControlRecovery ---------------------------
(***************************************************************************)
(* The operator's decisions that bring a restored control database back    *)
(* into service (initialize, begin, close_operation, resume), each one     *)
(* transaction under the exclusive fence, and what they decide about: the  *)
(* records of the database against what really exists. The records of one  *)
(* machine, build, backup or route are summed up in one word; the modules  *)
(* of those parts have the operations themselves.                          *)
(*                                                                         *)
(* Source: apps/control/src/control-recovery.ts,                           *)
(* control-recovery-inspection.ts, control-recovery-verifiers.ts.          *)
(***************************************************************************)
EXTENDS ControlFence

CONSTANT Machines

\* What the database keeps records of and the world outside holds: machines, one image build's
\* snapshot, one backup's object, one hosting route.
Things == Machines \cup {"image", "backup", "route"}

VARIABLES exists,     \* what there is at the provider, in the object store, on the guest
          flight,     \* the request still on its way there
          submits     \* history: requests sent to make the thing

inventoryVars == <<exists, flight, submits>>

\* none: no such record. queued: admitted, without an attempt. prepared: the attempt is pending.
\* live: made, the records settled (a created machine, a retained build, a captured backup, an
\* applied route). destroying, deleting: the same of its removal. gone, closed: tombstoned, by
\* a removal or by recovery.
Rows       == {"none", "queued", "prepared", "live", "destroying", "deleting", "gone", "closed"}
Unfinished == {"queued", "prepared", "destroying", "deleting"}
Tombstoned == {"gone", "closed"}

SetRow(m, r) == db' = [db EXCEPT !.ledger[m] = r]
Beside == <<saved, file, gens, restores, faults>>

-----------------------------------------------------------------------------
(* The API admits, the worker carries out.                                   *)

\* Ids are random: one that any database ever gave out is not given out again.
Fresh(m) == submits[m] = 0 /\ db.ledger[m] = "none" /\ saved.ledger[m] = "none"

AdmitCreate(m) ==
  /\ Checked /\ Fresh(m) /\ ~exists[m] /\ flight[m] = "none"
  /\ SetRow(m, "queued")
  /\ UNCHANGED <<inventoryVars, proc, Beside>>

AdmitDestroy(m) ==
  /\ Checked /\ db.ledger[m] = "live" /\ SetRow(m, "destroying")
  /\ UNCHANGED <<inventoryVars, proc, Beside>>

\* A task reads the operation once the fence was checked.
TakeTask(m) ==
  /\ Checked
  /\ \/ db.ledger[m] = "queued" /\ Busy(<<"create", m>>)
     \/ db.ledger[m] = "destroying" /\ Busy(<<"delete", m>>)
  /\ UNCHANGED <<inventoryVars, db, Beside>>

\* The attempt is recorded before the request leaves.
PrepareAttempt(m) ==
  /\ \/ /\ At(<<"create", m>>) /\ proc' = [proc EXCEPT !.task = <<"send_create", m>>]
        /\ IF Here THEN db.ledger[m] = "queued" /\ SetRow(m, "prepared") ELSE UNCHANGED db
     \/ /\ At(<<"delete", m>>) /\ proc' = [proc EXCEPT !.task = <<"send_delete", m>>]
        /\ IF Here THEN db.ledger[m] = "destroying" /\ SetRow(m, "deleting") ELSE UNCHANGED db
  /\ UNCHANGED <<inventoryVars, Beside>>

Submit(m) ==
  /\ \/ At(<<"send_create", m>>) /\ flight' = [flight EXCEPT ![m] = "create"]
        /\ submits' = [submits EXCEPT ![m] = @ + 1]
     \/ At(<<"send_delete", m>>) /\ flight' = [flight EXCEPT ![m] = "delete"]
        /\ UNCHANGED submits
  /\ Idle
  /\ UNCHANGED <<exists, db, Beside>>

\* Reconciliation: what the provider shows settles the attempt.
Confirm(m) ==
  /\ Checked
  /\ \/ db.ledger[m] = "prepared" /\ exists[m] /\ SetRow(m, "live")
     \/ db.ledger[m] = "deleting" /\ ~exists[m] /\ SetRow(m, "gone")
  /\ UNCHANGED <<inventoryVars, proc, Beside>>

\* The provider acts on a request when it gets to it, or never.
Land(m) ==
  /\ flight[m] # "none" /\ flight' = [flight EXCEPT ![m] = "none"]
  /\ \/ exists' = [exists EXCEPT ![m] = flight[m] = "create"]
     \/ UNCHANGED exists
  /\ UNCHANGED <<submits, fenceVars>>

\* The operator removes what the restored database does not know, at the provider.
RemoveResource(m) ==
  /\ ~Open /\ exists[m] /\ exists' = [exists EXCEPT ![m] = FALSE]
  /\ UNCHANGED <<flight, submits, fenceVars>>

-----------------------------------------------------------------------------
(* inspectControlRecovery                                                    *)

Live(m)    == db.ledger[m] = "live"
Settled(m) == db.ledger[m] \notin Unfinished

\* Mutant: only attempts of unknown outcome stand in the way, not operations still queued.
PendingBlocks(m) == m \in Machines /\ db.ledger[m] \in {"prepared", "deleting"}

\* Machines: no operation and no attempt is open; every resource row and every live allocation
\* names a server that is there; a tombstoned one is not.
OperationBlocks(m)  == m \in Machines /\ ~Settled(m)
ResourceBlocks(m)   == m \in Machines /\ db.ledger[m] \in Tombstoned /\ exists[m]
AllocationBlocks(m) == m \in Machines /\ Live(m) /\ ~exists[m]

\* Mutant: servers that no row names are not looked for.
NothingUnknown(m) == FALSE

\* Every managed server that is found has a live row.
UnknownBlocks(m) == m \in Machines /\ db.ledger[m] = "none" /\ exists[m]

\* A route is judged by its record alone.
RouteBlocks(m) == m = "route" /\ ~Settled(m)

\* A captured backup's object is read; the store is not searched for others.
ObjectVerified(m) == exists[m]
BackupBlocks(m)   == m = "backup" /\ (~Settled(m) \/ (Live(m) /\ ~ObjectVerified(m)))

\* A retained build's snapshot is verified, and every managed image resource has a live row.
SnapshotVerified(m) == exists[m]
BuildBlocks(m)      == m = "image" /\ (~Settled(m) \/ (Live(m) /\ ~SnapshotVerified(m)))
ImageBlocks(m)      == m = "image" /\ exists[m] /\ db.ledger[m] \in Tombstoned \cup {"none"}

ScheduleBlocks == db.auth.sched # 0

Blocked ==
  \/ \E m \in Things :
       \/ OperationBlocks(m) \/ ResourceBlocks(m) \/ AllocationBlocks(m) \/ UnknownBlocks(m)
       \/ RouteBlocks(m) \/ BackupBlocks(m) \/ BuildBlocks(m) \/ ImageBlocks(m)
  \/ ScheduleBlocks

-----------------------------------------------------------------------------
(* applyControlRecovery: replayed decisions and stale digests change nothing *)

\* requireRecovery, and the file's generation before and after the decision.
Recovering == Matches("recovering")

\* An empty database only: no account, no image build.
Initialize ==
  /\ Exclusive /\ file # 0 /\ db.ctl = Unset
  /\ db' = [db EXCEPT !.ctl = [kind |-> "ready", gen |-> file]]
  /\ UNCHANGED <<inventoryVars, proc, Beside>>

\* Mutant: begin leaves the restored grants as the checkpoint had them.
KeepGrants(auth) == [auth EXCEPT !.sess = 0, !.sched = 0]

RevokeEverything(auth) ==
  [auth EXCEPT !.grant = [g \in DOMAIN auth.grant |->
                            IF auth.grant[g] = "active" THEN "revoked" ELSE auth.grant[g]],
               !.sess = 0, !.sched = 0]

\* The operator attests that the source's processes are stopped and its credentials revoked.
Begin ==
  /\ Exclusive /\ proc.st = "down" /\ file # 0
  /\ db.ctl.kind # "recovering" /\ db.ctl.gen # file
  /\ db' = [db EXCEPT !.ctl = [kind |-> "recovering", gen |-> file],
                      !.auth = RevokeEverything(@)]
  /\ UNCHANGED <<inventoryVars, proc, Beside>>

\* close_operation: nothing of the allocation is found and, as the operator attests, no
\* request can still arrive.
CloseOperation(m) ==
  /\ Exclusive /\ Recovering /\ m \in Machines /\ db.ledger[m] \in Unfinished
  /\ ~exists[m] /\ flight[m] = "none"
  /\ SetRow(m, "closed")
  /\ UNCHANGED <<inventoryVars, proc, Beside>>

\* resume inspects again inside its transaction; the operator attests that every effect after
\* the checkpoint is closed.
Resume ==
  /\ Exclusive /\ Recovering /\ ~Blocked
  /\ \A m \in Things : flight[m] = "none"
  /\ db' = [db EXCEPT !.ctl.kind = "ready"]
  /\ UNCHANGED <<inventoryVars, proc, Beside>>
=============================================================================
