--------------------------- MODULE MachineLifecycle ---------------------------
(***************************************************************************)
(* One machine from its admitted create to the retirement of its           *)
(* allocation: admissions, the worker's ticks, the cleanup executor, the   *)
(* operator, the provider and everybody who may interfere.                 *)
(*                                                                         *)
(* Source: apps/control/src/lifecycle.ts (admission of actions), tasks.ts  *)
(* (who ticks operations) and the modules extended here.                   *)
(***************************************************************************)
EXTENDS MachineCleanup

CONSTANT ActionKinds   \* the actions users ask for in this instance

ASSUME ActionAssumption == ActionKinds \subseteq PowerCommands \cup {"resize"}

vars == <<sv, ips, act, wire, conn, faults, ext, ops, att, row, alloc, w,
          machine, granted, recovered>>

\* The create is admitted: machine, allocation and queued operation exist.
Init ==
  /\ ProviderInit
  /\ ops = [k \in Ops |->
             [kind |-> IF k = Source THEN "create" ELSE "none", intent |-> "run",
              prog |-> "active", type |-> 1]]
  /\ att = [a \in Attempts |-> Unused]
  /\ row = [r \in Resources |-> "none"]
  /\ alloc = [retired |-> FALSE, server |-> NoRes, reserved |-> 1, offer |-> 1]
  /\ w = Idle
  /\ machine = [state |-> "provisioning", power |-> "off"]
  /\ granted = TRUE
  /\ recovered = {}

\* admit: an action needs the grant, no active operation and a server. A
\* resize needs a machine that is off, never shrinks the disk, and reserves
\* the dearer of the two offers.
Admit(k, kind, type) ==
  /\ granted /\ NoActiveOp /\ NextOp(k)
  /\ ~alloc.retired /\ alloc.server # NoRes /\ machine.state # "destroyed"
  /\ IF kind = "resize"
     THEN /\ machine.state = "allocated" /\ machine.power = "off"
          /\ type >= alloc.offer
          /\ alloc' = [alloc EXCEPT !.reserved = IF type > @ THEN type ELSE @]
     ELSE type = alloc.offer /\ UNCHANGED alloc
  /\ ops' = [ops EXCEPT ![k] = [kind |-> kind, intent |-> "run", prog |-> "active",
                                type |-> type]]
  /\ UNCHANGED <<att, row, w, machine, granted, recovered>>
  /\ ProviderUnchanged

\* The admitting grant, or one above it, is revoked or expires.
Revoke ==
  /\ granted /\ granted' = FALSE
  /\ UNCHANGED <<ops, att, row, alloc, w, machine, recovered>>
  /\ ProviderUnchanged

DatabaseUnchanged == UNCHANGED <<ops, att, row, alloc, w, machine, granted, recovered>>

EnvironmentStep == ProviderNext /\ DatabaseUnchanged

WorkerStep ==
  \/ WorkerJournal
  \/ AdvanceCleanup
  \/ \E k \in Ops : AdvanceRun(k) \/ BeginCleanup(k)

CrashStep == Crash \/ \E k \in Ops : CrashAfterDiscovery(k)

UserStep ==
  \/ \E k \in Ops : TakeOverCreate(k) \/ AdmitDestroy(k)
  \/ \E k \in Ops, kind \in ActionKinds, type \in Types : Admit(k, kind, type)
  \/ Revoke

OperatorStep ==
  \E k \in Ops, a \in Attempts : CloseRefused(k, a) \/ CloseCreate(k, a) \/ RetryDelete(k, a)

Next ==
  \/ EnvironmentStep
  \/ WorkerStep
  \/ CrashStep
  \/ UserStep
  \/ OperatorStep

Spec == Init /\ [][Next]_vars

\* Requests are executed or lost, actions finish, delayed reads catch up.
ProviderFairness ==
  /\ \A a \in Attempts :
       /\ WF_vars(DatabaseUnchanged /\ \E req \in wire : req.id = a /\ Deliver(req))
       /\ WF_vars(DatabaseUnchanged /\ SettleAction(a))
  /\ WF_vars(DatabaseUnchanged /\ CatchUp)

\* tasks.ts re-enqueues every unfinished operation (and reconcile_operations
\* does so every minute), so a tick that stays possible happens and a worker
\* that runs goes on. A backoff passes and a catalog can be read again, so
\* what they put off happens when it is possible again and again.
WorkerFairness ==
  /\ WF_vars(WorkerStep)
  /\ \A k \in Ops : WF_vars(AdvanceRun(k))
  /\ SF_vars(JournalFresh \/ JournalRefused)
  /\ SF_vars(DeleteTarget)

FairSpec == Spec /\ ProviderFairness /\ WorkerFairness

-----------------------------------------------------------------------------
(* Properties                                                               *)

\* Every variable keeps its type.
TypeOK ==
  ProviderTypeOK /\ JournalTypeOK /\ LifecycleTypeOK

Live(r) == IF r \in Servers THEN sv[r].st = "live" ELSE ips[r].st = "live"

\* Out of reach is only what an outsider relabelled before it was ever claimed.
Traceable(r) == Owned(r) \/ row[r] # "none"

\* A resource recorded absent (recordAbsence) is really gone from the provider,
\* whatever delays, lost answers and crashes came before.
AbsentIsGone ==
  \A r \in Resources : row[r] = "absent" =>
    (IF r \in Servers THEN sv[r].st ELSE ips[r].st) = "gone"

\* At most one create of each kind is ever submitted for the allocation: an
\* uncertain create is never resubmitted.
CreateSubmittedOnce ==
  \A a, b \in Attempts :
    att[a].op # 0 /\ att[b].op # 0 /\ att[a].cmd \in CreateCommands /\ att[a].cmd = att[b].cmd
      => a = b

\* A terminal operation left no attempt unresolved: nothing of it can still
\* be judged later, and the next operation starts from settled effects.
TerminalIsSettled ==
  \A k \in Ops : ops[k].prog \in Terminal => PendingOf(k) = {}

Rows(R) == {r \in R : row[r] # "none"}

\* A create that ended succeeded owns exactly one server and one IP, and they
\* are everything the provider holds: no duplicate hides behind a success.
SuccessAccountsForAll ==
  ops[Source].prog = "succeeded" =>
    /\ Cardinality(Rows(Servers)) = 1 /\ Cardinality(Rows(Ips)) = 1
    /\ \A r \in Resources : Live(r) /\ Traceable(r) => row[r] = "live"

Deleting(r) ==
  \/ \E req \in wire : req.cmd \in DeleteCommands /\ req.tgt = r
  \/ \E a \in Attempts : act[a].st = "running" /\ act[a].cmd = "destroy" /\ act[a].srv = r

\* Receipts, resolutions and terminal results are written once and kept, and a
\* recorded absence is never taken back: the SQL triggers that refuse such a
\* write (guard_provider_attempt, guard_cleanup_operation) never have to.
HistoryIsKept ==
  [][/\ \A a \in Attempts :
          /\ att[a].outcome # "prepared" => att'[a].outcome = att[a].outcome
          /\ att[a].resol # "pending" => att'[a].resol = att[a].resol
          /\ att[a].op # 0 => att'[a].op = att[a].op /\ att'[a].cmd = att[a].cmd
                                                     /\ att'[a].tgt = att[a].tgt
     /\ \A k \in Ops : ops[k].prog \in Terminal /\ ops[k].kind # "none" =>
          ops'[k].prog = ops[k].prog
     /\ \A r \in Resources : row[r] = "absent" => row'[r] = "absent"]_vars

-----------------------------------------------------------------------------
(* The allocation keeps the promise of Custody.                             *)

Reservation == INSTANCE Custody WITH
  reserved <- ~alloc.retired,
  held <- {r \in Resources : Live(r) /\ Traceable(r)}

\* Through every crash, lost answer and duplicate, each step of the lifecycle
\* is a step of the abstract reservation.
ReservationSpec == Reservation!Spec

-----------------------------------------------------------------------------
(* Progress                                                                 *)

\* An operation never stalls silently: it ends or says that it is blocked.
OperationSettles ==
  \A k \in Ops : []<>(Active(k) => ops[k].prog = "blocked")

Cleaning == \E k \in Ops : Active(k) /\ ops[k].intent = "cleanup"

\* What only an operator can settle: an uncertain create, a deletion that used
\* up its allowance.
NeedsOperator ==
  \/ \E a \in Attempts : UncertainCreate(a)
  \/ \E k \in Ops, r \in Resources : Active(k) /\ Exhausted(k, r)

\* The accepted create of a server that was never claimed: the worker died
\* between the receipt and the claim, and then the action failed.
UnclaimedServer ==
  \E a \in Attempts :
    /\ att[a].cmd = "create" /\ att[a].outcome = "accepted" /\ att[a].resol = "failed"
    /\ row[att[a].res] = "none"

\* An admitted cleanup ends, unless it needs the operator or a server was
\* left unclaimed.
CleanupFinishes == Cleaning ~> (alloc.retired \/ NeedsOperator \/ UnclaimedServer)

\* Every resource a receipt names is in the ledger once the attempt is resolved.
KnownResourcesInLedger ==
  \A a \in Attempts :
    /\ att[a].op # 0 /\ att[a].cmd \in CreateCommands
    /\ att[a].outcome \in {"accepted", "completed"} /\ att[a].resol # "pending"
    => row[att[a].res] # "none"
=============================================================================
