---------------------------- MODULE MachineCleanup ----------------------------
(***************************************************************************)
(* Destroying a machine: the admission of a cleanup, the cleanup executor, *)
(* and the two decisions an operator may record for a cleanup that cannot  *)
(* finish by itself.                                                       *)
(*                                                                         *)
(* Source: apps/control/src/cleanup-admission.ts, machine-cleanup.ts,      *)
(* operator-recovery.ts and the guards of migrations 0018 and 0019.        *)
(***************************************************************************)
EXTENDS AdvanceOperation

CONSTANT DeleteLimit   \* submissions per target before an operator is needed (code: 3)

ASSUME LimitAssumption == DeleteLimit \in Nat \ {0}

NextOp(k) == ops[k].kind = "none" /\ \A j \in Ops : j < k => ops[j].kind # "none"
NoActiveOp == \A k \in Ops : ~Active(k)

-----------------------------------------------------------------------------
(* admitCleanup: needs the machine lock for its transaction.                *)

CanAdmitCleanup ==
  w.pc = "idle" /\ granted /\ ~alloc.retired /\ machine.state # "destroyed"

\* An active create is taken over and keeps its operation.
TakeOverCreate(k) ==
  /\ CanAdmitCleanup
  /\ Active(k) /\ ops[k].kind = "create" /\ ops[k].intent # "cleanup"
  /\ ops' = [ops EXCEPT ![k].intent = "cleanup", ![k].prog = "active"]
  /\ UNCHANGED <<att, row, alloc, w>>
  /\ UNCHANGED lifecycleVars
  /\ ProviderUnchanged

\* Without an active operation a new destroy operation cleans up.
AdmitDestroy(k) ==
  /\ CanAdmitCleanup
  /\ NoActiveOp /\ NextOp(k)
  /\ ops' = [ops EXCEPT ![k] = [kind |-> "destroy", intent |-> "cleanup", prog |-> "active",
                                type |-> alloc.offer]]
  /\ UNCHANGED <<att, row, alloc, w>>
  /\ UNCHANGED lifecycleVars
  /\ ProviderUnchanged

-----------------------------------------------------------------------------
(* advanceCleanup: first every pending attempt in scope, then one resource.  *)

\* Mutant: cleanup judges failed effects again.
PendingInRejudged(k) == {a \in Scope(k) : att[a].resol \in {"pending", "failed"}}

PendingIn(k) == {a \in Scope(k) : att[a].resol = "pending"}

\* Mutant: only destroy operations are dispatched to the cleanup executor.
BeginCleanupOfDestroy(k) ==
  /\ Tick(k) /\ ops[k].intent = "cleanup" /\ ops[k].kind = "destroy"
  /\ w' = [Idle EXCEPT !.pc = "cleanup", !.op = k, !.todo = PendingIn(k)]
  /\ UNCHANGED <<ops, att, row, alloc>>
  /\ UNCHANGED lifecycleVars
  /\ ProviderUnchanged

BeginCleanup(k) ==
  /\ Tick(k) /\ ops[k].intent = "cleanup"
  /\ w' = [Idle EXCEPT !.pc = "cleanup", !.op = k, !.todo = PendingIn(k)]
  /\ UNCHANGED <<ops, att, row, alloc>>
  /\ UNCHANGED lifecycleVars
  /\ ProviderUnchanged

\* A deletion (or enable_backup) whose target is not in the ledger stops the tick.
Unowned(a) ==
  /\ att[a].cmd \in DeleteCommands \cup {"enable_backup"}
  /\ row[att[a].tgt] = "none"

ResolveNext ==
  /\ w.pc = "cleanup"
  /\ \E a \in w.todo :
       /\ \A b \in w.todo : a <= b
       /\ IF Unowned(a)
          THEN SetProgress(w.op, "blocked") /\ w' = Idle /\ UNCHANGED <<att, row, alloc>>
          ELSE Resolve(a, w.op) /\ w' = [w EXCEPT !.todo = @ \ {a}]
  /\ UNCHANGED lifecycleVars
  /\ ProviderUnchanged

Resolved  == w.pc = "cleanup" /\ w.todo = {}
PendingVm == \E a \in PendingIn(w.op) : att[a].cmd = "create"

\* Servers before IPs, and no IP while a server create is pending.
Target(r) ==
  /\ Resolved
  /\ \/ r \in LiveRows(Servers)
     \/ LiveRows(Servers) = {} /\ ~PendingVm /\ r \in LiveRows(Ips)

DatabaseOnly == UNCHANGED lifecycleVars /\ ProviderUnchanged

TargetAbsent ==
  /\ \E r \in Resources : Target(r) /\ ~Visible(r) /\ row' = [row EXCEPT ![r] = "absent"]
  /\ w' = Idle
  /\ UNCHANGED <<ops, att, alloc>> /\ DatabaseOnly

\* The IP that hangs on the server is in the ledger and agrees.
IpAgrees(s) ==
  LET i == sv[s].ip IN
    i \in Ips => row[i] = "live" /\ Visible(i) /\ ips[i].own /\ ips[i].srv = s

Lagging(i) == ips[i].srv \in Servers /\ row[ips[i].srv] = "absent"

\* Foreign labels, an IP on a server whose absence is not known, a server
\* whose IP disagrees: cleanup stops and says so.
TargetMismatch ==
  /\ \E r \in Resources :
       /\ Target(r) /\ Visible(r)
       /\ \/ ~Owned(r)
          \/ r \in Ips /\ ips[r].srv # NoRes /\ ~Lagging(r)
          \/ r \in Servers /\ ~IpAgrees(r)
  /\ SetProgress(w.op, "blocked")
  /\ w' = Idle
  /\ UNCHANGED <<att, row, alloc>> /\ DatabaseOnly

\* The assignment of the IP still has to catch up with its absent server.
TargetLagging ==
  /\ \E r \in Ips : Target(r) /\ Visible(r) /\ Owned(r) /\ Lagging(r)
  /\ SetProgress(w.op, "active")
  /\ w' = Idle
  /\ UNCHANGED <<att, row, alloc>> /\ DatabaseOnly

Fit(r) ==
  /\ Target(r) /\ Visible(r) /\ Owned(r)
  /\ IF r \in Ips THEN ips[r].srv = NoRes ELSE IpAgrees(r)

\* Deleting the server would delete the IP an unsettled create may still use.
KeepsIp(r) == r \in Servers /\ sv[r].ip \in Ips /\ PendingVm

Deletions(k, r) == {a \in Scope(k) : att[a].cmd \in DeleteCommands /\ att[a].tgt = r}
Latest(A)       == CHOOSE a \in A : \A b \in A : b <= a
Allowance(r)    == DeleteLimit + Cardinality({a \in recovered : att[a].tgt = r})

\* The latest deletion was accepted and its action has not succeeded yet.
StillDeleting(k, r) ==
  /\ Deletions(k, r) # {}
  /\ LET a == Latest(Deletions(k, r)) IN
       att[a].resol = "pending" /\ att[a].outcome = "accepted" /\ act[a].st # "succeeded"

Exhausted(k, r) == Deletions(k, r) # {} /\ Cardinality(Deletions(k, r)) >= Allowance(r)

TargetExhausted ==
  /\ \E r \in Resources :
       Fit(r) /\ ~KeepsIp(r) /\ ~StillDeleting(w.op, r) /\ Exhausted(w.op, r)
  /\ SetProgress(w.op, "blocked")
  /\ w' = Idle
  /\ UNCHANGED <<att, row, alloc>> /\ DatabaseOnly

DeleteTarget ==
  /\ \E r \in Resources :
       /\ Fit(r) /\ ~KeepsIp(r) /\ ~StillDeleting(w.op, r) /\ ~Exhausted(w.op, r)
       /\ Decide(w.op, IF r \in Servers THEN "destroy" ELSE "delete_primary_ip", r)
  /\ UNCHANGED <<ops, att, row, alloc>> /\ DatabaseOnly

\* The tick ends without a change: an unsettled create protects the rest, the
\* latest deletion is under way, or its backoff has not passed.
Settling ==
  /\ Resolved
  /\ \/ PendingIn(w.op) # {} /\ LiveRows(Servers) = {} /\ (PendingVm \/ LiveRows(Ips) = {})
     \/ \E r \in Resources : Fit(r) /\ (KeepsIp(r) \/ StillDeleting(w.op, r))
     \/ \E r \in Resources : Fit(r) /\ ~Exhausted(w.op, r) /\ Deletions(w.op, r) # {}
  /\ w' = Idle
  /\ UNCHANGED <<ops, att, row, alloc>> /\ DatabaseOnly

\* Everything is settled and absent: retire, destroy and finish together.
FinishCleanup ==
  /\ Resolved /\ PendingIn(w.op) = {} /\ LiveRows(Resources) = {}
  /\ alloc' = [alloc EXCEPT !.retired = TRUE]
  /\ machine' = [machine EXCEPT !.state = "destroyed"]
  /\ ops' = [ops EXCEPT ![w.op].prog = IF ops[w.op].kind = "create" THEN "cancelled" ELSE "succeeded"]
  /\ w' = Idle
  /\ UNCHANGED <<att, row, granted, recovered>>
  /\ ProviderUnchanged

AdvanceCleanup ==
  \/ ResolveNext \/ TargetAbsent \/ TargetMismatch \/ TargetLagging \/ TargetExhausted
  \/ DeleteTarget \/ Settling \/ FinishCleanup

-----------------------------------------------------------------------------
(* Operator recovery, under the machine lock                                *)

Recoverable(k) ==
  w.pc = "idle" /\ Active(k) /\ ops[k].intent = "cleanup" /\ ~alloc.retired

UncertainCreate(a) ==
  /\ att[a].op = Source /\ att[a].resol = "pending" /\ Uncertain(a)
  /\ att[a].cmd \in CreateCommands

\* Inventory shows something new: it is kept, the decision is refused.
CloseRefused(k, a) ==
  /\ Recoverable(k) /\ UncertainCreate(a)
  /\ RowAfterClaims(a) # row
  /\ DiscoverOnly(a)
  /\ UNCHANGED <<ops, att, w>>
  /\ UNCHANGED lifecycleVars
  /\ ProviderUnchanged

\* Mutant: an empty inventory is taken as proof.
EvidenceFromInventory(a) == Found(a) = {}

\* The operator's evidence: the request has finished, and the complete set of
\* what it made was established independently of the inventory.
Evidence(a) ==
  /\ ~\E req \in wire : req.id = a
  /\ \A r \in KindOf(att[a].cmd) :
       (IF r \in Servers THEN sv[r].st ELSE ips[r].st) = "live" => row[r] # "none"

CloseCreate(k, a) ==
  /\ Recoverable(k) /\ UncertainCreate(a) /\ Evidence(a)
  /\ RowAfterClaims(a) = row /\ Claimed(a) = Found(a)
  /\ \A r \in KindOf(att[a].cmd) :
       row[r] # "none" /\ Visible(r) => row[r] # "absent" /\ Owned(r)
  /\ att' = [att EXCEPT ![a].resol = "operator_closed"]
  /\ UNCHANGED <<ops, row, alloc, w>>
  /\ UNCHANGED lifecycleVars
  /\ ProviderUnchanged

\* One more submission for the latest deletion of an exhausted target.
RetryDelete(k, a) ==
  LET r == att[a].tgt IN
  /\ Recoverable(k)
  /\ a \in Scope(k) /\ att[a].cmd \in DeleteCommands /\ a \notin recovered
  /\ a = Latest(Deletions(k, r))
  /\ Cardinality(Deletions(k, r)) = Allowance(r)
  /\ row[r] = "live" /\ Visible(r) /\ Owned(r)
  /\ r \in Ips => ips[r].srv = NoRes
  /\ ~(att[a].resol = "pending" /\ att[a].outcome = "accepted" /\ act[a].st = "running")
  /\ recovered' = recovered \cup {a}
  /\ UNCHANGED <<ops, att, row, alloc, w, machine, granted>>
  /\ ProviderUnchanged
=============================================================================
