--------------------------- MODULE AdvanceOperation ---------------------------
(***************************************************************************)
(* One tick of an operation that has not been turned into a cleanup:       *)
(* create, reboot, power on/off and resize, and the compensation of a      *)
(* create that failed before it could have made a server.                  *)
(*                                                                         *)
(* Source: apps/control/src/advance-operation.ts (advanceLocked and what   *)
(* it calls). A tick runs under the machine lock, looks at the journal and *)
(* the provider, and takes exactly one of the branches below.              *)
(***************************************************************************)
EXTENDS EffectJournal

CONSTANT GuestRuntime   \* machines boot a guest that has to report ready

ASSUME GuestAssumption == GuestRuntime \in BOOLEAN

VARIABLES
  machine,   \* the machine record: state kind and power
  granted,   \* the admitting grant is neither revoked nor expired
  recovered  \* deletion attempts with an operator's retry_delete record

lifecycleVars == <<machine, granted, recovered>>

LifecycleTypeOK ==
  /\ machine \in [state : {"provisioning", "allocated", "failed", "destroyed"},
                  power : {"starting", "running", "off"}]
  /\ granted \in BOOLEAN
  /\ recovered \subseteq Attempts

\* A tick of operation k begins: the lock is free and k is not terminal.
Tick(k) == w.pc = "idle" /\ Active(k) /\ ~alloc.retired

\* Nothing but the database is touched.
ProviderUnchanged == UNCHANGED providerVars

Block(k) ==
  /\ SetProgress(k, "blocked")
  /\ w' = Idle
  /\ UNCHANGED <<att, row, alloc, machine, granted, recovered>>
  /\ ProviderUnchanged

EffectOf(k, cmd)   == {a \in Of(k) : att[a].cmd = cmd}
AnyFailed(k)       == \E a \in Of(k) : att[a].resol = "failed"
\* Mutant: unresolved attempts are not waited for.
ReadyToRunUnsettled(k) == Tick(k) /\ ops[k].intent = "run" /\ ~AnyFailed(k)

\* No attempt awaits its resolution, no failure is to be handled.
ReadyToRun(k)      == Tick(k) /\ ops[k].intent = "run" /\ PendingOf(k) = {} /\ ~AnyFailed(k)

-----------------------------------------------------------------------------
(* Failure                                                                  *)

\* A create attempt that was not rejected may have made a server.
PossibleVm(k) == \E a \in EffectOf(k, "create") : att[a].outcome # "rejected"

\* beginFailure with the ledger rows: compensate while only an IP can be left,
\* fail otherwise; the reservation goes only when nothing can be left.
BeginFailure(k, rows) ==
  LET live == {r \in Resources : rows[r] = "live"} IN
  IF ops[k].kind = "create" /\ ~PossibleVm(k) /\ live # {}
  THEN /\ ops' = [ops EXCEPT ![k].intent = "compensate", ![k].prog = "active"]
       /\ UNCHANGED <<machine, alloc>>
  ELSE /\ ops' = [ops EXCEPT ![k].prog = "failed"]
       /\ machine' = IF ops[k].kind = "create" THEN [machine EXCEPT !.state = "failed"] ELSE machine
       /\ alloc' = [alloc EXCEPT !.retired = @ \/ (ops[k].kind = "create" /\ ~PossibleVm(k) /\ live = {})]

\* An operation step raised an error before anything was submitted.
FailWith(k) ==
  /\ BeginFailure(k, row)
  /\ w' = Idle
  /\ UNCHANGED <<att, row, granted, recovered>>
  /\ ProviderUnchanged

-----------------------------------------------------------------------------
(* Pending attempts come first                                              *)

ResolvePending(k) ==
  /\ Tick(k) /\ ops[k].intent # "cleanup"
  /\ \E a \in PendingOf(k) :
       /\ \A b \in PendingOf(k) : a <= b
       /\ Resolve(a, k)
  /\ w' = Idle
  /\ UNCHANGED lifecycleVars
  /\ ProviderUnchanged

\* The worker dies after it claimed what it found.
CrashAfterDiscovery(k) ==
  /\ Tick(k) /\ FaultsLeft
  /\ \E a \in Scope(k) : att[a].resol = "pending" /\ DiscoverOnly(a)
  /\ faults' = faults + 1
  /\ UNCHANGED <<ops, att, w, sv, ips, act, wire, conn, ext>>
  /\ UNCHANGED lifecycleVars

HandleFailedEffect(k) ==
  /\ Tick(k) /\ ops[k].intent = "run" /\ PendingOf(k) = {} /\ AnyFailed(k)
  /\ FailWith(k)

-----------------------------------------------------------------------------
(* Compensation: cleanupIp                                                  *)

Compensating(k) == Tick(k) /\ ops[k].intent = "compensate" /\ PendingOf(k) = {}

CompensateAbsent(k) ==
  /\ Compensating(k)
  /\ \E i \in LiveRows(Ips) :
       /\ ~Visible(i)
       /\ row' = [row EXCEPT ![i] = "absent"]
  /\ UNCHANGED <<ops, att, alloc, w, machine, granted, recovered>>
  /\ ProviderUnchanged

CompensateMismatch(k) ==
  /\ Compensating(k)
  /\ \E i \in LiveRows(Ips) :
       /\ Visible(i)
       /\ \/ ~ips[i].own \/ ips[i].srv # NoRes
          \/ \E a \in EffectOf(k, "delete_primary_ip") : att[a].tgt = i
  /\ Block(k)

CompensateDelete(k) ==
  /\ Compensating(k)
  /\ \E i \in LiveRows(Ips) :
       /\ Visible(i) /\ ips[i].own /\ ips[i].srv = NoRes
       /\ ~\E a \in EffectOf(k, "delete_primary_ip") : att[a].tgt = i
       /\ Decide(k, "delete_primary_ip", i)
  /\ UNCHANGED <<ops, att, row, alloc, machine, granted, recovered>>
  /\ ProviderUnchanged

CompensateDone(k) ==
  /\ Compensating(k) /\ LiveRows(Ips) = {}
  /\ ops' = [ops EXCEPT ![k].prog = "failed"]
  /\ machine' = [machine EXCEPT !.state = "failed"]
  /\ alloc' = [alloc EXCEPT !.retired = TRUE]
  /\ UNCHANGED <<att, row, w, granted, recovered>>
  /\ ProviderUnchanged

-----------------------------------------------------------------------------
(* Create                                                                   *)

CreateStep(k) == ReadyToRun(k) /\ ops[k].kind = "create"

SubmitIp(k) ==
  /\ CreateStep(k) /\ EffectOf(k, "create_primary_ip") = {}
  /\ Decide(k, "create_primary_ip", NoRes)
  /\ UNCHANGED <<ops, att, row, alloc, machine, granted, recovered>>
  /\ ProviderUnchanged

\* Mutant: a create whose answer was lost is submitted again.
BeforeServerRetry(k) ==
  /\ Tick(k) /\ ops[k].intent = "run" /\ ops[k].kind = "create" /\ ~AnyFailed(k)
  /\ EffectOf(k, "create_primary_ip") # {}
  /\ PendingOf(k) = {a \in EffectOf(k, "create") : att[a].outcome = "unknown"}

BeforeServer(k) ==
  /\ CreateStep(k)
  /\ EffectOf(k, "create_primary_ip") # {} /\ EffectOf(k, "create") = {}

\* The confirmed IP is missing from the ledger.
NoConfirmedIp(k) == BeforeServer(k) /\ LiveRows(Ips) = {} /\ FailWith(k)

\* The IP disappeared: its absence is recorded and the create fails; the
\* worker may die between the two.
IpDisappeared(k) ==
  /\ BeforeServer(k)
  /\ \E i \in LiveRows(Ips) :
       /\ ~Visible(i)
       /\ row' = [row EXCEPT ![i] = "absent"]
       /\ \/ BeginFailure(k, [row EXCEPT ![i] = "absent"]) /\ UNCHANGED faults
          \/ FaultsLeft /\ faults' = faults + 1 /\ UNCHANGED <<ops, machine, alloc>>
  /\ UNCHANGED <<att, w, granted, recovered, sv, ips, act, wire, conn, ext>>

IpMismatch(k) ==
  /\ BeforeServer(k)
  /\ \E i \in LiveRows(Ips) : Visible(i) /\ (~ips[i].own \/ ips[i].srv # NoRes)
  /\ Block(k)

SubmitServer(k) ==
  /\ BeforeServer(k)
  /\ \E i \in LiveRows(Ips) :
       /\ Visible(i) /\ ips[i].own /\ ips[i].srv = NoRes
       /\ Decide(k, "create", i)
  /\ UNCHANGED <<ops, att, row, alloc, machine, granted, recovered>>
  /\ ProviderUnchanged

-----------------------------------------------------------------------------
(* Completion, after provider backups and guest readiness                   *)

\* The server an operation's confirmed effect showed.
ConfirmedServer(k, cmd, s) ==
  \E a \in EffectOf(k, cmd) : att[a].resol = "confirmed" /\ att[a].res = s

\* complete: the allocation and the machine take what was verified.
Complete(k, s, power) ==
  /\ ops' = [ops EXCEPT ![k].prog = "succeeded"]
  /\ alloc' = IF ops[k].kind \in {"create", "resize"}
              THEN [alloc EXCEPT !.server = s, !.offer = ops[k].type, !.reserved = ops[k].type]
              ELSE [alloc EXCEPT !.server = s]
  /\ machine' = [state |-> "allocated", power |-> power]
  /\ w' = Idle
  /\ UNCHANGED <<att, row, granted, recovered>>
  /\ ProviderUnchanged

\* The effect of the operation itself (create, or the action's own command).
Verified(k, s) ==
  /\ ReadyToRun(k) /\ s \in Servers
  /\ ConfirmedServer(k, ops[k].kind, s)

WithBackups(k) == DailyBackups /\ ops[k].kind \in {"create", "resize"}
WithGuest(k)   == GuestRuntime /\ ops[k].kind \in {"create", "reboot", "power_on"}

BackupsMismatch(k) ==
  /\ WithBackups(k)
  /\ \E s \in Servers :
       /\ Verified(k, s)
       /\ \/ row[s] # "live" \/ ~Visible(s) \/ ~sv[s].own
          \/ ~sv[s].bak /\ EffectOf(k, "enable_backup") # {}
  /\ Block(k)

EnableBackups(k) ==
  /\ WithBackups(k)
  /\ \E s \in Servers :
       /\ Verified(k, s) /\ row[s] = "live" /\ Visible(s) /\ sv[s].own
       /\ ~sv[s].bak /\ EffectOf(k, "enable_backup") = {}
       /\ Decide(k, "enable_backup", s)
  /\ UNCHANGED <<ops, att, row, alloc, machine, granted, recovered>>
  /\ ProviderUnchanged

\* The server that completes the operation and the power it was seen with:
\* re-observed when backups are checked, else as the effect's resolution saw it.
Completing(k, s, power) ==
  /\ Verified(k, s)
  /\ IF WithBackups(k)
     THEN row[s] = "live" /\ Visible(s) /\ sv[s].own /\ sv[s].bak /\ power = sv[s].power
     ELSE \E a \in EffectOf(k, ops[k].kind) : att[a].res = s /\ power = att[a].pow

CompleteVerified(k) ==
  /\ ~WithGuest(k)
  /\ \E s \in Servers : \E power \in {"starting", "running", "off"} :
       Completing(k, s, power) /\ Complete(k, s, power)

\* guest-readiness: waiting leaves everything as it is, a refusal blocks, a
\* verified guest on the observed server completes.
GuestBlocked(k) ==
  /\ WithGuest(k)
  /\ \E s \in Servers : \E power \in {"starting", "running", "off"} : Completing(k, s, power)
  /\ Block(k)

GuestReady(k) ==
  /\ WithGuest(k)
  /\ \E s \in Servers :
       /\ \E power \in {"starting", "running", "off"} : Completing(k, s, power)
       /\ Visible(s) /\ Complete(k, s, sv[s].power)

-----------------------------------------------------------------------------
(* Reboot, power and resize                                                 *)

ActionStep(k) ==
  /\ ReadyToRun(k)
  /\ ops[k].kind \in PowerCommands \cup {"resize"}
  /\ EffectOf(k, ops[k].kind) = {}

NoLiveServer(k) ==
  /\ ActionStep(k)
  /\ LiveRows(Servers) = {} \/ alloc.server = NoRes \/ ~Visible(alloc.server)
  /\ FailWith(k)

\* The observed server is the ledger's and still has the ledger's IP.
Attached(s) ==
  /\ sv[s].own
  /\ sv[s].ip \in Ips /\ row[sv[s].ip] = "live"

ActionMismatch(k) ==
  /\ ActionStep(k) /\ alloc.server # NoRes /\ Visible(alloc.server)
  /\ \E s \in LiveRows(Servers) : s # alloc.server \/ ~Attached(s)
  /\ Block(k)

SubmitAction(k) ==
  /\ ActionStep(k) /\ alloc.server # NoRes /\ Visible(alloc.server)
  /\ row[alloc.server] = "live" /\ Attached(alloc.server)
  /\ Decide(k, ops[k].kind, alloc.server)
  /\ UNCHANGED <<ops, att, row, alloc, machine, granted, recovered>>
  /\ ProviderUnchanged

-----------------------------------------------------------------------------
(* The journal transaction decided above                                    *)

\* Fresh work needs the grant, the limits and the price it was admitted with;
\* compensation deletes an IP without them; cleanup has its own authority.
JournalFresh ==
  /\ w.pc = "journal" /\ ops[w.op].intent = "run" /\ granted
  /\ Insert
  /\ UNCHANGED lifecycleVars

JournalCompensation ==
  /\ w.pc = "journal" /\ ops[w.op].intent = "compensate" /\ w.cmd = "delete_primary_ip"
  /\ Insert
  /\ UNCHANGED lifecycleVars

JournalCleanup ==
  /\ w.pc = "journal" /\ ops[w.op].intent = "cleanup" /\ CleanupEffectAllowed
  /\ Insert
  /\ UNCHANGED lifecycleVars

\* Authority, price, limit or deadline refuses fresh work: nothing was sent.
JournalRefused ==
  /\ w.pc = "journal" /\ ops[w.op].intent = "run"
  /\ FailWith(w.op)

\* The catalog cannot be read right now: another tick decides again.
JournalDeferred ==
  /\ w.pc = "journal" /\ ops[w.op].intent = "run"
  /\ w.cmd \in CreateCommands \cup {"resize", "enable_backup"}
  /\ w' = Idle
  /\ UNCHANGED <<ops, att, row, alloc, machine, granted, recovered>>
  /\ ProviderUnchanged

AdvanceRun(k) ==
  \/ ResolvePending(k) \/ HandleFailedEffect(k)
  \/ CompensateAbsent(k) \/ CompensateMismatch(k) \/ CompensateDelete(k) \/ CompensateDone(k)
  \/ SubmitIp(k) \/ NoConfirmedIp(k) \/ IpDisappeared(k) \/ IpMismatch(k) \/ SubmitServer(k)
  \/ BackupsMismatch(k) \/ EnableBackups(k) \/ CompleteVerified(k)
  \/ GuestBlocked(k) \/ GuestReady(k)
  \/ NoLiveServer(k) \/ ActionMismatch(k) \/ SubmitAction(k)

WorkerJournal ==
  \/ JournalFresh \/ JournalCompensation \/ JournalCleanup
  \/ JournalRefused \/ JournalDeferred
  \/ (RecordAnswer /\ UNCHANGED lifecycleVars)
  \/ (RecordUnknown /\ UNCHANGED lifecycleVars)
  \/ (ClaimAnswer /\ UNCHANGED lifecycleVars)

\* The process or its database session dies: the lock is free, a request it
\* had sent may still be on its way.
Crash ==
  /\ w.pc # "idle" /\ FaultsLeft
  /\ faults' = faults + 1
  /\ w' = Idle
  /\ Hang
  /\ UNCHANGED <<ops, att, row, alloc, sv, ips, act, wire, ext>>
  /\ UNCHANGED lifecycleVars
=============================================================================
