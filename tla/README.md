# Agent Cloud: formal models

TLA+ models of the control plane in this repository, the TLC runs that check
them on small instances, and theorems about them proved with TLAPS.
`PROJECT.json` lists the components, the runs, the map from definitions to
source lines, the mutants that show each property can fail, the hazards and the
theorems.

## The system

Agent Cloud rents machines at a provider (Hetzner) on behalf of agents. One
PostgreSQL database holds the truth; the control plane's API admits requests
into it, workers advance them with provider calls, and gateways on other hosts
ask it before they let traffic through. Everything hard here comes from one
fact: the provider, the certificate authority, the guests and the gateways are
reached by calls whose answer may be lost, and the process that made the call
may die before it has stored what it learned.

### Inventory

| component | state it keeps | operations | hard behaviour | what makes it correct |
|---|---|---|---|---|
| provider (`packages/contracts/src/provider.ts`, `apps/control/src/simulated-provider.ts`, `packages/hetzner`) | servers, Primary IPs, actions | create, delete, power, resize, enable backup, reads, inventory | answers lost, actions fail later, inventory lags, duplicates, outside changes | external; it is the environment of the rest |
| effect journal and ledger (`effect-journal.ts`, `resource-journal.ts`) | `provider_attempts`, `provider_resources` | journal, record the answer, claim, judge, resolve | crash between any two writes; late execution | no second create, absence recorded only when true, history kept |
| operation worker (`advance-operation.ts`) | `operations`, `machines`, `allocations` | create, power, reboot, resize, compensation, backups, guest readiness | decisions on reads that are stale when journalled | reservation kept while anything may exist; success accounts for everything |
| cleanup and operator recovery (`cleanup-admission.ts`, `machine-cleanup.ts`, `operator-recovery.ts`) | `operation_cleanups`, `operator_recoveries` | admit or take over, delete, retry, retire, close, retry-delete | a create that may still happen, shared IP, deletion limits | the reservation ends with nothing held; ends unless an operator is needed |
| admission (`lifecycle.ts`, `usage.ts`) | `allocation_reservations`, idempotency keys | admit create/actions, limits, expected version, replay | concurrent admissions, replays with another body | limits never exceeded, one effect per key |
| grants (`auth.ts`) | grant tree, revocations | issue child, revoke subtree, inspect | revocation racing admission | a revocation reaches everything below it |
| access sessions and gateway (`access-sessions.ts`, `access-closure.ts`, `apps/access-gateway`) | `access_sessions`, open connections | admit, issue, claim, check, close | lost locks, lost RPC answers, gateway crash, revocation racing a connection | one certificate and one connection per session, bounded life after revocation |
| protected backups (`backup-*.ts`, `packages/backup-store`, `guestctl` backups) | backups, restores, purges, objects, files of the guest | capture, upload, restore, verify, purge, recover an upload | crash between upload and record; purge racing restore | one upload, one run in the guest, no object without its row, all of it settles |
| schedules and retention (`backup-schedules.ts`, `backup-purges.ts`) | schedules, due captures, candidates | create, disable, advance, select, expire | missed days, two reconcilers, a policy read before it is applied | no burst of captures, enough newer days kept |
| hosting (`hosting*.ts`, `guestctl` hosting, `apps/public-gateway`) | routes, domains, targets, proxy configurations | challenge, publish, move, remove, apply, acknowledge | three parties with a configuration each, all restartable | what the gateway forwards is answered; a removal is seen |
| image factory (`image-*.ts`, `advance-image-build.ts`) | builds, effects, resources, verifier records, publications, access keys | plan, effect, reconcile, install, sanitize, verify, publish, pin, release, clean | a plan made outside the lock, cancellation at any step | what is cleaned is empty, what is retained is sound |
| control fence and recovery (`control-fence.ts`, `control-recovery*.ts`) | generation file, control state, decisions | fence, restore, inspect, close, resume | an older database under a world that went on | nothing unaccounted for, nothing done twice, no revoked authority back |
| customer login (`customer-login.ts`, CLI `login.ts`) | admission anchor, login grants, credential file | admit, renew, disable, login, logout | lost reply of a login, restored grants | authority comes from the current admission |
| guest identity (`guest-enrollment.ts`, `guest-renewal.ts`, `guest-readiness.ts`, `guestctl` identity) | enrollments, signing attempts, certificates, generations on disk | enroll, renew, publish, select, reload, mark | signing whose answer is lost, death between publishing and reloading | the newest certificate is served |
| catalog cache (`catalog-cache.ts`) | last good catalog | refresh | stale prices | only a verified, unexpired snapshot is quoted |
| guest runtime (`guestctl` runs, compose) | run records, Compose state | start, stop, adopt | crash at each step | not modelled |
| HTTP surface, SDK, PKI and SSH tooling, image contents, recipes, scripts | none of their own | parsing, wiring, subprocesses | | not modelled |

The parts meet in the database and in a few calls: admission writes the
operations the worker advances; a destroy and a revocation close access sessions
and pin or release backups, routes and images; the guest's readiness waits for
its enrollment; a restored database holds all of them at once. Each of the
sections below models one such knot with the parties that meet in it.

### Conventions of all models

One action is one transaction, or one step of a process between two calls whose
outcome can differ. A refused request, a replayed key and a request whose digest
is stale change nothing and are no step; a lock found busy is a refusal. A crash
drops what a process knows and releases its session locks, never what it has
written or sent. Ids, digests and tokens are model values or numbers given out in
order. Time is counted in units in which the constants keep their order. History
variables (marked in their declaration) are written and never read by the
actions. Every property has a mutant, listed in `PROJECT.json`: a version of one
modelled definition with a plausible mistake, under which TLC reports the
property violated. The mutated definitions stand next to the ones they replace
and are marked `Mutant`.

### Proofs

Every safety property and step property of a passing run, but for `NeverStranded`
(which speaks of what is enabled, and stays with TLC), is also a theorem of the
specification, for all values of the constants that the named assumptions allow.
Each rests on an inductive invariant whose parts are named for what they say; the
sections below say why each part is needed.

| module | about | invariant | theorems |
|---|---|---|---|
| `LifecycleProofs` | `MachineLifecycle` | `TypeInv`, `JournalInv`, `LedgerInv`, `CustodyInv` | types, one create, settlement, history, absence, custody (refinement of `Custody`), success |
| `AccessProofs` | `AccessGateway` | `TypeInv`, `SignInv`, `TicketInv`, `LeaseInv`, `SlotInv` | one certificate, one connection, lease, limits, revocation |
| `AdmissionProofs` | `Admission` | `AdmissionInv`, `OfferInv` | history, versions, keys, limits, usage report |
| `BackupProofs` | `Backups` | `BackupInv` | one upload, one run, no orphan, purges spare restores, restores proven |
| `ScheduleProofs` | `BackupSchedules` | `Inv` | no burst, what retention keeps |
| `HostingProofs` | `PublicGateway` | `HostingInv`, `RetentionInv` | what is served is bound, removals are seen |
| `ImageProofs` | `ImageFactory` | `ImageInv` | nothing left, what is retained, pins |
| `ControlProofs` | `ControlPlane` | `ControlInv` (with `FenceInv`, `RecordInv`, `AuthorityInv`) | the ledger, work sent once, authority |

## The machine lifecycle

One allocation from its admitted create to its retirement. The modules extend
each other in the order the code is layered:

- `Provider`: the servers, Primary IPs and actions of the allocation and the
  wire submissions travel on (`simulated-provider.ts`; how the Hetzner adapter
  tells an answer, a rejection and a lost reply apart is the same). Every fault the
  simulator can be configured with is a choice per request, and delivery is a
  step of its own, so a request whose caller gave up can still be executed.
- `EffectJournal`: `journalEffect`, `store`, `claim`, `evaluate`, `resolve` of
  `effect-journal.ts` on the journal `att` and the ledger `row`. One action is
  one transaction; `w` is the worker that holds the machine lock between them.
- `AdvanceOperation`: one tick of `advance-operation.ts` for create, power,
  reboot and resize, with compensation, provider backups and guest readiness.
  What a tick reads and stores in one go is one action; the decision to submit
  (`Decide`) and its journalling are two, because the grant, the limits and the
  provider may change in between.
- `MachineCleanup`: admission or takeover by a destroy, the cleanup tick and the
  two decisions of an operator.
- `MachineLifecycle`: the composition, its fairness and its properties.
- `Custody`: the abstract specification. A reservation is released once, when
  nothing is held, and nothing is held without it.
- `MCMachineLifecycle`: instances for TLC (provider ids are symmetric).

Abstractions. Progress is `active`, `blocked` or terminal. Labels are one flag:
the resource still carries the labels of the create. Reads of the provider and
the store that follows them are one action: only the allocation's lock holder
writes, and between the read and the write the provider can only do what it
could also do before the read. Copies made by one duplicated create become
visible together, as in the simulator (`visibleAt`). A Primary IP create answers
with a completed action. Backoffs are arbitrary delays. The catalog and limit
checks of the journalling transaction are a nondeterministic refusal. A failed
read of the provider is no step. The operator's evidence (the request is
finished, the listed resources are all there are) is taken to be true, as
`docs/architecture/operator-recovery.md` requires. Not modelled: the legacy
network profile, and run-intent destroys from before admitted cleanups.

### Runs

| run | instance | shows |
|---|---|---|
| `lifecycle` | two server ids, one IP, six attempts, three operations (a create, an action, a destroy), backups and guest readiness on, two types, one fault, one outside change | `TypeOK`, `SuccessAccountsForAll`, `AbsentIsGone`, `TerminalIsSettled`, `HistoryIsKept`, and `ReservationSpec`: the lifecycle implements `Custody` |
| `progress` | `FairSpec`, one server, one IP, two operations, two faults | `CreateSubmittedOnce`, `OperationSettles`, `CleanupFinishes` |
| `unclaimed_receipt` | expected violation | `KnownResourcesInLedger`: see Findings |

Six attempts let a create (IP and server), its compensation or cleanup (two
deletions) and a repeated deletion happen. Two server ids are needed for a
duplicated create and for an outsider's replacement, two faults for a fault
while another is being repaired (a lost answer, then a crash). Deadlock is not
checked: an allocation that is retired, or one that waits for an operator whose
evidence does not hold, really stops.

Fairness. Requests on the wire are eventually executed or lost, actions finish
and delayed reads catch up (`ProviderFairness`). `tasks.ts` enqueues every
unfinished operation again and `reconcile_operations` does it every minute, so
ticks are weakly fair; journalling and deletion, which a backoff or an
unavailable catalog may put off, are strongly fair. Users and operators are not
fair.

### Proofs

`LifecycleProofs` proves `TypesKept`: `Spec => []TypeOK`, through `TypeInv`, which
adds what type-correctness of the next step needs (the worker's attempt exists
while it waits for an answer).

It goes on to prove, for all constants, four properties the runs check:

- `SubmittedOnce` (`CreateSubmittedOnce`) and `Settlement` (`TerminalIsSettled`)
  from `JournalInv`. Neither is inductive alone: that a create is not in the
  journal yet is known when the worker decides and must still be true when it
  journals, so the invariant says what a busy worker knows (`BusyWorker`,
  `SentAttempt`, `CreateWork`, `CleanupWork`) and that an operation that runs has
  nothing pending once it has moved on (`RunSettled`).
- `HistoryKept` (`HistoryIsKept`): an action property, from the same invariant.
- `AbsenceIsTrue` (`AbsentIsGone`) from `LedgerInv`: every id in the database,
  on the wire or in an answer has been seen (`KnownIds`), and something seen is
  never invisible again unless it is gone.

Its last part proves `ReservationKept` (`ReservationSpec`, the refinement of
`Custody`) and `SuccessAccounted` (`SuccessAccountsForAll`) from `CustodyInv`:

- every resource of a kind was made by one execution of its one create, so nothing
  of that kind exists while the create is on the wire, and what an answer names is
  all there is (`MadeInv`, `ChannelInv`, `IpReceipts`);
- once that create is judged, all of it is in the ledger, or it is the server that
  holds the allocation's IP and so keeps the IP's deletion, and with it the
  release, from completing (`SettledInv`, `AttachedInv`). The exception is the
  server of the finding `unclaimed_receipt`: it is why the invariant cannot simply
  say that a judged create is in the ledger;
- a compensated create never had a server (`CompensationInv`); the source
  operation's creates come in order and a success confirmed both (`SourceInv`);
- what a worker is about to send aims at the ledger (`TargetInv`), one operation
  is active (`OneActive`), and a released reservation holds nothing and expects
  nothing (`RetiredInv`).

Each provider step only ends resources or executes the one create
(`EnvironmentCustody`); each step of the control plane keeps what is held and
releases only when `AllGone` (`Custodial`). Those two lemmas are the two kinds of
steps `Custody` has. TLC checked `CustodyInv` on the bounds of `lifecycle`.

Only model-checked: `OperationSettles` and `CleanupFinishes` (fairness and
`ENABLED` are outside the prover's reach). No module uses `RECURSIVE` operators.

## Access to a machine

- `AccessSessions`: the control plane's side (`access-sessions.ts`,
  `access-closure.ts`, `auth.ts`, the trigger of migration 0020). `grants` is the
  grant tree of one account, `machine` the version and state of the one machine,
  `ses` the sessions. Admission, the worker's pass (prepare, sign, record, each
  under a session lock that may be lost while the pass runs on), claim, check,
  close, revocation, operations and destroy are one action each.
- `AccessGateway`: `apps/access-gateway/src/server.ts`. A connection goes from
  upgrade to claim, check, connect and open; claim and check are calls of their
  own (`claims`, `checks`) that the gateway may give up on while the control
  plane still carries them out. The lease is counted from the start of the call,
  as in the code (`performance.now()` before the request).
- `MCAccessGateway`: instances.

Abstractions. Byte counting and errors of either socket are one reason to stop
among others. Identity pins, addresses and host keys of the machine are part of
its version. Policies of grants are left out; every grant may open access.

| run | instance | shows |
|---|---|---|
| `access` | two grants, two sessions, two workers, two connections, machine versions up to 2 | `SignedOnce`, `TicketUsedOnce`, `LeaseBoundsAccess`, `ReservationsBounded`, `RevokedIsClosed`, `NeverStranded` |

Two workers are what it takes to issue a session twice, two connections to use a
ticket twice, two sessions over two grants to fill each limit. The clock reaches
every deadline (the lease, the issue and ticket windows are one unit, the hard
limit two). `FewInPlay` allows four of these things at a time: connections used,
sessions admitted, grants delegated, workers busy, the machine moved on; the
mutants of all six properties are caught within it. Deadlock is not checked:
sessions end.

Nothing here assumes fairness. That every session is answered in the end is
covered by its safety part only, `NeverStranded`: no crash or lost lock leaves an
undecided session that the next pass could not take. Liveness itself would need
the instance without its bound, which is too large to explore.


### Proofs

`AccessProofs`, for any grants, sessions, workers, connections, limits and
windows:

- `SigningCorrect` (`SignedOnce`) from `SignInv`: no signer is called before the
  attempt is on record, and a pass about to call has the attempt to itself.
- `TicketGoodOnce` (`TicketUsedOnce`) from `TicketInv`: the claim a connection
  acts on is the one the session row names, and a claim is for good.
- `RevocationCloses` (`RevokedIsClosed`) from `Lasting`, what no step takes back,
  and `ChainLive`, that every grant above one that exists, exists.
- `LeaseHolds` (`LeaseBoundsAccess`) from `LossInv` and `LeaseInv`: lost authority
  stays lost, and an answer proves authority at some instant after its call
  began, so a lease counted from that beginning ends in time.
- `LimitsHold` (`ReservationsBounded`) from `SlotInv`: finitely many sessions were
  ever admitted, and only an admission takes a slot.
- `TypesKept` (`TypeOK`). Types are not inductive: times are bounded because an
  answer comes after its call (`TypeInv`).

Only model-checked: `NeverStranded`, which says what is enabled.
## Admission of machines and operations

`Admission` models `lifecycle.ts` with `cleanup-admission.ts`, `usage.ts`, the
catalog snapshot and the triggers of migration 0026 over several credentials and
machines; what happens to one machine after admission is the previous section,
here it is only its outcome. An admission is one transaction under advisory lock
78131025 and the account row and so one action: replayed keys, expected version,
name, the limits of credential, account and deployment, and the reservation
history are all part of it. A destroy takes a create over, joins a cleanup that
is under way, or starts one. The deployment's limits and the catalog may change
between any two requests.

| run | instance | shows |
|---|---|---|
| `admission` | two accounts with two and one credentials, three machines, three operations, two keys, two names, two price lists | `HistoryAccounts`, `OneOperationPerKey`, `OneChangePerVersion`, `NeverOverReserves`, `UsageCoversAdmission` |

The deployment has room for two machines and a price of four: less than the two
accounts may reserve together (three machines, a price of six) and less than there
are machines, so accounts meet at the shared ceiling; one account is limited to a
single machine, one credential to a price of one, so every limit binds somewhere.
The mutant of `NeverOverReserves` holds the ceiling against the account's own
machines and is caught only because two accounts meet. A third operation after a
failed, taken-over or completed one is what keys and versions are for.
`FewRequests` bounds a run to three remembered keys and revocations. The
deployment's limits are one value in the run; the theorems hold for any that
restarts change them to. One project per account; image pins are in the image
factory's model. `Next` offers a request to a machine only on its present version
(`Expected`): any other is refused or replayed and changes nothing.


### Proofs

`AdmissionProofs` proves `HistoryTrue` (`HistoryAccounts`), `VersionChangedOnce`
(`OneChangePerVersion`) and `KeyStandsForOne` (`OneOperationPerKey`) for any
number of accounts, credentials, machines, operations and keys. `AdmissionInv`
adds to the history that a machine with an operation under way is live and has
one such operation (`OpInv`), and to the versions that every operation was
admitted below the machine's present one. It assumes only that a machine has at
least one version (`MaxVersion # 0`).

It goes on to prove `LimitsNeverPassed` (`NeverOverReserves`) and
`ReportIsHonest` (`UsageCoversAdmission`), both about a step:

- a sum over a set is computed by a recursion that picks elements in an unknown
  order. `AddsExists` and `AddsUnique` show that the recursion defines one
  function, `AnyOrder` that the order does not matter, each by induction on the
  number of elements. The induction theorems of the library cannot be used with
  the provers at hand, so induction itself is `Counted`, from the well-founded
  order of the natural numbers (`Least`);
- a step changes one machine, so what any accounts hold changes by what that
  machine holds (`HeldChange`), one account and the whole deployment alike;
- an admission changes it by what `assertReservation` was asked for (`RoomFor`);
  an outcome adds nothing (`OutcomeLimits`), because what an operation will settle
  on is reserved while it runs (`OfferInv`, the part that is inductive). A resize
  that reserved only on completion would break exactly this.

Every property of the run is proved; the run shows that the cases occur.
## Protected backups

- `BackupGuest`: the request directory of a capture or restore on the guest
  (`guestctl/src/backups.ts`): started marker, result, archive, tombstone.
- `BackupStore`: the object store (`packages/backup-store`): a conditional PUT and
  a versioned DELETE that may be carried out after their caller is gone, lookup,
  read back and retention. A generation is the digest of one encryption.
- `BackupWork`: `backup-work.ts`. One worker holds the session lock and takes one
  job a phase further: capture, encrypt (`Sealed`), announce, upload, recover,
  clean the scratch file; download, verify (`Opens`), send, restore, inspect.
  Losing the lock is a crash (`Free`).
- `Backups`: admission of captures, restores and purges under the storage
  allowances, the retention operator, the operator's recovery of an upload, and
  what the machines, the credential and time do meanwhile.
- `BackupSchedules`: the reconciler of daily schedules and the retention policy;
  captures here are one word each.

Abstractions. Archives, Compose releases and database commands of the guest
succeed or fail. Sizes are one number, pages of the version listing and the
hourly limit of admissions are left out. All captures come from one machine.

| run | instance | shows |
|---|---|---|
| `backups` | `FairSpec`, one backup, one restore, two attempts per phase | `NoOrphanObject`, `UploadedOnce`, `GuestRunsOnce`, `PurgeSparesRestores`, `RestoreProven`, `WorkSettles`, `PurgeFinishes` |
| `schedules` | two reconcilers, two schedules of one app, four captures over four days of two units, two newer days kept | `NoBurst`, `RetentionKeeps` |

Two attempts make a retry and the end of retries both happen (the code allows
five); a second encryption has another generation, which is what an orphaned
object would carry. Rows of different backups meet only in the allowances. In
`schedules` days can be missed as a whole, and with four captures and two newer
days kept retention runs follow each other: one capture is removed, and later one
of those that outlived it. Two captures fall on one day when a schedule of the app
replaces another, and a customer may purge between a selection and its admission.
`FewIncidents` bounds what disturbs the captures (customers' captures and purges,
blocked ones, disabled schedules, lost authority or machine) to two at a time; time
and the order of reconcilers and retention runs are free. A schedule disabled
between its selection and the transaction that would advance it is looked at again
there (`StillDue`); no property of its own says so. Deadlock is not checked: settled
work stays settled.

Fairness: a job that has begun ends (`JobEnds`); jobs, purges and deletions are
strongly fair, because the queue hands out every unfinished row again after a
crash or a failed call (`tasks.ts`); retention ends and a provisioned target
comes up or fails. Customers, operators and destruction are not fair.


### Proofs

`BackupProofs` proves, for any backups, restores and numbers of attempts, from
`BackupInv`:

- `OnePutPerBackup` (`UploadedOnce`) and `ObjectsAccountedFor` (`NoOrphanObject`):
  where the worker is agrees with the phase on record (`CaptureInv`), the PUT is
  announced by the row before it is sent, and the object is what it carried
  (`UploadInv`);
- `OneRunPerRequest` (`GuestRunsOnce`): the start marker is written before the
  work and never removed (`CaptureRuns`, `RestoreRuns`);
- `RestoresSpared` (`PurgeSparesRestores`) from `SparedInv`;
- `RestoresProven` (`RestoreProven`): a restore is complete on the guest's word
  (`RestoreInv`), and a backup verified by such a restore (`VerifiedInv`).

The model assumes that there is a backup to restore (`Backups # {}`). Only
model-checked: `WorkSettles` and `PurgeFinishes` (liveness).

`ScheduleProofs` proves, for any reconcilers, schedules, day length, number of
days kept and number of captures (the run has four):

- `NeverABurst` (`NoBurst`): the next run of a schedule is at least a day after
  each capture it made (`NextRunLater`), and `advance` captures only once that
  instant has passed, so a reconciler whose selection is stale makes none;
- `RemovedIsOutlived` (`RetentionKeeps`). A capture that outlived a removed one
  may expire later on itself. When it does, `Keep` days outlive it at that
  instant; they are later than every day it outlived, and of the same app, so
  they take its place (`ExpiryKeeps`). No other step takes a capture out of
  those that count (`Outlived`), a customer's purge included.
## Hosting

- `GuestHosting`: the guest's proxy (`guestctl/src/hosting.ts`): a command is
  prepared, the proxy reloaded and the result committed (a rename, then a receipt),
  with a kill or a restart anywhere.
- `Hosting`: the route of one hostname in the control plane (`hosting.ts`,
  `hosting-domains.ts`, `hosting-runtime.ts`): the domain challenge, publication,
  move and removal, the job that sends a version to the guest with its attempts.
- `PublicGateway`: the controller of the public gateway
  (`apps/public-gateway/src/controller.ts`): reapply the saved snapshot, fetch,
  reload, save, acknowledge, failing or stopping between any two.

Abstractions. One hostname, generated or custom; a version stands for the port it
was published with. One controller owns the gateway's directory, as
`docs/architecture/https-routing.md` requires. Hourly limits and the renewal of
the gateway's certificate are left out.

| run | instance | shows |
|---|---|---|
| `hosting` | `FairSpec`, two machines, a custom hostname, two versions, one attempt | `ServedIsBound`, `RemovalIsSeen`, `EveryVersionSettles` |
| `hosting_republish` | expected violation: one machine, three versions | `NewConfigurationRetainsServed`: see Findings |

Two versions on two machines cover publish and move, publish and remove, and a
second publication while the first is on its way. `ServedIsBound` holds for these
and is not claimed for three versions: publish, remove, publish is exactly the
finding. Deadlock is checked.

Fairness: the queue hands a pending route out again, whatever failed before, and
a guest command runs to its end. Nothing is asked of the gateway.


### Proofs

`HostingProofs`, for any machines, workers and versions:

- `RemovalInForce` (`RemovalIsSeen`) from `HostingInv`: an acknowledged removal
  has left nothing of the hostname in what the gateway runs, has saved or is about
  to load (`RemovalInv`), because the controller's snapshots agree with how far it
  got (`SyncInv`) and work under way was claimed for a version that was wanted
  (`JobInv`).
- `ServedStaysBound`: `ServedIsBound` holds as long as a removed hostname is not
  published again (`NotRepublished`). Without that hypothesis the property is
  false, which is the finding of `hosting_republish`; with it, publications, moves
  and a removal in any order and number are covered. `RetentionInv` says that a
  version in play lies at or above every acknowledgement and every retention
  derived from one, and is bound wherever its machine stands (`Served`), and what
  the commands under way ask for (`CommandInv`).

Only model-checked: `EveryVersionSettles` (liveness).
## The image factory

- `ImageProvider`: the seven resources a build may own, commands whose answer was
  lost and that may still take effect, and the builder guest, which is installed,
  sanitized, stopped and photographed.
- `ImageJournal`: one effect per command and one row per resource, and how both
  follow what the provider shows (`image-effect-journal.ts`,
  `image-effect-policy.ts`, `image-resources.ts`, `image-cleanup.ts`).
- `ImageFactory`: a worker reads a plan outside the build lock and revalidates it
  under the lock; builder and verifier work, enrollment of the booted verifier,
  publication, release or cleanup, access keys on the operator's disk, cancel,
  deadlines, and customers who pin the published snapshot.

Abstractions. Reconciliation of one effect is atomic: only the lock holder writes
it. One create does not make two resources here (the simulator's duplicate is in
the lifecycle model). A provider action either runs, ends or
fails; that the provider forgets one (the code then looks a create up by its
labels and repeats a deletion) is left out. A build that `authorizeBuild` refuses is asked to clean up. Access
keys are prepared before admission, as the command does. The budget and its
prices are left out: they bound the number of builds, and there is one.

| run | instance | shows |
|---|---|---|
| `images` | `FairSpec`, one worker, one fault, one signing | `CleanedIsEmpty`, `RetainedIsSound`, `PinnedSnapshotStays`, `AbortFinishes` |
| `images_abort` | `FairSpec`, one worker, no fault, one signing | violates `AbortRemovesAll` |

The fault may be a lost answer, a rejection, a failing action or a crash, at any
step; cancellation, deadlines and the end of retention come on top of it and are
not counted. `AbortFinishes` has three exceptions, and each must last for ever to
count (`<>[]`): a create of unknown outcome for which no resource was ever found
(`Untraceable`, the code waits for evidence), a pinned snapshot, and a create whose
resource cleanup deleted before the create was confirmed (`Orphaned`). The last is
not something the code intends. `images_abort` states what
`docs/architecture/image-verifier.md` promises, without that exception, and TLC
finds the build that keeps its address, firewall and key (see the findings). When
the deletion took effect only after it had been repeated, the build does not even
wait: the row stays observed, and the deletion is submitted and refused again and
again. Apart from these, every abort ends. `Workers` can be raised: with two workers and one fault the invariants
hold over 4.9 million states, which takes longer than a run should.

Fairness: a job is queued again every second and a sweep finds what was lost; an
action of the provider ends; a verifier that was signed for gets its answer.

### Proofs

`ImageProofs` proves the three invariants for every set of workers and any number
of faults and signings (`NothingLeft`, `ReleaseSound`, `PinHolds`); the only
assumption added is that no worker is named like a state of the lock. None is
inductive, and `ImageInv` adds:

- `SentInv`: an effect is in the journal before its request can be under way, and
  whoever is about to send holds the lock. So a cleanup or a publication, which
  need the lock, never overlap a send.
- `RoleInv`, the heart of it: per role, what the effect of its create, its row and
  the request say of the resource. A create that was never tried or was refused
  has made nothing, one that is under way is pending, a row means that something
  was made, an absent row that it is gone, and a create is settled only with a row
  or a refusal. A build that has settled everything and sees no row therefore owns
  nothing, now or later (`CleanupRowFacts`, `NothingThere`).
- `PreparedInv`: a create is sent once, and never in a cleaned or retained build.
- `SnapshotInv` and `SanitizeInv`: from the moment the snapshot is ordered the
  builder's disk stays sanitized and stopped, and a deletion of the snapshot is
  journalled only in a build that is cleaning and that nobody boots from.
- `ReleaseInv`: what verification, publication and the removal of the keys leave.

The steps fall in three groups: those that touch neither the journal nor the
resources (`QuietStep`, `QuietKeeps`), what the provider does with known commands
(`ResourceStep`, `ResourceKeeps`, shared by late requests and submissions), and
the four writers of the journal. TLC checks `ImageInv` with one worker to the end
and found no violation in two million states with two. `AbortFinishes` is
liveness and stays with TLC.
## Control plane recovery

A control database restored from a checkpoint knows less than the world. The
database is one record `db`, restored as a whole; the generation file is outside.

- `ControlFence`: the generation file, the shared session lock of a process and
  its comparison before each request or task, checkpoint and restore
  (`control-fence.ts`, `worker.ts`, `api.ts`).
- `ControlRecovery`: `initialize`, `begin`, `close_operation` and `resume`, and the
  inspection that allows or blocks them, over machines, an image build, a backup
  and a route. The records of one of these are summed up in one word
  (`db.ledger`), against what exists (`exists`) and what is still on its way
  (`flight`). The operator's attestations are guards that are true.
- `CustomerLogin`: the admission anchor, login grants below it, revocation, what a
  grant keeps open, and the credential file of the command line.
- `GuestIdentity`: bootstrap, enrollment, renewal, and the guest's files:
  generations, the selected one, the one the services have loaded, the marker.
- `ControlPlane`: the composition. These parts meet only in the database, so each
  behaviour follows one of them (`concern`) through the same fence and decisions.

Abstractions. A process that is busy while its database is replaced may finish
the task it has begun (lease `old`): the restored target is another database. A
late reply of the guest's API may answer a newer question, which allows more than
the code does. Cooldowns are left out, time is in half hours, and the limits of
signings and renewals are constants. `Publish` refuses an older generation; with
one tool at a time under its lock that never happens. The repair of recovered
records (`apply-recovered`) is not modelled: an operator closes such an operation
here.

| run | instance | shows |
|---|---|---|
| `recovery` | two machines, two restores, one fault, three grants, two logins a day, five certificates | `LedgerIsTrue`, `WorkNotReplayed`, `NoRewoundAuthority`, `RenewalIsServed` |

Two restores are needed for work that the first recovery saw and the second
database forgot, three grants for an anchor, a login and its successor, and five
certificates for an enrollment and renewals on both sides of a restore. A server
the records do not know blocks the operator (`GuestBlocks`, `LedgerIsTrue`).

Fairness: a stopped process is started again or exits, the guest's tools run by a
timer and go on; enrollment, which a lost reply or a closed control plane may put
off, is strongly fair. Operators, customers, checkpoints and restores are not.


### Proofs

`ControlProofs` proves `LedgerTrue` (`LedgerIsTrue`), `WorkSentOnce`
(`WorkNotReplayed`) and `AuthorityNotRewound` (`NoRewoundAuthority`) for any
number of things, grants, logins, restores and faults, from `ControlInv`, which
has three parts:

- `FenceInv`: a process with a session belongs to the open database, one left
  over from the source finds it closed, a recovery meets no process, and the
  generation of the file is newer than that of every database.
- `RecordInv`: in an open database every request under way is one of its own
  attempts, and what exists is in its ledger (`Accounted`); in any database a thing
  is asked for at most once (`AskedOnce`), after its attempt is recorded
  (`AttemptRecorded`).
- `AuthorityInv`: grants are two deep below the anchor (`Rooted`), none comes from
  a number not given out (`IssuedBy`), and none that is active was revoked or is
  older than the last recovery (`FresherThan`); a closed database has no authority
  (`Powerless`).

TLC checked the three parts on the bounds of `recovery`. `CustomerLogin` assumes
that its bounds are natural numbers. Only model-checked: `RenewalIsServed`
(liveness).
## Findings

- `unclaimed_receipt`: the receipt of a create is stored in one transaction and
  its resource is claimed in a later one. If the worker dies in between and the
  provider's action then fails, the attempt is resolved as failed without a
  claim, and the server its receipt names is in no ledger row.
  `docs/architecture/machine-cleanup.md` says every known resource remains in
  the ledger. A later destroy does not see the server and blocks on the IP it
  holds.
- `hosting_republish`: a new guest configuration is said to retain the versions
  the gateway may still be serving (`docs/architecture/https-routing.md`, line
  40). The code retains from `gatewayAppliedVersion` on (`hosting-runtime.ts`,
  line 74), which the acknowledgement of a removal raises (`hosting.ts`, lines
  421 to 439). A hostname published again before the guest has carried the
  removal out is listed with its old target, the gateway serves it, and the
  guest's new configuration leaves that version out until the gateway has
  fetched the new one.
- `images_abort`: a full abort is said to remove every resource
  (`docs/architecture/image-verifier.md`, line 39). `planImageCleanup` deletes a
  server that it observes although its create is still pending, as it is between
  the end of the provider's action and the moment the configuration matches
  (`image-cleanup.ts`, lines 88 to 105). Nothing carries the labels of that create
  any more, so it is pending for ever (`image-effect-journal.ts`, lines 119 to
  126), and as long as a create of a server is pending the address, the firewall
  and the key are not deleted. A snapshot deleted so keeps the builder, too. No
  fault is needed, only a cancel or a deadline at that moment.

## Not modelled

- `guestctl` runs and Compose: state local to one guest that no other component
  shares; the parts of it others rely on (a release works or not) are verdicts in
  `BackupGuest` and `GuestHosting`.
- The legacy network profile and destroys from before admitted cleanups: kept in
  the code for old rows.
- The image build's budget and prices; the repair of recovered records;
  certificate renewal of the public gateway; rate limits counted per hour.
- HTTP routing, configuration, SDK, certificate tooling, image contents, recipes,
  migrations runner and scripts: no state that outlives a call.

## What is left

1. Proofs: every other safety property that a passing run checks is proved. Liveness
   (`OperationSettles`, `CleanupFinishes`, `WorkSettles`, `PurgeFinishes`,
   `EveryVersionSettles`, `AbortFinishes`, `RenewalIsServed`) needs fairness and
   stays with TLC, and so does `NeverStranded`, which speaks of what is enabled.
2. The image factory's budget over several builds; the repair of recovered
   records as further decisions of `ControlRecovery`.
3. `guestctl` runs as a model of its own.
