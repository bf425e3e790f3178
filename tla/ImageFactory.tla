----------------------------- MODULE ImageFactory -----------------------------
(***************************************************************************)
(* One image build from its admission to a retained release or to nothing: *)
(* workers plan from a snapshot of the journal and act under the build     *)
(* lock, the booted verifier enrolls, the operator cancels, customers pin  *)
(* the published snapshot, time passes and processes die.                  *)
(*                                                                         *)
(* Source: apps/control/src/image-builds.ts, image-tasks.ts,               *)
(* image-release-plan.ts, advance-image-build.ts, image-runtime.ts,        *)
(* image-builder-work.ts, image-verifier*.ts, image-publication.ts,        *)
(* image-access.ts, allocation-image.ts.                                   *)
(***************************************************************************)
EXTENDS ImageJournal, Sequences, FiniteSetsExt

CONSTANTS Workers, MaxSignings      \* identity signings of a verifier (4 in the code)

ASSUME ImageFactoryAssumption ==
  MaxSignings \in Nat \ {0} /\ {"free", "enroll"} \cap Workers = {}

VARIABLES state,      \* image_builds.state
          asked,      \* runRequestedAt is set
          retain,     \* the admission asks for a retained snapshot
          clock,      \* open, then past deadlineAt, then past retention.deleteAfter
          specOver,   \* the verifier's bootstrap has expired
          work,       \* image_builder_work.progress
          verif,      \* the verifier's records
          signings,   \* image_verifier_signing_attempts, purpose identity
          pub,        \* image_publications
          keys,       \* the access keys on the operator's disk
          accessGone, \* accessRemovedAt is set
          pin,        \* allocation_images: a customer create that boots the snapshot
          job,        \* [Workers -> what the worker is about to do]
          lock        \* who holds the build lock

buildVars == <<state, asked, retain, clock, specOver, work, verif, signings, pub, keys,
               accessGone, pin>>
vars == <<providerVars, journalVars, buildVars, job, lock>>

Idle == <<"idle">>
Jobs == {<<j>> : j \in {"idle", "builder", "sanitizing", "verifier_prepare", "verifier_check",
                        "publication_prepare", "cleanup", "release", "access", "publish"}}
        \cup ({"effect", "prepared"} \X Commands)

\* Every variable has its type.
TypeOK ==
  /\ ProviderTypeOK /\ JournalTypeOK
  /\ state \in {"none", "running", "releasing", "retained", "cleaning", "cleaned"}
  /\ asked \in BOOLEAN /\ retain \in BOOLEAN /\ specOver \in BOOLEAN /\ accessGone \in BOOLEAN
  /\ clock \in {"open", "late", "over"}
  /\ work \in {"waiting", "installing", "installed", "sanitizing", "sanitized"}
  /\ verif \in {"waiting", "prepared", "claimed", "enrolled", "verified"}
  /\ signings \in 0 .. MaxSignings
  /\ pub \in {"waiting", "prepared", "published"}
  /\ keys \in {"none", "kept", "retiring", "gone"}
  /\ pin \in {"none", "active", "settled"}
  /\ job \in [Workers -> Jobs] /\ lock \in Workers \cup {"free", "enroll"}

Init ==
  /\ ProviderInit /\ JournalInit
  /\ state = "none" /\ asked = FALSE /\ retain \in BOOLEAN /\ clock = "open" /\ specOver = FALSE
  /\ work = "waiting" /\ verif = "waiting" /\ signings = 0 /\ pub = "waiting"
  /\ keys = "none" /\ accessGone = FALSE /\ pin = "none"
  /\ job = [w \in Workers |-> Idle] /\ lock = "free"

Active == state = "running" /\ clock = "open"
Sanitized == work = "sanitized"
InUse == pin = "active"

Goto(w, j) == job' = [job EXCEPT ![w] = j]
At(w, j) == job[w] = j

\* Groups of variables for UNCHANGED.
Rest == <<asked, retain, clock, specOver, pin>>
Outside == <<providerVars, journalVars>>

-----------------------------------------------------------------------------
(* The operator.                                                             *)

\* Both key pairs and their metadata are made aside and appear at once, by a
\* rename; a directory that is there already is only read.
PrepareAccess ==
  /\ state = "none" /\ keys = "none" /\ keys' = "kept"
  /\ UNCHANGED <<Outside, Rest, state, work, verif, signings, pub, accessGone, job, lock>>

\* The keys of this very build can be read, and each private key fits its public one.
AccessKept == keys = "kept"

\* The admission names the keys prepared for it.
AdmitImageBuild ==
  /\ state = "none" /\ clock = "open" /\ AccessKept
  /\ state' = "running"
  /\ UNCHANGED <<Outside, Rest, work, verif, signings, pub, keys, accessGone, job, lock>>

RequestImageRun ==
  /\ Active /\ ~asked /\ asked' = TRUE
  /\ UNCHANGED <<Outside, state, retain, clock, specOver, work, verif, signings, pub, keys,
                 accessGone, pin, job, lock>>

\* requestImageCleanup takes only the row: it may come while a worker holds the lock.
RequestImageCleanup ==
  /\ state \in {"running", "releasing", "retained"} /\ state' = "cleaning"
  /\ UNCHANGED <<Outside, Rest, work, verif, signings, pub, keys, accessGone, job, lock>>

-----------------------------------------------------------------------------
(* planImageRelease: the first step of the release that is not done.         *)

Steps == << <<"create", "access_key">>, <<"create", "access_firewall">>,
            <<"create", "builder_ip">>, <<"create", "builder">>, <<"builder">>,
            <<"power_off", "builder">>, <<"create", "snapshot">>, <<"verifier_prepare">>,
            <<"create", "verifier_ip">>, <<"create", "verifier">>, <<"verifier_check">>,
            <<"publication_prepare">> >>

StepDone(s) ==
  CASE s = <<"builder">>             -> Sanitized
    [] s = <<"verifier_prepare">>    -> verif # "waiting"
    [] s = <<"verifier_check">>      -> verif = "verified"
    [] s = <<"publication_prepare">> -> FALSE
    [] s[1] = "create"               -> Confirmed(s[2]) /\ row[s[2]] = "observed"
    [] OTHER                         -> eff[s].res = "confirmed"

NextStep == Steps[Min({i \in DOMAIN Steps : ~StepDone(Steps[i])})]

\* A create that ended otherwise, or a verifier that is too late to enroll.
ReleaseFailed ==
  \/ NextStep \in Commands /\ IsCreate(NextStep) /\ eff[NextStep].out # "none"
  \/ /\ NextStep \in {<<"create", "verifier_ip">>, <<"create", "verifier">>, <<"verifier_check">>}
     /\ specOver /\ verif # "enrolled"

\* advance reads the journal outside the lock; whatever it plans is checked again.
PlanOnly(w, j) == Goto(w, j) /\ UNCHANGED <<Outside, buildVars, lock>>

PlanPending(w) ==
  /\ At(w, Idle) /\ Active /\ asked
  /\ \E k \in Commands : Pending(k) /\ PlanOnly(w, <<"effect", k>>)

PlanStep(w) ==
  /\ At(w, Idle) /\ Active /\ asked /\ NothingPending /\ ~ReleaseFailed
  /\ ~(NextStep = <<"publication_prepare">> /\ ~retain)
  /\ PlanOnly(w, IF NextStep \in Commands THEN <<"effect", NextStep>> ELSE NextStep)

\* The worker itself asks for cleanup: failed, expired, or verified and not to be kept.
\* (A signing key that is no longer authorized does the same as RequestImageCleanup.)
PlanAbort(w) ==
  /\ At(w, Idle)
  /\ \/ /\ Active /\ asked /\ NothingPending
        /\ ReleaseFailed \/ (NextStep = <<"publication_prepare">> /\ ~retain)
     \/ state \in {"running", "releasing"} /\ clock # "open"
     \/ state = "retained" /\ clock = "over"
  /\ state' = "cleaning" /\ Goto(w, <<"cleanup">>)
  /\ UNCHANGED <<Outside, Rest, work, verif, signings, pub, keys, accessGone, lock>>

PlanCleanup(w) ==
  /\ At(w, Idle)
  /\ \/ state = "cleaning" /\ PlanOnly(w, <<"cleanup">>)
     \/ state = "releasing" /\ clock = "open" /\ PlanOnly(w, <<"release">>)
     \/ state = "cleaned" /\ ~accessGone /\ PlanOnly(w, <<"access">>)

-----------------------------------------------------------------------------
(* runImageEffect, under the build lock.                                     *)

EndJob(w) == Goto(w, Idle)

\* What the state of the build lets a new effect do.
Permitted(k) ==
  IF k[1] = "delete" THEN state \in {"cleaning", "releasing"}
  ELSE Active /\ \A j \in Commands : Pending(j) => j = k

CommandAllowed(k) ==
  CASE k[1] = "create" -> CreateAllowed(k[2], Sanitized, verif = "prepared" /\ ~specOver)
    [] k[1] = "delete" -> DeleteAllowed(k[2], state = "releasing") /\ ~(k[2] = "snapshot" /\ InUse)
    [] OTHER           -> Sanitized /\ Owned("builder")

\* Only a command never tried, or an exact-identity one that failed or is uncertain.
Submittable(k) ==
  \/ eff[k].out = "none"
  \/ ~IsCreate(k) /\ Resolution(k) \in {"failed", "retry"}

\* The effect is committed before anything is sent.
PrepareEffect(w, k) ==
  /\ At(w, <<"effect", k>>) /\ lock = "free"
  /\ Submittable(k) /\ Permitted(k) /\ CommandAllowed(k)
  /\ eff' = [eff EXCEPT ![k] = [out |-> "prepared", res |-> "pending"]]
  /\ row' = [row EXCEPT ![k[2]] = RowAfter(k)]
  /\ lock' = w /\ Goto(w, <<"prepared", k>>)
  /\ UNCHANGED <<providerVars, buildVars>>

\* Otherwise the pass only reconciles what was already sent.
ReconcileEffect(w, k) ==
  /\ At(w, <<"effect", k>>) /\ lock = "free"
  /\ ~(Submittable(k) /\ Permitted(k) /\ CommandAllowed(k))
  /\ eff' = [eff EXCEPT ![k] = Settled(k)]
  /\ row' = [row EXCEPT ![k[2]] = RowAfter(k)]
  /\ EndJob(w) /\ UNCHANGED <<providerVars, buildVars, lock>>

\* A server's boot data is rendered only for a build that is still active.
Renderable(k) ==
  k[1] = "create" /\ k[2] \in Servers =>
    /\ Active
    /\ k[2] = "builder" => AccessKept
    /\ k[2] = "verifier" => verif = "prepared" /\ ~specOver

\* The outcome is saved and the pass goes on to claim the resource of the receipt,
\* or dies first; the next pass claims what this one did not, and settles.
SubmitEffect(w, k) ==
  /\ At(w, <<"prepared", k>>)
  /\ \E answer \in Answers :
       /\ IF Renderable(k) THEN Respond(k, answer)
          ELSE answer = "rejected" /\ NotExecuted /\ UNCHANGED <<req, faults>>
       /\ eff' = [eff EXCEPT ![k].out = answer]
       /\ \/ UNCHANGED row
          \/ /\ IsCreate(k) /\ answer = "answered" /\ row[k[2]] = "none"
             /\ row' = [row EXCEPT ![k[2]] = "claimed"]
  /\ lock' = "free" /\ EndJob(w)
  /\ UNCHANGED buildVars

\* The worker dies with the effect prepared, before or after the request left.
SubmitterDies(w, k) ==
  /\ At(w, <<"prepared", k>>) /\ Respond(k, "unknown")
  /\ lock' = "free" /\ EndJob(w)
  /\ UNCHANGED <<journalVars, buildVars>>

-----------------------------------------------------------------------------
(* runImageBuilderWork, one SSH phase under the build lock.                  *)

\* A previous process may have erased access without persisting its receipt.
SanitationLost(w) ==
  /\ At(w, <<"builder">>) /\ lock = "free" /\ Active /\ NothingPending /\ work = "sanitizing"
  /\ state' = "cleaning" /\ EndJob(w)
  /\ UNCHANGED <<Outside, Rest, work, verif, signings, pub, keys, accessGone, lock>>

CurrentBuilder ==
  /\ Active /\ NothingPending /\ AccessKept
  /\ row["builder"] = "observed" /\ Confirmed("builder") /\ res["builder"] = "ready" /\ power = "on"

\* The marker makes the installation start once; a session may end without its receipt.
Install(w) ==
  /\ At(w, <<"builder">>) /\ lock = "free" /\ CurrentBuilder /\ work \in {"waiting", "installing"}
  /\ CASE guest = "installed" -> guest' = guest /\ work' = "installed"
       [] guest = "started"   -> guest' = guest /\ work' = "installing"
       [] OTHER -> \/ guest' = "installed" /\ work' = "installed"
                   \/ guest' \in {"fresh", "started"} /\ work' = "installing"
  /\ EndJob(w)
  /\ UNCHANGED <<res, req, power, clean, faults, journalVars, Rest, state, verif, signings, pub,
                 keys, accessGone, lock>>

StartSanitation(w) ==
  /\ At(w, <<"builder">>) /\ lock = "free" /\ CurrentBuilder /\ work = "installed"
  /\ work' = "sanitizing" /\ lock' = w /\ Goto(w, <<"sanitizing">>)
  /\ UNCHANGED <<Outside, Rest, state, verif, signings, pub, keys, accessGone>>

\* The receipt is saved even when cleanup was requested meanwhile.
SaveSanitized(w) ==
  /\ At(w, <<"sanitizing">>) /\ res["builder"] = "ready" /\ power = "on"
  /\ guest' = PrepareDone /\ work' = "sanitized" /\ lock' = "free" /\ EndJob(w)
  /\ UNCHANGED <<res, req, power, clean, faults, journalVars, Rest, state, verif, signings, pub,
                 keys, accessGone>>

\* The session ends without a receipt, or the worker dies in it.
SanitationFails(w) ==
  /\ At(w, <<"sanitizing">>) /\ Fault
  /\ guest' \in {PrepareRefused, PrepareInterrupted, PrepareDone} /\ lock' = "free" /\ EndJob(w)
  /\ state' \in {state, IF state = "running" THEN "cleaning" ELSE state}
  /\ UNCHANGED <<res, req, power, clean, journalVars, Rest, work, verif, signings, pub, keys,
                 accessGone>>

\* A phase that finds nothing to do, or the builder not as recorded.
BuilderRefused(w) ==
  /\ At(w, <<"builder">>) /\ lock = "free"
  /\ Sanitized \/ ~Active \/ ~NothingPending \/ (work # "sanitizing" /\ ~CurrentBuilder)
  /\ state' = IF state = "running" /\ clock # "open" THEN "cleaning" ELSE state
  /\ EndJob(w)
  /\ UNCHANGED <<Outside, Rest, work, verif, signings, pub, keys, accessGone, lock>>

-----------------------------------------------------------------------------
(* The verifier: a server booted from the snapshot that enrolls by itself.   *)

VerifierSnapshot == row["snapshot"] = "observed" /\ Confirmed("snapshot") /\ Sanitized

PrepareVerification(w) ==
  /\ At(w, <<"verifier_prepare">>) /\ lock = "free"
  /\ verif' = IF Active /\ VerifierSnapshot /\ verif = "waiting" THEN "prepared" ELSE verif
  /\ EndJob(w)
  /\ UNCHANGED <<Outside, Rest, state, work, signings, pub, keys, accessGone, lock>>

\* The address and the boot source come from what the provider shows now.
ObservedVerifier ==
  /\ VerifierSnapshot /\ res["snapshot"] = "ready"
  /\ \A r \in {"verifier", "verifier_ip"} : row[r] = "observed" /\ Confirmed(r) /\ res[r] = "ready"

\* enroll up to the reserved signing: the keys are claimed first.
EnrollClaim ==
  /\ lock = "free" /\ Active /\ ~specOver /\ verif \in {"prepared", "claimed"}
  /\ ObservedVerifier /\ ImageBoots
  /\ verif' = "claimed"
  /\ IF signings < MaxSignings
       THEN signings' = signings + 1 /\ lock' = "enroll"
       ELSE UNCHANGED <<signings, lock>>
  /\ UNCHANGED <<Outside, Rest, state, work, pub, keys, accessGone, job>>

\* The certificates are kept only for a build that is still active.
EnrollIssue ==
  /\ lock = "enroll" /\ lock' = "free"
  /\ verif' = IF Active /\ ~specOver THEN "enrolled" ELSE verif
  /\ UNCHANGED <<Outside, Rest, state, work, signings, pub, keys, accessGone, job>>

EnrollFails ==
  /\ lock = "enroll" /\ Fault /\ lock' = "free"
  /\ UNCHANGED <<res, req, power, guest, clean, journalVars, buildVars, job>>

\* check: the booted image is not ready yet, or proves what it is.
CheckVerifier(w) ==
  /\ At(w, <<"verifier_check">>) /\ lock = "free"
  /\ verif' \in {verif} \cup {v \in {"verified"} : Active /\ verif = "enrolled" /\ ObservedVerifier}
  /\ EndJob(w)
  /\ UNCHANGED <<Outside, Rest, state, work, signings, pub, keys, accessGone, lock>>

-----------------------------------------------------------------------------
(* Publication.                                                              *)

PreparePublication(w) ==
  /\ At(w, <<"publication_prepare">>) /\ lock = "free" /\ EndJob(w)
  /\ IF /\ Active /\ retain /\ verif = "verified" /\ Sanitized /\ NothingPending
        /\ ObservedVerifier /\ eff[<<"power_off", "builder">>].res = "confirmed"
       THEN pub' = "prepared" /\ state' = "releasing"
       ELSE UNCHANGED <<pub, state>>
  /\ UNCHANGED <<Outside, Rest, work, verif, signings, keys, accessGone, lock>>

TemporaryCleanup ==
  /\ NothingPending
  /\ \A r \in Roles \ {"snapshot"} : row[r] \in {"none", "absent"}

PublishRelease(w) ==
  /\ At(w, <<"publish">>) /\ lock = "free" /\ EndJob(w)
  /\ IF /\ state = "releasing" /\ pub = "prepared" /\ clock = "open"
        /\ TemporaryCleanup /\ accessGone
        /\ row["snapshot"] = "observed" /\ Confirmed("snapshot") /\ res["snapshot"] = "ready"
       THEN pub' = "published" /\ state' = "retained"
       ELSE UNCHANGED <<pub, state>>
  /\ UNCHANGED <<Outside, Rest, work, verif, signings, keys, accessGone, lock>>

-----------------------------------------------------------------------------
(* cleanupImageBuild and the removal of the access keys.                     *)

\* The outcome of planImageCleanup for the state the build is in.
CleanupOutcome(w, releasing) ==
  \/ \E r \in NextDeletions(releasing, InUse) :
       Goto(w, <<"effect", <<"delete", r>> >>) /\ UNCHANGED state
  \/ /\ NextDeletions(releasing, InUse) = {}
     /\ \E k \in Commands : StillPending(k) \/ Remaining(releasing) # {}
     /\ EndJob(w) /\ UNCHANGED state
  \/ /\ NextDeletions(releasing, InUse) = {}
     /\ \A k \in Commands : ~StillPending(k)
     /\ Remaining(releasing) = {}
     /\ Goto(w, <<"access">>) /\ state' = IF releasing THEN state ELSE "cleaned"

PlanImageCleanup(w) ==
  /\ lock = "free"
  /\ \/ At(w, <<"cleanup">>) /\ state = "cleaning"
     \/ At(w, <<"release">>) /\ state = "releasing"
  /\ eff' = CleanupEff /\ row' = CleanupRow
  /\ CleanupOutcome(w, state = "releasing")
  /\ UNCHANGED <<providerVars, Rest, work, verif, signings, pub, keys, accessGone, lock>>

\* The state has moved on since the plan.
CleanupRefused(w) ==
  /\ job[w] \in {<<"cleanup">>, <<"release">>} /\ lock = "free"
  /\ state # (IF At(w, <<"cleanup">>) THEN "cleaning" ELSE "releasing")
  /\ EndJob(w) /\ UNCHANGED <<Outside, buildVars, lock>>

\* completeImageAccessCleanup: the directory is renamed, emptied, and only then recorded.
RetireKeys(w) ==
  /\ At(w, <<"access">>) /\ ~accessGone /\ AccessKept /\ keys' = "retiring"
  /\ UNCHANGED <<Outside, Rest, state, work, verif, signings, pub, accessGone, job, lock>>

\* Mutant: the removal is recorded first, the directory emptied whenever.
RecordsBeforeErasing(w) ==
  /\ At(w, <<"access">>) /\ accessGone' = TRUE
  /\ Goto(w, IF state = "releasing" THEN <<"publish">> ELSE Idle)
  /\ UNCHANGED <<Outside, Rest, state, work, verif, signings, pub, keys, lock>>

RecordAccessGone(w) ==
  /\ At(w, <<"access">>) /\ (accessGone \/ ~AccessKept)
  /\ keys' = "gone" /\ accessGone' = TRUE
  /\ Goto(w, IF state = "releasing" THEN <<"publish">> ELSE Idle)
  /\ UNCHANGED <<Outside, Rest, state, work, verif, signings, pub, lock>>

-----------------------------------------------------------------------------
(* Crashes, a busy lock, customers and time.                                 *)

\* withImageBuildLock answers busy instead of waiting.
LockBusy(w) ==
  /\ job[w][1] \in {"effect", "builder", "verifier_prepare", "verifier_check",
                    "publication_prepare", "cleanup", "release", "publish"}
  /\ lock # "free" /\ EndJob(w)
  /\ UNCHANGED <<Outside, buildVars, lock>>

\* Between two locked sections a dying worker only loses its plan.
WorkerDies(w) ==
  /\ job[w][1] \in {"access", "publish"} /\ Fault /\ EndJob(w)
  /\ UNCHANGED <<res, req, power, guest, clean, journalVars, buildVars, lock>>

\* Mutant: any build that was ever published can be booted.
PinAnyPublished ==
  /\ pin = "none" /\ pub = "published" /\ pin' = "active"
  /\ UNCHANGED <<Outside, state, asked, retain, clock, specOver, work, verif, signings, pub, keys,
                 accessGone, job, lock>>

\* Admission of a customer machine, under the build's row lock.
PinAllocationImage ==
  /\ pin = "none" /\ state = "retained" /\ pub = "published" /\ clock # "over"
  /\ pin' = "active"
  /\ UNCHANGED <<Outside, state, asked, retain, clock, specOver, work, verif, signings, pub, keys,
                 accessGone, job, lock>>

\* The customer's create is confirmed, or its allocation is retired and settled.
SettlePin ==
  /\ pin = "active" /\ pin' = "settled"
  /\ UNCHANGED <<Outside, state, asked, retain, clock, specOver, work, verif, signings, pub, keys,
                 accessGone, job, lock>>

TimePasses ==
  /\ \/ clock = "open" /\ state # "none" /\ clock' = "late" /\ UNCHANGED specOver
     \/ clock = "late" /\ clock' = "over" /\ UNCHANGED specOver
     \/ verif # "waiting" /\ ~specOver /\ specOver' = TRUE /\ UNCHANGED clock
  /\ UNCHANGED <<Outside, state, asked, retain, work, verif, signings, pub, keys, accessGone, pin,
                 job, lock>>

-----------------------------------------------------------------------------

EffectStep(w) ==
  \E k \in Commands : PrepareEffect(w, k) \/ ReconcileEffect(w, k) \/ SubmitEffect(w, k)

Work(w) ==
  \/ PlanPending(w) \/ PlanStep(w) \/ PlanAbort(w) \/ PlanCleanup(w)
  \/ EffectStep(w)
  \/ SanitationLost(w) \/ Install(w) \/ StartSanitation(w) \/ SaveSanitized(w) \/ BuilderRefused(w)
  \/ PrepareVerification(w) \/ CheckVerifier(w) \/ PreparePublication(w) \/ PublishRelease(w)
  \/ PlanImageCleanup(w) \/ CleanupRefused(w) \/ RetireKeys(w) \/ RecordAccessGone(w)
  \/ LockBusy(w)

Dies(w) == WorkerDies(w) \/ SanitationFails(w) \/ \E k \in Commands : SubmitterDies(w, k)

Next ==
  \/ PrepareAccess \/ AdmitImageBuild \/ RequestImageRun \/ RequestImageCleanup
  \/ \E w \in Workers : Work(w) \/ Dies(w)
  \/ EnrollClaim \/ EnrollIssue \/ EnrollFails
  \/ PinAllocationImage \/ SettlePin \/ TimePasses
  \/ ProviderStep /\ UNCHANGED <<journalVars, buildVars, job, lock>>

Spec == Init /\ [][Next]_vars

\* A job is queued again every second, a reconciliation sweep queues what was lost,
\* and an action of the provider ends.
FairSpec ==
  /\ Spec
  /\ \A w \in Workers : WF_vars(Work(w))
  /\ WF_vars(EnrollIssue)
  /\ WF_vars(ProviderFinishes /\ UNCHANGED <<journalVars, buildVars, job, lock>>)

-----------------------------------------------------------------------------
(* Properties.                                                               *)

\* A cleaned build owns nothing any more: no resource exists and no request of
\* unknown outcome can still make one, however creates were answered, whoever
\* died and whenever cleanup was requested.
CleanedIsEmpty ==
  state = "cleaned" => \A r \in Roles : ~Exists(r) /\ <<"create", r>> \notin req

\* A retained release is the snapshot of a sanitized, stopped builder, was booted
\* and verified, and is all that is left of its build: no server, address, firewall,
\* key or request remains, and the builder's access keys are off the disk.
RetainedIsSound ==
  state = "retained" =>
    /\ res["snapshot"] = "ready" /\ clean /\ verif = "verified"
    /\ keys = "gone"
    /\ \A r \in Roles \ {"snapshot"} : ~Exists(r) /\ <<"create", r>> \notin req

\* While a customer create may still boot from the snapshot it is there, although
\* the build's retention may end or its operator cancel at any time.
PinnedSnapshotStays == InUse => res["snapshot"] = "ready"

\* A create of unknown outcome that left no trace: no resource was ever found.
Untraceable == \E r \in Roles : Pending(<<"create", r>>) /\ row[r] = "none"

\* A create that was found, never confirmed, and whose resource cleanup has deleted.
Orphaned == \E r \in Roles : Pending(<<"create", r>>) /\ row[r] # "none" /\ res[r] = "gone"

\* A build that is cleaning ends with nothing left and its keys removed, whoever
\* died and whatever failed, unless it waits for ever for one of three things: a
\* create of unknown outcome that never left a trace, a create whose resource was
\* deleted before it was confirmed, or a customer who keeps the snapshot pinned.
\* The second is the stall that AbortRemovesAll shows.
AbortFinishes ==
  \/ <>[]Untraceable \/ <>[]Orphaned \/ <>[]InUse
  \/ state = "cleaning" ~> state = "cleaned" /\ accessGone

\* docs/architecture/image-verifier.md: "Full abort removes every resource, including
\* a published snapshot." It does not once cleanup deletes a server or a snapshot whose
\* create was still pending: the create is never settled, and while it is pending the
\* resources behind it are not deleted.
AbortRemovesAll ==
  \/ <>[]Untraceable \/ <>[]InUse
  \/ state = "cleaning" ~> \A r \in Roles : ~Exists(r)

=============================================================================
