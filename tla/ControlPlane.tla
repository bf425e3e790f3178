---------------------------- MODULE ControlPlane ----------------------------
(***************************************************************************)
(* The control plane across the loss of its database: checkpoints are      *)
(* taken at any moment, an older one is restored on a new target, the      *)
(* operator recovers it, and customers, machines and guests go on as if    *)
(* nothing had been lost. The database is restored as a whole; the parts   *)
(* it holds do not meet otherwise, so each behaviour follows one of them   *)
(* (the concern) through the same fence and the same decisions.            *)
(***************************************************************************)
EXTENDS ControlRecovery, CustomerLogin, GuestIdentity

VARIABLE concern

parts == <<loginVars, guestVars, concern>>
vars == <<fenceVars, inventoryVars, parts>>

EmptyDatabase ==
  [ctl |-> Unset, ledger |-> [m \in Things |-> "none"], auth |-> NoAuthority, ident |-> NoGuest]

Init ==
  /\ concern \in {"machine", "image", "backup", "route", "customer", "guest"}
  /\ db = EmptyDatabase /\ saved = EmptyDatabase
  /\ file = 0 /\ gens = 0 /\ proc = Down /\ restores = 0 /\ faults = 0
  /\ exists = [m \in Things |-> FALSE] /\ flight = [m \in Things |-> "none"]
  /\ submits = [m \in Things |-> 0]
  /\ issued = 0 /\ logins = 0 /\ cred = 0 /\ cli = "idle" /\ revoked = {} /\ base = 0
  /\ clock = 0 /\ certs = 0 /\ born = [n \in 1 .. MaxCerts |-> 0]
  /\ boot = FALSE /\ kept = {} /\ current = 0 /\ marker = 0 /\ served = 0 /\ job = Resting

\* The processes, the archive and the operator's decisions are common to all concerns.
BeginRecovery == Begin /\ base' = issued /\ UNCHANGED <<issued, logins, cred, cli, revoked>>

ResumeControl == ~GuestBlocks /\ Resume

CommonNext ==
  \/ /\ FenceNext \/ Initialize \/ ResumeControl
     /\ UNCHANGED <<inventoryVars, parts>>
  \/ BeginRecovery /\ UNCHANGED <<guestVars, concern>>

Followed == IF concern = "machine" THEN Machines ELSE {concern} \cap Things

RecordNext ==
  /\ \E m \in Followed :
       \/ AdmitCreate(m) \/ AdmitDestroy(m) \/ TakeTask(m) \/ PrepareAttempt(m) \/ Submit(m)
       \/ Confirm(m) \/ Land(m) \/ RemoveResource(m) \/ CloseOperation(m)
  /\ UNCHANGED parts

CustomerNext ==
  concern = "customer" /\ LoginNext /\ UNCHANGED <<inventoryVars, guestVars, concern>>

GuestNext ==
  /\ concern = "guest" /\ (CreateGuest \/ EnrollmentStep \/ GuestStep \/ GuestFault \/ Tick)
  /\ UNCHANGED <<inventoryVars, loginVars, concern>>

Next == CommonNext \/ RecordNext \/ CustomerNext \/ GuestNext

\* systemd restarts the control process; the guest's path unit and timer start its tool; both
\* finish what they start. Nobody promises a restore, a recovery or the passing of time.
Fairness ==
  /\ WF_vars((OpenControlFence \/ Exit) /\ UNCHANGED <<inventoryVars, parts>>)
  /\ SF_vars(EnrollmentStep /\ UNCHANGED <<inventoryVars, loginVars, concern>>)
  /\ WF_vars(GuestStep /\ UNCHANGED <<inventoryVars, loginVars, concern>>)

Spec == Init /\ [][Next]_vars /\ Fairness

-----------------------------------------------------------------------------
(* A control plane that is open has no server and no image resource, and no create under way,  *)
(* that its database does not account for, and every machine, retained image and captured      *)
(* backup it believes in exists: what happened after the checkpoint is found before customers  *)
(* and workers come back (inspectControlRecovery, close_operation, resume).                    *)
LedgerIsTrue ==
  Open => \A m \in Things :
            /\ m \notin {"backup", "route"} /\ (exists[m] \/ flight[m] = "create") =>
                 db.ledger[m] \in Unfinished \cup {"live"}
            /\ m # "route" /\ db.ledger[m] = "live" => exists[m]

(* What a record asks to be made is asked for at most once, whichever databases remember it,   *)
(* and an open control plane holds no queued work that already left: a create queued at the    *)
(* checkpoint and submitted after it is not submitted again by the restored control plane (the *)
(* generation fence, close_operation, resume).                                                 *)
WorkNotReplayed ==
  \A m \in Things : submits[m] <= 1 /\ (Open /\ db.ledger[m] = "queued" => submits[m] = 0)

(* While the control plane is open, no grant revoked in any database carries authority, none   *)
(* from before the last recovery does, a login's authority comes from the current admission,   *)
(* and no session or schedule of a lost grant is alive (begin, renewCustomer, disableCustomer, *)
(* login against a stale anchor, logout).                                                      *)
NoRewoundAuthority ==
  Open => /\ \A g \in Grants : Usable(db.auth, g) =>
               /\ g \notin revoked /\ g > base
               /\ g = db.auth.anchor \/ db.auth.parent[g] = db.auth.anchor
          /\ db.auth.sess # 0 => Usable(db.auth, db.auth.sess)
          /\ db.auth.sched # 0 => db.auth.sched > base

(* While the control plane stays open, a ready guest comes to serve the newest certificate     *)
(* issued to it: lost replies, deaths between publishing a generation and reloading the        *)
(* services, and a database that forgot renewals are all made up for (renewGuest, renew,       *)
(* installIdentity).                                                                           *)
RenewalIsServed ==
  <>[]Open => []<>(db.ident.op = "done" => served >= db.ident.idn)
=============================================================================
