---------------------------- MODULE GuestIdentity ----------------------------
(***************************************************************************)
(* The identity of one guest: its bootstrap, the enrollment that claims    *)
(* its keys and issues its first certificate, the renewals, and the        *)
(* guest's own files, where a certificate generation is published, made    *)
(* current, loaded by the services and marked as activated.                *)
(* Certificates are numbered in the order of issuedAt.                     *)
(*                                                                         *)
(* Source: apps/control/src/guest-bootstrap.ts, guest-enrollment.ts,       *)
(* guest-renewal.ts, guest-observation.ts, guest-readiness.ts and          *)
(* packages/guestctl/src/enrollment.ts, identity.ts, certificates.ts,      *)
(* renewal.ts, system.ts.                                                  *)
(***************************************************************************)
EXTENDS ControlFence, FiniteSetsExt

CONSTANTS MaxClock,       \* half hours
          MaxCerts,       \* certificates ever signed
          MaxSignings,    \* identity signings of an enrollment (4 in the code)
          MaxRenewals     \* renewals an hour (4 in the code)

VARIABLES clock, certs, born,   \* time, certificates signed, when each one was issued
          boot,                 \* bootstrap.json is on the guest's disk
          kept, current,        \* certificate generations on disk and the one selected
          marker,               \* certificate-activation.json
          served,               \* the generation sshd and the proxy have loaded
          job                   \* the guest tool under its lock: [do, pc, got]

guestVars == <<clock, certs, born, boot, kept, current, marker, served, job>>

NoGuest == [op |-> "none", idn |-> 0, signs |-> 0, renewals |-> [t \in 0 .. MaxClock |-> 0]]
Resting == [do |-> "none", pc |-> "idle", got |-> 0]

\* Groups for UNCHANGED.
Base == <<saved, file, gens, restores>>
Disk == <<boot, kept, current, marker, served>>

Goto(pc)     == job' = [job EXCEPT !.pc = pc]
Answer(n)    == job' = IF job.pc = "ask" THEN [job EXCEPT !.pc = "publish", !.got = n] ELSE job
Refuse       == job' = IF job.pc = "ask" THEN Resting ELSE job
Asked(do)    == job.pc = "ask" /\ job.do = do
SetIdent(id) == db' = IF Here THEN [db EXCEPT !.ident = id] ELSE db

-----------------------------------------------------------------------------
(* Control.                                                                  *)

\* prepareGuestBootstrap and the create that hands the bootstrap to the guest; it expires
\* thirty minutes after the operation was admitted.
CreateGuest ==
  /\ Checked /\ db.ident.op = "none" /\ ~boot /\ current = 0 /\ clock = 0
  /\ db' = [db EXCEPT !.ident.op = "enrollment"] /\ boot' = TRUE
  /\ UNCHANGED <<Base, proc, faults, clock, certs, born, kept, current, marker, served, job>>

BootstrapValid == clock = 0

\* enroll: an issued identity is returned again; otherwise the observed and probed guest
\* claims its keys.
Enroll ==
  /\ Asked("enroll") /\ Checked
  /\ IF ~BootstrapValid \/ (db.ident.idn = 0 /\ db.ident.op # "enrollment")
       THEN Refuse /\ UNCHANGED proc
       ELSE \/ db.ident.idn # 0 /\ Answer(db.ident.idn) /\ UNCHANGED proc
            \/ db.ident.idn = 0 /\ Busy(<<"claimed">>) /\ UNCHANGED job
  /\ UNCHANGED <<db, Base, faults, clock, certs, born, Disk>>

\* reserveSigning: the slot is spent before the signer is asked.
ReserveSigning ==
  /\ At(<<"claimed">>)
  /\ IF db.ident.signs < MaxSignings
       THEN /\ SetIdent([db.ident EXCEPT !.signs = @ + 1])
            /\ proc' = [proc EXCEPT !.task = <<"signed">>] /\ UNCHANGED job
       ELSE Idle /\ Refuse /\ UNCHANGED db
  /\ UNCHANGED <<Base, faults, clock, certs, born, Disk>>

Sign == certs < MaxCerts /\ certs' = certs + 1 /\ born' = [born EXCEPT ![certs + 1] = clock]

\* The identity, the consumed bootstrap and the operation's next phase commit together.
SaveIdentity ==
  /\ At(<<"signed">>) /\ Idle
  /\ IF BootstrapValid
       THEN /\ Sign /\ SetIdent([db.ident EXCEPT !.idn = certs + 1, !.op = "runtime"])
            /\ Answer(certs + 1)
       ELSE Refuse /\ UNCHANGED <<db, certs, born>>
  /\ UNCHANGED <<Base, faults, clock, Disk>>

\* Readiness is read from the running guest, through the certificate it serves.
CheckReadiness ==
  /\ Checked /\ db.ident.op = "runtime" /\ BootstrapValid /\ served # 0
  /\ db' = [db EXCEPT !.ident.op = "done"]
  /\ UNCHANGED <<Base, proc, faults, guestVars>>

\* To the inspection an unfinished create, or a server no row accounts for, is a blocker.
GuestBlocks ==
  \/ db.ident.op \in {"enrollment", "runtime"}
  \/ db.ident.op = "none" /\ (boot \/ current # 0)

RenewedThisHour ==
  db.ident.renewals[clock] + (IF clock = 0 THEN 0 ELSE db.ident.renewals[clock - 1])

\* renew: an identity younger than thirty minutes is returned as it is; otherwise a renewal
\* is recorded before anything is signed.
Renew ==
  /\ Asked("renew") /\ Checked
  /\ LET n == db.ident.idn IN
     IF n = 0 \/ (born[n] < clock /\ RenewedThisHour >= MaxRenewals)
       THEN Refuse /\ UNCHANGED <<db, proc>>
       ELSE \/ born[n] = clock /\ Answer(n) /\ UNCHANGED <<db, proc>>
            \/ /\ born[n] < clock
               /\ db' = [db EXCEPT !.ident.renewals[clock] = @ + 1]
               /\ Busy(<<"renewing">>) /\ UNCHANGED job
  /\ UNCHANGED <<Base, faults, clock, certs, born, Disk>>

SaveRenewal ==
  /\ At(<<"renewing">>) /\ Idle /\ Sign
  /\ SetIdent([db.ident EXCEPT !.idn = certs + 1]) /\ Answer(certs + 1)
  /\ UNCHANGED <<Base, faults, clock, Disk>>

-----------------------------------------------------------------------------
(* The guest tool: enrollment while bootstrap.json exists, renewal by timer. *)

GuestOnly == <<fenceVars, clock, certs, born>>

\* ensureIdentity adopts the keys already there; a guest with an identity activates it again.
StartEnrollment ==
  /\ job = Resting /\ boot
  /\ \/ current # 0 /\ job' = [do |-> "enroll", pc |-> "publish", got |-> current]
     \/ current = 0 /\ clock = 0 /\ job' = [do |-> "enroll", pc |-> "ask", got |-> 0]
  /\ UNCHANGED <<GuestOnly, Disk>>

StartRenewal ==
  /\ job = Resting /\ current # 0
  /\ job' = IF born[current] < clock
              THEN [do |-> "renew", pc |-> "ask", got |-> 0]
              ELSE [do |-> "renew", pc |-> "publish", got |-> current]
  /\ UNCHANGED <<GuestOnly, Disk>>

\* installIdentity: a different identity must be newer; the generation is complete on disk
\* before the pointer moves.
Publish ==
  /\ job.pc = "publish"
  /\ IF job.got < current THEN job' = Resting /\ UNCHANGED kept
                          ELSE kept' = kept \cup {job.got} /\ Goto("select")
  /\ UNCHANGED <<GuestOnly, boot, current, marker, served>>

\* Mutant: an unchanged identity counts as activated.
UnchangedIsActivated == job.got = current

Activated == job.got = current /\ marker = current

\* selectCertificates; a renewal that changed nothing and was activated is over.
Select ==
  /\ job.pc = "select" /\ current' = job.got
  /\ Goto(IF job.do = "renew" /\ Activated THEN "prune" ELSE "activate")
  /\ UNCHANGED <<GuestOnly, boot, kept, marker, served>>

\* activate restarts the services, reloadIdentity reloads them.
Activate ==
  /\ job.pc = "activate" /\ served' = current
  /\ Goto(IF job.do = "renew" THEN "mark" ELSE "prune")
  /\ UNCHANGED <<GuestOnly, boot, kept, current, marker>>

Mark ==
  /\ job.pc = "mark" /\ marker' = current /\ Goto("prune")
  /\ UNCHANGED <<GuestOnly, boot, kept, current, served>>

\* The current generation and its predecessor stay.
Prune ==
  /\ job.pc = "prune"
  /\ LET others == kept \ {current} IN
     kept' = {current} \cup (IF others = {} THEN {} ELSE {Max(others)})
  /\ IF job.do = "enroll" THEN Goto("erase") ELSE job' = Resting
  /\ UNCHANGED <<GuestOnly, boot, current, marker, served>>

\* bootstrap.json, the trigger of a retry, goes last.
EraseBootstrap ==
  /\ job.pc = "erase" /\ boot' = FALSE /\ job' = Resting
  /\ UNCHANGED <<GuestOnly, kept, current, marker, served>>

\* The tool dies or gives up waiting; a reboot also starts the services afresh.
GuestFault ==
  /\ job # Resting /\ faults < MaxFaults /\ faults' = faults + 1 /\ job' = Resting
  /\ served' \in {served, current}
  /\ UNCHANGED <<db, saved, file, gens, proc, restores, clock, certs, born, boot, kept, current,
                 marker>>

Tick ==
  /\ clock < MaxClock /\ clock' = clock + 1
  /\ UNCHANGED <<fenceVars, certs, born, Disk, job>>

EnrollmentStep == Enroll \/ ReserveSigning \/ SaveIdentity \/ CheckReadiness \/ Renew \/ SaveRenewal
GuestStep == StartEnrollment \/ StartRenewal \/ Publish \/ Select \/ Activate \/ Mark \/ Prune
             \/ EraseBootstrap
=============================================================================
