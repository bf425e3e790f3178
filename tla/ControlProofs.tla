---------------------------- MODULE ControlProofs ----------------------------
(***************************************************************************)
(* Proofs about the control plane across the loss of its database. Three   *)
(* inductive invariants: FenceInv, what the generation fence guarantees    *)
(* (a process with a session belongs to the open database, and a recovery  *)
(* meets no process at all), and on top of it RecordInv, the records       *)
(* against what exists, and AuthorityInv, the grants of the customer.      *)
(***************************************************************************)
EXTENDS ControlPlane, TLAPS

-----------------------------------------------------------------------------
(* The shape of the database and of the process.                             *)

Words == {"none", "active", "revoked"}
Authorities ==
  [anchor : 0 .. MaxGrants, grant : [Grants -> Words], parent : [Grants -> 0 .. MaxGrants],
   login : [1 .. MaxGrants -> 0 .. MaxGrants], sess : 0 .. MaxGrants, sched : 0 .. MaxGrants]
Kinds == {"none", "ready", "recovering"}

ShapeOf(d) ==
  /\ DOMAIN d = {"ctl", "ledger", "auth", "ident"}
  /\ d.ctl \in [kind : Kinds, gen : Nat]
  /\ d.ledger \in [Things -> Rows]
  /\ d.auth \in Authorities

ProcShape ==
  /\ DOMAIN proc = {"st", "lease", "task"}
  /\ proc.st \in {"down", "idle", "busy"}
  /\ proc.lease \in {"none", "held", "lost", "old"}

-----------------------------------------------------------------------------
(* The fence.                                                                *)

\* A generation is prepared for a target without one, and is newer than every database.
GenerationInv ==
  /\ file \in Nat /\ gens \in Nat
  /\ file # 0 => file = gens
  /\ db.ctl.gen <= gens /\ saved.ctl.gen <= gens

\* A process that holds a session, or lost it and has not heard, belongs to the open database;
\* one left over from the source finds it closed; a recovery finds none.
SessionInv ==
  /\ proc.st = "down" <=> proc.lease = "none"
  /\ proc.st = "idle" => proc.lease = "held"
  /\ proc.lease \in {"held", "lost"} => Open
  /\ proc.lease = "old" => ~Open /\ db.ctl # Unset
  /\ Recovering => proc.st = "down"

FenceInv == ShapeOf(db) /\ ShapeOf(saved) /\ ProcShape /\ GenerationInv /\ SessionInv

-----------------------------------------------------------------------------
(* The records of one thing.                                                 *)

InventoryShape ==
  /\ exists \in [Things -> BOOLEAN]
  /\ flight \in [Things -> {"none", "create", "delete"}]
  /\ submits \in [Things -> 0 .. 1]

Doing(t) == proc.st = "busy" /\ proc.task = t

\* What exists or is on its way was asked for, and asking comes after the task was taken.
AskedOnce(m) ==
  /\ exists[m] => submits[m] = 1
  /\ flight[m] = "create" => submits[m] = 1 /\ ~exists[m]
  /\ Doing(<<"create", m>>) => submits[m] = 0
  /\ Doing(<<"send_create", m>>) => submits[m] = 0

\* A request leaves with its attempt recorded, unless the process writes to another database.
AttemptRecorded(m) ==
  Here => /\ Doing(<<"send_create", m>>) => db.ledger[m] = "prepared"
          /\ Doing(<<"send_delete", m>>) => db.ledger[m] = "deleting"

\* In an open database every request under way is one of its own attempts.
Accounted(m) ==
  /\ db.ledger[m] = "queued" => submits[m] = 0
  /\ flight[m] = "create" => db.ledger[m] = "prepared"
  /\ flight[m] = "delete" => db.ledger[m] \in {"deleting", "gone"}
  /\ m \notin {"backup", "route"} /\ exists[m] => db.ledger[m] \in Unfinished \cup {"live"}
  /\ m # "route" /\ db.ledger[m] = "live" => exists[m]

\* A database that was never initialized: nothing was ever asked for.
Untouched(m) == db.ledger[m] = "none" /\ ~exists[m] /\ flight[m] = "none"

ThingInv(m) ==
  /\ AskedOnce(m) /\ AttemptRecorded(m)
  /\ Open => Accounted(m)
  /\ db.ctl = Unset => Untouched(m)

RecordInv == InventoryShape /\ \A m \in Things : ThingInv(m)

-----------------------------------------------------------------------------
(* The grants of the customer.                                               *)

\* Grants are at most two deep, only the admission anchor is active without a parent, and
\* what the counter has not given out is nowhere.
Rooted(a) ==
  /\ a.anchor # 0 => a.parent[a.anchor] = 0
  /\ \A g \in Grants : a.parent[g] # 0 => a.parent[a.parent[g]] = 0
  /\ \A g \in Grants : a.grant[g] = "active" /\ a.parent[g] = 0 => g = a.anchor

IssuedBy(a, n) ==
  /\ a.anchor <= n /\ a.sess <= n /\ a.sched <= n
  /\ \A g \in Grants : (g > n => a.grant[g] = "none") /\ a.parent[g] <= n
  /\ \A l \in 1 .. MaxGrants : a.login[l] <= n

CounterShape ==
  /\ issued \in 0 .. MaxGrants /\ logins \in 0 .. MaxGrants /\ cred \in 0 .. MaxGrants
  /\ base \in 0 .. issued
  /\ revoked \subseteq 1 .. issued

\* The anchor a login read was an anchor, even if it no longer is the current one.
LoginTask ==
  Here => \A l \in 1 .. MaxGrants, a \in Grants :
            Doing(<<"login", l, a>>) => db.auth.parent[a] = 0

\* No active grant was revoked anywhere or issued before the last recovery.
FresherThan(a, gone, old) ==
  /\ \A g \in Grants : a.grant[g] = "active" => g \notin gone /\ g > old
  /\ a.sess # 0 => Usable(a, a.sess)
  /\ a.sched # 0 => a.sched > old

Powerless(a) == (\A g \in Grants : a.grant[g] # "active") /\ a.sess = 0 /\ a.sched = 0

AuthorityInv ==
  /\ CounterShape
  /\ Rooted(db.auth) /\ Rooted(saved.auth)
  /\ IssuedBy(db.auth, issued) /\ IssuedBy(saved.auth, issued)
  /\ LoginTask
  /\ Open => FresherThan(db.auth, revoked, base)
  /\ Recovering \/ db.ctl = Unset => Powerless(db.auth)

-----------------------------------------------------------------------------
(* What a step does to the process.                                          *)

\* The process stays, ends, or goes on under the same session.
ProcStep ==
  /\ ProcShape'
  /\ \/ UNCHANGED proc
     \/ proc'.st = "down" /\ proc'.lease = "none"
     \/ /\ proc.st # "down" /\ proc'.lease = proc.lease
        /\ proc'.st \in {"idle", "busy"} /\ (proc'.st = "idle" => proc.lease = "held")

RecordTasks(m) == {<<"create", m>>, <<"send_create", m>>, <<"send_delete", m>>}

\* A task that is neither of the worker's nor a login.
OtherTask(t) ==
  /\ \A m \in Things : t \notin RecordTasks(m)
  /\ \A l \in 1 .. MaxGrants, a \in Grants : t # <<"login", l, a>>

\* The step leaves the database's own row and the fence alone.
FenceStep == /\ ShapeOf(db)' /\ db'.ctl = db.ctl /\ UNCHANGED <<saved, file, gens>> /\ ProcStep

LEMMA IdleIsProcStep ==
  ASSUME ProcShape, SessionInv, proc.st # "down", Idle
  PROVE  ProcStep /\ proc'.st # "busy"
  BY DEF ProcShape, SessionInv, Idle, ProcStep, Down

LEMMA BusyIsProcStep ==
  ASSUME NEW t, ProcShape, Checked, Busy(t)
  PROVE  /\ ProcStep /\ proc'.st = "busy" /\ proc'.task = t /\ proc'.lease = "held"
  BY DEF ProcShape, Checked, Busy, ProcStep

LEMMA TaskIsProcStep ==
  ASSUME NEW t, ProcShape, proc.st = "busy", proc' = [proc EXCEPT !.task = t]
  PROVE  /\ ProcStep /\ proc'.st = "busy" /\ proc'.task = t /\ proc'.lease = proc.lease
  BY DEF ProcShape, ProcStep

LEMMA SameProcIsProcStep ==
  ASSUME ProcShape, UNCHANGED proc
  PROVE  ProcStep
  BY DEF ProcShape, ProcStep

LEMMA DownIsProcStep ==
  ASSUME proc' = Down
  PROVE  ProcStep /\ proc'.st = "down" /\ proc'.lease = "none"
  BY DEF ProcShape, ProcStep, Down

\* Tasks of different kinds differ.
LEMMA TasksDiffer ==
  /\ OtherTask(<<"claimed">>) /\ OtherTask(<<"signed">>) /\ OtherTask(<<"renewing">>)
  /\ \A m \in Things : /\ OtherTask(<<"delete", m>>)
                       /\ <<"create", m>> # <<"send_create", m>>
                       /\ <<"create", m>> # <<"send_delete", m>>
                       /\ <<"send_create", m>> # <<"send_delete", m>>
  /\ \A l, a : \A m \in Things : <<"login", l, a>> \notin RecordTasks(m)
<1>1. OtherTask(<<"claimed">>) /\ OtherTask(<<"signed">>) /\ OtherTask(<<"renewing">>)
  BY DEF OtherTask, RecordTasks
<1>2. ASSUME NEW m \in Things
      PROVE  /\ OtherTask(<<"delete", m>>)
             /\ <<"create", m>> # <<"send_create", m>>
             /\ <<"create", m>> # <<"send_delete", m>>
             /\ <<"send_create", m>> # <<"send_delete", m>>
  BY DEF OtherTask, RecordTasks
<1>3. ASSUME NEW l, NEW a, NEW m \in Things
      PROVE  <<"login", l, a>> \notin RecordTasks(m)
  BY DEF RecordTasks
<1> QED
  BY <1>1, <1>2, <1>3

LEMMA FenceStepKeeps ==
  ASSUME FenceInv, FenceStep
  PROVE  FenceInv' /\ (Open' <=> Open) /\ (Recovering' <=> Recovering)
<1>1. ShapeOf(db)' /\ ShapeOf(saved)' /\ ProcShape' /\ GenerationInv'
  BY DEF FenceInv, FenceStep, ProcStep, GenerationInv, ShapeOf
<1>2. (Open' <=> Open) /\ (Recovering' <=> Recovering)
  BY DEF FenceStep, Open, Recovering, Matches
<1>3. SessionInv'
  BY <1>1, <1>2 DEF FenceInv, FenceStep, ProcStep, SessionInv, ProcShape
<1> QED
  BY <1>1, <1>2, <1>3 DEF FenceInv

-----------------------------------------------------------------------------
(* The fence's own steps and the decisions of recovery.                      *)

LEMMA PrepareFence ==
  ASSUME FenceInv, PrepareControlGeneration
  PROVE  FenceInv' /\ ~Open' /\ ~Recovering'
<1>1. /\ ShapeOf(db)' /\ ShapeOf(saved)' /\ ProcShape'
  BY DEF FenceInv, PrepareControlGeneration, ShapeOf, ProcShape
<1>2. GenerationInv' /\ ~Open' /\ ~Recovering'
  BY DEF FenceInv, PrepareControlGeneration, GenerationInv, Open, Recovering, Matches, ShapeOf
<1>3. SessionInv'
  BY <1>2 DEF FenceInv, PrepareControlGeneration, SessionInv, Open, Recovering, Matches, ProcShape
<1> QED
  BY <1>1, <1>2, <1>3 DEF FenceInv

LEMMA OpenFence ==
  ASSUME FenceInv, OpenControlFence
  PROVE  FenceInv' /\ proc'.st # "busy" /\ (Open' <=> Open) /\ (Recovering' <=> Recovering)
<1>1. /\ ShapeOf(db)' /\ ShapeOf(saved)' /\ ProcShape' /\ proc'.st = "idle" /\ proc'.lease = "held"
  BY DEF FenceInv, OpenControlFence, ShapeOf, ProcShape
<1>2. GenerationInv' /\ (Open' <=> Open) /\ (Recovering' <=> Recovering) /\ Open /\ ~Recovering
  BY DEF FenceInv, OpenControlFence, GenerationInv, Open, Recovering, Matches
<1>3. SessionInv'
  BY <1>1, <1>2 DEF SessionInv
<1> QED
  BY <1>1, <1>2, <1>3 DEF FenceInv

LEMMA EndFence ==
  ASSUME FenceInv, Stop \/ Crash \/ Exit
  PROVE  FenceStep /\ proc'.st # "busy"
<1>1. proc' = Down /\ UNCHANGED <<db, saved, file, gens>>
  BY DEF Stop, Crash, Exit
<1> QED
  BY <1>1, DownIsProcStep DEF FenceInv, FenceStep, ShapeOf

LEMMA LoseFence ==
  ASSUME FenceInv, LoseSession
  PROVE  /\ FenceInv' /\ (Open' <=> Open) /\ (Recovering' <=> Recovering)
         /\ proc'.st = "busy" => proc.st = "busy" /\ proc'.task = proc.task /\ Here
<1>1. /\ UNCHANGED <<db, saved, file, gens>> /\ proc.lease = "held"
      /\ \/ proc' = Down
         \/ proc.st = "busy" /\ proc' = [proc EXCEPT !.lease = "lost"]
  BY DEF LoseSession
<1>2. /\ ShapeOf(db)' /\ ShapeOf(saved)' /\ GenerationInv'
      /\ (Open' <=> Open) /\ (Recovering' <=> Recovering)
  BY <1>1 DEF FenceInv, GenerationInv, ShapeOf, Open, Recovering, Matches
<1>3. /\ ProcShape'
      /\ \/ proc'.st = "down" /\ proc'.lease = "none"
         \/ /\ proc.st = "busy" /\ proc'.st = "busy" /\ proc'.lease = "lost"
            /\ proc'.task = proc.task
  BY <1>1 DEF FenceInv, ProcShape, Down
<1>4. SessionInv'
  BY <1>1, <1>2, <1>3 DEF FenceInv, SessionInv, ProcShape
<1> QED
  BY <1>1, <1>2, <1>3, <1>4 DEF FenceInv, Here

LEMMA CheckpointFence ==
  ASSUME FenceInv, TakeCheckpoint
  PROVE  FenceInv' /\ (Open' <=> Open) /\ (Recovering' <=> Recovering)
<1>1. UNCHANGED <<db, file, gens, proc>> /\ saved' = db
  BY DEF TakeCheckpoint
<1>2. ShapeOf(db)' /\ ShapeOf(saved)' /\ ProcShape' /\ GenerationInv' /\ SessionInv'
  BY <1>1 DEF FenceInv, ShapeOf, ProcShape, GenerationInv, SessionInv, Open, Recovering, Matches
<1> QED
  BY <1>1, <1>2 DEF FenceInv, Open, Recovering, Matches

LEMMA RestoreFence ==
  ASSUME FenceInv, RestoreDatabase
  PROVE  /\ FenceInv' /\ ~Open' /\ ~Recovering' /\ db'.ctl # Unset
         /\ proc'.st = "busy" =>
              proc.st = "busy" /\ proc'.task = proc.task /\ proc'.lease = "old"
<1>1. /\ db' = saved /\ file' = 0 /\ UNCHANGED <<saved, gens>> /\ saved.ctl # Unset
      /\ \/ proc' = Down
         \/ proc.st = "busy" /\ proc' = [proc EXCEPT !.lease = "old"]
  BY DEF RestoreDatabase
<1>2. /\ ShapeOf(db)' /\ ShapeOf(saved)' /\ GenerationInv' /\ ~Open' /\ ~Recovering'
      /\ db'.ctl # Unset
  BY <1>1 DEF FenceInv, GenerationInv, ShapeOf, Open, Recovering, Matches
<1>3. /\ ProcShape'
      /\ \/ proc'.st = "down" /\ proc'.lease = "none"
         \/ /\ proc.st = "busy" /\ proc'.st = "busy" /\ proc'.lease = "old"
            /\ proc'.task = proc.task
  BY <1>1 DEF FenceInv, ProcShape, Down
<1>4. SessionInv'
  BY <1>2, <1>3 DEF SessionInv, Unset
<1> QED
  BY <1>2, <1>3, <1>4 DEF FenceInv

LEMMA InitializeFence ==
  ASSUME FenceInv, Initialize
  PROVE  /\ FenceInv' /\ Open' /\ proc.st = "down" /\ UNCHANGED <<saved, proc>>
         /\ db.ctl = Unset /\ db'.ledger = db.ledger /\ db'.auth = db.auth
         /\ db'.ctl # Unset /\ ~Recovering'
<1>1. /\ file # 0 /\ db.ctl = Unset /\ proc.lease # "held"
      /\ UNCHANGED <<saved, file, gens, proc>>
      /\ db' = [db EXCEPT !.ctl = [kind |-> "ready", gen |-> file]]
  BY DEF Initialize, Beside, Exclusive
<1>2. /\ DOMAIN db' = DOMAIN db /\ db'.ctl = [kind |-> "ready", gen |-> file]
      /\ db'.ledger = db.ledger /\ db'.auth = db.auth
  BY <1>1 DEF FenceInv, ShapeOf
<1>3. ShapeOf(db)' /\ ShapeOf(saved)' /\ ProcShape'
  BY <1>1, <1>2 DEF FenceInv, ShapeOf, ProcShape, GenerationInv, Kinds
<1>4. GenerationInv' /\ Open' /\ ~Recovering' /\ db'.ctl # Unset
  BY <1>1, <1>2 DEF FenceInv, GenerationInv, Open, Recovering, Matches, Unset
<1>5. proc.st = "down" /\ proc.lease = "none"
  BY <1>1 DEF FenceInv, SessionInv, ProcShape, Open, Matches, Unset
<1>6. SessionInv'
  BY <1>1, <1>4, <1>5 DEF SessionInv
<1> QED
  BY <1>1, <1>2, <1>3, <1>4, <1>5, <1>6 DEF FenceInv

LEMMA BeginFence ==
  ASSUME FenceInv, Begin
  PROVE  /\ FenceInv' /\ ~Open' /\ proc.st = "down" /\ UNCHANGED <<saved, proc>>
         /\ db'.ledger = db.ledger /\ db'.auth = RevokeEverything(db.auth)
         /\ db'.auth \in Authorities
<1>1. /\ file # 0 /\ proc.st = "down"
      /\ UNCHANGED <<saved, file, gens, proc>>
      /\ db' = [db EXCEPT !.ctl = [kind |-> "recovering", gen |-> file],
                          !.auth = RevokeEverything(@)]
  BY DEF Begin, Beside
<1>2. /\ DOMAIN db' = DOMAIN db /\ db'.ctl = [kind |-> "recovering", gen |-> file]
      /\ db'.ledger = db.ledger /\ db'.auth = RevokeEverything(db.auth)
  BY <1>1 DEF FenceInv, ShapeOf
<1>3. db'.auth \in Authorities
  <2>1. db.auth \in Authorities
    BY DEF FenceInv, ShapeOf
  <2>2. [g \in DOMAIN db.auth.grant |->
           IF db.auth.grant[g] = "active" THEN "revoked" ELSE db.auth.grant[g]]
          \in [Grants -> Words]
    BY <2>1 DEF Authorities, Words
  <2>3. 0 \in 0 .. MaxGrants
    BY CustomerLoginAssumption
  <2> QED
    BY <1>2, <2>1, <2>2, <2>3 DEF RevokeEverything, Authorities
<1>4. ShapeOf(db)' /\ ShapeOf(saved)' /\ ProcShape'
  BY <1>1, <1>2, <1>3 DEF FenceInv, ShapeOf, ProcShape, GenerationInv, Kinds
<1>5. GenerationInv' /\ ~Open'
  BY <1>1, <1>2 DEF FenceInv, GenerationInv, Open, Matches
<1>6. SessionInv'
  BY <1>1, <1>5 DEF FenceInv, SessionInv
<1> QED
  BY <1>1, <1>2, <1>3, <1>4, <1>5, <1>6 DEF FenceInv

LEMMA ResumeFence ==
  ASSUME FenceInv, Resume
  PROVE  /\ FenceInv' /\ Open' /\ Recovering /\ ~Recovering' /\ proc.st = "down"
         /\ UNCHANGED <<saved, proc>> /\ db'.ledger = db.ledger /\ db'.auth = db.auth
         /\ db'.ctl # Unset
<1>1. /\ Recovering /\ UNCHANGED <<saved, file, gens, proc>>
      /\ db' = [db EXCEPT !.ctl.kind = "ready"]
  BY DEF Resume, Beside
<1>2. /\ DOMAIN db' = DOMAIN db /\ db'.ctl = [db.ctl EXCEPT !.kind = "ready"]
      /\ db'.ledger = db.ledger /\ db'.auth = db.auth
  BY <1>1 DEF FenceInv, ShapeOf
<1>3. db'.ctl \in [kind : Kinds, gen : Nat] /\ db'.ctl.kind = "ready" /\ db'.ctl.gen = db.ctl.gen
  BY <1>2 DEF FenceInv, ShapeOf, Kinds
<1>4. ShapeOf(db)' /\ ShapeOf(saved)' /\ ProcShape'
  BY <1>1, <1>2, <1>3 DEF FenceInv, ShapeOf, ProcShape
<1>5. GenerationInv' /\ Open' /\ ~Recovering' /\ db'.ctl # Unset
  BY <1>1, <1>3 DEF FenceInv, GenerationInv, Open, Recovering, Matches, Unset
<1>6. proc.st = "down" /\ proc.lease = "none"
  BY <1>1 DEF FenceInv, SessionInv
<1>7. SessionInv'
  BY <1>1, <1>5, <1>6 DEF SessionInv
<1> QED
  BY <1>1, <1>2, <1>4, <1>5, <1>6, <1>7 DEF FenceInv

-----------------------------------------------------------------------------
(* The guest's steps change neither the records nor the grants.              *)

NoRecordTask ==
  UNCHANGED proc \/ proc'.st # "busy" \/ \A m \in Things : proc'.task \notin RecordTasks(m)

NoLoginTask ==
  \/ UNCHANGED proc \/ proc'.st # "busy"
  \/ \A l \in 1 .. MaxGrants, a \in Grants : proc'.task # <<"login", l, a>>

SameParts == ShapeOf(db)' /\ db'.ctl = db.ctl /\ db'.ledger = db.ledger /\ db'.auth = db.auth

GuestEffect == SameParts /\ FenceStep /\ NoRecordTask /\ NoLoginTask

LEMMA SameDatabase ==
  ASSUME ShapeOf(db), UNCHANGED db
  PROVE  SameParts
  BY DEF ShapeOf, SameParts

LEMMA IdentSet ==
  ASSUME ShapeOf(db), NEW id, SetIdent(id)
  PROVE  SameParts
  BY DEF ShapeOf, SameParts, SetIdent

LEMMA QuietProc ==
  ASSUME FenceInv, SameParts, UNCHANGED <<saved, file, gens, proc>>
  PROVE  GuestEffect
  BY SameProcIsProcStep DEF FenceInv, SameParts, GuestEffect, FenceStep, NoRecordTask, NoLoginTask

LEMMA RestingProc ==
  ASSUME FenceInv, SameParts, UNCHANGED <<saved, file, gens>>, proc.st # "down", Idle
  PROVE  GuestEffect
  BY IdleIsProcStep DEF FenceInv, SameParts, GuestEffect, FenceStep, NoRecordTask, NoLoginTask

LEMMA OtherProc ==
  ASSUME FenceInv, SameParts, UNCHANGED <<saved, file, gens>>, NEW t, OtherTask(t),
         Checked /\ Busy(t)
  PROVE  GuestEffect
  BY BusyIsProcStep
  DEF FenceInv, SameParts, GuestEffect, FenceStep, NoRecordTask, NoLoginTask, OtherTask

LEMMA GuestControl ==
  ASSUME FenceInv, CreateGuest \/ EnrollmentStep
  PROVE  GuestEffect
<1>0. ShapeOf(db) /\ ProcShape
  BY DEF FenceInv
<1>1. CASE CreateGuest
  <2>1. SameParts
    BY <1>0, <1>1 DEF CreateGuest, SameParts, ShapeOf
  <2> QED
    BY <1>1, <2>1, QuietProc DEF CreateGuest, Base
<1>2. CASE Enroll
  <2>1. SameParts /\ UNCHANGED <<saved, file, gens>>
    BY <1>0, <1>2, SameDatabase DEF Enroll, Base
  <2>2. CASE UNCHANGED proc
    BY <2>1, <2>2, QuietProc
  <2>3. CASE Checked /\ Busy(<<"claimed">>)
    BY <2>1, <2>3, OtherProc, TasksDiffer
  <2> QED
    BY <1>2, <2>2, <2>3 DEF Enroll
<1>3. CASE ReserveSigning
  <2>1. proc.st = "busy" /\ UNCHANGED <<saved, file, gens>>
    BY <1>3 DEF ReserveSigning, At, Base
  <2>2. CASE db.ident.signs < MaxSignings
    <3>1. SameParts
      BY <1>0, <1>3, <2>2, IdentSet DEF ReserveSigning
    <3>2. proc' = [proc EXCEPT !.task = <<"signed">>]
      BY <1>3, <2>2 DEF ReserveSigning
    <3>3. ProcStep /\ proc'.task = <<"signed">>
      BY <1>0, <2>1, <3>2, TaskIsProcStep
    <3> QED
      BY <2>1, <3>1, <3>3, TasksDiffer
      DEF GuestEffect, SameParts, FenceStep, NoRecordTask, NoLoginTask, OtherTask
  <2>3. CASE ~(db.ident.signs < MaxSignings)
    <3>1. SameParts /\ Idle
      BY <1>0, <1>3, <2>3, SameDatabase DEF ReserveSigning
    <3> QED
      BY <2>1, <3>1, RestingProc
  <2> QED
    BY <2>2, <2>3
<1>4. CASE SaveIdentity
  <2>1. proc.st = "busy" /\ Idle /\ UNCHANGED <<saved, file, gens>>
    BY <1>4 DEF SaveIdentity, At, Base
  <2>2. SameParts
    BY <1>0, <1>4, SameDatabase, IdentSet DEF SaveIdentity
  <2> QED
    BY <2>1, <2>2, RestingProc
<1>5. CASE CheckReadiness
  <2>1. SameParts
    BY <1>0, <1>5 DEF CheckReadiness, SameParts, ShapeOf
  <2> QED
    BY <1>5, <2>1, QuietProc DEF CheckReadiness, Base
<1>6. CASE Renew
  <2>0. UNCHANGED <<saved, file, gens>> /\ Checked
    BY <1>6 DEF Renew, Base
  <2>1. CASE UNCHANGED <<db, proc>>
    BY <1>0, <2>0, <2>1, SameDatabase, QuietProc
  <2>2. CASE /\ db' = [db EXCEPT !.ident.renewals[clock] = @ + 1]
             /\ Busy(<<"renewing">>)
    <3>1. SameParts
      BY <1>0, <2>2 DEF SameParts, ShapeOf
    <3> QED
      BY <2>0, <2>2, <3>1, OtherProc, TasksDiffer
  <2> QED
    BY <1>6, <2>1, <2>2 DEF Renew
<1>7. CASE SaveRenewal
  <2>1. proc.st = "busy" /\ Idle /\ UNCHANGED <<saved, file, gens>>
    BY <1>7 DEF SaveRenewal, At, Base
  <2>2. SameParts
    BY <1>0, <1>7, IdentSet DEF SaveRenewal
  <2> QED
    BY <2>1, <2>2, RestingProc
<1> QED
  BY <1>1, <1>2, <1>3, <1>4, <1>5, <1>6, <1>7 DEF EnrollmentStep

LEMMA GuestSteps ==
  ASSUME FenceInv, GuestNext
  PROVE  GuestEffect /\ UNCHANGED <<inventoryVars, loginVars>>
<1>0. UNCHANGED <<inventoryVars, loginVars>> /\ ShapeOf(db)
  BY DEF GuestNext, FenceInv
<1>1. CASE CreateGuest \/ EnrollmentStep
  BY <1>0, <1>1, GuestControl
<1>2. CASE GuestStep \/ GuestFault \/ Tick
  <2>1. UNCHANGED <<db, saved, file, gens, proc>>
    BY <1>2 DEF GuestStep, GuestFault, Tick, StartEnrollment, StartRenewal, Publish, Select,
                Activate, Mark, Prune, EraseBootstrap, GuestOnly, fenceVars
  <2> QED
    BY <1>0, <2>1, SameDatabase, QuietProc
<1> QED
  BY <1>1, <1>2 DEF GuestNext

-----------------------------------------------------------------------------
(* The records: a step on one thing leaves the others alone.                 *)

SameThing(n) ==
  /\ db'.ledger[n] = db.ledger[n] /\ exists'[n] = exists[n]
  /\ flight'[n] = flight[n] /\ submits'[n] = submits[n]

RecordStep(m) ==
  /\ FenceStep /\ db'.auth = db.auth /\ InventoryShape'
  /\ \A n \in Things \ {m} : SameThing(n)
  /\ UNCHANGED proc \/ proc'.st # "busy"
       \/ proc'.task \in RecordTasks(m) \cup {<<"delete", m>>}

LEMMA RecordTaskOf ==
  ASSUME NEW m \in Things, NEW n \in Things, n # m
  PROVE  \A t \in RecordTasks(m) \cup {<<"delete", m>>} :
           /\ t \notin RecordTasks(n)
           /\ \A l \in 1 .. MaxGrants, a \in Grants : t # <<"login", l, a>>
  BY DEF RecordTasks

LEMMA RecordTaskNoLogin ==
  ASSUME NEW m \in Things
  PROVE  \A t \in RecordTasks(m) \cup {<<"delete", m>>} :
           \A l \in 1 .. MaxGrants, a \in Grants : t # <<"login", l, a>>
  BY DEF RecordTasks

\* A thing whose records, requests and tasks a step leaves alone.
LEMMA ThingFrame ==
  ASSUME NEW m \in Things, ThingInv(m), SameThing(m),
         Open' => Open, db'.ctl = Unset => db.ctl = Unset,
         proc'.st = "busy" /\ proc'.task \in RecordTasks(m) =>
           proc.st = "busy" /\ proc'.task = proc.task /\ (Here' => Here)
  PROVE  ThingInv(m)'
<1>1. \A t \in RecordTasks(m) : Doing(t)' => Doing(t) /\ (Here' => Here)
  BY DEF Doing
<1>2. /\ Doing(<<"create", m>>)' => Doing(<<"create", m>>)
      /\ Doing(<<"send_create", m>>)' => Doing(<<"send_create", m>>) /\ (Here' => Here)
      /\ Doing(<<"send_delete", m>>)' => Doing(<<"send_delete", m>>) /\ (Here' => Here)
  BY <1>1 DEF RecordTasks
<1>3. AskedOnce(m)' /\ AttemptRecorded(m)'
  BY <1>2 DEF ThingInv, AskedOnce, AttemptRecorded, SameThing
<1>4. (Open => Accounted(m))' /\ (db.ctl = Unset => Untouched(m))'
  BY DEF ThingInv, Accounted, Untouched, SameThing
<1> QED
  BY <1>3, <1>4 DEF ThingInv

\* The row of one thing is written.
LEMMA RowSet ==
  ASSUME FenceInv, NEW m \in Things, NEW r \in Rows, SetRow(m, r)
  PROVE  /\ ShapeOf(db)' /\ db'.ctl = db.ctl /\ db'.auth = db.auth
         /\ db'.ledger[m] = r /\ \A n \in Things \ {m} : db'.ledger[n] = db.ledger[n]
<1>1. /\ DOMAIN db' = DOMAIN db /\ db'.ctl = db.ctl /\ db'.auth = db.auth
      /\ db'.ledger = [db.ledger EXCEPT ![m] = r]
  BY DEF FenceInv, ShapeOf, SetRow
<1>2. db.ledger \in [Things -> Rows]
  BY DEF FenceInv, ShapeOf
<1>3. /\ db'.ledger \in [Things -> Rows] /\ db'.ledger[m] = r
      /\ \A n \in Things \ {m} : db'.ledger[n] = db.ledger[n]
  BY <1>1, <1>2
<1> QED
  BY <1>1, <1>3 DEF FenceInv, ShapeOf

\* A step that writes one row, or none, with the process as it was.
LEMMA RowStep ==
  ASSUME FenceInv, InventoryShape, NEW m \in Things, NEW r \in Rows, SetRow(m, r),
         UNCHANGED <<inventoryVars, proc, Beside>>
  PROVE  RecordStep(m) /\ db'.ledger[m] = r
<1>1. UNCHANGED <<exists, flight, submits, proc, saved, file, gens>>
  BY DEF inventoryVars, Beside
<1>2. FenceStep
  BY <1>1, RowSet, SameProcIsProcStep DEF FenceInv, FenceStep
<1> QED
  BY <1>1, <1>2, RowSet DEF RecordStep, SameThing, InventoryShape

\* What a step on m must still show: its own records.
LEMMA OthersKept ==
  ASSUME FenceInv, RecordInv, NEW m \in Things, RecordStep(m), ThingInv(m)'
  PROVE  FenceInv' /\ RecordInv' /\ db'.auth = db.auth /\ FenceStep /\ NoLoginTask
<1>0. /\ FenceStep /\ InventoryShape' /\ db'.auth = db.auth
      /\ \A n \in Things \ {m} : SameThing(n)
      /\ UNCHANGED proc \/ proc'.st # "busy"
           \/ proc'.task \in RecordTasks(m) \cup {<<"delete", m>>}
  BY DEF RecordStep
<1>1. FenceInv' /\ (Open' <=> Open) /\ db'.ctl = db.ctl
  BY <1>0, FenceStepKeeps DEF FenceStep
<1>2. ASSUME NEW n \in Things, n # m
      PROVE  ThingInv(n)'
  <2>1. proc'.st = "busy" /\ proc'.task \in RecordTasks(n) =>
          proc.st = "busy" /\ proc'.task = proc.task /\ (Here' => Here)
    BY <1>0, <1>2, RecordTaskOf DEF Here
  <2>2. SameThing(n) /\ ThingInv(n)
    BY <1>0, <1>2 DEF RecordInv
  <2> QED
    BY <1>1, <2>1, <2>2, ThingFrame
<1>3. NoLoginTask
  BY <1>0, RecordTaskNoLogin DEF NoLoginTask
<1> QED
  BY <1>0, <1>1, <1>2, <1>3 DEF RecordInv

LEMMA OpenIsSet ==
  ASSUME Open
  PROVE  db.ctl # Unset
  BY DEF Open, Matches, Unset

\* With no task of the worker's, and the fence as it was, three parts are left to show.
LEMMA IdleThing ==
  ASSUME NEW m \in Things, proc'.st # "busy", Open, db'.ctl = db.ctl,
         /\ exists'[m] => submits'[m] = 1
         /\ flight'[m] = "create" => submits'[m] = 1 /\ ~exists'[m],
         Accounted(m)'
  PROVE  ThingInv(m)'
  BY OpenIsSet DEF ThingInv, AskedOnce, AttemptRecorded, Doing

LEMMA AdmitCreateRecord ==
  ASSUME FenceInv, InventoryShape, NEW m \in Things, ThingInv(m), AdmitCreate(m)
  PROVE  RecordStep(m) /\ ThingInv(m)'
<1>0. /\ proc.st = "idle" /\ Open /\ submits[m] = 0 /\ ~exists[m] /\ flight[m] = "none"
      /\ SetRow(m, "queued") /\ UNCHANGED <<inventoryVars, proc, Beside>>
  BY DEF AdmitCreate, Checked, Fresh
<1>1. RecordStep(m) /\ db'.ledger[m] = "queued"
  BY <1>0, RowStep DEF Rows
<1>2. Accounted(m)'
  BY <1>0, <1>1 DEF Accounted, inventoryVars, Unfinished
<1> QED
  BY <1>0, <1>1, <1>2, IdleThing DEF RecordStep, FenceStep, inventoryVars

LEMMA AdmitDestroyRecord ==
  ASSUME FenceInv, InventoryShape, NEW m \in Things, ThingInv(m), AdmitDestroy(m)
  PROVE  RecordStep(m) /\ ThingInv(m)'
<1>0. /\ proc.st = "idle" /\ Open /\ db.ledger[m] = "live"
      /\ SetRow(m, "destroying") /\ UNCHANGED <<inventoryVars, proc, Beside>>
  BY DEF AdmitDestroy, Checked
<1>1. RecordStep(m) /\ db'.ledger[m] = "destroying"
  BY <1>0, RowStep DEF Rows
<1>2. Accounted(m)'
  BY <1>0, <1>1 DEF ThingInv, Accounted, inventoryVars, Unfinished
<1> QED
  BY <1>0, <1>1, <1>2, IdleThing DEF ThingInv, AskedOnce, RecordStep, FenceStep, inventoryVars

LEMMA ConfirmRecord ==
  ASSUME FenceInv, InventoryShape, NEW m \in Things, ThingInv(m), Confirm(m)
  PROVE  RecordStep(m) /\ ThingInv(m)'
<1>0. /\ proc.st = "idle" /\ Open /\ UNCHANGED <<inventoryVars, proc, Beside>>
      /\ \/ db.ledger[m] = "prepared" /\ exists[m] /\ SetRow(m, "live")
         \/ db.ledger[m] = "deleting" /\ ~exists[m] /\ SetRow(m, "gone")
  BY DEF Confirm, Checked
<1>1. CASE db.ledger[m] = "prepared" /\ exists[m] /\ SetRow(m, "live")
  <2>1. RecordStep(m) /\ db'.ledger[m] = "live"
    BY <1>0, <1>1, RowStep DEF Rows
  <2>2. Accounted(m)'
    BY <1>0, <1>1, <2>1 DEF ThingInv, AskedOnce, Accounted, inventoryVars, Unfinished
  <2> QED
    BY <1>0, <2>1, <2>2, IdleThing DEF ThingInv, AskedOnce, RecordStep, FenceStep, inventoryVars
<1>2. CASE db.ledger[m] = "deleting" /\ ~exists[m] /\ SetRow(m, "gone")
  <2>1. RecordStep(m) /\ db'.ledger[m] = "gone"
    BY <1>0, <1>2, RowStep DEF Rows
  <2>2. Accounted(m)'
    BY <1>0, <1>2, <2>1 DEF ThingInv, AskedOnce, Accounted, inventoryVars, Unfinished
  <2> QED
    BY <1>0, <2>1, <2>2, IdleThing DEF ThingInv, AskedOnce, RecordStep, FenceStep, inventoryVars
<1> QED
  BY <1>0, <1>1, <1>2

LEMMA TakeTaskRecord ==
  ASSUME FenceInv, InventoryShape, NEW m \in Things, ThingInv(m), TakeTask(m)
  PROVE  RecordStep(m) /\ ThingInv(m)'
<1>0. /\ Checked /\ UNCHANGED <<inventoryVars, db, Beside>>
      /\ \/ db.ledger[m] = "queued" /\ Busy(<<"create", m>>)
         \/ Busy(<<"delete", m>>)
  BY DEF TakeTask
<1>1. /\ ProcStep /\ proc'.lease = "held"
      /\ \/ db.ledger[m] = "queued" /\ proc'.task = <<"create", m>>
         \/ proc'.task = <<"delete", m>>
  BY <1>0, BusyIsProcStep DEF FenceInv
<1>2. FenceStep /\ RecordStep(m) /\ SameThing(m)
  BY <1>0, <1>1 DEF FenceInv, ShapeOf, FenceStep, RecordStep, SameThing, InventoryShape,
                    inventoryVars, Beside, RecordTasks
<1>3. Open /\ (Open' <=> Open)
  BY <1>0, <1>2, FenceStepKeeps DEF Checked
<1>4. <<"delete", m>> \notin RecordTasks(m)
  BY TasksDiffer DEF OtherTask
<1>5. /\ ~Doing(<<"send_create", m>>)' /\ ~Doing(<<"send_delete", m>>)'
      /\ Doing(<<"create", m>>)' => db.ledger[m] = "queued"
  BY <1>1, <1>4, TasksDiffer DEF Doing, RecordTasks
<1> QED
  BY <1>2, <1>3, <1>5, OpenIsSet
  DEF ThingInv, AskedOnce, AttemptRecorded, Accounted, Untouched, SameThing, FenceStep

LEMMA PrepareAttemptRecord ==
  ASSUME FenceInv, InventoryShape, NEW m \in Things, ThingInv(m), PrepareAttempt(m)
  PROVE  RecordStep(m) /\ ThingInv(m)'
<1>0. UNCHANGED <<exists, flight, submits, saved, file, gens>> /\ proc.st = "busy"
  BY DEF PrepareAttempt, inventoryVars, Beside, At
<1>a. /\ ShapeOf(db) /\ ProcShape
      /\ Here => Open
      /\ ~Here => ~Open /\ db.ctl # Unset
  BY <1>0 DEF FenceInv, SessionInv, ProcShape, Here
<1>1. ASSUME NEW word, NEW from, NEW to \in Rows,
             proc' = [proc EXCEPT !.task = <<word, m>>],
             <<word, m>> \in RecordTasks(m),
             IF Here THEN db.ledger[m] = from /\ SetRow(m, to) ELSE UNCHANGED db
      PROVE  /\ RecordStep(m) /\ proc'.task = <<word, m>> /\ (Here' <=> Here)
             /\ Here => db.ledger[m] = from /\ db'.ledger[m] = to
             /\ ~Here => db'.ledger[m] = db.ledger[m]
             /\ db'.ctl = db.ctl
  <2>1. ProcStep /\ proc'.st = "busy" /\ proc'.task = <<word, m>> /\ proc'.lease = proc.lease
    BY <1>0, <1>a, <1>1, TaskIsProcStep
  <2>2. CASE Here
    BY <1>0, <1>1, <2>1, <2>2, RowSet
    DEF RecordStep, FenceStep, SameThing, InventoryShape, Here
  <2>3. CASE ~Here
    BY <1>0, <1>a, <1>1, <2>1, <2>3
    DEF RecordStep, FenceStep, SameThing, InventoryShape, Here, ShapeOf
  <2> QED
    BY <2>2, <2>3
<1>2. CASE /\ At(<<"create", m>>) /\ proc' = [proc EXCEPT !.task = <<"send_create", m>>]
           /\ IF Here THEN db.ledger[m] = "queued" /\ SetRow(m, "prepared") ELSE UNCHANGED db
  <2>1. "prepared" \in Rows /\ <<"send_create", m>> \in RecordTasks(m)
    BY DEF Rows, RecordTasks
  <2>2. /\ RecordStep(m) /\ proc'.task = <<"send_create", m>> /\ (Here' <=> Here)
        /\ Here => db.ledger[m] = "queued" /\ db'.ledger[m] = "prepared"
        /\ ~Here => db'.ledger[m] = db.ledger[m]
        /\ db'.ctl = db.ctl
    BY <1>1, <1>2, <2>1
  <2>3. Open' <=> Open
    BY <2>2, FenceStepKeeps DEF RecordStep
  <2>4. submits[m] = 0 /\ ~exists[m] /\ flight[m] # "create"
    BY <1>2 DEF ThingInv, AskedOnce, Doing, At
  <2>5. ~Doing(<<"create", m>>)' /\ ~Doing(<<"send_delete", m>>)'
    BY <2>2, TasksDiffer DEF Doing
  <2>6. AskedOnce(m)' /\ AttemptRecorded(m)'
    BY <1>0, <2>2, <2>4, <2>5 DEF AskedOnce, AttemptRecorded
  <2>7. (Open => Accounted(m))'
    BY <1>0, <1>a, <2>2, <2>3, <2>4 DEF ThingInv, Accounted
  <2>8. db'.ctl # Unset
    BY <1>a, <2>2, OpenIsSet
  <2> QED
    BY <2>2, <2>6, <2>7, <2>8 DEF ThingInv
<1>3. CASE /\ At(<<"delete", m>>) /\ proc' = [proc EXCEPT !.task = <<"send_delete", m>>]
           /\ IF Here THEN db.ledger[m] = "destroying" /\ SetRow(m, "deleting") ELSE UNCHANGED db
  <2>1. "deleting" \in Rows /\ <<"send_delete", m>> \in RecordTasks(m)
    BY DEF Rows, RecordTasks
  <2>2. /\ RecordStep(m) /\ proc'.task = <<"send_delete", m>> /\ (Here' <=> Here)
        /\ Here => db.ledger[m] = "destroying" /\ db'.ledger[m] = "deleting"
        /\ ~Here => db'.ledger[m] = db.ledger[m]
        /\ db'.ctl = db.ctl
    BY <1>1, <1>3, <2>1
  <2>3. Open' <=> Open
    BY <2>2, FenceStepKeeps DEF RecordStep
  <2>5. ~Doing(<<"create", m>>)' /\ ~Doing(<<"send_create", m>>)'
    BY <2>2, TasksDiffer DEF Doing
  <2>6. AskedOnce(m)' /\ AttemptRecorded(m)'
    BY <1>0, <2>2, <2>5 DEF ThingInv, AskedOnce, AttemptRecorded
  <2>7. (Open => Accounted(m))'
    BY <1>0, <1>a, <2>2, <2>3 DEF ThingInv, Accounted, Unfinished
  <2>8. db'.ctl # Unset
    BY <1>a, <2>2, OpenIsSet
  <2> QED
    BY <2>2, <2>6, <2>7, <2>8 DEF ThingInv
<1> QED
  BY <1>2, <1>3 DEF PrepareAttempt

LEMMA SubmitRecord ==
  ASSUME FenceInv, InventoryShape, NEW m \in Things, ThingInv(m), Submit(m)
  PROVE  RecordStep(m) /\ ThingInv(m)'
<1>0. /\ UNCHANGED <<exists, db, saved, file, gens>> /\ proc.st = "busy" /\ Idle
      /\ ShapeOf(db) /\ ProcShape /\ SessionInv
  BY DEF Submit, Beside, At, FenceInv
<1>1. ProcStep /\ proc'.st # "busy"
  BY <1>0, IdleIsProcStep
<1>2. FenceStep
  BY <1>0, <1>1 DEF FenceStep, ShapeOf
<1>3. (Open' <=> Open) /\ (Open => Here) /\ db.ctl # Unset
  BY <1>0, <1>2, FenceStepKeeps, OpenIsSet DEF SessionInv, ProcShape, Here
<1>4. ~Doing(<<"create", m>>)' /\ ~Doing(<<"send_create", m>>)' /\ ~Doing(<<"send_delete", m>>)'
  BY <1>1 DEF Doing
<1>5. CASE /\ At(<<"send_create", m>>) /\ flight' = [flight EXCEPT ![m] = "create"]
           /\ submits' = [submits EXCEPT ![m] = @ + 1]
  <2>1. submits[m] = 0 /\ ~exists[m] /\ (Here => db.ledger[m] = "prepared")
    BY <1>5 DEF ThingInv, AskedOnce, AttemptRecorded, Doing, At
  <2>2. submits' = [submits EXCEPT ![m] = 1]
    BY <1>5, <2>1 DEF InventoryShape
  <2>3. /\ InventoryShape' /\ submits'[m] = 1 /\ flight'[m] = "create"
        /\ \A n \in Things \ {m} : SameThing(n)
    BY <1>0, <1>5, <2>2 DEF InventoryShape, SameThing
  <2>4. RecordStep(m)
    BY <1>0, <1>1, <1>2, <2>3 DEF RecordStep
  <2>5. AskedOnce(m)' /\ AttemptRecorded(m)'
    BY <1>0, <1>4, <2>1, <2>3 DEF AskedOnce, AttemptRecorded
  <2>6. Open => Accounted(m)'
    BY <1>0, <1>3, <2>1, <2>3 DEF Accounted, Unfinished
  <2> QED
    BY <1>0, <1>3, <2>4, <2>5, <2>6 DEF ThingInv
<1>6. CASE /\ At(<<"send_delete", m>>) /\ flight' = [flight EXCEPT ![m] = "delete"]
           /\ UNCHANGED submits
  <2>1. Here => db.ledger[m] = "deleting"
    BY <1>6 DEF ThingInv, AttemptRecorded, Doing, At
  <2>3. /\ InventoryShape' /\ submits'[m] = submits[m] /\ flight'[m] = "delete"
        /\ \A n \in Things \ {m} : SameThing(n)
    BY <1>0, <1>6 DEF InventoryShape, SameThing
  <2>4. RecordStep(m)
    BY <1>0, <1>1, <1>2, <2>3 DEF RecordStep
  <2>5. AskedOnce(m)' /\ AttemptRecorded(m)'
    BY <1>0, <1>4, <2>3 DEF ThingInv, AskedOnce, AttemptRecorded
  <2>6. Open => Accounted(m)'
    BY <1>0, <1>3, <2>1, <2>3 DEF Accounted, Unfinished
  <2> QED
    BY <1>0, <1>3, <2>4, <2>5, <2>6 DEF ThingInv
<1> QED
  BY <1>5, <1>6 DEF Submit

\* The provider's and the operator's own steps, which touch no database and no process.
LEMMA OutsideStep ==
  ASSUME FenceInv, InventoryShape', NEW m \in Things, UNCHANGED fenceVars,
         \A n \in Things \ {m} : exists'[n] = exists[n] /\ flight'[n] = flight[n],
         UNCHANGED submits
  PROVE  /\ RecordStep(m) /\ (Open' <=> Open)
         /\ \A t : Doing(t)' <=> Doing(t)
<1>1. UNCHANGED <<db, saved, file, gens, proc>>
  BY DEF fenceVars
<1>2. FenceStep
  BY <1>1, SameProcIsProcStep DEF FenceInv, FenceStep, ShapeOf
<1> QED
  BY <1>1, <1>2, FenceStepKeeps DEF RecordStep, SameThing, Doing

LEMMA LandRecord ==
  ASSUME FenceInv, InventoryShape, NEW m \in Things, ThingInv(m), Land(m)
  PROVE  RecordStep(m) /\ ThingInv(m)'
<1>0. /\ UNCHANGED <<submits, fenceVars>> /\ UNCHANGED db /\ flight[m] # "none"
      /\ flight' = [flight EXCEPT ![m] = "none"]
      /\ (exists' = [exists EXCEPT ![m] = flight[m] = "create"]) \/ UNCHANGED exists
  BY DEF Land, fenceVars
<1>1. /\ InventoryShape' /\ flight'[m] = "none"
      /\ (exists'[m] <=> flight[m] = "create") \/ (exists'[m] <=> exists[m])
      /\ \A n \in Things \ {m} : exists'[n] = exists[n] /\ flight'[n] = flight[n]
  BY <1>0 DEF InventoryShape
<1>2. /\ RecordStep(m) /\ (Open' <=> Open) /\ \A t : Doing(t)' <=> Doing(t)
  BY <1>0, <1>1, OutsideStep
<1>3. AskedOnce(m)'
  BY <1>0, <1>1, <1>2 DEF ThingInv, AskedOnce
<1>4. AttemptRecorded(m)'
  BY <1>0, <1>2 DEF ThingInv, AttemptRecorded, Here, fenceVars
<1>5. (Open => Accounted(m))'
  <2>1. flight[m] \in {"create", "delete"}
    BY <1>0 DEF InventoryShape
  <2> QED
    BY <1>0, <1>1, <1>2, <2>1 DEF ThingInv, Accounted, Unfinished
<1>6. (db.ctl = Unset => Untouched(m))'
  BY <1>0 DEF ThingInv, Untouched
<1> QED
  BY <1>2, <1>3, <1>4, <1>5, <1>6 DEF ThingInv

LEMMA RemoveResourceRecord ==
  ASSUME FenceInv, InventoryShape, NEW m \in Things, ThingInv(m), RemoveResource(m)
  PROVE  RecordStep(m) /\ ThingInv(m)'
<1>0. /\ UNCHANGED <<flight, submits, fenceVars>> /\ UNCHANGED db /\ ~Open
      /\ exists' = [exists EXCEPT ![m] = FALSE]
  BY DEF RemoveResource, fenceVars
<1>1. /\ InventoryShape' /\ ~exists'[m]
      /\ \A n \in Things \ {m} : exists'[n] = exists[n] /\ flight'[n] = flight[n]
  BY <1>0 DEF InventoryShape
<1>2. /\ RecordStep(m) /\ (Open' <=> Open) /\ \A t : Doing(t)' <=> Doing(t)
  BY <1>0, <1>1, OutsideStep
<1>3. AskedOnce(m)'
  BY <1>0, <1>1, <1>2 DEF ThingInv, AskedOnce
<1>4. AttemptRecorded(m)'
  BY <1>0, <1>2 DEF ThingInv, AttemptRecorded, Here, fenceVars
<1>6. (db.ctl = Unset => Untouched(m))'
  BY <1>0, <1>1 DEF ThingInv, Untouched
<1> QED
  BY <1>0, <1>2, <1>3, <1>4, <1>6 DEF ThingInv

LEMMA CloseOperationRecord ==
  ASSUME FenceInv, InventoryShape, NEW m \in Things, ThingInv(m), CloseOperation(m)
  PROVE  RecordStep(m) /\ ThingInv(m)'
<1>0. /\ Recovering /\ ~exists[m] /\ flight[m] = "none"
      /\ SetRow(m, "closed") /\ UNCHANGED <<inventoryVars, proc, Beside>>
  BY DEF CloseOperation
<1>1. RecordStep(m)
  BY <1>0, RowStep DEF Rows
<1>2. proc.st = "down" /\ ~Open /\ db.ctl # Unset /\ (Open' <=> Open) /\ db'.ctl = db.ctl
  BY <1>0, <1>1, FenceStepKeeps
  DEF FenceInv, SessionInv, Recovering, Open, Matches, Unset, RecordStep, FenceStep
<1> QED
  BY <1>0, <1>1, <1>2
  DEF ThingInv, AskedOnce, AttemptRecorded, Doing, inventoryVars

LEMMA RecordSteps ==
  ASSUME FenceInv, RecordInv, RecordNext
  PROVE  /\ FenceInv' /\ RecordInv' /\ db'.auth = db.auth /\ FenceStep /\ NoLoginTask
         /\ UNCHANGED parts
<1>1. PICK m \in Things :
        \/ AdmitCreate(m) \/ AdmitDestroy(m) \/ TakeTask(m) \/ PrepareAttempt(m) \/ Submit(m)
        \/ Confirm(m) \/ Land(m) \/ RemoveResource(m) \/ CloseOperation(m)
  BY DEF RecordNext, Followed, Things
<1>2. ThingInv(m) /\ InventoryShape
  BY DEF RecordInv
<1>3. RecordStep(m) /\ ThingInv(m)'
  BY <1>1, <1>2, AdmitCreateRecord, AdmitDestroyRecord, TakeTaskRecord, PrepareAttemptRecord,
     SubmitRecord, ConfirmRecord, LandRecord, RemoveResourceRecord, CloseOperationRecord
<1> QED
  BY <1>3, OthersKept DEF RecordNext

\* Steps of the other parts, and the fence's.
LEMMA RecordFrame ==
  ASSUME RecordInv, UNCHANGED inventoryVars, db'.ledger = db.ledger,
         Open' => Open, db'.ctl = Unset => db.ctl = Unset,
         \/ NoRecordTask
         \/ proc'.st = "busy" => proc.st = "busy" /\ proc'.task = proc.task /\ Here
  PROVE  RecordInv'
<1>1. InventoryShape'
  BY DEF RecordInv, InventoryShape, inventoryVars
<1>2. ASSUME NEW m \in Things
      PROVE  ThingInv(m)'
  <2>1. ThingInv(m) /\ SameThing(m)
    BY DEF RecordInv, SameThing, inventoryVars
  <2>2. proc'.st = "busy" /\ proc'.task \in RecordTasks(m) =>
          proc.st = "busy" /\ proc'.task = proc.task /\ (Here' => Here)
    BY DEF NoRecordTask, Here
  <2> QED
    BY <2>1, <2>2, ThingFrame
<1> QED
  BY <1>1, <1>2 DEF RecordInv

LEMMA RestoreRecords ==
  ASSUME FenceInv, RecordInv, RestoreDatabase, UNCHANGED inventoryVars
  PROVE  RecordInv'
<1>1. InventoryShape'
  BY DEF RecordInv, InventoryShape, inventoryVars
<1>2. /\ ~Open' /\ db'.ctl # Unset
      /\ proc'.st = "busy" => proc.st = "busy" /\ proc'.task = proc.task /\ proc'.lease = "old"
  BY RestoreFence
<1>3. ASSUME NEW m \in Things
      PROVE  ThingInv(m)'
  <2>1. AskedOnce(m)
    BY DEF RecordInv, ThingInv
  <2>2. AskedOnce(m)' /\ AttemptRecorded(m)'
    BY <1>2, <2>1 DEF AskedOnce, AttemptRecorded, Doing, Here, inventoryVars
  <2> QED
    BY <1>2, <2>2 DEF ThingInv
<1> QED
  BY <1>1, <1>3 DEF RecordInv

LEMMA InitializeRecords ==
  ASSUME FenceInv, RecordInv, Initialize, UNCHANGED inventoryVars
  PROVE  RecordInv'
<1>1. InventoryShape'
  BY DEF RecordInv, InventoryShape, inventoryVars
<1>2. /\ proc.st = "down" /\ UNCHANGED proc /\ db.ctl = Unset /\ db'.ledger = db.ledger
      /\ db'.ctl # Unset
  BY InitializeFence
<1>3. ASSUME NEW m \in Things
      PROVE  ThingInv(m)'
  <2>1. Untouched(m)
    BY <1>2 DEF RecordInv, ThingInv
  <2> QED
    BY <1>2, <2>1
    DEF ThingInv, AskedOnce, AttemptRecorded, Accounted, Untouched, Doing, inventoryVars
<1> QED
  BY <1>1, <1>3 DEF RecordInv

\* Nothing the inspection looks at is unaccounted for once it finds no blocker.
LEMMA ResumeRecords ==
  ASSUME FenceInv, RecordInv, Resume, UNCHANGED inventoryVars
  PROVE  RecordInv'
<1>1. InventoryShape'
  BY DEF RecordInv, InventoryShape, inventoryVars
<1>2. /\ proc.st = "down" /\ UNCHANGED proc /\ db'.ledger = db.ledger /\ db'.ctl # Unset
  BY ResumeFence
<1>3. ~Blocked /\ \A m \in Things : flight[m] = "none"
  BY DEF Resume
<1>4. ASSUME NEW m \in Things
      PROVE  ThingInv(m)'
  <2>1. AskedOnce(m) /\ db.ledger[m] \in Rows
    BY DEF RecordInv, ThingInv, FenceInv, ShapeOf
  <2>2. m \in Machines \/ m \in {"image", "backup", "route"}
    BY DEF Things
  <2>3. Settled(m)
    BY <1>3, <2>2 DEF Blocked, OperationBlocks, RouteBlocks, BackupBlocks, BuildBlocks
  <2>4. m # "route" /\ Live(m) => exists[m]
    BY <1>3, <2>2 DEF Blocked, AllocationBlocks, BackupBlocks, BuildBlocks, ObjectVerified,
                      SnapshotVerified
  <2>5. m \notin {"backup", "route"} /\ exists[m] => db.ledger[m] \notin Tombstoned \cup {"none"}
    BY <1>3, <2>2 DEF Blocked, ResourceBlocks, UnknownBlocks, ImageBlocks
  <2>6. Accounted(m)'
    BY <1>2, <1>3, <2>1, <2>3, <2>4, <2>5
    DEF Accounted, Settled, Live, Tombstoned, Unfinished, Rows, inventoryVars
  <2> QED
    BY <1>2, <2>1, <2>6 DEF ThingInv, AskedOnce, AttemptRecorded, Doing, inventoryVars
<1> QED
  BY <1>1, <1>4 DEF RecordInv

-----------------------------------------------------------------------------
(* What the operations on grants do, field by field.                         *)

LEMMA GrantAdded ==
  ASSUME NEW a \in Authorities, NEW p \in 0 .. MaxGrants, NEW n \in Grants, n = issued + 1,
         NEW b, b = AddGrant(a, p)
  PROVE  /\ b \in Authorities
         /\ b.grant[n] = "active" /\ b.parent[n] = p
         /\ \A g \in Grants : g # n => b.grant[g] = a.grant[g] /\ b.parent[g] = a.parent[g]
         /\ b.anchor = a.anchor /\ b.login = a.login /\ b.sess = a.sess /\ b.sched = a.sched
<1>1. b = [a EXCEPT !.grant[n] = "active", !.parent[n] = p]
  BY DEF AddGrant
<1>2. /\ b.grant = [a.grant EXCEPT ![n] = "active"] /\ b.parent = [a.parent EXCEPT ![n] = p]
      /\ b.anchor = a.anchor /\ b.login = a.login /\ b.sess = a.sess /\ b.sched = a.sched
  BY <1>1 DEF Authorities
<1>3. a.grant \in [Grants -> Words] /\ a.parent \in [Grants -> 0 .. MaxGrants] /\ "active" \in Words
  BY DEF Authorities, Words
<1>4. b.grant \in [Grants -> Words] /\ b.parent \in [Grants -> 0 .. MaxGrants]
  BY <1>2, <1>3
<1>5. b \in Authorities
  BY <1>1, <1>2, <1>4 DEF Authorities
<1>6. /\ b.grant[n] = "active" /\ b.parent[n] = p
      /\ \A g \in Grants : g # n => b.grant[g] = a.grant[g] /\ b.parent[g] = a.parent[g]
  BY <1>2, <1>3
<1> QED
  BY <1>2, <1>5, <1>6

LEMMA GrantRevoked ==
  ASSUME NEW a \in Authorities, NEW g \in Grants, NEW b, b = RevokeGrant(a, g)
  PROVE  /\ b \in Authorities
         /\ b.grant[g] = "revoked"
         /\ \A h \in Grants : h # g => b.grant[h] = a.grant[h]
         /\ b.parent = a.parent /\ b.anchor = a.anchor /\ b.login = a.login /\ b.sched = a.sched
         /\ b.sess # 0 => b.sess = a.sess /\ a.sess # g /\ a.parent[a.sess] # g
         /\ b.sess \in {0, a.sess}
<1>1. /\ b.grant = [a.grant EXCEPT ![g] = "revoked"]
      /\ b.sess = IF a.sess \in Subtree(a, g) THEN 0 ELSE a.sess
      /\ b.parent = a.parent /\ b.anchor = a.anchor /\ b.login = a.login /\ b.sched = a.sched
  BY DEF RevokeGrant, Authorities
<1>2. a.grant \in [Grants -> Words] /\ "revoked" \in Words /\ a.sess \in 0 .. MaxGrants
  BY DEF Authorities, Words
<1>3. b.grant \in [Grants -> Words] /\ b.sess \in 0 .. MaxGrants
  BY <1>1, <1>2, CustomerLoginAssumption
<1>4. b \in Authorities
  BY <1>1, <1>3 DEF RevokeGrant, Authorities
<1>5. b.grant[g] = "revoked" /\ \A h \in Grants : h # g => b.grant[h] = a.grant[h]
  BY <1>1, <1>2
<1>6. b.sess # 0 => b.sess = a.sess /\ a.sess # g /\ a.parent[a.sess] # g
  BY <1>1, <1>2 DEF Subtree, Grants
<1> QED
  BY <1>1, <1>4, <1>5, <1>6

\* A revocation leaves no authority of the grant or of what hangs below it.
LEMMA RevokeKeeps ==
  ASSUME NEW a \in Authorities, NEW g \in Grants, NEW b, b = RevokeGrant(a, g),
         NEW n \in Nat, g <= n, NEW gone, NEW old \in Nat,
         Rooted(a), IssuedBy(a, n), FresherThan(a, gone, old)
  PROVE  /\ b \in Authorities /\ Rooted(b) /\ IssuedBy(b, n)
         /\ FresherThan(b, gone \cup {g}, old)
         /\ b.parent = a.parent
<1>0. /\ b \in Authorities
      /\ b.grant[g] = "revoked"
      /\ \A h \in Grants : h # g => b.grant[h] = a.grant[h]
      /\ b.parent = a.parent /\ b.anchor = a.anchor /\ b.login = a.login /\ b.sched = a.sched
      /\ b.sess # 0 => b.sess = a.sess /\ a.sess # g /\ a.parent[a.sess] # g
      /\ b.sess \in {0, a.sess}
  BY GrantRevoked
<1>1. \A h \in Grants : b.grant[h] = "active" => h # g /\ a.grant[h] = "active"
  BY <1>0
<1>2. Rooted(b)
  BY <1>0, <1>1 DEF Rooted
<1>3. \A h \in Grants : h > n => b.grant[h] = "none"
  BY <1>0 DEF IssuedBy, Grants
<1>4. IssuedBy(b, n)
  BY <1>0, <1>3 DEF IssuedBy
<1>5. b.sess # 0 => Usable(b, b.sess)
  <2>1. HAVE b.sess # 0
  <2>2. a.sess \in Grants /\ a.parent[a.sess] \in 0 .. MaxGrants
    <3>1. a.sess \in 0 .. MaxGrants /\ a.parent \in [Grants -> 0 .. MaxGrants] /\ a.sess # 0
      BY <1>0, <2>1 DEF Authorities
    <3>2. a.sess \in Grants
      BY <3>1, CustomerLoginAssumption DEF Grants
    <3> QED
      BY <3>1, <3>2
  <2>3. Usable(a, a.sess)
    BY <1>0, <2>1 DEF FresherThan
  <2> QED
    BY <1>0, <2>1, <2>2, <2>3 DEF Usable, Grants
<1>6. FresherThan(b, gone \cup {g}, old)
  BY <1>0, <1>1, <1>5 DEF FresherThan
<1> QED
  BY <1>0, <1>2, <1>4, <1>6

\* The grant's fields, for the provers.
LEMMA AuthorityFields ==
  ASSUME NEW a \in Authorities
  PROVE  /\ a.anchor \in 0 .. MaxGrants /\ a.sess \in 0 .. MaxGrants /\ a.sched \in 0 .. MaxGrants
         /\ \A g \in Grants : a.grant[g] \in Words /\ a.parent[g] \in 0 .. MaxGrants
         /\ \A l \in 1 .. MaxGrants : a.login[l] \in 0 .. MaxGrants
  BY DEF Authorities

LEMMA GrantOrNone ==
  ASSUME NEW g \in 0 .. MaxGrants, g # 0
  PROVE  g \in Grants
  BY CustomerLoginAssumption DEF Grants

LEMMA UsableIsIssued ==
  ASSUME NEW a \in Authorities, NEW g \in 0 .. MaxGrants, NEW n \in Nat, IssuedBy(a, n),
         Usable(a, g)
  PROVE  g \in Grants /\ a.grant[g] = "active" /\ g <= n
<1>1. g \in Grants /\ a.grant[g] = "active"
  BY GrantOrNone DEF Usable
<1> QED
  BY <1>1 DEF IssuedBy, Grants

\* b is a with the grant n below p, the new admission when p is none.
Added(a, b, p, n) ==
  /\ b.grant[n] = "active" /\ b.parent[n] = p
  /\ \A g \in Grants : g # n => b.grant[g] = a.grant[g] /\ b.parent[g] = a.parent[g]
  /\ b.anchor \in {n, a.anchor} /\ b.sess = a.sess /\ b.sched = a.sched
  /\ \A l \in 1 .. MaxGrants : b.login[l] \in {n, a.login[l]}

Sound(a, n, gone, old) == Rooted(a) /\ IssuedBy(a, n) /\ FresherThan(a, gone, old)

\* No admission is active.
Topless(a) == \A g \in Grants : a.parent[g] = 0 => a.grant[g] # "active"

\* A new grant keeps the old ones as they are.
LEMMA AddKeeps ==
  ASSUME NEW a \in Authorities, NEW b \in Authorities, NEW p \in 0 .. MaxGrants, NEW n \in Grants,
         issued \in Nat, n = issued + 1, p <= issued, Added(a, b, p, n),
         NEW gone, gone \subseteq 1 .. issued, NEW old \in 0 .. issued,
         Sound(a, issued, gone, old),
         p # 0 => p = a.anchor /\ b.anchor = a.anchor,
         p = 0 => b.anchor = n /\ Topless(a)
  PROVE  Sound(b, n, gone, old)
<1> USE DEF Added, Topless
<1>a. Rooted(a) /\ IssuedBy(a, issued) /\ FresherThan(a, gone, old)
  BY DEF Sound
<1>0. n \in Nat /\ n > issued /\ n # 0 /\ n # p
  BY DEF Grants
<1>1. \A g \in Grants : a.parent[g] # n
  BY <1>a, <1>0 DEF IssuedBy
<1>2. a.anchor # n /\ a.sess # n
  BY <1>a, <1>0 DEF IssuedBy
<1>3. p # 0 => p \in Grants /\ a.parent[p] = 0 /\ b.parent[p] = 0
  BY <1>a, <1>0, GrantOrNone DEF Rooted
<1>4. \A g \in Grants : b.parent[g] # 0 => b.parent[b.parent[g]] = 0
  <2>1. ASSUME NEW g \in Grants, b.parent[g] # 0
        PROVE  b.parent[b.parent[g]] = 0
    <3>1. CASE g = n
      BY <1>3, <2>1, <3>1
    <3>2. CASE g # n
      <4>1. b.parent[g] = a.parent[g] /\ a.parent[g] \in Grants
        BY <2>1, <3>2, AuthorityFields, GrantOrNone
      <4>2. b.parent[a.parent[g]] = a.parent[a.parent[g]]
        BY <1>1, <4>1
      <4> QED
        BY <1>a, <2>1, <4>1, <4>2 DEF Rooted
    <3> QED
      BY <3>1, <3>2
  <2> QED
    BY <2>1
<1>5. b.anchor # 0 => b.parent[b.anchor] = 0
  <2>1. CASE p = 0
    BY <2>1
  <2>2. CASE p # 0
    BY <1>3, <2>2
  <2> QED
    BY <2>1, <2>2
<1>6. \A g \in Grants : b.grant[g] = "active" /\ b.parent[g] = 0 => g = b.anchor
  <2>1. ASSUME NEW g \in Grants, b.grant[g] = "active", b.parent[g] = 0
        PROVE  g = b.anchor
    <3>1. CASE g = n
      BY <2>1, <3>1
    <3>2. CASE g # n
      BY <1>a, <2>1, <3>2 DEF Rooted
    <3> QED
      BY <3>1, <3>2
  <2> QED
    BY <2>1
<1>7. Rooted(b)
  BY <1>a, <1>4, <1>5, <1>6 DEF Rooted
<1>8. IssuedBy(b, n)
  <2>1. b.anchor <= n /\ b.sess <= n /\ b.sched <= n
    BY <1>a, <1>0, AuthorityFields DEF IssuedBy
  <2>2. \A l \in 1 .. MaxGrants : b.login[l] <= n
    <3>1. \A l \in 1 .. MaxGrants : a.login[l] \in Nat /\ a.login[l] <= issued
      BY <1>a, AuthorityFields DEF IssuedBy
    <3> QED
      BY <1>0, <3>1
  <2>3. ASSUME NEW g \in Grants
        PROVE  (g > n => b.grant[g] = "none") /\ b.parent[g] <= n
    <3>1. CASE g = n
      BY <1>0, <3>1
    <3>2. CASE g # n
      <4>1. a.parent[g] \in Nat /\ a.parent[g] <= issued /\ g \in Nat
        BY <1>a, AuthorityFields DEF IssuedBy, Grants
      <4>2. g > n => a.grant[g] = "none"
        BY <1>a, <1>0, <4>1 DEF IssuedBy
      <4> QED
        BY <1>0, <3>2, <4>1, <4>2
    <3> QED
      BY <3>1, <3>2
  <2> QED
    BY <1>a, <2>1, <2>2, <2>3 DEF IssuedBy
<1>9. FresherThan(b, gone, old)
  <2>1. n \notin gone /\ n > old
    BY <1>0
  <2>2. \A g \in Grants : b.grant[g] = "active" => g \notin gone /\ g > old
    BY <1>a, <2>1 DEF FresherThan
  <2>3. b.sess # 0 => Usable(b, b.sess)
    <3>1. HAVE b.sess # 0
    <3>2. Usable(a, a.sess) /\ a.sess \in Grants /\ a.parent[a.sess] \in 0 .. MaxGrants
      BY <1>a, <3>1, AuthorityFields, GrantOrNone DEF FresherThan
    <3>3. b.grant[a.sess] = a.grant[a.sess] /\ b.parent[a.sess] = a.parent[a.sess]
      BY <1>2, <3>2
    <3>4. a.parent[a.sess] # 0 => b.grant[a.parent[a.sess]] = a.grant[a.parent[a.sess]]
      BY <1>1, <3>2, GrantOrNone
    <3> QED
      BY <3>1, <3>2, <3>3, <3>4 DEF Usable
  <2> QED
    BY <1>a, <2>2, <2>3 DEF FresherThan
<1> QED
  BY <1>7, <1>8, <1>9 DEF Sound

-----------------------------------------------------------------------------
(* The customer's steps.                                                     *)

CustomerEffect == FenceStep /\ db'.ledger = db.ledger /\ NoRecordTask

LEMMA AuthSet ==
  ASSUME FenceInv, NEW x \in Authorities, db' = [db EXCEPT !.auth = x],
         UNCHANGED <<saved, file, gens>>
  PROVE  /\ ShapeOf(db)' /\ db'.ctl = db.ctl /\ db'.ledger = db.ledger /\ db'.auth = x
         /\ UNCHANGED proc => CustomerEffect
         /\ Idle /\ proc.st = "busy" => CustomerEffect /\ proc'.st # "busy"
<1>1. ShapeOf(db)' /\ db'.ctl = db.ctl /\ db'.ledger = db.ledger /\ db'.auth = x
  BY DEF FenceInv, ShapeOf
<1> QED
  BY <1>1, SameProcIsProcStep, IdleIsProcStep DEF FenceInv, CustomerEffect, FenceStep, NoRecordTask

LEMMA AuthSame ==
  ASSUME FenceInv, UNCHANGED <<db, saved, file, gens>>
  PROVE  /\ UNCHANGED proc => CustomerEffect
         /\ Idle /\ proc.st = "busy" => CustomerEffect /\ proc'.st # "busy"
  BY SameProcIsProcStep, IdleIsProcStep
  DEF FenceInv, CustomerEffect, FenceStep, NoRecordTask, ShapeOf

\* The grants stay as they are.
LEMMA AuthorityFrame ==
  ASSUME AuthorityInv, db'.auth = db.auth, UNCHANGED <<saved, issued, revoked, base>>,
         logins' \in 0 .. MaxGrants, cred' \in 0 .. MaxGrants,
         Open' => Open, Recovering' => Recovering, db'.ctl = Unset => db.ctl = Unset,
         \/ NoLoginTask
         \/ proc'.st = "busy" => proc.st = "busy" /\ proc'.task = proc.task /\ Here
  PROVE  AuthorityInv'
<1>1. CounterShape'
  BY DEF AuthorityInv, CounterShape
<1>2. LoginTask'
  BY DEF AuthorityInv, LoginTask, NoLoginTask, Doing, Here
<1>3. /\ Rooted(db.auth)' /\ Rooted(saved.auth)'
      /\ IssuedBy(db.auth, issued)' /\ IssuedBy(saved.auth, issued)'
  BY DEF AuthorityInv, Rooted, IssuedBy
<1>4. (Open => FresherThan(db.auth, revoked, base))'
  BY DEF AuthorityInv, FresherThan, Usable
<1>5. (Recovering \/ db.ctl = Unset => Powerless(db.auth))'
  BY DEF AuthorityInv, Powerless
<1> QED
  BY <1>1, <1>2, <1>3, <1>4, <1>5 DEF AuthorityInv

\* The grants change in an open database.
LEMMA AuthorityChanged ==
  ASSUME FenceInv, AuthorityInv, FenceStep, Open,
         CounterShape', issued <= issued', LoginTask',
         Rooted(db'.auth), IssuedBy(db'.auth, issued'), FresherThan(db'.auth, revoked', base')
  PROVE  AuthorityInv'
<1>1. (Recovering' <=> Recovering) /\ ~Recovering /\ db'.ctl = db.ctl /\ db.ctl # Unset
  BY FenceStepKeeps, OpenIsSet DEF FenceStep, Open, Recovering, Matches
<1>2. saved' = saved /\ saved.auth \in Authorities
  BY DEF FenceStep, FenceInv, ShapeOf
<1>3. issued \in Nat /\ issued' \in Nat
  BY DEF AuthorityInv, CounterShape
<1>4. IssuedBy(saved.auth, issued')
  <2>1. IssuedBy(saved.auth, issued)
    BY DEF AuthorityInv
  <2>2. /\ saved.auth.anchor \in Nat /\ saved.auth.sess \in Nat /\ saved.auth.sched \in Nat
        /\ \A g \in Grants : saved.auth.parent[g] \in Nat /\ g \in Nat
        /\ \A l \in 1 .. MaxGrants : saved.auth.login[l] \in Nat
    BY <1>2, AuthorityFields DEF Grants
  <2> QED
    BY <1>3, <2>1, <2>2 DEF IssuedBy
<1>5. Rooted(saved.auth)
  BY DEF AuthorityInv
<1> QED
  BY <1>1, <1>2, <1>4, <1>5 DEF AuthorityInv

\* While nothing but a login is carried out, a task survives with the anchor it read.
LEMMA LoginTaskKept ==
  ASSUME LoginTask, UNCHANGED proc, \A g \in Grants : db.auth.parent[g] = 0 => db'.auth.parent[g] = 0
  PROVE  LoginTask'
  BY DEF LoginTask, Doing, Here

LEMMA LoginTaskOver ==
  ASSUME proc'.st # "busy"
  PROVE  LoginTask'
  BY DEF LoginTask, Doing

NewAnchorOf(a) == [AddGrant(a, 0) EXCEPT !.anchor = issued + 1]

\* A new admission, when no earlier one is active.
LEMMA NewAnchor ==
  ASSUME NEW a \in Authorities, NEW gone, NEW old \in 0 .. issued, Sound(a, issued, gone, old),
         issued \in Nat, issued < MaxGrants, gone \subseteq 1 .. issued, Topless(a),
         NEW b, b = NewAnchorOf(a)
  PROVE  /\ b \in Authorities /\ Sound(b, issued + 1, gone, old)
         /\ \A g \in Grants : a.parent[g] = 0 => b.parent[g] = 0
<1>1. MaxGrants \in Nat /\ 0 \in 0 .. MaxGrants /\ 0 <= issued
  BY CustomerLoginAssumption
<1>2. PICK n \in Grants : n = issued + 1
  BY <1>1 DEF Grants
<1>3. PICK c : c = AddGrant(a, 0)
  OBVIOUS
<1>4. /\ c \in Authorities
      /\ c.grant[n] = "active" /\ c.parent[n] = 0
      /\ \A g \in Grants : g # n => c.grant[g] = a.grant[g] /\ c.parent[g] = a.parent[g]
      /\ c.anchor = a.anchor /\ c.login = a.login /\ c.sess = a.sess /\ c.sched = a.sched
  BY <1>1, <1>2, <1>3, GrantAdded
<1>5. /\ b \in Authorities /\ b.anchor = n /\ b.grant = c.grant /\ b.parent = c.parent
      /\ b.login = c.login /\ b.sess = c.sess /\ b.sched = c.sched
  <2>1. b = [c EXCEPT !.anchor = n] /\ n \in 0 .. MaxGrants
    BY <1>1, <1>2, <1>3 DEF Grants, NewAnchorOf
  <2> QED
    BY <1>4, <2>1 DEF Authorities
<1>6. Added(a, b, 0, n)
  BY <1>4, <1>5 DEF Added
<1>7. Sound(b, n, gone, old)
  BY <1>1, <1>2, <1>5, <1>6, AddKeeps
<1> QED
  BY <1>2, <1>5, <1>6, <1>7 DEF Added

LEMMA AdmitAuthority ==
  ASSUME FenceInv, AuthorityInv, AdmitCustomer
  PROVE  CustomerEffect /\ AuthorityInv'
<1>1. PICK b : b = NewAnchorOf(db.auth)
  OBVIOUS
<1>2. /\ Open /\ db.auth.anchor = 0 /\ issued < MaxGrants /\ issued' = issued + 1
      /\ db' = [db EXCEPT !.auth = b]
      /\ UNCHANGED <<saved, file, gens, proc, logins, cred, base, revoked>>
  BY <1>1 DEF AdmitCustomer, OperatorSteps, NewAnchorOf
<1>3. /\ db.auth \in Authorities /\ Rooted(db.auth) /\ IssuedBy(db.auth, issued)
      /\ FresherThan(db.auth, revoked, base) /\ CounterShape /\ LoginTask
  BY <1>2 DEF FenceInv, ShapeOf, AuthorityInv
<1>4. issued \in Nat /\ MaxGrants \in Nat /\ base \in 0 .. issued /\ revoked \subseteq 1 .. issued
  BY <1>3, CustomerLoginAssumption DEF CounterShape
<1>5. Topless(db.auth) /\ Sound(db.auth, issued, revoked, base)
  BY <1>2, <1>3 DEF Rooted, Grants, Topless, Sound
<1>6. /\ b \in Authorities /\ Sound(b, issued + 1, revoked, base)
      /\ \A g \in Grants : db.auth.parent[g] = 0 => b.parent[g] = 0
  BY <1>1, <1>2, <1>3, <1>4, <1>5, NewAnchor
<1>7. CustomerEffect /\ db'.auth = b
  BY <1>2, <1>6, AuthSet
<1>8. CounterShape' /\ issued <= issued'
  BY <1>2, <1>3, <1>4 DEF CounterShape
<1>9. LoginTask'
  BY <1>2, <1>3, <1>6, <1>7, LoginTaskKept
<1>10. IssuedBy(db'.auth, issued') /\ FresherThan(db'.auth, revoked', base') /\ Rooted(db'.auth)
  BY <1>2, <1>6, <1>7 DEF Sound
<1> QED
  BY <1>2, <1>7, <1>8, <1>9, <1>10, AuthorityChanged DEF CustomerEffect

LEMMA RenewAuthority ==
  ASSUME FenceInv, AuthorityInv, RenewCustomer
  PROVE  CustomerEffect /\ AuthorityInv'
<1>1. PICK c : c = RevokeGrant(db.auth, db.auth.anchor)
  OBVIOUS
<1>2. PICK b : b = NewAnchorOf(c)
  OBVIOUS
<1>3. PICK g : g = db.auth.anchor
  OBVIOUS
<1>4. /\ Open /\ g # 0 /\ issued < MaxGrants /\ issued' = issued + 1
      /\ db' = [db EXCEPT !.auth = b] /\ revoked' = revoked \cup {g}
      /\ UNCHANGED <<saved, file, gens, proc, logins, cred, base>>
  BY <1>1, <1>2, <1>3 DEF RenewCustomer, OperatorSteps, NewAnchorOf
<1>5. /\ db.auth \in Authorities /\ Rooted(db.auth) /\ IssuedBy(db.auth, issued)
      /\ FresherThan(db.auth, revoked, base) /\ CounterShape /\ LoginTask
  BY <1>4 DEF FenceInv, ShapeOf, AuthorityInv
<1>6. issued \in Nat /\ MaxGrants \in Nat /\ base \in 0 .. issued /\ revoked \subseteq 1 .. issued
  BY <1>5, CustomerLoginAssumption DEF CounterShape
<1>7. g \in Grants /\ g <= issued
  BY <1>3, <1>4, <1>5, AuthorityFields, GrantOrNone DEF IssuedBy
<1>8. /\ c \in Authorities /\ Rooted(c) /\ IssuedBy(c, issued)
      /\ FresherThan(c, revoked \cup {g}, base) /\ c.parent = db.auth.parent
  BY <1>1, <1>3, <1>5, <1>6, <1>7, RevokeKeeps
<1>9. c.anchor = g /\ c.grant[g] = "revoked"
  BY <1>1, <1>3, <1>5, <1>7, GrantRevoked
<1>10. Topless(c) /\ Sound(c, issued, revoked \cup {g}, base)
  BY <1>8, <1>9 DEF Rooted, Topless, Sound
<1>11. revoked \cup {g} \subseteq 1 .. issued
  BY <1>6, <1>7 DEF Grants
<1>12. /\ b \in Authorities /\ Sound(b, issued + 1, revoked \cup {g}, base)
       /\ \A h \in Grants : c.parent[h] = 0 => b.parent[h] = 0
  BY <1>2, <1>4, <1>6, <1>8, <1>10, <1>11, NewAnchor
<1>13. CustomerEffect /\ db'.auth = b
  BY <1>4, <1>12, AuthSet
<1>14. CounterShape' /\ issued <= issued'
  BY <1>4, <1>5, <1>6, <1>11 DEF CounterShape
<1>15. LoginTask'
  BY <1>4, <1>5, <1>8, <1>12, <1>13, LoginTaskKept
<1>16. IssuedBy(db'.auth, issued') /\ FresherThan(db'.auth, revoked', base') /\ Rooted(db'.auth)
  BY <1>4, <1>12, <1>13 DEF Sound
<1> QED
  BY <1>4, <1>13, <1>14, <1>15, <1>16, AuthorityChanged DEF CustomerEffect

LEMMA RevokeAuthority ==
  ASSUME FenceInv, AuthorityInv, Open, NEW g \in 0 .. MaxGrants, Usable(db.auth, g),
         db' = [db EXCEPT !.auth = RevokeGrant(db.auth, g)], revoked' = revoked \cup {g},
         UNCHANGED <<saved, file, gens, proc, issued, logins, cred, base>>
  PROVE  CustomerEffect /\ AuthorityInv'
<1>1. /\ db.auth \in Authorities /\ Rooted(db.auth) /\ IssuedBy(db.auth, issued)
      /\ FresherThan(db.auth, revoked, base) /\ CounterShape /\ LoginTask
      /\ issued \in Nat /\ base \in Nat
  BY DEF FenceInv, ShapeOf, AuthorityInv, CounterShape
<1>2. g \in Grants /\ g <= issued
  BY <1>1, UsableIsIssued
<1>3. PICK b : b = RevokeGrant(db.auth, g)
  OBVIOUS
<1>4. /\ b \in Authorities /\ Rooted(b) /\ IssuedBy(b, issued)
      /\ FresherThan(b, revoked \cup {g}, base) /\ b.parent = db.auth.parent
  BY <1>1, <1>2, <1>3, RevokeKeeps
<1>5. CustomerEffect /\ db'.auth = b
  BY <1>3, <1>4, AuthSet
<1>6. CounterShape' /\ issued <= issued'
  BY <1>1, <1>2 DEF CounterShape, Grants
<1>7. LoginTask'
  BY <1>1, <1>4, <1>5, LoginTaskKept
<1> QED
  BY <1>4, <1>5, <1>6, <1>7, AuthorityChanged DEF CustomerEffect

\* A login against an anchor that still holds is a child of the current admission.
LEMMA LoginAuthority ==
  ASSUME FenceInv, AuthorityInv, NEW l \in 1 .. MaxGrants, NEW p \in Grants, Login(l, p)
  PROVE  CustomerEffect /\ AuthorityInv'
<1>0. /\ proc.st = "busy" /\ proc.task = <<"login", l, p>> /\ Idle
      /\ UNCHANGED <<saved, file, gens, logins, cred, revoked, base>>
  BY DEF Login, At
<1>1. CASE UNCHANGED <<db, issued>>
  <2>1. CustomerEffect /\ proc'.st # "busy"
    BY <1>0, <1>1, AuthSame
  <2>2. (Open' <=> Open) /\ (Recovering' <=> Recovering)
    BY <2>1, FenceStepKeeps DEF CustomerEffect
  <2>3. NoLoginTask
    BY <2>1 DEF NoLoginTask
  <2>4. logins' \in 0 .. MaxGrants /\ cred' \in 0 .. MaxGrants
    BY <1>0 DEF AuthorityInv, CounterShape
  <2> QED
    BY <1>0, <1>1, <2>1, <2>2, <2>3, <2>4, AuthorityFrame
<1>2. CASE /\ Here /\ AnchorHolds(p) /\ issued < MaxGrants /\ issued' = issued + 1
           /\ db' = [db EXCEPT !.auth = [AddGrant(@, p) EXCEPT !.login[l] = issued + 1]]
  <2>0. Open
    BY <1>0, <1>2 DEF FenceInv, SessionInv, ProcShape, Here
  <2>1. /\ db.auth \in Authorities /\ Rooted(db.auth) /\ IssuedBy(db.auth, issued)
        /\ FresherThan(db.auth, revoked, base) /\ CounterShape /\ LoginTask
    BY <2>0 DEF FenceInv, ShapeOf, AuthorityInv
  <2>2. issued \in Nat /\ MaxGrants \in Nat /\ base \in 0 .. issued /\ revoked \subseteq 1 .. issued
    BY <2>1, CustomerLoginAssumption DEF CounterShape
  <2>3. db.auth.parent[p] = 0
    BY <1>0, <1>2, <2>1 DEF LoginTask, Doing
  <2>4. p \in 0 .. MaxGrants /\ p # 0 /\ p = db.auth.anchor /\ p <= issued
    <3>1. p \in 0 .. MaxGrants /\ p # 0
      BY <2>2 DEF Grants
    <3>2. db.auth.grant[p] = "active" /\ p <= issued
      BY <1>2, <2>1, <2>2, <3>1, UsableIsIssued DEF AnchorHolds
    <3> QED
      BY <2>1, <2>3, <3>1, <3>2 DEF Rooted
  <2>5. PICK n \in Grants : n = issued + 1
    BY <1>2, <2>2 DEF Grants
  <2>6. PICK c : c = AddGrant(db.auth, p)
    OBVIOUS
  <2>7. PICK b : b = [c EXCEPT !.login[l] = n]
    OBVIOUS
  <2>8. /\ c \in Authorities
        /\ c.grant[n] = "active" /\ c.parent[n] = p
        /\ \A g \in Grants : g # n =>
             c.grant[g] = db.auth.grant[g] /\ c.parent[g] = db.auth.parent[g]
        /\ c.anchor = db.auth.anchor /\ c.login = db.auth.login /\ c.sess = db.auth.sess
        /\ c.sched = db.auth.sched
    BY <2>1, <2>4, <2>5, <2>6, GrantAdded
  <2>9. /\ b \in Authorities /\ b.anchor = c.anchor /\ b.grant = c.grant /\ b.parent = c.parent
        /\ b.login = [c.login EXCEPT ![l] = n] /\ b.sess = c.sess /\ b.sched = c.sched
    <3>1. /\ b.login = [c.login EXCEPT ![l] = n] /\ b.anchor = c.anchor /\ b.grant = c.grant
          /\ b.parent = c.parent /\ b.sess = c.sess /\ b.sched = c.sched
      BY <2>7, <2>8 DEF Authorities
    <3>2. c.login \in [1 .. MaxGrants -> 0 .. MaxGrants] /\ n \in 0 .. MaxGrants
      BY <2>2, <2>8 DEF Authorities, Grants
    <3>3. b.login \in [1 .. MaxGrants -> 0 .. MaxGrants]
      BY <3>1, <3>2
    <3> QED
      BY <2>7, <2>8, <3>1, <3>3 DEF Authorities
  <2>10. \A k \in 1 .. MaxGrants : b.login[k] \in {n, db.auth.login[k]}
    <3>1. c.login \in [1 .. MaxGrants -> 0 .. MaxGrants]
      BY <2>8 DEF Authorities
    <3> QED
      BY <2>8, <2>9, <3>1
  <2>11. Added(db.auth, b, p, n) /\ b.anchor = db.auth.anchor
    BY <2>8, <2>9, <2>10 DEF Added
  <2>12. Sound(b, n, revoked, base)
    <3>1. Sound(db.auth, issued, revoked, base)
      BY <2>1 DEF Sound
    <3> QED
      BY <2>1, <2>2, <2>4, <2>5, <2>9, <2>11, <3>1, AddKeeps
  <2>13. CustomerEffect /\ db'.auth = b /\ proc'.st # "busy"
    <3>1. db' = [db EXCEPT !.auth = b]
      BY <1>2, <2>5, <2>6, <2>7
    <3> QED
      BY <1>0, <2>9, <3>1, AuthSet
  <2>14. CounterShape' /\ issued <= issued'
    BY <1>0, <1>2, <2>1, <2>2 DEF CounterShape
  <2>15. LoginTask'
    BY <2>13, LoginTaskOver
  <2>16. IssuedBy(db'.auth, issued') /\ FresherThan(db'.auth, revoked', base') /\ Rooted(db'.auth)
    BY <1>0, <1>2, <2>5, <2>12, <2>13 DEF Sound
  <2> QED
    BY <2>0, <2>13, <2>14, <2>15, <2>16, AuthorityChanged DEF CustomerEffect
<1> QED
  BY <1>1, <1>2 DEF Login

\* What is opened with a grant that carries authority.
LEMMA UseAuthority ==
  ASSUME FenceInv, AuthorityInv, UseGrant
  PROVE  CustomerEffect /\ AuthorityInv'
<1>1. PICK g : g = db.auth.login[cred]
  OBVIOUS
<1>2. PICK part \in {"sess", "sched"} : db' = [db EXCEPT !.auth[part] = g]
  BY <1>1 DEF UseGrant
<1>3. /\ cred # 0 /\ Open /\ Usable(db.auth, g)
      /\ UNCHANGED <<saved, file, gens, proc, issued, logins, cred, base, revoked>>
  BY <1>1 DEF UseGrant, Whoami, Checked, loginVars
<1>4. /\ db.auth \in Authorities /\ Rooted(db.auth) /\ IssuedBy(db.auth, issued)
      /\ FresherThan(db.auth, revoked, base) /\ CounterShape /\ LoginTask /\ issued \in Nat
  BY <1>3 DEF FenceInv, ShapeOf, AuthorityInv, CounterShape
<1>5. g \in 0 .. MaxGrants
  <2>1. cred \in 0 .. MaxGrants
    BY <1>4 DEF CounterShape
  <2>2. cred \in 1 .. MaxGrants
    BY <1>3, <2>1, GrantOrNone DEF Grants
  <2> QED
    BY <1>1, <1>4, <2>2, AuthorityFields
<1>6. g \in Grants /\ db.auth.grant[g] = "active" /\ g <= issued
  BY <1>3, <1>4, <1>5, UsableIsIssued
<1>7. g > base
  BY <1>4, <1>6 DEF FresherThan
<1>8. PICK b : b = [db.auth EXCEPT ![part] = g]
  OBVIOUS
<1>9. /\ b \in Authorities /\ b.grant = db.auth.grant /\ b.parent = db.auth.parent
      /\ b.anchor = db.auth.anchor /\ b.login = db.auth.login
      /\ b.sess \in {g, db.auth.sess} /\ b.sched \in {g, db.auth.sched}
  <2>1. CASE part = "sess"
    BY <1>4, <1>5, <1>8, <2>1 DEF Authorities
  <2>2. CASE part = "sched"
    BY <1>4, <1>5, <1>8, <2>2 DEF Authorities
  <2> QED
    BY <1>2, <2>1, <2>2
<1>10. db' = [db EXCEPT !.auth = b]
  BY <1>2, <1>8
<1>11. CustomerEffect /\ db'.auth = b
  BY <1>3, <1>9, <1>10, AuthSet
<1>12. Rooted(b) /\ IssuedBy(b, issued) /\ FresherThan(b, revoked, base)
  <2>1. Rooted(b)
    BY <1>4, <1>9 DEF Rooted
  <2>2. IssuedBy(b, issued)
    BY <1>4, <1>6, <1>9 DEF IssuedBy
  <2>3. FresherThan(b, revoked, base)
    BY <1>3, <1>4, <1>7, <1>9 DEF FresherThan, Usable
  <2> QED
    BY <2>1, <2>2, <2>3
<1>13. CounterShape' /\ issued <= issued'
  BY <1>3, <1>4 DEF CounterShape
<1>14. LoginTask'
  BY <1>3, <1>4, <1>9, <1>11, LoginTaskKept
<1>15. IssuedBy(db'.auth, issued') /\ FresherThan(db'.auth, revoked', base') /\ Rooted(db'.auth)
  BY <1>3, <1>11, <1>12
<1> QED
  BY <1>3, <1>11, <1>13, <1>14, <1>15, AuthorityChanged DEF CustomerEffect

\* The steps of the command line, and what the API only reads.
LEMMA SameAuthority ==
  ASSUME FenceInv, AuthorityInv, UNCHANGED <<db, saved, file, gens, issued, revoked, base>>,
         logins' \in 0 .. MaxGrants, cred' \in 0 .. MaxGrants, CustomerEffect,
         NoLoginTask
  PROVE  AuthorityInv'
<1>1. (Open' <=> Open) /\ (Recovering' <=> Recovering)
  BY FenceStepKeeps DEF CustomerEffect
<1> QED
  BY <1>1, AuthorityFrame

LEMMA CommandLineAuthority ==
  ASSUME FenceInv, AuthorityInv,
         SaveCredential \/ LoginAgain \/ GiveUp \/ RemoveCredential
  PROVE  CustomerEffect /\ AuthorityInv'
<1>1. UNCHANGED <<db, saved, file, gens, proc, issued, revoked, base>>
  BY DEF SaveCredential, LoginAgain, GiveUp, RemoveCredential, fenceVars
<1>2. CustomerEffect /\ NoLoginTask
  BY <1>1, AuthSame DEF NoLoginTask
<1>3. logins' \in 0 .. MaxGrants /\ cred' \in 0 .. MaxGrants
  <2>1. logins \in 0 .. MaxGrants /\ cred \in 0 .. MaxGrants /\ MaxGrants \in Nat
    BY CustomerLoginAssumption DEF AuthorityInv, CounterShape
  <2> QED
    BY <2>1 DEF SaveCredential, LoginAgain, GiveUp, RemoveCredential
<1> QED
  BY <1>1, <1>2, <1>3, SameAuthority

LEMMA LogoutAuthority ==
  ASSUME FenceInv, AuthorityInv, LogoutRevoke
  PROVE  CustomerEffect /\ AuthorityInv'
<1>0. /\ cred # 0 /\ Checked /\ UNCHANGED <<saved, file, gens, proc, issued, logins, cred, base>>
      /\ cred \in 0 .. MaxGrants /\ logins \in 0 .. MaxGrants
      /\ db.auth \in Authorities
  BY DEF LogoutRevoke, AuthorityInv, CounterShape, FenceInv, ShapeOf
<1>1. CASE Whoami(cred)
  <2>1. PICK g : g = db.auth.login[cred]
    OBVIOUS
  <2>2. cred \in 1 .. MaxGrants
    BY <1>0, GrantOrNone DEF Grants
  <2>3. g \in 0 .. MaxGrants
    BY <1>0, <2>1, <2>2, AuthorityFields
  <2>4. Open /\ Usable(db.auth, g)
    BY <1>1, <2>1 DEF Whoami, Checked
  <2>5. db' = [db EXCEPT !.auth = RevokeGrant(db.auth, g)] /\ revoked' = revoked \cup {g}
    BY <1>1, <2>1 DEF LogoutRevoke
  <2> QED
    BY <1>0, <2>3, <2>4, <2>5, RevokeAuthority
<1>2. CASE ~Whoami(cred)
  <2>1. UNCHANGED <<db, revoked>>
    BY <1>2 DEF LogoutRevoke
  <2>2. CustomerEffect /\ NoLoginTask
    BY <1>0, <2>1, AuthSame DEF NoLoginTask
  <2> QED
    BY <1>0, <2>1, <2>2, SameAuthority
<1> QED
  BY <1>1, <1>2

\* The API reads an anchor before it locks the account.
LEMMA ReadAuthority ==
  ASSUME FenceInv, AuthorityInv, ReadIdentity
  PROVE  CustomerEffect /\ AuthorityInv'
<1>0. /\ Checked /\ db.auth.anchor # 0 /\ Busy(<<"login", cred, db.auth.anchor>>)
      /\ UNCHANGED <<db, saved, file, gens, issued, logins, cred, revoked, base>>
  BY DEF ReadIdentity, loginVars
<1>1. ProcStep /\ proc'.st = "busy" /\ proc'.task = <<"login", cred, db.auth.anchor>>
  BY <1>0, BusyIsProcStep DEF FenceInv
<1>2. NoRecordTask
  BY <1>1, TasksDiffer DEF NoRecordTask
<1>3. CustomerEffect
  BY <1>0, <1>1, <1>2 DEF FenceInv, FenceStep, ShapeOf, CustomerEffect
<1>4. Open
  BY <1>0 DEF Checked
<1>5. LoginTask'
  <2>1. db.auth.parent[db.auth.anchor] = 0
    BY <1>0 DEF AuthorityInv, Rooted
  <2>2. \A l, a : proc'.task = <<"login", l, a>> => a = db.auth.anchor
    BY <1>1
  <2> QED
    BY <1>0, <2>1, <2>2 DEF LoginTask, Doing
<1>6. CounterShape' /\ issued <= issued'
  BY <1>0 DEF AuthorityInv, CounterShape
<1>7. Rooted(db'.auth) /\ IssuedBy(db'.auth, issued') /\ FresherThan(db'.auth, revoked', base')
  BY <1>0, <1>4 DEF AuthorityInv
<1> QED
  BY <1>3, <1>4, <1>5, <1>6, <1>7, AuthorityChanged DEF CustomerEffect

LEMMA DisableAuthority ==
  ASSUME FenceInv, AuthorityInv, DisableCustomer
  PROVE  CustomerEffect /\ AuthorityInv'
<1>1. PICK g : g = db.auth.anchor
  OBVIOUS
<1>2. /\ Open /\ Usable(db.auth, g) /\ revoked' = revoked \cup {g}
      /\ db' = [db EXCEPT !.auth = RevokeGrant(db.auth, g)]
      /\ UNCHANGED <<saved, file, gens, proc, issued, logins, cred, base>>
  BY <1>1 DEF DisableCustomer, OperatorSteps
<1>3. g \in 0 .. MaxGrants
  BY <1>1, AuthorityFields DEF FenceInv, ShapeOf
<1> QED
  BY <1>2, <1>3, RevokeAuthority

LEMMA CustomerSteps ==
  ASSUME FenceInv, AuthorityInv, LoginNext
  PROVE  CustomerEffect /\ AuthorityInv'
<1>1. \/ AdmitCustomer \/ DisableCustomer \/ RenewCustomer
      \/ SaveCredential \/ LoginAgain \/ GiveUp \/ LogoutRevoke \/ RemoveCredential
      \/ ReadIdentity \/ UseGrant
      \/ \E l \in 1 .. MaxGrants, a \in Grants : Login(l, a)
  BY DEF LoginNext
<1> QED
  BY <1>1, AdmitAuthority, DisableAuthority, RenewAuthority, CommandLineAuthority,
     LogoutAuthority, ReadAuthority, UseAuthority, LoginAuthority

-----------------------------------------------------------------------------
(* The archive and the decisions of recovery.                                *)

LEMMA RestoreAuthority ==
  ASSUME FenceInv, AuthorityInv, RestoreDatabase, UNCHANGED loginVars
  PROVE  AuthorityInv'
<1>1. /\ ~Open' /\ ~Recovering' /\ db'.ctl # Unset
      /\ proc'.st = "busy" => proc'.lease = "old"
  BY RestoreFence
<1>2. db' = saved /\ UNCHANGED saved /\ UNCHANGED <<issued, logins, cred, revoked, base>>
  BY DEF RestoreDatabase, loginVars
<1>3. CounterShape' /\ LoginTask'
  BY <1>1, <1>2 DEF AuthorityInv, CounterShape, LoginTask, Doing, Here
<1>4. /\ Rooted(db.auth)' /\ Rooted(saved.auth)'
      /\ IssuedBy(db.auth, issued)' /\ IssuedBy(saved.auth, issued)'
  BY <1>2 DEF AuthorityInv, Rooted, IssuedBy
<1> QED
  BY <1>1, <1>3, <1>4 DEF AuthorityInv

LEMMA CheckpointAuthority ==
  ASSUME FenceInv, AuthorityInv, TakeCheckpoint, UNCHANGED loginVars
  PROVE  AuthorityInv'
<1>1. (Open' <=> Open) /\ (Recovering' <=> Recovering)
  BY CheckpointFence
<1>2. /\ UNCHANGED <<db, proc>> /\ saved' = db
      /\ UNCHANGED <<issued, logins, cred, revoked, base>>
  BY DEF TakeCheckpoint, loginVars
<1>3. CounterShape' /\ LoginTask'
  BY <1>2 DEF AuthorityInv, CounterShape, LoginTask, Doing, Here
<1>4. /\ Rooted(db.auth)' /\ Rooted(saved.auth)'
      /\ IssuedBy(db.auth, issued)' /\ IssuedBy(saved.auth, issued)'
  BY <1>2 DEF AuthorityInv, Rooted, IssuedBy
<1>5. (Open => FresherThan(db.auth, revoked, base))'
  BY <1>1, <1>2 DEF AuthorityInv, FresherThan, Usable
<1>6. (Recovering \/ db.ctl = Unset => Powerless(db.auth))'
  BY <1>1, <1>2 DEF AuthorityInv, Powerless
<1> QED
  BY <1>3, <1>4, <1>5, <1>6 DEF AuthorityInv

\* begin leaves no authority at all.
LEMMA BeginAuthority ==
  ASSUME FenceInv, AuthorityInv, BeginRecovery
  PROVE  AuthorityInv'
<1>1. PICK a : a = db.auth
  OBVIOUS
<1>2. PICK b : b = RevokeEverything(a)
  OBVIOUS
<1>3. /\ ~Open' /\ proc.st = "down" /\ UNCHANGED <<saved, proc>> /\ db'.auth = b
      /\ b \in Authorities /\ a \in Authorities
  BY <1>1, <1>2, BeginFence DEF BeginRecovery, FenceInv, ShapeOf
<1>4. base' = issued /\ UNCHANGED <<issued, logins, cred, revoked>>
  BY DEF BeginRecovery
<1>5. /\ \A g \in Grants :
           b.grant[g] = IF a.grant[g] = "active" THEN "revoked" ELSE a.grant[g]
      /\ b.parent = a.parent /\ b.anchor = a.anchor /\ b.login = a.login
      /\ b.sess = 0 /\ b.sched = 0
  <2>1. /\ b.grant = [g \in DOMAIN a.grant |->
                        IF a.grant[g] = "active" THEN "revoked" ELSE a.grant[g]]
        /\ b.parent = a.parent /\ b.anchor = a.anchor /\ b.login = a.login
        /\ b.sess = 0 /\ b.sched = 0
    BY <1>2, <1>3 DEF RevokeEverything, Authorities
  <2>2. DOMAIN a.grant = Grants
    BY <1>3 DEF Authorities
  <2> QED
    BY <2>1, <2>2
<1>6. Powerless(b) /\ Rooted(b)
  <2>1. Rooted(a)
    BY <1>1 DEF AuthorityInv
  <2> QED
    BY <1>5, <2>1 DEF Powerless, Rooted
<1>7. CounterShape' /\ issued \in Nat
  BY <1>4 DEF AuthorityInv, CounterShape
<1>8. IssuedBy(b, issued)
  <2>1. IssuedBy(a, issued)
    BY <1>1 DEF AuthorityInv
  <2> QED
    BY <1>5, <1>7, <2>1 DEF IssuedBy
<1>9. LoginTask'
  BY <1>3 DEF LoginTask, Doing
<1>10. Rooted(saved.auth)' /\ IssuedBy(saved.auth, issued)'
  BY <1>3, <1>4 DEF AuthorityInv, Rooted, IssuedBy
<1> QED
  BY <1>3, <1>4, <1>6, <1>7, <1>8, <1>9, <1>10 DEF AuthorityInv

\* A recovery that ends, and a first initialization, open a database without authority.
LEMMA OpeningAuthority ==
  ASSUME FenceInv, AuthorityInv, Initialize \/ Resume, UNCHANGED loginVars
  PROVE  AuthorityInv'
<1>1. /\ ~Recovering' /\ db'.ctl # Unset /\ db'.auth = db.auth /\ UNCHANGED <<saved, proc>>
      /\ Recovering \/ db.ctl = Unset
  BY InitializeFence, ResumeFence
<1>2. UNCHANGED <<issued, logins, cred, revoked, base>>
  BY DEF loginVars
<1>3. Powerless(db.auth)
  BY <1>1 DEF AuthorityInv
<1>4. FresherThan(db.auth, revoked, base)'
  BY <1>1, <1>2, <1>3 DEF FresherThan, Powerless
<1>5. CounterShape' /\ LoginTask'
  BY <1>1, <1>2 DEF AuthorityInv, CounterShape, LoginTask, Doing, Here
<1>6. /\ Rooted(db.auth)' /\ Rooted(saved.auth)'
      /\ IssuedBy(db.auth, issued)' /\ IssuedBy(saved.auth, issued)'
  BY <1>1, <1>2 DEF AuthorityInv, Rooted, IssuedBy
<1> QED
  BY <1>1, <1>4, <1>5, <1>6 DEF AuthorityInv

\* Steps of the processes: the archive and the records stay.
LEMMA ProcessSteps ==
  ASSUME FenceInv, OpenControlFence \/ Stop \/ Crash \/ LoseSession \/ Exit
  PROVE  /\ FenceInv' /\ UNCHANGED <<db, saved>> /\ (Open' <=> Open) /\ (Recovering' <=> Recovering)
         /\ proc'.st = "busy" => proc.st = "busy" /\ proc'.task = proc.task /\ Here
<1>1. UNCHANGED <<db, saved>>
  BY DEF OpenControlFence, Stop, Crash, LoseSession, Exit
<1> QED
  BY <1>1, OpenFence, EndFence, LoseFence, FenceStepKeeps

LEMMA PrepareIsClosed ==
  ASSUME FenceInv, PrepareControlGeneration
  PROVE  FenceInv' /\ ~Open' /\ ~Recovering' /\ UNCHANGED <<db, saved, proc>>
  BY PrepareFence DEF PrepareControlGeneration

-----------------------------------------------------------------------------
(* The three invariants, over every step.                                    *)

ControlInv == FenceInv /\ RecordInv /\ AuthorityInv

LEMMA InitInv == Init => ControlInv
<1> SUFFICES ASSUME Init PROVE ControlInv
  OBVIOUS
<1>0. MaxGrants \in Nat /\ 0 \in 0 .. MaxGrants
  BY CustomerLoginAssumption
<1>1. NoAuthority \in Authorities
  BY <1>0 DEF NoAuthority, Authorities, Words
<1>2. ShapeOf(db) /\ ShapeOf(saved) /\ db.ctl = Unset /\ db.auth = NoAuthority
      /\ saved.auth = NoAuthority /\ \A m \in Things : db.ledger[m] = "none"
  <2>1. [m \in Things |-> "none"] \in [Things -> Rows]
    BY DEF Rows
  <2> QED
    BY <1>1, <2>1 DEF Init, EmptyDatabase, ShapeOf, Unset, Kinds
<1>3. FenceInv
  BY <1>2 DEF Init, EmptyDatabase, FenceInv, ProcShape, Down, GenerationInv, SessionInv, Open,
              Recovering, Matches, Unset
<1>4. RecordInv
  BY <1>2 DEF Init, RecordInv, InventoryShape, ThingInv, AskedOnce, AttemptRecorded, Accounted,
              Untouched, Doing, Down, Open, Matches, Unset
<1>5. Rooted(NoAuthority) /\ IssuedBy(NoAuthority, 0) /\ Powerless(NoAuthority)
  BY <1>0 DEF Rooted, IssuedBy, Powerless, NoAuthority, Grants
<1>6. AuthorityInv
  BY <1>0, <1>2, <1>5 DEF Init, AuthorityInv, CounterShape, LoginTask, Doing, Down, Open, Matches,
                          Unset
<1> QED
  BY <1>3, <1>4, <1>6 DEF ControlInv

LEMMA CommonSteps ==
  ASSUME ControlInv, CommonNext
  PROVE  ControlInv'
<1>0. FenceInv /\ RecordInv /\ AuthorityInv
  BY DEF ControlInv
<1>1. CASE BeginRecovery
  <2>1. Begin /\ UNCHANGED inventoryVars
    BY <1>1 DEF BeginRecovery, Begin
  <2>2. /\ FenceInv' /\ ~Open' /\ proc.st = "down" /\ UNCHANGED proc
        /\ db'.ledger = db.ledger
    BY <1>0, <2>1, BeginFence
  <2>3. db'.ctl # Unset
    BY <1>0, <2>1 DEF FenceInv, ShapeOf, Begin, Unset
  <2>4. RecordInv'
    BY <1>0, <2>1, <2>2, <2>3, RecordFrame
  <2> QED
    BY <1>0, <1>1, <2>2, <2>4, BeginAuthority DEF ControlInv
<1>2. CASE /\ FenceNext \/ Initialize \/ ResumeControl
           /\ UNCHANGED <<inventoryVars, parts>>
  <2>0. UNCHANGED inventoryVars /\ UNCHANGED loginVars
        /\ UNCHANGED <<issued, logins, cred, revoked, base>>
    BY <1>2 DEF parts, loginVars
  <2>a. logins' \in 0 .. MaxGrants /\ cred' \in 0 .. MaxGrants
    BY <1>0, <2>0 DEF AuthorityInv, CounterShape
  <2>1. CASE OpenControlFence \/ Stop \/ Crash \/ LoseSession \/ Exit
    <3>1. /\ FenceInv' /\ UNCHANGED <<db, saved>> /\ (Open' <=> Open)
          /\ (Recovering' <=> Recovering)
          /\ proc'.st = "busy" => proc.st = "busy" /\ proc'.task = proc.task /\ Here
      BY <1>0, <2>1, ProcessSteps
    <3> QED
      BY <1>0, <2>0, <2>a, <3>1, RecordFrame, AuthorityFrame DEF ControlInv
  <2>2. CASE PrepareControlGeneration
    <3>1. FenceInv' /\ ~Open' /\ ~Recovering' /\ UNCHANGED <<db, saved, proc>>
      BY <1>0, <2>2, PrepareIsClosed
    <3>2. NoRecordTask /\ NoLoginTask
      BY <3>1 DEF NoRecordTask, NoLoginTask
    <3> QED
      BY <1>0, <2>0, <2>a, <3>1, <3>2, RecordFrame, AuthorityFrame DEF ControlInv
  <2>3. CASE TakeCheckpoint
    <3>1. FenceInv' /\ (Open' <=> Open) /\ UNCHANGED <<db, proc>>
      BY <1>0, <2>3, CheckpointFence DEF TakeCheckpoint
    <3>2. NoRecordTask
      BY <3>1 DEF NoRecordTask
    <3> QED
      BY <1>0, <2>0, <2>3, <3>1, <3>2, RecordFrame, CheckpointAuthority DEF ControlInv
  <2>4. CASE RestoreDatabase
    BY <1>0, <2>0, <2>4, RestoreFence, RestoreRecords, RestoreAuthority DEF ControlInv
  <2>5. CASE Initialize
    BY <1>0, <2>0, <2>5, InitializeFence, InitializeRecords, OpeningAuthority DEF ControlInv
  <2>6. CASE ResumeControl
    BY <1>0, <2>0, <2>6, ResumeFence, ResumeRecords, OpeningAuthority DEF ControlInv, ResumeControl
  <2> QED
    BY <1>2, <2>1, <2>2, <2>3, <2>4, <2>5, <2>6 DEF FenceNext
<1> QED
  BY <1>1, <1>2 DEF CommonNext

LEMMA StepInv == ControlInv /\ [Next]_vars => ControlInv'
<1> SUFFICES ASSUME ControlInv, [Next]_vars PROVE ControlInv'
  OBVIOUS
<1>0. FenceInv /\ RecordInv /\ AuthorityInv
  BY DEF ControlInv
<1>a. logins \in 0 .. MaxGrants /\ cred \in 0 .. MaxGrants
  BY <1>0 DEF AuthorityInv, CounterShape
<1>1. CASE CommonNext
  BY <1>1, CommonSteps
<1>2. CASE RecordNext
  <2>1. /\ FenceInv' /\ RecordInv' /\ db'.auth = db.auth /\ FenceStep /\ NoLoginTask
        /\ UNCHANGED <<issued, logins, cred, revoked, base>>
    BY <1>0, <1>2, RecordSteps DEF parts, loginVars
  <2>2. (Open' <=> Open) /\ (Recovering' <=> Recovering) /\ db'.ctl = db.ctl /\ UNCHANGED saved
    BY <1>0, <2>1, FenceStepKeeps DEF FenceStep
  <2> QED
    BY <1>0, <1>a, <2>1, <2>2, AuthorityFrame DEF ControlInv
<1>3. CASE CustomerNext
  <2>1. CustomerEffect /\ AuthorityInv' /\ UNCHANGED inventoryVars
    BY <1>0, <1>3, CustomerSteps DEF CustomerNext
  <2>2. /\ FenceInv' /\ (Open' <=> Open) /\ db'.ctl = db.ctl /\ db'.ledger = db.ledger
        /\ NoRecordTask
    BY <1>0, <2>1, FenceStepKeeps DEF CustomerEffect, FenceStep
  <2> QED
    BY <1>0, <2>1, <2>2, RecordFrame DEF ControlInv
<1>4. CASE GuestNext
  <2>1. GuestEffect /\ UNCHANGED <<inventoryVars, loginVars>>
    BY <1>0, <1>4, GuestSteps
  <2>2. /\ FenceInv' /\ (Open' <=> Open) /\ (Recovering' <=> Recovering) /\ db'.ctl = db.ctl
        /\ db'.ledger = db.ledger /\ db'.auth = db.auth /\ NoRecordTask /\ NoLoginTask
        /\ UNCHANGED saved
    BY <1>0, <2>1, FenceStepKeeps DEF GuestEffect, FenceStep, SameParts
  <2>3. UNCHANGED inventoryVars /\ UNCHANGED <<issued, logins, cred, revoked, base>>
    BY <2>1 DEF loginVars
  <2> QED
    BY <1>0, <1>a, <2>2, <2>3, RecordFrame, AuthorityFrame DEF ControlInv
<1>5. CASE UNCHANGED vars
  <2>1. UNCHANGED <<db, saved, file, gens, proc>> /\ UNCHANGED inventoryVars
        /\ UNCHANGED <<issued, logins, cred, revoked, base>>
    BY <1>5 DEF vars, fenceVars, parts, loginVars
  <2>2. GuestEffect
    BY <1>0, <2>1, SameDatabase, QuietProc DEF FenceInv
  <2>3. /\ FenceInv' /\ (Open' <=> Open) /\ (Recovering' <=> Recovering) /\ NoRecordTask
        /\ NoLoginTask
    BY <1>0, <2>2, FenceStepKeeps DEF GuestEffect
  <2> QED
    BY <1>0, <1>a, <2>1, <2>3, RecordFrame, AuthorityFrame DEF ControlInv
<1> QED
  BY <1>1, <1>2, <1>3, <1>4, <1>5 DEF Next

\* The fence, the records and the grants hold together in every reachable state: a process
\* with a session belongs to the open database, a recovery meets none, and what each part
\* needs of the other two is kept by every step (control-fence.ts, control-recovery.ts).
THEOREM ControlCorrect == Spec => []ControlInv
  BY InitInv, StepInv, PTL DEF Spec

\* An open control plane accounts for every server, image and create under way, and what it
\* believes in exists, however old the checkpoint it was restored from and whatever was in
\* flight when the database was lost (inspectControlRecovery, close_operation, resume).
THEOREM LedgerTrue == Spec => []LedgerIsTrue
<1>1. ControlInv => LedgerIsTrue
  BY DEF ControlInv, RecordInv, ThingInv, Accounted, LedgerIsTrue, Unfinished
<1> QED
  BY <1>1, ControlCorrect, PTL

\* No request leaves twice: work queued at the checkpoint and submitted after it is found by
\* the inspection before the restored control plane opens (the fence, close_operation).
THEOREM WorkSentOnce == Spec => []WorkNotReplayed
<1>1. ControlInv => WorkNotReplayed
  <2>1. \A m \in Things : submits[m] \in 0 .. 1 => submits[m] <= 1
    OBVIOUS
  <2> QED
    BY <2>1 DEF ControlInv, RecordInv, InventoryShape, ThingInv, Accounted, WorkNotReplayed
<1> QED
  BY <1>1, ControlCorrect, PTL

\* No grant revoked in a lost database, and none from before a recovery, comes back with a
\* restored one, and a login's authority always hangs below the current admission
\* (begin, renewCustomer, disableCustomer, login, logout).
THEOREM AuthorityNotRewound == Spec => []NoRewoundAuthority
<1>1. ControlInv => NoRewoundAuthority
  <2> SUFFICES ASSUME ControlInv, Open PROVE NoRewoundAuthority
    BY DEF NoRewoundAuthority
  <2>1. /\ db.auth \in Authorities /\ Rooted(db.auth) /\ FresherThan(db.auth, revoked, base)
    BY DEF ControlInv, FenceInv, ShapeOf, AuthorityInv
  <2>2. ASSUME NEW g \in Grants, Usable(db.auth, g)
        PROVE  /\ g \notin revoked /\ g > base
               /\ g = db.auth.anchor \/ db.auth.parent[g] = db.auth.anchor
    <3>1. db.auth.grant[g] = "active" /\ db.auth.parent[g] \in 0 .. MaxGrants
      BY <2>1, <2>2, AuthorityFields DEF Usable
    <3>2. CASE db.auth.parent[g] = 0
      BY <2>1, <3>1, <3>2 DEF Rooted, FresherThan
    <3>3. CASE db.auth.parent[g] # 0
      <4>1. /\ db.auth.parent[g] \in Grants /\ db.auth.grant[db.auth.parent[g]] = "active"
            /\ db.auth.parent[db.auth.parent[g]] = 0
        BY <2>1, <2>2, <3>1, <3>3, GrantOrNone DEF Usable, Rooted
      <4>2. db.auth.parent[g] = db.auth.anchor
        BY <2>1, <4>1 DEF Rooted
      <4> QED
        BY <2>1, <3>1, <4>2 DEF FresherThan
    <3> QED
      BY <3>2, <3>3
  <2>3. /\ db.auth.sess # 0 => Usable(db.auth, db.auth.sess)
        /\ db.auth.sched # 0 => db.auth.sched > base
    BY <2>1 DEF FresherThan
  <2> QED
    BY <2>2, <2>3 DEF NoRewoundAuthority
<1> QED
  BY <1>1, ControlCorrect, PTL
=============================================================================
