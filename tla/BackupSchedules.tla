--------------------------- MODULE BackupSchedules ---------------------------
(***************************************************************************)
(* Daily schedules and the retention policy over the captures they make.   *)
(* The reconciler reads which schedules are due and later advances each    *)
(* one in a transaction of its own, in which it looks again; the retention *)
(* operator reads candidates and repeats the policy when it admits one.    *)
(*                                                                         *)
(* Source: apps/control/src/backup-schedules.ts, backup-purges.ts. Time is *)
(* counted in units of which DayLength make a day; captures are either     *)
(* pending, captured, blocked, purged by a customer or expired, and their   *)
(* own life is the subject of Backups. All schedules share one account and one machine.    *)
(***************************************************************************)
EXTENDS Integers, Sequences, SequencesExt, FiniteSets, FiniteSetsExt

CONSTANTS
  Workers,       \* control plane processes that may reconcile
  Schedules,     \* schedule ids
  App,           \* [Schedules -> app], the app of a schedule's recipe
  DayLength,     \* time units in a day
  Keep,          \* newer successful days kept (7 in the code)
  Retain,        \* time units from creation to retainUntil
  MaxActive,     \* active schedules per account (10 in the code)
  MaxTime,       \* bound: the last instant
  MaxBackups     \* bound: captures admitted

ASSUME SchedulesAssumption ==
  /\ DayLength \in Nat \ {0} /\ Keep \in Nat \ {0} /\ Retain \in Nat \ {0}
  /\ MaxActive \in Nat /\ MaxTime \in Nat /\ MaxBackups \in Nat
  /\ "customer" \notin Schedules

VARIABLES
  now,
  sched,        \* [Schedules -> Schedule]
  due,          \* SUBSET (Workers \X Schedules), selected by a reconciler, not yet advanced
  candidate,    \* selected by a retention run, not yet admitted
  bks,          \* Seq(Backup), in admission order
  allowed,      \* BOOLEAN, the schedules' credential still has its authority
  available     \* BOOLEAN, the machine is allocated as the schedules recorded it

vars == <<now, sched, due, candidate, bks, allowed, available>>

Time == 0..MaxTime
Schedule == [state : {"none", "enabled", "disabled"}, nextRunAt : 0..(MaxTime + DayLength),
             last : {"none", "admitted", "refused"}]
Backup == [by : Schedules \cup {"customer"}, app : {App[s] : s \in Schedules}, at : Time,
           state : {"pending", "captured", "blocked", "purged", "expired"}]

Day(t) == t \div DayLength

\* Every variable has its type.
TypeOK ==
  /\ now \in Time /\ sched \in [Schedules -> Schedule]
  /\ due \in SUBSET (Workers \X Schedules) /\ candidate \in [1..MaxBackups -> BOOLEAN]
  /\ bks \in Seq(Backup) /\ Len(bks) <= MaxBackups
  /\ allowed \in BOOLEAN /\ available \in BOOLEAN

Init ==
  /\ now = 0
  /\ sched = [s \in Schedules |-> [state |-> "none", nextRunAt |-> 0, last |-> "none"]]
  /\ due = {} /\ candidate = [i \in 1..MaxBackups |-> FALSE]
  /\ bks = <<>> /\ allowed = TRUE /\ available = TRUE

-----------------------------------------------------------------------------
(* Schedules.                                                                *)

Active == {s \in Schedules : sched[s].state = "enabled"}

\* create: at most one active schedule per app, at most MaxActive in all.
Create(s) ==
  /\ sched[s].state = "none" /\ allowed /\ available
  /\ \A o \in Active : App[o] # App[s]
  /\ Cardinality(Active) < MaxActive
  /\ sched' = [sched EXCEPT ![s].state = "enabled", ![s].nextRunAt = now]
  /\ UNCHANGED <<now, due, candidate, bks, allowed, available>>

Disable(s) ==
  /\ allowed /\ sched[s].state = "enabled"
  /\ sched' = [sched EXCEPT ![s].state = "disabled"]
  /\ UNCHANGED <<now, due, candidate, bks, allowed, available>>

IsDue(s) == sched[s].state = "enabled" /\ sched[s].nextRunAt <= now

\* reconcile: select what is due; another reconciler may select it too.
Reconcile(w) ==
  /\ \A s \in Schedules : <<w, s>> \notin due
  /\ \E s \in Schedules : IsDue(s)
  /\ due' = due \cup {<<w, s>> : s \in {s \in Schedules : IsDue(s)}}
  /\ UNCHANGED <<now, sched, candidate, bks, allowed, available>>

\* Mutant: the next run is a day after the missed one.
CatchUp(s) == sched[s].nextRunAt + DayLength

NextRun(s) == now + DayLength

\* advance, looking again under the account lock: still enabled, still due.
StillDue(s) == IsDue(s)

\* Each selection is used up, whether it leads to a capture or not.
Advance(w, s) ==
  /\ <<w, s>> \in due /\ due' = due \ {<<w, s>>}
  /\ \/ /\ ~StillDue(s) /\ UNCHANGED <<sched, bks>>
     \/ /\ StillDue(s) /\ allowed /\ available /\ Len(bks) < MaxBackups
        /\ bks' = Append(bks, [by |-> s, app |-> App[s], at |-> now, state |-> "pending"])
        /\ sched' = [sched EXCEPT ![s] = [state |-> "enabled", nextRunAt |-> NextRun(s),
                                          last |-> "admitted"]]
     \* refused: no allocation any more, or no room within the backup limits
     \/ /\ StillDue(s) /\ allowed /\ UNCHANGED bks
        /\ sched' = [sched EXCEPT ![s] = [state |-> "enabled", nextRunAt |-> NextRun(s),
                                          last |-> "refused"]]
     \/ /\ StillDue(s) /\ ~allowed /\ UNCHANGED bks
        /\ sched' = [sched EXCEPT ![s] = [state |-> "disabled", nextRunAt |-> NextRun(s),
                                          last |-> "refused"]]
  /\ UNCHANGED <<now, candidate, allowed, available>>

-----------------------------------------------------------------------------
(* Captures: made by customers too, and settled by the backup worker.        *)

CustomerCapture(app) ==
  /\ allowed /\ available /\ Len(bks) < MaxBackups
  /\ bks' = Append(bks, [by |-> "customer", app |-> app, at |-> now, state |-> "pending"])
  /\ UNCHANGED <<now, sched, due, candidate, allowed, available>>

\* Mapped to Backups: the worker stores it, gives it up, or the operator recovers it.
Settle(i, from, to) ==
  /\ bks[i].state = from /\ bks' = [bks EXCEPT ![i].state = to]
  /\ UNCHANGED <<now, sched, due, candidate, allowed, available>>

\* A customer may purge any captured backup.
CustomerPurge(i) == allowed /\ Settle(i, "captured", "purged")

-----------------------------------------------------------------------------
(* Retention of scheduled captures.                                          *)

\* Mutant: the day of the capture itself counts as a later one.
DaysFrom(i) ==
  {Day(bks[j].at) : j \in {j \in DOMAIN bks :
     /\ bks[j].by # "customer" /\ bks[j].app = bks[i].app
     /\ bks[j].state = "captured" /\ Day(bks[j].at) >= Day(bks[i].at)}}

\* Later UTC days with a scheduled capture of the same recipe.
LaterDays(i) ==
  {Day(bks[j].at) : j \in {j \in DOMAIN bks :
     /\ bks[j].by # "customer" /\ bks[j].app = bks[i].app
     /\ bks[j].state = "captured" /\ Day(bks[j].at) > Day(bks[i].at)}}

\* retentionEligible
Eligible(i) ==
  /\ bks[i].state = "captured" /\ bks[i].by # "customer"
  /\ bks[i].at + Retain <= now
  /\ Cardinality(LaterDays(i)) >= Keep

\* retentionCandidates
SelectExpired ==
  /\ \E i \in DOMAIN bks : Eligible(i) /\ ~candidate[i]
  /\ candidate' = [i \in 1..MaxBackups |-> candidate[i] \/ (i \in DOMAIN bks /\ Eligible(i))]
  /\ UNCHANGED <<now, sched, due, bks, allowed, available>>

\* admitExpiredBackup: the policy is asked again under the admission locks.
AdmitExpired(i) ==
  /\ candidate[i] /\ candidate' = [candidate EXCEPT ![i] = FALSE]
  /\ bks' = IF Eligible(i) THEN [bks EXCEPT ![i].state = "expired"] ELSE bks
  /\ UNCHANGED <<now, sched, due, allowed, available>>

-----------------------------------------------------------------------------
Revoke ==
  /\ allowed /\ allowed' = FALSE
  /\ UNCHANGED <<now, sched, due, candidate, bks, available>>

Destroy ==
  /\ available /\ available' = FALSE
  /\ UNCHANGED <<now, sched, due, candidate, bks, allowed>>

Tick ==
  /\ now < MaxTime /\ now' = now + 1
  /\ UNCHANGED <<sched, due, candidate, bks, allowed, available>>

Next ==
  \/ \E s \in Schedules : Create(s) \/ Disable(s) \/ \E w \in Workers : Advance(w, s)
  \/ \E w \in Workers : Reconcile(w)
  \/ SelectExpired \/ Revoke \/ Destroy \/ Tick
  \/ \E app \in {App[s] : s \in Schedules} : CustomerCapture(app)
  \/ \E i \in DOMAIN bks :
       \/ \E to \in {"captured", "blocked"} : Settle(i, "pending", to)
       \/ Settle(i, "blocked", "captured")
       \/ CustomerPurge(i) \/ AdmitExpired(i)

Spec == Init /\ [][Next]_vars

-----------------------------------------------------------------------------
(* Properties.                                                               *)

Made(s) == {i \in DOMAIN bks : bks[i].by = s}

\* However long the control plane was away and however many reconcilers run,
\* two captures of a schedule are at least a day apart ("never a catch-up
\* burst").
NoBurst ==
  \A s \in Schedules : \A i, j \in Made(s) : i < j => bks[j].at >= bks[i].at + DayLength

Captured(i, states) ==
  {Day(bks[j].at) : j \in {j \in DOMAIN bks :
     /\ \E s \in Schedules : j \in Made(s) /\ App[s] = bks[i].app
     /\ bks[j].state \in states /\ Day(bks[j].at) > Day(bks[i].at)}}

\* However retention runs follow each other, every capture it removed is still
\* outlived by Keep days of the same app that only a customer may remove
\* ("Keep seven newer successful UTC days of the same recipe").
RetentionKeeps ==
  \A i \in DOMAIN bks :
    bks[i].state = "expired" => Cardinality(Captured(i, {"captured", "purged"})) >= Keep

=============================================================================
