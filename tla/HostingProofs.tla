---------------------------- MODULE HostingProofs ----------------------------
(***************************************************************************)
(* What hosting guarantees for any number of machines, workers and         *)
(* versions of a route: an acknowledged removal stays in force at the      *)
(* gateway, and, as long as a removed hostname is not published again, no  *)
(* guest stops answering for a version that the gateway may forward to.    *)
(*                                                                         *)
(* The second needs the restriction: publishing again before the guest     *)
(* carried the removal out is the finding of run hosting_republish.        *)
(***************************************************************************)
EXTENDS PublicGateway, TLAPS

-----------------------------------------------------------------------------
(* Removal                                                                  *)

\* A route that is wanted has a machine and a version; work under way was claimed
\* for a version that was wanted, as put or remove.
JobInv ==
  /\ route.version = 0 <=> route.state = "none"
  /\ route.version = 0 => route.owner = Nobody /\ route.application = "none"
  /\ route.version # 0 => route.machine \in Machines
  /\ target.version <= route.version
  /\ \A w \in Workers : job[w] # NoJob =>
       /\ job[w].c.version <= route.version
       /\ job[w].c.version = route.version =>
            (job[w].c.kind = "remove" <=> route.state = "removed")

\* The snapshots of the controller agree with how far it got.
SyncInv ==
  /\ gw.at \in {"reloaded", "saved"} => running = gw.snap
  /\ gw.at = "saved" => saved = gw.snap

\* A removal the gateway has acknowledged, or is about to, has left no trace of
\* the hostname in what the gateway runs, has saved or is about to load.
RemovalInv ==
  /\ route.acked <= route.version /\ \A v \in acking : v <= route.version
  /\ route.state = "removed" /\ (route.version \in acking \/ route.acked = route.version) =>
       /\ running.kind # "live" /\ saved.kind # "live"
       /\ gw.at \in {"fetched", "reloaded", "saved"} => gw.snap.kind # "live"

HostingInv == TypeOK /\ JobInv /\ SyncInv /\ RemovalInv

-----------------------------------------------------------------------------
LEMMA Bounds ==
  /\ Versions \subseteq Nat \ {0} /\ Versions \subseteq 0..MaxVersion /\ 0 \in 0..MaxVersion
  /\ MaxVersion \in Nat /\ MaxAttempts \in Nat
BY GuestHostingAssumption, HostingAssumption DEF Versions

LEMMA VersionNat == \A v \in Versions : v \in Nat /\ v # 0 /\ 1 <= v
BY DEF Versions

\* gatewayState: what the gateway is told.
LEMMA ListedType ==
  ASSUME TypeOK, JobInv
  PROVE  /\ Listed \in Snapshot /\ Listed.version <= route.version /\ Listed.version \in Nat
         /\ route.state = "removed" => Listed.kind = "removed" /\ Listed.version = route.version
         /\ Listed.kind = "live" => /\ route.state # "removed" /\ target # Nowhere
                                    /\ Listed.machine = target.machine /\ Listed.version = target.version
<1>1. /\ route.version \in 0..MaxVersion /\ target \in Destination /\ target.version <= route.version
      /\ route.version = 0 <=> route.state = "none"
  BY DEF TypeOK, ControlTypeOK, Route, JobInv
<1>2. CASE route.state = "removed"
  <2>1. Listed = [kind |-> "removed", version |-> route.version] /\ route.version \in Versions
    BY <1>1, <1>2, Bounds DEF Listed, Versions
  <2> QED BY <1>1, <1>2, <2>1, Bounds DEF Snapshot
<1>3. CASE route.state \in {"pending", "active"} /\ target # Nowhere /\ up[target.machine]
  <2>1. Listed = [kind |-> "live", version |-> target.version, machine |-> target.machine]
    BY <1>3 DEF Listed
  <2>2. target.version \in Versions /\ target.machine \in Machines
    BY <1>1, <1>3 DEF Destination
  <2> QED BY <1>1, <1>3, <2>1, <2>2, Bounds DEF Snapshot
<1>4. CASE route.state # "removed" /\ ~(route.state \in {"pending", "active"} /\ target # Nowhere /\ up[target.machine])
  <2>1. Listed = [kind |-> "absent", version |-> 0]
    BY <1>4 DEF Listed
  <2> QED BY <1>1, <1>4, <2>1, Bounds DEF Snapshot, Nothing
<1> QED BY <1>2, <1>3, <1>4

LEMMA InitHosting == Init => HostingInv
<1> SUFFICES ASSUME Init PROVE HostingInv
  OBVIOUS
<1>1. GuestTypeOK
  BY DEF Init, GuestInit, GuestTypeOK, Change, Idle
<1>2. ControlTypeOK
  BY Bounds DEF Init, ControlInit, ControlTypeOK, Route, Destination
<1>3. Nothing \in Snapshot /\ Nothing.kind = "absent"
  BY DEF Snapshot, Nothing
<1>4. TypeOK
  BY <1>1, <1>2, <1>3 DEF Init, TypeOK
<1>5. JobInv
  BY DEF Init, ControlInit, JobInv, Nowhere
<1>6. SyncInv /\ RemovalInv
  BY <1>3 DEF Init, ControlInit, SyncInv, RemovalInv
<1> QED BY <1>4, <1>5, <1>6 DEF HostingInv

\* A guest's step leaves the control plane and the gateway alone.
LEMMA GuestType ==
  ASSUME GuestTypeOK, NEW m \in Machines, GuestStep(m)
  PROVE  GuestTypeOK'
<1>0. /\ prepared \in [Machines -> Change] /\ committed \in [Machines -> Change]
      /\ bindings \in [Machines -> SUBSET Versions] /\ config \in [Machines -> SUBSET Versions]
      /\ live \in [Machines -> SUBSET Versions]
      /\ cmd \in [Machines -> {Idle} \cup Running]
  BY DEF GuestTypeOK
<1>1. \A at : At(m, at) /\ at # "idle" => cmd[m] \in Running
  BY <1>0 DEF At, Idle
<1>2. ASSUME cmd[m] \in Running, NEW at \in {"asked", "prepared", "reloaded"}, Goto(m, at)
      PROVE  cmd' \in [Machines -> {Idle} \cup Running]
  BY <1>0, <1>2 DEF Goto, Running
<1>3. cmd[m] \in Running => Wanted(cmd[m].c) \in Change /\ cmd[m].c \in Commands
  BY DEF Running, Commands, Wanted, Change
<1>4. CASE PrepareRoute(m)
  <2>1. cmd[m] \in Running
    BY <1>1, <1>4 DEF PrepareRoute
  <2>2. Retained(m, cmd[m].c) \subseteq Versions
    BY <1>0, <1>3, <2>1 DEF Retained, Commands
  <2> QED BY <1>0, <1>2, <1>3, <1>4, <2>1, <2>2 DEF PrepareRoute, GuestTypeOK
<1>5. CASE ReloadProxy(m)
  <2>1. cmd[m] \in Running
    BY <1>1, <1>5 DEF ReloadProxy
  <2> QED BY <1>0, <1>2, <1>5, <2>1 DEF ReloadProxy, GuestTypeOK
<1>6. CASE CommitRoute(m)
  <2>1. cmd[m] \in Running
    BY <1>1, <1>6 DEF CommitRoute
  <2> QED BY <1>0, <1>3, <1>6, <2>1 DEF CommitRoute, GuestTypeOK
<1>7. CASE DieUncommitted(m) \/ EndCommand(m) \/ RestartGuest(m)
  BY <1>0, <1>7 DEF DieUncommitted, EndCommand, RestartGuest, GuestTypeOK
<1> QED BY <1>4, <1>5, <1>6, <1>7 DEF GuestStep

-----------------------------------------------------------------------------
LEMMA RouteFacts ==
  ASSUME ControlTypeOK
  PROVE  /\ route \in Route /\ target \in Destination /\ job \in [Workers -> {NoJob} \cup Job]
         /\ route.version \in 0..MaxVersion /\ route.version \in Nat
         /\ route.acked \in 0..MaxVersion /\ route.acked \in Nat
         /\ route.attempts \in 0..MaxAttempts
         /\ route.state \in {"none", "pending", "active", "removed"}
         /\ route.machine \in Machines \cup {Nobody}
BY Bounds DEF ControlTypeOK, Route

\* A worker that is not idle has a job.
LEMMA JobFacts ==
  ASSUME ControlTypeOK, NEW w \in Workers, job[w] # NoJob
  PROVE  /\ job[w] \in Job /\ job[w].machine \in Machines /\ job[w].c \in Commands
         /\ job[w].c.version \in Versions /\ job[w].c.retain \in Versions
         /\ job[w].c.kind \in {"put", "remove"}
<1>1. job[w] \in Job
  BY RouteFacts
<1>2. job[w].machine \in Machines /\ job[w].c \in Commands
  BY <1>1 DEF Job
<1> QED BY <1>1, <1>2 DEF Commands

LEMMA HasJob ==
  ASSUME ControlTypeOK, NEW w \in Workers, job[w].at \in {"claimed", "sent"}
  PROVE  job[w] # NoJob
BY RouteFacts DEF NoJob

\* What a command does to the route: the next version, published or removed.
LEMMA AdmitStep ==
  ASSUME TypeOK, JobInv, NEW a \in Accounts, NEW m \in Machines,
         NEW state \in {"pending", "removed"}, Admit(a, m, state)
  PROVE  /\ GuestTypeOK' /\ ControlTypeOK' /\ JobInv'
         /\ route'.version = route.version + 1 /\ route'.acked = route.acked /\ route'.state = state
         /\ job' = job /\ target' = target /\ up' = up /\ UNCHANGED guestVars
<1>1. GuestTypeOK /\ ControlTypeOK
  BY DEF TypeOK
<1>2. /\ UNCHANGED guestVars /\ up' = up /\ dns' = dns /\ challenge' = challenge /\ target' = target
      /\ job' = job
  BY DEF Admit
<1>3. route.version \in 0..MaxVersion /\ route.version < MaxVersion /\ route \in Route
  BY <1>1, RouteFacts DEF Admit
<1>4. /\ route'.version = route.version + 1 /\ route'.acked = route.acked /\ route'.state = state
      /\ route'.machine = m /\ route'.owner = a /\ route'.application = "pending"
  BY <1>3 DEF Admit, Route
<1>5. route.version + 1 \in 0..MaxVersion /\ route.version + 1 >= 1 /\ route.version + 1 # 0
  BY <1>3, Bounds
<1>6. route' \in Route
  <2> DEFINE v == route.version + 1
  <2>1. route' = [route EXCEPT !.owner = a, !.machine = m, !.version = v, !.state = state,
                               !.application = "pending", !.attempts = 0]
    BY DEF Admit
  <2>2. v \in 0..MaxVersion /\ 0 \in 0..MaxAttempts
    BY <1>5, Bounds
  <2> HIDE DEF v
  <2> QED BY <1>3, <2>1, <2>2 DEF Route
<1>7. GuestTypeOK' /\ ControlTypeOK'
  BY <1>1, <1>2, <1>6 DEF GuestTypeOK, ControlTypeOK, guestVars
<1>8. target.version <= route.version /\ target.version \in Nat
  <2>1. target.version = 0 \/ target.version \in Versions
    BY <1>1, RouteFacts DEF Destination, Nowhere
  <2>2. target.version <= route.version
    BY DEF JobInv
  <2>3. target.version \in Nat
    BY <2>1, VersionNat
  <2> QED BY <2>2, <2>3
<1>9. ASSUME NEW w \in Workers, job[w] # NoJob
      PROVE  job[w].c.version <= route.version /\ job[w].c.version \in Nat
  BY <1>1, <1>9, JobFacts, Bounds DEF JobInv
<1>10. JobInv'
  <2>1. target'.version <= route'.version
    BY <1>2, <1>3, <1>4, <1>8
  <2>2. ASSUME NEW w \in Workers, job[w] # NoJob
        PROVE  job[w].c.version <= route'.version /\ job[w].c.version # route'.version
    BY <1>3, <1>4, <1>9, <2>2
  <2> QED BY <1>2, <1>4, <1>5, <2>1, <2>2 DEF JobInv
<1> QED BY <1>2, <1>4, <1>7, <1>10

\* Every other step of the control plane leaves the version, the acknowledgement and
\* whether the hostname is removed as they are.
Steady ==
  /\ route'.version = route.version /\ route'.acked = route.acked
  /\ route'.state = "removed" <=> route.state = "removed"

\* Jobs that end, or start with what is wanted now, and a target that was asked for
\* keep the invariant of the jobs.
LEMMA JobsKept ==
  ASSUME JobInv, Steady,
         route'.state = "none" <=> route.state = "none",
         route'.owner = route.owner, route'.machine = route.machine,
         route'.application # "none" <=> route.application # "none",
         target'.version <= route.version,
         \A w \in Workers : \/ job'[w] = NoJob
                            \/ job[w] # NoJob /\ job'[w].c = job[w].c
                            \/ /\ job'[w].c.version = route.version /\ route.version <= route.version
                               /\ job'[w].c.kind = "remove" <=> route.state = "removed"
  PROVE  JobInv'
BY DEF JobInv, Steady

LEMMA ClaimStep ==
  ASSUME TypeOK, JobInv, NEW w \in Workers, Claim(w)
  PROVE  GuestTypeOK' /\ ControlTypeOK' /\ JobInv' /\ Steady
<1>1. GuestTypeOK /\ ControlTypeOK
  BY DEF TypeOK
<1>2. /\ UNCHANGED guestVars /\ up' = up /\ dns' = dns /\ challenge' = challenge /\ target' = target
      /\ route.application = "pending" /\ route.attempts < MaxAttempts
  BY DEF Claim
<1>3. /\ route.machine \in Machines /\ route.version \in Versions /\ route.acked \in 0..MaxVersion
      /\ route.attempts \in 0..MaxAttempts /\ route \in Route
  BY <1>1, <1>2, RouteFacts DEF JobInv, Versions
<1>4. route' \in Route /\ Steady
      /\ route'.state = route.state /\ route'.owner = route.owner /\ route'.machine = route.machine
      /\ route'.application = route.application
  <2> DEFINE n == route.attempts + 1
  <2>1. n \in 0..MaxAttempts
    BY <1>2, <1>3, Bounds
  <2>2. route' = [route EXCEPT !.attempts = n]
    BY DEF Claim
  <2> HIDE DEF n
  <2> QED BY <1>3, <2>1, <2>2 DEF Route, Steady
<1>5. PICK c \in Commands :
        /\ job' = [job EXCEPT ![w] = [at |-> "claimed", machine |-> route.machine, c |-> c]]
        /\ c.version = route.version /\ (c.kind = "remove" <=> route.state = "removed")
  <2> DEFINE k == IF route.state = "removed" THEN "remove" ELSE "put"
             r == IF route.acked = 0 THEN 1 ELSE route.acked
             c == [version |-> route.version, kind |-> k, retain |-> r]
  <2>1. r \in Versions
    <3>1. MaxVersion \in Nat /\ 1 <= MaxVersion
      BY <1>3, Bounds DEF Versions
    <3> QED BY <1>3, <3>1 DEF Versions
  <2>2. c \in Commands
    BY <1>3, <2>1 DEF Commands
  <2> QED BY <2>2 DEF Claim
<1>6. job \in [Workers -> {NoJob} \cup Job]
  BY <1>1 DEF ControlTypeOK
<1>7. job' \in [Workers -> {NoJob} \cup Job]
  BY <1>3, <1>5, <1>6 DEF Job
<1>8. GuestTypeOK' /\ ControlTypeOK'
  BY <1>1, <1>2, <1>4, <1>7 DEF GuestTypeOK, ControlTypeOK, guestVars
<1>9. \A x \in Workers : x # w => job'[x] = job[x]
  BY <1>5, <1>6
<1>10. job'[w].c = c
  BY <1>5, <1>6
<1>11. target'.version <= route.version /\ route.version <= route.version
  <2>1. target'.version <= route.version
    BY <1>2 DEF JobInv
  <2>2. route.version \in Nat
    BY <1>3, Bounds
  <2>3. route.version <= route.version
    BY <2>2
  <2> QED BY <2>1, <2>3
<1>12. JobInv'
  BY <1>4, <1>5, <1>9, <1>10, <1>11, JobsKept
<1> QED BY <1>4, <1>8, <1>12

\* save: the version is applied if it is still the one wanted.
LEMMA SaveStep ==
  ASSUME TypeOK, JobInv, NEW w \in Workers, job[w] # NoJob,
         NEW t \in {Nowhere, [machine |-> job[w].machine, version |-> job[w].c.version]},
         SaveApplied(w, t)
  PROVE  GuestTypeOK' /\ ControlTypeOK' /\ JobInv' /\ Steady
<1>1. GuestTypeOK /\ ControlTypeOK
  BY DEF TypeOK
<1>2. /\ UNCHANGED guestVars /\ up' = up /\ dns' = dns /\ challenge' = challenge
      /\ job' = [job EXCEPT ![w] = NoJob]
  BY DEF SaveApplied
<1>3. route \in Route /\ target \in Destination /\ job \in [Workers -> {NoJob} \cup Job]
      /\ job[w].machine \in Machines /\ job[w].c.version \in Versions /\ job[w].c.kind \in {"put", "remove"}
  BY <1>1, RouteFacts, JobFacts
<1>4. t \in Destination /\ (t.version = 0 \/ t.version = job[w].c.version)
  BY <1>3 DEF Destination, Nowhere
<1>5. job[w].c.version <= route.version /\ job[w].c.version # 0 /\ 0 <= route.version
      /\ job[w].c.version \in Nat /\ route.version \in Nat
      /\ target.version <= route.version
  <2>1. job[w].c.version <= route.version /\ target.version <= route.version
    BY DEF JobInv
  <2>2. route.version \in Nat
    BY <1>1, RouteFacts
  <2>3. job[w].c.version \in Nat /\ job[w].c.version # 0 /\ 0 <= route.version
    <3>1. job[w].c.version \in Nat /\ job[w].c.version # 0
      BY <1>3, VersionNat
    <3> QED BY <2>2, <3>1
  <2> QED BY <2>1, <2>2, <2>3
<1>6. job' \in [Workers -> {NoJob} \cup Job] /\ \A x \in Workers : job'[x] = NoJob \/ job'[x] = job[x]
  BY <1>2, <1>3
<1>7. target' \in Destination /\ target'.version <= route.version
  BY <1>3, <1>4, <1>5 DEF SaveApplied
<1>8. CASE route' = route
  <2>1. Steady
    BY <1>8 DEF Steady
  <2>2. JobInv'
    BY <1>6, <1>7, <1>8, <2>1, JobsKept
  <2> QED BY <1>1, <1>2, <1>3, <1>6, <1>7, <1>8, <2>1, <2>2 DEF GuestTypeOK, ControlTypeOK, guestVars
<1>9. CASE StillWanted(w)
  <2> DEFINE st == IF job[w].c.kind = "remove" THEN "removed" ELSE "active"
  <2>1. route' = [route EXCEPT !.state = st, !.application = "applied"]
    BY <1>9 DEF SaveApplied
  <2>2. job[w].c.kind = "remove" <=> route.state = "removed"
    BY <1>9 DEF JobInv, StillWanted
  <2>3. route.state # "none" /\ st # "none"
    BY <1>5, <1>9 DEF JobInv, StillWanted
  <2>4. st \in {"active", "removed"} /\ (st = "removed" <=> route.state = "removed")
    BY <2>2
  <2> HIDE DEF st
  <2>5. /\ route' \in Route /\ Steady /\ route'.state # "none" /\ route'.application = "applied"
        /\ route'.owner = route.owner /\ route'.machine = route.machine
        /\ route'.version = route.version
    BY <1>3, <2>1, <2>3, <2>4 DEF Route, Steady
  <2>6. JobInv'
    <3>1. route.version # 0 /\ route.machine \in Machines
      BY <1>5, <1>9 DEF StillWanted, JobInv
    <3> QED BY <1>5, <1>6, <1>7, <2>3, <2>5, <3>1 DEF JobInv, Steady
  <2> QED BY <1>1, <1>2, <1>6, <1>7, <2>5, <2>6 DEF GuestTypeOK, ControlTypeOK, guestVars
<1> QED BY <1>8, <1>9 DEF SaveApplied

LEMMA ControlStepKeeps ==
  ASSUME TypeOK, JobInv, ControlStep
  PROVE  /\ GuestTypeOK' /\ ControlTypeOK' /\ JobInv'
         /\ \/ Steady
            \/ route'.version = route.version + 1 /\ route'.acked = route.acked
<1>0. GuestTypeOK /\ ControlTypeOK
  BY DEF TypeOK
<1>1. CASE \E a \in Accounts : CreateChallenge(a) \/ LookUp(a) \/ SaveVerified(a) \/ ChallengeExpires(a)
  <2>1. PICK a \in Accounts, to \in {"issued", "looked_up", "verified", "expired"} :
          /\ challenge' = [challenge EXCEPT ![a] = to]
          /\ UNCHANGED <<up, dns, route, target, job, guestVars>>
    BY <1>1 DEF CreateChallenge, LookUp, SaveVerified, ChallengeExpires, Challenged
  <2> QED BY <1>0, <2>1 DEF GuestTypeOK, ControlTypeOK, guestVars, JobInv, Steady
<1>2. CASE \E a \in Accounts : ChangeDns(a)
  BY <1>0, <1>2 DEF ChangeDns, GuestTypeOK, ControlTypeOK, guestVars, JobInv, Steady
<1>3. CASE \E m \in Machines : DestroyMachine(m)
  BY <1>0, <1>3 DEF DestroyMachine, GuestTypeOK, ControlTypeOK, guestVars, JobInv, Steady
<1>4. CASE \E a \in Accounts : Remove(a)
  <2>1. PICK a \in Accounts : route.owner = a /\ Admit(a, route.machine, "removed")
    BY <1>4 DEF Remove
  <2>2. route.machine \in Machines
    BY <2>1, HostingAssumption DEF JobInv
  <2> QED BY <2>1, <2>2, AdmitStep
<1>5. CASE \E a \in Accounts, m \in Machines : Publish(a, m)
  BY <1>5, AdmitStep DEF Publish
<1>6. ASSUME NEW w \in Workers, Claim(w)
      PROVE  GuestTypeOK' /\ ControlTypeOK' /\ JobInv' /\ Steady
  BY <1>6, ClaimStep
<1>7. ASSUME NEW w \in Workers, ClaimBlocked(w)
      PROVE  GuestTypeOK' /\ ControlTypeOK' /\ JobInv' /\ Steady
  <2>1. /\ route' = [route EXCEPT !.application = "blocked"] /\ UNCHANGED <<up, dns, challenge, target, job, guestVars>>
        /\ route.application = "pending"
    BY <1>7 DEF ClaimBlocked
  <2>2. /\ route' \in Route /\ Steady /\ route'.state = route.state /\ route'.application = "blocked"
        /\ route'.owner = route.owner /\ route'.machine = route.machine
    BY <1>0, <2>1, RouteFacts DEF Route, Steady
  <2>3. JobInv'
    BY <2>1, <2>2 DEF JobInv, Steady
  <2> QED BY <1>0, <2>1, <2>2, <2>3 DEF GuestTypeOK, ControlTypeOK, guestVars
<1>8. ASSUME NEW w \in Workers, Send(w)
      PROVE  GuestTypeOK' /\ ControlTypeOK' /\ JobInv' /\ Steady
  <2>1. job[w].at = "claimed" /\ Ask(job[w].machine, job[w].c)
        /\ job' = [job EXCEPT ![w].at = "sent"] /\ UNCHANGED <<up, dns, challenge, route, target>>
    BY <1>8 DEF Send
  <2>2. job[w] # NoJob /\ job[w] \in Job /\ job[w].machine \in Machines /\ job[w].c \in Commands
    BY <1>0, <2>1, HasJob, JobFacts
  <2>3. cmd' \in [Machines -> {Idle} \cup Running]
    BY <1>0, <2>1, <2>2 DEF Ask, GuestTypeOK, Running
  <2>4. GuestTypeOK'
    BY <1>0, <2>1, <2>3 DEF Ask, GuestTypeOK
  <2>5. job \in [Workers -> {NoJob} \cup Job]
    BY <1>0, RouteFacts
  <2>6. /\ job' \in [Workers -> {NoJob} \cup Job] /\ job'[w].c = job[w].c
        /\ \A x \in Workers : x # w => job'[x] = job[x]
    BY <2>1, <2>2, <2>5 DEF Job
  <2>7. Steady
    BY <2>1 DEF Steady
  <2>8. JobInv'
    BY <2>1, <2>2, <2>6 DEF JobInv
  <2> QED BY <1>0, <2>1, <2>4, <2>6, <2>7, <2>8 DEF ControlTypeOK
<1>9. ASSUME NEW w \in Workers, GuestReplied(w) \/ NothingToRemove(w)
      PROVE  GuestTypeOK' /\ ControlTypeOK' /\ JobInv' /\ Steady
  <2>1. job[w] # NoJob
    BY <1>0, <1>9, HasJob DEF GuestReplied, NothingToRemove
  <2> QED BY <1>9, <2>1, SaveStep DEF GuestReplied, NothingToRemove
<1>10. ASSUME NEW w \in Workers, JobFails(w) \/ WorkerDies(w)
       PROVE  GuestTypeOK' /\ ControlTypeOK' /\ JobInv' /\ Steady
  <2>1. /\ job' = [job EXCEPT ![w] = NoJob] /\ UNCHANGED <<up, dns, challenge, target, guestVars>>
        /\ \/ route' = route
           \/ route.application = "pending" /\ route' = [route EXCEPT !.application = "blocked"]
    BY <1>10 DEF JobFails, WorkerDies
  <2>2. job \in [Workers -> {NoJob} \cup Job] /\ route \in Route
    BY <1>0, RouteFacts
  <2>3. job' \in [Workers -> {NoJob} \cup Job] /\ \A x \in Workers : job'[x] = NoJob \/ job'[x] = job[x]
    BY <2>1, <2>2
  <2>4. /\ route' \in Route /\ Steady /\ route'.state = route.state
        /\ route'.application = route.application \/ (route.application = "pending" /\ route'.application = "blocked")
        /\ route'.owner = route.owner /\ route'.machine = route.machine
    <3>1. CASE route' = route
      BY <2>2, <3>1 DEF Steady
    <3>2. CASE route.application = "pending" /\ route' = [route EXCEPT !.application = "blocked"]
      BY <2>2, <3>2 DEF Route, Steady
    <3> QED BY <2>1, <3>1, <3>2
  <2>5. JobInv'
    BY <2>1, <2>3, <2>4 DEF JobInv, Steady
  <2> QED BY <1>0, <2>1, <2>3, <2>4, <2>5 DEF GuestTypeOK, ControlTypeOK, guestVars
<1> QED BY <1>1, <1>2, <1>3, <1>4, <1>5, <1>6, <1>7, <1>8, <1>9, <1>10 DEF ControlStep

-----------------------------------------------------------------------------
\* The steps of the controller.
LEMMA SnapFacts ==
  ASSUME TypeOK
  PROVE  /\ gw \in [at : {"down", "idle", "reapplied", "fetched", "reloaded", "saved"}, snap : Snapshot]
         /\ gw.snap \in Snapshot /\ running \in Snapshot /\ saved \in Snapshot /\ acking \subseteq Versions
         /\ ControlTypeOK /\ GuestTypeOK
BY DEF TypeOK

\* Steps of synchronize that acknowledge nothing.
SyncStep == Start \/ Reapply \/ Fetch \/ ReloadGateway \/ SaveLastGood \/ SyncFails \/ GatewayDown

LEMMA SyncStepKeeps ==
  ASSUME HostingInv, SyncStep
  PROVE  /\ HostingInv' /\ UNCHANGED <<guestVars, controlVars, acking>>
         /\ running' \in {running, saved, gw.snap, Nothing} /\ saved' \in {saved, gw.snap}
         /\ gw'.snap = gw.snap \/ gw'.snap = Listed
<1>0. /\ TypeOK /\ JobInv /\ SyncInv /\ RemovalInv
  BY DEF HostingInv
<1>1. /\ gw \in [at : {"down", "idle", "reapplied", "fetched", "reloaded", "saved"}, snap : Snapshot]
      /\ gw.snap \in Snapshot /\ running \in Snapshot /\ saved \in Snapshot /\ acking \subseteq Versions
      /\ ControlTypeOK /\ GuestTypeOK
  BY <1>0, SnapFacts
<1>2. UNCHANGED <<guestVars, controlVars, acking>>
  BY DEF SyncStep, Start, Reapply, Fetch, ReloadGateway, SaveLastGood, SyncFails, GatewayDown, Step
<1>3. Nothing \in Snapshot /\ Nothing.kind # "live"
  BY DEF Snapshot, Nothing
<1>4. \A from, to : Step(from, to) /\ to \in {"down", "idle", "reapplied", "fetched", "reloaded", "saved"} =>
        /\ gw.at = from /\ gw'.at = to /\ gw'.snap = gw.snap
        /\ gw' \in [at : {"down", "idle", "reapplied", "fetched", "reloaded", "saved"}, snap : Snapshot]
  BY <1>1 DEF Step
<1>5. /\ gw' \in [at : {"down", "idle", "reapplied", "fetched", "reloaded", "saved"}, snap : Snapshot]
      /\ running' \in {running, saved, gw.snap, Nothing} /\ saved' \in {saved, gw.snap}
      /\ gw'.snap = gw.snap \/ gw'.snap = Listed
      /\ gw'.at \in {"reloaded", "saved"} => running' = gw'.snap
      /\ gw'.at = "saved" => saved' = gw'.snap
      /\ gw'.at \in {"fetched", "reloaded", "saved"} =>
           gw'.snap = Listed \/ (gw'.snap = gw.snap /\ gw.at \in {"fetched", "reloaded", "saved"})
      /\ running' = gw.snap => running = gw.snap \/ saved = gw.snap \/ gw.snap = Nothing \/ gw.at = "fetched"
      /\ saved' = gw.snap => saved = gw.snap \/ gw.at = "reloaded"
  <2>1. CASE Start \/ Reapply
    <3>1. gw'.at \in {"idle", "reapplied"} /\ gw'.snap = gw.snap /\ saved' = saved
          /\ running' \in {saved, running}
          /\ gw' \in [at : {"down", "idle", "reapplied", "fetched", "reloaded", "saved"}, snap : Snapshot]
      BY <1>4, <2>1 DEF Start, Reapply
    <3> QED BY <3>1
  <2>2. CASE Fetch
    <3>1. gw' = [at |-> "fetched", snap |-> Listed] /\ running' = running /\ saved' = saved
      BY <2>2 DEF Fetch
    <3>2. Listed \in Snapshot
      BY <1>0, ListedType
    <3> QED BY <3>1, <3>2
  <2>3. CASE ReloadGateway
    <3>1. gw.at = "fetched" /\ gw'.at = "reloaded" /\ gw'.snap = gw.snap /\ running' = gw.snap /\ saved' = saved
          /\ gw' \in [at : {"down", "idle", "reapplied", "fetched", "reloaded", "saved"}, snap : Snapshot]
      BY <1>4, <2>3 DEF ReloadGateway
    <3> QED BY <3>1
  <2>4. CASE SaveLastGood
    <3>1. gw.at = "reloaded" /\ gw'.at = "saved" /\ gw'.snap = gw.snap /\ running' = running /\ saved' = gw.snap
          /\ gw' \in [at : {"down", "idle", "reapplied", "fetched", "reloaded", "saved"}, snap : Snapshot]
      BY <1>4, <2>4 DEF SaveLastGood
    <3>2. running = gw.snap
      BY <1>0, <3>1 DEF SyncInv
    <3> QED BY <3>1, <3>2
  <2>5. CASE SyncFails \/ GatewayDown
    <3>1. gw'.at \in {"idle", "down"} /\ gw'.snap = gw.snap /\ running' \in {running, Nothing} /\ saved' = saved
          /\ gw' \in [at : {"down", "idle", "reapplied", "fetched", "reloaded", "saved"}, snap : Snapshot]
      BY <1>4, <2>5 DEF SyncFails, GatewayDown
    <3> QED BY <3>1
  <2> QED BY <2>1, <2>2, <2>3, <2>4, <2>5 DEF SyncStep
<1>6. TypeOK'
  <2>1. GuestTypeOK' /\ ControlTypeOK'
    BY <1>1, <1>2 DEF GuestTypeOK, ControlTypeOK, guestVars, controlVars
  <2>2. running' \in Snapshot /\ saved' \in Snapshot /\ acking' \subseteq Versions
    BY <1>1, <1>2, <1>3, <1>5
  <2> QED BY <1>5, <2>1, <2>2 DEF TypeOK
<1>7. JobInv'
  BY <1>0, <1>2 DEF JobInv, controlVars
<1>8. SyncInv'
  BY <1>5 DEF SyncInv
<1>9. RemovalInv'
  <2>1. SUFFICES ASSUME route.state = "removed", route.version \in acking \/ route.acked = route.version
                 PROVE  /\ running'.kind # "live" /\ saved'.kind # "live"
                        /\ gw'.at \in {"fetched", "reloaded", "saved"} => gw'.snap.kind # "live"
    BY <1>0, <1>2 DEF RemovalInv, controlVars
  <2>2. /\ running.kind # "live" /\ saved.kind # "live"
        /\ gw.at \in {"fetched", "reloaded", "saved"} => gw.snap.kind # "live"
    BY <1>0, <2>1 DEF RemovalInv
  <2>3. Listed.kind = "removed"
    BY <1>0, <2>1, ListedType
  <2> QED BY <1>3, <1>5, <2>2, <2>3
<1> QED BY <1>2, <1>5, <1>6, <1>7, <1>8, <1>9 DEF HostingInv

\* acknowledge: only what the gateway runs and has saved is acknowledged.
LEMMA AcknowledgeKeeps ==
  ASSUME HostingInv, Acknowledge
  PROVE  /\ HostingInv' /\ UNCHANGED <<guestVars, controlVars, running, saved>> /\ gw'.snap = gw.snap
         /\ running = Listed /\ saved = Listed /\ gw.snap = Listed
         /\ \A v \in acking' : v \in acking \/ v = Listed.version
<1>0. /\ TypeOK /\ JobInv /\ SyncInv /\ RemovalInv
  BY DEF HostingInv
<1>1. /\ gw \in [at : {"down", "idle", "reapplied", "fetched", "reloaded", "saved"}, snap : Snapshot]
      /\ gw.snap \in Snapshot /\ running \in Snapshot /\ saved \in Snapshot /\ acking \subseteq Versions
      /\ ControlTypeOK /\ GuestTypeOK
  BY <1>0, SnapFacts
<1>2. /\ gw.at = "saved" /\ Listed = gw.snap /\ gw' = [gw EXCEPT !.at = "idle"]
      /\ acking' = acking \cup ({Listed.version} \ {0})
      /\ UNCHANGED <<guestVars, controlVars, running, saved>>
  BY DEF Acknowledge, Step
<1>3. /\ gw'.at = "idle" /\ gw'.snap = gw.snap
      /\ gw' \in [at : {"down", "idle", "reapplied", "fetched", "reloaded", "saved"}, snap : Snapshot]
  BY <1>1, <1>2
<1>4. running = Listed /\ saved = Listed
  BY <1>0, <1>2 DEF SyncInv
<1>5. /\ Listed.version <= route.version /\ (Listed.version = 0 \/ Listed.version \in Versions)
      /\ route.state = "removed" => Listed.kind = "removed"
  <2>1. Listed.version <= route.version /\ (route.state = "removed" => Listed.kind = "removed")
    BY <1>0, ListedType
  <2>2. Listed \in Snapshot
    BY <1>0, ListedType
  <2> QED BY <2>1, <2>2 DEF Snapshot, Nothing
<1>6. TypeOK'
  <2>1. GuestTypeOK' /\ ControlTypeOK'
    BY <1>1, <1>2 DEF GuestTypeOK, ControlTypeOK, guestVars, controlVars
  <2>2. acking' \subseteq Versions
    BY <1>1, <1>2, <1>5
  <2> QED BY <1>1, <1>2, <1>3, <2>1, <2>2 DEF TypeOK
<1>7. JobInv'
  BY <1>0, <1>2 DEF JobInv, controlVars
<1>8. SyncInv'
  BY <1>3 DEF SyncInv
<1>9. \A v \in acking' : v \in acking \/ v = Listed.version
  BY <1>2
<1>10. RemovalInv'
  <2>1. route' = route
    BY <1>2 DEF controlVars
  <2>2. \A v \in acking' : v <= route.version
    BY <1>0, <1>5, <1>9 DEF RemovalInv
  <2>3. route.state = "removed" => running'.kind # "live" /\ saved'.kind # "live"
    BY <1>2, <1>4, <1>5
  <2> QED BY <1>0, <1>3, <2>1, <2>2, <2>3 DEF RemovalInv
<1> QED BY <1>2, <1>3, <1>4, <1>6, <1>7, <1>8, <1>9, <1>10 DEF HostingInv

LEMMA RecordAckKeeps ==
  ASSUME HostingInv, NEW v \in Versions, RecordAck(v) \/ AckLost(v)
  PROVE  /\ HostingInv' /\ UNCHANGED <<guestVars, up, target, job, gw, running, saved>>
         /\ v \in acking /\ acking' = acking \ {v} /\ route'.acked \in {route.acked, v}
         /\ route'.version = route.version /\ route'.state = route.state
<1>0. /\ TypeOK /\ JobInv /\ SyncInv /\ RemovalInv /\ ControlTypeOK /\ GuestTypeOK
  BY SnapFacts DEF HostingInv
<1>1. /\ v \in acking /\ acking' = acking \ {v}
      /\ UNCHANGED <<guestVars, up, dns, challenge, target, job, gw, running, saved>>
  BY DEF RecordAck, AckLost, controlVars
<1>2. PICK a \in {route.acked, v} : route' = [route EXCEPT !.acked = a]
  <2>1. route = [route EXCEPT !.acked = route.acked]
    BY <1>0, RouteFacts DEF Route
  <2> QED BY <2>1 DEF RecordAck, AckLost, controlVars
<1>3. route \in Route /\ route.acked \in 0..MaxVersion /\ v \in 0..MaxVersion
  BY <1>0, RouteFacts, Bounds
<1>4. /\ route' \in Route /\ route'.acked = a /\ route'.version = route.version /\ route'.state = route.state
      /\ route'.owner = route.owner /\ route'.machine = route.machine /\ route'.application = route.application
  BY <1>2, <1>3 DEF Route
<1>5. TypeOK'
  <2>1. GuestTypeOK' /\ ControlTypeOK'
    BY <1>0, <1>1, <1>4 DEF GuestTypeOK, ControlTypeOK, guestVars
  <2> QED BY <1>0, <1>1, <2>1 DEF TypeOK
<1>6. JobInv'
  BY <1>0, <1>1, <1>4 DEF JobInv
<1>7. SyncInv'
  BY <1>0, <1>1 DEF SyncInv
<1>8. RemovalInv'
  BY <1>0, <1>1, <1>2, <1>4 DEF RemovalInv
<1> QED BY <1>1, <1>2, <1>4, <1>5, <1>6, <1>7, <1>8 DEF HostingInv

LEMMA HostingStep == HostingInv /\ [Next]_vars => HostingInv'
<1> SUFFICES ASSUME HostingInv, [Next]_vars PROVE HostingInv'
  OBVIOUS
<1>0. /\ TypeOK /\ JobInv /\ SyncInv /\ RemovalInv
  BY DEF HostingInv
<1>1. CASE ControlStep /\ UNCHANGED gatewayVars
  <2>1. UNCHANGED <<gw, running, saved, acking>>
    BY <1>1 DEF gatewayVars
  <2>2. /\ GuestTypeOK' /\ ControlTypeOK' /\ JobInv'
        /\ \/ Steady
           \/ route'.version = route.version + 1 /\ route'.acked = route.acked
    BY <1>0, <1>1, ControlStepKeeps
  <2>3. TypeOK' /\ SyncInv'
    BY <1>0, <2>1, <2>2 DEF TypeOK, SyncInv
  <2>4. RemovalInv'
    <3>1. CASE Steady
      BY <1>0, <2>1, <3>1 DEF RemovalInv, Steady
    <3>2. CASE route'.version = route.version + 1 /\ route'.acked = route.acked
      <4>1. route.version \in Nat /\ route.acked \in Nat /\ \A v \in acking : v \in Nat
        BY <1>0, SnapFacts, RouteFacts, VersionNat
      <4>2. route.acked <= route.version /\ \A v \in acking : v <= route.version
        BY <1>0 DEF RemovalInv
      <4>3. /\ route'.acked <= route'.version /\ route'.acked # route'.version
            /\ \A v \in acking : v <= route'.version /\ v # route'.version
        BY <3>2, <4>1, <4>2
      <4> QED BY <2>1, <4>3 DEF RemovalInv
    <3> QED BY <2>2, <3>1, <3>2
  <2> QED BY <2>2, <2>3, <2>4 DEF HostingInv
<1>2. CASE \E m \in Machines : GuestStep(m) /\ UNCHANGED <<controlVars, gatewayVars>>
  <2>1. PICK m \in Machines : GuestStep(m)
    BY <1>2
  <2>2. UNCHANGED <<up, dns, challenge, route, target, job, gw, running, saved, acking>>
    BY <1>2 DEF controlVars, gatewayVars
  <2>3. GuestTypeOK'
    BY <1>0, <2>1, GuestType, SnapFacts
  <2>4. TypeOK'
    BY <1>0, <2>2, <2>3 DEF TypeOK, ControlTypeOK
  <2> QED BY <1>0, <2>2, <2>4 DEF HostingInv, JobInv, SyncInv, RemovalInv
<1>3. CASE SyncStep
  BY <1>3, SyncStepKeeps
<1>4. CASE Acknowledge
  BY <1>4, AcknowledgeKeeps
<1>5. CASE \E v \in Versions : RecordAck(v) \/ AckLost(v)
  BY <1>5, RecordAckKeeps
<1>6. CASE UNCHANGED vars
  <2>1. UNCHANGED <<up, dns, challenge, route, target, job, gw, running, saved, acking>> /\ UNCHANGED guestVars
    BY <1>6 DEF vars, controlVars, gatewayVars
  <2>2. TypeOK'
    BY <1>0, <2>1 DEF TypeOK, ControlTypeOK, GuestTypeOK, guestVars
  <2> QED BY <1>0, <2>1, <2>2 DEF HostingInv, JobInv, SyncInv, RemovalInv
<1> QED BY <1>1, <1>2, <1>3, <1>4, <1>5, <1>6 DEF Next, SyncStep

LEMMA HostingCorrect == Spec => []HostingInv
<1> QED BY InitHosting, HostingStep, PTL DEF Spec

\* hosting.ts and the gateway's controller: once the removal of a hostname is recorded
\* as acknowledged, the gateway does not forward the hostname, neither from what it
\* runs nor from last-good.json after a restart, whatever was in flight.
THEOREM RemovalInForce == Spec => []RemovalIsSeen
<1>1. HostingInv => RemovalIsSeen
  BY DEF HostingInv, RemovalInv, RemovalIsSeen
<1> QED BY <1>1, HostingCorrect, PTL

-----------------------------------------------------------------------------
(* Retention                                                                *)

\* A removed hostname is not published again.
Stays == route.state = "removed" => route'.state = "removed"
NotRepublished == [][Stays]_route

\* The machine and version that the gateway forwards to, will after a restart, or
\* may be told to.
InPlay(m, v) ==
  \/ running.kind = "live" /\ running.machine = m /\ running.version = v
  \/ saved.kind = "live" /\ saved.machine = m /\ saved.version = v
  \/ gw.snap.kind = "live" /\ gw.snap.machine = m /\ gw.snap.version = v
  \/ route.state # "removed" /\ target # Nowhere /\ target.machine = m /\ target.version = v

\* A command keeps a version: it retains it, and does not remove it.
Keeps(c, v) == c.retain <= v /\ (c.kind = "remove" => v < c.version)

\* What is in play lies at or above every acknowledgement and every retention that
\* was derived from one, below every removal, and is bound wherever its machine stands.
Served(m, v) ==
  /\ v <= route.version /\ (route.state = "removed" => v < route.version)
  /\ route.acked <= v /\ \A a \in acking : a <= v
  /\ \A w \in Workers : job[w] # NoJob => Keeps(job[w].c, v)
  /\ \A n \in Machines : cmd[n] # Idle => Keeps(cmd[n].c, v)
  /\ up[m] => v \in bindings[m] /\ v \in config[m] /\ v \in live[m]

PlayInv == \A m \in Machines, v \in Versions : InPlay(m, v) => Served(m, v)

\* What a command under way asks for: a version that was wanted, and a removal only if
\* the hostname is removed.
Due(c) ==
  /\ c.version <= route.version /\ c.retain <= c.version
  /\ c.kind = "remove" => route.state = "removed"

\* A guest's latest command is the latest it accepted, and what it bound is bound.
GuestInv(m) ==
  /\ prepared[m].version <= route.version /\ committed[m].version <= prepared[m].version
  /\ cmd[m] # Idle => Due(cmd[m].c)
  /\ cmd[m].at \in {"prepared", "reloaded"} =>
       prepared[m] = Wanted(cmd[m].c) /\ (cmd[m].c.kind = "put" => cmd[m].c.version \in bindings[m])
  /\ cmd[m].at = "reloaded" => live[m] = bindings[m]
  /\ committed[m].kind = "put" /\ committed[m].version = route.version =>
       route.version \in bindings[m] /\ route.version \in config[m] /\ route.version \in live[m]

CommandInv ==
  /\ \A w \in Workers : job[w] # NoJob => Due(job[w].c)
  /\ \A m \in Machines : GuestInv(m)

RetentionInv == HostingInv /\ PlayInv /\ CommandInv

-----------------------------------------------------------------------------
LEMMA InitRetention == Init => RetentionInv
<1> SUFFICES ASSUME Init PROVE RetentionInv
  OBVIOUS
<1>1. HostingInv
  BY InitHosting
<1>2. \A m, v : ~InPlay(m, v)
  BY DEF Init, ControlInit, InPlay, Nothing
<1>3. \A m \in Machines : GuestInv(m)
  <2>1. ASSUME NEW m \in Machines
        PROVE  /\ prepared[m] = NoRoute /\ committed[m] = NoRoute /\ cmd[m] = Idle /\ route.version = 0
    BY DEF Init, GuestInit, ControlInit
  <2>2. NoRoute.version = 0 /\ NoRoute.kind = "none" /\ Idle.at = "idle"
    BY DEF NoRoute, Idle
  <2> QED BY <2>1, <2>2 DEF GuestInv
<1> QED BY <1>1, <1>2, <1>3 DEF RetentionInv, PlayInv, CommandInv, Init, ControlInit

\* The facts about one guest that its own steps need.
LEMMA GuestFacts ==
  ASSUME RetentionInv, NEW m \in Machines
  PROVE  /\ prepared \in [Machines -> Change] /\ committed \in [Machines -> Change]
         /\ bindings \in [Machines -> SUBSET Versions] /\ config \in [Machines -> SUBSET Versions]
         /\ live \in [Machines -> SUBSET Versions] /\ cmd \in [Machines -> {Idle} \cup Running]
         /\ prepared[m].version \in Nat /\ committed[m].version \in Nat /\ route.version \in Nat
         /\ cmd[m] # Idle => /\ cmd[m] \in Running /\ cmd[m].c.version \in Nat /\ cmd[m].c.retain \in Nat
                             /\ cmd[m].c.kind \in {"put", "remove"}
<1>1. GuestTypeOK /\ ControlTypeOK
  BY SnapFacts DEF RetentionInv, HostingInv
<1>2. /\ prepared \in [Machines -> Change] /\ committed \in [Machines -> Change]
      /\ bindings \in [Machines -> SUBSET Versions] /\ config \in [Machines -> SUBSET Versions]
      /\ live \in [Machines -> SUBSET Versions] /\ cmd \in [Machines -> {Idle} \cup Running]
  BY <1>1 DEF GuestTypeOK
<1>3. \A x \in Change : x.version = 0 \/ x.version \in Versions
  BY DEF Change, NoRoute
<1>4. prepared[m].version \in Nat /\ committed[m].version \in Nat
  <2>1. prepared[m] \in Change /\ committed[m] \in Change
    BY <1>2
  <2> QED BY <1>3, <2>1, VersionNat
<1>5. ASSUME cmd[m] # Idle
      PROVE  /\ cmd[m] \in Running /\ cmd[m].c.version \in Nat /\ cmd[m].c.retain \in Nat
             /\ cmd[m].c.kind \in {"put", "remove"}
  <2>1. cmd[m] \in Running
    BY <1>2, <1>5
  <2>2. cmd[m].c.version \in Versions /\ cmd[m].c.retain \in Versions /\ cmd[m].c.kind \in {"put", "remove"}
    BY <2>1 DEF Running, Commands
  <2> QED BY <2>1, <2>2, VersionNat
<1> QED BY <1>1, <1>2, <1>4, <1>5, RouteFacts

\* What is in play may only shrink while a guest works: its versions stay bound.
LEMMA GuestRetains ==
  ASSUME RetentionInv, NEW g \in Machines, GuestStep(g),
         UNCHANGED <<controlVars, gatewayVars>>
  PROVE  PlayInv' /\ CommandInv'
<1>0. /\ PlayInv /\ GuestInv(g) /\ \A m \in Machines : GuestInv(m)
      /\ \A w \in Workers : job[w] # NoJob => Due(job[w].c)
  BY DEF RetentionInv, CommandInv
<1>1. UNCHANGED <<up, route, target, job, gw, running, saved, acking>>
  BY DEF controlVars, gatewayVars
<1>2. /\ prepared \in [Machines -> Change] /\ committed \in [Machines -> Change]
      /\ bindings \in [Machines -> SUBSET Versions] /\ config \in [Machines -> SUBSET Versions]
      /\ live \in [Machines -> SUBSET Versions] /\ cmd \in [Machines -> {Idle} \cup Running]
      /\ prepared[g].version \in Nat /\ committed[g].version \in Nat /\ route.version \in Nat
      /\ cmd[g] # Idle => /\ cmd[g] \in Running /\ cmd[g].c.version \in Nat /\ cmd[g].c.retain \in Nat
                          /\ cmd[g].c.kind \in {"put", "remove"}
  BY GuestFacts
<1>3. \A m \in Machines : m # g =>
        /\ prepared'[m] = prepared[m] /\ committed'[m] = committed[m] /\ bindings'[m] = bindings[m]
        /\ config'[m] = config[m] /\ live'[m] = live[m] /\ cmd'[m] = cmd[m]
  BY <1>2 DEF GuestStep, PrepareRoute, ReloadProxy, CommitRoute, DieUncommitted, EndCommand,
              RestartGuest, Goto
<1>4. cmd'[g] = Idle \/ (cmd[g] # Idle /\ cmd'[g].c = cmd[g].c)
  <2>1. CASE PrepareRoute(g) \/ ReloadProxy(g)
    <3>1. cmd[g].at \in {"asked", "prepared"}
      BY <2>1 DEF PrepareRoute, ReloadProxy, At
    <3>2. cmd[g] \in Running /\ cmd[g] # Idle
      BY <1>2, <3>1 DEF Idle
    <3> QED BY <1>2, <2>1, <3>2 DEF PrepareRoute, ReloadProxy, Goto, Running
  <2>2. CASE CommitRoute(g) \/ DieUncommitted(g) \/ EndCommand(g) \/ RestartGuest(g)
    BY <1>2, <2>2 DEF CommitRoute, DieUncommitted, EndCommand, RestartGuest
  <2> QED BY <2>1, <2>2 DEF GuestStep
\* The bindings of what is in play.
<1>5. ASSUME NEW v \in Versions, InPlay(g, v), up[g]
      PROVE  v \in bindings'[g] /\ v \in config'[g] /\ v \in live'[g]
  <2>1. /\ v \in bindings[g] /\ v \in config[g] /\ v \in live[g]
        /\ cmd[g] # Idle => Keeps(cmd[g].c, v)
    BY <1>0, <1>5 DEF PlayInv, Served
  <2>2. CASE PrepareRoute(g)
    <3>1. cmd[g] # Idle
      BY <2>2 DEF PrepareRoute, At, Idle
    <3>2. v \in Nat
      BY VersionNat
    <3>3. v >= cmd[g].c.retain /\ (v # cmd[g].c.version \/ cmd[g].c.kind = "put")
      BY <1>2, <2>1, <3>1, <3>2 DEF Keeps
    <3>4. v \in Retained(g, cmd[g].c)
      BY <2>1, <3>3 DEF Retained
    <3> QED BY <1>2, <2>1, <2>2, <3>4 DEF PrepareRoute
  <2>3. CASE ReloadProxy(g)
    BY <1>2, <2>1, <2>3 DEF ReloadProxy
  <2>4. CASE CommitRoute(g) \/ DieUncommitted(g)
    BY <1>2, <2>1, <2>4 DEF CommitRoute, DieUncommitted
  <2>5. CASE EndCommand(g) \/ RestartGuest(g)
    BY <1>2, <2>1, <2>5 DEF EndCommand, RestartGuest
  <2> QED BY <2>2, <2>3, <2>4, <2>5 DEF GuestStep
<1>6. PlayInv'
  <2> SUFFICES ASSUME NEW m \in Machines, NEW v \in Versions, InPlay(m, v)'
               PROVE  Served(m, v)'
    BY DEF PlayInv
  <2>1. InPlay(m, v)
    BY <1>1 DEF InPlay
  <2>2. Served(m, v)
    BY <1>0, <2>1 DEF PlayInv
  <2>3. up[m] => v \in bindings'[m] /\ v \in config'[m] /\ v \in live'[m]
    BY <1>3, <1>5, <2>1, <2>2 DEF Served
  <2>4. \A n \in Machines : cmd'[n] # Idle => Keeps(cmd'[n].c, v)
    BY <1>3, <1>4, <2>2 DEF Served
  <2> QED BY <1>1, <2>2, <2>3, <2>4 DEF Served, Keeps
<1>7. GuestInv(g)'
  <2>1. CASE PrepareRoute(g)
    <3>1. cmd[g].at = "asked" /\ cmd[g] # Idle
      BY <2>1 DEF PrepareRoute, At, Idle
    <3>2. PICK c \in Commands : c = cmd[g].c
      BY <1>2, <3>1 DEF Running
    <3>3. /\ Acceptable(g, c) /\ committed[g].version # c.version
          /\ bindings' = [bindings EXCEPT ![g] = Retained(g, c)]
          /\ prepared' = [prepared EXCEPT ![g] = Wanted(c)]
          /\ cmd' = [cmd EXCEPT ![g].at = "prepared"] /\ UNCHANGED <<committed, config, live>>
      BY <2>1, <3>2 DEF PrepareRoute, Goto
    <3>4. cmd[g] \in Running /\ c.version \in Nat /\ Due(c)
      BY <1>0, <1>2, <3>1, <3>2 DEF GuestInv
    <3>5. /\ prepared'[g] = Wanted(c) /\ bindings'[g] = Retained(g, c) /\ committed'[g] = committed[g]
          /\ cmd'[g].at = "prepared" /\ cmd'[g].c = c
      BY <1>2, <3>2, <3>3, <3>4 DEF Running
    <3>6. Wanted(c).version = c.version /\ (c.kind = "put" => c.version \in Retained(g, c))
      BY DEF Wanted, Retained
    <3>7. committed[g].version <= prepared[g].version /\ prepared[g].version <= c.version /\ c.version <= route.version
      <4>1. committed[g].version <= prepared[g].version
        BY <1>0 DEF GuestInv
      <4>2. prepared[g].version < c.version \/ prepared[g].version = c.version
        BY <3>3, <3>6 DEF Acceptable
      <4>3. c.version <= route.version
        BY <3>4 DEF Due
      <4> QED BY <1>2, <3>4, <4>1, <4>2, <4>3
    <3>8. committed[g].version <= c.version /\ committed[g].version # route.version
      BY <1>2, <3>3, <3>4, <3>7
    <3>9. Due(cmd[g].c)'
      BY <1>1, <3>4, <3>5 DEF Due
    <3> QED BY <1>1, <3>5, <3>6, <3>7, <3>8, <3>9 DEF GuestInv
  <2>2. CASE ReloadProxy(g)
    <3>1. cmd[g].at = "prepared" /\ cmd[g] # Idle
      BY <2>2 DEF ReloadProxy, At, Idle
    <3>2. /\ live' = [live EXCEPT ![g] = bindings[g]] /\ cmd' = [cmd EXCEPT ![g].at = "reloaded"]
          /\ UNCHANGED <<prepared, committed, bindings, config>>
      BY <2>2 DEF ReloadProxy, Goto
    <3>3. live'[g] = bindings[g] /\ cmd'[g].at = "reloaded" /\ cmd'[g].c = cmd[g].c
      BY <1>2, <3>1, <3>2 DEF Running
    <3>4. Due(cmd[g].c)'
      BY <1>0, <1>1, <3>1, <3>3 DEF GuestInv, Due
    <3> QED BY <1>0, <1>1, <3>1, <3>2, <3>3, <3>4 DEF GuestInv
  <2>3. CASE CommitRoute(g)
    <3>1. cmd[g].at = "reloaded" /\ cmd[g] # Idle
      BY <2>3 DEF CommitRoute, At, Idle
    <3>2. PICK c \in Commands : c = cmd[g].c
      BY <1>2, <3>1 DEF Running
    <3>3. /\ config'[g] = live[g] /\ committed'[g] = Wanted(c) /\ cmd'[g] = Idle
          /\ UNCHANGED <<prepared, bindings, live>>
      BY <1>2, <2>3, <3>2 DEF CommitRoute
    <3>4. prepared[g] = Wanted(c) /\ (c.kind = "put" => c.version \in bindings[g]) /\ live[g] = bindings[g]
          /\ prepared[g].version <= route.version
      BY <1>0, <3>1, <3>2 DEF GuestInv
    <3>5. Wanted(c).version = c.version /\ Wanted(c).kind = c.kind /\ Idle.at = "idle"
      BY DEF Wanted, Idle
    <3>6. prepared[g].version <= prepared[g].version
      BY <1>2
    <3> QED BY <1>1, <3>3, <3>4, <3>5, <3>6 DEF GuestInv
  <2>4. CASE EndCommand(g) \/ RestartGuest(g)
    <3>1. cmd'[g] = Idle /\ (live'[g] = live[g] \/ live'[g] = config[g])
          /\ UNCHANGED <<prepared, committed, bindings, config>>
      BY <1>2, <2>4 DEF EndCommand, RestartGuest
    <3>2. Idle.at = "idle"
      BY DEF Idle
    <3> QED BY <1>0, <1>1, <3>1, <3>2 DEF GuestInv
  <2>5. CASE DieUncommitted(g)
    <3>1. cmd'[g] = Idle /\ config'[g] = live[g] /\ UNCHANGED <<prepared, committed, bindings, live>>
      BY <1>2, <2>5 DEF DieUncommitted
    <3>2. Idle.at = "idle"
      BY DEF Idle
    <3> QED BY <1>0, <1>1, <3>1, <3>2 DEF GuestInv
  <2> QED BY <2>1, <2>2, <2>3, <2>4, <2>5 DEF GuestStep
<1>8. CommandInv'
  <2>1. ASSUME NEW m \in Machines, m # g PROVE GuestInv(m)'
    BY <1>0, <1>1, <1>3, <2>1 DEF GuestInv, Due
  <2> QED BY <1>0, <1>1, <1>7, <2>1 DEF CommandInv, Due
<1> QED BY <1>6, <1>8

\* A step that changes nothing but the gateway and what it acknowledged.
LEMMA GuestsKept ==
  ASSUME CommandInv, UNCHANGED <<guestVars, job>>,
         route'.version = route.version, route.state = "removed" => route'.state = "removed"
  PROVE  CommandInv'
<1>1. UNCHANGED <<prepared, committed, bindings, config, live, cmd>>
  BY DEF guestVars
<1> QED BY <1>1 DEF CommandInv, GuestInv, Due

LEMMA SyncRetains ==
  ASSUME RetentionInv, SyncStep
  PROVE  PlayInv' /\ CommandInv'
<1>0. PlayInv /\ CommandInv /\ HostingInv /\ TypeOK /\ JobInv
  BY DEF RetentionInv, HostingInv
<1>1. /\ UNCHANGED <<guestVars, controlVars, acking>>
      /\ running' \in {running, saved, gw.snap, Nothing} /\ saved' \in {saved, gw.snap}
      /\ gw'.snap = gw.snap \/ gw'.snap = Listed
  BY <1>0, SyncStepKeeps
<1>2. UNCHANGED <<prepared, committed, bindings, config, live, cmd, up, route, target, job, acking>>
  BY <1>1 DEF guestVars, controlVars
<1>3. Nothing.kind # "live"
  BY DEF Nothing
<1>4. Listed.kind = "live" => /\ route.state # "removed" /\ target # Nowhere
                             /\ Listed.machine = target.machine /\ Listed.version = target.version
  BY <1>0, ListedType
<1>5. ASSUME NEW m \in Machines, NEW v \in Versions, InPlay(m, v)'
      PROVE  InPlay(m, v)
  BY <1>1, <1>2, <1>3, <1>4, <1>5 DEF InPlay
<1>6. PlayInv'
  BY <1>0, <1>2, <1>5 DEF PlayInv, Served, Keeps
<1> QED BY <1>0, <1>1, <1>2, <1>6, GuestsKept

LEMMA AcknowledgeRetains ==
  ASSUME RetentionInv, Acknowledge
  PROVE  PlayInv' /\ CommandInv'
<1>0. PlayInv /\ CommandInv /\ HostingInv /\ TypeOK /\ JobInv
  BY DEF RetentionInv, HostingInv
<1>1. /\ UNCHANGED <<guestVars, controlVars, running, saved>> /\ gw'.snap = gw.snap
      /\ running = Listed /\ saved = Listed /\ gw.snap = Listed
      /\ \A v \in acking' : v \in acking \/ v = Listed.version
  BY <1>0, AcknowledgeKeeps
<1>2. UNCHANGED <<prepared, committed, bindings, config, live, cmd, up, route, target, job>>
  BY <1>1 DEF guestVars, controlVars
<1>3. /\ Listed \in Snapshot
      /\ route.state = "removed" => Listed.kind = "removed"
      /\ Listed.kind = "live" => /\ route.state # "removed" /\ target # Nowhere
                                 /\ Listed.machine = target.machine /\ Listed.version = target.version
  BY <1>0, ListedType
<1>4. PlayInv'
  <2> SUFFICES ASSUME NEW m \in Machines, NEW v \in Versions, InPlay(m, v)'
               PROVE  Served(m, v)'
    BY DEF PlayInv
  <2>1. InPlay(m, v)
    BY <1>1, <1>2 DEF InPlay
  <2>2. Served(m, v)
    BY <1>0, <2>1 DEF PlayInv
  <2>3. Listed.version = v \/ Listed.kind = "absent"
    <3>1. CASE Listed.kind = "live"
      BY <1>1, <1>3, <2>1, <3>1 DEF InPlay
    <3>2. CASE Listed.kind = "removed"
      <4>1. route.state = "removed"
        BY <3>2 DEF Listed
      <4> QED BY <1>1, <2>1, <3>2, <4>1 DEF InPlay
    <3> QED BY <1>3, <3>1, <3>2 DEF Snapshot, Nothing
  <2>4. Listed.kind = "absent" => Listed.version = 0
    BY <1>3 DEF Snapshot, Nothing
  <2>5. v \in Nat
    BY VersionNat
  <2>6. Listed.version <= v
    BY <2>3, <2>4, <2>5
  <2>7. \A a \in acking' : a <= v
    BY <1>1, <2>2, <2>6 DEF Served
  <2> QED BY <1>2, <2>2, <2>7 DEF Served, Keeps
<1> QED BY <1>0, <1>1, <1>2, <1>4, GuestsKept

LEMMA RecordAckRetains ==
  ASSUME RetentionInv, NEW a \in Versions, RecordAck(a) \/ AckLost(a)
  PROVE  PlayInv' /\ CommandInv'
<1>0. PlayInv /\ CommandInv /\ HostingInv
  BY DEF RetentionInv
<1>1. /\ UNCHANGED <<guestVars, up, target, job, gw, running, saved>>
      /\ a \in acking /\ acking' = acking \ {a} /\ route'.acked \in {route.acked, a}
      /\ route'.version = route.version /\ route'.state = route.state
  BY <1>0, RecordAckKeeps
<1>2. UNCHANGED <<prepared, committed, bindings, config, live, cmd>>
  BY <1>1 DEF guestVars
<1>3. PlayInv'
  <2> SUFFICES ASSUME NEW m \in Machines, NEW v \in Versions, InPlay(m, v)'
               PROVE  Served(m, v)'
    BY DEF PlayInv
  <2>1. Served(m, v)
    BY <1>0, <1>1 DEF PlayInv, InPlay
  <2> QED BY <1>1, <1>2, <2>1 DEF Served, Keeps
<1> QED BY <1>0, <1>1, <1>3, GuestsKept

-----------------------------------------------------------------------------
\* Commands: the new version lies above everything in play.
LEMMA AdmitRetains ==
  ASSUME RetentionInv, NEW a \in Accounts, NEW m \in Machines,
         NEW state \in {"pending", "removed"}, Admit(a, m, state),
         UNCHANGED gatewayVars, route.state = "removed" => state = "removed"
  PROVE  PlayInv' /\ CommandInv'
<1>0. PlayInv /\ CommandInv /\ TypeOK /\ JobInv /\ ControlTypeOK
  BY SnapFacts DEF RetentionInv, HostingInv
<1>1. /\ route'.version = route.version + 1 /\ route'.acked = route.acked /\ route'.state = state
      /\ job' = job /\ target' = target /\ up' = up
      /\ UNCHANGED <<prepared, committed, bindings, config, live, cmd>>
      /\ UNCHANGED <<gw, running, saved, acking>>
  BY <1>0, AdmitStep DEF guestVars, gatewayVars
<1>2. route.version \in Nat
  BY <1>0, RouteFacts
<1>3. PlayInv'
  <2> SUFFICES ASSUME NEW n \in Machines, NEW v \in Versions, InPlay(n, v)'
               PROVE  Served(n, v)'
    BY DEF PlayInv
  <2>1. InPlay(n, v)
    BY <1>1 DEF InPlay
  <2>2. Served(n, v) /\ v \in Nat
    BY <1>0, <2>1, VersionNat DEF PlayInv
  <2>3. v <= route.version
    BY <2>2 DEF Served
  <2>4. v <= route'.version /\ v < route'.version
    BY <1>1, <1>2, <2>2, <2>3
  <2> QED BY <1>1, <2>2, <2>4 DEF Served, Keeps
<1>4. ASSUME NEW x \in Nat, x <= route.version PROVE x <= route'.version /\ x # route'.version
  BY <1>1, <1>2, <1>4
<1>5. ASSUME NEW c, c.version \in Nat, Due(c)
      PROVE  /\ c.version <= route'.version /\ c.retain <= c.version
             /\ c.kind = "remove" => route'.state = "removed"
  BY <1>1, <1>4, <1>5 DEF Due
<1>6. \A w \in Workers : job'[w] # NoJob => Due(job[w].c)'
  <2> SUFFICES ASSUME NEW w \in Workers, job[w] # NoJob PROVE Due(job[w].c)'
    BY <1>1
  <2>1. Due(job[w].c) /\ job[w].c.version \in Nat
    BY <1>0, JobFacts, VersionNat DEF CommandInv
  <2> QED BY <1>1, <1>5, <2>1 DEF Due
<1>7. ASSUME NEW n \in Machines PROVE GuestInv(n)'
  <2>1. GuestInv(n) /\ prepared[n].version \in Nat /\ committed[n].version \in Nat
    BY <1>0, GuestFacts DEF CommandInv
  <2>2. committed[n].version <= route.version
    BY <1>2, <2>1 DEF GuestInv
  <2>3. prepared[n].version <= route'.version /\ committed[n].version # route'.version
    BY <1>4, <2>1, <2>2 DEF GuestInv
  <2>4. cmd[n] # Idle => Due(cmd[n].c)'
    <3> SUFFICES ASSUME cmd[n] # Idle PROVE Due(cmd[n].c)'
      OBVIOUS
    <3>1. Due(cmd[n].c) /\ cmd[n].c.version \in Nat
      BY <2>1, GuestFacts DEF GuestInv
    <3> QED BY <1>1, <1>5, <3>1 DEF Due
  <2> QED BY <1>1, <2>1, <2>3, <2>4 DEF GuestInv
<1> QED BY <1>3, <1>6, <1>7 DEF CommandInv

\* Steps that neither ask nor apply anything: machines may go, jobs may end.
LEMMA QuietRetains ==
  ASSUME RetentionInv, UNCHANGED <<guestVars, gatewayVars, target>>, Steady,
         \A m \in Machines : up'[m] => up[m],
         \A w \in Workers : job'[w] = NoJob \/ job'[w] = job[w]
  PROVE  PlayInv' /\ CommandInv'
<1>0. PlayInv /\ CommandInv
  BY DEF RetentionInv
<1>1. /\ UNCHANGED <<prepared, committed, bindings, config, live, cmd>> /\ target' = target
      /\ UNCHANGED <<gw, running, saved, acking>>
      /\ route'.version = route.version /\ route'.acked = route.acked
      /\ route'.state = "removed" <=> route.state = "removed"
  BY DEF guestVars, gatewayVars, Steady
<1>2. PlayInv'
  <2> SUFFICES ASSUME NEW m \in Machines, NEW v \in Versions, InPlay(m, v)'
               PROVE  Served(m, v)'
    BY DEF PlayInv
  <2>1. InPlay(m, v)
    BY <1>1 DEF InPlay
  <2>2. Served(m, v)
    BY <1>0, <2>1 DEF PlayInv
  <2> QED BY <1>1, <2>2 DEF Served, Keeps
<1>3. CommandInv'
  BY <1>0, <1>1 DEF CommandInv, GuestInv, Due
<1> QED BY <1>2, <1>3

\* claim: what a job carries is derived from the acknowledgement on record.
LEMMA ClaimRetains ==
  ASSUME RetentionInv, NEW w \in Workers, Claim(w), UNCHANGED gatewayVars
  PROVE  PlayInv' /\ CommandInv'
<1>0. PlayInv /\ CommandInv /\ TypeOK /\ JobInv /\ ControlTypeOK /\ RemovalInv
  BY SnapFacts DEF RetentionInv, HostingInv
<1>1. /\ UNCHANGED <<prepared, committed, bindings, config, live, cmd, up, target>>
      /\ UNCHANGED <<gw, running, saved, acking>> /\ route.application = "pending"
  BY DEF Claim, guestVars, gatewayVars
<1>2. /\ route'.version = route.version /\ route'.acked = route.acked
      /\ route'.state = "removed" <=> route.state = "removed"
  BY <1>0, ClaimStep DEF Steady
<1>3. /\ route.version \in Nat /\ route.acked \in Nat /\ route.acked <= route.version /\ route.version # 0
      /\ job \in [Workers -> {NoJob} \cup Job]
  BY <1>0, <1>1, RouteFacts DEF RemovalInv, JobInv
<1>4. PICK c : /\ job'[w].c = c /\ c.version = route.version
               /\ c.kind = "remove" <=> route.state = "removed"
               /\ c.retain = IF route.acked = 0 THEN 1 ELSE route.acked
  <2> DEFINE k == IF route.state = "removed" THEN "remove" ELSE "put"
             r == IF route.acked = 0 THEN 1 ELSE route.acked
             c == [version |-> route.version, kind |-> k, retain |-> r]
  <2>1. job' = [job EXCEPT ![w] = [at |-> "claimed", machine |-> route.machine, c |-> c]]
    BY DEF Claim
  <2>2. job'[w].c = c
    BY <1>3, <2>1
  <2>3. c.version = route.version /\ c.kind = k /\ c.retain = r
    OBVIOUS
  <2> HIDE DEF c
  <2> QED BY <2>2, <2>3
<1>5. \A x \in Workers : x # w => job'[x] = job[x]
  BY <1>3 DEF Claim
<1>6. PlayInv'
  <2> SUFFICES ASSUME NEW m \in Machines, NEW v \in Versions, InPlay(m, v)'
               PROVE  Served(m, v)'
    BY DEF PlayInv
  <2>1. InPlay(m, v)
    BY <1>1, <1>2 DEF InPlay
  <2>2. Served(m, v) /\ v \in Nat /\ 1 <= v
    BY <1>0, <2>1, VersionNat DEF PlayInv
  <2>3. Keeps(c, v)
    <3>1. c.retain <= v
      BY <1>4, <2>2 DEF Served
    <3>2. c.kind = "remove" => v < c.version
      BY <1>4, <2>2 DEF Served
    <3> QED BY <3>1, <3>2 DEF Keeps
  <2>4. \A x \in Workers : job'[x] # NoJob => Keeps(job'[x].c, v)
    BY <1>4, <1>5, <2>2, <2>3 DEF Served
  <2> QED BY <1>1, <1>2, <2>2, <2>4 DEF Served, Keeps
<1>7. c.version <= route.version /\ c.retain <= c.version
  BY <1>3, <1>4
<1>8. \A x \in Workers : job'[x] # NoJob => Due(job[x].c)'
  BY <1>0, <1>2, <1>4, <1>5, <1>7 DEF CommandInv, Due
<1>9. \A m \in Machines : GuestInv(m)'
  BY <1>0, <1>1, <1>2 DEF CommandInv, GuestInv, Due
<1> QED BY <1>6, <1>8, <1>9 DEF CommandInv

\* send: the guest is asked for what the job carries.
LEMMA SendRetains ==
  ASSUME RetentionInv, NEW w \in Workers, Send(w), UNCHANGED gatewayVars
  PROVE  PlayInv' /\ CommandInv'
<1>0. PlayInv /\ CommandInv /\ ControlTypeOK
  BY SnapFacts DEF RetentionInv, HostingInv
<1>1. /\ job[w].at = "claimed" /\ Ask(job[w].machine, job[w].c)
      /\ job' = [job EXCEPT ![w].at = "sent"] /\ UNCHANGED <<up, route, target>>
      /\ UNCHANGED <<gw, running, saved, acking>>
  BY DEF Send, gatewayVars
<1>2. job[w] # NoJob /\ job[w] \in Job /\ job[w].machine \in Machines /\ job[w].c \in Commands
  BY <1>0, <1>1, HasJob, JobFacts
<1>3. job \in [Workers -> {NoJob} \cup Job]
  BY <1>0, RouteFacts
<1>4. \A x \in Workers : job'[x].c = job[x].c /\ (job'[x] # NoJob => job[x] # NoJob)
  <2>1. job'[w].c = job[w].c /\ \A x \in Workers : x # w => job'[x] = job[x]
    BY <1>1, <1>2, <1>3 DEF Job
  <2> QED BY <1>2, <2>1
<1>5. PICK g \in Machines, c \in Commands : g = job[w].machine /\ c = job[w].c
  BY <1>2
<1>6. /\ cmd[g] = Idle /\ cmd' = [cmd EXCEPT ![g] = [at |-> "asked", c |-> c]]
      /\ UNCHANGED <<prepared, committed, bindings, config, live>>
  BY <1>1, <1>5 DEF Ask
<1>7. cmd'[g].at = "asked" /\ cmd'[g].c = c /\ \A n \in Machines : n # g => cmd'[n] = cmd[n]
  BY <1>6, GuestFacts
<1>8. PlayInv'
  <2> SUFFICES ASSUME NEW m \in Machines, NEW v \in Versions, InPlay(m, v)'
               PROVE  Served(m, v)'
    BY DEF PlayInv
  <2>1. InPlay(m, v)
    BY <1>1 DEF InPlay
  <2>2. Served(m, v)
    BY <1>0, <2>1 DEF PlayInv
  <2>3. Keeps(c, v)
    BY <1>2, <1>5, <2>2 DEF Served
  <2>4. \A n \in Machines : cmd'[n] # Idle => Keeps(cmd'[n].c, v)
    BY <1>7, <2>2, <2>3 DEF Served
  <2>5. \A x \in Workers : job'[x] # NoJob => Keeps(job'[x].c, v)
    BY <1>4, <2>2 DEF Served
  <2> QED BY <1>1, <1>6, <2>2, <2>4, <2>5 DEF Served, Keeps
<1>9. Due(c)
  BY <1>0, <1>2, <1>5 DEF CommandInv
<1>10. ASSUME NEW m \in Machines PROVE GuestInv(m)'
  <2>1. GuestInv(m)
    BY <1>0 DEF CommandInv
  <2>2. CASE m = g
    <3>1. Due(cmd[m].c)'
      BY <1>1, <1>7, <1>9, <2>2 DEF Due
    <3> QED BY <1>1, <1>6, <1>7, <2>1, <2>2, <3>1 DEF GuestInv
  <2>3. CASE m # g
    BY <1>1, <1>6, <1>7, <2>1, <2>3 DEF GuestInv, Due
  <2> QED BY <2>2, <2>3
<1>11. \A x \in Workers : job'[x] # NoJob => Due(job[x].c)'
  BY <1>0, <1>1, <1>4 DEF CommandInv, Due
<1> QED BY <1>8, <1>10, <1>11 DEF CommandInv

\* save: the version that becomes the target is bound, for the guest committed it.
LEMMA SaveRetains ==
  ASSUME RetentionInv, NEW w \in Workers, GuestReplied(w) \/ NothingToRemove(w), UNCHANGED gatewayVars
  PROVE  PlayInv' /\ CommandInv'
<1>0. PlayInv /\ CommandInv /\ ControlTypeOK /\ TypeOK /\ JobInv /\ RemovalInv
  BY SnapFacts DEF RetentionInv, HostingInv
<1>1. job[w] # NoJob
  BY <1>0, HasJob DEF GuestReplied, NothingToRemove
<1>2. PICK c \in Commands, g \in Machines : c = job[w].c /\ g = job[w].machine
  BY <1>0, <1>1, JobFacts
<1>3. PICK t \in {Nowhere, [machine |-> g, version |-> c.version]} :
        /\ SaveApplied(w, t)
        /\ t = Nowhere => c.kind = "remove"
        /\ committed[g] = Wanted(c) \/ c.kind = "remove"
  <2>1. CASE GuestReplied(w)
    <3> DEFINE t == [machine |-> g, version |-> c.version]
    <3>1. SaveApplied(w, t) /\ committed[g] = Wanted(c)
      BY <1>2, <2>1 DEF GuestReplied
    <3>2. t.machine = g /\ Nowhere.machine # g
      BY HostingAssumption DEF Nowhere
    <3> QED BY <3>1, <3>2
  <2>2. CASE NothingToRemove(w)
    BY <1>2, <2>2 DEF NothingToRemove
  <2> QED BY <2>1, <2>2
<1>4. /\ UNCHANGED <<prepared, committed, bindings, config, live, cmd, up>> /\ UNCHANGED guestVars
      /\ UNCHANGED <<gw, running, saved, acking>> /\ job' = [job EXCEPT ![w] = NoJob]
  BY <1>3 DEF SaveApplied, guestVars, gatewayVars
<1>5. Steady
  BY <1>0, <1>1, <1>2, <1>3, SaveStep
<1>6. \A x \in Workers : job'[x] = NoJob \/ job'[x] = job[x]
  BY <1>0, <1>4, RouteFacts
<1>7. CASE target' = target \/ route.state = "removed"
  <2>1. route'.version = route.version /\ route'.acked = route.acked
        /\ (route'.state = "removed" <=> route.state = "removed")
    BY <1>5 DEF Steady
  <2>2. PlayInv'
    <3> SUFFICES ASSUME NEW m \in Machines, NEW v \in Versions, InPlay(m, v)'
                 PROVE  Served(m, v)'
      BY DEF PlayInv
    <3>1. InPlay(m, v)
      BY <1>4, <1>7, <2>1 DEF InPlay
    <3>2. Served(m, v)
      BY <1>0, <3>1 DEF PlayInv
    <3> QED BY <1>4, <1>6, <2>1, <3>2 DEF Served, Keeps
  <2>3. CommandInv'
    BY <1>0, <1>4, <1>6, <2>1 DEF CommandInv, GuestInv, Due
  <2> QED BY <2>2, <2>3
<1>8. CASE StillWanted(w) /\ route.state # "removed"
  <2>1. target' = t /\ c.version = route.version
    BY <1>2, <1>3, <1>8 DEF SaveApplied, StillWanted
  <2>2. c.kind = "put" /\ committed[g] = Wanted(c)
    <3>1. c.kind # "remove" /\ c.kind \in {"put", "remove"}
      BY <1>0, <1>1, <1>2, <1>8 DEF CommandInv, Due, Commands
    <3> QED BY <1>3, <3>1
  <2>3. t = [machine |-> g, version |-> route.version]
    BY <1>3, <2>1, <2>2
  <2>4. route'.version = route.version /\ route'.acked = route.acked
        /\ route'.state # "removed" /\ route.state # "removed"
    BY <1>5, <1>8 DEF Steady
  <2>5. route.version \in bindings[g] /\ route.version \in config[g] /\ route.version \in live[g]
    <3>1. committed[g].kind = "put" /\ committed[g].version = route.version
      BY <2>1, <2>2 DEF Wanted
    <3> QED BY <1>0, <3>1 DEF CommandInv, GuestInv
  <2>6. route.acked <= route.version /\ (\A a \in acking : a <= route.version) /\ route.version \in Nat
    BY <1>0, RouteFacts DEF RemovalInv
  <2>7. ASSUME NEW d, d.version \in Nat, d.retain \in Nat, Due(d) PROVE Keeps(d, route.version)
    BY <1>8, <2>6, <2>7 DEF Due, Keeps
  <2>8. PlayInv'
    <3> SUFFICES ASSUME NEW m \in Machines, NEW v \in Versions, InPlay(m, v)'
                 PROVE  Served(m, v)'
      BY DEF PlayInv
    <3>1. CASE m = g /\ v = route.version
      <4>1. \A x \in Workers : job'[x] # NoJob => Keeps(job'[x].c, v)
        <5> SUFFICES ASSUME NEW x \in Workers, job[x] # NoJob PROVE Keeps(job[x].c, v)
          BY <1>6
        <5>1. Due(job[x].c) /\ job[x].c.version \in Nat /\ job[x].c.retain \in Nat
          BY <1>0, JobFacts, VersionNat DEF CommandInv
        <5> QED BY <2>7, <3>1, <5>1
      <4>2. \A n \in Machines : cmd[n] # Idle => Keeps(cmd[n].c, v)
        <5> SUFFICES ASSUME NEW n \in Machines, cmd[n] # Idle PROVE Keeps(cmd[n].c, v)
          OBVIOUS
        <5>1. Due(cmd[n].c)
          BY <1>0 DEF CommandInv, GuestInv
        <5>2. cmd[n].c.version \in Nat /\ cmd[n].c.retain \in Nat
          BY GuestFacts
        <5> QED BY <2>7, <3>1, <5>1, <5>2
      <4>3. v <= route.version
        BY <2>6, <3>1
      <4> QED BY <1>4, <2>4, <2>5, <2>6, <3>1, <4>1, <4>2, <4>3 DEF Served, Keeps
    <3>2. CASE ~(m = g /\ v = route.version)
      <4>1. InPlay(m, v)
        BY <1>4, <2>1, <2>3, <3>2 DEF InPlay
      <4>2. Served(m, v)
        BY <1>0, <4>1 DEF PlayInv
      <4> QED BY <1>4, <1>6, <2>4, <4>2 DEF Served, Keeps
    <3> QED BY <3>1, <3>2
  <2>9. CommandInv'
    BY <1>0, <1>4, <1>6, <2>4 DEF CommandInv, GuestInv, Due
  <2> QED BY <2>8, <2>9
<1> QED BY <1>3, <1>7, <1>8 DEF SaveApplied

LEMMA ControlRetains ==
  ASSUME RetentionInv, ControlStep, UNCHANGED gatewayVars, Stays
  PROVE  PlayInv' /\ CommandInv'
<1>0. ControlTypeOK /\ TypeOK /\ JobInv
  BY SnapFacts DEF RetentionInv, HostingInv
<1>1. CASE \E a \in Accounts : CreateChallenge(a) \/ LookUp(a) \/ SaveVerified(a) \/ ChallengeExpires(a) \/ ChangeDns(a)
  <2>1. UNCHANGED <<up, route, target, job, guestVars>>
    BY <1>1 DEF CreateChallenge, LookUp, SaveVerified, ChallengeExpires, Challenged, ChangeDns
  <2>2. Steady
    BY <2>1 DEF Steady
  <2> QED BY <2>1, <2>2, QuietRetains
<1>2. CASE \E m \in Machines : DestroyMachine(m)
  <2>1. UNCHANGED <<route, target, job, guestVars>>
    BY <1>2 DEF DestroyMachine
  <2>2. \A n \in Machines : up'[n] => up[n]
    BY <1>0, <1>2 DEF DestroyMachine, ControlTypeOK
  <2>3. Steady
    BY <2>1 DEF Steady
  <2> QED BY <2>1, <2>2, <2>3, QuietRetains
<1>3. CASE \E a \in Accounts : Remove(a)
  <2>1. PICK a \in Accounts : route.owner = a /\ Admit(a, route.machine, "removed")
    BY <1>3 DEF Remove
  <2>2. route.machine \in Machines
    BY <1>0, <2>1, HostingAssumption DEF JobInv
  <2> QED BY <2>1, <2>2, AdmitRetains
<1>4. CASE \E a \in Accounts, m \in Machines : Publish(a, m)
  <2>1. PICK a \in Accounts, m \in Machines : Admit(a, m, "pending")
    BY <1>4 DEF Publish
  <2>2. route.state # "removed"
    BY <1>0, <2>1, AdmitStep DEF Stays
  <2> QED BY <2>1, <2>2, AdmitRetains
<1>5. CASE \E w \in Workers : Claim(w)
  BY <1>5, ClaimRetains
<1>6. CASE \E w \in Workers : Send(w)
  BY <1>6, SendRetains
<1>7. CASE \E w \in Workers : GuestReplied(w) \/ NothingToRemove(w)
  BY <1>7, SaveRetains
<1>8. CASE \E w \in Workers : ClaimBlocked(w) \/ JobFails(w) \/ WorkerDies(w)
  <2>1. PICK w \in Workers : job' = job \/ job' = [job EXCEPT ![w] = NoJob]
    BY <1>8 DEF ClaimBlocked, JobFails, WorkerDies
  <2>2. UNCHANGED <<up, target, guestVars>>
        /\ (route' = route \/ route' = [route EXCEPT !.application = "blocked"])
    BY <1>8 DEF ClaimBlocked, JobFails, WorkerDies
  <2>3. Steady
    BY <1>0, <2>2, RouteFacts DEF Steady, Route
  <2>4. \A x \in Workers : job'[x] = NoJob \/ job'[x] = job[x]
    BY <1>0, <2>1, RouteFacts
  <2> QED BY <2>2, <2>3, <2>4, QuietRetains
<1> QED BY <1>1, <1>2, <1>3, <1>4, <1>5, <1>6, <1>7, <1>8 DEF ControlStep

LEMMA RetentionStep == RetentionInv /\ [Next]_vars /\ [Stays]_route => RetentionInv'
<1> SUFFICES ASSUME RetentionInv, [Next]_vars, [Stays]_route PROVE RetentionInv'
  OBVIOUS
<1>0. HostingInv'
  BY HostingStep DEF RetentionInv
<1>1. Stays
  BY DEF Stays
<1>2. CASE ControlStep /\ UNCHANGED gatewayVars
  BY <1>0, <1>1, <1>2, ControlRetains DEF RetentionInv
<1>3. CASE \E m \in Machines : GuestStep(m) /\ UNCHANGED <<controlVars, gatewayVars>>
  BY <1>0, <1>3, GuestRetains DEF RetentionInv
<1>4. CASE SyncStep
  BY <1>0, <1>4, SyncRetains DEF RetentionInv
<1>5. CASE Acknowledge
  BY <1>0, <1>5, AcknowledgeRetains DEF RetentionInv
<1>6. CASE \E v \in Versions : RecordAck(v) \/ AckLost(v)
  BY <1>0, <1>6, RecordAckRetains DEF RetentionInv
<1>7. CASE UNCHANGED vars
  <2>1. UNCHANGED <<guestVars, gatewayVars, up, route, target, job>>
    BY <1>7 DEF vars, controlVars
  <2>2. Steady
    BY <2>1 DEF Steady
  <2>3. PlayInv' /\ CommandInv'
    BY <2>1, <2>2, QuietRetains
  <2> QED BY <1>0, <2>3 DEF RetentionInv
<1> QED BY <1>2, <1>3, <1>4, <1>5, <1>6, <1>7 DEF Next, SyncStep

\* Retention in hosting.ts and guestctl: as long as a removed hostname is not published
\* again, the version that the gateway forwards to, now or after a restart from
\* last-good.json, is one its guest's proxy answers for while the machine stands.
\* Without the restriction the claim is false (run hosting_republish).
THEOREM ServedStaysBound == Spec /\ NotRepublished => []ServedIsBound
<1>1. RetentionInv => ServedIsBound
  <2> SUFFICES ASSUME RetentionInv, NEW s \in {running, saved}, s.kind = "live", up[s.machine]
               PROVE  s.version \in live[s.machine]
    BY DEF ServedIsBound
  <2>1. s \in Snapshot
    BY SnapFacts DEF RetentionInv, HostingInv
  <2>2. s.machine \in Machines /\ s.version \in Versions
    BY <2>1 DEF Snapshot, Nothing
  <2>3. InPlay(s.machine, s.version)
    BY DEF InPlay
  <2> QED BY <2>2, <2>3 DEF RetentionInv, PlayInv, Served
<1> QED BY <1>1, InitRetention, RetentionStep, PTL DEF Spec, NotRepublished
=============================================================================
