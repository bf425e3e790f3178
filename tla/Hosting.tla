------------------------------- MODULE Hosting -------------------------------
(***************************************************************************)
(* A hosted hostname in the control plane: who owns it, which version of   *)
(* the route is wanted, which one a guest has acknowledged (the target     *)
(* shown to the gateway) and which one the gateway has acknowledged.       *)
(*                                                                         *)
(* Source: apps/control/src/hosting.ts, hosting-domains.ts,                *)
(* hosting-runtime.ts. One hostname, custom or generated; a request with   *)
(* the wrong expected version, a replayed command id or a refused one      *)
(* changes nothing and is no step.                                         *)
(***************************************************************************)
EXTENDS GuestHosting

CONSTANTS Accounts, Workers, Nobody,
          Home,             \* [Machines -> Accounts]
          Named,            \* the machine a generated hostname names; Nobody for a custom one
          MaxAttempts,      \* guest attempts per version (5 in the code)
          Kinds             \* commands customers send, of {"publish", "remove"}

ASSUME HostingAssumption ==
  /\ Home \in [Machines -> Accounts] /\ Nobody \notin Accounts /\ Nobody \notin Machines
  /\ Named \in Machines \cup {Nobody}
  /\ MaxAttempts \in Nat \ {0} /\ Kinds \subseteq {"publish", "remove"}

VARIABLES
  up,           \* [Machines -> BOOLEAN], allocated; FALSE once destroyed
  dns,          \* the account whose challenge and addresses DNS answers with
  challenge,    \* [Accounts -> state of the account's domain challenge]
  route,        \* the hosting_routes row
  target,       \* its target column: the machine and version a guest acknowledged
  job           \* [Workers -> an apply_hosting_route job]

controlVars == <<up, dns, challenge, route, target, job>>

Nowhere == [machine |-> Nobody, version |-> 0]
Destination == {Nowhere} \cup [machine : Machines, version : Versions]
Route == [owner : Accounts \cup {Nobody}, machine : Machines \cup {Nobody}, version : 0..MaxVersion,
          state : {"none", "pending", "active", "removed"},
          application : {"none", "pending", "applied", "blocked"},
          attempts : 0..MaxAttempts, acked : 0..MaxVersion]
NoJob == [at |-> "idle"]
Job == [at : {"claimed", "sent"}, machine : Machines, c : Commands]

ControlTypeOK ==
  /\ up \in [Machines -> BOOLEAN] /\ dns \in Accounts \cup {Nobody}
  /\ challenge \in [Accounts -> {"none", "issued", "looked_up", "verified", "expired"}]
  /\ route \in Route /\ target \in Destination
  /\ job \in [Workers -> {NoJob} \cup Job]

ControlInit ==
  /\ up = [m \in Machines |-> TRUE] /\ dns = Nobody
  /\ challenge = [a \in Accounts |-> "none"]
  /\ route = [owner |-> Nobody, machine |-> Nobody, version |-> 0, state |-> "none",
              application |-> "none", attempts |-> 0, acked |-> 0]
  /\ target = Nowhere /\ job = [w \in Workers |-> NoJob]

-----------------------------------------------------------------------------
(* Domain challenges.                                                        *)

Challenged(a, from, to) ==
  /\ challenge[a] \in from /\ challenge' = [challenge EXCEPT ![a] = to]
  /\ UNCHANGED <<up, dns, route, target, job, guestVars>>

\* Names under the application domain are never challenged.
CreateChallenge(a) == Named = Nobody /\ Challenged(a, {"none", "expired"}, "issued")
\* verify: DNS is asked outside the transaction that records the answer.
LookUp(a) == dns = a /\ Challenged(a, {"issued"}, "looked_up")
SaveVerified(a) == Challenged(a, {"looked_up"}, "verified")
ChallengeExpires(a) == Challenged(a, {"issued", "looked_up", "verified"}, "expired")

-----------------------------------------------------------------------------
(* Commands.                                                                 *)

Admit(a, m, state) ==
  /\ route.version < MaxVersion
  /\ route' = [route EXCEPT !.owner = a, !.machine = m, !.version = @ + 1, !.state = state,
                            !.application = "pending", !.attempts = 0]
  /\ UNCHANGED <<up, dns, challenge, target, job, guestVars>>

\* A name is claimed for the machine it names or with a fresh verified challenge, and
\* stays with its account.
MayClaim(a, m) ==
  \/ route.owner = Nobody /\ (m = Named \/ challenge[a] = "verified")
  \/ route.owner = a

Publish(a, m) ==
  /\ "publish" \in Kinds /\ Home[m] = a /\ up[m]
  /\ MayClaim(a, m)
  /\ Admit(a, m, "pending")

Remove(a) ==
  /\ "remove" \in Kinds /\ route.owner = a
  /\ Admit(a, route.machine, "removed")

-----------------------------------------------------------------------------
(* advance: one job, possibly beside another of the same hostname.           *)

\* Mutant: the last failure of a version leaves it pending.
NeverBlocks(w) == FALSE /\ UNCHANGED <<controlVars, guestVars>>

\* The attempt is counted before anything is sent; what it carries is decided here.
Claim(w) ==
  /\ job[w] = NoJob /\ route.application = "pending" /\ route.attempts < MaxAttempts
  /\ route' = [route EXCEPT !.attempts = @ + 1]
  /\ job' = [job EXCEPT ![w] = [at |-> "claimed", machine |-> route.machine,
       c |-> [version |-> route.version, kind |-> IF route.state = "removed" THEN "remove" ELSE "put",
              retain |-> IF route.acked = 0 THEN 1 ELSE route.acked]]]
  /\ UNCHANGED <<up, dns, challenge, target, guestVars>>

\* A version whose attempts are used up is blocked by the next job.
ClaimBlocked(w) ==
  /\ job[w] = NoJob /\ route.application = "pending" /\ route.attempts = MaxAttempts
  /\ route' = [route EXCEPT !.application = "blocked"]
  /\ UNCHANGED <<up, dns, challenge, target, job, guestVars>>

\* Under the machine lock, with the allocation still there.
Send(w) ==
  /\ job[w].at = "claimed" /\ up[job[w].machine]
  /\ \A o \in Workers : job[o].at = "sent" => job[o].machine # job[w].machine
  /\ Ask(job[w].machine, job[w].c)
  /\ job' = [job EXCEPT ![w].at = "sent"]
  /\ UNCHANGED <<up, dns, challenge, route, target>>

StillWanted(w) == route.version = job[w].c.version

SaveApplied(w, t) ==
  /\ IF StillWanted(w)
     THEN /\ route' = [route EXCEPT !.state = IF job[w].c.kind = "remove" THEN "removed" ELSE "active",
                                    !.application = "applied"]
          /\ target' = t
     ELSE UNCHANGED <<route, target>>
  /\ job' = [job EXCEPT ![w] = NoJob]
  /\ UNCHANGED <<up, dns, challenge, guestVars>>

\* The guest acknowledges exactly what was asked.
GuestReplied(w) ==
  /\ job[w].at = "sent" /\ cmd[job[w].machine] = Idle
  /\ committed[job[w].machine] = Wanted(job[w].c)
  /\ SaveApplied(w, [machine |-> job[w].machine, version |-> job[w].c.version])

\* A removal needs no guest once the machine is destroyed.
NothingToRemove(w) ==
  /\ job[w].at = "claimed" /\ job[w].c.kind = "remove" /\ ~up[job[w].machine]
  /\ SaveApplied(w, Nowhere)

JobFails(w) ==
  /\ job[w] # NoJob /\ job' = [job EXCEPT ![w] = NoJob]
  /\ route' = IF /\ route.version = job[w].c.version /\ route.application = "pending"
                 /\ route.attempts = MaxAttempts
              THEN [route EXCEPT !.application = "blocked"] ELSE route
  /\ UNCHANGED <<up, dns, challenge, target, guestVars>>

WorkerDies(w) ==
  /\ job[w] # NoJob /\ job' = [job EXCEPT ![w] = NoJob]
  /\ UNCHANGED <<up, dns, challenge, route, target, guestVars>>

-----------------------------------------------------------------------------
DestroyMachine(m) ==
  /\ up[m] /\ up' = [up EXCEPT ![m] = FALSE]
  /\ UNCHANGED <<dns, challenge, route, target, job, guestVars>>

ChangeDns(a) ==
  /\ Named = Nobody /\ dns # a /\ dns' = a
  /\ UNCHANGED <<up, challenge, route, target, job, guestVars>>

\* gatewayState: what the gateway is told, and the version it acknowledges.
Listed ==
  CASE route.state = "removed" -> [kind |-> "removed", version |-> route.version]
    [] route.state \in {"pending", "active"} /\ target # Nowhere /\ up[target.machine] ->
         [kind |-> "live", version |-> target.version, machine |-> target.machine]
    [] OTHER -> [kind |-> "absent", version |-> 0]

ControlStep ==
  \/ \E a \in Accounts : CreateChallenge(a) \/ LookUp(a) \/ SaveVerified(a)
                         \/ ChallengeExpires(a) \/ ChangeDns(a) \/ Remove(a)
  \/ \E a \in Accounts, m \in Machines : Publish(a, m)
  \/ \E w \in Workers : Claim(w) \/ ClaimBlocked(w) \/ Send(w) \/ GuestReplied(w)
                        \/ NothingToRemove(w) \/ JobFails(w) \/ WorkerDies(w)
  \/ \E m \in Machines : DestroyMachine(m)

=============================================================================
