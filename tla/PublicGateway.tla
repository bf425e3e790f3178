---------------------------- MODULE PublicGateway ----------------------------
(***************************************************************************)
(* The public gateway's controller beside the control plane and the        *)
(* guests: it reapplies the snapshot it last saved, fetches the control    *)
(* plane's, reloads its proxy, saves the snapshot and acknowledges it, and *)
(* may fail or stop between any two of these steps.                        *)
(*                                                                         *)
(* Source: apps/public-gateway/src/controller.ts, index.ts, and            *)
(* acknowledge in apps/control/src/hosting.ts. One controller owns the     *)
(* gateway's directory, as docs/architecture/https-routing.md requires.    *)
(***************************************************************************)
EXTENDS Hosting

VARIABLES
  gw,           \* the controller: where it is in synchronize, and the snapshot it holds
  running,      \* the snapshot the gateway's proxy runs
  saved,        \* last-good.json
  acking        \* acknowledgements checked by the control plane, not yet recorded

gatewayVars == <<gw, running, saved, acking>>
vars == <<guestVars, controlVars, gatewayVars>>

Nothing == [kind |-> "absent", version |-> 0]
Snapshot == {Nothing} \cup [kind : {"removed"}, version : Versions]
              \cup [kind : {"live"}, version : Versions, machine : Machines]

\* Every variable has its type.
TypeOK ==
  /\ GuestTypeOK /\ ControlTypeOK
  /\ gw \in [at : {"down", "idle", "reapplied", "fetched", "reloaded", "saved"}, snap : Snapshot]
  /\ running \in Snapshot /\ saved \in Snapshot /\ acking \subseteq Versions

Init ==
  /\ GuestInit /\ ControlInit
  /\ gw = [at |-> "down", snap |-> Nothing] /\ running = Nothing /\ saved = Nothing /\ acking = {}

-----------------------------------------------------------------------------
Step(from, to) ==
  /\ gw.at = from /\ gw' = [gw EXCEPT !.at = to]
  /\ UNCHANGED <<guestVars, controlVars>>

\* start: the proxy comes up with what was saved.
Start == Step("down", "idle") /\ running' = saved /\ UNCHANGED <<saved, acking>>

\* Saved routes are reapplied before new ones are asked for. Nothing stands both for a
\* snapshot without the route and for none saved yet, which leaves the proxy alone.
Reapply ==
  /\ Step("idle", "reapplied") /\ UNCHANGED <<saved, acking>>
  /\ running' = saved \/ (saved = Nothing /\ running' = running)

Fetch ==
  /\ gw.at = "reapplied" /\ gw' = [at |-> "fetched", snap |-> Listed]
  /\ UNCHANGED <<guestVars, controlVars, running, saved, acking>>

ReloadGateway ==
  Step("fetched", "reloaded") /\ running' = gw.snap /\ UNCHANGED <<saved, acking>>

SaveLastGood ==
  Step("reloaded", "saved") /\ saved' = gw.snap /\ UNCHANGED <<running, acking>>

\* Mutant: the revision acknowledged is not compared with the current one.
AckAnything ==
  /\ Step("saved", "idle")
  /\ acking' = acking \cup ({Listed.version} \ {0})
  /\ UNCHANGED <<running, saved>>

\* acknowledge, first part: the revision must be the current one.
Acknowledge ==
  /\ Step("saved", "idle") /\ Listed = gw.snap
  /\ acking' = acking \cup ({Listed.version} \ {0})
  /\ UNCHANGED <<running, saved>>

\* Second part, a transaction of its own that the controller need not wait for.
RecordAck(v) ==
  /\ v \in acking /\ acking' = acking \ {v}
  /\ route' = [route EXCEPT !.acked = IF @ >= v THEN @ ELSE v]
  /\ UNCHANGED <<guestVars, up, dns, challenge, target, job, gw, running, saved>>

AckLost(v) ==
  /\ v \in acking /\ acking' = acking \ {v}
  /\ UNCHANGED <<guestVars, controlVars, gw, running, saved>>

\* A step of synchronize fails: the loop starts over.
SyncFails ==
  /\ \E at \in {"reapplied", "fetched", "reloaded", "saved"} : Step(at, "idle")
  /\ UNCHANGED <<running, saved, acking>>

\* The controller dies and leaves the proxy as it is, or stops it.
GatewayDown ==
  /\ \E at \in {"idle", "reapplied", "fetched", "reloaded", "saved"} : Step(at, "down")
  /\ running' \in {running, Nothing} /\ UNCHANGED <<saved, acking>>

Next ==
  \/ ControlStep /\ UNCHANGED gatewayVars
  \/ \E m \in Machines : GuestStep(m) /\ UNCHANGED <<controlVars, gatewayVars>>
  \/ Start \/ Reapply \/ Fetch \/ ReloadGateway \/ SaveLastGood \/ Acknowledge
  \/ (\E v \in Versions : RecordAck(v) \/ AckLost(v))
  \/ SyncFails \/ GatewayDown

Spec == Init /\ [][Next]_vars

\* The task queue hands a pending route out again (tasks.ts requeues it every minute),
\* whatever failed before, and a guest command under way runs to its end. Nothing is
\* asked of the gateway: a version settles whether or not it is ever acknowledged.
Fairness ==
  /\ \A w \in Workers :
       /\ SF_vars((Claim(w) \/ ClaimBlocked(w)) /\ UNCHANGED gatewayVars)
       /\ WF_vars((JobFails(w) \/ WorkerDies(w) \/ GuestReplied(w)) /\ UNCHANGED gatewayVars)

FairSpec == Spec /\ Fairness

-----------------------------------------------------------------------------
(* Properties.                                                               *)

\* A request the gateway forwards, now or once it has restarted from last-good.json,
\* meets a guest proxy that answers for that version of the route, for as long as the
\* machine stands: retention in the guest's command and the acknowledgement in
\* hosting.ts together keep the versions the gateway uses.
ServedIsBound ==
  \A s \in {running, saved} :
    s.kind = "live" /\ up[s.machine] => s.version \in live[s.machine]

\* A new guest configuration keeps answering for the version the gateway is serving
\* (the sentence of docs/architecture/https-routing.md, for one guest step).
NewConfigurationRetainsServed ==
  [][running.kind = "live" /\ up[running.machine] /\ running.version \in live[running.machine]
       => running.version \in live'[running.machine]]_vars

\* Once a removal is acknowledged the gateway does not forward the hostname, not even
\* after it fails or restarts.
RemovalIsSeen ==
  route.state = "removed" /\ route.acked = route.version =>
    running.kind # "live" /\ saved.kind # "live"

\* Every version is applied, given up as blocked or overtaken by a later command.
EveryVersionSettles ==
  \A v \in Versions :
    (route.version = v /\ route.application = "pending")
      ~> (route.version # v \/ route.application # "pending")

=============================================================================
