---------------------------- MODULE ImageProvider ----------------------------
(***************************************************************************)
(* The provider side of an image build: the seven resources one build may  *)
(* own, the requests whose answer was lost, and the builder guest that is  *)
(* installed, sanitized, shut down and photographed.                       *)
(*                                                                         *)
(* Source: packages/hetzner/src/image-release.ts, image-resources.ts,      *)
(* packages/contracts/src/image-provider.ts, image-build.ts,               *)
(* packages/remote/src/image-builder.ts, packages/guestctl/src/image.ts.   *)
(***************************************************************************)
EXTENDS Naturals, FiniteSets

CONSTANT MaxFaults      \* bound: lost answers, rejections, failed actions, crashes

ASSUME ImageProviderAssumption == MaxFaults \in Nat

VARIABLES res,     \* [Roles -> Status], what the provider shows of each resource
          req,     \* commands sent without an answer that may still take effect
          power,   \* the builder's power
          guest,   \* how far the builder's disk has got
          clean,   \* history: the snapshot was taken of a sanitized, stopped disk
          faults

providerVars == <<res, req, power, guest, clean, faults>>

Servers == {"builder", "verifier"}
Ips     == {"builder_ip", "verifier_ip"}
Roles   == Servers \cup Ips \cup {"access_key", "access_firewall", "snapshot"}

Commands == ({"create", "delete"} \X Roles) \cup {<<"power_off", "builder">>}
IsCreate(k) == k[1] = "create"

\* settling: the action has ended, the configuration does not match the order yet.
Status == {"none", "creating", "failed", "settling", "ready", "deleting", "gone"}

ProviderTypeOK ==
  /\ res \in [Roles -> Status] /\ req \subseteq Commands
  /\ power \in {"on", "stopping", "off"}
  /\ guest \in {"fresh", "started", "installed", "preparing", "sanitized"}
  /\ clean \in BOOLEAN /\ faults \in 0 .. MaxFaults

ProviderInit ==
  /\ res = [r \in Roles |-> "none"] /\ req = {}
  /\ power = "off" /\ guest = "fresh" /\ clean = FALSE /\ faults = 0

Exists(r) == res[r] \notin {"none", "gone"}

\* What a create names and the provider insists on.
Needs(r) ==
  CASE r = "builder"  -> {"access_key", "access_firewall", "builder_ip"}
    [] r = "verifier" -> {"access_key", "access_firewall", "verifier_ip", "snapshot"}
    [] r = "snapshot" -> {"builder"}
    [] OTHER          -> {}

Attached(r) ==
  \/ r = "builder_ip" /\ Exists("builder")
  \/ r = "verifier_ip" /\ Exists("verifier")
  \/ r = "access_firewall" /\ \E s \in Servers : Exists(s)

\* The provider can carry the command out.
Feasible(k) ==
  CASE k[1] = "create" -> res[k[2]] = "none" /\ \A n \in Needs(k[2]) : Exists(n)
    [] k[1] = "delete" -> Exists(k[2]) /\ res[k[2]] \notin {"creating", "deleting"} /\ ~Attached(k[2])
    [] OTHER           -> Exists("builder") /\ power = "on"

\* Keys, firewalls and addresses are there at once; servers and images take an action.
Carried(k) ==
  CASE k[1] = "create" /\ k[2] \in Servers \cup {"snapshot"} -> "creating"
    [] k[1] = "create"                                       -> "ready"
    [] k[1] = "delete" /\ k[2] \in Servers                   -> "deleting"
    [] k[1] = "delete"                                       -> "gone"
    [] OTHER                                                 -> res[k[2]]

\* The command takes effect. power_off is an ACPI request: the guest may take its time.
Execute(k) ==
  /\ res' = [res EXCEPT ![k[2]] = Carried(k)]
  /\ power' = CASE k = <<"create", "builder">> -> "on"
                [] k[1] = "power_off" -> "stopping"
                [] OTHER -> power
  /\ clean' = IF k = <<"create", "snapshot">> THEN guest = "sanitized" /\ power = "off" ELSE clean
  /\ UNCHANGED guest

NotExecuted == UNCHANGED <<res, power, guest, clean>>

Fault == faults < MaxFaults /\ faults' = faults + 1

\* Every answer a submission can end in.
Answers == {"answered", "rejected", "unknown"}

\* submit: answered with a receipt, refused, or ended without an answer,
\* in which case the request was carried out, is still on its way or is lost.
Respond(k, answer) ==
  \/ answer = "answered" /\ Feasible(k) /\ Execute(k) /\ UNCHANGED <<req, faults>>
  \/ answer = "rejected" /\ NotExecuted /\ UNCHANGED req
     /\ IF Feasible(k) THEN Fault ELSE UNCHANGED faults
  \/ /\ answer = "unknown" /\ Fault
     /\ \/ Feasible(k) /\ Execute(k) /\ UNCHANGED req
        \/ NotExecuted /\ req' \in {req, req \cup {k}}

-----------------------------------------------------------------------------
(* What the provider and the guest do by themselves.                         *)

\* A request without an answer is carried out late, or turns out impossible.
LateRequest(k) ==
  /\ k \in req /\ req' = req \ {k}
  /\ IF Feasible(k) THEN Execute(k) ELSE NotExecuted
  /\ UNCHANGED faults

Become(r, status) == res' = [res EXCEPT ![r] = status] /\ UNCHANGED <<req, power, guest, clean>>

CreateEnds(r) ==
  /\ res[r] = "creating"
  /\ \/ Become(r, "settling") /\ UNCHANGED faults
     \/ Become(r, "ready") /\ UNCHANGED faults
     \/ Become(r, "failed") /\ Fault

Settle(r) == res[r] = "settling" /\ Become(r, "ready") /\ UNCHANGED faults

DeleteEnds(r) ==
  /\ res[r] = "deleting"
  /\ \/ Become(r, "gone") /\ UNCHANGED faults
     \/ Become(r, "ready") /\ Fault

Stop == /\ power = "stopping" /\ power' = "off"
        /\ UNCHANGED <<res, req, guest, clean, faults>>

\* The shutdown action fails and the builder stays up.
StopFails == /\ power = "stopping" /\ Fault /\ power' = "on"
             /\ UNCHANGED <<res, req, guest, clean>>

\* An installation outlives the SSH session that started it.
InstallEnds == /\ guest = "started" /\ res["builder"] = "ready" /\ power = "on"
               /\ guest' = "installed" /\ UNCHANGED <<res, req, power, clean, faults>>

\* guestctl prepare-image refuses, is cut off while it erases, or proves the disk empty.
PrepareRefused     == guest
PrepareInterrupted == "preparing"
PrepareDone        == "sanitized"

\* validateImageBoot: a clone enrolls only from a sanitized image record.
ImageBoots == clean

ProviderFinishes == \E r \in Roles : CreateEnds(r) \/ DeleteEnds(r)

ProviderStep ==
  \/ ProviderFinishes
  \/ \E r \in Roles : Settle(r)
  \/ \E k \in Commands : LateRequest(k)
  \/ Stop \/ StopFails \/ InstallEnds

=============================================================================
