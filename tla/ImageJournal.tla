----------------------------- MODULE ImageJournal -----------------------------
(***************************************************************************)
(* The durable journal of an image build: one effect per command, one row  *)
(* per owned resource, and how both are brought up to date with what the   *)
(* provider shows. An exact-identity command that has to be repeated       *)
(* supersedes its effect; a create is never sent twice.                    *)
(*                                                                         *)
(* Source: apps/control/src/image-effect-journal.ts, image-resources.ts,   *)
(* image-effect-policy.ts, image-cleanup.ts,                               *)
(* packages/db/migrations/0015, 0016.                                      *)
(***************************************************************************)
EXTENDS ImageProvider

VARIABLES eff,     \* [Commands -> Effect], the latest effect of each command
          row      \* [Roles -> RowState], image_build_resources

journalVars == <<eff, row>>

Effect == [out : {"none", "prepared", "answered", "rejected", "unknown"},
           res : {"none", "pending", "confirmed", "failed"}]
RowState == {"none", "claimed", "observed", "absent"}

JournalTypeOK == eff \in [Commands -> Effect] /\ row \in [Roles -> RowState]

JournalInit ==
  /\ eff = [k \in Commands |-> [out |-> "none", res |-> "none"]]
  /\ row = [r \in Roles |-> "none"]

Pending(k) == eff[k].res = "pending"
NothingPending == \A k \in Commands : ~Pending(k)
Confirmed(r) == eff[<<"create", r>>].res = "confirmed"

\* Mutant: a create of unknown outcome that is not found counts as never made.
ForgetsUnfound(k) ==
  CASE eff[k].out = "rejected" \/ ~Exists(k[2]) -> "failed"
    [] res[k[2]] = "ready" -> "confirmed"
    [] OTHER -> "pending"

-----------------------------------------------------------------------------
(* reconcileImageEffect                                                      *)

\* A create is confirmed by the one resource that carries its labels and matches.
CreateResolution(k) ==
  CASE eff[k].out = "rejected" -> "failed"
    [] eff[k].out = "answered" /\ res[k[2]] = "failed" -> "failed"
    [] eff[k].out = "answered" /\ res[k[2]] = "creating" -> "pending"
    [] row[k[2]] # "absent" /\ res[k[2]] = "ready" -> "confirmed"
    [] OTHER -> "pending"

\* A deletion action that ended with the resource still there has failed;
\* an uncertain one is repeated against the same identity.
DeleteResolution(k) ==
  CASE eff[k].out = "rejected" -> "failed"
    [] ~Exists(k[2]) -> "confirmed"
    [] eff[k].out = "answered" -> IF res[k[2]] = "deleting" THEN "pending" ELSE "failed"
    [] OTHER -> "retry"

PowerResolution(k) ==
  CASE eff[k].out = "rejected" -> "failed"
    [] ~Exists("builder") -> "failed"
    [] power = "off" -> "confirmed"
    [] eff[k].out = "answered" -> IF power = "stopping" THEN "pending" ELSE "failed"
    [] OTHER -> "retry"

Resolution(k) ==
  IF ~Pending(k) THEN eff[k].res
  ELSE CASE k[1] = "create" -> CreateResolution(k)
         [] k[1] = "delete" -> DeleteResolution(k)
         [] OTHER           -> PowerResolution(k)

\* settle: a retry is not a resolution, the effect stays pending.
Settled(k) ==
  [eff[k] EXCEPT !.res = IF Resolution(k) = "retry" THEN "pending" ELSE Resolution(k)]

\* claimImageResource, then observeImageResource unless the action runs or failed.
CreateRow(k) ==
  CASE row[k[2]] = "absent" -> "absent"
    [] Exists(k[2]) /\ ~(eff[k].out = "answered" /\ res[k[2]] \in {"creating", "failed"}) -> "observed"
    [] eff[k].out = "answered" /\ row[k[2]] = "none" -> "claimed"
    [] OTHER -> row[k[2]]

\* An exact-identity read retires the row of a resource that is no longer there.
TargetRow(k) ==
  CASE eff[k].out = "rejected" -> row[k[2]]
    [] ~Exists(k[2]) -> "absent"
    [] Resolution(k) \in {"confirmed", "retry"} -> "observed"
    [] OTHER -> row[k[2]]

RowAfter(k) == IF ~Pending(k) THEN row[k[2]]
               ELSE IF IsCreate(k) THEN CreateRow(k) ELSE TargetRow(k)

-----------------------------------------------------------------------------
(* checkImageCommand                                                         *)

Owned(r) == row[r] \in {"claimed", "observed"} /\ Confirmed(r) /\ Exists(r)

\* The dependencies of a create are confirmed, owned and in the state it needs.
CreateAllowed(r, sanitized, prepared) ==
  /\ \A n \in Needs(r) : Owned(n)
  /\ r = "builder" => ~Attached("builder_ip") /\ ~Attached("access_firewall")
  /\ r = "verifier" => /\ prepared /\ sanitized
                       /\ row["snapshot"] = "observed" /\ res["snapshot"] = "ready"
                       /\ Owned("builder") /\ power = "off"
                       /\ ~Attached("verifier_ip") /\ ~Exists("verifier")
  /\ r = "snapshot" => /\ sanitized /\ power = "off"
                       /\ eff[<<"power_off", "builder">>].res = "confirmed"

DeleteAllowed(r, releasing) ==
  /\ ~(releasing /\ r = "snapshot")
  /\ row[r] \in {"claimed", "observed"}
  /\ Exists(r) =>
       /\ r \notin Servers => \A s \in Servers : ~Pending(<<"create", s>>)
       /\ r = "builder" => ~Pending(<<"create", "snapshot">>)
       /\ ~Attached(r)
       /\ r = "access_key" => \A s \in Servers : row[s] \notin {"claimed", "observed"}

-----------------------------------------------------------------------------
(* planImageCleanup: every pending effect is reconciled, every row observed, *)
(* and the first resource nothing waits for is chosen.                       *)

CleanupEff == [k \in Commands |-> Settled(k)]
StillPending(k) == CleanupEff[k].res = "pending"

\* A 404 alone does not retire a row whose create may still appear.
CleanupRow ==
  [r \in Roles |->
    LET c == <<"create", r>>  d == <<"delete", r>>
        found == RowAfter(c)
        gone == \/ TargetRow(d) = "absent" /\ Pending(d)
                \/ r = "builder" /\ Pending(<<"power_off", r>>) /\ TargetRow(<<"power_off", r>>) = "absent"
    IN CASE found \in {"none", "absent"} -> found
         [] gone -> "absent"
         [] Exists(r) -> "observed"
         [] StillPending(c) -> found
         [] OTHER -> "absent"]

\* Mutant: the addresses go before the servers they are attached to.
IpsFirst(r) == IF r \in Ips THEN 0 ELSE IF r \in Servers THEN 1 ELSE 2

\* Server attachments must disappear before their address, firewall or access key.
DeletionRank(r) ==
  CASE r \in Servers -> 1 [] r = "snapshot" -> 2 [] r \in Ips -> 3
    [] r = "access_firewall" -> 4 [] r = "access_key" -> 5

Remaining(releasing) ==
  {r \in Roles : CleanupRow[r] \in {"claimed", "observed"} /\ ~(releasing /\ r = "snapshot")}

Deletable(releasing, pinned) ==
  {r \in Remaining(releasing) :
     /\ ~(r = "snapshot" /\ pinned)
     /\ CleanupRow[r] = "observed"
     /\ ~(StillPending(<<"create", r>>) /\ eff[<<"create", r>>].out = "answered" /\ res[r] = "creating")
     /\ r \notin Servers => \A s \in Servers : ~StillPending(<<"create", s>>)
     /\ r = "builder" => ~StillPending(<<"create", "snapshot">>)}

\* A deletion already under way comes first.
NextDeletions(releasing, pinned) ==
  LET open == {r \in Roles : StillPending(<<"delete", r>>)}
      able == Deletable(releasing, pinned)
  IN IF open # {} THEN open
     ELSE {r \in able : \A q \in able : DeletionRank(r) <= DeletionRank(q)}

=============================================================================
