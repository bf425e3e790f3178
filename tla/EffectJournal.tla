---------------------------- MODULE EffectJournal ----------------------------
(***************************************************************************)
(* The durable journal of provider effects and the ledger of the provider  *)
(* resources of one allocation.                                            *)
(*                                                                         *)
(* Source: apps/control/src/effect-journal.ts and resource-journal.ts.     *)
(* An effect is journalled as prepared before it is submitted, its receipt *)
(* (outcome) is written once when the submission answers or gives up, and  *)
(* its resolution is written once, from what the provider is observed to   *)
(* hold. A worker works under the machine lock; it may die between any two *)
(* of the transactions below, and then only the journal is left.           *)
(*                                                                         *)
(* A provider read and the transaction that stores what it saw are one     *)
(* step: provider steps neither read nor write the database, so a store    *)
(* that comes later has the same effect as one that comes at once. The     *)
(* exception is a read that leads to a submission: the journal step below  *)
(* is separate from the decision, and the provider may change in between.  *)
(***************************************************************************)
EXTENDS Provider

CONSTANTS MaxOps,       \* bound: operations on the machine
          DailyBackups  \* the admitted offer includes provider backups

ASSUME JournalAssumption == MaxOps \in Nat \ {0} /\ DailyBackups \in BOOLEAN

Ops     == 1..MaxOps
Source  == 1                        \* the allocation's machine.create operation
Kinds   == {"create", "destroy", "resize"} \cup PowerCommands
Terminal == {"succeeded", "failed", "cancelled"}

\* progress is kept up to what decides the next step: active stands for
\* queued, submitting, waiting_provider, verifying, waiting_guest, cleaning_up.
OpRecord == [kind : Kinds \cup {"none"}, intent : {"run", "compensate", "cleanup"},
             prog : {"active", "blocked"} \cup Terminal, type : Types]

AttemptRecord ==
  [op : Ops \cup {0}, cmd : Commands, tgt : Resources \cup {NoRes}, type : Types,
   outcome : {"prepared", "accepted", "completed", "rejected", "unknown"},
   res : Resources \cup {NoRes},
   resol : {"pending", "confirmed", "absent", "failed", "operator_closed"},
   pow : {"starting", "running", "off"}]

WorkerRecord ==
  [pc : {"idle", "cleanup", "journal", "sent", "claim"}, op : Ops \cup {0},
   cmd : Commands, tgt : Resources \cup {NoRes}, att : Attempts \cup {0},
   todo : SUBSET Attempts]

VARIABLES
  ops,      \* [Ops -> OpRecord]: operations of the machine, kind "none" = unused
  att,      \* [Attempts -> AttemptRecord]: provider_attempts, op 0 = unused
  row,      \* [Resources -> {"none","live","absent"}]: provider_resources
  alloc,    \* the allocation: retired, serverId, reserved price, admitted offer
  w         \* the worker that holds the machine lock (pc idle: nobody does)

journalVars == <<ops, att, row, alloc, w>>

JournalTypeOK ==
  /\ ops \in [Ops -> OpRecord]
  /\ att \in [Attempts -> AttemptRecord]
  /\ row \in [Resources -> {"none", "live", "absent"}]
  /\ alloc \in [retired : BOOLEAN, server : Servers \cup {NoRes}, reserved : Types, offer : Types]
  /\ w \in WorkerRecord

Idle == [pc |-> "idle", op |-> 0, cmd |-> "create", tgt |-> NoRes, att |-> 0, todo |-> {}]

Unused == [op |-> 0, cmd |-> "create", tgt |-> NoRes, type |-> 1, outcome |-> "prepared",
           res |-> NoRes, resol |-> "pending", pow |-> "off"]

Of(k)        == {a \in Attempts : att[a].op = k}
PendingOf(k) == {a \in Of(k) : att[a].resol = "pending"}
Uncertain(a) == att[a].outcome \in {"prepared", "unknown"}
LiveRows(R)  == {r \in R : row[r] = "live"}
Active(k)    == ops[k].kind # "none" /\ ops[k].prog \notin Terminal

\* A cleanup works on its own attempts and on those of the source create.
Scope(k) == Of(k) \cup (IF ops[k].intent = "cleanup" THEN Of(Source) ELSE {})

SetProgress(k, p) == ops' = [ops EXCEPT ![k].prog = p]

-----------------------------------------------------------------------------
(* journalEffect                                                            *)

\* The worker decided to submit an effect for operation k.
Decide(k, cmd, tgt) ==
  w' = [Idle EXCEPT !.pc = "journal", !.op = k, !.cmd = cmd, !.tgt = tgt]

\* SQL guard on effects under an admitted cleanup: an exact live owned target,
\* and no IP deletion while a server create or a server row is unsettled.
CleanupEffectAllowed ==
  /\ w.cmd \in DeleteCommands
  /\ row[w.tgt] = "live"
  /\ w.cmd = "delete_primary_ip" =>
       /\ ~\E a \in PendingOf(Source) : att[a].cmd = "create"
       /\ LiveRows(Servers) = {}

\* The attempt is stored as prepared, then submitted.
Insert ==
  \E a \in Attempts :
    /\ att[a].op = 0 /\ \A b \in Attempts : b < a => att[b].op # 0
    /\ att' = [att EXCEPT ![a] = [Unused EXCEPT !.op = w.op, !.cmd = w.cmd, !.tgt = w.tgt,
                                                !.type = ops[w.op].type]]
    /\ SetProgress(w.op, "active")
    /\ w' = [w EXCEPT !.pc = "sent", !.att = a]
    /\ Submit([id |-> a, cmd |-> w.cmd, tgt |-> w.tgt, type |-> ops[w.op].type])
    /\ UNCHANGED <<row, alloc>>

\* The submission answers: the receipt is stored before the resource is claimed.
RecordAnswer ==
  /\ w.pc = "sent" /\ conn.kind # "none"
  /\ att' = [att EXCEPT ![w.att].outcome = conn.kind,
                        ![w.att].res = IF conn.kind = "rejected" THEN NoRes ELSE conn.res]
  /\ w' = IF w.cmd \in CreateCommands /\ conn.kind # "rejected"
          THEN [w EXCEPT !.pc = "claim"] ELSE Idle
  /\ Hang
  /\ UNCHANGED <<ops, row, alloc, sv, ips, act, wire, faults, ext>>

\* The submission gives up; the request may still be under way (a fault).
RecordUnknown ==
  /\ w.pc = "sent" /\ conn.kind = "none"
  /\ IF \E req \in wire : req.id = w.att THEN FaultsLeft /\ faults' = faults + 1
                                         ELSE UNCHANGED faults
  /\ att' = [att EXCEPT ![w.att].outcome = "unknown"]
  /\ w' = Idle
  /\ Hang
  /\ UNCHANGED <<ops, row, alloc, sv, ips, act, wire, ext>>

\* Mutant: every claimed resource becomes the allocation's server.
ClaimAnswerAsServer ==
  /\ w.pc = "claim"
  /\ row' = [row EXCEPT ![att[w.att].res] = "live"]
  /\ alloc' = [alloc EXCEPT !.server = att[w.att].res]
  /\ w' = Idle
  /\ UNCHANGED <<ops, att, sv, ips, act, wire, conn, faults, ext>>

\* claimResource: a resource confirmed absent is never taken back.
ClaimAnswer ==
  /\ w.pc = "claim"
  /\ LET r == att[w.att].res IN
       IF row[r] = "absent"
       THEN SetProgress(w.op, "blocked") /\ UNCHANGED <<row, alloc>>
       ELSE /\ row' = [row EXCEPT ![r] = "live"]
            /\ alloc' = IF r \in Servers THEN [alloc EXCEPT !.server = r] ELSE alloc
            /\ UNCHANGED ops
  /\ w' = Idle
  /\ UNCHANGED <<att, sv, ips, act, wire, conn, faults, ext>>

-----------------------------------------------------------------------------
(* evaluate and resolveEffect                                               *)

\* Mutant: only a server on the recorded IP counts as a match.
FoundAttached(a) ==
  IF Uncertain(a) /\ att[a].cmd \in CreateCommands
  THEN {r \in Matches(att[a].cmd) : r \in Servers => sv[r].ip = att[a].tgt} ELSE {}

\* What an uncertain create left, found by the labels of the source create;
\* every hit is claimed before it is judged.
Found(a)   == IF Uncertain(a) /\ att[a].cmd \in CreateCommands THEN Matches(att[a].cmd) ELSE {}
Claimed(a) == {r \in Found(a) : row[r] # "absent"}
RowAfterClaims(a) == [r \in Resources |-> IF r \in Claimed(a) THEN "live" ELSE row[r]]
KindOf(cmd) == IF cmd \in IpCommands THEN Ips ELSE Servers

Ambiguous(a) ==
  /\ Uncertain(a) /\ att[a].cmd \in CreateCommands
  /\ \/ \A r \in Resources : Found(a) # {r}
     \/ Found(a) # Claimed(a)
     \/ \E r, q \in KindOf(att[a].cmd) :
          r # q /\ RowAfterClaims(a)[r] # "none" /\ RowAfterClaims(a)[q] # "none"

\* The resource the attempt is judged by.
Subject(a) ==
  IF ~Uncertain(a) THEN att[a].res
  ELSE IF att[a].cmd \in CreateCommands THEN CHOOSE r \in Found(a) : TRUE
  ELSE att[a].tgt

Result(kind, r) == [kind |-> kind, res |-> r]

\* Mutant: an effect of unknown outcome is reported as still being verified.
UnresolvedSilently(a) == Result("waiting", NoRes)

\* Not resolved yet: an uncertain effect blocks, another one waits.
Unresolved(a) == Result(IF Uncertain(a) THEN "blocked" ELSE "waiting", NoRes)

EvaluateIp(a, r, recovering) ==
  IF att[a].cmd = "delete_primary_ip"
  THEN IF ~Visible(r) THEN Result("absent", r)
       ELSE IF ~ips[r].own \/ ips[r].srv # NoRes THEN Result("blocked", r)
       ELSE Unresolved(a)
  ELSE IF ~Visible(r)
       THEN IF recovering /\ ~Uncertain(a) THEN Result("absent", r) ELSE Unresolved(a)
       ELSE IF ~ips[r].own \/ ips[r].srv # NoRes THEN Result("blocked", r)
       ELSE Result("confirmed", r)

\* Does the observed server show the effect of the command?
Shows(a, s) ==
  CASE att[a].cmd \in {"create", "power_on"} -> s.power = "running"
    [] att[a].cmd = "power_off"              -> s.power = "off"
    [] att[a].cmd = "reboot"                 -> ~Uncertain(a) /\ s.power = "running"
    [] att[a].cmd = "resize"                 -> s.type = att[a].type
    [] att[a].cmd = "enable_backup"          -> s.bak
    [] OTHER                                 -> FALSE

EvaluateServer(a, r, recovering) ==
  IF ~Visible(r)
  THEN IF \/ att[a].cmd = "destroy"
          \/ recovering /\ ~Uncertain(a) /\ att[a].cmd = "create"
       THEN Result("absent", r) ELSE Unresolved(a)
  ELSE IF ~sv[r].own \/ (att[a].cmd = "create" /\ (sv[r].ip # att[a].tgt \/ sv[r].type # att[a].type))
  THEN Result("blocked", r)
  ELSE IF Shows(a, sv[r]) THEN Result("confirmed", r) ELSE Unresolved(a)

\* Mutant: an accepted deletion counts as done.
SettledByReceipt(a, recovering) ==
  /\ recovering
  /\ att[a].cmd \in DeleteCommands /\ att[a].outcome \in {"accepted", "completed"}

\* Under cleanup the absence of the exact target settles its deletion.
SettledByAbsence(a, recovering) ==
  /\ recovering
  /\ att[a].cmd \in DeleteCommands \cup {"enable_backup"}
  /\ ~Visible(att[a].tgt)

Evaluate(a, recovering) ==
  IF SettledByAbsence(a, recovering) THEN Result("absent", att[a].tgt)
  ELSE IF att[a].outcome = "rejected" THEN Result("failed", NoRes)
  ELSE IF Ambiguous(a) THEN Result("blocked", NoRes)
  ELSE IF att[a].outcome = "accepted" /\ act[a].st = "running" THEN Result("waiting", NoRes)
  ELSE IF att[a].outcome = "accepted" /\ act[a].st = "failed" THEN Result("failed", NoRes)
  ELSE IF att[a].cmd \in IpCommands THEN EvaluateIp(a, Subject(a), recovering)
  ELSE EvaluateServer(a, Subject(a), recovering)

\* Claiming a resource whose absence is recorded is refused and blocks.
Verdict(a, recovering) ==
  LET e == Evaluate(a, recovering) IN
    IF e.kind = "confirmed" /\ RowAfterClaims(a)[e.res] = "absent" THEN Result("blocked", e.res) ELSE e

\* Discovery alone: what survives when the worker dies before the verdict.
DiscoverOnly(a) ==
  /\ row' = RowAfterClaims(a)
  /\ IF Claimed(a) \cap Servers = {} THEN UNCHANGED alloc
     ELSE \E s \in Claimed(a) \cap Servers : alloc' = [alloc EXCEPT !.server = s]

Resolve(a, k) ==
  LET recovering == ops[k].intent = "cleanup"
      v == Verdict(a, recovering)
      rows == RowAfterClaims(a)
  IN CASE v.kind \in {"waiting", "blocked"} ->
            /\ SetProgress(k, IF v.kind = "waiting" THEN "active" ELSE "blocked")
            /\ DiscoverOnly(a)
            /\ UNCHANGED att
       [] v.kind = "failed" ->
            /\ att' = [att EXCEPT ![a].resol = "failed"]
            /\ UNCHANGED <<ops, row, alloc>>
       [] v.kind = "absent" ->
            /\ att' = [att EXCEPT ![a].resol = "absent"]
            /\ row' = [row EXCEPT ![v.res] = IF @ = "live" THEN "absent" ELSE @]
            /\ UNCHANGED <<ops, alloc>>
       [] v.kind = "confirmed" ->
            /\ att' = [att EXCEPT ![a].resol = "confirmed",
                                  ![a].res = v.res,
                                  ![a].pow = IF v.res \in Servers THEN sv[v.res].power ELSE @]
            /\ row' = [rows EXCEPT ![v.res] = "live"]
            /\ alloc' = IF v.res \in Servers THEN [alloc EXCEPT !.server = v.res] ELSE alloc
            /\ UNCHANGED ops
=============================================================================
