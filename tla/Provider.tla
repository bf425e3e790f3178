------------------------------ MODULE Provider ------------------------------
(***************************************************************************)
(* The machine provider as the control plane meets it: the servers and     *)
(* Primary IPs of ONE allocation, the asynchronous actions on them, and    *)
(* the request/response channel that submissions travel on.                *)
(*                                                                         *)
(* Source: apps/control/src/simulated-provider.ts, with the faults that    *)
(* class can be configured with (lose_response and its visibility delay,   *)
(* timeout_before_submit, duplicate_create, reject, action_failure) chosen *)
(* freely per request, and the delivery of a request separated from its    *)
(* submission: a submission whose caller timed out or died may still be    *)
(* executed later. Commands, records, reads and answers are those of the   *)
(* contract and of the Hetzner adapter (packages/hetzner/src/index.ts): a  *)
(* definite refusal is "rejected", everything else that is not a valid     *)
(* receipt leaves the caller without an answer.                            *)
(*                                                                         *)
(* Every resource of the module carries the labels of the allocation's     *)
(* create operation (resource-journal.ts effectLabels) until somebody      *)
(* outside the control plane changes them: own says whether it still does. *)
(***************************************************************************)
EXTENDS Integers, FiniteSets

CONSTANTS Servers,      \* provider ids a server can get
          Ips,          \* provider ids a Primary IP can get
          NoRes,        \* "no resource": null ids
          MaxAttempts,  \* bound: journalled submissions per allocation
          MaxType,      \* server types, ordered by price and disk
          MaxFaults,    \* bound: provider, network and process faults
          MaxExternal   \* bound: changes made outside the control plane

ASSUME ProviderAssumption ==
  /\ MaxAttempts \in Nat
  /\ MaxType \in Nat \ {0}
  /\ MaxFaults \in Nat
  /\ MaxExternal \in Nat
  /\ NoRes \notin Servers \cup Ips
  /\ Servers \cap Ips = {}

Attempts  == 1..MaxAttempts
Types     == 1..MaxType
Resources == Servers \cup Ips

IpCommands     == {"create_primary_ip", "delete_primary_ip"}
CreateCommands == {"create_primary_ip", "create"}
DeleteCommands == {"delete_primary_ip", "destroy"}
PowerCommands  == {"reboot", "power_on", "power_off"}
Commands       == IpCommands \cup {"create", "destroy", "resize", "enable_backup"}
                             \cup PowerCommands

\* A submitted provider command: its attempt id, the resource it names (the
\* network of a create) and the server type it asks for.
Request == [id : Attempts, cmd : Commands, tgt : Resources \cup {NoRes}, type : Types]

ServerRecord == [st : {"none", "live", "gone"}, power : {"starting", "running", "off"},
                 type : Types, ip : Ips \cup {NoRes}, vis : BOOLEAN, own : BOOLEAN,
                 bak : BOOLEAN]
IpRecord     == [st : {"none", "live", "gone"}, srv : Servers \cup {NoRes},
                 vis : BOOLEAN, own : BOOLEAN]
ActionRecord == [st : {"none", "running", "succeeded", "failed"}, cmd : Commands,
                 srv : Servers \cup {NoRes}, type : Types]

VARIABLES
  sv,       \* [Servers -> ServerRecord]
  ips,      \* [Ips -> IpRecord]
  act,      \* [Attempts -> ActionRecord]: the action a submission started
  wire,     \* requests submitted and not yet executed or dropped
  conn,     \* the caller's open request (id 0: none) and the answer it got
  faults,   \* faults so far
  ext       \* outside changes so far

providerVars == <<sv, ips, act, wire, conn, faults, ext>>

Closed == [id |-> 0, kind |-> "none", res |-> NoRes]

ProviderTypeOK ==
  /\ sv \in [Servers -> ServerRecord]
  /\ ips \in [Ips -> IpRecord]
  /\ act \in [Attempts -> ActionRecord]
  /\ wire \subseteq Request
  /\ conn \in [id : Attempts \cup {0},
               kind : {"none", "accepted", "completed", "rejected"},
               res : Resources \cup {NoRes}]
  /\ faults \in 0..MaxFaults
  /\ ext \in 0..MaxExternal

ProviderInit ==
  /\ sv = [s \in Servers |-> [st |-> "none", power |-> "starting", type |-> 1, ip |-> NoRes,
                              vis |-> FALSE, own |-> TRUE, bak |-> FALSE]]
  /\ ips = [i \in Ips |-> [st |-> "none", srv |-> NoRes, vis |-> FALSE, own |-> TRUE]]
  /\ act = [a \in Attempts |-> [st |-> "none", cmd |-> "create", srv |-> NoRes, type |-> 1]]
  /\ wire = {}
  /\ conn = Closed
  /\ faults = 0
  /\ ext = 0

-----------------------------------------------------------------------------
(* Reads. A read returns a resource that exists and is already visible.     *)

Visible(r) == IF r \in Servers THEN sv[r].st = "live" /\ sv[r].vis
                               ELSE r \in Ips /\ ips[r].st = "live" /\ ips[r].vis

Owned(r) == IF r \in Servers THEN sv[r].own ELSE ips[r].own

\* findServers / findPrimaryIps with the labels of the source create.
Matches(cmd) == {r \in (IF cmd = "create" THEN Servers ELSE Ips) : Visible(r) /\ Owned(r)}

-----------------------------------------------------------------------------
(* The channel.                                                             *)

\* The caller opens a request.
Submit(req) ==
  /\ wire' = wire \cup {req}
  /\ conn' = [Closed EXCEPT !.id = req.id]
  /\ UNCHANGED <<sv, ips, act, faults, ext>>

Hang == conn' = Closed

FaultsLeft == faults < MaxFaults

\* The answer reaches the caller unless it is lost (or nobody waits for it).
\* Losing an answer somebody waits for is a fault.
Answer(req, lost, kind, res) ==
  /\ wire' = wire \ {req}
  /\ \/ /\ ~lost /\ conn.id = req.id
        /\ conn' = [conn EXCEPT !.kind = kind, !.res = res]
        /\ UNCHANGED faults
     \/ /\ lost /\ conn.id # req.id
        /\ UNCHANGED <<conn, faults>>
     \/ /\ lost /\ conn.id = req.id /\ FaultsLeft
        /\ faults' = faults + 1
        /\ UNCHANGED conn
  /\ UNCHANGED ext

\* The request never reaches the provider.
Drop(req) ==
  /\ req \in wire
  /\ wire' = wire \ {req}
  /\ \/ conn.id # req.id /\ UNCHANGED faults
     \/ conn.id = req.id /\ FaultsLeft /\ faults' = faults + 1
  /\ UNCHANGED <<sv, ips, act, conn, ext>>

-----------------------------------------------------------------------------
(* Execution of a request at the provider.                                  *)

\* A create may produce a second copy, and its results may stay invisible for
\* a while; both only when the caller does not learn the id.
ExecCreateIp(req, lost, ids, vis) ==
  /\ req \in wire /\ req.cmd = "create_primary_ip"
  /\ ids # {} /\ \A i \in ids : ips[i].st = "none"
  /\ lost \/ (vis /\ \E i \in Ips : ids = {i})
  /\ ips' = [i \in Ips |-> IF i \in ids
                           THEN [st |-> "live", srv |-> NoRes, vis |-> vis, own |-> TRUE]
                           ELSE ips[i]]
  /\ \E i \in ids : Answer(req, lost, "completed", i)
  /\ UNCHANGED <<sv, act>>

Attachable(i) == i \in Ips /\ ips[i].st = "live" /\ ips[i].srv = NoRes

\* The copy of a duplicated create runs without the Primary IP.
ExecCreate(req, lost, s, copies, vis) ==
  /\ req \in wire /\ req.cmd = "create"
  /\ Attachable(req.tgt)
  /\ s \notin copies /\ \A x \in copies \cup {s} : sv[x].st = "none"
  /\ lost \/ (vis /\ copies = {})
  /\ sv' = [x \in Servers |->
             IF x = s THEN [st |-> "live", power |-> "starting", type |-> req.type,
                            ip |-> req.tgt, vis |-> vis, own |-> TRUE, bak |-> FALSE]
             ELSE IF x \in copies
             THEN [st |-> "live", power |-> "running", type |-> req.type,
                   ip |-> NoRes, vis |-> vis, own |-> TRUE, bak |-> FALSE]
             ELSE sv[x]]
  /\ ips' = [ips EXCEPT ![req.tgt].srv = s]
  /\ act' = [act EXCEPT ![req.id] =
              [st |-> "running", cmd |-> "create", srv |-> s, type |-> req.type]]
  /\ Answer(req, lost, "accepted", s)

Deletable(i) == i \in Ips /\ (ips[i].st = "live" => ips[i].srv = NoRes)

ExecDeleteIp(req, lost) ==
  /\ req \in wire /\ req.cmd = "delete_primary_ip"
  /\ Deletable(req.tgt)
  /\ ips' = [ips EXCEPT ![req.tgt].st = "gone"]
  /\ Answer(req, lost, "completed", req.tgt)
  /\ UNCHANGED <<sv, act>>

\* Every command on an existing server starts an action.
ExecServerAction(req, lost) ==
  /\ req \in wire /\ req.cmd \notin {"create", "create_primary_ip", "delete_primary_ip"}
  /\ act' = [act EXCEPT ![req.id] =
              [st |-> "running", cmd |-> req.cmd, srv |-> req.tgt, type |-> req.type]]
  /\ Answer(req, lost, "accepted", req.tgt)
  /\ UNCHANGED <<sv, ips>>

\* A create without a free Primary IP and the deletion of an assigned one are
\* always rejected; any request may be (a fault when it is delivered).
MustReject(req) ==
  \/ req.cmd = "create" /\ ~Attachable(req.tgt)
  \/ req.cmd = "delete_primary_ip" /\ ~Deletable(req.tgt)

ExecReject(req) ==
  /\ req \in wire
  /\ wire' = wire \ {req}
  /\ conn' = IF conn.id = req.id THEN [conn EXCEPT !.kind = "rejected"] ELSE conn
  /\ \/ MustReject(req) /\ UNCHANGED faults
     \/ ~MustReject(req) /\ FaultsLeft /\ faults' = faults + 1
  /\ UNCHANGED <<sv, ips, act, ext>>

-----------------------------------------------------------------------------
(* Actions finish (getAction settles them once they are ready).             *)

\* Removing a server deletes its Primary IP, releases it, or (assignment read
\* lagging behind) leaves it assigned for the moment.
IpAfterRemoval(i, fate) ==
  ips' = IF i \notin Ips THEN ips
         ELSE [ips EXCEPT ![i] = CASE fate = "deleted"  -> [@ EXCEPT !.st = "gone"]
                                   [] fate = "released" -> [@ EXCEPT !.srv = NoRes]
                                   [] fate = "lagging"  -> @]

Fates == {"deleted", "released", "lagging"}

Settled(s, cmd, type) ==
  CASE cmd = "destroy"       -> [s EXCEPT !.st = "gone"]
    [] cmd = "resize"        -> [s EXCEPT !.type = type]
    [] cmd = "enable_backup" -> [s EXCEPT !.bak = TRUE]
    [] cmd = "power_off"     -> [s EXCEPT !.power = "off"]
    [] OTHER                 -> [s EXCEPT !.power = "running"]

ActionSucceeds(a, fate) ==
  /\ act[a].st = "running"
  /\ act' = [act EXCEPT ![a].st = "succeeded"]
  /\ LET s == act[a].srv IN
       IF sv[s].st = "live"
       THEN /\ sv' = [sv EXCEPT ![s] = Settled(@, act[a].cmd, act[a].type)]
            /\ IF act[a].cmd = "destroy" THEN IpAfterRemoval(sv[s].ip, fate)
                                         ELSE UNCHANGED ips
       ELSE UNCHANGED <<sv, ips>>
  /\ UNCHANGED <<wire, conn, faults, ext>>

ActionFails(a) ==
  /\ act[a].st = "running" /\ FaultsLeft
  /\ act' = [act EXCEPT ![a].st = "failed"]
  /\ faults' = faults + 1
  /\ UNCHANGED <<sv, ips, wire, conn, ext>>

\* The assignment read of an IP whose server is gone catches up.
IpCatchesUp(i, fate) ==
  /\ ips[i].st = "live" /\ ips[i].srv \in Servers /\ sv[ips[i].srv].st = "gone"
  /\ fate # "lagging"
  /\ IpAfterRemoval(i, fate)
  /\ UNCHANGED <<sv, act, wire, conn, faults, ext>>

\* The visibility delay of a lost create ends, for all its copies at once.
ServersBecomeVisible ==
  /\ \E s \in Servers : sv[s].st = "live" /\ ~sv[s].vis
  /\ sv' = [s \in Servers |-> [sv[s] EXCEPT !.vis = (sv[s].st = "live") \/ @]]
  /\ UNCHANGED <<ips, act, wire, conn, faults, ext>>

IpsBecomeVisible ==
  /\ \E i \in Ips : ips[i].st = "live" /\ ~ips[i].vis
  /\ ips' = [i \in Ips |-> [ips[i] EXCEPT !.vis = (ips[i].st = "live") \/ @]]
  /\ UNCHANGED <<sv, act, wire, conn, faults, ext>>

-----------------------------------------------------------------------------
(* Changes made outside the control plane (provider console, other tools).  *)

ExternalDeleteServer(s, fate) ==
  /\ ext < MaxExternal /\ ext' = ext + 1
  /\ sv[s].st = "live"
  /\ sv' = [sv EXCEPT ![s].st = "gone"]
  /\ IpAfterRemoval(sv[s].ip, fate)
  /\ UNCHANGED <<act, wire, conn, faults>>

ExternalDeleteIp(i) ==
  /\ ext < MaxExternal /\ ext' = ext + 1
  /\ Attachable(i)
  /\ ips' = [ips EXCEPT ![i].st = "gone"]
  /\ UNCHANGED <<sv, act, wire, conn, faults>>

ExternalRelabel(r) ==
  /\ ext < MaxExternal /\ ext' = ext + 1
  /\ Visible(r) /\ Owned(r)
  /\ IF r \in Servers THEN sv' = [sv EXCEPT ![r].own = FALSE] /\ UNCHANGED ips
                      ELSE ips' = [ips EXCEPT ![r].own = FALSE] /\ UNCHANGED sv
  /\ UNCHANGED <<act, wire, conn, faults>>

\* The provider deals with a request.
Deliver(req) ==
  \/ Drop(req)
  \/ ExecReject(req)
  \/ \E lost \in BOOLEAN :
       \/ \E ids \in SUBSET Ips, vis \in BOOLEAN : ExecCreateIp(req, lost, ids, vis)
       \/ \E s \in Servers, copies \in SUBSET Servers, vis \in BOOLEAN :
            ExecCreate(req, lost, s, copies, vis)
       \/ ExecDeleteIp(req, lost)
       \/ ExecServerAction(req, lost)

SettleAction(a) == ActionFails(a) \/ \E fate \in Fates : ActionSucceeds(a, fate)

CatchUp ==
  \/ \E i \in Ips, fate \in Fates : IpCatchesUp(i, fate)
  \/ ServersBecomeVisible
  \/ IpsBecomeVisible

Interfere ==
  \/ \E s \in Servers, fate \in Fates : ExternalDeleteServer(s, fate)
  \/ \E i \in Ips : ExternalDeleteIp(i)
  \/ \E r \in Resources : ExternalRelabel(r)

ProviderNext ==
  \/ \E req \in wire : Deliver(req)
  \/ \E a \in Attempts : SettleAction(a)
  \/ CatchUp
  \/ Interfere
=============================================================================
