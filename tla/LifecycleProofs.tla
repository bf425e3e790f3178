---------------------------- MODULE LifecycleProofs ----------------------------
(***************************************************************************)
(* What MachineLifecycle guarantees for every value of its constants.      *)
(*                                                                         *)
(* Types. TypeOK is not inductive: what the provider does with a request   *)
(* depends on the request naming the right kind of resource, and a worker  *)
(* that is busy must be working for an operation. TypeInv adds both.       *)
(*                                                                         *)
(* The journal and the ledger. Effects are judged once and history is      *)
(* kept, terminal operations are settled, creates are submitted once, and  *)
(* a resource recorded absent is gone. JournalInv is about the database    *)
(* and the worker alone; provider steps leave it alone. LedgerInv relates  *)
(* the ids the control plane has stored to what the provider holds.        *)
(*                                                                         *)
(* Custody. A reservation is released once, when the provider holds        *)
(* nothing of the allocation, and nothing can come to it afterwards; and a *)
(* create that ended succeeded accounts for everything the provider holds. *)
(* The argument follows the one create of each kind: until it is executed  *)
(* nothing of its kind exists, what it made is all of its kind there will  *)
(* ever be, and it is judged only when that is in the ledger, or else is a *)
(* server that keeps the allocation's IP from being deleted.               *)
(***************************************************************************)
EXTENDS MachineLifecycle, FiniteSetTheorems, TLAPS

\* A command on a server names a server.
NamesServer(cmd, tgt) == cmd \notin IpCommands \cup {"create"} => tgt \in Servers

TypeInv ==
  /\ TypeOK
  /\ w.pc # "idle" => w.op \in Ops
  /\ w.pc = "journal" => NamesServer(w.cmd, w.tgt)
  /\ \A req \in wire : NamesServer(req.cmd, req.tgt)

-----------------------------------------------------------------------------
(* The provider                                                             *)

\* What the answer to a request does to the channel.
LEMMA AnswerType ==
  ASSUME ProviderTypeOK, NEW req \in wire, NEW lost \in BOOLEAN,
         NEW kind \in {"accepted", "completed"}, NEW res \in Resources \cup {NoRes},
         Answer(req, lost, kind, res)
  PROVE  /\ wire' \subseteq wire
         /\ conn' \in [id : Attempts \cup {0},
                       kind : {"none", "accepted", "completed", "rejected"},
                       res : Resources \cup {NoRes}]
         /\ faults' \in 0..MaxFaults
         /\ ext' = ext
<1>1. conn' = conn \/ conn' = [conn EXCEPT !.kind = kind, !.res = res]
  BY DEF Answer
<1>2. faults' = faults \/ (faults < MaxFaults /\ faults' = faults + 1)
  BY DEF Answer, FaultsLeft
<1>3. faults' \in 0..MaxFaults
  BY <1>2, ProviderAssumption DEF ProviderTypeOK
<1>4. wire' \subseteq wire /\ ext' = ext
  BY DEF Answer
<1> QED BY <1>1, <1>3, <1>4 DEF ProviderTypeOK

LEMMA IpRemovalType ==
  ASSUME ProviderTypeOK, NEW i, NEW fate \in Fates, IpAfterRemoval(i, fate)
  PROVE  ips' \in [Ips -> IpRecord]
BY DEF ProviderTypeOK, IpAfterRemoval, Fates, IpRecord

\* One step of the provider keeps its types.
LEMMA DeliverType ==
  ASSUME TypeInv, NEW req \in wire, Deliver(req)
  PROVE  ProviderTypeOK' /\ wire' \subseteq wire
<1> USE DEF TypeInv, TypeOK
<1>1. CASE Drop(req)
  BY <1>1, ProviderAssumption DEF ProviderTypeOK, Drop, FaultsLeft
<1>2. CASE ExecReject(req)
  BY <1>2, ProviderAssumption DEF ProviderTypeOK, ExecReject, FaultsLeft
<1>3. ASSUME NEW lost \in BOOLEAN, NEW ids \in SUBSET Ips, NEW vis \in BOOLEAN,
             ExecCreateIp(req, lost, ids, vis)
      PROVE  ProviderTypeOK' /\ wire' \subseteq wire
  <2>1. PICK i \in ids : Answer(req, lost, "completed", i)
    BY <1>3 DEF ExecCreateIp
  <2>2. i \in Resources BY DEF Resources
  <2>3. ips' \in [Ips -> IpRecord]
    BY <1>3 DEF ExecCreateIp, ProviderTypeOK, IpRecord
  <2> QED BY <1>3, <2>1, <2>2, <2>3, AnswerType DEF ExecCreateIp, ProviderTypeOK
<1>4. ASSUME NEW lost \in BOOLEAN, NEW s \in Servers, NEW copies \in SUBSET Servers,
             NEW vis \in BOOLEAN, ExecCreate(req, lost, s, copies, vis)
      PROVE  ProviderTypeOK' /\ wire' \subseteq wire
  <2>1. Answer(req, lost, "accepted", s) /\ s \in Resources
    BY <1>4 DEF ExecCreate, Resources
  <2>2. req \in Request /\ req.tgt \in Ips
    BY <1>4 DEF ExecCreate, Attachable, ProviderTypeOK
  <2>3. sv' \in [Servers -> ServerRecord]
    BY <1>4, <2>2 DEF ExecCreate, ProviderTypeOK, ServerRecord, Request
  <2>4. ips' \in [Ips -> IpRecord]
    BY <1>4, <2>2 DEF ExecCreate, ProviderTypeOK, IpRecord
  <2>5. act' \in [Attempts -> ActionRecord]
    BY <1>4, <2>2 DEF ExecCreate, ProviderTypeOK, ActionRecord, Request, Commands
  <2> QED BY <2>1, <2>3, <2>4, <2>5, AnswerType DEF ProviderTypeOK
<1>5. ASSUME NEW lost \in BOOLEAN, ExecDeleteIp(req, lost)
      PROVE  ProviderTypeOK' /\ wire' \subseteq wire
  <2>1. Answer(req, lost, "completed", req.tgt) /\ req.tgt \in Resources
    BY <1>5 DEF ExecDeleteIp, Deletable, Resources
  <2>2. ips' \in [Ips -> IpRecord]
    BY <1>5 DEF ExecDeleteIp, ProviderTypeOK, IpRecord
  <2> QED BY <1>5, <2>1, <2>2, AnswerType DEF ExecDeleteIp, ProviderTypeOK
<1>6. ASSUME NEW lost \in BOOLEAN, ExecServerAction(req, lost)
      PROVE  ProviderTypeOK' /\ wire' \subseteq wire
  <2>1. Answer(req, lost, "accepted", req.tgt) /\ req \in Request
    BY <1>6 DEF ExecServerAction, ProviderTypeOK
  <2>2. req.tgt \in Servers /\ req.tgt \in Resources
    BY <1>6 DEF ExecServerAction, NamesServer, IpCommands, Resources
  <2>3. act' \in [Attempts -> ActionRecord]
    BY <1>6, <2>1, <2>2 DEF ExecServerAction, ProviderTypeOK, ActionRecord, Request
  <2> QED BY <1>6, <2>1, <2>2, <2>3, AnswerType DEF ExecServerAction, ProviderTypeOK
<1> QED BY <1>1, <1>2, <1>3, <1>4, <1>5, <1>6 DEF Deliver

LEMMA SettleActionType ==
  ASSUME ProviderTypeOK, NEW a \in Attempts, SettleAction(a)
  PROVE  ProviderTypeOK' /\ wire' \subseteq wire
<1>1. CASE ActionFails(a)
  BY <1>1, ProviderAssumption DEF ProviderTypeOK, ActionFails, FaultsLeft, ActionRecord
<1>2. ASSUME NEW fate \in Fates, ActionSucceeds(a, fate)
      PROVE  ProviderTypeOK' /\ wire' \subseteq wire
  <2>1. act' \in [Attempts -> ActionRecord] /\ act[a] \in ActionRecord
    BY <1>2 DEF ActionSucceeds, ProviderTypeOK, ActionRecord
  <2>2. ASSUME NEW x \in Servers
        PROVE  Settled(sv[x], act[a].cmd, act[a].type) \in ServerRecord
    <3>1. sv[x] \in ServerRecord /\ act[a].type \in Types
      BY <2>1 DEF ProviderTypeOK, ActionRecord
    <3>2. /\ [sv[x] EXCEPT !.st = "gone"] \in ServerRecord
          /\ [sv[x] EXCEPT !.type = act[a].type] \in ServerRecord
          /\ [sv[x] EXCEPT !.bak = TRUE] \in ServerRecord
          /\ [sv[x] EXCEPT !.power = "off"] \in ServerRecord
          /\ [sv[x] EXCEPT !.power = "running"] \in ServerRecord
      BY <3>1 DEF ServerRecord
    <3> QED BY <3>2 DEF Settled
  <2>3. sv' \in [Servers -> ServerRecord]
    BY <1>2, <2>2 DEF ActionSucceeds, ProviderTypeOK
  <2>4. ips' \in [Ips -> IpRecord]
    BY <1>2, IpRemovalType DEF ActionSucceeds, ProviderTypeOK
  <2> QED BY <1>2, <2>1, <2>3, <2>4 DEF ActionSucceeds, ProviderTypeOK
<1> QED BY <1>1, <1>2 DEF SettleAction

LEMMA CatchUpType ==
  ASSUME ProviderTypeOK, CatchUp
  PROVE  ProviderTypeOK' /\ wire' = wire
<1>1. ASSUME NEW i \in Ips, NEW fate \in Fates, IpCatchesUp(i, fate)
      PROVE  ProviderTypeOK' /\ wire' = wire
  BY <1>1, IpRemovalType DEF IpCatchesUp, ProviderTypeOK
<1>2. CASE ServersBecomeVisible
  BY <1>2 DEF ServersBecomeVisible, ProviderTypeOK, ServerRecord
<1>3. CASE IpsBecomeVisible
  BY <1>3 DEF IpsBecomeVisible, ProviderTypeOK, IpRecord
<1> QED BY <1>1, <1>2, <1>3 DEF CatchUp

LEMMA InterfereType ==
  ASSUME ProviderTypeOK, Interfere
  PROVE  ProviderTypeOK' /\ wire' = wire
<1> USE ProviderAssumption
<1>1. ASSUME NEW s \in Servers, NEW fate \in Fates, ExternalDeleteServer(s, fate)
      PROVE  ProviderTypeOK' /\ wire' = wire
  BY <1>1, IpRemovalType DEF ExternalDeleteServer, ProviderTypeOK, ServerRecord
<1>2. ASSUME NEW i \in Ips, ExternalDeleteIp(i)
      PROVE  ProviderTypeOK' /\ wire' = wire
  BY <1>2 DEF ExternalDeleteIp, ProviderTypeOK, IpRecord
<1>3. ASSUME NEW r \in Resources, ExternalRelabel(r)
      PROVE  ProviderTypeOK' /\ wire' = wire
  <2>1. ext' \in 0..MaxExternal
    BY <1>3 DEF ExternalRelabel, ProviderTypeOK
  <2>2. ASSUME NEW x \in Servers PROVE [sv[x] EXCEPT !.own = FALSE] \in ServerRecord
    <3>1. sv[x] \in ServerRecord BY DEF ProviderTypeOK
    <3> QED BY <3>1 DEF ServerRecord
  <2>3. \A i \in Ips : [ips[i] EXCEPT !.own = FALSE] \in IpRecord
    BY DEF ProviderTypeOK, IpRecord
  <2>4. sv' \in [Servers -> ServerRecord] /\ ips' \in [Ips -> IpRecord]
    BY <1>3, <2>2, <2>3 DEF ExternalRelabel, ProviderTypeOK
  <2> QED BY <1>3, <2>1, <2>4 DEF ExternalRelabel, ProviderTypeOK
<1> QED BY <1>1, <1>2, <1>3 DEF Interfere

LEMMA ProviderType ==
  ASSUME TypeInv, ProviderNext
  PROVE  ProviderTypeOK' /\ wire' \subseteq wire
BY DeliverType, SettleActionType, CatchUpType, InterfereType
   DEF ProviderNext, TypeInv, TypeOK

-----------------------------------------------------------------------------
(* The journal                                                              *)

\* A step of the control plane that leaves the provider alone keeps TypeInv
\* when it keeps the types of what it writes.
LEMMA DatabaseStep ==
  ASSUME TypeInv, UNCHANGED providerVars, JournalTypeOK', LifecycleTypeOK',
         w.pc' # "idle" => w.op' \in Ops,
         w.pc' = "journal" => NamesServer(w.cmd', w.tgt')
  PROVE  TypeInv'
BY DEF TypeInv, TypeOK, ProviderTypeOK, providerVars, NamesServer

\* The worker lets go of the lock, or decides on an effect.
LEMMA IdleType == Idle \in WorkerRecord /\ Idle.pc = "idle"
BY DEF Idle, WorkerRecord, Commands

LEMMA DecideType ==
  ASSUME NEW k \in Ops, NEW cmd \in Commands, NEW tgt \in Resources \cup {NoRes},
         Decide(k, cmd, tgt)
  PROVE  w' \in WorkerRecord /\ w.op' = k /\ w.cmd' = cmd /\ w.tgt' = tgt
BY DEF Decide, Idle, WorkerRecord, Commands

LEMMA ProgressType ==
  ASSUME JournalTypeOK, NEW k \in Ops,
         NEW p \in {"active", "blocked"} \cup Terminal, SetProgress(k, p)
  PROVE  ops' \in [Ops -> OpRecord]
BY DEF JournalTypeOK, SetProgress, OpRecord

\* A verdict names a resource or none.
LEMMA VerdictType ==
  ASSUME TypeInv, NEW a \in Attempts, NEW recovering \in BOOLEAN
  PROVE  /\ Verdict(a, recovering).kind \in {"waiting", "blocked", "failed", "absent", "confirmed"}
         /\ Verdict(a, recovering).res \in Resources \cup {NoRes}
<1> DEFINE Ok(e) == /\ e.kind \in {"waiting", "blocked", "failed", "absent", "confirmed"}
                    /\ e.res \in Resources \cup {NoRes}
<1>1. att[a] \in AttemptRecord
  BY DEF TypeInv, TypeOK, JournalTypeOK
<1>2. ~Ambiguous(a) => Subject(a) \in Resources \cup {NoRes}
  <2>1. Found(a) \subseteq Resources
    BY DEF Found, Matches, Resources
  <2>2. ~Ambiguous(a) /\ Uncertain(a) /\ att[a].cmd \in CreateCommands => Found(a) # {}
    BY DEF Ambiguous
  <2> QED BY <1>1, <2>1, <2>2 DEF Subject, AttemptRecord
<1>3. \A r \in Resources \cup {NoRes} : Ok(EvaluateIp(a, r, recovering)) /\ Ok(EvaluateServer(a, r, recovering))
  BY DEF EvaluateIp, EvaluateServer, Unresolved, Result
<1>4. Ok(Evaluate(a, recovering))
  BY <1>1, <1>2, <1>3 DEF Evaluate, AttemptRecord, Result
<1> QED BY <1>4 DEF Verdict, Result

LEMMA ResolveType ==
  ASSUME TypeInv, NEW a \in Attempts, NEW k \in Ops, Resolve(a, k)
  PROVE  /\ ops' \in [Ops -> OpRecord]
         /\ att' \in [Attempts -> AttemptRecord]
         /\ row' \in [Resources -> {"none", "live", "absent"}]
         /\ alloc' \in [retired : BOOLEAN, server : Servers \cup {NoRes},
                        reserved : Types, offer : Types]
<1> DEFINE recovering == ops[k].intent = "cleanup"
           v == Verdict(a, recovering)
<1>0. /\ v.kind \in {"waiting", "blocked", "failed", "absent", "confirmed"}
      /\ v.res \in Resources \cup {NoRes}
  BY VerdictType
<1>1. RowAfterClaims(a) \in [Resources -> {"none", "live", "absent"}]
  BY DEF RowAfterClaims, TypeInv, TypeOK, JournalTypeOK
<1> USE DEF TypeInv, TypeOK, JournalTypeOK
<1> HIDE DEF v
<1>2. ASSUME NEW x \in {"failed", "absent"}
      PROVE  [att EXCEPT ![a].resol = x] \in [Attempts -> AttemptRecord]
  <2>1. att[a] \in AttemptRecord OBVIOUS
  <2>2. [att[a] EXCEPT !.resol = x] \in AttemptRecord BY <2>1 DEF AttemptRecord
  <2> QED BY <2>2
<1>3. CASE v.kind \in {"waiting", "blocked"}
  <2>1. SetProgress(k, "active") \/ SetProgress(k, "blocked")
    BY <1>3 DEF Resolve, v
  <2>2. DiscoverOnly(a) /\ att' = att
    BY <1>3 DEF Resolve, v
  <2>3. alloc' \in [retired : BOOLEAN, server : Servers \cup {NoRes},
                        reserved : Types, offer : Types]
    BY <2>2 DEF DiscoverOnly
  <2> QED BY <1>1, <2>1, <2>2, <2>3, ProgressType DEF DiscoverOnly
<1>4. CASE v.kind = "failed"
  <2>1. att' = [att EXCEPT ![a].resol = "failed"] /\ UNCHANGED <<ops, row, alloc>>
    BY <1>4 DEF Resolve, v
  <2> QED BY <1>2, <2>1
<1>5. CASE v.kind = "absent"
  <2>1. /\ att' = [att EXCEPT ![a].resol = "absent"]
        /\ row' = [row EXCEPT ![v.res] = IF @ = "live" THEN "absent" ELSE @]
        /\ UNCHANGED <<ops, alloc>>
    BY <1>5 DEF Resolve, v
  <2> QED BY <1>2, <2>1
<1>6. CASE v.kind = "confirmed"
  <2>1. /\ att' = [att EXCEPT ![a].resol = "confirmed", ![a].res = v.res,
                              ![a].pow = IF v.res \in Servers THEN sv[v.res].power ELSE @]
        /\ row' = [RowAfterClaims(a) EXCEPT ![v.res] = "live"]
        /\ alloc' = IF v.res \in Servers THEN [alloc EXCEPT !.server = v.res] ELSE alloc
        /\ UNCHANGED ops
    BY <1>6 DEF Resolve, v
  <2>2. v.res \in Servers => sv[v.res].power \in {"starting", "running", "off"}
    BY DEF ProviderTypeOK, ServerRecord
  <2>3. att' \in [Attempts -> AttemptRecord]
    <3> DEFINE pow == IF v.res \in Servers THEN sv[v.res].power ELSE att[a].pow
    <3>1. att[a] \in AttemptRecord /\ pow \in {"starting", "running", "off"}
      BY <2>2 DEF AttemptRecord
    <3> HIDE DEF pow
    <3>2. [att[a] EXCEPT !.resol = "confirmed", !.res = v.res, !.pow = pow] \in AttemptRecord
      BY <1>0, <3>1 DEF AttemptRecord
    <3>3. att' = [att EXCEPT ![a] = [att[a] EXCEPT !.resol = "confirmed", !.res = v.res, !.pow = pow]]
      BY <2>1 DEF pow
    <3> QED BY <3>2, <3>3
  <2> QED BY <1>1, <2>1, <2>3
<1> QED BY <1>0, <1>3, <1>4, <1>5, <1>6

-----------------------------------------------------------------------------
(* One step of an operation                                                 *)

LEMMA BlockType ==
  ASSUME TypeInv, NEW k \in Ops, Block(k)
  PROVE  TypeInv'
<1>1. ops' \in [Ops -> OpRecord]
  BY ProgressType DEF Block, TypeInv, TypeOK
<1>2. w' = Idle /\ UNCHANGED <<att, row, alloc, machine, granted, recovered>>
      /\ UNCHANGED providerVars
  BY DEF Block, ProviderUnchanged
<1> QED BY <1>1, <1>2, IdleType, DatabaseStep
        DEF TypeInv, TypeOK, JournalTypeOK, LifecycleTypeOK

LEMMA BeginFailureType ==
  ASSUME TypeInv, NEW k \in Ops, NEW rows, BeginFailure(k, rows)
  PROVE  /\ ops' \in [Ops -> OpRecord]
         /\ alloc' \in [retired : BOOLEAN, server : Servers \cup {NoRes},
                        reserved : Types, offer : Types]
         /\ machine' \in [state : {"provisioning", "allocated", "failed", "destroyed"},
                          power : {"starting", "running", "off"}]
<1> USE DEF TypeInv, TypeOK, JournalTypeOK, LifecycleTypeOK
<1>1. ops' \in [Ops -> OpRecord]
  <2>1. ops[k] \in OpRecord OBVIOUS
  <2>2. /\ [ops[k] EXCEPT !.intent = "compensate", !.prog = "active"] \in OpRecord
        /\ [ops[k] EXCEPT !.prog = "failed"] \in OpRecord
    BY <2>1 DEF OpRecord, Terminal
  <2>3. \/ ops' = [ops EXCEPT ![k] = [ops[k] EXCEPT !.intent = "compensate", !.prog = "active"]]
        \/ ops' = [ops EXCEPT ![k] = [ops[k] EXCEPT !.prog = "failed"]]
    BY DEF BeginFailure
  <2> QED BY <2>2, <2>3
<1>2. machine' = machine \/ machine' = [machine EXCEPT !.state = "failed"]
  BY DEF BeginFailure
<1>3. alloc' = alloc \/ \E b \in BOOLEAN : alloc' = [alloc EXCEPT !.retired = b]
  BY Zenon DEF BeginFailure
<1> QED BY <1>1, <1>2, <1>3

LEMMA FailWithType ==
  ASSUME TypeInv, NEW k \in Ops, FailWith(k)
  PROVE  TypeInv'
<1>1. BeginFailure(k, row) /\ w' = Idle /\ UNCHANGED <<att, row, granted, recovered>>
      /\ UNCHANGED providerVars
  BY DEF FailWith, ProviderUnchanged
<1> QED BY <1>1, BeginFailureType, IdleType, DatabaseStep
        DEF TypeInv, TypeOK, JournalTypeOK, LifecycleTypeOK

LEMMA CompleteType ==
  ASSUME TypeInv, NEW k \in Ops, NEW s \in Servers, NEW power \in {"starting", "running", "off"},
         Complete(k, s, power)
  PROVE  TypeInv'
<1> USE DEF TypeInv, TypeOK, JournalTypeOK, LifecycleTypeOK
<1>1. ops[k] \in OpRecord /\ ops[k].type \in Types
  BY DEF OpRecord
<1>2. ops' \in [Ops -> OpRecord]
  <2>1. [ops[k] EXCEPT !.prog = "succeeded"] \in OpRecord
    BY <1>1 DEF OpRecord, Terminal
  <2> QED BY <2>1 DEF Complete
<1>3. alloc' \in [retired : BOOLEAN, server : Servers \cup {NoRes}, reserved : Types, offer : Types]
  BY <1>1 DEF Complete
<1>4. machine' \in [state : {"provisioning", "allocated", "failed", "destroyed"},
                    power : {"starting", "running", "off"}]
  BY DEF Complete
<1>5. w' = Idle /\ UNCHANGED <<att, row, granted, recovered>> /\ UNCHANGED providerVars
  BY DEF Complete, ProviderUnchanged
<1> QED BY <1>2, <1>3, <1>4, <1>5, IdleType, DatabaseStep

\* A tick that only decides on an effect.
LEMMA DecideStep ==
  ASSUME TypeInv, NEW k \in Ops, NEW cmd \in Commands, NEW tgt \in Resources \cup {NoRes},
         NamesServer(cmd, tgt), Decide(k, cmd, tgt),
         UNCHANGED <<ops, att, row, alloc, machine, granted, recovered>>, UNCHANGED providerVars
  PROVE  TypeInv'
BY DecideType, DatabaseStep DEF TypeInv, TypeOK, JournalTypeOK, LifecycleTypeOK

\* A tick that records an absence, with the worker free before and after.
LEMMA AbsenceType ==
  ASSUME TypeInv, NEW r \in Resources, row' = [row EXCEPT ![r] = "absent"]
  PROVE  row' \in [Resources -> {"none", "live", "absent"}]
BY DEF TypeInv, TypeOK, JournalTypeOK

LEMMA AdvanceRunType ==
  ASSUME TypeInv, NEW k \in Ops, AdvanceRun(k)
  PROVE  TypeInv'
<1> USE DEF ProviderUnchanged
<1>1. CASE ResolvePending(k)
  <2>1. PICK a \in Attempts : Resolve(a, k)
    BY <1>1 DEF ResolvePending, PendingOf, Of
  <2>2. w' = Idle /\ UNCHANGED lifecycleVars /\ UNCHANGED providerVars
    BY <1>1 DEF ResolvePending
  <2>3. JournalTypeOK' /\ LifecycleTypeOK'
    BY <2>1, <2>2, ResolveType, IdleType DEF TypeInv, TypeOK, JournalTypeOK, LifecycleTypeOK, lifecycleVars
  <2> QED BY <2>2, <2>3, IdleType, DatabaseStep
<1>2. CASE HandleFailedEffect(k)
  BY <1>2, FailWithType DEF HandleFailedEffect
<1>3. CASE CompensateAbsent(k)
  <2>1. PICK i \in Resources : row' = [row EXCEPT ![i] = "absent"]
    BY <1>3 DEF CompensateAbsent, LiveRows, Resources
  <2>2. JournalTypeOK' /\ LifecycleTypeOK'
    BY <1>3, <2>1, AbsenceType DEF CompensateAbsent, TypeInv, TypeOK, JournalTypeOK, LifecycleTypeOK
  <2> QED BY <1>3, <2>2, DatabaseStep DEF CompensateAbsent, TypeInv
<1>4. CASE CompensateMismatch(k)
  BY <1>4, BlockType DEF CompensateMismatch
<1>5. CASE CompensateDelete(k)
  <2>1. PICK i \in Ips : Decide(k, "delete_primary_ip", i)
    BY <1>5 DEF CompensateDelete, LiveRows
  <2>2. NamesServer("delete_primary_ip", i) /\ "delete_primary_ip" \in Commands /\ i \in Resources
    BY DEF NamesServer, IpCommands, Commands, Resources
  <2> QED BY <1>5, <2>1, <2>2, DecideStep DEF CompensateDelete
<1>6. CASE CompensateDone(k)
  <2>1. ops[k] \in OpRecord /\ [ops[k] EXCEPT !.prog = "failed"] \in OpRecord
    BY DEF TypeInv, TypeOK, JournalTypeOK, OpRecord, Terminal
  <2>2. JournalTypeOK' /\ LifecycleTypeOK'
    BY <1>6, <2>1 DEF CompensateDone, TypeInv, TypeOK, JournalTypeOK, LifecycleTypeOK
  <2> QED BY <1>6, <2>2, DatabaseStep DEF CompensateDone, TypeInv
<1>7. CASE SubmitIp(k)
  <2>1. NamesServer("create_primary_ip", NoRes) /\ "create_primary_ip" \in Commands
    BY DEF NamesServer, IpCommands, Commands
  <2> QED BY <1>7, <2>1, DecideStep DEF SubmitIp
<1>8. CASE NoConfirmedIp(k)
  BY <1>8, FailWithType DEF NoConfirmedIp
<1>9. CASE IpDisappeared(k)
  <2>1. PICK i \in Ips :
          /\ row' = [row EXCEPT ![i] = "absent"]
          /\ \/ BeginFailure(k, [row EXCEPT ![i] = "absent"]) /\ UNCHANGED faults
             \/ FaultsLeft /\ faults' = faults + 1 /\ UNCHANGED <<ops, machine, alloc>>
    BY <1>9 DEF IpDisappeared, LiveRows
  <2>2. UNCHANGED <<att, w, granted, recovered, sv, ips, act, wire, conn, ext>>
    BY <1>9 DEF IpDisappeared
  <2>3. faults' \in 0..MaxFaults
    BY <2>1, ProviderAssumption DEF FaultsLeft, TypeInv, TypeOK, ProviderTypeOK
  <2>4. ProviderTypeOK'
    BY <2>2, <2>3 DEF TypeInv, TypeOK, ProviderTypeOK
  <2>5. JournalTypeOK' /\ LifecycleTypeOK'
    BY <2>1, <2>2, AbsenceType, BeginFailureType
       DEF TypeInv, TypeOK, JournalTypeOK, LifecycleTypeOK, Resources
  <2> QED BY <2>2, <2>4, <2>5 DEF TypeInv, TypeOK, NamesServer
<1>10. CASE IpMismatch(k)
  BY <1>10, BlockType DEF IpMismatch
<1>11. CASE SubmitServer(k)
  <2>1. PICK i \in Ips : Decide(k, "create", i)
    BY <1>11 DEF SubmitServer, LiveRows
  <2>2. NamesServer("create", i) /\ "create" \in Commands /\ i \in Resources
    BY DEF NamesServer, Commands, Resources
  <2> QED BY <1>11, <2>1, <2>2, DecideStep DEF SubmitServer
<1>12. CASE BackupsMismatch(k)
  BY <1>12, BlockType DEF BackupsMismatch
<1>13. CASE EnableBackups(k)
  <2>1. PICK s \in Servers : Decide(k, "enable_backup", s)
    BY <1>13 DEF EnableBackups
  <2>2. NamesServer("enable_backup", s) /\ "enable_backup" \in Commands /\ s \in Resources
    BY DEF NamesServer, Commands, Resources
  <2> QED BY <1>13, <2>1, <2>2, DecideStep DEF EnableBackups
<1>14. CASE CompleteVerified(k)
  BY <1>14, CompleteType DEF CompleteVerified
<1>15. CASE GuestBlocked(k)
  BY <1>15, BlockType DEF GuestBlocked
<1>16. CASE GuestReady(k)
  <2>1. PICK s \in Servers : Complete(k, s, sv[s].power)
    BY <1>16 DEF GuestReady
  <2>2. sv[s].power \in {"starting", "running", "off"}
    BY DEF TypeInv, TypeOK, ProviderTypeOK, ServerRecord
  <2> QED BY <2>1, <2>2, CompleteType
<1>17. CASE NoLiveServer(k)
  BY <1>17, FailWithType DEF NoLiveServer
<1>18. CASE ActionMismatch(k)
  BY <1>18, BlockType DEF ActionMismatch
<1>19. CASE SubmitAction(k)
  <2>1. ops[k].kind \in PowerCommands \cup {"resize"} /\ Decide(k, ops[k].kind, alloc.server)
    BY <1>19 DEF SubmitAction, ActionStep
  <2>2. ops[k].kind \in Commands
    BY <2>1 DEF Commands, PowerCommands
  <2>3. alloc.server \in Servers /\ alloc.server \in Resources
    BY <1>19 DEF SubmitAction, TypeInv, TypeOK, JournalTypeOK, Resources
  <2>4. NamesServer(ops[k].kind, alloc.server)
    BY <2>3 DEF NamesServer
  <2> QED BY <1>19, <2>1, <2>2, <2>3, <2>4, DecideStep DEF SubmitAction
<1> QED BY <1>1, <1>2, <1>3, <1>4, <1>5, <1>6, <1>7, <1>8, <1>9, <1>10, <1>11, <1>12, <1>13,
           <1>14, <1>15, <1>16, <1>17, <1>18, <1>19 DEF AdvanceRun

-----------------------------------------------------------------------------
(* The journal transaction and the receipt                                  *)

LEMMA InsertType ==
  ASSUME TypeInv, w.pc = "journal", Insert, UNCHANGED lifecycleVars
  PROVE  TypeInv'
<1>1. PICK a \in Attempts :
        /\ att' = [att EXCEPT ![a] = [Unused EXCEPT !.op = w.op, !.cmd = w.cmd, !.tgt = w.tgt,
                                                    !.type = ops[w.op].type]]
        /\ SetProgress(w.op, "active")
        /\ w' = [w EXCEPT !.pc = "sent", !.att = a]
        /\ Submit([id |-> a, cmd |-> w.cmd, tgt |-> w.tgt, type |-> ops[w.op].type])
        /\ UNCHANGED <<row, alloc>>
  BY DEF Insert
<1>2. w \in WorkerRecord /\ w.op \in Ops /\ ops[w.op] \in OpRecord /\ NamesServer(w.cmd, w.tgt)
  BY DEF TypeInv, TypeOK, JournalTypeOK
<1>3. w.cmd \in Commands /\ w.tgt \in Resources \cup {NoRes} /\ ops[w.op].type \in Types
  BY <1>2 DEF WorkerRecord, OpRecord
<1>4. ops' \in [Ops -> OpRecord]
  BY <1>1, <1>2, ProgressType DEF TypeInv, TypeOK
<1>5. att' \in [Attempts -> AttemptRecord]
  <2>1. [Unused EXCEPT !.op = w.op, !.cmd = w.cmd, !.tgt = w.tgt, !.type = ops[w.op].type]
          \in AttemptRecord
    BY <1>2, <1>3 DEF Unused, AttemptRecord
  <2> QED BY <1>1, <2>1 DEF TypeInv, TypeOK, JournalTypeOK
<1>6. w' \in WorkerRecord /\ w.pc' = "sent" /\ w.op' = w.op
  BY <1>1, <1>2 DEF WorkerRecord
<1>7. JournalTypeOK' /\ LifecycleTypeOK'
  BY <1>1, <1>4, <1>5, <1>6 DEF TypeInv, TypeOK, JournalTypeOK, LifecycleTypeOK, lifecycleVars
<1> DEFINE req == [id |-> a, cmd |-> w.cmd, tgt |-> w.tgt, type |-> ops[w.op].type]
<1>8. req \in Request /\ NamesServer(req.cmd, req.tgt)
  BY <1>2, <1>3 DEF Request
<1>9. wire' = wire \cup {req} /\ conn' = [Closed EXCEPT !.id = a] /\ UNCHANGED <<sv, ips, act, faults, ext>>
  BY <1>1 DEF Submit
<1> HIDE DEF req
<1>10. ProviderTypeOK'
  BY <1>8, <1>9 DEF TypeInv, TypeOK, ProviderTypeOK, Closed
<1>11. \A q \in wire' : NamesServer(q.cmd, q.tgt)
  BY <1>8, <1>9 DEF TypeInv
<1>12. (\A q \in wire : NamesServer(q.cmd, q.tgt))'
  BY <1>11 DEF NamesServer
<1> QED BY <1>2, <1>6, <1>7, <1>10, <1>12 DEF TypeInv, TypeOK

\* The worker leaves the channel.
LEMMA HangType ==
  ASSUME TypeInv, Hang, faults' \in 0..MaxFaults, UNCHANGED <<sv, ips, act, wire, ext>>
  PROVE  ProviderTypeOK'
BY DEF TypeInv, TypeOK, ProviderTypeOK, Hang, Closed

LEMMA WorkerJournalType ==
  ASSUME TypeInv, WorkerJournal
  PROVE  TypeInv'
<1>1. CASE JournalFresh \/ JournalCompensation \/ JournalCleanup
  BY <1>1, InsertType DEF JournalFresh, JournalCompensation, JournalCleanup
<1>2. CASE JournalRefused
  BY <1>2, FailWithType DEF JournalRefused, TypeInv
<1>3. CASE JournalDeferred
  <2>1. w' = Idle /\ UNCHANGED <<ops, att, row, alloc, machine, granted, recovered>>
        /\ UNCHANGED providerVars
    BY <1>3 DEF JournalDeferred, ProviderUnchanged
  <2>2. JournalTypeOK' /\ LifecycleTypeOK'
    BY <2>1, IdleType DEF TypeInv, TypeOK, JournalTypeOK, LifecycleTypeOK
  <2> QED BY <2>1, <2>2, IdleType, DatabaseStep
<1>4. CASE RecordAnswer /\ UNCHANGED lifecycleVars
  <2> DEFINE res == IF conn.kind = "rejected" THEN NoRes ELSE conn.res
  <2>1. conn.kind \in {"accepted", "completed", "rejected"} /\ res \in Resources \cup {NoRes}
    BY <1>4 DEF RecordAnswer, TypeInv, TypeOK, ProviderTypeOK
  <2>2. att' = [att EXCEPT ![w.att].outcome = conn.kind, ![w.att].res = res]
    BY <1>4 DEF RecordAnswer
  <2> HIDE DEF res
  <2>3. att' \in [Attempts -> AttemptRecord]
    <3>1. ASSUME NEW a \in Attempts
          PROVE  [att[a] EXCEPT !.outcome = conn.kind, !.res = res] \in AttemptRecord
      <4>1. att[a] \in AttemptRecord BY DEF TypeInv, TypeOK, JournalTypeOK
      <4> QED BY <2>1, <4>1 DEF AttemptRecord
    <3> QED BY <2>2, <3>1 DEF TypeInv, TypeOK, JournalTypeOK
  <2>4. w' \in WorkerRecord /\ (w.pc' # "idle" => w.op' \in Ops) /\ w.pc' # "journal"
    BY <1>4, IdleType DEF RecordAnswer, TypeInv, TypeOK, JournalTypeOK, WorkerRecord
  <2>5. ProviderTypeOK'
    BY <1>4, HangType DEF RecordAnswer, TypeInv, TypeOK, ProviderTypeOK
  <2>6. JournalTypeOK' /\ LifecycleTypeOK'
    BY <1>4, <2>3, <2>4 DEF RecordAnswer, TypeInv, TypeOK, JournalTypeOK, LifecycleTypeOK, lifecycleVars
  <2> QED BY <1>4, <2>4, <2>5, <2>6 DEF RecordAnswer, TypeInv, TypeOK, NamesServer
<1>5. CASE RecordUnknown /\ UNCHANGED lifecycleVars
  <2>1. faults' \in 0..MaxFaults
    BY <1>5, ProviderAssumption DEF RecordUnknown, FaultsLeft, TypeInv, TypeOK, ProviderTypeOK
  <2>2. att' \in [Attempts -> AttemptRecord]
    <3>1. ASSUME NEW a \in Attempts PROVE [att[a] EXCEPT !.outcome = "unknown"] \in AttemptRecord
      <4>1. att[a] \in AttemptRecord BY DEF TypeInv, TypeOK, JournalTypeOK
      <4> QED BY <4>1 DEF AttemptRecord
    <3> QED BY <1>5, <3>1 DEF RecordUnknown, TypeInv, TypeOK, JournalTypeOK
  <2>3. ProviderTypeOK'
    BY <1>5, <2>1, HangType DEF RecordUnknown
  <2>4. JournalTypeOK' /\ LifecycleTypeOK'
    BY <1>5, <2>2, IdleType DEF RecordUnknown, TypeInv, TypeOK, JournalTypeOK, LifecycleTypeOK, lifecycleVars
  <2> QED BY <1>5, <2>3, <2>4, IdleType DEF RecordUnknown, TypeInv, TypeOK, NamesServer
<1>6. CASE ClaimAnswer /\ UNCHANGED lifecycleVars
  <2> DEFINE r == att[w.att].res
  <2>1. w.op \in Ops
    BY <1>6 DEF ClaimAnswer, TypeInv
  <2>2. \/ SetProgress(w.op, "blocked") /\ UNCHANGED <<row, alloc>>
        \/ /\ row' = [row EXCEPT ![r] = "live"]
           /\ alloc' = IF r \in Servers THEN [alloc EXCEPT !.server = r] ELSE alloc
           /\ UNCHANGED ops
    BY <1>6 DEF ClaimAnswer
  <2> HIDE DEF r
  <2>3. ops' \in [Ops -> OpRecord] /\ row' \in [Resources -> {"none", "live", "absent"}]
    BY <2>1, <2>2, ProgressType DEF TypeInv, TypeOK, JournalTypeOK
  <2>4. alloc' \in [retired : BOOLEAN, server : Servers \cup {NoRes}, reserved : Types, offer : Types]
    BY <2>2 DEF TypeInv, TypeOK, JournalTypeOK
  <2>5. w' = Idle /\ att' = att /\ UNCHANGED lifecycleVars /\ UNCHANGED providerVars
    BY <1>6 DEF ClaimAnswer, providerVars
  <2>6. JournalTypeOK' /\ LifecycleTypeOK'
    BY <2>3, <2>4, <2>5, IdleType DEF TypeInv, TypeOK, JournalTypeOK, LifecycleTypeOK, lifecycleVars
  <2> QED BY <2>5, <2>6, IdleType, DatabaseStep
<1> QED BY <1>1, <1>2, <1>3, <1>4, <1>5, <1>6 DEF WorkerJournal

-----------------------------------------------------------------------------
(* Cleanup                                                                  *)

\* A cleanup tick that ends with the worker free.
LEMMA CleanupEnd ==
  ASSUME TypeInv, w' = Idle, UNCHANGED <<att, alloc>>, DatabaseOnly,
         ops' \in [Ops -> OpRecord], row' \in [Resources -> {"none", "live", "absent"}]
  PROVE  TypeInv'
<1>1. UNCHANGED lifecycleVars /\ UNCHANGED providerVars
  BY DEF DatabaseOnly, ProviderUnchanged
<1>2. JournalTypeOK' /\ LifecycleTypeOK'
  BY <1>1, IdleType DEF TypeInv, TypeOK, JournalTypeOK, LifecycleTypeOK, lifecycleVars
<1> QED BY <1>1, <1>2, IdleType, DatabaseStep

LEMMA CleanupType ==
  ASSUME TypeInv, AdvanceCleanup
  PROVE  TypeInv'
<1> USE DEF ProviderUnchanged
<1>0. w.pc = "cleanup" /\ w.op \in Ops
  BY DEF AdvanceCleanup, ResolveNext, TargetAbsent, TargetMismatch, TargetLagging,
         TargetExhausted, DeleteTarget, Settling, FinishCleanup, Target, Fit, Resolved, TypeInv
<1>1. /\ ops \in [Ops -> OpRecord] /\ row \in [Resources -> {"none", "live", "absent"}]
      /\ JournalTypeOK /\ w \in WorkerRecord
  BY DEF TypeInv, TypeOK, JournalTypeOK
<1>2. CASE ResolveNext
  <2>1. PICK a \in w.todo :
          IF Unowned(a)
          THEN SetProgress(w.op, "blocked") /\ w' = Idle /\ UNCHANGED <<att, row, alloc>>
          ELSE Resolve(a, w.op) /\ w' = [w EXCEPT !.todo = @ \ {a}]
    BY <1>2 DEF ResolveNext
  <2>2. UNCHANGED lifecycleVars /\ UNCHANGED providerVars /\ DatabaseOnly
    BY <1>2 DEF ResolveNext, DatabaseOnly
  <2>3. CASE Unowned(a)
    BY <1>0, <1>1, <2>1, <2>2, <2>3, CleanupEnd, ProgressType
  <2>4. CASE ~Unowned(a)
    <3>1. a \in Attempts /\ w' \in WorkerRecord /\ w.pc' = "cleanup" /\ w.op' = w.op
      BY <1>0, <1>1, <2>1, <2>4 DEF WorkerRecord
    <3>2. JournalTypeOK' /\ LifecycleTypeOK'
      BY <1>0, <2>1, <2>2, <2>4, <3>1, ResolveType
         DEF TypeInv, TypeOK, JournalTypeOK, LifecycleTypeOK, lifecycleVars
    <3> QED BY <1>0, <2>2, <3>1, <3>2, DatabaseStep
  <2> QED BY <2>3, <2>4
<1>3. CASE TargetAbsent
  <2>1. PICK r \in Resources : row' = [row EXCEPT ![r] = "absent"]
    BY <1>3 DEF TargetAbsent
  <2> QED BY <1>1, <1>3, <2>1, AbsenceType, CleanupEnd DEF TargetAbsent
<1>4. CASE TargetMismatch
  BY <1>0, <1>1, <1>4, CleanupEnd, ProgressType DEF TargetMismatch
<1>5. CASE TargetLagging
  BY <1>0, <1>1, <1>5, CleanupEnd, ProgressType DEF TargetLagging
<1>6. CASE TargetExhausted
  BY <1>0, <1>1, <1>6, CleanupEnd, ProgressType DEF TargetExhausted
<1>7. CASE DeleteTarget
  <2>1. PICK r \in Resources :
          Decide(w.op, IF r \in Servers THEN "destroy" ELSE "delete_primary_ip", r)
    BY <1>7 DEF DeleteTarget
  <2> DEFINE cmd == IF r \in Servers THEN "destroy" ELSE "delete_primary_ip"
  <2>2. cmd \in Commands /\ NamesServer(cmd, r)
    BY DEF Commands, IpCommands, NamesServer
  <2>3. UNCHANGED <<ops, att, row, alloc, machine, granted, recovered>> /\ UNCHANGED providerVars
    BY <1>7 DEF DeleteTarget, DatabaseOnly, lifecycleVars
  <2> HIDE DEF cmd
  <2>4. Decide(w.op, cmd, r)
    BY <2>1 DEF cmd
  <2> QED BY <1>0, <2>2, <2>3, <2>4, DecideStep
<1>8. CASE Settling
  BY <1>1, <1>8, CleanupEnd DEF Settling
<1>9. CASE FinishCleanup
  <2>1. /\ [ops[w.op] EXCEPT !.prog = "cancelled"] \in OpRecord
        /\ [ops[w.op] EXCEPT !.prog = "succeeded"] \in OpRecord
    <3>1. ops[w.op] \in OpRecord BY <1>0, <1>1
    <3> QED BY <3>1 DEF OpRecord, Terminal
  <2>2. ops' \in [Ops -> OpRecord]
    BY <1>0, <1>1, <1>9, <2>1 DEF FinishCleanup
  <2>3. JournalTypeOK' /\ LifecycleTypeOK'
    BY <1>9, <2>2, IdleType DEF FinishCleanup, TypeInv, TypeOK, JournalTypeOK, LifecycleTypeOK
  <2> QED BY <1>9, <2>3, IdleType, DatabaseStep DEF FinishCleanup
<1> QED BY <1>2, <1>3, <1>4, <1>5, <1>6, <1>7, <1>8, <1>9 DEF AdvanceCleanup

LEMMA BeginCleanupType ==
  ASSUME TypeInv, NEW k \in Ops, BeginCleanup(k)
  PROVE  TypeInv'
<1>1. PendingIn(k) \subseteq Attempts
  BY DEF PendingIn, Scope, Of
<1>2. w' \in WorkerRecord /\ w.pc' = "cleanup" /\ w.op' = k
  BY <1>1 DEF BeginCleanup, Idle, WorkerRecord, Commands
<1>3. UNCHANGED <<ops, att, row, alloc>> /\ UNCHANGED lifecycleVars /\ UNCHANGED providerVars
  BY DEF BeginCleanup, ProviderUnchanged
<1>4. JournalTypeOK' /\ LifecycleTypeOK'
  BY <1>2, <1>3 DEF TypeInv, TypeOK, JournalTypeOK, LifecycleTypeOK, lifecycleVars
<1> QED BY <1>2, <1>3, <1>4, DatabaseStep

-----------------------------------------------------------------------------
(* Crashes, users and operators                                             *)

LEMMA DiscoverType ==
  ASSUME TypeInv, NEW a \in Attempts, DiscoverOnly(a)
  PROVE  /\ row' \in [Resources -> {"none", "live", "absent"}]
         /\ alloc' \in [retired : BOOLEAN, server : Servers \cup {NoRes},
                        reserved : Types, offer : Types]
<1>1. row' \in [Resources -> {"none", "live", "absent"}]
  BY DEF DiscoverOnly, RowAfterClaims, TypeInv, TypeOK, JournalTypeOK
<1>2. alloc' \in [retired : BOOLEAN, server : Servers \cup {NoRes}, reserved : Types, offer : Types]
  BY DEF DiscoverOnly, TypeInv, TypeOK, JournalTypeOK
<1> QED BY <1>1, <1>2

LEMMA CrashType ==
  ASSUME TypeInv, CrashStep
  PROVE  TypeInv'
<1>1. faults' \in 0..MaxFaults
  BY ProviderAssumption DEF CrashStep, Crash, CrashAfterDiscovery, FaultsLeft, TypeInv, TypeOK, ProviderTypeOK
<1>2. CASE Crash
  <2>1. ProviderTypeOK'
    BY <1>1, <1>2, HangType DEF Crash
  <2>2. JournalTypeOK' /\ LifecycleTypeOK'
    BY <1>2, IdleType DEF Crash, TypeInv, TypeOK, JournalTypeOK, LifecycleTypeOK, lifecycleVars
  <2> QED BY <1>2, <2>1, <2>2, IdleType DEF Crash, TypeInv, TypeOK, NamesServer
<1>3. ASSUME NEW k \in Ops, CrashAfterDiscovery(k)
      PROVE  TypeInv'
  <2>1. PICK a \in Attempts : DiscoverOnly(a)
    BY <1>3 DEF CrashAfterDiscovery, Scope, Of
  <2>2. UNCHANGED <<ops, att, w, sv, ips, act, wire, conn, ext>> /\ UNCHANGED lifecycleVars
    BY <1>3 DEF CrashAfterDiscovery
  <2>3. ProviderTypeOK'
    BY <1>1, <2>2 DEF TypeInv, TypeOK, ProviderTypeOK
  <2>4. JournalTypeOK' /\ LifecycleTypeOK'
    BY <2>1, <2>2, DiscoverType DEF TypeInv, TypeOK, JournalTypeOK, LifecycleTypeOK, lifecycleVars
  <2> QED BY <2>2, <2>3, <2>4 DEF TypeInv, TypeOK, NamesServer
<1> QED BY <1>2, <1>3 DEF CrashStep

LEMMA UserType ==
  ASSUME TypeInv, UserStep
  PROVE  TypeInv'
<1> USE DEF ProviderUnchanged
<1>1. ASSUME NEW k \in Ops, TakeOverCreate(k)
      PROVE  TypeInv'
  <2>1. ops[k] \in OpRecord
    BY DEF TypeInv, TypeOK, JournalTypeOK
  <2>2. [ops[k] EXCEPT !.intent = "cleanup", !.prog = "active"] \in OpRecord
    BY <2>1 DEF OpRecord
  <2>3. ops' = [ops EXCEPT ![k] = [ops[k] EXCEPT !.intent = "cleanup", !.prog = "active"]]
    BY <1>1 DEF TakeOverCreate
  <2>4. JournalTypeOK' /\ LifecycleTypeOK'
    BY <1>1, <2>2, <2>3 DEF TakeOverCreate, TypeInv, TypeOK, JournalTypeOK, LifecycleTypeOK, lifecycleVars
  <2> QED BY <1>1, <2>4, DatabaseStep DEF TakeOverCreate, TypeInv
<1>2. ASSUME NEW k \in Ops, AdmitDestroy(k)
      PROVE  TypeInv'
  <2>1. [kind |-> "destroy", intent |-> "cleanup", prog |-> "active", type |-> alloc.offer] \in OpRecord
    BY DEF TypeInv, TypeOK, JournalTypeOK, OpRecord, Kinds
  <2>2. JournalTypeOK' /\ LifecycleTypeOK'
    BY <1>2, <2>1 DEF AdmitDestroy, TypeInv, TypeOK, JournalTypeOK, LifecycleTypeOK, lifecycleVars
  <2> QED BY <1>2, <2>2, DatabaseStep DEF AdmitDestroy, TypeInv
<1>3. ASSUME NEW k \in Ops, NEW kind \in ActionKinds, NEW type \in Types, Admit(k, kind, type)
      PROVE  TypeInv'
  <2>1. [kind |-> kind, intent |-> "run", prog |-> "active", type |-> type] \in OpRecord
    BY ActionAssumption DEF OpRecord, Kinds
  <2>2. ops' \in [Ops -> OpRecord]
    BY <1>3, <2>1 DEF Admit, TypeInv, TypeOK, JournalTypeOK
  <2>3. alloc' \in [retired : BOOLEAN, server : Servers \cup {NoRes}, reserved : Types, offer : Types]
    BY <1>3 DEF Admit, TypeInv, TypeOK, JournalTypeOK
  <2>4. JournalTypeOK' /\ LifecycleTypeOK'
    BY <1>3, <2>2, <2>3 DEF Admit, TypeInv, TypeOK, JournalTypeOK, LifecycleTypeOK
  <2> QED BY <1>3, <2>4, DatabaseStep DEF Admit, TypeInv
<1>4. CASE Revoke
  <2>1. JournalTypeOK' /\ LifecycleTypeOK'
    BY <1>4 DEF Revoke, TypeInv, TypeOK, JournalTypeOK, LifecycleTypeOK
  <2> QED BY <1>4, <2>1, DatabaseStep DEF Revoke, TypeInv
<1> QED BY <1>1, <1>2, <1>3, <1>4 DEF UserStep

LEMMA OperatorType ==
  ASSUME TypeInv, NEW k \in Ops, NEW a \in Attempts,
         CloseRefused(k, a) \/ CloseCreate(k, a) \/ RetryDelete(k, a)
  PROVE  TypeInv'
<1> USE DEF ProviderUnchanged
<1>1. CASE CloseRefused(k, a)
  <2>1. JournalTypeOK' /\ LifecycleTypeOK'
    BY <1>1, DiscoverType DEF CloseRefused, TypeInv, TypeOK, JournalTypeOK, LifecycleTypeOK, lifecycleVars
  <2> QED BY <1>1, <2>1, DatabaseStep DEF CloseRefused, TypeInv
<1>2. CASE CloseCreate(k, a)
  <2>1. att[a] \in AttemptRecord
    BY DEF TypeInv, TypeOK, JournalTypeOK
  <2>2. [att[a] EXCEPT !.resol = "operator_closed"] \in AttemptRecord
    BY <2>1 DEF AttemptRecord
  <2>3. JournalTypeOK' /\ LifecycleTypeOK'
    BY <1>2, <2>2 DEF CloseCreate, TypeInv, TypeOK, JournalTypeOK, LifecycleTypeOK, lifecycleVars
  <2> QED BY <1>2, <2>3, DatabaseStep DEF CloseCreate, TypeInv
<1>3. CASE RetryDelete(k, a)
  <2>1. JournalTypeOK' /\ LifecycleTypeOK'
    BY <1>3 DEF RetryDelete, TypeInv, TypeOK, JournalTypeOK, LifecycleTypeOK
  <2> QED BY <1>3, <2>1, DatabaseStep DEF RetryDelete, TypeInv
<1> QED BY <1>1, <1>2, <1>3

-----------------------------------------------------------------------------

LEMMA InitType == Init => TypeInv
<1> SUFFICES ASSUME Init PROVE TypeInv
  OBVIOUS
<1>1. 1 \in Types /\ Source \in Ops
  BY ProviderAssumption, JournalAssumption DEF Types, Ops, Source
<1>2. ProviderTypeOK
  BY <1>1, ProviderAssumption DEF Init, ProviderInit, ProviderTypeOK, ServerRecord, IpRecord,
     ActionRecord, Commands, Closed
<1>3. JournalTypeOK
  BY <1>1, IdleType DEF Init, JournalTypeOK, OpRecord, Kinds, AttemptRecord, Unused, Commands
<1>4. LifecycleTypeOK
  BY DEF Init, LifecycleTypeOK
<1>5. w.pc = "idle" /\ wire = {}
  BY IdleType DEF Init, ProviderInit
<1> QED BY <1>2, <1>3, <1>4, <1>5 DEF TypeInv, TypeOK

LEMMA NextType == TypeInv /\ [Next]_vars => TypeInv'
<1> SUFFICES ASSUME TypeInv, [Next]_vars PROVE TypeInv'
  OBVIOUS
<1>1. CASE EnvironmentStep
  <2>1. ProviderTypeOK' /\ wire' \subseteq wire
    BY <1>1, ProviderType DEF EnvironmentStep
  <2> QED BY <1>1, <2>1 DEF EnvironmentStep, DatabaseUnchanged, TypeInv, TypeOK, JournalTypeOK,
             LifecycleTypeOK, NamesServer
<1>2. CASE WorkerStep
  BY <1>2, WorkerJournalType, CleanupType, AdvanceRunType, BeginCleanupType DEF WorkerStep
<1>3. CASE CrashStep
  BY <1>3, CrashType
<1>4. CASE UserStep
  BY <1>4, UserType
<1>5. CASE OperatorStep
  BY <1>5, OperatorType DEF OperatorStep
<1>6. CASE UNCHANGED vars
  BY <1>6 DEF vars, TypeInv, TypeOK, ProviderTypeOK, JournalTypeOK, LifecycleTypeOK, NamesServer
<1> QED BY <1>1, <1>2, <1>3, <1>4, <1>5, <1>6 DEF Next

\* Every variable keeps its type and every request names the right kind of
\* resource, for any number of servers, IPs, operations, attempts and faults.
THEOREM TypeCorrect == Spec => []TypeInv
<1>1. Init => TypeInv BY InitType
<1>2. TypeInv /\ [Next]_vars => TypeInv' BY NextType
<1> QED BY <1>1, <1>2, PTL DEF Spec

\* TypeOK of the lifecycle model holds in every reachable state, whatever the
\* sets of provider ids and the bounds are.
THEOREM TypesKept == Spec => []TypeOK
<1>1. TypeInv => TypeOK BY DEF TypeInv
<1> QED BY <1>1, TypeCorrect, PTL

-----------------------------------------------------------------------------
(* The journal and the worker.                                               *)

\* A busy worker works for an operation that has not ended.
BusyWorker == w.pc # "idle" => Active(w.op) /\ ~alloc.retired

\* A submission under way has an attempt without a receipt.
SentAttempt ==
  w.pc \in {"sent", "claim"} =>
    /\ w.att \in Attempts /\ att[w.att].op = w.op
    /\ w.pc = "sent" => att[w.att].outcome = "prepared"

\* The cleanup executor runs for an admitted cleanup and judges only pending attempts.
CleanupWork ==
  w.pc = "cleanup" =>
    /\ ops[w.op].intent = "cleanup"
    /\ \A a \in w.todo : att[a].op # 0 /\ att[a].resol = "pending"

\* Fresh work and compensation submit only after everything before is judged.
RunSettled == w.pc = "journal" /\ ops[w.op].intent # "cleanup" => PendingOf(w.op) = {}

UnusedAttempt ==
  \A a \in Attempts : att[a].op = 0 => att[a].outcome = "prepared" /\ att[a].resol = "pending"

\* Creates belong to the source operation, which submits each kind once.
CreateWork ==
  /\ \A k \in Ops : ops[k].kind = "create" <=> k = Source
  /\ \A a \in Attempts : att[a].op # 0 /\ att[a].cmd \in CreateCommands => att[a].op = Source
  /\ w.pc = "journal" /\ w.cmd \in CreateCommands =>
       w.op = Source /\ EffectOf(Source, w.cmd) = {}

JournalInv ==
  /\ BusyWorker /\ SentAttempt /\ CleanupWork /\ RunSettled /\ UnusedAttempt
  /\ CreateWork /\ CreateSubmittedOnce /\ TerminalIsSettled

\* The resource has existed and reads have shown it.
Known(r) == IF r \in Servers THEN sv[r].st # "none" /\ sv[r].vis
                             ELSE ips[r].st # "none" /\ ips[r].vis

Gone(r) == (IF r \in Servers THEN sv[r].st ELSE ips[r].st) = "gone"

KnownId(r) == r # NoRes => Known(r)

\* Every id in the database, on the wire or in an answer is known.
KnownIds ==
  /\ \A r \in Resources : row[r] # "none" => Known(r)
  /\ \A a \in Attempts : KnownId(att[a].tgt) /\ KnownId(att[a].res)
  /\ KnownId(w.tgt) /\ KnownId(conn.res)
  /\ \A req \in wire : KnownId(req.tgt)

LedgerInv == KnownIds /\ AbsentIsGone

-----------------------------------------------------------------------------
(* What a step may do to the history                                        *)

AttemptsKept ==
  \A a \in Attempts :
    /\ att[a].outcome # "prepared" => att'[a].outcome = att[a].outcome
    /\ att[a].resol # "pending" => att'[a].resol = att[a].resol
    /\ att[a].op # 0 => att'[a].op = att[a].op /\ att'[a].cmd = att[a].cmd
                                              /\ att'[a].tgt = att[a].tgt

OpsKept ==
  \A k \in Ops : ops[k].prog \in Terminal /\ ops[k].kind # "none" => ops'[k].prog = ops[k].prog

RowsKept ==
  \A r \in Resources : /\ row[r] = "absent" => row'[r] = "absent"
                       /\ row[r] # "none" => row'[r] # "none"

\* No attempt is added, and judged ones stay as they are.
NoNewAttempt ==
  AttemptsKept /\ \A a \in Attempts :
    /\ att'[a].op = att[a].op /\ att'[a].cmd = att[a].cmd /\ att'[a].tgt = att[a].tgt
    /\ att[a].op = 0 => att'[a] = att[a]

\* No operation is added, and one that ends has nothing pending.
NoNewOp ==
  \A k \in Ops :
    /\ ops'[k].kind = ops[k].kind
    /\ ops[k].prog \in Terminal => ops'[k].prog = ops[k].prog
    /\ ops'[k].prog \in Terminal => ops[k].prog \in Terminal \/ PendingOf(k) = {}

\* A step after which the worker is free.
LEMMA IdleStep ==
  ASSUME TypeInv, JournalInv, w.pc' = "idle", NoNewAttempt, NoNewOp
  PROVE  JournalInv' /\ AttemptsKept /\ OpsKept
<1>1. AttemptsKept /\ OpsKept
  BY DEF NoNewAttempt, NoNewOp, OpsKept
<1>2. BusyWorker' /\ SentAttempt' /\ CleanupWork' /\ RunSettled'
  BY DEF BusyWorker, SentAttempt, CleanupWork, RunSettled
<1>3. UnusedAttempt'
  BY DEF JournalInv, UnusedAttempt, NoNewAttempt
<1>4. CreateWork'
  BY DEF JournalInv, CreateWork, NoNewAttempt, NoNewOp
<1>5. CreateSubmittedOnce'
  BY DEF JournalInv, CreateSubmittedOnce, NoNewAttempt
<1>6. TerminalIsSettled'
  BY DEF JournalInv, TerminalIsSettled, PendingOf, Of, NoNewAttempt, AttemptsKept, NoNewOp
<1> QED BY <1>1, <1>2, <1>3, <1>4, <1>5, <1>6 DEF JournalInv

\* What does not change is kept.
LEMMA SameAttempts == ASSUME att' = att PROVE NoNewAttempt
BY DEF NoNewAttempt, AttemptsKept

LEMMA SameOps == ASSUME ops' = ops PROVE NoNewOp
BY DEF NoNewOp

LEMMA SameRows == ASSUME row' = row PROVE RowsKept
BY DEF RowsKept

LEMMA ProgressKept ==
  ASSUME TypeInv, NEW k \in Ops, NEW p \in {"active", "blocked"}, Active(k), SetProgress(k, p)
  PROVE  NoNewOp
BY DEF TypeInv, TypeOK, JournalTypeOK, OpRecord, Active, SetProgress, NoNewOp, Terminal

LEMMA AbsenceKeeps ==
  ASSUME TypeInv, NEW r \in Resources, row' = [row EXCEPT ![r] = "absent"]
  PROVE  RowsKept
BY DEF TypeInv, TypeOK, JournalTypeOK, RowsKept

LEMMA DiscoveryKeeps ==
  ASSUME TypeInv, NEW a \in Attempts, DiscoverOnly(a)
  PROVE  RowsKept /\ alloc.retired' = alloc.retired
<1>1. RowsKept
  BY DEF DiscoverOnly, RowAfterClaims, Claimed, RowsKept
<1>2. alloc.retired' = alloc.retired
  BY DEF DiscoverOnly, TypeInv, TypeOK, JournalTypeOK
<1> QED BY <1>1, <1>2

\* Judging a pending attempt touches that attempt's resolution, and progress.
LEMMA ResolveKeeps ==
  ASSUME TypeInv, NEW a \in Attempts, NEW k \in Ops, Resolve(a, k),
         att[a].op # 0, att[a].resol = "pending", Active(k)
  PROVE  /\ NoNewAttempt /\ NoNewOp /\ RowsKept
         /\ \A b \in Attempts : b # a => att'[b] = att[b]
         /\ \A j \in Ops : ops'[j].intent = ops[j].intent
         /\ Active(k)'
         /\ alloc.retired' = alloc.retired
<1> DEFINE recovering == ops[k].intent = "cleanup"
           v == Verdict(a, recovering)
<1>0. v.kind \in {"waiting", "blocked", "failed", "absent", "confirmed"}
  BY VerdictType
<1> HIDE DEF v
<1>a. /\ ops \in [Ops -> OpRecord] /\ att \in [Attempts -> AttemptRecord]
      /\ row \in [Resources -> {"none", "live", "absent"}]
      /\ alloc \in [retired : BOOLEAN, server : Servers \cup {NoRes}, reserved : Types, offer : Types]
  BY DEF TypeInv, TypeOK, JournalTypeOK
<1>1. CASE v.kind \in {"waiting", "blocked"}
  <2>1. SetProgress(k, "active") \/ SetProgress(k, "blocked")
    BY <1>1 DEF Resolve, v
  <2>2. DiscoverOnly(a) /\ att' = att
    BY <1>1 DEF Resolve, v
  <2>3. NoNewOp BY <2>1, ProgressKept
  <2>4. \A j \in Ops : ops'[j].intent = ops[j].intent
    BY <1>a, <2>1 DEF SetProgress, OpRecord
  <2>5. Active(k)'
    BY <1>a, <2>1 DEF SetProgress, Active, Terminal, OpRecord
  <2> QED BY <2>2, <2>3, <2>4, <2>5, SameAttempts, DiscoveryKeeps
<1>2. CASE v.kind = "failed"
  <2>1. att' = [att EXCEPT ![a].resol = "failed"] /\ UNCHANGED <<ops, row, alloc>>
    BY <1>2 DEF Resolve, v
  <2>2. NoNewAttempt /\ \A b \in Attempts : b # a => att'[b] = att[b]
    BY <1>a, <2>1 DEF NoNewAttempt, AttemptsKept
  <2> QED BY <2>1, <2>2, SameOps, SameRows DEF Active
<1>3. CASE v.kind = "absent"
  <2>1. /\ att' = [att EXCEPT ![a].resol = "absent"]
        /\ row' = [row EXCEPT ![v.res] = IF @ = "live" THEN "absent" ELSE @]
        /\ UNCHANGED <<ops, alloc>>
    BY <1>3 DEF Resolve, v
  <2>2. NoNewAttempt /\ \A b \in Attempts : b # a => att'[b] = att[b]
    BY <1>a, <2>1 DEF NoNewAttempt, AttemptsKept
  <2>3. RowsKept
    BY <1>a, <2>1 DEF RowsKept
  <2> QED BY <2>1, <2>2, <2>3, SameOps DEF Active
<1>4. CASE v.kind = "confirmed"
  <2>1. /\ att' = [att EXCEPT ![a].resol = "confirmed", ![a].res = v.res,
                              ![a].pow = IF v.res \in Servers THEN sv[v.res].power ELSE @]
        /\ row' = [RowAfterClaims(a) EXCEPT ![v.res] = "live"]
        /\ alloc' = IF v.res \in Servers THEN [alloc EXCEPT !.server = v.res] ELSE alloc
        /\ UNCHANGED ops
    BY <1>4 DEF Resolve, v
  <2>2. NoNewAttempt /\ \A b \in Attempts : b # a => att'[b] = att[b]
    BY <1>a, <2>1 DEF NoNewAttempt, AttemptsKept
  <2>3. RowAfterClaims(a)[v.res] # "absent"
    BY <1>4 DEF v, Verdict, Result
  <2>4. RowsKept
    BY <1>a, <2>1, <2>3 DEF RowsKept, RowAfterClaims, Claimed
  <2>5. alloc.retired' = alloc.retired
    BY <1>a, <2>1
  <2> QED BY <2>1, <2>2, <2>4, <2>5, SameOps DEF Active
<1> QED BY <1>0, <1>1, <1>2, <1>3, <1>4

-----------------------------------------------------------------------------
(* One step of an operation                                                 *)

\* The step keeps the invariant and the history.
Sound == JournalInv' /\ AttemptsKept /\ OpsKept /\ RowsKept

LEMMA BlockSound ==
  ASSUME TypeInv, JournalInv, NEW k \in Ops, Active(k), Block(k)
  PROVE  Sound
<1>1. NoNewOp BY ProgressKept DEF Block
<1>2. att' = att /\ row' = row /\ w.pc' = "idle" BY IdleType DEF Block
<1> QED BY <1>1, <1>2, SameAttempts, SameRows, IdleStep DEF Sound

LEMMA BeginFailureKeeps ==
  ASSUME TypeInv, NEW k \in Ops, NEW rows, Active(k), PendingOf(k) = {}, BeginFailure(k, rows)
  PROVE  NoNewOp
<1>1. \/ ops' = [ops EXCEPT ![k].intent = "compensate", ![k].prog = "active"]
      \/ ops' = [ops EXCEPT ![k].prog = "failed"]
  BY DEF BeginFailure
<1>2. ops[k] \in OpRecord /\ ops \in [Ops -> OpRecord]
  BY DEF TypeInv, TypeOK, JournalTypeOK
<1> QED BY <1>1, <1>2 DEF NoNewOp, OpRecord, Active, Terminal

LEMMA FailWithSound ==
  ASSUME TypeInv, JournalInv, NEW k \in Ops, Active(k), PendingOf(k) = {}, FailWith(k)
  PROVE  Sound
<1>1. NoNewOp BY BeginFailureKeeps DEF FailWith
<1>2. att' = att /\ row' = row /\ w.pc' = "idle" BY IdleType DEF FailWith
<1> QED BY <1>1, <1>2, SameAttempts, SameRows, IdleStep DEF Sound

\* An operation that ends with a given result.
LEMMA EndKeeps ==
  ASSUME TypeInv, NEW k \in Ops, NEW p \in Terminal, Active(k), PendingOf(k) = {},
         ops' = [ops EXCEPT ![k].prog = p]
  PROVE  NoNewOp
BY DEF TypeInv, TypeOK, JournalTypeOK, OpRecord, NoNewOp, Active

LEMMA CompleteSound ==
  ASSUME TypeInv, JournalInv, NEW k \in Ops, Active(k), PendingOf(k) = {},
         NEW s, NEW power, Complete(k, s, power)
  PROVE  Sound
<1>1. NoNewOp BY EndKeeps DEF Complete, Terminal
<1>2. att' = att /\ row' = row /\ w.pc' = "idle" BY IdleType DEF Complete
<1> QED BY <1>1, <1>2, SameAttempts, SameRows, IdleStep DEF Sound

LEMMA DecideSound ==
  ASSUME TypeInv, JournalInv, NEW k \in Ops, NEW cmd \in Commands,
         NEW tgt \in Resources \cup {NoRes}, Active(k), ~alloc.retired, Decide(k, cmd, tgt),
         UNCHANGED <<ops, att, row, alloc>>,
         ops[k].intent # "cleanup" => PendingOf(k) = {},
         cmd \in CreateCommands => k = Source /\ EffectOf(Source, cmd) = {}
  PROVE  Sound
<1>1. w.pc' = "journal" /\ w.op' = k /\ w.cmd' = cmd
  BY DEF Decide, Idle
<1>2. AttemptsKept /\ OpsKept /\ RowsKept
  BY SameAttempts, SameRows DEF NoNewAttempt, OpsKept
<1>3. BusyWorker' /\ SentAttempt' /\ CleanupWork'
  BY <1>1 DEF BusyWorker, SentAttempt, CleanupWork, Active
<1>4. RunSettled' /\ UnusedAttempt' /\ CreateSubmittedOnce' /\ TerminalIsSettled'
  BY <1>1 DEF RunSettled, UnusedAttempt, CreateSubmittedOnce, TerminalIsSettled, PendingOf, Of, JournalInv
<1>5. CreateWork'
  BY <1>1 DEF CreateWork, JournalInv, EffectOf, Of
<1> QED BY <1>2, <1>3, <1>4, <1>5 DEF Sound, JournalInv

LEMMA AdvanceRunSound ==
  ASSUME TypeInv, JournalInv, NEW k \in Ops, AdvanceRun(k)
  PROVE  Sound
<1>0. Tick(k) /\ Active(k) /\ ~alloc.retired /\ w.pc = "idle"
  BY DEF AdvanceRun, ResolvePending, HandleFailedEffect, CompensateAbsent, CompensateMismatch,
     CompensateDelete, CompensateDone, Compensating, SubmitIp, NoConfirmedIp, IpDisappeared,
     IpMismatch, SubmitServer, BeforeServer, CreateStep, BackupsMismatch, EnableBackups,
     CompleteVerified, GuestBlocked, GuestReady, Completing, Verified, NoLiveServer,
     ActionMismatch, SubmitAction, ActionStep, ReadyToRun, Tick
<1>1. CASE ResolvePending(k)
  <2>1. PICK a \in Attempts : Resolve(a, k) /\ att[a].op = k /\ att[a].resol = "pending"
    BY <1>1 DEF ResolvePending, PendingOf, Of
  <2>2. att[a].op # 0
    BY <2>1 DEF Ops
  <2>3. w.pc' = "idle"
    BY <1>1, IdleType DEF ResolvePending
  <2> QED BY <1>0, <2>1, <2>2, <2>3, ResolveKeeps, IdleStep DEF Sound
<1>2. CASE HandleFailedEffect(k)
  BY <1>0, <1>2, FailWithSound DEF HandleFailedEffect
<1>3. CASE CompensateAbsent(k)
  <2>1. PICK i \in Resources : row' = [row EXCEPT ![i] = "absent"]
    BY <1>3 DEF CompensateAbsent, LiveRows, Resources
  <2>2. att' = att /\ ops' = ops /\ w.pc' = "idle"
    BY <1>0, <1>3 DEF CompensateAbsent
  <2> QED BY <2>1, <2>2, AbsenceKeeps, SameAttempts, SameOps, IdleStep DEF Sound
<1>4. CASE CompensateMismatch(k)
  BY <1>0, <1>4, BlockSound DEF CompensateMismatch
<1>5. CASE CompensateDelete(k)
  <2>1. PICK i \in Ips : Decide(k, "delete_primary_ip", i)
    BY <1>5 DEF CompensateDelete, LiveRows
  <2>2. "delete_primary_ip" \in Commands /\ i \in Resources /\ "delete_primary_ip" \notin CreateCommands
    BY DEF IpCommands, Commands, Resources, CreateCommands
  <2> QED BY <1>0, <1>5, <2>1, <2>2, DecideSound DEF CompensateDelete, Compensating
<1>6. CASE CompensateDone(k)
  <2>1. NoNewOp
    BY <1>0, <1>6, EndKeeps DEF CompensateDone, Compensating, Terminal
  <2>2. att' = att /\ row' = row /\ w.pc' = "idle"
    BY <1>0, <1>6 DEF CompensateDone
  <2> QED BY <2>1, <2>2, SameAttempts, SameRows, IdleStep DEF Sound
<1>7. CASE SubmitIp(k)
  <2>1. "create_primary_ip" \in Commands /\ k = Source
    BY <1>7 DEF IpCommands, Commands, SubmitIp, CreateStep, JournalInv, CreateWork
  <2> QED BY <1>0, <1>7, <2>1, DecideSound DEF SubmitIp, CreateStep, ReadyToRun
<1>8. CASE NoConfirmedIp(k)
  BY <1>0, <1>8, FailWithSound DEF NoConfirmedIp, BeforeServer, CreateStep, ReadyToRun
<1>9. CASE IpDisappeared(k)
  <2>1. PICK i \in Ips :
          /\ row' = [row EXCEPT ![i] = "absent"]
          /\ BeginFailure(k, [row EXCEPT ![i] = "absent"]) \/ ops' = ops
    BY <1>9 DEF IpDisappeared, LiveRows
  <2>2. NoNewOp
    BY <1>0, <1>9, <2>1, SameOps, BeginFailureKeeps DEF IpDisappeared, BeforeServer, CreateStep, ReadyToRun
  <2>3. att' = att /\ w.pc' = "idle" /\ i \in Resources
    BY <1>0, <1>9 DEF IpDisappeared, Resources
  <2> QED BY <2>1, <2>2, <2>3, AbsenceKeeps, SameAttempts, IdleStep DEF Sound
<1>10. CASE IpMismatch(k)
  BY <1>0, <1>10, BlockSound DEF IpMismatch
<1>11. CASE SubmitServer(k)
  <2>1. PICK i \in Ips : Decide(k, "create", i)
    BY <1>11 DEF SubmitServer, LiveRows
  <2>2. "create" \in Commands /\ i \in Resources /\ k = Source
    BY <1>11 DEF Commands, Resources, SubmitServer, BeforeServer, CreateStep, JournalInv, CreateWork
  <2> QED BY <1>0, <1>11, <2>1, <2>2, DecideSound DEF SubmitServer, BeforeServer, CreateStep, ReadyToRun
<1>12. CASE BackupsMismatch(k)
  BY <1>0, <1>12, BlockSound DEF BackupsMismatch
<1>13. CASE EnableBackups(k)
  <2>1. PICK s \in Servers : Decide(k, "enable_backup", s) /\ Verified(k, s)
    BY <1>13 DEF EnableBackups
  <2>2. "enable_backup" \in Commands /\ s \in Resources /\ "enable_backup" \notin CreateCommands
    BY DEF Commands, Resources, CreateCommands
  <2> QED BY <1>0, <1>13, <2>1, <2>2, DecideSound DEF EnableBackups, Verified, ReadyToRun
<1>14. CASE CompleteVerified(k)
  BY <1>0, <1>14, CompleteSound DEF CompleteVerified, Completing, Verified, ReadyToRun
<1>15. CASE GuestBlocked(k)
  BY <1>0, <1>15, BlockSound DEF GuestBlocked
<1>16. CASE GuestReady(k)
  BY <1>0, <1>16, CompleteSound DEF GuestReady, Completing, Verified, ReadyToRun
<1>17. CASE NoLiveServer(k)
  BY <1>0, <1>17, FailWithSound DEF NoLiveServer, ActionStep, ReadyToRun
<1>18. CASE ActionMismatch(k)
  BY <1>0, <1>18, BlockSound DEF ActionMismatch
<1>19. CASE SubmitAction(k)
  <2>1. ops[k].kind \in PowerCommands \cup {"resize"} /\ Decide(k, ops[k].kind, alloc.server)
    BY <1>19 DEF SubmitAction, ActionStep
  <2>2. ops[k].kind \in Commands /\ ops[k].kind \notin CreateCommands
    BY <2>1 DEF Commands, PowerCommands, CreateCommands
  <2>3. alloc.server \in Resources
    BY <1>19 DEF SubmitAction, TypeInv, TypeOK, JournalTypeOK, Resources
  <2> QED BY <1>0, <1>19, <2>1, <2>2, <2>3, DecideSound DEF SubmitAction, ActionStep, ReadyToRun
<1> QED BY <1>1, <1>2, <1>3, <1>4, <1>5, <1>6, <1>7, <1>8, <1>9, <1>10, <1>11, <1>12, <1>13,
           <1>14, <1>15, <1>16, <1>17, <1>18, <1>19 DEF AdvanceRun

-----------------------------------------------------------------------------
(* The journal transaction and the receipt                                  *)

\* What Insert does to the database: a fresh attempt of the worker's operation.
LEMMA InsertFacts ==
  ASSUME TypeInv, JournalInv, w.pc = "journal", Insert
  PROVE  \E a \in Attempts :
           /\ att[a].op = 0
           /\ att'[a].op = w.op /\ att'[a].cmd = w.cmd /\ att'[a].tgt = w.tgt
           /\ att'[a].outcome = "prepared" /\ att'[a].resol = "pending" /\ att'[a].res = NoRes
           /\ \A b \in Attempts : b # a => att'[b] = att[b]
           /\ w'.pc = "sent" /\ w'.att = a /\ w'.op = w.op /\ w'.tgt = w.tgt
           /\ w'.cmd = w.cmd
           /\ wire' = wire \cup {[id |-> a, cmd |-> w.cmd, tgt |-> w.tgt, type |-> ops[w.op].type]}
           /\ conn' = [Closed EXCEPT !.id = a]
           /\ UNCHANGED <<sv, ips, row, alloc>>
           /\ SetProgress(w.op, "active") /\ w.op \in Ops
<1>1. PICK a \in Attempts :
        /\ att[a].op = 0
        /\ att' = [att EXCEPT ![a] = [Unused EXCEPT !.op = w.op, !.cmd = w.cmd, !.tgt = w.tgt,
                                                    !.type = ops[w.op].type]]
        /\ SetProgress(w.op, "active")
        /\ w' = [w EXCEPT !.pc = "sent", !.att = a]
        /\ Submit([id |-> a, cmd |-> w.cmd, tgt |-> w.tgt, type |-> ops[w.op].type])
        /\ UNCHANGED <<row, alloc>>
  BY DEF Insert
<1>2. att \in [Attempts -> AttemptRecord] /\ w \in WorkerRecord /\ w.op \in Ops
  BY DEF TypeInv, TypeOK, JournalTypeOK
<1>3. /\ att'[a].op = w.op /\ att'[a].cmd = w.cmd /\ att'[a].tgt = w.tgt
      /\ att'[a].outcome = "prepared" /\ att'[a].resol = "pending" /\ att'[a].res = NoRes
      /\ \A b \in Attempts : b # a => att'[b] = att[b]
  BY <1>1, <1>2 DEF Unused
<1>4. w'.pc = "sent" /\ w'.att = a /\ w'.op = w.op /\ w'.tgt = w.tgt /\ w'.cmd = w.cmd
  BY <1>1, <1>2 DEF WorkerRecord
<1> QED BY <1>1, <1>2, <1>3, <1>4 DEF Submit

LEMMA InsertSound ==
  ASSUME TypeInv, JournalInv, w.pc = "journal", Insert, UNCHANGED lifecycleVars
  PROVE  Sound
<1>1. PICK a \in Attempts :
        /\ att[a].op = 0
        /\ att'[a].op = w.op /\ att'[a].cmd = w.cmd /\ att'[a].tgt = w.tgt
        /\ att'[a].outcome = "prepared" /\ att'[a].resol = "pending"
        /\ \A b \in Attempts : b # a => att'[b] = att[b]
        /\ w'.pc = "sent" /\ w'.att = a /\ w'.op = w.op
        /\ UNCHANGED <<row, alloc>>
        /\ SetProgress(w.op, "active") /\ w.op \in Ops
  BY InsertFacts
<1>2. Active(w.op) /\ ~alloc.retired
  BY DEF JournalInv, BusyWorker
<1>3. NoNewOp
  BY <1>1, <1>2, ProgressKept
<1>4. AttemptsKept /\ OpsKept /\ RowsKept
  BY <1>1, <1>3, SameRows DEF AttemptsKept, NoNewOp, OpsKept, JournalInv, UnusedAttempt
<1>5. Active(w.op)'
  BY <1>1, <1>2 DEF SetProgress, Active, TypeInv, TypeOK, JournalTypeOK, OpRecord, Terminal
<1>6. BusyWorker' /\ SentAttempt' /\ CleanupWork' /\ RunSettled'
  <2>1. BusyWorker'
    BY <1>1, <1>2, <1>5 DEF BusyWorker, Active
  <2> QED BY <1>1, <2>1 DEF SentAttempt, CleanupWork, RunSettled
<1>7. UnusedAttempt'
  BY <1>1 DEF UnusedAttempt, JournalInv
<1>8. CreateWork' /\ CreateSubmittedOnce'
  BY <1>1, <1>3 DEF CreateWork, CreateSubmittedOnce, JournalInv, NoNewOp, EffectOf, Of, Source
<1>9. TerminalIsSettled'
  BY <1>1, <1>2, <1>3, <1>5 DEF TerminalIsSettled, PendingOf, Of, JournalInv, NoNewOp, Active
<1> QED BY <1>4, <1>6, <1>7, <1>8, <1>9 DEF Sound, JournalInv

LEMMA WorkerJournalSound ==
  ASSUME TypeInv, JournalInv, WorkerJournal
  PROVE  Sound
<1>0. att \in [Attempts -> AttemptRecord] /\ w \in WorkerRecord
  BY DEF TypeInv, TypeOK, JournalTypeOK
<1>1. CASE JournalFresh \/ JournalCompensation \/ JournalCleanup
  BY <1>1, InsertSound DEF JournalFresh, JournalCompensation, JournalCleanup
<1>2. CASE JournalRefused
  <2>1. w.op \in Ops /\ Active(w.op) /\ PendingOf(w.op) = {}
    BY <1>2 DEF JournalRefused, TypeInv, JournalInv, BusyWorker, RunSettled
  <2> QED BY <1>2, <2>1, FailWithSound DEF JournalRefused
<1>3. CASE JournalDeferred
  BY <1>3, IdleType, SameAttempts, SameOps, SameRows, IdleStep DEF JournalDeferred, Sound
<1>4. CASE RecordAnswer /\ UNCHANGED lifecycleVars
  <2>1. /\ w.pc = "sent" /\ w.att \in Attempts /\ w.op \in Ops /\ att[w.att].op = w.op
        /\ att[w.att].outcome = "prepared"
    BY <1>4 DEF RecordAnswer, TypeInv, JournalInv, SentAttempt
  <2>2. NoNewAttempt
    BY <1>0, <1>4, <2>1 DEF RecordAnswer, NoNewAttempt, AttemptsKept, AttemptRecord, Ops
  <2>3. ops' = ops /\ row' = row /\ alloc' = alloc
    BY <1>4 DEF RecordAnswer
  <2>4. CASE w' = Idle
    BY <2>2, <2>3, <2>4, IdleType, SameOps, SameRows, IdleStep DEF Sound
  <2>5. CASE w' = [w EXCEPT !.pc = "claim"]
    <3>1. w.pc' = "claim" /\ w.op' = w.op /\ w.att' = w.att
      BY <1>0, <2>5 DEF WorkerRecord
    <3>2. AttemptsKept /\ OpsKept /\ RowsKept
      BY <2>2, <2>3, SameRows DEF NoNewAttempt, OpsKept
    <3>3. BusyWorker' /\ SentAttempt' /\ CleanupWork' /\ RunSettled'
      <4>1. BusyWorker'
        BY <2>1, <2>3, <3>1 DEF BusyWorker, JournalInv, Active
      <4> QED BY <2>1, <2>2, <3>1, <4>1 DEF SentAttempt, CleanupWork, RunSettled, NoNewAttempt
    <3>4. UnusedAttempt' /\ CreateWork' /\ CreateSubmittedOnce'
      BY <2>2, <2>3, <3>1 DEF UnusedAttempt, CreateWork, CreateSubmittedOnce, JournalInv, NoNewAttempt
    <3>5. TerminalIsSettled'
      BY <2>2, <2>3 DEF TerminalIsSettled, PendingOf, Of, JournalInv, NoNewAttempt, AttemptsKept
    <3> QED BY <3>2, <3>3, <3>4, <3>5 DEF Sound, JournalInv
  <2> QED BY <1>4, <2>4, <2>5 DEF RecordAnswer
<1>5. CASE RecordUnknown /\ UNCHANGED lifecycleVars
  <2>1. w.att \in Attempts /\ w.op \in Ops /\ att[w.att].op = w.op /\ att[w.att].outcome = "prepared"
    BY <1>5 DEF RecordUnknown, TypeInv, JournalInv, SentAttempt
  <2>2. NoNewAttempt
    BY <1>0, <1>5, <2>1 DEF RecordUnknown, NoNewAttempt, AttemptsKept, AttemptRecord, Ops
  <2> QED BY <1>5, <2>2, IdleType, SameOps, SameRows, IdleStep DEF RecordUnknown, Sound
<1>6. CASE ClaimAnswer /\ UNCHANGED lifecycleVars
  <2> DEFINE r == att[w.att].res
  <2>1. w.op \in Ops /\ Active(w.op)
    BY <1>6 DEF ClaimAnswer, TypeInv, JournalInv, BusyWorker
  <2>2. \/ SetProgress(w.op, "blocked") /\ UNCHANGED <<row, alloc>>
        \/ row' = [row EXCEPT ![r] = "live"] /\ row[r] # "absent" /\ UNCHANGED ops
    BY <1>6 DEF ClaimAnswer
  <2>3. RowsKept
    BY <2>2 DEF RowsKept, TypeInv, TypeOK, JournalTypeOK
  <2>4. NoNewOp
    BY <2>1, <2>2, ProgressKept, SameOps
  <2> QED BY <1>6, <2>3, <2>4, IdleType, SameAttempts, IdleStep DEF ClaimAnswer, Sound
<1> QED BY <1>1, <1>2, <1>3, <1>4, <1>5, <1>6 DEF WorkerJournal

-----------------------------------------------------------------------------
(* Cleanup                                                                  *)

LEMMA BeginCleanupSound ==
  ASSUME TypeInv, JournalInv, NEW k \in Ops, BeginCleanup(k)
  PROVE  Sound
<1>1. w.pc' = "cleanup" /\ w.op' = k /\ w.todo' = PendingIn(k)
  BY DEF BeginCleanup, Idle
<1>2. UNCHANGED <<ops, att, row, alloc>> /\ Active(k) /\ ~alloc.retired
  BY DEF BeginCleanup, Tick
<1>3. AttemptsKept /\ OpsKept /\ RowsKept
  BY <1>2, SameAttempts, SameRows DEF NoNewAttempt, OpsKept
<1>4. \A a \in PendingIn(k) : att[a].op # 0 /\ att[a].resol = "pending"
  BY JournalAssumption DEF PendingIn, Scope, Of, Ops, Source
<1>5. BusyWorker' /\ SentAttempt' /\ CleanupWork' /\ RunSettled'
  <2>1. BusyWorker' /\ SentAttempt' /\ RunSettled'
    BY <1>1, <1>2 DEF BusyWorker, Active, SentAttempt, RunSettled
  <2> QED BY <1>1, <1>2, <1>4, <2>1 DEF CleanupWork, BeginCleanup
<1>6. UnusedAttempt' /\ CreateWork' /\ CreateSubmittedOnce' /\ TerminalIsSettled'
  BY <1>1, <1>2 DEF UnusedAttempt, CreateWork, CreateSubmittedOnce, TerminalIsSettled, PendingOf, Of, JournalInv
<1> QED BY <1>3, <1>5, <1>6 DEF Sound, JournalInv

LEMMA CleanupSound ==
  ASSUME TypeInv, JournalInv, AdvanceCleanup
  PROVE  Sound
<1>0. w.pc = "cleanup" /\ w.op \in Ops /\ Active(w.op) /\ ~alloc.retired
  BY DEF AdvanceCleanup, ResolveNext, TargetAbsent, TargetMismatch, TargetLagging,
         TargetExhausted, DeleteTarget, Settling, FinishCleanup, Target, Fit, Resolved,
         TypeInv, JournalInv, BusyWorker
<1>1. CASE ResolveNext
  <2>1. PICK a \in w.todo :
          IF Unowned(a)
          THEN SetProgress(w.op, "blocked") /\ w' = Idle /\ UNCHANGED <<att, row, alloc>>
          ELSE Resolve(a, w.op) /\ w' = [w EXCEPT !.todo = @ \ {a}]
    BY <1>1 DEF ResolveNext
  <2>2. CASE Unowned(a)
    BY <1>0, <2>1, <2>2, IdleType, ProgressKept, SameAttempts, SameRows, IdleStep DEF Sound
  <2>3. CASE ~Unowned(a)
    <3>1. w \in WorkerRecord /\ a \in Attempts /\ att[a].op # 0 /\ att[a].resol = "pending"
      BY <1>0 DEF TypeInv, TypeOK, JournalTypeOK, WorkerRecord, JournalInv, CleanupWork
    <3>2. w.pc' = "cleanup" /\ w.op' = w.op /\ w.todo' = w.todo \ {a}
      BY <1>0, <2>1, <2>3, <3>1 DEF WorkerRecord
    <3>3. /\ NoNewAttempt /\ NoNewOp /\ RowsKept
          /\ \A b \in Attempts : b # a => att'[b] = att[b]
          /\ alloc.retired' = alloc.retired /\ ops'[w.op].intent = ops[w.op].intent
          /\ ops'[w.op].kind # "none" /\ ops'[w.op].prog \notin Terminal
      BY <1>0, <2>1, <2>3, <3>1, ResolveKeeps DEF Active
    <3>4. AttemptsKept /\ OpsKept
      BY <3>3 DEF NoNewAttempt, NoNewOp, OpsKept
    <3>5. BusyWorker' /\ SentAttempt' /\ RunSettled'
      BY <1>0, <3>2, <3>3 DEF BusyWorker, Active, SentAttempt, RunSettled
    <3>6. CleanupWork'
      BY <1>0, <3>1, <3>2, <3>3 DEF CleanupWork, JournalInv, WorkerRecord
    <3>7. UnusedAttempt' /\ CreateWork' /\ CreateSubmittedOnce'
      BY <3>2, <3>3 DEF UnusedAttempt, CreateWork, CreateSubmittedOnce, JournalInv, NoNewAttempt, NoNewOp
    <3>8. TerminalIsSettled'
      BY <3>3 DEF TerminalIsSettled, PendingOf, Of, JournalInv, NoNewAttempt, AttemptsKept, NoNewOp
    <3> QED BY <3>3, <3>4, <3>5, <3>6, <3>7, <3>8 DEF Sound, JournalInv
  <2> QED BY <2>2, <2>3
<1>2. CASE TargetAbsent
  <2>1. PICK r \in Resources : row' = [row EXCEPT ![r] = "absent"]
    BY <1>2 DEF TargetAbsent
  <2> QED BY <1>2, <2>1, AbsenceKeeps, IdleType, SameAttempts, SameOps, IdleStep DEF TargetAbsent, Sound
<1>3. CASE TargetMismatch \/ TargetLagging \/ TargetExhausted
  <2>1. /\ SetProgress(w.op, "blocked") \/ SetProgress(w.op, "active")
        /\ w' = Idle /\ UNCHANGED <<att, row, alloc>>
    BY <1>3 DEF TargetMismatch, TargetLagging, TargetExhausted
  <2> QED BY <1>0, <2>1, IdleType, ProgressKept, SameAttempts, SameRows, IdleStep DEF Sound
<1>4. CASE DeleteTarget
  <2>1. PICK r \in Resources :
          Decide(w.op, IF r \in Servers THEN "destroy" ELSE "delete_primary_ip", r)
    BY <1>4 DEF DeleteTarget
  <2> DEFINE cmd == IF r \in Servers THEN "destroy" ELSE "delete_primary_ip"
  <2>2. cmd \in Commands /\ cmd \notin CreateCommands
    BY DEF Commands, IpCommands, CreateCommands
  <2> HIDE DEF cmd
  <2>3. Decide(w.op, cmd, r)
    BY <2>1 DEF cmd
  <2>4. ops[w.op].intent = "cleanup"
    BY <1>0, <1>4 DEF JournalInv, CleanupWork
  <2> QED BY <1>0, <1>4, <2>2, <2>3, <2>4, DecideSound DEF DeleteTarget
<1>5. CASE Settling
  BY <1>5, IdleType, SameAttempts, SameOps, SameRows, IdleStep DEF Settling, Sound
<1>6. CASE FinishCleanup
  <2>1. PendingOf(w.op) = {}
    BY <1>6 DEF FinishCleanup, PendingIn, Scope, PendingOf
  <2>2. NoNewOp
    BY <1>0, <1>6, <2>1, EndKeeps DEF FinishCleanup, Terminal
  <2> QED BY <1>6, <2>2, IdleType, SameAttempts, SameRows, IdleStep DEF FinishCleanup, Sound
<1> QED BY <1>1, <1>2, <1>3, <1>4, <1>5, <1>6 DEF AdvanceCleanup

-----------------------------------------------------------------------------
(* Crashes, users and operators                                             *)

LEMMA CrashSound ==
  ASSUME TypeInv, JournalInv, CrashStep
  PROVE  Sound
<1>1. CASE Crash
  BY <1>1, IdleType, SameAttempts, SameOps, SameRows, IdleStep DEF Crash, Sound
<1>2. ASSUME NEW k \in Ops, CrashAfterDiscovery(k)
      PROVE  Sound
  <2>1. PICK a \in Attempts : DiscoverOnly(a)
    BY <1>2 DEF CrashAfterDiscovery, Scope, Of
  <2>2. w.pc' = "idle" /\ att' = att /\ ops' = ops
    BY <1>2 DEF CrashAfterDiscovery, Tick
  <2> QED BY <2>1, <2>2, DiscoveryKeeps, SameAttempts, SameOps, IdleStep DEF Sound
<1> QED BY <1>1, <1>2 DEF CrashStep

\* A new operation, admitted while nobody works on the machine.
LEMMA AdmissionSound ==
  ASSUME TypeInv, JournalInv, NEW k \in Ops, NoActiveOp, NextOp(k),
         NEW o \in OpRecord, o.kind \notin {"create", "none"}, o.prog = "active",
         ops' = [ops EXCEPT ![k] = o], UNCHANGED <<att, row, w>>
  PROVE  Sound
<1>1. w.pc = "idle"
  BY DEF JournalInv, BusyWorker, NoActiveOp, TypeInv
<1>2. ops[k].kind = "none" /\ ops[Source].kind = "create" /\ Source \in Ops
  BY JournalAssumption DEF NextOp, JournalInv, CreateWork, Source, Ops
<1>3. AttemptsKept /\ OpsKept /\ RowsKept
  BY <1>2, SameAttempts, SameRows DEF NoNewAttempt, OpsKept, TypeInv, TypeOK, JournalTypeOK
<1>4. BusyWorker' /\ SentAttempt' /\ CleanupWork' /\ RunSettled'
  BY <1>1 DEF BusyWorker, SentAttempt, CleanupWork, RunSettled
<1>5. UnusedAttempt' /\ CreateSubmittedOnce'
  BY DEF UnusedAttempt, CreateSubmittedOnce, JournalInv
<1>6. CreateWork'
  BY <1>1, <1>2 DEF CreateWork, JournalInv, TypeInv, TypeOK, JournalTypeOK
<1>7. TerminalIsSettled'
  BY DEF TerminalIsSettled, PendingOf, Of, JournalInv, TypeInv, TypeOK, JournalTypeOK, Terminal
<1> QED BY <1>3, <1>4, <1>5, <1>6, <1>7 DEF Sound, JournalInv

LEMMA UserSound ==
  ASSUME TypeInv, JournalInv, UserStep
  PROVE  Sound
<1>1. ASSUME NEW k \in Ops, TakeOverCreate(k)
      PROVE  Sound
  <2>1. w.pc' = "idle" /\ att' = att /\ row' = row
    BY <1>1 DEF TakeOverCreate, CanAdmitCleanup
  <2>2. NoNewOp
    BY <1>1 DEF TakeOverCreate, NoNewOp, Active, TypeInv, TypeOK, JournalTypeOK, OpRecord, Terminal
  <2> QED BY <2>1, <2>2, SameAttempts, SameRows, IdleStep DEF Sound
<1>2. ASSUME NEW k \in Ops, AdmitDestroy(k)
      PROVE  Sound
  <2> DEFINE o == [kind |-> "destroy", intent |-> "cleanup", prog |-> "active", type |-> alloc.offer]
  <2>1. o \in OpRecord /\ o.kind \notin {"create", "none"} /\ o.prog = "active"
    BY DEF TypeInv, TypeOK, JournalTypeOK, OpRecord, Kinds
  <2>2. ops' = [ops EXCEPT ![k] = o] /\ UNCHANGED <<att, row, w>> /\ NoActiveOp /\ NextOp(k)
    BY <1>2 DEF AdmitDestroy
  <2> QED BY <2>1, <2>2, AdmissionSound
<1>3. ASSUME NEW k \in Ops, NEW kind \in ActionKinds, NEW type \in Types, Admit(k, kind, type)
      PROVE  Sound
  <2> DEFINE o == [kind |-> kind, intent |-> "run", prog |-> "active", type |-> type]
  <2>1. o \in OpRecord /\ o.kind \notin {"create", "none"} /\ o.prog = "active"
    BY ActionAssumption DEF OpRecord, Kinds, PowerCommands
  <2>2. ops' = [ops EXCEPT ![k] = o] /\ UNCHANGED <<att, row, w>> /\ NoActiveOp /\ NextOp(k)
    BY <1>3 DEF Admit
  <2> QED BY <2>1, <2>2, AdmissionSound
<1>4. CASE Revoke
  <2>1. UNCHANGED <<ops, att, row, alloc, w>>
    BY <1>4 DEF Revoke
  <2>2. JournalInv'
    BY <2>1 DEF JournalInv, BusyWorker, Active, SentAttempt, CleanupWork, RunSettled, UnusedAttempt,
       CreateWork, EffectOf, CreateSubmittedOnce, TerminalIsSettled, PendingOf, Of
  <2> QED BY <2>1, <2>2, SameAttempts, SameRows DEF Sound, NoNewAttempt, OpsKept
<1> QED BY <1>1, <1>2, <1>3, <1>4 DEF UserStep

LEMMA OperatorSound ==
  ASSUME TypeInv, JournalInv, NEW k \in Ops, NEW a \in Attempts,
         CloseRefused(k, a) \/ CloseCreate(k, a) \/ RetryDelete(k, a)
  PROVE  Sound
<1>0. w.pc' = "idle" /\ ops' = ops
  BY DEF CloseRefused, CloseCreate, RetryDelete, Recoverable
<1>1. CASE CloseRefused(k, a)
  BY <1>0, <1>1, DiscoveryKeeps, SameAttempts, SameOps, IdleStep DEF CloseRefused, Sound
<1>2. CASE CloseCreate(k, a)
  <2>1. NoNewAttempt
    BY <1>2 DEF CloseCreate, UncertainCreate, Source, NoNewAttempt, AttemptsKept, TypeInv, TypeOK,
       JournalTypeOK, AttemptRecord
  <2> QED BY <1>0, <1>2, <2>1, SameOps, SameRows, IdleStep DEF CloseCreate, Sound
<1>3. CASE RetryDelete(k, a)
  BY <1>0, <1>3, SameAttempts, SameOps, SameRows, IdleStep DEF RetryDelete, Sound
<1> QED BY <1>1, <1>2, <1>3

\* A step that leaves the database alone.
LEMMA UnchangedSound ==
  ASSUME JournalInv, UNCHANGED <<ops, att, row, alloc, w>>
  PROVE  Sound
<1>1. JournalInv'
  BY DEF JournalInv, BusyWorker, Active, SentAttempt, CleanupWork, RunSettled, UnusedAttempt,
     CreateWork, EffectOf, CreateSubmittedOnce, TerminalIsSettled, PendingOf, Of
<1> QED BY <1>1, SameAttempts, SameRows DEF Sound, NoNewAttempt, OpsKept

LEMMA NextSound ==
  ASSUME TypeInv, JournalInv, [Next]_vars
  PROVE  Sound
<1>1. CASE EnvironmentStep
  BY <1>1, UnchangedSound DEF EnvironmentStep, DatabaseUnchanged
<1>2. CASE WorkerStep
  BY <1>2, WorkerJournalSound, CleanupSound, AdvanceRunSound, BeginCleanupSound DEF WorkerStep
<1>3. CASE CrashStep
  BY <1>3, CrashSound
<1>4. CASE UserStep
  BY <1>4, UserSound
<1>5. CASE OperatorStep
  BY <1>5, OperatorSound DEF OperatorStep
<1>6. CASE UNCHANGED vars
  BY <1>6, UnchangedSound DEF vars
<1> QED BY <1>1, <1>2, <1>3, <1>4, <1>5, <1>6 DEF Next

LEMMA InitJournal == Init => JournalInv
<1> SUFFICES ASSUME Init PROVE JournalInv
  OBVIOUS
<1>1. w.pc = "idle" /\ Source \in Ops
  BY IdleType, JournalAssumption DEF Init, Source, Ops
<1>2. \A a \in Attempts : att[a].op = 0 /\ att[a].outcome = "prepared" /\ att[a].resol = "pending"
  BY DEF Init, Unused
<1>3. \A k \in Ops : (ops[k].kind = "create" <=> k = Source) /\ ops[k].prog = "active"
  BY DEF Init
<1> QED BY <1>1, <1>2, <1>3 DEF JournalInv, BusyWorker, SentAttempt, CleanupWork, RunSettled,
        UnusedAttempt, CreateWork, CreateSubmittedOnce, TerminalIsSettled, PendingOf, Of, Terminal

\* The invariant of the journal, for every number of operations and attempts.
THEOREM JournalCorrect == Spec => []JournalInv
<1>1. Init => JournalInv BY InitJournal
<1>2. TypeInv /\ JournalInv /\ [Next]_vars => JournalInv' BY NextSound DEF Sound
<1> QED BY <1>1, <1>2, TypeCorrect, PTL DEF Spec

\* At most one create of each kind is ever submitted for the allocation.
THEOREM SubmittedOnce == Spec => []CreateSubmittedOnce
<1>1. JournalInv => CreateSubmittedOnce BY DEF JournalInv
<1> QED BY <1>1, JournalCorrect, PTL

\* A terminal operation left no attempt unresolved.
THEOREM Settlement == Spec => []TerminalIsSettled
<1>1. JournalInv => TerminalIsSettled BY DEF JournalInv
<1> QED BY <1>1, JournalCorrect, PTL

\* Receipts, resolutions, terminal results and recorded absences are kept.
THEOREM HistoryKept == Spec => HistoryIsKept
<1>1. TypeInv /\ JournalInv /\ [Next]_vars =>
        [/\ \A a \in Attempts :
              /\ att[a].outcome # "prepared" => att'[a].outcome = att[a].outcome
              /\ att[a].resol # "pending" => att'[a].resol = att[a].resol
              /\ att[a].op # 0 => att'[a].op = att[a].op /\ att'[a].cmd = att[a].cmd
                                                        /\ att'[a].tgt = att[a].tgt
         /\ \A k \in Ops : ops[k].prog \in Terminal /\ ops[k].kind # "none" =>
              ops'[k].prog = ops[k].prog
         /\ \A r \in Resources : row[r] = "absent" => row'[r] = "absent"]_vars
  BY NextSound DEF Sound, AttemptsKept, OpsKept, RowsKept
<1> QED BY <1>1, TypeCorrect, JournalCorrect, PTL DEF Spec, HistoryIsKept

-----------------------------------------------------------------------------
(* Ids and absence                                                          *)

LEMMA VisibleIsKnown == ASSUME NEW r \in Resources, Visible(r) PROVE Known(r)
BY DEF Visible, Known, Resources

\* A resource reads have shown and no longer show is gone.
LEMMA UnseenIsGone == ASSUME TypeInv, NEW r \in Resources, Known(r), ~Visible(r) PROVE Gone(r)
BY DEF Visible, Known, Gone, Resources, TypeInv, TypeOK, ProviderTypeOK, ServerRecord, IpRecord

\* The provider forgets nothing that was seen and revives nothing.
ProviderKeeps ==
  \A r \in Resources : (Known(r) => Known(r)') /\ (Gone(r) => Gone(r)')

LEMMA IpRemovalKeeps ==
  ASSUME TypeInv, NEW i, NEW fate \in Fates, IpAfterRemoval(i, fate), NEW j \in Ips
  PROVE  /\ ips[j].st # "none" /\ ips[j].vis => ips'[j].st # "none" /\ ips'[j].vis
         /\ ips[j].st = "gone" => ips'[j].st = "gone"
<1>1. ips[j] \in IpRecord /\ ips \in [Ips -> IpRecord]
  BY DEF TypeInv, TypeOK, ProviderTypeOK
<1>2. ips'[j] \in {ips[j], [ips[j] EXCEPT !.st = "gone"], [ips[j] EXCEPT !.srv = NoRes]}
  BY <1>1 DEF IpAfterRemoval, Fates
<1> QED BY <1>1, <1>2 DEF IpRecord

LEMMA AnswerRes ==
  ASSUME TypeInv, NEW req \in wire, NEW lost, NEW kind, NEW res, Answer(req, lost, kind, res)
  PROVE  conn.res' = conn.res \/ conn.res' = res
BY DEF Answer, TypeInv, TypeOK, ProviderTypeOK

LEMMA SettledKeeps ==
  ASSUME NEW r \in ServerRecord, NEW cmd, NEW type \in Types
  PROVE  /\ r.st # "none" => Settled(r, cmd, type).st # "none"
         /\ Settled(r, cmd, type).vis = r.vis
         /\ r.st = "gone" => Settled(r, cmd, type).st = "gone"
BY DEF Settled, ServerRecord

\* The answer a step of the provider gives names a known resource.
LEMMA DeliverKeeps ==
  ASSUME TypeInv, KnownIds, NEW req \in wire, Deliver(req)
  PROVE  ProviderKeeps /\ KnownId(conn.res)'
<1>0. /\ sv \in [Servers -> ServerRecord] /\ ips \in [Ips -> IpRecord]
      /\ conn \in [id : Attempts \cup {0},
                   kind : {"none", "accepted", "completed", "rejected"},
                   res : Resources \cup {NoRes}]
      /\ req \in Request
  BY DEF TypeInv, TypeOK, ProviderTypeOK
<1>a. ASSUME ProviderKeeps, NEW r \in Resources \cup {NoRes}, KnownId(r)
      PROVE  KnownId(r)'
  BY <1>a DEF ProviderKeeps, KnownId
<1>b. KnownId(conn.res) /\ KnownId(req.tgt) /\ req.tgt \in Resources \cup {NoRes}
  BY <1>0 DEF KnownIds, Request
<1>c. ASSUME NEW r \in Resources \cup {NoRes}, conn.res' = conn.res \/ conn.res' = r,
             KnownId(r)', ProviderKeeps
      PROVE  KnownId(conn.res)'
  <2>1. CASE conn.res' = conn.res
    BY <1>0, <1>a, <1>b, <1>c, <2>1 DEF KnownId, Known
  <2>2. CASE conn.res' = r
    BY <1>c, <2>2 DEF KnownId, Known
  <2> QED BY <1>c, <2>1, <2>2
<1>1. CASE Drop(req) \/ ExecReject(req)
  <2>1. UNCHANGED <<sv, ips>> /\ conn.res' = conn.res
    BY <1>0, <1>1 DEF Drop, ExecReject
  <2>2. ProviderKeeps
    BY <2>1 DEF ProviderKeeps, Known, Gone
  <2> QED BY <1>0, <1>a, <1>b, <2>1, <2>2 DEF KnownId, Known
<1>2. ASSUME NEW lost \in BOOLEAN, NEW ids \in SUBSET Ips, NEW vis \in BOOLEAN,
             ExecCreateIp(req, lost, ids, vis)
      PROVE  ProviderKeeps /\ KnownId(conn.res)'
  <2>1. PICK i \in ids : Answer(req, lost, "completed", i)
    BY <1>2 DEF ExecCreateIp
  <2>2. ProviderKeeps
    BY <1>0, <1>2 DEF ExecCreateIp, ProviderKeeps, Known, Gone, Resources
  <2>3. CASE lost
    <3>1. conn' = conn BY <2>1, <2>3 DEF Answer
    <3> QED BY <1>0, <1>c, <1>a, <1>b, <2>2, <3>1
  <2>4. CASE ~lost
    <3>1. ips'[i].st = "live" /\ ips'[i].vis
      BY <1>0, <1>2, <2>4 DEF ExecCreateIp
    <3>2. KnownId(i)' /\ i \in Resources
      BY <3>1, ProviderAssumption DEF KnownId, Known, Resources
    <3> QED BY <1>c, <2>1, <2>2, <3>2, AnswerRes
  <2> QED BY <2>2, <2>3, <2>4
<1>3. ASSUME NEW lost \in BOOLEAN, NEW s \in Servers, NEW copies \in SUBSET Servers,
             NEW vis \in BOOLEAN, ExecCreate(req, lost, s, copies, vis)
      PROVE  ProviderKeeps /\ KnownId(conn.res)'
  <2>1. Answer(req, lost, "accepted", s)
    BY <1>3 DEF ExecCreate
  <2>2. \A j \in Ips : ips'[j].st = ips[j].st /\ ips'[j].vis = ips[j].vis
    BY <1>0, <1>3 DEF ExecCreate, IpRecord
  <2>3. \A t \in Servers : sv[t].st # "none" => sv'[t] = sv[t]
    BY <1>0, <1>3 DEF ExecCreate
  <2>4. ProviderKeeps
    BY <2>2, <2>3 DEF ProviderKeeps, Known, Gone, Resources
  <2>5. CASE lost
    <3>1. conn' = conn BY <2>1, <2>5 DEF Answer
    <3> QED BY <1>0, <1>c, <1>a, <1>b, <2>4, <3>1
  <2>6. CASE ~lost
    <3>1. sv'[s].st = "live" /\ sv'[s].vis
      BY <1>0, <1>3, <2>6 DEF ExecCreate
    <3>2. KnownId(s)' /\ s \in Resources
      BY <3>1 DEF KnownId, Known, Resources
    <3> QED BY <1>c, <2>1, <2>4, <3>2, AnswerRes
  <2> QED BY <2>4, <2>5, <2>6
<1>4. ASSUME NEW lost \in BOOLEAN, ExecDeleteIp(req, lost) \/ ExecServerAction(req, lost)
      PROVE  ProviderKeeps /\ KnownId(conn.res)'
  <2>1. \E kind : Answer(req, lost, kind, req.tgt)
    BY <1>4 DEF ExecDeleteIp, ExecServerAction
  <2>2. ProviderKeeps
    <3>1. sv' = sv /\ \A j \in Ips : /\ ips'[j].vis = ips[j].vis
                                     /\ ips'[j].st = ips[j].st \/ ips'[j].st = "gone"
      BY <1>0, <1>4 DEF ExecDeleteIp, ExecServerAction, IpRecord
    <3> QED BY <3>1 DEF ProviderKeeps, Known, Gone, Resources
  <2> QED BY <1>a, <1>b, <1>c, <2>1, <2>2, AnswerRes
<1> QED BY <1>1, <1>2, <1>3, <1>4 DEF Deliver

LEMMA ProviderKeepsKnown ==
  ASSUME TypeInv, KnownIds, ProviderNext
  PROVE  ProviderKeeps /\ KnownId(conn.res)'
<1>0. /\ sv \in [Servers -> ServerRecord] /\ ips \in [Ips -> IpRecord]
      /\ act \in [Attempts -> ActionRecord] /\ conn.res \in Resources \cup {NoRes}
  BY DEF TypeInv, TypeOK, ProviderTypeOK
<1>a. ASSUME ProviderKeeps, conn' = conn
      PROVE  KnownId(conn.res)'
  BY <1>0, <1>a DEF ProviderKeeps, KnownIds, KnownId, Known
<1>1. ASSUME NEW req \in wire, Deliver(req)
      PROVE  ProviderKeeps /\ KnownId(conn.res)'
  BY <1>1, DeliverKeeps
<1>2. ASSUME NEW a \in Attempts, SettleAction(a)
      PROVE  ProviderKeeps /\ conn' = conn
  <2>1. CASE ActionFails(a)
    BY <2>1 DEF ActionFails, ProviderKeeps, Known, Gone
  <2>2. ASSUME NEW fate \in Fates, ActionSucceeds(a, fate)
        PROVE  ProviderKeeps /\ conn' = conn
    <3>1. act[a].type \in Types BY <1>0 DEF ActionRecord
    <3>2. \A t \in Servers : sv'[t] = sv[t] \/ sv'[t] = Settled(sv[t], act[a].cmd, act[a].type)
      BY <1>0, <2>2 DEF ActionSucceeds
    <3>3. ips' = ips \/ \E i : IpAfterRemoval(i, fate)
      BY <2>2 DEF ActionSucceeds
    <3>4. \A t \in Servers : /\ sv[t].st # "none" /\ sv[t].vis => sv'[t].st # "none" /\ sv'[t].vis
                             /\ sv[t].st = "gone" => sv'[t].st = "gone"
      BY <1>0, <3>1, <3>2, SettledKeeps
    <3>5. \A j \in Ips : /\ ips[j].st # "none" /\ ips[j].vis => ips'[j].st # "none" /\ ips'[j].vis
                         /\ ips[j].st = "gone" => ips'[j].st = "gone"
      BY <3>3, IpRemovalKeeps
    <3> QED BY <2>2, <3>4, <3>5 DEF ActionSucceeds, ProviderKeeps, Known, Gone, Resources
  <2> QED BY <1>2, <2>1, <2>2 DEF SettleAction
<1>3. CASE CatchUp
  <2>1. ASSUME NEW i \in Ips, NEW fate \in Fates, IpCatchesUp(i, fate)
        PROVE  ProviderKeeps /\ conn' = conn
    BY <2>1, IpRemovalKeeps DEF IpCatchesUp, ProviderKeeps, Known, Gone, Resources
  <2>2. CASE ServersBecomeVisible
    <3>1. conn' = conn /\ ips' = ips
      BY <2>2 DEF ServersBecomeVisible
    <3>2. \A t \in Servers : sv'[t] = [sv[t] EXCEPT !.vis = (sv[t].st = "live") \/ @] /\ sv[t] \in ServerRecord
      BY <1>0, <2>2 DEF ServersBecomeVisible
    <3>3. \A t \in Servers : sv'[t].st = sv[t].st /\ sv'[t].vis = (sv[t].st = "live" \/ sv[t].vis)
      BY <3>2 DEF ServerRecord
    <3>4. ProviderKeeps BY <3>1, <3>3 DEF ProviderKeeps, Known, Gone
    <3> QED BY <1>a, <3>1, <3>4
  <2>3. CASE IpsBecomeVisible
    <3>1. conn' = conn /\ sv' = sv
      BY <2>3 DEF IpsBecomeVisible
    <3>2. \A i \in Ips : ips'[i] = [ips[i] EXCEPT !.vis = (ips[i].st = "live") \/ @] /\ ips[i] \in IpRecord
      BY <1>0, <2>3 DEF IpsBecomeVisible
    <3>3. \A i \in Ips : ips'[i].st = ips[i].st /\ ips'[i].vis = (ips[i].st = "live" \/ ips[i].vis)
      BY <3>2 DEF IpRecord
    <3>4. ProviderKeeps BY <3>1, <3>3 DEF ProviderKeeps, Known, Gone, Resources
    <3> QED BY <1>a, <3>1, <3>4
  <2> QED BY <1>3, <1>a, <2>1, <2>2, <2>3 DEF CatchUp
<1>4. CASE Interfere
  <2>1. ASSUME NEW s \in Servers, NEW fate \in Fates, ExternalDeleteServer(s, fate)
        PROVE  ProviderKeeps /\ conn' = conn
    BY <1>0, <2>1, IpRemovalKeeps DEF ExternalDeleteServer, ProviderKeeps, Known, Gone, ServerRecord, Resources
  <2>2. ASSUME NEW i \in Ips, ExternalDeleteIp(i)
        PROVE  ProviderKeeps /\ conn' = conn
    BY <1>0, <2>2 DEF ExternalDeleteIp, ProviderKeeps, Known, Gone, IpRecord
  <2>3. ASSUME NEW r \in Resources, ExternalRelabel(r)
        PROVE  ProviderKeeps /\ conn' = conn
    <3>1. \A t \in Servers : sv'[t].st = sv[t].st /\ sv'[t].vis = sv[t].vis
      BY <1>0, <2>3 DEF ExternalRelabel, ServerRecord
    <3>2. \A j \in Ips : ips'[j].st = ips[j].st /\ ips'[j].vis = ips[j].vis
      BY <1>0, <2>3 DEF ExternalRelabel, IpRecord
    <3> QED BY <2>3, <3>1, <3>2 DEF ExternalRelabel, ProviderKeeps, Known, Gone, Resources
  <2> QED BY <1>4, <1>a, <2>1, <2>2, <2>3 DEF Interfere
<1> QED BY <1>1, <1>2, <1>3, <1>4, <1>a DEF ProviderNext

\* A step of the provider keeps the ledger true.
LEMMA EnvironmentLedger ==
  ASSUME TypeInv, LedgerInv, EnvironmentStep
  PROVE  LedgerInv'
<1>1. ProviderKeeps /\ KnownId(conn.res)' /\ wire' \subseteq wire
  BY ProviderKeepsKnown, ProviderType DEF EnvironmentStep, LedgerInv
<1>2. UNCHANGED <<att, row, w>>
  BY DEF EnvironmentStep, DatabaseUnchanged
<1>3. /\ \A a \in Attempts : att[a].tgt \in Resources \cup {NoRes} /\ att[a].res \in Resources \cup {NoRes}
      /\ w.tgt \in Resources \cup {NoRes}
      /\ \A req \in wire : req.tgt \in Resources \cup {NoRes}
  BY DEF TypeInv, TypeOK, ProviderTypeOK, JournalTypeOK, AttemptRecord, WorkerRecord, Request
<1>4. ASSUME NEW r \in Resources \cup {NoRes}, KnownId(r) PROVE KnownId(r)'
  BY <1>1, <1>4 DEF ProviderKeeps, KnownId
<1>5. KnownIds'
  <2>1. \A r \in Resources : (row[r] # "none" => Known(r))'
    BY <1>1, <1>2 DEF LedgerInv, KnownIds, ProviderKeeps
  <2>2. \A a \in Attempts : (KnownId(att[a].tgt) /\ KnownId(att[a].res))'
    BY <1>2, <1>3, <1>4 DEF LedgerInv, KnownIds, KnownId, Known
  <2>3. KnownId(w.tgt)'
    BY <1>2, <1>3, <1>4 DEF LedgerInv, KnownIds, KnownId, Known
  <2>4. \A req \in wire' : KnownId(req.tgt)'
    BY <1>1, <1>3, <1>4 DEF LedgerInv, KnownIds
  <2> QED BY <1>1, <2>1, <2>2, <2>3, <2>4 DEF KnownIds
<1>6. AbsentIsGone'
  BY <1>1, <1>2 DEF LedgerInv, AbsentIsGone, ProviderKeeps, Gone
<1> QED BY <1>5, <1>6 DEF LedgerInv

\* How the ledger may change: a known resource is claimed, a resource of the
\* ledger that reads no longer show is recorded absent.
RowsGrounded ==
  \A r \in Resources :
    \/ row'[r] = row[r]
    \/ row'[r] = "live" /\ row[r] # "absent" /\ Known(r)
    \/ row'[r] = "absent" /\ row[r] = "live" /\ ~Visible(r)

AttemptsGrounded == \A a \in Attempts : KnownId(att'[a].tgt) /\ KnownId(att'[a].res)

LEMMA GroundedStep ==
  ASSUME TypeInv, LedgerInv, UNCHANGED <<sv, ips>>, RowsGrounded, AttemptsGrounded,
         KnownId(w'.tgt), KnownId(conn'.res), \A req \in wire' : KnownId(req.tgt)
  PROVE  LedgerInv'
<1>1. \A r : (Known(r)' <=> Known(r)) /\ (Gone(r)' <=> Gone(r)) /\ (KnownId(r)' <=> KnownId(r))
  BY DEF Known, Gone, KnownId
<1>2. AbsentIsGone'
  BY <1>1, UnseenIsGone DEF LedgerInv, KnownIds, AbsentIsGone, RowsGrounded, Gone
<1>3. KnownIds'
  BY <1>1 DEF LedgerInv, KnownIds, RowsGrounded, AttemptsGrounded, KnownId, Known
<1> QED BY <1>2, <1>3 DEF LedgerInv

\* Most steps only touch progress: ids and rows stay.
LEMMA SameIds ==
  ASSUME TypeInv, LedgerInv, UNCHANGED <<sv, ips, wire, conn>>, RowsGrounded, AttemptsGrounded,
         w' = w \/ w.tgt' = NoRes
  PROVE  LedgerInv'
<1>1. KnownId(w'.tgt) /\ KnownId(conn'.res) /\ \A req \in wire' : KnownId(req.tgt)
  BY DEF LedgerInv, KnownIds, KnownId
<1> QED BY <1>1, GroundedStep

LEMMA RowsSame == ASSUME row' = row PROVE RowsGrounded
BY DEF RowsGrounded

LEMMA AttemptsSame == ASSUME LedgerInv, att' = att PROVE AttemptsGrounded
BY DEF LedgerInv, KnownIds, AttemptsGrounded

LEMMA RowAbsent ==
  ASSUME TypeInv, NEW r \in Resources, row[r] = "live", ~Visible(r), row' = [row EXCEPT ![r] = "absent"]
  PROVE  RowsGrounded
BY DEF RowsGrounded, TypeInv, TypeOK, JournalTypeOK

LEMMA DiscoveryGrounded ==
  ASSUME TypeInv, NEW a \in Attempts, DiscoverOnly(a)
  PROVE  RowsGrounded
<1>1. \A r \in Claimed(a) : r \in Resources /\ Known(r) /\ row[r] # "absent"
  BY VisibleIsKnown DEF Claimed, Found, Matches, Resources
<1> QED BY <1>1 DEF DiscoverOnly, RowAfterClaims, RowsGrounded

\* A confirmation rests on a resource reads show, an absence on one they do not.
LEMMA VerdictGrounded ==
  ASSUME TypeInv, NEW a \in Attempts, NEW recovering \in BOOLEAN
  PROVE  /\ Verdict(a, recovering).kind = "confirmed" => Visible(Verdict(a, recovering).res)
         /\ Verdict(a, recovering).kind = "absent" => ~Visible(Verdict(a, recovering).res)
<1> DEFINE Ok(e) == (e.kind = "confirmed" => Visible(e.res)) /\ (e.kind = "absent" => ~Visible(e.res))
<1>1. \A r : Ok(Unresolved(a)) /\ Ok(Result("blocked", r)) /\ Ok(Result("waiting", r)) /\ Ok(Result("failed", r))
  BY DEF Unresolved, Result
<1>2. \A r : ~Visible(r) => Ok(Result("absent", r))
  BY DEF Result
<1>3. \A r : Visible(r) => Ok(Result("confirmed", r))
  BY DEF Result
<1> HIDE DEF Ok
<1>4. \A r : Ok(EvaluateIp(a, r, recovering))
  BY <1>1, <1>2, <1>3 DEF EvaluateIp
<1>5. \A r : Ok(EvaluateServer(a, r, recovering))
  BY <1>1, <1>2, <1>3 DEF EvaluateServer
<1>6. Ok(Evaluate(a, recovering))
  BY <1>1, <1>2, <1>4, <1>5 DEF Evaluate, SettledByAbsence
<1>7. Ok(Verdict(a, recovering))
  BY <1>1, <1>6 DEF Verdict
<1> QED BY <1>7 DEF Ok

LEMMA ResolveGrounded ==
  ASSUME TypeInv, LedgerInv, NEW a \in Attempts, NEW k \in Ops, Resolve(a, k)
  PROVE  RowsGrounded /\ AttemptsGrounded
<1> DEFINE recovering == ops[k].intent = "cleanup"
           v == Verdict(a, recovering)
<1>0. /\ v.kind \in {"waiting", "blocked", "failed", "absent", "confirmed"}
      /\ v.res \in Resources \cup {NoRes}
      /\ v.kind = "confirmed" => Visible(v.res)
      /\ v.kind = "absent" => ~Visible(v.res)
  BY VerdictType, VerdictGrounded
<1> HIDE DEF v
<1>a. /\ att \in [Attempts -> AttemptRecord]
      /\ row \in [Resources -> {"none", "live", "absent"}]
  BY DEF TypeInv, TypeOK, JournalTypeOK
<1>b. \A b \in Attempts : KnownId(att[b].tgt) /\ KnownId(att[b].res)
  BY DEF LedgerInv, KnownIds
<1>1. CASE v.kind \in {"waiting", "blocked"}
  <2>1. DiscoverOnly(a) /\ att' = att
    BY <1>1 DEF Resolve, v
  <2> QED BY <2>1, DiscoveryGrounded, AttemptsSame
<1>2. CASE v.kind = "failed"
  <2>1. att' = [att EXCEPT ![a].resol = "failed"] /\ UNCHANGED <<ops, row, alloc>>
    BY <1>2 DEF Resolve, v
  <2>2. AttemptsGrounded
    BY <1>a, <1>b, <2>1 DEF AttemptsGrounded, AttemptRecord
  <2> QED BY <2>1, <2>2, RowsSame
<1>3. CASE v.kind = "absent"
  <2>1. /\ att' = [att EXCEPT ![a].resol = "absent"]
        /\ row' = [row EXCEPT ![v.res] = IF @ = "live" THEN "absent" ELSE @]
    BY <1>3 DEF Resolve, v
  <2>2. AttemptsGrounded
    BY <1>a, <1>b, <2>1 DEF AttemptsGrounded, AttemptRecord
  <2>3. RowsGrounded
    BY <1>0, <1>3, <1>a, <2>1 DEF RowsGrounded
  <2> QED BY <2>2, <2>3
<1>4. CASE v.kind = "confirmed"
  <2>1. /\ att' = [att EXCEPT ![a].resol = "confirmed", ![a].res = v.res,
                              ![a].pow = IF v.res \in Servers THEN sv[v.res].power ELSE @]
        /\ row' = [RowAfterClaims(a) EXCEPT ![v.res] = "live"]
    BY <1>4 DEF Resolve, v
  <2>2. v.res \in Resources /\ Known(v.res)
    BY <1>0, <1>4, ProviderAssumption, VisibleIsKnown DEF Visible, Resources
  <2>3. AttemptsGrounded
    <3>1. \A b \in Attempts : /\ att'[b].tgt = att[b].tgt
                              /\ att'[b].res = att[b].res \/ att'[b].res = v.res
      BY <1>a, <2>1 DEF AttemptRecord
    <3> QED BY <1>b, <2>2, <3>1 DEF AttemptsGrounded, KnownId
  <2>4. RowAfterClaims(a)[v.res] # "absent"
    BY <1>4 DEF v, Verdict, Result
  <2>5. \A r \in Claimed(a) : r \in Resources /\ Known(r) /\ row[r] # "absent"
    BY VisibleIsKnown DEF Claimed, Found, Matches, Resources
  <2>6. RowsGrounded
    BY <1>a, <2>1, <2>2, <2>4, <2>5 DEF RowsGrounded, RowAfterClaims
  <2> QED BY <2>3, <2>6
<1> QED BY <1>0, <1>1, <1>2, <1>3, <1>4

-----------------------------------------------------------------------------
(* Every other step                                                         *)

LEMMA IdleTarget == Idle.tgt = NoRes
BY DEF Idle

\* A worker decides on a resource reads show.
LEMMA DecideGrounded ==
  ASSUME TypeInv, LedgerInv, NEW k, NEW cmd, NEW tgt, KnownId(tgt), Decide(k, cmd, tgt),
         UNCHANGED <<sv, ips, wire, conn, att, row>>
  PROVE  LedgerInv'
<1>1. w'.tgt = tgt
  BY DEF Decide, Idle
<1>2. KnownId(w'.tgt) /\ KnownId(conn'.res) /\ \A req \in wire' : KnownId(req.tgt)
  BY <1>1 DEF LedgerInv, KnownIds
<1> QED BY <1>2, GroundedStep, RowsSame, AttemptsSame

LEMMA AdvanceRunLedger ==
  ASSUME TypeInv, LedgerInv, NEW k \in Ops, AdvanceRun(k)
  PROVE  LedgerInv'
<1> USE IdleTarget DEF ProviderUnchanged, providerVars
<1>1. CASE ResolvePending(k)
  <2>1. PICK a \in Attempts : Resolve(a, k)
    BY <1>1 DEF ResolvePending, PendingOf, Of
  <2> QED BY <1>1, <2>1, ResolveGrounded, SameIds DEF ResolvePending
<1>2. CASE HandleFailedEffect(k) \/ NoConfirmedIp(k) \/ NoLiveServer(k)
  <2>1. FailWith(k)
    BY <1>2 DEF HandleFailedEffect, NoConfirmedIp, NoLiveServer
  <2> QED BY <2>1, RowsSame, AttemptsSame, SameIds DEF FailWith
<1>3. CASE CompensateAbsent(k)
  <2>1. PICK i \in Ips : row[i] = "live" /\ ~Visible(i) /\ row' = [row EXCEPT ![i] = "absent"]
    BY <1>3 DEF CompensateAbsent, LiveRows
  <2>2. i \in Resources BY DEF Resources
  <2> QED BY <1>3, <2>1, <2>2, RowAbsent, AttemptsSame, SameIds DEF CompensateAbsent
<1>4. CASE CompensateMismatch(k) \/ IpMismatch(k) \/ BackupsMismatch(k) \/ GuestBlocked(k) \/ ActionMismatch(k)
  <2>1. Block(k)
    BY <1>4 DEF CompensateMismatch, IpMismatch, BackupsMismatch, GuestBlocked, ActionMismatch
  <2> QED BY <2>1, RowsSame, AttemptsSame, SameIds DEF Block
<1>5. CASE CompensateDelete(k)
  <2>1. PICK i \in Ips : Visible(i) /\ Decide(k, "delete_primary_ip", i)
    BY <1>5 DEF CompensateDelete, LiveRows
  <2>2. KnownId(i) BY <2>1, VisibleIsKnown DEF KnownId, Resources
  <2> QED BY <1>5, <2>1, <2>2, DecideGrounded DEF CompensateDelete
<1>6. CASE CompensateDone(k)
  BY <1>6, RowsSame, AttemptsSame, SameIds DEF CompensateDone
<1>7. CASE SubmitIp(k)
  BY <1>7, DecideGrounded DEF SubmitIp, KnownId
<1>8. CASE IpDisappeared(k)
  <2>1. PICK i \in Ips : row[i] = "live" /\ ~Visible(i) /\ row' = [row EXCEPT ![i] = "absent"]
    BY <1>8 DEF IpDisappeared, LiveRows
  <2>2. i \in Resources BY DEF Resources
  <2> QED BY <1>8, <2>1, <2>2, RowAbsent, AttemptsSame, SameIds DEF IpDisappeared
<1>9. CASE SubmitServer(k)
  <2>1. PICK i \in Ips : Visible(i) /\ Decide(k, "create", i)
    BY <1>9 DEF SubmitServer, LiveRows
  <2>2. KnownId(i) BY <2>1, VisibleIsKnown DEF KnownId, Resources
  <2> QED BY <1>9, <2>1, <2>2, DecideGrounded DEF SubmitServer
<1>10. CASE EnableBackups(k)
  <2>1. PICK s \in Servers : Visible(s) /\ Decide(k, "enable_backup", s)
    BY <1>10 DEF EnableBackups
  <2>2. KnownId(s) BY <2>1, VisibleIsKnown DEF KnownId, Resources
  <2> QED BY <1>10, <2>1, <2>2, DecideGrounded DEF EnableBackups
<1>11. CASE CompleteVerified(k) \/ GuestReady(k)
  <2>1. \E s, power : Complete(k, s, power)
    BY <1>11 DEF CompleteVerified, GuestReady
  <2> QED BY <2>1, RowsSame, AttemptsSame, SameIds DEF Complete
<1>12. CASE SubmitAction(k)
  <2>1. alloc.server \in Resources /\ Visible(alloc.server)
    BY <1>12 DEF SubmitAction, TypeInv, TypeOK, JournalTypeOK, Resources
  <2>2. KnownId(alloc.server) BY <2>1, VisibleIsKnown DEF KnownId
  <2> QED BY <1>12, <2>2, DecideGrounded DEF SubmitAction
<1> QED BY <1>1, <1>2, <1>3, <1>4, <1>5, <1>6, <1>7, <1>8, <1>9, <1>10, <1>11, <1>12 DEF AdvanceRun

LEMMA WorkerJournalLedger ==
  ASSUME TypeInv, JournalInv, LedgerInv, WorkerJournal
  PROVE  LedgerInv'
<1> USE IdleTarget DEF ProviderUnchanged, providerVars
<1>0. /\ att \in [Attempts -> AttemptRecord] /\ w \in WorkerRecord
      /\ row \in [Resources -> {"none", "live", "absent"}]
      /\ conn.res \in Resources \cup {NoRes}
  BY DEF TypeInv, TypeOK, JournalTypeOK, ProviderTypeOK
<1>1. CASE JournalFresh \/ JournalCompensation \/ JournalCleanup
  <2>1. w.pc = "journal" /\ Insert
    BY <1>1 DEF JournalFresh, JournalCompensation, JournalCleanup
  <2>2. PICK a \in Attempts :
          /\ att'[a].tgt = w.tgt /\ att'[a].res = NoRes
          /\ \A b \in Attempts : b # a => att'[b] = att[b]
          /\ w'.tgt = w.tgt
          /\ wire' = wire \cup {[id |-> a, cmd |-> w.cmd, tgt |-> w.tgt, type |-> ops[w.op].type]}
          /\ conn' = [Closed EXCEPT !.id = a]
          /\ UNCHANGED <<sv, ips, row>>
    BY <2>1, InsertFacts
  <2>3. KnownId(w.tgt) /\ \A b \in Attempts : KnownId(att[b].tgt) /\ KnownId(att[b].res)
    BY DEF LedgerInv, KnownIds
  <2>4. AttemptsGrounded
    BY <2>2, <2>3 DEF AttemptsGrounded, KnownId
  <2>5. KnownId(conn'.res)
    BY <2>2 DEF Closed, KnownId
  <2>6. \A req \in wire' : KnownId(req.tgt)
    BY <2>2, <2>3 DEF LedgerInv, KnownIds
  <2> QED BY <2>2, <2>3, <2>4, <2>5, <2>6, RowsSame, GroundedStep
<1>2. CASE JournalRefused
  BY <1>2, RowsSame, AttemptsSame, SameIds DEF JournalRefused, FailWith
<1>3. CASE JournalDeferred
  BY <1>3, RowsSame, AttemptsSame, SameIds DEF JournalDeferred
<1>4. CASE RecordAnswer /\ UNCHANGED lifecycleVars
  <2>1. /\ UNCHANGED <<sv, ips, wire, row>> /\ conn'.res = NoRes
        /\ w'.tgt = w.tgt \/ w'.tgt = NoRes
    BY <1>0, <1>4 DEF RecordAnswer, Hang, Closed, WorkerRecord
  <2>2. \A b \in Attempts : /\ att'[b].tgt = att[b].tgt
                            /\ att'[b].res \in {att[b].res, NoRes, conn.res}
    BY <1>0, <1>4 DEF RecordAnswer, AttemptRecord
  <2>3. AttemptsGrounded
    BY <2>2 DEF AttemptsGrounded, LedgerInv, KnownIds, KnownId
  <2>4. KnownId(w'.tgt) /\ KnownId(conn'.res) /\ \A req \in wire' : KnownId(req.tgt)
    BY <2>1 DEF LedgerInv, KnownIds, KnownId
  <2> QED BY <2>1, <2>3, <2>4, RowsSame, GroundedStep
<1>5. CASE RecordUnknown /\ UNCHANGED lifecycleVars
  <2>1. UNCHANGED <<sv, ips, wire, row>> /\ conn'.res = NoRes /\ w'.tgt = NoRes
    BY <1>5 DEF RecordUnknown, Hang, Closed
  <2>2. \A b \in Attempts : att'[b].tgt = att[b].tgt /\ att'[b].res = att[b].res
    BY <1>0, <1>5 DEF RecordUnknown, AttemptRecord
  <2>3. AttemptsGrounded
    BY <2>2 DEF AttemptsGrounded, LedgerInv, KnownIds
  <2>4. KnownId(w'.tgt) /\ KnownId(conn'.res) /\ \A req \in wire' : KnownId(req.tgt)
    BY <2>1 DEF LedgerInv, KnownIds, KnownId
  <2> QED BY <2>1, <2>3, <2>4, RowsSame, GroundedStep
<1>6. CASE ClaimAnswer /\ UNCHANGED lifecycleVars
  <2>1. w.att \in Attempts
    BY <1>6 DEF ClaimAnswer, JournalInv, SentAttempt
  <2>2. KnownId(att[w.att].res) /\ att[w.att].res \in Resources \cup {NoRes}
    BY <1>0, <2>1 DEF LedgerInv, KnownIds, AttemptRecord
  <2>3. RowsGrounded
    BY <1>0, <1>6, <2>2, ProviderAssumption DEF ClaimAnswer, RowsGrounded, KnownId, Resources
  <2> QED BY <1>6, <2>3, AttemptsSame, SameIds DEF ClaimAnswer
<1> QED BY <1>1, <1>2, <1>3, <1>4, <1>5, <1>6 DEF WorkerJournal

LEMMA CleanupLedger ==
  ASSUME TypeInv, JournalInv, LedgerInv, AdvanceCleanup
  PROVE  LedgerInv'
<1> USE IdleTarget DEF ProviderUnchanged, providerVars, DatabaseOnly
<1>0. w \in WorkerRecord /\ (w.pc = "cleanup" => w.op \in Ops)
  BY DEF TypeInv, TypeOK, JournalTypeOK
<1>1. CASE ResolveNext
  <2>1. PICK a \in w.todo :
          IF Unowned(a)
          THEN SetProgress(w.op, "blocked") /\ w' = Idle /\ UNCHANGED <<att, row, alloc>>
          ELSE Resolve(a, w.op) /\ w' = [w EXCEPT !.todo = @ \ {a}]
    BY <1>1 DEF ResolveNext
  <2>2. UNCHANGED <<sv, ips, wire, conn>> /\ w.op \in Ops /\ a \in Attempts
    BY <1>0, <1>1 DEF ResolveNext, WorkerRecord
  <2>3. CASE Unowned(a)
    BY <2>1, <2>2, <2>3, RowsSame, AttemptsSame, SameIds
  <2>4. CASE ~Unowned(a)
    <3>1. w'.tgt = w.tgt
      BY <1>0, <2>1, <2>4 DEF WorkerRecord
    <3>2. KnownId(w'.tgt) /\ KnownId(conn'.res) /\ \A req \in wire' : KnownId(req.tgt)
      BY <2>2, <3>1 DEF LedgerInv, KnownIds
    <3> QED BY <2>1, <2>2, <2>4, <3>2, ResolveGrounded, GroundedStep
  <2> QED BY <2>3, <2>4
<1>2. CASE TargetAbsent
  <2>1. PICK r \in Resources : row[r] = "live" /\ ~Visible(r) /\ row' = [row EXCEPT ![r] = "absent"]
    BY <1>2 DEF TargetAbsent, Target, LiveRows
  <2> QED BY <1>2, <2>1, RowAbsent, AttemptsSame, SameIds DEF TargetAbsent
<1>3. CASE TargetMismatch \/ TargetLagging \/ TargetExhausted \/ Settling \/ FinishCleanup
  BY <1>3, RowsSame, AttemptsSame, SameIds
     DEF TargetMismatch, TargetLagging, TargetExhausted, Settling, FinishCleanup
<1>4. CASE DeleteTarget
  <2>1. PICK r \in Resources :
          Visible(r) /\ Decide(w.op, IF r \in Servers THEN "destroy" ELSE "delete_primary_ip", r)
    BY <1>4 DEF DeleteTarget, Fit
  <2>2. KnownId(r) BY <2>1, VisibleIsKnown DEF KnownId
  <2> QED BY <1>4, <2>1, <2>2, DecideGrounded DEF DeleteTarget
<1> QED BY <1>1, <1>2, <1>3, <1>4 DEF AdvanceCleanup

LEMMA OtherLedger ==
  ASSUME TypeInv, JournalInv, LedgerInv, NEW k \in Ops,
         BeginCleanup(k) \/ CrashStep \/ UserStep \/ OperatorStep
  PROVE  LedgerInv'
<1> USE IdleTarget DEF ProviderUnchanged, providerVars
<1>1. CASE BeginCleanup(k)
  <2>1. w.tgt' = NoRes
    BY <1>1 DEF BeginCleanup, Idle
  <2> QED BY <1>1, <2>1, RowsSame, AttemptsSame, SameIds DEF BeginCleanup
<1>2. CASE Crash
  <2>1. UNCHANGED <<sv, ips, wire, row, att>> /\ conn'.res = NoRes /\ w'.tgt = NoRes
    BY <1>2 DEF Crash, Hang, Closed
  <2>2. KnownId(w'.tgt) /\ KnownId(conn'.res) /\ \A req \in wire' : KnownId(req.tgt)
    BY <2>1 DEF LedgerInv, KnownIds, KnownId
  <2> QED BY <2>1, <2>2, RowsSame, AttemptsSame, GroundedStep
<1>3. ASSUME NEW j \in Ops, CrashAfterDiscovery(j)
      PROVE  LedgerInv'
  <2>1. PICK a \in Attempts : DiscoverOnly(a)
    BY <1>3 DEF CrashAfterDiscovery, Scope, Of
  <2> QED BY <1>3, <2>1, DiscoveryGrounded, AttemptsSame, SameIds DEF CrashAfterDiscovery
<1>4. CASE UserStep
  <2>1. UNCHANGED <<sv, ips, wire, conn, att, row, w>>
    BY <1>4 DEF UserStep, TakeOverCreate, AdmitDestroy, Admit, Revoke
  <2> QED BY <2>1, RowsSame, AttemptsSame, SameIds
<1>5. ASSUME NEW j \in Ops, NEW a \in Attempts,
             CloseRefused(j, a) \/ CloseCreate(j, a) \/ RetryDelete(j, a)
      PROVE  LedgerInv'
  <2>1. CASE CloseRefused(j, a)
    BY <2>1, DiscoveryGrounded, AttemptsSame, SameIds DEF CloseRefused
  <2>2. CASE CloseCreate(j, a)
    <3>1. \A b \in Attempts : att'[b].tgt = att[b].tgt /\ att'[b].res = att[b].res
      BY <2>2 DEF CloseCreate, TypeInv, TypeOK, JournalTypeOK, AttemptRecord
    <3>2. AttemptsGrounded
      BY <3>1 DEF AttemptsGrounded, LedgerInv, KnownIds
    <3> QED BY <2>2, <3>2, RowsSame, SameIds DEF CloseCreate
  <2>3. CASE RetryDelete(j, a)
    BY <2>3, RowsSame, AttemptsSame, SameIds DEF RetryDelete
  <2> QED BY <1>5, <2>1, <2>2, <2>3
<1> QED BY <1>1, <1>2, <1>3, <1>4, <1>5 DEF CrashStep, OperatorStep

LEMMA NextLedger ==
  ASSUME TypeInv, JournalInv, LedgerInv, [Next]_vars
  PROVE  LedgerInv'
<1>1. CASE EnvironmentStep BY <1>1, EnvironmentLedger
<1>2. Source \in Ops BY JournalAssumption DEF Source, Ops
<1>3. CASE WorkerStep
  BY <1>3, WorkerJournalLedger, CleanupLedger, AdvanceRunLedger, OtherLedger DEF WorkerStep
<1>4. CASE CrashStep \/ UserStep \/ OperatorStep
  BY <1>2, <1>4, OtherLedger
<1>5. CASE UNCHANGED vars
  BY <1>5, RowsSame, AttemptsSame, SameIds DEF vars
<1> QED BY <1>1, <1>3, <1>4, <1>5 DEF Next

LEMMA InitLedger == Init => LedgerInv
<1> SUFFICES ASSUME Init PROVE LedgerInv
  OBVIOUS
<1>1. \A r \in Resources : row[r] = "none"
  BY DEF Init
<1>2. \A a \in Attempts : att[a].tgt = NoRes /\ att[a].res = NoRes
  BY DEF Init, Unused
<1>3. w.tgt = NoRes /\ conn.res = NoRes /\ wire = {}
  BY DEF Init, ProviderInit, Idle, Closed
<1> QED BY <1>1, <1>2, <1>3 DEF LedgerInv, KnownIds, KnownId, AbsentIsGone

\* Every id the control plane stores or sends is one reads have shown.
THEOREM LedgerCorrect == Spec => []LedgerInv
<1>1. Init => LedgerInv BY InitLedger
<1>2. TypeInv /\ JournalInv /\ LedgerInv /\ [Next]_vars => LedgerInv' BY NextLedger
<1> QED BY <1>1, <1>2, TypeCorrect, JournalCorrect, PTL DEF Spec

\* A resource recorded absent is really gone, whatever delays, lost answers,
\* duplicates, crashes and outside changes came before.
THEOREM AbsenceIsTrue == Spec => []AbsentIsGone
<1>1. LedgerInv => AbsentIsGone BY DEF LedgerInv
<1> QED BY <1>1, LedgerCorrect, PTL

-----------------------------------------------------------------------------
(* The resources of the allocation, the requests and the answers            *)

St(r)   == IF r \in Servers THEN sv[r].st ELSE ips[r].st
Made(r) == St(r) # "none"
Seen(r) == IF r \in Servers THEN sv[r].vis ELSE ips[r].vis
Held    == {r \in Resources : Live(r) /\ Traceable(r)}

Creates(c) == {a \in Attempts : att[a].op # 0 /\ att[a].cmd = c}
OnWire(a)  == \E req \in wire : req.id = a
Receipts   == {"accepted", "completed"}

\* The provider told the caller that the attempt concerns r, or that it refuses.
Told(a, r) ==
  \/ att[a].outcome \in Receipts /\ att[a].res = r
  \/ conn.id = a /\ conn.kind \in Receipts /\ conn.res = r
Refused(a) ==
  \/ att[a].outcome = "rejected"
  \/ conn.id = a /\ conn.kind = "rejected"

\* A live server that runs with the allocation's IP, which keeps that IP.
WithIp(s) == sv[s].ip # NoRes

-----------------------------------------------------------------------------
(* The invariant                                                            *)

\* One operation at a time.
OneActive == \A j, k \in Ops : Active(j) /\ Active(k) => j = k

\* What the worker sends, waits for and claims.
WorkInv ==
  /\ w.pc \in {"sent", "claim"} => att[w.att].cmd = w.cmd /\ att[w.att].resol = "pending"
  /\ w.pc = "claim" => w.cmd \in CreateCommands /\ att[w.att].outcome \in Receipts
  /\ conn.id # 0 => w.pc = "sent" /\ conn.id = w.att
  /\ conn.id = 0 => conn.kind = "none"

\* A request on the wire is that of an attempt nobody knows the outcome of.
ChannelInv ==
  /\ \A req \in wire : /\ att[req.id].op # 0 /\ Uncertain(req.id)
                       /\ att[req.id].cmd = req.cmd /\ att[req.id].tgt = req.tgt
  /\ \A p, q \in wire : p.id = q.id => p = q
  /\ conn.kind # "none" => ~OnWire(conn.id)

\* Effects aim at resources of the ledger, and a confirmed one showed such a resource.
Aimed ==
  w.pc = "journal" =>
    /\ w.cmd # "create_primary_ip" => w.tgt \in Resources /\ row[w.tgt] # "none"
    /\ w.cmd = "create" => w.tgt \in Ips

TargetInv ==
  /\ Aimed
  /\ \A a \in Attempts : att[a].op # 0 =>
       /\ att[a].cmd # "create_primary_ip" => att[a].tgt \in Resources /\ row[att[a].tgt] # "none"
       /\ att[a].cmd = "create" => att[a].tgt \in Ips
       /\ att[a].cmd \notin CreateCommands => \A r \in Resources \cup {NoRes} : Told(a, r) => r = att[a].tgt
       /\ att[a].resol = "confirmed" => att[a].res \in Resources /\ row[att[a].res] # "none"
  /\ alloc.server # NoRes => row[alloc.server] # "none"

\* What the provider holds of a kind was made by one execution of its one create; an
\* answer names the only resource made.
MadeInv(c) ==
  /\ \A r \in KindOf(c) : Made(r) => \E a \in Creates(c) : ~Refused(a) /\ ~OnWire(a)
  /\ \A a \in Creates(c), r \in Resources \cup {NoRes} : Told(a, r) =>
       /\ r \in KindOf(c)
       /\ \A q \in KindOf(c) : Made(q) => q = r
       /\ r \in Servers => WithIp(r)
  /\ \A r, q \in KindOf(c) : Live(r) /\ Live(q) => Seen(r) = Seen(q)

IpReceipts == \A a \in Creates("create_primary_ip") :
  att[a].outcome # "accepted" /\ (conn.id = a => conn.kind # "accepted")

AttachedInv ==
  \A s \in Servers : sv[s].st = "live" /\ WithIp(s) =>
    /\ sv[s].ip \in Ips
    /\ ips[sv[s].ip].st = "live" /\ ips[sv[s].ip].srv = s
    /\ row[sv[s].ip] # "none"

\* An action acts on a server.
ActingInv == \A a \in Attempts : act[a].st # "none" => act[a].srv \in Servers

\* A judged create left nothing unknown behind, but perhaps the server that
\* keeps the allocation's IP; a confirmed one left one resource.
SettledInv(c) ==
  \A a \in Creates(c) :
    /\ att[a].resol # "pending" =>
         /\ ~OnWire(a)
         /\ \A r \in KindOf(c) : Live(r) /\ Owned(r) => row[r] # "none" \/ (r \in Servers /\ WithIp(r))
    /\ att[a].resol = "confirmed" =>
         /\ Rows(KindOf(c)) = {att[a].res}
         /\ \A r \in KindOf(c) : Live(r) /\ Owned(r) => row[r] # "none"

\* The source operation: its creates are confirmed or failed until it is cleaned up, the
\* server comes after the IP, a success has both.
SourceInv ==
  /\ ops[Source].intent # "cleanup" =>
       \A a \in Attempts : att[a].op # 0 /\ att[a].cmd \in CreateCommands =>
         att[a].resol \in {"pending", "confirmed", "failed"}
  /\ Creates("create") # {} \/ (w.pc = "journal" /\ w.cmd = "create") =>
       Creates("create_primary_ip") # {}
  /\ ops[Source].prog = "succeeded" =>
       \A c \in CreateCommands : \E a \in Creates(c) : att[a].resol = "confirmed"

\* A create is compensated only while no server can exist.
CompensationInv ==
  \A k \in Ops : ops[k].intent = "compensate" => k = Source /\ ~PossibleVm(Source)

\* A released reservation leaves nothing behind, and nothing can come.
RetiredInv == alloc.retired => Held = {} /\ \A req \in wire : req.cmd \notin CreateCommands

CustodyInv ==
  /\ OneActive /\ WorkInv /\ ChannelInv /\ TargetInv /\ IpReceipts /\ AttachedInv /\ ActingInv
  /\ \A c \in CreateCommands : MadeInv(c) /\ SettledInv(c)
  /\ SourceInv /\ CompensationInv /\ RetiredInv

-----------------------------------------------------------------------------
LEMMA TwoKinds ==
  /\ CreateCommands = {"create_primary_ip", "create"}
  /\ KindOf("create") = Servers /\ KindOf("create_primary_ip") = Ips
  /\ \A c \in CreateCommands : KindOf(c) \subseteq Resources
  /\ \A c, d \in CreateCommands, r \in Resources : r \in KindOf(c) /\ r \in KindOf(d) => c = d
  /\ NoRes \notin Resources
<1>1. CreateCommands = {"create_primary_ip", "create"}
  BY DEF CreateCommands
<1>2. KindOf("create") = Servers /\ KindOf("create_primary_ip") = Ips
  BY DEF KindOf, IpCommands
<1> QED BY <1>1, <1>2, ProviderAssumption DEF Resources

LEMMA OneCreate ==
  ASSUME JournalInv, NEW c \in CreateCommands, NEW a \in Creates(c), NEW b \in Creates(c)
  PROVE  a = b
BY DEF JournalInv, CreateSubmittedOnce, Creates

\* While the create is on the wire, nothing of its kind exists.
LEMMA NothingYet ==
  ASSUME TypeInv, JournalInv, CustodyInv, NEW c \in CreateCommands, NEW req \in wire, req.cmd = c
  PROVE  req.id \in Creates(c) /\ \A r \in KindOf(c) : ~Made(r)
<1>1. req.id \in Creates(c)
  BY DEF TypeInv, TypeOK, ProviderTypeOK, Request, CustodyInv, ChannelInv, Creates
<1>2. OnWire(req.id)
  BY DEF OnWire
<1> QED BY <1>1, <1>2, OneCreate DEF CustodyInv, MadeInv

\* What the provider does without creating anything: resources end, lose their
\* labels or become visible.
Ending ==
  /\ \A r \in Resources : (Made(r)' <=> Made(r)) /\ (Live(r)' => Live(r)) /\ (Owned(r)' => Owned(r))
  /\ \A s \in Servers : sv'[s].ip = sv[s].ip

SeenAlike == \A c \in CreateCommands : \A r, q \in KindOf(c) : Live(r) /\ Live(q) => Seen(r) = Seen(q)

\* What an answer that names no created resource does to the channel.
Answering ==
  \/ conn' = conn
  \/ \E req \in wire :
       /\ req.id = conn.id /\ req \notin wire' /\ conn'.id = conn.id
       /\ \/ conn'.kind = "rejected"
          \/ conn'.kind \in Receipts /\ req.cmd \notin CreateCommands /\ conn'.res = req.tgt

-----------------------------------------------------------------------------
(* The provider                                                             *)

LEMMA AnsweringKeeps ==
  ASSUME TypeInv, JournalInv, CustodyInv, UNCHANGED <<ops, att, row, alloc, w>>,
         wire' \subseteq wire, Answering
  PROVE  /\ WorkInv' /\ ChannelInv' /\ TargetInv' /\ IpReceipts'
         /\ \A a \in Attempts : OnWire(a)' => OnWire(a)
         /\ \A a \in Attempts : ~OnWire(a) => (Refused(a)' => Refused(a))
         /\ \A c \in CreateCommands : \A a \in Creates(c), r \in Resources \cup {NoRes} :
              Told(a, r)' => Told(a, r)
<1>0. /\ \A req \in wire : req.id \in Attempts /\ req.id # 0
      /\ conn.id \in Attempts \cup {0}
  BY DEF TypeInv, TypeOK, ProviderTypeOK, Request, Attempts
<1>1. \A a \in Attempts : OnWire(a)' => OnWire(a)
  BY DEF OnWire
<1>2. WorkInv'
  BY <1>0 DEF CustodyInv, WorkInv, Answering
<1>3. ChannelInv'
  <2>1. /\ \A req \in wire' : /\ att'[req.id].op # 0 /\ Uncertain(req.id)'
                              /\ att'[req.id].cmd = req.cmd /\ att'[req.id].tgt = req.tgt
        /\ \A p, q \in wire' : p.id = q.id => p = q
    BY DEF CustodyInv, ChannelInv, Uncertain
  <2>2. conn'.kind # "none" => ~OnWire(conn.id)'
    BY DEF CustodyInv, ChannelInv, Answering, OnWire
  <2>3. conn'.id = conn.id
    BY DEF Answering
  <2> QED BY <2>1, <2>2, <2>3 DEF ChannelInv, OnWire
<1>4. \A a \in Attempts : ~OnWire(a) => (Refused(a)' => Refused(a))
  BY DEF Answering, Refused, OnWire
<1>5. \A c \in CreateCommands : \A a \in Creates(c), r \in Resources \cup {NoRes} : Told(a, r)' => Told(a, r)
  <2> SUFFICES ASSUME NEW c \in CreateCommands, NEW a \in Creates(c), NEW r \in Resources \cup {NoRes}, Told(a, r)'
               PROVE  Told(a, r)
    OBVIOUS
  <2>1. att[a].cmd \in CreateCommands
    BY DEF Creates
  <2>2. ASSUME NEW req \in wire, req.id = a PROVE req.cmd \in CreateCommands
    BY <2>1, <2>2 DEF CustodyInv, ChannelInv
  <2> QED BY <2>2 DEF Answering, Told, Receipts
<1>6. IpReceipts'
  <2>1. ASSUME NEW req \in wire, req.id \in Creates("create_primary_ip")
        PROVE  req.cmd \in CreateCommands
    BY <2>1, TwoKinds DEF CustodyInv, ChannelInv, Creates
  <2> QED BY <2>1 DEF CustodyInv, IpReceipts, Creates, Answering
<1>7. TargetInv'
  <2>1. ASSUME NEW a \in Attempts, att[a].op # 0, att[a].cmd \notin CreateCommands,
               NEW r \in Resources \cup {NoRes}, Told(a, r)'
        PROVE  r = att[a].tgt
    <3>1. CASE Told(a, r) BY <2>1, <3>1 DEF CustodyInv, TargetInv
    <3>2. CASE ~Told(a, r)
      <4>1. PICK req \in wire : req.id = a /\ r = req.tgt
        BY <2>1, <3>2 DEF Told, Answering, Receipts
      <4> QED BY <4>1 DEF CustodyInv, ChannelInv
    <3> QED BY <3>1, <3>2
  <2> QED BY <2>1 DEF CustodyInv, TargetInv, Aimed
<1> QED BY <1>1, <1>2, <1>3, <1>4, <1>5, <1>6, <1>7

LEMMA DatabaseSame ==
  ASSUME CustodyInv, UNCHANGED <<ops, att, row, alloc, w>>
  PROVE  OneActive' /\ SourceInv' /\ CompensationInv' /\ \A c \in CreateCommands : (Creates(c))' = Creates(c)
<1>1. OneActive' BY DEF CustodyInv, OneActive, Active
<1>2. \A c \in CreateCommands : (Creates(c))' = Creates(c) BY DEF Creates
<1>3. SourceInv' BY <1>2, TwoKinds DEF CustodyInv, SourceInv
<1>4. CompensationInv' BY DEF CustodyInv, CompensationInv, PossibleVm, EffectOf, Of
<1> QED BY <1>1, <1>2, <1>3, <1>4

LEMMA EndingKeeps ==
  ASSUME TypeInv, JournalInv, CustodyInv, UNCHANGED <<ops, att, row, alloc, w>>,
         wire' \subseteq wire, Answering, Ending, SeenAlike', AttachedInv', ActingInv'
  PROVE  CustodyInv' /\ Held' \subseteq Held
<1>1. /\ WorkInv' /\ ChannelInv' /\ TargetInv' /\ IpReceipts'
      /\ \A a \in Attempts : OnWire(a)' => OnWire(a)
      /\ \A a \in Attempts : ~OnWire(a) => (Refused(a)' => Refused(a))
      /\ \A c \in CreateCommands : \A a \in Creates(c), r \in Resources \cup {NoRes} :
           Told(a, r)' => Told(a, r)
  BY AnsweringKeeps
<1>2. \A c \in CreateCommands : (Creates(c))' = Creates(c)
  BY DEF Creates
<1>3. ASSUME NEW c \in CreateCommands PROVE MadeInv(c)'
  <2>1. KindOf(c) \subseteq Resources BY TwoKinds
  <2>2. \A r \in KindOf(c) : Made(r)' => \E a \in Creates(c) : ~Refused(a)' /\ ~OnWire(a)'
    BY <1>1, <2>1 DEF CustodyInv, MadeInv, Ending, Creates
  <2>3. \A a \in Creates(c), r \in Resources \cup {NoRes} : Told(a, r)' =>
          /\ r \in KindOf(c)
          /\ \A q \in KindOf(c) : Made(q)' => q = r
          /\ r \in Servers => WithIp(r)'
    BY <1>1, <2>1 DEF CustodyInv, MadeInv, Ending, WithIp
  <2>4. \A r, q \in KindOf(c) : Live(r)' /\ Live(q)' => Seen(r)' = Seen(q)'
    BY DEF SeenAlike
  <2> QED BY <1>2, <2>2, <2>3, <2>4 DEF MadeInv
<1>4. ASSUME NEW c \in CreateCommands PROVE SettledInv(c)'
  <2>1. KindOf(c) \subseteq Resources BY TwoKinds
  <2>2. (Rows(KindOf(c)))' = Rows(KindOf(c)) BY DEF Rows
  <2>3. \A r \in Servers : WithIp(r)' = WithIp(r) BY DEF Ending, WithIp
  <2> QED BY <1>1, <1>2, <2>1, <2>2, <2>3 DEF CustodyInv, SettledInv, Ending, Creates
<1>5. OneActive' /\ SourceInv' /\ CompensationInv'
  BY DatabaseSame
<1>6. Held' \subseteq Held
  BY DEF Held, Ending, Traceable
<1>7. RetiredInv'
  BY <1>6 DEF CustodyInv, RetiredInv
<1> QED BY <1>1, <1>3, <1>4, <1>5, <1>6, <1>7 DEF CustodyInv

\* Removing an IP that exists, or releasing it, creates nothing.
LEMMA RemovalEnds ==
  ASSUME TypeInv, NEW i, NEW fate \in Fates, i \in Ips => ips[i].st # "none", IpAfterRemoval(i, fate),
         NEW j \in Ips
  PROVE  /\ ips'[j].st # "none" <=> ips[j].st # "none"
         /\ ips'[j].st = "live" => ips[j].st = "live"
         /\ ips'[j].vis = ips[j].vis /\ ips'[j].own = ips[j].own
         /\ j # i => ips'[j] = ips[j]
<1>1. ips[j] \in IpRecord /\ ips \in [Ips -> IpRecord]
  BY DEF TypeInv, TypeOK, ProviderTypeOK
<1>2. ips'[j] \in {ips[j], [ips[j] EXCEPT !.st = "gone"], [ips[j] EXCEPT !.srv = NoRes]}
      /\ (j # i => ips'[j] = ips[j])
  BY <1>1 DEF IpAfterRemoval, Fates
<1>3. ips'[j].st = "gone" => ips[j].st # "none" \/ ips'[j] = ips[j]
  BY <1>1, <1>2 DEF IpAfterRemoval, Fates, IpRecord
<1> QED BY <1>1, <1>2, <1>3 DEF IpRecord

LEMMA AlikeNow ==
  ASSUME CustodyInv
  PROVE  SeenAlike
BY DEF CustodyInv, MadeInv, SeenAlike

\* Everything keeps its visibility.
LEMMA AlikeStill ==
  ASSUME CustodyInv, Ending, \A r \in Resources : Live(r)' => Seen(r)' = Seen(r)
  PROVE  SeenAlike'
<1>1. \A c \in CreateCommands : KindOf(c) \subseteq Resources BY TwoKinds
<1> QED BY <1>1, AlikeNow DEF SeenAlike, Ending

\* A server ends, and its IP with it, is released or stays for the moment.
LEMMA ServerEnds ==
  ASSUME TypeInv, CustodyInv, NEW t \in Servers, NEW fate \in Fates, sv[t].st = "live",
         sv' = [sv EXCEPT ![t].st = "gone"], IpAfterRemoval(sv[t].ip, fate), row' = row
  PROVE  Ending /\ SeenAlike' /\ AttachedInv'
<1> DEFINE i == sv[t].ip
<1>0. /\ sv \in [Servers -> ServerRecord] /\ ips \in [Ips -> IpRecord] /\ i \in Ips \cup {NoRes}
  BY DEF TypeInv, TypeOK, ProviderTypeOK, ServerRecord
<1>1. i \in Ips => /\ i # NoRes /\ ips[i].st = "live" /\ ips[i].srv = t
  BY ProviderAssumption DEF CustodyInv, AttachedInv, WithIp
<1>2. \A s \in Servers : /\ sv'[s].ip = sv[s].ip /\ sv'[s].own = sv[s].own /\ sv'[s].vis = sv[s].vis
                         /\ sv'[s].st = IF s = t THEN "gone" ELSE sv[s].st
  BY <1>0 DEF ServerRecord
<1>3. \A j \in Ips : /\ ips'[j].st # "none" <=> ips[j].st # "none"
                     /\ ips'[j].st = "live" => ips[j].st = "live"
                     /\ ips'[j].vis = ips[j].vis /\ ips'[j].own = ips[j].own
                     /\ j # i => ips'[j] = ips[j]
  BY <1>1, RemovalEnds
<1> HIDE DEF i
<1>4. Ending
  BY <1>2, <1>3 DEF Ending, Made, St, Live, Owned, Resources
<1>5. \A r \in Resources : Seen(r)' = Seen(r)
  BY <1>2, <1>3 DEF Seen, Resources
<1>6. AttachedInv'
  <2> SUFFICES ASSUME NEW s \in Servers, sv'[s].st = "live", WithIp(s)'
               PROVE  /\ sv'[s].ip \in Ips
                      /\ ips'[sv'[s].ip].st = "live" /\ ips'[sv'[s].ip].srv = s
                      /\ row'[sv'[s].ip] # "none"
    BY DEF AttachedInv
  <2>1. s # t /\ sv[s].st = "live" /\ sv'[s].ip = sv[s].ip /\ WithIp(s)
    BY <1>2 DEF WithIp
  <2>2. /\ sv[s].ip \in Ips /\ ips[sv[s].ip].st = "live" /\ ips[sv[s].ip].srv = s
        /\ row[sv[s].ip] # "none"
    BY <2>1 DEF CustodyInv, AttachedInv
  <2>3. sv[s].ip # i
    BY <1>1, <2>1, <2>2
  <2> QED BY <1>3, <2>1, <2>2, <2>3
<1> QED BY <1>4, <1>5, <1>6, AlikeStill

\* An IP that hangs on no live server changes.
LEMMA IpEnds ==
  ASSUME TypeInv, CustodyInv, sv' = sv, row' = row, NEW i \in Ips,
         \A s \in Servers : sv[s].st = "live" => ips[i].srv # s \/ ips[i].st # "live",
         \A j \in Ips : /\ ips'[j].st # "none" <=> ips[j].st # "none"
                        /\ ips'[j].st = "live" => ips[j].st = "live"
                        /\ ips'[j].vis = ips[j].vis /\ ips'[j].own = ips[j].own
                        /\ j # i => ips'[j] = ips[j]
  PROVE  Ending /\ SeenAlike' /\ AttachedInv'
<1>1. Ending
  BY DEF Ending, Made, St, Live, Owned, Resources
<1>2. \A r \in Resources : Seen(r)' = Seen(r)
  BY DEF Seen, Resources
<1>3. AttachedInv'
  <2> SUFFICES ASSUME NEW s \in Servers, sv[s].st = "live", WithIp(s)
               PROVE  /\ sv[s].ip \in Ips
                      /\ ips'[sv[s].ip].st = "live" /\ ips'[sv[s].ip].srv = s
                      /\ row[sv[s].ip] # "none"
    BY DEF AttachedInv, WithIp
  <2>1. /\ sv[s].ip \in Ips /\ ips[sv[s].ip].st = "live" /\ ips[sv[s].ip].srv = s
        /\ row[sv[s].ip] # "none"
    BY DEF CustodyInv, AttachedInv
  <2>2. sv[s].ip # i
    BY <2>1
  <2> QED BY <2>1, <2>2
<1> QED BY <1>1, <1>2, <1>3, AlikeStill

\* Only power, type, backups or labels of servers and labels of IPs change.
LEMMA RecordsEnd ==
  ASSUME TypeInv, CustodyInv, row' = row,
         \A s \in Servers : /\ sv'[s].st = sv[s].st /\ sv'[s].ip = sv[s].ip /\ sv'[s].vis = sv[s].vis
                            /\ sv'[s].own => sv[s].own,
         \A j \in Ips : /\ ips'[j].st = ips[j].st /\ ips'[j].srv = ips[j].srv /\ ips'[j].vis = ips[j].vis
                        /\ ips'[j].own => ips[j].own
  PROVE  Ending /\ SeenAlike' /\ AttachedInv'
<1>1. Ending
  BY DEF Ending, Made, St, Live, Owned, Resources
<1>2. \A r \in Resources : Seen(r)' = Seen(r)
  BY DEF Seen, Resources
<1>3. AttachedInv'
  BY DEF CustodyInv, AttachedInv, WithIp
<1> QED BY <1>1, <1>2, <1>3, AlikeStill

LEMMA VisibilityEnds ==
  ASSUME TypeInv, CustodyInv, row' = row, ServersBecomeVisible \/ IpsBecomeVisible
  PROVE  Ending /\ SeenAlike' /\ AttachedInv'
<1>0. /\ sv \in [Servers -> ServerRecord] /\ ips \in [Ips -> IpRecord]
  BY DEF TypeInv, TypeOK, ProviderTypeOK
<1>1. /\ \A s \in Servers : /\ sv'[s].st = sv[s].st /\ sv'[s].ip = sv[s].ip /\ sv'[s].own = sv[s].own
                            /\ ServersBecomeVisible => sv'[s].vis = (sv[s].st = "live" \/ sv[s].vis)
                            /\ IpsBecomeVisible => sv'[s].vis = sv[s].vis
      /\ \A j \in Ips : /\ ips'[j].st = ips[j].st /\ ips'[j].srv = ips[j].srv /\ ips'[j].own = ips[j].own
                        /\ IpsBecomeVisible => ips'[j].vis = (ips[j].st = "live" \/ ips[j].vis)
                        /\ ServersBecomeVisible => ips'[j].vis = ips[j].vis
  <2>1. CASE ServersBecomeVisible
    <3>1. ips' = ips /\ \A s \in Servers : sv'[s] = [sv[s] EXCEPT !.vis = (sv[s].st = "live") \/ @]
      BY <2>1 DEF ServersBecomeVisible
    <3>2. \A s \in Servers : sv[s] \in ServerRecord BY <1>0
    <3>3. ~IpsBecomeVisible
      BY <2>1, <3>1, <3>2 DEF ServersBecomeVisible, IpsBecomeVisible, ServerRecord
    <3> QED BY <3>1, <3>2, <3>3 DEF ServerRecord
  <2>2. CASE IpsBecomeVisible
    <3>1. sv' = sv /\ \A j \in Ips : ips'[j] = [ips[j] EXCEPT !.vis = (ips[j].st = "live") \/ @]
      BY <2>2 DEF IpsBecomeVisible
    <3>2. \A j \in Ips : ips[j] \in IpRecord BY <1>0
    <3>3. ~ServersBecomeVisible
      BY <2>2, <3>1, <3>2 DEF ServersBecomeVisible, IpsBecomeVisible, IpRecord
    <3> QED BY <3>1, <3>2, <3>3 DEF IpRecord
  <2> QED BY <2>1, <2>2
<1>2. Ending
  BY <1>1 DEF Ending, Made, St, Live, Owned, Resources
<1>3. AttachedInv'
  BY <1>1 DEF CustodyInv, AttachedInv, WithIp
<1>4. SeenAlike'
  <2> SUFFICES ASSUME NEW c \in CreateCommands, NEW r \in KindOf(c), NEW q \in KindOf(c), Live(r)', Live(q)'
               PROVE  Seen(r)' = Seen(q)'
    BY DEF SeenAlike
  <2>1. \/ r \in Servers /\ q \in Servers
        \/ r \in Ips /\ q \in Ips /\ r \notin Servers /\ q \notin Servers
    BY ProviderAssumption, TwoKinds
  <2>2. Live(r) /\ Live(q) /\ Seen(r) = Seen(q)
    BY <1>2, AlikeNow, TwoKinds DEF Ending, SeenAlike
  <2> QED BY <1>1, <2>1, <2>2 DEF Seen, Live
<1> QED BY <1>2, <1>3, <1>4

\* A request is dropped, refused or carried out on something that exists.
LEMMA DeliverEnds ==
  ASSUME TypeInv, LedgerInv, CustodyInv, UNCHANGED <<ops, att, row, alloc, w>>, NEW req \in wire,
         \/ Drop(req) \/ ExecReject(req)
         \/ \E lost \in BOOLEAN : ExecDeleteIp(req, lost) \/ ExecServerAction(req, lost)
  PROVE  wire' \subseteq wire /\ Answering /\ Ending /\ SeenAlike' /\ AttachedInv'
<1>0. /\ sv \in [Servers -> ServerRecord] /\ ips \in [Ips -> IpRecord]
      /\ conn \in [id : Attempts \cup {0},
                   kind : {"none", "accepted", "completed", "rejected"},
                   res : Resources \cup {NoRes}]
  BY DEF TypeInv, TypeOK, ProviderTypeOK
<1>a. ASSUME NEW lost \in BOOLEAN, NEW kind \in Receipts, req.cmd \notin CreateCommands,
             Answer(req, lost, kind, req.tgt)
      PROVE  wire' \subseteq wire /\ Answering
  <2>1. wire' = wire \ {req}
    BY <1>a DEF Answer
  <2>2. conn' = conn \/ (conn.id = req.id /\ conn' = [conn EXCEPT !.kind = kind, !.res = req.tgt])
    BY <1>a DEF Answer
  <2> QED BY <1>0, <1>a, <2>1, <2>2 DEF Answering
<1>b. ASSUME sv' = sv, ips' = ips
      PROVE  Ending /\ SeenAlike' /\ AttachedInv'
  BY <1>b, RecordsEnd
<1>1. CASE Drop(req)
  BY <1>1, <1>b DEF Drop, Answering
<1>2. CASE ExecReject(req)
  <2>1. wire' = wire \ {req} /\ UNCHANGED <<sv, ips>>
    BY <1>2 DEF ExecReject
  <2>2. conn' = conn \/ (conn.id = req.id /\ conn' = [conn EXCEPT !.kind = "rejected"])
    BY <1>2 DEF ExecReject
  <2>3. Answering
    BY <1>0, <2>1, <2>2 DEF Answering
  <2> QED BY <1>b, <2>1, <2>3
<1>3. ASSUME NEW lost \in BOOLEAN, ExecDeleteIp(req, lost)
      PROVE  wire' \subseteq wire /\ Answering /\ Ending /\ SeenAlike' /\ AttachedInv'
  <2>1. req.cmd \notin CreateCommands /\ "completed" \in Receipts /\ Answer(req, lost, "completed", req.tgt)
    BY <1>3 DEF ExecDeleteIp, CreateCommands, Receipts
  <2>2. req.tgt \in Ips /\ sv' = sv /\ (ips[req.tgt].st = "live" => ips[req.tgt].srv = NoRes)
    BY <1>3 DEF ExecDeleteIp, Deletable
  <2>3. ips' = [ips EXCEPT ![req.tgt].st = "gone"]
    BY <1>3 DEF ExecDeleteIp
  <2>4. ips[req.tgt].st # "none"
    BY <2>2, ProviderAssumption DEF LedgerInv, KnownIds, KnownId, Known
  <2>5. \A j \in Ips : /\ ips'[j].st # "none" <=> ips[j].st # "none"
                       /\ ips'[j].st = "live" => ips[j].st = "live"
                       /\ ips'[j].vis = ips[j].vis /\ ips'[j].own = ips[j].own
                       /\ j # req.tgt => ips'[j] = ips[j]
    BY <1>0, <2>2, <2>3, <2>4 DEF IpRecord
  <2>6. \A s \in Servers : ips[req.tgt].srv # s \/ ips[req.tgt].st # "live"
    BY <2>2, ProviderAssumption
  <2> QED BY <1>a, <2>1, <2>2, <2>5, <2>6, IpEnds
<1>4. ASSUME NEW lost \in BOOLEAN, ExecServerAction(req, lost)
      PROVE  wire' \subseteq wire /\ Answering /\ Ending /\ SeenAlike' /\ AttachedInv'
  <2>1. req.cmd \notin CreateCommands /\ "accepted" \in Receipts /\ Answer(req, lost, "accepted", req.tgt)
    BY <1>4 DEF ExecServerAction, CreateCommands, Receipts
  <2>2. UNCHANGED <<sv, ips>>
    BY <1>4 DEF ExecServerAction
  <2> QED BY <1>a, <1>b, <2>1, <2>2
<1> QED BY <1>1, <1>2, <1>3, <1>4

LEMMA SettledSame ==
  ASSUME NEW s \in ServerRecord, NEW cmd, NEW type \in Types, cmd # "destroy"
  PROVE  /\ Settled(s, cmd, type).st = s.st /\ Settled(s, cmd, type).ip = s.ip
         /\ Settled(s, cmd, type).vis = s.vis /\ Settled(s, cmd, type).own = s.own
BY DEF Settled, ServerRecord

LEMMA ActionEnds ==
  ASSUME TypeInv, CustodyInv, UNCHANGED <<ops, att, row, alloc, w>>, NEW a \in Attempts, SettleAction(a)
  PROVE  UNCHANGED <<wire, conn>> /\ Ending /\ SeenAlike' /\ AttachedInv'
<1>0. /\ sv \in [Servers -> ServerRecord] /\ ips \in [Ips -> IpRecord]
      /\ act \in [Attempts -> ActionRecord]
  BY DEF TypeInv, TypeOK, ProviderTypeOK
<1>b. ASSUME sv' = sv, ips' = ips
      PROVE  Ending /\ SeenAlike' /\ AttachedInv'
  BY <1>b, RecordsEnd
<1>1. CASE ActionFails(a)
  BY <1>1, <1>b DEF ActionFails
<1>2. ASSUME NEW fate \in Fates, ActionSucceeds(a, fate)
      PROVE  UNCHANGED <<wire, conn>> /\ Ending /\ SeenAlike' /\ AttachedInv'
  <2> DEFINE s == act[a].srv
             cmd == act[a].cmd
  <2>0. UNCHANGED <<wire, conn>> /\ act[a].type \in Types /\ s \in Servers \cup {NoRes}
    BY <1>0, <1>2 DEF ActionSucceeds, ActionRecord
  <2>1. s \in Servers
    BY <1>2 DEF ActionSucceeds, CustodyInv, ActingInv
  <2>2. CASE sv[s].st # "live"
    BY <1>2, <1>b, <2>0, <2>2 DEF ActionSucceeds
  <2>3. CASE sv[s].st = "live" /\ cmd = "destroy"
    <3>1. sv' = [sv EXCEPT ![s].st = "gone"] /\ IpAfterRemoval(sv[s].ip, fate)
      BY <1>2, <2>3 DEF ActionSucceeds, Settled
    <3> QED BY <2>0, <2>1, <2>3, <3>1, ServerEnds
  <2>4. CASE sv[s].st = "live" /\ cmd # "destroy"
    <3>1. sv' = [sv EXCEPT ![s] = Settled(@, cmd, act[a].type)] /\ ips' = ips
      BY <1>2, <2>4 DEF ActionSucceeds
    <3>2. \A t \in Servers : sv'[t] = sv[t] \/ sv'[t] = Settled(sv[t], cmd, act[a].type)
      BY <1>0, <3>1
    <3>3. \A t \in Servers : /\ sv'[t].st = sv[t].st /\ sv'[t].ip = sv[t].ip
                             /\ sv'[t].vis = sv[t].vis /\ sv'[t].own = sv[t].own
      BY <1>0, <2>0, <2>4, <3>2, SettledSame
    <3> QED BY <2>0, <3>1, <3>3, RecordsEnd
  <2> QED BY <2>2, <2>3, <2>4
<1> QED BY <1>1, <1>2 DEF SettleAction

LEMMA CatchUpEnds ==
  ASSUME TypeInv, CustodyInv, UNCHANGED <<ops, att, row, alloc, w>>, CatchUp
  PROVE  UNCHANGED <<wire, conn>> /\ Ending /\ SeenAlike' /\ AttachedInv'
<1>1. ASSUME NEW i \in Ips, NEW fate \in Fates, IpCatchesUp(i, fate)
      PROVE  UNCHANGED <<wire, conn>> /\ Ending /\ SeenAlike' /\ AttachedInv'
  <2>1. /\ ips[i].st = "live" /\ ips[i].srv \in Servers /\ sv[ips[i].srv].st = "gone"
        /\ IpAfterRemoval(i, fate) /\ UNCHANGED <<sv, wire, conn>>
    BY <1>1 DEF IpCatchesUp
  <2>2. \A s \in Servers : sv[s].st = "live" => ips[i].srv # s
    BY <2>1
  <2>3. \A j \in Ips : /\ ips'[j].st # "none" <=> ips[j].st # "none"
                       /\ ips'[j].st = "live" => ips[j].st = "live"
                       /\ ips'[j].vis = ips[j].vis /\ ips'[j].own = ips[j].own
                       /\ j # i => ips'[j] = ips[j]
    BY <2>1, RemovalEnds
  <2> QED BY <2>1, <2>2, <2>3, IpEnds
<1>2. CASE ServersBecomeVisible \/ IpsBecomeVisible
  <2>1. UNCHANGED <<wire, conn>>
    BY <1>2 DEF ServersBecomeVisible, IpsBecomeVisible
  <2> QED BY <1>2, <2>1, VisibilityEnds
<1> QED BY <1>1, <1>2 DEF CatchUp

LEMMA InterfereEnds ==
  ASSUME TypeInv, CustodyInv, UNCHANGED <<ops, att, row, alloc, w>>, Interfere
  PROVE  UNCHANGED <<wire, conn>> /\ Ending /\ SeenAlike' /\ AttachedInv'
<1>0. /\ sv \in [Servers -> ServerRecord] /\ ips \in [Ips -> IpRecord]
  BY DEF TypeInv, TypeOK, ProviderTypeOK
<1>1. ASSUME NEW s \in Servers, NEW fate \in Fates, ExternalDeleteServer(s, fate)
      PROVE  UNCHANGED <<wire, conn>> /\ Ending /\ SeenAlike' /\ AttachedInv'
  BY <1>1, ServerEnds DEF ExternalDeleteServer
<1>2. ASSUME NEW i \in Ips, ExternalDeleteIp(i)
      PROVE  UNCHANGED <<wire, conn>> /\ Ending /\ SeenAlike' /\ AttachedInv'
  <2>1. ips[i].st = "live" /\ ips[i].srv = NoRes /\ ips' = [ips EXCEPT ![i].st = "gone"]
        /\ UNCHANGED <<sv, wire, conn>>
    BY <1>2 DEF ExternalDeleteIp, Attachable
  <2>2. \A s \in Servers : ips[i].srv # s
    BY <2>1, ProviderAssumption
  <2>3. \A j \in Ips : /\ ips'[j].st # "none" <=> ips[j].st # "none"
                       /\ ips'[j].st = "live" => ips[j].st = "live"
                       /\ ips'[j].vis = ips[j].vis /\ ips'[j].own = ips[j].own
                       /\ j # i => ips'[j] = ips[j]
    BY <1>0, <2>1 DEF IpRecord
  <2> QED BY <2>1, <2>2, <2>3, IpEnds
<1>3. ASSUME NEW r \in Resources, ExternalRelabel(r)
      PROVE  UNCHANGED <<wire, conn>> /\ Ending /\ SeenAlike' /\ AttachedInv'
  <2>1. UNCHANGED <<wire, conn>>
    BY <1>3 DEF ExternalRelabel
  <2>2. \A s \in Servers : /\ sv'[s].st = sv[s].st /\ sv'[s].ip = sv[s].ip /\ sv'[s].vis = sv[s].vis
                           /\ sv'[s].own => sv[s].own
    BY <1>0, <1>3 DEF ExternalRelabel, ServerRecord
  <2>3. \A j \in Ips : /\ ips'[j].st = ips[j].st /\ ips'[j].srv = ips[j].srv /\ ips'[j].vis = ips[j].vis
                       /\ ips'[j].own => ips[j].own
    BY <1>0, <1>3 DEF ExternalRelabel, IpRecord
  <2> QED BY <2>1, <2>2, <2>3, RecordsEnd
<1> QED BY <1>1, <1>2, <1>3 DEF Interfere

LEMMA ActingKeeps ==
  ASSUME TypeInv, ActingInv, ProviderNext
  PROVE  ActingInv'
<1>0. act \in [Attempts -> ActionRecord]
  BY DEF TypeInv, TypeOK, ProviderTypeOK
<1>1. ASSUME NEW req \in wire, Deliver(req)
      PROVE  ActingInv'
  <2>1. CASE act' = act BY <2>1 DEF ActingInv
  <2>2. ASSUME NEW s \in Servers, NEW st, NEW cmd, NEW type, NEW a \in Attempts,
               act' = [act EXCEPT ![a] = [st |-> st, cmd |-> cmd, srv |-> s, type |-> type]]
        PROVE  ActingInv'
    BY <1>0, <2>2 DEF ActingInv
  <2>3. req.id \in Attempts /\ NamesServer(req.cmd, req.tgt)
    BY DEF TypeInv, TypeOK, ProviderTypeOK, Request
  <2>4. ASSUME NEW lost \in BOOLEAN, ExecServerAction(req, lost)
        PROVE  ActingInv'
    <3>1. req.tgt \in Servers
      BY <2>3, <2>4 DEF ExecServerAction, NamesServer, IpCommands
    <3> QED BY <2>2, <2>3, <2>4, <3>1 DEF ExecServerAction
  <2>5. ASSUME NEW lost \in BOOLEAN, NEW s \in Servers, NEW copies, NEW vis,
               ExecCreate(req, lost, s, copies, vis)
        PROVE  ActingInv'
    BY <2>2, <2>3, <2>5 DEF ExecCreate
  <2>6. ASSUME NEW lost \in BOOLEAN, ExecDeleteIp(req, lost) PROVE ActingInv'
    BY <2>1, <2>6 DEF ExecDeleteIp
  <2>7. ASSUME NEW lost \in BOOLEAN, NEW ids, NEW vis, ExecCreateIp(req, lost, ids, vis) PROVE ActingInv'
    BY <2>1, <2>7 DEF ExecCreateIp
  <2>8. CASE Drop(req) \/ ExecReject(req)
    BY <2>1, <2>8 DEF Drop, ExecReject
  <2> QED BY <1>1, <2>4, <2>5, <2>6, <2>7, <2>8 DEF Deliver
<1>2. ASSUME NEW a \in Attempts, SettleAction(a)
      PROVE  ActingInv'
  <2>1. PICK st \in {"succeeded", "failed"} : act' = [act EXCEPT ![a].st = st]
    BY <1>2 DEF SettleAction, ActionFails, ActionSucceeds
  <2>2. act[a].st = "running"
    BY <1>2 DEF SettleAction, ActionFails, ActionSucceeds
  <2> QED BY <1>0, <2>1, <2>2 DEF ActingInv, ActionRecord
<1>3. CASE CatchUp
  BY <1>3 DEF CatchUp, IpCatchesUp, ServersBecomeVisible, IpsBecomeVisible, ActingInv
<1>4. CASE Interfere
  BY <1>4 DEF Interfere, ExternalDeleteServer, ExternalDeleteIp, ExternalRelabel, ActingInv
<1> QED BY <1>1, <1>2, <1>3, <1>4 DEF ProviderNext

\* A create is executed and perhaps answered.
LEMMA AnsweringCreate ==
  ASSUME TypeInv, JournalInv, CustodyInv, UNCHANGED <<ops, att, row, alloc, w>>,
         NEW c \in CreateCommands, NEW req \in wire, req.cmd = c,
         NEW lost \in BOOLEAN, NEW kind \in Receipts, NEW res \in KindOf(c),
         c = "create_primary_ip" => kind = "completed", Answer(req, lost, kind, res)
  PROVE  /\ WorkInv' /\ ChannelInv' /\ TargetInv' /\ IpReceipts'
         /\ \A a \in Attempts : OnWire(a)' => OnWire(a)
         /\ ~OnWire(req.id)' /\ ~Refused(req.id)'
         /\ \A a \in Attempts : Refused(a)' => Refused(a)
         /\ \A a \in Attempts, r \in Resources \cup {NoRes} :
              Told(a, r)' => Told(a, r) \/ (a = req.id /\ r = res /\ ~lost)
         /\ \A r \in Resources \cup {NoRes} : ~Told(req.id, r)
<1>0. /\ req.id \in Attempts /\ req.id # 0
      /\ conn \in [id : Attempts \cup {0},
                   kind : {"none", "accepted", "completed", "rejected"},
                   res : Resources \cup {NoRes}]
  BY DEF TypeInv, TypeOK, ProviderTypeOK, Request, Attempts
<1>1. wire' = wire \ {req}
  BY DEF Answer
<1>2. conn' = conn \/ (~lost /\ conn.id = req.id /\ conn' = [conn EXCEPT !.kind = kind, !.res = res])
  BY DEF Answer
<1>3. att[req.id].op # 0 /\ Uncertain(req.id) /\ att[req.id].cmd = c
  BY DEF CustodyInv, ChannelInv
<1>4. conn.id = req.id => conn.kind = "none"
  BY DEF CustodyInv, ChannelInv, OnWire
<1>5. ~OnWire(req.id)' /\ \A a \in Attempts : OnWire(a)' => OnWire(a)
  BY <1>1 DEF OnWire, CustodyInv, ChannelInv
<1>6. conn'.id = conn.id /\ (conn' # conn => conn'.kind = kind /\ conn'.res = res /\ conn.id = req.id /\ ~lost)
  BY <1>0, <1>2
<1>7. /\ ~Refused(req.id)' /\ \A a \in Attempts : Refused(a)' => Refused(a)
      /\ \A a \in Attempts, r \in Resources \cup {NoRes} :
           Told(a, r)' => Told(a, r) \/ (a = req.id /\ r = res /\ ~lost)
      /\ \A r \in Resources \cup {NoRes} : ~Told(req.id, r)
  BY <1>3, <1>4, <1>6 DEF Refused, Told, Receipts, Uncertain
<1>8. WorkInv'
  BY <1>0, <1>6 DEF CustodyInv, WorkInv
<1>9. ChannelInv'
  <2>1. /\ \A p \in wire' : /\ att'[p.id].op # 0 /\ Uncertain(p.id)'
                            /\ att'[p.id].cmd = p.cmd /\ att'[p.id].tgt = p.tgt
        /\ \A p, q \in wire' : p.id = q.id => p = q
    BY <1>1 DEF CustodyInv, ChannelInv, Uncertain
  <2>2. conn.kind' # "none" => ~OnWire(conn.id)'
    BY <1>1, <1>5, <1>6 DEF CustodyInv, ChannelInv, OnWire
  <2> QED BY <2>1, <2>2 DEF ChannelInv, OnWire
<1>10. IpReceipts'
  BY <1>3, <1>6 DEF CustodyInv, IpReceipts, Creates
<1>11. TargetInv'
  <2>1. ASSUME NEW a \in Attempts, att[a].op # 0, att[a].cmd \notin CreateCommands,
               NEW r \in Resources \cup {NoRes}, Told(a, r)'
        PROVE  r = att[a].tgt
    BY <1>3, <1>7, <2>1 DEF CustodyInv, TargetInv
  <2> QED BY <2>1 DEF CustodyInv, TargetInv, Aimed
<1> QED BY <1>5, <1>7, <1>8, <1>9, <1>10, <1>11

\* A create has just been executed; it leaves the other kind alone.
LEMMA CreationKeeps ==
  ASSUME TypeInv, JournalInv, CustodyInv, UNCHANGED <<ops, att, row, alloc, w>>,
         NEW c \in CreateCommands, NEW req \in wire, req.cmd = c,
         NEW lost \in BOOLEAN, NEW kind \in Receipts, NEW res \in KindOf(c),
         c = "create_primary_ip" => kind = "completed", Answer(req, lost, kind, res),
         \A r \in Resources : r \notin KindOf(c) =>
           /\ St(r)' = St(r) /\ Seen(r)' = Seen(r) /\ Owned(r)' = Owned(r)
           /\ r \in Servers => WithIp(r)' = WithIp(r),
         ~lost => (\A q \in KindOf(c) : Made(q)' => q = res) /\ (res \in Servers => WithIp(res)'),
         \A r, q \in KindOf(c) : Live(r)' /\ Live(q)' => Seen(r)' = Seen(q)',
         AttachedInv', ActingInv'
  PROVE  CustodyInv' /\ Held \subseteq Held' /\ ~alloc.retired
<1>1. /\ WorkInv' /\ ChannelInv' /\ TargetInv' /\ IpReceipts'
      /\ \A a \in Attempts : OnWire(a)' => OnWire(a)
      /\ ~OnWire(req.id)' /\ ~Refused(req.id)'
      /\ \A a \in Attempts : Refused(a)' => Refused(a)
      /\ \A a \in Attempts, r \in Resources \cup {NoRes} :
           Told(a, r)' => Told(a, r) \/ (a = req.id /\ r = res /\ ~lost)
      /\ \A r \in Resources \cup {NoRes} : ~Told(req.id, r)
  BY AnsweringCreate
<1>2. OneActive' /\ SourceInv' /\ CompensationInv' /\ \A d \in CreateCommands : (Creates(d))' = Creates(d)
  BY DatabaseSame
<1>3. req.id \in Creates(c) /\ (\A a \in Creates(c) : a = req.id) /\ \A r \in KindOf(c) : ~Made(r)
  BY NothingYet, OneCreate
<1>4. OnWire(req.id) /\ att[req.id].resol = "pending"
  BY <1>3 DEF OnWire, CustodyInv, SettledInv
<1>5. MadeInv(c)'
  <2>1. \A a \in Creates(c), r \in Resources \cup {NoRes} : Told(a, r)' =>
          /\ r \in KindOf(c)
          /\ \A q \in KindOf(c) : Made(q)' => q = r
          /\ r \in Servers => WithIp(r)'
    BY <1>1, <1>3 DEF Creates
  <2>2. \A r \in KindOf(c) : Made(r)' => \E a \in Creates(c) : ~Refused(a)' /\ ~OnWire(a)'
    BY <1>1, <1>3
  <2> QED BY <1>2, <2>1, <2>2 DEF MadeInv
<1>6. SettledInv(c)'
  BY <1>2, <1>3, <1>4 DEF SettledInv
<1>7. ASSUME NEW d \in CreateCommands, d # c
      PROVE  MadeInv(d)' /\ SettledInv(d)'
  <2>1. \A r \in KindOf(d) : r \in Resources /\ r \notin KindOf(c)
    BY <1>7, TwoKinds
  <2>2. \A r \in KindOf(d) : /\ (Made(r)' <=> Made(r)) /\ (Live(r)' <=> Live(r))
                             /\ Seen(r)' = Seen(r) /\ Owned(r)' = Owned(r)
                             /\ r \in Servers => WithIp(r)' = WithIp(r)
    BY <2>1 DEF Made, St, Live
  <2>3. \A a \in Creates(d) : a \in Attempts /\ a # req.id
    BY <1>3, <1>7 DEF Creates
  <2>4. MadeInv(d)'
    <3>1. \A r \in KindOf(d) : Made(r)' => \E a \in Creates(d) : ~Refused(a)' /\ ~OnWire(a)'
      BY <1>1, <2>2, <2>3 DEF CustodyInv, MadeInv
    <3>2. \A a \in Creates(d), r \in Resources \cup {NoRes} : Told(a, r)' =>
            /\ r \in KindOf(d)
            /\ \A q \in KindOf(d) : Made(q)' => q = r
            /\ r \in Servers => WithIp(r)'
      BY <1>1, <2>2, <2>3 DEF CustodyInv, MadeInv
    <3>3. \A r, q \in KindOf(d) : Live(r)' /\ Live(q)' => Seen(r)' = Seen(q)'
      BY <2>2 DEF CustodyInv, MadeInv
    <3> QED BY <1>2, <3>1, <3>2, <3>3 DEF MadeInv
  <2>5. SettledInv(d)'
    <3>1. (Rows(KindOf(d)))' = Rows(KindOf(d)) BY DEF Rows
    <3> QED BY <1>1, <1>2, <2>2, <2>3, <3>1 DEF CustodyInv, SettledInv
  <2> QED BY <2>4, <2>5
<1>8. ~alloc.retired
  BY DEF CustodyInv, RetiredInv
<1>9. Held \subseteq Held'
  <2>1. \A r \in Resources : Live(r) => r \notin KindOf(c)
    BY <1>3 DEF Live, Made, St, TypeInv, TypeOK, ProviderTypeOK
  <2>2. \A r \in Resources : Live(r) /\ Traceable(r) => Live(r)' /\ Traceable(r)'
    BY <2>1 DEF Live, St, Traceable
  <2> QED BY <2>2 DEF Held
<1> QED BY <1>1, <1>2, <1>5, <1>6, <1>7, <1>8, <1>9 DEF CustodyInv, RetiredInv

LEMMA IpCreationKeeps ==
  ASSUME TypeInv, JournalInv, CustodyInv, UNCHANGED <<ops, att, row, alloc, w>>, ActingInv',
         NEW req \in wire, NEW lost \in BOOLEAN, NEW ids \in SUBSET Ips, NEW vis \in BOOLEAN,
         ExecCreateIp(req, lost, ids, vis)
  PROVE  CustodyInv' /\ Held \subseteq Held' /\ ~alloc.retired
<1> DEFINE c == "create_primary_ip"
<1>0. c \in CreateCommands /\ KindOf(c) = Ips
  BY TwoKinds
<1>1. PICK i \in ids : Answer(req, lost, "completed", i)
  BY DEF ExecCreateIp
<1>2. /\ req.cmd = c /\ UNCHANGED sv /\ \A j \in ids : ips[j].st = "none"
      /\ ~lost => vis /\ \E j \in Ips : ids = {j}
      /\ \A j \in Ips : ips'[j] = IF j \in ids
                                  THEN [st |-> "live", srv |-> NoRes, vis |-> vis, own |-> TRUE] ELSE ips[j]
  BY DEF ExecCreateIp
<1>3. \A r \in Resources : r \notin Ips =>
           /\ St(r)' = St(r) /\ Seen(r)' = Seen(r) /\ Owned(r)' = Owned(r)
           /\ r \in Servers => WithIp(r)' = WithIp(r)
  BY <1>2 DEF St, Seen, Owned, WithIp, Resources
<1>4. \A r \in Ips : ~Made(r)
  BY <1>0, <1>2, NothingYet
<1>5. \A r \in Ips : r \notin Servers
  BY ProviderAssumption
<1>6. \A r \in Ips : Made(r)' => r \in ids /\ Seen(r)' = vis
  BY <1>2, <1>4, <1>5 DEF Made, St, Seen
<1>7. \A r \in Ips : Live(r)' => Made(r)'
  BY <1>5 DEF Live, Made, St
<1>8. AttachedInv'
  BY <1>2 DEF CustodyInv, AttachedInv, WithIp
<1>9. ~lost => (\A q \in Ips : Made(q)' => q = i) /\ (i \in Servers => WithIp(i)')
  BY <1>1, <1>2, <1>5, <1>6
<1>10. \A r, q \in Ips : Live(r)' /\ Live(q)' => Seen(r)' = Seen(q)'
  BY <1>6, <1>7
<1>11. "completed" \in Receipts BY DEF Receipts
<1> HIDE DEF c
<1> QED BY <1>0, <1>1, <1>2, <1>3, <1>8, <1>9, <1>10, <1>11, CreationKeeps

LEMMA ServerCreationKeeps ==
  ASSUME TypeInv, JournalInv, CustodyInv, UNCHANGED <<ops, att, row, alloc, w>>, ActingInv',
         NEW req \in wire, NEW lost \in BOOLEAN, NEW s \in Servers, NEW copies \in SUBSET Servers,
         NEW vis \in BOOLEAN, ExecCreate(req, lost, s, copies, vis)
  PROVE  CustodyInv' /\ Held \subseteq Held' /\ ~alloc.retired
<1> DEFINE c == "create"
<1>0. /\ c \in CreateCommands /\ KindOf(c) = Servers
      /\ sv \in [Servers -> ServerRecord] /\ ips \in [Ips -> IpRecord]
  BY TwoKinds DEF TypeInv, TypeOK, ProviderTypeOK
<1>1. /\ req.cmd = c /\ Answer(req, lost, "accepted", s) /\ (~lost => copies = {}) /\ s \notin copies
      /\ req.tgt \in Ips /\ ips[req.tgt].st = "live" /\ ips[req.tgt].srv = NoRes
  BY DEF ExecCreate, Attachable
<1>2. /\ \A x \in Servers : x \in copies \cup {s} =>
           /\ sv'[x].st = "live" /\ sv'[x].vis = vis
           /\ sv'[x].ip = IF x = s THEN req.tgt ELSE NoRes
      /\ \A x \in Servers : x \notin copies \cup {s} => sv'[x] = sv[x]
  BY DEF ExecCreate
<1>3. \A j \in Ips : /\ ips'[j].st = ips[j].st /\ ips'[j].vis = ips[j].vis /\ ips'[j].own = ips[j].own
                     /\ ips'[j].srv = IF j = req.tgt THEN s ELSE ips[j].srv
  BY <1>0, <1>1 DEF ExecCreate, IpRecord
<1>4. \A x \in Servers : ~Made(x)
  BY <1>0, <1>1, NothingYet
<1>5. \A r \in Resources : r \notin Servers =>
           /\ St(r)' = St(r) /\ Seen(r)' = Seen(r) /\ Owned(r)' = Owned(r)
           /\ r \in Servers => WithIp(r)' = WithIp(r)
  BY <1>3 DEF St, Seen, Owned, Resources
<1>6. \A x \in Servers : Made(x)' => x \in copies \cup {s} /\ Seen(x)' = vis
  BY <1>2, <1>4 DEF Made, St, Seen
<1>7. \A x \in Servers : Live(x)' => Made(x)'
  BY DEF Live, Made, St
<1>8. row[req.tgt] # "none"
  <2>1. req.id \in Attempts /\ att[req.id].op # 0 /\ att[req.id].cmd = "create" /\ att[req.id].tgt = req.tgt
    BY <1>1 DEF CustodyInv, ChannelInv, TypeInv, TypeOK, ProviderTypeOK, Request
  <2> QED BY <2>1 DEF CustodyInv, TargetInv
<1>9. AttachedInv'
  <2> SUFFICES ASSUME NEW x \in Servers, sv'[x].st = "live", WithIp(x)'
               PROVE  /\ sv'[x].ip \in Ips
                      /\ ips'[sv'[x].ip].st = "live" /\ ips'[sv'[x].ip].srv = x
                      /\ row'[sv'[x].ip] # "none"
    BY DEF AttachedInv
  <2>1. x = s /\ sv'[x].ip = req.tgt
    BY <1>2, <1>4 DEF WithIp, Made, St
  <2> QED BY <1>1, <1>3, <1>8, <2>1
<1>10. WithIp(s)'
  BY <1>1, <1>2, ProviderAssumption DEF WithIp
<1>11. ~lost => (\A q \in Servers : Made(q)' => q = s) /\ (s \in Servers => WithIp(s)')
  BY <1>1, <1>6, <1>10
<1>12. \A r, q \in Servers : Live(r)' /\ Live(q)' => Seen(r)' = Seen(q)'
  BY <1>6, <1>7
<1>13. "accepted" \in Receipts /\ (c = "create_primary_ip" => "accepted" = "completed")
  BY DEF Receipts
<1> HIDE DEF c
<1> QED BY <1>0, <1>1, <1>5, <1>9, <1>11, <1>12, <1>13, CreationKeeps

\* What a step of the provider does to what it holds.
LEMMA EnvironmentCustody ==
  ASSUME TypeInv, JournalInv, LedgerInv, CustodyInv, EnvironmentStep
  PROVE  CustodyInv' /\ (Held' \subseteq Held \/ (Held \subseteq Held' /\ ~alloc.retired))
<1>0. UNCHANGED <<ops, att, row, alloc, w>> /\ ProviderNext
  BY DEF EnvironmentStep, DatabaseUnchanged
<1>1. ActingInv'
  BY <1>0, ActingKeeps DEF CustodyInv
<1>2. ASSUME NEW req \in wire, Deliver(req)
      PROVE  CustodyInv' /\ (Held' \subseteq Held \/ (Held \subseteq Held' /\ ~alloc.retired))
  <2>1. CASE \/ Drop(req) \/ ExecReject(req)
             \/ \E lost \in BOOLEAN : ExecDeleteIp(req, lost) \/ ExecServerAction(req, lost)
    BY <1>0, <1>1, <2>1, DeliverEnds, EndingKeeps
  <2>2. ASSUME NEW lost \in BOOLEAN, NEW ids \in SUBSET Ips, NEW vis \in BOOLEAN,
               ExecCreateIp(req, lost, ids, vis)
        PROVE  CustodyInv' /\ (Held' \subseteq Held \/ (Held \subseteq Held' /\ ~alloc.retired))
    BY <1>0, <1>1, <2>2, IpCreationKeeps
  <2>3. ASSUME NEW lost \in BOOLEAN, NEW s \in Servers, NEW copies \in SUBSET Servers,
               NEW vis \in BOOLEAN, ExecCreate(req, lost, s, copies, vis)
        PROVE  CustodyInv' /\ (Held' \subseteq Held \/ (Held \subseteq Held' /\ ~alloc.retired))
    BY <1>0, <1>1, <2>3, ServerCreationKeeps
  <2> QED BY <1>2, <2>1, <2>2, <2>3 DEF Deliver
<1>3. CASE (\E a \in Attempts : SettleAction(a)) \/ CatchUp \/ Interfere
  <2>1. UNCHANGED <<wire, conn>> /\ Ending /\ SeenAlike' /\ AttachedInv'
    BY <1>0, <1>3, ActionEnds, CatchUpEnds, InterfereEnds
  <2>2. Answering /\ wire' \subseteq wire
    BY <2>1 DEF Answering
  <2> QED BY <1>0, <1>1, <2>1, <2>2, EndingKeeps
<1> QED BY <1>0, <1>2, <1>3 DEF ProviderNext

-----------------------------------------------------------------------------
(* Steps of the control plane: what they leave alone                        *)

\* Attempts keep what they stand for and what was answered; a judged one stays.
AttemptsSteady ==
  \A a \in Attempts :
    /\ att'[a].op = att[a].op /\ att'[a].cmd = att[a].cmd /\ att'[a].tgt = att[a].tgt
    /\ att[a].resol # "pending" => att'[a].resol = att[a].resol /\ att'[a].res = att[a].res
    /\ att[a].outcome = "rejected" => att'[a].outcome = "rejected"
    /\ Refused(a)' => Refused(a)
    /\ \A r \in Resources \cup {NoRes} : Told(a, r)' => Told(a, r)
    /\ OnWire(a) => Uncertain(a)'
    /\ att'[a].outcome = "accepted" =>
         att[a].outcome = "accepted" \/ (conn.id = a /\ conn.kind = "accepted")

\* A newly judged create is judged rightly; rows of a judged kind stay.
SettledStep(c) ==
  \A a \in Creates(c) :
    /\ att[a].resol # "pending" => (Rows(KindOf(c)))' = Rows(KindOf(c))
    /\ att[a].resol = "pending" /\ att'[a].resol # "pending" =>
         /\ ~OnWire(a)
         /\ \A r \in KindOf(c) : Live(r) /\ Owned(r) => row'[r] # "none" \/ (r \in Servers /\ WithIp(r))
         /\ att'[a].resol = "confirmed" =>
              /\ (Rows(KindOf(c)))' = {att'[a].res}
              /\ \A r \in KindOf(c) : Live(r) /\ Owned(r) => row'[r] # "none"

\* Operations end, block, are taken over or compensated; none succeeds.
OpsSteady ==
  /\ \A k \in Ops :
       /\ ops'[k].kind = ops[k].kind
       /\ Active(k)' => Active(k)
       /\ \/ ops'[k].intent = ops[k].intent
          \/ ops'[k].intent = "cleanup"
          \/ ops'[k].intent = "compensate" /\ k = Source /\ ops[k].intent = "run" /\ ~PossibleVm(k)
  /\ ops'[Source].prog = "succeeded" => ops[Source].prog = "succeeded"

\* Absence and an operator's word judge a create only when it is cleaned up.
JudgedInTurn ==
  \A a \in Attempts :
    att[a].op # 0 /\ att[a].cmd \in CreateCommands /\ att[a].resol = "pending" =>
      att'[a].resol \in {"pending", "confirmed", "failed"} \/ ops'[Source].intent = "cleanup"

ServerInOrder ==
  w'.pc = "journal" /\ w'.cmd = "create" => Creates("create_primary_ip") # {}

LEMMA SteadyCreates ==
  ASSUME AttemptsSteady
  PROVE  \A c \in CreateCommands : (Creates(c))' = Creates(c)
BY DEF AttemptsSteady, Creates

LEMMA OpsKeep ==
  ASSUME CustodyInv, AttemptsSteady, OpsSteady, JudgedInTurn, ServerInOrder
  PROVE  OneActive' /\ SourceInv' /\ CompensationInv'
<1>0. Source \in Ops
  BY JournalAssumption DEF Source, Ops
<1>1. OneActive'
  BY DEF CustodyInv, OneActive, OpsSteady
<1>2. \A c \in CreateCommands : (Creates(c))' = Creates(c)
  BY SteadyCreates
<1>3. SourceInv'
  <2>1. ASSUME ops'[Source].intent # "cleanup", NEW a \in Attempts, att'[a].op # 0, att'[a].cmd \in CreateCommands
        PROVE  att'[a].resol \in {"pending", "confirmed", "failed"}
    <3>1. ops[Source].intent # "cleanup"
      BY <1>0, <2>1 DEF OpsSteady
    <3>2. att[a].op # 0 /\ att[a].cmd \in CreateCommands
      BY <2>1 DEF AttemptsSteady
    <3> QED BY <2>1, <3>1, <3>2 DEF CustodyInv, SourceInv, JudgedInTurn, AttemptsSteady
  <2>2. (Creates("create"))' # {} \/ (w'.pc = "journal" /\ w'.cmd = "create") =>
          (Creates("create_primary_ip"))' # {}
    BY <1>2, TwoKinds DEF CustodyInv, SourceInv, ServerInOrder
  <2>3. ops'[Source].prog = "succeeded" =>
          \A c \in CreateCommands : \E a \in (Creates(c))' : att'[a].resol = "confirmed"
    <3>1. \A c \in CreateCommands : \A a \in Creates(c) : a \in Attempts
      BY DEF Creates
    <3> QED BY <1>2, <3>1 DEF CustodyInv, SourceInv, OpsSteady, AttemptsSteady
  <2> QED BY <2>1, <2>2, <2>3 DEF SourceInv
<1>4. CompensationInv'
  <2>1. \A k \in Ops : PossibleVm(k)' => PossibleVm(k)
    BY DEF PossibleVm, EffectOf, Of, AttemptsSteady
  <2> QED BY <1>0, <2>1 DEF CustodyInv, CompensationInv, OpsSteady
<1> QED BY <1>1, <1>3, <1>4

\* The channel is closed and what the provider holds stays.
LEMMA QuietKeeps ==
  ASSUME TypeInv, JournalInv, CustodyInv, UNCHANGED <<sv, ips, act, wire>>,
         conn'.id = 0, conn'.kind = "none", AttemptsSteady, RowsKept,
         \A c \in CreateCommands : SettledStep(c),
         alloc'.server # NoRes => row'[alloc'.server] # "none",
         \A a \in Attempts : att[a].op # 0 /\ att[a].resol = "pending" /\ att'[a].resol = "confirmed" =>
           att'[a].res \in Resources /\ row'[att'[a].res] # "none",
         WorkInv', Aimed', alloc.server \in Resources \cup {NoRes}
  PROVE  /\ ChannelInv' /\ TargetInv' /\ IpReceipts' /\ AttachedInv' /\ ActingInv'
         /\ \A c \in CreateCommands : MadeInv(c)' /\ SettledInv(c)'
<1>0. \A c \in CreateCommands : /\ (Creates(c))' = Creates(c) /\ KindOf(c) \subseteq Resources
                                /\ \A a \in Creates(c) : a \in Attempts /\ att[a].op # 0
  BY SteadyCreates, TwoKinds DEF Creates
<1>1. ChannelInv'
  <2>1. \A req \in wire : req.id \in Attempts /\ OnWire(req.id)
    BY DEF OnWire, TypeInv, TypeOK, ProviderTypeOK, Request
  <2> QED BY <2>1 DEF CustodyInv, ChannelInv, AttemptsSteady
<1>2. TargetInv'
  <2>1. ASSUME NEW a \in Attempts, att'[a].op # 0
        PROVE  /\ att'[a].cmd # "create_primary_ip" => att'[a].tgt \in Resources /\ row'[att'[a].tgt] # "none"
               /\ att'[a].cmd = "create" => att'[a].tgt \in Ips
               /\ att'[a].cmd \notin CreateCommands =>
                    \A r \in Resources \cup {NoRes} : Told(a, r)' => r = att'[a].tgt
               /\ att'[a].resol = "confirmed" => att'[a].res \in Resources /\ row'[att'[a].res] # "none"
    BY <2>1 DEF CustodyInv, TargetInv, AttemptsSteady, RowsKept
  <2> QED BY <2>1 DEF TargetInv
<1>3. IpReceipts'
  BY <1>0, TwoKinds DEF CustodyInv, IpReceipts, AttemptsSteady, Creates, Attempts
<1>4. AttachedInv' /\ ActingInv'
  BY DEF CustodyInv, AttachedInv, ActingInv, WithIp, RowsKept, Resources
<1>5. ASSUME NEW c \in CreateCommands
      PROVE  MadeInv(c)'
  <2>1. \A r : Made(r)' = Made(r) /\ Live(r)' = Live(r) /\ Seen(r)' = Seen(r) /\ WithIp(r)' = WithIp(r)
    BY DEF Made, St, Live, Seen, WithIp
  <2>2. \A a : OnWire(a)' = OnWire(a)
    BY DEF OnWire
  <2> QED BY <1>0, <2>1, <2>2 DEF CustodyInv, MadeInv, AttemptsSteady
<1>6. ASSUME NEW c \in CreateCommands
      PROVE  SettledInv(c)'
  <2>1. \A r : Live(r)' = Live(r) /\ Owned(r)' = Owned(r) /\ WithIp(r)' = WithIp(r)
    BY DEF Live, Owned, WithIp
  <2>2. \A a : OnWire(a)' = OnWire(a)
    BY DEF OnWire
  <2> SUFFICES ASSUME NEW a \in Creates(c), att'[a].resol # "pending"
               PROVE  /\ ~OnWire(a)
                      /\ \A r \in KindOf(c) : Live(r) /\ Owned(r) =>
                           row'[r] # "none" \/ (r \in Servers /\ WithIp(r))
                      /\ att'[a].resol = "confirmed" =>
                           /\ (Rows(KindOf(c)))' = {att'[a].res}
                           /\ \A r \in KindOf(c) : Live(r) /\ Owned(r) => row'[r] # "none"
    BY <1>0, <2>1, <2>2 DEF SettledInv
  <2>3. CASE att[a].resol = "pending"
    BY <2>3 DEF SettledStep
  <2>4. CASE att[a].resol # "pending"
    <3>1. att'[a].resol = att[a].resol /\ att'[a].res = att[a].res /\ (Rows(KindOf(c)))' = Rows(KindOf(c))
      BY <1>0, <2>4 DEF AttemptsSteady, SettledStep
    <3> QED BY <1>0, <2>4, <3>1 DEF CustodyInv, SettledInv, RowsKept
  <2> QED BY <2>3, <2>4
<1> QED BY <1>1, <1>2, <1>3, <1>4, <1>5, <1>6

-----------------------------------------------------------------------------
(* The reservation                                                          *)

\* Every create is judged and everything in the ledger is gone.
AllGone == PendingOf(Source) = {} /\ \A r \in Resources : row[r] = "live" => Gone(r)

\* Then the provider holds nothing, and nothing is on its way.
LEMMA NothingHeld ==
  ASSUME TypeInv, JournalInv, LedgerInv, CustodyInv, AllGone
  PROVE  Held = {} /\ \A req \in wire : req.cmd \notin CreateCommands
<1>1. ASSUME NEW c \in CreateCommands, NEW a \in Creates(c) PROVE att[a].resol # "pending" /\ ~OnWire(a)
  <2>1. att[a].op = Source /\ a \in Attempts
    BY <1>1 DEF JournalInv, CreateWork, Creates
  <2>2. att[a].resol # "pending"
    BY <2>1 DEF AllGone, PendingOf, Of
  <2> QED BY <2>2 DEF CustodyInv, SettledInv
<1>2. ASSUME NEW req \in wire, req.cmd \in CreateCommands PROVE FALSE
  BY <1>1, <1>2, NothingYet DEF OnWire
<1>3. ASSUME NEW r \in Resources, Live(r), row[r] # "none" PROVE FALSE
  <2>1. row[r] \in {"live", "absent"}
    BY <1>3 DEF TypeInv, TypeOK, JournalTypeOK
  <2>2. Gone(r)
    BY <2>1 DEF AllGone, LedgerInv, AbsentIsGone, Gone
  <2> QED BY <1>3, <2>2 DEF Gone, Live
<1>4. ASSUME NEW r \in Resources, Live(r), Traceable(r) PROVE FALSE
  <2>1. row[r] = "none" /\ Owned(r)
    BY <1>3, <1>4 DEF Traceable
  <2>2. PICK c \in CreateCommands : r \in KindOf(c)
    BY TwoKinds DEF Resources
  <2>3. PICK a \in Creates(c) : TRUE
    BY <1>4, <2>2 DEF CustodyInv, MadeInv, Made, St, Live
  <2>4. r \in Servers /\ WithIp(r)
    BY <1>1, <1>4, <2>1, <2>2, <2>3 DEF CustodyInv, SettledInv
  <2>5. sv[r].ip \in Ips /\ ips[sv[r].ip].st = "live" /\ row[sv[r].ip] # "none"
    BY <1>4, <2>4 DEF Live, CustodyInv, AttachedInv
  <2>6. sv[r].ip \in Resources /\ Live(sv[r].ip)
    BY <2>5, ProviderAssumption DEF Resources, Live
  <2> QED BY <1>3, <2>5, <2>6
<1> QED BY <1>2, <1>4 DEF Held

\* A step of the control plane may trace more; the reservation is released
\* once, and only when nothing is held.
Custodial ==
  /\ CustodyInv'
  /\ Held \subseteq Held'
  /\ alloc.retired => alloc'.retired
  /\ alloc'.retired => Held' \subseteq Held

LEMMA HeldGrows ==
  ASSUME UNCHANGED <<sv, ips>>, RowsKept
  PROVE  Held \subseteq Held'
BY DEF Held, Live, Traceable, Owned, RowsKept

LEMMA HeldSame ==
  ASSUME UNCHANGED <<sv, ips>>, \A r \in Resources : row'[r] = "none" <=> row[r] = "none"
  PROVE  Held' = Held
<1>1. \A r \in Resources : (Live(r)' <=> Live(r)) /\ (Traceable(r)' <=> Traceable(r))
  BY DEF Live, Traceable, Owned
<1> QED BY <1>1 DEF Held

LEMMA PlainSteady ==
  ASSUME CustodyInv, UNCHANGED <<wire, conn, att>>
  PROVE  AttemptsSteady /\ JudgedInTurn
<1>1. \A a \in Attempts : OnWire(a) => Uncertain(a)
  BY DEF OnWire, CustodyInv, ChannelInv
<1> QED BY <1>1 DEF AttemptsSteady, Refused, Told, Uncertain, JudgedInTurn

\* A step that adds nothing to the ledger and judges nothing.
LEMMA PlainKeeps ==
  ASSUME TypeInv, JournalInv, LedgerInv, CustodyInv, RowsKept,
         UNCHANGED <<sv, ips, act, wire, conn, att>>, w.pc # "sent",
         \A r \in Resources : row'[r] # "none" => row[r] # "none",
         alloc'.server = alloc.server \/ row'[alloc'.server] # "none",
         w'.pc \in {"idle", "cleanup", "journal"}, Aimed',
         OneActive', SourceInv', CompensationInv',
         alloc.retired => alloc'.retired, alloc'.retired => alloc.retired \/ AllGone
  PROVE  Custodial
<1>0. conn.id = 0 /\ conn.kind = "none" /\ alloc.server \in Resources \cup {NoRes}
  BY DEF CustodyInv, WorkInv, TypeInv, TypeOK, JournalTypeOK, Resources
<1>1. \A r \in Resources : row'[r] = "none" <=> row[r] = "none"
  BY DEF RowsKept
<1>2. AttemptsSteady
  BY PlainSteady
<1>3. \A c \in CreateCommands : (Rows(KindOf(c)))' = Rows(KindOf(c))
  BY <1>1, TwoKinds DEF Rows
<1>4. \A c \in CreateCommands : SettledStep(c)
  BY <1>3 DEF SettledStep
<1>5. WorkInv'
  BY <1>0 DEF WorkInv
<1>6. alloc'.server # NoRes => row'[alloc'.server] # "none"
  BY <1>0, <1>1 DEF CustodyInv, TargetInv
<1>7. /\ ChannelInv' /\ TargetInv' /\ IpReceipts' /\ AttachedInv' /\ ActingInv'
      /\ \A c \in CreateCommands : MadeInv(c)' /\ SettledInv(c)'
  BY <1>0, <1>2, <1>4, <1>5, <1>6, QuietKeeps
<1>8. Held' = Held
  BY <1>1, HeldSame
<1>9. RetiredInv'
  <2>1. alloc'.retired => Held = {} /\ \A req \in wire : req.cmd \notin CreateCommands
    BY NothingHeld DEF CustodyInv, RetiredInv
  <2> QED BY <1>8, <2>1 DEF RetiredInv
<1> QED BY <1>5, <1>7, <1>8, <1>9 DEF CustodyInv, Custodial

\* The worker decides nothing.
LEMMA RestKeeps ==
  ASSUME TypeInv, JournalInv, LedgerInv, CustodyInv, RowsKept,
         UNCHANGED <<sv, ips, act, wire, conn, att>>, w.pc # "sent",
         \A r \in Resources : row'[r] # "none" => row[r] # "none",
         alloc'.server = alloc.server, w'.pc \in {"idle", "cleanup"}, OpsSteady,
         alloc.retired => alloc'.retired, alloc'.retired => alloc.retired \/ AllGone
  PROVE  Custodial
<1>1. Aimed' /\ ServerInOrder
  BY DEF Aimed, ServerInOrder
<1> QED BY <1>1, PlainSteady, OpsKeep, PlainKeeps

LEMMA SameOpsSteady == ASSUME ops' = ops PROVE OpsSteady
BY DEF OpsSteady, Active

LEMMA ProgressSteady ==
  ASSUME TypeInv, NEW k \in Ops, NEW p \in {"active", "blocked"}, Active(k), SetProgress(k, p)
  PROVE  OpsSteady
<1>1. ops \in [Ops -> OpRecord]
  BY DEF TypeInv, TypeOK, JournalTypeOK
<1>2. \A j \in Ops : /\ ops'[j].kind = ops[j].kind /\ ops'[j].intent = ops[j].intent
                     /\ ops'[j].prog = IF j = k THEN p ELSE ops[j].prog
  BY <1>1 DEF SetProgress, OpRecord
<1>3. Source \in Ops
  BY JournalAssumption DEF Source, Ops
<1> QED BY <1>2, <1>3 DEF OpsSteady, Active

\* The worker decides on a resource of the ledger.
LEMMA DecideKeeps ==
  ASSUME TypeInv, JournalInv, LedgerInv, CustodyInv, UNCHANGED <<ops, att, row, alloc>>, ProviderUnchanged,
         w.pc \in {"idle", "cleanup"}, NEW k, NEW cmd, NEW tgt, Decide(k, cmd, tgt),
         cmd # "create_primary_ip" => tgt \in Resources /\ row[tgt] # "none",
         cmd = "create" => tgt \in Ips /\ Creates("create_primary_ip") # {}
  PROVE  Custodial
<1>1. w'.pc = "journal" /\ w'.cmd = cmd /\ w'.tgt = tgt
  BY DEF Decide, Idle
<1>2. Aimed' /\ ServerInOrder
  BY <1>1 DEF Aimed, ServerInOrder
<1>3. UNCHANGED <<sv, ips, act, wire, conn>>
  BY DEF ProviderUnchanged, providerVars
<1> QED BY <1>1, <1>2, <1>3, SameRows, SameOpsSteady, PlainSteady, OpsKeep, PlainKeeps

\* A failure keeps the reservation while something can be left.
LEMMA FailureSteady ==
  ASSUME TypeInv, JournalInv, NEW k \in Ops, Active(k), ops[k].intent = "run", PendingOf(k) = {},
         NEW rows, \A r \in Resources : row[r] = "live" => rows[r] = "live" \/ Gone(r),
         BeginFailure(k, rows)
  PROVE  /\ OpsSteady /\ alloc'.server = alloc.server
         /\ alloc.retired => alloc'.retired
         /\ alloc'.retired => alloc.retired \/ AllGone
<1>0. ops \in [Ops -> OpRecord] /\ Source \in Ops /\ (ops[k].kind = "create" => k = Source)
      /\ alloc \in [retired : BOOLEAN, server : Servers \cup {NoRes}, reserved : Types, offer : Types]
  BY JournalAssumption DEF TypeInv, TypeOK, JournalTypeOK, Source, Ops, JournalInv, CreateWork
<1> DEFINE live == {r \in Resources : rows[r] = "live"}
<1>1. CASE ops[k].kind = "create" /\ ~PossibleVm(k) /\ live # {}
  <2>1. ops' = [ops EXCEPT ![k].intent = "compensate", ![k].prog = "active"] /\ alloc' = alloc
    BY <1>1 DEF BeginFailure
  <2>2. \A j \in Ops : /\ ops'[j].kind = ops[j].kind
                       /\ ops'[j].intent = IF j = k THEN "compensate" ELSE ops[j].intent
                       /\ ops'[j].prog = IF j = k THEN "active" ELSE ops[j].prog
    BY <1>0, <2>1 DEF OpRecord
  <2> QED BY <1>0, <1>1, <2>1, <2>2 DEF OpsSteady, Active
<1>2. CASE ~(ops[k].kind = "create" /\ ~PossibleVm(k) /\ live # {})
  <2>1. /\ ops' = [ops EXCEPT ![k].prog = "failed"]
        /\ alloc' = [alloc EXCEPT !.retired = @ \/ (ops[k].kind = "create" /\ ~PossibleVm(k) /\ live = {})]
    BY <1>2 DEF BeginFailure
  <2>2. \A j \in Ops : /\ ops'[j].kind = ops[j].kind /\ ops'[j].intent = ops[j].intent
                       /\ ops'[j].prog = IF j = k THEN "failed" ELSE ops[j].prog
    BY <1>0, <2>1 DEF OpRecord
  <2>3. OpsSteady
    BY <1>0, <2>2 DEF OpsSteady, Active, Terminal
  <2>4. alloc'.retired => alloc.retired \/ (k = Source /\ live = {})
    BY <1>0, <2>1
  <2> QED BY <1>0, <2>1, <2>3, <2>4 DEF AllGone
<1> QED BY <1>1, <1>2

LEMMA FailWithKeeps ==
  ASSUME TypeInv, JournalInv, LedgerInv, CustodyInv, w.pc # "sent",
         NEW k \in Ops, Active(k), ops[k].intent = "run", PendingOf(k) = {}, FailWith(k)
  PROVE  Custodial
<1>1. UNCHANGED <<sv, ips, act, wire, conn, att, row>> /\ w'.pc = "idle" /\ BeginFailure(k, row)
  BY IdleType DEF FailWith, ProviderUnchanged, providerVars
<1> QED BY <1>1, SameRows, FailureSteady, RestKeeps

LEMMA BlockKeeps ==
  ASSUME TypeInv, JournalInv, LedgerInv, CustodyInv, w.pc # "sent", NEW k \in Ops, Active(k), Block(k)
  PROVE  Custodial
<1>1. UNCHANGED <<sv, ips, act, wire, conn, att, row, alloc>> /\ w'.pc = "idle"
  BY IdleType DEF Block, ProviderUnchanged, providerVars
<1>2. OpsSteady
  BY ProgressSteady DEF Block
<1> QED BY <1>1, <1>2, SameRows, RestKeeps

\* A create succeeds with both its effects confirmed.
LEMMA CompleteKeeps ==
  ASSUME TypeInv, JournalInv, LedgerInv, CustodyInv, NEW k \in Ops,
         NEW s, NEW power, Verified(k, s), Complete(k, s, power)
  PROVE  Custodial
<1>0. /\ ops \in [Ops -> OpRecord] /\ Source \in Ops /\ (ops[k].kind = "create" <=> k = Source) /\ 0 \notin Ops
      /\ alloc \in [retired : BOOLEAN, server : Servers \cup {NoRes}, reserved : Types, offer : Types]
  BY JournalAssumption DEF TypeInv, TypeOK, JournalTypeOK, Source, Ops, JournalInv, CreateWork
<1>1. /\ w.pc = "idle" /\ Active(k) /\ ops[k].intent = "run" /\ PendingOf(k) = {} /\ ~AnyFailed(k)
      /\ s \in Servers /\ ~alloc.retired
  BY DEF Verified, ReadyToRun, Tick
<1>2. PICK a \in Attempts : /\ att[a].op = k /\ att[a].cmd = ops[k].kind
                            /\ att[a].resol = "confirmed" /\ att[a].res = s
  BY DEF Verified, ConfirmedServer, EffectOf, Of
<1>3. row[s] # "none"
  BY <1>0, <1>2 DEF CustodyInv, TargetInv
<1>4. UNCHANGED <<sv, ips, act, wire, conn, att, row>> /\ w'.pc = "idle"
  BY IdleType DEF Complete, ProviderUnchanged, providerVars
<1>5. alloc'.server = s /\ alloc'.retired = alloc.retired
  BY <1>0 DEF Complete
<1>6. \A j \in Ops : /\ ops'[j].kind = ops[j].kind /\ ops'[j].intent = ops[j].intent
                     /\ ops'[j].prog = IF j = k THEN "succeeded" ELSE ops[j].prog
  BY <1>0 DEF Complete, OpRecord
<1>7. OneActive'
  BY <1>1, <1>6 DEF CustodyInv, OneActive, Active, Terminal
<1>8. CompensationInv'
  BY <1>4, <1>6 DEF CustodyInv, CompensationInv, PossibleVm, EffectOf, Of
<1>9. \A c \in CreateCommands : (Creates(c))' = Creates(c)
  BY <1>4 DEF Creates
<1>10. k = Source => \A c \in CreateCommands : \E b \in Creates(c) : att[b].resol = "confirmed"
  <2> SUFFICES ASSUME k = Source PROVE \A c \in CreateCommands : \E b \in Creates(c) : att[b].resol = "confirmed"
    OBVIOUS
  <2>1. a \in Creates("create")
    BY <1>0, <1>2 DEF Creates
  <2>2. PICK b \in Creates("create_primary_ip") : TRUE
    BY <2>1 DEF CustodyInv, SourceInv
  <2>3. b \in Attempts /\ att[b].op = Source /\ att[b].op # 0 /\ att[b].cmd \in CreateCommands
    BY TwoKinds DEF Creates, JournalInv, CreateWork
  <2>4. att[b].resol = "confirmed"
    BY <1>1, <2>3 DEF CustodyInv, SourceInv, PendingOf, Of, AnyFailed
  <2> QED BY <1>2, <2>1, <2>2, <2>4, TwoKinds
<1>11. SourceInv'
  BY <1>0, <1>4, <1>6, <1>9, <1>10, TwoKinds DEF CustodyInv, SourceInv
<1>12. Aimed'
  BY <1>4 DEF Aimed
<1> QED BY <1>1, <1>3, <1>4, <1>5, <1>7, <1>8, <1>11, <1>12, SameRows, PlainKeeps

\* The ticks of an operation that judge nothing.
LEMMA RunKeeps ==
  ASSUME TypeInv, JournalInv, LedgerInv, CustodyInv, NEW k \in Ops,
         AdvanceRun(k), ~ResolvePending(k)
  PROVE  Custodial
<1> USE DEF ProviderUnchanged, providerVars
<1>0. /\ row \in [Resources -> {"none", "live", "absent"}]
      /\ w.pc = "idle" /\ Active(k) /\ ~alloc.retired
      /\ w' = w \/ w' = Idle => w'.pc = "idle"
  <2>1. Tick(k)
    BY DEF AdvanceRun, HandleFailedEffect, CompensateAbsent, CompensateMismatch, CompensateDelete,
       CompensateDone, Compensating, SubmitIp, CreateStep, NoConfirmedIp, BeforeServer, IpDisappeared,
       IpMismatch, SubmitServer, BackupsMismatch, EnableBackups, CompleteVerified, Completing,
       GuestBlocked, GuestReady, Verified, NoLiveServer, ActionStep, ActionMismatch, SubmitAction,
       ReadyToRun
  <2> QED BY <2>1, IdleType DEF Tick, TypeInv, TypeOK, JournalTypeOK
<1>1. CASE HandleFailedEffect(k) \/ NoConfirmedIp(k) \/ NoLiveServer(k)
  <2>1. FailWith(k) /\ ops[k].intent = "run" /\ PendingOf(k) = {}
    BY <1>1 DEF HandleFailedEffect, NoConfirmedIp, BeforeServer, CreateStep, NoLiveServer, ActionStep, ReadyToRun
  <2> QED BY <1>0, <2>1, FailWithKeeps
<1>2. CASE \/ CompensateMismatch(k) \/ IpMismatch(k) \/ BackupsMismatch(k) \/ GuestBlocked(k)
           \/ ActionMismatch(k)
  <2>1. Block(k)
    BY <1>2 DEF CompensateMismatch, IpMismatch, BackupsMismatch, GuestBlocked, ActionMismatch
  <2> QED BY <1>0, <2>1, BlockKeeps
<1>3. CASE CompensateAbsent(k)
  <2>1. PICK i \in Ips : row[i] = "live" /\ row' = [row EXCEPT ![i] = "absent"]
    BY <1>3 DEF CompensateAbsent, LiveRows
  <2>2. i \in Resources BY DEF Resources
  <2>3. RowsKept /\ \A r \in Resources : row'[r] # "none" => row[r] # "none"
    BY <1>0, <2>1, <2>2, AbsenceKeeps
  <2>4. UNCHANGED <<sv, ips, act, wire, conn, att, ops, alloc, w>>
    BY <1>3 DEF CompensateAbsent
  <2> QED BY <1>0, <2>3, <2>4, SameOpsSteady, RestKeeps
<1>4. CASE CompensateDone(k)
  <2>1. /\ ops[k].intent = "compensate" /\ PendingOf(k) = {} /\ LiveRows(Ips) = {}
        /\ ops' = [ops EXCEPT ![k].prog = "failed"] /\ alloc' = [alloc EXCEPT !.retired = TRUE]
        /\ UNCHANGED <<sv, ips, act, wire, conn, att, row, w>>
    BY <1>4 DEF CompensateDone, Compensating
  <2>2. k = Source /\ ~PossibleVm(Source)
    BY <2>1 DEF CustodyInv, CompensationInv
  <2>3. ASSUME NEW s \in Servers, row[s] # "none" PROVE FALSE
    <3>1. Made(s)
      BY <2>3 DEF LedgerInv, KnownIds, Known, Made, St, Resources
    <3>2. PICK a \in Creates("create") : ~Refused(a)
      BY <3>1, TwoKinds DEF CustodyInv, MadeInv
    <3>3. a \in EffectOf(Source, "create") /\ att[a].outcome # "rejected"
      BY <3>2, TwoKinds DEF Creates, EffectOf, Of, JournalInv, CreateWork, Refused
    <3> QED BY <2>2, <3>3 DEF PossibleVm
  <2>4. AllGone
    BY <2>1, <2>2, <2>3 DEF AllGone, LiveRows, Resources
  <2>5. ops \in [Ops -> OpRecord] /\ Source \in Ops
        /\ alloc \in [retired : BOOLEAN, server : Servers \cup {NoRes}, reserved : Types, offer : Types]
    BY JournalAssumption DEF TypeInv, TypeOK, JournalTypeOK, Source, Ops
  <2>6. OpsSteady
    <3>1. \A j \in Ops : /\ ops'[j].kind = ops[j].kind /\ ops'[j].intent = ops[j].intent
                         /\ ops'[j].prog = IF j = k THEN "failed" ELSE ops[j].prog
      BY <2>1, <2>5 DEF OpRecord
    <3> QED BY <2>5, <3>1 DEF OpsSteady, Active, Terminal
  <2>7. alloc'.server = alloc.server /\ alloc'.retired
    BY <2>1, <2>5
  <2> QED BY <1>0, <2>1, <2>4, <2>6, <2>7, SameRows, RestKeeps
<1>5. CASE CompensateDelete(k) \/ EnableBackups(k) \/ SubmitAction(k)
  <2>1. PICK r \in Resources, cmd \in Commands \ CreateCommands : Decide(k, cmd, r) /\ row[r] # "none"
    <3>1. ASSUME CompensateDelete(k) PROVE \E r \in Resources, cmd \in Commands \ CreateCommands :
                                             Decide(k, cmd, r) /\ row[r] # "none"
      BY <3>1 DEF CompensateDelete, LiveRows, Resources, Commands, IpCommands, CreateCommands
    <3>2. ASSUME EnableBackups(k) PROVE \E r \in Resources, cmd \in Commands \ CreateCommands :
                                             Decide(k, cmd, r) /\ row[r] # "none"
      BY <3>2 DEF EnableBackups, Resources, Commands, CreateCommands
    <3>3. ASSUME SubmitAction(k) PROVE \E r \in Resources, cmd \in Commands \ CreateCommands :
                                             Decide(k, cmd, r) /\ row[r] # "none"
      <4>1. alloc.server \in Servers
        BY <3>3 DEF SubmitAction, TypeInv, TypeOK, JournalTypeOK
      <4>2. ops[k].kind \in Commands \ CreateCommands
        BY <3>3 DEF SubmitAction, ActionStep, Commands, CreateCommands, PowerCommands
      <4> QED BY <3>3, <4>1, <4>2 DEF SubmitAction, Resources
    <3> QED BY <1>5, <3>1, <3>2, <3>3
  <2>2. UNCHANGED <<ops, att, row, alloc>> /\ ProviderUnchanged
    BY <1>5 DEF CompensateDelete, EnableBackups, SubmitAction
  <2>3. cmd # "create"
    BY DEF CreateCommands
  <2> QED BY <1>0, <2>1, <2>2, <2>3, DecideKeeps
<1>6. CASE SubmitIp(k)
  BY <1>0, <1>6, DecideKeeps DEF SubmitIp
<1>7. CASE SubmitServer(k)
  <2>1. PICK i \in Ips : row[i] = "live" /\ Decide(k, "create", i)
    BY <1>7 DEF SubmitServer, LiveRows
  <2>2. EffectOf(k, "create_primary_ip") # {} /\ k # 0
    BY <1>7 DEF SubmitServer, BeforeServer, Ops
  <2>3. Creates("create_primary_ip") # {}
    BY <2>2 DEF EffectOf, Of, Creates
  <2>4. UNCHANGED <<ops, att, row, alloc>> /\ ProviderUnchanged
    BY <1>7 DEF SubmitServer
  <2> QED BY <1>0, <2>1, <2>3, <2>4, DecideKeeps DEF Resources
<1>8. CASE IpDisappeared(k)
  <2>1. PICK i \in Ips :
          /\ row[i] = "live" /\ ~Visible(i) /\ row' = [row EXCEPT ![i] = "absent"]
          /\ BeginFailure(k, [row EXCEPT ![i] = "absent"]) \/ UNCHANGED <<ops, machine, alloc>>
    BY <1>8 DEF IpDisappeared, LiveRows
  <2>2. i \in Resources BY DEF Resources
  <2>3. RowsKept /\ \A r \in Resources : row'[r] # "none" => row[r] # "none"
    BY <1>0, <2>1, <2>2, AbsenceKeeps
  <2>4. UNCHANGED <<sv, ips, act, wire, conn, att, w>> /\ ops[k].intent = "run" /\ PendingOf(k) = {}
    BY <1>8 DEF IpDisappeared, BeforeServer, CreateStep, ReadyToRun
  <2>5. Gone(i)
    BY <2>1, <2>2, UnseenIsGone DEF LedgerInv, KnownIds
  <2>6. CASE UNCHANGED <<ops, machine, alloc>>
    BY <1>0, <2>3, <2>4, <2>6, SameOpsSteady, RestKeeps
  <2>7. CASE BeginFailure(k, [row EXCEPT ![i] = "absent"])
    <3> DEFINE rows == [row EXCEPT ![i] = "absent"]
    <3>1. \A r \in Resources : row[r] = "live" => rows[r] = "live" \/ Gone(r)
      BY <1>0, <2>2, <2>5
    <3>2. BeginFailure(k, rows) BY <2>7
    <3> HIDE DEF rows
    <3>3. /\ OpsSteady /\ alloc'.server = alloc.server
          /\ alloc.retired => alloc'.retired
          /\ alloc'.retired => alloc.retired \/ AllGone
      BY <1>0, <2>4, <3>1, <3>2, FailureSteady
    <3> QED BY <1>0, <2>3, <2>4, <3>3, RestKeeps
  <2> QED BY <2>1, <2>6, <2>7
<1>9. CASE CompleteVerified(k) \/ GuestReady(k)
  BY <1>9, CompleteKeeps DEF CompleteVerified, GuestReady, Completing
<1> QED BY <1>1, <1>2, <1>3, <1>4, <1>5, <1>6, <1>7, <1>8, <1>9 DEF AdvanceRun

\* The ticks of a cleanup that judge nothing.
LEMMA CleanupKeeps ==
  ASSUME TypeInv, JournalInv, LedgerInv, CustodyInv, AdvanceCleanup, ~ResolveNext
  PROVE  Custodial
<1> USE DEF ProviderUnchanged, providerVars, DatabaseOnly
<1>0. /\ w.pc = "cleanup" /\ w.op \in Ops /\ Active(w.op) /\ ~alloc.retired /\ ops[w.op].intent = "cleanup"
      /\ row \in [Resources -> {"none", "live", "absent"}]
      /\ w' = Idle => w'.pc = "idle"
  BY IdleType DEF AdvanceCleanup, TargetAbsent, TargetMismatch, TargetLagging,
         TargetExhausted, DeleteTarget, Settling, FinishCleanup, Target, Fit, Resolved,
         TypeInv, TypeOK, JournalTypeOK, JournalInv, BusyWorker, CleanupWork
<1>1. CASE TargetAbsent
  <2>1. PICK r \in Resources : Target(r) /\ row' = [row EXCEPT ![r] = "absent"]
    BY <1>1 DEF TargetAbsent
  <2>2. row[r] # "none"
    BY <2>1 DEF Target, LiveRows
  <2>3. RowsKept /\ \A q \in Resources : row'[q] # "none" => row[q] # "none"
    BY <1>0, <2>1, <2>2, AbsenceKeeps
  <2> QED BY <1>0, <1>1, <2>3, SameOpsSteady, RestKeeps DEF TargetAbsent
<1>2. CASE TargetMismatch \/ TargetLagging \/ TargetExhausted
  <2>1. OpsSteady
    BY <1>0, <1>2, ProgressSteady DEF TargetMismatch, TargetLagging, TargetExhausted
  <2>2. UNCHANGED <<sv, ips, act, wire, conn, att, row, alloc>> /\ w' = Idle
    BY <1>2 DEF TargetMismatch, TargetLagging, TargetExhausted
  <2> QED BY <1>0, <2>1, <2>2, SameRows, RestKeeps
<1>3. CASE DeleteTarget
  <2>1. PICK r \in Resources :
          Target(r) /\ Decide(w.op, IF r \in Servers THEN "destroy" ELSE "delete_primary_ip", r)
    BY <1>3 DEF DeleteTarget, Fit
  <2>2. row[r] # "none"
    BY <2>1 DEF Target, LiveRows
  <2>3. UNCHANGED <<ops, att, row, alloc>> /\ ProviderUnchanged
    BY <1>3 DEF DeleteTarget
  <2> QED BY <1>0, <2>1, <2>2, <2>3, DecideKeeps
<1>4. CASE Settling
  BY <1>0, <1>4, SameRows, SameOpsSteady, RestKeeps DEF Settling
<1>5. CASE FinishCleanup
  <2>1. /\ PendingIn(w.op) = {} /\ LiveRows(Resources) = {} /\ alloc' = [alloc EXCEPT !.retired = TRUE]
        /\ ops' = [ops EXCEPT ![w.op].prog = IF ops[w.op].kind = "create" THEN "cancelled" ELSE "succeeded"]
        /\ UNCHANGED <<sv, ips, act, wire, conn, att, row>> /\ w' = Idle
    BY <1>5 DEF FinishCleanup
  <2>2. AllGone
    BY <1>0, <2>1 DEF AllGone, PendingIn, PendingOf, Scope, LiveRows
  <2>3. ops \in [Ops -> OpRecord] /\ Source \in Ops /\ ops[Source].kind = "create"
        /\ alloc \in [retired : BOOLEAN, server : Servers \cup {NoRes}, reserved : Types, offer : Types]
    BY JournalAssumption DEF TypeInv, TypeOK, JournalTypeOK, Source, Ops, JournalInv, CreateWork
  <2>4. OpsSteady
    <3>1. \A j \in Ops : /\ ops'[j].kind = ops[j].kind /\ ops'[j].intent = ops[j].intent
                         /\ ops'[j].prog = IF j # w.op THEN ops[j].prog
                                           ELSE IF ops[j].kind = "create" THEN "cancelled" ELSE "succeeded"
      BY <2>1, <2>3 DEF OpRecord
    <3> QED BY <2>3, <3>1 DEF OpsSteady, Active, Terminal
  <2>5. alloc'.server = alloc.server /\ alloc'.retired
    BY <2>1, <2>3
  <2> QED BY <1>0, <2>1, <2>2, <2>4, <2>5, SameRows, RestKeeps
<1> QED BY <1>1, <1>2, <1>3, <1>4, <1>5 DEF AdvanceCleanup

LEMMA BeginCleanupKeeps ==
  ASSUME TypeInv, JournalInv, LedgerInv, CustodyInv, NEW k \in Ops, BeginCleanup(k)
  PROVE  Custodial
<1>1. UNCHANGED <<sv, ips, act, wire, conn, att, row, alloc, ops>> /\ w.pc = "idle"
  BY DEF BeginCleanup, Tick, ProviderUnchanged, providerVars
<1>2. w'.pc = "cleanup"
  BY DEF BeginCleanup, Idle
<1> QED BY <1>1, <1>2, SameRows, SameOpsSteady, RestKeeps

\* A new operation starts when none is active.
LEMMA AdmissionKeeps ==
  ASSUME TypeInv, JournalInv, LedgerInv, CustodyInv, NEW k \in Ops, NoActiveOp, NextOp(k),
         NEW o \in OpRecord, o.kind \notin {"create", "none"}, o.intent # "compensate",
         ops' = [ops EXCEPT ![k] = o], UNCHANGED <<att, row, w>>, ProviderUnchanged,
         alloc'.server = alloc.server, alloc'.retired = alloc.retired
  PROVE  Custodial
<1>0. ops \in [Ops -> OpRecord] /\ Source \in Ops /\ k # Source /\ w.pc = "idle"
  BY JournalAssumption DEF TypeInv, TypeOK, JournalTypeOK, Source, Ops, JournalInv, CreateWork, NextOp,
     BusyWorker, NoActiveOp
<1>1. \A j \in Ops : ops'[j] = IF j = k THEN o ELSE ops[j]
  BY <1>0
<1>2. OneActive'
  BY <1>1 DEF OneActive, NoActiveOp, Active
<1>3. UNCHANGED <<sv, ips, act, wire, conn>>
  BY DEF ProviderUnchanged, providerVars
<1>4. \A c \in CreateCommands : (Creates(c))' = Creates(c)
  BY DEF Creates
<1>5. SourceInv'
  BY <1>0, <1>1, <1>4, TwoKinds DEF CustodyInv, SourceInv
<1>6. CompensationInv'
  BY <1>1 DEF CustodyInv, CompensationInv, PossibleVm, EffectOf, Of
<1>7. Aimed'
  BY <1>0 DEF Aimed
<1> QED BY <1>0, <1>2, <1>3, <1>5, <1>6, <1>7, SameRows, PlainKeeps

LEMMA UserKeeps ==
  ASSUME TypeInv, JournalInv, LedgerInv, CustodyInv, UserStep
  PROVE  Custodial
<1>0. /\ ops \in [Ops -> OpRecord] /\ Source \in Ops
      /\ alloc \in [retired : BOOLEAN, server : Servers \cup {NoRes}, reserved : Types, offer : Types]
  BY JournalAssumption DEF TypeInv, TypeOK, JournalTypeOK, Source, Ops
<1>1. ASSUME NEW k \in Ops, TakeOverCreate(k)
      PROVE  Custodial
  <2>1. \A j \in Ops : /\ ops'[j].kind = ops[j].kind
                       /\ ops'[j].intent = IF j = k THEN "cleanup" ELSE ops[j].intent
                       /\ ops'[j].prog = IF j = k THEN "active" ELSE ops[j].prog
    BY <1>0, <1>1 DEF TakeOverCreate, OpRecord
  <2>2. OpsSteady
    BY <1>0, <1>1, <2>1 DEF TakeOverCreate, OpsSteady, Active
  <2>3. UNCHANGED <<sv, ips, act, wire, conn, att, row, alloc, w>> /\ w.pc = "idle"
    BY <1>1 DEF TakeOverCreate, CanAdmitCleanup, ProviderUnchanged, providerVars
  <2> QED BY <2>2, <2>3, SameRows, RestKeeps
<1>2. ASSUME NEW k \in Ops, AdmitDestroy(k)
      PROVE  Custodial
  <2> DEFINE o == [kind |-> "destroy", intent |-> "cleanup", prog |-> "active", type |-> alloc.offer]
  <2>1. o \in OpRecord /\ o.kind \notin {"create", "none"} /\ o.intent # "compensate"
    BY <1>0 DEF OpRecord, Kinds
  <2>2. ops' = [ops EXCEPT ![k] = o]
    BY <1>2 DEF AdmitDestroy
  <2> HIDE DEF o
  <2> QED BY <1>2, <2>1, <2>2, AdmissionKeeps DEF AdmitDestroy
<1>3. ASSUME NEW k \in Ops, NEW kind \in ActionKinds, NEW type \in Types, Admit(k, kind, type)
      PROVE  Custodial
  <2> DEFINE o == [kind |-> kind, intent |-> "run", prog |-> "active", type |-> type]
  <2>1. o \in OpRecord /\ o.kind \notin {"create", "none"} /\ o.intent # "compensate"
    BY ActionAssumption DEF OpRecord, Kinds, PowerCommands
  <2>2. ops' = [ops EXCEPT ![k] = o] /\ alloc'.server = alloc.server /\ alloc'.retired = alloc.retired
    BY <1>0, <1>3 DEF Admit
  <2> HIDE DEF o
  <2> QED BY <1>3, <2>1, <2>2, AdmissionKeeps DEF Admit
<1>4. CASE Revoke
  <2>1. UNCHANGED <<sv, ips, act, wire, conn, ops, att, row, alloc, w>>
    BY <1>4 DEF Revoke, ProviderUnchanged, providerVars
  <2>2. CustodyInv'
    <3>1. AttachedInv' /\ SeenAlike' /\ Ending /\ ActingInv' /\ Answering
      BY <2>1, RecordsEnd DEF CustodyInv, ActingInv, Answering
    <3> QED BY <2>1, <3>1, EndingKeeps
  <2>3. Held' = Held
    BY <2>1, HeldSame
  <2> QED BY <2>1, <2>2, <2>3 DEF Custodial
<1> QED BY <1>1, <1>2, <1>3, <1>4 DEF UserStep

-----------------------------------------------------------------------------
(* Judging an attempt                                                       *)

\* What a verdict rests on.
Says(a, recovering, e) ==
  /\ e.kind = "failed" => att[a].outcome \in {"rejected", "accepted"}
  /\ e.kind = "absent" /\ att[a].cmd \in CreateCommands =>
       recovering /\ att[a].outcome \in Receipts /\ e.res = att[a].res
  /\ e.kind = "confirmed" => att[a].outcome # "rejected" /\ ~Ambiguous(a) /\ e.res = Subject(a)

LEMMA VerdictSays ==
  ASSUME TypeInv, NEW a \in Attempts, NEW recovering \in BOOLEAN
  PROVE  Says(a, recovering, Verdict(a, recovering))
<1>0. att[a].outcome \in {"prepared", "accepted", "completed", "rejected", "unknown"}
  BY DEF TypeInv, TypeOK, JournalTypeOK, AttemptRecord
<1>1. \A r : /\ Says(a, recovering, Unresolved(a)) /\ Says(a, recovering, Result("blocked", r))
             /\ Says(a, recovering, Result("waiting", r))
  BY DEF Says, Unresolved, Result
<1>2. att[a].outcome \in {"rejected", "accepted"} => Says(a, recovering, Result("failed", NoRes))
  BY DEF Says, Result
<1>3. ASSUME NEW r, att[a].cmd \notin CreateCommands PROVE Says(a, recovering, Result("absent", r))
  BY <1>3 DEF Says, Result
<1>4. ASSUME recovering, ~Uncertain(a), att[a].outcome # "rejected"
      PROVE  Says(a, recovering, Result("absent", Subject(a)))
  BY <1>0, <1>4 DEF Says, Result, Subject, Uncertain, Receipts
<1>5. ASSUME att[a].outcome # "rejected", ~Ambiguous(a)
      PROVE  Says(a, recovering, Result("confirmed", Subject(a)))
  BY <1>5 DEF Says, Result
<1>6. ASSUME att[a].outcome # "rejected", ~Ambiguous(a)
      PROVE  Says(a, recovering, EvaluateIp(a, Subject(a), recovering))
  <2>1. att[a].cmd = "delete_primary_ip" => att[a].cmd \notin CreateCommands
    BY DEF CreateCommands
  <2> QED BY <1>1, <1>3, <1>4, <1>5, <1>6, <2>1 DEF EvaluateIp
<1>7. ASSUME att[a].outcome # "rejected", ~Ambiguous(a)
      PROVE  Says(a, recovering, EvaluateServer(a, Subject(a), recovering))
  <2>1. att[a].cmd = "destroy" => att[a].cmd \notin CreateCommands
    BY DEF CreateCommands
  <2> QED BY <1>1, <1>3, <1>4, <1>5, <1>7, <2>1 DEF EvaluateServer
<1>8. Says(a, recovering, Evaluate(a, recovering))
  <2>1. SettledByAbsence(a, recovering) => att[a].cmd \notin CreateCommands
    BY DEF SettledByAbsence, DeleteCommands, CreateCommands
  <2> QED BY <1>1, <1>2, <1>3, <1>6, <1>7, <2>1 DEF Evaluate
<1> QED BY <1>1, <1>8 DEF Verdict

\* A create that was answered made one resource, and that is all of its kind.
LEMMA CertainOne ==
  ASSUME TypeInv, LedgerInv, CustodyInv, NEW c \in CreateCommands, NEW a \in Creates(c),
         att[a].outcome \in Receipts
  PROVE  /\ att[a].res \in KindOf(c) /\ (att[a].res \in Servers => WithIp(att[a].res))
         /\ \A q \in KindOf(c) : Made(q) => q = att[a].res
         /\ \A q \in KindOf(c) : row[q] # "none" => q = att[a].res
<1>1. Told(a, att[a].res) /\ att[a].res \in Resources \cup {NoRes}
  BY DEF Told, Creates, TypeInv, TypeOK, JournalTypeOK, AttemptRecord
<1>2. \A q \in KindOf(c) : row[q] # "none" => Made(q)
  BY TwoKinds DEF LedgerInv, KnownIds, Known, Made, St
<1> QED BY <1>1, <1>2 DEF CustodyInv, MadeInv

LEMMA LiveIsMade == ASSUME NEW r \in Resources, Live(r) PROVE Made(r)
BY DEF Live, Made, St

\* A create judged failed was refused, or its server has the allocation's IP.
LEMMA FailedRight ==
  ASSUME TypeInv, JournalInv, LedgerInv, CustodyInv, NEW c \in CreateCommands, NEW a \in Creates(c),
         att[a].outcome \in {"rejected", "accepted"}
  PROVE  ~OnWire(a) /\ \A r \in KindOf(c) : Live(r) /\ Owned(r) => r \in Servers /\ WithIp(r)
<1>1. ~OnWire(a)
  BY DEF OnWire, CustodyInv, ChannelInv, Uncertain
<1>2. \A r \in KindOf(c) : r \in Resources BY TwoKinds
<1>3. CASE att[a].outcome = "rejected"
  <2>1. \A r \in KindOf(c) : ~Made(r)
    BY <1>3, OneCreate DEF CustodyInv, MadeInv, Refused
  <2> QED BY <1>1, <1>2, <2>1, LiveIsMade
<1>4. CASE att[a].outcome = "accepted"
  <2>1. c = "create"
    BY <1>4, TwoKinds DEF CustodyInv, IpReceipts
  <2>2. att[a].outcome \in Receipts
    BY <1>4 DEF Receipts
  <2> QED BY <1>1, <1>2, <2>1, <2>2, CertainOne, LiveIsMade, TwoKinds
<1> QED BY <1>3, <1>4

\* A create judged absent had been answered and its resource has gone.
LEMMA AbsentRight ==
  ASSUME TypeInv, JournalInv, LedgerInv, CustodyInv, NEW c \in CreateCommands, NEW a \in Creates(c),
         att[a].outcome \in Receipts, ~Visible(att[a].res)
  PROVE  ~OnWire(a) /\ \A r \in KindOf(c) : ~Live(r)
<1>1. ~OnWire(a)
  BY DEF OnWire, CustodyInv, ChannelInv, Uncertain, Receipts
<1>2. att[a].res \in KindOf(c) /\ \A q \in KindOf(c) : Made(q) => q = att[a].res
  BY CertainOne
<1>3. att[a].res \in Resources /\ att[a].res # NoRes
  BY <1>2, TwoKinds
<1>4. Known(att[a].res)
  BY <1>3 DEF LedgerInv, KnownIds, KnownId, Creates
<1>5. ~Live(att[a].res)
  BY <1>3, <1>4, UnseenIsGone DEF Gone, Live
<1> QED BY <1>1, <1>2, <1>5, LiveIsMade, TwoKinds

\* A confirmed create has shown all there is of its kind.
LEMMA ConfirmedRight ==
  ASSUME TypeInv, JournalInv, LedgerInv, CustodyInv, NEW c \in CreateCommands, NEW a \in Creates(c),
         att[a].outcome # "rejected", ~Ambiguous(a), NEW s, s = Subject(a), Visible(s),
         row' = [RowAfterClaims(a) EXCEPT ![s] = "live"]
  PROVE  /\ ~OnWire(a) /\ s \in KindOf(c)
         /\ (Rows(KindOf(c)))' = {s}
         /\ \A r \in KindOf(c) : Live(r) /\ Owned(r) => row'[r] # "none"
<1>0. /\ a \in Attempts /\ att[a].cmd = c /\ \A r \in KindOf(c) : r \in Resources
      /\ att[a].outcome \in {"prepared", "accepted", "completed", "rejected", "unknown"}
  BY TwoKinds DEF Creates, TypeInv, TypeOK, JournalTypeOK, AttemptRecord
<1>1. CASE ~Uncertain(a)
  <2>1. att[a].outcome \in Receipts /\ s = att[a].res
    BY <1>0, <1>1 DEF Uncertain, Receipts, Subject
  <2>2. ~OnWire(a)
    BY <1>1 DEF OnWire, CustodyInv, ChannelInv
  <2>3. /\ s \in KindOf(c) /\ \A q \in KindOf(c) : Made(q) => q = s
        /\ \A q \in KindOf(c) : row[q] # "none" => q = s
    BY <2>1, CertainOne
  <2>4. \A r \in Resources : row'[r] = IF r = s THEN "live" ELSE row[r]
    BY <1>1 DEF RowAfterClaims, Claimed, Found
  <2>5. (Rows(KindOf(c)))' = {s}
    BY <1>0, <2>3, <2>4 DEF Rows
  <2> QED BY <1>0, <2>2, <2>3, <2>4, <2>5, LiveIsMade
<1>2. CASE Uncertain(a)
  <2>1. PICK f \in Resources : Found(a) = {f}
    BY <1>0, <1>2 DEF Ambiguous
  <2>2. Found(a) = Claimed(a) /\ s = f
    BY <1>0, <1>2, <2>1 DEF Ambiguous, Subject
  <2>3. Found(a) = {r \in KindOf(c) : Visible(r) /\ Owned(r)}
    BY <1>0, <1>2, TwoKinds DEF Found, Matches
  <2>4. s \in KindOf(c) /\ s \in Resources
    BY <1>0, <2>1, <2>2, <2>3
  <2>5. ASSUME NEW q \in KindOf(c), RowAfterClaims(a)[q] # "none" PROVE q = s
    <3>1. RowAfterClaims(a)[s] # "none"
      BY <2>1, <2>2, <2>4 DEF RowAfterClaims
    <3> QED BY <1>0, <1>2, <2>4, <2>5, <3>1 DEF Ambiguous
  <2>6. \A r \in Resources : row'[r] = IF r = s THEN "live" ELSE RowAfterClaims(a)[r]
    BY DEF RowAfterClaims
  <2>7. (Rows(KindOf(c)))' = {s}
    BY <1>0, <2>4, <2>5, <2>6 DEF Rows
  <2>8. Live(s) /\ Seen(s)
    BY <2>4 DEF Visible, Live, Seen, Resources
  <2>9. ~OnWire(a)
    BY <2>4, <2>8, LiveIsMade, OneCreate DEF CustodyInv, MadeInv
  <2>10. ASSUME NEW r \in KindOf(c), Live(r), Owned(r) PROVE r = s
    <3>1. Seen(r)
      BY <2>4, <2>8, <2>10 DEF CustodyInv, MadeInv
    <3>2. Visible(r)
      BY <1>0, <2>10, <3>1 DEF Visible, Live, Seen, Resources
    <3> QED BY <2>1, <2>2, <2>3, <2>10, <3>2
  <2> QED BY <2>4, <2>6, <2>7, <2>9, <2>10
<1> QED BY <1>1, <1>2

\* A step that judges or claims rightly keeps the promise.
LEMMA JudgingKeeps ==
  ASSUME TypeInv, JournalInv, CustodyInv, RowsKept, UNCHANGED <<sv, ips, act, wire>>,
         conn'.id = 0, conn'.kind = "none", AttemptsSteady, OpsSteady, JudgedInTurn,
         \A c \in CreateCommands : SettledStep(c),
         alloc'.server # NoRes => row'[alloc'.server] # "none",
         \A a \in Attempts : att[a].op # 0 /\ att[a].resol = "pending" /\ att'[a].resol = "confirmed" =>
           att'[a].res \in Resources /\ row'[att'[a].res] # "none",
         WorkInv', w'.pc # "journal", ~alloc.retired, alloc'.retired = alloc.retired
  PROVE  Custodial
<1>1. Aimed' /\ ServerInOrder
  BY DEF Aimed, ServerInOrder
<1>2. OneActive' /\ SourceInv' /\ CompensationInv'
  BY <1>1, OpsKeep
<1>3. alloc.server \in Resources \cup {NoRes}
  BY DEF TypeInv, TypeOK, JournalTypeOK, Resources
<1>4. /\ ChannelInv' /\ TargetInv' /\ IpReceipts' /\ AttachedInv' /\ ActingInv'
      /\ \A c \in CreateCommands : MadeInv(c)' /\ SettledInv(c)'
  BY <1>1, <1>3, QuietKeeps
<1>5. RetiredInv'
  BY DEF RetiredInv
<1> QED BY <1>2, <1>4, <1>5, HeldGrows DEF CustodyInv, Custodial

\* What a judged or inspected attempt may bring into the ledger.
LEMMA ClaimsOwnKind ==
  ASSUME NEW a \in Attempts, NEW r \in Claimed(a)
  PROVE  att[a].cmd \in CreateCommands /\ r \in KindOf(att[a].cmd) /\ row[r] # "absent"
<1>1. r \in Matches(att[a].cmd) /\ att[a].cmd \in CreateCommands /\ row[r] # "absent"
  BY DEF Claimed, Found
<1> QED BY <1>1, TwoKinds DEF Matches

\* Rows of a kind whose create is judged stay, as new rows are of the kind of a.
LEMMA OtherRowsStay ==
  ASSUME JournalInv, NEW a \in Attempts, att[a].op # 0, att[a].resol = "pending", RowsKept,
         \A r \in Resources : row'[r] # "none" /\ row[r] = "none" =>
           att[a].cmd \in CreateCommands /\ r \in KindOf(att[a].cmd),
         NEW c \in CreateCommands, NEW b \in Creates(c), att[b].resol # "pending"
  PROVE  (Rows(KindOf(c)))' = Rows(KindOf(c))
<1>1. ASSUME att[a].cmd \in CreateCommands PROVE att[a].cmd # c
  BY <1>1, OneCreate DEF Creates
<1>2. \A r \in KindOf(c) : row'[r] # "none" <=> row[r] # "none"
  BY <1>1, TwoKinds DEF RowsKept
<1> QED BY <1>2 DEF Rows

\* The operation of a pending create is the active one.
LEMMA PendingCreate ==
  ASSUME TypeInv, JournalInv, CustodyInv, NEW k \in Ops, Active(k),
         NEW a \in Attempts, att[a].op # 0, att[a].cmd \in CreateCommands, att[a].resol = "pending"
  PROVE  k = Source
<1>1. att[a].op = Source /\ Source \in Ops /\ ops[Source].kind = "create"
  BY JournalAssumption DEF JournalInv, CreateWork, Source, Ops
<1>2. ops[Source].prog \notin Terminal
  BY <1>1 DEF JournalInv, TerminalIsSettled, PendingOf, Of
<1> QED BY <1>1, <1>2 DEF CustodyInv, OneActive, Active

\* resolveEffect, with or without the claims of a discovery.
LEMMA ResolveCustody ==
  ASSUME TypeInv, JournalInv, LedgerInv, CustodyInv, NEW a \in Attempts, NEW k \in Ops,
         att[a].op # 0, att[a].resol = "pending", Active(k), ~alloc.retired, Resolve(a, k),
         UNCHANGED <<sv, ips, act, wire, conn>>, w.pc # "sent", w'.pc \in {"idle", "cleanup"}
  PROVE  Custodial
<1> DEFINE recovering == ops[k].intent = "cleanup"
           v == Verdict(a, recovering)
<1>0. /\ v.kind \in {"waiting", "blocked", "failed", "absent", "confirmed"}
      /\ v.res \in Resources \cup {NoRes}
      /\ v.kind = "confirmed" => Visible(v.res)
      /\ v.kind = "absent" => ~Visible(v.res)
      /\ Says(a, recovering, v)
      /\ v.kind = "confirmed" => RowAfterClaims(a)[v.res] # "absent"
  BY VerdictType, VerdictGrounded, VerdictSays DEF Verdict, Result
<1>a. /\ att \in [Attempts -> AttemptRecord]
      /\ row \in [Resources -> {"none", "live", "absent"}]
      /\ alloc \in [retired : BOOLEAN, server : Servers \cup {NoRes}, reserved : Types, offer : Types]
  BY DEF TypeInv, TypeOK, JournalTypeOK
<1>b. conn.id = 0 /\ conn.kind = "none"
  BY DEF CustodyInv, WorkInv
<1>c. \A b \in Attempts : OnWire(b) => Uncertain(b)
  BY DEF OnWire, CustodyInv, ChannelInv
<1>d. RowsKept /\ alloc'.retired = alloc.retired
  BY ResolveKeeps
<1>e. \A r : Visible(r) => r # NoRes
  BY ProviderAssumption DEF Visible
<1>f. WorkInv'
  BY <1>b DEF WorkInv
<1>g. RowAfterClaims(a) = [r \in Resources |-> IF r \in Claimed(a) THEN "live" ELSE row[r]]
  BY DEF RowAfterClaims
<1>h. alloc.server # NoRes => row'[alloc.server] # "none"
  BY <1>a, <1>d DEF CustodyInv, TargetInv, RowsKept, Resources
<1>i. \A c \in CreateCommands : \A b \in Creates(c) : b \in Attempts /\ att[b].op # 0 /\ att[b].cmd = c
  BY DEF Creates
<1>j. v.kind = "confirmed" /\ att[a].cmd \notin CreateCommands => v.res \in Resources /\ row[v.res] # "none"
  <2> SUFFICES ASSUME v.kind = "confirmed", att[a].cmd \notin CreateCommands
               PROVE  v.res \in Resources /\ row[v.res] # "none"
    OBVIOUS
  <2>1. att[a].tgt \in Resources /\ row[att[a].tgt] # "none"
    BY TwoKinds DEF CustodyInv, TargetInv
  <2>2. v.res = Subject(a) /\ att[a].outcome # "rejected"
    BY <1>0 DEF Says
  <2>3. CASE Uncertain(a)
    BY <2>1, <2>2, <2>3 DEF Subject
  <2>4. CASE ~Uncertain(a)
    <3>1. att[a].outcome \in Receipts /\ att[a].res \in Resources \cup {NoRes}
      BY <1>a, <2>2, <2>4 DEF Uncertain, Receipts, AttemptRecord
    <3>2. Told(a, att[a].res)
      BY <3>1 DEF Told
    <3> QED BY <2>1, <2>2, <2>4, <3>1, <3>2 DEF CustodyInv, TargetInv, Subject
  <2> QED BY <2>3, <2>4
<1> HIDE DEF v
<1>1. CASE v.kind \in {"waiting", "blocked"}
  <2>1. (SetProgress(k, "active") \/ SetProgress(k, "blocked")) /\ DiscoverOnly(a) /\ att' = att
    BY <1>1 DEF Resolve, v
  <2>2. OpsSteady BY <2>1, ProgressSteady
  <2>3. AttemptsSteady /\ JudgedInTurn BY <2>1, PlainSteady
  <2>4. \A r \in Resources : row'[r] # "none" /\ row[r] = "none" =>
          att[a].cmd \in CreateCommands /\ r \in KindOf(att[a].cmd)
    BY <1>g, <2>1, ClaimsOwnKind DEF DiscoverOnly
  <2>5. \A c \in CreateCommands : SettledStep(c)
    BY <1>d, <2>1, <2>4, OtherRowsStay DEF SettledStep
  <2>6. alloc'.server # NoRes => row'[alloc'.server] # "none"
    BY <1>a, <1>g, <1>h, <2>1 DEF DiscoverOnly, Resources
  <2> QED BY <1>b, <1>d, <1>f, <2>1, <2>2, <2>3, <2>5, <2>6, JudgingKeeps
<1>2. CASE v.kind = "failed"
  <2>1. att' = [att EXCEPT ![a].resol = "failed"] /\ UNCHANGED <<ops, row, alloc>>
    BY <1>2 DEF Resolve, v
  <2>2. \A b \in Attempts : /\ b # a => att'[b] = att[b]
                            /\ att'[b].op = att[b].op /\ att'[b].cmd = att[b].cmd /\ att'[b].tgt = att[b].tgt
                            /\ att'[b].outcome = att[b].outcome /\ att'[b].res = att[b].res
                            /\ att'[b].resol = IF b = a THEN "failed" ELSE att[b].resol
    BY <1>a, <2>1 DEF AttemptRecord
  <2>3. AttemptsSteady
    BY <1>c, <2>2 DEF AttemptsSteady, Refused, Told, Uncertain
  <2>4. JudgedInTurn
    BY <2>2 DEF JudgedInTurn
  <2>5. \A c \in CreateCommands : (Rows(KindOf(c)))' = Rows(KindOf(c))
    BY <2>1 DEF Rows
  <2>6. \A c \in CreateCommands : SettledStep(c)
    <3> SUFFICES ASSUME NEW c \in CreateCommands, a \in Creates(c)
                 PROVE  /\ ~OnWire(a)
                        /\ \A r \in KindOf(c) : Live(r) /\ Owned(r) => r \in Servers /\ WithIp(r)
      BY <1>i, <2>2, <2>5 DEF SettledStep
    <3> QED BY <1>0, <1>2, FailedRight DEF Says
  <2> QED BY <1>b, <1>d, <1>f, <1>h, <2>1, <2>2, <2>3, <2>4, <2>6, SameOpsSteady, JudgingKeeps
<1>3. CASE v.kind = "absent"
  <2>1. /\ att' = [att EXCEPT ![a].resol = "absent"]
        /\ row' = [row EXCEPT ![v.res] = IF @ = "live" THEN "absent" ELSE @]
        /\ UNCHANGED <<ops, alloc>>
    BY <1>3 DEF Resolve, v
  <2>2. \A b \in Attempts : /\ b # a => att'[b] = att[b]
                            /\ att'[b].op = att[b].op /\ att'[b].cmd = att[b].cmd /\ att'[b].tgt = att[b].tgt
                            /\ att'[b].outcome = att[b].outcome /\ att'[b].res = att[b].res
                            /\ att'[b].resol = IF b = a THEN "absent" ELSE att[b].resol
    BY <1>a, <2>1 DEF AttemptRecord
  <2>3. AttemptsSteady
    BY <1>c, <2>2 DEF AttemptsSteady, Refused, Told, Uncertain
  <2>4. JudgedInTurn
    BY <1>0, <1>3, <2>1, <2>2, PendingCreate DEF JudgedInTurn, Says
  <2>5. \A r \in Resources : row'[r] # "none" <=> row[r] # "none"
    BY <1>a, <2>1
  <2>6. \A c \in CreateCommands : (Rows(KindOf(c)))' = Rows(KindOf(c))
    BY <2>5, TwoKinds DEF Rows
  <2>7. \A c \in CreateCommands : SettledStep(c)
    <3> SUFFICES ASSUME NEW c \in CreateCommands, a \in Creates(c)
                 PROVE  ~OnWire(a) /\ \A r \in KindOf(c) : ~Live(r)
      BY <1>i, <2>2, <2>6 DEF SettledStep
    <3>1. att[a].outcome \in Receipts /\ ~Visible(att[a].res)
      BY <1>0, <1>3, <1>i DEF Says
    <3> QED BY <3>1, AbsentRight
  <2> QED BY <1>b, <1>d, <1>f, <1>h, <2>1, <2>2, <2>3, <2>4, <2>7, SameOpsSteady, JudgingKeeps
<1>4. CASE v.kind = "confirmed"
  <2>1. /\ att' = [att EXCEPT ![a].resol = "confirmed", ![a].res = v.res,
                              ![a].pow = IF v.res \in Servers THEN sv[v.res].power ELSE @]
        /\ row' = [RowAfterClaims(a) EXCEPT ![v.res] = "live"]
        /\ alloc' = IF v.res \in Servers THEN [alloc EXCEPT !.server = v.res] ELSE alloc
        /\ UNCHANGED ops
    BY <1>4 DEF Resolve, v
  <2>2. \A b \in Attempts : /\ b # a => att'[b] = att[b]
                            /\ att'[b].op = att[b].op /\ att'[b].cmd = att[b].cmd /\ att'[b].tgt = att[b].tgt
                            /\ att'[b].outcome = att[b].outcome
                            /\ att'[b].res = (IF b = a THEN v.res ELSE att[b].res)
                            /\ att'[b].resol = IF b = a THEN "confirmed" ELSE att[b].resol
    BY <1>a, <2>1 DEF AttemptRecord
  <2>3. v.res = Subject(a) /\ att[a].outcome # "rejected" /\ ~Ambiguous(a) /\ Visible(v.res) /\ v.res \in Resources
    BY <1>0, <1>4, <1>e DEF Says
  <2>4. att[a].outcome \in Receipts => v.res = att[a].res
    BY <2>3 DEF Subject, Uncertain, Receipts
  <2>5. AttemptsSteady
    BY <1>c, <2>2, <2>4 DEF AttemptsSteady, Refused, Told, Uncertain
  <2>6. JudgedInTurn
    BY <2>2 DEF JudgedInTurn
  <2>7. row'[v.res] = "live" /\ \A r \in Resources : r # v.res => row'[r] = RowAfterClaims(a)[r]
    BY <1>g, <2>1, <2>3
  <2>8. \A c \in CreateCommands : a \in Creates(c) =>
          /\ ~OnWire(a) /\ v.res \in KindOf(c) /\ (Rows(KindOf(c)))' = {v.res}
          /\ \A r \in KindOf(c) : Live(r) /\ Owned(r) => row'[r] # "none"
    BY <2>1, <2>3, ConfirmedRight
  <2>9. \A r \in Resources : row'[r] # "none" /\ row[r] = "none" =>
          att[a].cmd \in CreateCommands /\ r \in KindOf(att[a].cmd)
    <3> SUFFICES ASSUME NEW r \in Resources, row'[r] # "none", row[r] = "none"
                 PROVE  att[a].cmd \in CreateCommands /\ r \in KindOf(att[a].cmd)
      OBVIOUS
    <3>1. CASE r = v.res
      <4>1. att[a].cmd \in CreateCommands
        BY <1>4, <1>j, <3>1
      <4> QED BY <2>8, <3>1, <4>1 DEF Creates
    <3>2. CASE r # v.res
      BY <1>g, <2>7, <3>2, ClaimsOwnKind
    <3> QED BY <3>1, <3>2
  <2>10. \A c \in CreateCommands : SettledStep(c)
    <3> SUFFICES ASSUME NEW c \in CreateCommands, NEW b \in Creates(c)
                 PROVE  /\ att[b].resol # "pending" => (Rows(KindOf(c)))' = Rows(KindOf(c))
                        /\ att[b].resol = "pending" /\ att'[b].resol # "pending" =>
                             /\ ~OnWire(b)
                             /\ \A r \in KindOf(c) : Live(r) /\ Owned(r) => row'[r] # "none" \/ (r \in Servers /\ WithIp(r))
                             /\ att'[b].resol = "confirmed" =>
                                  /\ (Rows(KindOf(c)))' = {att'[b].res}
                                  /\ \A r \in KindOf(c) : Live(r) /\ Owned(r) => row'[r] # "none"
      BY DEF SettledStep
    <3>1. att[b].resol # "pending" => (Rows(KindOf(c)))' = Rows(KindOf(c))
      BY <1>d, <2>9, OtherRowsStay
    <3>2. att[b].resol = "pending" /\ att'[b].resol # "pending" => b = a
      BY <1>i, <2>2
    <3> QED BY <1>i, <2>2, <2>8, <3>1, <3>2
  <2>11. alloc'.server # NoRes => row'[alloc'.server] # "none"
    BY <1>a, <1>h, <2>1, <2>7
  <2>12. \A b \in Attempts : att[b].op # 0 /\ att[b].resol = "pending" /\ att'[b].resol = "confirmed" =>
           att'[b].res \in Resources /\ row'[att'[b].res] # "none"
    BY <2>2, <2>3, <2>7
  <2>13. OpsSteady
    BY <2>1, SameOpsSteady
  <2> QED BY <1>b, <1>d, <1>f, <2>5, <2>6, <2>10, <2>11, <2>12, <2>13, JudgingKeeps
<1> QED BY <1>0, <1>1, <1>2, <1>3, <1>4

LEMMA DiscoveryCustody ==
  ASSUME TypeInv, JournalInv, LedgerInv, CustodyInv, NEW a \in Attempts, att[a].op # 0, att[a].resol = "pending",
         ~alloc.retired, DiscoverOnly(a), UNCHANGED <<sv, ips, act, wire, conn, ops, att, w>>, w.pc = "idle"
  PROVE  Custodial
<1>1. conn.id = 0 /\ conn.kind = "none"
  BY DEF CustodyInv, WorkInv
<1>2. RowsKept /\ alloc'.retired = alloc.retired
  BY DiscoveryKeeps
<1>3. AttemptsSteady /\ JudgedInTurn /\ OpsSteady
  BY PlainSteady, SameOpsSteady
<1>4. /\ alloc \in [retired : BOOLEAN, server : Servers \cup {NoRes}, reserved : Types, offer : Types]
      /\ row' = [r \in Resources |-> IF r \in Claimed(a) THEN "live" ELSE row[r]]
  BY DEF TypeInv, TypeOK, JournalTypeOK, DiscoverOnly, RowAfterClaims
<1>5. \A r \in Resources : row'[r] # "none" /\ row[r] = "none" =>
        att[a].cmd \in CreateCommands /\ r \in KindOf(att[a].cmd)
  BY <1>4, ClaimsOwnKind
<1>6. \A c \in CreateCommands : SettledStep(c)
  BY <1>2, <1>5, OtherRowsStay DEF SettledStep
<1>7. alloc'.server # NoRes => row'[alloc'.server] # "none"
  BY <1>2, <1>4 DEF DiscoverOnly, Resources, CustodyInv, TargetInv, RowsKept
<1>8. WorkInv'
  BY <1>1 DEF WorkInv
<1> QED BY <1>1, <1>2, <1>3, <1>6, <1>7, <1>8, JudgingKeeps

LEMMA OperatorCustody ==
  ASSUME TypeInv, JournalInv, LedgerInv, CustodyInv, NEW k \in Ops, NEW a \in Attempts,
         CloseRefused(k, a) \/ CloseCreate(k, a) \/ RetryDelete(k, a)
  PROVE  Custodial
<1>0. /\ w.pc = "idle" /\ Active(k) /\ ops[k].intent = "cleanup" /\ ~alloc.retired
      /\ UNCHANGED <<sv, ips, act, wire, conn, ops, w>>
  BY DEF CloseRefused, CloseCreate, RetryDelete, Recoverable, ProviderUnchanged, providerVars
<1>1. CASE CloseRefused(k, a)
  BY <1>0, <1>1, DiscoveryCustody DEF CloseRefused, UncertainCreate, Source
<1>2. CASE CloseCreate(k, a)
  <2>1. /\ att[a].op = Source /\ att[a].op # 0 /\ att[a].resol = "pending" /\ att[a].cmd \in CreateCommands
        /\ Evidence(a) /\ att' = [att EXCEPT ![a].resol = "operator_closed"] /\ UNCHANGED <<row, alloc>>
    BY <1>2 DEF CloseCreate, UncertainCreate, Source
  <2>2. \A b \in Attempts : /\ b # a => att'[b] = att[b]
                            /\ att'[b].op = att[b].op /\ att'[b].cmd = att[b].cmd /\ att'[b].tgt = att[b].tgt
                            /\ att'[b].outcome = att[b].outcome /\ att'[b].res = att[b].res
                            /\ att'[b].resol = IF b = a THEN "operator_closed" ELSE att[b].resol
    BY <2>1 DEF TypeInv, TypeOK, JournalTypeOK, AttemptRecord
  <2>3. AttemptsSteady
    <3>1. \A b \in Attempts : OnWire(b) => Uncertain(b)
      BY DEF OnWire, CustodyInv, ChannelInv
    <3> QED BY <1>0, <2>1, <2>2, <3>1 DEF AttemptsSteady, Refused, Told, Uncertain
  <2>4. JudgedInTurn
    BY <1>0, <2>1, <2>2, PendingCreate DEF JudgedInTurn
  <2>5. \A c \in CreateCommands : (Rows(KindOf(c)))' = Rows(KindOf(c))
    BY <2>1 DEF Rows
  <2>6. \A c \in CreateCommands : SettledStep(c)
    <3> SUFFICES ASSUME NEW c \in CreateCommands, a \in Creates(c)
                 PROVE  ~OnWire(a) /\ \A r \in KindOf(c) : Live(r) => row[r] # "none"
      BY <2>1, <2>2, <2>5 DEF SettledStep, Creates
    <3> QED BY <2>1 DEF Evidence, OnWire, Live, Creates
  <2>7. conn.id = 0 /\ conn.kind = "none"
    BY <1>0 DEF CustodyInv, WorkInv
  <2>8. WorkInv'
    BY <1>0, <2>7 DEF WorkInv
  <2>9. alloc'.server # NoRes => row'[alloc'.server] # "none"
    BY <2>1 DEF CustodyInv, TargetInv
  <2> QED BY <1>0, <2>1, <2>2, <2>3, <2>4, <2>6, <2>7, <2>8, <2>9, SameRows, SameOpsSteady, JudgingKeeps
<1>3. CASE RetryDelete(k, a)
  <2>1. UNCHANGED <<att, row, alloc>>
    BY <1>3 DEF RetryDelete
  <2> QED BY <1>0, <2>1, SameRows, SameOpsSteady, RestKeeps
<1> QED BY <1>1, <1>2, <1>3

\* The submission ends: an answer, no answer, or the death of the worker.
LEMMA SubmissionEnds ==
  ASSUME TypeInv, JournalInv, LedgerInv, CustodyInv, UNCHANGED <<sv, ips, act, wire, ops, row, alloc>>,
         conn' = Closed, ~alloc.retired, AttemptsSteady, \A a \in Attempts : att'[a].resol = att[a].resol,
         WorkInv', w'.pc # "journal"
  PROVE  Custodial
<1>1. conn'.id = 0 /\ conn'.kind = "none"
  BY DEF Closed
<1>2. \A c \in CreateCommands : (Rows(KindOf(c)))' = Rows(KindOf(c))
  BY DEF Rows
<1>3. \A c \in CreateCommands : SettledStep(c)
  BY <1>2 DEF SettledStep, Creates
<1>4. JudgedInTurn
  BY DEF JudgedInTurn
<1>5. alloc'.server # NoRes => row'[alloc'.server] # "none"
  BY DEF CustodyInv, TargetInv
<1> QED BY <1>1, <1>3, <1>4, <1>5, SameRows, SameOpsSteady, JudgingKeeps

LEMMA CrashCustody ==
  ASSUME TypeInv, JournalInv, LedgerInv, CustodyInv, CrashStep
  PROVE  Custodial
<1>1. CASE Crash
  <2>1. /\ UNCHANGED <<sv, ips, act, wire, ops, att, row, alloc>> /\ conn' = Closed /\ w'.pc = "idle"
        /\ conn'.id = 0 /\ conn'.kind = "none"
    BY <1>1, IdleType DEF Crash, Hang, Closed
  <2>2. ~alloc.retired
    BY <1>1 DEF Crash, JournalInv, BusyWorker
  <2>3. AttemptsSteady
    <3>1. \A a \in Attempts : a # 0 /\ (OnWire(a) => Uncertain(a))
      BY DEF OnWire, CustodyInv, ChannelInv, Attempts
    <3> QED BY <2>1, <3>1 DEF AttemptsSteady, Refused, Told, Uncertain
  <2>4. WorkInv'
    BY <2>1 DEF WorkInv
  <2> QED BY <2>1, <2>2, <2>3, <2>4, SubmissionEnds
<1>2. ASSUME NEW k \in Ops, CrashAfterDiscovery(k)
      PROVE  Custodial
  <2>1. PICK a \in Attempts : DiscoverOnly(a) /\ att[a].op # 0 /\ att[a].resol = "pending"
    BY <1>2, JournalAssumption DEF CrashAfterDiscovery, Scope, Of, Ops, Source
  <2> QED BY <1>2, <2>1, DiscoveryCustody DEF CrashAfterDiscovery, Tick
<1> QED BY <1>1, <1>2 DEF CrashStep

LEMMA AnswerCustody ==
  ASSUME TypeInv, JournalInv, LedgerInv, CustodyInv, RecordAnswer \/ RecordUnknown
  PROVE  Custodial
<1> DEFINE a == w.att
<1>0. /\ att \in [Attempts -> AttemptRecord] /\ w \in WorkerRecord
      /\ conn \in [id : Attempts \cup {0}, kind : {"none", "accepted", "completed", "rejected"},
                   res : Resources \cup {NoRes}]
      /\ \A b \in Attempts : b # 0 /\ (OnWire(b) => Uncertain(b))
  BY DEF TypeInv, TypeOK, JournalTypeOK, ProviderTypeOK, OnWire, CustodyInv, ChannelInv, Attempts
<1>1. /\ w.pc = "sent" /\ UNCHANGED <<sv, ips, act, wire, ops, row, alloc>> /\ conn' = Closed
      /\ conn'.id = 0 /\ conn'.kind = "none"
  BY DEF RecordAnswer, RecordUnknown, Hang, Closed
<1>2. /\ a \in Attempts /\ att[a].outcome = "prepared" /\ ~alloc.retired
      /\ att[a].cmd = w.cmd /\ att[a].resol = "pending"
  BY <1>1 DEF JournalInv, SentAttempt, BusyWorker, CustodyInv, WorkInv
<1>3. CASE RecordAnswer
  <2>1. /\ conn.kind # "none" /\ conn.id = a
        /\ att' = [att EXCEPT ![a].outcome = conn.kind,
                              ![a].res = IF conn.kind = "rejected" THEN NoRes ELSE conn.res]
        /\ w' = IF w.cmd \in CreateCommands /\ conn.kind # "rejected"
                THEN [w EXCEPT !.pc = "claim"] ELSE Idle
    BY <1>3 DEF RecordAnswer, CustodyInv, WorkInv
  <2>2. /\ \A b \in Attempts : /\ b # a => att'[b] = att[b]
                               /\ att'[b].op = att[b].op /\ att'[b].cmd = att[b].cmd
                               /\ att'[b].tgt = att[b].tgt /\ att'[b].resol = att[b].resol
        /\ att'[a].outcome = conn.kind /\ (conn.kind # "rejected" => att'[a].res = conn.res)
    BY <1>0, <1>2, <2>1 DEF AttemptRecord
  <2>3. ~OnWire(a)
    BY <2>1 DEF CustodyInv, ChannelInv
  <2>4. AttemptsSteady
    <3> SUFFICES ASSUME NEW b \in Attempts
                 PROVE  /\ att[b].resol # "pending" => att'[b].resol = att[b].resol /\ att'[b].res = att[b].res
                        /\ att[b].outcome = "rejected" => att'[b].outcome = "rejected"
                        /\ Refused(b)' => Refused(b)
                        /\ \A r \in Resources \cup {NoRes} : Told(b, r)' => Told(b, r)
                        /\ OnWire(b) => Uncertain(b)'
                        /\ att'[b].outcome = "accepted" =>
                             att[b].outcome = "accepted" \/ (conn.id = b /\ conn.kind = "accepted")
      BY <2>2 DEF AttemptsSteady
    <3>1. CASE b = a
      BY <1>0, <1>1, <1>2, <2>1, <2>2, <2>3, <3>1 DEF Refused, Told, Receipts
    <3>2. CASE b # a
      BY <1>0, <1>1, <2>2, <3>2 DEF Refused, Told, Uncertain
    <3> QED BY <3>1, <3>2
  <2>5. WorkInv' /\ w'.pc # "journal"
    <3>1. CASE w.cmd \in CreateCommands /\ conn.kind # "rejected"
      <4>1. w'.pc = "claim" /\ w'.att = a /\ w'.cmd = w.cmd
        BY <1>0, <2>1, <3>1 DEF WorkerRecord
      <4>2. att'[a].outcome \in Receipts
        BY <1>0, <2>1, <2>2, <3>1 DEF Receipts
      <4> QED BY <1>1, <1>2, <2>2, <3>1, <4>1, <4>2 DEF WorkInv
    <3>2. CASE ~(w.cmd \in CreateCommands /\ conn.kind # "rejected")
      <4>1. w'.pc = "idle"
        BY <2>1, <3>2, IdleType
      <4> QED BY <1>1, <4>1 DEF WorkInv
    <3> QED BY <3>1, <3>2
  <2> QED BY <1>1, <1>2, <2>2, <2>4, <2>5, SubmissionEnds
<1>4. CASE RecordUnknown
  <2>1. att' = [att EXCEPT ![a].outcome = "unknown"] /\ w'.pc = "idle"
    BY <1>4, IdleType DEF RecordUnknown
  <2>2. /\ \A b \in Attempts : /\ b # a => att'[b] = att[b]
                               /\ att'[b].op = att[b].op /\ att'[b].cmd = att[b].cmd /\ att'[b].res = att[b].res
                               /\ att'[b].tgt = att[b].tgt /\ att'[b].resol = att[b].resol
        /\ att'[a].outcome = "unknown"
    BY <1>0, <1>2, <2>1 DEF AttemptRecord
  <2>3. AttemptsSteady
    <3> SUFFICES ASSUME NEW b \in Attempts
                 PROVE  /\ att[b].outcome = "rejected" => att'[b].outcome = "rejected"
                        /\ Refused(b)' => Refused(b)
                        /\ \A r \in Resources \cup {NoRes} : Told(b, r)' => Told(b, r)
                        /\ OnWire(b) => Uncertain(b)'
                        /\ att'[b].outcome = "accepted" =>
                             att[b].outcome = "accepted" \/ (conn.id = b /\ conn.kind = "accepted")
      BY <2>2 DEF AttemptsSteady
    <3>1. CASE b = a
      BY <1>0, <1>1, <1>2, <2>2, <3>1 DEF Refused, Told, Uncertain, Receipts
    <3>2. CASE b # a
      BY <1>0, <1>1, <2>2, <3>2 DEF Refused, Told, Uncertain
    <3> QED BY <3>1, <3>2
  <2>4. WorkInv'
    BY <1>1, <2>1 DEF WorkInv
  <2> QED BY <1>1, <1>2, <2>1, <2>2, <2>3, <2>4, SubmissionEnds
<1> QED BY <1>3, <1>4

LEMMA ClaimCustody ==
  ASSUME TypeInv, JournalInv, LedgerInv, CustodyInv, ClaimAnswer
  PROVE  Custodial
<1> DEFINE a == w.att
           r == att[a].res
<1>1. /\ w.pc = "claim" /\ a \in Attempts /\ att[a].op = w.op /\ w.op \in Ops /\ Active(w.op) /\ ~alloc.retired
      /\ att[a].op # 0 /\ att[a].cmd \in CreateCommands /\ att[a].resol = "pending" /\ att[a].outcome \in Receipts
      /\ conn.id = 0 /\ conn.kind = "none"
  BY DEF ClaimAnswer, JournalInv, SentAttempt, BusyWorker, CustodyInv, WorkInv, TypeInv, Ops
<1>2. UNCHANGED <<sv, ips, act, wire, conn, att>> /\ w'.pc = "idle"
  BY IdleType DEF ClaimAnswer
<1>3. r \in KindOf(att[a].cmd) /\ r \in Resources
  BY <1>1, CertainOne, TwoKinds DEF Creates
<1>4. AttemptsSteady /\ JudgedInTurn
  BY <1>2, PlainSteady
<1>5. WorkInv'
  BY <1>1, <1>2 DEF WorkInv
<1>6. /\ row \in [Resources -> {"none", "live", "absent"}]
      /\ alloc \in [retired : BOOLEAN, server : Servers \cup {NoRes}, reserved : Types, offer : Types]
  BY DEF TypeInv, TypeOK, JournalTypeOK
<1>7. /\ RowsKept /\ OpsSteady /\ alloc'.retired = alloc.retired
      /\ \A q \in Resources : row'[q] # "none" /\ row[q] = "none" => q = r
      /\ alloc'.server = alloc.server \/ row'[alloc'.server] # "none"
  <2>1. CASE row[r] = "absent"
    <3>1. SetProgress(w.op, "blocked") /\ UNCHANGED <<row, alloc>>
      BY <2>1 DEF ClaimAnswer
    <3> QED BY <1>1, <3>1, SameRows, ProgressSteady
  <2>2. CASE row[r] # "absent"
    <3>1. /\ row' = [row EXCEPT ![r] = "live"] /\ ops' = ops
          /\ alloc' = IF r \in Servers THEN [alloc EXCEPT !.server = r] ELSE alloc
      BY <2>2 DEF ClaimAnswer
    <3>2. \A q \in Resources : row'[q] = IF q = r THEN "live" ELSE row[q]
      BY <1>6, <3>1
    <3>3. RowsKept
      BY <2>2, <3>2 DEF RowsKept
    <3>4. alloc'.retired = alloc.retired /\ alloc'.server \in {alloc.server, r}
      BY <1>6, <3>1
    <3> QED BY <1>3, <3>1, <3>2, <3>3, <3>4, SameOpsSteady
  <2> QED BY <2>1, <2>2
<1>8. \A c \in CreateCommands : SettledStep(c)
  BY <1>1, <1>2, <1>3, <1>7, OtherRowsStay DEF SettledStep
<1>9. alloc'.server # NoRes => row'[alloc'.server] # "none"
  BY <1>6, <1>7 DEF CustodyInv, TargetInv, RowsKept, Resources
<1> HIDE DEF r, a
<1> QED BY <1>1, <1>2, <1>4, <1>5, <1>7, <1>8, <1>9, JudgingKeeps

\* The effect is journalled and sent: one attempt more, nobody knows its outcome.
LEMMA InsertCustody ==
  ASSUME TypeInv, JournalInv, LedgerInv, CustodyInv, w.pc = "journal", Insert,
         w.cmd = "create" => ops[w.op].intent = "run"
  PROVE  Custodial
<1>0. /\ ops \in [Ops -> OpRecord] /\ wire \subseteq Request /\ Source \in Ops /\ NoRes \notin Resources
      /\ Active(w.op) /\ ~alloc.retired /\ conn.id = 0 /\ conn.kind = "none"
  BY TwoKinds, JournalAssumption DEF TypeInv, TypeOK, JournalTypeOK, ProviderTypeOK, JournalInv, BusyWorker,
     CustodyInv, WorkInv, Source, Ops
<1>1. PICK a \in Attempts :
        /\ att[a].op = 0
        /\ att'[a].op = w.op /\ att'[a].cmd = w.cmd /\ att'[a].tgt = w.tgt
        /\ att'[a].outcome = "prepared" /\ att'[a].resol = "pending" /\ att'[a].res = NoRes
        /\ \A b \in Attempts : b # a => att'[b] = att[b]
        /\ w'.pc = "sent" /\ w'.att = a /\ w'.op = w.op /\ w'.tgt = w.tgt
        /\ w'.cmd = w.cmd
        /\ wire' = wire \cup {[id |-> a, cmd |-> w.cmd, tgt |-> w.tgt, type |-> ops[w.op].type]}
        /\ conn' = [Closed EXCEPT !.id = a]
        /\ UNCHANGED <<sv, ips, row, alloc>>
        /\ SetProgress(w.op, "active") /\ w.op \in Ops
  BY InsertFacts
<1>2. conn'.id = a /\ conn'.kind = "none" /\ act' = act /\ a # 0 /\ w.op # 0
  BY <1>1 DEF Closed, Insert, Submit, Attempts, Ops
<1>3. ~OnWire(a) /\ \A b : OnWire(b)' <=> OnWire(b) \/ b = a
  <2>1. ~OnWire(a)
    BY <1>1 DEF OnWire, CustodyInv, ChannelInv
  <2> DEFINE new == [id |-> a, cmd |-> w.cmd, tgt |-> w.tgt, type |-> ops[w.op].type]
  <2>2. wire' = wire \cup {new} /\ new.id = a
    BY <1>1
  <2> HIDE DEF new
  <2>3. ASSUME NEW b
        PROVE  OnWire(b)' <=> OnWire(b) \/ b = a
    BY <2>2 DEF OnWire
  <2> QED BY <2>1, <2>3
<1>4. \A b \in Attempts :
        /\ b # a => att'[b] = att[b] /\ (Refused(b)' => Refused(b))
        /\ \A r \in Resources \cup {NoRes} : Told(b, r)' => Told(b, r) /\ b # a
  BY <1>1, <1>2 DEF Refused, Told, Receipts
<1>5. \A c \in CreateCommands : /\ Creates(c) \subseteq (Creates(c))' /\ a \notin Creates(c)
                                /\ (Creates(c))' \subseteq Creates(c) \cup {a}
                                /\ Creates(c) \subseteq Attempts /\ KindOf(c) \subseteq Resources
  BY <1>1, <1>2, TwoKinds DEF Creates
<1>6. \A k \in Ops : /\ ops'[k].intent = ops[k].intent /\ ops'[k].kind = ops[k].kind
                     /\ ops'[k].prog = IF k = w.op THEN "active" ELSE ops[k].prog
                     /\ Active(k)' => Active(k)
  <2>1. \A k \in Ops : /\ ops'[k].intent = ops[k].intent /\ ops'[k].kind = ops[k].kind
                       /\ ops'[k].prog = IF k = w.op THEN "active" ELSE ops[k].prog
    BY <1>0, <1>1 DEF SetProgress, OpRecord
  <2> QED BY <1>0, <2>1 DEF Active
<1>7. OneActive'
  BY <1>6 DEF CustodyInv, OneActive
<1>8. WorkInv'
  BY <1>1, <1>2 DEF WorkInv
<1>9. ChannelInv'
  <2> DEFINE new == [id |-> a, cmd |-> w.cmd, tgt |-> w.tgt, type |-> ops[w.op].type]
  <2>1. \A req \in wire : req.id \in Attempts /\ req.id # a
    BY <1>0, <1>3 DEF OnWire, Request
  <2>2. \A req \in wire : /\ att'[req.id].op # 0 /\ Uncertain(req.id)'
                          /\ att'[req.id].cmd = req.cmd /\ att'[req.id].tgt = req.tgt
    BY <1>1, <2>1 DEF CustodyInv, ChannelInv, Uncertain
  <2>3. /\ att'[new.id].op # 0 /\ att'[new.id].outcome = "prepared"
        /\ att'[new.id].cmd = new.cmd /\ att'[new.id].tgt = new.tgt
    BY <1>1, <1>2
  <2>4. \A p, q \in wire' : p.id = q.id => p = q
    BY <1>1, <2>1 DEF CustodyInv, ChannelInv
  <2>5. wire' = wire \cup {new}
    BY <1>1
  <2> HIDE DEF new
  <2>6. \A req \in wire' : /\ att'[req.id].op # 0 /\ Uncertain(req.id)'
                           /\ att'[req.id].cmd = req.cmd /\ att'[req.id].tgt = req.tgt
    <3> SUFFICES ASSUME NEW req \in wire'
                 PROVE  /\ att'[req.id].op # 0 /\ Uncertain(req.id)'
                        /\ att'[req.id].cmd = req.cmd /\ att'[req.id].tgt = req.tgt
      OBVIOUS
    <3>1. CASE req \in wire BY <2>2, <3>1
    <3>2. CASE req = new BY <2>3, <3>2 DEF Uncertain
    <3> QED BY <2>5, <3>1, <3>2
  <2> QED BY <1>2, <2>4, <2>6 DEF ChannelInv, Uncertain, OnWire
<1>10. TargetInv'
  <2>1. Aimed' /\ (alloc'.server # NoRes => row'[alloc'.server] # "none")
    BY <1>1 DEF Aimed, CustodyInv, TargetInv
  <2>2. ASSUME NEW b \in Attempts, att'[b].op # 0
        PROVE  /\ att'[b].cmd # "create_primary_ip" => att'[b].tgt \in Resources /\ row'[att'[b].tgt] # "none"
               /\ att'[b].cmd = "create" => att'[b].tgt \in Ips
               /\ att'[b].cmd \notin CreateCommands =>
                    \A r \in Resources \cup {NoRes} : Told(b, r)' => r = att'[b].tgt
               /\ att'[b].resol = "confirmed" => att'[b].res \in Resources /\ row'[att'[b].res] # "none"
    <3>1. CASE b = a
      BY <1>1, <1>4, <3>1 DEF CustodyInv, TargetInv, Aimed
    <3>2. CASE b # a
      BY <1>1, <1>4, <2>2, <3>2 DEF CustodyInv, TargetInv
    <3> QED BY <3>1, <3>2
  <2> QED BY <2>1, <2>2 DEF TargetInv
<1>11. IpReceipts'
  BY <1>1, <1>2, <1>5, TwoKinds DEF CustodyInv, IpReceipts
<1>12. AttachedInv' /\ ActingInv'
  BY <1>1, <1>2 DEF CustodyInv, AttachedInv, ActingInv, WithIp
<1>13. ASSUME NEW c \in CreateCommands
       PROVE  MadeInv(c)' /\ SettledInv(c)'
  <2>1. \A r : /\ Made(r)' = Made(r) /\ Live(r)' = Live(r) /\ Seen(r)' = Seen(r)
               /\ WithIp(r)' = WithIp(r) /\ Owned(r)' = Owned(r)
    BY <1>1 DEF Made, St, Live, Seen, WithIp, Owned
  <2>2. MadeInv(c)'
    <3>1. \A r \in KindOf(c) : Made(r) => \E b \in (Creates(c))' : ~Refused(b)' /\ ~OnWire(b)'
      BY <1>3, <1>4, <1>5 DEF CustodyInv, MadeInv
    <3>2. \A b \in (Creates(c))', r \in Resources \cup {NoRes} : Told(b, r)' =>
            /\ r \in KindOf(c)
            /\ \A q \in KindOf(c) : Made(q) => q = r
            /\ r \in Servers => WithIp(r)
      BY <1>4, <1>5 DEF CustodyInv, MadeInv
    <3> QED BY <2>1, <3>1, <3>2 DEF CustodyInv, MadeInv
  <2>3. SettledInv(c)'
    <3>1. ASSUME NEW b \in (Creates(c))', att'[b].resol # "pending"
          PROVE  b \in Creates(c) /\ b # a /\ att'[b] = att[b]
      BY <1>1, <1>4, <1>5, <3>1
    <3>2. (Rows(KindOf(c)))' = Rows(KindOf(c)) /\ row' = row
      BY <1>1 DEF Rows
    <3> QED BY <1>3, <2>1, <3>1, <3>2 DEF CustodyInv, SettledInv
  <2> QED BY <2>2, <2>3
<1>14. SourceInv'
  <2>1. ASSUME ops'[Source].intent # "cleanup", NEW b \in Attempts, att'[b].op # 0, att'[b].cmd \in CreateCommands
        PROVE  att'[b].resol \in {"pending", "confirmed", "failed"}
    BY <1>0, <1>1, <1>6, <2>1 DEF CustodyInv, SourceInv
  <2>2. (Creates("create"))' # {} => (Creates("create_primary_ip"))' # {}
    <3>1. CASE w.cmd = "create"
      BY <1>5, <3>1, TwoKinds DEF CustodyInv, SourceInv
    <3>2. CASE w.cmd # "create"
      <4>1. (Creates("create"))' = Creates("create")
        BY <1>1, <1>5, <3>2, TwoKinds DEF Creates
      <4> QED BY <1>5, <4>1, TwoKinds DEF CustodyInv, SourceInv
    <3> QED BY <3>1, <3>2
  <2>3. ops'[Source].prog = "succeeded" =>
          \A c \in CreateCommands : \E b \in (Creates(c))' : att'[b].resol = "confirmed"
    <3>1. ops'[Source].prog = "succeeded" => ops[Source].prog = "succeeded"
      BY <1>0, <1>6
    <3> QED BY <1>4, <1>5, <3>1 DEF CustodyInv, SourceInv
  <2> QED BY <1>1, <2>1, <2>2, <2>3 DEF SourceInv
<1>15. CompensationInv'
  <2> SUFFICES ASSUME NEW k \in Ops, ops'[k].intent = "compensate"
               PROVE  k = Source /\ ~PossibleVm(Source)'
    BY DEF CompensationInv
  <2>1. k = Source /\ ops[Source].intent = "compensate" /\ ~PossibleVm(Source)
    BY <1>6 DEF CustodyInv, CompensationInv
  <2>2. w.op = Source => w.cmd # "create"
    BY <2>1
  <2> QED BY <1>1, <1>4, <2>1, <2>2 DEF PossibleVm, EffectOf, Of
<1>16. RetiredInv' /\ Held' = Held /\ ~alloc'.retired
  BY <1>0, <1>1, HeldSame DEF RetiredInv
<1> QED BY <1>0, <1>7, <1>8, <1>9, <1>10, <1>11, <1>12, <1>13, <1>14, <1>15, <1>16 DEF CustodyInv, Custodial

LEMMA JournalCustody ==
  ASSUME TypeInv, JournalInv, LedgerInv, CustodyInv, WorkerJournal
  PROVE  Custodial
<1>1. CASE JournalFresh \/ JournalCompensation \/ JournalCleanup
  <2>1. w.pc = "journal" /\ Insert /\ (w.cmd = "create" => ops[w.op].intent = "run")
    BY <1>1 DEF JournalFresh, JournalCompensation, JournalCleanup, CleanupEffectAllowed, DeleteCommands
  <2> QED BY <2>1, InsertCustody
<1>2. CASE JournalRefused
  <2>1. w.op \in Ops /\ Active(w.op) /\ PendingOf(w.op) = {} /\ w.pc = "journal" /\ ops[w.op].intent = "run"
    BY <1>2 DEF JournalRefused, TypeInv, JournalInv, BusyWorker, RunSettled
  <2> QED BY <1>2, <2>1, FailWithKeeps DEF JournalRefused
<1>3. CASE JournalDeferred
  <2>1. /\ UNCHANGED <<sv, ips, act, wire, conn, ops, att, row, alloc>> /\ w'.pc = "idle"
        /\ w.pc # "sent"
    BY <1>3, IdleType DEF JournalDeferred, ProviderUnchanged, providerVars
  <2> QED BY <2>1, SameRows, SameOpsSteady, RestKeeps
<1> QED BY <1>1, <1>2, <1>3, AnswerCustody, ClaimCustody DEF WorkerJournal

\* Judging a pending attempt, in a run or under a cleanup.
LEMMA JudgeCustody ==
  ASSUME TypeInv, JournalInv, LedgerInv, CustodyInv,
         ResolveNext \/ \E k \in Ops : ResolvePending(k)
  PROVE  Custodial
<1>1. ASSUME NEW k \in Ops, ResolvePending(k)
      PROVE  Custodial
  <2>1. PICK a \in PendingOf(k) : Resolve(a, k)
    BY <1>1 DEF ResolvePending
  <2>2. a \in Attempts /\ att[a].op # 0 /\ att[a].resol = "pending"
    BY DEF PendingOf, Of, Ops
  <2>3. Active(k) /\ ~alloc.retired /\ w.pc # "sent" /\ w'.pc = "idle" /\ UNCHANGED <<sv, ips, act, wire, conn>>
    BY <1>1, IdleType DEF ResolvePending, Tick, ProviderUnchanged, providerVars
  <2> QED BY <2>1, <2>2, <2>3, ResolveCustody
<1>2. CASE ResolveNext
  <2>1. /\ w.pc = "cleanup" /\ w.op \in Ops /\ Active(w.op) /\ ~alloc.retired
        /\ UNCHANGED <<sv, ips, act, wire, conn>> /\ w \in WorkerRecord
    BY <1>2 DEF ResolveNext, ProviderUnchanged, providerVars, TypeInv, TypeOK, JournalTypeOK, JournalInv,
       BusyWorker
  <2>2. PICK a \in w.todo :
          IF Unowned(a)
          THEN SetProgress(w.op, "blocked") /\ w' = Idle /\ UNCHANGED <<att, row, alloc>>
          ELSE Resolve(a, w.op) /\ w' = [w EXCEPT !.todo = @ \ {a}]
    BY <1>2 DEF ResolveNext
  <2>3. a \in Attempts /\ att[a].op # 0 /\ att[a].resol = "pending"
    BY <2>1 DEF JournalInv, CleanupWork, WorkerRecord
  <2>4. CASE Unowned(a)
    <3>1. SetProgress(w.op, "blocked") /\ w'.pc = "idle" /\ UNCHANGED <<att, row, alloc>>
      BY <2>2, <2>4, IdleType
    <3> QED BY <2>1, <3>1, SameRows, ProgressSteady, RestKeeps
  <2>5. CASE ~Unowned(a)
    <3>1. Resolve(a, w.op) /\ w'.pc = "cleanup"
      BY <2>1, <2>2, <2>5 DEF WorkerRecord
    <3> QED BY <2>1, <2>3, <3>1, ResolveCustody
  <2> QED BY <2>4, <2>5
<1> QED BY <1>1, <1>2

-----------------------------------------------------------------------------
(* The theorems                                                             *)

LEMMA StutterCustody ==
  ASSUME TypeInv, JournalInv, CustodyInv, UNCHANGED vars
  PROVE  CustodyInv' /\ Held' = Held
<1>1. UNCHANGED <<sv, ips, act, wire, conn, ops, att, row, alloc, w>>
  BY DEF vars
<1>2. Answering /\ Ending /\ ActingInv' /\ AttachedInv'
  BY <1>1 DEF Answering, Ending, Made, St, Live, Owned, CustodyInv, ActingInv, AttachedInv, WithIp
<1>3. SeenAlike'
  BY <1>1, AlikeNow DEF SeenAlike, Seen, Live
<1>4. CustodyInv'
  BY <1>1, <1>2, <1>3, EndingKeeps
<1> QED BY <1>1, <1>4, HeldSame

\* What the control plane does, in one lemma.
LEMMA ControlCustody ==
  ASSUME TypeInv, JournalInv, LedgerInv, CustodyInv, WorkerStep \/ CrashStep \/ UserStep \/ OperatorStep
  PROVE  Custodial
<1>1. CASE WorkerStep
  BY <1>1, JournalCustody, CleanupKeeps, RunKeeps, JudgeCustody, BeginCleanupKeeps DEF WorkerStep
<1>2. CASE OperatorStep
  BY <1>2, OperatorCustody DEF OperatorStep
<1> QED BY <1>1, <1>2, CrashCustody, UserKeeps

LEMMA NextCustody ==
  ASSUME TypeInv, JournalInv, LedgerInv, CustodyInv, [Next]_vars
  PROVE  CustodyInv'
BY EnvironmentCustody, ControlCustody, StutterCustody DEF Next, Custodial

LEMMA InitCustody == Init => CustodyInv
<1> SUFFICES ASSUME Init PROVE CustodyInv
  OBVIOUS
<1>1. /\ \A a \in Attempts : att[a] = Unused /\ act[a].st = "none"
      /\ wire = {} /\ conn = Closed /\ w.pc = "idle" /\ alloc.server = NoRes /\ ~alloc.retired
      /\ \A k \in Ops : ops[k].intent = "run" /\ ops[k].prog = "active" /\ (ops[k].kind # "none" => k = Source)
      /\ \A s \in Servers : sv[s].st = "none"
      /\ \A i \in Ips : ips[i].st = "none"
  BY IdleType DEF Init, ProviderInit
<1>2. Source \in Ops /\ conn.id = 0 /\ conn.kind = "none"
  BY <1>1, JournalAssumption DEF Source, Ops, Closed
<1>3. \A a \in Attempts : att[a].op = 0 /\ att[a].outcome = "prepared" /\ att[a].res = NoRes
  BY <1>1 DEF Unused
<1>4. \A c \in CreateCommands : Creates(c) = {} /\ KindOf(c) \subseteq Resources
  BY <1>3, TwoKinds DEF Creates
<1>5. \A r \in Resources : ~Made(r) /\ ~Live(r)
  BY <1>1 DEF Made, St, Live, Resources
<1>6. OneActive /\ WorkInv /\ ChannelInv /\ IpReceipts /\ AttachedInv /\ ActingInv /\ RetiredInv
  BY <1>1, <1>2, <1>4, TwoKinds DEF OneActive, WorkInv, ChannelInv, IpReceipts, AttachedInv, ActingInv,
     RetiredInv, Active
<1>7. TargetInv
  BY <1>1, <1>3 DEF TargetInv, Aimed
<1>8. \A c \in CreateCommands : MadeInv(c) /\ SettledInv(c)
  BY <1>4, <1>5 DEF MadeInv, SettledInv
<1>9. SourceInv /\ CompensationInv
  BY <1>1, <1>2, <1>3, <1>4, TwoKinds DEF SourceInv, CompensationInv
<1> QED BY <1>6, <1>7, <1>8, <1>9 DEF CustodyInv

\* What the control plane knows of the allocation is what the provider did, through
\* lost answers, late requests, crashes, delayed reads and relabelling.
THEOREM CustodyCorrect == Spec => []CustodyInv
<1>1. Init => CustodyInv BY InitCustody
<1>2. TypeInv /\ JournalInv /\ LedgerInv /\ CustodyInv /\ [Next]_vars => CustodyInv' BY NextCustody
<1> QED BY <1>1, <1>2, TypeCorrect, JournalCorrect, LedgerCorrect, PTL DEF Spec

\* A step of the lifecycle is a step of the abstract reservation, or a stutter.
LEMMA StepReserves ==
  ASSUME TypeInv, JournalInv, LedgerInv, CustodyInv, [Next]_vars
  PROVE  [Reservation!Next]_<<~alloc.retired, Held>>
<1>0. Held \subseteq Resources /\ Held' \subseteq Resources /\ alloc.retired \in BOOLEAN /\ alloc'.retired \in BOOLEAN
  BY NextType DEF Held, TypeInv, TypeOK, JournalTypeOK
<1>1. CASE EnvironmentStep
  <2>1. alloc' = alloc
    BY <1>1 DEF EnvironmentStep, DatabaseUnchanged
  <2>2. CASE alloc.retired
    <3>1. Held = {} /\ Held' \subseteq Held
      BY <1>1, <2>2, EnvironmentCustody DEF CustodyInv, RetiredInv
    <3> QED BY <2>1, <3>1
  <2>3. CASE ~alloc.retired
    <3>1. Held' \subseteq Held \/ Held \subseteq Held'
      BY <1>1, EnvironmentCustody
    <3> QED BY <1>0, <2>1, <2>3, <3>1 DEF Reservation!Next, Reservation!Gain, Reservation!Lose, Held
  <2> QED BY <2>2, <2>3
<1>2. CASE WorkerStep \/ CrashStep \/ UserStep \/ OperatorStep
  <2>1. Custodial
    BY <1>2, ControlCustody
  <2>2. CASE ~alloc'.retired
    BY <1>0, <2>1, <2>2 DEF Custodial, Reservation!Next, Reservation!Gain, Held
  <2>3. CASE alloc'.retired
    <3>1. Held' = {} /\ Held = {}
      BY <2>1, <2>3 DEF Custodial, CustodyInv, RetiredInv
    <3> QED BY <1>0, <2>3, <3>1 DEF Reservation!Next, Reservation!Release, Held
  <2> QED BY <2>2, <2>3
<1>3. CASE UNCHANGED vars
  BY <1>3, StutterCustody DEF vars
<1> QED BY <1>1, <1>2, <1>3 DEF Next

\* The lifecycle implements Custody: the reservation is released once, when the
\* provider holds nothing of the allocation, and nothing comes to it afterwards.
THEOREM ReservationKept == Spec => ReservationSpec
<1>1. Init => Reservation!Init
  BY DEF Init, ProviderInit, Reservation!Init, Live, Resources
<1>2. TypeInv /\ JournalInv /\ LedgerInv /\ CustodyInv /\ [Next]_vars =>
        [Reservation!Next]_<<~alloc.retired, {r \in Resources : Live(r) /\ Traceable(r)}>>
  BY StepReserves DEF Held
<1> QED BY <1>1, <1>2, TypeCorrect, JournalCorrect, LedgerCorrect, CustodyCorrect, PTL
        DEF Spec, ReservationSpec, Reservation!Spec

\* A create that ended succeeded owns one server and one IP, and they are all the
\* provider holds of the allocation: completion judged both creates confirmed.
LEMMA SuccessIsWhole ==
  ASSUME TypeInv, JournalInv, LedgerInv, CustodyInv
  PROVE  SuccessAccountsForAll
<1> SUFFICES ASSUME ops[Source].prog = "succeeded"
             PROVE  /\ Cardinality(Rows(Servers)) = 1 /\ Cardinality(Rows(Ips)) = 1
                    /\ \A r \in Resources : Live(r) /\ Traceable(r) => row[r] = "live"
  BY DEF SuccessAccountsForAll
<1>1. ASSUME NEW c \in CreateCommands
      PROVE  /\ Cardinality(Rows(KindOf(c))) = 1
             /\ \A r \in KindOf(c) : Live(r) /\ Owned(r) => row[r] # "none"
  <2>1. PICK a \in Creates(c) : att[a].resol = "confirmed"
    BY DEF CustodyInv, SourceInv
  <2>2. Rows(KindOf(c)) = {att[a].res} /\ \A r \in KindOf(c) : Live(r) /\ Owned(r) => row[r] # "none"
    BY <2>1 DEF CustodyInv, SettledInv
  <2> QED BY <2>2, FS_Singleton
<1>2. ASSUME NEW r \in Resources, Live(r), Traceable(r)
      PROVE  row[r] = "live"
  <2>1. row[r] # "none"
    BY <1>1, <1>2, TwoKinds DEF Traceable, Resources
  <2>2. row[r] # "absent"
    BY <1>2 DEF LedgerInv, AbsentIsGone, Live
  <2> QED BY <2>1, <2>2 DEF TypeInv, TypeOK, JournalTypeOK
<1> QED BY <1>1, <1>2, TwoKinds

\* No duplicate hides behind a success.
THEOREM SuccessAccounted == Spec => []SuccessAccountsForAll
<1>1. TypeInv /\ JournalInv /\ LedgerInv /\ CustodyInv => SuccessAccountsForAll
  BY SuccessIsWhole
<1> QED BY <1>1, TypeCorrect, JournalCorrect, LedgerCorrect, CustodyCorrect, PTL
=============================================================================
