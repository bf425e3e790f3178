---------------------------- MODULE AccessProofs ----------------------------
(***************************************************************************)
(* What access sessions and the gateway guarantee for every value of the   *)
(* constants: one signature per session, one connection per ticket, no     *)
(* session left open below a revoked grant, bounded access after a loss of *)
(* authority, and reservations within the admission limits.                *)
(*                                                                         *)
(* TypeOK is not inductive: the bounds on times rest on a call having been *)
(* answered after it began, and the records a step reads on what its       *)
(* actor has stored. ControlInv and GatewayInv add that.                   *)
(***************************************************************************)
EXTENDS AccessGateway, FiniteSetTheorems, WellFoundedInduction, TLAPS

ControlInv ==
  /\ AccessTypeOK
  /\ \A g \in Grants : g \in Chain(g)
  /\ \A s \in Sessions : Admitted(s) => ses[s].grant \in Grants /\ grants[ses[s].grant].live
  /\ machine.state # "running" => machine.version <= MaxVersion
  /\ \A w \in Workers : wk[w].pc # "idle" => wk[w].s \in Sessions

GatewayInv ==
  /\ gw \in [Conns -> ConnRecord]
  /\ claims \in [Conns -> CallRecord] /\ checks \in [Conns -> CallRecord]
  /\ closing \subseteq Conns
  /\ \A c \in Conns :
       /\ gw[c].started <= now
       /\ gw[c].pc = "new" => claims[c].st = "none" /\ checks[c].st = "none" /\ c \notin closing
       /\ gw[c].pc # "new" => gw[c].s \in Sessions
       /\ gw[c].pc \in {"checking", "connecting", "open"} => claims[c].st = "none"
       /\ claims[c].st = "leased" => gw[c].started + claims[c].rem <= MaxTime + HardLimit

TypeInv == ControlInv /\ GatewayInv /\ lostAt \in [Sessions -> Times \cup {Never}]

-----------------------------------------------------------------------------
\* A set of naturals with a member has a least one, and Min is it.
LEMMA MinNat ==
  ASSUME NEW S \in SUBSET Nat, S # {}
  PROVE  Min(S) \in S /\ Min(S) \in Nat /\ \A y \in S : Min(S) <= y
<1> DEFINE R == OpToRel(<, Nat)
<1>1. \A x, y \in Nat : <<y, x>> \in R <=> y < x
  BY DEF OpToRel
<1>2. IsWellFoundedOn(R, Nat)
  BY NatLessThanWellFounded
<1> HIDE DEF R
<1>3. PICK x \in S : \A y \in S : ~(<<y, x>> \in R)
  BY <1>2, WFMin
<1>4. ASSUME NEW y \in S PROVE x <= y
  <2>1. x \in Nat /\ y \in Nat /\ ~(<<y, x>> \in R)
    BY <1>3
  <2>2. ~(y < x)
    BY <1>1, <2>1, Zenon
  <2> QED BY <2>1, <2>2
<1> QED BY <1>4 DEF Min

LEMMA TimesNat == Times \subseteq Nat /\ MaxTime \in Nat /\ HardLimit \in Nat \ {0}
BY AccessAssumption DEF Times

\* A time no later than a time of the model is one.
LEMMA Earlier ==
  ASSUME NEW t \in Times, NEW x \in Nat, x <= t
  PROVE  x \in Times
BY TimesNat DEF Times

LEMMA MinTimes ==
  ASSUME NEW S \in SUBSET Nat, NEW t \in S, t \in Times
  PROVE  Min(S) \in Times
BY MinNat, Earlier

\* The earliest expiry above a grant.
LEMMA ExpiryFact ==
  ASSUME ControlInv, NEW g \in Grants
  PROVE  /\ Expiry(g) \in Times
         /\ \A h \in Chain(g) : Expiry(g) <= grants[h].expires
         /\ \E h \in Chain(g) : Expiry(g) = grants[h].expires
<1> DEFINE S == {grants[h].expires : h \in Chain(g)}
<1>1. Chain(g) \subseteq Grants /\ g \in Chain(g)
  BY DEF ControlInv, AccessTypeOK, GrantRecord, Chain
<1>2. \A h \in Grants : grants[h].expires \in Times
  BY DEF ControlInv, AccessTypeOK, GrantRecord
<1>3. S \in SUBSET Nat /\ S # {}
  BY <1>1, <1>2, TimesNat
<1>4. Min(S) \in S /\ \A y \in S : Min(S) <= y
  BY <1>3, MinNat
<1> QED BY <1>1, <1>2, <1>4 DEF Expiry

-----------------------------------------------------------------------------
(* Types                                                                    *)

LEMMA InitControl == Init => ControlInv
<1> SUFFICES ASSUME Init PROVE ControlInv
  OBVIOUS
<1>1. PICK e \in 1..(MaxTime + 1) :
        grants = [g \in Grants |-> [live |-> g = Root, chain |-> {g},
                                     expires |-> IF g = Root THEN e ELSE 0, revoked |-> FALSE]]
  BY DEF Init, AccessInit
<1>2. e \in Times /\ 0 \in Times /\ 0 \in 0..MaxTime
  BY AccessAssumption DEF Times
<1>3. grants \in [Grants -> GrantRecord] /\ \A g \in Grants : g \in Chain(g)
  BY <1>1, <1>2 DEF GrantRecord, Chain
<1>4. machine \in MachineRecord /\ machine.state = "running"
  BY AccessAssumption DEF Init, AccessInit, MachineRecord
<1>5. ses \in [Sessions -> SessionRecord] /\ \A s \in Sessions : ~Admitted(s)
  BY <1>2, AccessAssumption DEF Init, AccessInit, NoSessionYet, SessionRecord, Admitted
<1>6. wk \in [Workers -> WorkerRecord] /\ \A w \in Workers : wk[w].pc = "idle"
  BY <1>2 DEF Init, AccessInit, IdleWorker, WorkerRecord
<1>7. lock \in [Sessions -> Workers \cup {NoWorker}] /\ signings \in [Sessions -> Nat] /\ now \in 0..MaxTime
  BY <1>2 DEF Init, AccessInit
<1> QED BY <1>3, <1>4, <1>5, <1>6, <1>7 DEF ControlInv, AccessTypeOK

LEMMA InitType == Init => TypeInv
<1> SUFFICES ASSUME Init PROVE TypeInv
  OBVIOUS
<1>1. 0 \in Times /\ now = 0
  BY AccessAssumption DEF Times, Init, AccessInit
<1>2. GatewayInv
  BY <1>1, AccessAssumption DEF Init, GatewayInv, ConnRecord, CallRecord, NoCall
<1>3. lostAt \in [Sessions -> Times \cup {Never}]
  BY DEF Init
<1> QED BY <1>2, <1>3, InitControl DEF TypeInv

\* Closing a session touches its connection only.
LEMMA ClosedType ==
  ASSUME NEW r \in SessionRecord
  PROVE  /\ Closed(r) \in SessionRecord
         /\ Closed(r).issuance = r.issuance /\ Closed(r).grant = r.grant
         /\ Closed(r).version = r.version /\ Closed(r).by = r.by
         /\ Closed(r).admitted = r.admitted /\ Closed(r).hard = r.hard
         /\ Closed(r).ticketBy = r.ticketBy
         /\ Closed(r).conn = IF r.issuance = "none" THEN r.conn ELSE "closed"
BY DEF Closed, SessionRecord

LEMMA AuthorityType ==
  ASSUME ControlInv,
         \/ \E g, p \in Grants, e \in 1..MaxTime : IssueGrant(g, p, e)
         \/ \E a, g \in Grants : RevokeGrant(a, g)
         \/ BeginOperation \/ EndOperation \/ AdmitDestroy
  PROVE  ControlInv' /\ now' = now
<1> USE DEF ControlInv, AccessTypeOK
<1>1. ASSUME NEW g \in Grants, NEW p \in Grants, NEW e \in 1..MaxTime, IssueGrant(g, p, e)
      PROVE  ControlInv' /\ now' = now
  <2>1. e \in Times
    BY AccessAssumption DEF Times
  <2>2. grants' \in [Grants -> GrantRecord]
    BY <1>1, <2>1 DEF IssueGrant, GrantRecord, Chain
  <2>3. \A h \in Grants : h \in Chain(h)' /\ (grants[h].live => grants'[h].live)
    BY <1>1 DEF IssueGrant, GrantRecord, Chain
  <2> QED BY <1>1, <2>2, <2>3 DEF IssueGrant, AccessUnchanged, Admitted
<1>2. ASSUME NEW a \in Grants, NEW g \in Grants, RevokeGrant(a, g)
      PROVE  ControlInv' /\ now' = now
  <2>0. grants' = [grants EXCEPT ![g].revoked = TRUE]
    BY <1>2 DEF RevokeGrant
  <2>1a. grants' \in [Grants -> GrantRecord]
    BY <2>0 DEF GrantRecord
  <2>1b. \A h \in Grants : grants'[h].live = grants[h].live /\ grants'[h].chain = grants[h].chain
    BY <2>0 DEF GrantRecord
  <2>1. grants' \in [Grants -> GrantRecord]
        /\ \A h \in Grants : h \in Chain(h)' /\ grants'[h].live = grants[h].live
    BY <2>1a, <2>1b DEF Chain
  <2>2. ses' \in [Sessions -> SessionRecord]
        /\ \A s \in Sessions : ses'[s].issuance = ses[s].issuance /\ ses'[s].grant = ses[s].grant
    BY <1>2, ClosedType DEF RevokeGrant
  <2> QED BY <1>2, <2>1, <2>2 DEF RevokeGrant, Admitted
<1>3. CASE BeginOperation
  BY <1>3, AccessAssumption DEF BeginOperation, AccessUnchanged, MachineRecord, Chain, Admitted
<1>4. CASE EndOperation
  BY <1>4, AccessAssumption DEF EndOperation, AccessUnchanged, MachineRecord, Chain, Admitted
<1>5. CASE AdmitDestroy
  <2>1. ses' \in [Sessions -> SessionRecord]
        /\ \A s \in Sessions : ses'[s].issuance = ses[s].issuance /\ ses'[s].grant = ses[s].grant
    BY <1>5, ClosedType DEF AdmitDestroy
  <2>2. machine' \in MachineRecord /\ machine'.version <= MaxVersion
    BY <1>5, AccessAssumption DEF AdmitDestroy, MachineRecord
  <2> QED BY <1>5, <2>1, <2>2 DEF AdmitDestroy, Chain, Admitted
<1> QED BY <1>1, <1>2, <1>3, <1>4, <1>5

LEMMA AdmitType ==
  ASSUME ControlInv, NEW s \in Sessions, NEW g \in Grants, Admit(s, g)
  PROVE  ControlInv' /\ now' = now
<1>1. Min({now + HardLimit, Expiry(g)}) \in Times
  <2>1. now \in Nat /\ now + HardLimit \in Nat
    BY TimesNat DEF ControlInv, AccessTypeOK
  <2>2. Expiry(g) \in Times
    BY ExpiryFact
  <2> QED BY <2>1, <2>2, MinTimes, TimesNat
<1>2. now \in Times /\ machine.version \in 0..(MaxVersion + 1) /\ grants[g].live
  BY AccessAssumption DEF Times, ControlInv, AccessTypeOK, MachineRecord, Admit, Authority
<1>3. ses'[s] \in SessionRecord /\ ses'[s].grant = g
  <2>1. 0 \in Times
    BY AccessAssumption DEF Times
  <2>2. ses'[s] = [NoSessionYet EXCEPT !.issuance = "pending", !.grant = g,
                     !.version = machine.version, !.admitted = now,
                     !.hard = Min({now + HardLimit, Expiry(g)})]
    BY DEF Admit, ControlInv, AccessTypeOK
  <2>3. ses'[s] = [issuance |-> "pending", grant |-> g, version |-> machine.version,
                    admitted |-> now, hard |-> Min({now + HardLimit, Expiry(g)}),
                    ticketBy |-> 0, certBy |-> 0, conn |-> "unclaimed", by |-> NoConn]
    BY <2>2 DEF NoSessionYet
  <2> QED BY <1>1, <1>2, <2>1, <2>3 DEF SessionRecord
<1>4. ses' \in [Sessions -> SessionRecord] /\ \A r \in Sessions \ {s} : ses'[r] = ses[r]
  BY <1>3 DEF Admit, ControlInv, AccessTypeOK
<1> QED BY <1>2, <1>3, <1>4 DEF Admit, ControlInv, AccessTypeOK, Admitted, Chain

\* The fields of a session that are decided at admission, and its connection.
TermsKept(s) ==
  /\ ses'[s].grant = ses[s].grant /\ ses'[s].version = ses[s].version
  /\ ses'[s].admitted = ses[s].admitted /\ ses'[s].hard = ses[s].hard
ConnKept(s) == ses'[s].conn = ses[s].conn /\ ses'[s].by = ses[s].by

\* A pass of a worker: what it leaves alone, and the records it writes.
WorkerEffect(w) ==
  /\ now' = now /\ grants' = grants /\ machine' = machine
  /\ ses' \in [Sessions -> SessionRecord]
  /\ \A s \in Sessions :
       TermsKept(s) /\ ConnKept(s) /\ (ses'[s].issuance = "none" <=> ses[s].issuance = "none")
  /\ lock' \in [Sessions -> Workers \cup {NoWorker}]
  /\ wk' \in [Workers -> WorkerRecord]
  /\ \A v \in Workers : wk'[v].pc # "idle" => wk'[v].s \in Sessions
  /\ signings' \in [Sessions -> Nat]

LEMMA FinishType ==
  ASSUME ControlInv, NEW w \in Workers, Finish(w)
  PROVE  /\ lock' \in [Sessions -> Workers \cup {NoWorker}]
         /\ wk' \in [Workers -> WorkerRecord]
         /\ \A v \in Workers : wk'[v].pc # "idle" => wk'[v].s \in Sessions
<1>1. IdleWorker \in WorkerRecord /\ IdleWorker.pc = "idle"
  BY AccessAssumption DEF IdleWorker, WorkerRecord, Times
<1> QED BY <1>1 DEF Finish, ControlInv, AccessTypeOK

LEMMA SetIssuanceType ==
  ASSUME ControlInv, NEW s \in Sessions, Admitted(s), NEW kind \in {"attempted", "unavailable"},
         SetIssuance(s, kind)
  PROVE  /\ ses' \in [Sessions -> SessionRecord]
         /\ \A r \in Sessions :
              TermsKept(r) /\ ConnKept(r) /\ (ses'[r].issuance = "none" <=> ses[r].issuance = "none")
<1>1. ses \in [Sessions -> SessionRecord] /\ ses' = [ses EXCEPT ![s].issuance = kind]
  BY DEF SetIssuance, ControlInv, AccessTypeOK
<1>2. ses' \in [Sessions -> SessionRecord]
  BY <1>1 DEF SessionRecord
<1>3. \A r \in Sessions \ {s} : ses'[r] = ses[r]
  BY <1>1
<1>4. TermsKept(s) /\ ConnKept(s) /\ ses'[s].issuance = kind
  BY <1>1 DEF SessionRecord, TermsKept, ConnKept
<1> QED BY <1>2, <1>3, <1>4 DEF TermsKept, ConnKept, Admitted

LEMMA WorkerKeeps ==
  ASSUME ControlInv, NEW w \in Workers, WorkerEffect(w)
  PROVE  ControlInv' /\ now' = now
BY DEF WorkerEffect, TermsKept, ControlInv, AccessTypeOK, Admitted, Chain

LEMMA WorkerPass ==
  ASSUME ControlInv, NEW w \in Workers,
         \/ \E s \in Sessions : Prepare(w, s)
         \/ WorkerStep(w) \/ WorkerStops(w) \/ LockLost(w)
  PROVE  WorkerEffect(w)
<1>0. /\ wk \in [Workers -> WorkerRecord] /\ ses \in [Sessions -> SessionRecord]
      /\ lock \in [Sessions -> Workers \cup {NoWorker}] /\ signings \in [Sessions -> Nat]
      /\ now \in 0..MaxTime
      /\ \A v \in Workers : wk[v].pc # "idle" => wk[v].s \in Sessions
      /\ \A s \in Sessions : Admitted(s) => ses[s].grant \in Grants
  BY DEF ControlInv, AccessTypeOK
<1>1. ASSUME NEW s \in Sessions, Prepare(w, s) PROVE WorkerEffect(w)
  <2>1. Admitted(s) /\ "unavailable" \in {"attempted", "unavailable"}
    BY <1>0, <1>1 DEF Prepare, Admitted
  <2>2a. 0 \in Times
    BY AccessAssumption DEF Times
  <2>2. [IdleWorker EXCEPT !.pc = "prepared", !.s = s] \in WorkerRecord
    BY <2>2a DEF IdleWorker, WorkerRecord
  <2>3. [IdleWorker EXCEPT !.pc = "prepared", !.s = s].s = s
    BY DEF IdleWorker
  <2>4. CASE ses' = ses
    BY <1>0, <1>1, <2>2, <2>3, <2>4 DEF Prepare, Outside, WorkerEffect, TermsKept, ConnKept, SetIssuance
  <2>5. CASE SetIssuance(s, "unavailable") /\ UNCHANGED <<lock, wk>>
    BY <1>0, <1>1, <2>1, <2>5, SetIssuanceType DEF Prepare, Outside, WorkerEffect
  <2> QED BY <1>0, <1>1, <2>4, <2>5 DEF Prepare
<1>2. CASE Observe(w)
  <2>1. wk[w].s \in Sessions
    BY <1>0, <1>2 DEF Observe
  <2>2. CASE Move(w, "observed") /\ UNCHANGED ses
    BY <1>0, <1>2, <2>2 DEF Observe, Move, Outside, WorkerEffect, TermsKept, ConnKept, WorkerRecord
  <2>3. CASE ses' = ses /\ Finish(w)
    BY <1>0, <1>2, <2>3, FinishType DEF Observe, Outside, WorkerEffect, TermsKept, ConnKept
  <2>4. CASE Undecided(wk[w].s) /\ SetIssuance(wk[w].s, "unavailable") /\ Finish(w)
    <3>1. Admitted(wk[w].s) /\ "unavailable" \in {"attempted", "unavailable"}
      BY <1>0, <2>4 DEF Undecided, Admitted
    <3> QED BY <1>0, <1>2, <2>1, <2>4, <3>1, FinishType, SetIssuanceType DEF Observe, Outside, WorkerEffect
  <2> QED BY <1>0, <1>2, <2>2, <2>3, <2>4 DEF Observe
<1>3. CASE Attempt(w)
  <2> DEFINE s == wk[w].s
  <2>1. s \in Sessions
    BY <1>0, <1>3 DEF Attempt
  <2>2. CASE /\ ses[s].issuance = "pending" /\ SetIssuance(s, "attempted") /\ lock' = lock
             /\ wk' = [wk EXCEPT ![w].pc = "attempted", ![w].at = now]
    <3>1. Admitted(s) /\ "attempted" \in {"attempted", "unavailable"} /\ now \in Times
      BY <1>0, <2>2, AccessAssumption DEF Admitted, Times
    <3>2. wk' \in [Workers -> WorkerRecord] /\ \A v \in Workers : wk'[v].pc # "idle" => wk'[v].s \in Sessions
      BY <1>0, <2>1, <2>2, <3>1 DEF WorkerRecord
    <3> QED BY <1>0, <1>3, <2>1, <2>2, <3>1, <3>2, SetIssuanceType DEF Attempt, Outside, WorkerEffect
  <2>3. CASE Undecided(s) /\ SetIssuance(s, "unavailable") /\ Finish(w)
    <3>1. Admitted(s) /\ "unavailable" \in {"attempted", "unavailable"}
      BY <1>0, <2>3 DEF Undecided, Admitted
    <3> QED BY <1>0, <1>3, <2>1, <2>3, <3>1, FinishType, SetIssuanceType DEF Attempt, Outside, WorkerEffect
  <2>4. CASE ses' = ses /\ Finish(w)
    BY <1>0, <1>3, <2>4, FinishType DEF Attempt, Outside, WorkerEffect, TermsKept, ConnKept
  <2> QED BY <1>0, <1>3, <2>2, <2>3, <2>4 DEF Attempt, Undecided
<1>4. CASE Sign(w)
  <2> DEFINE s == wk[w].s
  <2>1. s \in Sessions
    BY <1>0, <1>4 DEF Sign
  <2>2. Min({wk[w].at + CertLife, ses[s].hard}) \in Times /\ 0 \in Times
    <3>0. wk[w].at \in Times /\ ses[s].hard \in Times /\ CertLife \in Nat
      BY <1>0, <2>1, AccessAssumption DEF WorkerRecord, SessionRecord
    <3>1a. wk[w].at \in Nat
      BY <3>0, TimesNat
    <3>1. wk[w].at + CertLife \in Nat /\ ses[s].hard \in Times
      BY <3>0, <3>1a
    <3> QED BY <1>0, <3>1, MinTimes, TimesNat, AccessAssumption DEF Times
  <2>3. PICK t \in Times : wk' = [wk EXCEPT ![w].pc = "signed", ![w].until = t]
    BY <1>0, <1>4, <2>2 DEF Sign
  <2>4. wk' \in [Workers -> WorkerRecord] /\ \A v \in Workers : wk'[v].pc # "idle" => wk'[v].s \in Sessions
    BY <1>0, <2>1, <2>3 DEF WorkerRecord
  <2> QED BY <1>0, <1>4, <2>1, <2>4 DEF Sign, Outside, WorkerEffect, TermsKept, ConnKept
<1>5. CASE Publish(w)
  <2> DEFINE s == wk[w].s
             t == Min({now + TicketWindow, IssueBy(s), ses[s].hard, Expiry(ses[s].grant)})
  <2>1. s \in Sessions /\ Finish(w)
    BY <1>0, <1>5 DEF Publish
  <2>2. CASE ses' = ses
    BY <1>0, <1>5, <2>1, <2>2, FinishType DEF Publish, Outside, WorkerEffect, TermsKept, ConnKept
  <2>3. CASE ses[s].issuance = "attempted" /\ SetIssuance(s, "unavailable")
    <3>1. Admitted(s) /\ "unavailable" \in {"attempted", "unavailable"}
      BY <1>0, <2>3 DEF Admitted
    <3> QED BY <1>0, <1>5, <2>1, <2>3, <3>1, FinishType, SetIssuanceType DEF Publish, Outside, WorkerEffect
  <2>4. CASE /\ ses[s].issuance = "attempted"
             /\ ses' = [ses EXCEPT ![s].issuance = "issued", ![s].certBy = wk[w].until, ![s].ticketBy = t]
    <3>1. ses[s].grant \in Grants /\ ses[s].hard \in Times /\ ses[s].admitted \in Nat
      BY <1>0, <2>1, <2>4, TimesNat DEF Admitted, SessionRecord
    <3>2a. Expiry(ses[s].grant) \in Nat
      BY <3>1, ExpiryFact, TimesNat
    <3>2. now + TicketWindow \in Nat /\ IssueBy(s) \in Nat /\ Expiry(ses[s].grant) \in Nat
      BY <1>0, <3>1, <3>2a, AccessAssumption DEF IssueBy
    <3>3. t \in Times
      BY <1>0, <3>1, <3>2, MinTimes, TimesNat
    <3>4. wk[w].until \in Times
      BY <1>0 DEF WorkerRecord
    <3>5. /\ ses' \in [Sessions -> SessionRecord]
          /\ \A r \in Sessions :
               TermsKept(r) /\ ConnKept(r) /\ (ses'[r].issuance = "none" <=> ses[r].issuance = "none")
      <4>1. ses' \in [Sessions -> SessionRecord]
        BY <1>0, <2>1, <2>4, <3>3, <3>4 DEF SessionRecord
      <4>2. \A r \in Sessions \ {s} : ses'[r] = ses[r]
        BY <1>0, <2>1, <2>4
      <4>3. TermsKept(s) /\ ConnKept(s) /\ ses'[s].issuance = "issued"
        BY <1>0, <2>1, <2>4 DEF SessionRecord, TermsKept, ConnKept
      <4> QED BY <2>4, <4>1, <4>2, <4>3 DEF TermsKept, ConnKept
    <3> QED BY <1>0, <1>5, <2>1, <3>5, FinishType DEF Publish, Outside, WorkerEffect, TermsKept, ConnKept
  <2> QED BY <1>0, <1>5, <2>2, <2>3, <2>4 DEF Publish
<1>6. CASE WorkerStops(w)
  BY <1>0, <1>6, FinishType DEF WorkerStops, Outside, WorkerEffect, TermsKept, ConnKept
<1>7. CASE LockLost(w)
  BY <1>0, <1>7 DEF LockLost, Outside, WorkerEffect, TermsKept, ConnKept
<1> QED BY <1>0, <1>1, <1>2, <1>3, <1>4, <1>5, <1>6, <1>7 DEF WorkerStep

LEMMA WorkerType ==
  ASSUME ControlInv, NEW w \in Workers,
         \/ \E s \in Sessions : Prepare(w, s)
         \/ WorkerStep(w) \/ WorkerStops(w) \/ LockLost(w)
  PROVE  ControlInv' /\ now' = now
BY WorkerPass, WorkerKeeps

LEMMA ControlStepType ==
  ASSUME TypeInv, ControlStep
  PROVE  ControlInv' /\ GatewayInv'
<1>1. ControlInv' /\ now' = now
  BY AuthorityType, AdmitType, WorkerType DEF ControlStep, TypeInv
<1> QED BY <1>1 DEF ControlStep, gatewayVars, TypeInv, GatewayInv

\* The remaining time of a session the control plane finds valid.
LEMMA RemainingType ==
  ASSUME ControlInv, NEW s \in Sessions, Current(s), now < ses[s].hard
  PROVE  Remaining(s) \in Times /\ now + Remaining(s) <= MaxTime + HardLimit
<1>1. ses[s].grant \in Grants /\ ses[s].hard \in Times /\ now \in Nat
  BY DEF ControlInv, AccessTypeOK, SessionRecord, Current, Authority
<1>2. Expiry(ses[s].grant) \in Times /\ now < Expiry(ses[s].grant)
  BY <1>1, ExpiryFact DEF Current, Authority
<1> DEFINE S == {ses[s].hard, Expiry(ses[s].grant)}
<1>3. Min(S) \in S /\ Min(S) \in Times /\ Min(S) \in Nat
  BY <1>1, <1>2, MinNat, TimesNat
<1>4. now < Min(S)
  BY <1>1, <1>2, <1>3
<1> HIDE DEF S
<1>5. Min(S) - now \in Times /\ now + (Min(S) - now) <= MaxTime + HardLimit
  BY <1>1, <1>3, <1>4, TimesNat DEF Times
<1> QED BY <1>5 DEF Remaining, S

\* A refreshed lease: the hard deadline only shrinks.
LEMMA RefreshedType ==
  ASSUME ControlInv, GatewayInv, NEW c \in Conns
  PROVE  /\ Refreshed(c) \in ConnRecord
         /\ Refreshed(c).pc = gw[c].pc /\ Refreshed(c).s = gw[c].s
         /\ Refreshed(c).started = gw[c].started
         /\ Refreshed(c).until <= gw[c].started + Lease
<1>1. gw[c] \in ConnRecord /\ checks[c] \in CallRecord
  BY DEF GatewayInv
<1>2. gw[c].hard \in Times /\ gw[c].started \in Nat /\ checks[c].rem \in Nat /\ Lease \in Nat
  BY <1>1, TimesNat, GatewayAssumption DEF ConnRecord, CallRecord
<1> DEFINE hard == Min({gw[c].hard, gw[c].started + checks[c].rem})
           until == Min({hard, gw[c].started + Lease})
<1>3. gw[c].started + checks[c].rem \in Nat /\ gw[c].started + Lease \in Nat
  BY <1>2
<1>4. hard \in Times
  BY <1>2, <1>3, MinTimes, TimesNat
<1>5. until \in Times /\ until <= gw[c].started + Lease
  <2> HIDE DEF hard
  <2> QED BY <1>3, <1>4, MinTimes, MinNat, TimesNat
<1>6. Refreshed(c) = [gw[c] EXCEPT !.hard = hard, !.until = until]
  BY DEF Refreshed
<1> HIDE DEF hard, until
<1> QED BY <1>1, <1>4, <1>5, <1>6 DEF ConnRecord

\* What a connection may become.
ConnOK(c) ==
  /\ gw'[c] \in ConnRecord /\ claims'[c] \in CallRecord /\ checks'[c] \in CallRecord
  /\ gw'[c].started <= now
  /\ gw'[c].pc # "new" /\ gw'[c].s \in Sessions
  /\ gw'[c].pc \in {"checking", "connecting", "open"} => claims'[c].st = "none"
  /\ claims'[c].st = "leased" => gw'[c].started + claims'[c].rem <= MaxTime + HardLimit

\* Only connection c moves.
Alone(c) ==
  /\ gw' \in [Conns -> ConnRecord] /\ claims' \in [Conns -> CallRecord]
  /\ checks' \in [Conns -> CallRecord]
  /\ \A d \in Conns \ {c} : gw'[d] = gw[d] /\ claims'[d] = claims[d] /\ checks'[d] = checks[d]
  /\ closing' \subseteq closing \cup {c}
  /\ now' = now

LEMMA AloneKeeps ==
  ASSUME GatewayInv, NEW c \in Conns, Alone(c), ConnOK(c)
  PROVE  GatewayInv'
BY DEF GatewayInv, Alone, ConnOK

LEMMA EndOK ==
  ASSUME TypeInv, NEW c \in Conns, gw[c].pc # "new", End(c),
         claims' = claims \/ claims' = [claims EXCEPT ![c] = NoCall],
         closing' \subseteq closing \cup {c}, now' = now
  PROVE  Alone(c) /\ ConnOK(c)
<1>1. 0 \in Times /\ now \in Nat /\ gw[c] \in ConnRecord /\ gw[c].s \in Sessions
  BY AccessAssumption DEF Times, TypeInv, ControlInv, AccessTypeOK, GatewayInv
<1>2. Ended(gw[c]) \in ConnRecord /\ Ended(gw[c]).started = 0 /\ Ended(gw[c]).pc = "done"
      /\ Ended(gw[c]).s = gw[c].s
  BY <1>1 DEF Ended, ConnRecord
<1>3. NoCall \in CallRecord /\ NoCall.st = "none"
  BY <1>1 DEF NoCall, CallRecord
<1>4. /\ gw \in [Conns -> ConnRecord] /\ claims \in [Conns -> CallRecord]
      /\ checks \in [Conns -> CallRecord] /\ gw[c].started \in Nat /\ claims[c].rem \in Nat
      /\ claims[c].st = "leased" => gw[c].started + claims[c].rem <= MaxTime + HardLimit
  BY <1>1, TimesNat DEF TypeInv, GatewayInv, ConnRecord, CallRecord
<1>5. Alone(c)
  BY <1>2, <1>3, <1>4 DEF Alone, End
<1>6. gw'[c] = Ended(gw[c]) /\ checks'[c] = NoCall /\ (claims'[c] = claims[c] \/ claims'[c] = NoCall)
  BY <1>4 DEF End
<1>7. claims'[c].st = "leased" => 0 + claims'[c].rem <= MaxTime + HardLimit
  BY <1>3, <1>4, <1>6, TimesNat
<1> QED BY <1>1, <1>2, <1>3, <1>4, <1>5, <1>6, <1>7 DEF ConnOK

\* A gateway call changes at most the connection of a session.
SessionsKept ==
  /\ ses' \in [Sessions -> SessionRecord]
  /\ \A s \in Sessions :
       ses'[s].issuance = ses[s].issuance /\ ses'[s].ticketBy = ses[s].ticketBy /\ TermsKept(s)
  /\ now' = now /\ grants' = grants /\ machine' = machine /\ lock' = lock /\ wk' = wk
  /\ signings' = signings

LEMMA SessionsKeptControl ==
  ASSUME ControlInv, SessionsKept PROVE ControlInv'
BY DEF SessionsKept, TermsKept, ControlInv, AccessTypeOK, Admitted, Chain

LEMMA ClaimKept ==
  ASSUME ControlInv, NEW s \in Sessions, NEW c \in Conns, Claim(s, c),
         UNCHANGED <<now, grants, machine, lock, wk, signings>>
  PROVE  SessionsKept
<1>1. ses \in [Sessions -> SessionRecord]
  BY DEF ControlInv, AccessTypeOK
<1>2. ses' = [ses EXCEPT ![s].conn = "claimed", ![s].by = c]
  BY DEF Claim
<1> DEFINE r == [ses[s] EXCEPT !.conn = "claimed", !.by = c]
<1>3. r \in SessionRecord /\ r.issuance = ses[s].issuance /\ r.grant = ses[s].grant
      /\ r.ticketBy = ses[s].ticketBy /\ r.version = ses[s].version
      /\ r.admitted = ses[s].admitted /\ r.hard = ses[s].hard
  BY <1>1 DEF SessionRecord
<1>4. ses' = [ses EXCEPT ![s] = r]
  BY <1>1, <1>2
<1> HIDE DEF r
<1> QED BY <1>1, <1>3, <1>4 DEF SessionsKept, TermsKept

LEMMA CloseKept ==
  ASSUME ControlInv, NEW s \in Sessions, NEW c \in Conns, CloseSession(s, c),
         UNCHANGED <<now, grants, machine, lock, wk, signings>>
  PROVE  SessionsKept
<1>1. ses \in [Sessions -> SessionRecord]
  BY DEF ControlInv, AccessTypeOK
<1> QED BY <1>1, ClosedType DEF CloseSession, SessionsKept, TermsKept

LEMMA SameControl ==
  ASSUME ControlInv, UNCHANGED controlVars PROVE SessionsKept
BY DEF controlVars, SessionsKept, TermsKept, ControlInv, AccessTypeOK

LEMMA ConnectionType ==
  ASSUME TypeInv, NEW c \in Conns, ConnectionStep(c)
  PROVE  SessionsKept /\ Alone(c) /\ ConnOK(c)
<1>0. /\ gw \in [Conns -> ConnRecord] /\ claims \in [Conns -> CallRecord]
      /\ checks \in [Conns -> CallRecord] /\ closing \subseteq Conns
      /\ gw[c].started <= now
      /\ gw[c].pc = "new" => claims[c].st = "none" /\ checks[c].st = "none" /\ c \notin closing
      /\ gw[c].pc # "new" => gw[c].s \in Sessions
      /\ gw[c].pc \in {"checking", "connecting", "open"} => claims[c].st = "none"
      /\ claims[c].st = "leased" => gw[c].started + claims[c].rem <= MaxTime + HardLimit
      /\ ControlInv /\ now \in 0..MaxTime
  BY DEF TypeInv, GatewayInv, ControlInv, AccessTypeOK
<1>00. /\ 0 \in Times /\ now \in Times /\ now \in Nat /\ gw[c].started \in Nat
       /\ NoCall \in CallRecord /\ NoCall.st = "none"
  BY <1>0, TimesNat, AccessAssumption DEF Times, NoCall, CallRecord, ConnRecord
<1>1. ASSUME NEW s \in Sessions, Upgrade(c, s) PROVE SessionsKept /\ Alone(c) /\ ConnOK(c)
  <2>1. SessionsKept
    BY <1>0, <1>1, SameControl DEF Upgrade
  <2>2. gw' = [gw EXCEPT ![c].pc = "claiming", ![c].s = s, ![c].started = now]
        /\ claims' = [claims EXCEPT ![c].st = "sent"] /\ checks' = checks /\ closing' = closing
    BY <1>1 DEF Upgrade
  <2>3. gw' \in [Conns -> ConnRecord] /\ gw'[c].started = now /\ gw'[c].pc = "claiming"
        /\ gw'[c].s = s /\ \A d \in Conns \ {c} : gw'[d] = gw[d]
    BY <1>0, <1>00, <2>2 DEF ConnRecord
  <2>4. claims' \in [Conns -> CallRecord] /\ claims'[c].st = "sent"
        /\ \A d \in Conns \ {c} : claims'[d] = claims[d]
    BY <1>0, <2>2 DEF CallRecord
  <2> QED BY <1>0, <1>00, <2>1, <2>2, <2>3, <2>4 DEF Alone, ConnOK, SessionsKept
<1>2. CASE ServeClaim(c)
  <2>1. SessionsKept /\ gw' = gw /\ checks' = checks /\ closing' = closing
    BY <1>0, <1>2, SameControl DEF ServeClaim
  <2>2. claims' \in [Conns -> CallRecord] /\ claims'[c].st # "leased"
        /\ \A d \in Conns \ {c} : claims'[d] = claims[d]
    BY <1>0, <1>2 DEF ServeClaim, CallRecord
  <2>3. gw[c].pc \notin {"new", "checking", "connecting", "open"}
    BY <1>0, <1>2 DEF ServeClaim
  <2> QED BY <1>0, <2>1, <2>2, <2>3 DEF Alone, ConnOK, SessionsKept
<1>3. CASE CommitClaim(c)
  <2> DEFINE s == gw[c].s
  <2>1. s \in Sessions /\ gw' = gw /\ checks' = checks /\ closing' = closing /\ now' = now
        /\ gw[c].pc \notin {"new", "checking", "connecting", "open"}
    BY <1>0, <1>3 DEF CommitClaim
  <2>2. CASE Claim(s, c) /\ claims' = [claims EXCEPT ![c] = [st |-> "leased", rem |-> Remaining(s)]]
    <3>1. Current(s) /\ now < ses[s].hard
      <4>1. ses[s] \in SessionRecord
        BY <1>0, <2>1 DEF ControlInv, AccessTypeOK
      <4>2. ses[s].ticketBy \in Nat /\ ses[s].certBy \in Nat /\ ses[s].hard \in Nat
        BY <4>1, TimesNat DEF SessionRecord
      <4> DEFINE S == {ses[s].ticketBy, ses[s].certBy, ses[s].hard}
      <4>3. Min(S) \in Nat /\ Min(S) <= ses[s].hard
        BY <4>2, MinNat
      <4>4. Current(s) /\ now < Min(S)
        BY <2>2 DEF Claim, Claimable
      <4> HIDE DEF S
      <4> QED BY <1>00, <4>2, <4>3, <4>4
    <3>2. Remaining(s) \in Times /\ now + Remaining(s) <= MaxTime + HardLimit
      BY <1>0, <2>1, <3>1, RemainingType
    <3>3a. Remaining(s) \in Nat
      BY <3>2, TimesNat
    <3>3. gw[c].started + Remaining(s) <= MaxTime + HardLimit
      <4> DEFINE r == Remaining(s)
                 t == gw[c].started
      <4>1. r \in Nat /\ t \in Nat /\ t <= now /\ now + r <= MaxTime + HardLimit
        BY <1>0, <1>00, <3>2, <3>3a
      <4> HIDE DEF r, t
      <4>2. t + r <= MaxTime + HardLimit
        BY <1>00, <4>1, TimesNat
      <4> QED BY <4>2 DEF r, t
    <3>4. Alone(c) /\ ConnOK(c)
      <4>1. [st |-> "leased", rem |-> Remaining(s)] \in CallRecord
        BY <3>2 DEF CallRecord
      <4>2. claims' \in [Conns -> CallRecord] /\ claims'[c].rem = Remaining(s)
            /\ \A d \in Conns \ {c} : claims'[d] = claims[d]
        BY <1>0, <2>2, <4>1
      <4> QED BY <1>0, <2>1, <3>3, <4>2 DEF Alone, ConnOK
    <3> QED BY <1>0, <1>3, <2>1, <2>2, <3>4, ClaimKept DEF CommitClaim
  <2>3. CASE claims' = [claims EXCEPT ![c].st = "omitted"] /\ UNCHANGED ses
    <3>1. SessionsKept
      BY <1>0, <1>3, <2>3, SameControl DEF CommitClaim, controlVars
    <3>2. claims' \in [Conns -> CallRecord] /\ claims'[c].st = "omitted"
          /\ \A d \in Conns \ {c} : claims'[d] = claims[d]
      BY <1>0, <2>3 DEF CallRecord
    <3> QED BY <1>0, <2>1, <3>1, <3>2 DEF Alone, ConnOK
  <2> QED BY <1>3, <2>2, <2>3 DEF CommitClaim
<1>4. CASE ServeCheck(c)
  <2> DEFINE s == gw[c].s
  <2>1. s \in Sessions /\ gw[c].pc # "new" /\ UNCHANGED <<controlVars, gw, claims, closing>> /\ now' = now
    BY <1>0, <1>4 DEF ServeCheck, controlVars
  <2>2. ValidConnection(s, c) => Remaining(s) \in Times
    BY <1>0, <2>1, RemainingType DEF ValidConnection
  <2>3. checks' \in [Conns -> CallRecord] /\ \A d \in Conns \ {c} : checks'[d] = checks[d]
    <3>1. CASE ValidConnection(s, c)
               /\ checks' = [checks EXCEPT ![c] = [st |-> "leased", rem |-> Remaining(s)]]
      <4>1. [st |-> "leased", rem |-> Remaining(s)] \in CallRecord
        BY <2>2, <3>1 DEF CallRecord
      <4> QED BY <1>0, <3>1, <4>1
    <3>2. CASE checks' = [checks EXCEPT ![c].st = "omitted"]
      BY <1>0, <3>2 DEF CallRecord
    <3> QED BY <1>4, <3>1, <3>2 DEF ServeCheck
  <2> QED BY <1>0, <1>00, <2>1, <2>3, SameControl DEF Alone, ConnOK, CallRecord
<1>5. CASE ServeClose(c)
  <2>1. SessionsKept
    BY <1>0, <1>5, CloseKept, SameControl DEF ServeClose, controlVars
  <2> QED BY <1>0, <1>00, <1>5, <2>1 DEF ServeClose, Alone, ConnOK
<1>6. CASE ClaimFails(c)
  BY <1>0, <1>6, EndOK, SameControl DEF ClaimFails, controlVars
<1>7. CASE ClaimAnswered(c)
  <2>1. SessionsKept
    BY <1>0, <1>7, SameControl DEF ClaimAnswered
  <2>2. CASE End(c) /\ Report(c)
    BY <1>7, <2>1, <2>2, EndOK DEF ClaimAnswered, Report, SessionsKept
  <2>3. CASE ~(End(c) /\ Report(c))
    <3>1. claims[c].rem \in Nat /\ gw[c].started + claims[c].rem \in Times
      BY <1>0, <1>00, <1>7, TimesNat DEF ClaimAnswered, CallRecord, Times
    <3>2. gw' \in [Conns -> ConnRecord] /\ gw'[c].started = now /\ gw'[c].pc = "checking"
          /\ gw'[c].s = gw[c].s /\ \A d \in Conns \ {c} : gw'[d] = gw[d]
      BY <1>0, <1>00, <1>7, <2>3, <3>1 DEF ClaimAnswered, ConnRecord
    <3>3. checks' \in [Conns -> CallRecord] /\ \A d \in Conns \ {c} : checks'[d] = checks[d]
      BY <1>0, <1>7, <2>3 DEF ClaimAnswered, CallRecord
    <3>4. claims' \in [Conns -> CallRecord] /\ claims'[c].st = "none"
          /\ \A d \in Conns \ {c} : claims'[d] = claims[d]
      BY <1>0, <1>00, <1>7 DEF ClaimAnswered
    <3>5. closing' = closing
      BY <1>7, <2>3 DEF ClaimAnswered
    <3> QED BY <1>0, <1>00, <1>7, <2>1, <3>2, <3>3, <3>4, <3>5 DEF ClaimAnswered, Alone, ConnOK, SessionsKept
  <2> QED BY <2>2, <2>3
<1>8. CASE CheckAnswered(c)
  <2>1. SessionsKept
    BY <1>0, <1>8, SameControl DEF CheckAnswered
  <2>2. CASE End(c) /\ Report(c)
    BY <1>8, <2>1, <2>2, EndOK DEF CheckAnswered, Report, SessionsKept
  <2>3. CASE ~(End(c) /\ Report(c))
    <3>1. [Refreshed(c) EXCEPT !.pc = "connecting"] \in ConnRecord
          /\ [Refreshed(c) EXCEPT !.pc = "connecting"].pc = "connecting"
          /\ [Refreshed(c) EXCEPT !.pc = "connecting"].s = gw[c].s
          /\ [Refreshed(c) EXCEPT !.pc = "connecting"].started = gw[c].started
      BY <1>0, RefreshedType DEF ConnRecord, TypeInv
    <3> QED BY <1>0, <1>00, <1>8, <2>1, <2>3, <3>1 DEF CheckAnswered, Alone, ConnOK, SessionsKept
  <2> QED BY <2>2, <2>3
<1>9. CASE CheckFails(c)
  BY <1>0, <1>9, EndOK, SameControl DEF CheckFails, controlVars
<1>10. CASE Connect(c)
  <2>1. SessionsKept
    BY <1>0, <1>10, SameControl DEF Connect
  <2>2. CASE End(c) /\ Report(c)
    BY <1>10, <2>1, <2>2, EndOK DEF Connect, Report, SessionsKept
  <2>3. CASE ~(End(c) /\ Report(c))
    <3>1. gw' = [gw EXCEPT ![c].pc = "open"] /\ checks' = checks /\ closing' = closing /\ claims' = claims
      BY <1>10, <2>3 DEF Connect
    <3>2. gw' \in [Conns -> ConnRecord] /\ gw'[c].started = gw[c].started /\ gw'[c].pc = "open"
          /\ gw'[c].s = gw[c].s /\ \A d \in Conns \ {c} : gw'[d] = gw[d]
      BY <1>0, <3>1 DEF ConnRecord
    <3>3. claims[c].st = "none" /\ gw[c].s \in Sessions
      BY <1>0, <1>10 DEF Connect
    <3> QED BY <1>0, <2>1, <3>1, <3>2, <3>3 DEF Alone, ConnOK, SessionsKept
  <2> QED BY <2>2, <2>3
<1>11. CASE Heartbeat(c)
  <2>1. SessionsKept
    BY <1>0, <1>11, SameControl DEF Heartbeat
  <2>2. gw' \in [Conns -> ConnRecord] /\ gw'[c].started = now /\ gw'[c].pc = "open"
        /\ gw'[c].s = gw[c].s /\ \A d \in Conns \ {c} : gw'[d] = gw[d]
    BY <1>0, <1>00, <1>11 DEF Heartbeat, ConnRecord
  <2>3. checks' \in [Conns -> CallRecord] /\ \A d \in Conns \ {c} : checks'[d] = checks[d]
    BY <1>0, <1>11 DEF Heartbeat, CallRecord
  <2>4. claims' = claims /\ closing' = closing
    BY <1>11 DEF Heartbeat
  <2> QED BY <1>0, <1>00, <1>11, <2>1, <2>2, <2>3, <2>4 DEF Heartbeat, Alone, ConnOK, SessionsKept
<1>12. CASE HeartbeatAnswered(c)
  <2>1. SessionsKept
    BY <1>0, <1>12, SameControl DEF HeartbeatAnswered
  <2>2. CASE End(c) /\ Report(c)
    BY <1>12, <2>1, <2>2, EndOK DEF HeartbeatAnswered, Report, SessionsKept
  <2>3. CASE ~(End(c) /\ Report(c))
    <3>1. gw' = gw \/ gw' = [gw EXCEPT ![c] = Refreshed(c)]
      BY <1>12, <2>3 DEF HeartbeatAnswered
    <3>2. gw' \in [Conns -> ConnRecord] /\ gw'[c].started = gw[c].started /\ gw'[c].pc = "open"
          /\ gw'[c].s = gw[c].s /\ \A d \in Conns \ {c} : gw'[d] = gw[d]
      BY <1>0, <1>12, <3>1, RefreshedType DEF HeartbeatAnswered, TypeInv
    <3> QED BY <1>0, <1>00, <1>12, <2>1, <2>3, <3>2 DEF HeartbeatAnswered, Alone, ConnOK, SessionsKept
  <2> QED BY <2>2, <2>3
<1>13. CASE Stop(c)
  BY <1>0, <1>13, EndOK, SameControl DEF Stop, Report, controlVars
<1> QED BY <1>1, <1>2, <1>3, <1>4, <1>5, <1>6, <1>7, <1>8, <1>9, <1>10, <1>11, <1>12, <1>13
        DEF ConnectionStep, Expire

LEMMA CrashType ==
  ASSUME TypeInv, GatewayCrash
  PROVE  ControlInv' /\ GatewayInv'
<1>1. ControlInv' /\ now' = now /\ claims' = claims /\ closing' = closing
  BY SameControl, SessionsKeptControl DEF GatewayCrash, TypeInv, controlVars
<1>2. GatewayInv /\ now \in Nat /\ 0 \in Times
  BY AccessAssumption DEF TypeInv, ControlInv, AccessTypeOK, Times
<1>3. \A c \in Conns : /\ Ended(gw[c]) \in ConnRecord /\ Ended(gw[c]).started = 0
                       /\ Ended(gw[c]).pc = "done" /\ Ended(gw[c]).s = gw[c].s
  BY <1>2 DEF Ended, ConnRecord, GatewayInv
<1>4. \A c \in Conns :
        \/ gw'[c] = gw[c] /\ gw[c].pc \notin {"claiming", "checking", "connecting", "open"}
        \/ gw'[c] = Ended(gw[c]) /\ gw[c].pc # "new"
  BY DEF GatewayCrash, Pending, Open
<1>5. gw' \in [Conns -> ConnRecord]
  BY <1>2, <1>3 DEF GatewayCrash, GatewayInv
<1>6. checks' \in [Conns -> CallRecord] /\ \A c \in Conns : checks'[c].st = "none"
  BY <1>2 DEF GatewayCrash, NoCall, CallRecord
<1>7. ASSUME NEW c \in Conns
      PROVE  /\ gw'[c].started <= now
             /\ gw'[c].pc = "new" => claims[c].st = "none" /\ c \notin closing
             /\ gw'[c].pc # "new" => gw'[c].s \in Sessions
             /\ gw'[c].pc \in {"checking", "connecting", "open"} => claims[c].st = "none"
             /\ claims[c].st = "leased" => gw'[c].started + claims[c].rem <= MaxTime + HardLimit
  <2>1. gw[c].started \in Nat /\ claims[c].rem \in Nat
    BY <1>2, TimesNat DEF GatewayInv, ConnRecord, CallRecord
  <2> QED BY <1>2, <1>3, <1>4, <2>1, TimesNat DEF GatewayInv
<1> QED BY <1>1, <1>2, <1>5, <1>6, <1>7 DEF GatewayInv

LEMMA TickType ==
  ASSUME TypeInv, Tick
  PROVE  ControlInv' /\ GatewayInv'
<1>1. now \in Nat /\ now' = now + 1 /\ now' \in 0..MaxTime
  BY AccessAssumption DEF Tick, TypeInv, ControlInv, AccessTypeOK
<1>2. ControlInv'
  BY <1>1 DEF Tick, TypeInv, ControlInv, AccessTypeOK, Admitted, Chain
<1>3. \A c \in Conns : gw[c].started \in Nat
  BY TimesNat DEF TypeInv, GatewayInv, ConnRecord
<1> QED BY <1>1, <1>2, <1>3 DEF Tick, gatewayVars, TypeInv, GatewayInv

LEMMA NextType == TypeInv /\ [Next]_vars => TypeInv'
<1> SUFFICES ASSUME TypeInv, [Next]_vars PROVE TypeInv'
  OBVIOUS
<1>1. CASE Next
  <2>1. ControlInv' /\ GatewayInv'
    <3>1. ASSUME NEW c \in Conns, ConnectionStep(c) PROVE ControlInv' /\ GatewayInv'
      BY <3>1, ConnectionType, AloneKeeps, SessionsKeptControl DEF TypeInv
    <3> QED BY <1>1, <3>1, ControlStepType, CrashType, TickType DEF Next, Step
  <2>2. lostAt' \in [Sessions -> Times \cup {Never}]
    <3>1. now \in Times /\ lostAt \in [Sessions -> Times \cup {Never}]
      BY AccessAssumption DEF TypeInv, ControlInv, AccessTypeOK, Times
    <3> QED BY <1>1, <3>1 DEF Next, Witness
  <2> QED BY <2>1, <2>2 DEF TypeInv
<1>2. CASE UNCHANGED vars
  <2>1. ControlInv'
    BY <1>2, SameControl, SessionsKeptControl DEF vars, TypeInv
  <2> QED BY <1>2, <2>1 DEF vars, controlVars, gatewayVars, TypeInv, GatewayInv
<1> QED BY <1>1, <1>2

\* Everything the inductive invariant says of types and of what actors have stored.
THEOREM TypeCorrect == Spec => []TypeInv
<1> QED BY InitType, NextType, PTL DEF Spec

\* Every variable of the gateway and of the control plane keeps its type,
\* whatever is lost, late or repeated.
THEOREM TypesKept == Spec => []TypeOK
<1>1. TypeInv => TypeOK
  BY DEF TypeInv, ControlInv, GatewayInv, TypeOK
<1> QED BY <1>1, TypeCorrect, PTL

-----------------------------------------------------------------------------
(* One signature per session                                                *)

Fresh(s) == ses[s].issuance \in {"none", "pending"}

\* No signer was called, and none is about to be, before the attempt is on
\* record; a pass about to call has the attempt to itself.
SignInv ==
  /\ SignedOnce
  /\ \A s \in Sessions : Fresh(s) => signings[s] = 0
  /\ \A w \in Workers : wk[w].pc \in {"attempted", "signed"} => ~Fresh(wk[w].s)
  /\ \A w \in Workers : wk[w].pc = "attempted" => signings[wk[w].s] = 0
  /\ \A w, v \in Workers :
       wk[w].pc = "attempted" /\ wk[v].pc = "attempted" /\ wk[w].s = wk[v].s => w = v

\* A step that calls no signer, starts no attempt and makes no session fresh again.
LEMMA NoSigning ==
  ASSUME TypeInv, SignInv, signings' = signings,
         \A s \in Sessions : Fresh(s)' => Fresh(s),
         \A w \in Workers :
           wk'[w].pc \in {"attempted", "signed"} => wk'[w] = wk[w]
  PROVE  SignInv'
<1>1. \A w \in Workers : wk[w].pc # "idle" => wk[w].s \in Sessions
  BY DEF TypeInv, ControlInv
<1> QED BY <1>1 DEF SignInv, SignedOnce

LEMMA FinishQuiet ==
  ASSUME TypeInv, NEW w \in Workers, Finish(w)
  PROVE  \A v \in Workers : wk'[v].pc \in {"attempted", "signed"} => wk'[v] = wk[v]
BY DEF Finish, IdleWorker, TypeInv, ControlInv, AccessTypeOK

LEMMA SetIssuanceQuiet ==
  ASSUME TypeInv, NEW s \in Sessions, NEW kind \in {"attempted", "unavailable"}, SetIssuance(s, kind)
  PROVE  (\A r \in Sessions : Fresh(r)' => Fresh(r)) /\ ~Fresh(s)'
BY DEF SetIssuance, Fresh, TypeInv, ControlInv, AccessTypeOK, SessionRecord

LEMMA WorkerSigns ==
  ASSUME TypeInv, SignInv, NEW w \in Workers,
         \/ \E s \in Sessions : Prepare(w, s)
         \/ WorkerStep(w) \/ WorkerStops(w) \/ LockLost(w)
  PROVE  SignInv'
<1>0. /\ wk \in [Workers -> WorkerRecord] /\ ses \in [Sessions -> SessionRecord]
      /\ signings \in [Sessions -> Nat]
      /\ \A v \in Workers : wk[v].pc # "idle" => wk[v].s \in Sessions
      /\ "unavailable" \in {"attempted", "unavailable"} /\ "attempted" \in {"attempted", "unavailable"}
  BY DEF TypeInv, ControlInv, AccessTypeOK
<1>1. ASSUME NEW s \in Sessions, Prepare(w, s) PROVE SignInv'
  <2>1. \A r \in Sessions : Fresh(r)' => Fresh(r)
    BY <1>0, <1>1, SetIssuanceQuiet DEF Prepare, Fresh
  <2>2. \A v \in Workers : wk'[v].pc \in {"attempted", "signed"} => wk'[v] = wk[v]
    BY <1>0, <1>1 DEF Prepare, IdleWorker
  <2> QED BY <1>1, <2>1, <2>2, NoSigning DEF Prepare
<1>2. CASE Observe(w)
  <2>1. \A r \in Sessions : Fresh(r)' => Fresh(r)
    BY <1>0, <1>2, SetIssuanceQuiet DEF Observe, Fresh
  <2>2. \A v \in Workers : wk'[v].pc \in {"attempted", "signed"} => wk'[v] = wk[v]
    BY <1>0, <1>2, FinishQuiet DEF Observe, Move, WorkerRecord
  <2> QED BY <1>2, <2>1, <2>2, NoSigning DEF Observe
<1>3. CASE Attempt(w)
  <2> DEFINE s == wk[w].s
  <2>1. s \in Sessions /\ signings' = signings
    BY <1>0, <1>3 DEF Attempt
  <2>2. CASE /\ ses[s].issuance = "pending" /\ SetIssuance(s, "attempted")
             /\ wk' = [wk EXCEPT ![w].pc = "attempted", ![w].at = now]
    <3>1. (\A r \in Sessions : Fresh(r)' => Fresh(r)) /\ ~Fresh(s)' /\ Fresh(s)
      BY <1>0, <2>1, <2>2, SetIssuanceQuiet DEF Fresh
    <3>2. wk'[w].pc = "attempted" /\ wk'[w].s = s /\ \A v \in Workers \ {w} : wk'[v] = wk[v]
      BY <1>0, <2>2 DEF WorkerRecord
    <3>3. \A v \in Workers : wk[v].pc \in {"attempted", "signed"} => wk[v].s # s
      BY <3>1 DEF SignInv
    <3>4. signings[s] = 0
      BY <2>1, <3>1 DEF SignInv
    <3> QED BY <1>0, <2>1, <3>1, <3>2, <3>3, <3>4 DEF SignInv, SignedOnce
  <2>3. CASE Finish(w) /\ (ses' = ses \/ SetIssuance(s, "unavailable"))
    <3>1. \A r \in Sessions : Fresh(r)' => Fresh(r)
      BY <1>0, <2>1, <2>3, SetIssuanceQuiet DEF Fresh
    <3> QED BY <2>1, <2>3, <3>1, FinishQuiet, NoSigning
  <2> QED BY <1>3, <2>2, <2>3 DEF Attempt
<1>4. CASE Sign(w)
  <2> DEFINE s == wk[w].s
  <2>1. s \in Sessions /\ wk[w].pc = "attempted" /\ ses' = ses
        /\ signings' = [signings EXCEPT ![s] = @ + 1]
    BY <1>0, <1>4 DEF Sign
  <2>2. signings[s] = 0 /\ ~Fresh(s)
    BY <2>1 DEF SignInv
  <2>3. signings'[s] = 1 /\ \A r \in Sessions \ {s} : signings'[r] = signings[r]
    BY <1>0, <2>1, <2>2
  <2>4. wk'[w].pc = "signed" /\ wk'[w].s = s /\ \A v \in Workers \ {w} : wk'[v] = wk[v]
    BY <1>0, <1>4 DEF Sign, WorkerRecord
  <2>5. \A v \in Workers \ {w} : wk[v].pc = "attempted" => wk[v].s # s
    BY <2>1 DEF SignInv
  <2>6. \A r \in Sessions : Fresh(r)' <=> Fresh(r)
    BY <2>1 DEF Fresh
  <2> QED BY <1>0, <2>1, <2>2, <2>3, <2>4, <2>5, <2>6 DEF SignInv, SignedOnce
<1>5. CASE Publish(w)
  <2> DEFINE s == wk[w].s
  <2>1. s \in Sessions /\ signings' = signings /\ Finish(w)
    BY <1>0, <1>5 DEF Publish
  <2>2. \A r \in Sessions : Fresh(r)' => Fresh(r)
    BY <1>0, <1>5, <2>1, SetIssuanceQuiet DEF Publish, Fresh, SessionRecord
  <2> QED BY <2>1, <2>2, FinishQuiet, NoSigning
<1>6. CASE WorkerStops(w)
  BY <1>6, FinishQuiet, NoSigning DEF WorkerStops, Fresh
<1>7. CASE LockLost(w)
  BY <1>7, NoSigning DEF LockLost, Fresh
<1> QED BY <1>1, <1>2, <1>3, <1>4, <1>5, <1>6, <1>7 DEF WorkerStep

LEMMA NextSigns == TypeInv /\ SignInv /\ [Next]_vars => SignInv'
<1> SUFFICES ASSUME TypeInv, SignInv, [Next]_vars PROVE SignInv'
  OBVIOUS
<1>0. /\ wk \in [Workers -> WorkerRecord] /\ ses \in [Sessions -> SessionRecord]
      /\ signings \in [Sessions -> Nat]
      /\ \A v \in Workers : wk[v].pc # "idle" => wk[v].s \in Sessions
  BY DEF TypeInv, ControlInv, AccessTypeOK
\* Nothing that the invariant looks at changes.
<1>1. ASSUME wk' = wk, signings' = signings,
             \A s \in Sessions : ses'[s].issuance = ses[s].issuance
      PROVE  SignInv'
  BY <1>1, NoSigning DEF Fresh
<1>2. ASSUME NEW g \in Grants, NEW p \in Grants, NEW e \in 1..MaxTime, IssueGrant(g, p, e)
      PROVE  SignInv'
  BY <1>1, <1>2 DEF IssueGrant, AccessUnchanged
<1>3. ASSUME NEW a \in Grants, NEW g \in Grants, RevokeGrant(a, g) PROVE SignInv'
  BY <1>0, <1>1, <1>3, ClosedType DEF RevokeGrant
<1>4. CASE BeginOperation \/ EndOperation
  BY <1>1, <1>4 DEF BeginOperation, EndOperation, AccessUnchanged
<1>5. CASE AdmitDestroy
  BY <1>0, <1>1, <1>5, ClosedType DEF AdmitDestroy
<1>6. ASSUME NEW s \in Sessions, NEW g \in Grants, Admit(s, g) PROVE SignInv'
  <2>1. \A r \in Sessions : Fresh(r)' => Fresh(r)
    BY <1>0, <1>6 DEF Admit, Admitted, Fresh
  <2> QED BY <1>6, <2>1, NoSigning DEF Admit
<1>7. CASE ControlStep
  BY <1>2, <1>3, <1>4, <1>5, <1>6, <1>7, WorkerSigns DEF ControlStep
<1>8. ASSUME NEW c \in Conns, ConnectionStep(c) PROVE SignInv'
  BY <1>1, <1>8, ConnectionType DEF SessionsKept
<1>9. CASE GatewayCrash \/ Tick \/ UNCHANGED vars
  BY <1>1, <1>9 DEF GatewayCrash, Tick, vars, controlVars
<1> QED BY <1>7, <1>8, <1>9 DEF Next, Step

\* One session, one call of the certificate authority, for any number of
\* workers, sessions and lost locks.
THEOREM SigningCorrect == Spec => []SignedOnce
<1>1. Init => SignInv
  BY DEF Init, AccessInit, IdleWorker, NoSessionYet, SignInv, SignedOnce, Fresh
<1>2. SignInv => SignedOnce
  BY DEF SignInv
<1> QED BY <1>1, <1>2, NextSigns, TypeCorrect, PTL DEF Spec

-----------------------------------------------------------------------------
(* One connection per ticket                                                *)

\* The connection of a session before anybody claimed it.
UnclaimedInv ==
  \A s \in Sessions : /\ ses[s].conn = "unclaimed" => ses[s].by = NoConn
                      /\ ~Admitted(s) => ses[s].conn = "unclaimed"
                      /\ ses[s].conn = "claimed" => ses[s].issuance = "issued"

\* The claim a connection acts on is the one the session row names.
ClaimsHeld ==
  \A c \in Conns :
    claims[c].st = "leased" \/ gw[c].pc \in {"checking", "connecting", "open"}
      => ses[gw[c].s].by = c

TicketInv == UnclaimedInv /\ ClaimsHeld

\* A claim is for good, and only an unclaimed session is claimed.
ByKept == \A s \in Sessions : ses[s].by # NoConn => ses'[s].by = ses[s].by

LEMMA ControlUnclaimed ==
  ASSUME TypeInv, UnclaimedInv, ControlStep
  PROVE  UnclaimedInv' /\ ByKept
<1>0. ses \in [Sessions -> SessionRecord] /\ ControlInv
  BY DEF TypeInv, ControlInv, AccessTypeOK
<1>1. ASSUME ses' = ses PROVE UnclaimedInv' /\ ByKept
  BY <1>1 DEF UnclaimedInv, ByKept, Admitted
<1>2. ASSUME NEW S \in SUBSET Sessions,
             ses' = [s \in Sessions |-> IF s \in S THEN Closed(ses[s]) ELSE ses[s]]
      PROVE  UnclaimedInv' /\ ByKept
  <2>1. ASSUME NEW s \in Sessions
        PROVE  /\ ses'[s].by = ses[s].by /\ ses'[s].issuance = ses[s].issuance
               /\ ses'[s].conn = ses[s].conn \/ (ses'[s].conn = "closed" /\ Admitted(s))
    BY <1>0, <1>2, ClosedType DEF Admitted
  <2> QED BY <2>1 DEF UnclaimedInv, ByKept, Admitted
<1>3. ASSUME NEW a \in Grants, NEW g \in Grants, RevokeGrant(a, g) PROVE UnclaimedInv' /\ ByKept
  <2>1. ses' = [s \in Sessions |-> IF s \in {r \in Sessions : ses[r].grant \in Subtree(g)}
                                   THEN Closed(ses[s]) ELSE ses[s]]
    BY <1>3 DEF RevokeGrant
  <2> QED BY <1>2, <2>1
<1>4. CASE AdmitDestroy
  <2>1. ses' = [s \in Sessions |-> IF s \in Sessions THEN Closed(ses[s]) ELSE ses[s]]
    BY <1>4 DEF AdmitDestroy
  <2> QED BY <1>2, <2>1
<1>5. ASSUME NEW s \in Sessions, NEW g \in Grants, Admit(s, g) PROVE UnclaimedInv' /\ ByKept
  <2>1. ses'[s].conn = "unclaimed" /\ ses'[s].by = NoConn /\ ses'[s].issuance = "pending"
        /\ \A r \in Sessions \ {s} : ses'[r] = ses[r]
    BY <1>0, <1>5 DEF Admit, NoSessionYet
  <2>2. ses[s].by = NoConn
    BY <1>5 DEF Admit, UnclaimedInv
  <2> QED BY <2>1, <2>2 DEF UnclaimedInv, ByKept, Admitted
<1>6. ASSUME NEW w \in Workers,
             \/ \E s \in Sessions : Prepare(w, s)
             \/ WorkerStep(w) \/ WorkerStops(w) \/ LockLost(w)
      PROVE  UnclaimedInv' /\ ByKept
  <2>1. WorkerEffect(w)
    BY <1>0, <1>6, WorkerPass
  <2>2. \A s \in Sessions : ses[s].issuance = "issued" => ses'[s].issuance = "issued"
    <3>1. ASSUME NEW s \in Sessions, Prepare(w, s) PROVE \A r \in Sessions : ses[r].issuance = "issued" => ses'[r] = ses[r]
      BY <1>0, <3>1 DEF Prepare, SetIssuance
    <3>2. Observe(w) => \A r \in Sessions : ses[r].issuance = "issued" => ses'[r] = ses[r]
      BY <1>0 DEF Observe, SetIssuance, Undecided
    <3>3. Attempt(w) => \A r \in Sessions : ses[r].issuance = "issued" => ses'[r] = ses[r]
      BY <1>0 DEF Attempt, SetIssuance, Undecided
    <3>4. Publish(w) => \A r \in Sessions : ses[r].issuance = "issued" => ses'[r] = ses[r]
      BY <1>0 DEF Publish, SetIssuance
    <3> QED BY <1>6, <3>1, <3>2, <3>3, <3>4 DEF WorkerStep, WorkerStops, LockLost, Sign
  <2> QED BY <2>1, <2>2 DEF WorkerEffect, ConnKept, UnclaimedInv, ByKept, Admitted
<1> QED BY <1>1, <1>3, <1>4, <1>5, <1>6
        DEF ControlStep, IssueGrant, BeginOperation, EndOperation, AccessUnchanged

\* What a gateway call does to sessions, seen from the connection's fields.
LEMMA CallUnclaimed ==
  ASSUME TypeInv, UnclaimedInv, NEW c \in Conns, ConnectionStep(c)
  PROVE  UnclaimedInv' /\ ByKept
<1>0. ses \in [Sessions -> SessionRecord]
  BY DEF TypeInv, ControlInv, AccessTypeOK
<1>1. ASSUME ses' = ses PROVE UnclaimedInv' /\ ByKept
  BY <1>1 DEF UnclaimedInv, ByKept, Admitted
<1>2. ASSUME NEW s \in Sessions, Claim(s, c) PROVE UnclaimedInv' /\ ByKept
  <2>1. ses'[s].conn = "claimed" /\ ses'[s].issuance = "issued" /\ ses[s].by = NoConn
        /\ \A r \in Sessions \ {s} : ses'[r] = ses[r]
    BY <1>0, <1>2 DEF Claim, Claimable, UnclaimedInv, SessionRecord
  <2> QED BY <2>1 DEF UnclaimedInv, ByKept, Admitted
<1>3. ASSUME NEW s \in Sessions, CloseSession(s, c) PROVE UnclaimedInv' /\ ByKept
  <2>1. ses'[s].by = ses[s].by /\ ses'[s].issuance = ses[s].issuance
        /\ (ses'[s].conn = ses[s].conn \/ (ses'[s].conn = "closed" /\ Admitted(s)))
        /\ \A r \in Sessions \ {s} : ses'[r] = ses[r]
    BY <1>0, <1>3, ClosedType DEF CloseSession, Admitted
  <2> QED BY <2>1 DEF UnclaimedInv, ByKept, Admitted
<1>4. CASE CommitClaim(c)
  <2>1. gw[c].s \in Sessions
    BY <1>4 DEF CommitClaim, TypeInv, GatewayInv
  <2> QED BY <1>1, <1>2, <1>4, <2>1 DEF CommitClaim
<1>5. CASE ServeClose(c)
  <2>1. gw[c].s \in Sessions
    BY <1>5 DEF ServeClose, TypeInv, GatewayInv
  <2> QED BY <1>1, <1>3, <1>5, <2>1 DEF ServeClose
<1> QED BY <1>1, <1>4, <1>5
        DEF ConnectionStep, Upgrade, ServeClaim, ServeCheck, ClaimFails, ClaimAnswered, CheckAnswered,
            CheckFails, Connect, Heartbeat, HeartbeatAnswered, Stop, Expire, controlVars

\* Connection c has consumed a ticket.
Past(c) == claims[c].st = "leased" \/ gw[c].pc \in {"checking", "connecting", "open"}

\* A connection gets past the claim by the claim alone.
LEMMA PastByClaim ==
  ASSUME TypeInv, NEW c \in Conns, ConnectionStep(c), Past(c)'
  PROVE  /\ gw'[c].s = gw[c].s /\ gw[c].s \in Sessions
         /\ Past(c) \/ (Claim(gw[c].s, c) /\ ~Past(c))
<1>0. /\ gw \in [Conns -> ConnRecord] /\ claims \in [Conns -> CallRecord]
      /\ gw[c].pc = "new" => claims[c].st = "none" /\ checks[c].st = "none" /\ c \notin closing
      /\ gw[c].pc # "new" => gw[c].s \in Sessions
  BY DEF TypeInv, GatewayInv
<1>1. ASSUME End(c), gw[c].pc # "new", claims' = claims \/ claims' = [claims EXCEPT ![c] = NoCall]
      PROVE  gw'[c].s = gw[c].s /\ Past(c)
  <2>1. gw'[c] = Ended(gw[c]) /\ gw[c] \in ConnRecord
    BY <1>0, <1>1 DEF End
  <2>2. gw'[c].s = gw[c].s /\ gw'[c].pc = "done"
    BY <2>1 DEF Ended, ConnRecord
  <2> QED BY <1>0, <1>1, <2>2 DEF Past, NoCall
<1>2. ASSUME NEW s \in Sessions, Upgrade(c, s) PROVE FALSE
  BY <1>0, <1>2 DEF Upgrade, Past, ConnRecord, CallRecord
<1>3. CASE ServeClaim(c)
  BY <1>0, <1>3 DEF ServeClaim, Past, CallRecord
<1>4. CASE CommitClaim(c)
  BY <1>0, <1>4 DEF CommitClaim, Past, CallRecord
<1>5. CASE ServeCheck(c) \/ ServeClose(c)
  BY <1>0, <1>5 DEF ServeCheck, ServeClose, Past
<1>6. CASE ClaimFails(c) \/ CheckFails(c) \/ Stop(c)
  BY <1>0, <1>1, <1>6 DEF ClaimFails, CheckFails, Stop
<1>7. CASE ClaimAnswered(c)
  <2>1. claims[c].st = "leased" /\ gw[c].pc # "new"
    BY <1>7 DEF ClaimAnswered
  <2>2. gw'[c].s = gw[c].s
    BY <1>0, <1>1, <1>7, <2>1 DEF ClaimAnswered, ConnRecord
  <2> QED BY <1>0, <2>1, <2>2 DEF Past
<1>8. CASE CheckAnswered(c) \/ Connect(c) \/ Heartbeat(c) \/ HeartbeatAnswered(c)
  <2>1. gw[c].pc \in {"checking", "connecting", "open"} /\ claims' = claims
    BY <1>8 DEF CheckAnswered, Connect, Heartbeat, HeartbeatAnswered
  <2>2. CASE End(c)
    BY <1>0, <1>1, <2>1, <2>2
  <2>3. CASE ~End(c)
    <3>1. Refreshed(c) \in ConnRecord /\ Refreshed(c).s = gw[c].s
      BY RefreshedType DEF TypeInv
    <3>2. gw'[c].s = gw[c].s
      BY <1>0, <1>8, <2>3, <3>1 DEF CheckAnswered, Connect, Heartbeat, HeartbeatAnswered, ConnRecord
    <3> QED BY <1>0, <2>1, <3>2 DEF Past
  <2> QED BY <2>2, <2>3
<1> QED BY <1>2, <1>3, <1>4, <1>5, <1>6, <1>7, <1>8 DEF ConnectionStep, Expire

LEMMA NextTicket == TypeInv /\ TicketInv /\ [Next]_vars => TicketInv'
<1> SUFFICES ASSUME TypeInv, TicketInv, [Next]_vars PROVE TicketInv'
  OBVIOUS
<1>0. /\ UnclaimedInv /\ (\A c \in Conns : Past(c) => ses[gw[c].s].by = c)
      /\ \A c \in Conns : Past(c) => gw[c].s \in Sessions
      /\ \A c \in Conns : c # NoConn
  BY AccessAssumption DEF TicketInv, ClaimsHeld, Past, TypeInv, GatewayInv
<1>1. ASSUME UnclaimedInv', ByKept,
             \A c \in Conns : Past(c)' => Past(c) /\ gw'[c].s = gw[c].s
      PROVE  TicketInv'
  BY <1>0, <1>1 DEF TicketInv, ClaimsHeld, Past, ByKept
<1>2. CASE ControlStep
  <2>1. UnclaimedInv' /\ ByKept
    BY <1>0, <1>2, ControlUnclaimed
  <2> QED BY <1>1, <1>2, <2>1 DEF ControlStep, gatewayVars, Past
<1>3. ASSUME NEW c \in Conns, ConnectionStep(c) PROVE TicketInv'
  <2>1. UnclaimedInv' /\ ByKept
    BY <1>0, <1>3, CallUnclaimed
  <2>2. \A d \in Conns \ {c} : gw'[d] = gw[d] /\ claims'[d] = claims[d]
    BY <1>3, ConnectionType DEF Alone
  <2>3. ASSUME Past(c)' PROVE ses'[gw'[c].s].by = c
    <3>1. CASE Past(c)
      BY <1>0, <1>3, <2>1, <2>3, <3>1, PastByClaim DEF ByKept
    <3>2. CASE Claim(gw[c].s, c)
      <4>1. gw'[c].s = gw[c].s /\ gw[c].s \in Sessions
        BY <1>3, <2>3, PastByClaim
      <4> QED BY <3>2, <4>1 DEF Claim, TypeInv, ControlInv, AccessTypeOK, SessionRecord
    <3> QED BY <1>3, <2>3, <3>1, <3>2, PastByClaim
  <2>4. ASSUME NEW d \in Conns \ {c}, Past(d)' PROVE ses'[gw'[d].s].by = d
    <3>1. Past(d) /\ gw'[d].s = gw[d].s
      BY <2>2, <2>4 DEF Past
    <3> QED BY <1>0, <2>1, <3>1 DEF ByKept
  <2> QED BY <2>1, <2>3, <2>4 DEF TicketInv, ClaimsHeld, Past
<1>4. CASE GatewayCrash
  <2>1. UnclaimedInv' /\ ByKept
    BY <1>0, <1>4 DEF GatewayCrash, controlVars, UnclaimedInv, ByKept, Admitted
  <2>2. \A c \in Conns : Past(c)' => Past(c) /\ gw'[c].s = gw[c].s
    <3>1. \A c \in Conns : Ended(gw[c]).s = gw[c].s /\ Ended(gw[c]).pc = "done"
      BY DEF TypeInv, GatewayInv, Ended, ConnRecord
    <3> QED BY <1>4, <3>1 DEF GatewayCrash, Past
  <2> QED BY <1>1, <2>1, <2>2
<1>5. CASE Tick \/ UNCHANGED vars
  <2>1. UnclaimedInv' /\ ByKept
    BY <1>0, <1>5 DEF Tick, vars, controlVars, UnclaimedInv, ByKept, Admitted
  <2> QED BY <1>1, <1>5, <2>1 DEF Tick, vars, gatewayVars, Past
<1> QED BY <1>2, <1>3, <1>4, <1>5 DEF Next, Step

LEMMA TicketCorrect == Spec => []TicketInv
<1>1. Init => TicketInv
  BY DEF Init, AccessInit, NoSessionYet, NoCall, TicketInv, UnclaimedInv, ClaimsHeld, Admitted
<1> QED BY <1>1, NextTicket, TypeCorrect, PTL DEF Spec

\* However often, and through however many connections, a ticket is presented,
\* one connection gets past the claim.
THEOREM TicketGoodOnce == Spec => []TicketUsedOnce
<1>1. TicketInv => TicketUsedOnce
  BY DEF TicketInv, ClaimsHeld, TicketUsedOnce
<1> QED BY <1>1, TicketCorrect, PTL

-----------------------------------------------------------------------------
(* A revocation closes what is below it                                     *)

\* What no step takes back: an admitted session keeps its terms and, once
\* closed, stays closed; a grant keeps its ancestry and its revocation; the
\* version of the machine grows with every change of the machine.
Lasting ==
  /\ \A s \in Sessions : Admitted(s) => Admitted(s)' /\ TermsKept(s)
                                        /\ (ses[s].conn = "closed" => ses'[s].conn = "closed")
  /\ \A g \in Grants : /\ grants[g].live => grants'[g].live /\ grants'[g].chain = grants[g].chain
                       /\ grants[g].live /\ grants[g].revoked => grants'[g].revoked
  /\ machine' = machine \/ machine'.version > machine.version
  /\ \A s \in Sessions :
       ~Admitted(s) /\ Admitted(s)' =>
         /\ grants' = grants /\ machine' = machine /\ ses'[s].by = NoConn
         /\ Authority(ses'[s].grant) /\ machine.state = "running" /\ ses'[s].version = machine.version

LEMMA ClosingLasts ==
  ASSUME TypeInv, NEW S \in SUBSET Sessions,
         ses' = [s \in Sessions |-> IF s \in S THEN Closed(ses[s]) ELSE ses[s]]
  PROVE  \A s \in Sessions : /\ Admitted(s)' <=> Admitted(s)
                             /\ TermsKept(s) /\ (ses[s].conn = "closed" => ses'[s].conn = "closed")
BY ClosedType DEF TypeInv, ControlInv, AccessTypeOK, Admitted, TermsKept

LEMMA GrantStepLasts ==
  ASSUME TypeInv, NEW a \in Grants, NEW g \in Grants,
         RevokeGrant(a, g) \/ \E e \in 1..MaxTime : IssueGrant(g, a, e)
  PROVE  Lasting
<1>0. grants \in [Grants -> GrantRecord]
  BY DEF TypeInv, ControlInv, AccessTypeOK
<1>1. CASE RevokeGrant(a, g)
  <2>1. \A h \in Grants : grants'[h].live = grants[h].live /\ grants'[h].chain = grants[h].chain
                          /\ (grants[h].revoked => grants'[h].revoked)
    BY <1>0, <1>1 DEF RevokeGrant, GrantRecord
  <2>2. ses' = [s \in Sessions |-> IF s \in {r \in Sessions : ses[r].grant \in Subtree(g)}
                                   THEN Closed(ses[s]) ELSE ses[s]]
    BY <1>1 DEF RevokeGrant
  <2> QED BY <1>1, <2>1, <2>2, ClosingLasts DEF RevokeGrant, Lasting
<1>2. ASSUME NEW e \in 1..MaxTime, IssueGrant(g, a, e) PROVE Lasting
  BY <1>0, <1>2 DEF IssueGrant, AccessUnchanged, Lasting, TermsKept, Admitted
<1> QED BY <1>1, <1>2

LEMMA NextLasts ==
  ASSUME TypeInv, [Next]_vars
  PROVE  Lasting
<1>0. /\ ses \in [Sessions -> SessionRecord] /\ machine \in MachineRecord
      /\ grants \in [Grants -> GrantRecord] /\ ControlInv
  BY DEF TypeInv, ControlInv, AccessTypeOK
<1>1. ASSUME NEW g \in Grants, NEW p \in Grants, NEW e \in 1..MaxTime, IssueGrant(g, p, e)
      PROVE  Lasting
  BY <1>1, GrantStepLasts
<1>2. ASSUME NEW a \in Grants, NEW g \in Grants, RevokeGrant(a, g) PROVE Lasting
  BY <1>2, GrantStepLasts
<1>3. CASE BeginOperation \/ EndOperation
  BY <1>0, <1>3 DEF BeginOperation, EndOperation, AccessUnchanged, Lasting, TermsKept, Admitted, MachineRecord
<1>4. CASE AdmitDestroy
  <2>1. ses' = [s \in Sessions |-> IF s \in Sessions THEN Closed(ses[s]) ELSE ses[s]]
    BY <1>4 DEF AdmitDestroy
  <2>2. machine'.version > machine.version
    BY <1>0, <1>4 DEF AdmitDestroy, MachineRecord
  <2> QED BY <1>4, <2>1, <2>2, ClosingLasts DEF AdmitDestroy, Lasting
<1>5. ASSUME NEW s \in Sessions, NEW g \in Grants, Admit(s, g) PROVE Lasting
  <2>1. ses'[s].grant = g /\ ses'[s].version = machine.version /\ ses'[s].by = NoConn
        /\ \A r \in Sessions \ {s} : ses'[r] = ses[r]
    BY <1>0, <1>5 DEF Admit, NoSessionYet
  <2> QED BY <1>5, <2>1 DEF Admit, Lasting, TermsKept, Admitted
<1>6. ASSUME NEW w \in Workers,
             \/ \E s \in Sessions : Prepare(w, s)
             \/ WorkerStep(w) \/ WorkerStops(w) \/ LockLost(w)
      PROVE  Lasting
  <2>1. WorkerEffect(w)
    BY <1>0, <1>6, WorkerPass
  <2> QED BY <2>1 DEF WorkerEffect, ConnKept, Lasting, Admitted
<1>7. ASSUME NEW c \in Conns, ConnectionStep(c) PROVE Lasting
  <2>1. SessionsKept
    BY <1>7, ConnectionType
  <2>2. \A s \in Sessions : ses[s].conn = "closed" => ses'[s].conn = "closed"
    <3>1. CASE CommitClaim(c)
      BY <1>0, <3>1 DEF CommitClaim, Claim, Claimable, SessionRecord
    <3>2. CASE ServeClose(c)
      BY <1>0, <3>2, ClosedType DEF ServeClose, CloseSession
    <3> QED BY <1>7, <3>1, <3>2
            DEF ConnectionStep, Upgrade, ServeClaim, ServeCheck, ClaimFails, ClaimAnswered, CheckAnswered,
                CheckFails, Connect, Heartbeat, HeartbeatAnswered, Stop, Expire, controlVars
  <2> QED BY <2>1, <2>2 DEF SessionsKept, Lasting, Admitted
<1>8. CASE GatewayCrash \/ Tick \/ UNCHANGED vars
  BY <1>8 DEF GatewayCrash, Tick, vars, controlVars, Lasting, TermsKept, Admitted
<1> QED BY <1>1, <1>2, <1>3, <1>4, <1>5, <1>6, <1>7, <1>8 DEF Next, Step, ControlStep

\* Only a revocation revokes.
LEMMA RevokedBy ==
  ASSUME TypeInv, [Next]_vars, NEW h \in Grants, grants[h].live, ~grants[h].revoked, grants'[h].revoked
  PROVE  \E a \in Grants : RevokeGrant(a, h)
<1>0. grants \in [Grants -> GrantRecord] /\ ControlInv
  BY DEF TypeInv, ControlInv, AccessTypeOK
<1>1. CASE ControlStep
  <2>1. ASSUME NEW w \in Workers,
               \/ \E s \in Sessions : Prepare(w, s)
               \/ WorkerStep(w) \/ WorkerStops(w) \/ LockLost(w)
        PROVE  grants' = grants
    BY <1>0, <2>1, WorkerPass DEF WorkerEffect
  <2>2. ASSUME NEW a \in Grants, NEW g \in Grants, RevokeGrant(a, g), g # h PROVE FALSE
    BY <1>0, <2>2 DEF RevokeGrant
  <2>3. ASSUME NEW g \in Grants, NEW p \in Grants, NEW e \in 1..MaxTime, IssueGrant(g, p, e) PROVE FALSE
    BY <1>0, <2>3 DEF IssueGrant
  <2> QED BY <1>1, <2>1, <2>2, <2>3 DEF ControlStep, BeginOperation, EndOperation, AdmitDestroy, Admit
<1>2. ASSUME NEW c \in Conns, ConnectionStep(c) PROVE FALSE
  BY <1>2, ConnectionType DEF SessionsKept
<1>3. CASE GatewayCrash \/ Tick \/ UNCHANGED vars
  BY <1>3 DEF GatewayCrash, Tick, vars, controlVars
<1> QED BY <1>1, <1>2, <1>3 DEF Next, Step

\* The ancestors of a live grant are live: they were when it was issued.
ChainLive == \A g \in Grants : grants[g].live => \A h \in Chain(g) : h \in Grants /\ grants[h].live

LEMMA NextChain == TypeInv /\ ChainLive /\ [Next]_vars => ChainLive'
<1> SUFFICES ASSUME TypeInv, ChainLive, [Next]_vars PROVE ChainLive'
  OBVIOUS
<1>0. grants \in [Grants -> GrantRecord] /\ ControlInv /\ Lasting
  BY NextLasts DEF TypeInv, ControlInv, AccessTypeOK
<1>1. ASSUME NEW g \in Grants, NEW p \in Grants, NEW e \in 1..MaxTime, IssueGrant(g, p, e) PROVE ChainLive'
  <2>1. grants[p].live /\ grants'[g].live /\ grants'[g].chain = Chain(p) \cup {g}
        /\ \A h \in Grants \ {g} : grants'[h] = grants[h]
    BY <1>0, <1>1 DEF IssueGrant, Authority
  <2> QED BY <1>0, <2>1 DEF ChainLive, Chain, Lasting
<1>2. ASSUME \A g \in Grants : grants'[g].live = grants[g].live PROVE ChainLive'
  BY <1>0, <1>2 DEF ChainLive, Chain, Lasting
<1>3. ASSUME NEW a \in Grants, NEW g \in Grants, RevokeGrant(a, g) PROVE ChainLive'
  <2>1. \A h \in Grants : grants'[h].live = grants[h].live
    BY <1>0, <1>3 DEF RevokeGrant, GrantRecord
  <2> QED BY <1>2, <2>1
<1>4. ASSUME NEW w \in Workers,
             \/ \E s \in Sessions : Prepare(w, s)
             \/ WorkerStep(w) \/ WorkerStops(w) \/ LockLost(w)
      PROVE  ChainLive'
  BY <1>0, <1>2, <1>4, WorkerPass DEF WorkerEffect
<1>5. CASE ControlStep
  BY <1>1, <1>2, <1>3, <1>4, <1>5 DEF ControlStep, BeginOperation, EndOperation, AdmitDestroy, Admit
<1>6. ASSUME NEW c \in Conns, ConnectionStep(c) PROVE ChainLive'
  BY <1>2, <1>6, ConnectionType DEF SessionsKept
<1>7. CASE GatewayCrash \/ Tick \/ UNCHANGED vars
  BY <1>2, <1>7 DEF GatewayCrash, Tick, vars, controlVars
<1> QED BY <1>5, <1>6, <1>7 DEF Next, Step

LEMMA NextRevoked == TypeInv /\ ChainLive /\ RevokedIsClosed /\ [Next]_vars => RevokedIsClosed'
<1> SUFFICES ASSUME TypeInv, ChainLive, RevokedIsClosed, [Next]_vars,
                    NEW s \in Sessions, Admitted(s)', NEW h \in grants'[ses'[s].grant].chain, grants'[h].revoked
             PROVE  ses'[s].conn = "closed"
  BY DEF RevokedIsClosed, Chain
<1>0. /\ Lasting /\ ses \in [Sessions -> SessionRecord]
      /\ Admitted(s) => ses[s].grant \in Grants /\ grants[ses[s].grant].live
  BY NextLasts DEF TypeInv, ControlInv, AccessTypeOK
<1>1. CASE ~Admitted(s)
  BY <1>0, <1>1 DEF Lasting, Authority, Chain
<1>2. CASE Admitted(s)
  <2>1. ses'[s].grant = ses[s].grant /\ h \in Chain(ses[s].grant) /\ h \in Grants /\ grants[h].live
    BY <1>0, <1>2 DEF Lasting, TermsKept, Chain, ChainLive
  <2>2. CASE grants[h].revoked
    BY <1>0, <1>2, <2>1, <2>2 DEF RevokedIsClosed, Lasting
  <2>3. CASE ~grants[h].revoked
    <3>1. PICK a \in Grants : RevokeGrant(a, h)
      BY <2>1, <2>3, RevokedBy
    <3>2. ses[s].grant \in Subtree(h)
      BY <1>0, <1>2, <2>1 DEF Subtree
    <3>3. ses'[s] = Closed(ses[s])
      BY <3>1, <3>2 DEF RevokeGrant
    <3> QED BY <1>0, <1>2, <3>3, ClosedType DEF Admitted
  <2> QED BY <2>2, <2>3
<1> QED BY <1>1, <1>2

LEMMA ChainCorrect == Spec => []ChainLive
<1>1. Init => ChainLive
  BY DEF Init, AccessInit, ChainLive, Chain
<1> QED BY <1>1, NextChain, TypeCorrect, PTL DEF Spec

\* Revoking a grant leaves no session open below it, however deep, and none is
\* opened there later: revokeGrant closes the whole subtree in its transaction.
THEOREM RevocationCloses == Spec => []RevokedIsClosed
<1>1. Init => RevokedIsClosed
  BY DEF Init, AccessInit, NoSessionYet, RevokedIsClosed, Admitted
<1> QED BY <1>1, NextRevoked, ChainCorrect, TypeCorrect, PTL DEF Spec

-----------------------------------------------------------------------------
(* The lease                                                                *)

\* Authority that is lost stays lost: a session is never ahead of its machine,
\* and behind it once an operation began. The history is exact for sessions
\* that somebody claimed.
LossInv ==
  /\ \A s \in Sessions :
       Admitted(s) => /\ ses[s].version <= machine.version
                      /\ machine.state # "running" => ses[s].version < machine.version
  /\ \A s \in Sessions :
       /\ lostAt[s] # Never => Admitted(s) /\ ~Entitled(s) /\ lostAt[s] <= now
       /\ ses[s].by # NoConn /\ ~Entitled(s) => lostAt[s] # Never

\* An answer proves authority at some instant after its call began, so a lease
\* that counts from that beginning ends in time.
LeaseOK(c) ==
  /\ checks[c].st # "none" => gw[c].pc \in {"checking", "open"}
  /\ checks[c].st = "leased" => lostAt[gw[c].s] = Never \/ lostAt[gw[c].s] >= gw[c].started
  /\ gw[c].pc \in {"connecting", "open"} =>
       /\ gw[c].until <= now + Lease
       /\ lostAt[gw[c].s] = Never \/ gw[c].until <= lostAt[gw[c].s] + Lease
  /\ gw[c].pc = "open" => now <= gw[c].until

LeaseInv == \A c \in Conns : LeaseOK(c)

\* While the machine and the grants stand still, so does entitlement.
LEMMA StillEntitled ==
  ASSUME grants' = grants, machine' = machine, NEW s \in Sessions, TermsKept(s)
  PROVE  Entitled(s)' <=> Entitled(s)
BY DEF TermsKept, Entitled, Chain

LEMMA LossLasts ==
  ASSUME TypeInv, ChainLive, LossInv, [Next]_vars, NEW s \in Sessions, Admitted(s), ~Entitled(s)
  PROVE  ~Entitled(s)'
<1>0. /\ Lasting /\ ses[s].grant \in Grants /\ grants[ses[s].grant].live
      /\ ses[s].version \in Nat /\ machine.version \in Nat
      /\ machine' = machine \/ machine'.version > machine.version
  BY NextLasts, AccessAssumption DEF TypeInv, ControlInv, AccessTypeOK, SessionRecord, MachineRecord, Lasting
<1>00. machine'.version \in Nat
  BY NextType, AccessAssumption DEF TypeInv, ControlInv, AccessTypeOK, MachineRecord
<1>1. CASE \E h \in Chain(ses[s].grant) : grants[h].revoked
  <2>1. PICK h \in Chain(ses[s].grant) : grants[h].revoked
    BY <1>1
  <2>2. h \in Grants /\ grants[h].live
    BY <1>0, <2>1 DEF ChainLive
  <2> QED BY <1>0, <2>1, <2>2 DEF Lasting, TermsKept, Entitled, Chain
<1>2. CASE ~(machine.state = "running" /\ machine.version = ses[s].version)
  <2>1. ses[s].version < machine.version
    BY <1>0, <1>2 DEF LossInv
  <2>2. ses'[s].version = ses[s].version
    BY <1>0 DEF Lasting, TermsKept
  <2> QED BY <1>0, <1>00, <2>1, <2>2 DEF Entitled
<1> QED BY <1>1, <1>2 DEF Entitled

\* Gateway steps and the clock take no authority away, and a claim needs it.
LEMMA NothingLost ==
  ASSUME TypeInv, LossInv, Witness, grants' = grants, machine' = machine,
         \A s \in Sessions :
           TermsKept(s) /\ (ses'[s].by = ses[s].by \/ Entitled(s))
  PROVE  lostAt' = lostAt
<1>1. lostAt \in [Sessions -> Times \cup {Never}]
  BY DEF TypeInv
<1>2. ASSUME NEW s \in Sessions PROVE lostAt'[s] = lostAt[s]
  <2>1. Entitled(s)' <=> Entitled(s)
    BY StillEntitled
  <2> QED BY <2>1 DEF Witness, LossInv
<1>3. lostAt' = [s \in Sessions |-> lostAt'[s]]
  BY DEF Witness
<1> QED BY <1>1, <1>2, <1>3

LEMMA CallEntitled ==
  ASSUME TypeInv, NEW c \in Conns, ConnectionStep(c)
  PROVE  \A s \in Sessions : ses'[s].by = ses[s].by \/ Entitled(s)
<1>0. ses \in [Sessions -> SessionRecord]
  BY DEF TypeInv, ControlInv, AccessTypeOK
<1>1. CASE CommitClaim(c)
  <2>1. ASSUME Claim(gw[c].s, c), NEW s \in Sessions PROVE ses'[s].by = ses[s].by \/ Entitled(s)
    BY <1>0, <2>1 DEF Claim, Current, Authority, Entitled
  <2> QED BY <1>1, <2>1 DEF CommitClaim
<1>2. CASE ServeClose(c)
  BY <1>0, <1>2, ClosedType DEF ServeClose, CloseSession
<1> QED BY <1>1, <1>2
        DEF ConnectionStep, Upgrade, ServeClaim, ServeCheck, ClaimFails, ClaimAnswered, CheckAnswered,
            CheckFails, Connect, Heartbeat, HeartbeatAnswered, Stop, Expire, controlVars

\* Without a gateway step a loss is dated now.
LEMMA LostNow ==
  ASSUME Witness, NEW s \in Sessions
  PROVE  lostAt'[s] = lostAt[s] \/ (lostAt[s] = Never /\ lostAt'[s] = now)
BY DEF Witness

LEMMA NextLoss ==
  TypeInv /\ ChainLive /\ TicketInv /\ LossInv /\ [Next]_vars => LossInv'
<1> SUFFICES ASSUME TypeInv, ChainLive, TicketInv, LossInv, [Next]_vars PROVE LossInv'
  OBVIOUS
<1>0. Lasting /\ TypeInv' /\ TicketInv'
  BY NextLasts, NextType, NextTicket
<1>1. now \in Nat /\ now' \in Nat /\ now <= now'
  <2>1. now \in 0..MaxTime /\ now' \in 0..MaxTime
    BY <1>0 DEF TypeInv, ControlInv, AccessTypeOK
  <2>2. now' = now \/ now' = now + 1
    <3>1. ASSUME NEW c \in Conns, ConnectionStep(c) PROVE now' = now
      BY <3>1, ConnectionType DEF SessionsKept
    <3>2. CASE ControlStep
      BY <3>2, AuthorityType, AdmitType, WorkerType DEF ControlStep, TypeInv
    <3> QED BY <3>1, <3>2 DEF Next, Step, GatewayCrash, Tick, vars, controlVars
  <2> QED BY <2>1, <2>2
<1>2. ASSUME NEW s \in Sessions, Admitted(s)'
      PROVE  /\ ses'[s].version <= machine'.version
             /\ machine'.state # "running" => ses'[s].version < machine'.version
  <2>1. ses'[s].version \in Nat /\ machine'.version \in Nat /\ machine.version \in Nat
    BY <1>0, AccessAssumption DEF TypeInv, ControlInv, AccessTypeOK, SessionRecord, MachineRecord
  <2>2. CASE Admitted(s)
    <3>1. ses'[s].version = ses[s].version
      BY <1>0, <2>2 DEF Lasting, TermsKept
    <3> QED BY <1>0, <2>1, <2>2, <3>1 DEF Lasting, LossInv
  <2>3. CASE ~Admitted(s)
    BY <1>0, <1>2, <2>1, <2>3 DEF Lasting
  <2> QED BY <2>2, <2>3
<1>3. ASSUME NEW s \in Sessions
      PROVE  /\ lostAt'[s] # Never => Admitted(s)' /\ ~Entitled(s)' /\ lostAt'[s] <= now'
             /\ ses'[s].by # NoConn /\ ~Entitled(s)' => lostAt'[s] # Never
  <2>0. lostAt \in [Sessions -> Times \cup {Never}] /\ Never \notin Nat
    BY GatewayAssumption DEF TypeInv
  <2>1. CASE Next
    <3>1. ses'[s].by # NoConn => Admitted(s)'
      BY <1>0 DEF TicketInv, UnclaimedInv
    <3>2. lostAt'[s] = IF lostAt[s] = Never /\ (ses'[s].by # NoConn /\ ~Entitled(s)')
                       THEN now ELSE lostAt[s]
      BY <2>1 DEF Next, Witness
    <3>3. CASE lostAt[s] = Never
      BY <1>1, <2>0, <3>1, <3>2, <3>3
    <3>4. CASE lostAt[s] # Never
      <4>1. lostAt[s] \in Nat /\ lostAt[s] <= now /\ Admitted(s) /\ ~Entitled(s)
        BY <2>0, <3>4, TimesNat DEF LossInv
      <4>2. Admitted(s)' /\ ~Entitled(s)'
        BY <1>0, <4>1, LossLasts DEF Lasting
      <4> QED BY <1>1, <3>2, <3>4, <4>1, <4>2
    <3> QED BY <3>3, <3>4
  <2>2. CASE UNCHANGED vars
    <3>1. ses' = ses /\ lostAt' = lostAt /\ now' = now /\ grants' = grants /\ machine' = machine
      BY <2>2 DEF vars, controlVars
    <3> QED BY <3>1 DEF LossInv, Admitted, Entitled, Chain
  <2> QED BY <2>1, <2>2
<1> QED BY <1>2, <1>3 DEF LossInv

\* A refreshed lease rests on an answer to a call that began with authority.
LEMMA RefreshedLease ==
  ASSUME TypeInv, LeaseInv, NEW c \in Conns, checks[c].st = "leased"
  PROVE  /\ Refreshed(c).until \in Nat /\ Refreshed(c).until <= now + Lease
         /\ lostAt[gw[c].s] = Never \/ Refreshed(c).until <= lostAt[gw[c].s] + Lease
<1>1. /\ gw[c].started \in Nat /\ gw[c].started <= now /\ now \in Nat /\ Lease \in Nat
      /\ gw[c].s \in Sessions /\ lostAt[gw[c].s] \in Nat \cup {Never}
  <2>1. gw[c] \in ConnRecord /\ gw[c].started <= now /\ now \in 0..MaxTime /\ gw[c].s \in Sessions
    BY DEF TypeInv, GatewayInv, ControlInv, AccessTypeOK
  <2>2. lostAt[gw[c].s] \in Times \cup {Never}
    BY <2>1 DEF TypeInv
  <2>3. gw[c].started \in Times
    BY <2>1 DEF ConnRecord
  <2>4. now \in Nat /\ Lease \in Nat
    BY <2>1, GatewayAssumption
  <2> QED BY <2>1, <2>2, <2>3, <2>4, TimesNat
<1>2. Refreshed(c) \in ConnRecord /\ Refreshed(c).until <= gw[c].started + Lease
  BY RefreshedType DEF TypeInv
<1>3. Refreshed(c).until \in Nat
  BY <1>2, TimesNat DEF ConnRecord
<1>4. lostAt[gw[c].s] = Never \/ lostAt[gw[c].s] >= gw[c].started
  BY DEF LeaseInv, LeaseOK
<1> DEFINE u == Refreshed(c).until
           t == gw[c].started
           l == lostAt[gw[c].s]
<1>5. /\ u \in Nat /\ t \in Nat /\ l \in Nat \cup {Never} /\ t <= now /\ u <= t + Lease
      /\ l = Never \/ l >= t
  BY <1>1, <1>2, <1>3, <1>4
<1> HIDE DEF u, t, l
<1>6. u <= now + Lease /\ (l = Never \/ u <= l + Lease)
  BY <1>1, <1>5
<1> QED BY <1>3, <1>6 DEF u, l

LEMMA ConnectionLease ==
  ASSUME TypeInv, LossInv, LeaseInv, NEW c \in Conns, ConnectionStep(c), lostAt' = lostAt
  PROVE  LeaseOK(c)'
<1>0. /\ gw \in [Conns -> ConnRecord] /\ checks \in [Conns -> CallRecord]
      /\ gw[c].pc = "new" => claims[c].st = "none" /\ checks[c].st = "none" /\ c \notin closing
      /\ gw[c].pc # "new" => gw[c].s \in Sessions
      /\ LeaseOK(c) /\ now' = now
      /\ \A s \in Sessions : lostAt[s] # Never => ~Entitled(s)
  BY ConnectionType DEF TypeInv, GatewayInv, LeaseInv, LossInv, SessionsKept
<1>00. now \in Nat /\ gw[c].until \in Nat /\ NoCall.st = "none"
  <2>1. gw[c] \in ConnRecord /\ now \in 0..MaxTime
    BY <1>0 DEF TypeInv, ControlInv, AccessTypeOK
  <2>2. gw[c].until \in Times
    BY <2>1 DEF ConnRecord
  <2>3. now \in Nat /\ NoCall.st = "none"
    BY <2>1 DEF NoCall
  <2> QED BY <2>2, <2>3, TimesNat
\* Nothing that bears on the lease changes.
<1>1. ASSUME gw'[c] = gw[c], checks'[c] = checks[c] \/ checks'[c].st \in {"none", "omitted"},
             checks'[c].st = "none" \/ checks[c].st # "none"
      PROVE  LeaseOK(c)'
  BY <1>0, <1>1 DEF LeaseOK
<1>2. ASSUME End(c) PROVE LeaseOK(c)'
  <2>1. gw'[c] = Ended(gw[c]) /\ checks'[c] = NoCall /\ gw[c] \in ConnRecord
    BY <1>0, <1>2 DEF End
  <2>2. gw'[c].pc = "done"
    BY <2>1 DEF Ended, ConnRecord
  <2> QED BY <1>00, <2>1, <2>2 DEF LeaseOK
<1>3. ASSUME gw'[c].pc \in {"claiming", "checking", "connecting", "open"}, checks'[c].st \in {"none", "sent"},
             checks'[c].st = "sent" => gw'[c].pc \in {"checking", "open"},
             gw'[c].pc \in {"connecting", "open"} =>
               /\ gw'[c].until <= now + Lease
               /\ lostAt[gw'[c].s] = Never \/ gw'[c].until <= lostAt[gw'[c].s] + Lease,
             gw'[c].pc = "open" => now <= gw'[c].until
      PROVE  LeaseOK(c)'
  BY <1>0, <1>3 DEF LeaseOK
<1>4. ASSUME NEW s \in Sessions, Upgrade(c, s) PROVE LeaseOK(c)'
  <2>1. gw'[c].pc = "claiming" /\ checks'[c].st = "none"
    BY <1>0, <1>4 DEF Upgrade, ConnRecord
  <2> QED BY <1>3, <2>1
<1>5. CASE ServeClaim(c) \/ CommitClaim(c) \/ ServeClose(c)
  BY <1>1, <1>5 DEF ServeClaim, CommitClaim, ServeClose
<1>6. CASE ServeCheck(c)
  <2>1. gw[c].s \in Sessions /\ gw' = gw /\ checks[c].st = "sent"
    BY <1>0, <1>6 DEF ServeCheck
  <2>2. CASE ValidConnection(gw[c].s, c)
             /\ checks' = [checks EXCEPT ![c] = [st |-> "leased", rem |-> Remaining(gw[c].s)]]
    <3>1. lostAt[gw[c].s] = Never
      BY <1>0, <2>1, <2>2 DEF ValidConnection, Current, Authority, Entitled
    <3> QED BY <1>0, <2>1, <3>1 DEF LeaseOK
  <2>3. CASE checks' = [checks EXCEPT ![c].st = "omitted"]
    <3>1. checks'[c].st = "omitted"
      BY <1>0, <2>3 DEF CallRecord
    <3> QED BY <1>1, <2>1, <3>1
  <2> QED BY <1>6, <2>2, <2>3 DEF ServeCheck
<1>7. CASE ClaimFails(c) \/ CheckFails(c) \/ Stop(c)
  BY <1>2, <1>7 DEF ClaimFails, CheckFails, Stop
<1>8. CASE ClaimAnswered(c)
  <2>1. CASE ~End(c)
    <3>1. gw'[c].pc = "checking" /\ checks'[c].st = "sent"
      BY <1>0, <1>8, <2>1 DEF ClaimAnswered, ConnRecord, CallRecord
    <3> QED BY <1>3, <3>1
  <2> QED BY <1>2, <2>1
<1>9. CASE CheckAnswered(c)
  <2>1. CASE ~End(c)
    <3>1. checks[c].st = "leased" /\ gw'[c] = [Refreshed(c) EXCEPT !.pc = "connecting"]
          /\ checks'[c] = NoCall
      BY <1>0, <1>9, <2>1 DEF CheckAnswered
    <3>2. gw'[c].pc = "connecting" /\ gw'[c].s = gw[c].s /\ gw'[c].until = Refreshed(c).until
      BY <1>0, <3>1, RefreshedType DEF ConnRecord, TypeInv
    <3> QED BY <1>00, <1>3, <3>1, <3>2, RefreshedLease
  <2> QED BY <1>2, <2>1
<1>10. CASE Connect(c)
  <2>1. CASE ~End(c)
    <3>1. now < gw[c].until /\ gw[c].pc = "connecting" /\ gw' = [gw EXCEPT ![c].pc = "open"] /\ checks' = checks
      BY <1>10, <2>1 DEF Connect
    <3>2. gw'[c].pc = "open" /\ gw'[c].s = gw[c].s /\ gw'[c].until = gw[c].until
      BY <1>0, <3>1 DEF ConnRecord
    <3>3. checks'[c].st = "none"
      BY <1>0, <3>1 DEF LeaseOK
    <3>4. now <= gw[c].until
      BY <1>00, <3>1
    <3> QED BY <1>0, <1>3, <3>1, <3>2, <3>3, <3>4 DEF LeaseOK
  <2> QED BY <1>2, <2>1
<1>11. CASE Heartbeat(c)
  <2>1. gw'[c].pc = "open" /\ gw'[c].s = gw[c].s /\ gw'[c].until = gw[c].until
    BY <1>0, <1>11 DEF Heartbeat, ConnRecord
  <2>2. checks'[c].st = "sent" /\ gw[c].pc = "open"
    BY <1>0, <1>11 DEF Heartbeat, CallRecord
  <2> QED BY <1>0, <1>3, <2>1, <2>2 DEF LeaseOK
<1>12. CASE HeartbeatAnswered(c)
  <2>1. CASE End(c)
    BY <1>2, <2>1
  <2>2. CASE checks' = [checks EXCEPT ![c] = NoCall] /\ gw' = gw
    BY <1>0, <1>00, <1>1, <2>2
  <2>3. CASE checks[c].st = "leased" /\ now < Refreshed(c).until
             /\ gw' = [gw EXCEPT ![c] = Refreshed(c)] /\ checks' = [checks EXCEPT ![c] = NoCall]
    <3>1. gw'[c] = Refreshed(c) /\ checks'[c] = NoCall /\ gw'[c].pc = "open" /\ gw'[c].s = gw[c].s
      BY <1>0, <1>12, <2>3, RefreshedType DEF HeartbeatAnswered, TypeInv
    <3>2. gw'[c].until <= now + Lease /\ now <= gw'[c].until
          /\ (lostAt[gw[c].s] = Never \/ gw'[c].until <= lostAt[gw[c].s] + Lease)
      BY <1>00, <2>3, <3>1, RefreshedLease
    <3> QED BY <1>00, <1>3, <3>1, <3>2
  <2> QED BY <1>12, <2>1, <2>2, <2>3 DEF HeartbeatAnswered
<1> QED BY <1>4, <1>5, <1>6, <1>7, <1>8, <1>9, <1>10, <1>11, <1>12 DEF ConnectionStep, Expire

LEMMA NextLease ==
  TypeInv /\ ChainLive /\ TicketInv /\ LossInv /\ LeaseInv /\ [Next]_vars => LeaseInv'
<1> SUFFICES ASSUME TypeInv, ChainLive, TicketInv, LossInv, LeaseInv, [Next]_vars PROVE LeaseInv'
  OBVIOUS
<1>0. /\ gw \in [Conns -> ConnRecord] /\ now \in Nat /\ Lease \in Nat
      /\ lostAt \in [Sessions -> Times \cup {Never}] /\ Never \notin Nat
      /\ \A c \in Conns : gw[c].until \in Nat /\ gw[c].started \in Nat /\ gw[c].started <= now
      /\ \A c \in Conns : gw[c].pc # "new" => gw[c].s \in Sessions
      /\ \A c \in Conns : gw[c].pc = "new" => checks[c].st = "none"
  <2>1. now \in Nat /\ Lease \in Nat /\ Never \notin Nat
    BY GatewayAssumption DEF TypeInv, ControlInv, AccessTypeOK
  <2>2. gw \in [Conns -> ConnRecord] /\ lostAt \in [Sessions -> Times \cup {Never}]
    BY DEF TypeInv, GatewayInv
  <2>3. \A c \in Conns : gw[c].until \in Times /\ gw[c].started \in Times
    BY <2>2 DEF ConnRecord
  <2>4. \A c \in Conns : /\ gw[c].started <= now /\ (gw[c].pc # "new" => gw[c].s \in Sessions)
                         /\ gw[c].pc = "new" => checks[c].st = "none"
    BY DEF TypeInv, GatewayInv
  <2> QED BY <2>1, <2>2, <2>3, <2>4, TimesNat
<1>1. CASE ControlStep /\ Witness
  <2>1. now' = now /\ gw' = gw /\ checks' = checks
    BY <1>1, AuthorityType, AdmitType, WorkerType DEF ControlStep, gatewayVars, TypeInv
  <2>2. ASSUME NEW c \in Conns PROVE LeaseOK(c)'
    <3>1. CASE gw[c].pc = "new"
      BY <1>0, <2>1, <3>1 DEF LeaseOK
    <3>2. CASE gw[c].pc # "new"
      <4>1. lostAt'[gw[c].s] = lostAt[gw[c].s] \/ (lostAt[gw[c].s] = Never /\ lostAt'[gw[c].s] = now)
        BY <1>0, <1>1, <3>2, LostNow
      <4>2. LeaseOK(c)
        BY DEF LeaseInv
      <4> QED BY <1>0, <2>1, <4>1, <4>2 DEF LeaseOK
    <3> QED BY <3>1, <3>2
  <2> QED BY <2>2 DEF LeaseInv
<1>2. ASSUME NEW c \in Conns, ConnectionStep(c), Witness PROVE LeaseInv'
  <2>1. SessionsKept /\ Alone(c)
    BY <1>2, ConnectionType
  <2>2. lostAt' = lostAt
    BY <1>2, <2>1, CallEntitled, NothingLost DEF SessionsKept
  <2>3. \A d \in Conns \ {c} : LeaseOK(d)'
    BY <2>1, <2>2 DEF Alone, LeaseInv, LeaseOK
  <2> QED BY <1>2, <2>2, <2>3, ConnectionLease DEF LeaseInv
<1>3. CASE (GatewayCrash \/ Tick) /\ Witness
  <2>1. lostAt' = lostAt
    <3>1. grants' = grants /\ machine' = machine /\ ses' = ses
      BY <1>3 DEF GatewayCrash, Tick, controlVars
    <3>2. \A s \in Sessions : TermsKept(s) /\ (ses'[s].by = ses[s].by \/ Entitled(s))
      BY <3>1 DEF TermsKept
    <3> QED BY <1>3, <3>1, <3>2, NothingLost
  <2>2. CASE GatewayCrash
    <3>1. now' = now /\ \A c \in Conns : checks'[c].st = "none"
      BY <2>2 DEF GatewayCrash, controlVars, NoCall
    <3>2. \A c \in Conns : Ended(gw[c]).pc = "done"
      BY <1>0 DEF Ended, ConnRecord
    <3>3. \A c \in Conns : gw'[c].pc \notin {"connecting", "open"}
      BY <2>2, <3>2 DEF GatewayCrash, Pending, Open
    <3> QED BY <3>1, <3>3 DEF LeaseInv, LeaseOK
  <2>3. CASE Tick
    <3>1. gw' = gw /\ checks' = checks /\ now' = now + 1 /\ \A c \in Conns : gw[c].pc = "open" => now < gw[c].until
      BY <2>3 DEF Tick, gatewayVars, Open
    <3> QED BY <1>0, <2>1, <3>1 DEF LeaseInv, LeaseOK
  <2> QED BY <1>3, <2>2, <2>3
<1>4. CASE UNCHANGED vars
  BY <1>4 DEF vars, controlVars, gatewayVars, LeaseInv, LeaseOK
<1> QED BY <1>1, <1>2, <1>3, <1>4 DEF Next, Step

\* No connection outlives the loss of its authority by more than the lease,
\* whatever calls are lost, late or given up, and however long a lease is.
THEOREM LeaseHolds == Spec => []LeaseBoundsAccess
<1>1. Init => LossInv /\ LeaseInv
  BY GatewayAssumption DEF Init, AccessInit, NoSessionYet, NoCall, LossInv, LeaseInv, LeaseOK, Admitted
<1>2. TypeInv /\ LeaseInv => LeaseBoundsAccess
  <2> SUFFICES ASSUME TypeInv, LeaseInv, NEW c \in Open, lostAt[gw[c].s] # Never
               PROVE  now <= lostAt[gw[c].s] + Lease
    BY DEF LeaseBoundsAccess
  <2>1. c \in Conns /\ gw[c].pc = "open" /\ gw[c].s \in Sessions /\ gw[c] \in ConnRecord /\ now \in Nat
    BY DEF Open, TypeInv, GatewayInv, ControlInv, AccessTypeOK
  <2>2. gw[c].until \in Nat /\ lostAt[gw[c].s] \in Nat /\ Lease \in Nat
    BY <2>1, TimesNat, GatewayAssumption DEF ConnRecord, TypeInv
  <2>3. now <= gw[c].until /\ gw[c].until <= lostAt[gw[c].s] + Lease
    BY <2>1 DEF LeaseInv, LeaseOK
  <2> DEFINE u == gw[c].until
             l == lostAt[gw[c].s]
  <2> HIDE DEF u, l
  <2>4. u \in Nat /\ l \in Nat /\ now <= u /\ u <= l + Lease
    BY <2>2, <2>3 DEF u, l
  <2>5. now <= l + Lease
    BY <2>1, <2>2, <2>4
  <2> QED BY <2>5 DEF l
<1> QED BY <1>1, <1>2, NextLoss, NextLease, TypeCorrect, TicketCorrect, ChainCorrect, PTL DEF Spec

-----------------------------------------------------------------------------
(* Reservations                                                             *)

\* A session holds a slot.
Holds(s) == Admitted(s) /\ ses[s].conn # "closed" /\ HeldUntil(s) > now

\* The sessions ever admitted are finitely many, and the limits stand.
SlotInv ==
  /\ IsFiniteSet({s \in Sessions : Admitted(s)})
  /\ ReservationsBounded

\* No slot is taken in the step, nor moved between grants.
NoneTaken ==
  \A s \in Sessions : /\ Admitted(s)' <=> Admitted(s)
                      /\ Holds(s)' => Holds(s) /\ ses'[s].grant = ses[s].grant

LEMMA FiniteSlots ==
  ASSUME SlotInv, NEW g
  PROVE  IsFiniteSet(Reserved) /\ IsFiniteSet(OfGrant(Reserved, g))
<1>1. Reserved \subseteq {s \in Sessions : Admitted(s)} /\ OfGrant(Reserved, g) \subseteq Reserved
  BY DEF Reserved, OfGrant
<1> QED BY <1>1, FS_Subset DEF SlotInv

LEMMA NoneTakenKeeps ==
  ASSUME SlotInv, NoneTaken
  PROVE  SlotInv'
<1>1. {s \in Sessions : Admitted(s)}' = {s \in Sessions : Admitted(s)}
  BY DEF NoneTaken
<1>2. Reserved' \subseteq Reserved /\ \A g \in Grants : OfGrant(Reserved, g)' \subseteq OfGrant(Reserved, g)
  BY DEF NoneTaken, OfGrant, Reserved, Holds
<1>3. Cardinality(Reserved') \in Nat /\ Cardinality(Reserved) \in Nat
      /\ Cardinality(Reserved') <= Cardinality(Reserved)
  BY <1>2, FiniteSlots, FS_Subset, FS_CardinalityType
<1>4. ASSUME NEW g \in Grants
      PROVE  Cardinality(OfGrant(Reserved, g)') <= GrantLimit
  <2>1. IsFiniteSet(OfGrant(Reserved, g)) /\ OfGrant(Reserved, g)' \subseteq OfGrant(Reserved, g)
    BY <1>2, FiniteSlots
  <2>2. /\ Cardinality(OfGrant(Reserved, g)') \in Nat /\ Cardinality(OfGrant(Reserved, g)) \in Nat
        /\ Cardinality(OfGrant(Reserved, g)') <= Cardinality(OfGrant(Reserved, g))
    BY <2>1, FS_Subset, FS_CardinalityType
  <2>3. Cardinality(OfGrant(Reserved, g)) <= GrantLimit
    BY DEF SlotInv, ReservationsBounded
  <2> QED BY <2>2, <2>3, AccessAssumption
<1>5. Cardinality(Reserved') <= AccountLimit
  BY <1>3, AccessAssumption DEF SlotInv, ReservationsBounded
<1> QED BY <1>1, <1>4, <1>5 DEF SlotInv, ReservationsBounded

LEMMA AdmitSlots ==
  ASSUME TypeInv, SlotInv, NEW s \in Sessions, NEW g \in Grants, Admit(s, g)
  PROVE  SlotInv'
<1>0. ses \in [Sessions -> SessionRecord] /\ now' = now /\ AccountLimit \in Nat /\ GrantLimit \in Nat
  BY AccessAssumption DEF TypeInv, ControlInv, AccessTypeOK, Admit
<1>1. ses'[s].grant = g /\ \A r \in Sessions \ {s} : ses'[r] = ses[r]
  BY <1>0 DEF Admit, NoSessionYet
<1>2. {r \in Sessions : Admitted(r)}' \subseteq {r \in Sessions : Admitted(r)} \cup {s}
  BY <1>1 DEF Admitted
<1>3. IsFiniteSet({r \in Sessions : Admitted(r)} \cup {s})
  BY FS_AddElement DEF SlotInv
<1>4. \A r \in Sessions \ {s} : Holds(r)' <=> Holds(r)
  BY <1>0, <1>1 DEF Holds, Admitted, HeldUntil, IssueBy
<1>5. Reserved' \subseteq Reserved \cup {s} /\ OfGrant(Reserved, g)' \subseteq OfGrant(Reserved, g) \cup {s}
      /\ \A h \in Grants \ {g} : OfGrant(Reserved, h)' \subseteq OfGrant(Reserved, h)
  BY <1>1, <1>4 DEF Reserved, OfGrant, Holds
<1>6. ASSUME NEW S, NEW T, IsFiniteSet(S), T \subseteq S \cup {s}, NEW n \in Nat, Cardinality(S) < n
      PROVE  Cardinality(T) <= n
  <2>1. IsFiniteSet(S \cup {s}) /\ Cardinality(S) \in Nat
        /\ (Cardinality(S \cup {s}) = Cardinality(S) \/ Cardinality(S \cup {s}) = Cardinality(S) + 1)
    BY <1>6, FS_AddElement, FS_CardinalityType
  <2>2. Cardinality(T) \in Nat /\ Cardinality(T) <= Cardinality(S \cup {s})
    BY <1>6, <2>1, FS_Subset, FS_CardinalityType
  <2> QED BY <1>6, <2>1, <2>2
<1>7. Cardinality(Reserved') <= AccountLimit
  <2>1. Cardinality(Reserved) < AccountLimit
    BY DEF Admit
  <2> QED BY <1>0, <1>5, <1>6, <2>1, FiniteSlots
<1>8. Cardinality(OfGrant(Reserved, g)') <= GrantLimit
  <2>1. Cardinality(OfGrant(Reserved, g)) < GrantLimit
    BY DEF Admit
  <2> QED BY <1>0, <1>5, <1>6, <2>1, FiniteSlots
<1>9. ASSUME NEW h \in Grants \ {g} PROVE Cardinality(OfGrant(Reserved, h)') <= GrantLimit
  <2>1. IsFiniteSet(OfGrant(Reserved, h)) /\ OfGrant(Reserved, h)' \subseteq OfGrant(Reserved, h)
    BY <1>5, FiniteSlots
  <2>2. /\ Cardinality(OfGrant(Reserved, h)') \in Nat /\ Cardinality(OfGrant(Reserved, h)) \in Nat
        /\ Cardinality(OfGrant(Reserved, h)') <= Cardinality(OfGrant(Reserved, h))
    BY <2>1, FS_Subset, FS_CardinalityType
  <2>3. Cardinality(OfGrant(Reserved, h)) <= GrantLimit
    BY DEF SlotInv, ReservationsBounded
  <2> QED BY <1>0, <2>2, <2>3
<1>10. IsFiniteSet({r \in Sessions : Admitted(r)}')
  BY <1>2, <1>3, FS_Subset
<1> QED BY <1>7, <1>8, <1>9, <1>10 DEF SlotInv, ReservationsBounded

\* A pass that decides an open issuance moves no deadline.
LEMMA DecisionTakesNone ==
  ASSUME TypeInv, UnclaimedInv, NEW s \in Sessions, ses[s].issuance \in {"pending", "attempted"},
         NEW kind \in {"attempted", "unavailable"}, SetIssuance(s, kind), now' = now
  PROVE  NoneTaken
<1>0. ses \in [Sessions -> SessionRecord] /\ ses' = [ses EXCEPT ![s].issuance = kind]
  BY DEF SetIssuance, TypeInv, ControlInv, AccessTypeOK
<1>1. \A r \in Sessions \ {s} : ses'[r] = ses[r]
  BY <1>0
<1>2. ses'[s].issuance = kind /\ ses'[s].conn = ses[s].conn /\ ses'[s].grant = ses[s].grant
      /\ ses'[s].admitted = ses[s].admitted /\ ses'[s].hard = ses[s].hard
  BY <1>0 DEF SessionRecord
<1>3. ses[s].conn # "claimed"
  BY DEF UnclaimedInv
<1> QED BY <1>1, <1>2, <1>3 DEF NoneTaken, Holds, Admitted, HeldUntil, IssueBy

LEMMA PublishTakesNone ==
  ASSUME TypeInv, UnclaimedInv, NEW w \in Workers, Publish(w)
  PROVE  NoneTaken
<1>00. PICK s \in Sessions : s = wk[w].s
  BY DEF Publish, TypeInv, ControlInv
<1> DEFINE t == Min({now + TicketWindow, IssueBy(s), ses[s].hard, Expiry(ses[s].grant)})
<1>0. ses \in [Sessions -> SessionRecord] /\ now' = now /\ now \in Nat
  BY DEF Publish, Outside, TypeInv, ControlInv, AccessTypeOK
<1>1. CASE ses' = ses
  BY <1>0, <1>1 DEF NoneTaken, Holds, Admitted, HeldUntil, IssueBy
<1>2. CASE ses[s].issuance = "attempted" /\ SetIssuance(s, "unavailable")
  BY <1>0, <1>2, DecisionTakesNone
<1>3. CASE /\ ses[s].issuance = "attempted" /\ ses[s].conn = "unclaimed"
           /\ ses' = [ses EXCEPT ![s].issuance = "issued", ![s].certBy = wk[w].until, ![s].ticketBy = t]
  <2>1. ses[s].grant \in Grants /\ ses[s].hard \in Nat /\ ses[s].admitted \in Nat
    <3>1. ses[s].hard \in Times /\ ses[s].admitted \in Times
      BY <1>0 DEF SessionRecord
    <3> QED BY <1>0, <1>3, <3>1, TimesNat DEF TypeInv, ControlInv, Admitted
  <2>2. Expiry(ses[s].grant) \in Nat
    BY <2>1, ExpiryFact, TimesNat DEF TypeInv
  <2>3. now + TicketWindow \in Nat /\ IssueBy(s) \in Nat
    BY <1>0, <2>1, AccessAssumption DEF IssueBy
  <2>4. t \in Nat /\ t <= IssueBy(s)
    <3> DEFINE S == {now + TicketWindow, IssueBy(s), ses[s].hard, Expiry(ses[s].grant)}
    <3>1. S \in SUBSET Nat /\ IssueBy(s) \in S
      BY <2>1, <2>2, <2>3
    <3> QED BY <3>1, MinNat
  <2> HIDE DEF t
  <2>5. \A r \in Sessions \ {s} : ses'[r] = ses[r]
    BY <1>0, <1>3
  <2>6. ses'[s].issuance = "issued" /\ ses'[s].conn = ses[s].conn /\ ses'[s].grant = ses[s].grant
        /\ ses'[s].ticketBy = t
    BY <1>0, <1>3 DEF SessionRecord
  <2>7. HeldUntil(s)' = t /\ HeldUntil(s) = IssueBy(s)
    BY <1>3, <2>6 DEF HeldUntil
  <2>8. t > now => IssueBy(s) > now
    BY <1>0, <2>3, <2>4
  <2>9. Holds(s)' => Holds(s)
    BY <1>0, <1>3, <2>6, <2>7, <2>8 DEF Holds, Admitted
  <2> QED BY <1>0, <1>3, <2>5, <2>6, <2>9 DEF NoneTaken, Holds, Admitted, HeldUntil, IssueBy
<1> QED BY <1>00, <1>1, <1>2, <1>3 DEF Publish

LEMMA WorkerTakesNone ==
  ASSUME TypeInv, UnclaimedInv, NEW w \in Workers,
         \/ \E s \in Sessions : Prepare(w, s)
         \/ WorkerStep(w) \/ WorkerStops(w) \/ LockLost(w)
  PROVE  NoneTaken
<1>0. now' = now /\ (wk[w].pc # "idle" => wk[w].s \in Sessions)
  BY WorkerType DEF TypeInv, ControlInv
<1>1. ASSUME ses' = ses PROVE NoneTaken
  BY <1>0, <1>1 DEF NoneTaken, Holds, Admitted, HeldUntil, IssueBy
<1>2. ASSUME NEW s \in Sessions, Prepare(w, s) PROVE NoneTaken
  BY <1>0, <1>1, <1>2, DecisionTakesNone DEF Prepare
<1>3. CASE Observe(w)
  BY <1>0, <1>1, <1>3, DecisionTakesNone DEF Observe, Undecided
<1>4. CASE Attempt(w)
  BY <1>0, <1>1, <1>4, DecisionTakesNone DEF Attempt, Undecided
<1>5. CASE Sign(w) \/ WorkerStops(w) \/ LockLost(w)
  BY <1>1, <1>5 DEF Sign, WorkerStops, LockLost
<1> QED BY <1>2, <1>3, <1>4, <1>5, PublishTakesNone DEF WorkerStep

LEMMA ClaimTakesNone ==
  ASSUME TypeInv, NEW s \in Sessions, NEW c \in Conns, Claim(s, c), now' = now
  PROVE  NoneTaken
<1>0. ses \in [Sessions -> SessionRecord] /\ now \in Nat
  BY DEF TypeInv, ControlInv, AccessTypeOK
<1>1. ses'[s].issuance = ses[s].issuance /\ ses'[s].grant = ses[s].grant
      /\ \A r \in Sessions \ {s} : ses'[r] = ses[r]
  BY <1>0 DEF Claim, SessionRecord
<1>2. ses[s].ticketBy \in Times /\ ses[s].certBy \in Times /\ ses[s].hard \in Times
  BY <1>0 DEF SessionRecord
<1> DEFINE S == {ses[s].ticketBy, ses[s].certBy, ses[s].hard}
<1>3. Min(S) \in Nat /\ Min(S) <= ses[s].ticketBy /\ ses[s].ticketBy \in Nat
  BY <1>2, MinNat, TimesNat
<1>4. now < Min(S) /\ ses[s].conn = "unclaimed" /\ ses[s].issuance = "issued"
  BY DEF Claim, Claimable
<1> HIDE DEF S
<1>5. now < ses[s].ticketBy
  BY <1>0, <1>3, <1>4
<1>6. Holds(s)
  BY <1>0, <1>3, <1>4, <1>5 DEF Holds, Admitted, HeldUntil
<1> QED BY <1>1, <1>6 DEF NoneTaken, Holds, Admitted, HeldUntil, IssueBy

LEMMA ClosingTakesNone ==
  ASSUME TypeInv, NEW S \in SUBSET Sessions, now' = now,
         ses' = [s \in Sessions |-> IF s \in S THEN Closed(ses[s]) ELSE ses[s]]
  PROVE  NoneTaken
<1>1. ASSUME NEW s \in Sessions
      PROVE  /\ Admitted(s)' <=> Admitted(s)
             /\ Holds(s)' => Holds(s) /\ ses'[s].grant = ses[s].grant
  <2>0. ses[s] \in SessionRecord
    BY DEF TypeInv, ControlInv, AccessTypeOK
  <2>1. CASE s \in S /\ Admitted(s)
    BY <2>0, <2>1, ClosedType DEF Admitted, Holds
  <2>2. CASE ses'[s] = ses[s]
    BY <2>2 DEF Admitted, Holds, HeldUntil, IssueBy
  <2> QED BY <2>1, <2>2 DEF Closed, Admitted
<1> QED BY <1>1 DEF NoneTaken

LEMMA NextSlots == TypeInv /\ UnclaimedInv /\ SlotInv /\ [Next]_vars => SlotInv'
<1> SUFFICES ASSUME TypeInv, UnclaimedInv, SlotInv, [Next]_vars PROVE SlotInv'
  OBVIOUS
<1>0. ses \in [Sessions -> SessionRecord]
  BY DEF TypeInv, ControlInv, AccessTypeOK
<1>1. ASSUME ses' = ses, now' = now PROVE SlotInv'
  <2>1. NoneTaken
    BY <1>1 DEF NoneTaken, Holds, Admitted, HeldUntil, IssueBy
  <2> QED BY <2>1, NoneTakenKeeps
<1>2. ASSUME NEW a \in Grants, NEW g \in Grants, RevokeGrant(a, g) PROVE SlotInv'
  <2>1. ses' = [s \in Sessions |-> IF s \in {r \in Sessions : ses[r].grant \in Subtree(g)}
                                   THEN Closed(ses[s]) ELSE ses[s]] /\ now' = now
    BY <1>2 DEF RevokeGrant
  <2> QED BY <2>1, ClosingTakesNone, NoneTakenKeeps
<1>3. CASE AdmitDestroy
  <2>1. ses' = [s \in Sessions |-> IF s \in Sessions THEN Closed(ses[s]) ELSE ses[s]] /\ now' = now
    BY <1>3 DEF AdmitDestroy
  <2> QED BY <2>1, ClosingTakesNone, NoneTakenKeeps
<1>4. CASE ControlStep
  BY <1>1, <1>2, <1>3, <1>4, WorkerTakesNone, NoneTakenKeeps, AdmitSlots
     DEF ControlStep, IssueGrant, BeginOperation, EndOperation, AccessUnchanged
<1>5. ASSUME NEW c \in Conns, ConnectionStep(c) PROVE SlotInv'
  <2>1. now' = now
    BY <1>5, ConnectionType DEF SessionsKept
  <2>2. CASE CommitClaim(c)
    <3>1. gw[c].s \in Sessions
      BY <2>2 DEF CommitClaim, TypeInv, GatewayInv
    <3> QED BY <1>1, <2>1, <2>2, <3>1, ClaimTakesNone, NoneTakenKeeps DEF CommitClaim
  <2>3. CASE ServeClose(c)
    <3>1. gw[c].s \in Sessions
      BY <2>3 DEF ServeClose, TypeInv, GatewayInv
    <3>2. CASE ses' = [ses EXCEPT ![gw[c].s] = Closed(ses[gw[c].s])]
      <4>1. ses' = [s \in Sessions |-> IF s \in {gw[c].s} THEN Closed(ses[s]) ELSE ses[s]]
        BY <1>0, <3>2
      <4> QED BY <2>1, <3>1, <4>1, ClosingTakesNone, NoneTakenKeeps
    <3> QED BY <1>1, <2>1, <2>3, <3>2 DEF ServeClose, CloseSession
  <2> QED BY <1>1, <1>5, <2>1, <2>2, <2>3
          DEF ConnectionStep, Upgrade, ServeClaim, ServeCheck, ClaimFails, ClaimAnswered, CheckAnswered,
              CheckFails, Connect, Heartbeat, HeartbeatAnswered, Stop, Expire, controlVars
<1>6. CASE GatewayCrash \/ UNCHANGED vars
  BY <1>1, <1>6 DEF GatewayCrash, vars, controlVars
<1>7. CASE Tick
  <2>1. ses' = ses /\ now' = now + 1 /\ now \in Nat
    BY <1>7 DEF Tick, TypeInv, ControlInv, AccessTypeOK
  <2>2. \A s \in Sessions : HeldUntil(s) \in Int /\ HeldUntil(s)' = HeldUntil(s)
    <3>1. \A s \in Sessions : ses[s].hard \in Times /\ ses[s].ticketBy \in Times /\ ses[s].admitted \in Times
      BY <1>0 DEF SessionRecord
    <3>2. \A s \in Sessions : ses[s].hard \in Nat /\ ses[s].ticketBy \in Nat /\ ses[s].admitted \in Nat
      BY <3>1, TimesNat
    <3>3. \A s \in Sessions : ses[s].hard \in Int /\ ses[s].ticketBy \in Int /\ ses[s].admitted + IssueWindow \in Int
      BY <3>2, AccessAssumption
    <3> QED BY <2>1, <3>3 DEF HeldUntil, IssueBy
  <2>3. NoneTaken
    BY <2>1, <2>2 DEF NoneTaken, Holds, Admitted
  <2> QED BY <2>3, NoneTakenKeeps
<1> QED BY <1>4, <1>5, <1>6, <1>7 DEF Next, Step

\* The slots that sessions hold never exceed the limits of the account and of a
\* grant: no decision, publication or claim extends a slot that has run out.
THEOREM LimitsHold == Spec => []ReservationsBounded
<1>1. Init => SlotInv
  <2> SUFFICES ASSUME Init PROVE SlotInv
    OBVIOUS
  <2>1. \A s \in Sessions : ~Admitted(s)
    BY DEF Init, AccessInit, NoSessionYet, Admitted
  <2>2. {s \in Sessions : Admitted(s)} = {} /\ Reserved = {} /\ \A g \in Grants : OfGrant(Reserved, g) = {}
    BY <2>1 DEF Reserved, OfGrant
  <2>3. IsFiniteSet({}) /\ Cardinality({}) = 0
    BY FS_EmptySet
  <2> QED BY <2>2, <2>3, AccessAssumption DEF SlotInv, ReservationsBounded
<1>2. SlotInv => ReservationsBounded
  BY DEF SlotInv
<1>3. TicketInv => UnclaimedInv
  BY DEF TicketInv
<1> QED BY <1>1, <1>2, <1>3, NextSlots, TypeCorrect, TicketCorrect, PTL DEF Spec
=============================================================================
