---------------------------- MODULE AccessGateway ----------------------------
(***************************************************************************)
(* The access gateway (apps/access-gateway/src/server.ts) with the control *)
(* plane it asks: a connection claims a ticket, checks it once more, then  *)
(* carries bytes while its lease is renewed. Requests and answers may be   *)
(* lost, the gateway gives up on a slow call while the call goes on, and   *)
(* the process may die.                                                    *)
(***************************************************************************)
EXTENDS AccessSessions

CONSTANTS Lease,            \* 15 s after the start of the last good check
          MaxConnections,   \* maximumConnections
          Never             \* no time

ASSUME GatewayAssumption == Lease \in Nat \ {0} /\ MaxConnections \in Nat /\ Never \notin Nat

\* started: when the call under way began (performance.now before the rpc).
\* hard, until: the local hard deadline and the deadline of the timer.
ConnRecord ==
  [pc : {"new", "claiming", "checking", "connecting", "open", "done"},
   s : Sessions \cup {NoSession}, started : Times, hard : Times, until : Times]

\* A call at the control plane and the remaining time it answered with.
CallRecord == [st : {"none", "sent", "observed", "leased", "omitted"}, rem : Times]

VARIABLES
  gw,       \* [Conns -> ConnRecord]
  claims,   \* [Conns -> CallRecord], the claim call of a connection
  checks,   \* [Conns -> CallRecord], the check call of a connection
  closing,  \* connections whose close report is on its way
  lostAt    \* [Sessions -> Times \cup {Never}], when authority ended (history)

gatewayVars == <<gw, claims, checks, closing>>
vars == <<controlVars, gatewayVars, lostAt>>

NoCall == [st |-> "none", rem |-> 0]

Init ==
  /\ AccessInit
  /\ gw = [c \in Conns |-> [pc |-> "new", s |-> NoSession, started |-> 0, hard |-> 0,
                            until |-> 0]]
  /\ claims = [c \in Conns |-> NoCall]
  /\ checks = [c \in Conns |-> NoCall]
  /\ closing = {}
  /\ lostAt = [s \in Sessions |-> Never]

-----------------------------------------------------------------------------
(* The control plane serves a call                                          *)

ServeClaim(c) ==
  /\ claims[c].st = "sent"
  /\ \/ ClaimObserved(gw[c].s) /\ claims' = [claims EXCEPT ![c].st = "observed"]
     \/ claims' = [claims EXCEPT ![c].st = "omitted"]     \* refused or busy
  /\ UNCHANGED <<controlVars, gw, checks, closing>>

CommitClaim(c) ==
  LET s == gw[c].s IN
  /\ claims[c].st = "observed"
  /\ \/ Claim(s, c) /\ claims' = [claims EXCEPT ![c] = [st |-> "leased", rem |-> Remaining(s)]]
     \/ claims' = [claims EXCEPT ![c].st = "omitted"] /\ UNCHANGED ses
  /\ UNCHANGED <<now, grants, machine, lock, wk, signings, gw, checks, closing>>

\* check: an omission, for whatever reason, denies the connection.
ServeCheck(c) ==
  LET s == gw[c].s IN
  /\ checks[c].st = "sent"
  /\ \/ ValidConnection(s, c)
        /\ checks' = [checks EXCEPT ![c] = [st |-> "leased", rem |-> Remaining(s)]]
     \/ checks' = [checks EXCEPT ![c].st = "omitted"]
  /\ UNCHANGED <<controlVars, gw, claims, closing>>

ServeClose(c) ==
  /\ c \in closing /\ closing' = closing \ {c}
  /\ CloseSession(gw[c].s, c) \/ UNCHANGED ses           \* the report may be lost
  /\ UNCHANGED <<now, grants, machine, lock, wk, signings, gw, claims, checks>>

-----------------------------------------------------------------------------
(* The gateway                                                              *)

Pending == {c \in Conns : gw[c].pc \in {"claiming", "checking", "connecting"}}
Open    == {c \in Conns : gw[c].pc = "open"}

\* A client presents the ticket of s.
Upgrade(c, s) ==
  /\ gw[c].pc = "new" /\ Admitted(s)
  /\ Cardinality(Pending \cup Open) < MaxConnections
  /\ gw' = [gw EXCEPT ![c].pc = "claiming", ![c].s = s, ![c].started = now]
  /\ claims' = [claims EXCEPT ![c].st = "sent"]
  /\ UNCHANGED <<controlVars, checks, closing>>

Ended(r) == [r EXCEPT !.pc = "done", !.started = 0, !.hard = 0, !.until = 0]

End(c)    == gw' = [gw EXCEPT ![c] = Ended(@)] /\ checks' = [checks EXCEPT ![c] = NoCall]
Report(c) == closing' = closing \cup {c}

\* The claim is refused, or no answer arrives: nothing is reported.
ClaimFails(c) ==
  /\ gw[c].pc = "claiming" /\ End(c)
  /\ UNCHANGED <<controlVars, claims, closing>>

\* The claim is answered. The client may have gone; otherwise check once more.
ClaimAnswered(c) ==
  /\ gw[c].pc = "claiming" /\ claims[c].st = "leased"
  /\ \/ End(c) /\ Report(c)
     \/ /\ gw' = [gw EXCEPT ![c].pc = "checking", ![c].hard = gw[c].started + claims[c].rem,
                            ![c].started = now]
        /\ checks' = [checks EXCEPT ![c].st = "sent"]
        /\ UNCHANGED closing
  /\ claims' = [claims EXCEPT ![c] = NoCall]
  /\ UNCHANGED controlVars

\* Mutant: the lease starts when the answer arrives.
RefreshedOnArrival(c) ==
  LET hard == Min({gw[c].hard, now + checks[c].rem})
  IN [gw[c] EXCEPT !.hard = hard, !.until = Min({hard, now + Lease})]

\* refresh: later answers only shorten the hard deadline, and the lease counts
\* from the start of the call.
Refreshed(c) ==
  LET hard == Min({gw[c].hard, gw[c].started + checks[c].rem})
  IN [gw[c] EXCEPT !.hard = hard, !.until = Min({hard, gw[c].started + Lease})]

\* The check before the target is contacted.
CheckAnswered(c) ==
  /\ gw[c].pc = "checking" /\ checks[c].st \in {"leased", "omitted"}
  /\ \/ checks[c].st = "leased" /\ now < Refreshed(c).until
        /\ gw' = [gw EXCEPT ![c] = [Refreshed(c) EXCEPT !.pc = "connecting"]]
        /\ checks' = [checks EXCEPT ![c] = NoCall]
        /\ UNCHANGED closing
     \/ End(c) /\ Report(c)                               \* denied, late or client gone
  /\ UNCHANGED <<controlVars, claims>>

\* The call fails: the socket is destroyed and nothing is reported.
CheckFails(c) ==
  /\ gw[c].pc = "checking" /\ End(c)
  /\ UNCHANGED <<controlVars, claims, closing>>

\* The target answers and the connection opens if its lease still runs.
Connect(c) ==
  /\ gw[c].pc = "connecting"
  /\ \/ now < gw[c].until /\ gw' = [gw EXCEPT ![c].pc = "open"] /\ UNCHANGED <<checks, closing>>
     \/ End(c) /\ Report(c)
  /\ UNCHANGED <<controlVars, claims>>

Heartbeat(c) ==
  /\ gw[c].pc = "open" /\ checks[c].st = "none"
  /\ gw' = [gw EXCEPT ![c].started = now]
  /\ checks' = [checks EXCEPT ![c].st = "sent"]
  /\ UNCHANGED <<controlVars, claims, closing>>

\* The answer renews the lease or stops the connection; a lost one does nothing.
HeartbeatAnswered(c) ==
  /\ gw[c].pc = "open"
  /\ \/ checks[c].st = "leased" /\ now < Refreshed(c).until
        /\ gw' = [gw EXCEPT ![c] = Refreshed(c)]
        /\ checks' = [checks EXCEPT ![c] = NoCall] /\ UNCHANGED closing
     \/ checks[c].st = "leased" /\ now >= Refreshed(c).until /\ End(c) /\ Report(c)
     \/ checks[c].st = "omitted" /\ End(c) /\ Report(c)
     \/ checks[c].st # "none" /\ checks' = [checks EXCEPT ![c] = NoCall]
        /\ UNCHANGED <<gw, closing>>
  /\ UNCHANGED <<controlVars, claims>>

\* stop: the client or the target goes away, or too many bytes.
Stop(c) ==
  /\ gw[c].pc = "open" /\ End(c) /\ Report(c)
  /\ UNCHANGED <<controlVars, claims>>

\* deadlineTimer fires.
Expire(c) == now >= gw[c].until /\ Stop(c)

\* The process dies: sockets close, nothing is reported, calls go on.
GatewayCrash ==
  /\ Pending \cup Open # {}
  /\ gw' = [c \in Conns |-> IF c \in Pending \cup Open THEN Ended(gw[c]) ELSE gw[c]]
  /\ checks' = [c \in Conns |-> NoCall]
  /\ UNCHANGED <<controlVars, claims, closing>>

\* Time passes, but not beyond the timer of an open connection.
Tick ==
  /\ now < MaxTime /\ \A c \in Open : now < gw[c].until
  /\ now' = now + 1
  /\ UNCHANGED <<grants, machine, ses, lock, wk, signings, gatewayVars>>

-----------------------------------------------------------------------------
ControlStep ==
  /\ \/ \E g, p \in Grants, e \in 1..MaxTime : IssueGrant(g, p, e)
     \/ \E a, g \in Grants : RevokeGrant(a, g)
     \/ BeginOperation \/ EndOperation \/ AdmitDestroy
     \/ \E s \in Sessions, g \in Grants : Admit(s, g)
     \/ \E w \in Workers, s \in Sessions : Prepare(w, s)
     \/ \E w \in Workers : WorkerStep(w) \/ WorkerStops(w) \/ LockLost(w)
  /\ UNCHANGED gatewayVars

ConnectionStep(c) ==
  \/ \E s \in Sessions : Upgrade(c, s)
  \/ ServeClaim(c) \/ CommitClaim(c) \/ ServeCheck(c) \/ ServeClose(c)
  \/ ClaimFails(c) \/ ClaimAnswered(c) \/ CheckAnswered(c) \/ CheckFails(c)
  \/ Connect(c) \/ Heartbeat(c) \/ HeartbeatAnswered(c) \/ Stop(c) \/ Expire(c)

Step == ControlStep \/ (\E c \in Conns : ConnectionStep(c)) \/ GatewayCrash \/ Tick

\* The session is one a customer may still use, deadlines aside.
Entitled(s) ==
  /\ \A h \in Chain(ses[s].grant) : ~grants[h].revoked
  /\ machine.state = "running" /\ machine.version = ses[s].version

\* History: the first instant at which a session that has been claimed is
\* without authority.
Witness ==
  lostAt' = [s \in Sessions |->
              IF lostAt[s] = Never /\ (ses[s].by # NoConn /\ ~Entitled(s))' THEN now ELSE lostAt[s]]

Next == Step /\ Witness

Spec == Init /\ [][Next]_vars

-----------------------------------------------------------------------------
(* Properties                                                               *)

\* Every variable keeps its type.
TypeOK ==
  /\ AccessTypeOK
  /\ gw \in [Conns -> ConnRecord]
  /\ claims \in [Conns -> CallRecord] /\ checks \in [Conns -> CallRecord]
  /\ closing \subseteq Conns
  /\ lostAt \in [Sessions -> Times \cup {Never}]

\* One session, one call of the certificate authority, even when the session
\* lock is lost under a running pass or a pass dies around the call.
SignedOnce == \A s \in Sessions : signings[s] <= 1

\* A ticket is good for one connection: however often it is presented, at most
\* one connection ever gets past the claim.
TicketUsedOnce ==
  \A c, d \in Conns :
    /\ gw[c].pc \in {"checking", "connecting", "open"}
    /\ gw[d].pc \in {"checking", "connecting", "open"}
    /\ gw[c].s = gw[d].s
    => c = d

\* A connection that carries bytes outlives the loss of its authority (a
\* revocation above it, an operation on the machine, its destruction) by the
\* lease at most, whatever answers were lost or late.
LeaseBoundsAccess ==
  \A c \in Open : lostAt[gw[c].s] # Never => now <= lostAt[gw[c].s] + Lease

\* A revocation leaves no session open below it, not even one admitted under a
\* grant delegated while the revocation was on its way.
RevokedIsClosed ==
  \A s \in Sessions :
    Admitted(s) /\ (\E h \in Chain(ses[s].grant) : grants[h].revoked) => ses[s].conn = "closed"

\* The slots that sessions hold never exceed the admission limits: a slot that
\* counted as free is never taken up again by its old session.
ReservationsBounded ==
  /\ Cardinality(Reserved) <= AccountLimit
  /\ \A g \in Grants : Cardinality(OfGrant(Reserved, g)) <= GrantLimit

\* No session is stranded undecided: whatever passes died or lost their lock, one that
\* still waits for its answer is in the hands of a pass, or the next one can take it.
NeverStranded ==
  \A s \in Sessions : Admitted(s) /\ Undecided(s) =>
    \/ \E w \in Workers : wk[w].pc # "idle" /\ wk[w].s = s
    \/ \A w \in Workers : wk[w].pc # "idle"
    \/ \E w \in Workers : ENABLED Prepare(w, s)
=============================================================================
