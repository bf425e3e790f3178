--------------------------- MODULE AccessSessions ---------------------------
(***************************************************************************)
(* Customer SSH access to one machine as the control plane decides it: the *)
(* grant tree of the account, admission of sessions, the workers that get  *)
(* a session its one certificate, and the transactions that serve the      *)
(* gateway's claim, check and close calls.                                 *)
(*                                                                         *)
(* Source: apps/control/src/access-sessions.ts, access-closure.ts, auth.ts *)
(* and the trigger guard_access_session of migration 0020.                 *)
(*                                                                         *)
(* Time is the database clock, in units the constants scale: a transaction *)
(* is one action, taken under the machine's advisory lock and the account  *)
(* row, so it reads one instant.                                           *)
(***************************************************************************)
EXTENDS Integers, FiniteSets, FiniteSetsExt

CONSTANTS
  Grants, Root, NoGrant,      \* grant ids; Root is the account's own
  Sessions, NoSession,        \* session ids (one per request key)
  Conns, NoConn,              \* connection ids the gateway draws
  Workers, NoWorker,
  MaxTime,                    \* bound: the clock
  LastAdmission,              \* bound: no session is admitted later
  MaxVersion,                 \* bound: no operation is admitted at this version
  HardLimit, IssueWindow, TicketWindow, CertLife,   \* 1h, 90s, 60s, 240s
  RateWindow, GrantRate, AccountRate,               \* 5min, 30, 60
  GrantLimit, AccountLimit                          \* 4, 20

ASSUME AccessAssumption ==
  /\ MaxTime \in Nat /\ LastAdmission \in Nat /\ MaxVersion \in Nat \ {0}
  /\ {HardLimit, IssueWindow, TicketWindow, CertLife} \subseteq Nat \ {0}
  /\ {RateWindow, GrantRate, AccountRate, GrantLimit, AccountLimit} \subseteq Nat
  /\ Root \in Grants /\ NoGrant \notin Grants /\ NoSession \notin Sessions
  /\ NoConn \notin Conns /\ NoWorker \notin Workers

Times == 0..(MaxTime + HardLimit)

\* chain: the grant and all its ancestors. A grant's parent never changes, so
\* the ancestry the code walks by parent_id is fixed when the grant is issued.
GrantRecord   == [live : BOOLEAN, chain : SUBSET Grants, expires : Times, revoked : BOOLEAN]
MachineRecord == [version : 1..(MaxVersion + 1), state : {"running", "busy", "destroyed"}]

\* by is the connection that claimed the session; closing keeps it (previous).
SessionRecord ==
  [issuance : {"none", "pending", "attempted", "issued", "unavailable"},
   grant : Grants \cup {NoGrant}, version : 0..(MaxVersion + 1), admitted : Times, hard : Times,
   ticketBy : Times, certBy : Times,
   conn : {"unclaimed", "claimed", "closed"}, by : Conns \cup {NoConn}]

\* at and until belong to the signing attempt: when it was recorded, and the
\* expiry of the certificate the signer returned (0: no certificate).
WorkerRecord == [pc : {"idle", "prepared", "observed", "attempted", "signed"},
                 s : Sessions \cup {NoSession}, at : Times, until : Times]

VARIABLES
  now,       \* clock_timestamp()
  grants,    \* [Grants -> GrantRecord]
  machine,   \* MachineRecord
  ses,       \* [Sessions -> SessionRecord]
  lock,      \* [Sessions -> Workers \cup {NoWorker}], the access-session lock
  wk,        \* [Workers -> WorkerRecord]
  signings   \* [Sessions -> Nat], calls of the signer (history)

controlVars == <<now, grants, machine, ses, lock, wk, signings>>

AccessTypeOK ==
  /\ now \in 0..MaxTime
  /\ grants \in [Grants -> GrantRecord]
  /\ machine \in MachineRecord
  /\ ses \in [Sessions -> SessionRecord]
  /\ lock \in [Sessions -> Workers \cup {NoWorker}]
  /\ wk \in [Workers -> WorkerRecord]
  /\ signings \in [Sessions -> Nat]

NoSessionYet ==
  [issuance |-> "none", grant |-> NoGrant, version |-> 0, admitted |-> 0, hard |-> 0,
   ticketBy |-> 0, certBy |-> 0, conn |-> "unclaimed", by |-> NoConn]

IdleWorker == [pc |-> "idle", s |-> NoSession, at |-> 0, until |-> 0]

AccessInit ==
  /\ now = 0
  /\ \E e \in 1..(MaxTime + 1) :
       grants = [g \in Grants |-> [live |-> g = Root, chain |-> {g},
                                   expires |-> IF g = Root THEN e ELSE 0, revoked |-> FALSE]]
  /\ machine = [version |-> 1, state |-> "running"]
  /\ ses = [s \in Sessions |-> NoSessionYet]
  /\ lock = [s \in Sessions |-> NoWorker]
  /\ wk = [w \in Workers |-> IdleWorker]
  /\ signings = [s \in Sessions |-> 0]

-----------------------------------------------------------------------------
(* Grants (auth.ts)                                                         *)

Chain(g)   == grants[g].chain
Subtree(g) == {h \in Grants : grants[h].live /\ g \in Chain(h)}

\* loadAuthority: the whole ancestry is live, unrevoked and unexpired.
Authority(g) ==
  /\ g \in Grants /\ grants[g].live
  /\ \A h \in Chain(g) : ~grants[h].revoked /\ now < grants[h].expires

Expiry(g) == Min({grants[h].expires : h \in Chain(g)})

AccessUnchanged == UNCHANGED <<ses, lock, wk, signings>>

\* issueGrant, under the account lock: never beyond the earliest ancestor. The
\* depth limit of 32 is out of reach.
IssueGrant(g, p, e) ==
  /\ ~grants[g].live /\ Authority(p)
  /\ e <= Expiry(p) /\ e > now
  /\ grants' = [grants EXCEPT ![g] = [live |-> TRUE, chain |-> Chain(p) \cup {g},
                                      expires |-> e, revoked |-> FALSE]]
  /\ UNCHANGED <<now, machine>> /\ AccessUnchanged

Closed(r) == IF r.issuance # "none" THEN [r EXCEPT !.conn = "closed"] ELSE r

\* Mutant: only the sessions of the revoked grant itself are closed.
RevokeGrantOnly(a, g) ==
  /\ Authority(a) /\ g \in Subtree(a)
  /\ grants' = [grants EXCEPT ![g].revoked = TRUE]
  /\ ses' = [s \in Sessions |-> IF ses[s].grant = g THEN Closed(ses[s]) ELSE ses[s]]
  /\ UNCHANGED <<now, machine, lock, wk, signings>>

\* revokeGrant by a on itself or a descendant, with closeGrantAccess in the
\* same transaction.
RevokeGrant(a, g) ==
  /\ Authority(a) /\ g \in Subtree(a)
  /\ grants' = [grants EXCEPT ![g].revoked = TRUE]
  /\ ses' = [s \in Sessions |->
              IF ses[s].grant \in Subtree(g) THEN Closed(ses[s]) ELSE ses[s]]
  /\ UNCHANGED <<now, machine, lock, wk, signings>>

-----------------------------------------------------------------------------
(* The machine, as far as access looks at it                                *)

\* An operation is admitted; each admission and each completion is a version.
BeginOperation ==
  /\ machine.state = "running" /\ machine.version < MaxVersion
  /\ machine' = [version |-> machine.version + 1, state |-> "busy"]
  /\ UNCHANGED <<now, grants>> /\ AccessUnchanged

EndOperation ==
  /\ machine.state = "busy"
  /\ machine' = [version |-> machine.version + 1, state |-> "running"]
  /\ UNCHANGED <<now, grants>> /\ AccessUnchanged

\* Destroy is admitted: closeMachineAccess in the same transaction.
AdmitDestroy ==
  /\ machine.state # "destroyed" /\ machine.version < MaxVersion
  /\ machine' = [version |-> machine.version + 1, state |-> "destroyed"]
  /\ ses' = [s \in Sessions |-> Closed(ses[s])]
  /\ UNCHANGED <<now, grants, lock, wk, signings>>

\* current and unchanged: authority, a running machine without an active
\* operation, and the version, allocation and pins the session was admitted for.
Current(s) ==
  /\ Authority(ses[s].grant)
  /\ machine.state = "running" /\ machine.version = ses[s].version

-----------------------------------------------------------------------------
(* Admission                                                                *)

Admitted(s) == ses[s].issuance # "none"
IssueBy(s)  == ses[s].admitted + IssueWindow

\* What an admitted session holds its slot until.
HeldUntil(s) ==
  IF ses[s].conn = "claimed" THEN ses[s].hard
  ELSE IF ses[s].issuance = "issued" THEN ses[s].ticketBy ELSE IssueBy(s)

Reserved == {s \in Sessions : Admitted(s) /\ ses[s].conn # "closed" /\ HeldUntil(s) > now}
Recent   == {s \in Sessions : Admitted(s) /\ ses[s].admitted > now - RateWindow}
OfGrant(S, g) == {s \in S : ses[s].grant = g}

\* admit: a request key seen before answers from the row and changes nothing.
Admit(s, g) ==
  /\ ~Admitted(s) /\ now <= LastAdmission
  /\ Authority(g) /\ machine.state = "running"
  /\ Cardinality(Recent) < AccountRate /\ Cardinality(OfGrant(Recent, g)) < GrantRate
  /\ Cardinality(Reserved) < AccountLimit /\ Cardinality(OfGrant(Reserved, g)) < GrantLimit
  /\ ses' = [ses EXCEPT ![s] =
              [NoSessionYet EXCEPT !.issuance = "pending", !.grant = g,
                !.version = machine.version, !.admitted = now,
                !.hard = Min({now + HardLimit, Expiry(g)})]]
  /\ UNCHANGED <<now, grants, machine, lock, wk, signings>>

-----------------------------------------------------------------------------
(* Issuance: one pass of a worker                                           *)

SetIssuance(s, kind) == ses' = [ses EXCEPT ![s].issuance = kind]

Overdue(s) == now >= Min({IssueBy(s), ses[s].hard})

Finish(w) ==
  /\ wk' = [wk EXCEPT ![w] = IdleWorker]
  /\ lock' = [s \in Sessions |-> IF lock[s] = w THEN NoWorker ELSE lock[s]]

Move(w, pc) == wk' = [wk EXCEPT ![w].pc = pc] /\ UNCHANGED lock

Outside == UNCHANGED <<now, grants, machine>>

\* Mutant: a pass that finds an attempt signs again.
PrepareAgain(w, s) ==
  /\ wk[w].pc = "idle" /\ lock[s] = NoWorker /\ ses[s].issuance \in {"pending", "attempted"}
  /\ IF ~Overdue(s) /\ Current(s) /\ ses[s].conn = "unclaimed"
     THEN /\ ses' = [ses EXCEPT ![s].issuance = "pending"]
          /\ lock' = [lock EXCEPT ![s] = w]
          /\ wk' = [wk EXCEPT ![w] = [IdleWorker EXCEPT !.pc = "prepared", !.s = s]]
     ELSE SetIssuance(s, "unavailable") /\ UNCHANGED <<lock, wk>>
  /\ UNCHANGED signings /\ Outside

\* Mutant: a pass leaves an attempt it did not make alone.
PrepareFresh(w, s) ==
  /\ wk[w].pc = "idle" /\ lock[s] = NoWorker /\ ses[s].issuance = "pending"
  /\ IF ~Overdue(s) /\ Current(s) /\ ses[s].conn = "unclaimed"
     THEN /\ lock' = [lock EXCEPT ![s] = w]
          /\ wk' = [wk EXCEPT ![w] = [IdleWorker EXCEPT !.pc = "prepared", !.s = s]]
          /\ UNCHANGED ses
     ELSE SetIssuance(s, "unavailable") /\ UNCHANGED <<lock, wk>>
  /\ UNCHANGED signings /\ Outside

\* A pass takes the session lock. An attempt found there is one whose worker
\* is gone: its result is unknown for good. Otherwise prepare: the session must
\* be in time, current and unclaimed.
Prepare(w, s) ==
  /\ wk[w].pc = "idle" /\ lock[s] = NoWorker /\ ses[s].issuance \in {"pending", "attempted"}
  /\ IF ses[s].issuance = "pending" /\ ~Overdue(s) /\ Current(s) /\ ses[s].conn = "unclaimed"
     THEN /\ lock' = [lock EXCEPT ![s] = w]
          /\ wk' = [wk EXCEPT ![w] = [IdleWorker EXCEPT !.pc = "prepared", !.s = s]]
          /\ UNCHANGED ses
     ELSE SetIssuance(s, "unavailable") /\ UNCHANGED <<lock, wk>>
  /\ UNCHANGED signings /\ Outside

\* guard_access_session refuses every other change of issuance.
Undecided(s) == ses[s].issuance \in {"pending", "attempted"}

\* checkNetwork and observeGuest agree, or say for good that they do not.
Observe(w) ==
  /\ wk[w].pc = "prepared"
  /\ \/ Move(w, "observed") /\ UNCHANGED ses
     \/ /\ IF Undecided(wk[w].s) THEN SetIssuance(wk[w].s, "unavailable") ELSE UNCHANGED ses
        /\ Finish(w)
  /\ UNCHANGED signings /\ Outside

\* The attempt is recorded, before the signer is called and only from pending.
Attempt(w) ==
  LET s == wk[w].s IN
  /\ wk[w].pc = "observed"
  /\ IF Current(s) /\ ses[s].conn = "unclaimed" /\ ses[s].issuance = "pending" /\ ~Overdue(s)
     THEN /\ SetIssuance(s, "attempted")
          /\ wk' = [wk EXCEPT ![w].pc = "attempted", ![w].at = now]
          /\ UNCHANGED lock
     ELSE /\ IF \/ ~Current(s) /\ Undecided(s)
                \/ ses[s].conn = "unclaimed" /\ ses[s].issuance = "pending"
             THEN SetIssuance(s, "unavailable") ELSE UNCHANGED ses
          /\ Finish(w)
  /\ UNCHANGED signings /\ Outside

\* The signer is called once; it returns a certificate or does not.
Sign(w) ==
  LET s == wk[w].s IN
  /\ wk[w].pc = "attempted"
  /\ signings' = [signings EXCEPT ![s] = @ + 1]
  /\ \E cert \in BOOLEAN :
       wk' = [wk EXCEPT ![w].pc = "signed",
                        ![w].until = IF cert THEN Min({wk[w].at + CertLife, ses[s].hard}) ELSE 0]
  /\ UNCHANGED <<ses, lock>> /\ Outside

\* The result is published if the attempt is still open, the session is
\* current and in time, and the certificate has not expired.
Publish(w) ==
  LET s == wk[w].s IN
  /\ wk[w].pc = "signed"
  /\ IF ses[s].issuance # "attempted" THEN UNCHANGED ses
     ELSE IF Current(s) /\ ~Overdue(s) /\ ses[s].conn = "unclaimed" /\ wk[w].until > now
     THEN ses' = [ses EXCEPT ![s].issuance = "issued", ![s].certBy = wk[w].until,
                             ![s].ticketBy = Min({now + TicketWindow, IssueBy(s), ses[s].hard,
                                                  Expiry(ses[s].grant)})]
     ELSE SetIssuance(s, "unavailable")
  /\ Finish(w) /\ UNCHANGED signings /\ Outside

\* The pass ends early: the process dies, a retryable provider error, a busy
\* machine lock, a throwing signer, a refusing trigger.
WorkerStops(w) ==
  /\ wk[w].pc # "idle" /\ Finish(w)
  /\ UNCHANGED <<ses, signings>> /\ Outside

\* The connection that holds the session lock breaks. The pass does not notice:
\* its transactions run on other connections of the pool.
LockLost(w) ==
  /\ \E s \in Sessions : lock[s] = w /\ lock' = [lock EXCEPT ![s] = NoWorker]
  /\ UNCHANGED <<ses, wk, signings>> /\ Outside

WorkerStep(w) == Observe(w) \/ Attempt(w) \/ Sign(w) \/ Publish(w)

-----------------------------------------------------------------------------
(* What the gateway's calls do                                              *)

\* The first half of claim: the row read by ticket hash is issued, and its
\* target is current.
ClaimObserved(s) == ses[s].issuance = "issued" /\ Current(s)

\* Mutant: a claim does not look at the connection.
ClaimableReused(s) ==
  ses[s].issuance = "issued" /\ now < Min({ses[s].ticketBy, ses[s].certBy, ses[s].hard})

\* Mutant: a claim does not look at the ticket's deadline.
ClaimableLate(s) ==
  ses[s].conn = "unclaimed" /\ ses[s].issuance = "issued" /\ now < Min({ses[s].certBy, ses[s].hard})

\* The ticket is issued, unclaimed and in time.
Claimable(s) ==
  /\ ses[s].conn = "unclaimed" /\ ses[s].issuance = "issued"
  /\ now < Min({ses[s].ticketBy, ses[s].certBy, ses[s].hard})

\* claim: consume the ticket for connection c.
Claim(s, c) ==
  /\ Current(s) /\ Claimable(s)
  /\ ses' = [ses EXCEPT ![s].conn = "claimed", ![s].by = c]

\* validConnection: the claim of c is the current one and time is left.
ValidConnection(s, c) ==
  /\ Current(s)
  /\ ses[s].issuance = "issued" /\ ses[s].conn = "claimed" /\ ses[s].by = c
  /\ now < ses[s].hard

\* remainingMs
Remaining(s) == Min({ses[s].hard, Expiry(ses[s].grant)}) - now

\* close: only the connection that claimed it; a closed session stays as it is.
CloseSession(s, c) ==
  ses' = IF ses[s].by = c THEN [ses EXCEPT ![s] = Closed(ses[s])] ELSE ses
=============================================================================
