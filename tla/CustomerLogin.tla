---------------------------- MODULE CustomerLogin ----------------------------
(***************************************************************************)
(* One customer's authority: the operator's admission anchor, the login    *)
(* grants below it, what a grant keeps open (an access session, a backup   *)
(* schedule), and the credential file of the customer's command line.      *)
(* Grant and login ids are numbers given out in order, random in the code. *)
(*                                                                         *)
(* Source: apps/control/src/customer-login.ts, customer-main.ts, auth.ts,  *)
(* access-closure.ts, apps/cli/src/login.ts.                               *)
(***************************************************************************)
EXTENDS ControlFence

CONSTANTS MaxGrants,     \* grants ever issued, in all databases
          MaxLogins      \* logins an account may start a day (20 in the code)

ASSUME CustomerLoginAssumption == MaxGrants \in Nat /\ MaxLogins \in Nat

VARIABLES issued,     \* grants given out so far
          logins,     \* login ids the command line made up so far
          cred,       \* the login id in the credential file; 0 when there is none
          cli,        \* what the command line is about to do
          revoked,    \* history: grants somebody revoked, in whatever database
          base        \* history: grants issued before the last begin

loginVars == <<issued, logins, cred, cli, revoked, base>>

Grants == 1 .. MaxGrants
NoAuthority == [anchor |-> 0, grant |-> [g \in Grants |-> "none"],
                parent |-> [g \in Grants |-> 0], login |-> [l \in 1 .. MaxGrants |-> 0],
                sess |-> 0, sched |-> 0]

\* loadAuthority walks the chain: the grant and its anchor, neither revoked.
Usable(a, g) ==
  /\ g # 0 /\ a.grant[g] = "active"
  /\ a.parent[g] # 0 => a.grant[a.parent[g]] = "active"

Subtree(a, g) == {g} \cup {h \in Grants : a.parent[h] = g}

\* A revocation and closeGrantAccess are one transaction under the account lock.
RevokeGrant(a, g) ==
  [a EXCEPT !.grant[g] = "revoked", !.sess = IF @ \in Subtree(a, g) THEN 0 ELSE @]

AddGrant(a, parent) == [a EXCEPT !.grant[issued + 1] = "active", !.parent[issued + 1] = parent]

-----------------------------------------------------------------------------
(* The operator's command: a process of its own, fenced for its lifetime.    *)

OperatorSteps == <<saved, file, gens, proc, restores, faults, logins, cred, cli, base>>

AdmitCustomer ==
  /\ Open /\ db.auth.anchor = 0 /\ issued < MaxGrants
  /\ db' = [db EXCEPT !.auth = [AddGrant(@, 0) EXCEPT !.anchor = issued + 1]]
  /\ issued' = issued + 1
  /\ UNCHANGED <<OperatorSteps, revoked>>

DisableCustomer ==
  /\ Open /\ Usable(db.auth, db.auth.anchor)
  /\ db' = [db EXCEPT !.auth = RevokeGrant(@, @.anchor)]
  /\ revoked' = revoked \cup {db.auth.anchor}
  /\ UNCHANGED <<OperatorSteps, issued>>

\* The expected anchor is compared under the account lock: a stale request changes nothing.
RenewCustomer ==
  /\ Open /\ db.auth.anchor # 0 /\ issued < MaxGrants
  /\ db' = [db EXCEPT !.auth =
              [AddGrant(RevokeGrant(@, @.anchor), 0) EXCEPT !.anchor = issued + 1]]
  /\ revoked' = revoked \cup {db.auth.anchor}
  /\ issued' = issued + 1
  /\ UNCHANGED <<OperatorSteps>>

-----------------------------------------------------------------------------
(* The command line.                                                         *)

\* loginLocked saves the final token and the login id before it asks for anything.
SaveCredential ==
  /\ cli = "idle" /\ cred = 0 /\ logins < MaxGrants
  /\ logins' = logins + 1 /\ cred' = logins + 1 /\ cli' = "exchange"
  /\ UNCHANGED <<fenceVars, issued, revoked, base>>

\* A saved credential that whoami refuses is exchanged again under the same login id.
Whoami(l) == Checked /\ Usable(db.auth, db.auth.login[l])
LoginAgain ==
  /\ cli = "idle" /\ cred # 0 /\ Checked /\ ~Whoami(cred) /\ cli' = "exchange"
  /\ UNCHANGED <<fenceVars, issued, logins, cred, revoked, base>>

\* The command line gives up or dies; the file stays.
GiveUp ==
  /\ cli = "exchange" /\ cli' = "idle"
  /\ UNCHANGED <<fenceVars, issued, logins, cred, revoked, base>>

\* logout: revoke what whoami names, or find it already refused, then remove the file.
LogoutRevoke ==
  /\ cli = "idle" /\ cred # 0 /\ Checked
  /\ IF Whoami(cred)
       THEN /\ db' = [db EXCEPT !.auth = RevokeGrant(@, @.login[cred])]
            /\ revoked' = revoked \cup {db.auth.login[cred]}
       ELSE UNCHANGED <<db, revoked>>
  /\ cli' = "remove"
  /\ UNCHANGED <<saved, file, gens, proc, restores, faults, issued, logins, cred, base>>

RemoveCredential ==
  /\ cli = "remove" /\ cli' = "idle" /\ cred' \in {0, cred}
  /\ UNCHANGED <<fenceVars, issued, logins, revoked, base>>

-----------------------------------------------------------------------------
(* The API. It reads the identity, then locks the account and starts over    *)
(* from the anchor it read.                                                  *)

ReadIdentity ==
  /\ cli = "exchange" /\ Checked /\ db.auth.anchor # 0
  /\ Busy(<<"login", cred, db.auth.anchor>>)
  /\ UNCHANGED <<db, saved, file, gens, restores, faults, loginVars>>

\* Only an anchor that still carries authority issues a login, and a login id only once.
AnchorHolds(anchor) == Usable(db.auth, anchor)
LoginsToday         == Cardinality({l \in 1 .. MaxGrants : db.auth.login[l] # 0})

Login(l, anchor) ==
  /\ At(<<"login", l, anchor>>)
  /\ IF Here /\ AnchorHolds(anchor) /\ db.auth.login[l] = 0 /\ LoginsToday < MaxLogins
        /\ issued < MaxGrants
       THEN /\ db' = [db EXCEPT !.auth = [AddGrant(@, anchor) EXCEPT !.login[l] = issued + 1]]
            /\ issued' = issued + 1
       ELSE UNCHANGED <<db, issued>>
  /\ Idle /\ cli' = IF cli = "exchange" THEN "idle" ELSE cli
  /\ UNCHANGED <<saved, file, gens, restores, faults, logins, cred, revoked, base>>

\* The customer opens an access session or sets a backup schedule with the saved token.
UseGrant ==
  /\ cred # 0 /\ Whoami(cred)
  /\ \E part \in {"sess", "sched"} :
       db.auth[part] = 0 /\ db' = [db EXCEPT !.auth[part] = db.auth.login[cred]]
  /\ UNCHANGED <<saved, file, gens, proc, restores, faults, loginVars>>

LoginNext ==
  \/ AdmitCustomer \/ DisableCustomer \/ RenewCustomer
  \/ SaveCredential \/ LoginAgain \/ GiveUp \/ LogoutRevoke \/ RemoveCredential
  \/ ReadIdentity \/ UseGrant
  \/ \E l \in 1 .. MaxGrants, a \in Grants : Login(l, a)
=============================================================================
