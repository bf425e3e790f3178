---------------------------- MODULE GuestHosting -----------------------------
(***************************************************************************)
(* The guest end of a hosted route: which versions of the route its proxy  *)
(* answers for. A command is recorded before the proxy is reloaded and     *)
(* acknowledged only once the reloaded configuration is on disk; it runs   *)
(* on whether or not the caller still waits.                               *)
(*                                                                         *)
(* Source: packages/guestctl/src/hosting.ts. One hostname; a version       *)
(* stands for the port it was published with.                              *)
(***************************************************************************)
EXTENDS Integers, FiniteSets

CONSTANTS Machines, MaxVersion, MaxBindings     \* MaxBindings: 1000 in the code

ASSUME GuestHostingAssumption == MaxVersion \in Nat /\ MaxBindings \in Nat

Versions == 1..MaxVersion
NoRoute == [version |-> 0, kind |-> "none"]
Change == {NoRoute} \cup [version : Versions, kind : {"put", "remove"}]

VARIABLES
  prepared,     \* [Machines -> Change], the latest command accepted (routes.json)
  committed,    \* [Machines -> Change], the latest command carried out
  bindings,     \* [Machines -> SUBSET Versions], versions the proxy may be answering for
  config,       \* [Machines -> SUBSET Versions], caddy.json
  live,         \* [Machines -> SUBSET Versions], what the running proxy answers for
  cmd           \* [Machines -> command under way], Idle if none

guestVars == <<prepared, committed, bindings, config, live, cmd>>

Idle == [at |-> "idle"]
Commands == [version : Versions, kind : {"put", "remove"}, retain : Versions]
Running == [at : {"asked", "prepared", "reloaded"}, c : Commands]

GuestTypeOK ==
  /\ prepared \in [Machines -> Change] /\ committed \in [Machines -> Change]
  /\ bindings \in [Machines -> SUBSET Versions] /\ config \in [Machines -> SUBSET Versions]
  /\ live \in [Machines -> SUBSET Versions]
  /\ cmd \in [Machines -> {Idle} \cup Running]

GuestInit ==
  /\ prepared = [m \in Machines |-> NoRoute] /\ committed = [m \in Machines |-> NoRoute]
  /\ bindings = [m \in Machines |-> {}] /\ config = [m \in Machines |-> {}]
  /\ live = [m \in Machines |-> {}] /\ cmd = [m \in Machines |-> Idle]

Wanted(c) == [version |-> c.version, kind |-> c.kind]

\* Mutant: only the new version is bound.
Replaced(m, c) == IF c.kind = "put" THEN {c.version} ELSE {}

\* Versions at or above the gateway's acknowledgement stay; the new one joins them.
Retained(m, c) ==
  {v \in bindings[m] : v >= c.retain /\ v # c.version}
    \cup (IF c.kind = "put" THEN {c.version} ELSE {})

\* A command is refused if a later one, or another one of its version, was seen.
Acceptable(m, c) ==
  /\ c.retain <= c.version
  /\ \/ prepared[m].version < c.version
     \/ prepared[m] = Wanted(c)

\* The helper's lock is free: the command starts.
Ask(m, c) ==
  /\ cmd[m] = Idle /\ cmd' = [cmd EXCEPT ![m] = [at |-> "asked", c |-> c]]
  /\ UNCHANGED <<prepared, committed, bindings, config, live>>

At(m, at) == cmd[m].at = at
Goto(m, at) == cmd' = [cmd EXCEPT ![m].at = at]

\* Every binding that may become live is recorded before the reload.
PrepareRoute(m) ==
  /\ At(m, "asked") /\ Acceptable(m, cmd[m].c) /\ committed[m].version # cmd[m].c.version
  /\ Cardinality(Retained(m, cmd[m].c)) <= MaxBindings
  /\ bindings' = [bindings EXCEPT ![m] = Retained(m, cmd[m].c)]
  /\ prepared' = [prepared EXCEPT ![m] = Wanted(cmd[m].c)]
  /\ Goto(m, "prepared") /\ UNCHANGED <<committed, config, live>>

ReloadProxy(m) ==
  /\ At(m, "prepared")
  /\ live' = [live EXCEPT ![m] = bindings[m]]
  /\ Goto(m, "reloaded") /\ UNCHANGED <<prepared, committed, bindings, config>>

\* The new configuration is renamed into place, and a receipt says so.
CommitRoute(m) ==
  /\ At(m, "reloaded")
  /\ config' = [config EXCEPT ![m] = live[m]]
  /\ committed' = [committed EXCEPT ![m] = Wanted(cmd[m].c)]
  /\ cmd' = [cmd EXCEPT ![m] = Idle] /\ UNCHANGED <<prepared, bindings, live>>

\* Killed after the rename, before the receipt.
DieUncommitted(m) ==
  /\ At(m, "reloaded")
  /\ config' = [config EXCEPT ![m] = live[m]]
  /\ cmd' = [cmd EXCEPT ![m] = Idle] /\ UNCHANGED <<prepared, committed, bindings, live>>

\* The command is refused, finds its version committed, fails or is killed.
EndCommand(m) ==
  /\ cmd[m] # Idle /\ cmd' = [cmd EXCEPT ![m] = Idle]
  /\ UNCHANGED <<prepared, committed, bindings, config, live>>

\* The guest restarts: the proxy starts from the file.
RestartGuest(m) ==
  /\ live' = [live EXCEPT ![m] = config[m]] /\ cmd' = [cmd EXCEPT ![m] = Idle]
  /\ UNCHANGED <<prepared, committed, bindings, config>>

GuestStep(m) ==
  \/ PrepareRoute(m) \/ ReloadProxy(m) \/ CommitRoute(m) \/ DieUncommitted(m)
  \/ EndCommand(m) \/ RestartGuest(m)

=============================================================================
