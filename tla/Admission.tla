------------------------------ MODULE Admission ------------------------------
(***************************************************************************)
(* Admission of lifecycle requests over several accounts and machines:     *)
(* what one request key may do, what the machine and price limits of a     *)
(* credential, an account and the deployment allow, and how a machine's    *)
(* version, name and reservation move with every operation on it.          *)
(*                                                                         *)
(* Source: apps/control/src/lifecycle.ts, cleanup-admission.ts, usage.ts,  *)
(* catalog-cache.ts, the outcomes written by advance-operation.ts and      *)
(* machine-cleanup.ts, and the triggers of migration 0026.                 *)
(*                                                                         *)
(* An admission is one transaction under the advisory lock 78131025 and    *)
(* the account row, hence one action. A request that is refused, and a     *)
(* replayed key, change nothing. Outcomes are written by a worker that     *)
(* holds the machine's lock; a destroy that finds it held is refused.      *)
(***************************************************************************)
EXTENDS Integers, Sequences, FiniteSets, FiniteSetsExt

CONSTANTS
  Accounts, Grants,
  Owner,            \* [Grants -> Accounts]
  Policy,           \* [Grants -> Limits], what the credential allows
  AccountLimit,     \* [Accounts -> Limits]
  Deployments,      \* the limits a deployment may be configured with
  Names, Keys,
  Kinds,            \* the request kinds of the instance
  Catalogs,         \* verified catalogs: functions from offered sizes to prices
  MaxMachines, MaxOps, MaxVersion,          \* bounds
  NoCatalog, Nobody

Limits   == [machines : Nat, price : Nat]
Machines == 1..MaxMachines
Ops      == 1..MaxOps
Sizes    == UNION {DOMAIN c : c \in Catalogs}
Prices   == UNION {{c[z] : z \in DOMAIN c} : c \in Catalogs}

ASSUME AdmissionAssumption ==
  /\ Owner \in [Grants -> Accounts] /\ Policy \in [Grants -> Limits]
  /\ AccountLimit \in [Accounts -> Limits] /\ Deployments \subseteq Limits
  /\ Sizes \subseteq Nat \ {0} /\ Prices \subseteq Nat
  /\ MaxMachines \in Nat /\ MaxOps \in Nat /\ MaxVersion \in Nat \ {0}
  /\ NoCatalog \notin Catalogs /\ Nobody \notin Grants \cup Accounts \cup Names

\* The idempotency scope: creates share the project's scope, everything done
\* to a machine shares the machine's. One project per account.
Scopes   == {0} \cup Machines
Requests == [kind : Kinds \cap {"create"}, size : Sizes, name : Names]
       \cup [kind : Kinds \cap {"power", "destroy"}, version : 1..MaxVersion]
       \cup [kind : Kinds \cap {"resize"}, version : 1..MaxVersion, size : Sizes]

KeyRecord == [account : Accounts, scope : Scopes, key : Keys, request : Requests, op : Ops]

\* live: the allocation is not retired. server: its server is confirmed.
\* size and price: the offer it stands for and the price it reserves.
MachineRecord ==
  [state : {"none", "provisioning", "on", "off", "failed", "destroyed"},
   owner : Accounts \cup {Nobody}, name : Names \cup {Nobody}, version : 0..MaxVersion, live : BOOLEAN, server : BOOLEAN,
   size : Sizes \cup {0}, price : Prices \cup {0}]

\* offer: the price quoted at admission (0 for an operation without one).
\* seen: the machine version the request was admitted on (0 for a create).
\* cancelledOn: the version on which a destroy took a create over.
OpRecord ==
  [status : {"none", "active", "succeeded", "failed", "cancelled"}, machine : 0..MaxMachines,
   kind : {"create", "power", "resize", "destroy"}, cleanup : BOOLEAN,
   size : Sizes \cup {0}, offer : Prices \cup {0}, grant : Grants \cup {Nobody},
   seen : 0..MaxVersion, cancelledOn : 0..MaxVersion]

VARIABLES
  limits,     \* limits of the running deployment
  catalog,    \* the unexpired CatalogCache.current, or NoCatalog
  revoked,    \* SUBSET Grants
  mach,       \* [Machines -> MachineRecord]
  op,         \* [Ops -> OpRecord]
  idem,       \* SUBSET KeyRecord, the idempotency table
  history     \* [Machines -> Seq], rows of allocation_reservations

vars == <<limits, catalog, revoked, mach, op, idem, history>>

HistoryRow == [kind : {"admitted", "changed", "released"}, price : Prices \cup {0}]

NoMachine == [state |-> "none", owner |-> Nobody, name |-> Nobody, version |-> 0,
              live |-> FALSE, server |-> FALSE, size |-> 0, price |-> 0]
NoOp == [status |-> "none", machine |-> 0, kind |-> "create", cleanup |-> FALSE, size |-> 0,
         offer |-> 0, grant |-> Nobody, seen |-> 0, cancelledOn |-> 0]

Init ==
  /\ limits \in Deployments
  /\ catalog = NoCatalog
  /\ revoked = {}
  /\ mach = [m \in Machines |-> NoMachine]
  /\ op = [o \in Ops |-> NoOp]
  /\ idem = {}
  /\ history = [m \in Machines |-> <<>>]

-----------------------------------------------------------------------------
(* The catalog, credentials and the deployment                              *)

requestVars == <<mach, op, idem, history>>

\* load: a verified catalog replaces the whole snapshot.
RefreshCatalog(c) ==
  /\ catalog' = c
  /\ UNCHANGED <<limits, revoked>> /\ UNCHANGED requestVars

\* load finds another provider or currency and drops the snapshot, or refreshes
\* fail until it expires and is no longer quoted.
DropCatalog ==
  /\ catalog # NoCatalog
  /\ catalog' = NoCatalog
  /\ UNCHANGED <<limits, revoked>> /\ UNCHANGED requestVars

Revoke(g) ==
  /\ revoked' = revoked \cup {g}
  /\ UNCHANGED <<limits, catalog>> /\ UNCHANGED requestVars

\* The control plane restarts with other limits and an empty cache.
Restart(l) ==
  /\ limits' = l /\ catalog' = NoCatalog
  /\ UNCHANGED revoked /\ UNCHANGED requestVars

-----------------------------------------------------------------------------
(* What admission reads                                                     *)

Owned(a)      == {m \in Machines : mach[m].live /\ mach[m].owner = a}
Reserved      == {m \in Machines : mach[m].live}
PriceOf(S)    == MapThenSumSet(LAMBDA m : mach[m].price, S)
ActiveOps(m)  == {o \in Ops : op[o].machine = m /\ op[o].status = "active"}
NextMachine   == {m \in Machines : mach[m].state = "none" /\ \A i \in 1..(m-1) : mach[i].state # "none"}
NextOp        == {o \in Ops : op[o].status = "none" /\ \A i \in 1..(o-1) : op[i].status # "none"}

Within(count, price, l) == count <= l.machines /\ price <= l.price

\* Mutant: the credential's own limits are left out.
AssertAccountReservation(g, more, price) ==
  LET mine == Owned(Owner[g]) IN
  /\ Within(Cardinality(mine) + more, PriceOf(mine) + price, AccountLimit[Owner[g]])
  /\ Within(Cardinality(Reserved) + more, PriceOf(Reserved) + price, limits)

\* Mutant: the deployment's limits are held against the account's own machines only.
AssertOwnReservation(g, more, price) ==
  LET mine == Owned(Owner[g]) IN
  /\ Within(Cardinality(mine) + more, PriceOf(mine) + price, AccountLimit[Owner[g]])
  /\ Within(Cardinality(mine) + more, PriceOf(mine) + price, Policy[g])
  /\ Within(Cardinality(mine) + more, PriceOf(mine) + price, limits)

\* assertReservation, for more machines and more price than reserved now.
AssertReservation(g, more, price) ==
  LET mine == Owned(Owner[g]) IN
  /\ Within(Cardinality(mine) + more, PriceOf(mine) + price, AccountLimit[Owner[g]])
  /\ Within(Cardinality(mine) + more, PriceOf(mine) + price, Policy[g])
  /\ Within(Cardinality(Reserved) + more, PriceOf(Reserved) + price, limits)

\* snapshot and selectOffer: an unexpired catalog that offers the size.
Offered(z) == catalog # NoCatalog /\ z \in DOMAIN catalog

\* Mutant: the key is looked up together with the request's hash.
SameRequest(g, scope, key, request) ==
  {r \in idem : r.account = Owner[g] /\ r.scope = scope /\ r.key = key /\ r.request = request}

\* The previous use of a key; a different request under it is a conflict.
Previous(g, scope, key, request) ==
  {r \in idem : r.account = Owner[g] /\ r.scope = scope /\ r.key = key}

Remember(g, scope, key, request, o) ==
  idem' = idem \cup {[account |-> Owner[g], scope |-> scope, key |-> key, request |-> request,
                      op |-> o]}

NameTaken(a, n) == \E m \in Machines : mach[m].owner = a /\ mach[m].name = n
                                       /\ mach[m].state \notin {"none", "destroyed"}

\* Mutant: rows are written for insertions and price changes only.
RecordPrices(m, old, new) ==
  IF new.price = old.price /\ (new.live = old.live \/ ~new.live) THEN UNCHANGED history
  ELSE history' = [history EXCEPT ![m] = Append(@,
         IF old.live THEN [kind |-> "changed", price |-> new.price]
         ELSE [kind |-> "admitted", price |-> new.price])]

\* record_allocation_reservation: a row for every change of price or life.
Record(m, old, new) ==
  IF new.price = old.price /\ new.live = old.live THEN UNCHANGED history
  ELSE history' = [history EXCEPT ![m] = Append(@,
         CASE ~new.live -> [kind |-> "released", price |-> 0]
           [] new.live /\ ~old.live -> [kind |-> "admitted", price |-> new.price]
           [] OTHER -> [kind |-> "changed", price |-> new.price])]

Set(m, new) == mach' = [mach EXCEPT ![m] = new] /\ Record(m, mach[m], new)

-----------------------------------------------------------------------------
(* Admission                                                                *)

environment == <<limits, catalog, revoked>>

AdmitCreate(g, key, request) ==
  /\ g \notin revoked
  /\ Previous(g, 0, key, request) = {}
  /\ ~NameTaken(Owner[g], request.name)
  /\ Offered(request.size)
  /\ AssertReservation(g, 1, catalog[request.size])
  /\ \E m \in NextMachine, o \in NextOp :
       /\ Set(m, [state |-> "provisioning", owner |-> Owner[g], name |-> request.name,
                  version |-> 1, live |-> TRUE, server |-> FALSE, size |-> request.size,
                  price |-> catalog[request.size]])
       /\ op' = [op EXCEPT ![o] = [NoOp EXCEPT
                   !.status = "active", !.machine = m, !.size = request.size,
                   !.offer = catalog[request.size], !.grant = g]]
       /\ Remember(g, 0, key, request, o)
  /\ UNCHANGED environment

\* A resize reserves the dearer of the two offers while it runs.
ReservedPrice(old, offer) == Max({old, offer})

\* admit: resize needs a stopped machine, a disk that does not shrink and room
\* for the larger price.
ResizeAdmitted(g, m, z) ==
  /\ mach[m].state = "off"
  /\ Offered(z) /\ z >= mach[m].size
  /\ AssertReservation(g, 0, ReservedPrice(mach[m].price, catalog[z]) - mach[m].price)

\* Mutant: admission leaves the version to the operation's completion.
SameVersion(v) == v

NextVersion(v) == v + 1

\* admit: reboot, power_on, power_off ("power") and resize.
AdmitAction(g, m, key, request) ==
  /\ g \notin revoked
  /\ mach[m].owner = Owner[g] /\ mach[m].version = request.version
  /\ Previous(g, m, key, request) = {}
  /\ ActiveOps(m) = {}
  /\ mach[m].live /\ mach[m].server /\ mach[m].state # "destroyed"
  /\ request.kind = "resize" => ResizeAdmitted(g, m, request.size)
  /\ mach[m].version < MaxVersion
  /\ \E o \in NextOp :
       LET resize == request.kind = "resize"
           offer  == IF resize THEN catalog[request.size] ELSE 0 IN
       /\ Set(m, [mach[m] EXCEPT
            !.version = NextVersion(@),
            !.price = IF resize THEN ReservedPrice(@, offer) ELSE @])
       /\ op' = [op EXCEPT ![o] = [NoOp EXCEPT
                   !.status = "active", !.machine = m, !.kind = request.kind,
                   !.size = IF resize THEN request.size ELSE 0, !.offer = offer,
                   !.grant = g, !.seen = request.version]]
       /\ Remember(g, m, key, request, o)
  /\ UNCHANGED environment

\* What a destroy may follow: nothing active, a create, or another cleanup.
DestroyAdmitted(g, m, key, request) ==
  /\ g \notin revoked
  /\ mach[m].owner = Owner[g] /\ mach[m].version = request.version
  /\ Previous(g, m, key, request) = {}
  /\ mach[m].live /\ mach[m].state # "destroyed"
  /\ \A o \in ActiveOps(m) : op[o].kind = "create" \/ op[o].cleanup

\* admitCleanup: the request joins a cleanup that is under way.
JoinCleanup(g, m, key, request) ==
  /\ DestroyAdmitted(g, m, key, request)
  /\ \E o \in ActiveOps(m) : op[o].cleanup /\ Remember(g, m, key, request, o)
  /\ UNCHANGED <<mach, op, history>> /\ UNCHANGED environment

\* admitCleanup: an active create is taken over, as the same operation.
TakeOver(g, m, key, request) ==
  /\ DestroyAdmitted(g, m, key, request) /\ mach[m].version < MaxVersion
  /\ \E o \in ActiveOps(m) :
       /\ ~op[o].cleanup
       /\ op' = [op EXCEPT ![o].cleanup = TRUE, ![o].cancelledOn = request.version]
       /\ Remember(g, m, key, request, o)
  /\ Set(m, [mach[m] EXCEPT !.version = NextVersion(@)])
  /\ UNCHANGED environment

FreshDestroy(g, m, key, request) ==
  /\ mach[m].version < MaxVersion
  /\ \E o \in NextOp :
       /\ op' = [op EXCEPT ![o] = [NoOp EXCEPT
                   !.status = "active", !.machine = m, !.kind = "destroy", !.cleanup = TRUE,
                   !.grant = g, !.seen = request.version]]
       /\ Remember(g, m, key, request, o)
  /\ Set(m, [mach[m] EXCEPT !.version = NextVersion(@)])
  /\ UNCHANGED environment

AdmitDestroy(g, m, key, request) ==
  /\ DestroyAdmitted(g, m, key, request)
  /\ ActiveOps(m) = {}
  /\ FreshDestroy(g, m, key, request)

-----------------------------------------------------------------------------
(* Outcomes, written by the worker that holds the machine's lock            *)

Ends(o, status) == op' = [op EXCEPT ![o].status = status] /\ UNCHANGED idem

\* complete: the observed server is recorded; create and resize settle on the
\* admitted offer. The power the provider shows is its own.
Complete(o, power) ==
  LET m == op[o].machine IN
  /\ op[o].status = "active" /\ ~op[o].cleanup
  /\ mach[m].version < MaxVersion
  /\ Set(m, [mach[m] EXCEPT
       !.state = power, !.server = TRUE, !.version = @ + 1,
       !.size = IF op[o].kind \in {"create", "resize"} THEN op[o].size ELSE @,
       !.price = IF op[o].kind \in {"create", "resize"} THEN op[o].offer ELSE @])
  /\ Ends(o, "succeeded")
  /\ UNCHANGED environment

\* fail: a create fails its machine, and gives its reservation back only when
\* nothing was allocated; any other failure leaves the machine as it is.
Fail(o, absent) ==
  LET m == op[o].machine IN
  /\ op[o].status = "active" /\ ~op[o].cleanup
  /\ IF op[o].kind = "create"
     THEN /\ mach[m].version < MaxVersion
          /\ Set(m, [mach[m] EXCEPT !.state = "failed", !.version = @ + 1, !.live = ~absent])
     ELSE ~absent /\ UNCHANGED <<mach, history>>
  /\ Ends(o, "failed")
  /\ UNCHANGED environment

\* Everything is gone: the cleanup retires the allocation.
FinishCleanup(o) ==
  LET m == op[o].machine IN
  /\ op[o].status = "active" /\ op[o].cleanup
  /\ mach[m].version < MaxVersion
  /\ Set(m, [mach[m] EXCEPT !.state = "destroyed", !.version = @ + 1, !.live = FALSE])
  /\ Ends(o, IF op[o].kind = "create" THEN "cancelled" ELSE "succeeded")
  /\ UNCHANGED environment

-----------------------------------------------------------------------------
\* A request on a version that has passed is refused (or was admitted before, and
\* changes nothing): only the present version can do anything.
Expected(m, request) ==
  IF request.kind = "create" THEN m = 1 ELSE request.version = mach[m].version

AdmitAny(g, key, m, request) ==
  \/ request.kind = "create" /\ m = 1 /\ AdmitCreate(g, key, request)
  \/ request.kind \in {"power", "resize"} /\ AdmitAction(g, m, key, request)
  \/ request.kind = "destroy" /\ JoinCleanup(g, m, key, request)
  \/ request.kind = "destroy" /\ TakeOver(g, m, key, request)
  \/ request.kind = "destroy" /\ AdmitDestroy(g, m, key, request)

Next ==
  \/ \E c \in Catalogs : RefreshCatalog(c)
  \/ DropCatalog
  \/ \E g \in Grants : Revoke(g)
  \/ \E l \in Deployments : Restart(l)
  \/ \E m \in Machines, r \in Requests :
       Expected(m, r) /\ \E g \in Grants, key \in Keys : AdmitAny(g, key, m, r)
  \/ \E o \in Ops, power \in {"on", "off"} : Complete(o, power)
  \/ \E o \in Ops, absent \in BOOLEAN : Fail(o, absent)
  \/ \E o \in Ops : FinishCleanup(o)

Spec == Init /\ [][Next]_vars

-----------------------------------------------------------------------------
(* Properties                                                               *)

\* Every variable has its type.
TypeOK ==
  /\ limits \in Deployments
  /\ catalog \in Catalogs \cup {NoCatalog}
  /\ revoked \subseteq Grants
  /\ mach \in [Machines -> MachineRecord]
  /\ op \in [Ops -> OpRecord]
  /\ idem \subseteq KeyRecord
  /\ history \in [Machines -> Seq(HistoryRow)]

\* Two operations never answer to one request key: a retry after a lost reply,
\* by any credential of the account and at any later time, gets the operation of
\* the first request, and the key never stands for a second request.
OneOperationPerKey ==
  \A r, s \in idem :
    r.account = s.account /\ r.scope = s.scope /\ r.key = s.key => r.op = s.op /\ r.request = s.request

\* A client acts on the version it saw: each version of a machine admits at most
\* one request that changes it, a create taken over by a destroy included.
OneChangePerVersion ==
  \A m \in Machines :
    LET On(v) == {o \in Ops : op[o].machine = m /\ op[o].seen = v}
             \cup {MaxOps + o : o \in {p \in Ops : op[p].machine = m /\ op[p].cancelledOn = v}} IN
    \A v \in 1..mach[m].version : Cardinality(On(v)) <= 1

CountOf(a) == Cardinality(Owned(a))
SpendOf(a) == PriceOf(Owned(a))

WithinLimits ==
  /\ \A a \in Accounts :
       /\ CountOf(a)' > CountOf(a) => CountOf(a)' <= AccountLimit[a].machines
       /\ SpendOf(a)' > SpendOf(a) => SpendOf(a)' <= AccountLimit[a].price
  /\ Cardinality(Reserved)' > Cardinality(Reserved) => Cardinality(Reserved)' <= limits.machines
  /\ PriceOf(Reserved)' > PriceOf(Reserved) => PriceOf(Reserved)' <= limits.price

\* No step, an admission or the end of an operation, takes the machines or the
\* price of an account or of the deployment up beyond the limits in force.
NeverOverReserves == [][WithinLimits]_mach

\* readUsage: what the usage report says is left to a credential.
Usage(g) ==
  LET a == Owner[g]
      effective(x, y) == Min({x, y}) IN
  [machines |-> Max({0, effective(AccountLimit[a].machines, Policy[g].machines) - CountOf(a)}),
   price |-> Max({0, effective(AccountLimit[a].price, Policy[g].price) - SpendOf(a)})]

WithinUsage ==
  \A o \in Ops, g \in Grants :
    op[o].status = "none" /\ op'[o].status = "active" /\ op'[o].grant = g =>
    /\ CountOf(Owner[g])' - CountOf(Owner[g]) <= Usage(g).machines
    /\ SpendOf(Owner[g])' - SpendOf(Owner[g]) <= Usage(g).price

\* The usage report is honest: an operation is only admitted for a credential
\* within what the report leaves it at that moment.
UsageCoversAdmission == [][WithinUsage]_op

\* The reservation history accounts for the reservation: it starts with the
\* admission, its last row is what is reserved now, and nothing follows the one
\* release.
HistoryAccounts ==
  \A m \in Machines :
    LET h == history[m] IN
    /\ (h = <<>>) = (mach[m].state = "none")
    /\ h # <<>> => /\ h[1].kind = "admitted"
                   /\ h[Len(h)].price = (IF mach[m].live THEN mach[m].price ELSE 0)
                   /\ (h[Len(h)].kind = "released") = ~mach[m].live
                   /\ \A i \in 1..(Len(h) - 1) : h[i].kind # "released"

=============================================================================
