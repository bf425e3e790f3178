--------------------------- MODULE AdmissionProofs ---------------------------
(***************************************************************************)
(* What admission guarantees for any number of accounts, credentials,      *)
(* machines, operations and request keys: one operation per request key,   *)
(* one change per version of a machine, and a reservation history that     *)
(* accounts for what is reserved.                                          *)
(*                                                                         *)
(* None of the three is inductive as it stands. The history needs every    *)
(* machine with an operation under way to be live and to have one such     *)
(* operation only; the versions need every operation to have been admitted *)
(* below the machine's present version. MachineInv and OpInv say that.     *)
(*                                                                         *)
(* Then the limits, which add up machines and prices: what a sum over a    *)
(* set computes, how one machine changes it, and that what an operation    *)
(* will settle on is reserved while it runs (OfferInv).                    *)
(***************************************************************************)
EXTENDS Admission, SequenceTheorems, FiniteSetTheorems, WellFoundedInduction, TLAPS

\* A machine that was never created.
MachineInv == \A m \in Machines : mach[m].state = "none" => ~mach[m].live /\ mach[m].version = 0

\* Operations of one machine: at most one is under way, and then the machine is
\* live; each was admitted on an earlier version, and no two on the same.
OpInv ==
  /\ \A o \in Ops : op[o].status = "none" <=> op[o].machine = 0
  /\ \A o \in Ops : op[o].machine # 0 =>
       /\ mach[op[o].machine].state # "none"
       /\ op[o].seen < mach[op[o].machine].version
       /\ op[o].cancelledOn < mach[op[o].machine].version
       /\ op[o].status = "active" => mach[op[o].machine].live
  /\ \A o, p \in Ops :
       op[o].machine = op[p].machine /\ op[o].status = "active" /\ op[p].status = "active" => o = p
  /\ \A o, p \in Ops :
       op[o].machine = op[p].machine /\ op[o].machine # 0 =>
         /\ op[o].seen # 0 => op[o].seen # op[p].cancelledOn
         /\ op[o].seen # 0 /\ op[o].seen = op[p].seen => o = p
         /\ op[o].cancelledOn # 0 /\ op[o].cancelledOn = op[p].cancelledOn => o = p

AdmissionInv == TypeOK /\ MachineInv /\ OpInv /\ HistoryAccounts

-----------------------------------------------------------------------------
LEMMA Bounds ==
  /\ Machines \subseteq Nat \ {0} /\ Ops \subseteq Nat \ {0} /\ MaxVersion \in Nat \ {0}
  /\ Sizes \subseteq Nat \ {0} /\ Prices \subseteq Nat
BY AdmissionAssumption DEF Machines, Ops

LEMMA OfferType ==
  ASSUME TypeOK, NEW z, Offered(z)
  PROVE  z \in Sizes /\ catalog[z] \in Prices
BY DEF TypeOK, Offered, Sizes, Prices

\* The dearer of two prices is one of them.
LEMMA DearerType ==
  ASSUME NEW a \in Prices \cup {0}, NEW b \in Prices \cup {0}
  PROVE  ReservedPrice(a, b) \in Prices \cup {0}
<1>1. a \in Nat /\ b \in Nat
  BY Bounds
<1>2. \E x \in {a, b} : \A y \in {a, b} : x >= y
  <2>1. CASE a >= b
    BY <1>1, <2>1
  <2>2. CASE b >= a
    BY <1>1, <2>2
  <2> QED BY <1>1, <2>1, <2>2
<1>3. Max({a, b}) \in {a, b}
  BY <1>2 DEF Max
<1> QED BY <1>3 DEF ReservedPrice

\* One more row after a history.
LEMMA AppendRow ==
  ASSUME NEW h \in Seq(HistoryRow), NEW r \in HistoryRow
  PROVE  /\ Append(h, r) \in Seq(HistoryRow) /\ Append(h, r) # <<>>
         /\ Len(Append(h, r)) = Len(h) + 1 /\ Len(h) \in Nat
         /\ Append(h, r)[Len(h) + 1] = r
         /\ \A i \in 1..Len(h) : Append(h, r)[i] = h[i]
         /\ h # <<>> => Len(h) >= 1 /\ Append(h, r)[1] = h[1]
         /\ h = <<>> => Append(h, r)[1] = r /\ Len(h) = 0
<1>1. Len(h) \in Nat /\ (h # <<>> => Len(h) \in Nat \ {0})
  BY EmptySeq, LenProperties
<1>2. h = <<>> => Len(h) = 0
  BY EmptySeq
<1>3. Append(h, r) \in Seq(HistoryRow) /\ Len(Append(h, r)) = Len(h) + 1
      /\ Append(h, r)[Len(h) + 1] = r /\ \A i \in 1..Len(h) : Append(h, r)[i] = h[i]
  BY <1>1
<1>4. Append(h, r) # <<>>
  BY <1>1, <1>3, EmptySeq
<1> QED BY <1>1, <1>2, <1>3, <1>4

\* record_allocation_reservation: what an insert of a live allocation or an
\* update of one that is live does to the history of its machine.
LEMMA SetHistory ==
  ASSUME AdmissionInv, NEW m \in Machines, NEW new \in MachineRecord, Set(m, new),
         new.state # "none", mach[m].live \/ (mach[m].state = "none" /\ new.live)
  PROVE  /\ mach' \in [Machines -> MachineRecord] /\ mach'[m] = new
         /\ \A k \in Machines \ {m} : mach'[k] = mach[k]
         /\ history' \in [Machines -> Seq(HistoryRow)]
         /\ HistoryAccounts' /\ MachineInv'
<1>1. /\ mach \in [Machines -> MachineRecord] /\ history \in [Machines -> Seq(HistoryRow)]
      /\ mach' = [mach EXCEPT ![m] = new]
  BY DEF AdmissionInv, TypeOK, Set
<1>2. mach' \in [Machines -> MachineRecord] /\ mach'[m] = new /\ \A k \in Machines \ {m} : mach'[k] = mach[k]
  BY <1>1
<1>3. mach[m].state = "none" => ~mach[m].live
  BY DEF AdmissionInv, MachineInv
<1>4. MachineInv'
  BY <1>2 DEF AdmissionInv, MachineInv
<1> DEFINE h == history[m]
           At(H, r) == /\ (H = <<>>) = (r.state = "none")
                       /\ H # <<>> => /\ H[1].kind = "admitted"
                                      /\ H[Len(H)].price = (IF r.live THEN r.price ELSE 0)
                                      /\ (H[Len(H)].kind = "released") = ~r.live
                                      /\ \A i \in 1..(Len(H) - 1) : H[i].kind # "released"
<1>5. \A k \in Machines : At(history[k], mach[k])
  BY DEF AdmissionInv, HistoryAccounts
<1>6. ASSUME history' \in [Machines -> Seq(HistoryRow)], At(history'[m], new),
             \A k \in Machines \ {m} : history'[k] = history[k]
      PROVE  HistoryAccounts'
  <2> HIDE DEF At
  <2>1. \A k \in Machines : At(history'[k], mach'[k])
    BY <1>2, <1>5, <1>6
  <2> USE DEF At
  <2> QED BY <2>1, Zenon DEF HistoryAccounts
<1>7. CASE new.price = mach[m].price /\ new.live = mach[m].live
  <2>1. history' = history
    BY <1>7 DEF Set, Record
  <2>2. mach[m].state # "none"
    BY <1>3, <1>7
  <2>3. At(h, new)
    BY <1>5, <1>7, <2>2
  <2> QED BY <1>1, <1>2, <1>4, <1>6, <2>1, <2>3
<1>8. CASE ~(new.price = mach[m].price /\ new.live = mach[m].live)
  <2> DEFINE r == CASE ~new.live -> [kind |-> "released", price |-> 0]
                    [] new.live /\ ~mach[m].live -> [kind |-> "admitted", price |-> new.price]
                    [] OTHER -> [kind |-> "changed", price |-> new.price]
  <2>1. history' = [history EXCEPT ![m] = Append(h, r)]
    BY <1>1, <1>8 DEF Set, Record
  <2>2. new.price \in Prices \cup {0} /\ new.live \in BOOLEAN /\ mach[m].live \in BOOLEAN
    BY <1>1 DEF MachineRecord
  <2>3. /\ r \in HistoryRow
        /\ r.price = (IF new.live THEN new.price ELSE 0)
        /\ r.kind = "released" <=> ~new.live
        /\ ~mach[m].live /\ new.live => r.kind = "admitted"
    BY <2>2 DEF HistoryRow
  <2> HIDE DEF r
  <2>4. h \in Seq(HistoryRow)
    BY <1>1
  <2>5. history' \in [Machines -> Seq(HistoryRow)] /\ history'[m] = Append(h, r)
        /\ \A k \in Machines \ {m} : history'[k] = history[k]
    BY <1>1, <2>1, <2>3, <2>4, AppendRow
  <2>6. h = <<>> => r.kind = "admitted"
    BY <1>3, <1>5, <2>3
  <2>7. h # <<>> => h[1].kind = "admitted" /\ mach[m].live
    BY <1>5
  <2>8. \A i \in 1..Len(h) : h[i].kind # "released"
    <3>1. CASE h = <<>>
      BY <2>3, <2>4, <3>1, AppendRow
    <3>2. CASE h # <<>>
      <4>1. Len(h) \in Nat /\ h[Len(h)].kind # "released" /\ \A i \in 1..(Len(h) - 1) : h[i].kind # "released"
        BY <1>5, <2>3, <2>4, <2>7, <3>2, AppendRow
      <4> QED BY <4>1
    <3> QED BY <3>1, <3>2
  <2> DEFINE H == Append(h, r)
  <2>9. H # <<>> /\ H[1].kind = "admitted" /\ H[Len(H)] = r
        /\ \A i \in 1..(Len(H) - 1) : H[i].kind # "released"
    <3>1. H # <<>> /\ Len(H) = Len(h) + 1 /\ Len(h) \in Nat /\ H[Len(h) + 1] = r
          /\ (\A i \in 1..Len(h) : H[i] = h[i])
          /\ (h # <<>> => H[1] = h[1]) /\ (h = <<>> => H[1] = r)
      BY <2>3, <2>4, AppendRow
    <3> HIDE DEF H, h
    <3> QED BY <2>6, <2>7, <2>8, <3>1
  <2>10. At(H, new)
    <3> HIDE DEF H
    <3> QED BY <2>2, <2>3, <2>9
  <2> QED BY <1>2, <1>4, <1>6, <2>5, <2>10
<1> QED BY <1>7, <1>8

-----------------------------------------------------------------------------
(* Every step keeps the invariant                                           *)

LEMMA InitInv == Init => AdmissionInv
<1> SUFFICES ASSUME Init PROVE AdmissionInv
  OBVIOUS
<1>1. mach \in [Machines -> MachineRecord] /\ \A m \in Machines : mach[m] = NoMachine
  BY Bounds DEF Init, MachineRecord, NoMachine
<1>2. op \in [Ops -> OpRecord] /\ \A o \in Ops : op[o] = NoOp
  BY Bounds, AdmissionAssumption DEF Init, OpRecord, NoOp
<1>3. history \in [Machines -> Seq(HistoryRow)] /\ \A m \in Machines : history[m] = <<>>
  BY EmptySeq DEF Init
<1>4. TypeOK
  BY <1>1, <1>2, <1>3 DEF Init, TypeOK
<1>5. MachineInv
  BY <1>1 DEF MachineInv, NoMachine
<1>6. OpInv
  BY <1>2 DEF OpInv, NoOp
<1>7. HistoryAccounts
  BY <1>1, <1>3 DEF HistoryAccounts, NoMachine
<1> QED BY <1>4, <1>5, <1>6, <1>7 DEF AdmissionInv

\* What admitting a new operation adds to the operations of machine m.
LEMMA NewOp ==
  ASSUME AdmissionInv, NEW m \in Machines, NEW o \in Ops, op[o].status = "none",
         NEW r \in OpRecord, op' = [op EXCEPT ![o] = r],
         mach' \in [Machines -> MachineRecord], \A k \in Machines \ {m} : mach'[k] = mach[k],
         ActiveOps(m) = {}, mach'[m].state # "none", mach'[m].live,
         r.status = "active", r.machine = m, r.cancelledOn = 0,
         \/ mach[m].state = "none" /\ r.seen = 0 /\ mach'[m].version = 1
         \/ mach[m].state # "none" /\ r.seen = mach[m].version /\ mach'[m].version = mach[m].version + 1
  PROVE  op' \in [Ops -> OpRecord] /\ OpInv'
<1>1. op \in [Ops -> OpRecord] /\ mach \in [Machines -> MachineRecord]
  BY DEF AdmissionInv, TypeOK
<1>2. op' \in [Ops -> OpRecord] /\ op'[o] = r /\ \A p \in Ops \ {o} : op'[p] = op[p]
  BY <1>1
<1>3. /\ mach[m].version \in Nat /\ r.seen \in Nat
      /\ \A p \in Ops : op[p].seen \in Nat /\ op[p].cancelledOn \in Nat /\ op[p].machine \in Machines \cup {0}
  BY <1>1, Bounds DEF OpRecord, MachineRecord, Machines
<1>4. m # 0
  BY Bounds
<1>5. \A p \in Ops : op[p].machine = m =>
        /\ mach[m].state # "none" /\ op[p].status # "active"
        /\ op[p].seen < mach[m].version /\ op[p].cancelledOn < mach[m].version
  BY <1>4 DEF AdmissionInv, OpInv, ActiveOps
<1>6. \A p \in Ops : op[p].status = "none" <=> op[p].machine = 0
  BY DEF AdmissionInv, OpInv
<1>7. \A p \in Ops : op'[p].status = "none" <=> op'[p].machine = 0
  BY <1>2, <1>4, <1>6
<1>8. ASSUME NEW p \in Ops, op'[p].machine # 0
      PROVE  /\ mach'[op'[p].machine].state # "none"
             /\ op'[p].seen < mach'[op'[p].machine].version
             /\ op'[p].cancelledOn < mach'[op'[p].machine].version
             /\ op'[p].status = "active" => mach'[op'[p].machine].live
  <2>1. CASE p = o
    BY <1>2, <1>3, <2>1
  <2>2. CASE p # o /\ op[p].machine = m
    BY <1>2, <1>3, <1>5, <2>2
  <2>3. CASE p # o /\ op[p].machine # m
    BY <1>2, <1>3, <1>8, <2>3 DEF AdmissionInv, OpInv
  <2> QED BY <2>1, <2>2, <2>3
<1>9. ASSUME NEW p \in Ops, NEW q \in Ops, op'[p].machine = op'[q].machine,
             op'[p].status = "active", op'[q].status = "active"
      PROVE  p = q
  BY <1>2, <1>5, <1>9 DEF AdmissionInv, OpInv
<1>10. ASSUME NEW p \in Ops, NEW q \in Ops, op'[p].machine = op'[q].machine, op'[p].machine # 0
       PROVE  /\ op'[p].seen # 0 => op'[p].seen # op'[q].cancelledOn
              /\ op'[p].seen # 0 /\ op'[p].seen = op'[q].seen => p = q
              /\ op'[p].cancelledOn # 0 /\ op'[p].cancelledOn = op'[q].cancelledOn => p = q
  <2>1. CASE p # o /\ q # o
    BY <1>2, <1>10, <2>1 DEF AdmissionInv, OpInv
  <2>2. CASE p = o /\ q = o
    BY <1>2, <2>2
  <2>3. CASE p = o /\ q # o
    BY <1>2, <1>3, <1>5, <1>10, <2>3
  <2>4. CASE p # o /\ q = o
    BY <1>2, <1>3, <1>5, <1>10, <2>4
  <2> QED BY <2>1, <2>2, <2>3, <2>4
<1> QED BY <1>2, <1>7, <1>8, <1>9, <1>10 DEF OpInv

\* The operation o of machine m ends; the machine may end with it.
LEMMA OpEnds ==
  ASSUME AdmissionInv, NEW m \in Machines, NEW o \in Ops, op[o].status = "active", op[o].machine = m,
         NEW status \in {"succeeded", "failed", "cancelled"}, op' = [op EXCEPT ![o].status = status],
         mach' \in [Machines -> MachineRecord], \A k \in Machines \ {m} : mach'[k] = mach[k],
         mach'[m].state # "none", mach'[m].version >= mach[m].version
  PROVE  op' \in [Ops -> OpRecord] /\ OpInv'
<1>1. op \in [Ops -> OpRecord] /\ mach \in [Machines -> MachineRecord]
  BY DEF AdmissionInv, TypeOK
<1>2. op' \in [Ops -> OpRecord] /\ \A p \in Ops \ {o} : op'[p] = op[p]
  BY <1>1 DEF OpRecord
<1>3. op'[o].status = status /\ op'[o].machine = m /\ op'[o].seen = op[o].seen
      /\ op'[o].cancelledOn = op[o].cancelledOn
  BY <1>1 DEF OpRecord
<1>4. /\ mach[m].version \in Nat /\ mach'[m].version \in Nat /\ m # 0
      /\ \A p \in Ops : op[p].seen \in Nat /\ op[p].cancelledOn \in Nat /\ op[p].machine \in Machines \cup {0}
  BY <1>1, Bounds DEF OpRecord, MachineRecord, Machines
<1>5. \A p \in Ops : op'[p].machine = op[p].machine /\ op'[p].seen = op[p].seen
                     /\ op'[p].cancelledOn = op[p].cancelledOn
                     /\ (op'[p].status = "active" => op[p].status = "active" /\ p # o)
  BY <1>2, <1>3
<1>6. \A p \in Ops \ {o} : op[p].machine = m => op[p].status # "active"
  BY DEF AdmissionInv, OpInv
<1>7. \A p \in Ops : op'[p].status = "none" <=> op'[p].machine = 0
  BY <1>2, <1>3, <1>4 DEF AdmissionInv, OpInv
<1>8. ASSUME NEW p \in Ops, op'[p].machine # 0
      PROVE  /\ mach'[op'[p].machine].state # "none"
             /\ op'[p].seen < mach'[op'[p].machine].version
             /\ op'[p].cancelledOn < mach'[op'[p].machine].version
             /\ op'[p].status = "active" => mach'[op'[p].machine].live
  <2>1. CASE op[p].machine = m
    <3>1. op[p].seen < mach[m].version /\ op[p].cancelledOn < mach[m].version
      BY <1>4, <2>1 DEF AdmissionInv, OpInv
    <3> QED BY <1>4, <1>5, <1>6, <2>1, <3>1
  <2>2. CASE op[p].machine # m
    BY <1>4, <1>5, <1>8, <2>2 DEF AdmissionInv, OpInv
  <2> QED BY <2>1, <2>2
<1>9. \A p, q \in Ops :
        op'[p].machine = op'[q].machine /\ op'[p].status = "active" /\ op'[q].status = "active" => p = q
  BY <1>5 DEF AdmissionInv, OpInv
<1>10. \A p, q \in Ops :
         op'[p].machine = op'[q].machine /\ op'[p].machine # 0 =>
           /\ op'[p].seen # 0 => op'[p].seen # op'[q].cancelledOn
           /\ op'[p].seen # 0 /\ op'[p].seen = op'[q].seen => p = q
           /\ op'[p].cancelledOn # 0 /\ op'[p].cancelledOn = op'[q].cancelledOn => p = q
  BY <1>5 DEF AdmissionInv, OpInv
<1> QED BY <1>2, <1>7, <1>8, <1>9, <1>10 DEF OpInv

LEMMA CreateInv ==
  ASSUME AdmissionInv, NEW g \in Grants, NEW key \in Keys, NEW r \in Requests, r.kind = "create",
         AdmitCreate(g, key, r)
  PROVE  AdmissionInv'
<1>1. PICK m \in NextMachine, o \in NextOp :
        /\ Set(m, [state |-> "provisioning", owner |-> Owner[g], name |-> r.name,
                   version |-> 1, live |-> TRUE, server |-> FALSE, size |-> r.size,
                   price |-> catalog[r.size]])
        /\ op' = [op EXCEPT ![o] = [NoOp EXCEPT
                   !.status = "active", !.machine = m, !.size = r.size,
                   !.offer = catalog[r.size], !.grant = g]]
        /\ Remember(g, 0, key, r, o)
  BY DEF AdmitCreate
<1>2. m \in Machines /\ o \in Ops /\ mach[m].state = "none" /\ op[o].status = "none"
      /\ 1 \in 0..MaxVersion /\ 0 \in 0..MaxVersion /\ m \in 0..MaxMachines
  BY Bounds DEF NextMachine, NextOp, Machines
<1>3. r.size \in Sizes /\ catalog[r.size] \in Prices /\ r.name \in Names /\ Owner[g] \in Accounts
  <2>1. Offered(r.size) /\ TypeOK
    BY DEF AdmitCreate, AdmissionInv
  <2>2. r.name \in Names
    BY DEF Requests
  <2> QED BY <2>1, <2>2, OfferType, AdmissionAssumption
<1> DEFINE new == [state |-> "provisioning", owner |-> Owner[g], name |-> r.name,
                   version |-> 1, live |-> TRUE, server |-> FALSE, size |-> r.size,
                   price |-> catalog[r.size]]
           rec == [NoOp EXCEPT !.status = "active", !.machine = m, !.size = r.size,
                               !.offer = catalog[r.size], !.grant = g]
<1>4. new \in MachineRecord /\ new.state # "none" /\ new.live /\ new.version = 1
  BY <1>2, <1>3 DEF MachineRecord
<1>6. rec \in OpRecord /\ rec.status = "active" /\ rec.machine = m /\ rec.seen = 0 /\ rec.cancelledOn = 0
  BY <1>2, <1>3 DEF OpRecord, NoOp
<1>7. Set(m, new) /\ op' = [op EXCEPT ![o] = rec]
  BY <1>1
<1> HIDE DEF new, rec
<1>8. /\ mach' \in [Machines -> MachineRecord] /\ mach'[m] = new
      /\ \A k \in Machines \ {m} : mach'[k] = mach[k]
      /\ history' \in [Machines -> Seq(HistoryRow)]
      /\ HistoryAccounts' /\ MachineInv'
  BY <1>2, <1>4, <1>7, SetHistory
<1>9. ActiveOps(m) = {}
  BY <1>2, Bounds DEF ActiveOps, AdmissionInv, OpInv
<1>10. op' \in [Ops -> OpRecord] /\ OpInv'
  BY <1>2, <1>4, <1>6, <1>7, <1>8, <1>9, NewOp
<1>11. idem' \subseteq KeyRecord
  <2>1. [account |-> Owner[g], scope |-> 0, key |-> key, request |-> r, op |-> o] \in KeyRecord
    BY <1>2, <1>3 DEF KeyRecord, Scopes
  <2> QED BY <1>1, <2>1 DEF Remember, AdmissionInv, TypeOK
<1> QED BY <1>8, <1>10, <1>11 DEF AdmitCreate, environment, AdmissionInv, TypeOK

LEMMA ActionInv ==
  ASSUME AdmissionInv, NEW g \in Grants, NEW m \in Machines, NEW key \in Keys, NEW r \in Requests,
         r.kind \in {"power", "resize"}, AdmitAction(g, m, key, r)
  PROVE  AdmissionInv'
<1> DEFINE resize == r.kind = "resize"
           offer  == IF resize THEN catalog[r.size] ELSE 0
           size   == IF resize THEN r.size ELSE 0
           price  == IF resize THEN ReservedPrice(mach[m].price, offer) ELSE mach[m].price
           new    == [mach[m] EXCEPT !.version = NextVersion(@), !.price = price]
           rec    == [NoOp EXCEPT !.status = "active", !.machine = m, !.kind = r.kind, !.size = size,
                                  !.offer = offer, !.grant = g, !.seen = r.version]
<1>1. PICK o \in NextOp : Set(m, new) /\ op' = [op EXCEPT ![o] = rec] /\ Remember(g, m, key, r, o)
  BY DEF AdmitAction
<1>2. /\ o \in Ops /\ op[o].status = "none" /\ mach[m] \in MachineRecord /\ m \in 0..MaxMachines
      /\ mach[m].version = r.version /\ mach[m].version < MaxVersion /\ mach[m].live
      /\ mach[m].version \in 0..MaxVersion /\ ActiveOps(m) = {}
      /\ 0 \in 0..MaxVersion /\ mach[m].price \in Prices \cup {0}
  BY Bounds DEF AdmitAction, NextOp, AdmissionInv, TypeOK, MachineRecord, Machines
<1>3. offer \in Prices \cup {0} /\ size \in Sizes \cup {0}
  <2>1. resize => Offered(r.size)
    BY DEF AdmitAction, ResizeAdmitted
  <2> QED BY <2>1, OfferType DEF AdmissionInv
<1>4. price \in Prices \cup {0}
  BY <1>2, <1>3, DearerType
<1>5. mach[m].state # "none"
  BY <1>2 DEF AdmissionInv, MachineInv
<1> HIDE DEF offer, size, price
<1>6. new \in MachineRecord /\ new.state = mach[m].state /\ new.live /\ new.version = mach[m].version + 1
  <2>1. mach[m].version + 1 \in 0..MaxVersion
    BY <1>2, Bounds
  <2> QED BY <1>2, <1>4, <2>1 DEF MachineRecord, NextVersion
<1>8. rec \in OpRecord /\ rec.status = "active" /\ rec.machine = m /\ rec.seen = r.version
      /\ rec.cancelledOn = 0
  BY <1>2, <1>3 DEF OpRecord, NoOp
<1> HIDE DEF new, rec
<1>9. /\ mach' \in [Machines -> MachineRecord] /\ mach'[m] = new
      /\ \A k \in Machines \ {m} : mach'[k] = mach[k]
      /\ history' \in [Machines -> Seq(HistoryRow)]
      /\ HistoryAccounts' /\ MachineInv'
  BY <1>1, <1>2, <1>5, <1>6, SetHistory
<1>10. op' \in [Ops -> OpRecord] /\ OpInv'
  BY <1>1, <1>2, <1>5, <1>6, <1>8, <1>9, NewOp
<1>11. idem' \subseteq KeyRecord
  <2>1. [account |-> Owner[g], scope |-> m, key |-> key, request |-> r, op |-> o] \in KeyRecord
    BY <1>2, AdmissionAssumption DEF KeyRecord, Scopes
  <2> QED BY <1>1, <2>1 DEF Remember, AdmissionInv, TypeOK
<1> QED BY <1>9, <1>10, <1>11 DEF AdmitAction, environment, AdmissionInv, TypeOK

LEMMA RememberType ==
  ASSUME TypeOK, NEW g \in Grants, NEW m \in Machines, NEW key \in Keys, NEW r \in Requests,
         NEW o \in Ops, Remember(g, m, key, r, o)
  PROVE  idem' \subseteq KeyRecord
<1>1. [account |-> Owner[g], scope |-> m, key |-> key, request |-> r, op |-> o] \in KeyRecord
  BY AdmissionAssumption DEF KeyRecord, Scopes
<1> QED BY <1>1 DEF Remember, TypeOK

LEMMA JoinInv ==
  ASSUME AdmissionInv, NEW g \in Grants, NEW m \in Machines, NEW key \in Keys, NEW r \in Requests,
         JoinCleanup(g, m, key, r)
  PROVE  AdmissionInv'
<1>1. idem' \subseteq KeyRecord
  BY RememberType DEF JoinCleanup, ActiveOps, AdmissionInv
<1> QED BY <1>1 DEF JoinCleanup, environment, AdmissionInv, TypeOK, MachineInv, OpInv, HistoryAccounts

\* An admission on a live machine takes it to its next version.
LEMMA NextVersionInv ==
  ASSUME AdmissionInv, NEW m \in Machines, mach[m].live, mach[m].version < MaxVersion,
         Set(m, [mach[m] EXCEPT !.version = NextVersion(@)])
  PROVE  /\ mach' \in [Machines -> MachineRecord] /\ mach[m].state # "none"
         /\ mach'[m].version = mach[m].version + 1 /\ mach'[m].live /\ mach'[m].state = mach[m].state
         /\ \A k \in Machines \ {m} : mach'[k] = mach[k]
         /\ history' \in [Machines -> Seq(HistoryRow)]
         /\ HistoryAccounts' /\ MachineInv'
<1> DEFINE new == [mach[m] EXCEPT !.version = NextVersion(@)]
<1>1. mach[m] \in MachineRecord /\ mach[m].version \in 0..MaxVersion /\ mach[m].state # "none"
  BY DEF AdmissionInv, TypeOK, MachineInv, MachineRecord
<1>2. mach[m].version + 1 \in 0..MaxVersion
  BY <1>1, Bounds
<1>3. new \in MachineRecord /\ new.state = mach[m].state /\ new.live /\ new.version = mach[m].version + 1
  BY <1>1, <1>2 DEF MachineRecord, NextVersion
<1> HIDE DEF new
<1>4. Set(m, new)
  BY DEF new
<1> QED BY <1>1, <1>3, <1>4, SetHistory

LEMMA TakeOverInv ==
  ASSUME AdmissionInv, NEW g \in Grants, NEW m \in Machines, NEW key \in Keys, NEW r \in Requests,
         TakeOver(g, m, key, r)
  PROVE  AdmissionInv'
<1>1. PICK o \in ActiveOps(m) :
        op' = [op EXCEPT ![o].cleanup = TRUE, ![o].cancelledOn = r.version] /\ Remember(g, m, key, r, o)
  BY DEF TakeOver
<1>2. /\ mach[m].live /\ mach[m].version = r.version /\ mach[m].version < MaxVersion
      /\ Set(m, [mach[m] EXCEPT !.version = NextVersion(@)])
  BY DEF TakeOver, DestroyAdmitted
<1>3. o \in Ops /\ op[o].machine = m /\ op[o].status = "active"
  BY DEF ActiveOps
<1>4. op \in [Ops -> OpRecord] /\ mach \in [Machines -> MachineRecord]
  BY DEF AdmissionInv, TypeOK
<1>5. /\ mach[m].version \in Nat /\ m # 0 /\ r.version \in 0..MaxVersion
      /\ \A p \in Ops : op[p].seen \in Nat /\ op[p].cancelledOn \in Nat /\ op[p].machine \in Machines \cup {0}
  BY <1>2, <1>4, Bounds DEF OpRecord, MachineRecord, Machines
<1>6. /\ mach' \in [Machines -> MachineRecord] /\ mach[m].state # "none"
      /\ mach'[m].version = mach[m].version + 1 /\ mach'[m].live /\ mach'[m].state = mach[m].state
      /\ \A k \in Machines \ {m} : mach'[k] = mach[k]
      /\ history' \in [Machines -> Seq(HistoryRow)]
      /\ HistoryAccounts' /\ MachineInv'
  BY <1>2, NextVersionInv
<1>7. op' \in [Ops -> OpRecord] /\ \A p \in Ops \ {o} : op'[p] = op[p]
  <2>1. [op[o] EXCEPT !.cleanup = TRUE, !.cancelledOn = r.version] \in OpRecord
    BY <1>3, <1>4, <1>5 DEF OpRecord
  <2>2. op' = [op EXCEPT ![o] = [op[o] EXCEPT !.cleanup = TRUE, !.cancelledOn = r.version]]
    BY <1>1, <1>3, <1>4
  <2> QED BY <1>4, <2>1, <2>2
<1>8. op'[o].status = op[o].status /\ op'[o].machine = m /\ op'[o].seen = op[o].seen
      /\ op'[o].cancelledOn = mach[m].version
  BY <1>1, <1>2, <1>3, <1>4 DEF OpRecord
<1>9. \A p \in Ops : op'[p].machine = op[p].machine /\ op'[p].seen = op[p].seen
                     /\ op'[p].status = op[p].status
                     /\ (p # o => op'[p].cancelledOn = op[p].cancelledOn)
  BY <1>3, <1>7, <1>8
<1>10. \A p \in Ops : op[p].machine = m => op[p].seen < mach[m].version /\ op[p].cancelledOn < mach[m].version
  BY <1>5 DEF AdmissionInv, OpInv
<1>11. OpInv'
  <2>1. \A p \in Ops : op'[p].status = "none" <=> op'[p].machine = 0
    BY <1>9 DEF AdmissionInv, OpInv
  <2>2. ASSUME NEW p \in Ops, op'[p].machine # 0
        PROVE  /\ mach'[op'[p].machine].state # "none"
               /\ op'[p].seen < mach'[op'[p].machine].version
               /\ op'[p].cancelledOn < mach'[op'[p].machine].version
               /\ op'[p].status = "active" => mach'[op'[p].machine].live
    <3>1. CASE op[p].machine = m
      <4>1. op[p].seen < mach[m].version /\ op[p].cancelledOn < mach[m].version
        BY <1>10, <3>1
      <4>2. op'[p].cancelledOn = mach[m].version \/ op'[p].cancelledOn = op[p].cancelledOn
        BY <1>8, <1>9
      <4>3. op'[p].cancelledOn < mach[m].version + 1 /\ op'[p].seen < mach[m].version + 1
        BY <1>5, <1>9, <4>1, <4>2
      <4> QED BY <1>6, <1>9, <3>1, <4>3
    <3>2. CASE op[p].machine # m
      <4>1. p # o /\ op[p].machine # 0 /\ op[p].machine \in Machines \ {m}
        BY <1>3, <1>5, <1>9, <2>2, <3>2
      <4>2. op'[p] = op[p] /\ mach'[op[p].machine] = mach[op[p].machine]
        BY <1>6, <1>7, <4>1
      <4> QED BY <4>1, <4>2 DEF AdmissionInv, OpInv
    <3> QED BY <3>1, <3>2
  <2>3. \A p, q \in Ops :
          op'[p].machine = op'[q].machine /\ op'[p].status = "active" /\ op'[q].status = "active" => p = q
    BY <1>9 DEF AdmissionInv, OpInv
  <2>4. ASSUME NEW p \in Ops, NEW q \in Ops, op'[p].machine = op'[q].machine, op'[p].machine # 0
        PROVE  /\ op'[p].seen # 0 => op'[p].seen # op'[q].cancelledOn
               /\ op'[p].seen # 0 /\ op'[p].seen = op'[q].seen => p = q
               /\ op'[p].cancelledOn # 0 /\ op'[p].cancelledOn = op'[q].cancelledOn => p = q
    <3>1. op'[p].seen # 0 /\ op'[p].seen = op'[q].seen => p = q
      BY <1>9, <2>4 DEF AdmissionInv, OpInv
    <3>2. op'[p].seen # 0 => op'[p].seen # op'[q].cancelledOn
      <4>1. CASE q = o
        BY <1>3, <1>5, <1>8, <1>9, <1>10, <2>4, <4>1
      <4>2. CASE q # o
        BY <1>9, <2>4, <4>2 DEF AdmissionInv, OpInv
      <4> QED BY <4>1, <4>2
    <3>3. op'[p].cancelledOn # 0 /\ op'[p].cancelledOn = op'[q].cancelledOn => p = q
      <4>1. CASE p # o /\ q # o
        BY <1>9, <2>4, <4>1 DEF AdmissionInv, OpInv
      <4>2. CASE p = o /\ q # o
        BY <1>3, <1>5, <1>8, <1>9, <1>10, <2>4, <4>2
      <4>3. CASE p # o /\ q = o
        BY <1>3, <1>5, <1>8, <1>9, <1>10, <2>4, <4>3
      <4> QED BY <4>1, <4>2, <4>3
    <3> QED BY <3>1, <3>2, <3>3
  <2> QED BY <2>1, <2>2, <2>3, <2>4 DEF OpInv
<1>12. idem' \subseteq KeyRecord
  BY <1>1, <1>3, RememberType DEF AdmissionInv
<1> QED BY <1>6, <1>7, <1>11, <1>12 DEF TakeOver, environment, AdmissionInv, TypeOK

LEMMA DestroyInv ==
  ASSUME AdmissionInv, NEW g \in Grants, NEW m \in Machines, NEW key \in Keys, NEW r \in Requests,
         AdmitDestroy(g, m, key, r)
  PROVE  AdmissionInv'
<1> DEFINE rec == [NoOp EXCEPT !.status = "active", !.machine = m, !.kind = "destroy", !.cleanup = TRUE,
                               !.grant = g, !.seen = r.version]
<1>1. PICK o \in NextOp : op' = [op EXCEPT ![o] = rec] /\ Remember(g, m, key, r, o)
  BY DEF AdmitDestroy, FreshDestroy
<1>2. /\ mach[m].live /\ mach[m].version = r.version /\ mach[m].version < MaxVersion
      /\ Set(m, [mach[m] EXCEPT !.version = NextVersion(@)]) /\ ActiveOps(m) = {}
  BY DEF AdmitDestroy, FreshDestroy, DestroyAdmitted
<1>3. /\ o \in Ops /\ op[o].status = "none" /\ m \in 0..MaxMachines /\ 0 \in 0..MaxVersion
      /\ mach[m].version \in 0..MaxVersion
  BY Bounds DEF NextOp, AdmissionInv, TypeOK, MachineRecord, Machines
<1>5. rec \in OpRecord /\ rec.status = "active" /\ rec.machine = m /\ rec.seen = r.version
      /\ rec.cancelledOn = 0
  BY <1>2, <1>3 DEF OpRecord, NoOp
<1> HIDE DEF rec
<1>6. /\ mach' \in [Machines -> MachineRecord] /\ mach[m].state # "none"
      /\ mach'[m].version = mach[m].version + 1 /\ mach'[m].live /\ mach'[m].state = mach[m].state
      /\ \A k \in Machines \ {m} : mach'[k] = mach[k]
      /\ history' \in [Machines -> Seq(HistoryRow)]
      /\ HistoryAccounts' /\ MachineInv'
  BY <1>2, NextVersionInv
<1>7. op' \in [Ops -> OpRecord] /\ OpInv'
  BY <1>1, <1>2, <1>3, <1>5, <1>6, NewOp
<1>8. idem' \subseteq KeyRecord
  BY <1>1, <1>3, RememberType DEF AdmissionInv
<1> QED BY <1>6, <1>7, <1>8 DEF AdmitDestroy, FreshDestroy, environment, AdmissionInv, TypeOK

\* An outcome: the operation ends and its live machine becomes new, or stays.
LEMMA OutcomeInv ==
  ASSUME AdmissionInv, NEW o \in Ops, op[o].status = "active",
         NEW status \in {"succeeded", "failed", "cancelled"}, Ends(o, status), UNCHANGED environment,
         \/ UNCHANGED <<mach, history>>
         \/ \E new \in MachineRecord :
              /\ Set(op[o].machine, new) /\ new.state # "none"
              /\ new.version = mach[op[o].machine].version + 1
  PROVE  AdmissionInv'
<1>1. PICK m \in Machines : op[o].machine = m /\ m # 0 /\ mach[m].live
  BY Bounds DEF AdmissionInv, TypeOK, OpInv, OpRecord, Machines
<1>2. mach[m].state # "none" /\ mach[m].version \in Nat
  BY <1>1 DEF AdmissionInv, MachineInv, TypeOK, MachineRecord
<1>3. /\ mach' \in [Machines -> MachineRecord]
      /\ mach'[m].state # "none" /\ mach'[m].version >= mach[m].version
      /\ \A k \in Machines \ {m} : mach'[k] = mach[k]
      /\ history' \in [Machines -> Seq(HistoryRow)]
      /\ HistoryAccounts' /\ MachineInv'
  <2>1. CASE UNCHANGED <<mach, history>>
    BY <1>2, <2>1 DEF AdmissionInv, TypeOK, HistoryAccounts, MachineInv
  <2>2. CASE ~UNCHANGED <<mach, history>>
    <3>1. PICK new \in MachineRecord :
            Set(m, new) /\ new.state # "none" /\ new.version = mach[m].version + 1
      BY <1>1, <2>2
    <3> QED BY <1>1, <1>2, <3>1, SetHistory
  <2> QED BY <2>1, <2>2
<1>4. op' \in [Ops -> OpRecord] /\ OpInv'
  BY <1>1, <1>3, OpEnds DEF Ends
<1> QED BY <1>3, <1>4 DEF Ends, environment, AdmissionInv, TypeOK

LEMMA CompleteInv ==
  ASSUME AdmissionInv, NEW o \in Ops, NEW power \in {"on", "off"}, Complete(o, power)
  PROVE  AdmissionInv'
<1> DEFINE m == op[o].machine
           size == IF op[o].kind \in {"create", "resize"} THEN op[o].size ELSE mach[m].size
           price == IF op[o].kind \in {"create", "resize"} THEN op[o].offer ELSE mach[m].price
           new == [mach[m] EXCEPT !.state = power, !.server = TRUE, !.version = @ + 1,
                                  !.size = size, !.price = price]
<1>1. op[o].status = "active" /\ Ends(o, "succeeded") /\ UNCHANGED environment
      /\ mach[m].version < MaxVersion /\ Set(m, new)
  BY DEF Complete
<1>2. op[o] \in OpRecord /\ m \in Machines
  BY <1>1, Bounds DEF AdmissionInv, TypeOK, OpInv, OpRecord, Machines
<1>3. mach[m] \in MachineRecord
  BY <1>2 DEF AdmissionInv, TypeOK
<1>4. size \in Sizes \cup {0} /\ price \in Prices \cup {0} /\ mach[m].version + 1 \in 0..MaxVersion
  BY <1>1, <1>2, <1>3, Bounds DEF OpRecord, MachineRecord
<1> HIDE DEF size, price
<1>5. new \in MachineRecord /\ new.state # "none" /\ new.version = mach[m].version + 1
  BY <1>3, <1>4 DEF MachineRecord
<1> HIDE DEF new
<1> QED BY <1>1, <1>5, OutcomeInv

LEMMA FailInv ==
  ASSUME AdmissionInv, NEW o \in Ops, NEW absent \in BOOLEAN, Fail(o, absent)
  PROVE  AdmissionInv'
<1> DEFINE m == op[o].machine
           new == [mach[m] EXCEPT !.state = "failed", !.version = @ + 1, !.live = ~absent]
<1>1. op[o].status = "active" /\ Ends(o, "failed") /\ UNCHANGED environment
  BY DEF Fail
<1>2. CASE UNCHANGED <<mach, history>>
  BY <1>1, <1>2, OutcomeInv
<1>3. CASE mach[m].version < MaxVersion /\ Set(m, new)
  <2>1. m \in Machines
    BY <1>1, Bounds DEF AdmissionInv, TypeOK, OpInv, OpRecord, Machines
  <2>2. mach[m] \in MachineRecord
    BY <2>1 DEF AdmissionInv, TypeOK
  <2>3. mach[m].version + 1 \in 0..MaxVersion
    BY <1>3, <2>2, Bounds DEF MachineRecord
  <2>4. new \in MachineRecord /\ new.state # "none" /\ new.version = mach[m].version + 1
    BY <2>2, <2>3 DEF MachineRecord
  <2> HIDE DEF new
  <2> QED BY <1>1, <1>3, <2>4, OutcomeInv
<1> QED BY <1>2, <1>3 DEF Fail

LEMMA FinishInv ==
  ASSUME AdmissionInv, NEW o \in Ops, FinishCleanup(o)
  PROVE  AdmissionInv'
<1> DEFINE m == op[o].machine
           new == [mach[m] EXCEPT !.state = "destroyed", !.version = @ + 1, !.live = FALSE]
           status == IF op[o].kind = "create" THEN "cancelled" ELSE "succeeded"
<1>1. op[o].status = "active" /\ Ends(o, status) /\ UNCHANGED environment
      /\ mach[m].version < MaxVersion /\ Set(m, new)
  BY DEF FinishCleanup
<1>2. m \in Machines
  BY <1>1, Bounds DEF AdmissionInv, TypeOK, OpInv, OpRecord, Machines
<1>3. mach[m] \in MachineRecord
  BY <1>2 DEF AdmissionInv, TypeOK
<1>4. mach[m].version + 1 \in 0..MaxVersion
  BY <1>1, <1>3, Bounds DEF MachineRecord
<1>5. new \in MachineRecord /\ new.state # "none" /\ new.version = mach[m].version + 1
  BY <1>3, <1>4 DEF MachineRecord
<1>6. status \in {"succeeded", "failed", "cancelled"}
  OBVIOUS
<1> HIDE DEF new, status
<1> QED BY <1>1, <1>5, <1>6, OutcomeInv

\* The catalog, the credentials and the deployment touch no request.
LEMMA EnvironmentInv ==
  ASSUME AdmissionInv, UNCHANGED requestVars, limits' \in Deployments,
         catalog' \in Catalogs \cup {NoCatalog}, revoked' \subseteq Grants
  PROVE  AdmissionInv'
BY DEF requestVars, AdmissionInv, TypeOK, MachineInv, OpInv, HistoryAccounts

LEMMA NextInv == AdmissionInv /\ [Next]_vars => AdmissionInv'
<1> SUFFICES ASSUME AdmissionInv, [Next]_vars PROVE AdmissionInv'
  OBVIOUS
<1>0. limits \in Deployments /\ catalog \in Catalogs \cup {NoCatalog} /\ revoked \subseteq Grants
  BY DEF AdmissionInv, TypeOK
<1>1. CASE UNCHANGED vars
  BY <1>0, <1>1, EnvironmentInv DEF vars, requestVars
<1>2. ASSUME NEW c \in Catalogs, RefreshCatalog(c) PROVE AdmissionInv'
  BY <1>0, <1>2, EnvironmentInv DEF RefreshCatalog
<1>3. CASE DropCatalog
  BY <1>0, <1>3, EnvironmentInv DEF DropCatalog
<1>4. ASSUME NEW g \in Grants, Revoke(g) PROVE AdmissionInv'
  BY <1>0, <1>4, EnvironmentInv DEF Revoke
<1>5. ASSUME NEW l \in Deployments, Restart(l) PROVE AdmissionInv'
  BY <1>0, <1>5, EnvironmentInv DEF Restart
<1>6. ASSUME NEW g \in Grants, NEW key \in Keys, NEW m \in Machines, NEW r \in Requests, AdmitAny(g, key, m, r)
      PROVE  AdmissionInv'
  BY <1>6, CreateInv, ActionInv, JoinInv, TakeOverInv, DestroyInv DEF AdmitAny
<1> QED BY <1>1, <1>2, <1>3, <1>4, <1>5, <1>6, CompleteInv, FailInv, FinishInv DEF Next

-----------------------------------------------------------------------------
(* The theorems                                                             *)

\* The inductive invariant: types, machines, operations and the history.
THEOREM AdmissionCorrect == Spec => []AdmissionInv
<1> QED BY InitInv, NextInv, PTL DEF Spec

\* The rows that record_allocation_reservation writes account for what every
\* machine reserves, through any sequence of admissions and outcomes: the trigger
\* sees each change of price or of life, and there is one release, the last row.
THEOREM HistoryTrue == Spec => []HistoryAccounts
<1>1. AdmissionInv => HistoryAccounts
  BY DEF AdmissionInv
<1> QED BY <1>1, AdmissionCorrect, PTL

\* Each version of a machine admits at most one request that changes it, be it
\* an action, a destroy or a destroy that takes a create over.
THEOREM VersionChangedOnce == Spec => []OneChangePerVersion
<1>1. AdmissionInv => OneChangePerVersion
  <2> SUFFICES ASSUME AdmissionInv, NEW m \in Machines, NEW v \in 1..mach[m].version
               PROVE  Cardinality({o \in Ops : op[o].machine = m /\ op[o].seen = v}
                        \cup {MaxOps + o : o \in {p \in Ops : op[p].machine = m /\ op[p].cancelledOn = v}}) <= 1
    BY DEF OneChangePerVersion
  <2> DEFINE A == {o \in Ops : op[o].machine = m /\ op[o].seen = v}
             P == {o \in Ops : op[o].machine = m /\ op[o].cancelledOn = v}
             S == A \cup {MaxOps + o : o \in P}
  <2>1. m # 0 /\ v # 0 /\ MaxOps \in Nat /\ Ops \subseteq Nat
    BY Bounds, AdmissionAssumption
  <2>2. \A o, p \in A : o = p
    BY <2>1 DEF AdmissionInv, OpInv
  <2>3. \A o, p \in P : o = p
    BY <2>1 DEF AdmissionInv, OpInv
  <2>4. A = {} \/ P = {}
    <3>1. ASSUME NEW o \in A, NEW p \in P PROVE FALSE
      <4>1. o \in Ops /\ p \in Ops /\ op[o].machine = m /\ op[p].machine = m /\ op[o].seen = v
            /\ op[p].cancelledOn = v
        OBVIOUS
      <4> QED BY <2>1, <4>1 DEF AdmissionInv, OpInv
    <3> QED BY <3>1
  <2> HIDE DEF A, P
  <2>5. S = {} \/ \E x : S = {x}
    <3>1. CASE A = {} /\ P = {}
      BY <3>1
    <3>2. ASSUME NEW x \in A PROVE S = {x}
      BY <2>2, <2>4, <3>2
    <3>3. ASSUME NEW x \in P PROVE S = {MaxOps + x}
      BY <2>3, <2>4, <3>3
    <3> QED BY <3>1, <3>2, <3>3
  <2>6. Cardinality(S) <= 1
    <3> HIDE DEF S
    <3>1. CASE S = {}
      BY <3>1, FS_EmptySet
    <3>2. ASSUME NEW x, S = {x} PROVE Cardinality(S) = 1
      BY <3>2, FS_Singleton
    <3>3. S # {} => Cardinality(S) = 1
      BY <2>5, <3>2
    <3> QED BY <3>1, <3>3
  <2> QED BY <2>6 DEF A, P
<1> QED BY <1>1, AdmissionCorrect, PTL

\* A request key stands for one request and one operation for good, whichever
\* credential of the account repeats it and however much later.
THEOREM KeyStandsForOne == Spec => []OneOperationPerKey
<1>1. Init => OneOperationPerKey
  BY DEF Init, OneOperationPerKey
<1>2. ASSUME OneOperationPerKey, NEW g, NEW scope, NEW key, NEW r, NEW o,
             Previous(g, scope, key, r) = {}, Remember(g, scope, key, r, o)
      PROVE  OneOperationPerKey'
  <2> DEFINE new == [account |-> Owner[g], scope |-> scope, key |-> key, request |-> r, op |-> o]
  <2>1. idem' = idem \cup {new} /\ new.account = Owner[g] /\ new.scope = scope /\ new.key = key
    BY <1>2 DEF Remember
  <2>2. \A x \in idem : ~(x.account = new.account /\ x.scope = new.scope /\ x.key = new.key)
    BY <1>2, <2>1 DEF Previous
  <2> HIDE DEF new
  <2> QED BY <1>2, <2>1, <2>2 DEF OneOperationPerKey
<1>3. OneOperationPerKey /\ [Next]_vars => OneOperationPerKey'
  <2> SUFFICES ASSUME OneOperationPerKey, [Next]_vars PROVE OneOperationPerKey'
    OBVIOUS
  <2>1. CASE idem' = idem
    BY <2>1 DEF OneOperationPerKey
  <2>2. ASSUME NEW g \in Grants, NEW key \in Keys, NEW m \in Machines, NEW r \in Requests, AdmitAny(g, key, m, r)
        PROVE  OneOperationPerKey'
    <3>1. CASE AdmitCreate(g, key, r)
      BY <1>2, <3>1 DEF AdmitCreate
    <3>2. CASE AdmitAction(g, m, key, r)
      BY <1>2, <3>2 DEF AdmitAction
    <3>3. CASE JoinCleanup(g, m, key, r)
      BY <1>2, <3>3 DEF JoinCleanup, DestroyAdmitted
    <3>4. CASE TakeOver(g, m, key, r)
      BY <1>2, <3>4 DEF TakeOver, DestroyAdmitted
    <3>5. CASE AdmitDestroy(g, m, key, r)
      BY <1>2, <3>5 DEF AdmitDestroy, FreshDestroy, DestroyAdmitted
    <3> QED BY <2>2, <3>1, <3>2, <3>3, <3>4, <3>5 DEF AdmitAny
  <2> QED BY <2>1, <2>2 DEF Next, RefreshCatalog, DropCatalog, Revoke, Restart, requestVars, Complete,
                            Fail, FinishCleanup, Ends, vars
<1> QED BY <1>1, <1>3, PTL DEF Spec
-----------------------------------------------------------------------------
(* Sums. What the recursion of a sum computes is found by induction on the   *)
(* number of elements, by the least number for which it would fail.          *)

\* A non-empty set of natural numbers has a least one.
LEMMA Least ==
  ASSUME NEW T \in SUBSET Nat, T # {}
  PROVE  \E x \in T : \A y \in T : ~(y < x)
<1> DEFINE R == OpToRel(<, Nat)
<1>1. IsWellFoundedOn(R, Nat)
  BY NatLessThanWellFounded
<1>2. \A x, y \in Nat : y < x => <<y, x>> \in R
  BY DEF OpToRel
<1> HIDE DEF R
<1>3. \E x \in T : \A y \in T : ~(<<y, x>> \in R)
  BY <1>1, WFMin
<1> QED BY <1>2, <1>3

\* A set of natural numbers with 0 and every successor has them all.
LEMMA Counted ==
  ASSUME NEW T \in SUBSET Nat, 0 \in T, \A n \in T : n + 1 \in T
  PROVE  T = Nat
<1> SUFFICES ASSUME T # Nat PROVE FALSE
  OBVIOUS
<1>1. PICK x \in Nat \ T : \A y \in Nat \ T : ~(y < x)
  <2>1. Nat \ T # {} /\ Nat \ T \in SUBSET Nat
    OBVIOUS
  <2> QED BY <2>1, Least
<1>2. x # 0 /\ x - 1 \in Nat /\ x - 1 < x
  BY <1>1
<1>3. x - 1 \in T
  BY <1>1, <1>2
<1>4. (x - 1) + 1 \in T
  BY <1>3
<1> QED BY <1>1, <1>4

\* The prices in S, for the machines of f.
Sum(f, S) == MapThenSumSet(LAMBDA m : f[m].price, S)

\* The element that a sum takes first.
First(s) == CHOOSE x \in s : TRUE

\* g adds up f over the sets it is given, one element at a time.
Adds(f, g, D) == g = [s \in SUBSET D |-> IF s = {} THEN 0 ELSE f[First(s)].price + g[s \ {First(s)}]]

LEMMA FirstIn ==
  ASSUME NEW s, s # {} PROVE First(s) \in s
BY DEF First

\* Taking one out of a finite set.
LEMMA OneLess ==
  ASSUME NEW s, IsFiniteSet(s), NEW x \in s
  PROVE  /\ IsFiniteSet(s \ {x}) /\ Cardinality(s) \in Nat /\ Cardinality(s \ {x}) \in Nat
         /\ Cardinality(s \ {x}) = Cardinality(s) - 1
BY FS_RemoveElement, FS_CardinalityType

\* There is one such function, and no other.
LEMMA AddsExists ==
  ASSUME NEW f, NEW D, IsFiniteSet(D)
  PROVE  \E g : Adds(f, g, D)
<1> DEFINE Val(g, s) == IF s = {} THEN 0 ELSE f[First(s)].price + g[s \ {First(s)}]
           Up(n, g) == \A s \in SUBSET D : Cardinality(s) <= n => g[s] = Val(g, s)
           T == {n \in Nat : \E g : g = [s \in SUBSET D |-> g[s]] /\ Up(n, g)}
<1>1. \A s \in SUBSET D : IsFiniteSet(s) /\ Cardinality(s) \in Nat /\ (Cardinality(s) = 0 <=> s = {})
  BY FS_Subset, FS_CardinalityType, FS_EmptySet
<1>2. \A s \in SUBSET D : s # {} => /\ s \ {First(s)} \in SUBSET D
                                    /\ Cardinality(s \ {First(s)}) = Cardinality(s) - 1
  BY <1>1, FirstIn, OneLess
<1>3. 0 \in T
  <2> DEFINE g == [s \in SUBSET D |-> 0]
  <2>1. g = [s \in SUBSET D |-> g[s]]
    OBVIOUS
  <2>2. Up(0, g)
    BY <1>1
  <2> HIDE DEF g, Up
  <2> QED BY <2>1, <2>2
<1>4. ASSUME NEW n \in T PROVE n + 1 \in T
  <2>1. n \in Nat
    OBVIOUS
  <2>2. PICK g : g = [s \in SUBSET D |-> g[s]] /\ Up(n, g)
    OBVIOUS
  <2> DEFINE h == [s \in SUBSET D |-> IF Cardinality(s) <= n THEN g[s] ELSE Val(g, s)]
  <2>3. h = [s \in SUBSET D |-> h[s]]
    OBVIOUS
  <2>4. ASSUME NEW s \in SUBSET D, Cardinality(s) <= n + 1
        PROVE  h[s] = Val(h, s)
    <3>1. h[s] = Val(g, s)
      BY <2>2
    <3>2. CASE s = {}
      BY <3>1, <3>2
    <3>3. CASE s # {}
      <4>1. s \ {First(s)} \in SUBSET D /\ Cardinality(s \ {First(s)}) <= n
        BY <1>1, <1>2, <2>1, <2>4, <3>3
      <4>2. h[s \ {First(s)}] = g[s \ {First(s)}]
        BY <4>1
      <4> HIDE DEF h
      <4> QED BY <3>1, <3>3, <4>2
    <3> QED BY <3>2, <3>3
  <2>5. Up(n + 1, h)
    <3> HIDE DEF h, Val
    <3> QED BY <2>4
  <2> HIDE DEF h, Up
  <2> QED BY <2>1, <2>3, <2>5
<1>5. T = Nat
  <2> HIDE DEF T
  <2>1. T \in SUBSET Nat
    BY DEF T
  <2> QED BY <1>3, <1>4, <2>1, Counted
<1>6. Cardinality(D) \in T
  <2> HIDE DEF T
  <2> QED BY <1>5, FS_CardinalityType
<1>7. PICK g : g = [s \in SUBSET D |-> g[s]] /\ Up(Cardinality(D), g)
  BY <1>6
<1>8. \A s \in SUBSET D : Cardinality(s) <= Cardinality(D)
  BY FS_Subset
<1>9. \A s \in SUBSET D : g[s] = Val(g, s)
  BY <1>7, <1>8
<1>10. g = [s \in SUBSET D |-> Val(g, s)]
  <2> HIDE DEF Val
  <2> QED BY <1>7, <1>9
<1> QED BY <1>10 DEF Adds

\* What satisfies the equation adds up the same over every smaller set.
LEMMA AddsUnique ==
  ASSUME NEW f, NEW D, IsFiniteSet(D), NEW E \in SUBSET D, NEW g, NEW h, Adds(f, g, D), Adds(f, h, E)
  PROVE  \A s \in SUBSET E : g[s] = h[s]
<1> DEFINE T == {n \in Nat : \A s \in SUBSET E : Cardinality(s) = n => g[s] = h[s]}
<1>1. \A s \in SUBSET E : IsFiniteSet(s) /\ Cardinality(s) \in Nat /\ (Cardinality(s) = 0 <=> s = {})
  BY FS_Subset, FS_CardinalityType, FS_EmptySet
<1>2. \A s \in SUBSET E : s # {} => /\ s \ {First(s)} \in SUBSET E
                                    /\ Cardinality(s \ {First(s)}) = Cardinality(s) - 1
  BY <1>1, FirstIn, OneLess
<1>3. \A s \in SUBSET E : /\ g[s] = IF s = {} THEN 0 ELSE f[First(s)].price + g[s \ {First(s)}]
                          /\ h[s] = IF s = {} THEN 0 ELSE f[First(s)].price + h[s \ {First(s)}]
  <2>1. \A s \in SUBSET D : g[s] = IF s = {} THEN 0 ELSE f[First(s)].price + g[s \ {First(s)}]
    BY DEF Adds
  <2>2. \A s \in SUBSET E : h[s] = IF s = {} THEN 0 ELSE f[First(s)].price + h[s \ {First(s)}]
    BY DEF Adds
  <2> QED BY <2>1, <2>2
<1>4. 0 \in T
  BY <1>1, <1>3
<1>5. ASSUME NEW n \in T PROVE n + 1 \in T
  <2>1. n \in Nat /\ \A s \in SUBSET E : Cardinality(s) = n => g[s] = h[s]
    OBVIOUS
  <2>2. ASSUME NEW s \in SUBSET E, Cardinality(s) = n + 1 PROVE g[s] = h[s]
    <3>1. s # {} /\ s \ {First(s)} \in SUBSET E /\ Cardinality(s \ {First(s)}) = n
      BY <1>1, <1>2, <2>1, <2>2
    <3>2. g[s \ {First(s)}] = h[s \ {First(s)}]
      BY <2>1, <3>1
    <3> QED BY <1>3, <3>1, <3>2
  <2> QED BY <2>1, <2>2
<1>6. T = Nat
  <2> HIDE DEF T
  <2>1. T \in SUBSET Nat
    BY DEF T
  <2> QED BY <1>4, <1>5, <2>1, Counted
<1> QED BY <1>1, <1>6

\* The sum of the model, by any function that adds up.
LEMMA SumIs ==
  ASSUME NEW f, NEW D, IsFiniteSet(D), NEW g, Adds(f, g, D), NEW E \in SUBSET D
  PROVE  Sum(f, E) = g[E]
<1>1. IsFiniteSet(E)
  BY FS_Subset
<1> DEFINE h == CHOOSE h : Adds(f, h, E)
<1>2. Adds(f, h, E)
  BY <1>1, AddsExists
<1>3. Sum(f, E) = h[E]
  BY DEF Sum, MapThenSumSet, MapThenFoldSet, Adds, First
<1> HIDE DEF h
<1> QED BY <1>2, <1>3, AddsUnique

\* The order in which a sum is added up does not matter.
LEMMA AnyOrder ==
  ASSUME NEW f, NEW D, IsFiniteSet(D), NEW g, Adds(f, g, D), \A x \in D : f[x].price \in Nat
  PROVE  \A s \in SUBSET D : /\ g[s] \in Nat
                             /\ s = {} => g[s] = 0
                             /\ \A x \in s : g[s] = f[x].price + g[s \ {x}]
<1> DEFINE Good(s) == g[s] \in Nat /\ \A x \in s : g[s] = f[x].price + g[s \ {x}]
           T == {n \in Nat : \A s \in SUBSET D : Cardinality(s) <= n => Good(s)}
<1>1. \A s \in SUBSET D : IsFiniteSet(s) /\ Cardinality(s) \in Nat /\ (Cardinality(s) = 0 <=> s = {})
  BY FS_Subset, FS_CardinalityType, FS_EmptySet
<1>2. \A s \in SUBSET D : \A x \in s : /\ s \ {x} \in SUBSET D
                                       /\ Cardinality(s \ {x}) = Cardinality(s) - 1
  BY <1>1, OneLess
<1>3. \A s \in SUBSET D : g[s] = IF s = {} THEN 0 ELSE f[First(s)].price + g[s \ {First(s)}]
  BY DEF Adds
<1>4. 0 \in T
  BY <1>1, <1>3
<1>5. ASSUME NEW n \in T PROVE n + 1 \in T
  <2>1. n \in Nat /\ \A s \in SUBSET D : Cardinality(s) <= n => Good(s)
    OBVIOUS
  <2>2. ASSUME NEW s \in SUBSET D, Cardinality(s) <= n + 1 PROVE Good(s)
    <3>1. CASE s = {}
      <4>1. g[s] = 0 /\ ~\E x : x \in s
        BY <1>3, <3>1
      <4> QED BY <4>1
    <3>2. CASE s # {}
      <4> DEFINE y == First(s)
      <4>1. y \in s /\ g[s] = f[y].price + g[s \ {y}]
        BY <1>3, <3>2, FirstIn
      <4> HIDE DEF y
      <4>2. \A x \in s : /\ s \ {x} \in SUBSET D /\ Cardinality(s \ {x}) <= n /\ Cardinality(s \ {x}) \in Nat
                         /\ f[x].price \in Nat
        BY <1>1, <1>2, <2>1, <2>2
      <4> HIDE DEF Good
      <4>3. \A x \in s : Good(s \ {x})
        BY <2>1, <4>2
      <4> USE DEF Good
      <4>4. g[s] \in Nat
        BY <4>1, <4>2, <4>3
      <4>5. ASSUME NEW x \in s, x # y PROVE g[s] = f[x].price + g[s \ {x}]
        <5>1. (s \ {x}) \ {y} = (s \ {y}) \ {x} /\ y \in s \ {x} /\ x \in s \ {y}
          BY <4>1, <4>5
        <5> DEFINE r == (s \ {y}) \ {x}
        <5>2. g[s \ {y}] = f[x].price + g[r]
          BY <4>1, <4>3, <5>1
        <5>3. g[s \ {x}] = f[y].price + g[r]
          <6>1. Good(s \ {x})
            BY <4>3
          <6>2. g[s \ {x}] = f[y].price + g[(s \ {x}) \ {y}]
            BY <5>1, <6>1
          <6> QED BY <5>1, <6>2
        <5>4. r \in SUBSET D /\ Cardinality(r) <= n
          <6>1. s \ {y} \in SUBSET D /\ Cardinality(s \ {y}) <= n /\ Cardinality(s \ {y}) \in Nat
            BY <4>1, <4>2
          <6>2. /\ (s \ {y}) \ {x} \in SUBSET D
                /\ Cardinality((s \ {y}) \ {x}) = Cardinality(s \ {y}) - 1
            BY <1>2, <5>1, <6>1
          <6> QED BY <2>1, <6>1, <6>2
        <5>5. g[r] \in Nat
          BY <2>1, <5>4
        <5> HIDE DEF r
        <5> QED BY <4>1, <4>2, <5>2, <5>3, <5>5
      <4> QED BY <4>1, <4>4, <4>5
    <3> QED BY <3>1, <3>2
  <2> QED BY <2>1, <2>2
<1>6. T = Nat
  <2> HIDE DEF T
  <2>1. T \in SUBSET Nat
    BY DEF T
  <2> QED BY <1>4, <1>5, <2>1, Counted
<1> QED BY <1>1, <1>3, <1>6

\* A sum is a number, and taking one out takes its price off.
LEMMA SumTakesOut ==
  ASSUME NEW f, NEW S, IsFiniteSet(S), \A x \in S : f[x].price \in Nat
  PROVE  /\ Sum(f, S) \in Nat
         /\ \A x \in S : Sum(f, S \ {x}) \in Nat /\ Sum(f, S) = f[x].price + Sum(f, S \ {x})
<1>1. PICK g : Adds(f, g, S)
  BY AddsExists
<1>2. \A s \in SUBSET S : Sum(f, s) = g[s]
  BY <1>1, SumIs
<1>3. \A s \in SUBSET S : g[s] \in Nat /\ \A x \in s : g[s] = f[x].price + g[s \ {x}]
  BY <1>1, AnyOrder
<1>4. S \in SUBSET S /\ \A x \in S : S \ {x} \in SUBSET S
  OBVIOUS
<1> QED BY <1>2, <1>3, <1>4

\* A sum looks at the prices in it only.
LEMMA SumReads ==
  ASSUME NEW f, NEW h, NEW S, IsFiniteSet(S), \A x \in S : f[x].price = h[x].price
  PROVE  Sum(f, S) = Sum(h, S)
<1>1. PICK g : Adds(f, g, S)
  BY AddsExists
<1>2. \A s \in SUBSET S : s # {} => f[First(s)].price = h[First(s)].price
  BY FirstIn
<1>3. [s \in SUBSET S |-> IF s = {} THEN 0 ELSE f[First(s)].price + g[s \ {First(s)}]]
      = [s \in SUBSET S |-> IF s = {} THEN 0 ELSE h[First(s)].price + g[s \ {First(s)}]]
  BY <1>2
<1>4. Adds(h, g, S)
  BY <1>1, <1>3 DEF Adds
<1> QED BY <1>1, <1>4, SumIs

-----------------------------------------------------------------------------
(* What the accounts A hold in the machine table f.                          *)

Held(f, A)  == {k \in Machines : f[k].live /\ f[k].owner \in A}
One(r, A)   == IF r.live /\ r.owner \in A THEN 1 ELSE 0
Share(r, A) == IF r.live /\ r.owner \in A THEN r.price ELSE 0

LEMMA PriceType ==
  ASSUME NEW r \in MachineRecord
  PROVE  r.price \in Nat /\ r.live \in BOOLEAN
<1>1. r.price \in Prices \cup {0}
  BY DEF MachineRecord
<1>2. \A a \in Prices \cup {0} : a \in Nat
  BY Bounds
<1>3. r.live \in BOOLEAN
  BY DEF MachineRecord
<1> QED BY <1>1, <1>2, <1>3

\* What is held is one machine and what is held besides.
LEMMA HeldWithout ==
  ASSUME NEW f \in [Machines -> MachineRecord], NEW m \in Machines, NEW A
  PROVE  LET B == Held(f, A) \ {m} IN
         /\ Cardinality(B) \in Nat /\ Sum(f, B) \in Nat /\ IsFiniteSet(B)
         /\ Cardinality(Held(f, A)) = Cardinality(B) + One(f[m], A)
         /\ Sum(f, Held(f, A)) = Sum(f, B) + Share(f[m], A)
<1> DEFINE H == Held(f, A)
           B == H \ {m}
<1>1. IsFiniteSet(Machines)
  BY AdmissionAssumption, FS_Interval DEF Machines
<1>2. H \subseteq Machines /\ IsFiniteSet(H) /\ IsFiniteSet(B)
  BY <1>1, FS_Subset DEF Held
<1>3. \A x \in Machines : f[x].price \in Nat
  BY PriceType
<1>4. /\ Sum(f, H) \in Nat
      /\ \A x \in H : Sum(f, H \ {x}) \in Nat /\ Sum(f, H) = f[x].price + Sum(f, H \ {x})
  <2> HIDE DEF H
  <2> QED BY <1>2, <1>3, SumTakesOut
<1>5. m \in H <=> f[m].live /\ f[m].owner \in A
  BY DEF Held
<1>6. Cardinality(H) \in Nat /\ Cardinality(B) \in Nat
  BY <1>2, FS_CardinalityType
<1> HIDE DEF H
<1>7. CASE m \in H
  <2>1. Cardinality(B) = Cardinality(H) - 1
    BY <1>2, <1>7, OneLess
  <2> QED BY <1>2, <1>3, <1>4, <1>5, <1>6, <1>7, <2>1 DEF One, Share, H
<1>8. CASE m \notin H
  <2>1. B = H
    BY <1>8
  <2> QED BY <1>2, <1>4, <1>5, <1>6, <1>8, <2>1 DEF One, Share, H
<1> QED BY <1>7, <1>8

\* A change of one machine changes what is held by what it holds itself.
LEMMA HeldChange ==
  ASSUME NEW f \in [Machines -> MachineRecord], NEW h \in [Machines -> MachineRecord],
         NEW m \in Machines, \A k \in Machines \ {m} : h[k] = f[k], NEW A
  PROVE  /\ Cardinality(Held(f, A)) \in Nat /\ Cardinality(Held(h, A)) \in Nat
         /\ Sum(f, Held(f, A)) \in Nat /\ Sum(h, Held(h, A)) \in Nat
         /\ Cardinality(Held(h, A)) + One(f[m], A) = Cardinality(Held(f, A)) + One(h[m], A)
         /\ Sum(h, Held(h, A)) + Share(f[m], A) = Sum(f, Held(f, A)) + Share(h[m], A)
<1> DEFINE B == Held(f, A) \ {m}
<1>1. B = Held(h, A) \ {m}
  BY DEF Held
<1>2. /\ Cardinality(B) \in Nat /\ Sum(f, B) \in Nat /\ IsFiniteSet(B)
      /\ Cardinality(Held(f, A)) = Cardinality(B) + One(f[m], A)
      /\ Sum(f, Held(f, A)) = Sum(f, B) + Share(f[m], A)
  BY HeldWithout
<1>3. /\ Sum(h, B) \in Nat
      /\ Cardinality(Held(h, A)) = Cardinality(B) + One(h[m], A)
      /\ Sum(h, Held(h, A)) = Sum(h, B) + Share(h[m], A)
  <2> DEFINE C == Held(h, A) \ {m}
  <2>1. /\ Sum(h, C) \in Nat
        /\ Cardinality(Held(h, A)) = Cardinality(C) + One(h[m], A)
        /\ Sum(h, Held(h, A)) = Sum(h, C) + Share(h[m], A)
    BY HeldWithout
  <2>2. C = B
    BY <1>1
  <2> HIDE DEF B, C
  <2> QED BY <2>1, <2>2
<1>4. Sum(f, B) = Sum(h, B)
  <2>1. \A x \in B : f[x].price = h[x].price
    BY DEF Held
  <2> HIDE DEF B
  <2> QED BY <1>2, <2>1, SumReads
<1>5. One(f[m], A) \in Nat /\ One(h[m], A) \in Nat /\ Share(f[m], A) \in Nat /\ Share(h[m], A) \in Nat
  BY PriceType DEF One, Share
<1> DEFINE c == Cardinality(B)
           u == Sum(f, B)
<1>6. /\ c \in Nat /\ u \in Nat
      /\ Cardinality(Held(f, A)) = c + One(f[m], A) /\ Sum(f, Held(f, A)) = u + Share(f[m], A)
      /\ Cardinality(Held(h, A)) = c + One(h[m], A) /\ Sum(h, Held(h, A)) = u + Share(h[m], A)
  BY <1>2, <1>3, <1>4
<1> HIDE DEF B, c, u
<1> QED BY <1>5, <1>6

Everyone == Accounts \cup {Nobody}

\* The model's counts and sums, in these terms.
LEMMA AccountsRead ==
  ASSUME mach \in [Machines -> MachineRecord], mach' \in [Machines -> MachineRecord]
  PROVE  /\ \A a : /\ CountOf(a) = Cardinality(Held(mach, {a})) /\ SpendOf(a) = Sum(mach, Held(mach, {a}))
                   /\ CountOf(a)' = Cardinality(Held(mach', {a}))
                   /\ SpendOf(a)' = Sum(mach', Held(mach', {a}))
         /\ Cardinality(Reserved) = Cardinality(Held(mach, Everyone))
         /\ Cardinality(Reserved)' = Cardinality(Held(mach', Everyone))
         /\ PriceOf(Reserved) = Sum(mach, Held(mach, Everyone))
         /\ PriceOf(Reserved)' = Sum(mach', Held(mach', Everyone))
<1>1. \A a : Owned(a) = Held(mach, {a}) /\ Owned(a)' = Held(mach', {a})
  BY DEF Owned, Held
<1>2. Reserved = Held(mach, Everyone) /\ Reserved' = Held(mach', Everyone)
  BY DEF Reserved, Held, Everyone, MachineRecord
<1>3. /\ \A a : PriceOf(Owned(a)) = Sum(mach, Owned(a)) /\ PriceOf(Owned(a))' = Sum(mach', Owned(a)')
      /\ PriceOf(Reserved) = Sum(mach, Reserved) /\ PriceOf(Reserved)' = Sum(mach', Reserved')
  BY DEF PriceOf, Sum, MapThenSumSet, MapThenFoldSet
<1> QED BY <1>1, <1>2, <1>3, Zenon DEF CountOf, SpendOf

-----------------------------------------------------------------------------
(* The limits.                                                               *)

Standing(r) == r.status = "active" /\ ~r.cleanup /\ r.kind \in {"create", "resize"}

\* What an operation under way will settle on is reserved already.
OfferInv == \A o \in Ops : Standing(op[o]) => op[o].offer <= mach[op[o].machine].price

\* The types that the arithmetic of limits needs.
LEMMA LimitFacts ==
  ASSUME TypeOK
  PROVE  /\ limits.machines \in Nat /\ limits.price \in Nat
         /\ \A a \in Accounts : AccountLimit[a].machines \in Nat /\ AccountLimit[a].price \in Nat
         /\ \A g \in Grants : Policy[g].machines \in Nat /\ Policy[g].price \in Nat /\ Owner[g] \in Accounts
BY AdmissionAssumption DEF TypeOK, Limits

\* No machine is added, and none costs more: what any accounts hold does not grow.
LEMMA NothingMore ==
  ASSUME mach \in [Machines -> MachineRecord], mach' \in [Machines -> MachineRecord],
         NEW m \in Machines, \A k \in Machines \ {m} : mach'[k] = mach[k],
         mach'[m].owner = mach[m].owner, mach'[m].live => mach[m].live,
         mach'[m].price <= mach[m].price
  PROVE  /\ WithinLimits
         /\ \A a : CountOf(a)' - CountOf(a) <= 0 /\ SpendOf(a)' - SpendOf(a) <= 0
<1>1. ASSUME NEW A
      PROVE  /\ Cardinality(Held(mach, A)) \in Nat /\ Cardinality(Held(mach', A)) \in Nat
             /\ Sum(mach, Held(mach, A)) \in Nat /\ Sum(mach', Held(mach', A)) \in Nat
             /\ Cardinality(Held(mach', A)) <= Cardinality(Held(mach, A))
             /\ Sum(mach', Held(mach', A)) <= Sum(mach, Held(mach, A))
  <2>1. /\ Cardinality(Held(mach, A)) \in Nat /\ Cardinality(Held(mach', A)) \in Nat
        /\ Sum(mach, Held(mach, A)) \in Nat /\ Sum(mach', Held(mach', A)) \in Nat
        /\ Cardinality(Held(mach', A)) + One(mach[m], A) = Cardinality(Held(mach, A)) + One(mach'[m], A)
        /\ Sum(mach', Held(mach', A)) + Share(mach[m], A) = Sum(mach, Held(mach, A)) + Share(mach'[m], A)
    BY HeldChange
  <2>2. mach[m].price \in Nat /\ mach'[m].price \in Nat
    BY PriceType
  <2>3. /\ One(mach'[m], A) \in Nat /\ One(mach[m], A) \in Nat /\ One(mach'[m], A) <= One(mach[m], A)
        /\ Share(mach'[m], A) \in Nat /\ Share(mach[m], A) \in Nat /\ Share(mach'[m], A) <= Share(mach[m], A)
    BY <2>2 DEF One, Share
  <2> QED BY <2>1, <2>3
<1>2. \A a : /\ CountOf(a) \in Nat /\ CountOf(a)' \in Nat /\ CountOf(a)' <= CountOf(a)
             /\ SpendOf(a) \in Nat /\ SpendOf(a)' \in Nat /\ SpendOf(a)' <= SpendOf(a)
  BY <1>1, AccountsRead
<1>3. /\ Cardinality(Reserved) \in Nat /\ Cardinality(Reserved)' \in Nat
      /\ Cardinality(Reserved)' <= Cardinality(Reserved)
      /\ PriceOf(Reserved) \in Nat /\ PriceOf(Reserved)' \in Nat
      /\ PriceOf(Reserved)' <= PriceOf(Reserved)
  BY <1>1, AccountsRead
<1>4. \A a : ~(CountOf(a)' > CountOf(a)) /\ ~(SpendOf(a)' > SpendOf(a))
  BY <1>2
<1>5. ~(Cardinality(Reserved)' > Cardinality(Reserved)) /\ ~(PriceOf(Reserved)' > PriceOf(Reserved))
  BY <1>3
<1>6. \A a : CountOf(a)' - CountOf(a) <= 0 /\ SpendOf(a)' - SpendOf(a) <= 0
  BY <1>2
<1> QED BY <1>4, <1>5, <1>6 DEF WithinLimits

\* assertReservation leaves room for what is reserved on it: for the account of
\* the credential and for the deployment; nobody else's reservation changes.
LEMMA RoomFor ==
  ASSUME TypeOK, mach' \in [Machines -> MachineRecord], NEW g \in Grants, NEW m \in Machines,
         \A k \in Machines \ {m} : mach'[k] = mach[k],
         NEW more \in {0, 1}, NEW price \in Int, AssertReservation(g, more, price),
         mach'[m].live, mach'[m].owner = Owner[g],
         \/ ~mach[m].live /\ more = 1 /\ mach'[m].price = price
         \/ /\ mach[m].live /\ mach[m].owner = Owner[g]
            /\ more = 0 /\ mach'[m].price = mach[m].price + price
  PROVE  /\ WithinLimits
         /\ CountOf(Owner[g])' - CountOf(Owner[g]) = more /\ CountOf(Owner[g]) + more <= Policy[g].machines
         /\ CountOf(Owner[g]) + more <= AccountLimit[Owner[g]].machines
         /\ SpendOf(Owner[g])' - SpendOf(Owner[g]) = price /\ SpendOf(Owner[g]) + price <= Policy[g].price
         /\ SpendOf(Owner[g]) + price <= AccountLimit[Owner[g]].price
         /\ CountOf(Owner[g]) \in Nat /\ SpendOf(Owner[g]) \in Nat
<1>1. mach \in [Machines -> MachineRecord] /\ Owner[g] \in Accounts
  BY LimitFacts DEF TypeOK
<1>2. mach[m].price \in Nat /\ mach'[m].price \in Nat
  BY <1>1, PriceType
<1>3. \A A : /\ Cardinality(Held(mach, A)) \in Nat /\ Cardinality(Held(mach', A)) \in Nat
             /\ Sum(mach, Held(mach, A)) \in Nat /\ Sum(mach', Held(mach', A)) \in Nat
             /\ Cardinality(Held(mach', A)) + One(mach[m], A) = Cardinality(Held(mach, A)) + One(mach'[m], A)
             /\ Sum(mach', Held(mach', A)) + Share(mach[m], A) = Sum(mach, Held(mach, A)) + Share(mach'[m], A)
  BY <1>1, HeldChange
<1>4. ASSUME NEW A, Owner[g] \in A
      PROVE  /\ Cardinality(Held(mach', A)) = Cardinality(Held(mach, A)) + more
             /\ Sum(mach', Held(mach', A)) = Sum(mach, Held(mach, A)) + price
  <2>1. CASE ~mach[m].live /\ more = 1 /\ mach'[m].price = price
    <3>1. One(mach[m], A) = 0 /\ Share(mach[m], A) = 0 /\ One(mach'[m], A) = 1 /\ Share(mach'[m], A) = price
      BY <1>4, <2>1 DEF One, Share
    <3> QED BY <1>3, <2>1, <3>1
  <2>2. CASE mach[m].live /\ mach[m].owner = Owner[g] /\ more = 0 /\ mach'[m].price = mach[m].price + price
    <3>1. /\ One(mach[m], A) = 1 /\ Share(mach[m], A) = mach[m].price
          /\ One(mach'[m], A) = 1 /\ Share(mach'[m], A) = mach[m].price + price
      BY <1>4, <2>2 DEF One, Share
    <3> QED BY <1>2, <1>3, <2>2, <3>1
  <2> QED BY <2>1, <2>2
<1>5. ASSUME NEW A, Owner[g] \notin A
      PROVE  /\ Cardinality(Held(mach', A)) = Cardinality(Held(mach, A))
             /\ Sum(mach', Held(mach', A)) = Sum(mach, Held(mach, A))
  <2>1. One(mach[m], A) = 0 /\ Share(mach[m], A) = 0 /\ One(mach'[m], A) = 0 /\ Share(mach'[m], A) = 0
    BY <1>5 DEF One, Share
  <2> QED BY <1>3, <2>1
<1>6. /\ CountOf(Owner[g]) \in Nat /\ SpendOf(Owner[g]) \in Nat
      /\ CountOf(Owner[g])' = CountOf(Owner[g]) + more
      /\ SpendOf(Owner[g])' = SpendOf(Owner[g]) + price
  <2> DEFINE a == Owner[g]
  <2>1. /\ Cardinality(Held(mach, {a})) \in Nat /\ Sum(mach, Held(mach, {a})) \in Nat
        /\ Cardinality(Held(mach', {a})) = Cardinality(Held(mach, {a})) + more
        /\ Sum(mach', Held(mach', {a})) = Sum(mach, Held(mach, {a})) + price
    BY <1>3, <1>4
  <2>2. /\ CountOf(a) = Cardinality(Held(mach, {a})) /\ SpendOf(a) = Sum(mach, Held(mach, {a}))
        /\ CountOf(a)' = Cardinality(Held(mach', {a})) /\ SpendOf(a)' = Sum(mach', Held(mach', {a}))
    BY <1>1, AccountsRead
  <2> QED BY <2>1, <2>2
<1>7. \A a \in Accounts : a # Owner[g] =>
        /\ CountOf(a) \in Nat /\ CountOf(a)' = CountOf(a)
        /\ SpendOf(a) \in Nat /\ SpendOf(a)' = SpendOf(a)
  <2> SUFFICES ASSUME NEW a \in Accounts, a # Owner[g]
               PROVE  /\ CountOf(a) \in Nat /\ CountOf(a)' = CountOf(a)
                      /\ SpendOf(a) \in Nat /\ SpendOf(a)' = SpendOf(a)
    OBVIOUS
  <2>1. /\ Cardinality(Held(mach, {a})) \in Nat /\ Sum(mach, Held(mach, {a})) \in Nat
        /\ Cardinality(Held(mach', {a})) = Cardinality(Held(mach, {a}))
        /\ Sum(mach', Held(mach', {a})) = Sum(mach, Held(mach, {a}))
    BY <1>3, <1>5
  <2>2. /\ CountOf(a) = Cardinality(Held(mach, {a})) /\ SpendOf(a) = Sum(mach, Held(mach, {a}))
        /\ CountOf(a)' = Cardinality(Held(mach', {a})) /\ SpendOf(a)' = Sum(mach', Held(mach', {a}))
    BY <1>1, AccountsRead
  <2> QED BY <2>1, <2>2
<1>8. /\ Cardinality(Reserved)' = Cardinality(Reserved) + more /\ PriceOf(Reserved)' = PriceOf(Reserved) + price
  <2>1. Owner[g] \in Everyone
    BY <1>1 DEF Everyone
  <2> QED BY <1>1, <1>4, <2>1, AccountsRead
<1>9. /\ CountOf(Owner[g]) + more <= AccountLimit[Owner[g]].machines
      /\ SpendOf(Owner[g]) + price <= AccountLimit[Owner[g]].price
      /\ CountOf(Owner[g]) + more <= Policy[g].machines /\ SpendOf(Owner[g]) + price <= Policy[g].price
      /\ Cardinality(Reserved) + more <= limits.machines /\ PriceOf(Reserved) + price <= limits.price
  BY DEF AssertReservation, Within, CountOf, SpendOf
<1>10. \A a \in Accounts :
         /\ CountOf(a)' > CountOf(a) => CountOf(a)' <= AccountLimit[a].machines
         /\ SpendOf(a)' > SpendOf(a) => SpendOf(a)' <= AccountLimit[a].price
  <2> TAKE a \in Accounts
  <2>1. CASE a = Owner[g]
    BY <1>6, <1>9, <2>1
  <2>2. CASE a # Owner[g]
    BY <1>7, <2>2
  <2> QED BY <2>1, <2>2
<1>11. CountOf(Owner[g])' - CountOf(Owner[g]) = more /\ SpendOf(Owner[g])' - SpendOf(Owner[g]) = price
  BY <1>6
<1>12. WithinLimits
  BY <1>8, <1>9, <1>10 DEF WithinLimits
<1> QED BY <1>6, <1>9, <1>11, <1>12

\* What the usage report says is left.
LEMMA LeftOver ==
  ASSUME NEW x \in Int, NEW y \in Int, NEW c \in Int
  PROVE  LET u == Max({0, Min({x, y}) - c}) IN
         u \in Int /\ 0 <= u /\ \A z \in Int : c + z <= x /\ c + z <= y => z <= u
<1>1. \E i \in {x, y} : \A j \in {x, y} : i <= j
  <2>1. CASE x <= y
    BY <2>1
  <2>2. CASE y <= x
    BY <2>2
  <2> QED BY <2>1, <2>2
<1>2. Min({x, y}) \in {x, y}
  BY <1>1 DEF Min
<1> DEFINE d == Min({x, y}) - c
<1>3. d \in Int /\ \A z \in Int : c + z <= x /\ c + z <= y => z <= d
  BY <1>2
<1> HIDE DEF d
<1>4. \E i \in {0, d} : \A j \in {0, d} : i >= j
  <2>1. CASE d <= 0
    BY <1>3, <2>1
  <2>2. CASE 0 <= d
    BY <1>3, <2>2
  <2> QED BY <1>3, <2>1, <2>2
<1>5. Max({0, d}) \in {0, d} /\ Max({0, d}) >= 0 /\ Max({0, d}) >= d
  BY <1>4 DEF Max
<1>6. Max({0, d}) \in Int
  BY <1>3, <1>5
<1>7. \A z \in Int : z <= d => z <= Max({0, d})
  BY <1>3, <1>5, <1>6
<1> QED BY <1>3, <1>5, <1>6, <1>7 DEF d

LEMMA UsageFacts ==
  ASSUME TypeOK, NEW g \in Grants, CountOf(Owner[g]) \in Nat, SpendOf(Owner[g]) \in Nat
  PROVE  /\ Usage(g).machines \in Int /\ Usage(g).price \in Int
         /\ 0 <= Usage(g).machines /\ 0 <= Usage(g).price
         /\ \A z \in Int :
              CountOf(Owner[g]) + z <= AccountLimit[Owner[g]].machines /\ CountOf(Owner[g]) + z <= Policy[g].machines
              => z <= Usage(g).machines
         /\ \A z \in Int :
              SpendOf(Owner[g]) + z <= AccountLimit[Owner[g]].price /\ SpendOf(Owner[g]) + z <= Policy[g].price
              => z <= Usage(g).price
<1> DEFINE a == Owner[g]
           Left(x, y, c) == Max({0, Min({x, y}) - c})
<1>1. /\ AccountLimit[a].machines \in Int /\ Policy[g].machines \in Int
      /\ AccountLimit[a].price \in Int /\ Policy[g].price \in Int
      /\ CountOf(a) \in Int /\ SpendOf(a) \in Int
  BY LimitFacts
<1>2. /\ Usage(g).machines = Left(AccountLimit[a].machines, Policy[g].machines, CountOf(a))
      /\ Usage(g).price = Left(AccountLimit[a].price, Policy[g].price, SpendOf(a))
  BY DEF Usage
<1>0. /\ \A x, y, c \in Int : Left(x, y, c) \in Int /\ 0 <= Left(x, y, c)
      /\ \A x, y, c, z \in Int : c + z <= x /\ c + z <= y => z <= Left(x, y, c)
  BY LeftOver
<1> HIDE DEF a, Left
<1> DEFINE u == Usage(g).machines
           v == Usage(g).price
           x == AccountLimit[a].machines
           y == Policy[g].machines
           c == CountOf(a)
           xx == AccountLimit[a].price
           yy == Policy[g].price
           cc == SpendOf(a)
<1>3. /\ u = Left(x, y, c) /\ x \in Int /\ y \in Int /\ c \in Int
      /\ v = Left(xx, yy, cc) /\ xx \in Int /\ yy \in Int /\ cc \in Int
  BY <1>1, <1>2
<1> HIDE DEF u, v, x, y, c, xx, yy, cc
<1>4. u \in Int /\ 0 <= u /\ \A z \in Int : c + z <= x /\ c + z <= y => z <= u
  BY <1>0, <1>3
<1>5. v \in Int /\ 0 <= v /\ \A z \in Int : cc + z <= xx /\ cc + z <= yy => z <= v
  BY <1>0, <1>3
<1> QED BY <1>4, <1>5 DEF a, u, v, x, y, c, xx, yy, cc

\* Only one operation of a machine is under way, and it is of a machine.
LEMMA StandingFacts ==
  ASSUME AdmissionInv
  PROVE  /\ \A p \in Ops : /\ Standing(op[p]) => op[p].machine \in Machines /\ mach[op[p].machine].state # "none"
                           /\ op[p].offer \in Nat
         /\ \A k \in Machines : mach[k].price \in Nat
<1>1. \A p \in Ops : op[p] \in OpRecord
  BY DEF AdmissionInv, TypeOK
<1>2. \A p \in Ops : op[p].machine \in Machines \cup {0}
  BY <1>1, Bounds DEF OpRecord, Machines
<1>3. \A p \in Ops : op[p].offer \in Prices \cup {0}
  BY <1>1 DEF OpRecord
<1>4. \A a \in Prices \cup {0} : a \in Nat
  BY Bounds
<1>5. \A k \in Machines : mach[k].price \in Nat
  BY PriceType DEF AdmissionInv, TypeOK
<1>6. \A p \in Ops : Standing(op[p]) =>
        op[p].machine \in Machines /\ mach[op[p].machine].state # "none"
  BY <1>2 DEF AdmissionInv, OpInv, Standing
<1> QED BY <1>3, <1>4, <1>5, <1>6

\* Operations that do not change keep an offer that is reserved, unless their
\* machine changes its price.
LEMMA OfferKept ==
  ASSUME AdmissionInv, OfferInv, NEW m \in Machines, \A k \in Machines \ {m} : mach'[k] = mach[k],
         \A p \in Ops : \/ Standing(op'[p]) => op'[p].offer <= mach'[op'[p].machine].price
                        \/ op'[p] = op[p] /\ (op[p].machine = m => mach'[m].price = mach[m].price)
  PROVE  OfferInv'
<1> SUFFICES ASSUME NEW p \in Ops, Standing(op'[p])
             PROVE  op'[p].offer <= mach'[op'[p].machine].price
  BY DEF OfferInv, Standing
<1>1. CASE op'[p] = op[p] /\ (op[p].machine = m => mach'[m].price = mach[m].price)
  <2>1. Standing(op[p]) /\ op[p].machine \in Machines
    BY <1>1, StandingFacts
  <2>2. op[p].offer <= mach[op[p].machine].price
    BY <2>1 DEF OfferInv
  <2>3. mach'[op[p].machine].price = mach[op[p].machine].price
    BY <1>1, <2>1
  <2> QED BY <1>1, <2>2, <2>3
<1>2. CASE ~(op'[p] = op[p] /\ (op[p].machine = m => mach'[m].price = mach[m].price))
  BY <1>2
<1> QED BY <1>1, <1>2

\* The dearer of two prices covers both.
LEMMA DearerCovers ==
  ASSUME NEW a \in Nat, NEW b \in Nat
  PROVE  ReservedPrice(a, b) \in Nat /\ ReservedPrice(a, b) >= a /\ ReservedPrice(a, b) >= b
<1>1. \E x \in {a, b} : \A y \in {a, b} : x >= y
  <2>1. CASE a >= b
    BY <2>1
  <2>2. CASE b >= a
    BY <2>2
  <2> QED BY <2>1, <2>2
<1>2. Max({a, b}) \in {a, b} /\ \A y \in {a, b} : Max({a, b}) >= y
  BY <1>1 DEF Max
<1> QED BY <1>2 DEF ReservedPrice

Limited == OfferInv' /\ WithinLimits /\ WithinUsage

\* The operation o of the credential g is the only one that becomes active.
LEMMA OnlyOneStarts ==
  ASSUME TypeOK, NEW g \in Grants, NEW o \in Ops, op'[o].grant = g,
         \A p \in Ops \ {o} : op'[p] = op[p],
         CountOf(Owner[g])' - CountOf(Owner[g]) <= Usage(g).machines,
         SpendOf(Owner[g])' - SpendOf(Owner[g]) <= Usage(g).price
  PROVE  WithinUsage
BY DEF WithinUsage

\* An operation that reserves nothing more starts within any report.
LEMMA FreeStart ==
  ASSUME TypeOK, mach' \in [Machines -> MachineRecord], OfferInv',
         NEW m \in Machines, \A k \in Machines \ {m} : mach'[k] = mach[k],
         mach'[m].owner = mach[m].owner, mach[m].live, mach'[m].price <= mach[m].price,
         NEW g \in Grants, NEW o \in Ops, op'[o].grant = g, \A p \in Ops \ {o} : op'[p] = op[p]
  PROVE  Limited
<1> DEFINE a == Owner[g]
<1>1. WithinLimits /\ CountOf(a)' - CountOf(a) <= 0 /\ SpendOf(a)' - SpendOf(a) <= 0
  BY NothingMore DEF TypeOK
<1>2. \A A : /\ Cardinality(Held(mach, A)) \in Nat /\ Cardinality(Held(mach', A)) \in Nat
             /\ Sum(mach, Held(mach, A)) \in Nat /\ Sum(mach', Held(mach', A)) \in Nat
  BY HeldChange DEF TypeOK
<1>3. CountOf(a) \in Nat /\ SpendOf(a) \in Nat /\ CountOf(a)' \in Nat /\ SpendOf(a)' \in Nat
  <2>1. /\ CountOf(a) = Cardinality(Held(mach, {a})) /\ SpendOf(a) = Sum(mach, Held(mach, {a}))
        /\ CountOf(a)' = Cardinality(Held(mach', {a})) /\ SpendOf(a)' = Sum(mach', Held(mach', {a}))
    BY AccountsRead DEF TypeOK
  <2> QED BY <1>2, <2>1
<1>4. 0 <= Usage(g).machines /\ 0 <= Usage(g).price /\ Usage(g).machines \in Int /\ Usage(g).price \in Int
  BY <1>3, UsageFacts
<1>5. CountOf(a)' - CountOf(a) <= Usage(g).machines /\ SpendOf(a)' - SpendOf(a) <= Usage(g).price
  BY <1>1, <1>3, <1>4
<1>6. WithinUsage
  BY <1>5, OnlyOneStarts
<1> QED BY <1>1, <1>6 DEF Limited

LEMMA CreateLimits ==
  ASSUME AdmissionInv, OfferInv, NEW g \in Grants, NEW key \in Keys, NEW r \in Requests, r.kind = "create",
         AdmitCreate(g, key, r)
  PROVE  Limited
<1> DEFINE price == catalog[r.size]
<1>0. TypeOK /\ mach' \in [Machines -> MachineRecord]
  BY CreateInv DEF AdmissionInv, TypeOK
<1>1. PICK m \in NextMachine, o \in NextOp :
        /\ mach' = [mach EXCEPT ![m] =
             [state |-> "provisioning", owner |-> Owner[g], name |-> r.name, version |-> 1, live |-> TRUE,
              server |-> FALSE, size |-> r.size, price |-> price]]
        /\ op' = [op EXCEPT ![o] = [NoOp EXCEPT
                   !.status = "active", !.machine = m, !.size = r.size, !.offer = price, !.grant = g]]
  BY DEF AdmitCreate, Set
<1>2. m \in Machines /\ o \in Ops /\ mach[m].state = "none" /\ ~mach[m].live
  BY DEF NextMachine, NextOp, AdmissionInv, MachineInv
<1>3. /\ mach'[m].owner = Owner[g] /\ mach'[m].live /\ mach'[m].price = price
      /\ \A k \in Machines \ {m} : mach'[k] = mach[k]
  BY <1>0, <1>1, <1>2 DEF TypeOK
<1>4. op'[o].machine = m /\ op'[o].offer = price /\ op'[o].grant = g /\ \A p \in Ops \ {o} : op'[p] = op[p]
  BY <1>0, <1>1, <1>2 DEF TypeOK, NoOp
<1>5. price \in Nat
  <2>1. Offered(r.size)
    BY DEF AdmitCreate
  <2> QED BY <1>0, <2>1, OfferType, Bounds
<1>6. AssertReservation(g, 1, price)
  BY DEF AdmitCreate
<1> HIDE DEF price
<1>7. /\ WithinLimits
      /\ CountOf(Owner[g])' - CountOf(Owner[g]) = 1 /\ CountOf(Owner[g]) + 1 <= Policy[g].machines
      /\ CountOf(Owner[g]) + 1 <= AccountLimit[Owner[g]].machines
      /\ SpendOf(Owner[g])' - SpendOf(Owner[g]) = price /\ SpendOf(Owner[g]) + price <= Policy[g].price
      /\ SpendOf(Owner[g]) + price <= AccountLimit[Owner[g]].price
      /\ CountOf(Owner[g]) \in Nat /\ SpendOf(Owner[g]) \in Nat
  BY <1>0, <1>2, <1>3, <1>5, <1>6, RoomFor
<1>8. 1 <= Usage(g).machines /\ price <= Usage(g).price
  BY <1>0, <1>5, <1>7, UsageFacts
<1>9. WithinUsage
  BY <1>0, <1>2, <1>4, <1>7, <1>8, OnlyOneStarts
<1>10. \A p \in Ops : \/ Standing(op'[p]) => op'[p].offer <= mach'[op'[p].machine].price
                      \/ op'[p] = op[p] /\ (op[p].machine = m => mach'[m].price = mach[m].price)
  <2> TAKE p \in Ops
  <2>1. CASE p = o
    BY <1>3, <1>4, <1>5, <2>1
  <2>2. CASE p # o /\ ~Standing(op[p])
    BY <1>4, <2>2
  <2>3. CASE p # o /\ Standing(op[p])
    BY <1>2, <1>4, <2>3, StandingFacts
  <2> QED BY <2>1, <2>2, <2>3
<1>11. OfferInv'
  BY <1>2, <1>3, <1>10, OfferKept
<1> QED BY <1>7, <1>9, <1>11 DEF Limited

LEMMA ActionLimits ==
  ASSUME AdmissionInv, OfferInv, NEW g \in Grants, NEW m \in Machines, NEW key \in Keys, NEW r \in Requests,
         r.kind \in {"power", "resize"}, AdmitAction(g, m, key, r)
  PROVE  Limited
<1> DEFINE resize == r.kind = "resize"
           offer  == IF resize THEN catalog[r.size] ELSE 0
           price  == IF resize THEN ReservedPrice(mach[m].price, offer) ELSE mach[m].price
           new    == [mach[m] EXCEPT !.version = NextVersion(@), !.price = price]
           size   == IF resize THEN r.size ELSE 0
           rec    == [NoOp EXCEPT !.status = "active", !.machine = m, !.kind = r.kind, !.size = size,
                                  !.offer = offer, !.grant = g, !.seen = r.version]
<1>0. TypeOK /\ mach' \in [Machines -> MachineRecord] /\ mach[m] \in MachineRecord /\ mach[m].price \in Nat
  BY ActionInv, PriceType DEF AdmissionInv, TypeOK
<1>1. PICK o \in NextOp : mach' = [mach EXCEPT ![m] = new] /\ op' = [op EXCEPT ![o] = rec]
  BY DEF AdmitAction, Set
<1>2. o \in Ops /\ mach[m].owner = Owner[g] /\ mach[m].live /\ ActiveOps(m) = {}
  BY DEF AdmitAction, NextOp
<1>3. new.owner = Owner[g] /\ new.live /\ new.price = price
  BY <1>0, <1>2 DEF MachineRecord
<1>4. rec.machine = m /\ rec.offer = offer /\ rec.grant = g /\ rec.kind = r.kind
  BY DEF NoOp
<1>5. resize => /\ catalog[r.size] \in Nat
                /\ AssertReservation(g, 0, ReservedPrice(mach[m].price, catalog[r.size]) - mach[m].price)
  <2>1. resize => Offered(r.size) /\ AssertReservation(g, 0, ReservedPrice(mach[m].price, catalog[r.size]) - mach[m].price)
    BY DEF AdmitAction, ResizeAdmitted
  <2> QED BY <1>0, <2>1, OfferType, Bounds
<1>6. /\ offer \in Nat /\ price \in Nat /\ price >= mach[m].price
      /\ resize => price >= offer /\ AssertReservation(g, 0, price - mach[m].price)
      /\ ~resize => price = mach[m].price
  <2>1. CASE resize
    <3>1. offer = catalog[r.size] /\ price = ReservedPrice(mach[m].price, offer)
      BY <2>1
    <3>2. offer \in Nat /\ AssertReservation(g, 0, price - mach[m].price)
      BY <1>5, <2>1, <3>1
    <3> HIDE DEF offer, price
    <3>3. price \in Nat /\ price >= mach[m].price /\ price >= offer
      BY <1>0, <3>1, <3>2, DearerCovers
    <3> QED BY <2>1, <3>2, <3>3
  <2>2. CASE ~resize
    BY <1>0, <2>2
  <2> QED BY <2>1, <2>2
<1> HIDE DEF offer, price, size
<1> HIDE DEF new, rec
<1>7. mach'[m] = new /\ \A k \in Machines \ {m} : mach'[k] = mach[k]
  BY <1>0, <1>1 DEF TypeOK
<1>8. op'[o] = rec /\ \A p \in Ops \ {o} : op'[p] = op[p]
  BY <1>0, <1>1, <1>2 DEF TypeOK
<1>9. \A p \in Ops : \/ Standing(op'[p]) => op'[p].offer <= mach'[op'[p].machine].price
                     \/ op'[p] = op[p] /\ (op[p].machine = m => mach'[m].price = mach[m].price)
  <2> TAKE p \in Ops
  <2>1. CASE p = o
    <3>1. Standing(op'[p]) => resize
      BY <1>4, <1>8, <2>1 DEF Standing
    <3> QED BY <1>3, <1>4, <1>6, <1>7, <1>8, <2>1, <3>1
  <2>2. CASE p # o /\ ~Standing(op[p])
    BY <1>8, <2>2
  <2>3. CASE p # o /\ Standing(op[p])
    <3>1. op[p].machine # m
      BY <1>2, <2>3 DEF ActiveOps, Standing
    <3> QED BY <1>8, <2>3, <3>1
  <2> QED BY <2>1, <2>2, <2>3
<1>10. OfferInv'
  BY <1>7, <1>9, OfferKept
<1>11. CASE resize
  <2> DEFINE more == price - mach[m].price
  <2>1. more \in Int /\ AssertReservation(g, 0, more) /\ mach'[m].price = mach[m].price + more
    BY <1>0, <1>3, <1>6, <1>7, <1>11
  <2> HIDE DEF more
  <2>2. /\ WithinLimits
        /\ CountOf(Owner[g])' - CountOf(Owner[g]) = 0 /\ CountOf(Owner[g]) + 0 <= Policy[g].machines
        /\ CountOf(Owner[g]) + 0 <= AccountLimit[Owner[g]].machines
        /\ SpendOf(Owner[g])' - SpendOf(Owner[g]) = more /\ SpendOf(Owner[g]) + more <= Policy[g].price
        /\ SpendOf(Owner[g]) + more <= AccountLimit[Owner[g]].price
        /\ CountOf(Owner[g]) \in Nat /\ SpendOf(Owner[g]) \in Nat
    BY <1>0, <1>2, <1>3, <1>7, <2>1, RoomFor
  <2>3. 0 <= Usage(g).machines /\ more <= Usage(g).price
    BY <1>0, <2>1, <2>2, UsageFacts
  <2>4. WithinUsage
    BY <1>0, <1>2, <1>4, <1>8, <2>2, <2>3, OnlyOneStarts
  <2> QED BY <1>10, <2>2, <2>4 DEF Limited
<1>12. CASE ~resize
  <2>1. mach'[m].price <= mach[m].price /\ mach'[m].owner = mach[m].owner /\ mach[m].live
    BY <1>0, <1>2, <1>3, <1>6, <1>7, <1>12
  <2> QED BY <1>0, <1>2, <1>4, <1>7, <1>8, <1>10, <2>1, FreeStart
<1> QED BY <1>11, <1>12

LEMMA TakeOverLimits ==
  ASSUME AdmissionInv, OfferInv, NEW g \in Grants, NEW m \in Machines, NEW key \in Keys, NEW r \in Requests,
         TakeOver(g, m, key, r)
  PROVE  Limited
<1>0. /\ TypeOK /\ mach' \in [Machines -> MachineRecord] /\ mach[m] \in MachineRecord /\ mach[m].price \in Nat
      /\ op \in [Ops -> OpRecord]
  BY TakeOverInv, PriceType DEF AdmissionInv, TypeOK
<1>1. PICK o \in ActiveOps(m) : op' = [op EXCEPT ![o].cleanup = TRUE, ![o].cancelledOn = r.version]
  BY DEF TakeOver
<1>2. mach' = [mach EXCEPT ![m] = [mach[m] EXCEPT !.version = NextVersion(@)]]
  BY DEF TakeOver, Set
<1>3. /\ \A k \in Machines \ {m} : mach'[k] = mach[k]
      /\ mach'[m].owner = mach[m].owner /\ mach'[m].price = mach[m].price /\ mach'[m].live = mach[m].live
  BY <1>0, <1>2 DEF TypeOK, MachineRecord
<1>4. o \in Ops /\ op[o].status = "active"
  BY DEF ActiveOps
<1>5. op'[o].status = "active" /\ op'[o].cleanup /\ \A p \in Ops \ {o} : op'[p] = op[p]
  BY <1>0, <1>1, <1>4 DEF OpRecord
<1>6. OfferInv'
  <2>1. \A p \in Ops : \/ Standing(op'[p]) => op'[p].offer <= mach'[op'[p].machine].price
                       \/ op'[p] = op[p] /\ (op[p].machine = m => mach'[m].price = mach[m].price)
    BY <1>3, <1>5 DEF Standing
  <2> QED BY <1>3, <2>1, OfferKept
<1>7. WithinLimits
  BY <1>0, <1>3, NothingMore DEF TypeOK
<1>8. WithinUsage
  BY <1>4, <1>5 DEF WithinUsage
<1> QED BY <1>6, <1>7, <1>8 DEF Limited

LEMMA DestroyLimits ==
  ASSUME AdmissionInv, OfferInv, NEW g \in Grants, NEW m \in Machines, NEW key \in Keys, NEW r \in Requests,
         AdmitDestroy(g, m, key, r)
  PROVE  Limited
<1>0. /\ TypeOK /\ mach' \in [Machines -> MachineRecord] /\ mach[m] \in MachineRecord /\ mach[m].price \in Nat
      /\ op \in [Ops -> OpRecord] /\ mach[m].live
  BY DestroyInv, PriceType DEF AdmissionInv, TypeOK, AdmitDestroy, DestroyAdmitted
<1>1. PICK o \in NextOp : op' = [op EXCEPT ![o] = [NoOp EXCEPT
                   !.status = "active", !.machine = m, !.kind = "destroy", !.cleanup = TRUE,
                   !.grant = g, !.seen = r.version]]
  BY DEF AdmitDestroy, FreshDestroy
<1>2. mach' = [mach EXCEPT ![m] = [mach[m] EXCEPT !.version = NextVersion(@)]]
  BY DEF AdmitDestroy, FreshDestroy, Set
<1>3. /\ \A k \in Machines \ {m} : mach'[k] = mach[k]
      /\ mach'[m].owner = mach[m].owner /\ mach'[m].price = mach[m].price
  BY <1>0, <1>2 DEF TypeOK, MachineRecord
<1>4. o \in Ops /\ op'[o].cleanup /\ op'[o].grant = g /\ \A p \in Ops \ {o} : op'[p] = op[p]
  BY <1>0, <1>1 DEF NextOp, NoOp
<1>5. OfferInv'
  <2>1. \A p \in Ops : \/ Standing(op'[p]) => op'[p].offer <= mach'[op'[p].machine].price
                       \/ op'[p] = op[p] /\ (op[p].machine = m => mach'[m].price = mach[m].price)
    BY <1>3, <1>4 DEF Standing
  <2> QED BY <1>3, <2>1, OfferKept
<1>6. mach'[m].price <= mach[m].price
  BY <1>0, <1>3
<1> QED BY <1>0, <1>3, <1>4, <1>5, <1>6, FreeStart

\* An outcome reserves nothing more: the machine keeps its price, or settles on
\* an offer that is reserved.
LEMMA OutcomeLimits ==
  ASSUME AdmissionInv, OfferInv, AdmissionInv', NEW o \in Ops, op[o].status = "active",
         NEW status \in {"succeeded", "failed", "cancelled"}, op' = [op EXCEPT ![o].status = status],
         \/ mach' = mach
         \/ \E new \in MachineRecord :
              /\ mach' = [mach EXCEPT ![op[o].machine] = new]
              /\ new.owner = mach[op[o].machine].owner /\ (new.live => mach[op[o].machine].live)
              /\ \/ new.price = mach[op[o].machine].price
                 \/ Standing(op[o]) /\ new.price = op[o].offer
  PROVE  Limited
<1> DEFINE m == op[o].machine
<1>0. /\ TypeOK /\ mach' \in [Machines -> MachineRecord] /\ mach \in [Machines -> MachineRecord]
      /\ op \in [Ops -> OpRecord]
  BY DEF AdmissionInv, TypeOK
<1>1. m \in Machines
  BY Bounds DEF AdmissionInv, TypeOK, OpInv, OpRecord, Machines
<1>2. \A p \in Ops \ {o} : op'[p] = op[p] /\ (op[p].status = "active" => op[p].machine # m)
  BY <1>0 DEF AdmissionInv, OpInv
<1>3. op'[o].status = status /\ mach[m].price \in Nat
  BY <1>0, <1>1, PriceType DEF OpRecord
<1>4. Standing(op[o]) => op[o].offer <= mach[m].price
  BY DEF OfferInv
<1> HIDE DEF m
<1>5. /\ \A k \in Machines \ {m} : mach'[k] = mach[k]
      /\ mach'[m].owner = mach[m].owner /\ (mach'[m].live => mach[m].live)
      /\ mach'[m].price <= mach[m].price
  <2>1. CASE mach' = mach
    BY <1>3, <2>1
  <2>2. CASE mach' # mach
    <3>1. PICK new \in MachineRecord :
            /\ mach' = [mach EXCEPT ![m] = new]
            /\ new.owner = mach[m].owner /\ (new.live => mach[m].live)
            /\ \/ new.price = mach[m].price
               \/ Standing(op[o]) /\ new.price = op[o].offer
      BY <2>2 DEF m
    <3>2. mach'[m] = new /\ \A k \in Machines \ {m} : mach'[k] = mach[k]
      BY <1>0, <1>1, <3>1
    <3> QED BY <1>3, <1>4, <3>1, <3>2
  <2> QED BY <2>1, <2>2
<1>6. WithinLimits
  BY <1>0, <1>1, <1>5, NothingMore
<1>7. WithinUsage
  BY <1>2, <1>3 DEF WithinUsage
<1>8. OfferInv'
  <2>1. \A p \in Ops : \/ Standing(op'[p]) => op'[p].offer <= mach'[op'[p].machine].price
                       \/ op'[p] = op[p] /\ (op[p].machine = m => mach'[m].price = mach[m].price)
    BY <1>2, <1>3 DEF Standing
  <2> QED BY <1>1, <1>5, <2>1, OfferKept
<1> QED BY <1>6, <1>7, <1>8 DEF Limited

LEMMA CompleteLimits ==
  ASSUME AdmissionInv, OfferInv, NEW o \in Ops, NEW power \in {"on", "off"}, Complete(o, power)
  PROVE  Limited
<1> DEFINE m == op[o].machine
           settles == op[o].kind \in {"create", "resize"}
           size == IF settles THEN op[o].size ELSE mach[m].size
           price == IF settles THEN op[o].offer ELSE mach[m].price
           new == [mach[m] EXCEPT !.state = power, !.server = TRUE, !.version = @ + 1,
                                  !.size = size, !.price = price]
<1>1. op[o].status = "active" /\ ~op[o].cleanup /\ op' = [op EXCEPT ![o].status = "succeeded"]
      /\ mach' = [mach EXCEPT ![m] = new]
  BY DEF Complete, Ends, Set
<1>2. AdmissionInv'
  BY CompleteInv
<1>3. m \in Machines /\ mach[m] \in MachineRecord
  BY <1>1, Bounds DEF AdmissionInv, TypeOK, OpInv, OpRecord, Machines
<1>4. mach' \in [Machines -> MachineRecord] /\ mach'[m] = new
  BY <1>1, <1>2, <1>3 DEF AdmissionInv, TypeOK
<1>5. new \in MachineRecord
  BY <1>3, <1>4
<1>6. new.owner = mach[m].owner /\ new.live = mach[m].live /\ new.price = price
  BY <1>3 DEF MachineRecord
<1>7. price = mach[m].price \/ (Standing(op[o]) /\ price = op[o].offer)
  BY <1>1 DEF Standing
<1> HIDE DEF new, price
<1> QED BY <1>1, <1>2, <1>5, <1>6, <1>7, OutcomeLimits

LEMMA FailLimits ==
  ASSUME AdmissionInv, OfferInv, NEW o \in Ops, NEW absent \in BOOLEAN, Fail(o, absent)
  PROVE  Limited
<1> DEFINE m == op[o].machine
           new == [mach[m] EXCEPT !.state = "failed", !.version = @ + 1, !.live = ~absent]
<1>1. op[o].status = "active" /\ op' = [op EXCEPT ![o].status = "failed"]
      /\ (mach' = mach \/ mach' = [mach EXCEPT ![m] = new])
  BY DEF Fail, Ends, Set
<1>2. AdmissionInv'
  BY FailInv
<1>3. m \in Machines /\ mach[m] \in MachineRecord /\ mach[m].live
  BY <1>1, Bounds DEF AdmissionInv, TypeOK, OpInv, OpRecord, Machines
<1>4. CASE mach' = mach
  BY <1>1, <1>2, <1>4, OutcomeLimits
<1>5. CASE mach' = [mach EXCEPT ![m] = new]
  <2>1. mach' \in [Machines -> MachineRecord] /\ mach'[m] = new
    BY <1>2, <1>3, <1>5 DEF AdmissionInv, TypeOK
  <2>2. new \in MachineRecord
    BY <1>3, <2>1
  <2>3. new.owner = mach[m].owner /\ new.price = mach[m].price
    BY <1>3 DEF MachineRecord
  <2> HIDE DEF new
  <2> QED BY <1>1, <1>2, <1>3, <1>5, <2>2, <2>3, OutcomeLimits
<1> QED BY <1>1, <1>4, <1>5

LEMMA FinishLimits ==
  ASSUME AdmissionInv, OfferInv, NEW o \in Ops, FinishCleanup(o)
  PROVE  Limited
<1> DEFINE m == op[o].machine
           new == [mach[m] EXCEPT !.state = "destroyed", !.version = @ + 1, !.live = FALSE]
           status == IF op[o].kind = "create" THEN "cancelled" ELSE "succeeded"
<1>1. op[o].status = "active" /\ op' = [op EXCEPT ![o].status = status]
      /\ mach' = [mach EXCEPT ![m] = new]
  BY DEF FinishCleanup, Ends, Set
<1>2. AdmissionInv'
  BY FinishInv
<1>3. m \in Machines /\ mach[m] \in MachineRecord
  BY <1>1, Bounds DEF AdmissionInv, TypeOK, OpInv, OpRecord, Machines
<1>4. mach' \in [Machines -> MachineRecord] /\ mach'[m] = new
  BY <1>1, <1>2, <1>3 DEF AdmissionInv, TypeOK
<1>5. new \in MachineRecord
  BY <1>3, <1>4
<1>6. new.owner = mach[m].owner /\ ~new.live /\ new.price = mach[m].price
  BY <1>3 DEF MachineRecord
<1>7. status \in {"succeeded", "failed", "cancelled"}
  OBVIOUS
<1> HIDE DEF new, status
<1> QED BY <1>1, <1>2, <1>5, <1>6, <1>7, OutcomeLimits

\* What does not touch machines and operations.
LEMMA NoLimits ==
  ASSUME OfferInv, TypeOK, mach' = mach, op' = op
  PROVE  Limited
<1>1. OfferInv'
  BY DEF OfferInv
<1>2. WithinUsage
  BY DEF WithinUsage
<1>3. \A A : Cardinality(Held(mach, A)) \in Nat /\ Sum(mach, Held(mach, A)) \in Nat
  <2> TAKE A
  <2>1. CASE Machines = {}
    <3>1. Held(mach, A) = {} /\ IsFiniteSet({})
      BY <2>1, FS_EmptySet DEF Held
    <3>2. Sum(mach, {}) \in Nat
      BY <3>1, SumTakesOut
    <3> QED BY <3>1, <3>2, FS_EmptySet
  <2>2. ASSUME NEW m \in Machines
        PROVE  Cardinality(Held(mach, A)) \in Nat /\ Sum(mach, Held(mach, A)) \in Nat
    BY HeldChange DEF TypeOK
  <2> QED BY <2>1, <2>2
<1>4. /\ \A a : CountOf(a)' = CountOf(a) /\ SpendOf(a)' = SpendOf(a) /\ CountOf(a) \in Nat /\ SpendOf(a) \in Nat
      /\ Cardinality(Reserved)' = Cardinality(Reserved) /\ Cardinality(Reserved) \in Nat
      /\ PriceOf(Reserved)' = PriceOf(Reserved) /\ PriceOf(Reserved) \in Nat
  BY <1>3, AccountsRead DEF TypeOK
<1>5. \A a : ~(CountOf(a)' > CountOf(a)) /\ ~(SpendOf(a)' > SpendOf(a))
  BY <1>4
<1>6. ~(Cardinality(Reserved)' > Cardinality(Reserved)) /\ ~(PriceOf(Reserved)' > PriceOf(Reserved))
  BY <1>4
<1>7. WithinLimits
  BY <1>5, <1>6 DEF WithinLimits
<1> QED BY <1>1, <1>2, <1>7 DEF Limited

LEMMA NextLimits == AdmissionInv /\ OfferInv /\ [Next]_vars => Limited
<1> SUFFICES ASSUME AdmissionInv, OfferInv, [Next]_vars PROVE Limited
  OBVIOUS
<1>1. CASE mach' = mach /\ op' = op
  BY <1>1, NoLimits DEF AdmissionInv
<1>2. ASSUME NEW g \in Grants, NEW key \in Keys, NEW m \in Machines, NEW r \in Requests, AdmitAny(g, key, m, r)
      PROVE  Limited
  <2>1. CASE JoinCleanup(g, m, key, r)
    BY <1>1, <2>1 DEF JoinCleanup
  <2> QED BY <1>2, <2>1, CreateLimits, ActionLimits, TakeOverLimits, DestroyLimits DEF AdmitAny
<1>3. CASE UNCHANGED vars
  BY <1>1, <1>3 DEF vars
<1>4. CASE \/ \E c \in Catalogs : RefreshCatalog(c)
           \/ DropCatalog
           \/ \E g \in Grants : Revoke(g)
           \/ \E l \in Deployments : Restart(l)
  BY <1>1, <1>4 DEF RefreshCatalog, DropCatalog, Revoke, Restart, requestVars
<1> QED BY <1>2, <1>3, <1>4, CompleteLimits, FailLimits, FinishLimits DEF Next

LEMMA LimitsCorrect == Spec => [](AdmissionInv /\ OfferInv)
<1>1. Init => OfferInv
  BY DEF Init, OfferInv, NoOp, Standing
<1>2. AdmissionInv /\ OfferInv /\ [Next]_vars => OfferInv'
  BY NextLimits DEF Limited
<1> QED BY <1>1, <1>2, InitInv, NextInv, PTL DEF Spec

\* No step takes what an account or the deployment reserves, in machines or in
\* price, up beyond its limits, for any number of accounts and machines: the
\* sums assertReservation reads under the lock 78131025 are those it leaves, a
\* resize reserves the dearer offer at once, and outcomes only settle for less.
THEOREM LimitsNeverPassed == Spec => NeverOverReserves
<1>1. AdmissionInv /\ OfferInv /\ [Next]_vars => [WithinLimits]_mach
  BY NextLimits DEF Limited
<1> QED BY <1>1, LimitsCorrect, PTL DEF Spec, NeverOverReserves

\* Whatever is admitted for a credential was within what readUsage reports as
\* left to it at that moment.
THEOREM ReportIsHonest == Spec => UsageCoversAdmission
<1>1. AdmissionInv /\ OfferInv /\ [Next]_vars => [WithinUsage]_op
  BY NextLimits DEF Limited
<1> QED BY <1>1, LimitsCorrect, PTL DEF Spec, UsageCoversAdmission
=============================================================================
