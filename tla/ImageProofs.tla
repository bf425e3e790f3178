----------------------------- MODULE ImageProofs -----------------------------
(***************************************************************************)
(* What an image build guarantees for every set of workers, every number   *)
(* of faults and every number of signings: a cleaned build owns nothing, a *)
(* retained release is sound and alone, and a pinned snapshot stays.       *)
(*                                                                         *)
(* None of the three is inductive: that nothing is left rests on the row   *)
(* and the effect of every role agreeing with what the provider holds or   *)
(* may still make of it (RoleInv), and that the snapshot is clean on the   *)
(* builder staying as it was once the snapshot is ordered (SnapshotInv).   *)
(***************************************************************************)
EXTENDS ImageFactory, WellFoundedInduction, TLAPS

Create(r) == <<"create", r>>
Delete(r) == <<"delete", r>>
PowerOff  == <<"power_off", "builder">>

\* An effect is there before its request is, and its submitter holds the lock.
SentInv ==
  /\ \A k \in Commands : eff[k].out = "none" <=> eff[k].res = "none"
  /\ \A k \in req : eff[k].out # "none"
  /\ \A w \in Workers, k \in Commands :
       At(w, <<"prepared", k>>) => lock = w /\ eff[k].out = "prepared" /\ Pending(k)

\* What the row and the create of a role say of the resource.
RoleAt(r) ==
  /\ eff[Create(r)].out \in {"none", "rejected"} => res[r] = "none"
  /\ eff[Create(r)].out = "answered" => res[r] # "none"
  /\ Create(r) \in req => /\ res[r] = "none" /\ Pending(Create(r))
                          /\ eff[Create(r)].out \in {"prepared", "unknown"}
  /\ row[r] # "none" => res[r] # "none"
  /\ row[r] = "absent" => res[r] = "gone"
  /\ eff[Create(r)].res \in {"confirmed", "failed"} => row[r] # "none" \/ eff[Create(r)].out = "rejected"
  /\ eff[Delete(r)].out # "none" => row[r] # "none"

RoleInv ==
  /\ \A r \in Roles : RoleAt(r)
  /\ eff[PowerOff].out # "none" => row["builder"] # "none"

\* A create about to be sent is the first of its role, in a build that may still want it.
PreparedInv ==
  \A w \in Workers, r \in Roles :
    At(w, <<"prepared", Create(r)>>) => /\ res[r] = "none" /\ Create(r) \notin req
                                        /\ state \in {"running", "cleaning"}

\* The snapshot is ordered from a disk that stays sanitized and stopped, and
\* deleted only in a build that is cleaning and that nobody boots from.
SnapshotInv ==
  /\ res["snapshot"] # "deleting"
  /\ eff[Delete("snapshot")].out # "none" => state \in {"cleaning", "cleaned"} /\ ~InUse
  /\ res["snapshot"] # "none" => clean
  /\ eff[Create("snapshot")].out # "none" => Sanitized /\ power = "off" /\ res["builder"] # "none"

SanitizeInv ==
  /\ \A w \in Workers : At(w, <<"sanitizing">>) => lock = w /\ work = "sanitizing"
  /\ Sanitized => guest = "sanitized"

\* What a release is published with.
ReleaseInv ==
  /\ lock = "enroll" => verif = "claimed"
  /\ pub # "waiting" => verif = "verified"
  /\ accessGone => keys = "gone"
  /\ state = "retained" => pub = "published" /\ accessGone

ImageInv ==
  /\ TypeOK /\ SentInv /\ RoleInv /\ PreparedInv /\ SnapshotInv /\ SanitizeInv /\ ReleaseInv
  /\ CleanedIsEmpty /\ RetainedIsSound /\ PinnedSnapshotStays

-----------------------------------------------------------------------------
(* Commands and jobs.                                                         *)

LEMMA RoleFacts ==
  /\ \A r \in Roles : /\ Create(r) \in Commands /\ Create(r)[1] = "create" /\ Create(r)[2] = r
                      /\ Delete(r) \in Commands /\ Delete(r)[1] = "delete" /\ Delete(r)[2] = r
                      /\ IsCreate(Create(r)) /\ ~IsCreate(Delete(r))
  /\ PowerOff \in Commands /\ PowerOff[1] = "power_off" /\ PowerOff[2] = "builder"
  /\ ~IsCreate(PowerOff)
  /\ {"builder", "snapshot", "verifier", "builder_ip", "verifier_ip", "access_key",
      "access_firewall"} = Roles
  /\ "snapshot" \notin Servers
BY DEF Create, Delete, PowerOff, Commands, Roles, Servers, Ips, IsCreate

LEMMA CommandFacts ==
  ASSUME NEW k \in Commands
  PROVE  /\ k[2] \in Roles
         /\ k = Create(k[2]) \/ k = Delete(k[2]) \/ k = PowerOff
         /\ IsCreate(k) <=> k = Create(k[2])
         /\ k[1] = "delete" <=> k = Delete(k[2])
         /\ k[1] \in {"create", "delete", "power_off"}
         /\ k[1] = "create" => k = Create(k[2])
BY DEF Create, Delete, PowerOff, Commands, Roles, Servers, Ips, IsCreate

LEMMA JobFacts ==
  /\ \A k \in Commands : <<"prepared", k>> \in Jobs /\ <<"effect", k>> \in Jobs
  /\ \A k, j \in Commands : <<"prepared", k>> = <<"prepared", j>> => k = j
  /\ Idle \in Jobs
  /\ {<<"builder">>, <<"sanitizing">>, <<"verifier_prepare">>, <<"verifier_check">>,
      <<"publication_prepare">>, <<"cleanup">>, <<"release">>, <<"access">>, <<"publish">>} \subseteq Jobs
BY DEF Jobs, Idle

LEMMA WorkerFacts == "free" \notin Workers /\ "enroll" \notin Workers /\ MaxSignings \in Nat /\ MaxFaults \in Nat
BY ImageFactoryAssumption, ImageProviderAssumption

-----------------------------------------------------------------------------
(* What a step of the provider does to a resource.                            *)

LEMMA NeverExists == \A r \in Roles : ~Exists(r) <=> res[r] \in {"none", "gone"}
BY DEF Exists

\* A command that is carried out changes one resource, in the way of its kind.
LEMMA ExecuteFacts ==
  ASSUME ProviderTypeOK, NEW k \in Commands, Feasible(k), Execute(k)
  PROVE  /\ res' \in [Roles -> Status] /\ power' \in {"on", "stopping", "off"}
         /\ clean' \in BOOLEAN /\ guest' = guest
         /\ \A r \in Roles : r # k[2] => res'[r] = res[r]
         /\ k = Create(k[2]) => res[k[2]] = "none" /\ res'[k[2]] \in {"creating", "ready"}
         /\ k = Delete(k[2]) => /\ res[k[2]] \notin {"none", "gone"} /\ res'[k[2]] \in {"deleting", "gone"}
                                /\ k[2] = "snapshot" => res'[k[2]] = "gone"
         /\ k = PowerOff => res' = res /\ power = "on"
         /\ k # Create("builder") /\ k # PowerOff => power' = power
         /\ clean' = IF k = Create("snapshot") THEN guest = "sanitized" /\ power = "off" ELSE clean
<1>1. k[2] \in Roles /\ res \in [Roles -> Status] /\ res' = [res EXCEPT ![k[2]] = Carried(k)]
  BY CommandFacts DEF ProviderTypeOK, Execute
<1>2. \A r \in Roles : r # k[2] => res'[r] = res[r]
  BY <1>1
<1>3. res'[k[2]] = Carried(k) /\ guest' = guest
  BY <1>1 DEF Execute
<1>4. CASE k = Create(k[2])
  <2>1. k[1] = "create" /\ k # Delete(k[2]) /\ k # PowerOff
    BY <1>1, <1>4, RoleFacts
  <2>2. res[k[2]] = "none" /\ Carried(k) \in {"creating", "ready"}
    BY <2>1 DEF Feasible, Carried
  <2>3. Carried(k) \in Status
    BY <2>2 DEF Status
  <2>4. /\ power' \in {"on", "stopping", "off"} /\ (k # Create("builder") => power' = power)
        /\ clean' = IF k = Create("snapshot") THEN guest = "sanitized" /\ power = "off" ELSE clean
    BY <1>4, <2>1 DEF Execute, Create, ProviderTypeOK
  <2> QED BY <1>1, <1>2, <1>3, <2>1, <2>2, <2>3, <2>4 DEF ProviderTypeOK
<1>5. CASE k = Delete(k[2])
  <2>1. k[1] = "delete" /\ k # Create(k[2]) /\ k # PowerOff
        /\ k # Create("builder") /\ k # Create("snapshot")
    BY <1>1, <1>5, RoleFacts
  <2>2. res[k[2]] \notin {"none", "gone"} /\ Carried(k) \in {"deleting", "gone"}
        /\ (k[2] = "snapshot" => Carried(k) = "gone")
    BY <2>1, RoleFacts DEF Feasible, Carried, Exists
  <2>3. Carried(k) \in Status
    BY <2>2 DEF Status
  <2>4. power' = power /\ clean' = clean
    BY <2>1 DEF Execute, Create
  <2> QED BY <1>1, <1>2, <1>3, <2>1, <2>2, <2>3, <2>4 DEF ProviderTypeOK
<1>6. CASE k = PowerOff
  <2>1. k[1] = "power_off" /\ k # Create(k[2]) /\ k # Delete(k[2])
        /\ k # Create("builder") /\ k # Create("snapshot") /\ k[1] # "create" /\ k[1] # "delete"
    BY <1>1, <1>6, RoleFacts
  <2>2. power = "on" /\ Carried(k) = res[k[2]]
    BY <2>1 DEF Feasible, Carried
  <2>3. power' = "stopping" /\ clean' = clean /\ res' = res
    BY <1>1, <2>1, <2>2 DEF Execute, Create
  <2> QED BY <1>6, <1>1, <1>2, <1>3, <2>1, <2>2, <2>3 DEF ProviderTypeOK
<1>7. k = Create(k[2]) \/ k = Delete(k[2]) \/ k = PowerOff
  BY CommandFacts
<1> QED BY <1>4, <1>5, <1>6, <1>7, Zenon

LEMMA FaultFacts ==
  ASSUME ProviderTypeOK, Fault
  PROVE  faults' \in 0..MaxFaults
BY WorkerFacts DEF ProviderTypeOK, Fault

\* An answer: the command was carried out, or at most left under way.
LEMMA RespondFacts ==
  ASSUME ProviderTypeOK, NEW k \in Commands, NEW answer \in Answers, Respond(k, answer)
  PROVE  /\ ProviderTypeOK' /\ guest' = guest
         /\ \/ /\ Feasible(k) /\ Execute(k) /\ req' = req /\ answer # "rejected"
            \/ /\ NotExecuted /\ req' \in {req, req \cup {k}} /\ answer # "answered"
               /\ answer = "rejected" => req' = req
<1>1. /\ guest' = guest
      /\ \/ /\ Feasible(k) /\ Execute(k) /\ req' = req /\ answer # "rejected"
         \/ /\ NotExecuted /\ req' \in {req, req \cup {k}} /\ answer # "answered"
            /\ answer = "rejected" => req' = req
  BY DEF Respond, Execute, NotExecuted
<1>2. faults' \in 0..MaxFaults
  <2>1. faults' = faults \/ Fault
    BY DEF Respond
  <2> QED BY <2>1, FaultFacts DEF ProviderTypeOK
<1>3. req' \subseteq Commands
  BY <1>1 DEF ProviderTypeOK
<1>4. res' \in [Roles -> Status] /\ power' \in {"on", "stopping", "off"} /\ clean' \in BOOLEAN
  BY <1>1, ExecuteFacts DEF NotExecuted, ProviderTypeOK
<1> QED BY <1>1, <1>2, <1>3, <1>4 DEF ProviderTypeOK

-----------------------------------------------------------------------------
(* How effects and rows are brought up to date.                               *)

LEMMA EffectFacts ==
  ASSUME JournalTypeOK, NEW k \in Commands
  PROVE  /\ eff[k] \in Effect /\ eff[k].out \in {"none", "prepared", "answered", "rejected", "unknown"}
         /\ eff[k].res \in {"none", "pending", "confirmed", "failed"}
         /\ row[k[2]] \in RowState
BY CommandFacts DEF JournalTypeOK, Effect

LEMMA ResolutionFacts ==
  ASSUME JournalTypeOK, NEW k \in Commands, Pending(k)
  PROVE  /\ Resolution(k) \in {"pending", "confirmed", "failed", "retry"}
         /\ k = Create(k[2]) => Resolution(k) = CreateResolution(k)
         /\ k = Delete(k[2]) => Resolution(k) = DeleteResolution(k)
         /\ k = PowerOff => Resolution(k) = PowerResolution(k)
<1>1. k = Create(k[2]) => k[1] = "create"
  BY RoleFacts, CommandFacts
<1>2. k = Delete(k[2]) => k[1] = "delete"
  BY RoleFacts, CommandFacts
<1>3. k = PowerOff => k[1] = "power_off"
  BY RoleFacts
<1> QED BY <1>1, <1>2, <1>3, CommandFacts DEF Resolution, CreateResolution, DeleteResolution, PowerResolution

\* Settling changes an effect only when it is pending, and never what was answered.
LEMMA SettledFacts ==
  ASSUME JournalTypeOK, NEW k \in Commands
  PROVE  /\ Settled(k) \in Effect /\ Settled(k).out = eff[k].out
         /\ ~Pending(k) => Settled(k) = eff[k]
         /\ Pending(k) => Settled(k).res = IF Resolution(k) = "retry" THEN "pending" ELSE Resolution(k)
<1>1. eff[k] \in Effect /\ eff[k].res \in {"none", "pending", "confirmed", "failed"}
  BY EffectFacts
<1>2. CASE Pending(k)
  <2>1. Resolution(k) \in {"pending", "confirmed", "failed", "retry"}
    BY <1>2, ResolutionFacts
  <2> DEFINE v == IF Resolution(k) = "retry" THEN "pending" ELSE Resolution(k)
  <2>2. v \in {"none", "pending", "confirmed", "failed"} /\ Settled(k) = [eff[k] EXCEPT !.res = v]
    BY <2>1 DEF Settled
  <2> HIDE DEF v
  <2>3. Settled(k) \in Effect /\ Settled(k).out = eff[k].out /\ Settled(k).res = v
    BY <1>1, <2>2 DEF Effect
  <2> QED BY <1>2, <2>3 DEF v
<1>3. CASE ~Pending(k)
  <2>1. Settled(k) = [eff[k] EXCEPT !.res = eff[k].res]
    BY <1>1, <1>3 DEF Settled, Resolution
  <2> QED BY <1>1, <1>3, <2>1 DEF Effect
<1> QED BY <1>2, <1>3

LEMMA RowAfterType ==
  ASSUME JournalTypeOK, NEW k \in Commands
  PROVE  RowAfter(k) \in RowState
BY EffectFacts DEF RowAfter, CreateRow, TargetRow, RowState

LEMMA CleanupType ==
  ASSUME JournalTypeOK
  PROVE  /\ CleanupEff \in [Commands -> Effect] /\ CleanupRow \in [Roles -> RowState]
         /\ \A k \in Commands : CleanupEff[k] = Settled(k)
<1>1. \A r \in Roles : RowAfter(Create(r)) \in RowState
  BY RowAfterType, RoleFacts
<1>2. CleanupRow \in [Roles -> RowState]
  BY <1>1 DEF CleanupRow, RowState, Create
<1> QED BY <1>2, SettledFacts DEF CleanupEff

\* Where the create of a role stands when it has been brought up to date: without
\* a row nothing was made or can be, and a resource that is not there any more is gone.
LEMMA RowAfterCreate ==
  ASSUME JournalTypeOK, NEW r \in Roles, RoleAt(r),
         eff[Create(r)].out = "none" <=> eff[Create(r)].res = "none"
  PROVE  LET c == Create(r) IN
         /\ RowAfter(c) # "none" => res[r] # "none"
         /\ RowAfter(c) = "absent" <=> row[r] = "absent"
         /\ row[r] # "none" => RowAfter(c) # "none"
         /\ Settled(c).res \in {"confirmed", "failed"} => RowAfter(c) # "none" \/ eff[c].out = "rejected"
         /\ Settled(c).res # "pending" /\ RowAfter(c) = "none" =>
              res[r] = "none" /\ c \notin req /\ eff[c].out \in {"none", "rejected"}
<1> DEFINE c == Create(r)
<1>1. c \in Commands /\ c[2] = r /\ IsCreate(c) /\ c = Create(c[2])
  BY RoleFacts
<1>2. CASE ~Pending(c)
  <2>1. RowAfter(c) = row[r] /\ Settled(c) = eff[c]
    BY <1>1, <1>2, SettledFacts DEF RowAfter
  <2>2. eff[c].res \in {"none", "confirmed", "failed"}
    BY <1>1, <1>2, EffectFacts DEF Pending
  <2> QED BY <1>2, <2>1, <2>2 DEF RoleAt
<1>3. CASE Pending(c)
  <2>1. RowAfter(c) = CreateRow(c) /\ Resolution(c) = CreateResolution(c)
    BY <1>1, <1>3, ResolutionFacts DEF RowAfter
  <2>2. Settled(c).res = CreateResolution(c)
    <3>1. CreateResolution(c) # "retry"
      BY DEF CreateResolution
    <3> QED BY <1>1, <1>3, <2>1, <3>1, SettledFacts
  <2>3. eff[c].out # "none"
    BY <1>3 DEF Pending
  <2>4. /\ CreateRow(c) # "none" => res[r] # "none"
        /\ CreateRow(c) = "absent" <=> row[r] = "absent"
        /\ row[r] # "none" => CreateRow(c) # "none"
    BY <1>1 DEF CreateRow, RoleAt, Exists
  <2>5. CreateRow(c) = "none" => row[r] = "none" /\ eff[c].out # "answered" /\ ~Exists(r)
    BY <1>1 DEF CreateRow
  <2>6. CreateResolution(c) \in {"confirmed", "failed"} => CreateRow(c) # "none" \/ eff[c].out = "rejected"
    BY <1>1, <2>5 DEF CreateResolution, Exists
  <2>7. CreateResolution(c) # "pending" => CreateResolution(c) \in {"confirmed", "failed"}
    BY DEF CreateResolution
  <2> HIDE DEF c
  <2> QED BY <2>1, <2>2, <2>4, <2>6, <2>7 DEF c, RoleAt
<1> QED BY <1>2, <1>3

\* A deletion or a shutdown that is pending retires the row of what is gone, no other.
LEMMA RowAfterTarget ==
  ASSUME JournalTypeOK, NEW k \in Commands, k # Create(k[2]), RoleAt(k[2]), row[k[2]] # "none"
  PROVE  /\ RowAfter(k) # "none"
         /\ RowAfter(k) = "absent" => res[k[2]] = "gone"
         /\ Pending(k) /\ TargetRow(k) = "absent" => res[k[2]] = "gone"
<1>1. ~IsCreate(k) /\ k[2] \in Roles /\ row[k[2]] \in RowState
  BY CommandFacts, EffectFacts
<1>2. res[k[2]] # "none" /\ (row[k[2]] = "absent" => res[k[2]] = "gone")
  BY DEF RoleAt
<1>3. TargetRow(k) # "none" /\ (TargetRow(k) = "absent" => res[k[2]] = "gone")
  BY <1>1, <1>2 DEF TargetRow, Exists, RowState
<1> QED BY <1>1, <1>2, <1>3 DEF RowAfter

\* The pending effects that a row of the cleanup may rest on.
RowGrounds(r) ==
  /\ RoleAt(r)
  /\ eff[Create(r)].out = "none" <=> eff[Create(r)].res = "none"
  /\ Pending(Delete(r)) => row[r] # "none"
  /\ r = "builder" /\ Pending(PowerOff) => row[r] # "none"

LEMMA RowGrounded ==
  ASSUME SentInv, RoleInv, NEW r \in Roles
  PROVE  RowGrounds(r)
<1>1. Delete(r) \in Commands /\ Create(r) \in Commands /\ PowerOff \in Commands
  BY RoleFacts
<1>2. /\ eff[Create(r)].out = "none" <=> eff[Create(r)].res = "none"
      /\ eff[Delete(r)].out = "none" <=> eff[Delete(r)].res = "none"
      /\ eff[PowerOff].out = "none" <=> eff[PowerOff].res = "none"
  BY <1>1 DEF SentInv
<1>3. RoleAt(r) /\ (eff[PowerOff].out # "none" => row["builder"] # "none")
  BY DEF RoleInv
<1>4. eff[Delete(r)].out # "none" => row[r] # "none"
  BY <1>3 DEF RoleAt
<1> QED BY <1>2, <1>3, <1>4 DEF RowGrounds, Pending

\* The row a cleanup leaves: it keeps what a row says, and once nothing is pending
\* a role without a row, or with an absent one, has nothing and will have nothing.
LEMMA CleanupRowFacts ==
  ASSUME JournalTypeOK, NEW r \in Roles, RowGrounds(r), res \in [Roles -> Status]
  PROVE  LET c == Create(r)  new == CleanupRow[r] IN
         /\ new # "none" => res[r] # "none"
         /\ new = "absent" => res[r] = "gone"
         /\ row[r] # "none" => new # "none"
         /\ Settled(c).res \in {"confirmed", "failed"} => new # "none" \/ eff[c].out = "rejected"
         /\ Settled(c).res # "pending" /\ new \in {"none", "absent"} => ~Exists(r) /\ c \notin req
<1> DEFINE c == Create(r)
           d == Delete(r)
           gone == \/ TargetRow(d) = "absent" /\ Pending(d)
                   \/ r = "builder" /\ Pending(PowerOff) /\ TargetRow(PowerOff) = "absent"
           new == CASE RowAfter(c) \in {"none", "absent"} -> RowAfter(c)
                    [] gone -> "absent"
                    [] Exists(r) -> "observed"
                    [] StillPending(c) -> RowAfter(c)
                    [] OTHER -> "absent"
<1>1. c \in Commands /\ d \in Commands /\ d[2] = r /\ d # Create(d[2]) /\ PowerOff \in Commands
      /\ PowerOff[2] = "builder" /\ PowerOff # Create(PowerOff[2])
  <2>1. d[1] = "delete" /\ PowerOff[1] = "power_off" /\ \A q \in Roles : Create(q)[1] = "create"
    BY RoleFacts
  <2>2. d \in Commands /\ d[2] = r /\ PowerOff \in Commands /\ PowerOff[2] = "builder" /\ c \in Commands
        /\ "builder" \in Roles
    BY RoleFacts
  <2> QED BY <2>1, <2>2
<1>2. CleanupRow[r] = new
  BY RoleFacts DEF CleanupRow, Create, Delete, PowerOff
<1>3. StillPending(c) <=> Settled(c).res = "pending"
  BY <1>1, CleanupType DEF StillPending
<1>4. /\ RowAfter(c) # "none" => res[r] # "none"
      /\ RowAfter(c) = "absent" <=> row[r] = "absent"
      /\ row[r] # "none" => RowAfter(c) # "none"
      /\ Settled(c).res \in {"confirmed", "failed"} => RowAfter(c) # "none" \/ eff[c].out = "rejected"
      /\ Settled(c).res # "pending" /\ RowAfter(c) = "none" => res[r] = "none" /\ c \notin req
  BY RowAfterCreate DEF RowGrounds
<1>5. gone => res[r] = "gone"
  <2>1. CASE Pending(d) /\ TargetRow(d) = "absent"
    BY <1>1, <2>1, RowAfterTarget DEF RowGrounds
  <2>2. CASE r = "builder" /\ Pending(PowerOff) /\ TargetRow(PowerOff) = "absent"
    BY <1>1, <2>2, RowAfterTarget DEF RowGrounds
  <2> QED BY <2>1, <2>2
<1>6. row[r] = "absent" => res[r] = "gone"
  BY DEF RowGrounds, RoleAt
<1>7. res[r] # "none" => c \notin req
  BY DEF RowGrounds, RoleAt
<1>8. RowAfter(c) \in RowState
  BY <1>1, RowAfterType
<1> HIDE DEF gone, c
<1>9. /\ new # "none" => res[r] # "none"
      /\ new = "absent" => res[r] = "gone"
      /\ row[r] # "none" => new # "none"
  BY <1>3, <1>4, <1>5, <1>6, <1>8 DEF Exists, RowState
<1>10. Settled(c).res \in {"confirmed", "failed"} => new # "none" \/ eff[c].out = "rejected"
  BY <1>3, <1>4, <1>8 DEF RowState
<1>11. Settled(c).res # "pending" /\ new \in {"none", "absent"} => ~Exists(r) /\ c \notin req
  <2>1. ASSUME Settled(c).res # "pending", new = "none" PROVE ~Exists(r) /\ c \notin req
    BY <1>3, <1>4, <1>8, <2>1 DEF Exists, RowState
  <2>2. ASSUME new = "absent" PROVE ~Exists(r) /\ c \notin req
    BY <1>7, <1>9, <2>2 DEF Exists
  <2> QED BY <2>1, <2>2
<1> QED BY <1>2, <1>9, <1>10, <1>11 DEF c

-----------------------------------------------------------------------------
(* Steps that leave the journal and the resources alone.                      *)

\* What such a step may do: it prepares no effect, moves the state of the build
\* only forward, and pins only a retained release.
QuietStep ==
  /\ TypeOK' /\ UNCHANGED <<res, req, power, clean, eff, row>>
  /\ \A w \in Workers, k \in Commands : job'[w] = <<"prepared", k>> => job'[w] = job[w] /\ lock' = lock
  /\ state' \in {state, "cleaning"} \/ lock = "free" \/ state = "none"
  /\ state \in {"cleaning", "cleaned"} => state' \in {"cleaning", "cleaned"}
  /\ state' = "cleaned" => state = "cleaned"
  /\ state' = "retained" => state = "retained" \/ (TemporaryCleanup /\ res["snapshot"] = "ready")
  /\ pin' = "active" => pin = "active" \/ state = "retained"
  /\ Sanitized => Sanitized'
  /\ SanitizeInv' /\ ReleaseInv'

\* No effect of a role is pending and its row says that nothing is there: so it is.
LEMMA NothingThere ==
  ASSUME SentInv, RoleInv, JournalTypeOK, NEW r \in Roles, ~Pending(Create(r)), row[r] \in {"none", "absent"}
  PROVE  ~Exists(r) /\ Create(r) \notin req
<1>1. Create(r) \in Commands /\ RoleAt(r) /\ (eff[Create(r)].out = "none" <=> eff[Create(r)].res = "none")
  BY RoleFacts DEF SentInv, RoleInv
<1>2. eff[Create(r)].res \in {"none", "confirmed", "failed"}
  BY <1>1, EffectFacts DEF Pending
<1> QED BY <1>1, <1>2 DEF RoleAt, Exists

LEMMA QuietKeeps ==
  ASSUME ImageInv, QuietStep
  PROVE  ImageInv'
<1> USE DEF ImageInv, QuietStep
<1>1. TypeOK' /\ SanitizeInv' /\ ReleaseInv'
  OBVIOUS
<1>2. SentInv'
  BY DEF SentInv, At, Pending
<1>3. RoleInv'
  BY DEF RoleInv, RoleAt, Pending
<1>4. PreparedInv'
  <2> SUFFICES ASSUME NEW w \in Workers, NEW r \in Roles, At(w, <<"prepared", Create(r)>>)'
               PROVE  /\ res'[r] = "none" /\ Create(r) \notin req' /\ state' \in {"running", "cleaning"}
    BY DEF PreparedInv
  <2>1. Create(r) \in Commands
    BY RoleFacts
  <2>2. At(w, <<"prepared", Create(r)>>) /\ lock' = lock
    BY <2>1 DEF At
  <2>3. lock = w /\ lock # "free"
    BY <2>1, <2>2, WorkerFacts DEF SentInv
  <2>4. res[r] = "none" /\ Create(r) \notin req /\ state \in {"running", "cleaning"}
    BY <2>2 DEF PreparedInv
  <2> QED BY <2>3, <2>4
<1>5. CleanedIsEmpty'
  BY DEF CleanedIsEmpty, Exists
<1>6. RetainedIsSound'
  <2> SUFFICES ASSUME state' = "retained" PROVE RetainedIsSound'
    BY DEF RetainedIsSound
  <2>1. verif' = "verified" /\ keys' = "gone"
    BY DEF ReleaseInv
  <2>2. CASE state = "retained"
    BY <2>1, <2>2 DEF RetainedIsSound, Exists
  <2>3. CASE TemporaryCleanup /\ res["snapshot"] = "ready"
    <3>1. \A r \in Roles \ {"snapshot"} : ~Exists(r) /\ Create(r) \notin req
      <4> SUFFICES ASSUME NEW r \in Roles \ {"snapshot"} PROVE ~Exists(r) /\ Create(r) \notin req
        OBVIOUS
      <4>1. ~Pending(Create(r)) /\ row[r] \in {"none", "absent"}
        BY <2>3, RoleFacts DEF TemporaryCleanup, NothingPending
      <4> QED BY <4>1, NothingThere DEF TypeOK
    <3>2. clean
      BY <2>3 DEF SnapshotInv
    <3> QED BY <2>1, <2>3, <3>1, <3>2 DEF RetainedIsSound, Exists, Create
  <2> QED BY <2>2, <2>3
<1>7. SnapshotInv'
  <2>1. state = "retained" => eff[Delete("snapshot")].out = "none"
    BY DEF SnapshotInv
  <2> QED BY <2>1 DEF SnapshotInv, InUse, Sanitized
<1>8. PinnedSnapshotStays'
  BY DEF PinnedSnapshotStays, InUse, RetainedIsSound
<1> QED BY <1>1, <1>2, <1>3, <1>4, <1>5, <1>6, <1>7, <1>8

\* The parts of the invariant that a quiet step needs.
LEMMA QuietFacts ==
  ASSUME ImageInv
  PROVE  TypeOK /\ SentInv /\ SanitizeInv /\ ReleaseInv /\ RetainedIsSound
BY DEF ImageInv

\* The operator, the customers and time.
LEMMA OperatorQuiet ==
  ASSUME ImageInv,
         \/ PrepareAccess \/ AdmitImageBuild \/ RequestImageRun \/ RequestImageCleanup
         \/ PinAllocationImage \/ SettlePin \/ TimePasses
  PROVE  QuietStep
<1> USE QuietFacts DEF QuietStep, TypeOK, ProviderTypeOK, JournalTypeOK, SanitizeInv, ReleaseInv, Outside,
        Rest, providerVars, journalVars, At, Sanitized
<1>1. CASE PrepareAccess
  BY <1>1 DEF PrepareAccess
<1>2. CASE AdmitImageBuild
  BY <1>2 DEF AdmitImageBuild
<1>3. CASE RequestImageRun
  BY <1>3 DEF RequestImageRun, Active
<1>4. CASE RequestImageCleanup
  BY <1>4 DEF RequestImageCleanup
<1>5. CASE PinAllocationImage
  BY <1>5 DEF PinAllocationImage
<1>6. CASE SettlePin
  BY <1>6 DEF SettlePin
<1>7. CASE TimePasses
  <2>1. clock' \in {"open", "late", "over"} /\ specOver' \in BOOLEAN
    BY <1>7 DEF TimePasses
  <2>2. UNCHANGED <<providerVars, journalVars, state, asked, retain, work, verif, signings, pub, keys,
                    accessGone, pin, job, lock>>
    BY <1>7 DEF TimePasses
  <2> QED BY <2>1, <2>2
<1> QED BY <1>1, <1>2, <1>3, <1>4, <1>5, <1>6, <1>7

\* The signing section of an enrollment, which holds the build lock.
LEMMA EnrollQuiet ==
  ASSUME ImageInv, EnrollClaim \/ EnrollIssue \/ EnrollFails
  PROVE  QuietStep
<1> USE QuietFacts, WorkerFacts DEF QuietStep, TypeOK, ProviderTypeOK, JournalTypeOK, SanitizeInv, ReleaseInv, Outside,
        Rest, providerVars, journalVars, buildVars, At, Sanitized, SentInv
<1>1. CASE EnrollClaim
  BY <1>1 DEF EnrollClaim
<1>2. CASE EnrollIssue
  BY <1>2 DEF EnrollIssue
<1>3. CASE EnrollFails
  BY <1>3, FaultFacts DEF EnrollFails
<1> QED BY <1>1, <1>2, <1>3

-----------------------------------------------------------------------------
(* The workers.                                                               *)

\* A set of naturals with a member has a least one, and Min is it.
LEMMA MinNat ==
  ASSUME NEW S \in SUBSET Nat, S # {}
  PROVE  Min(S) \in S
<1> DEFINE R == OpToRel(<, Nat)
<1>1. \A x, y \in Nat : <<y, x>> \in R <=> y < x
  BY DEF OpToRel
<1>2. IsWellFoundedOn(R, Nat)
  BY NatLessThanWellFounded
<1> HIDE DEF R
<1>3. PICK x \in S : \A y \in S : ~(<<y, x>> \in R)
  BY <1>2, WFMin
<1>4. ASSUME NEW y \in S PROVE x <= y
  <2>1. x \in Nat /\ y \in Nat /\ ~(<<y, x>> \in R)
    BY <1>3
  <2>2. ~(y < x)
    BY <1>1, <2>1, Zenon
  <2> QED BY <2>1, <2>2
<1> QED BY <1>4 DEF Min

\* The steps a worker does that are no commands.
Phases == {<<"builder">>, <<"verifier_prepare">>, <<"verifier_check">>, <<"publication_prepare">>}

\* The release always has a next step: publication is never done before it ends the release.
LEMMA NextStepType == NextStep \in Commands \/ NextStep \in Phases
<1> DEFINE S == {i \in DOMAIN Steps : ~StepDone(Steps[i])}
<1>1. DOMAIN Steps = 1..12 /\ Steps[12] = <<"publication_prepare">>
  BY DEF Steps
<1>2. ~StepDone(<<"publication_prepare">>)
  BY DEF StepDone
<1>3. S \in SUBSET Nat /\ 12 \in S
  BY <1>1, <1>2
<1> HIDE DEF S
<1>4. Min(S) \in S
  BY <1>3, MinNat
<1>5. Min(S) \in DOMAIN Steps
  BY <1>4 DEF S
<1>6. \A i \in DOMAIN Steps : Steps[i] \in Commands \/ Steps[i] \in Phases
  BY DEF Steps, Commands, Roles, Servers, Ips, Phases
<1> QED BY <1>5, <1>6 DEF NextStep, S

\* A job that is neither a prepared effect nor a sanitation.
Plans == {j \in Jobs : j # <<"sanitizing">> /\ \A k \in Commands : j # <<"prepared", k>>}

LEMMA PlanFacts ==
  /\ Idle \in Plans /\ Phases \subseteq Plans
  /\ {<<"cleanup">>, <<"release">>, <<"access">>, <<"publish">>} \subseteq Plans
  /\ \A k \in Commands : <<"effect", k>> \in Plans
<1> DEFINE singles == {<<"idle">>, <<"builder">>, <<"verifier_prepare">>, <<"verifier_check">>,
                       <<"publication_prepare">>, <<"cleanup">>, <<"release">>, <<"access">>, <<"publish">>}
<1>1. singles \subseteq Jobs
  BY JobFacts DEF Idle
<1>2. \A j \in singles : j[1] \notin {"sanitizing", "prepared"}
  OBVIOUS
<1>3. \A k \in Commands : <<"prepared", k>>[1] = "prepared" /\ <<"effect", k>>[1] = "effect"
  OBVIOUS
<1>4. <<"sanitizing">>[1] = "sanitizing"
  OBVIOUS
<1>5. singles \subseteq Plans
  BY <1>1, <1>2, <1>3, <1>4, Zenon DEF Plans
<1>6. ASSUME NEW k \in Commands PROVE <<"effect", k>> \in Plans
  BY <1>3, <1>4, JobFacts, Zenon DEF Plans
<1> QED BY <1>5, <1>6 DEF Idle, Phases

LEMMA GotoFacts ==
  ASSUME TypeOK, NEW w \in Workers, NEW j \in Jobs, Goto(w, j)
  PROVE  job' \in [Workers -> Jobs] /\ job'[w] = j /\ \A v \in Workers \ {w} : job'[v] = job[v]
BY DEF TypeOK, Goto

\* A worker that goes on to a plan prepares nothing and sanitizes nothing.
LEMMA GotoPlan ==
  ASSUME ImageInv, NEW w \in Workers, NEW j \in Plans, Goto(w, j),
         \/ lock' = lock
         \/ lock \notin Workers
         \/ lock = w /\ \A k \in Commands : job[w] # <<"prepared", k>>
  PROVE  /\ job' \in [Workers -> Jobs]
         /\ \A v \in Workers, k \in Commands : job'[v] = <<"prepared", k>> => job'[v] = job[v] /\ lock' = lock
         /\ \A v \in Workers : job'[v] = <<"sanitizing">> => v # w /\ job[v] = <<"sanitizing">>
<1>1. job' \in [Workers -> Jobs] /\ job'[w] = j /\ \A v \in Workers \ {w} : job'[v] = job[v]
  BY GotoFacts, QuietFacts DEF Plans
<1>2. ASSUME NEW v \in Workers, NEW k \in Commands, job'[v] = <<"prepared", k>>
      PROVE  job'[v] = job[v] /\ lock' = lock
  <2>1. v # w
    BY <1>1, <1>2 DEF Plans
  <2>2. job[v] = <<"prepared", k>>
    BY <1>1, <1>2, <2>1
  <2>3. lock = v
    BY <2>2, QuietFacts DEF SentInv, At
  <2> QED BY <1>1, <1>2, <2>1, <2>2, <2>3
<1>3. \A v \in Workers : job'[v] = <<"sanitizing">> => v # w /\ job[v] = <<"sanitizing">>
  BY <1>1 DEF Plans
<1> QED BY <1>1, <1>2, <1>3

\* A worker that only changes its plan, and perhaps asks for cleanup.
LEMMA WorkerPlans ==
  ASSUME ImageInv, NEW w \in Workers, NEW j \in Plans, Goto(w, j), faults' \in 0..MaxFaults,
         UNCHANGED <<res, req, power, guest, clean, journalVars, Rest, work, verif, signings, pub,
                     keys, accessGone, lock>>,
         state' = state \/ (state' = "cleaning" /\ state # "cleaned")
  PROVE  QuietStep
<1>1. /\ job' \in [Workers -> Jobs]
      /\ \A v \in Workers, k \in Commands : job'[v] = <<"prepared", k>> => job'[v] = job[v] /\ lock' = lock
      /\ \A v \in Workers : job'[v] = <<"sanitizing">> => v # w /\ job[v] = <<"sanitizing">>
  BY GotoPlan
<1>2. TypeOK'
  BY <1>1, QuietFacts DEF TypeOK, ProviderTypeOK, JournalTypeOK, Rest, journalVars
<1>3. SanitizeInv' /\ ReleaseInv'
  BY <1>1, QuietFacts DEF SanitizeInv, ReleaseInv, At, Sanitized
<1> QED BY <1>1, <1>2, <1>3 DEF QuietStep, Rest, journalVars, Sanitized

LEMMA PlanQuiet ==
  ASSUME ImageInv, NEW w \in Workers,
         \/ PlanPending(w) \/ PlanStep(w) \/ PlanAbort(w) \/ PlanCleanup(w) \/ CleanupRefused(w)
         \/ LockBusy(w) \/ WorkerDies(w) \/ SanitationLost(w) \/ BuilderRefused(w)
  PROVE  QuietStep
<1>1. faults \in 0..MaxFaults
  BY QuietFacts DEF TypeOK, ProviderTypeOK
<1> USE <1>1 DEF PlanOnly, Outside, providerVars, buildVars, Rest
<1>2. CASE PlanPending(w)
  <2>1. PICK k \in Commands : PlanOnly(w, <<"effect", k>>)
    BY <1>2 DEF PlanPending
  <2> QED BY <2>1, PlanFacts, WorkerPlans
<1>3. CASE PlanStep(w)
  <2> DEFINE j == IF NextStep \in Commands THEN <<"effect", NextStep>> ELSE NextStep
  <2>1. j \in Plans
    BY PlanFacts, NextStepType
  <2>2. PlanOnly(w, j)
    BY <1>3 DEF PlanStep
  <2> HIDE DEF j
  <2> QED BY <2>1, <2>2, WorkerPlans
<1>4. CASE PlanAbort(w)
  <2>1. state # "cleaned"
    BY <1>4 DEF PlanAbort, Active
  <2> QED BY <1>4, <2>1, PlanFacts, WorkerPlans DEF PlanAbort
<1>5. CASE PlanCleanup(w)
  <2>1. PICK j \in {<<"cleanup">>, <<"release">>, <<"access">>} : PlanOnly(w, j)
    BY <1>5 DEF PlanCleanup
  <2> QED BY <2>1, PlanFacts, WorkerPlans
<1>6. CASE CleanupRefused(w)
  BY <1>6, PlanFacts, WorkerPlans DEF CleanupRefused, EndJob
<1>7. CASE LockBusy(w)
  BY <1>7, PlanFacts, WorkerPlans DEF LockBusy, EndJob
<1>8. CASE WorkerDies(w)
  BY <1>8, PlanFacts, WorkerPlans, FaultFacts, QuietFacts DEF WorkerDies, EndJob, TypeOK
<1>9. CASE SanitationLost(w)
  BY <1>9, PlanFacts, WorkerPlans DEF SanitationLost, EndJob, Active
<1>10. CASE BuilderRefused(w)
  BY <1>10, PlanFacts, WorkerPlans DEF BuilderRefused, EndJob
<1> QED BY <1>2, <1>3, <1>4, <1>5, <1>6, <1>7, <1>8, <1>9, <1>10

\* What the actions below have to show of the job they end in.
JobKept ==
  /\ job' \in [Workers -> Jobs]
  /\ \A v \in Workers, k \in Commands : job'[v] = <<"prepared", k>> => job'[v] = job[v] /\ lock' = lock

\* The SSH phases on the builder.
LEMMA BuilderQuiet ==
  ASSUME ImageInv, NEW w \in Workers,
         Install(w) \/ StartSanitation(w) \/ SaveSanitized(w) \/ SanitationFails(w)
  PROVE  QuietStep
<1>0. /\ TypeOK /\ SentInv /\ SanitizeInv /\ ReleaseInv
      /\ "free" \notin Workers /\ Idle \in Plans /\ <<"sanitizing">> \in Jobs
      /\ \A k \in Commands : <<"sanitizing">> # <<"prepared", k>>
  <2>1. \A k \in Commands : <<"prepared", k>>[1] = "prepared" /\ <<"sanitizing">>[1] = "sanitizing"
    OBVIOUS
  <2>2. \A k \in Commands : <<"sanitizing">> # <<"prepared", k>>
    BY <2>1, Zenon
  <2> QED BY <2>2, QuietFacts, WorkerFacts, PlanFacts, JobFacts
<1>1. CASE Install(w)
  <2>1. /\ Goto(w, Idle) /\ lock = "free" /\ lock' = lock /\ work \in {"waiting", "installing"}
        /\ work' \in {"installing", "installed"} /\ guest' \in {guest, "installed", "fresh", "started"}
        /\ UNCHANGED <<res, req, power, clean, faults, journalVars, Rest, state, verif, signings, pub,
                       keys, accessGone>>
    BY <1>1 DEF Install, EndJob
  <2>2. JobKept
    BY <1>0, <2>1, GotoPlan DEF JobKept
  <2>3. TypeOK'
    BY <1>0, <2>1, <2>2 DEF TypeOK, ProviderTypeOK, JournalTypeOK, Rest, journalVars, JobKept
  <2>4. SanitizeInv' /\ ReleaseInv'
    <3>1. \A v \in Workers : job[v] # <<"sanitizing">>
      BY <1>0, <2>1 DEF SanitizeInv, At
    <3>2. \A v \in Workers : job'[v] # <<"sanitizing">>
      BY <1>0, <2>1, <3>1, GotoPlan
    <3> QED BY <1>0, <2>1, <3>2 DEF SanitizeInv, ReleaseInv, At, Sanitized
  <2> QED BY <2>1, <2>2, <2>3, <2>4 DEF QuietStep, Rest, journalVars, Sanitized, JobKept
<1>2. CASE StartSanitation(w)
  <2>1. /\ Goto(w, <<"sanitizing">>) /\ lock = "free" /\ lock' = w /\ work = "installed"
        /\ work' = "sanitizing"
        /\ UNCHANGED <<providerVars, journalVars, Rest, state, verif, signings, pub, keys, accessGone>>
    BY <1>2 DEF StartSanitation, Outside
  <2>2. job' \in [Workers -> Jobs] /\ job'[w] = <<"sanitizing">> /\ \A v \in Workers \ {w} : job'[v] = job[v]
    BY <1>0, <2>1, GotoFacts
  <2>3. \A v \in Workers, k \in Commands : job'[v] = <<"prepared", k>> => job'[v] = job[v] /\ lock' = lock
    <3> SUFFICES ASSUME NEW v \in Workers, NEW k \in Commands, job'[v] = <<"prepared", k>> PROVE FALSE
      OBVIOUS
    <3>1. v # w
      BY <1>0, <2>2
    <3>2. job[v] = <<"prepared", k>>
      BY <2>2, <3>1
    <3> QED BY <1>0, <2>1, <3>2 DEF SentInv, At
  <2>4. TypeOK'
    BY <1>0, <2>1, <2>2 DEF TypeOK, ProviderTypeOK, JournalTypeOK, Rest, providerVars, journalVars
  <2>5. SanitizeInv' /\ ReleaseInv'
    <3>1. \A v \in Workers : job[v] # <<"sanitizing">>
      BY <1>0, <2>1 DEF SanitizeInv, At
    <3>2. \A v \in Workers : job'[v] = <<"sanitizing">> => v = w
      BY <2>2, <3>1
    <3>3. lock' # "enroll"
      BY <2>1, WorkerFacts
    <3> QED BY <1>0, <2>1, <3>2, <3>3 DEF SanitizeInv, ReleaseInv, At, Sanitized
  <2> QED BY <2>1, <2>2, <2>3, <2>4, <2>5 DEF QuietStep, Rest, providerVars, journalVars, Sanitized
<1>3. CASE SaveSanitized(w) \/ SanitationFails(w)
  <2>1. /\ job[w] = <<"sanitizing">> /\ Goto(w, Idle) /\ lock' = "free" /\ faults' \in 0..MaxFaults
        /\ \/ work' = "sanitized" /\ guest' = "sanitized"
           \/ work' = work /\ guest' \in {guest, "preparing", "sanitized"}
        /\ state' = state \/ (state = "running" /\ state' = "cleaning")
        /\ UNCHANGED <<res, req, power, clean, journalVars, Rest, verif, signings, pub, keys, accessGone>>
    <3>1. CASE SaveSanitized(w)
      BY <1>0, <3>1 DEF SaveSanitized, EndJob, At, PrepareDone, TypeOK, ProviderTypeOK
    <3>2. CASE SanitationFails(w)
      BY <1>0, <3>2, FaultFacts DEF SanitationFails, EndJob, At, PrepareDone, PrepareRefused,
         PrepareInterrupted, TypeOK
    <3> QED BY <1>3, <3>1, <3>2
  <2>2. lock = w /\ work = "sanitizing" /\ \A k \in Commands : job[w] # <<"prepared", k>>
    BY <1>0, <2>1 DEF SanitizeInv, At
  <2>3. JobKept /\ \A v \in Workers : job'[v] = <<"sanitizing">> => v # w /\ job[v] = <<"sanitizing">>
    BY <1>0, <2>1, <2>2, GotoPlan DEF JobKept
  <2>4. TypeOK'
    BY <1>0, <2>1, <2>3 DEF TypeOK, ProviderTypeOK, JournalTypeOK, Rest, journalVars, JobKept
  <2>5. SanitizeInv' /\ ReleaseInv'
    <3>1. \A v \in Workers : job'[v] # <<"sanitizing">>
      BY <1>0, <2>2, <2>3 DEF SanitizeInv, At
    <3> QED BY <1>0, <2>1, <2>2, <3>1 DEF SanitizeInv, ReleaseInv, At, Sanitized
  <2> QED BY <2>1, <2>2, <2>3, <2>4, <2>5 DEF QuietStep, Rest, journalVars, Sanitized, JobKept
<1> QED BY <1>1, <1>2, <1>3

\* The verifier's records, the publication and the removal of the keys.
LEMMA ReleaseQuiet ==
  ASSUME ImageInv, NEW w \in Workers,
         \/ PrepareVerification(w) \/ CheckVerifier(w) \/ PreparePublication(w) \/ PublishRelease(w)
         \/ RetireKeys(w) \/ RecordAccessGone(w)
  PROVE  QuietStep
<1>0. /\ TypeOK /\ SanitizeInv /\ ReleaseInv
      /\ Idle \in Plans /\ <<"publish">> \in Plans /\ <<"access">> \in Plans
  BY QuietFacts, PlanFacts
<1>1. CASE RetireKeys(w)
  BY <1>0, <1>1, QuietFacts DEF RetireKeys, QuietStep, TypeOK, ProviderTypeOK, JournalTypeOK, SanitizeInv,
     ReleaseInv, Outside, Rest, providerVars, journalVars, At, Sanitized
<1>2. CASE \/ PrepareVerification(w) \/ CheckVerifier(w) \/ PreparePublication(w) \/ PublishRelease(w)
           \/ RecordAccessGone(w)
  <2>1. /\ \E j \in Plans : Goto(w, j)
        /\ lock' = lock /\ UNCHANGED <<providerVars, journalVars, Rest, work, signings>>
    BY <1>0, <1>2 DEF PrepareVerification, CheckVerifier, PreparePublication, PublishRelease,
       RecordAccessGone, EndJob, Outside
  <2>2. /\ JobKept
        /\ \A v \in Workers : job'[v] = <<"sanitizing">> => job[v] = <<"sanitizing">>
    BY <2>1, GotoPlan DEF JobKept
  <2>3. SanitizeInv'
    BY <1>0, <2>1, <2>2 DEF SanitizeInv, At, Sanitized, providerVars
  <2>4. /\ state' = state \/ (lock = "free" /\ state' \in {"releasing", "retained"} /\ state \notin {"cleaning", "cleaned"})
        /\ state' = "retained" => state = "retained" \/ (TemporaryCleanup /\ res["snapshot"] = "ready")
        /\ verif' \in {"waiting", "prepared", "claimed", "enrolled", "verified"}
        /\ pub' \in {"waiting", "prepared", "published"}
        /\ keys' \in {"none", "kept", "retiring", "gone"} /\ accessGone' \in BOOLEAN
    BY <1>0, <1>2 DEF PrepareVerification, CheckVerifier, PreparePublication, PublishRelease,
       RecordAccessGone, TypeOK, Active
  <2>5. TypeOK'
    BY <1>0, <2>1, <2>2, <2>4 DEF TypeOK, ProviderTypeOK, JournalTypeOK, providerVars, journalVars, Rest, JobKept
  <2>6. ReleaseInv'
    <3>1. CASE PrepareVerification(w)
      BY <1>0, <3>1, WorkerFacts DEF PrepareVerification, ReleaseInv
    <3>2. CASE CheckVerifier(w)
      BY <1>0, <3>2, WorkerFacts DEF CheckVerifier, ReleaseInv
    <3>3. CASE PreparePublication(w)
      BY <1>0, <3>3 DEF PreparePublication, ReleaseInv, Active
    <3>4. CASE PublishRelease(w)
      BY <1>0, <3>4 DEF PublishRelease, ReleaseInv
    <3>5. CASE RecordAccessGone(w)
      BY <1>0, <3>5 DEF RecordAccessGone, ReleaseInv
    <3> QED BY <1>2, <3>1, <3>2, <3>3, <3>4, <3>5
  <2> QED BY <2>1, <2>2, <2>3, <2>4, <2>5, <2>6 DEF QuietStep, providerVars, journalVars, Rest, Sanitized, JobKept
<1> QED BY <1>1, <1>2

-----------------------------------------------------------------------------
(* The provider.                                                              *)

\* What the resources may go through while no command but those sent is carried out.
ResourceStep(sent) ==
  /\ ProviderTypeOK'
  /\ guest = "sanitized" => guest' = "sanitized"
  /\ \A r \in Roles :
       \/ res'[r] = res[r]
       \/ res[r] \notin {"none", "gone"} /\ res'[r] # "none"
       \/ res[r] = "none" /\ res'[r] \in {"creating", "ready"} /\ Create(r) \in sent \ req'
  /\ res["snapshot"] = "ready" => res'["snapshot"] = "ready" \/ Delete("snapshot") \in sent
  /\ res["snapshot"] # "deleting" => res'["snapshot"] # "deleting"
  /\ power = "off" => power' = "off" \/ (Create("builder") \in sent /\ res["builder"] = "none")
  /\ clean' = clean \/ (Create("snapshot") \in sent /\ res["snapshot"] = "none")
  /\ res["snapshot"] = "none" /\ res'["snapshot"] # "none" => clean' = (guest = "sanitized" /\ power = "off")

LEMMA ExecuteStep ==
  ASSUME ProviderTypeOK, NEW sent \in SUBSET Commands, NEW k \in sent, Feasible(k), Execute(k), ProviderTypeOK',
         k = Create(k[2]) => k \notin req'
  PROVE  ResourceStep(sent)
<1> DEFINE q == k[2]
<1>1. /\ q \in Roles /\ guest' = guest
      /\ \A r \in Roles : r # q => res'[r] = res[r]
      /\ k = Create(q) => res[q] = "none" /\ res'[q] \in {"creating", "ready"}
      /\ k = Delete(q) => /\ res[q] \notin {"none", "gone"} /\ res'[q] \in {"deleting", "gone"}
                          /\ q = "snapshot" => res'[q] = "gone"
      /\ k = PowerOff => res' = res /\ power = "on"
      /\ k # Create("builder") /\ k # PowerOff => power' = power
      /\ clean' = IF k = Create("snapshot") THEN guest = "sanitized" /\ power = "off" ELSE clean
  BY ExecuteFacts, CommandFacts
<1>2. /\ k = Create(q) \/ k = Delete(q) \/ k = PowerOff
      /\ k = Create("builder") => q = "builder"
      /\ k = Create("snapshot") => q = "snapshot"
  BY CommandFacts, RoleFacts
<1>3. "snapshot" \in Roles /\ "builder" \in Roles
  BY RoleFacts
<1> HIDE DEF q
<1>4. CASE k = Create(q)
  <2>1. k \notin req'
    BY <1>4 DEF q
  <2>2. k # PowerOff /\ (\A r \in Roles : r # q => k # Create(r))
    BY <1>1, <1>4, RoleFacts
  <2> QED BY <1>1, <1>2, <1>3, <1>4, <2>1, <2>2 DEF ResourceStep
<1>5. CASE k = Delete(q)
  <2>1. k # PowerOff /\ (\A r \in Roles : k # Create(r))
    BY <1>1, <1>5, RoleFacts
  <2> QED BY <1>1, <1>3, <1>5, <2>1 DEF ResourceStep
<1>6. CASE k = PowerOff
  <2>1. \A r \in Roles : k # Create(r)
    BY <1>6, RoleFacts
  <2> QED BY <1>1, <1>3, <1>6, <2>1 DEF ResourceStep
<1> QED BY <1>2, <1>4, <1>5, <1>6

LEMMA ProviderFacts ==
  ASSUME ProviderTypeOK, ProviderStep
  PROVE  ResourceStep(req) /\ req' \subseteq req
<1>0. faults \in 0..MaxFaults /\ req \subseteq Commands /\ res \in [Roles -> Status]
  BY DEF ProviderTypeOK
<1>1. ASSUME NEW k \in Commands, LateRequest(k)
      PROVE  ResourceStep(req) /\ req' \subseteq req
  <2>1. k \in req /\ req' = req \ {k} /\ faults' = faults
    BY <1>1 DEF LateRequest
  <2>2. CASE Feasible(k)
    <3>1. Execute(k)
      BY <1>1, <2>2 DEF LateRequest
    <3>2. ProviderTypeOK'
      BY <1>0, <2>1, <2>2, <3>1, ExecuteFacts DEF ProviderTypeOK
    <3> QED BY <1>0, <2>1, <2>2, <3>1, <3>2, ExecuteStep
  <2>3. CASE ~Feasible(k)
    <3>1. UNCHANGED <<res, power, guest, clean>>
      BY <1>1, <2>3 DEF LateRequest, NotExecuted
    <3> QED BY <1>0, <2>1, <3>1, RoleFacts DEF ResourceStep, ProviderTypeOK
  <2> QED BY <2>2, <2>3
<1>2. ASSUME NEW r \in Roles, CreateEnds(r) \/ DeleteEnds(r) \/ Settle(r)
      PROVE  ResourceStep(req) /\ req' \subseteq req
  <2>1. PICK s \in Status : Become(r, s) /\ s # "none" /\ s # "deleting"
                            /\ res[r] \in {"creating", "deleting", "settling"}
    BY <1>2 DEF CreateEnds, DeleteEnds, Settle, Status
  <2>2. faults' \in 0..MaxFaults
    BY <1>0, <1>2, FaultFacts DEF CreateEnds, DeleteEnds, Settle
  <2>3. /\ res' = [res EXCEPT ![r] = s] /\ UNCHANGED <<req, power, guest, clean>>
    BY <2>1 DEF Become
  <2>4. ProviderTypeOK'
    BY <1>0, <2>2, <2>3 DEF ProviderTypeOK
  <2> QED BY <1>0, <2>1, <2>3, <2>4, RoleFacts DEF ResourceStep
<1>3. CASE Stop \/ StopFails \/ InstallEnds
  <2>1. /\ faults' \in 0..MaxFaults /\ UNCHANGED <<res, req, clean>>
        /\ power' = power \/ (power = "stopping" /\ power' \in {"on", "off"})
        /\ guest' = guest \/ (guest = "started" /\ guest' = "installed")
    BY <1>0, <1>3, FaultFacts DEF Stop, StopFails, InstallEnds
  <2> QED BY <1>0, <2>1, RoleFacts DEF ResourceStep, ProviderTypeOK
<1> QED BY <1>1, <1>2, <1>3 DEF ProviderStep, ProviderFinishes

\* Commands that the journal knows of: a create among them has nothing to show yet,
\* in a build that is neither cleaned nor retained.
Known(sent) ==
  /\ sent \in SUBSET Commands /\ \A k \in sent : eff[k].out # "none"
  /\ \A r \in Roles : Create(r) \in sent => res[r] = "none" /\ state \notin {"cleaned", "retained"}

LEMMA RequestsKnown ==
  ASSUME ImageInv
  PROVE  Known(req)
<1>1. req \subseteq Commands /\ \A k \in req : eff[k].out # "none"
  BY DEF ImageInv, TypeOK, ProviderTypeOK, SentInv
<1>2. ASSUME NEW r \in Roles, Create(r) \in req
      PROVE  res[r] = "none" /\ state \notin {"cleaned", "retained"}
  <2>1. res[r] = "none"
    BY <1>2 DEF ImageInv, RoleInv, RoleAt
  <2>2. state # "cleaned"
    BY <1>2 DEF ImageInv, CleanedIsEmpty, Create
  <2>3. state # "retained"
    BY <1>2, <2>1 DEF ImageInv, RetainedIsSound, Create
  <2> QED BY <2>1, <2>2, <2>3
<1> QED BY <1>1, <1>2 DEF Known

\* Whatever known commands are carried out, a cleaned build stays empty, and the
\* snapshot stays where it is wanted and what it was ordered to be.
LEMMA ResourceKeeps ==
  ASSUME ImageInv, NEW sent, Known(sent), ResourceStep(sent), req' \subseteq req \cup sent, UNCHANGED buildVars,
         \A k \in Commands : eff'[k].out # "none" => eff[k].out # "none"
  PROVE  /\ SnapshotInv' /\ CleanedIsEmpty' /\ RetainedIsSound' /\ PinnedSnapshotStays'
         /\ Sanitized' => guest' = "sanitized"
<1>0. SnapshotInv /\ SanitizeInv /\ CleanedIsEmpty /\ RetainedIsSound /\ PinnedSnapshotStays
  BY DEF ImageInv
<1>1. UNCHANGED <<state, work, verif, pub, keys, accessGone, pin>>
  BY DEF buildVars
<1>2. /\ "snapshot" \in Roles /\ "builder" \in Roles
      /\ Create("snapshot") \in Commands /\ Delete("snapshot") \in Commands
  BY RoleFacts
<1>3. Sanitized' => guest' = "sanitized"
  BY <1>0, <1>1 DEF SanitizeInv, Sanitized, ResourceStep
<1>4. \A r \in Roles : /\ ~Exists(r) /\ Create(r) \notin req
                       /\ state \in {"cleaned", "retained"}
                       => ~Exists(r)' /\ Create(r) \notin req'
  BY DEF ResourceStep, Exists, Known
<1>5. CleanedIsEmpty'
  BY <1>0, <1>1, <1>4 DEF CleanedIsEmpty, Create
<1>6. res["snapshot"] # "ready" \/ res'["snapshot"] = "ready" \/ eff[Delete("snapshot")].out # "none"
  BY <1>2 DEF ResourceStep, Known
<1>7. SnapshotInv'
  <2>1. eff[Create("snapshot")].out # "none" => power' = "off" /\ res'["builder"] # "none"
    BY <1>0, <1>2 DEF SnapshotInv, ResourceStep, Known
  <2>2. res'["snapshot"] # "none" => clean'
    <3>1. CASE res["snapshot"] # "none"
      BY <1>0, <3>1 DEF SnapshotInv, ResourceStep
    <3>2. CASE res["snapshot"] = "none" /\ res'["snapshot"] # "none"
      <4>1. Create("snapshot") \in sent
        BY <1>2, <3>2 DEF ResourceStep
      <4>2. Sanitized /\ power = "off"
        BY <1>0, <4>1 DEF SnapshotInv, Known
      <4> QED BY <1>0, <3>2, <4>2 DEF ResourceStep, SanitizeInv
    <3> QED BY <3>1, <3>2
  <2>3. res'["snapshot"] # "deleting"
    BY <1>0 DEF SnapshotInv, ResourceStep
  <2> QED BY <1>0, <1>1, <1>2, <2>1, <2>2, <2>3 DEF SnapshotInv, InUse, Sanitized
<1>8. RetainedIsSound'
  <2> SUFFICES ASSUME state = "retained" PROVE RetainedIsSound'
    BY <1>1 DEF RetainedIsSound
  <2>1. res'["snapshot"] = "ready"
    BY <1>0, <1>6 DEF RetainedIsSound, SnapshotInv
  <2>2. clean'
    BY <1>7, <2>1 DEF SnapshotInv
  <2> QED BY <1>0, <1>1, <1>4, <2>1, <2>2 DEF RetainedIsSound, Create
<1>9. PinnedSnapshotStays'
  BY <1>0, <1>1, <1>6 DEF PinnedSnapshotStays, SnapshotInv, InUse
<1> QED BY <1>3, <1>5, <1>7, <1>8, <1>9

LEMMA ProviderKeeps ==
  ASSUME ImageInv, ProviderStep, UNCHANGED <<journalVars, buildVars, job, lock>>
  PROVE  ImageInv'
<1>0. /\ TypeOK /\ SentInv /\ RoleInv /\ PreparedInv /\ SanitizeInv /\ ReleaseInv
      /\ ProviderTypeOK /\ JournalTypeOK
  BY DEF ImageInv, TypeOK
<1>1. ResourceStep(req) /\ req' \subseteq req /\ Known(req)
  BY <1>0, ProviderFacts, RequestsKnown
<1>2. UNCHANGED <<eff, row, state, asked, retain, clock, specOver, work, verif, signings, pub, keys, accessGone,
                  pin, job, lock>>
  BY DEF journalVars, buildVars
<1>3. /\ SnapshotInv' /\ CleanedIsEmpty' /\ RetainedIsSound' /\ PinnedSnapshotStays'
      /\ Sanitized' => guest' = "sanitized"
  BY <1>1, <1>2, ResourceKeeps
<1>4. TypeOK'
  BY <1>0, <1>1, <1>2 DEF TypeOK, JournalTypeOK, ResourceStep
<1>5. SentInv' /\ ReleaseInv' /\ SanitizeInv'
  BY <1>0, <1>1, <1>2, <1>3 DEF SentInv, ReleaseInv, SanitizeInv, At, Pending, Sanitized
<1>6. ASSUME NEW r \in Roles PROVE RoleAt(r)'
  <2>1. RoleAt(r) /\ (Create(r) \in req => res[r] = "none")
    BY <1>0, <1>1 DEF RoleInv, Known
  <2>2. \/ res'[r] = res[r]
        \/ res[r] \notin {"none", "gone"} /\ res'[r] # "none"
        \/ res[r] = "none" /\ res'[r] \in {"creating", "ready"} /\ Create(r) \in req \ req'
    BY <1>1 DEF ResourceStep
  <2> QED BY <1>1, <1>2, <2>1, <2>2 DEF RoleAt, Pending
<1>7. RoleInv'
  BY <1>0, <1>2, <1>6 DEF RoleInv
<1>8. PreparedInv'
  <2> SUFFICES ASSUME NEW w \in Workers, NEW r \in Roles, At(w, <<"prepared", Create(r)>>)
               PROVE  res'[r] = "none" /\ Create(r) \notin req' /\ state \in {"running", "cleaning"}
    BY <1>2 DEF PreparedInv, At
  <2>1. res[r] = "none" /\ Create(r) \notin req /\ state \in {"running", "cleaning"}
    BY <1>0 DEF PreparedInv
  <2> QED BY <1>1, <2>1 DEF ResourceStep
<1> QED BY <1>3, <1>4, <1>5, <1>7, <1>8 DEF ImageInv

-----------------------------------------------------------------------------
(* The effects.                                                               *)

\* Bringing an effect of a role up to date keeps what its row says, whether the
\* row is written by this effect or by a cleanup.
LEMMA RoleSettled ==
  ASSUME JournalTypeOK, NEW r \in Roles, RoleAt(r), UNCHANGED <<res, req>>,
         eff[Create(r)].out = "none" <=> eff[Create(r)].res = "none",
         eff'[Create(r)] \in {eff[Create(r)], Settled(Create(r))}, eff'[Delete(r)].out = eff[Delete(r)].out,
         row'[r] # "none" => res[r] # "none", row'[r] = "absent" => res[r] = "gone",
         row[r] # "none" => row'[r] # "none",
         eff'[Create(r)].res \in {"confirmed", "failed"} => row'[r] # "none" \/ eff[Create(r)].out = "rejected"
  PROVE  RoleAt(r)'
<1> DEFINE c == Create(r)
<1>1. c \in Commands /\ c[2] = r /\ c = Create(c[2])
  BY RoleFacts
<1>2. eff'[c].out = eff[c].out
  BY <1>1, SettledFacts
<1>3. ASSUME c \in req PROVE eff'[c].res = "pending"
  <2>1. res[r] = "none" /\ Pending(c) /\ eff[c].out \in {"prepared", "unknown"}
    BY <1>3 DEF RoleAt
  <2>2. CreateResolution(c) = "pending"
    BY <1>1, <2>1 DEF CreateResolution
  <2>3. Settled(c).res = "pending"
    BY <1>1, <2>1, <2>2, SettledFacts, ResolutionFacts
  <2> QED BY <2>1, <2>3 DEF Pending
<1>4. RoleAt(r)
  OBVIOUS
<1> HIDE DEF c
<1>5. c \in req' => eff'[c].res = "pending" /\ res[r] = "none" /\ eff[c].out \in {"prepared", "unknown"}
  BY <1>3, <1>4 DEF RoleAt, c
<1> QED BY <1>2, <1>4, <1>5 DEF RoleAt, Pending, c

\* An effect brought up to date by itself.
LEMMA RowSettled ==
  ASSUME JournalTypeOK, SentInv, RoleInv, NEW k \in Commands
  PROVE  LET r == k[2]  new == RowAfter(k) IN
         /\ new # "none" => res[r] # "none"
         /\ new = "absent" => res[r] = "gone"
         /\ row[r] # "none" => new # "none"
         /\ k = Create(r) /\ Settled(k).res \in {"confirmed", "failed"} => new # "none" \/ eff[k].out = "rejected"
<1> DEFINE r == k[2]
<1>1. r \in Roles /\ RowGrounds(r) /\ RoleAt(r)
  BY CommandFacts, RowGrounded DEF RowGrounds
<1>2. CASE k = Create(r)
  BY <1>1, <1>2, RowAfterCreate DEF RowGrounds, RoleAt
<1>3. CASE k # Create(r) /\ row[r] # "none"
  BY <1>1, <1>3, RowAfterTarget DEF RoleAt
<1>4. CASE k # Create(r) /\ row[r] = "none"
  <2>1. k = Delete(r) \/ (k = PowerOff /\ r = "builder")
    BY <1>4, CommandFacts, RoleFacts
  <2>2. ~Pending(k)
    BY <1>1, <1>4, <2>1 DEF RowGrounds
  <2> QED BY <1>4, <2>2 DEF RowAfter
<1> QED BY <1>2, <1>3, <1>4

\* Nobody is about to send or sanitizes while the lock is free.
LEMMA LockFree ==
  ASSUME ImageInv, lock = "free"
  PROVE  /\ \A w \in Workers, k \in Commands : job[w] # <<"prepared", k>>
         /\ \A w \in Workers : job[w] # <<"sanitizing">>
BY WorkerFacts DEF ImageInv, SentInv, SanitizeInv, At

LEMMA ReconcileKeeps ==
  ASSUME ImageInv, NEW w \in Workers, NEW k \in Commands, ReconcileEffect(w, k)
  PROVE  ImageInv'
<1>0. /\ TypeOK /\ SentInv /\ RoleInv /\ PreparedInv /\ SnapshotInv /\ SanitizeInv /\ ReleaseInv
      /\ CleanedIsEmpty /\ RetainedIsSound /\ PinnedSnapshotStays
      /\ JournalTypeOK
  BY DEF ImageInv, TypeOK
<1>1. /\ lock = "free" /\ lock' = lock /\ Goto(w, Idle) /\ UNCHANGED <<providerVars, buildVars>>
      /\ eff' = [eff EXCEPT ![k] = Settled(k)]
      /\ row' = [row EXCEPT ![k[2]] = RowAfter(k)]
  BY DEF ReconcileEffect, EndJob
<1>2. /\ UNCHANGED <<res, req, power, guest, clean, faults, state, asked, retain, clock, specOver, work, verif,
                     signings, pub, keys, accessGone, pin>>
  BY <1>1 DEF providerVars, buildVars
<1>3. k[2] \in Roles /\ Settled(k) \in Effect /\ Settled(k).out = eff[k].out /\ RowAfter(k) \in RowState
  BY <1>0, CommandFacts, SettledFacts, RowAfterType
<1>4. /\ eff' \in [Commands -> Effect] /\ row' \in [Roles -> RowState]
      /\ eff'[k] = Settled(k) /\ \A j \in Commands : j # k => eff'[j] = eff[j]
      /\ row'[k[2]] = RowAfter(k) /\ \A r \in Roles : r # k[2] => row'[r] = row[r]
  BY <1>0, <1>1, <1>3 DEF JournalTypeOK
<1>5. \A j \in Commands : eff'[j].out = eff[j].out
  BY <1>3, <1>4
<1>6. /\ job' \in [Workers -> Jobs]
      /\ \A v \in Workers, j \in Commands : job'[v] # <<"prepared", j>>
      /\ \A v \in Workers : job'[v] # <<"sanitizing">>
  BY <1>1, LockFree, GotoPlan, PlanFacts
<1>7. TypeOK'
  BY <1>0, <1>1, <1>2, <1>4, <1>6 DEF TypeOK, ProviderTypeOK, JournalTypeOK
<1>8. SentInv'
  <2>1. eff'[k].out = "none" <=> eff'[k].res = "none"
    <3>1. Pending(k) => Settled(k).res # "none"
      BY <1>0, <1>3, SettledFacts, ResolutionFacts
    <3>2. ~Pending(k) => Settled(k) = eff[k]
      BY <1>0, SettledFacts
    <3> QED BY <1>0, <1>3, <1>4, <3>1, <3>2 DEF SentInv, Pending
  <2>2. \A j \in Commands : eff'[j].out = "none" <=> eff'[j].res = "none"
    BY <1>0, <1>4, <2>1 DEF SentInv
  <2>3. \A j \in req' : eff'[j].out # "none"
    BY <1>0, <1>2, <1>5 DEF SentInv, TypeOK, ProviderTypeOK
  <2> QED BY <1>6, <2>2, <2>3 DEF SentInv, At
<1>9. ASSUME NEW r \in Roles PROVE RoleAt(r)'
  <2>1. Create(r) \in Commands /\ Delete(r) \in Commands /\ Create(r)[2] = r
    BY RoleFacts
  <2>2. RoleAt(r) /\ (eff[Create(r)].out = "none" <=> eff[Create(r)].res = "none")
    BY <1>0, <2>1 DEF RoleInv, SentInv
  <2>3. eff'[Create(r)] \in {eff[Create(r)], Settled(Create(r))} /\ eff'[Delete(r)].out = eff[Delete(r)].out
    BY <1>4, <1>5, <2>1
  <2>4. CASE r = k[2]
    <3>1. /\ row'[r] # "none" => res[r] # "none"
          /\ row'[r] = "absent" => res[r] = "gone"
          /\ row[r] # "none" => row'[r] # "none"
          /\ k = Create(r) /\ Settled(k).res \in {"confirmed", "failed"} => row'[r] # "none" \/ eff[k].out = "rejected"
      BY <1>0, <1>4, <2>4, RowSettled
    <3>2. eff'[Create(r)].res \in {"confirmed", "failed"} => row'[r] # "none" \/ eff[Create(r)].out = "rejected"
      BY <1>4, <2>1, <2>2, <3>1 DEF RoleAt
    <3> QED BY <1>0, <1>2, <2>2, <2>3, <3>1, <3>2, RoleSettled
  <2>5. CASE r # k[2]
    <3>1. row'[r] = row[r] /\ eff'[Create(r)] = eff[Create(r)]
      BY <1>4, <2>1, <2>5
    <3> QED BY <1>2, <2>2, <2>3, <3>1 DEF RoleAt, Pending
  <2> QED BY <2>4, <2>5
<1>10. RoleInv'
  <2>1. row[k[2]] # "none" => row'[k[2]] # "none"
    BY <1>0, <1>4, RowSettled
  <2>2. row["builder"] # "none" => row'["builder"] # "none"
    BY <1>4, <2>1, RoleFacts
  <2> QED BY <1>0, <1>5, <1>9, <2>2, RoleFacts DEF RoleInv
<1>11. PreparedInv'
  BY <1>6, RoleFacts DEF PreparedInv, At
<1>12. SnapshotInv' /\ SanitizeInv' /\ ReleaseInv'
  BY <1>0, <1>1, <1>2, <1>5, <1>6, RoleFacts DEF SnapshotInv, SanitizeInv, ReleaseInv, InUse, Sanitized, At
<1>13. CleanedIsEmpty' /\ RetainedIsSound' /\ PinnedSnapshotStays'
  BY <1>0, <1>2 DEF CleanedIsEmpty, RetainedIsSound, PinnedSnapshotStays, InUse, Exists
<1> QED BY <1>7, <1>8, <1>10, <1>11, <1>12, <1>13 DEF ImageInv

LEMMA CleanupKeeps ==
  ASSUME ImageInv, NEW w \in Workers, PlanImageCleanup(w)
  PROVE  ImageInv'
<1>0. /\ TypeOK /\ SentInv /\ RoleInv /\ PreparedInv /\ SnapshotInv /\ SanitizeInv /\ ReleaseInv
      /\ CleanedIsEmpty /\ RetainedIsSound /\ PinnedSnapshotStays
      /\ JournalTypeOK /\ res \in [Roles -> Status]
  BY DEF ImageInv, TypeOK, ProviderTypeOK
<1>1. /\ lock = "free" /\ state \in {"cleaning", "releasing"}
      /\ UNCHANGED <<providerVars, Rest, work, verif, signings, pub, keys, accessGone, lock>>
      /\ eff' = CleanupEff /\ row' = CleanupRow
  BY DEF PlanImageCleanup
<1>2. UNCHANGED <<res, req, power, guest, clean, faults, asked, retain, clock, specOver, pin, work, verif,
                  signings, pub, keys, accessGone, lock>>
  BY <1>1 DEF providerVars, Rest
<1>3. /\ \E j \in Plans : Goto(w, j)
      /\ \/ state' = state
         \/ /\ state' = "cleaned" /\ state = "cleaning"
            /\ \A k \in Commands : ~StillPending(k)
            /\ Remaining(FALSE) = {}
  <2>1. CleanupOutcome(w, state = "releasing")
    BY DEF PlanImageCleanup
  <2>2. \E j \in Plans : Goto(w, j)
    <3>1. CASE \E r \in NextDeletions(state = "releasing", InUse) : Goto(w, <<"effect", Delete(r)>>)
      <4>1. NextDeletions(state = "releasing", InUse) \subseteq Roles
        BY DEF NextDeletions, Deletable, Remaining
      <4> QED BY <3>1, <4>1, RoleFacts, PlanFacts
    <3>2. CASE Goto(w, Idle) \/ Goto(w, <<"access">>)
      BY <3>2, PlanFacts
    <3> QED BY <2>1, <3>1, <3>2 DEF CleanupOutcome, EndJob, Delete
  <2>3. CASE state = "releasing"
    BY <2>1, <2>2, <2>3 DEF CleanupOutcome
  <2>4. CASE state # "releasing"
    <3>1. (state = "releasing") = FALSE
      BY <2>4
    <3>2. CleanupOutcome(w, FALSE)
      BY <2>1, <3>1
    <3> QED BY <1>1, <2>2, <2>4, <3>2 DEF CleanupOutcome
  <2> QED BY <2>3, <2>4
<1>4. /\ eff' \in [Commands -> Effect] /\ row' \in [Roles -> RowState]
      /\ \A k \in Commands : eff'[k] = Settled(k)
  BY <1>0, <1>1, CleanupType
<1>5. \A k \in Commands : eff'[k].out = eff[k].out
  BY <1>0, <1>4, SettledFacts
<1>6. /\ job' \in [Workers -> Jobs]
      /\ \A v \in Workers, j \in Commands : job'[v] # <<"prepared", j>>
      /\ \A v \in Workers : job'[v] # <<"sanitizing">>
  BY <1>1, <1>3, LockFree, GotoPlan
<1>7. TypeOK'
  <2>1. state' \in {"none", "running", "releasing", "retained", "cleaning", "cleaned"}
    BY <1>1, <1>3
  <2> QED BY <1>0, <1>2, <1>4, <1>6, <2>1 DEF TypeOK, ProviderTypeOK, JournalTypeOK
<1>8. SentInv'
  <2>1. ASSUME NEW k \in Commands PROVE eff'[k].out = "none" <=> eff'[k].res = "none"
    <3>1. Pending(k) => Settled(k).res # "none"
      BY <1>0, SettledFacts, ResolutionFacts
    <3>2. ~Pending(k) => Settled(k) = eff[k]
      BY <1>0, SettledFacts
    <3>3. Settled(k).out = eff[k].out
      BY <1>0, SettledFacts
    <3> QED BY <1>0, <1>4, <3>1, <3>2, <3>3 DEF SentInv, Pending
  <2>2. \A j \in req' : eff'[j].out # "none"
    BY <1>0, <1>2, <1>5 DEF SentInv, TypeOK, ProviderTypeOK
  <2> QED BY <1>6, <2>1, <2>2 DEF SentInv, At
<1>9. ASSUME NEW r \in Roles
      PROVE  /\ row'[r] # "none" => res[r] # "none"
             /\ row'[r] = "absent" => res[r] = "gone"
             /\ row[r] # "none" => row'[r] # "none"
             /\ eff'[Create(r)].res \in {"confirmed", "failed"} => row'[r] # "none" \/ eff[Create(r)].out = "rejected"
             /\ eff'[Create(r)].res # "pending" /\ row'[r] \in {"none", "absent"} => ~Exists(r) /\ Create(r) \notin req
  <2>1. RowGrounds(r) /\ Create(r) \in Commands
    BY <1>0, RowGrounded, RoleFacts
  <2>2. row'[r] = CleanupRow[r] /\ eff'[Create(r)] = Settled(Create(r))
    BY <1>1, <1>4, <2>1
  <2> QED BY <1>0, <2>1, <2>2, CleanupRowFacts
<1>10. ASSUME NEW r \in Roles PROVE RoleAt(r)'
  <2>1. Create(r) \in Commands /\ Delete(r) \in Commands
    BY RoleFacts
  <2>2. RoleAt(r) /\ (eff[Create(r)].out = "none" <=> eff[Create(r)].res = "none")
    BY <1>0, <2>1 DEF RoleInv, SentInv
  <2>3. eff'[Create(r)] \in {eff[Create(r)], Settled(Create(r))} /\ eff'[Delete(r)].out = eff[Delete(r)].out
    BY <1>4, <1>5, <2>1
  <2> QED BY <1>0, <1>2, <1>9, <2>2, <2>3, RoleSettled
<1>11. RoleInv'
  <2>1. row["builder"] # "none" => row'["builder"] # "none"
    BY <1>9, RoleFacts
  <2> QED BY <1>0, <1>5, <1>10, <2>1, RoleFacts DEF RoleInv
<1>12. PreparedInv'
  BY <1>6, RoleFacts DEF PreparedInv, At
<1>13. SnapshotInv' /\ SanitizeInv' /\ ReleaseInv'
  <2>1. state' # "retained" /\ (state \in {"cleaning", "cleaned"} => state' \in {"cleaning", "cleaned"})
    BY <1>1, <1>3
  <2>2. \A r \in Roles : eff'[Create(r)].out = eff[Create(r)].out /\ eff'[Delete(r)].out = eff[Delete(r)].out
    BY <1>5, RoleFacts
  <2>3. SnapshotInv'
    BY <1>0, <1>2, <2>1, <2>2, RoleFacts DEF SnapshotInv, InUse, Sanitized
  <2> QED BY <1>0, <1>2, <1>6, <2>1, <2>3 DEF SanitizeInv, ReleaseInv, Sanitized, At
<1>14. CleanedIsEmpty'
  <2> SUFFICES ASSUME state' = "cleaned", NEW r \in Roles PROVE ~Exists(r) /\ Create(r) \notin req
    BY <1>2 DEF CleanedIsEmpty, Exists, Create
  <2>1. (\A k \in Commands : ~StillPending(k)) /\ Remaining(FALSE) = {}
    BY <1>1, <1>3
  <2>2. row'[r] \in {"none", "absent"}
    <3>1. row'[r] \notin {"claimed", "observed"}
      BY <1>1, <2>1 DEF Remaining
    <3> QED BY <1>4, <3>1 DEF RowState
  <2>3. eff'[Create(r)].res # "pending"
    BY <1>1, <2>1, RoleFacts DEF StillPending
  <2> QED BY <1>9, <2>2, <2>3
<1>15. RetainedIsSound' /\ PinnedSnapshotStays'
  BY <1>0, <1>1, <1>2, <1>3 DEF RetainedIsSound, PinnedSnapshotStays, InUse
<1> QED BY <1>7, <1>8, <1>11, <1>12, <1>13, <1>14, <1>15 DEF ImageInv

LEMMA PrepareKeeps ==
  ASSUME ImageInv, NEW w \in Workers, NEW k \in Commands, PrepareEffect(w, k)
  PROVE  ImageInv'
<1>0. /\ TypeOK /\ SentInv /\ RoleInv /\ PreparedInv /\ SnapshotInv /\ SanitizeInv /\ ReleaseInv
      /\ CleanedIsEmpty /\ RetainedIsSound /\ PinnedSnapshotStays
      /\ JournalTypeOK /\ req \subseteq Commands
  BY DEF ImageInv, TypeOK, ProviderTypeOK
<1> DEFINE new == [out |-> "prepared", res |-> "pending"]
           q == k[2]
<1>1. /\ lock = "free" /\ lock' = w /\ Goto(w, <<"prepared", k>>)
      /\ Submittable(k) /\ Permitted(k) /\ CommandAllowed(k)
      /\ eff' = [eff EXCEPT ![k] = new] /\ row' = [row EXCEPT ![q] = RowAfter(k)]
  BY DEF PrepareEffect
<1>2. UNCHANGED <<res, req, power, guest, clean, faults, state, asked, retain, clock, specOver, work, verif,
                  signings, pub, keys, accessGone, pin>>
  BY DEF PrepareEffect, providerVars, buildVars
<1>3. q \in Roles /\ RowAfter(k) \in RowState /\ new \in Effect
  BY <1>0, CommandFacts, RowAfterType DEF Effect
<1>4. /\ eff' \in [Commands -> Effect] /\ row' \in [Roles -> RowState]
      /\ eff'[k].out = "prepared" /\ eff'[k].res = "pending"
      /\ \A j \in Commands : j # k => eff'[j] = eff[j]
      /\ row'[q] = RowAfter(k) /\ \A r \in Roles : r # q => row'[r] = row[r]
  BY <1>0, <1>1, <1>3 DEF JournalTypeOK
<1>5. /\ job' \in [Workers -> Jobs] /\ job'[w] = <<"prepared", k>>
      /\ \A v \in Workers \ {w} : job'[v] = job[v]
  BY <1>0, <1>1, JobFacts, GotoFacts
<1>6. \A v \in Workers : /\ job'[v] # <<"sanitizing">>
                         /\ \A j \in Commands : job'[v] = <<"prepared", j>> => v = w /\ j = k
  <2>1. <<"prepared", k>> # <<"sanitizing">>
    <3>1. <<"prepared", k>>[1] = "prepared" /\ <<"sanitizing">>[1] = "sanitizing"
      OBVIOUS
    <3> QED BY <3>1, Zenon
  <2> QED BY <1>1, <1>5, <2>1, LockFree, JobFacts
<1>7. TypeOK'
  BY <1>0, <1>1, <1>2, <1>4, <1>5 DEF TypeOK, ProviderTypeOK, JournalTypeOK
<1>8. SentInv'
  <2>1. \A j \in Commands : eff'[j].out = "none" <=> eff'[j].res = "none"
    BY <1>0, <1>4 DEF SentInv
  <2>2. \A j \in req' : eff'[j].out # "none"
    BY <1>0, <1>2, <1>4 DEF SentInv
  <2>3. ASSUME NEW v \in Workers, NEW j \in Commands, job'[v] = <<"prepared", j>>
        PROVE  lock' = v /\ eff'[j].out = "prepared" /\ eff'[j].res = "pending"
    BY <1>1, <1>4, <1>6, <2>3
  <2> QED BY <2>1, <2>2, <2>3 DEF SentInv, At, Pending
\* A create is prepared once.
<1>9. k = Create(q) => /\ eff[k].out = "none" /\ res[q] = "none" /\ k \notin req /\ RowAfter(k) = row[q]
                       /\ state = "running"
  <2> SUFFICES ASSUME k = Create(q)
               PROVE  /\ eff[k].out = "none" /\ res[q] = "none" /\ k \notin req /\ RowAfter(k) = row[q]
                      /\ state = "running"
    OBVIOUS
  <2>1. IsCreate(k) /\ k[1] = "create" /\ k[1] # "delete"
    BY CommandFacts, RoleFacts, <1>3
  <2>2. eff[k].out = "none" /\ eff[k].res = "none"
    BY <1>0, <1>1, <2>1 DEF Submittable, SentInv
  <2>3. res[q] = "none" /\ k \notin req
    BY <1>0, <1>3, <2>2 DEF RoleInv, RoleAt
  <2>4. state = "running"
    BY <1>1, <2>1 DEF Permitted, Active
  <2> QED BY <2>2, <2>3, <2>4 DEF RowAfter, Pending
\* A deletion is of a resource with a row, as is a shutdown.
<1>10. k # Create(q) => row[q] # "none"
  <2>1. CASE k = Delete(q)
    <3>1. k[1] = "delete"
      BY <1>3, <2>1, RoleFacts
    <3>2. DeleteAllowed(q, state = "releasing")
      BY <1>1, <3>1 DEF CommandAllowed
    <3> QED BY <3>2 DEF DeleteAllowed
  <2>2. CASE k = PowerOff
    <3>1. k[1] = "power_off" /\ q = "builder"
      BY <2>2, RoleFacts
    <3>2. Owned("builder")
      BY <1>1, <3>1 DEF CommandAllowed
    <3> QED BY <3>1, <3>2 DEF Owned
  <2> QED BY <2>1, <2>2, CommandFacts
<1>11. /\ RowAfter(k) # "none" => res[q] # "none"
       /\ RowAfter(k) = "absent" => res[q] = "gone"
       /\ row[q] # "none" => RowAfter(k) # "none"
  BY <1>0, RowSettled
<1> HIDE DEF q, new
<1>12. ASSUME NEW r \in Roles PROVE RoleAt(r)'
  <2>1. Create(r) \in Commands /\ Delete(r) \in Commands /\ RoleAt(r)
        /\ (r # q => k # Create(r) /\ k # Delete(r)) /\ Create(r) # Delete(r)
    <3>1. Create(r)[1] = "create" /\ Delete(r)[1] = "delete"
      BY RoleFacts
    <3>2. Create(r) # Delete(r)
      BY <3>1
    <3> QED BY <1>0, <3>2, RoleFacts DEF RoleInv, q
  <2>2. CASE r # q
    BY <1>2, <1>4, <2>1, <2>2 DEF RoleAt, Pending
  <2>3. CASE r = q /\ k = Create(q)
    <3>1. eff'[Delete(r)] = eff[Delete(r)] /\ row'[r] = row[r]
      BY <1>4, <1>9, <2>1, <2>3
    <3> QED BY <1>2, <1>4, <1>9, <2>1, <2>3, <3>1 DEF RoleAt, Pending
  <2>4. CASE r = q /\ k # Create(q)
    BY <1>2, <1>4, <1>10, <1>11, <2>1, <2>4 DEF RoleAt, Pending
  <2> QED BY <2>2, <2>3, <2>4
<1>13. RoleInv'
  <2>1. row["builder"] # "none" => row'["builder"] # "none"
    BY <1>4, <1>11, RoleFacts
  <2>2. k = PowerOff => q = "builder" /\ k # Create(q)
    BY RoleFacts, CommandFacts DEF q
  <2>3. eff'[PowerOff].out # "none" => row'["builder"] # "none"
    BY <1>0, <1>4, <1>10, <2>1, <2>2, RoleFacts DEF RoleInv
  <2> QED BY <1>12, <2>3 DEF RoleInv
<1>14. PreparedInv'
  <2> SUFFICES ASSUME NEW v \in Workers, NEW r \in Roles, job'[v] = <<"prepared", Create(r)>>
               PROVE  res[r] = "none" /\ Create(r) \notin req /\ state \in {"running", "cleaning"}
    BY <1>2 DEF PreparedInv, At
  <2>1. k = Create(r)
    BY <1>6, RoleFacts
  <2>2. r = q
    BY <2>1, RoleFacts DEF q
  <2> QED BY <1>9, <2>1, <2>2
<1>15. SnapshotInv'
  <2>1. Delete("snapshot") \in Commands /\ Create("snapshot") \in Commands
    BY RoleFacts
  <2>2. ASSUME k = Delete("snapshot") PROVE state \in {"cleaning", "cleaned"} /\ ~InUse
    <3>1. k[1] = "delete" /\ k[2] = "snapshot"
      BY <2>2, RoleFacts
    <3>2. DeleteAllowed("snapshot", state = "releasing") /\ ~InUse /\ state \in {"cleaning", "releasing"}
      BY <1>1, <3>1 DEF CommandAllowed, Permitted
    <3> QED BY <3>2 DEF DeleteAllowed
  <2>3. ASSUME k = Create("snapshot") PROVE Sanitized /\ power = "off" /\ res["builder"] # "none"
    <3>1. k[1] = "create" /\ k[2] = "snapshot"
      BY <2>3, RoleFacts
    <3>2. CreateAllowed("snapshot", Sanitized, verif = "prepared" /\ ~specOver)
      BY <1>1, <3>1 DEF CommandAllowed
    <3>3. Needs("snapshot") = {"builder"}
      BY DEF Needs
    <3> QED BY <3>2, <3>3 DEF CreateAllowed, Owned, Exists
  <2>4. eff'[Delete("snapshot")].out # "none" => state \in {"cleaning", "cleaned"} /\ ~InUse
    BY <1>0, <1>4, <2>1, <2>2 DEF SnapshotInv
  <2>5. eff'[Create("snapshot")].out # "none" => Sanitized /\ power = "off" /\ res["builder"] # "none"
    BY <1>0, <1>4, <2>1, <2>3 DEF SnapshotInv
  <2> QED BY <1>0, <1>2, <2>4, <2>5 DEF SnapshotInv, InUse, Sanitized
<1>16. SanitizeInv' /\ ReleaseInv'
  BY <1>0, <1>1, <1>2, <1>6, WorkerFacts DEF SanitizeInv, ReleaseInv, Sanitized, At
<1>17. CleanedIsEmpty' /\ RetainedIsSound' /\ PinnedSnapshotStays'
  BY <1>0, <1>2 DEF CleanedIsEmpty, RetainedIsSound, PinnedSnapshotStays, InUse, Exists
<1> QED BY <1>7, <1>8, <1>13, <1>14, <1>15, <1>16, <1>17 DEF ImageInv

\* A submission ends in an answer, or its worker dies and the effect stays prepared.
Ends(w, k, out) ==
  /\ At(w, <<"prepared", k>>) /\ lock' = "free" /\ Goto(w, Idle) /\ UNCHANGED buildVars
  /\ ProviderTypeOK' /\ guest' = guest
  /\ \/ Feasible(k) /\ Execute(k) /\ req' = req /\ out # "rejected"
     \/ NotExecuted /\ req' \in {req, req \cup {k}} /\ out # "answered" /\ (out = "rejected" => req' = req)
  /\ eff' = [eff EXCEPT ![k].out = out]
  /\ \/ UNCHANGED row
     \/ /\ IsCreate(k) /\ out = "answered" /\ row[k[2]] = "none"
        /\ row' = [row EXCEPT ![k[2]] = "claimed"]

LEMMA SubmissionEnds ==
  ASSUME ImageInv, NEW w \in Workers, NEW k \in Commands, SubmitEffect(w, k) \/ SubmitterDies(w, k)
  PROVE  \E out \in Answers \cup {"prepared"} : Ends(w, k, out)
<1>0. TypeOK /\ SentInv /\ ProviderTypeOK /\ JournalTypeOK
  BY DEF ImageInv, TypeOK
<1>1. CASE SubmitEffect(w, k)
  <2>1. PICK answer \in Answers :
          /\ IF Renderable(k) THEN Respond(k, answer)
             ELSE answer = "rejected" /\ NotExecuted /\ UNCHANGED <<req, faults>>
          /\ eff' = [eff EXCEPT ![k].out = answer]
          /\ \/ UNCHANGED row
             \/ /\ IsCreate(k) /\ answer = "answered" /\ row[k[2]] = "none"
                /\ row' = [row EXCEPT ![k[2]] = "claimed"]
    BY <1>1 DEF SubmitEffect
  <2>2. /\ ProviderTypeOK' /\ guest' = guest
        /\ \/ /\ Feasible(k) /\ Execute(k) /\ req' = req /\ answer # "rejected"
           \/ /\ NotExecuted /\ req' \in {req, req \cup {k}} /\ answer # "answered"
              /\ answer = "rejected" => req' = req
    <3>1. CASE Renderable(k)
      BY <1>0, <2>1, <3>1, RespondFacts
    <3>2. CASE ~Renderable(k)
      BY <1>0, <2>1, <3>2 DEF NotExecuted, ProviderTypeOK
    <3> QED BY <3>1, <3>2
  <2>3. At(w, <<"prepared", k>>) /\ lock' = "free" /\ Goto(w, Idle) /\ UNCHANGED buildVars
    BY <1>1 DEF SubmitEffect, EndJob
  <2>4. Ends(w, k, answer)
    BY <2>1, <2>2, <2>3 DEF Ends
  <2> QED BY <2>4
<1>2. CASE SubmitterDies(w, k)
  <2>1. /\ At(w, <<"prepared", k>>) /\ lock' = "free" /\ Goto(w, Idle) /\ UNCHANGED buildVars
        /\ Respond(k, "unknown") /\ eff' = eff /\ row' = row
    BY <1>2 DEF SubmitterDies, EndJob, journalVars
  <2>2. /\ ProviderTypeOK' /\ guest' = guest
        /\ \/ Feasible(k) /\ Execute(k) /\ req' = req
           \/ NotExecuted /\ req' \in {req, req \cup {k}}
    BY <1>0, <2>1, RespondFacts DEF Answers
  <2>3. eff[k].out = "prepared"
    BY <1>0, <2>1 DEF SentInv
  <2>4. eff' = [eff EXCEPT ![k].out = "prepared"]
    <3>1. eff \in [Commands -> Effect] /\ eff[k] \in Effect
      BY <1>0 DEF JournalTypeOK
    <3>2. [eff[k] EXCEPT !.out = "prepared"] = eff[k]
      BY <2>3, <3>1 DEF Effect
    <3> QED BY <2>1, <3>1, <3>2
  <2>5. Ends(w, k, "prepared")
    BY <2>1, <2>2, <2>4 DEF Ends
  <2> QED BY <2>5
<1> QED BY <1>1, <1>2

LEMMA SubmitKeeps ==
  ASSUME ImageInv, NEW w \in Workers, NEW k \in Commands, NEW out \in Answers \cup {"prepared"}, Ends(w, k, out)
  PROVE  ImageInv'
<1> DEFINE q == k[2]
<1>0. /\ TypeOK /\ SentInv /\ RoleInv /\ PreparedInv /\ SanitizeInv /\ ReleaseInv
      /\ JournalTypeOK /\ ProviderTypeOK /\ req \subseteq Commands
  BY DEF ImageInv, TypeOK, ProviderTypeOK
<1>1. /\ job[w] = <<"prepared", k>> /\ lock = w /\ eff[k].out = "prepared" /\ eff[k].res = "pending"
      /\ q \in Roles /\ row[q] \in RowState
  BY <1>0, EffectFacts, CommandFacts DEF Ends, SentInv, At, Pending
<1>2. k = Create(q) => /\ res[q] = "none" /\ k \notin req /\ state \in {"running", "cleaning"}
                       /\ row[q] = "none"
  BY <1>0, <1>1 DEF PreparedInv, At, RoleInv, RoleAt
<1>3. /\ lock' = "free" /\ Goto(w, Idle) /\ ProviderTypeOK' /\ guest' = guest
      /\ UNCHANGED <<state, asked, retain, clock, specOver, work, verif, signings, pub, keys, accessGone, pin>>
  BY DEF Ends, buildVars
<1>4. /\ eff' \in [Commands -> Effect] /\ row' \in [Roles -> RowState]
      /\ eff'[k].out = out /\ eff'[k].res = "pending"
      /\ \A j \in Commands : j # k => eff'[j] = eff[j]
      /\ \A r \in Roles : r # q => row'[r] = row[r]
      /\ \/ row'[q] = row[q]
         \/ IsCreate(k) /\ out = "answered" /\ row[q] = "none" /\ row'[q] = "claimed"
  <2> DEFINE e == [eff[k] EXCEPT !.out = out]
  <2>1. e \in Effect /\ e.out = out /\ e.res = "pending" /\ "claimed" \in RowState
    BY <1>0, <1>1, EffectFacts DEF Effect, Answers, RowState
  <2>2. /\ eff' = [eff EXCEPT ![k] = e]
        /\ \/ row' = row
           \/ /\ IsCreate(k) /\ out = "answered" /\ row[q] = "none"
              /\ row' = [row EXCEPT ![q] = "claimed"]
    BY DEF Ends
  <2> HIDE DEF e
  <2>3. eff' \in [Commands -> Effect] /\ eff'[k] = e /\ \A j \in Commands : j # k => eff'[j] = eff[j]
    BY <1>0, <2>1, <2>2 DEF JournalTypeOK
  <2>4. /\ row' \in [Roles -> RowState] /\ \A r \in Roles : r # q => row'[r] = row[r]
        /\ \/ row'[q] = row[q]
           \/ IsCreate(k) /\ out = "answered" /\ row[q] = "none" /\ row'[q] = "claimed"
    BY <1>0, <1>1, <2>1, <2>2 DEF JournalTypeOK
  <2> QED BY <2>1, <2>3, <2>4
<1>5. /\ \/ Feasible(k) /\ Execute(k) /\ req' = req /\ out # "rejected"
         \/ /\ UNCHANGED <<res, power, guest, clean>> /\ req' \in {req, req \cup {k}} /\ out # "answered"
            /\ out = "rejected" => req' = req
  BY DEF Ends, NotExecuted
<1>6. ResourceStep({k}) /\ req' \subseteq req \cup {k}
  <2>1. CASE Feasible(k) /\ Execute(k) /\ req' = req
    BY <1>0, <1>2, <1>3, <2>1, ExecuteStep
  <2>2. CASE UNCHANGED <<res, power, guest, clean>> /\ req' \in {req, req \cup {k}}
    BY <1>3, <2>2, RoleFacts DEF ResourceStep
  <2> QED BY <1>5, <2>1, <2>2
<1>7. Known({k})
  <2>1. ASSUME NEW r \in Roles, Create(r) \in {k} PROVE res[r] = "none" /\ state \notin {"cleaned", "retained"}
    <3>1. k = Create(r) /\ r = q
      BY <2>1, RoleFacts
    <3> QED BY <1>2, <3>1
  <2> QED BY <1>1, <2>1 DEF Known
<1>8. \A j \in Commands : eff'[j].out # "none" => eff[j].out # "none"
  BY <1>1, <1>4
<1>9. /\ SnapshotInv' /\ CleanedIsEmpty' /\ RetainedIsSound' /\ PinnedSnapshotStays'
      /\ Sanitized' => guest' = "sanitized"
  BY <1>3, <1>6, <1>7, <1>8, ResourceKeeps DEF buildVars
<1>10. /\ job' \in [Workers -> Jobs] /\ job'[w] = Idle /\ \A v \in Workers \ {w} : job'[v] = job[v]
  BY <1>0, <1>3, JobFacts, GotoFacts
<1>11. \A v \in Workers : /\ job'[v] # <<"sanitizing">>
                          /\ \A j \in Commands : job'[v] # <<"prepared", j>>
  <2>1. Idle # <<"sanitizing">> /\ \A j \in Commands : Idle # <<"prepared", j>>
    BY PlanFacts DEF Plans
  <2> QED BY <1>0, <1>1, <1>10, <2>1 DEF SentInv, SanitizeInv, At
<1>12. TypeOK'
  BY <1>0, <1>3, <1>4, <1>10 DEF TypeOK, JournalTypeOK
<1>13. SentInv'
  <2>1. out # "none"
    BY DEF Answers
  <2>2. \A j \in Commands : eff'[j].out = "none" <=> eff'[j].res = "none"
    BY <1>0, <1>4, <2>1 DEF SentInv
  <2>3. \A j \in req' : eff'[j].out # "none"
    BY <1>0, <1>4, <1>6, <2>1 DEF SentInv
  <2> QED BY <1>11, <2>2, <2>3 DEF SentInv, At
<1> HIDE DEF q
<1>14. ASSUME NEW r \in Roles PROVE RoleAt(r)'
  <2>1. Create(r) \in Commands /\ Delete(r) \in Commands /\ RoleAt(r)
        /\ (r # q => k # Create(r) /\ k # Delete(r)) /\ Create(r) # Delete(r)
    <3>1. Create(r)[1] = "create" /\ Delete(r)[1] = "delete"
      BY RoleFacts
    <3>2. Create(r) # Delete(r)
      BY <3>1
    <3> QED BY <1>0, <3>2, RoleFacts DEF RoleInv, q
  <2>2. CASE k # Create(r)
    <3>1. eff'[Create(r)] = eff[Create(r)] /\ row'[r] = row[r]
      <4>1. r = q => ~IsCreate(k)
        BY <2>2, CommandFacts DEF q
      <4> QED BY <1>1, <1>4, <2>1, <2>2, <4>1
    <3>2. eff'[Delete(r)].out # "none" => row[r] # "none"
      BY <1>8, <2>1 DEF RoleAt
    <3>3. Create(r) \in req' => Create(r) \in req
      BY <1>6, <2>2
    <3>4. res'[r] = res[r] \/ (res[r] \notin {"none", "gone"} /\ res'[r] # "none")
      BY <1>6, <2>2 DEF ResourceStep
    <3> QED BY <2>1, <3>1, <3>2, <3>3, <3>4 DEF RoleAt, Pending
  <2>3. CASE k = Create(r)
    <3>1. r = q /\ IsCreate(k) /\ k = Create(q)
      BY <2>1, <2>3, CommandFacts DEF q
    <3>2. /\ res[r] = "none" /\ k \notin req /\ row[r] = "none"
          /\ eff'[Delete(r)] = eff[Delete(r)] /\ eff[Delete(r)].out = "none"
      BY <1>2, <1>4, <2>1, <2>3, <3>1 DEF RoleAt
    <3>3. row'[r] = "none" \/ (out = "answered" /\ row'[r] = "claimed")
      BY <1>4, <3>1, <3>2
    <3>4. CASE Feasible(k) /\ Execute(k) /\ req' = req /\ out # "rejected"
      <4>1. res'[r] # "none"
        BY <1>0, <3>1, <3>4, ExecuteFacts DEF q
      <4> QED BY <1>4, <2>3, <3>2, <3>3, <3>4, <4>1 DEF RoleAt, Pending, Answers
    <3>5. CASE /\ UNCHANGED <<res, power, guest, clean>> /\ req' \in {req, req \cup {k}} /\ out # "answered"
               /\ out = "rejected" => req' = req
      BY <1>4, <2>3, <3>2, <3>3, <3>5 DEF RoleAt, Pending, Answers
    <3> QED BY <1>5, <3>4, <3>5
  <2> QED BY <2>2, <2>3
<1>15. RoleInv'
  <2>1. row["builder"] # "none" => row'["builder"] # "none"
    BY <1>4, RoleFacts
  <2> QED BY <1>0, <1>8, <1>14, <2>1, RoleFacts DEF RoleInv
<1>16. PreparedInv'
  BY <1>11, RoleFacts DEF PreparedInv, At
<1>17. SanitizeInv' /\ ReleaseInv'
  BY <1>0, <1>3, <1>9, <1>11 DEF SanitizeInv, ReleaseInv, At
<1> QED BY <1>9, <1>12, <1>13, <1>15, <1>16, <1>17 DEF ImageInv

-----------------------------------------------------------------------------
LEMMA ImageInit == Init => ImageInv
<1> SUFFICES ASSUME Init PROVE ImageInv
  OBVIOUS
<1> USE DEF Init, ProviderInit, JournalInit
<1>1. TypeOK
  <2>1. 0 \in 0..MaxFaults /\ 0 \in 0..MaxSignings
    BY WorkerFacts
  <2>2. ProviderTypeOK
    BY <2>1 DEF ProviderTypeOK, Status
  <2>3. JournalTypeOK
    BY DEF JournalTypeOK, Effect, RowState
  <2>4. job \in [Workers -> Jobs]
    BY JobFacts
  <2> QED BY <2>1, <2>2, <2>3, <2>4 DEF TypeOK
<1>2. \A w \in Workers, k \in Commands : job[w] # <<"prepared", k>> /\ job[w] # <<"sanitizing">>
  BY PlanFacts DEF Plans
<1>3. SentInv /\ PreparedInv
  BY <1>2, RoleFacts DEF SentInv, PreparedInv, At
<1>4. RoleInv
  BY RoleFacts DEF RoleInv, RoleAt, Pending
<1>5. SnapshotInv
  BY RoleFacts DEF SnapshotInv
<1>6. \A w \in Workers : job[w] # <<"sanitizing">>
  BY PlanFacts DEF Plans
<1>7. SanitizeInv /\ ReleaseInv
  BY <1>6 DEF SanitizeInv, ReleaseInv, At, Sanitized
<1>8. CleanedIsEmpty /\ RetainedIsSound /\ PinnedSnapshotStays
  BY DEF CleanedIsEmpty, RetainedIsSound, PinnedSnapshotStays, InUse
<1> QED BY <1>1, <1>3, <1>4, <1>5, <1>7, <1>8 DEF ImageInv

LEMMA WorkerKeeps ==
  ASSUME ImageInv, NEW w \in Workers, Work(w) \/ Dies(w)
  PROVE  ImageInv'
<1>1. CASE \/ PlanPending(w) \/ PlanStep(w) \/ PlanAbort(w) \/ PlanCleanup(w) \/ CleanupRefused(w)
           \/ LockBusy(w) \/ WorkerDies(w) \/ SanitationLost(w) \/ BuilderRefused(w)
  BY <1>1, PlanQuiet, QuietKeeps
<1>2. CASE Install(w) \/ StartSanitation(w) \/ SaveSanitized(w) \/ SanitationFails(w)
  BY <1>2, BuilderQuiet, QuietKeeps
<1>3. CASE \/ PrepareVerification(w) \/ CheckVerifier(w) \/ PreparePublication(w) \/ PublishRelease(w)
           \/ RetireKeys(w) \/ RecordAccessGone(w)
  BY <1>3, ReleaseQuiet, QuietKeeps
<1>4. CASE PlanImageCleanup(w)
  BY <1>4, CleanupKeeps
<1>5. ASSUME NEW k \in Commands, PrepareEffect(w, k) PROVE ImageInv'
  BY <1>5, PrepareKeeps
<1>6. ASSUME NEW k \in Commands, ReconcileEffect(w, k) PROVE ImageInv'
  BY <1>6, ReconcileKeeps
<1>7. ASSUME NEW k \in Commands, SubmitEffect(w, k) \/ SubmitterDies(w, k) PROVE ImageInv'
  BY <1>7, SubmissionEnds, SubmitKeeps
<1> QED BY <1>1, <1>2, <1>3, <1>4, <1>5, <1>6, <1>7 DEF Work, EffectStep, Dies

LEMMA ImageNext == ImageInv /\ [Next]_vars => ImageInv'
<1> SUFFICES ASSUME ImageInv, [Next]_vars PROVE ImageInv'
  OBVIOUS
<1>1. CASE \/ PrepareAccess \/ AdmitImageBuild \/ RequestImageRun \/ RequestImageCleanup
           \/ PinAllocationImage \/ SettlePin \/ TimePasses
  BY <1>1, OperatorQuiet, QuietKeeps
<1>2. CASE EnrollClaim \/ EnrollIssue \/ EnrollFails
  BY <1>2, EnrollQuiet, QuietKeeps
<1>3. ASSUME NEW w \in Workers, Work(w) \/ Dies(w) PROVE ImageInv'
  BY <1>3, WorkerKeeps
<1>4. CASE ProviderStep /\ UNCHANGED <<journalVars, buildVars, job, lock>>
  BY <1>4, ProviderKeeps
<1>5. CASE UNCHANGED vars
  <2>1. UNCHANGED <<res, req, power, guest, clean, faults, eff, row, state, asked, retain, clock, specOver, work,
                    verif, signings, pub, keys, accessGone, pin, job, lock>>
    BY <1>5 DEF vars, providerVars, journalVars, buildVars
  <2>2. QuietStep
    BY <2>1, QuietFacts DEF QuietStep, TypeOK, ProviderTypeOK, JournalTypeOK, SanitizeInv, ReleaseInv, At, Sanitized
  <2> QED BY <2>2, QuietKeeps
<1> QED BY <1>1, <1>2, <1>3, <1>4, <1>5 DEF Next

\* The rows, effects, requests and jobs of an image build agree in every reachable
\* state, for any workers and any number of faults and signings.
THEOREM ImageCorrect == Spec => []ImageInv
<1>1. Init => ImageInv BY ImageInit
<1>2. ImageInv /\ [Next]_vars => ImageInv' BY ImageNext
<1> QED BY <1>1, <1>2, PTL DEF Spec

\* cleanupImageBuild ends a build only when nothing of it exists and no request of
\* unknown outcome can still make anything.
THEOREM NothingLeft == Spec => []CleanedIsEmpty
<1>1. ImageInv => CleanedIsEmpty BY DEF ImageInv
<1> QED BY <1>1, ImageCorrect, PTL

\* publishRelease retains only the verified snapshot of a sanitized, stopped builder,
\* alone, with the builder's access keys off the disk; and so it stays.
THEOREM ReleaseSound == Spec => []RetainedIsSound
<1>1. ImageInv => RetainedIsSound BY DEF ImageInv
<1> QED BY <1>1, ImageCorrect, PTL

\* No deletion reaches a snapshot that a customer create has pinned.
THEOREM PinHolds == Spec => []PinnedSnapshotStays
<1>1. ImageInv => PinnedSnapshotStays BY DEF ImageInv
<1> QED BY <1>1, ImageCorrect, PTL
=============================================================================
