---------------------------- MODULE ScheduleProofs ----------------------------
(***************************************************************************)
(* Backup schedules and retention, for any number of reconcilers,          *)
(* schedules and captures, any day length and any policy: no burst of      *)
(* captures, and what retention removes is outlived by the days it keeps.  *)
(*                                                                         *)
(* Neither is inductive. That two captures are a day apart rests on the    *)
(* next run of a schedule being a day after every capture it made. That    *)
(* an expired capture stays outlived when a capture that outlived it       *)
(* expires too rests on the days that outlive the second one: they are     *)
(* later still, and of the same app.                                       *)
(***************************************************************************)
EXTENDS BackupSchedules, SequenceTheorems, FiniteSetTheorems, TLAPS

\* The next run of a schedule is a day after every capture it made.
NextRunLater ==
  \A s \in Schedules :
    /\ sched[s].state = "none" => Made(s) = {}
    /\ \A i \in Made(s) : bks[i].at + DayLength <= sched[s].nextRunAt /\ bks[i].app = App[s]

Inv == TypeOK /\ NextRunLater /\ NoBurst /\ RetentionKeeps

-----------------------------------------------------------------------------
LEMMA Bounds ==
  /\ DayLength \in Nat /\ DayLength >= 1 /\ Keep \in Nat /\ Retain \in Nat /\ MaxTime \in Nat
  /\ MaxBackups \in Nat /\ "customer" \notin Schedules
BY SchedulesAssumption

\* The captures are well-formed.
LEMMA BackupFacts ==
  ASSUME TypeOK
  PROVE  /\ Len(bks) \in Nat /\ DOMAIN bks = 1..Len(bks) /\ now \in Nat /\ now <= MaxTime
         /\ \A i \in DOMAIN bks : /\ bks[i] \in Backup /\ bks[i].at \in Nat /\ bks[i].at <= MaxTime
                                  /\ bks[i].by \in Schedules \cup {"customer"}
         /\ \A s \in Schedules : sched[s] \in Schedule /\ sched[s].nextRunAt \in Nat
<1>1. Len(bks) \in Nat /\ DOMAIN bks = 1..Len(bks) /\ \A i \in 1..Len(bks) : bks[i] \in Backup
  BY DEF TypeOK
<1>2. now \in Nat /\ now <= MaxTime
  BY Bounds DEF TypeOK, Time
<1>3. \A i \in DOMAIN bks : /\ bks[i].at \in Nat /\ bks[i].at <= MaxTime
                            /\ bks[i].by \in Schedules \cup {"customer"}
  BY <1>1, Bounds DEF Backup, Time
<1>4. \A s \in Schedules : sched[s] \in Schedule
  BY DEF TypeOK
<1>5. \A s \in Schedules : sched[s].nextRunAt \in Nat
  BY <1>4, Bounds DEF Schedule
<1> QED BY <1>1, <1>2, <1>3, <1>4, <1>5

\* A capture added at the end.
LEMMA AddBackup ==
  ASSUME TypeOK, NEW b \in Backup, bks' = Append(bks, b), Len(bks) < MaxBackups
  PROVE  /\ bks' \in Seq(Backup) /\ Len(bks') <= MaxBackups
         /\ DOMAIN bks' = DOMAIN bks \cup {Len(bks) + 1} /\ Len(bks) + 1 \notin DOMAIN bks
         /\ bks'[Len(bks) + 1] = b /\ \A i \in DOMAIN bks : bks'[i] = bks[i]
         /\ \A i \in DOMAIN bks : i < Len(bks) + 1
<1>1. bks \in Seq(Backup) /\ Len(bks) \in Nat /\ DOMAIN bks = 1..Len(bks)
  BY BackupFacts DEF TypeOK
<1>2. /\ bks' \in Seq(Backup) /\ Len(bks') = Len(bks) + 1 /\ bks'[Len(bks) + 1] = b
      /\ \A i \in 1..Len(bks) : bks'[i] = bks[i]
  BY <1>1
<1>3. DOMAIN bks' = 1..(Len(bks) + 1)
  BY <1>1, <1>2
<1> QED BY <1>1, <1>2, <1>3, Bounds

\* A capture that changes its state.
LEMMA ChangeBackup ==
  ASSUME TypeOK, NEW i \in DOMAIN bks,
         NEW to \in {"pending", "captured", "blocked", "purged", "expired"},
         bks' = [bks EXCEPT ![i].state = to]
  PROVE  /\ bks' \in Seq(Backup) /\ Len(bks') <= MaxBackups /\ DOMAIN bks' = DOMAIN bks
         /\ bks'[i].state = to
         /\ \A j \in DOMAIN bks : /\ j # i => bks'[j] = bks[j]
                                  /\ bks'[j].by = bks[j].by /\ bks'[j].app = bks[j].app /\ bks'[j].at = bks[j].at
<1> DEFINE b == [bks[i] EXCEPT !.state = to]
<1>1. bks \in Seq(Backup) /\ bks[i] \in Backup /\ i \in 1..Len(bks)
  BY BackupFacts DEF TypeOK
<1>2. b \in Backup /\ b.state = to /\ b.by = bks[i].by /\ b.app = bks[i].app /\ b.at = bks[i].at
  BY <1>1 DEF Backup
<1>3. bks' = [bks EXCEPT ![i] = b]
  OBVIOUS
<1> HIDE DEF b
<1>4. bks' \in Seq(Backup) /\ Len(bks') = Len(bks) /\ DOMAIN bks' = DOMAIN bks
  BY <1>1, <1>2, <1>3, ExceptSeq
<1>5. bks'[i] = b /\ \A j \in DOMAIN bks : j # i => bks'[j] = bks[j]
  BY <1>3
<1> QED BY <1>2, <1>4, <1>5 DEF TypeOK

LEMMA LongerWait ==
  ASSUME NEW a \in Nat, NEW m \in Nat, a + DayLength <= m
  PROVE  a + DayLength <= m + DayLength
BY Bounds

LEMMA DayType == \A t \in Nat : Day(t) \in Int
BY Bounds DEF Day

\* The days of finitely many captures are finitely many.
LEMMA DaysFinite ==
  ASSUME NEW b, NEW D \in SUBSET Int, IsFiniteSet(D), NEW S \in SUBSET D
  PROVE  IsFiniteSet({Day(b[j].at) : j \in S})
<1> DEFINE T == {Day(b[j].at) : j \in S}
           f == [j \in S |-> Day(b[j].at)]
<1>1. IsFiniteSet(S)
  BY FS_Subset
<1>2. f \in Surjection(S, T)
  <2>1. f \in [S -> T] /\ \A t \in T : \E j \in S : f[j] = t
    OBVIOUS
  <2> QED BY <2>1 DEF Surjection
<1> QED BY <1>1, <1>2, FS_Surjection

\* The captures of a sequence are finitely many.
LEMMA DomainFinite ==
  ASSUME NEW b \in Seq(Backup)
  PROVE  DOMAIN b \in SUBSET Int /\ IsFiniteSet(DOMAIN b)
<1>1. DOMAIN b = 1..Len(b) /\ 1 \in Int /\ Len(b) \in Int
  OBVIOUS
<1> QED BY <1>1, FS_Interval

LEMMA MoreDays ==
  ASSUME NEW S, NEW T, IsFiniteSet(T), S \subseteq T, Cardinality(S) >= Keep
  PROVE  Cardinality(T) >= Keep
<1>1. Cardinality(S) <= Cardinality(T) /\ IsFiniteSet(S)
  BY FS_Subset
<1>2. Cardinality(S) \in Nat /\ Cardinality(T) \in Nat
  BY <1>1, FS_CardinalityType
<1> QED BY <1>1, <1>2, Bounds

Kept == {"captured", "purged"}

\* The captures that outlive one, and their days.
Later(b, i, states) ==
  {j \in DOMAIN b : /\ b[j].by \in Schedules /\ App[b[j].by] = b[i].app
                    /\ b[j].state \in states /\ Day(b[j].at) > Day(b[i].at)}

LEMMA LaterFinite ==
  ASSUME NEW b \in Seq(Backup), NEW i, NEW states
  PROVE  IsFiniteSet({Day(b[j].at) : j \in Later(b, i, states)})
<1>1. Later(b, i, states) \in SUBSET (DOMAIN b)
  BY DEF Later
<1> QED BY <1>1, DomainFinite, DaysFinite

LEMMA CapturedFinite ==
  ASSUME TypeOK', NEW i, NEW states
  PROVE  IsFiniteSet(Captured(i, states)')
<1>1. bks' \in Seq(Backup)
  BY DEF TypeOK
<1>2. IsFiniteSet({Day(bks'[j].at) : j \in Later(bks', i, states)})
  BY <1>1, LaterFinite
<1>3. Captured(i, states)' = {Day(bks'[j].at) : j \in Later(bks', i, states)}
  BY DEF Captured, Made, Later
<1> QED BY <1>2, <1>3

-----------------------------------------------------------------------------
(* The steps, by what they do to the captures.                                *)

\* Nothing changes in what was captured and removed, except that more may be captured.
Outlived ==
  /\ DOMAIN bks \subseteq DOMAIN bks'
  /\ \A j \in DOMAIN bks : /\ bks'[j].by = bks[j].by /\ bks'[j].app = bks[j].app /\ bks'[j].at = bks[j].at
                           /\ bks[j].state \in Kept => bks'[j].state \in Kept
  /\ \A j \in DOMAIN bks' : bks'[j].state = "expired" => j \in DOMAIN bks /\ bks[j].state = "expired"

LEMMA OutlivedKeeps ==
  ASSUME TypeOK, TypeOK', RetentionKeeps, Outlived
  PROVE  RetentionKeeps'
<1> SUFFICES ASSUME NEW i \in DOMAIN bks', bks'[i].state = "expired"
             PROVE  Cardinality(Captured(i, Kept)') >= Keep
  BY DEF RetentionKeeps, Kept
<1>1. i \in DOMAIN bks /\ bks[i].state = "expired"
  BY DEF Outlived
<1>2. Cardinality(Captured(i, Kept)) >= Keep
  BY <1>1 DEF RetentionKeeps, Kept
<1>3. Captured(i, Kept) \subseteq Captured(i, Kept)'
  BY <1>1 DEF Captured, Made, Outlived
<1>4. IsFiniteSet(Captured(i, Kept)')
  BY CapturedFinite
<1> QED BY <1>2, <1>3, <1>4, MoreDays

\* A capture that expires hands over to the days that outlive it: they are
\* later than those of every capture it outlived, and of the same app.
LEMMA ExpiryKeeps ==
  ASSUME Inv, TypeOK', NEW i \in DOMAIN bks, Eligible(i),
         bks' = [bks EXCEPT ![i].state = "expired"]
  PROVE  RetentionKeeps'
<1>1. /\ DOMAIN bks' = DOMAIN bks /\ bks'[i].state = "expired"
      /\ \A j \in DOMAIN bks : /\ j # i => bks'[j] = bks[j]
                               /\ bks'[j].by = bks[j].by /\ bks'[j].app = bks[j].app /\ bks'[j].at = bks[j].at
  BY ChangeBackup DEF Inv
<1>2. \A j \in DOMAIN bks : /\ Day(bks[j].at) \in Int /\ bks[j].by \in Schedules \cup {"customer"}
                            /\ \A s \in Schedules : bks[j].by = s => App[s] = bks[j].app
  BY BackupFacts, DayType DEF Inv, NextRunLater, Made
<1>3. /\ bks[i].state = "captured" /\ bks[i].by \in Schedules /\ Cardinality(LaterDays(i)) >= Keep
  BY <1>2 DEF Eligible
<1> SUFFICES ASSUME NEW k \in DOMAIN bks', bks'[k].state = "expired"
             PROVE  Cardinality(Captured(k, Kept)') >= Keep
  BY DEF RetentionKeeps, Kept
<1>4. IsFiniteSet(Captured(k, Kept)')
  BY CapturedFinite
<1>5. ASSUME bks[k].app = bks[i].app, Day(bks[k].at) <= Day(bks[i].at)
      PROVE  LaterDays(i) \subseteq Captured(k, Kept)'
  <2> SUFFICES ASSUME NEW j \in DOMAIN bks, bks[j].by # "customer", bks[j].app = bks[i].app,
                      bks[j].state = "captured", Day(bks[j].at) > Day(bks[i].at)
               PROVE  Day(bks[j].at) \in Captured(k, Kept)'
    BY DEF LaterDays
  <2>1. j # i /\ Day(bks[j].at) > Day(bks[k].at)
    BY <1>1, <1>2, <1>5
  <2>2. bks[j].by \in Schedules /\ App[bks[j].by] = bks[k].app
    BY <1>2, <1>5, Bounds
  <2>3. /\ bks'[j] = bks[j] /\ bks'[k].at = bks[k].at /\ bks'[k].app = bks[k].app
        /\ j \in DOMAIN bks'
    BY <1>1, <2>1
  <2> QED BY <2>1, <2>2, <2>3 DEF Captured, Made, Kept
<1>6. CASE bks[k].app = bks[i].app /\ Day(bks[k].at) <= Day(bks[i].at)
  BY <1>3, <1>4, <1>5, <1>6, MoreDays
<1>7. CASE ~(bks[k].app = bks[i].app /\ Day(bks[k].at) <= Day(bks[i].at))
  <2>1. k # i /\ k \in DOMAIN bks /\ bks[k].state = "expired"
    BY <1>1, <1>2, <1>7
  <2>2. Cardinality(Captured(k, Kept)) >= Keep
    BY <2>1 DEF Inv, RetentionKeeps, Kept
  <2>3. Captured(k, Kept) \subseteq Captured(k, Kept)'
    <3> SUFFICES ASSUME NEW j \in DOMAIN bks, NEW s \in Schedules, bks[j].by = s, App[s] = bks[k].app,
                        bks[j].state \in Kept, Day(bks[j].at) > Day(bks[k].at)
                 PROVE  Day(bks[j].at) \in Captured(k, Kept)'
      BY DEF Captured, Made
    <3>1. j # i
      <4> SUFFICES ASSUME j = i PROVE FALSE
        OBVIOUS
      <4>1. bks[i].app = bks[k].app
        BY <1>2
      <4>2. Day(bks[k].at) \in Int /\ Day(bks[i].at) \in Int
        BY <1>2, <2>1
      <4> QED BY <1>7, <4>1, <4>2
    <3> QED BY <1>1, <2>1, <3>1 DEF Captured, Made
  <2> QED BY <1>4, <2>2, <2>3, MoreDays
<1> QED BY <1>6, <1>7

-----------------------------------------------------------------------------
(* The captures of a schedule stay a day apart.                               *)

\* A step that makes no capture, and takes no schedule back.
LEMMA SameMade ==
  ASSUME Inv, TypeOK', DOMAIN bks' = DOMAIN bks,
         \A j \in DOMAIN bks : bks'[j].by = bks[j].by /\ bks'[j].app = bks[j].app /\ bks'[j].at = bks[j].at,
         \A s \in Schedules : /\ sched'[s].state = "none" => sched[s].state = "none"
                              /\ \/ sched[s].state = "none"
                                 \/ sched'[s].nextRunAt >= sched[s].nextRunAt
  PROVE  NextRunLater' /\ NoBurst'
<1>1. \A s \in Schedules : Made(s)' = Made(s)
  BY DEF Made
<1>2. \A s \in Schedules : sched[s].nextRunAt \in Nat /\ sched'[s].nextRunAt \in Nat
  <2>1. \A s \in Schedules : sched[s] \in Schedule /\ sched'[s] \in Schedule
    BY DEF Inv, TypeOK
  <2> QED BY <2>1, Bounds DEF Schedule
<1>3. \A i \in DOMAIN bks : bks[i].at \in Nat
  BY BackupFacts DEF Inv
<1>4. ASSUME NEW s \in Schedules
      PROVE  /\ sched'[s].state = "none" => Made(s)' = {}
             /\ \A i \in Made(s)' : bks'[i].at + DayLength <= sched'[s].nextRunAt /\ bks'[i].app = App[s]
  <2>1. sched[s].state = "none" => Made(s) = {}
    BY DEF Inv, NextRunLater
  <2>2. \A i \in Made(s) : bks[i].at + DayLength <= sched[s].nextRunAt /\ bks[i].app = App[s]
    BY DEF Inv, NextRunLater
  <2>3. \A i \in Made(s) : i \in DOMAIN bks
    BY DEF Made
  <2> QED BY <1>1, <1>2, <1>3, <2>1, <2>2, <2>3, Bounds
<1>5. NextRunLater'
  BY <1>4 DEF NextRunLater
<1>6. NoBurst'
  <2>1. ASSUME NEW s \in Schedules, NEW i \in Made(s), NEW j \in Made(s), i < j
        PROVE  bks'[j].at >= bks'[i].at + DayLength
    <3>1. bks[j].at >= bks[i].at + DayLength
      BY <2>1 DEF Inv, NoBurst
    <3>2. bks'[j].at = bks[j].at /\ bks'[i].at = bks[i].at
      BY DEF Made
    <3> QED BY <3>1, <3>2
  <2> QED BY <1>1, <2>1 DEF NoBurst
<1> QED BY <1>5, <1>6

\* A capture is added, by a customer or by a schedule that is due.
LEMMA OneMore ==
  ASSUME Inv, TypeOK', NEW b \in Backup, bks' = Append(bks, b), Len(bks) < MaxBackups,
         \/ b.by = "customer" /\ sched' = sched
         \/ \E s \in Schedules :
              /\ b.by = s /\ b.app = App[s] /\ b.at = now
              /\ sched[s].state # "none" /\ sched[s].nextRunAt <= now
              /\ sched'[s].state # "none" /\ sched'[s].nextRunAt = now + DayLength
              /\ \A o \in Schedules \ {s} : sched'[o] = sched[o]
  PROVE  (NextRunLater' /\ NoBurst' /\ RetentionKeeps') \/ b.state = "expired"
<1> DEFINE n == Len(bks) + 1
<1>1. /\ DOMAIN bks' = DOMAIN bks \cup {n} /\ n \notin DOMAIN bks /\ bks'[n] = b
      /\ \A i \in DOMAIN bks : bks'[i] = bks[i] /\ i < n
  BY AddBackup DEF Inv
<1>2. \A s \in Schedules : Made(s)' = Made(s) \cup {x \in {n} : b.by = s}
  BY <1>1 DEF Made
<1>3. /\ n \in Nat /\ DOMAIN bks \subseteq Nat /\ now \in Nat
      /\ \A i \in DOMAIN bks : bks[i].at \in Nat
      /\ \A s \in Schedules : sched[s].nextRunAt \in Nat
  BY BackupFacts DEF Inv
<1> HIDE DEF n
<1>4. ASSUME NEW s \in Schedules
      PROVE  /\ sched'[s].state = "none" => Made(s)' = {}
             /\ \A i \in Made(s)' : bks'[i].at + DayLength <= sched'[s].nextRunAt /\ bks'[i].app = App[s]
             /\ \A i, j \in Made(s)' : i < j => bks'[j].at >= bks'[i].at + DayLength
  <2>1. /\ sched[s].state = "none" => Made(s) = {}
        /\ \A i \in Made(s) : bks[i].at + DayLength <= sched[s].nextRunAt /\ bks[i].app = App[s]
        /\ \A i, j \in Made(s) : i < j => bks[j].at >= bks[i].at + DayLength
    BY DEF Inv, NextRunLater, NoBurst
  <2>2. \A i \in Made(s) : i \in DOMAIN bks /\ bks'[i] = bks[i] /\ i < n /\ bks[i].at \in Nat
    BY <1>1, <1>3 DEF Made
  <2>3. CASE b.by = s
    <3>1. /\ b.app = App[s] /\ b.at = now /\ sched[s].nextRunAt <= now
          /\ sched'[s].state # "none" /\ sched'[s].nextRunAt = now + DayLength
      BY <2>3, Bounds
    <3>2. Made(s)' = Made(s) \cup {n}
      BY <1>2, <2>3
    <3>3. \A i \in Made(s) : /\ bks'[i].at + DayLength <= sched'[s].nextRunAt /\ bks'[i].app = App[s]
                             /\ bks'[n].at >= bks'[i].at + DayLength /\ ~(n < i)
      <4> TAKE i \in Made(s)
      <4>1. bks[i].at + DayLength <= sched[s].nextRunAt /\ bks[i].app = App[s]
        BY <2>1
      <4>2. i \in Nat /\ i < n /\ bks'[i] = bks[i] /\ bks[i].at \in Nat /\ bks'[n].at = now
        BY <1>1, <1>3, <2>2, <3>1
      <4>3. now \in Nat /\ n \in Nat /\ sched[s].nextRunAt \in Nat
        BY <1>3
      <4>4. bks'[i].at + DayLength <= now
        <5>1. bks[i].at + DayLength <= now
          BY <3>1, <4>1, <4>2, <4>3, Bounds
        <5> QED BY <4>2, <5>1
      <4>5. bks'[i].at + DayLength <= sched'[s].nextRunAt /\ bks'[n].at >= bks'[i].at + DayLength
        <5>1. bks'[i].at \in Nat /\ bks'[n].at = now /\ sched'[s].nextRunAt = now + DayLength
          BY <3>1, <4>2
        <5>2. bks'[n].at >= bks'[i].at + DayLength
          BY <4>3, <4>4, <5>1
        <5>3. bks'[i].at + DayLength <= now + DayLength
          BY <4>3, <4>4, <5>1, LongerWait
        <5> QED BY <5>1, <5>2, <5>3
      <4>6. ~(n < i)
        BY <4>2, <4>3
      <4> QED BY <4>1, <4>2, <4>5, <4>6
    <3>4. /\ bks'[n].at + DayLength <= sched'[s].nextRunAt /\ bks'[n].app = App[s] /\ ~(n < n)
      BY <1>1, <1>3, <3>1, Bounds
    <3>5. \A i, j \in Made(s) : i < j => bks'[j].at >= bks'[i].at + DayLength
      BY <2>1, <2>2
    <3> QED BY <3>1, <3>2, <3>3, <3>4, <3>5
  <2>4. CASE b.by # s
    <3>1. Made(s)' = Made(s) /\ sched'[s] = sched[s]
      BY <1>2, <2>4
    <3> QED BY <2>1, <2>2, <3>1
  <2> QED BY <2>3, <2>4
<1>5. NextRunLater' /\ NoBurst'
  BY <1>4 DEF NextRunLater, NoBurst
<1>6. CASE b.state # "expired"
  <2>1. Outlived
    BY <1>1, <1>6 DEF Outlived
  <2> QED BY <1>5, <2>1, OutlivedKeeps DEF Inv
<1> QED BY <1>6

-----------------------------------------------------------------------------
(* The steps.                                                                 *)

LEMMA InitTyped ==
  ASSUME Init PROVE TypeOK
<1>1. 0 \in Time /\ 0 \in 0..(MaxTime + DayLength)
  BY Bounds DEF Time
<1>2. sched \in [Schedules -> Schedule]
  BY <1>1 DEF Init, Schedule
<1>3. candidate \in [1..MaxBackups -> BOOLEAN] /\ due \in SUBSET (Workers \X Schedules)
  BY DEF Init
<1>4. bks \in Seq(Backup) /\ Len(bks) <= MaxBackups
  BY Bounds DEF Init
<1> QED BY <1>1, <1>2, <1>3, <1>4 DEF TypeOK, Init

LEMMA InitKept ==
  ASSUME Init PROVE Inv
<1>1. TypeOK
  BY InitTyped
<1>2. DOMAIN bks = {}
  BY DEF Init
<1>3. \A s \in Schedules : Made(s) = {}
  BY <1>2 DEF Made
<1>4. NextRunLater /\ NoBurst
  BY <1>3 DEF NextRunLater, NoBurst
<1>5. RetentionKeeps
  BY <1>2 DEF RetentionKeeps
<1> QED BY <1>1, <1>4, <1>5 DEF Inv

\* What a step leaves of the captures, as the step lemmas need it.
LEMMA NoCapture ==
  ASSUME Inv, TypeOK', bks' = bks,
         \A s \in Schedules : /\ sched'[s].state = "none" => sched[s].state = "none"
                              /\ \/ sched[s].state = "none"
                                 \/ sched'[s].nextRunAt >= sched[s].nextRunAt
  PROVE  Inv'
<1>1. NextRunLater' /\ NoBurst'
  BY SameMade
<1>2. Outlived
  BY DEF Outlived
<1> QED BY <1>1, <1>2, OutlivedKeeps DEF Inv

LEMMA SchedulesUntouched ==
  ASSUME TypeOK, sched' = sched
  PROVE  \A s \in Schedules : /\ sched'[s].state = "none" => sched[s].state = "none"
                              /\ sched'[s].nextRunAt >= sched[s].nextRunAt
BY BackupFacts

LEMMA CreateStep ==
  ASSUME Inv, NEW s \in Schedules, Create(s) PROVE Inv'
<1>1. sched[s].state = "none" /\ bks' = bks
  BY DEF Create
<1>2. sched' = [sched EXCEPT ![s] = [sched[s] EXCEPT !.state = "enabled", !.nextRunAt = now]]
  BY DEF Create
<1>3. [sched[s] EXCEPT !.state = "enabled", !.nextRunAt = now] \in Schedule
  <2>1. now \in 0..(MaxTime + DayLength)
    BY BackupFacts, Bounds DEF Inv
  <2>2. sched[s] \in Schedule
    BY BackupFacts DEF Inv
  <2> QED BY <2>1, <2>2 DEF Schedule
<1>4. TypeOK'
  BY <1>2, <1>3 DEF Inv, TypeOK, Create
<1>5. \A o \in Schedules \ {s} : sched'[o] = sched[o] /\ sched[o].nextRunAt \in Nat
  BY <1>2, BackupFacts DEF Inv
<1>6. sched'[s].state = "enabled"
  BY <1>2, <1>3, BackupFacts DEF Inv, TypeOK, Schedule
<1>7. \A o \in Schedules : /\ sched'[o].state = "none" => sched[o].state = "none"
                           /\ sched[o].state = "none" \/ sched'[o].nextRunAt >= sched[o].nextRunAt
  BY <1>1, <1>5, <1>6
<1> QED BY <1>1, <1>4, <1>7, NoCapture

LEMMA DisableStep ==
  ASSUME Inv, NEW s \in Schedules, Disable(s) PROVE Inv'
<1>1. sched[s].state = "enabled" /\ bks' = bks /\ sched[s] \in Schedule /\ sched[s].nextRunAt \in Nat
  BY BackupFacts DEF Disable, Inv
<1>2. sched' = [sched EXCEPT ![s] = [sched[s] EXCEPT !.state = "disabled"]]
  BY DEF Disable
<1>3. /\ [sched[s] EXCEPT !.state = "disabled"] \in Schedule
      /\ [sched[s] EXCEPT !.state = "disabled"].state = "disabled"
      /\ [sched[s] EXCEPT !.state = "disabled"].nextRunAt = sched[s].nextRunAt
  BY <1>1 DEF Schedule
<1>4. TypeOK'
  BY <1>2, <1>3 DEF Inv, TypeOK, Disable
<1>5. \A o \in Schedules \ {s} : sched'[o] = sched[o] /\ sched[o].nextRunAt \in Nat
  BY <1>2, BackupFacts DEF Inv
<1>6. sched'[s].state = "disabled" /\ sched'[s].nextRunAt = sched[s].nextRunAt
  BY <1>2, <1>3 DEF Inv, TypeOK
<1>7. \A o \in Schedules : /\ sched'[o].state = "none" => sched[o].state = "none"
                           /\ sched[o].state = "none" \/ sched'[o].nextRunAt >= sched[o].nextRunAt
  BY <1>1, <1>5, <1>6
<1> QED BY <1>1, <1>4, <1>7, NoCapture

\* The step that captures: it looks again, and the capture is at the instant it looks.
LEMMA AdvanceStep ==
  ASSUME Inv, NEW w \in Workers, NEW s \in Schedules, Advance(w, s) PROVE Inv'
<1>1. due' \in SUBSET (Workers \X Schedules) /\ UNCHANGED <<now, candidate, allowed, available>>
  BY DEF Inv, TypeOK, Advance
<1>2. /\ now \in Nat /\ now <= MaxTime /\ now + DayLength \in 0..(MaxTime + DayLength)
      /\ sched[s].nextRunAt \in Nat
  BY BackupFacts, Bounds DEF Inv
<1>3. CASE UNCHANGED <<sched, bks>>
  <2>1. TypeOK'
    BY <1>1, <1>3 DEF Inv, TypeOK
  <2> QED BY <1>3, <2>1, SchedulesUntouched, NoCapture DEF Inv
<1>4. ASSUME NEW st \in {"enabled", "disabled"}, NEW last \in {"admitted", "refused"}, StillDue(s),
             sched' = [sched EXCEPT ![s] = [state |-> st, nextRunAt |-> NextRun(s), last |-> last]]
      PROVE  /\ sched' \in [Schedules -> Schedule]
             /\ sched[s].state = "enabled" /\ sched[s].nextRunAt <= now
             /\ sched'[s].state = st /\ sched'[s].nextRunAt = now + DayLength
             /\ \A o \in Schedules \ {s} : sched'[o] = sched[o] /\ sched[o].nextRunAt \in Nat
  <2> DEFINE r == [state |-> st, nextRunAt |-> NextRun(s), last |-> last]
  <2>1. r \in Schedule /\ r.state = st /\ r.nextRunAt = now + DayLength
    BY <1>2 DEF NextRun, Schedule
  <2>2. sched' = [sched EXCEPT ![s] = r]
    BY <1>4
  <2> HIDE DEF r
  <2>3. sched' \in [Schedules -> Schedule] /\ sched'[s] = r /\ \A o \in Schedules \ {s} : sched'[o] = sched[o]
    BY <2>1, <2>2 DEF Inv, TypeOK
  <2> QED BY <1>4, <2>1, <2>3, BackupFacts DEF Inv, StillDue, IsDue
<1>5. ASSUME NEW st \in {"enabled", "disabled"}, StillDue(s), UNCHANGED bks,
             sched' = [sched EXCEPT ![s] = [state |-> st, nextRunAt |-> NextRun(s), last |-> "refused"]]
      PROVE  Inv'
  <2>1. /\ sched' \in [Schedules -> Schedule]
        /\ sched[s].state = "enabled" /\ sched[s].nextRunAt <= now
        /\ sched'[s].state = st /\ sched'[s].nextRunAt = now + DayLength
        /\ \A o \in Schedules \ {s} : sched'[o] = sched[o] /\ sched[o].nextRunAt \in Nat
    BY <1>4, <1>5
  <2>2. TypeOK'
    BY <1>1, <1>5, <2>1 DEF Inv, TypeOK
  <2>3. \A o \in Schedules : /\ sched'[o].state = "none" => sched[o].state = "none"
                             /\ sched[o].state = "none" \/ sched'[o].nextRunAt >= sched[o].nextRunAt
    BY <1>2, <2>1, Bounds
  <2> QED BY <1>5, <2>2, <2>3, NoCapture
<1>6. ASSUME StillDue(s), Len(bks) < MaxBackups,
             bks' = Append(bks, [by |-> s, app |-> App[s], at |-> now, state |-> "pending"]),
             sched' = [sched EXCEPT ![s] = [state |-> "enabled", nextRunAt |-> NextRun(s), last |-> "admitted"]]
      PROVE  Inv'
  <2> DEFINE b == [by |-> s, app |-> App[s], at |-> now, state |-> "pending"]
  <2>1. b \in Backup /\ b.by = s /\ b.app = App[s] /\ b.at = now /\ b.state = "pending"
    BY DEF Inv, TypeOK, Backup
  <2>2. bks' = Append(bks, b)
    BY <1>6
  <2> HIDE DEF b
  <2>3. /\ sched' \in [Schedules -> Schedule]
        /\ sched[s].state = "enabled" /\ sched[s].nextRunAt <= now
        /\ sched'[s].state = "enabled" /\ sched'[s].nextRunAt = now + DayLength
        /\ \A o \in Schedules \ {s} : sched'[o] = sched[o] /\ sched[o].nextRunAt \in Nat
    BY <1>4, <1>6
  <2>4. bks' \in Seq(Backup) /\ Len(bks') <= MaxBackups
    BY <1>6, <2>1, <2>2, AddBackup DEF Inv
  <2>5. TypeOK'
    BY <1>1, <2>3, <2>4 DEF Inv, TypeOK
  <2>6. NextRunLater' /\ NoBurst' /\ RetentionKeeps'
    BY <1>6, <2>1, <2>2, <2>3, <2>5, OneMore
  <2> QED BY <2>5, <2>6 DEF Inv
<1> QED BY <1>3, <1>5, <1>6 DEF Advance

LEMMA CustomerCaptureStep ==
  ASSUME Inv, NEW app \in {App[s] : s \in Schedules}, CustomerCapture(app) PROVE Inv'
<1> DEFINE b == [by |-> "customer", app |-> app, at |-> now, state |-> "pending"]
<1>1. b \in Backup /\ b.by = "customer" /\ b.state = "pending"
  BY DEF Inv, TypeOK, Backup
<1>2. bks' = Append(bks, b) /\ Len(bks) < MaxBackups
  BY DEF CustomerCapture
<1> HIDE DEF b
<1>3. bks' \in Seq(Backup) /\ Len(bks') <= MaxBackups
  BY <1>1, <1>2, AddBackup DEF Inv
<1>4. TypeOK'
  BY <1>3 DEF Inv, TypeOK, CustomerCapture
<1>5. NextRunLater' /\ NoBurst' /\ RetentionKeeps'
  BY <1>1, <1>2, <1>4, OneMore DEF CustomerCapture
<1> QED BY <1>4, <1>5 DEF Inv

\* No settlement takes a kept capture out of what outlives the others, or expires one.
LEMMA SettleStep ==
  ASSUME Inv, NEW i \in DOMAIN bks, NEW from \in {"pending", "captured", "blocked"},
         NEW to \in {"captured", "blocked", "purged"}, Settle(i, from, to),
         from = "captured" => to = "purged"
  PROVE  Inv'
<1>1. bks' = [bks EXCEPT ![i].state = to] /\ bks[i].state = from /\ sched' = sched
  BY DEF Settle
<1>2. /\ bks' \in Seq(Backup) /\ Len(bks') <= MaxBackups /\ DOMAIN bks' = DOMAIN bks /\ bks'[i].state = to
      /\ \A j \in DOMAIN bks : /\ j # i => bks'[j] = bks[j]
                               /\ bks'[j].by = bks[j].by /\ bks'[j].app = bks[j].app /\ bks'[j].at = bks[j].at
  BY <1>1, ChangeBackup DEF Inv
<1>3. TypeOK'
  BY <1>2 DEF Inv, TypeOK, Settle
<1>4. NextRunLater' /\ NoBurst'
  BY <1>1, <1>2, <1>3, SchedulesUntouched, SameMade DEF Inv
<1>5. Outlived
  BY <1>1, <1>2 DEF Outlived, Kept
<1> QED BY <1>3, <1>4, <1>5, OutlivedKeeps DEF Inv

LEMMA AdmitExpiredStep ==
  ASSUME Inv, NEW i \in DOMAIN bks, AdmitExpired(i) PROVE Inv'
<1>1. sched' = sched /\ candidate' \in [1..MaxBackups -> BOOLEAN]
  BY DEF AdmitExpired, Inv, TypeOK
<1>2. CASE Eligible(i)
  <2>1. bks' = [bks EXCEPT ![i].state = "expired"]
    BY <1>2 DEF AdmitExpired
  <2>2. /\ bks' \in Seq(Backup) /\ Len(bks') <= MaxBackups /\ DOMAIN bks' = DOMAIN bks
        /\ \A j \in DOMAIN bks : bks'[j].by = bks[j].by /\ bks'[j].app = bks[j].app /\ bks'[j].at = bks[j].at
    BY <2>1, ChangeBackup DEF Inv
  <2>3. TypeOK'
    BY <1>1, <2>2 DEF Inv, TypeOK, AdmitExpired
  <2>4. NextRunLater' /\ NoBurst'
    BY <1>1, <2>2, <2>3, SchedulesUntouched, SameMade DEF Inv
  <2> QED BY <1>2, <2>1, <2>3, <2>4, ExpiryKeeps DEF Inv
<1>3. CASE ~Eligible(i)
  <2>1. bks' = bks
    BY <1>3 DEF AdmitExpired
  <2>2. TypeOK'
    BY <1>1, <2>1 DEF Inv, TypeOK, AdmitExpired
  <2> QED BY <1>1, <2>1, <2>2, SchedulesUntouched, NoCapture DEF Inv
<1> QED BY <1>2, <1>3

LEMMA OtherStep ==
  ASSUME Inv, (\E w \in Workers : Reconcile(w)) \/ SelectExpired \/ Revoke \/ Destroy \/ Tick
         \/ UNCHANGED vars
  PROVE  Inv'
<1>1. sched' = sched /\ bks' = bks
  BY DEF Reconcile, SelectExpired, Revoke, Destroy, Tick, vars
<1>2. due' \in SUBSET (Workers \X Schedules)
  BY DEF Inv, TypeOK, Reconcile, SelectExpired, Revoke, Destroy, Tick, vars
<1>3. candidate' \in [1..MaxBackups -> BOOLEAN]
  <2>1. CASE SelectExpired
    <3>1. candidate' = [i \in 1..MaxBackups |-> candidate[i] \/ (i \in DOMAIN bks /\ Eligible(i))]
      BY <2>1 DEF SelectExpired
    <3>2. \A i \in 1..MaxBackups : (candidate[i] \/ (i \in DOMAIN bks /\ Eligible(i))) \in BOOLEAN
      OBVIOUS
    <3> QED BY <3>1, <3>2
  <2>2. CASE ~SelectExpired
    BY <2>2 DEF Inv, TypeOK, Reconcile, Revoke, Destroy, Tick, vars
  <2> QED BY <2>1, <2>2
<1>4. now' \in Time
  <2>1. CASE Tick
    BY <2>1, BackupFacts, Bounds DEF Tick, Inv, Time
  <2>2. CASE ~Tick
    BY <2>2 DEF Inv, TypeOK, Reconcile, SelectExpired, Revoke, Destroy, vars
  <2> QED BY <2>1, <2>2
<1>5. allowed' \in BOOLEAN /\ available' \in BOOLEAN
  BY DEF Inv, TypeOK, Reconcile, SelectExpired, Revoke, Destroy, Tick, vars
<1>6. TypeOK'
  BY <1>1, <1>2, <1>3, <1>4, <1>5 DEF Inv, TypeOK
<1> QED BY <1>1, <1>6, SchedulesUntouched, NoCapture DEF Inv

LEMMA NextKept ==
  ASSUME Inv, [Next]_vars PROVE Inv'
<1>1. ASSUME NEW s \in Schedules, Create(s) \/ Disable(s) \/ \E w \in Workers : Advance(w, s)
      PROVE  Inv'
  BY <1>1, CreateStep, DisableStep, AdvanceStep
<1>2. ASSUME NEW app \in {App[s] : s \in Schedules}, CustomerCapture(app)
      PROVE  Inv'
  BY <1>2, CustomerCaptureStep
<1>3. ASSUME NEW i \in DOMAIN bks,
             \/ \E to \in {"captured", "blocked"} : Settle(i, "pending", to)
             \/ Settle(i, "blocked", "captured")
             \/ CustomerPurge(i) \/ AdmitExpired(i)
      PROVE  Inv'
  <2>1. CASE \E to \in {"captured", "blocked"} : Settle(i, "pending", to)
    BY <2>1, SettleStep
  <2>2. CASE Settle(i, "blocked", "captured")
    BY <2>2, SettleStep
  <2>3. CASE CustomerPurge(i)
    BY <2>3, SettleStep DEF CustomerPurge
  <2>4. CASE AdmitExpired(i)
    BY <2>4, AdmitExpiredStep
  <2> QED BY <1>3, <2>1, <2>2, <2>3, <2>4
<1>4. ASSUME (\E w \in Workers : Reconcile(w)) \/ SelectExpired \/ Revoke \/ Destroy \/ Tick \/ UNCHANGED vars
      PROVE  Inv'
  BY <1>4, OtherStep
<1> QED BY <1>1, <1>2, <1>3, <1>4 DEF Next

LEMMA ScheduleCorrect == Spec => []Inv
BY InitKept, NextKept, PTL DEF Spec

\* Two captures of a schedule are at least a day apart, whatever the number of
\* reconcilers that select it, however long they were away, and whatever
\* order they advance it in: advance looks again under the account lock and
\* counts the next run from that instant (backup-schedules.ts).
THEOREM NeverABurst == Spec => []NoBurst
<1>1. Inv => NoBurst
  BY DEF Inv
<1> QED BY <1>1, ScheduleCorrect, PTL

\* Every capture that retention removed is outlived by Keep days of its app
\* that only a customer may have removed since, for any policy and however
\* retention runs overlap: admitExpiredBackup repeats retentionEligible under
\* the admission locks (backup-purges.ts).
THEOREM RemovedIsOutlived == Spec => []RetentionKeeps
<1>1. Inv => RetentionKeeps
  BY DEF Inv
<1> QED BY <1>1, ScheduleCorrect, PTL
=============================================================================
