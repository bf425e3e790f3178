-------------------------- MODULE MCBackupSchedules --------------------------
(* Small instances of BackupSchedules for TLC.                                *)
EXTENDS BackupSchedules, TLC

Symmetry == Permutations(Schedules) \cup Permutations(Workers)

\* At most two things that disturb the daily captures: one made or purged by a customer
\* or blocked, a schedule disabled, the authority or the machine lost.
FewIncidents ==
  Cardinality({i \in DOMAIN bks : bks[i].by = "customer"})
    + Cardinality({i \in DOMAIN bks : bks[i].state \in {"blocked", "purged"}})
    + Cardinality({s \in Schedules : sched[s].state = "disabled"})
    + (IF allowed THEN 0 ELSE 1) + (IF available THEN 0 ELSE 1) <= 2

OneApp == [s \in Schedules |-> "app"]

=============================================================================
