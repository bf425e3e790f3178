----------------------------- MODULE BackupGuest -----------------------------
(***************************************************************************)
(* Captures and restores as the guest runs them: a request directory with  *)
(* a start marker and one result, both written before anything is told to  *)
(* the control plane. A wrapper lock serialises every command, so a call   *)
(* that meets a running one is refused.                                    *)
(*                                                                         *)
(* Source: packages/guestctl/src/backups.ts. The contents of archives, the *)
(* Compose release they come from and the database commands are left out.  *)
(***************************************************************************)
EXTENDS Integers, FiniteSets, FiniteSetsExt

CONSTANTS Backups, Restores

VARIABLES
  cap,      \* [Backups -> CaptureFiles], the captures directory of the source
  res       \* [Restores -> RestoreFiles], the restores directory of each target

guestVars == <<cap, res>>

\* runs counts how often the work itself was started (history).
CaptureFiles == [started : BOOLEAN, running : BOOLEAN, result : {"none", "captured", "failed"},
                 archive : BOOLEAN, runs : Nat]
RestoreFiles == [started : BOOLEAN, running : BOOLEAN, result : {"none", "restored", "failed"},
                 runs : Nat]

GuestTypeOK ==
  /\ cap \in [Backups -> CaptureFiles]
  /\ res \in [Restores -> RestoreFiles]

GuestInit ==
  /\ cap = [b \in Backups |-> [started |-> FALSE, running |-> FALSE, result |-> "none",
                               archive |-> FALSE, runs |-> 0]]
  /\ res = [r \in Restores |-> [started |-> FALSE, running |-> FALSE, result |-> "none",
                                runs |-> 0]]

\* Mutant: a request without a result is simply run again.
Rerun(f) ==
  IF f.result # "none" THEN f
  ELSE [f EXCEPT !.started = TRUE, !.running = TRUE, !.runs = @ + 1]

\* capture, restore: a result is final; a start without a result was
\* interrupted and becomes a failure; otherwise the work starts now.
Serve(f) ==
  CASE f.result # "none" -> f
    [] f.result = "none" /\ f.started -> [f EXCEPT !.result = "failed"]
    [] OTHER -> [f EXCEPT !.started = TRUE, !.running = TRUE, !.runs = @ + 1]

\* The request reaches the guest and gets its wrapper lock.
CallCapture(b) == ~cap[b].running /\ cap' = [cap EXCEPT ![b] = Serve(@)] /\ UNCHANGED res
CallRestore(r) == ~res[r].running /\ res' = [res EXCEPT ![r] = Serve(@)] /\ UNCHANGED cap

\* The work ends and its result is stored, whether or not anyone still waits:
\* the dump, the files and the metadata are packed, and the archive is in place
\* before the result says so.
CaptureDone(b) ==
  /\ cap[b].running
  /\ cap' = [cap EXCEPT ![b].running = FALSE, ![b].archive = TRUE, ![b].result = "captured"]
  /\ UNCHANGED res

\* The release is not a succeeded one, its sources or its container are not the
\* recorded ones, a limit is exceeded: a failure is a result as well.
CaptureFails(b) ==
  /\ cap[b].running
  /\ cap' = [cap EXCEPT ![b].running = FALSE, ![b].result = "failed"]
  /\ UNCHANGED res

\* The archive is unpacked and checked, its files are published, the database is
\* loaded in an isolated project and the release becomes healthy.
RestoreDone(r) ==
  /\ res[r].running
  /\ res' = [res EXCEPT ![r].running = FALSE, ![r].result = "restored"]
  /\ UNCHANGED cap

\* Any of it fails: what was loaded stays for inspection.
RestoreFails(r) ==
  /\ res[r].running
  /\ res' = [res EXCEPT ![r].running = FALSE, ![r].result = "failed"]
  /\ UNCHANGED cap

\* read: only a captured result has an archive to stream.
Readable(b) == cap[b].result = "captured" /\ cap[b].archive

\* The guest restarts or kills the command: the start marker is all that stays.
GuestInterrupted ==
  /\ \/ \E b \in Backups : cap[b].running
     \/ \E r \in Restores : res[r].running
  /\ cap' = [b \in Backups |-> [cap[b] EXCEPT !.running = FALSE]]
  /\ res' = [r \in Restores |-> [res[r] EXCEPT !.running = FALSE]]

\* remove: the result becomes a tombstone before the archive goes, so that the
\* same id can never be captured again.
RemoveCapture(b) ==
  /\ ~cap[b].running
  /\ cap' = [cap EXCEPT ![b].archive = FALSE,
                        ![b].result = IF cap[b].started THEN "failed" ELSE @]
  /\ UNCHANGED res

=============================================================================
