--------------------------- MODULE SubagentJournal ---------------------------
(***************************************************************************)
(* The append-only journal a research session keeps about its subagents    *)
(* (src/subagent/job-journal.ts), as the fold of its records.  The code    *)
(* re-reads every entry after each append, so the journal a component sees *)
(* is always the fold; appending a record is one application of the fold's *)
(* step, and those steps are the operators below.                          *)
(*                                                                         *)
(* A launch id is a member of Launches and a batch id a number: ids are    *)
(* fresh UUIDs in the code, and pendingBatches lists them in the order in  *)
(* which they were recorded, which the numbers keep.                       *)
(***************************************************************************)
EXTENDS Integers, FiniteSets

CONSTANTS Launches,    \* the launches of one owner session
          MaxBatches   \* bound: how many notification batches are recorded

ASSUME JournalAssumption == MaxBatches \in Nat

BatchIds == 1 .. MaxBatches

NoBatch == 0

Statuses == {"absent", "reserved", "created", "working", "complete", "error",
             "pre_materialization_failed"}

RunningStatuses == {"reserved", "created", "working"}

TerminalStatuses == {"complete", "error"}

Outcomes == TerminalStatuses \cup {"none"}

\* One job.  "path" says that childSessionId and sessionPath are known.
Jobs == [st : Statuses, ack : BOOLEAN, term : Outcomes, supp : BOOLEAN,
         path : BOOLEAN, recovered : BOOLEAN]

AbsentJob == [st |-> "absent", ack |-> FALSE, term |-> "none", supp |-> FALSE,
              path |-> FALSE, recovered |-> FALSE]

\* One notification batch.  "out" maps each launch to the outcome the message
\* reports of it, "none" for a launch the batch does not name.
Batches == [st : {"none", "pending", "acked", "superseded"},
            out : [Launches -> Outcomes], trig : BOOLEAN]

NoOutcome == [l \in Launches |-> "none"]

UnusedBatch == [st |-> "none", out |-> NoOutcome, trig |-> FALSE]

-----------------------------------------------------------------------------
(* The records that change a job.  A record about a launch that was never  *)
(* reserved is ignored.                                                    *)

Known(j) == j.st # "absent"

Reserved == [AbsentJob EXCEPT !.st = "reserved"]

Created(j) ==
  IF Known(j) THEN [j EXCEPT !.st = "created", !.path = TRUE] ELSE j

Materialized(j) ==
  IF Known(j) THEN [j EXCEPT !.st = "working"] ELSE j

\* Mutant: an acknowledgement takes over an outcome that is not there yet.
MutantLaunchAcknowledged(j) ==
  IF Known(j) /\ ~j.supp THEN [j EXCEPT !.ack = TRUE, !.st = j.term] ELSE j

LaunchAcknowledged(j) ==
  IF Known(j) /\ ~j.supp
    THEN [j EXCEPT !.ack = TRUE,
                   !.st = IF j.term = "none" THEN j.st ELSE j.term]
    ELSE j

PreMaterializationFailed(j) ==
  IF Known(j) THEN [j EXCEPT !.st = "pre_materialization_failed"] ELSE j

Terminal(j, status, recovered) ==
  IF Known(j)
    THEN [j EXCEPT !.term = status,
                   !.recovered = @ \/ recovered,
                   !.st = IF j.ack \/ j.recovered \/ recovered
                            THEN status ELSE j.st]
    ELSE j

LaunchSuppressed(j) ==
  IF Known(j) THEN [j EXCEPT !.supp = TRUE] ELSE j

-----------------------------------------------------------------------------
(* The records that change a batch.                                        *)

NotificationBatch(bs, b, out, trig) ==
  [bs EXCEPT ![b] = [st |-> "pending", out |-> out, trig |-> trig]]

NotificationAck(bs, b) == [bs EXCEPT ![b].st = "acked"]

\* Supersedes every batch of the set B.
NotificationSuperseded(bs, B) ==
  [b \in BatchIds |-> IF b \in B THEN [bs[b] EXCEPT !.st = "superseded"]
                                 ELSE bs[b]]

-----------------------------------------------------------------------------
(* What the journal's readers compute from it.                             *)

PendingBatches(bs) == {b \in BatchIds : bs[b].st = "pending"}

\* The batches in one of the given states that report launch l.
BatchesOf(l, bs, states) ==
  {b \in BatchIds : bs[b].st \in states /\ bs[b].out[l] # "none"}

AcknowledgedLaunches(bs) == {l \in Launches : BatchesOf(l, bs, {"acked"}) # {}}

\* SubagentCoordinator.isRunning, for the job's agent id.
Running(j) == ~j.supp /\ j.st \in RunningStatuses

\* Mutant: looks at acknowledged batches only.
MutantDeliverable(js, bs) ==
  {l \in Launches :
     js[l].ack /\ js[l].term # "none" /\ ~js[l].supp /\ js[l].path
     /\ BatchesOf(l, bs, {"acked"}) = {}}

\* The outcomes a flush may put in a new batch.
Deliverable(js, bs) ==
  {l \in Launches :
     /\ js[l].ack
     /\ js[l].term # "none"
     /\ ~js[l].supp
     /\ js[l].path
     /\ BatchesOf(l, bs, {"pending", "acked"}) = {}}

=============================================================================
