-------------------------- MODULE ManualCompaction --------------------------
(***************************************************************************)
(* ManualCompactionController (web/manual-compaction.ts) of one session:   *)
(* a compaction that a user asks for starts at once, or at the end of the  *)
(* run that is on; Pi also compacts by itself.  A cancellation or a stop   *)
(* of the session (web/session-adapter.ts) does away with all of it, but   *)
(* abortCompaction does nothing for a compaction that has not come as far  *)
(* as having a controller: the hook of subagent/compaction-cancellation.ts *)
(* catches it there.                                                       *)
(*                                                                         *)
(* Pi is modelled by what these files rely on.                             *)
(***************************************************************************)

\* compaction: the controller's fields; waits is what cancel() awaits.
\* agent: Pi's session.  run: "ending" while agent_end hooks are awaited,
\*   "settling" until the prompt or send that began the run has returned.
\*   compacts: "called" until the compaction has a controller, then "working",
\*   or "aborted".
\* teardown: what the adapter is doing to end the run or the session; whether the
\*   run could not be aborted, and whether the session is still listened to.
VARIABLES compaction, agent, teardown

compactionVars == <<compaction, agent, teardown>>

NoCompaction == [pending |-> FALSE, running |-> FALSE, native |-> FALSE, cancelling |-> FALSE,
                 waits |-> "none", state |-> "idle"]

CompactionInit ==
  /\ compaction = NoCompaction
  /\ agent = [run |-> "idle", compacts |-> "none"]
  /\ teardown = [at |-> "none", stop |-> FALSE, failed |-> FALSE, detached |-> FALSE]

IsStreaming == agent.run \in {"streaming", "ending"}
Compacting == agent.compacts # "none"

\* startCompaction; the request is no longer pending.
Started(c) == [c EXCEPT !.pending = FALSE, !.running = TRUE, !.state = "running"]

-----------------------------------------------------------------------------
\* Requests.

\* request: refused during a cancellation; while something compacts it changes
\* nothing.
CompactionRequested ==
  /\ ~teardown.stop /\ ~compaction.cancelling
  /\ ~compaction.running /\ ~compaction.native
  /\ \/ /\ IsStreaming
        /\ compaction' = [compaction EXCEPT !.pending = TRUE, !.state = "queued"]
        /\ UNCHANGED agent
     \/ /\ ~IsStreaming
        /\ compaction' = Started(compaction)
        /\ agent' = [agent EXCEPT !.compacts = "called"]
  /\ UNCHANGED teardown

\* A prompt or a notification begins a run: not while the owner is stopping, and
\* not while Pi compacts.
AgentStarts ==
  /\ ~teardown.stop /\ teardown.at = "none" /\ ~compaction.cancelling
  /\ agent.run = "idle" /\ ~Compacting
  /\ agent' = [agent EXCEPT !.run = "streaming"]
  /\ UNCHANGED <<compaction, teardown>>

\* agent_end: onAgentEnd takes up what is queued.
AgentEnds ==
  /\ agent.run = "streaming" /\ ~Compacting
  /\ IF compaction.pending
     THEN /\ compaction' = Started(compaction)
          /\ agent' = [run |-> "ending", compacts |-> "called"]
     ELSE /\ agent' = [agent EXCEPT !.run = "ending"]
          /\ UNCHANGED compaction
  /\ UNCHANGED teardown

\* The hook has awaited its compaction: Pi goes on with its queues, or the run is
\* over; an abort has emptied them.
AgentEnded ==
  /\ agent.run = "ending" /\ ~compaction.running
  /\ \/ agent' = [agent EXCEPT !.run = "settling"]
     \/ /\ teardown.at \notin {"aborting", "stopping"}
        /\ agent' = [agent EXCEPT !.run = "streaming"]
  /\ UNCHANGED <<compaction, teardown>>

AgentSettles ==
  /\ agent.run = "settling" /\ ~Compacting
  /\ agent' = [agent EXCEPT !.run = "idle"]
  /\ UNCHANGED <<compaction, teardown>>

-----------------------------------------------------------------------------
\* A compaction.

\* compaction_start of a compaction that is not the controller's own.
NativeStarts ==
  /\ agent.run \in {"streaming", "settling"} /\ ~Compacting
  /\ agent' = [agent EXCEPT !.compacts = "called"]
  /\ compaction' = IF teardown.detached THEN compaction
                   ELSE [compaction EXCEPT !.native = TRUE, !.state = "running"]
  /\ UNCHANGED teardown

\* Mutant: the hook is not installed.
MutantHookAborts == FALSE

\* session_before_compact: there is a controller to abort now.
HookAborts == compaction.cancelling

BeforeCompact ==
  /\ agent.compacts = "called"
  /\ agent' = [agent EXCEPT !.compacts = IF HookAborts THEN "aborted" ELSE "working"]
  /\ UNCHANGED <<compaction, teardown>>

\* The end of the controller's own compaction, or compaction_end if somebody still
\* listens.
Over(c) ==
  IF c.running THEN [c EXCEPT !.running = FALSE, !.state = "idle", !.waits = "none"]
  ELSE IF teardown.detached THEN c
  ELSE [c EXCEPT !.native = FALSE, !.waits = "none",
                 !.state = IF c.pending THEN "queued" ELSE "idle"]

\* The summary replaces what it summarizes.
CompactionWritten ==
  /\ agent.compacts = "working"
  /\ agent' = [agent EXCEPT !.compacts = "none"]
  /\ compaction' = Over(compaction)
  /\ UNCHANGED teardown

\* It was aborted, or failed.
CompactionDropped ==
  /\ Compacting
  /\ agent' = [agent EXCEPT !.compacts = "none"]
  /\ compaction' = Over(compaction)
  /\ UNCHANGED teardown

-----------------------------------------------------------------------------
\* Cancellation.

\* What cancel() awaits.
Awaited(c) == IF c.running THEN "own" ELSE IF c.native THEN "native" ELSE "none"

\* cancel, up to its await.
Cancel ==
  /\ compaction' = [compaction EXCEPT
       !.cancelling = TRUE, !.pending = FALSE, !.waits = Awaited(compaction),
       !.state = IF compaction.running \/ compaction.native THEN @ ELSE "idle"]
  /\ agent' = [agent EXCEPT !.compacts = IF @ = "working" THEN "aborted" ELSE @]

\* abort: one at a time.
AbortBegins ==
  /\ ~teardown.stop /\ teardown.at = "none"
  /\ Cancel
  /\ teardown' = [teardown EXCEPT !.at = "cancelling"]

\* stop; it awaits an abort that is under way.
StopBegins ==
  /\ ~teardown.stop
  /\ teardown' = [teardown EXCEPT !.stop = TRUE]
  /\ UNCHANGED <<compaction, agent>>

\* cleanupTree, again when an attempt has failed.
CleanupBegins ==
  /\ teardown.stop /\ teardown.at = "none"
  /\ Cancel
  /\ teardown' = [teardown EXCEPT !.at = "cleaning"]

\* cancel() returns: the run is aborted and its prompts and sends are awaited.
CancelReturns ==
  /\ teardown.at \in {"cancelling", "cleaning"} /\ compaction.waits = "none"
  /\ teardown' = [teardown EXCEPT !.at = IF @ = "cancelling" THEN "aborting" ELSE "stopping"]
  /\ UNCHANGED <<compaction, agent>>

\* A run could not be aborted, or a child: the cancellation stays requested until
\* it is tried again.
AbortFails ==
  /\ teardown.at = "aborting"
  /\ teardown' = [teardown EXCEPT !.at = "none"]
  /\ UNCHANGED <<compaction, agent>>

\* finishCancellation.
AbortEnds ==
  /\ teardown.at = "aborting" /\ agent.run = "idle"
  /\ compaction' = [compaction EXCEPT !.cancelling = FALSE]
  /\ teardown' = [teardown EXCEPT !.at = "none"]
  /\ UNCHANGED agent

\* A stop goes through all of its steps, whether the run was aborted or not: it
\* listens to the session no longer, and disposes of the controller, which
\* cancels once more.
StopDetaches ==
  /\ teardown.at = "stopping" /\ ~teardown.detached
  /\ \E failed \in BOOLEAN :
       /\ agent.run = "idle" \/ failed
       /\ teardown' = [teardown EXCEPT !.at = "disposing", !.detached = TRUE, !.failed = failed]
  /\ Cancel

\* The stop is over; if it failed it may be called again, and has only the run
\* left to abort.
StopEnds ==
  /\ \/ teardown.at = "disposing" /\ compaction.waits = "none"
     \/ teardown.at = "stopping" /\ teardown.detached
  /\ \E failed \in BOOLEAN :
       /\ agent.run = "idle" \/ failed
       /\ teardown.at = "disposing" => failed = teardown.failed
       /\ teardown' = [teardown EXCEPT !.at = IF failed THEN "none" ELSE "stopped",
                                       !.failed = failed]
  /\ UNCHANGED <<compaction, agent>>

CompactionNext ==
  \/ CompactionRequested
  \/ AgentStarts \/ AgentEnds \/ AgentEnded \/ AgentSettles
  \/ NativeStarts \/ BeforeCompact \/ CompactionWritten \/ CompactionDropped
  \/ AbortBegins \/ StopBegins \/ CleanupBegins \/ CancelReturns
  \/ AbortFails \/ AbortEnds \/ StopDetaches \/ StopEnds

CompactionSpec == CompactionInit /\ [][CompactionNext]_compactionVars

-----------------------------------------------------------------------------

\* Types, and that the state the page shows is what the controller does.
CompactionTypeOK ==
  /\ compaction \in [pending : BOOLEAN, running : BOOLEAN, native : BOOLEAN,
                     cancelling : BOOLEAN, waits : {"none", "own", "native"},
                     state : {"idle", "queued", "running"}]
  /\ agent \in [run : {"idle", "streaming", "ending", "settling"},
                compacts : {"none", "called", "working", "aborted"}]
  /\ teardown \in [at : {"none", "cancelling", "aborting", "cleaning", "stopping", "disposing",
                         "stopped"},
                   stop : BOOLEAN, failed : BOOLEAN, detached : BOOLEAN]
  /\ compaction.state = IF compaction.running \/ compaction.native THEN "running"
                        ELSE IF compaction.pending THEN "queued" ELSE "idle"

\* No compaction that was on, queued or about to begin when the cancellation was
\* asked for changes the session after it, whatever stage it was at; and when
\* the cancellation is over, or the session is no longer listened to, nothing
\* compacts and nothing is queued.  The exception is a stop that could not abort
\* the run: it detaches from a session that may be compacting, and the
\* disposal may then wait for an event nobody hears.
CancelledCompactionIsDropped ==
  [][/\ CompactionWritten => ~compaction.cancelling
     /\ AbortEnds \/ (StopDetaches /\ ~teardown'.failed) => ~Compacting /\ ~compaction.pending
    ]_compactionVars
=============================================================================
