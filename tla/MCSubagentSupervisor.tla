------------------------- MODULE MCSubagentSupervisor -------------------------
EXTENDS SubagentSupervisor

\* The run about a retried stop looks at one prompt that dispatches every
\* child, and at a cancellation that comes when all of them are at work.
OneCancellation ==
  /\ ~closing
  /\ \A l \in Launches : child[l].pc \notin {"rejected", "threw", "fail_cleanup"}
  /\ ownerStopping => \A l \in Launches : child[l].pc = "ended"
  /\ \A l \in Launches : child[l].settled => ownerStopping /\ child[l].term = "error"
  /\ send.by = "admission" => \A l \in Launches : ~Known(jobs[l])
=============================================================================
