------------------------- MODULE LiveConfiguration -------------------------
(***************************************************************************)
(* The configuration a running server accepts                              *)
(* (runtime/live-configuration.ts).  People and programs edit the sources  *)
(* at any time; requests to look at them are merged into one batch; one    *)
(* drain at a time takes a batch, reads a candidate, validates it across   *)
(* many awaits, and accepts it only if the sources still are what it read. *)
(*                                                                         *)
(* Every edit makes a new version, so a fingerprint is a version number.   *)
(***************************************************************************)
EXTENDS AcceptedConfiguration

CONSTANTS
  Starter,      \* the start of the server, which asks like the callers do
  MaxLiveFaults     \* bound on the reads and watchers that fail

ASSUME LiveAssumption == Starter \in Requester /\ MaxLiveFaults \in Nat

VARIABLES
  quality,    \* what a load of the global sources finds
  noticed,    \* the sources whose watcher has an event to report
  watching,   \* whether the global watcher runs (the project's always does)
  failedProject, \* whether failedProjectCwds names the project
  pending,    \* the batch of the requests that came since the last was taken
  drain,      \* the drain and its candidate
  starter,    \* the progress of start()
  closer,     \* the progress of close()
  liveFaults

innerVars == <<quality, noticed, watching, failedProject, pending, drain, starter, closer,
               liveFaults>>
liveVars == <<acceptedVars, innerVars>>

\* A source version is fine, names a model that is gone, or cannot be loaded.
Quality == {"valid", "dangling", "invalid"}

\* "accepted" stands for the statuses committed, unchanged, repaired, superseded.
Status == {"none", "accepted", "rejected", "closed"}

\* PendingSynchronization, and its absence.
NoBatch == [asked |-> FALSE, structural |-> FALSE, availability |-> FALSE,
            project |-> FALSE, waiters |-> {}]

\* A drain that validates has read the versions home and named, loaded catalog.
DrainRest ==
  [at |-> "idle", batch |-> NoBatch, project |-> FALSE, home |-> 0, named |-> 0,
   catalog |-> 0, must |-> FALSE, align |-> FALSE, status |-> "none"]

LiveInnerInit ==
  /\ quality = "valid"
  /\ noticed = {}
  /\ watching = FALSE
  /\ failedProject = FALSE
  /\ pending = NoBatch
  /\ drain = DrainRest
  /\ starter = "new"
  /\ closer = "open"
  /\ liveFaults = 0

-----------------------------------------------------------------------------
(* Requests *)

Scheduled == IF drain.at = "idle" THEN [drain EXCEPT !.at = "scheduled"] ELSE drain

\* requestSynchronization, of waiters who ask for these things.
Merged(waiters, structural, availability, project) ==
  [asked |-> TRUE,
   structural |-> pending.structural \/ structural,
   availability |-> pending.availability \/ availability,
   project |-> pending.project \/ project,
   waiters |-> pending.waiters \cup waiters]

\* A request of one who waits; a closed configuration answers at once.
Asked(r, structural, availability, project) ==
  IF closed
  THEN /\ ask' = [ask EXCEPT ![r] = Answer("closed")]
       /\ UNCHANGED <<pending, drain>>
  ELSE /\ ask' = [ask EXCEPT ![r] = Request(structural, project)]
       /\ pending' = Merged({r}, structural, availability, project)
       /\ drain' = Scheduled

Answered(waiters, status) ==
  [r \in Requester |-> IF r \in waiters THEN Answer(status) ELSE ask[r]]

\* The server serves nobody before start() is over, and watches no project.
Serving == starter \in {"started", "stopped"}

\* synchronize({ projectCwds }) and notify(): one request of a caller at a time.
Synchronize(r) ==
  /\ Serving
  /\ ask[r].at # "waiting"
  /\ \/ \E project \in BOOLEAN : Asked(r, TRUE, FALSE, project)
     \/ Asked(r, FALSE, TRUE, FALSE)
  /\ UNCHANGED <<source, accepted, rejected, closed, quality, noticed, watching,
                 failedProject, starter, closer, liveFaults>>

\* The watchers' onChange, whose request nobody waits for.
WatcherReports(kind) ==
  /\ kind \in noticed
  /\ noticed' = noticed \ {kind}
  /\ IF closed THEN UNCHANGED <<pending, drain>>
     ELSE /\ pending' = Merged({}, TRUE, FALSE, kind = "project")
          /\ drain' = Scheduled
  /\ UNCHANGED <<acceptedVars, quality, watching, failedProject, starter, closer, liveFaults>>

\* The sources change under the server; a watcher sees it.  The bound leaves
\* room for a repair.
SourceEdited(kind) ==
  /\ source.home + source.project < MaxVersions
  /\ kind = "project" => Serving
  /\ source' = [source EXCEPT ![kind] = @ + 1]
  /\ IF kind = "home" THEN quality' \in Quality ELSE UNCHANGED quality
  /\ quality' = "dangling" => source'.home + source'.project < MaxVersions
  /\ noticed' = IF kind = "project" \/ watching THEN noticed \cup {kind} ELSE noticed
  /\ UNCHANGED <<accepted, rejected, closed, ask, watching, failedProject, pending, drain,
                 starter, closer, liveFaults>>

-----------------------------------------------------------------------------
(* The drain *)

AvailabilityOnly(b) == b.availability /\ ~b.structural /\ ~b.project

\* The loop of drain() takes the next batch, with what failed before, or ends.
TakeNext(failed) ==
  IF pending.asked /\ ~closed
  THEN /\ drain' = [DrainRest EXCEPT
                      !.at = IF AvailabilityOnly(pending) THEN "availability" ELSE "prepare",
                      !.batch = pending,
                      !.project = pending.project \/ failed]
       /\ pending' = NoBatch
  ELSE /\ drain' = DrainRest
       /\ UNCHANGED pending

DrainStarts ==
  /\ drain.at = "scheduled"
  /\ TakeNext(failedProject)
  /\ UNCHANGED <<acceptedVars, quality, noticed, watching, failedProject, starter, closer,
                 liveFaults>>

\* The drain keeps its batch and goes to another place.
Elsewhere(at) ==
  [DrainRest EXCEPT !.at = at, !.batch = drain.batch, !.project = drain.project]

\* The batch has its outcome: an availability change that came with it is
\* looked at next, unless the configuration is closed.
Outcome(status) ==
  [Elsewhere(IF drain.batch.availability /\ status # "closed" THEN "availability"
                                                              ELSE "settle")
     EXCEPT !.status = status]

\* The loop of validateAndAdvance begins again.
Again == [Elsewhere("prepare") EXCEPT !.align = TRUE]

\* A candidate that cannot be read, loaded or validated; failures of a closed
\* configuration are not published.
RejectCandidate ==
  /\ drain' = Outcome(IF closed THEN "closed" ELSE "rejected")
  /\ rejected' = (rejected \/ ~closed)

\* What follows an await: the closed configuration leaves the validation.
GoesUnlessClosed(d) == drain' = IF closed THEN Outcome("closed") ELSE d

DrainOnly ==
  UNCHANGED <<source, accepted, closed, ask, quality, noticed, watching, failedProject,
              pending, starter, closer>>

\* prepareProjectChanges looks at the projects the request names.
PrepareProjects ==
  /\ drain.at = "prepare"
  /\ GoesUnlessClosed([drain EXCEPT !.at = "read",
                        !.named = IF drain.project THEN source.project ELSE accepted.project])
  /\ DrainOnly /\ UNCHANGED <<rejected, liveFaults>>

\* readFingerprint: nothing to do, unless something differs or was rejected.
ReadCandidate ==
  /\ drain.at = "read"
  /\ LET must == \/ rejected \/ accepted.generation = 0
                 \/ drain.named # accepted.project \/ source.home # accepted.home
     IN GoesUnlessClosed(IF must \/ drain.align
             THEN [drain EXCEPT !.at = "load", !.home = source.home, !.must = must]
             ELSE [Elsewhere("aligning") EXCEPT !.status = "accepted"])
  /\ DrainOnly /\ UNCHANGED <<rejected, liveFaults>>

\* loadCatalog reads the sources a second time.
LoadCandidate ==
  /\ drain.at = "load"
  /\ IF quality = "invalid" THEN RejectCandidate
     ELSE /\ GoesUnlessClosed([drain EXCEPT !.at = IF quality = "dangling" THEN "repair" ELSE "models",
                                !.catalog = source.home])
          /\ UNCHANGED rejected
  /\ DrainOnly /\ UNCHANGED liveFaults

\* prepareModelCatalog, and no Agent names a model that is gone.
PrepareModels ==
  /\ drain.at = "models"
  /\ GoesUnlessClosed([drain EXCEPT !.at = "confirm"])
  /\ DrainOnly /\ UNCHANGED <<rejected, liveFaults>>

\* repairAgentDefaults writes the sources, if they are still what was loaded,
\* and the validation begins again, closed or not.
RepairDefaults ==
  /\ drain.at = "repair"
  /\ IF source.home = drain.catalog
     THEN /\ source' = [source EXCEPT !.home = @ + 1]
          /\ quality' = "valid"
          /\ noticed' = IF watching THEN noticed \cup {"home"} ELSE noticed
     ELSE UNCHANGED <<source, quality, noticed>>
  /\ drain' = Again
  /\ UNCHANGED <<accepted, rejected, closed, ask, watching, failedProject, pending, starter,
                 closer, liveFaults>>

\* Mutant: the sources are not read again after the validation.
MutantConfirmCandidate ==
  /\ drain.at = "confirm"
  /\ drain' = [drain EXCEPT !.at = "current"]
  /\ DrainOnly /\ UNCHANGED <<rejected, liveFaults>>

\* The second readFingerprint decides whether the candidate still stands.
ConfirmCandidate ==
  /\ drain.at = "confirm"
  /\ drain' = IF source.home # drain.home THEN Again ELSE [drain EXCEPT !.at = "current"]
  /\ DrainOnly /\ UNCHANGED <<rejected, liveFaults>>

ProjectMoved == drain.project /\ source.project # drain.named

\* isCurrent of the projects: the candidate is superseded, or nothing of it is
\* new after all.
CandidateFalls ==
  /\ drain.at = "current"
  /\ \/ ProjectMoved /\ drain' = Again
     \/ ~ProjectMoved /\ (closed \/ ~drain.must) /\ GoesUnlessClosed(Outcome("accepted"))
  /\ DrainOnly /\ UNCHANGED <<rejected, liveFaults>>

\* Or it is accepted, in the step that found it to stand.
CommitCandidate ==
  /\ drain.at = "current" /\ ~ProjectMoved
  /\ ~closed /\ drain.must
  /\ accepted' = [generation |-> accepted.generation + 1, home |-> drain.home,
                  project |-> drain.named, catalog |-> drain.catalog]
  /\ rejected' = FALSE
  /\ failedProject' = FALSE
  /\ drain' = [Elsewhere("aligning") EXCEPT !.status = "accepted"]
  /\ UNCHANGED <<source, closed, ask, quality, noticed, watching, pending, starter, closer,
                 liveFaults>>

\* A read or a preparation throws.
DrainFails ==
  /\ drain.at \in {"prepare", "read", "load", "models", "repair", "confirm", "current"}
  /\ liveFaults < MaxLiveFaults
  /\ liveFaults' = liveFaults + 1
  /\ RejectCandidate
  /\ DrainOnly

\* advanceAvailability.
AvailabilityAdvances ==
  /\ drain.at = "availability"
  /\ drain' = [drain EXCEPT !.at = "settle",
                 !.status = IF @ # "none" THEN @ ELSE IF closed THEN "closed" ELSE "accepted"]
  /\ DrainOnly /\ UNCHANGED <<rejected, liveFaults>>

\* Mutant: what the rejected batch named is forgotten.
MutantSettleBatch ==
  /\ drain.at = "settle"
  /\ ask' = Answered(drain.batch.waiters, drain.status)
  /\ TakeNext(failedProject)
  /\ UNCHANGED <<source, accepted, rejected, closed, quality, noticed, watching,
                 failedProject, starter, closer, liveFaults>>

\* The projects of a rejected batch are kept for the next, the waiters are
\* answered, and the loop goes on.
SettleBatch ==
  /\ drain.at = "settle"
  /\ failedProject' = (failedProject \/ (drain.status = "rejected" /\ drain.batch.project))
  /\ ask' = Answered(drain.batch.waiters, drain.status)
  /\ TakeNext(failedProject')
  /\ UNCHANGED <<source, accepted, rejected, closed, quality, noticed, watching, starter,
                 closer, liveFaults>>

-----------------------------------------------------------------------------
(* alignHomeWatcher, start and close *)

Admitted == starter \in {"align", "reread", "asking", "second", "started"}
MustAlign == Admitted /\ ~closed /\ ~watching

\* Within the drain: nothing to do once the watchers run.
DrainAligns ==
  /\ drain.at = "aligning"
  /\ \/ /\ ~MustAlign
        /\ drain' = Outcome(drain.status)
        /\ UNCHANGED <<watching, liveFaults>>
     \/ /\ MustAlign /\ watching' = TRUE
        /\ drain' = [drain EXCEPT !.at = "reread"]
        /\ UNCHANGED liveFaults
     \/ /\ MustAlign /\ liveFaults < MaxLiveFaults /\ liveFaults' = liveFaults + 1
        /\ drain' = Outcome(drain.status)
        /\ UNCHANGED watching
  /\ UNCHANGED <<acceptedVars, quality, noticed, failedProject, pending, starter, closer>>

\* Mutant: the watchers are taken to report what came before them.
MutantUnseen == FALSE

\* An edit that no watcher saw is found by reading once more.
Unseen == ~closed /\ accepted.generation > 0 /\ source.home # accepted.home

DrainRereads ==
  /\ drain.at = "reread"
  /\ drain' = Outcome(drain.status)
  /\ \/ /\ pending' = IF Unseen THEN Merged({}, TRUE, FALSE, FALSE) ELSE pending
        /\ UNCHANGED <<rejected, liveFaults>>
     \/ /\ liveFaults < MaxLiveFaults /\ liveFaults' = liveFaults + 1
        /\ rejected' = (rejected \/ ~closed)
        /\ UNCHANGED pending
  /\ UNCHANGED <<source, accepted, closed, ask, quality, noticed, watching, failedProject,
                 starter, closer>>

StarterOnly ==
  UNCHANGED <<source, accepted, closed, quality, noticed, failedProject, closer>>

StarterAsks ==
  /\ starter \in {"new", "asking"}
  /\ starter' = IF closed THEN "stopped" ELSE IF starter = "new" THEN "first" ELSE "second"
  /\ IF closed THEN UNCHANGED <<ask, pending, drain>> ELSE Asked(Starter, TRUE, FALSE, FALSE)
  /\ UNCHANGED <<rejected, watching, liveFaults>> /\ StarterOnly

StarterAnswered ==
  /\ starter \in {"first", "second"} /\ ask[Starter].at = "answered"
  /\ ask' = [ask EXCEPT ![Starter] = Quiet]
  /\ starter' = IF starter = "second" THEN "started" ELSE IF closed THEN "stopped" ELSE "align"
  /\ UNCHANGED <<rejected, watching, pending, drain, liveFaults>> /\ StarterOnly

StarterAligns ==
  /\ starter = "align"
  /\ \/ /\ watching' = ~closed
        /\ starter' = IF closed THEN "asking" ELSE "reread"
        /\ UNCHANGED liveFaults
     \/ /\ liveFaults < MaxLiveFaults /\ liveFaults' = liveFaults + 1
        /\ starter' = "asking"
        /\ UNCHANGED watching
  /\ UNCHANGED <<rejected, ask, pending, drain>> /\ StarterOnly

\* The request for an unseen edit is merged with the second one of start().
StarterRereads ==
  /\ starter = "reread"
  /\ starter' = "asking"
  /\ \/ UNCHANGED <<rejected, liveFaults>>
     \/ /\ liveFaults < MaxLiveFaults /\ liveFaults' = liveFaults + 1
        /\ rejected' = (rejected \/ ~closed)
  /\ UNCHANGED <<watching, ask, pending, drain>> /\ StarterOnly

\* close(): who waits in the next batch is answered now.
Close ==
  /\ closer \in {"open", "failed"}
  /\ closed' = TRUE
  /\ ask' = Answered(pending.waiters, "closed")
  /\ pending' = NoBatch
  /\ closer' = "watchers"
  /\ UNCHANGED <<source, accepted, rejected, quality, noticed, watching, failedProject, drain,
                 starter, liveFaults>>

\* The watchers close or fail to; the drain is awaited either way, and a
\* close that failed may be asked for again.
CloseProceeds ==
  /\ \/ /\ closer = "watchers"
        /\ \/ closer' = "draining" /\ watching' = FALSE /\ UNCHANGED liveFaults
           \/ /\ liveFaults < MaxLiveFaults /\ liveFaults' = liveFaults + 1
              /\ closer' = "drainingFailed" /\ UNCHANGED watching
     \/ /\ closer \in {"draining", "drainingFailed"}
        /\ drain.at \in {"idle", "scheduled"}
        /\ closer' = IF closer = "draining" THEN "closed" ELSE "failed"
        /\ UNCHANGED <<watching, liveFaults>>
  /\ UNCHANGED <<acceptedVars, quality, noticed, failedProject, pending, drain, starter>>

-----------------------------------------------------------------------------

DrainProceeds ==
  \/ DrainStarts \/ PrepareProjects \/ ReadCandidate \/ LoadCandidate \/ PrepareModels
  \/ RepairDefaults \/ ConfirmCandidate \/ CandidateFalls \/ CommitCandidate
  \/ AvailabilityAdvances \/ SettleBatch \/ DrainAligns \/ DrainRereads

StarterProceeds == StarterAsks \/ StarterAnswered \/ StarterAligns \/ StarterRereads

LiveNext ==
  \/ DrainProceeds \/ DrainFails
  \/ StarterProceeds
  \/ Close \/ CloseProceeds
  \/ \E kind \in {"home", "project"} : SourceEdited(kind) \/ WatcherReports(kind)
  \/ \E r \in Requester \ {Starter} : Synchronize(r)

\* The promises the server awaits settle, and the operating system reports.
LiveFairness ==
  /\ WF_liveVars(DrainProceeds)
  /\ WF_liveVars(StarterProceeds)
  /\ WF_liveVars(CloseProceeds)
  /\ WF_liveVars(\E kind \in {"home", "project"} : WatcherReports(kind))

LiveSpec == AcceptedInit /\ LiveInnerInit /\ [][LiveNext]_liveVars /\ LiveFairness

-----------------------------------------------------------------------------

LiveTypeOK ==
  /\ source \in Versions
  /\ accepted \in [generation : Nat, home : 0..MaxVersions,
                   project : 0..MaxVersions, catalog : 0..MaxVersions]
  /\ quality \in Quality
  /\ noticed \subseteq {"home", "project"}
  /\ {watching, rejected, failedProject, closed} \subseteq BOOLEAN
  /\ {pending, drain.batch} \subseteq
       [asked : BOOLEAN, structural : BOOLEAN, availability : BOOLEAN, project : BOOLEAN,
        waiters : SUBSET Requester]
  /\ drain.at \in {"idle", "scheduled", "prepare", "read", "load", "models", "repair",
                   "confirm", "current", "aligning", "reread", "availability", "settle"}
  /\ drain.status \in Status
  /\ \A r \in Requester : /\ ask[r].at \in {"quiet", "waiting", "answered"}
                          /\ ask[r].status \in Status
  /\ starter \in {"new", "first", "align", "reread", "asking", "second", "started", "stopped"}
  /\ closer \in {"open", "watchers", "draining", "drainingFailed", "failed", "closed"}
  /\ liveFaults \in 0..MaxLiveFaults

\* The live configuration keeps its promise: every request is answered, by a
\* drain or by close(); who is told that the configuration is accepted has the
\* sources of the time it asked, or later ones, accepted; a generation is of
\* one version, and none is accepted after close(): whatever was edited during
\* the validation, and whichever requests shared a batch (validateAndAdvance,
\* drain).
ImplementsAccepted == AcceptedSpec

\* A project whose skills are not what the server accepted is about to be
\* reported, named by a request under way, or kept since one that failed: a
\* rejected batch loses no project (the finally of drain()).
ChangedProjectIsKnown ==
  source.project # accepted.project =>
    \/ "project" \in noticed \/ pending.project \/ drain.project \/ failedProject
    \/ closed

\* Once the watchers run, the configuration accepted ends up being the one the
\* sources hold, or their last look was rejected, with no more requests: also
\* for an edit just before the watchers started (alignHomeWatcher).
EditsTakeEffect ==
  <>[]watching =>
    <>[](\/ closed \/ rejected
         \/ accepted.home = source.home /\ accepted.project = source.project)
=============================================================================
