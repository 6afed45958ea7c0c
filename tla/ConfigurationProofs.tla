------------------------ MODULE ConfigurationProofs ------------------------
(***************************************************************************)
(* The live configuration keeps what it promises (AcceptedConfiguration),  *)
(* step by step, and a dispatch that relies on the promise alone acts on   *)
(* what is accepted.                                                       *)
(*                                                                         *)
(* The invariant of the live configuration (LiveInv) says who waits in     *)
(* which batch, what a candidate has read so far, what an outcome vouches  *)
(* for, and where a project that changed is remembered.                    *)
(***************************************************************************)
EXTENDS LiveConfiguration, DispatchAuthorization, TLAPS

-----------------------------------------------------------------------------
(* The live configuration *)

Places == {"idle", "scheduled", "prepare", "read", "load", "models", "repair", "confirm",
           "current", "aligning", "reread", "availability", "settle"}

Batches == [asked : BOOLEAN, structural : BOOLEAN, availability : BOOLEAN, project : BOOLEAN,
            waiters : SUBSET Requester]

Asking == [at : {"quiet", "waiting", "answered"}, structural : BOOLEAN, project : BOOLEAN,
           since : Versions, status : Status]

Drains == [at : Places, batch : Batches, project : BOOLEAN, home : 0..MaxVersions,
           named : 0..MaxVersions, catalog : 0..MaxVersions, must : BOOLEAN, align : BOOLEAN,
           status : Status]

\* The types, with the fields that LiveTypeOK leaves out.
LiveTypes ==
  /\ source \in Versions
  /\ accepted \in [generation : Nat, home : 0..MaxVersions, project : 0..MaxVersions,
                   catalog : 0..MaxVersions]
  /\ rejected \in BOOLEAN /\ closed \in BOOLEAN
  /\ ask \in [Requester -> Asking]
  /\ quality \in Quality /\ noticed \in SUBSET {"home", "project"}
  /\ watching \in BOOLEAN /\ failedProject \in BOOLEAN
  /\ pending \in Batches
  /\ drain \in Drains
  /\ starter \in {"new", "first", "align", "reread", "asking", "second", "started", "stopped"}
  /\ closer \in {"open", "watchers", "draining", "drainingFailed", "failed", "closed"}
  /\ liveFaults \in 0..MaxLiveFaults

\* Whoever waits is in the batch under way or in the next, which asks for what
\* they all do.
Serves(b) ==
  \A r \in b.waiters : /\ ask[r].at = "waiting"
                       /\ ask[r].structural => b.structural
                       /\ ask[r].project => b.project

RequestInv ==
  /\ Serves(pending) /\ Serves(drain.batch)
  /\ \A r \in Requester :
       ask[r].at = "waiting" =>
         /\ r \in pending.waiters \/ r \in drain.batch.waiters
         /\ ask[r].since.home <= source.home /\ ask[r].since.project <= source.project
  /\ pending.waiters \cap drain.batch.waiters = {}
  /\ ~pending.asked => pending = NoBatch
  /\ drain.at \in {"idle", "scheduled"} =>
       drain.batch = NoBatch /\ ~drain.project /\ drain.status = "none"
  /\ drain.batch.project => drain.project
  /\ starter \in {"new", "align", "reread", "asking"} => ask[Starter].at # "waiting"

\* What is accepted is no newer than the sources, and a repair has room.
SourceInv ==
  /\ accepted.home <= source.home /\ accepted.project <= source.project
  /\ quality = "dangling" => source.home + source.project < MaxVersions

\* What the candidate has read is between what is accepted and what there is, and no
\* older than those who wait for it asked for.
CandidateInv ==
  /\ drain.at \in {"read", "load", "models", "repair", "confirm", "current"} =>
       /\ accepted.project <= drain.named /\ drain.named <= source.project
       /\ ~drain.project => drain.named = accepted.project
       /\ \A r \in drain.batch.waiters : ask[r].project => ask[r].since.project <= drain.named
  /\ drain.at \in {"load", "models", "repair", "confirm", "current"} =>
       /\ accepted.home <= drain.home /\ drain.home <= source.home
       /\ ~drain.must => drain.home = accepted.home /\ drain.named = accepted.project
       /\ \A r \in drain.batch.waiters : ask[r].since.home <= drain.home
  /\ drain.at \in {"models", "repair", "confirm", "current"} =>
       drain.home <= drain.catalog /\ drain.catalog <= source.home
  /\ drain.at = "current" => drain.catalog = drain.home
  /\ drain.at = "repair" /\ source.home = drain.catalog => quality = "dangling"

\* What an outcome says is true.
OutcomeInv ==
  /\ drain.status = "accepted" => \A r \in drain.batch.waiters : True(ask[r], "accepted")
  /\ drain.status = "rejected" => rejected
  /\ drain.status = "closed" => closed
  /\ drain.at = "settle" => drain.status # "none"
  /\ drain.at \in {"aligning", "reread"} => drain.status = "accepted"
  /\ drain.at = "availability" /\ drain.status = "none" => AvailabilityOnly(drain.batch)
  /\ drain.at \in {"prepare", "read", "load", "models", "repair", "confirm", "current"} =>
       drain.status = "none"

\* A project that changed is to be looked at, or was when it changed.
Told == "project" \in noticed \/ pending.project \/ closed

ProjectInv ==
  /\ ChangedProjectIsKnown
  /\ drain.at \in {"read", "load", "models", "repair", "confirm", "current"} /\ drain.project =>
       source.project = drain.named \/ Told
  /\ drain.status = "accepted" /\ drain.project /\ ~failedProject =>
       source.project = accepted.project \/ Told
  /\ drain.at \notin {"idle", "scheduled"} /\ failedProject => drain.project
  /\ drain.status # "accepted" /\ drain.project => drain.batch.project \/ failedProject

LiveInv ==
  LiveTypes /\ RequestInv /\ SourceInv /\ CandidateInv /\ OutcomeInv /\ ProjectInv

\* What rests names no project and nobody who waits.
LEMMA RestIs ==
  /\ NoBatch \in Batches /\ NoBatch.waiters = {} /\ ~NoBatch.project /\ ~NoBatch.asked
  /\ DrainRest \in Drains /\ DrainRest.at = "idle" /\ DrainRest.batch = NoBatch
  /\ ~DrainRest.project /\ DrainRest.status = "none"
<1>1. NoBatch \in Batches /\ NoBatch.waiters = {} /\ ~NoBatch.project /\ ~NoBatch.asked
  BY DEF NoBatch, Batches
<1>2. 0 \in 0..MaxVersions BY VersionsAssumption
<1>3. QED BY <1>1, <1>2 DEF DrainRest, Drains, Places, Status

\* What an answer is, and what is there when nothing was asked.
LEMMA AnswerIs ==
  /\ Quiet \in Asking /\ Quiet.at = "quiet"
  /\ \A s \in Status : Answer(s) \in Asking /\ Answer(s).at = "answered" /\ Answer(s).status = s
<1>1. 0 \in 0..MaxVersions BY VersionsAssumption
<1>2. Quiet \in Asking /\ Quiet.at = "quiet" BY <1>1 DEF Quiet, Asking, Versions, Status
<1>3. ASSUME NEW s \in Status
      PROVE  Answer(s) \in Asking /\ Answer(s).at = "answered" /\ Answer(s).status = s
  <2>1. Answer(s) = [Quiet EXCEPT !.at = "answered", !.status = s] BY DEF Answer
  <2>2. QED BY <1>2, <1>3, <2>1 DEF Asking
<1>4. QED BY <1>2, <1>3

\* The invariant at the beginning.
LEMMA LiveBegins == AcceptedInit /\ LiveInnerInit => LiveInv
<1> SUFFICES ASSUME AcceptedInit, LiveInnerInit PROVE LiveInv OBVIOUS
<1>1. MaxVersions \in Nat /\ MaxLiveFaults \in Nat /\ Starter \in Requester
  BY VersionsAssumption, LiveAssumption
<1>2. NoBatch \in Batches /\ NoBatch.waiters = {} /\ ~NoBatch.project BY RestIs
<1>3. /\ DrainRest \in Drains /\ DrainRest.at = "idle" /\ DrainRest.batch = NoBatch
      /\ ~DrainRest.project /\ DrainRest.status = "none"
  BY RestIs
<1>4. Quiet \in Asking /\ Quiet.at = "quiet" BY AnswerIs
<1>5. LiveTypes
  <2>1. ask \in [Requester -> Asking] BY <1>4 DEF AcceptedInit
  <2>2. source \in Versions BY <1>1 DEF AcceptedInit, Versions
  <2>3. accepted \in [generation : Nat, home : 0..MaxVersions, project : 0..MaxVersions,
                     catalog : 0..MaxVersions]
    BY <1>1 DEF AcceptedInit
  <2>4. pending \in Batches /\ drain \in Drains BY <1>2, <1>3 DEF LiveInnerInit
  <2>5. liveFaults \in 0..MaxLiveFaults BY <1>1 DEF LiveInnerInit
  <2>6. QED
    BY <2>1, <2>2, <2>3, <2>4, <2>5 DEF LiveTypes, AcceptedInit, LiveInnerInit, Quality
<1>6. RequestInv
  BY <1>1, <1>2, <1>3, <1>4 DEF RequestInv, Serves, AcceptedInit, LiveInnerInit
<1>7. SourceInv BY <1>1 DEF SourceInv, AcceptedInit, LiveInnerInit
<1>8. CandidateInv /\ OutcomeInv BY <1>3 DEF CandidateInv, OutcomeInv, LiveInnerInit
<1>9. ProjectInv BY <1>3 DEF ProjectInv, ChangedProjectIsKnown, AcceptedInit, LiveInnerInit
<1>10. QED BY <1>5, <1>6, <1>7, <1>8, <1>9 DEF LiveInv

\* What the drain keeps when it leaves its candidate.
LEMMA ElsewhereIs ==
  ASSUME LiveTypes, NEW at \in Places
  PROVE  /\ Elsewhere(at) \in Drains
         /\ Elsewhere(at).at = at /\ Elsewhere(at).batch = drain.batch
         /\ Elsewhere(at).project = drain.project /\ Elsewhere(at).status = "none"
<1>1. Elsewhere(at) =
        [DrainRest EXCEPT !.at = at, !.batch = drain.batch, !.project = drain.project]
  BY DEF Elsewhere
<1>2. DrainRest \in Drains /\ DrainRest.status = "none" BY RestIs
<1>3. drain \in Drains BY DEF LiveTypes
<1>4. QED BY <1>1, <1>2, <1>3 DEF Drains

\* An outcome keeps the batch it is the outcome of.
LEMMA OutcomeIs ==
  ASSUME LiveTypes, NEW s \in Status
  PROVE  /\ Outcome(s) \in Drains
         /\ Outcome(s).at = IF drain.batch.availability /\ s # "closed" THEN "availability" ELSE "settle"
         /\ Outcome(s).batch = drain.batch
         /\ Outcome(s).project = drain.project /\ Outcome(s).status = s
<1> DEFINE at == IF drain.batch.availability /\ s # "closed" THEN "availability" ELSE "settle"
           e == Elsewhere(at)
<1>1. at \in Places BY DEF Places
<1>2. Outcome(s) = [e EXCEPT !.status = s] BY DEF Outcome
<1> HIDE DEF at
<1>3. e \in Drains /\ e.at = at /\ e.batch = drain.batch /\ e.project = drain.project
  BY <1>1, ElsewhereIs
<1> HIDE DEF e
<1>4. QED BY <1>2, <1>3 DEF Drains, at

\* A batch has its outcome; the drain itself may ask for another look.
LEMMA OutcomeKeeps ==
  ASSUME LiveInv, drain.at \notin {"idle", "scheduled"}, NEW s \in {"accepted", "rejected", "closed"},
         drain' = Outcome(s), rejected' \in BOOLEAN, rejected => rejected',
         UNCHANGED <<source, accepted, closed, ask, quality, noticed, failedProject, starter>>,
         pending' = pending \/ pending' = Merged({}, TRUE, FALSE, FALSE), watching' \in BOOLEAN, closer' = closer, liveFaults' \in 0..MaxLiveFaults,
         s = "rejected" => rejected', s = "closed" => closed,
         s = "accepted" => /\ \A r \in drain.batch.waiters : True(ask[r], "accepted")
                           /\ drain.project /\ ~failedProject => source.project = accepted.project \/ Told,
         s # "accepted" => drain.status = "none"
  PROVE  LiveInv'
<1> USE DEF LiveInv
<1>1. s \in Status BY DEF Status
<1>2. /\ drain' \in Drains /\ drain'.batch = drain.batch
      /\ drain'.at = IF drain.batch.availability /\ s # "closed" THEN "availability" ELSE "settle"
      /\ drain'.project = drain.project /\ drain'.status = s
  BY <1>1, OutcomeIs
<1>3. drain'.at \in {"availability", "settle"} BY <1>2
<1>4. /\ pending' \in Batches /\ pending'.waiters = pending.waiters
      /\ pending.structural => pending'.structural
      /\ pending.project => pending'.project
      /\ ~pending'.asked => pending' = NoBatch
  <2>1. pending \in Batches BY DEF LiveTypes
  <2>2. CASE pending' = pending BY <2>1, <2>2 DEF RequestInv
  <2>3. CASE pending' = Merged({}, TRUE, FALSE, FALSE) BY <2>1, <2>3 DEF Merged, Batches
  <2>4. QED BY <2>2, <2>3
<1>5. LiveTypes' BY <1>2, <1>4 DEF LiveTypes
<1>6. RequestInv' BY <1>2, <1>3, <1>4 DEF RequestInv, Serves
<1>7. SourceInv' /\ CandidateInv' BY <1>2, <1>3 DEF SourceInv, CandidateInv
<1>8. OutcomeInv' BY <1>2, <1>3 DEF OutcomeInv, True
<1>9. ProjectInv' BY <1>2, <1>3, <1>4 DEF ProjectInv, ChangedProjectIsKnown, Told
<1>10. QED BY <1>5, <1>6, <1>7, <1>8, <1>9

Validating == {"prepare", "read", "load", "models", "repair", "confirm", "current"}

\* The validation goes on with the same batch.
LEMMA ValidationKeeps ==
  ASSUME LiveInv, drain.at \in Validating, drain'.at \in Validating, drain' \in Drains,
         drain'.batch = drain.batch, drain'.project = drain.project, drain'.status = "none",
         UNCHANGED <<source, accepted, closed, ask, quality, noticed, watching, failedProject, pending,
                     starter, closer, rejected, liveFaults>>,
         CandidateInv',
         drain'.at # "prepare" /\ drain.project => source.project = drain'.named \/ Told
  PROVE  LiveInv'
<1> USE DEF LiveInv, Validating
<1>1. LiveTypes' BY DEF LiveTypes
<1>2. RequestInv' BY DEF RequestInv, Serves
<1>3. SourceInv' BY DEF SourceInv
<1>4. OutcomeInv' BY DEF OutcomeInv
<1>5. ProjectInv' BY DEF ProjectInv, OutcomeInv, ChangedProjectIsKnown, Told
<1>6. QED BY <1>1, <1>2, <1>3, <1>4, <1>5

\* A closed configuration leaves the validation.
LEMMA ClosedKeeps ==
  ASSUME LiveInv, drain.at \in Validating, closed, drain' = Outcome("closed"), DrainOnly,
         UNCHANGED <<rejected, liveFaults>>
  PROVE  LiveInv'
<1>1. drain.status = "none" /\ drain.at \notin {"idle", "scheduled"}
  BY DEF LiveInv, OutcomeInv, Validating
<1>2. rejected' \in BOOLEAN /\ watching' \in BOOLEAN /\ liveFaults' \in 0..MaxLiveFaults
  BY DEF LiveInv, LiveTypes, DrainOnly
<1>3. QED BY <1>1, <1>2, OutcomeKeeps DEF DrainOnly

\* A rejected candidate remembers its project.
LEMMA RejectKeeps ==
  ASSUME LiveInv, drain.at \in Validating, RejectCandidate, DrainOnly,
         liveFaults' \in 0..MaxLiveFaults
  PROVE  LiveInv'
<1> DEFINE s == IF closed THEN "closed" ELSE "rejected"
<1>1. drain.status = "none" /\ drain.at \notin {"idle", "scheduled"}
  BY DEF LiveInv, OutcomeInv, Validating
<1>2. rejected' = (rejected \/ ~closed) /\ drain' = Outcome(s) BY DEF RejectCandidate
<1>3. rejected' \in BOOLEAN /\ watching' \in BOOLEAN BY <1>2 DEF LiveInv, LiveTypes, DrainOnly
<1>4. s \in {"accepted", "rejected", "closed"} /\ s # "accepted"
      /\ (s = "rejected" => rejected') /\ (s = "closed" => closed)
  BY <1>2
<1> HIDE DEF s
<1>5. QED BY <1>1, <1>2, <1>3, <1>4, OutcomeKeeps DEF DrainOnly

\* The validation of a candidate begins again.
LEMMA AgainKeeps ==
  ASSUME LiveInv, drain.at \in Validating, drain' = Again, DrainOnly,
         UNCHANGED <<rejected, liveFaults>>
  PROVE  LiveInv'
<1> DEFINE e == Elsewhere("prepare")
<1>1. /\ e \in Drains /\ e.at = "prepare" /\ e.batch = drain.batch /\ e.project = drain.project
      /\ e.status = "none"
  BY ElsewhereIs DEF LiveInv, Places
<1>2. drain' = [e EXCEPT !.align = TRUE] BY DEF Again
<1> HIDE DEF e
<1>3. /\ drain' \in Drains /\ drain'.at = "prepare" /\ drain'.batch = drain.batch
      /\ drain'.project = drain.project /\ drain'.status = "none"
  BY <1>1, <1>2 DEF Drains
<1>4. CandidateInv' BY <1>3 DEF CandidateInv
<1>5. QED BY <1>3, <1>4, ValidationKeeps DEF DrainOnly, Validating

\* The candidate is what is accepted already.
LEMMA AligningKeeps ==
  ASSUME LiveInv, drain.at = "read", drain' = [Elsewhere("aligning") EXCEPT !.status = "accepted"],
         UNCHANGED <<source, accepted, closed, ask, quality, noticed, watching, failedProject, pending,
                     starter, closer, rejected, liveFaults>>,
         drain.named = accepted.project, source.home = accepted.home
  PROVE  LiveInv'
<1> DEFINE e == Elsewhere("aligning")
<1> USE DEF LiveInv
<1>1. /\ e \in Drains /\ e.at = "aligning" /\ e.batch = drain.batch /\ e.project = drain.project
  BY ElsewhereIs DEF Places
<1> HIDE DEF e
<1>2. /\ drain' \in Drains /\ drain'.at = "aligning" /\ drain'.batch = drain.batch
      /\ drain'.project = drain.project /\ drain'.status = "accepted"
  BY <1>1 DEF Drains, Status, e
<1>3. LiveTypes' BY <1>2 DEF LiveTypes
<1>4. RequestInv' BY <1>2 DEF RequestInv, Serves
<1>5. SourceInv' /\ CandidateInv' BY <1>2 DEF SourceInv, CandidateInv
<1>6. OutcomeInv'
  <2>1. \A r \in drain.batch.waiters :
          /\ ask[r].since.home <= accepted.home
          /\ ask[r].project => ask[r].since.project <= accepted.project
    BY DEF RequestInv, Serves, CandidateInv, LiveTypes, Drains, Batches
  <2>2. \A r \in drain.batch.waiters :
          /\ ask[r].since.home \in Nat /\ ask[r].since.project \in Nat
          /\ accepted.home \in Nat /\ accepted.project \in Nat
    BY VersionsAssumption DEF LiveTypes, Drains, Batches, Asking, Versions
  <2>3. \A r \in drain.batch.waiters : True(ask[r], "accepted") BY <2>1, <2>2 DEF True
  <2>4. QED BY <1>2, <2>3 DEF OutcomeInv, True
<1>7. ProjectInv'
  <2>1. drain.project => source.project = accepted.project \/ Told BY DEF ProjectInv
  <2>2. QED BY <1>2, <2>1 DEF ProjectInv, ChangedProjectIsKnown, Told
<1>8. QED BY <1>3, <1>4, <1>5, <1>6, <1>7

\* Those who wait for the batch under way ask for no more than there is.
LEMMA WaitersAre ==
  ASSUME LiveInv, NEW r \in drain.batch.waiters
  PROVE  /\ r \in Requester /\ ask[r].at = "waiting" /\ ask[r].since.home <= source.home
         /\ ask[r].project => drain.project /\ ask[r].since.project <= source.project
<1>1. r \in Requester
  <2>1. drain \in Drains BY DEF LiveInv, LiveTypes
  <2>2. QED BY <2>1 DEF Drains, Batches
<1>2. RequestInv BY DEF LiveInv
<1>3. Serves(drain.batch) /\ (drain.batch.project => drain.project) BY <1>2 DEF RequestInv
<1>4. ask[r].at = "waiting" /\ (ask[r].project => drain.project) BY <1>3 DEF Serves
<1>5. ask[r].since.home <= source.home /\ ask[r].since.project <= source.project
  BY <1>1, <1>2, <1>4 DEF RequestInv
<1>6. QED BY <1>1, <1>4, <1>5

\* The drain within a validation: each step adds to what the candidate has read.
LEMMA ValidationSteps ==
  ASSUME LiveInv,
         PrepareProjects \/ ReadCandidate \/ LoadCandidate \/ PrepareModels \/ ConfirmCandidate
  PROVE  LiveInv'
<1> USE DEF LiveInv
<1>1. /\ source.home \in 0..MaxVersions /\ source.project \in 0..MaxVersions
      /\ accepted.home \in 0..MaxVersions /\ accepted.project \in 0..MaxVersions
      /\ drain \in Drains
      /\ \A r \in drain.batch.waiters : r \in Requester
      /\ \A r \in Requester : ask[r].since.home \in 0..MaxVersions
                              /\ ask[r].since.project \in 0..MaxVersions
  BY DEF LiveTypes, Versions, Drains, Batches, Asking
<1>2. DrainOnly /\ UNCHANGED liveFaults /\ drain.at \in Validating
  BY DEF PrepareProjects, ReadCandidate, LoadCandidate, PrepareModels, ConfirmCandidate, Validating
<1>3. drain.status = "none" BY <1>2 DEF OutcomeInv, Validating
<1>4. MaxVersions \in Nat BY VersionsAssumption
<1>5. UNCHANGED <<source, accepted, closed, ask, quality, noticed, watching, failedProject,
                  pending, starter, closer, liveFaults>>
  BY <1>2 DEF DrainOnly
<1>6. CASE closed /\ drain' = Outcome("closed") /\ UNCHANGED rejected
  BY <1>2, <1>6, ClosedKeeps
<1>7. CASE PrepareProjects /\ ~closed
  <2>1. drain' = [drain EXCEPT !.at = "read",
                    !.named = IF drain.project THEN source.project ELSE accepted.project]
    BY <1>7 DEF PrepareProjects, GoesUnlessClosed
  <2>2. /\ drain' \in Drains /\ drain'.at = "read" /\ drain'.batch = drain.batch
        /\ drain'.project = drain.project /\ drain'.status = drain.status
        /\ drain'.named = IF drain.project THEN source.project ELSE accepted.project
    BY <1>1, <2>1 DEF Drains, Places
  <2>3. UNCHANGED rejected BY <1>7 DEF PrepareProjects
  <2>4. CandidateInv'
    <3>1. \A r \in drain.batch.waiters :
            ask[r].project => drain.project /\ ask[r].since.project <= source.project
      BY WaitersAre
    <3>2. QED BY <1>1, <1>5, <2>2, <3>1 DEF CandidateInv, SourceInv
  <2>5. QED BY <1>2, <1>3, <1>5, <2>2, <2>3, <2>4, ValidationKeeps DEF Validating
<1>8. CASE ReadCandidate /\ ~closed
  <2> DEFINE must == \/ rejected \/ accepted.generation = 0
                     \/ drain.named # accepted.project \/ source.home # accepted.home
  <2>1. drain.at = "read" /\ UNCHANGED rejected BY <1>8 DEF ReadCandidate
  <2>2. \A r \in drain.batch.waiters : ask[r].since.home <= source.home
    BY WaitersAre
  <2>3. CASE must \/ drain.align
    <3>1. drain' = [drain EXCEPT !.at = "load", !.home = source.home, !.must = must]
      BY <1>8, <2>3 DEF ReadCandidate, GoesUnlessClosed
    <3>2. must \in BOOLEAN BY DEF LiveTypes
    <3>3. ~must => drain.named = accepted.project /\ source.home = accepted.home OBVIOUS
    <3> HIDE DEF must
    <3>4. /\ drain' \in Drains /\ drain'.at = "load" /\ drain'.batch = drain.batch
          /\ drain'.project = drain.project /\ drain'.status = drain.status
          /\ drain'.named = drain.named /\ drain'.home = source.home /\ drain'.must = must
      BY <1>1, <3>1, <3>2 DEF Drains, Places
    <3>5. CandidateInv'
      BY <1>1, <1>5, <2>1, <2>2, <3>3, <3>4 DEF CandidateInv, SourceInv
    <3>6. drain.project => source.project = drain.named \/ Told BY <2>1 DEF ProjectInv
    <3>7. QED BY <1>2, <1>3, <1>5, <2>1, <3>4, <3>5, <3>6, ValidationKeeps DEF Validating
  <2>4. CASE ~must /\ ~drain.align
    <3>1. drain' = [Elsewhere("aligning") EXCEPT !.status = "accepted"]
      BY <1>8, <2>4 DEF ReadCandidate, GoesUnlessClosed
    <3>2. drain.named = accepted.project /\ source.home = accepted.home BY <2>4
    <3>3. QED BY <1>5, <2>1, <2>2, <3>1, <3>2, AligningKeeps
  <2>5. QED BY <2>3, <2>4
<1>9. CASE LoadCandidate /\ ~closed
  <2>1. CASE quality = "invalid"
    BY <1>2, <1>9, <2>1, RejectKeeps DEF LoadCandidate, LiveTypes
  <2>2. CASE quality # "invalid"
    <3> DEFINE at == IF quality = "dangling" THEN "repair" ELSE "models"
    <3>1. drain' = [drain EXCEPT !.at = at, !.catalog = source.home] /\ UNCHANGED rejected
          /\ drain.at = "load"
      BY <1>9, <2>2 DEF LoadCandidate, GoesUnlessClosed
    <3>2. at \in {"repair", "models"} /\ (at = "repair" => quality = "dangling") OBVIOUS
    <3> HIDE DEF at
    <3>3. /\ drain' \in Drains /\ drain'.at = at /\ drain'.batch = drain.batch
          /\ drain'.project = drain.project /\ drain'.status = drain.status
          /\ drain'.named = drain.named /\ drain'.home = drain.home /\ drain'.must = drain.must
          /\ drain'.catalog = source.home
      BY <1>1, <3>1, <3>2 DEF Drains, Places
    <3>4. CandidateInv' BY <1>1, <1>5, <3>1, <3>2, <3>3 DEF CandidateInv
    <3>5. drain.project => source.project = drain.named \/ Told BY <3>1 DEF ProjectInv
    <3>6. QED BY <1>2, <1>3, <1>5, <3>1, <3>2, <3>3, <3>4, <3>5, ValidationKeeps DEF Validating
  <2>3. QED BY <2>1, <2>2
<1>10. CASE PrepareModels /\ ~closed
  <2>1. drain' = [drain EXCEPT !.at = "confirm"] /\ UNCHANGED rejected /\ drain.at = "models"
    BY <1>10 DEF PrepareModels, GoesUnlessClosed
  <2>2. /\ drain' \in Drains /\ drain'.at = "confirm" /\ drain'.batch = drain.batch
        /\ drain'.project = drain.project /\ drain'.status = drain.status
        /\ drain'.named = drain.named /\ drain'.home = drain.home /\ drain'.must = drain.must
        /\ drain'.catalog = drain.catalog
    BY <1>1, <2>1 DEF Drains, Places
  <2>3. CandidateInv' BY <1>5, <2>1, <2>2 DEF CandidateInv
  <2>4. drain.project => source.project = drain.named \/ Told BY <2>1 DEF ProjectInv
  <2>5. QED BY <1>2, <1>3, <1>5, <2>1, <2>2, <2>3, <2>4, ValidationKeeps DEF Validating
<1>11. CASE ConfirmCandidate
  <2>1. drain.at = "confirm" /\ UNCHANGED rejected BY <1>11 DEF ConfirmCandidate
  <2>2. CASE source.home # drain.home
    BY <1>2, <1>5, <1>11, <2>1, <2>2, AgainKeeps DEF ConfirmCandidate
  <2>3. CASE source.home = drain.home
    <3>1. drain' = [drain EXCEPT !.at = "current"] BY <1>11, <2>3 DEF ConfirmCandidate
    <3>2. /\ drain' \in Drains /\ drain'.at = "current" /\ drain'.batch = drain.batch
          /\ drain'.project = drain.project /\ drain'.status = drain.status
          /\ drain'.named = drain.named /\ drain'.home = drain.home /\ drain'.must = drain.must
          /\ drain'.catalog = drain.catalog
      BY <1>1, <3>1 DEF Drains, Places
    <3>3. drain.catalog \in 0..MaxVersions /\ drain.home \in 0..MaxVersions BY <1>1 DEF Drains
    <3>4. drain.home <= drain.catalog /\ drain.catalog <= source.home BY <2>1 DEF CandidateInv
    <3>5. drain.catalog = drain.home BY <1>1, <1>4, <2>3, <3>3, <3>4
    <3>6. CandidateInv' BY <1>5, <2>1, <3>2, <3>5 DEF CandidateInv
    <3>7. drain.project => source.project = drain.named \/ Told BY <2>1 DEF ProjectInv
    <3>8. QED BY <1>2, <1>3, <1>5, <2>1, <3>2, <3>6, <3>7, ValidationKeeps DEF Validating
  <2>4. QED BY <2>2, <2>3
<1>12. closed /\ ~ConfirmCandidate /\ drain' # Outcome("closed") =>
         LoadCandidate /\ RejectCandidate
  BY DEF PrepareProjects, ReadCandidate, LoadCandidate, PrepareModels, GoesUnlessClosed
<1>13. CASE closed /\ LoadCandidate /\ RejectCandidate
  BY <1>2, <1>13, RejectKeeps DEF LiveTypes
<1>14. closed /\ ~ConfirmCandidate /\ ~(LoadCandidate /\ RejectCandidate) => UNCHANGED rejected
  BY DEF PrepareProjects, ReadCandidate, LoadCandidate, PrepareModels
<1>15. QED BY <1>6, <1>7, <1>8, <1>9, <1>10, <1>11, <1>12, <1>13, <1>14

\* Or it ends: the Agents' defaults are repaired, or the candidate is found to be
\* moved, old news, or what is accepted from now on.
LEMMA RepairKeeps ==
  ASSUME LiveInv, RepairDefaults
  PROVE  LiveInv'
<1> USE DEF LiveInv
<1> DEFINE e == Elsewhere("prepare")
<1>1. /\ e \in Drains /\ e.at = "prepare" /\ e.batch = drain.batch /\ e.project = drain.project
      /\ e.status = "none"
  BY ElsewhereIs DEF Places
<1>2. drain' = [e EXCEPT !.align = TRUE] BY DEF RepairDefaults, Again
<1> HIDE DEF e
<1>3. /\ drain' \in Drains /\ drain'.at = "prepare" /\ drain'.batch = drain.batch
      /\ drain'.project = drain.project /\ drain'.status = "none"
  BY <1>1, <1>2 DEF Drains
<1>4. drain.at = "repair" /\ drain.status = "none"
      /\ UNCHANGED <<accepted, rejected, closed, ask, watching, failedProject, pending, starter,
                     closer, liveFaults>>
  BY DEF RepairDefaults, OutcomeInv
<1>5. /\ source' \in Versions /\ source'.project = source.project /\ source.home <= source'.home
      /\ noticed' \in SUBSET {"home", "project"} /\ noticed \subseteq noticed'
      /\ quality' \in Quality
      /\ quality' = "dangling" => source'.home + source'.project < MaxVersions
  <2>1. CASE source.home = drain.catalog
    <3>1. source.home + source.project < MaxVersions BY <1>4, <2>1 DEF CandidateInv, SourceInv
    <3>2. source' = [source EXCEPT !.home = @ + 1] /\ quality' = "valid"
          /\ noticed' = IF watching THEN noticed \cup {"home"} ELSE noticed
      BY <2>1 DEF RepairDefaults
    <3>3. QED BY <3>1, <3>2, VersionsAssumption DEF LiveTypes, Versions, Quality
  <2>2. CASE source.home # drain.catalog
    <3>1. UNCHANGED <<source, quality, noticed>> BY <2>2 DEF RepairDefaults
    <3>2. QED BY <3>1, VersionsAssumption DEF LiveTypes, Versions, SourceInv
  <2>3. QED BY <2>1, <2>2
<1>6. LiveTypes' BY <1>3, <1>4, <1>5 DEF LiveTypes
<1>7. RequestInv'
  <2>1. \A r \in Requester : ask[r].at = "waiting" => ask[r].since.home <= source'.home
    <3>1. \A r \in Requester : ask[r].since.home \in Nat BY VersionsAssumption DEF LiveTypes, Asking, Versions
    <3>2. source.home \in Nat /\ source'.home \in Nat BY <1>5, VersionsAssumption DEF LiveTypes, Versions
    <3>3. QED BY <1>5, <3>1, <3>2 DEF RequestInv
  <2>2. QED BY <1>3, <1>4, <1>5, <2>1 DEF RequestInv, Serves
<1>8. SourceInv'
  <2>1. accepted.home \in Nat /\ source.home \in Nat /\ source'.home \in Nat
    BY <1>5, VersionsAssumption DEF LiveTypes, Versions
  <2>2. QED BY <1>4, <1>5, <2>1 DEF SourceInv
<1>9. CandidateInv' BY <1>3 DEF CandidateInv
<1>10. OutcomeInv' BY <1>3 DEF OutcomeInv
<1>11. ProjectInv' BY <1>3, <1>4, <1>5 DEF ProjectInv, ChangedProjectIsKnown, Told
<1>12. QED BY <1>6, <1>7, <1>8, <1>9, <1>10, <1>11

\* A candidate that falls is rejected, at whatever step of the validation.
LEMMA FallsKeeps ==
  ASSUME LiveInv, CandidateFalls
  PROVE  LiveInv'
<1> USE DEF LiveInv
<1>1. drain.at = "current" /\ drain.at \in Validating /\ DrainOnly /\ UNCHANGED <<rejected, liveFaults>>
  BY DEF CandidateFalls, Validating
<1>2. CASE drain' = Again BY <1>1, <1>2, AgainKeeps
<1>3. CASE closed /\ drain' = Outcome("closed") BY <1>1, <1>3, ClosedKeeps
<1>4. CASE ~ProjectMoved /\ ~closed /\ ~drain.must /\ drain' = Outcome("accepted")
  <2>1. drain.home = accepted.home /\ drain.named = accepted.project
    BY <1>1, <1>4 DEF CandidateInv
  <2>2. \A r \in drain.batch.waiters :
          /\ ask[r].since.home <= accepted.home
          /\ ask[r].project => ask[r].since.project <= accepted.project
    BY <1>1, <2>1 DEF CandidateInv
  <2>3. \A r \in drain.batch.waiters :
          /\ ask[r].since.home \in Nat /\ ask[r].since.project \in Nat
          /\ accepted.home \in Nat /\ accepted.project \in Nat
    BY VersionsAssumption DEF LiveTypes, Drains, Batches, Asking, Versions
  <2>4. \A r \in drain.batch.waiters : True(ask[r], "accepted") BY <2>2, <2>3 DEF True
  <2>5. drain.project => source.project = accepted.project BY <1>4, <2>1 DEF ProjectMoved
  <2>6. QED BY <1>1, <1>4, <2>4, <2>5, OutcomeKeeps DEF DrainOnly, LiveTypes
<1>5. QED BY <1>2, <1>3, <1>4 DEF CandidateFalls, GoesUnlessClosed

\* A committed candidate was read after everybody who is answered had asked.
LEMMA LiveCommitKeeps ==
  ASSUME LiveInv, CommitCandidate
  PROVE  LiveInv'
<1> USE DEF LiveInv
<1> DEFINE e == Elsewhere("aligning")
<1>1. /\ e \in Drains /\ e.at = "aligning" /\ e.batch = drain.batch /\ e.project = drain.project
  BY ElsewhereIs DEF Places
<1>2. drain' = [e EXCEPT !.status = "accepted"] BY DEF CommitCandidate
<1> HIDE DEF e
<1>3. /\ drain' \in Drains /\ drain'.at = "aligning" /\ drain'.batch = drain.batch
      /\ drain'.project = drain.project /\ drain'.status = "accepted"
  BY <1>1, <1>2 DEF Drains, Status
<1>4. /\ drain.at = "current" /\ ~ProjectMoved /\ ~closed /\ ~rejected' /\ rejected' = FALSE
      /\ failedProject' = FALSE
      /\ accepted' = [generation |-> accepted.generation + 1, home |-> drain.home,
                      project |-> drain.named, catalog |-> drain.catalog]
      /\ UNCHANGED <<source, closed, ask, quality, noticed, watching, pending, starter, closer,
                     liveFaults>>
  BY DEF CommitCandidate
<1>5. /\ accepted'.home = drain.home /\ accepted'.project = drain.named
      /\ accepted' \in [generation : Nat, home : 0..MaxVersions, project : 0..MaxVersions,
                        catalog : 0..MaxVersions]
  BY <1>4 DEF LiveTypes, Drains
<1>6. LiveTypes' BY <1>3, <1>4, <1>5 DEF LiveTypes
<1>7. RequestInv' BY <1>3, <1>4 DEF RequestInv, Serves
<1>8. SourceInv' BY <1>4, <1>5 DEF SourceInv, CandidateInv
<1>9. CandidateInv' BY <1>3 DEF CandidateInv
<1>10. OutcomeInv'
  <2>1. \A r \in drain.batch.waiters :
          /\ ask[r].since.home <= drain.home
          /\ ask[r].project => ask[r].since.project <= drain.named
    BY <1>4 DEF CandidateInv
  <2>2. \A r \in drain.batch.waiters :
          /\ ask[r].since.home \in Nat /\ ask[r].since.project \in Nat
          /\ drain.home \in Nat /\ drain.named \in Nat
    BY VersionsAssumption DEF LiveTypes, Drains, Batches, Asking, Versions
  <2>3. \A r \in drain.batch.waiters :
          ask[r].structural => /\ drain.home >= ask[r].since.home
                               /\ ask[r].project => drain.named >= ask[r].since.project
    BY <2>1, <2>2
  <2>4. QED BY <1>3, <1>4, <1>5, <2>3 DEF OutcomeInv, True
<1>11. ProjectInv'
  <2>1. drain.project => source.project = drain.named BY <1>4 DEF ProjectMoved
  <2>2. ~drain.project => drain.named = accepted.project /\ ~failedProject
    BY <1>4 DEF CandidateInv, ProjectInv
  <2>3. ChangedProjectIsKnown' BY <1>3, <1>4, <1>5, <2>1, <2>2 DEF ProjectInv, ChangedProjectIsKnown
  <2>4. QED BY <1>3, <1>4, <1>5, <2>1, <2>3 DEF ProjectInv, Told
<1>12. QED BY <1>6, <1>7, <1>8, <1>9, <1>10, <1>11

\* A failure rejects the candidate, too.
LEMMA FailsKeeps ==
  ASSUME LiveInv, DrainFails
  PROVE  LiveInv'
<1>1. liveFaults' \in 0..MaxLiveFaults BY LiveAssumption DEF DrainFails, LiveInv, LiveTypes
<1>2. drain.at \in Validating BY DEF DrainFails, Validating
<1>3. QED BY <1>1, <1>2, RejectKeeps DEF DrainFails

\* What follows a commit or a rejection changes no source.
LEMMA AvailabilityKeeps ==
  ASSUME LiveInv, AvailabilityAdvances
  PROVE  LiveInv'
<1> USE DEF LiveInv
<1> DEFINE s == IF drain.status # "none" THEN drain.status ELSE IF closed THEN "closed" ELSE "accepted"
<1>1. drain.at = "availability" /\ drain \in Drains BY DEF AvailabilityAdvances, LiveTypes
<1>2. drain' = [drain EXCEPT !.at = "settle", !.status = s] BY DEF AvailabilityAdvances
<1>3. /\ s \in Status /\ s # "none"
      /\ drain.status # "none" => s = drain.status
      /\ drain.status = "none" => s \in {"closed", "accepted"} /\ (s = "closed" => closed)
  <2>1. CASE drain.status # "none"
    <3>1. s = drain.status BY <2>1
    <3>2. drain.status \in Status BY <1>1 DEF Drains
    <3> HIDE DEF s
    <3>3. QED BY <2>1, <3>1, <3>2
  <2>2. CASE drain.status = "none" /\ closed BY <2>2 DEF Status
  <2>3. CASE drain.status = "none" /\ ~closed BY <2>3 DEF Status
  <2>4. QED BY <2>1, <2>2, <2>3
<1> HIDE DEF s
<1>4. /\ drain' \in Drains /\ drain'.at = "settle" /\ drain'.batch = drain.batch
      /\ drain'.project = drain.project /\ drain'.status = s
  BY <1>1, <1>2, <1>3 DEF Drains, Places
<1>5. /\ UNCHANGED <<source, accepted, closed, ask, quality, noticed, watching, failedProject, pending,
                     starter, closer, rejected, liveFaults>>
  BY DEF AvailabilityAdvances, DrainOnly
<1>6. LiveTypes' BY <1>4, <1>5 DEF LiveTypes
<1>7. RequestInv' BY <1>4, <1>5 DEF RequestInv, Serves
<1>8. SourceInv' /\ CandidateInv' BY <1>4, <1>5 DEF SourceInv, CandidateInv
<1>9. OutcomeInv'
  <2>1. CASE drain.status # "none" BY <1>3, <1>4, <1>5, <2>1 DEF OutcomeInv, True
  <2>2. CASE drain.status = "none"
    <3>1. AvailabilityOnly(drain.batch) BY <1>1, <2>2 DEF OutcomeInv
    <3>2. \A r \in drain.batch.waiters : ~ask[r].structural
      <4>1. Serves(drain.batch) BY DEF RequestInv
      <4>2. QED BY <3>1, <4>1 DEF AvailabilityOnly, Serves
    <3>3. QED BY <1>3, <1>4, <1>5, <2>2, <3>2 DEF OutcomeInv, True
  <2>3. QED BY <2>1, <2>2
<1>10. ProjectInv'
  <2>1. ChangedProjectIsKnown' BY <1>4, <1>5 DEF ProjectInv, ChangedProjectIsKnown
  <2>2. Told' <=> Told BY <1>5 DEF Told
  <2>3. failedProject' => drain'.project BY <1>1, <1>4, <1>5 DEF ProjectInv
  <2>4. CASE drain.status # "none"
    <3>1. drain'.status = drain.status BY <1>3, <1>4, <2>4
    <3>2. QED BY <1>4, <1>5, <2>1, <2>2, <2>3, <3>1 DEF ProjectInv
  <2>5. CASE drain.status = "none"
    <3>1. ~drain.batch.project BY <1>1, <2>5 DEF OutcomeInv, AvailabilityOnly
    <3>2. drain.project => failedProject BY <2>5, <3>1 DEF ProjectInv
    <3>3. QED BY <1>4, <1>5, <2>1, <2>2, <2>3, <3>2 DEF ProjectInv
  <2>6. QED BY <2>4, <2>5
<1>11. QED BY <1>6, <1>7, <1>8, <1>9, <1>10

\* The waiters of a batch are answered, and the loop goes on with the next one, which
\* takes up what failed.
LEMMA TakeKeeps ==
  ASSUME LiveInv, drain.at \in {"scheduled", "settle"}, TakeNext(failedProject'),
         failedProject' \in BOOLEAN, failedProject => failedProject',
         drain.status = "rejected" /\ drain.batch.project => failedProject',
         ask' = Answered(drain.batch.waiters, drain.status),
         UNCHANGED <<source, accepted, rejected, closed, quality, noticed, watching, starter, closer,
                     liveFaults>>
  PROVE  LiveInv'
<1> USE DEF LiveInv
<1>1. drain \in Drains /\ pending \in Batches /\ drain.status \in Status
      /\ drain.batch.waiters \subseteq Requester /\ pending.waiters \subseteq Requester
  BY DEF LiveTypes, Drains, Batches
<1>2. \A r \in Requester : ask'[r] = IF r \in drain.batch.waiters THEN Answer(drain.status) ELSE ask[r]
  BY DEF Answered
<1>3. Answer(drain.status) \in Asking /\ Answer(drain.status).at = "answered"
  BY <1>1, AnswerIs
<1>4. ask' \in [Requester -> Asking]
  <2>1. \A r \in Requester : ask[r] \in Asking BY DEF LiveTypes
  <2>2. ask' = [r \in Requester |-> IF r \in drain.batch.waiters THEN Answer(drain.status) ELSE ask[r]]
    BY DEF Answered
  <2> HIDE DEF LiveInv
  <2>3. QED BY <1>3, <2>1, <2>2
<1>5. \A r \in pending.waiters : ask'[r] = ask[r] /\ r \in Requester
  BY <1>1, <1>2 DEF RequestInv
<1>6. \A r \in Requester : ask'[r].at = "waiting" => r \in pending.waiters /\ ask'[r] = ask[r]
  BY <1>2, <1>3 DEF RequestInv
<1>7. starter \in {"new", "align", "reread", "asking"} => ask'[Starter].at # "waiting"
  BY <1>6, LiveAssumption DEF RequestInv
<1>8. /\ drain.status = "accepted" /\ drain.project /\ ~failedProject =>
            source.project = accepted.project \/ Told
      /\ drain.status # "accepted" /\ drain.project => failedProject' \/ closed
      /\ drain.at = "scheduled" => ~drain.project
  BY <1>1 DEF ProjectInv, RequestInv, OutcomeInv, Status
<1>9. source.project # accepted.project => Told \/ failedProject'
  BY <1>8 DEF ProjectInv, ChangedProjectIsKnown, Told
<1>10. SourceInv' BY DEF SourceInv
<1>11. CASE pending.asked /\ ~closed
  <2> DEFINE at == IF AvailabilityOnly(pending) THEN "availability" ELSE "prepare"
             project == pending.project \/ failedProject'
  <2>1. drain' = [DrainRest EXCEPT !.at = at, !.batch = pending, !.project = project]
        /\ pending' = NoBatch
    BY <1>11 DEF TakeNext
  <2>2. at \in {"availability", "prepare"} /\ (at = "availability" => AvailabilityOnly(pending))
        /\ project \in BOOLEAN
    BY <1>1 DEF Batches
  <2>3. project <=> pending.project \/ failedProject' OBVIOUS
  <2> HIDE DEF at, project
  <2>4. /\ drain' \in Drains /\ drain'.at = at /\ drain'.batch = pending
        /\ drain'.project = project /\ drain'.status = "none"
    BY <1>1, <2>1, <2>2, RestIs DEF Drains, Places
  <2>5. LiveTypes' BY <1>4, <2>1, <2>4, RestIs DEF LiveTypes
  <2>6. RequestInv'
    <3>1. Serves(pending)' /\ pending'.waiters = {} BY <2>1, RestIs DEF Serves
    <3>2. \A r \in pending.waiters :
            /\ ask'[r].at = "waiting"
            /\ ask'[r].structural => pending.structural
            /\ ask'[r].project => pending.project
      BY <1>5 DEF RequestInv, Serves
    <3>3. Serves(drain.batch)' BY <2>4, <3>2 DEF Serves
    <3>4. \A r \in Requester :
            ask'[r].at = "waiting" =>
              /\ r \in drain'.batch.waiters
              /\ ask'[r].since.home <= source.home /\ ask'[r].since.project <= source.project
      BY <1>6, <2>4 DEF RequestInv
    <3>5. drain'.batch.project => drain'.project BY <2>3, <2>4
    <3>6. QED BY <1>7, <2>1, <2>2, <2>4, <3>1, <3>3, <3>4, <3>5 DEF RequestInv
  <2>7. CandidateInv' BY <2>2, <2>4 DEF CandidateInv
  <2>8. OutcomeInv' BY <2>2, <2>4 DEF OutcomeInv, AvailabilityOnly
  <2>9. ProjectInv'
    <3>1. ChangedProjectIsKnown' BY <1>9, <2>3, <2>4 DEF ChangedProjectIsKnown, Told
    <3>2. QED BY <2>2, <2>3, <2>4, <3>1 DEF ProjectInv
  <2>10. QED BY <1>10, <2>5, <2>6, <2>7, <2>8, <2>9
<1>12. CASE ~(pending.asked /\ ~closed)
  <2>1. drain' = DrainRest /\ pending' = pending BY <1>12 DEF TakeNext
  <2>2. LiveTypes' BY <1>4, <2>1, RestIs DEF LiveTypes
  <2>3. RequestInv'
    <3>1. Serves(drain.batch)' /\ drain'.batch.waiters = {} BY <2>1, RestIs DEF Serves
    <3>2. Serves(pending)' BY <1>5, <2>1 DEF Serves, RequestInv
    <3>3. \A r \in Requester :
            ask'[r].at = "waiting" =>
              /\ r \in pending.waiters
              /\ ask'[r].since.home <= source.home /\ ask'[r].since.project <= source.project
      BY <1>6 DEF RequestInv
    <3>4. QED BY <1>7, <2>1, <3>1, <3>2, <3>3, RestIs DEF RequestInv
  <2>4. CandidateInv' /\ OutcomeInv' BY <2>1, RestIs DEF CandidateInv, OutcomeInv
  <2>5. ProjectInv'
    <3>1. ChangedProjectIsKnown' BY <1>9, <2>1 DEF ChangedProjectIsKnown, Told
    <3>2. QED BY <2>1, <3>1, RestIs DEF ProjectInv
  <2>6. QED BY <1>10, <2>2, <2>3, <2>4, <2>5
<1>13. QED BY <1>11, <1>12

\* The loop takes up what is pending, and settles what it took up.
LEMMA LoopKeeps ==
  ASSUME LiveInv, DrainStarts \/ SettleBatch
  PROVE  LiveInv'
<1>1. failedProject \in BOOLEAN BY DEF LiveInv, LiveTypes
<1>2. CASE SettleBatch
  <2>1. failedProject' \in BOOLEAN BY <1>1, <1>2 DEF SettleBatch
  <2>2. QED BY <1>2, <2>1, TakeKeeps DEF SettleBatch
<1>3. CASE DrainStarts
  <2>1. drain.batch = NoBatch /\ drain.status = "none"
    BY <1>3 DEF DrainStarts, LiveInv, RequestInv
  <2>2. ask' = Answered({}, drain.status) BY <1>3 DEF DrainStarts, acceptedVars, Answered, LiveInv, LiveTypes
  <2>3. ask' = Answered(drain.batch.waiters, drain.status) BY <2>1, <2>2, RestIs
  <2>4. QED BY <1>1, <1>3, <2>1, <2>3, TakeKeeps DEF DrainStarts, acceptedVars
<1>4. QED BY <1>2, <1>3

\* A request has the drain scheduled, if it rests.
LEMMA ScheduledIs ==
  ASSUME LiveTypes
  PROVE  /\ Scheduled \in Drains
         /\ \/ Scheduled.at = drain.at
            \/ drain.at = "idle" /\ Scheduled.at = "scheduled"
         /\ Scheduled.batch = drain.batch /\ Scheduled.project = drain.project
         /\ Scheduled.home = drain.home /\ Scheduled.named = drain.named
         /\ Scheduled.catalog = drain.catalog /\ Scheduled.must = drain.must
         /\ Scheduled.status = drain.status
<1>1. drain \in Drains BY DEF LiveTypes
<1>2. QED BY <1>1 DEF Scheduled, Drains, Places

\* A request leaves the batch under way as it is.
LEMMA ScheduledKeeps ==
  ASSUME LiveInv, drain' = Scheduled,
         UNCHANGED <<source, accepted, closed, quality, failedProject>>,
         rejected => rejected', \A r \in drain.batch.waiters : ask'[r] = ask[r], Told => Told'
  PROVE  SourceInv' /\ CandidateInv' /\ OutcomeInv' /\ ProjectInv'
<1> USE DEF LiveInv
<1>1. /\ \/ drain'.at = drain.at
         \/ drain.at = "idle" /\ drain'.at = "scheduled"
      /\ drain'.batch = drain.batch /\ drain'.project = drain.project
      /\ drain'.home = drain.home /\ drain'.named = drain.named
      /\ drain'.catalog = drain.catalog /\ drain'.must = drain.must
      /\ drain'.status = drain.status
  BY ScheduledIs
<1>2. SourceInv' BY DEF SourceInv
<1>3. CandidateInv' BY <1>1 DEF CandidateInv
<1>4. OutcomeInv'
  <2>1. \A r \in drain'.batch.waiters : True(ask[r], "accepted") => True(ask[r], "accepted")'
    BY <1>1 DEF True
  <2>2. QED BY <1>1, <2>1 DEF OutcomeInv
<1>5. ProjectInv'
  <2>1. ChangedProjectIsKnown' BY <1>1 DEF ProjectInv, ChangedProjectIsKnown, Told
  <2>2. QED BY <1>1, <2>1 DEF ProjectInv
<1>6. QED BY <1>2, <1>3, <1>4, <1>5

\* Someone asks, and waits in the next batch or is answered by a closed
\* configuration.
LEMMA AskedKeeps ==
  ASSUME LiveInv, NEW r \in Requester, NEW structural \in BOOLEAN, NEW availability \in BOOLEAN,
         NEW project \in BOOLEAN,
         ask[r].at # "waiting", Asked(r, structural, availability, project),
         starter' \in {"new", "first", "align", "reread", "asking", "second", "started", "stopped"},
         starter' \in {"new", "align", "reread", "asking"} => starter' = starter /\ r # Starter,
         UNCHANGED <<source, accepted, rejected, closed, quality, noticed, watching, failedProject,
                     closer, liveFaults>>
  PROVE  LiveInv'
<1> USE DEF LiveInv
<1>1. r \notin pending.waiters /\ r \notin drain.batch.waiters BY DEF RequestInv, Serves
<1>2. pending \in Batches /\ drain \in Drains /\ ask \in [Requester -> Asking]
      /\ drain.batch.waiters \subseteq Requester /\ pending.waiters \subseteq Requester
  BY DEF LiveTypes, Drains, Batches
<1>3. CASE closed
  <2>1. ask' = [ask EXCEPT ![r] = Answer("closed")] /\ UNCHANGED <<pending, drain>>
    BY <1>3 DEF Asked
  <2>2. Answer("closed") \in Asking /\ Answer("closed").at = "answered" BY AnswerIs DEF Status
  <2>3. \A q \in Requester : ask'[q] = IF q = r THEN Answer("closed") ELSE ask[q]
    BY <1>2, <2>1
  <2>4. \A q \in pending.waiters \cup drain.batch.waiters : ask'[q] = ask[q]
    BY <1>1, <1>2, <2>3
  <2>5. ask' \in [Requester -> Asking] BY <1>2, <2>1, <2>2
  <2>6. LiveTypes' BY <2>1, <2>5 DEF LiveTypes
  <2>7. RequestInv'
    <3>1. Serves(pending)' /\ Serves(drain.batch)' BY <2>1, <2>4 DEF Serves, RequestInv
    <3>2. \A q \in Requester : ask'[q].at = "waiting" => ask'[q] = ask[q] BY <2>2, <2>3
    <3>3. \A q \in Requester :
            ask'[q].at = "waiting" =>
              /\ q \in pending'.waiters \/ q \in drain'.batch.waiters
              /\ ask'[q].since.home <= source'.home /\ ask'[q].since.project <= source'.project
      BY <2>1, <3>2 DEF RequestInv
    <3>4. starter' \in {"new", "align", "reread", "asking"} => ask'[Starter].at # "waiting"
      BY <3>2, LiveAssumption DEF RequestInv
    <3>5. QED BY <2>1, <3>1, <3>3, <3>4 DEF RequestInv
  <2>8. SourceInv' /\ CandidateInv' BY <2>1, <2>4 DEF SourceInv, CandidateInv
  <2>9. OutcomeInv'
    <3>1. \A q \in drain.batch.waiters : True(ask[q], "accepted") => True(ask[q], "accepted")'
      BY <2>4 DEF True
    <3>2. QED BY <2>1, <3>1 DEF OutcomeInv
  <2>10. ProjectInv' BY <2>1 DEF ProjectInv, ChangedProjectIsKnown, Told
  <2>11. QED BY <2>6, <2>7, <2>8, <2>9, <2>10
<1>4. CASE ~closed
  <2>1. /\ ask' = [ask EXCEPT ![r] = Request(structural, project)]
        /\ pending' = Merged({r}, structural, availability, project)
        /\ drain' = Scheduled
    BY <1>4 DEF Asked
  <2>2. /\ Request(structural, project) \in Asking
        /\ Request(structural, project).structural = structural
        /\ Request(structural, project).project = project
        /\ Request(structural, project).since = source
        /\ Request(structural, project).at = "waiting"
    BY DEF Request, Asking, Status, LiveTypes
  <2>3. \A q \in Requester : ask'[q] = IF q = r THEN Request(structural, project) ELSE ask[q]
    BY <1>2, <2>1
  <2>4. \A q \in pending.waiters \cup drain.batch.waiters : ask'[q] = ask[q] /\ q # r
    BY <1>1, <1>2, <2>3
  <2>5. ask' \in [Requester -> Asking] BY <1>2, <2>1, <2>2
  <2>6. /\ pending' \in Batches /\ pending'.asked /\ pending'.waiters = pending.waiters \cup {r}
        /\ pending'.structural <=> (pending.structural \/ structural)
        /\ pending'.project <=> (pending.project \/ project)
    BY <1>2, <2>1 DEF Merged, Batches
  <2>7. /\ drain' \in Drains
        /\ drain'.at \in {"idle", "scheduled"} => drain.at \in {"idle", "scheduled"}
        /\ drain'.batch = drain.batch /\ drain'.project = drain.project
        /\ drain'.status = drain.status
    BY <2>1, ScheduledIs
  <2>8. LiveTypes' BY <2>5, <2>6, <2>7 DEF LiveTypes
  <2>9. RequestInv'
    <3>1. Serves(drain.batch)' BY <2>4, <2>7 DEF Serves, RequestInv
    <3>2. \A q \in pending.waiters :
            /\ ask'[q].at = "waiting"
            /\ ask'[q].structural => pending'.structural
            /\ ask'[q].project => pending'.project
      BY <2>4, <2>6 DEF Serves, RequestInv
    <3>3. /\ ask'[r].at = "waiting"
          /\ ask'[r].structural => pending'.structural
          /\ ask'[r].project => pending'.project
      BY <2>2, <2>3, <2>6
    <3>4. Serves(pending)' BY <2>6, <3>2, <3>3 DEF Serves
    <3>5. source.home <= source.home /\ source.project <= source.project
      BY VersionsAssumption DEF LiveTypes, Versions
    <3>6. \A q \in Requester :
            ask'[q].at = "waiting" =>
              /\ q \in pending'.waiters \/ q \in drain'.batch.waiters
              /\ ask'[q].since.home <= source'.home /\ ask'[q].since.project <= source'.project
      BY <2>2, <2>3, <2>6, <2>7, <3>5 DEF RequestInv
    <3>7. pending'.waiters \cap drain'.batch.waiters = {} BY <1>1, <2>6, <2>7 DEF RequestInv
    <3>8. starter' \in {"new", "align", "reread", "asking"} => ask'[Starter].at # "waiting"
      BY <2>3, LiveAssumption DEF RequestInv
    <3>9. QED BY <2>6, <2>7, <3>1, <3>4, <3>6, <3>7, <3>8 DEF RequestInv
  <2>10. Told => Told' BY <2>6 DEF Told
  <2>11. SourceInv' /\ CandidateInv' /\ OutcomeInv' /\ ProjectInv'
    BY <2>1, <2>4, <2>10, ScheduledKeeps
  <2>12. QED BY <2>8, <2>9, <2>11
<1>5. QED BY <1>3, <1>4

\* A request joins the pending batch.
LEMMA RequestsKeep ==
  ASSUME LiveInv
  PROVE  /\ \A r \in Requester \ {Starter} : Synchronize(r) => LiveInv'
         /\ StarterAsks => LiveInv'
<1>1. ASSUME NEW r \in Requester \ {Starter}, Synchronize(r) PROVE LiveInv'
  <2>1. starter' = starter /\ starter \notin {"new", "align", "reread", "asking"} /\ ask[r].at # "waiting" /\ r \in Requester
    BY <1>1 DEF Synchronize, Serving
  <2>2. starter' \in {"new", "first", "align", "reread", "asking", "second", "started", "stopped"}
    BY <2>1 DEF LiveInv, LiveTypes
  <2>3. UNCHANGED <<source, accepted, rejected, closed, quality, noticed, watching, failedProject,
                    closer, liveFaults>>
    BY <1>1 DEF Synchronize
  <2>4. CASE Asked(r, FALSE, TRUE, FALSE) BY <2>1, <2>2, <2>3, <2>4, AskedKeeps
  <2>5. ASSUME NEW project \in BOOLEAN, Asked(r, TRUE, FALSE, project) PROVE LiveInv'
    BY <2>1, <2>2, <2>3, <2>5, AskedKeeps
  <2>6. QED BY <1>1, <2>4, <2>5 DEF Synchronize
<1>2. ASSUME StarterAsks PROVE LiveInv'
  <2>1. starter' \in {"stopped", "first", "second"} /\ ask[Starter].at # "waiting" /\ Starter \in Requester
    BY <1>2, LiveAssumption DEF StarterAsks, LiveInv, RequestInv
  <2>2. UNCHANGED <<source, accepted, rejected, closed, quality, noticed, watching, failedProject,
                    closer, liveFaults>>
    BY <1>2 DEF StarterAsks, StarterOnly
  <2>3. CASE ~closed
    BY <1>2, <2>1, <2>2, <2>3, AskedKeeps DEF StarterAsks
  <2>4. CASE closed
    <3>1. UNCHANGED <<ask, pending, drain>> BY <1>2, <2>4 DEF StarterAsks
    <3>2. QED
      BY <2>1, <2>2, <3>1
      DEF LiveInv, LiveTypes, RequestInv, Serves, SourceInv, CandidateInv, OutcomeInv, True, ProjectInv,
          ChangedProjectIsKnown, Told
  <2>5. QED BY <2>3, <2>4
<1>3. QED BY <1>1, <1>2

\* The watchers are aligned within the drain, which then looks once more.
LEMMA AlignsKeep ==
  ASSUME LiveInv, DrainAligns \/ DrainRereads
  PROVE  LiveInv'
<1> USE DEF LiveInv
<1>1. /\ drain.at \in {"aligning", "reread"} /\ drain.status = "accepted"
      /\ drain.at \notin {"idle", "scheduled"}
      /\ \A r \in drain.batch.waiters : True(ask[r], "accepted")
      /\ drain.project /\ ~failedProject => source.project = accepted.project \/ Told
  BY DEF DrainAligns, DrainRereads, OutcomeInv, ProjectInv
<1>2. UNCHANGED <<source, accepted, closed, ask, quality, noticed, failedProject, starter, closer>>
  BY DEF DrainAligns, DrainRereads, acceptedVars
<1>3. liveFaults' \in 0..MaxLiveFaults
  <2>1. liveFaults' = liveFaults \/ (liveFaults < MaxLiveFaults /\ liveFaults' = liveFaults + 1)
    BY DEF DrainAligns, DrainRereads
  <2>2. liveFaults \in 0..MaxLiveFaults BY DEF LiveTypes
  <2> HIDE DEF LiveInv
  <2>3. QED BY <2>1, <2>2, LiveAssumption
<1>4. rejected' \in BOOLEAN /\ watching' \in BOOLEAN /\ (rejected => rejected')
  BY DEF DrainAligns, DrainRereads, LiveTypes, acceptedVars
<1>5. pending' = pending \/ pending' = Merged({}, TRUE, FALSE, FALSE)
  BY DEF DrainAligns, DrainRereads
<1>6. CASE drain' = Outcome("accepted") BY <1>1, <1>2, <1>3, <1>4, <1>5, <1>6, OutcomeKeeps
<1>7. CASE drain.at = "aligning" /\ drain' = [drain EXCEPT !.at = "reread"]
           /\ UNCHANGED <<rejected, pending>>
  <2>1. /\ drain' \in Drains /\ drain'.at = "reread" /\ drain'.batch = drain.batch
        /\ drain'.project = drain.project /\ drain'.status = "accepted"
    BY <1>1, <1>7 DEF LiveTypes, Drains, Places
  <2>2. LiveTypes' BY <1>2, <1>3, <1>4, <1>7, <2>1 DEF LiveTypes
  <2>3. RequestInv' BY <1>2, <1>7, <2>1 DEF RequestInv, Serves
  <2>4. SourceInv' /\ CandidateInv' BY <1>2, <2>1 DEF SourceInv, CandidateInv
  <2>5. OutcomeInv' BY <1>1, <1>2, <1>7, <2>1 DEF OutcomeInv, True
  <2>6. ProjectInv' BY <1>1, <1>2, <1>7, <2>1 DEF ProjectInv, ChangedProjectIsKnown, Told
  <2>7. QED BY <2>2, <2>3, <2>4, <2>5, <2>6
<1>8. QED BY <1>1, <1>6, <1>7 DEF DrainAligns, DrainRereads, acceptedVars

\* start() asks, aligns and reads again.
LEMMA StarterKeeps ==
  ASSUME LiveInv, StarterAnswered \/ StarterAligns \/ StarterRereads
  PROVE  LiveInv'
<1> USE DEF LiveInv
<1>1. UNCHANGED <<source, accepted, closed, quality, noticed, failedProject, closer, pending, drain>>
  BY DEF StarterAnswered, StarterAligns, StarterRereads, StarterOnly
<1>2. /\ watching' \in BOOLEAN /\ rejected' \in BOOLEAN /\ (rejected => rejected')
      /\ liveFaults' \in 0..MaxLiveFaults
      /\ starter' \in {"stopped", "started", "align", "asking", "reread"}
  <2>1. liveFaults' = liveFaults \/ (liveFaults < MaxLiveFaults /\ liveFaults' = liveFaults + 1)
    BY DEF StarterAnswered, StarterAligns, StarterRereads
  <2>2. liveFaults \in 0..MaxLiveFaults /\ watching \in BOOLEAN /\ rejected \in BOOLEAN
        /\ closed \in BOOLEAN
    BY DEF LiveTypes
  <2>3. starter' \in {"stopped", "started", "align", "asking", "reread"}
    BY DEF StarterAnswered, StarterAligns, StarterRereads
  <2>4. watching' \in BOOLEAN BY <2>2 DEF StarterAnswered, StarterAligns, StarterRereads
  <2>5. rejected' \in BOOLEAN /\ (rejected => rejected')
    BY <2>2 DEF StarterAnswered, StarterAligns, StarterRereads
  <2> HIDE DEF LiveInv
  <2>6. QED BY <2>1, <2>2, <2>3, <2>4, <2>5, LiveAssumption
<1>3. /\ ask' \in [Requester -> Asking]
      /\ \A r \in Requester : ask[r].at = "waiting" => ask'[r] = ask[r]
      /\ \A r \in Requester : ask'[r].at = "waiting" => ask'[r] = ask[r]
      /\ starter' \in {"new", "align", "reread", "asking"} => ask'[Starter].at # "waiting"
  <2>1. CASE StarterAnswered
    <3>1. ask' = [ask EXCEPT ![Starter] = Quiet] /\ ask[Starter].at = "answered"
      BY <2>1 DEF StarterAnswered
    <3>2. Quiet \in Asking /\ Quiet.at = "quiet" BY AnswerIs
    <3>3. ask \in [Requester -> Asking] BY DEF LiveTypes
    <3>4. QED BY <3>1, <3>2, <3>3
  <2>2. CASE StarterAligns \/ StarterRereads
    <3>1. ask' = ask /\ starter \in {"align", "reread"} BY <2>2 DEF StarterAligns, StarterRereads
    <3>2. ask[Starter].at # "waiting"
      BY <3>1, LiveAssumption DEF RequestInv
    <3>3. QED BY <3>1, <3>2 DEF LiveTypes
  <2>3. QED BY <2>1, <2>2
<1>4. drain.batch.waiters \subseteq Requester /\ pending.waiters \subseteq Requester
  BY DEF LiveTypes, Drains, Batches
<1>5. \A r \in drain.batch.waiters \cup pending.waiters : ask'[r] = ask[r]
  BY <1>3, <1>4 DEF RequestInv, Serves
<1>6. LiveTypes' BY <1>1, <1>2, <1>3 DEF LiveTypes
<1>7. RequestInv'
  <2>1. Serves(pending)' /\ Serves(drain.batch)' BY <1>1, <1>5 DEF RequestInv, Serves
  <2>2. \A r \in Requester :
          ask'[r].at = "waiting" =>
            /\ r \in pending.waiters \/ r \in drain.batch.waiters
            /\ ask'[r].since.home <= source.home /\ ask'[r].since.project <= source.project
    BY <1>3 DEF RequestInv
  <2>3. QED BY <1>1, <1>2, <1>3, <2>1, <2>2 DEF RequestInv
<1>8. SourceInv' /\ CandidateInv' BY <1>1, <1>5 DEF SourceInv, CandidateInv
<1>9. OutcomeInv'
  <2>1. \A r \in drain.batch.waiters : True(ask[r], "accepted") => True(ask[r], "accepted")'
    BY <1>1, <1>5 DEF True
  <2>2. QED BY <1>1, <1>2, <2>1 DEF OutcomeInv
<1>10. ProjectInv' BY <1>1 DEF ProjectInv, ChangedProjectIsKnown, Told
<1>11. QED BY <1>6, <1>7, <1>8, <1>9, <1>10

\* close() answers who waits in the next batch, and nobody of the one under way.
LEMMA CloseKeeps ==
  ASSUME LiveInv, Close \/ CloseProceeds
  PROVE  LiveInv'
<1> USE DEF LiveInv
<1>1. CASE Close
  <2>1. /\ closed' = TRUE /\ ask' = Answered(pending.waiters, "closed") /\ pending' = NoBatch
        /\ closer' = "watchers"
        /\ UNCHANGED <<source, accepted, rejected, quality, noticed, watching, failedProject, drain,
                       starter, liveFaults>>
    BY <1>1 DEF Close
  <2>2. \A r \in Requester : ask'[r] = IF r \in pending.waiters THEN Answer("closed") ELSE ask[r]
    BY <2>1 DEF Answered
  <2>3. Answer("closed") \in Asking /\ Answer("closed").at = "answered" BY AnswerIs DEF Status
  <2>4. ask' \in [Requester -> Asking]
    <3>1. \A r \in Requester : ask[r] \in Asking BY DEF LiveTypes
    <3>2. ask' = [r \in Requester |-> IF r \in pending.waiters THEN Answer("closed") ELSE ask[r]]
      BY <2>1 DEF Answered
    <3> HIDE DEF LiveInv
    <3>3. QED BY <2>3, <3>1, <3>2
  <2>5. \A r \in drain.batch.waiters : ask'[r] = ask[r] /\ r \in Requester
    BY <2>2 DEF RequestInv, LiveTypes, Drains, Batches
  <2>6. \A r \in Requester :
          ask'[r].at = "waiting" => ask'[r] = ask[r] /\ r \in drain.batch.waiters
    BY <2>2, <2>3 DEF RequestInv
  <2>7. LiveTypes' BY <2>1, <2>4, RestIs DEF LiveTypes
  <2>8. RequestInv'
    <3>1. Serves(pending)' /\ pending'.waiters = {} BY <2>1, RestIs DEF Serves
    <3>2. Serves(drain.batch)' BY <2>1, <2>5 DEF Serves, RequestInv
    <3>3. \A r \in Requester :
            ask'[r].at = "waiting" =>
              /\ r \in drain.batch.waiters
              /\ ask'[r].since.home <= source.home /\ ask'[r].since.project <= source.project
      BY <2>6 DEF RequestInv
    <3>4. starter \in {"new", "align", "reread", "asking"} => ask'[Starter].at # "waiting"
      BY <2>6, LiveAssumption DEF RequestInv
    <3>5. QED BY <2>1, <3>1, <3>2, <3>3, <3>4 DEF RequestInv
  <2>9. SourceInv' /\ CandidateInv' BY <2>1, <2>5 DEF SourceInv, CandidateInv
  <2>10. OutcomeInv'
    <3>1. \A r \in drain.batch.waiters : True(ask[r], "accepted") => True(ask[r], "accepted")'
      BY <2>1, <2>5 DEF True
    <3>2. QED BY <2>1, <3>1 DEF OutcomeInv
  <2>11. ProjectInv' BY <2>1 DEF ProjectInv, ChangedProjectIsKnown, Told
  <2>12. QED BY <2>7, <2>8, <2>9, <2>10, <2>11
<1>2. CASE CloseProceeds
  <2>1. UNCHANGED <<acceptedVars, quality, noticed, failedProject, pending, drain, starter>>
    BY <1>2 DEF CloseProceeds
  <2>2. /\ closer' \in {"draining", "drainingFailed", "closed", "failed"} /\ watching' \in BOOLEAN
        /\ liveFaults' \in 0..MaxLiveFaults
    <3>1. liveFaults' = liveFaults \/ (liveFaults < MaxLiveFaults /\ liveFaults' = liveFaults + 1)
      BY <1>2 DEF CloseProceeds
    <3>2. liveFaults \in 0..MaxLiveFaults /\ watching \in BOOLEAN BY DEF LiveTypes
    <3>3. watching' \in BOOLEAN BY <1>2, <3>2 DEF CloseProceeds
    <3>4. closer' \in {"draining", "drainingFailed", "closed", "failed"} BY <1>2 DEF CloseProceeds
    <3> HIDE DEF LiveInv
    <3>5. QED BY <3>1, <3>2, <3>3, <3>4, LiveAssumption
  <2>3. LiveTypes' BY <2>1, <2>2 DEF LiveTypes, acceptedVars
  <2>4. RequestInv' BY <2>1 DEF RequestInv, Serves, acceptedVars
  <2>5. SourceInv' /\ CandidateInv' /\ OutcomeInv' /\ ProjectInv'
    BY <2>1
    DEF SourceInv, CandidateInv, OutcomeInv, True, ProjectInv, ChangedProjectIsKnown, Told, acceptedVars
  <2>6. QED BY <2>3, <2>4, <2>5
<1>3. QED BY <1>1, <1>2

\* An edit moves the sources away from what was read, and its watcher has it to report.
LEMMA EditedKeeps ==
  ASSUME LiveInv, NEW kind \in {"home", "project"}, SourceEdited(kind)
  PROVE  LiveInv'
<1> USE DEF LiveInv
<1>1. /\ UNCHANGED <<accepted, rejected, closed, ask, watching, failedProject, pending, drain, starter,
                     closer, liveFaults>>
      /\ source.home + source.project < MaxVersions /\ source' = [source EXCEPT ![kind] = @ + 1]
      /\ quality' \in Quality
      /\ quality' = "dangling" => source'.home + source'.project < MaxVersions
      /\ noticed' \in SUBSET {"home", "project"} /\ noticed \subseteq noticed'
      /\ kind = "project" => "project" \in noticed' /\ quality' = quality
  BY DEF SourceEdited, LiveTypes
<1>2. source \in Versions /\ source.home \in Nat /\ source.project \in Nat /\ MaxVersions \in Nat
  BY VersionsAssumption DEF LiveTypes, Versions
<1>3. /\ source' \in Versions /\ source.home <= source'.home /\ source.project <= source'.project
      /\ source'.home \in Nat /\ source'.project \in Nat
      /\ kind = "home" => source'.home > source.home /\ source'.project = source.project
      /\ kind = "project" => source'.home = source.home
  <2>1. CASE kind = "home" BY <1>1, <1>2, <2>1 DEF Versions
  <2>2. CASE kind = "project" BY <1>1, <1>2, <2>2 DEF Versions
  <2>3. QED BY <2>1, <2>2
<1>4. LiveTypes' BY <1>1, <1>3 DEF LiveTypes
<1>5. RequestInv'
  <2>1. \A r \in Requester : ask[r].since.home \in Nat /\ ask[r].since.project \in Nat
    BY VersionsAssumption DEF LiveTypes, Asking, Versions
  <2>2. \A r \in Requester :
          ask[r].at = "waiting" =>
            ask[r].since.home <= source'.home /\ ask[r].since.project <= source'.project
    BY <1>2, <1>3, <2>1 DEF RequestInv
  <2>3. QED BY <1>1, <2>2 DEF RequestInv, Serves
<1>6. /\ drain.home \in Nat /\ drain.named \in Nat /\ drain.catalog \in Nat
      /\ accepted.home \in Nat /\ accepted.project \in Nat
  BY VersionsAssumption DEF LiveTypes, Drains
<1>7. SourceInv' BY <1>1, <1>2, <1>3, <1>6 DEF SourceInv
<1>8. CandidateInv'
  <2>1. drain.at = "repair" /\ source'.home = drain.catalog => quality' = "dangling"
    <3>1. ASSUME drain.at = "repair", source'.home = drain.catalog PROVE kind = "project"
      BY <1>2, <1>3, <1>6, <3>1 DEF CandidateInv
    <3>2. QED BY <1>1, <1>3, <3>1 DEF CandidateInv
  <2>2. QED BY <1>1, <1>2, <1>3, <1>6, <2>1 DEF CandidateInv
<1>9. OutcomeInv' BY <1>1 DEF OutcomeInv, True
<1>10. ProjectInv'
  <2>1. CASE kind = "project"
    <3>1. Told' /\ "project" \in noticed' BY <1>1, <2>1 DEF Told
    <3>2. QED BY <1>1, <3>1 DEF ProjectInv, ChangedProjectIsKnown
  <2>2. CASE kind = "home"
    <3>1. source'.project = source.project /\ (Told => Told') BY <1>1, <1>3, <2>2 DEF Told
    <3>2. ChangedProjectIsKnown' BY <1>1, <3>1 DEF ProjectInv, ChangedProjectIsKnown
    <3>3. QED BY <1>1, <3>1, <3>2 DEF ProjectInv
  <2>3. QED BY <2>1, <2>2
<1>11. QED BY <1>4, <1>5, <1>7, <1>8, <1>9, <1>10

\* The watcher's report becomes a request nobody waits for.
LEMMA ReportsKeep ==
  ASSUME LiveInv, NEW kind \in {"home", "project"}, WatcherReports(kind)
  PROVE  LiveInv'
<1> USE DEF LiveInv
<1>1. /\ noticed' = noticed \ {kind}
      /\ UNCHANGED <<acceptedVars, quality, watching, failedProject, starter, closer, liveFaults>>
  BY DEF WatcherReports
<1>2. noticed' \in SUBSET {"home", "project"} /\ pending \in Batches BY <1>1 DEF LiveTypes
<1>3. CASE closed
  <2>1. UNCHANGED <<pending, drain>> BY <1>3 DEF WatcherReports
  <2>2. LiveTypes' BY <1>1, <1>2, <2>1 DEF LiveTypes, acceptedVars
  <2>3. RequestInv' BY <1>1, <2>1 DEF RequestInv, Serves, acceptedVars
  <2>4. SourceInv' /\ CandidateInv' /\ OutcomeInv'
    BY <1>1, <2>1 DEF SourceInv, CandidateInv, OutcomeInv, True, acceptedVars
  <2>5. ProjectInv' BY <1>1, <1>3, <2>1 DEF ProjectInv, ChangedProjectIsKnown, Told, acceptedVars
  <2>6. QED BY <2>2, <2>3, <2>4, <2>5
<1>4. CASE ~closed
  <2>1. pending' = Merged({}, TRUE, FALSE, kind = "project") /\ drain' = Scheduled
    BY <1>4 DEF WatcherReports
  <2>2. /\ pending' \in Batches /\ pending'.asked /\ pending'.waiters = pending.waiters
        /\ pending.structural => pending'.structural
        /\ pending'.project <=> (pending.project \/ kind = "project")
    BY <1>2, <2>1 DEF Merged, Batches
  <2>3. /\ drain' \in Drains
        /\ drain'.at \in {"idle", "scheduled"} => drain.at \in {"idle", "scheduled"}
        /\ drain'.batch = drain.batch /\ drain'.project = drain.project
        /\ drain'.status = drain.status
    BY <2>1, ScheduledIs
  <2>4. LiveTypes' BY <1>1, <1>2, <2>2, <2>3 DEF LiveTypes, acceptedVars
  <2>5. RequestInv' BY <1>1, <2>2, <2>3 DEF RequestInv, Serves, acceptedVars
  <2>6. Told => Told' BY <1>1, <2>2 DEF Told, acceptedVars
  <2>7. SourceInv' /\ CandidateInv' /\ OutcomeInv' /\ ProjectInv'
    BY <1>1, <2>1, <2>6, ScheduledKeeps DEF acceptedVars
  <2>8. QED BY <2>4, <2>5, <2>7
<1>5. QED BY <1>3, <1>4

\* Each step keeps the invariant.
LEMMA LiveStep == LiveInv /\ [LiveNext]_liveVars => LiveInv'
<1> SUFFICES ASSUME LiveInv, [LiveNext]_liveVars PROVE LiveInv' OBVIOUS
<1>1. CASE DrainProceeds
  <2>1. CASE DrainStarts \/ SettleBatch BY <2>1, LoopKeeps
  <2>2. CASE PrepareProjects \/ ReadCandidate \/ LoadCandidate \/ PrepareModels \/ ConfirmCandidate
    BY <2>2, ValidationSteps
  <2>3. CASE RepairDefaults BY <2>3, RepairKeeps
  <2>4. CASE CandidateFalls BY <2>4, FallsKeeps
  <2>5. CASE CommitCandidate BY <2>5, LiveCommitKeeps
  <2>6. CASE AvailabilityAdvances BY <2>6, AvailabilityKeeps
  <2>7. CASE DrainAligns \/ DrainRereads BY <2>7, AlignsKeep
  <2>8. QED BY <1>1, <2>1, <2>2, <2>3, <2>4, <2>5, <2>6, <2>7 DEF DrainProceeds
<1>2. CASE DrainFails BY <1>2, FailsKeeps
<1>3. CASE StarterProceeds BY <1>3, RequestsKeep, StarterKeeps DEF StarterProceeds
<1>4. CASE Close \/ CloseProceeds BY <1>4, CloseKeeps
<1>5. ASSUME NEW kind \in {"home", "project"}, SourceEdited(kind) \/ WatcherReports(kind)
      PROVE  LiveInv'
  BY <1>5, EditedKeeps, ReportsKeep
<1>6. ASSUME NEW r \in Requester \ {Starter}, Synchronize(r) PROVE LiveInv' BY <1>6, RequestsKeep
<1>7. CASE UNCHANGED liveVars
  BY <1>7
  DEF liveVars, innerVars, acceptedVars, LiveInv, LiveTypes, RequestInv, Serves, SourceInv, CandidateInv,
      OutcomeInv, True, ProjectInv, ChangedProjectIsKnown, Told
<1>8. QED BY <1>1, <1>2, <1>3, <1>4, <1>5, <1>6, <1>7 DEF LiveNext

\* The invariant of the live configuration holds in every state (live-configuration.ts).
THEOREM LiveConsistent == LiveSpec => []LiveInv
<1>1. AcceptedInit /\ LiveInnerInit => LiveInv BY LiveBegins
<1>2. LiveInv /\ [LiveNext]_liveVars => LiveInv' BY LiveStep
<1>3. QED BY <1>1, <1>2, PTL DEF LiveSpec

\* The types that the invariant has are those of the live configuration.
LEMMA LiveTyped == LiveInv => LiveTypeOK
<1> SUFFICES ASSUME LiveInv PROVE LiveTypeOK OBVIOUS
<1> USE DEF LiveInv, LiveTypes
<1>1. drain.batch \in Batches /\ drain.at \in Places /\ drain.status \in Status BY DEF Drains
<1>2. \A r \in Requester : ask[r].at \in {"quiet", "waiting", "answered"} /\ ask[r].status \in Status
  BY DEF Asking
<1>3. {watching, rejected, failedProject, closed} \subseteq BOOLEAN OBVIOUS
<1>4. {pending, drain.batch} \subseteq Batches BY <1>1
<1>5. QED BY <1>1, <1>2, <1>3, <1>4 DEF LiveTypeOK, Places, Batches

\* Every variable of the live configuration keeps its type: no candidate runs past the
\* versions there are, and no batch names a waiter that does not exist.
THEOREM LiveTypeCorrect == LiveSpec => []LiveTypeOK
BY LiveTyped, LiveConsistent, PTL

\* A rejected batch loses no project: a project whose skills are not the accepted ones is
\* about to be reported, named by a request, or kept since a failure (the finally of
\* drain()), whoever fails, edits or closes in between.
THEOREM ChangedIsKnown == LiveSpec => []ChangedProjectIsKnown
<1>1. LiveInv => ChangedProjectIsKnown BY DEF LiveInv, ProjectInv
<1>2. QED BY <1>1, LiveConsistent, PTL

-----------------------------------------------------------------------------
(* The live configuration implements what it promises *)

\* A look at the sources that fails is a rejection, unless the configuration is closed.
LEMMA RejectionIs ==
  ASSUME rejected \in BOOLEAN, closed \in BOOLEAN, rejected' = (rejected \/ ~closed),
         UNCHANGED <<source, accepted, closed, ask>>
  PROVE  Rejects \/ UNCHANGED acceptedVars
<1>1. CASE closed BY <1>1 DEF acceptedVars
<1>2. CASE ~closed BY <1>2 DEF Rejects
<1>3. QED BY <1>1, <1>2

\* A request of the machinery is one of the promise.
LEMMA AskedIs ==
  ASSUME NEW r \in Requester, NEW structural \in BOOLEAN, NEW availability \in BOOLEAN,
         NEW project \in BOOLEAN, ask[r].at # "waiting",
         Asked(r, structural, availability, project),
         UNCHANGED <<source, accepted, rejected, closed>>
  PROVE  Asks(r)
<1>1. ask' = [ask EXCEPT ![r] = IF closed THEN Answer("closed") ELSE Request(structural, project)]
  BY DEF Asked
<1>2. QED BY <1>1 DEF Asks

\* Who is answered when a batch is settled is told the truth.
LEMMA SettleIs ==
  ASSUME LiveInv, SettleBatch
  PROVE  Answers
<1> USE DEF LiveInv
<1>1. /\ ask' = Answered(drain.batch.waiters, drain.status) /\ drain.at = "settle"
      /\ UNCHANGED <<source, accepted, rejected, closed>>
  BY DEF SettleBatch
<1>2. drain.status \in {"accepted", "rejected", "closed"}
  BY <1>1 DEF OutcomeInv, LiveTypes, Drains, Status
<1>3. drain.batch.waiters \in SUBSET {r \in Requester : ask[r].at = "waiting"}
  BY DEF LiveTypes, Drains, Batches, RequestInv, Serves
<1>4. \A r \in drain.batch.waiters : True(ask[r], drain.status)
  <2>1. CASE drain.status = "accepted" BY <2>1 DEF OutcomeInv
  <2>2. CASE drain.status = "rejected" BY <2>2 DEF OutcomeInv, True
  <2>3. CASE drain.status = "closed" BY <2>3 DEF OutcomeInv, True
  <2>4. QED BY <1>2, <2>1, <2>2, <2>3
<1>5. ask' = [r \in Requester |-> IF r \in drain.batch.waiters THEN Answer(drain.status) ELSE ask[r]]
  BY <1>1 DEF Answered
<1> HIDE DEF LiveInv
<1>6. QED BY <1>1, <1>2, <1>3, <1>4, <1>5 DEF Answers

\* What is accepted is read from the sources whole, and never goes back.
LEMMA CommitIs ==
  ASSUME LiveInv, CommitCandidate
  PROVE  Accepts
<1>1. /\ drain.at = "current" /\ ~closed /\ rejected' = FALSE
      /\ accepted' = [generation |-> accepted.generation + 1, home |-> drain.home,
                      project |-> drain.named, catalog |-> drain.catalog]
      /\ UNCHANGED <<source, closed, ask>>
  BY DEF CommitCandidate
<1>2. /\ drain.catalog = drain.home
      /\ accepted.home <= drain.home /\ drain.home <= source.home
      /\ accepted.project <= drain.named /\ drain.named <= source.project
  BY <1>1 DEF LiveInv, CandidateInv
<1>3. /\ accepted.home \in Nat /\ accepted.project \in Nat /\ source.home \in Nat
      /\ source.project \in Nat /\ drain.home \in Nat /\ drain.named \in Nat
  BY VersionsAssumption DEF LiveInv, LiveTypes, Versions, Drains
<1>4. drain.home \in accepted.home..source.home /\ drain.named \in accepted.project..source.project
  BY <1>2, <1>3
<1>5. QED BY <1>1, <1>2, <1>4 DEF Accepts

\* A repair of the defaults is an edit, or nothing at all.
LEMMA RepairIs ==
  ASSUME LiveInv, RepairDefaults
  PROVE  Edited \/ UNCHANGED acceptedVars
<1>1. CASE source.home = drain.catalog
  <2>1. source.home + source.project < MaxVersions
    BY <1>1 DEF RepairDefaults, LiveInv, CandidateInv, SourceInv
  <2>2. source' = [source EXCEPT !["home"] = @ + 1] /\ UNCHANGED <<accepted, rejected, closed, ask>>
    BY <1>1 DEF RepairDefaults
  <2>3. QED BY <2>1, <2>2 DEF Edited
<1>2. CASE source.home # drain.catalog BY <1>2 DEF RepairDefaults, acceptedVars
<1>3. QED BY <1>1, <1>2

\* A close answers all who wait.
LEMMA CloseIs ==
  ASSUME LiveInv, Close
  PROVE  Closes
<1>1. pending.waiters \in SUBSET {r \in Requester : ask[r].at = "waiting"}
  BY DEF LiveInv, LiveTypes, Batches, RequestInv, Serves
<1>2. /\ closed' = TRUE /\ UNCHANGED <<source, accepted, rejected>>
      /\ ask' = [r \in Requester |-> IF r \in pending.waiters THEN Answer("closed") ELSE ask[r]]
  BY DEF Close, Answered
<1>3. QED BY <1>1, <1>2 DEF Closes

\* Each step of the machinery is one of the promise, or none.
LEMMA LiveStepIs ==
  ASSUME LiveInv, [LiveNext]_liveVars
  PROVE  [AcceptedNext]_acceptedVars
<1> USE DEF AcceptedNext
<1>1. rejected \in BOOLEAN /\ closed \in BOOLEAN /\ Starter \in Requester
  BY LiveAssumption DEF LiveInv, LiveTypes
<1>2. CASE DrainProceeds
  <2>1. CASE DrainStarts BY <2>1 DEF DrainStarts
  <2>2. CASE PrepareProjects \/ ReadCandidate \/ PrepareModels \/ ConfirmCandidate \/ CandidateFalls
             \/ AvailabilityAdvances
    BY <2>2
    DEF PrepareProjects, ReadCandidate, PrepareModels, ConfirmCandidate, CandidateFalls,
        AvailabilityAdvances, DrainOnly, acceptedVars
  <2>3. CASE LoadCandidate
    BY <1>1, <2>3, RejectionIs DEF LoadCandidate, RejectCandidate, DrainOnly, acceptedVars
  <2>4. CASE RepairDefaults BY <2>4, RepairIs
  <2>5. CASE CommitCandidate BY <2>5, CommitIs
  <2>6. CASE SettleBatch BY <2>6, SettleIs
  <2>7. CASE DrainAligns BY <2>7 DEF DrainAligns
  <2>8. CASE DrainRereads BY <1>1, <2>8, RejectionIs DEF DrainRereads, acceptedVars
  <2>9. QED BY <1>2, <2>1, <2>2, <2>3, <2>4, <2>5, <2>6, <2>7, <2>8 DEF DrainProceeds
<1>3. CASE DrainFails BY <1>1, <1>3, RejectionIs DEF DrainFails, RejectCandidate, DrainOnly
<1>4. CASE StarterProceeds
  <2>1. CASE StarterAsks
    <3>1. CASE closed BY <2>1, <3>1 DEF StarterAsks, StarterOnly, acceptedVars
    <3>2. CASE ~closed
      <4>1. ask[Starter].at # "waiting" BY <2>1 DEF StarterAsks, LiveInv, RequestInv
      <4>2. Asks(Starter) BY <1>1, <2>1, <3>2, <4>1, AskedIs DEF StarterAsks, StarterOnly
      <4>3. QED BY <1>1, <4>2
    <3>3. QED BY <3>1, <3>2
  <2>2. CASE StarterAnswered BY <1>1, <2>2 DEF StarterAnswered, StarterOnly, Heard
  <2>3. CASE StarterAligns BY <2>3 DEF StarterAligns, StarterOnly, acceptedVars
  <2>4. CASE StarterRereads
    BY <1>1, <2>4, RejectionIs DEF StarterRereads, StarterOnly, acceptedVars
  <2>5. QED BY <1>4, <2>1, <2>2, <2>3, <2>4 DEF StarterProceeds
<1>5. CASE Close BY <1>5, CloseIs
<1>6. CASE CloseProceeds BY <1>6 DEF CloseProceeds
<1>7. ASSUME NEW kind \in {"home", "project"}, SourceEdited(kind) PROVE Edited
  BY <1>7 DEF SourceEdited, Edited
<1>8. ASSUME NEW kind \in {"home", "project"}, WatcherReports(kind) PROVE UNCHANGED acceptedVars
  BY <1>8 DEF WatcherReports
<1>9. ASSUME NEW r \in Requester \ {Starter}, Synchronize(r) PROVE Asks(r)
  <2>1. ask[r].at # "waiting" /\ UNCHANGED <<source, accepted, rejected, closed>> BY <1>9 DEF Synchronize
  <2>2. CASE Asked(r, FALSE, TRUE, FALSE) BY <2>1, <2>2, AskedIs
  <2>3. ASSUME NEW project \in BOOLEAN, Asked(r, TRUE, FALSE, project) PROVE Asks(r)
    BY <2>1, <2>3, AskedIs
  <2>4. QED BY <1>9, <2>2, <2>3 DEF Synchronize
<1>10. CASE UNCHANGED liveVars BY <1>10 DEF liveVars
<1>11. QED BY <1>2, <1>3, <1>4, <1>5, <1>6, <1>7, <1>8, <1>9, <1>10 DEF LiveNext

\* The safety of the promise (ImplementsAccepted without the answer that must come):
\* nothing is accepted but what the sources were, whole and in order, nobody is told
\* "accepted" whose edit is not in what is accepted, and nothing is accepted after close(),
\* whatever was edited during a validation and whichever requests shared a batch.
THEOREM LiveImplements == LiveSpec => AcceptedInit /\ [][AcceptedNext]_acceptedVars
<1>1. LiveInv /\ [LiveNext]_liveVars => [AcceptedNext]_acceptedVars BY LiveStepIs
<1>2. QED BY <1>1, LiveConsistent, PTL DEF LiveSpec

-----------------------------------------------------------------------------
(* A dispatch, on top of the promise *)

AcceptedTypes ==
  /\ source \in Versions
  /\ accepted \in [generation : Nat, home : 0..MaxVersions, project : 0..MaxVersions,
                   catalog : 0..MaxVersions]
  /\ rejected \in BOOLEAN /\ closed \in BOOLEAN
  /\ ask \in [Requester -> Asking]

\* The catalog a dispatch holds is the accepted one as long as its generation is.
CatalogInv ==
  /\ accepted.home <= source.home /\ accepted.project <= source.project
  /\ dispatch.generation <= accepted.generation
  /\ dispatch.at \in {"resolving", "second"} /\ dispatch.generation = accepted.generation =>
       dispatch.catalog = accepted.catalog

\* What the second synchronization is asked, and what its answer says of the edits made
\* before the agents were resolved, as long as the generation stands.
SecondInv ==
  dispatch.at = "second" =>
    /\ ask[Dispatcher].at = "waiting" =>
         /\ ask[Dispatcher].structural
         /\ ask[Dispatcher].since.home >= dispatch.resolved
    /\ ask[Dispatcher].at = "answered" =>
         CASE ask[Dispatcher].status = "accepted" -> accepted.home >= dispatch.resolved
           [] ask[Dispatcher].status = "rejected" ->
                rejected \/ dispatch.generation # accepted.generation
           [] ask[Dispatcher].status = "closed" -> closed
           [] OTHER -> FALSE

DispatchInv == AcceptedTypes /\ DispatchTypeOK /\ CatalogInv /\ SecondInv

\* The invariant of a dispatch at the beginning.
LEMMA DispatchBeginsInv == AcceptedInit /\ dispatch = DispatchIdle => DispatchInv
<1> SUFFICES ASSUME AcceptedInit, dispatch = DispatchIdle PROVE DispatchInv OBVIOUS
<1>1. 0 \in 0..MaxVersions /\ 0 \in 0..MaxRetries BY VersionsAssumption, DispatchAssumption
<1>2. AcceptedTypes
  <2>1. ask \in [Requester -> Asking] BY AnswerIs DEF AcceptedInit
  <2>2. QED BY <1>1, <2>1 DEF AcceptedTypes, AcceptedInit, Versions
<1>3. DispatchTypeOK /\ CatalogInv /\ SecondInv
  BY <1>1 DEF DispatchTypeOK, CatalogInv, SecondInv, AcceptedInit, DispatchIdle
<1>4. QED BY <1>2, <1>3 DEF DispatchInv

\* The versions a dispatch compares are numbers.
LEMMA DispatchNumbers ==
  ASSUME DispatchInv
  PROVE  /\ source.home \in Nat /\ source.project \in Nat
         /\ accepted.home \in Nat /\ accepted.project \in Nat /\ accepted.generation \in Nat
         /\ dispatch.generation \in Nat /\ dispatch.resolved \in Nat
         /\ ask[Dispatcher].since.home \in Nat
<1>1. /\ source \in Versions
      /\ accepted \in [generation : Nat, home : 0..MaxVersions, project : 0..MaxVersions,
                       catalog : 0..MaxVersions]
  BY DEF DispatchInv, AcceptedTypes
<1>2. ask[Dispatcher] \in Asking BY DispatchAssumption DEF DispatchInv, AcceptedTypes
<1>3. dispatch.generation \in Nat /\ dispatch.resolved \in 0..MaxVersions
  BY DEF DispatchInv, DispatchTypeOK
<1>4. ask[Dispatcher].since.home \in 0..MaxVersions BY <1>2 DEF Asking, Versions
<1>5. QED BY <1>1, <1>3, <1>4, VersionsAssumption DEF Versions

\* The sources and the configuration move under the dispatch.
LEMMA PromiseKeeps ==
  ASSUME DispatchInv, Edited \/ Accepts \/ Rejects, UNCHANGED dispatch
  PROVE  DispatchInv'
<1>1. ask' = ask /\ closed' = closed BY DEF Edited, Accepts, Rejects
<1>2. DispatchTypeOK' BY DEF DispatchInv, DispatchTypeOK
<1>3. CASE Edited
  <2>1. PICK kind \in {"home", "project"} : source' = [source EXCEPT ![kind] = @ + 1]
    BY <1>3 DEF Edited
  <2>2. source.home + source.project < MaxVersions /\ UNCHANGED <<accepted, rejected, closed, ask>>
    BY <1>3 DEF Edited
  <2>3. source \in Versions BY DEF DispatchInv, AcceptedTypes
  <2>4. source' \in Versions /\ source.home <= source'.home /\ source.project <= source'.project
        /\ source'.home \in Nat /\ source'.project \in Nat
    <3>1. CASE kind = "home" BY <2>1, <2>2, <2>3, <3>1, VersionsAssumption DEF Versions
    <3>2. CASE kind = "project" BY <2>1, <2>2, <2>3, <3>2, VersionsAssumption DEF Versions
    <3>3. QED BY <3>1, <3>2
  <2>5. AcceptedTypes' BY <2>2, <2>4 DEF DispatchInv, AcceptedTypes
  <2>6. CatalogInv' BY <2>2, <2>4, DispatchNumbers DEF DispatchInv, CatalogInv
  <2>7. SecondInv' BY <2>2 DEF DispatchInv, SecondInv
  <2>8. QED BY <1>2, <2>5, <2>6, <2>7 DEF DispatchInv
<1>4. CASE Accepts
  <2>1. PICK home \in accepted.home..source.home, project \in accepted.project..source.project :
          accepted' = [generation |-> accepted.generation + 1, home |-> home,
                       project |-> project, catalog |-> home]
    BY <1>4 DEF Accepts
  <2>2. /\ accepted'.generation = accepted.generation + 1 /\ accepted'.home = home
        /\ accepted'.project = project /\ home <= source.home /\ accepted.home <= home
        /\ project <= source.project
    BY <2>1, DispatchNumbers
  <2>3. home \in Nat /\ project \in Nat BY <2>1, DispatchNumbers
  <2>4. home \in 0..MaxVersions /\ project \in 0..MaxVersions
    BY <2>2, <2>3, VersionsAssumption DEF DispatchInv, AcceptedTypes, Versions
  <2>5. AcceptedTypes'
    <3>1. /\ source \in Versions /\ closed \in BOOLEAN /\ ask \in [Requester -> Asking]
          /\ accepted.generation \in Nat
      BY DispatchNumbers DEF DispatchInv, AcceptedTypes
    <3>2. rejected' = FALSE /\ UNCHANGED <<source, closed, ask>> BY <1>4 DEF Accepts
    <3>3. accepted' \in [generation : Nat, home : 0..MaxVersions, project : 0..MaxVersions,
                         catalog : 0..MaxVersions]
      BY <2>1, <2>4, <3>1
    <3>4. QED BY <3>1, <3>2, <3>3 DEF AcceptedTypes
  <2>6. dispatch.generation <= accepted'.generation /\ dispatch.generation # accepted'.generation
    BY <2>2, DispatchNumbers DEF DispatchInv, CatalogInv
  <2>7. CatalogInv' BY <1>4, <2>2, <2>6 DEF Accepts, CatalogInv
  <2>8. accepted.home >= dispatch.resolved => accepted'.home >= dispatch.resolved
    BY <2>2, <2>3, DispatchNumbers
  <2>9. SecondInv' BY <1>1, <2>6, <2>8 DEF DispatchInv, SecondInv
  <2>10. QED BY <1>2, <2>5, <2>7, <2>9 DEF DispatchInv
<1>5. CASE Rejects
  BY <1>2, <1>5 DEF Rejects, DispatchInv, AcceptedTypes, CatalogInv, SecondInv
<1>6. QED BY <1>3, <1>4, <1>5

\* The dispatcher is answered, truthfully, or somebody else is.
LEMMA AnswersKeep ==
  ASSUME DispatchInv, Answers \/ Closes, UNCHANGED dispatch
  PROVE  DispatchInv'
<1>1. PICK some \in SUBSET {r \in Requester : ask[r].at = "waiting"} :
        \E status \in {"accepted", "rejected", "closed"} :
          /\ ask' = [r \in Requester |-> IF r \in some THEN Answer(status) ELSE ask[r]]
          /\ \/ (\A r \in some : True(ask[r], status)) /\ closed' = closed
             \/ status = "closed" /\ closed' = TRUE
  BY DEF Answers, Closes
<1>2. PICK status \in {"accepted", "rejected", "closed"} :
        /\ ask' = [r \in Requester |-> IF r \in some THEN Answer(status) ELSE ask[r]]
        /\ \/ (\A r \in some : True(ask[r], status)) /\ closed' = closed
           \/ status = "closed" /\ closed' = TRUE
  BY <1>1
<1>3. UNCHANGED <<source, accepted, rejected>> /\ closed' \in BOOLEAN /\ (closed => closed')
  BY DEF Answers, Closes, DispatchInv, AcceptedTypes
<1>4. Answer(status) \in Asking /\ Answer(status).at = "answered" /\ Answer(status).status = status
  BY AnswerIs DEF Status
<1>5. \A r \in Requester : ask[r] \in Asking BY DEF DispatchInv, AcceptedTypes
<1>6. ask' \in [Requester -> Asking] BY <1>2, <1>4, <1>5
<1>7. AcceptedTypes' BY <1>3, <1>6 DEF DispatchInv, AcceptedTypes
<1>8. DispatchTypeOK' /\ CatalogInv' BY <1>3 DEF DispatchInv, DispatchTypeOK, CatalogInv
<1>9. SecondInv'
  <2>1. SUFFICES ASSUME dispatch.at = "second" PROVE SecondInv'
    BY DEF SecondInv
  <2>2. CASE Dispatcher \notin some
    <3>1. ask'[Dispatcher] = ask[Dispatcher] BY <1>2, <2>2, DispatchAssumption
    <3>2. QED BY <1>3, <2>1, <3>1 DEF DispatchInv, SecondInv
  <2>3. CASE Dispatcher \in some
    <3>1. ask'[Dispatcher] = Answer(status) BY <1>2, <2>3, DispatchAssumption
    <3>2. ask[Dispatcher].structural /\ ask[Dispatcher].since.home >= dispatch.resolved
      BY <2>1, <2>3 DEF DispatchInv, SecondInv
    <3>3. status = "accepted" => accepted.home >= dispatch.resolved
      BY <1>2, <2>3, <3>2, DispatchNumbers DEF True
    <3>4. status = "rejected" => rejected BY <1>2, <2>3 DEF True
    <3>5. status = "closed" => closed' BY <1>2, <2>3 DEF True
    <3>6. QED BY <1>2, <1>3, <1>4, <3>1, <3>3, <3>4, <3>5 DEF SecondInv
  <2>4. QED BY <2>2, <2>3
<1>10. QED BY <1>7, <1>8, <1>9 DEF DispatchInv

\* What the dispatcher's own request or its end leaves.
LEMMA DispatcherAskIs ==
  ASSUME DispatchInv, DispatcherAsks
  PROVE  /\ AcceptedTypes'
         /\ ask'[Dispatcher].at \in {"waiting", "answered"}
         /\ ask'[Dispatcher].at = "waiting" =>
              ask'[Dispatcher].structural /\ ask'[Dispatcher].since = source
         /\ ask'[Dispatcher].at = "answered" => ask'[Dispatcher].status = "closed" /\ closed
         /\ UNCHANGED <<source, accepted, rejected, closed>>
<1>1. /\ ask' = [ask EXCEPT ![Dispatcher] = IF closed THEN Answer("closed") ELSE Request(TRUE, FALSE)]
      /\ UNCHANGED <<source, accepted, rejected, closed>>
  BY DEF DispatcherAsks
<1>2. ask \in [Requester -> Asking] /\ Dispatcher \in Requester /\ source \in Versions
  BY DispatchAssumption DEF DispatchInv, AcceptedTypes
<1>3. /\ Answer("closed") \in Asking /\ Answer("closed").at = "answered"
      /\ Answer("closed").status = "closed"
  BY AnswerIs DEF Status
<1>4. /\ Request(TRUE, FALSE) \in Asking /\ Request(TRUE, FALSE).at = "waiting"
      /\ Request(TRUE, FALSE).structural /\ Request(TRUE, FALSE).since = source
  BY <1>2 DEF Request, Asking, Status
<1>5. CASE closed
  <2>1. ask' = [ask EXCEPT ![Dispatcher] = Answer("closed")] BY <1>1, <1>5
  <2>2. ask' \in [Requester -> Asking] /\ ask'[Dispatcher] = Answer("closed") BY <1>2, <1>3, <2>1
  <2>3. QED BY <1>1, <1>3, <1>5, <2>2 DEF DispatchInv, AcceptedTypes
<1>6. CASE ~closed
  <2>1. ask' = [ask EXCEPT ![Dispatcher] = Request(TRUE, FALSE)] BY <1>1, <1>6
  <2>2. ask' \in [Requester -> Asking] /\ ask'[Dispatcher] = Request(TRUE, FALSE)
    BY <1>2, <1>4, <2>1
  <2>3. QED BY <1>1, <1>4, <2>2 DEF DispatchInv, AcceptedTypes
<1>7. QED BY <1>5, <1>6

\* An abandoned request has its type.
LEMMA HungIs ==
  ASSUME DispatchInv, Hung, UNCHANGED <<source, accepted, rejected, closed>>
  PROVE  AcceptedTypes'
<1>1. Quiet \in Asking BY AnswerIs
<1>2. ask' \in [Requester -> Asking] BY <1>1, DispatchAssumption DEF Hung, DispatchInv, AcceptedTypes
<1>3. QED BY <1>2 DEF DispatchInv, AcceptedTypes

\* A dispatch that begins, or begins again, or is over, holds no catalog.
Dispatches == [at : {"idle", "first", "resolving", "second", "used"}, generation : Nat,
               catalog : 0..MaxVersions, retries : 0..MaxRetries, resolved : 0..MaxVersions]

Unheld(d) == d \in Dispatches /\ d.at \in {"idle", "first"} /\ d.generation = 0

\* A dispatch that has not resolved its agents holds nothing.
LEMMA IdleIs ==
  /\ Unheld(DispatchIdle)
  /\ Unheld([DispatchIdle EXCEPT !.at = "first"])
  /\ \A n \in 0..MaxRetries : Unheld([DispatchIdle EXCEPT !.at = "first", !.retries = n])
<1>1. 0 \in 0..MaxVersions /\ 0 \in 0..MaxRetries BY VersionsAssumption, DispatchAssumption
<1>2. DispatchIdle \in Dispatches /\ DispatchIdle.at = "idle" /\ DispatchIdle.generation = 0
  BY <1>1 DEF DispatchIdle, Dispatches
<1>3. Unheld(DispatchIdle) BY <1>2 DEF Unheld
<1>4. Unheld([DispatchIdle EXCEPT !.at = "first"])
  <2> DEFINE d == [DispatchIdle EXCEPT !.at = "first"]
  <2>1. d \in Dispatches /\ d.at = "first" /\ d.generation = 0 BY <1>2 DEF Dispatches
  <2> HIDE DEF d
  <2>2. Unheld(d) BY <2>1 DEF Unheld
  <2>3. QED BY <2>2 DEF d
<1>5. ASSUME NEW n \in 0..MaxRetries
      PROVE  Unheld([DispatchIdle EXCEPT !.at = "first", !.retries = n])
  <2> DEFINE d == [DispatchIdle EXCEPT !.at = "first", !.retries = n]
  <2>1. d \in Dispatches /\ d.at = "first" /\ d.generation = 0 BY <1>2, <1>5 DEF Dispatches
  <2> HIDE DEF d
  <2>2. Unheld(d) BY <2>1 DEF Unheld
  <2>3. QED BY <2>2 DEF d
<1>6. QED BY <1>3, <1>4, <1>5

\* A dispatch that begins again has nothing to keep.
LEMMA RestartKeeps ==
  ASSUME DispatchInv, AcceptedTypes', UNCHANGED <<source, accepted>>,
         Unheld(dispatch)'
  PROVE  DispatchInv'
<1>1. DispatchTypeOK' /\ dispatch'.at \in {"idle", "first"} /\ dispatch'.generation = 0
  BY DEF Unheld, DispatchTypeOK, Dispatches
<1>2. CatalogInv' BY <1>1, DispatchNumbers DEF DispatchInv, CatalogInv
<1>3. SecondInv' BY <1>1 DEF SecondInv
<1>4. QED BY <1>1, <1>2, <1>3 DEF DispatchInv

\* A retry begins again, or gives up.
LEMMA DispatchRetryKeeps ==
  ASSUME DispatchInv, RetryGeneration
  PROVE  DispatchInv' /\ dispatch'.at \in {"idle", "first"}
<1>1. CASE dispatch.retries < MaxRetries
  <2>1. DispatcherAsks /\ dispatch' = [DispatchIdle EXCEPT !.at = "first", !.retries = dispatch.retries + 1]
    BY <1>1 DEF RetryGeneration
  <2>2. dispatch.retries + 1 \in 0..MaxRetries
    BY <1>1, DispatchAssumption DEF DispatchInv, DispatchTypeOK
  <2>3. AcceptedTypes' /\ UNCHANGED <<source, accepted>> BY <2>1, DispatcherAskIs
  <2>4. Unheld(dispatch') BY <2>1, <2>2, IdleIs
  <2>5. QED BY <2>3, <2>4, RestartKeeps DEF Unheld
<1>2. CASE ~(dispatch.retries < MaxRetries)
  <2>1. Hung /\ dispatch' = DispatchIdle /\ UNCHANGED <<source, accepted, rejected, closed>>
    BY <1>2 DEF RetryGeneration
  <2>2. Unheld(dispatch') BY <2>1, IdleIs
  <2>3. QED BY <2>1, <2>2, HungIs, RestartKeeps DEF Unheld
<1>3. QED BY <1>1, <1>2

\* The catalog that is taken, and used, is the accepted one.
LEMMA CatalogKeeps ==
  ASSUME DispatchInv, CatalogTaken \/ CatalogUsed
  PROVE  DispatchInv'
<1>1. CASE CatalogTaken
  <2>1. AcceptedTypes' /\ UNCHANGED <<source, accepted>>
    BY <1>1, HungIs DEF CatalogTaken, DispatcherHears
  <2>2. CASE accepted.generation = 0
    BY <1>1, <2>1, <2>2, IdleIs, RestartKeeps DEF CatalogTaken
  <2>3. CASE accepted.generation # 0
    <3>1. dispatch' = [dispatch EXCEPT !.at = "resolving", !.catalog = accepted.catalog,
                                       !.generation = accepted.generation]
      BY <1>1, <2>3 DEF CatalogTaken
    <3>2. DispatchTypeOK' /\ dispatch'.at = "resolving" /\ dispatch'.catalog = accepted.catalog
          /\ dispatch'.generation = accepted.generation
      BY <3>1 DEF DispatchInv, DispatchTypeOK, AcceptedTypes
    <3>3. CatalogInv' BY <2>1, <3>2, DispatchNumbers DEF DispatchInv, CatalogInv
    <3>4. SecondInv' BY <3>2 DEF SecondInv
    <3>5. QED BY <2>1, <3>2, <3>3, <3>4 DEF DispatchInv
  <2>4. QED BY <2>2, <2>3
<1>2. CASE CatalogUsed /\ GenerationMoved BY <1>2, DispatchRetryKeeps DEF CatalogUsed
<1>3. CASE CatalogUsed /\ ~GenerationMoved
  <2>1. AcceptedTypes' /\ UNCHANGED <<source, accepted>>
    BY <1>3, HungIs DEF CatalogUsed, DispatcherHears
  <2>2. CASE closed BY <1>3, <2>1, <2>2, IdleIs, RestartKeeps DEF CatalogUsed
  <2>3. CASE ~closed
    <3>1. dispatch' = [dispatch EXCEPT !.at = "used"] BY <1>3, <2>3 DEF CatalogUsed
    <3>2. DispatchTypeOK' /\ dispatch'.at = "used" /\ dispatch'.generation = dispatch.generation
      BY <3>1 DEF DispatchInv, DispatchTypeOK
    <3>3. CatalogInv' /\ SecondInv' BY <2>1, <3>2 DEF DispatchInv, CatalogInv, SecondInv
    <3>4. QED BY <2>1, <3>2, <3>3 DEF DispatchInv
  <2>4. QED BY <2>2, <2>3
<1>4. QED BY <1>1, <1>2, <1>3

\* The second synchronization asks for the sources as they are when the agents are
\* resolved.
LEMMA ResolvedKeeps ==
  ASSUME DispatchInv, AgentsResolved
  PROVE  DispatchInv'
<1>1. CASE GenerationMoved BY <1>1, DispatchRetryKeeps DEF AgentsResolved
<1>2. CASE ~GenerationMoved
  <2>1. /\ dispatch.at = "resolving" /\ DispatcherAsks
        /\ dispatch' = [dispatch EXCEPT !.at = "second", !.resolved = source.home]
    BY <1>2 DEF AgentsResolved
  <2>2. /\ DispatchTypeOK' /\ dispatch'.at = "second" /\ dispatch'.resolved = source.home
        /\ dispatch'.generation = dispatch.generation /\ dispatch'.catalog = dispatch.catalog
    BY <2>1 DEF DispatchInv, DispatchTypeOK, AcceptedTypes, Versions
  <2>3. AcceptedTypes' BY <2>1, DispatcherAskIs
  <2>4. CatalogInv' BY <2>1, <2>2, DispatcherAskIs DEF DispatchInv, CatalogInv
  <2>5. SecondInv' BY <2>1, <2>2, DispatcherAskIs, DispatchNumbers DEF SecondInv
  <2>6. QED BY <2>2, <2>3, <2>4, <2>5 DEF DispatchInv
<1>3. QED BY <1>1, <1>2

\* Each step keeps the invariant of a dispatch.
LEMMA DispatchStep == DispatchInv /\ [DispatchNext]_dispatchVars => DispatchInv'
<1> SUFFICES ASSUME DispatchInv, [DispatchNext]_dispatchVars PROVE DispatchInv' OBVIOUS
<1>1. CASE DispatchBegins
  <2>1. DispatcherAsks /\ dispatch' = [DispatchIdle EXCEPT !.at = "first"] BY <1>1 DEF DispatchBegins
  <2>2. Unheld(dispatch') BY <2>1, IdleIs
  <2>3. AcceptedTypes' /\ UNCHANGED <<source, accepted>> BY <2>1, DispatcherAskIs
  <2>4. QED BY <2>2, <2>3, RestartKeeps
<1>2. CASE CatalogTaken \/ CatalogUsed BY <1>2, CatalogKeeps
<1>3. CASE AgentsResolved BY <1>3, ResolvedKeeps
<1>4. CASE DispatchEnds \/ DispatchAborted
  <2>1. dispatch' = DispatchIdle /\ UNCHANGED acceptedVars BY <1>4 DEF DispatchEnds, DispatchAborted
  <2>2. AcceptedTypes' BY <2>1 DEF acceptedVars, DispatchInv, AcceptedTypes
  <2>3. QED BY <2>1, <2>2, IdleIs, RestartKeeps DEF acceptedVars
<1>5. CASE (Edited \/ Accepts \/ Rejects \/ Answers \/ Closes) /\ UNCHANGED dispatch
  BY <1>5, PromiseKeeps, AnswersKeep
<1>6. CASE UNCHANGED dispatchVars
  BY <1>6 DEF dispatchVars, acceptedVars, DispatchInv, AcceptedTypes, DispatchTypeOK, CatalogInv, SecondInv
<1>7. QED BY <1>1, <1>2, <1>3, <1>4, <1>5, <1>6 DEF DispatchNext

\* The invariant of a dispatch, on top of the promise (dispatch-authorization.ts).
THEOREM DispatchConsistent == DispatchSpec => []DispatchInv
<1>1. AcceptedInit /\ dispatch = DispatchIdle => DispatchInv BY DispatchBeginsInv
<1>2. DispatchInv /\ [DispatchNext]_dispatchVars => DispatchInv' BY DispatchStep
<1>3. QED BY <1>1, <1>2, PTL DEF DispatchSpec

\* A dispatch keeps its type: it never retries more than maxGenerationRetries times.
THEOREM DispatchTypeCorrect == DispatchSpec => []DispatchTypeOK
<1>1. DispatchInv => DispatchTypeOK BY DEF DispatchInv
<1>2. QED BY <1>1, DispatchConsistent, PTL

\* A step that uses the catalog looks at it before.
LEMMA UseIs ==
  ASSUME DispatchInv, [DispatchNext]_dispatchVars, dispatch.at # "used", dispatch'.at = "used"
  PROVE  /\ dispatch.catalog = accepted.catalog
         /\ ~closed
         /\ rejected \/ accepted.home >= dispatch'.resolved
<1>1. ~RetryGeneration BY DispatchRetryKeeps
<1>2. dispatch' # DispatchIdle /\ dispatch' # [DispatchIdle EXCEPT !.at = "first"]
  <2>1. ~Unheld(dispatch') BY DEF Unheld
  <2>2. QED BY <2>1, IdleIs
<1>3. dispatch \in [at : {"idle", "first", "resolving", "second", "used"}, generation : Nat,
                    catalog : 0..MaxVersions, retries : 0..MaxRetries, resolved : 0..MaxVersions]
  BY DEF DispatchInv, DispatchTypeOK
<1>4. ~DispatchBegins /\ ~DispatchEnds /\ ~DispatchAborted /\ dispatch' # dispatch
  BY <1>2 DEF DispatchBegins, DispatchEnds, DispatchAborted
<1>5. ~CatalogTaken
  <2>1. SUFFICES ASSUME CatalogTaken PROVE FALSE OBVIOUS
  <2>2. dispatch' = [dispatch EXCEPT !.at = "resolving", !.catalog = accepted.catalog,
                                     !.generation = accepted.generation]
    BY <1>2, <2>1 DEF CatalogTaken
  <2>3. QED BY <1>3, <2>2
<1>6. ~AgentsResolved
  <2>1. SUFFICES ASSUME AgentsResolved PROVE FALSE OBVIOUS
  <2>2. dispatch' = [dispatch EXCEPT !.at = "second", !.resolved = source.home]
    BY <1>1, <2>1 DEF AgentsResolved
  <2>3. QED BY <1>3, <2>2
<1>7. CatalogUsed BY <1>4, <1>5, <1>6 DEF DispatchNext, dispatchVars
<1>8. ~GenerationMoved BY <1>1, <1>7 DEF CatalogUsed
<1>9. ~closed BY <1>2, <1>7, <1>8 DEF CatalogUsed
<1>10. dispatch.at = "second" /\ ask[Dispatcher].at = "answered"
       /\ dispatch' = [dispatch EXCEPT !.at = "used"]
  BY <1>7, <1>8, <1>9 DEF CatalogUsed
<1>11. dispatch'.resolved = dispatch.resolved BY <1>3, <1>10
<1>12. dispatch.generation = accepted.generation BY <1>8 DEF GenerationMoved
<1>13. dispatch.catalog = accepted.catalog BY <1>10, <1>12 DEF DispatchInv, CatalogInv
<1>14. rejected \/ accepted.home >= dispatch.resolved
  BY <1>9, <1>10, <1>12 DEF DispatchInv, SecondInv
<1>15. QED BY <1>9, <1>11, <1>13, <1>14

\* What a dispatch acts on is the catalog accepted at that very moment, with every edit
\* made before its agents were resolved unless the last look was rejected, however often
\* the sources, the configuration and the answers move between its awaits
\* (withCurrentAgentCatalog).
THEOREM DispatchActsOnAccepted == DispatchSpec => DispatchUsesAccepted
<1>1. DispatchInv /\ [DispatchNext]_dispatchVars =>
        [dispatch.at # "used" /\ dispatch'.at = "used" =>
           /\ dispatch.catalog = accepted.catalog
           /\ ~closed
           /\ rejected \/ accepted.home >= dispatch'.resolved]_dispatchVars
  BY UseIs
<1>2. QED BY <1>1, DispatchConsistent, PTL DEF DispatchSpec, DispatchUsesAccepted

=============================================================================
