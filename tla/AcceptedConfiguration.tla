----------------------- MODULE AcceptedConfiguration -----------------------
(***************************************************************************)
(* What the live configuration promises those who use it.  The sources are *)
(* edited at any time; what the server accepts is some version it read,    *)
(* whole, and never goes back; who asks for a synchronization is answered, *)
(* truthfully: "accepted" is said only if the sources of the time of the   *)
(* request, or later ones, are the accepted ones.                          *)
(***************************************************************************)
EXTENDS Naturals

CONSTANTS
  Requester,       \* those who ask for a synchronization and wait for it
  MaxVersions      \* bound on the versions of the sources, all taken together

ASSUME VersionsAssumption == MaxVersions \in Nat

VARIABLES
  source,     \* the version of the global sources and of those of a project
  accepted,   \* the versions accepted, and the generation they are
  rejected,   \* whether the last look at the sources was rejected
  closed,
  ask         \* each requester's last request and the answer to it

acceptedVars == <<source, accepted, rejected, closed, ask>>

Versions == [home : 0..MaxVersions, project : 0..MaxVersions]

\* No request, a request for what the sources are now, and an answer to one.
Quiet == [at |-> "quiet", structural |-> FALSE, project |-> FALSE,
          since |-> [home |-> 0, project |-> 0], status |-> "none"]
Request(structural, project) ==
  [at |-> "waiting", structural |-> structural, project |-> project, since |-> source,
   status |-> "none"]
Answer(status) == [Quiet EXCEPT !.at = "answered", !.status = status]

AcceptedInit ==
  /\ source = [home |-> 0, project |-> 0]
  /\ accepted = [generation |-> 0, home |-> 0, project |-> 0, catalog |-> 0]
  /\ rejected = FALSE
  /\ closed = FALSE
  /\ ask = [r \in Requester |-> Quiet]

Edited ==
  /\ source.home + source.project < MaxVersions
  /\ \E kind \in {"home", "project"} : source' = [source EXCEPT ![kind] = @ + 1]
  /\ UNCHANGED <<accepted, rejected, closed, ask>>

\* A generation is accepted, or a look at the sources is rejected.
Accepts ==
  /\ ~closed
  /\ \E home \in accepted.home..source.home, project \in accepted.project..source.project :
       accepted' = [generation |-> accepted.generation + 1, home |-> home,
                    project |-> project, catalog |-> home]
  /\ rejected' = FALSE
  /\ UNCHANGED <<source, closed, ask>>

Rejects ==
  /\ ~closed
  /\ rejected' = TRUE
  /\ UNCHANGED <<source, accepted, closed, ask>>

Asks(r) ==
  /\ ask[r].at # "waiting"
  /\ \E structural, project \in BOOLEAN :
       ask' = [ask EXCEPT ![r] = IF closed THEN Answer("closed") ELSE Request(structural, project)]
  /\ UNCHANGED <<source, accepted, rejected, closed>>

\* What may be said to who made this request.
True(request, status) ==
  CASE status = "accepted" ->
         request.structural => /\ accepted.home >= request.since.home
                               /\ request.project => accepted.project >= request.since.project
    [] status = "rejected" -> rejected
    [] status = "closed" -> closed

\* Some of those who wait are answered.
Answers ==
  /\ \E some \in SUBSET {r \in Requester : ask[r].at = "waiting"},
        status \in {"accepted", "rejected", "closed"} :
       /\ \A r \in some : True(ask[r], status)
       /\ ask' = [r \in Requester |-> IF r \in some THEN Answer(status) ELSE ask[r]]
  /\ UNCHANGED <<source, accepted, rejected, closed>>

\* The answers heard are forgotten.
Heard ==
  /\ \E r \in Requester : ask[r].at = "answered" /\ ask' = [ask EXCEPT ![r] = Quiet]
  /\ UNCHANGED <<source, accepted, rejected, closed>>

\* Close answers some of those who wait.
Closes ==
  /\ closed' = TRUE
  /\ \E some \in SUBSET {r \in Requester : ask[r].at = "waiting"} :
       ask' = [r \in Requester |-> IF r \in some THEN Answer("closed") ELSE ask[r]]
  /\ UNCHANGED <<source, accepted, rejected>>

AcceptedNext ==
  \/ Edited \/ Accepts \/ Rejects \/ Answers \/ Heard \/ Closes
  \/ \E r \in Requester : Asks(r)

EveryoneIsAnswered == \A r \in Requester : ask[r].at = "waiting" ~> ask[r].at # "waiting"

AcceptedSpec == AcceptedInit /\ [][AcceptedNext]_acceptedVars /\ EveryoneIsAnswered
=============================================================================
