--------------------------- MODULE RuntimeRestart ---------------------------
(***************************************************************************)
(* The coordinator that replaces a running server by a new one             *)
(* (web/runtime-restart.ts), with the session registry whose admission it  *)
(* closes.  A person may have asked for the restart only if nobody is at   *)
(* work; between the look at the registry and its closing the coordinator  *)
(* awaits the reservation of the owner transition.                         *)
(***************************************************************************)
EXTENDS SessionRegistry

VARIABLES
  coordinator,   \* its state
  forced,        \* whether the request under way is forced
  reservation,   \* the reservation of the owner transition
  authFlow       \* whether somebody is logging in to a provider

restartVars == <<coordinator, forced, reservation, authFlow>>
allVars == <<registryVars, restartVars>>

\* sampleBusy
Busy == ActiveWork \/ authFlow

RestartInit ==
  /\ RegistryInit
  /\ coordinator = "idle"
  /\ forced = FALSE
  /\ reservation = "none"
  /\ authFlow = FALSE

\* request(): refused while another is under way, and while the server is busy.
RestartRequested(force) ==
  /\ coordinator = "idle"
  /\ force \/ ~Busy
  /\ coordinator' = "reserving"
  /\ forced' = force
  /\ UNCHANGED <<registryVars, reservation, authFlow>>

ReservationFails ==
  /\ coordinator = "reserving"
  /\ coordinator' = "idle"
  /\ forced' = FALSE
  /\ UNCHANGED <<registryVars, reservation, authFlow>>

\* The reservation is there, and work has begun meanwhile: it is given back.
\* A reservation that cannot be given back ends the coordinator.
RestartGivesWay ==
  /\ coordinator = "reserving"
  /\ ~forced /\ Busy
  /\ \/ coordinator' = "idle" /\ reservation' = "none"
     \/ coordinator' = "terminal" /\ reservation' = "stuck"
  /\ forced' = FALSE
  /\ UNCHANGED <<registryVars, authFlow>>

\* Mutant: the look before the reservation is taken to hold after it.
MutantRestartCommits ==
  /\ coordinator = "reserving"
  /\ IF shuttingDown THEN UNCHANGED registryVars ELSE beginShutdown
  /\ authFlow' = FALSE
  /\ reservation' \in {"committed", "none", "stuck"}
  /\ coordinator' = "terminal"
  /\ UNCHANGED forced

\* Admission is closed in the step that looked at the registry once more, the
\* logins are cut off, and the reservation is committed; or that throws, and
\* it is released, if it can be.
RestartCommits ==
  /\ coordinator = "reserving"
  /\ forced \/ ~Busy
  /\ IF shuttingDown THEN UNCHANGED registryVars ELSE beginShutdown
  /\ authFlow' = FALSE
  /\ reservation' \in {"committed", "none", "stuck"}
  /\ coordinator' = "terminal"
  /\ UNCHANGED forced

AuthFlowBegins ==
  /\ ~authFlow /\ coordinator # "terminal" /\ ~shuttingDown
  /\ authFlow' = TRUE
  /\ UNCHANGED <<registryVars, coordinator, forced, reservation>>

AuthFlowEnds ==
  /\ authFlow
  /\ authFlow' = FALSE
  /\ UNCHANGED <<registryVars, coordinator, forced, reservation>>

RestartNext ==
  \/ RegistryEnvironment /\ UNCHANGED restartVars
  \/ RegistryProceeds /\ UNCHANGED restartVars
  \/ \E force \in BOOLEAN : RestartRequested(force)
  \/ ReservationFails
  \/ RestartGivesWay
  \/ RestartCommits
  \/ AuthFlowBegins
  \/ AuthFlowEnds

RestartSpec == RestartInit /\ [][RestartNext]_allVars /\ RegistryFairness

-----------------------------------------------------------------------------

\* The types of the registry and of the coordinator.
RestartTypeOK ==
  /\ RegistryTypeOK
  /\ coordinator \in {"idle", "reserving", "terminal"}
  /\ forced \in BOOLEAN
  /\ reservation \in {"none", "committed", "stuck"}
  /\ authFlow \in BOOLEAN

\* A restart that nobody forced closes admission, and so stops every session,
\* only in a moment when no launch, operation, run or login is under way,
\* whatever began while it waited for its reservation (request).
UnforcedRestartSparesWork ==
  [][~forced /\ coordinator = "reserving" /\ coordinator' = "terminal" /\ ~shuttingDown /\ shuttingDown'
       => ~Busy]_allVars
=============================================================================
