----------------------- MODULE DispatchAuthorization -----------------------
(***************************************************************************)
(* withCurrentAgentCatalog (subagent/dispatch-authorization.ts), on top of *)
(* what the configuration promises: who dispatches an Agent resolves the   *)
(* catalog of one generation, across three awaits, and acts on it in the   *)
(* step that found the generation to be still the accepted one.            *)
(***************************************************************************)
EXTENDS AcceptedConfiguration

CONSTANTS
  Dispatcher,    \* the one that dispatches
  MaxRetries     \* maxGenerationRetries

ASSUME DispatchAssumption == Dispatcher \in Requester /\ MaxRetries \in Nat

\* generation and catalog: of the agents it resolves; resolved: the version of
\* the sources when they were; retries: the generations that moved under it.
VARIABLE dispatch

dispatchVars == <<acceptedVars, dispatch>>

DispatchIdle == [at |-> "idle", generation |-> 0, catalog |-> 0, retries |-> 0, resolved |-> 0]

DispatcherAsks ==
  /\ ask' = [ask EXCEPT ![Dispatcher] = IF closed THEN Answer("closed")
                                                  ELSE Request(TRUE, FALSE)]
  /\ UNCHANGED <<source, accepted, rejected, closed>>

DispatcherHears ==
  /\ ask[Dispatcher].at = "answered"
  /\ UNCHANGED <<source, accepted, rejected, closed>>

Hung == ask' = [ask EXCEPT ![Dispatcher] = Quiet]

\* A dispatch begins with a synchronization; one that was aborted has first
\* been answered.
DispatchBegins ==
  /\ dispatch.at = "idle"
  /\ ask[Dispatcher].at # "waiting"
  /\ DispatcherAsks
  /\ dispatch' = [DispatchIdle EXCEPT !.at = "first"]

\* resolveAgents takes the accepted catalog in the step that read the
\* generation, or has none to take.
CatalogTaken ==
  /\ dispatch.at = "first"
  /\ DispatcherHears /\ Hung
  /\ dispatch' = IF accepted.generation = 0 THEN DispatchIdle
                 ELSE [dispatch EXCEPT !.at = "resolving", !.catalog = accepted.catalog,
                                       !.generation = accepted.generation]

GenerationMoved == dispatch.generation # accepted.generation

\* retryGeneration, or AgentConfigurationChangedError.
RetryGeneration ==
  IF dispatch.retries < MaxRetries
  THEN /\ dispatch' = [DispatchIdle EXCEPT !.at = "first", !.retries = dispatch.retries + 1]
       /\ DispatcherAsks
  ELSE /\ dispatch' = DispatchIdle
       /\ Hung /\ UNCHANGED <<source, accepted, rejected, closed>>

\* Mutant: the catalog is used when it is resolved, without a second look.
MutantAgentsResolved ==
  /\ dispatch.at = "resolving"
  /\ IF GenerationMoved THEN RetryGeneration
     ELSE /\ dispatch' = [dispatch EXCEPT !.at = "used", !.resolved = source.home]
          /\ UNCHANGED acceptedVars

\* The agents are resolved; a generation that is still the same is confirmed
\* by a second synchronization.
AgentsResolved ==
  /\ dispatch.at = "resolving"
  /\ IF GenerationMoved THEN RetryGeneration
     ELSE /\ dispatch' = [dispatch EXCEPT !.at = "second", !.resolved = source.home]
          /\ DispatcherAsks

\* The consumer's synchronous part runs in the step that made the last check.
CatalogUsed ==
  /\ dispatch.at = "second" /\ ask[Dispatcher].at = "answered"
  /\ IF GenerationMoved THEN RetryGeneration
     ELSE /\ dispatch' = IF closed THEN DispatchIdle ELSE [dispatch EXCEPT !.at = "used"]
          /\ DispatcherHears /\ Hung

\* The consumer is done.
DispatchEnds ==
  /\ dispatch.at = "used"
  /\ dispatch' = DispatchIdle
  /\ UNCHANGED acceptedVars

\* The signal of the tool call aborts at any await.
DispatchAborted ==
  /\ dispatch.at \in {"first", "resolving", "second"}
  /\ dispatch' = DispatchIdle
  /\ UNCHANGED acceptedVars

DispatchNext ==
  \/ DispatchBegins \/ CatalogTaken \/ AgentsResolved \/ CatalogUsed \/ DispatchEnds
  \/ DispatchAborted
  \/ (Edited \/ Accepts \/ Rejects \/ Answers \/ Closes) /\ UNCHANGED dispatch

DispatchSpec ==
  /\ AcceptedInit /\ dispatch = DispatchIdle
  /\ [][DispatchNext]_dispatchVars
  /\ EveryoneIsAnswered

-----------------------------------------------------------------------------

DispatchTypeOK ==
  dispatch \in [at : {"idle", "first", "resolving", "second", "used"},
                generation : Nat, catalog : 0..MaxVersions,
                retries : 0..MaxRetries, resolved : 0..MaxVersions]

\* What a dispatch acts on is the catalog accepted at that very moment, and an
\* edit made before its agents were resolved is in it, unless it was rejected
\* (withCurrentAgentCatalog: "without an await gap after the final authority
\* check").
DispatchUsesAccepted ==
  [][dispatch.at # "used" /\ dispatch'.at = "used" =>
       /\ dispatch.catalog = accepted.catalog
       /\ ~closed
       /\ rejected \/ accepted.home >= dispatch'.resolved]_dispatchVars
=============================================================================
