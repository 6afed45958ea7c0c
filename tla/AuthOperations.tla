--------------------------- MODULE AuthOperations ---------------------------
(***************************************************************************)
(* The provider credentials of a server (web/auth-gateway.ts,              *)
(* auth-flow-store.ts, provider-deletion.ts): interactive logins, of which *)
(* one at a time may be under way, logouts, and deletions of a provider    *)
(* the user declared in models.json.  Operations on one provider take      *)
(* turns in the order they were asked; a login may be aborted at any await *)
(* and its place in the line is then void, but nobody overtakes those      *)
(* before it.                                                              *)
(***************************************************************************)
EXTENDS Naturals, Sequences

CONSTANTS
  Flow,     \* login flows, all for one provider
  Logout,   \* requests to log out of it
  Deletion, \* requests to delete it
  NoFlow

ASSUME FlowAssumption == NoFlow \notin Flow

Removal == Logout \cup Deletion
Operation == Flow \cup Removal

\* No request is of two kinds.
ASSUME OperationAssumption == Flow \cap Removal = {}

\* auth: what each operation is at (at), the flow that holds the single-flight
\* guard, the flows whose signal is aborted, the line of the provider, and what
\* each deletion found asked; provider: whether models.json declares it, whether
\* the accepted catalog has it and whether it is built in; credential: whose
\* login is stored.
VARIABLES auth, provider, credential, shutdown

authVars == <<auth, provider, credential, shutdown>>

AuthInit ==
  /\ auth = [at |-> [o \in Operation |-> "new"], guard |-> NoFlow, aborted |-> {},
             line |-> <<>>, found |-> [d \in Deletion |-> {}]]
  /\ provider \in {[declared |-> TRUE, accepted |-> TRUE, builtIn |-> b] : b \in BOOLEAN}
  /\ credential = NoFlow
  /\ shutdown = "no"

Is(o, at) == auth.at[o] = at
Moves(a, o, at) == [a EXCEPT !.at[o] = at]

\* A failed or finished login leaves the guard.
FlowOver(a, f) == [Moves(a, f, "ended") EXCEPT !.guard = IF @ = f THEN NoFlow ELSE @]

-----------------------------------------------------------------------------
\* The line of the provider.

\* An operation has left its place: it ended, or its login has returned.
PlaceSettled(o) == auth.at[o] \in {"publishing", "ended", "failed"}

Place(o) == CHOOSE i \in 1..Len(auth.line) : auth.line[i] = o
Before(o) == {auth.line[i] : i \in 1..(Place(o) - 1)}

Joins(a, o) == [Moves(a, o, "queued") EXCEPT !.line = Append(@, o)]

\* Mutant: whoever is cancelled lets its successor go.
MutantTurn(o) ==
  Is(o, "queued") /\ (Place(o) > 1 => PlaceSettled(auth.line[Place(o) - 1]))

\* The tail of the line resolves with its last place and all before it.
Turn(o) == Is(o, "queued") /\ \A x \in Before(o) : PlaceSettled(x)

-----------------------------------------------------------------------------
\* A login.

PreflightBegins(f) ==
  /\ Is(f, "new") /\ shutdown = "no"
  /\ auth.guard = NoFlow
  /\ auth' = [Moves(auth, f, "preflight") EXCEPT !.guard = f]
  /\ UNCHANGED <<provider, credential, shutdown>>

PreflightPasses(f) ==
  /\ Is(f, "preflight")
  /\ shutdown = "no" /\ provider.accepted /\ f \notin auth.aborted
  /\ auth' = Moves(auth, f, "reserved")
  /\ UNCHANGED <<provider, credential, shutdown>>

\* For one of the reasons above, or because the catalog does not synchronize or
\* the provider has no such method.
PreflightRefuses(f) ==
  /\ Is(f, "preflight")
  /\ auth' = FlowOver(auth, f)
  /\ UNCHANGED <<provider, credential, shutdown>>

\* The handler runs the flow it reserved; a signal aborted by now settles the
\* place at once.
RunFlow(f) ==
  /\ Is(f, "reserved")
  /\ auth' = CASE shutdown # "no" -> FlowOver(auth, f)
               [] shutdown = "no" /\ f \in auth.aborted -> FlowOver(Joins(auth, f), f)
               [] OTHER -> Joins(auth, f)
  /\ UNCHANGED <<provider, credential, shutdown>>

FlowTurn(f) ==
  /\ Turn(f) /\ f \notin auth.aborted
  /\ auth' = IF provider.accepted THEN Moves(auth, f, "running") ELSE FlowOver(auth, f)
  /\ UNCHANGED <<provider, credential, shutdown>>

AbortedInLine(f) ==
  /\ Is(f, "queued") /\ f \in auth.aborted
  /\ auth' = FlowOver(auth, f)
  /\ UNCHANGED <<provider, credential, shutdown>>

\* The native login has its answers and stores; an abort may come too late for it.
LoginStores(f) ==
  /\ Is(f, "running")
  /\ auth' = Moves(auth, f, "committed")
  /\ credential' = f
  /\ UNCHANGED <<provider, shutdown>>

LoginFails(f) ==
  /\ Is(f, "running")
  /\ auth' = FlowOver(auth, f)
  /\ UNCHANGED <<provider, credential, shutdown>>

\* The login returned and its runtime is disposed: the place is free, the
\* configuration hears of it.
LoginPublishes(f) ==
  /\ Is(f, "committed")
  /\ auth' = Moves(auth, f, "publishing")
  /\ UNCHANGED <<provider, credential, shutdown>>

LoginEnds(f) ==
  /\ Is(f, "publishing")
  /\ auth' = FlowOver(auth, f)
  /\ UNCHANGED <<provider, credential, shutdown>>

Aborts(f) == auth' = [auth EXCEPT !.aborted = @ \cup {f}]

FlowCancelled(f) ==
  /\ auth.at[f] \in {"reserved", "queued", "running", "committed", "publishing"}
  /\ Aborts(f)
  /\ UNCHANGED <<provider, credential, shutdown>>

\* Mutant: the time limit begins with the login itself.
MutantFlowTimesOut(f) ==
  /\ Is(f, "running")
  /\ Aborts(f)
  /\ UNCHANGED <<provider, credential, shutdown>>

\* The time limit covers the wait for the turn.
FlowTimesOut(f) ==
  /\ auth.at[f] \in {"queued", "running", "committed", "publishing"}
  /\ Aborts(f)
  /\ UNCHANGED <<provider, credential, shutdown>>

-----------------------------------------------------------------------------
\* A logout and a deletion.

LogoutAsked(o) ==
  /\ Is(o, "new") /\ shutdown = "no"
  /\ auth' = Joins(auth, o)
  /\ UNCHANGED <<provider, credential, shutdown>>

\* The place is taken first, then the login under way is aborted.
ProviderDeletionAsked(d) ==
  /\ Is(d, "new") /\ shutdown = "no"
  /\ auth' = [Joins(auth, d) EXCEPT !.aborted = @ \cup ({auth.guard} \ {NoFlow}),
                                   !.found[d] = {f \in Flow : ~Is(f, "new")}]
  /\ UNCHANGED <<provider, credential, shutdown>>

RemovalTurn(o) ==
  /\ Turn(o) /\ shutdown = "no"
  /\ auth' = Moves(auth, o, "running")
  /\ UNCHANGED <<provider, credential, shutdown>>

RemovalCut(o) ==
  /\ Is(o, "queued") /\ shutdown # "no"
  /\ auth' = Moves(auth, o, "failed")
  /\ UNCHANGED <<provider, credential, shutdown>>

\* models.json is rewritten without the provider.
DeclarationRemoved(d) ==
  /\ Is(d, "running") /\ provider.declared
  /\ provider' = [provider EXCEPT !.declared = FALSE]
  /\ auth' = Moves(auth, d, "accepting")
  /\ UNCHANGED <<credential, shutdown>>

\* The configuration has accepted the change before credentials are cleaned.
DeletionAccepted(d) ==
  /\ Is(d, "accepting")
  /\ provider' = [provider EXCEPT !.accepted = provider.declared \/ provider.builtIn]
  /\ auth' = Moves(auth, d, "cleaning")
  /\ UNCHANGED <<credential, shutdown>>

Cleans(o) == IF o \in Deletion THEN Is(o, "cleaning") ELSE Is(o, "running") /\ provider.accepted

CredentialRemoved(o) ==
  /\ Cleans(o)
  /\ credential' = NoFlow
  /\ auth' = Moves(auth, o, "removed")
  /\ UNCHANGED <<provider, shutdown>>

\* The rest: the cache of the models, and those who hear of it.
RemovalEnds(o) ==
  /\ Is(o, "removed")
  /\ auth' = Moves(auth, o, "ended")
  /\ UNCHANGED <<provider, credential, shutdown>>

\* An unknown provider, a configuration that is not accepted, a store that
\* cannot be written (of a deletion, only a warning).
RemovalFails(o) ==
  /\ auth.at[o] \in {"running", "accepting", "cleaning"}
  /\ auth' = Moves(auth, o, "failed")
  /\ UNCHANGED <<provider, credential, shutdown>>

\* The user declares the provider again.
ProviderDeclared ==
  /\ ~provider.declared
  /\ provider' = [provider EXCEPT !.declared = TRUE, !.accepted = TRUE]
  /\ UNCHANGED <<auth, credential, shutdown>>

-----------------------------------------------------------------------------
\* The server goes down.

AuthShutdown ==
  /\ shutdown = "no"
  /\ shutdown' = "begun"
  /\ auth' = [auth EXCEPT !.aborted = @ \cup ({auth.guard} \ {NoFlow})]
  /\ UNCHANGED <<provider, credential>>

AuthShutdownEnds ==
  /\ shutdown = "begun"
  /\ \A o \in Operation : auth.at[o] \in {"new", "reserved", "ended", "failed"}
  /\ shutdown' = "done"
  /\ UNCHANGED <<auth, provider, credential>>

FlowProceeds(f) ==
  \/ PreflightPasses(f) \/ PreflightRefuses(f) \/ RunFlow(f) \/ FlowTurn(f)
  \/ AbortedInLine(f) \/ LoginPublishes(f) \/ LoginEnds(f)

AuthNext ==
  \/ \E f \in Flow : \/ PreflightBegins(f) \/ FlowProceeds(f) \/ LoginStores(f) \/ LoginFails(f)
                     \/ FlowCancelled(f) \/ FlowTimesOut(f)
  \/ \E o \in Logout : LogoutAsked(o)
  \/ \E d \in Deletion : ProviderDeletionAsked(d) \/ DeclarationRemoved(d) \/ DeletionAccepted(d)
  \/ \E o \in Removal : \/ RemovalTurn(o) \/ RemovalCut(o) \/ CredentialRemoved(o)
                        \/ RemovalEnds(o) \/ RemovalFails(o)
  \/ ProviderDeclared \/ AuthShutdown \/ AuthShutdownEnds

\* What is awaited settles, the timer of a login fires, and a login whose signal
\* is aborted returns.  Nobody need ever answer a prompt; a logout or a deletion
\* may hang.
AuthFairness ==
  \A f \in Flow :
    /\ WF_authVars(FlowProceeds(f))
    /\ WF_authVars(FlowTimesOut(f))
    /\ WF_authVars(f \in auth.aborted /\ (LoginStores(f) \/ LoginFails(f)))

AuthSpec == AuthInit /\ [][AuthNext]_authVars /\ AuthFairness

-----------------------------------------------------------------------------
\* Type correctness of the gateway's state and of what it changes.
AuthTypeOK ==
  /\ auth \in [at : [Operation -> {"new", "preflight", "reserved", "queued", "running",
                                   "accepting", "cleaning", "removed", "committed",
                                   "publishing", "ended", "failed"}],
               guard : Flow \cup {NoFlow}, aborted : SUBSET Flow, line : Seq(Operation),
               found : [Deletion -> SUBSET Flow]]
  /\ provider \in [declared : BOOLEAN, accepted : BOOLEAN, builtIn : BOOLEAN]
  /\ credential \in Flow \cup {NoFlow}
  /\ shutdown \in {"no", "begun", "done"}

\* The logins that a deletion which ended well had found asked.
Outlived == UNION {auth.found[d] : d \in {x \in Deletion : Is(x, "ended")}}

\* The credential follows the order of the requests: a login asked before a
\* deletion never stores once that deletion is over, however late its answer; a
\* removal never takes a login that joined the line after it; and nothing changes
\* the credential once the shutdown is over.
CredentialFollowsRequests ==
  [][/\ credential' \in Flow \ {credential} => credential' \notin Outlived
     /\ \A o \in Removal :
          auth'.at[o] = "removed" /\ ~Is(o, "removed") /\ credential # NoFlow
            => credential \in Before(o)
     /\ shutdown = "done" => credential' = credential]_authVars

\* The single-flight guard is always freed again, though nobody answers the
\* prompt, and though the logout or the deletion before it in the line hangs.
LoginsMakeWay == \A f \in Flow : auth.guard = f ~> auth.guard # f
=============================================================================
