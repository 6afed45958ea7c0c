---------------------- MODULE ModelRuntimeTransaction ----------------------
(***************************************************************************)
(* createModelRuntimeTransaction (runtime/model-runtime-transaction.ts):   *)
(* who uses the model runtime holds one object that delegates to the       *)
(* current runtime.  A candidate is created, activated and committed, or   *)
(* given up; what is no longer used is disposed of when its last lease is  *)
(* released, and kept for another try when that fails.                     *)
(*                                                                         *)
(* The second half is the transaction of the server's own models           *)
(* (createAcceptedModelRuntime, web/auth-runtime.ts): the live             *)
(* configuration prepares its candidates one at a time, and every          *)
(* authorization runs on the runtime it has leased.                        *)
(***************************************************************************)
EXTENDS Naturals, FiniteSets

CONSTANTS
  Owner,         \* runtimes that may exist together
  NoOwner,
  Lease,         \* operations that lease the current runtime
  MaxFailures    \* bound on what fails: disposals, reloads, preparations

ASSUME TransactionAssumption == NoOwner \notin Owner /\ MaxFailures \in Nat

\* at: what became of each owner ("free": not in owners).
\* candidate, previous: the owner prepared last, and what it was activated over.
\* leases: those who hold each owner.
\* closing, disposing: dispose() was called, and its promise is pending.
VARIABLES models, failures

NoLeases == [o \in Owner |-> {}]

NoModels == [at |-> [o \in Owner |-> "free"], current |-> NoOwner, candidate |-> NoOwner,
             previous |-> NoOwner, leases |-> NoLeases, closing |-> FALSE, disposing |-> FALSE]

\* One more thing fails.
Failure == failures < MaxFailures /\ failures' = failures + 1
NoFailure == UNCHANGED failures

\* createRuntime is over: an owner more.
Free(m) == {o \in Owner : m.at[o] = "free"}
Created(m) == LET o == CHOOSE o \in Free(m) : TRUE
              IN  [m EXCEPT !.at[o] = "live", !.candidate = o]

Activated(m) == [m EXCEPT !.previous = m.current, !.current = m.candidate]

\* What becomes of an owner that is no longer used: it is to be disposed of
\* once nobody leases it.
Retired(m, o) == IF o = NoOwner THEN m ELSE [m EXCEPT !.at[o] = "retired"]

Settled(m) == [m EXCEPT !.candidate = NoOwner, !.previous = NoOwner]

Committed(m) == Settled(Retired(m, m.previous))

\* A candidate that was activated gives way to what was there before.
RolledBack(m) ==
  Settled(Retired([m EXCEPT !.current = IF @ = m.candidate THEN m.previous ELSE @], m.candidate))

\* Mutant: a runtime is disposed of while it is leased.
MutantDisposable(m, o) == m.at[o] = "retired"

\* release awaits the leases first.
Disposable(m, o) == m.at[o] = "retired" /\ m.leases[o] = {}

\* The disposal of an owner succeeds, or fails and leaves it to dispose().
OwnerDisposed(m, o) == [m EXCEPT !.at[o] = "free"]
OwnerKept(m, o) == [m EXCEPT !.at[o] = "kept"]

\* dispose() retires every owner there is, those whose disposal failed again.
TransactionClosed(m) ==
  [m EXCEPT !.closing = TRUE, !.disposing = TRUE, !.current = NoOwner, !.candidate = NoOwner,
            !.previous = NoOwner,
            !.at = [o \in Owner |-> IF m.at[o] = "free" THEN "free" ELSE "retired"]]

-----------------------------------------------------------------------------

\* The server's models.  prepareModelCatalog creates a candidate and looks at
\* it; the drain of the configuration has one at a time.
CatalogPrepared ==
  /\ ~models.closing /\ models.candidate = NoOwner /\ Free(models) # {}
  /\ models' = Created(models)
  /\ NoFailure

\* The configuration is accepted with its models, in one step.
CatalogCommitted ==
  /\ models.candidate # NoOwner
  /\ models' = Committed(Activated(models))
  /\ NoFailure

\* The configuration is rejected, or its preparation fails.
CatalogGivenUp ==
  /\ models.candidate # NoOwner
  /\ models' = RolledBack(models)
  /\ NoFailure

\* createAuthRuntime leases the runtime that is current.
LeaseAcquired(l) ==
  /\ ~models.closing /\ models.current # NoOwner
  /\ \A o \in Owner : l \notin models.leases[o]
  /\ models' = [models EXCEPT !.leases[models.current] = @ \cup {l}]
  /\ NoFailure

LeaseReleased(l) ==
  /\ \E o \in Owner : /\ l \in models.leases[o]
                      /\ models' = [models EXCEPT !.leases[o] = @ \ {l}]
  /\ NoFailure

\* release: the leases are awaited first.
OwnerReleased(o) ==
  /\ Disposable(models, o)
  /\ \/ models' = OwnerDisposed(models, o) /\ NoFailure
     \/ models' = OwnerKept(models, o) /\ Failure

\* The server ends: the configuration is closed, its drain over, and the
\* authorizations shut down, which have released their leases; or a disposal
\* that failed is tried again.
TransactionDisposes ==
  /\ models.candidate = NoOwner
  /\ models.leases = NoLeases
  /\ ~models.disposing
  /\ models.closing => \E o \in Owner : models.at[o] # "free"
  /\ models' = TransactionClosed(models)
  /\ NoFailure

TransactionDisposed ==
  /\ models.disposing
  /\ \A o \in Owner : models.at[o] # "retired"
  /\ models' = [models EXCEPT !.disposing = FALSE]
  /\ NoFailure

ModelsNext ==
  \/ CatalogPrepared \/ CatalogCommitted \/ CatalogGivenUp
  \/ \E l \in Lease : LeaseAcquired(l) \/ LeaseReleased(l)
  \/ \E o \in Owner : OwnerReleased(o)
  \/ TransactionDisposes \/ TransactionDisposed

ModelsSpec ==
  /\ models = NoModels /\ failures = 0
  /\ [][ModelsNext]_<<models, failures>>

-----------------------------------------------------------------------------

ModelsTypeOK ==
  /\ models \in [at : [Owner -> {"free", "live", "retired", "kept"}],
                 current : Owner \cup {NoOwner}, candidate : Owner \cup {NoOwner},
                 previous : Owner \cup {NoOwner}, leases : [Owner -> SUBSET Lease],
                 closing : BOOLEAN, disposing : BOOLEAN]
  /\ failures \in 0..MaxFailures

\* A runtime that somebody delegates to or has leased is not disposed of, and
\* one that nobody uses any more is: what is left over are disposals under way
\* and disposals that failed (model-runtime-transaction.ts: release awaits the
\* leases, "The transaction retains failed retired owners for disposal retry").
RuntimesInUseStay ==
  /\ \A o \in Owner :
       /\ models.leases[o] # {} \/ o = models.current => models.at[o] \in {"live", "retired"}
       /\ models.at[o] = "live" => o \in {models.current, models.candidate, models.previous}
  /\ models.current # NoOwner => models.at[models.current] = "live"
=============================================================================
