------------------------------ MODULE MCServer ------------------------------
(***************************************************************************)
(* Small instances of parts of a server process that do not share state,   *)
(* several of them checked by one run: every behaviour is of one part,     *)
(* chosen at the start, while the others stay as they begin.               *)
(***************************************************************************)
EXTENDS RuntimeLease, LiveConfiguration, DispatchAuthorization, RuntimeBinding,
        SessionDeletion, AuthOperations, EventDelivery, ManualCompaction, TLC

CONSTANTS
  Parts,
  MaxGenerations   \* bound on the generations accepted, of those who look at them

VARIABLE part

bindingOnly == <<news, binding, apply, loaded, run>>
transactionVars == <<models, failures>>
smallVars == <<deletionVars, authVars, eventVars, compactionVars>>
configurationVars == <<liveVars, dispatch, transactionVars, bindingOnly>>

\* Fresh tokens are interchangeable: which of them is drawn is fixed.
TokenDrawn == \A t \in Fresh \ Fresh' : t = CHOOSE x \in Fresh : TRUE

LeaseSteps ==
  /\ part = "lease" /\ Next
  /\ TokenDrawn
  /\ UNCHANGED <<configurationVars, smallVars>>

LiveSteps ==
  /\ part = "live" /\ LiveNext
  /\ UNCHANGED <<vars, dispatch, transactionVars, bindingOnly, smallVars>>

\* A dispatch that meets three generations has met every way they can move, and
\* so has a binding; a dispatch does not look at a project's sources.
DispatchSteps ==
  /\ part = "dispatch" /\ DispatchNext
  /\ accepted'.generation <= MaxGenerations /\ source'.project = 0
  /\ UNCHANGED <<vars, innerVars, transactionVars, bindingOnly, smallVars>>

\* One thing happens besides what is accepted: a failure, a configuration that
\* closes, or a binding that does; and each at the times it makes a difference.
BindingRoom ==
  /\ source.home + source.project = 0 /\ ~rejected
  /\ closed => apply.at # "none" /\ failures = 0 /\ ~binding.closing
  /\ binding.closing /\ failures = 1 => binding.disposed
  /\ binding.closing /\ ~binding.disposed => apply.at # "none"
  /\ news.epoch = 2 => failures = 0 /\ ~binding.closing

BindingSteps ==
  /\ part = "binding" /\ BindingNext
  /\ BindingRoom' /\ accepted'.generation <= MaxGenerations
  /\ UNCHANGED <<vars, innerVars, dispatch, smallVars>>

ModelSteps ==
  /\ part = "models" /\ ModelsNext
  /\ UNCHANGED <<vars, liveVars, dispatch, bindingOnly, smallVars>>

DeletionSteps ==
  /\ part = "deletion" /\ DeletionNext
  /\ UNCHANGED <<vars, configurationVars, authVars, eventVars, compactionVars>>

AuthSteps ==
  /\ part = "auth" /\ AuthNext
  /\ UNCHANGED <<vars, configurationVars, deletionVars, eventVars, compactionVars>>

\* Views are interchangeable: one of them, always the same, subscribes first.  An
\* event changes what its view shows and nothing else: with more than one view
\* there are only the snapshots.
EventRoom ==
  LET first == CHOOSE v \in View : TRUE
  IN /\ page.life[first] = "new" => \A v \in View : page.life[v] = "new"
     /\ View # {first} => \A v \in View : channel.serves[v].at # "sent"

EventSteps ==
  /\ part = "events" /\ EventNext
  /\ EventRoom'
  /\ UNCHANGED <<vars, configurationVars, deletionVars, authVars, compactionVars>>

CompactionSteps ==
  /\ part = "compaction" /\ CompactionNext
  /\ UNCHANGED <<vars, configurationVars, deletionVars, authVars, eventVars>>

ServerInit ==
  /\ part \in Parts
  /\ Init /\ (part # "lease" => path = "missing")
  /\ LiveInnerInit
  /\ dispatch = DispatchIdle
  /\ BindingInit
  /\ DeletionInit
  /\ AuthInit /\ (part # "auth" => provider.builtIn)
  /\ EventInit
  /\ CompactionInit

ServerNext ==
  /\ \/ LeaseSteps \/ LiveSteps \/ DispatchSteps \/ BindingSteps \/ ModelSteps
     \/ DeletionSteps \/ AuthSteps \/ EventSteps \/ CompactionSteps
  /\ UNCHANGED part

\* The fairness of the part that runs.
ServerFairness ==
  /\ \A p \in Process : WF_vars(part = "lease" /\ Acquisition(p))
  /\ WF_liveVars(part = "live" /\ DrainProceeds)
  /\ WF_liveVars(part = "live" /\ StarterProceeds)
  /\ WF_liveVars(part = "live" /\ CloseProceeds)
  /\ WF_liveVars(part = "live" /\ \E kind \in {"home", "project"} : WatcherReports(kind))
  /\ \A f \in Flow :
       /\ WF_authVars(part = "auth" /\ FlowProceeds(f))
       /\ WF_authVars(part = "auth" /\ FlowTimesOut(f))
       /\ WF_authVars(part = "auth" /\ f \in auth.aborted /\ (LoginStores(f) \/ LoginFails(f)))
  /\ WF_eventVars(part = "events" /\ EventProceeds)

ServerSpec ==
  ServerInit /\ [][ServerNext]_<<vars, configurationVars, smallVars, part>>
    /\ ServerFairness

\* An application that was begun is at its first await within the same step of
\* the event loop; the run about combined changes needs no other.
BegunAtOnce == apply.at = "queued" => accepted' = accepted

\* Processes are interchangeable in what the safety properties say; no other part
\* looks at them.
ServerSymmetry == Permutations(Process)

\* Type correctness of every part.
ServerTypeOK ==
  LeaseTypeOK /\ LiveTypeOK /\ DispatchTypeOK /\ ModelsTypeOK /\ BindingTypeOK /\ DeletionTypeOK
  /\ AuthTypeOK /\ EventTypeOK /\ CompactionTypeOK
=============================================================================
