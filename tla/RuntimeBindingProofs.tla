------------------------ MODULE RuntimeBindingProofs ------------------------
(***************************************************************************)
(* A session runs with what the configuration accepts, and nothing of its  *)
(* runtimes is left behind, for any number of generations and failures.    *)
(*                                                                         *)
(* StageInv relates the places of the runner and of the application;       *)
(* OwnersInv says which model runtimes there are at each of them; and      *)
(* FollowInv, what the binding knows of the changes its session was loaded *)
(* with.                                                                   *)
(* ModelsInv, at the end, is about the server's own models, which the same *)
(* transaction replaces.                                                   *)
(***************************************************************************)
EXTENDS RuntimeBinding, TLAPS

-----------------------------------------------------------------------------
(* The invariant *)

Bindings == [status : {"clean", "applying", "restoring", "poisoned"}, applied : States,
             pending : Nat, again : BOOLEAN, boundary : BOOLEAN,
             abort : BOOLEAN, attached : BOOLEAN, registered : BOOLEAN, closing : BOOLEAN,
             disposed : BOOLEAN, released : BOOLEAN]

Operations == [at : {"none", "queued", "acquiring", "first", "resolving", "preparing", "second",
                     "prepared", "reloading", "committing", "restoring"},
               boundary : BOOLEAN, candidate : States, over : States]

Runs == [at : {"new", "starting", "built", "attaching", "idle", "preparing", "ready", "busy",
               "boundary", "over"}, since : Nat]

Transactions == [at : [Owner -> {"free", "live", "retired", "kept"}],
                 current : Owner \cup {NoOwner}, candidate : Owner \cup {NoOwner},
                 previous : Owner \cup {NoOwner}, leases : [Owner -> SUBSET Lease],
                 closing : BOOLEAN, disposing : BOOLEAN]

BindingTypes ==
  /\ BindingTypeOK /\ ModelsTypeOK
  /\ accepted.generation \in Nat

\* Where the runner and the application can be together.
StageInv ==
  /\ run.at # "new" => accepted.generation > 0
  /\ apply.at # "none" => run.at # "new"
  /\ run.at \in {"attaching", "idle", "preparing", "ready", "busy", "boundary"} => binding.attached
  /\ run.at \in {"new", "starting", "built"} => ~binding.attached
  /\ run.at = "built" =>
       /\ apply.at = "none" /\ binding.status = "clean"
       /\ binding.closing \/ binding.applied # NoState
  /\ Waits => apply.at # "none"
  /\ run.at = "boundary" => binding.abort /\ (binding.boundary \/ apply.boundary)
  /\ binding.attached => binding.applied # NoState
  /\ binding.disposed => binding.closing /\ run.at # "new"
  /\ binding.released =>
       binding.disposed /\ ~binding.attached /\ run.at = "over" /\ apply.at = "none"
  /\ binding.status = "applying" <=> apply.at \in {"reloading", "committing"}
  /\ binding.status = "restoring" <=> apply.at = "restoring"
  /\ apply.at \in {"reloading", "committing"} => binding.applied = apply.candidate
  /\ apply.at \in {"resolving", "preparing", "second", "prepared", "reloading", "committing",
                   "restoring"} => apply.candidate.generation > 0
  /\ apply.at = "reloading" => binding.attached /\ apply.over # NoState
  /\ apply.at = "restoring" => binding.attached

\* A runtime is there for somebody who delegates to it, or its disposal failed.
Held(m) ==
  \A o \in Owner : /\ m.leases[o] = {} /\ m.at[o] # "retired"
                   /\ m.at[o] = "live" <=> o \in {m.current, m.candidate, m.previous}

OwnersInv ==
  /\ Held(models)
  /\ apply.at \in {"reloading", "committing"} =>
       /\ models.current = models.candidate /\ models.candidate # NoOwner
       /\ models.previous # models.candidate
  /\ apply.at \notin {"reloading", "committing"} =>
       /\ models.previous = NoOwner
       /\ models.candidate # NoOwner => models.candidate # models.current
  /\ apply.at \in {"second", "prepared"} => models.candidate # NoOwner
  /\ apply.at \notin {"preparing", "second", "prepared", "reloading", "committing"} =>
       models.candidate = NoOwner
  /\ apply.at = "reloading" => models.previous # NoOwner
  /\ models.current = NoOwner =>
       \/ binding.applied = NoState
       \/ binding.disposed /\ ~binding.attached /\ run.at = "over" /\ apply.at = "none"
  /\ binding.released => ~binding.registered /\ \A o \in Owner : models.at[o] = "free"

\* A state of the runtime has the last change there was at its generation.
Recent(s) ==
  /\ s.change <= s.generation /\ s.generation <= accepted.generation
  /\ s.epoch <= news.epoch
  /\ ~MayBeHidden /\ news.change <= s.generation => s.change = news.change

\* The last change is in the generation, or will not be forgotten by the binding b: it is
\* pending, or what is accepted is still newer than what is applied.
Remembered(b, generation) ==
  b.closing \/ news.mixed \/ news.change <= generation \/ news.change <= b.pending

\* The binding b of a session loaded with the change l: a change that is not applied is
\* remembered, and a session whose state is known has what is applied.
KeepsUp(b, l) ==
  /\ Recent(b.applied) /\ b.pending <= accepted.generation
  /\ b.attached => Remembered(b, b.applied.generation)
  /\ b.attached /\ b.status = "clean" /\ ~MayBeHidden /\ news.change <= b.applied.generation =>
       l = b.applied.change
  /\ b.attached /\ b.status = "poisoned" /\ ~MayBeHidden =>
       l = b.applied.change \/ b.applied.generation < accepted.generation

\* A candidate chosen before the last change makes the application go round again.
Chosen == {"resolving", "preparing", "second", "prepared", "reloading", "committing"}

FollowInv ==
  /\ news.change <= accepted.generation
  /\ KeepsUp(binding, loaded)
  /\ Recent(apply.candidate)
  /\ apply.at = "committing" /\ binding.attached /\ ~MayBeHidden
       /\ news.change <= binding.applied.generation => loaded = binding.applied.change
  /\ apply.at = "reloading" =>
       /\ Recent(apply.over) /\ apply.over.generation < apply.candidate.generation
       /\ Remembered(binding, apply.over.generation)
  /\ apply.at = "restoring" => binding.applied.generation < apply.candidate.generation
  /\ run.since <= news.change
  /\ apply.at \in Chosen /\ binding.attached /\ ~binding.closing /\ ~MayBeHidden =>
       news.change <= apply.candidate.generation \/ binding.again

BindingInv == BindingTypes /\ StageInv /\ OwnersInv /\ FollowInv

\* A binding b that an application can leave behind: where the runner was is as it was.
AtRest(b) ==
  /\ b \in Bindings /\ b.status \in {"clean", "poisoned"}
  /\ b.boundary = binding.boundary /\ b.abort = binding.abort
  /\ b.attached = binding.attached /\ b.closing = binding.closing
  /\ b.disposed = binding.disposed /\ b.released = binding.released
  /\ b.attached => b.applied # NoState

\* What no event and no marking of a binding changes.
SameRest(b, c) ==
  /\ c.boundary = b.boundary /\ c.abort = b.abort /\ c.attached = b.attached
  /\ c.registered = b.registered /\ c.closing = b.closing
  /\ c.disposed = b.disposed /\ c.released = b.released

\* The binding c is what the binding b has become when it heard of the event.
Hears(b, c, event) ==
  /\ c \in Bindings /\ SameRest(b, c) /\ c.status = b.status
  /\ b.again => c.again
  /\ event.runtime => c.again \/ apply.at = "none"
  /\ \/ c.pending = b.pending /\ c.applied = b.applied
     \/ /\ c.pending = event.generation /\ event.generation > b.pending
        /\ event.runtime /\ c.applied = b.applied
     \/ /\ b.pending = 0 /\ b.status = "clean" /\ c.pending = 0
        /\ event.generation > b.applied.generation /\ ~event.runtime
        /\ ~(event.availability /\ event.epoch > b.applied.epoch)
        /\ c.applied.generation = event.generation
        /\ c.applied.change = b.applied.change /\ c.applied.epoch = b.applied.epoch
  /\ event.runtime /\ ~event.availability =>
       c.pending >= event.generation \/ b.applied.generation >= event.generation

\* The models m that an application can leave behind, with the binding b.
ModelsAtRest(m, b) ==
  /\ m \in Transactions /\ Held(m)
  /\ m.candidate = NoOwner /\ m.previous = NoOwner
  /\ m.current = NoOwner => b.applied = NoState

-----------------------------------------------------------------------------
(* What the operators on the binding do *)

\* Marking something as pending changes nothing but what is pending.
LEMMA PendingMarked ==
  ASSUME NEW b \in Bindings, NEW g \in Nat
  PROVE  LET c == MarkedPending(b, g)
         IN  /\ c \in Bindings
             /\ c.pending \in Nat /\ c.pending >= b.pending /\ c.pending >= g
             /\ c.pending = b.pending \/ c.pending = g
             /\ c.status = b.status /\ c.applied = b.applied /\ c.again = b.again
             /\ SameRest(b, c)
BY DEF MarkedPending, Greater, Bindings, SameRest

\* A generation newer than what is applied is pending, and nothing else is new.
LEMMA NewerIsPending ==
  ASSUME NEW b \in Bindings, accepted.generation \in Nat
  PROVE  LET c == Observed(b)
         IN  /\ c \in Bindings
             /\ c.pending >= b.pending
             /\ c.pending = b.pending \/ c.pending = accepted.generation
             /\ b.applied # NoState /\ accepted.generation > b.applied.generation =>
                  c.pending >= accepted.generation
             /\ c.status = b.status /\ c.applied = b.applied /\ c.again = b.again
             /\ SameRest(b, c)
<1>1. b.pending \in Nat /\ b.applied \in States
  BY DEF Bindings
<1>2. CASE b.applied # NoState /\ accepted.generation > b.applied.generation
  <2>1. Observed(b) = MarkedPending(b, accepted.generation)
    BY <1>2 DEF Observed
  <2> QED
    BY <1>1, <1>2, <2>1, PendingMarked
<1>3. CASE ~(b.applied # NoState /\ accepted.generation > b.applied.generation)
  <2>1. Observed(b) = b
    BY <1>3 DEF Observed
  <2> QED
    BY <1>1, <1>3, <2>1 DEF SameRest
<1> QED
  BY <1>2, <1>3

\* Marking something as applied makes the binding clean, and what is left pending newer.
LEMMA AppliedMarked ==
  ASSUME NEW b \in Bindings, NEW g \in Nat
  PROVE  LET c == MarkedApplied(b, g)
         IN  /\ c \in Bindings /\ c.status = "clean"
             /\ c.pending = IF b.pending <= g THEN 0 ELSE b.pending
             /\ c.applied = b.applied /\ c.again = b.again
             /\ SameRest(b, c)
BY DEF MarkedApplied, Bindings, SameRest

\* What an event tells changes what is pending, or the generation that is applied.
LEMMA EventHeard ==
  ASSUME NEW b \in Bindings, NEW event, event.generation \in Nat, event.epoch \in Nat,
         event.runtime \in BOOLEAN, event.availability \in BOOLEAN
  PROVE  Hears(b, Notified(b, event), event)
<1> DEFINE heard == [b EXCEPT !.again = @ \/ apply.at # "none"]
           state == [b.applied EXCEPT !.generation = event.generation]
           taken == [b EXCEPT !.applied.generation = event.generation]
<1>1. /\ b.pending \in Nat /\ b.applied \in States /\ b.applied.generation \in Nat
      /\ b.applied.epoch \in Nat
  BY BindingAssumption DEF Bindings, States
<1>2. /\ heard \in Bindings /\ heard.pending = b.pending
      /\ heard.status = b.status /\ heard.applied = b.applied
      /\ SameRest(b, heard)
  BY DEF Bindings, SameRest
<1>5. heard.again = (b.again \/ apply.at # "none")
  BY DEF Bindings
<1>3. /\ state \in States /\ state.generation = event.generation
      /\ state.change = b.applied.change /\ state.epoch = b.applied.epoch
  BY <1>1 DEF States
<1>4. /\ taken \in Bindings
      /\ taken.applied = state
      /\ taken.pending = b.pending /\ taken.status = b.status /\ taken.again = b.again
      /\ SameRest(b, taken)
  BY <1>1, <1>3 DEF Bindings, SameRest
<1> HIDE DEF heard, state, taken
<1>6. CASE event.availability /\ event.epoch > b.applied.epoch
  <2>1. Notified(b, event) = heard
    BY <1>6 DEF Notified, heard
  <2> QED
    BY <1>1, <1>2, <1>6, <1>5, <2>1 DEF Hears, SameRest
<1>7. CASE ~(event.availability /\ event.epoch > b.applied.epoch) /\ event.runtime
  <2>1. CASE event.generation <= Greater(b.applied.generation, b.pending)
    <3>1. Notified(b, event) = heard
      BY <1>7, <2>1 DEF Notified, heard
    <3> QED
      BY <1>1, <1>2, <1>7, <1>5, <2>1, <3>1 DEF Greater, Hears, SameRest
  <2>2. CASE ~(event.generation <= Greater(b.applied.generation, b.pending))
    <3>1. Notified(b, event) = MarkedPending(heard, event.generation)
      BY <1>7, <2>2 DEF Notified, heard
    <3>2. event.generation > b.pending
      BY <1>1, <2>2 DEF Greater
    <3>3. /\ Notified(b, event) \in Bindings /\ SameRest(heard, Notified(b, event))
          /\ Notified(b, event).pending >= event.generation
          /\ Notified(b, event).pending \in {b.pending, event.generation}
          /\ Notified(b, event).status = b.status /\ Notified(b, event).applied = b.applied
      BY <1>2, <3>1, PendingMarked
    <3>4. Notified(b, event).again = heard.again
      BY <3>1 DEF MarkedPending
    <3> QED
      BY <1>1, <1>2, <1>7, <1>5, <3>2, <3>3, <3>4 DEF Hears, SameRest
  <2> QED
    BY <2>1, <2>2
<1>8. CASE ~(event.availability /\ event.epoch > b.applied.epoch) /\ ~event.runtime
  <2>1. CASE event.generation <= b.applied.generation
    <3>1. Notified(b, event) = b
      BY <1>8, <2>1 DEF Notified
    <3> QED
      BY <1>1, <1>8, <3>1 DEF Hears, SameRest
  <2>2. CASE ~(event.generation <= b.applied.generation) /\ (b.pending # 0 \/ b.status # "clean")
    <3>1. Notified(b, event) = heard
      BY <1>8, <2>2 DEF Notified, heard
    <3> QED
      BY <1>1, <1>2, <1>8, <1>5, <3>1 DEF Hears, SameRest
  <2>3. CASE ~(event.generation <= b.applied.generation) /\ b.pending = 0 /\ b.status = "clean"
    <3>1. Notified(b, event) = taken
      BY <1>8, <2>3 DEF Notified, taken
    <3> QED
      BY <1>1, <1>3, <1>4, <1>8, <2>3, <3>1 DEF Hears, SameRest
  <2> QED
    BY <2>1, <2>2, <2>3
<1> QED
  BY <1>6, <1>7, <1>8

-----------------------------------------------------------------------------
(* How an application ends *)

\* Nothing is older than what there was at first.
LEMMA NothingIsRecent ==
  ASSUME BindingTypes, news.change <= accepted.generation
  PROVE  Recent(NoState)
BY DEF Recent, NoState, BindingTypes, BindingTypeOK

\* The catch of an operation: whoever waited is told, a boundary has its run aborted, and
\* the invariant holds when it does for what the operation left of the binding.
LEMMA FailureSettles ==
  ASSUME BindingTypes, StageInv, apply.at # "none", NEW b, AtRest(b), ApplyFails(b),
         UNCHANGED <<accepted, news>>, loaded' \in Nat, ModelsTypeOK'
  PROVE  /\ BindingTypes' /\ StageInv' /\ apply'.at = "none"
         /\ binding'.applied = b.applied /\ ~binding'.released
         /\ run.at = "boundary" => run'.at # "busy"
         /\ news.change <= accepted.generation /\ KeepsUp(b, loaded') => FollowInv'
<1>1. /\ b \in Bindings /\ apply.at \in {"queued", "acquiring", "first", "resolving", "preparing",
           "second", "prepared", "reloading", "committing", "restoring"}
      /\ run \in Runs /\ binding \in Bindings /\ accepted.generation \in Nat
  BY DEF AtRest, BindingTypes, BindingTypeOK, Bindings, Runs
<1>2. /\ apply' \in Operations /\ apply'.at = "none" /\ ~apply'.boundary
      /\ apply'.candidate = NoState
  BY BindingAssumption DEF ApplyFails, NoApply, NoState, Operations, States
<1>3. /\ binding' \in Bindings /\ ~binding'.boundary /\ ~binding'.abort
      /\ binding'.status = b.status /\ binding'.applied = b.applied
      /\ binding'.pending = b.pending /\ binding'.attached = b.attached
      /\ binding'.closing = b.closing /\ binding'.disposed = b.disposed
      /\ binding'.released = b.released
  BY <1>1 DEF ApplyFails, Bindings
<1>4. /\ run' \in Runs /\ run'.since = 0 /\ run'.at = Fails(run.at, b.abort /\ b.attached)
  BY <1>1 DEF ApplyFails, Fails, Runs
<1>5. /\ run.at = "boundary" => b.abort /\ b.attached
      /\ ~b.released
  BY <1>1 DEF StageInv, AtRest
<1>6. BindingTypes'
  BY <1>2, <1>3, <1>4 DEF BindingTypes, BindingTypeOK, Bindings, Operations, Runs
<1>7. /\ run'.at \in {"over", "idle", "built", "ready", "busy"}
      /\ run'.at = "built" => run.at = "built"
      /\ run'.at = "busy" => run.at = "busy"
      /\ run'.at \in {"idle", "ready", "busy"} => b.attached
      /\ run.at # "new"
  BY <1>1, <1>4, <1>5 DEF Fails, Runs, StageInv, AtRest
<1>8. StageInv'
  BY <1>1, <1>2, <1>3, <1>5, <1>7 DEF StageInv, AtRest, Waits
<1>9. ASSUME news.change <= accepted.generation, KeepsUp(b, loaded')
      PROVE  FollowInv'
  <2>1. KeepsUp(binding, loaded)'
    BY <1>3, <1>9 DEF KeepsUp, Recent, Remembered, MayBeHidden
  <2>2. Recent(apply.candidate)'
    BY <1>2, <1>9, NothingIsRecent DEF Recent, MayBeHidden
  <2> QED
    BY <1>2, <1>3, <1>4, <1>7, <1>9, <2>1, <2>2 DEF FollowInv, BindingTypes, BindingTypeOK, Chosen
<1> QED
  BY <1>2, <1>3, <1>5, <1>6, <1>7, <1>8, <1>9

\* A turn that succeeded: the loop goes round, or whoever waited goes on; a boundary that
\* another one joined has the loop go round.
LEMMA SuccessSettles ==
  ASSUME BindingTypes, StageInv, apply.at # "none", NEW b, AtRest(b), TurnSucceeds(b),
         run.at = "starting" => b.closing \/ b.applied # NoState,
         UNCHANGED <<accepted, news>>, loaded' \in Nat, ModelsTypeOK'
  PROVE  /\ BindingTypes' /\ StageInv' /\ apply'.at \in {"none", "queued"}
         /\ binding'.applied = b.applied /\ ~binding'.released
         /\ run.at = "boundary" /\ run'.at = "busy" => b.closing \/ ~b.boundary
         /\ (/\ news.change <= accepted.generation /\ KeepsUp(b, loaded')
             /\ run.since <= news.change)
            => FollowInv'
<1>1. /\ b \in Bindings /\ apply.at \in {"queued", "acquiring", "first", "resolving", "preparing",
           "second", "prepared", "reloading", "committing", "restoring"}
      /\ run \in Runs /\ binding \in Bindings /\ accepted.generation \in Nat
      /\ apply \in Operations /\ apply.boundary \in BOOLEAN /\ run.since \in Nat
  BY DEF AtRest, BindingTypes, BindingTypeOK, Bindings, Runs, Operations
<1>2. b.status = "clean" /\ ~b.released
  BY <1>1 DEF AtRest, TurnSucceeds, StageInv
<1>3. CASE GoesAgain(b)
  <2> apply' = [NoApply EXCEPT !.at = "queued", !.boundary = apply.boundary]
    BY <1>3 DEF TurnSucceeds
  <2>1. /\ apply' \in Operations /\ apply'.at = "queued" /\ apply'.boundary = apply.boundary
        /\ apply'.candidate = NoState
    <3>1. NoApply \in Operations /\ NoApply.candidate = NoState
      BY BindingAssumption DEF NoApply, NoState, Operations, States
    <3> QED
      BY <1>1, <3>1 DEF Operations
  <2>2. binding' = b /\ run' = run
    BY <1>3 DEF TurnSucceeds
  <2>3. BindingTypes'
    BY <1>1, <2>1, <2>2 DEF BindingTypes, BindingTypeOK, Bindings, Operations
  <2>4. StageInv'
    BY <1>1, <1>2, <2>1, <2>2 DEF StageInv, AtRest, Waits
  <2>5. ASSUME news.change <= accepted.generation, KeepsUp(b, loaded'), run.since <= news.change
        PROVE  FollowInv'
    <3>1. KeepsUp(binding, loaded)'
      BY <2>2, <2>5 DEF KeepsUp, Recent, Remembered, MayBeHidden
    <3>2. Recent(apply.candidate)'
      BY <2>1, <2>5, NothingIsRecent DEF Recent, MayBeHidden
    <3> QED
      BY <2>1, <2>2, <2>5, <3>1, <3>2 DEF FollowInv, Chosen
  <2> QED
    BY <1>2, <2>1, <2>2, <2>3, <2>4, <2>5
<1>4. CASE ~GoesAgain(b)
  <2>1. /\ apply' \in Operations /\ apply'.at = "none" /\ ~apply'.boundary
        /\ apply'.candidate = NoState
    <3> apply' = NoApply
      BY <1>4 DEF TurnSucceeds
    <3> QED
      BY BindingAssumption DEF NoApply, NoState, Operations, States
  <2>2. /\ binding' \in Bindings /\ ~binding'.abort /\ binding'.boundary = b.boundary
        /\ binding'.status = b.status /\ binding'.applied = b.applied
        /\ binding'.pending = b.pending /\ binding'.attached = b.attached
        /\ binding'.closing = b.closing /\ binding'.disposed = b.disposed
        /\ binding'.released = b.released
    <3> binding' = [b EXCEPT !.abort = FALSE]
      BY <1>4 DEF TurnSucceeds
    <3> QED
      BY <1>1 DEF Bindings
  <2>3. /\ run' \in Runs /\ run'.since = 0 /\ run'.at = Goes(run.at)
    <3> run' = [run EXCEPT !.at = Goes(@), !.since = 0]
      BY <1>4 DEF TurnSucceeds
    <3> QED
      BY <1>1 DEF Goes, Runs
  <2>4. BindingTypes'
    BY <2>1, <2>2, <2>3 DEF BindingTypes, BindingTypeOK, Bindings, Operations, Runs
  <2>5. /\ run'.at \in {"over", "idle", "built", "ready", "busy"}
        /\ run'.at = "built" => run.at = "starting"
        /\ run'.at \in {"idle", "ready", "busy"} => b.attached
        /\ run.at = "starting" => ~b.attached
        /\ run.at # "new"
    BY <1>1, <2>3 DEF Goes, Runs, StageInv, AtRest
  <2>6. StageInv'
    BY <1>1, <1>2, <2>1, <2>2, <2>5 DEF StageInv, AtRest, Waits
  <2>7. ASSUME news.change <= accepted.generation, KeepsUp(b, loaded')
        PROVE  FollowInv'
    <3>1. KeepsUp(binding, loaded)'
      BY <2>2, <2>7 DEF KeepsUp, Recent, Remembered, MayBeHidden
    <3>2. Recent(apply.candidate)'
      BY <2>1, <2>7, NothingIsRecent DEF Recent, MayBeHidden
    <3> QED
      BY <2>1, <2>2, <2>3, <2>5, <2>7, <3>1, <3>2 DEF FollowInv, BindingTypes, BindingTypeOK, Chosen
  <2>8. b.closing \/ ~b.boundary
    BY <1>4 DEF GoesAgain
  <2> QED
    BY <1>2, <2>1, <2>2, <2>4, <2>6, <2>7, <2>8
<1> QED
  BY <1>3, <1>4

\* A turn that is over, whether or not its compaction policy could be applied.
LEMMA TurnSettles ==
  ASSUME BindingTypes, StageInv, apply.at # "none", NEW b, AtRest(b), TurnEnds(b),
         run.at = "starting" => b.closing \/ b.applied # NoState,
         UNCHANGED <<accepted, news>>, loaded' \in Nat, ModelsTypeOK'
  PROVE  /\ BindingTypes' /\ StageInv' /\ apply'.at \in {"none", "queued"}
         /\ binding'.applied = b.applied /\ ~binding'.released
         /\ run.at = "boundary" /\ run'.at = "busy" => b.closing \/ ~b.boundary
         /\ (/\ news.change <= accepted.generation /\ KeepsUp(b, loaded')
             /\ run.since <= news.change)
            => FollowInv'
<1>1. CASE TurnSucceeds(b)
  BY <1>1, SuccessSettles
<1>2. CASE b.applied # NoState
           /\ ApplyFails(MarkedPending([b EXCEPT !.status = "poisoned"], accepted.generation))
  <2> DEFINE marked == [b EXCEPT !.status = "poisoned"]
             left == MarkedPending(marked, accepted.generation)
  <2>1. b \in Bindings /\ accepted.generation \in Nat /\ b.applied.generation \in Nat
    BY DEF AtRest, BindingTypes, Bindings, States
  <2>2. /\ marked \in Bindings /\ marked.status = "poisoned" /\ SameRest(b, marked)
        /\ marked.applied = b.applied /\ marked.pending = b.pending
    BY <2>1 DEF Bindings, SameRest
  <2> HIDE DEF marked
  <2>3. /\ left \in Bindings /\ left.status = "poisoned" /\ SameRest(marked, left)
        /\ left.applied = b.applied /\ left.pending \in {b.pending, accepted.generation}
        /\ left.pending >= b.pending
    BY <2>1, <2>2, PendingMarked
  <2>4. ApplyFails(left)
    BY <1>2 DEF marked
  <2> HIDE DEF left
  <2>5. AtRest(left)
    BY <2>2, <2>3 DEF AtRest, SameRest
  <2>6. /\ BindingTypes' /\ StageInv' /\ apply'.at = "none"
        /\ binding'.applied = left.applied /\ ~binding'.released
        /\ run.at = "boundary" => run'.at # "busy"
        /\ news.change <= accepted.generation /\ KeepsUp(left, loaded') => FollowInv'
    BY <2>4, <2>5, FailureSettles
  <2>7. news.change <= accepted.generation /\ KeepsUp(b, loaded') => KeepsUp(left, loaded')
    <3>1. left.attached = b.attached /\ left.closing = b.closing
      BY <2>2, <2>3 DEF SameRest
    <3>2. /\ b.pending \in Nat /\ left.pending \in Nat /\ b.status \in {"clean", "poisoned"}
          /\ news.change \in Nat /\ b.applied.generation \in Nat
      BY <2>1, <2>3 DEF Bindings, AtRest, BindingTypes, BindingTypeOK
    <3> QED
      BY <2>1, <2>3, <3>1, <3>2 DEF KeepsUp, Recent, Remembered
  <2> QED
    BY <2>3, <2>6, <2>7
<1> QED
  BY <1>1, <1>2 DEF TurnEnds

-----------------------------------------------------------------------------
(* What the operators on the models do *)

\* One failure more, or none, stays within the bound.
LEMMA FailuresCounted ==
  ASSUME ModelsTypeOK, Failure \/ NoFailure
  PROVE  failures' \in 0..MaxFailures
BY TransactionAssumption DEF ModelsTypeOK, Failure, NoFailure

\* A runtime more is the candidate, and nobody delegated to it before.
LEMMA CandidateCreated ==
  ASSUME NEW m \in Transactions, Held(m), Free(m) # {}, m.candidate = NoOwner,
         m.previous = NoOwner
  PROVE  /\ Created(m) \in Transactions /\ Held(Created(m))
         /\ Created(m).candidate # NoOwner /\ Created(m).candidate # m.current
         /\ Created(m).current = m.current /\ Created(m).previous = NoOwner
<1> DEFINE o == CHOOSE p \in Free(m) : TRUE
           c == [m EXCEPT !.at[o] = "live", !.candidate = o]
<1>1. o \in Owner /\ m.at[o] = "free" /\ Created(m) = c
  BY DEF Free, Created
<1> HIDE DEF o
<1>2. /\ c \in Transactions /\ c.candidate = o /\ c.current = m.current
      /\ c.previous = NoOwner /\ c.leases = m.leases /\ c.at \in [Owner -> {"free", "live", "retired", "kept"}]
      /\ \A p \in Owner : c.at[p] = IF p = o THEN "live" ELSE m.at[p]
  BY <1>1 DEF Transactions
<1> HIDE DEF c
<1>3. o # NoOwner /\ o # m.current
  BY <1>1, TransactionAssumption DEF Held
<1>4. Held(c)
  BY <1>1, <1>2, <1>3, TransactionAssumption DEF Held
<1> QED
  BY <1>1, <1>2, <1>3, <1>4

\* A candidate that gives way leaves what was there before it, disposed of or kept.
LEMMA CandidateGivesWay ==
  ASSUME NEW m \in Transactions, Held(m), m.candidate # NoOwner, m.previous # m.candidate,
         m.current = m.candidate \/ m.previous = NoOwner,
         NEW r, r \in {OwnerDisposed(RolledBack(m), m.candidate), OwnerKept(RolledBack(m), m.candidate)}
  PROVE  /\ r \in Transactions /\ Held(r)
         /\ r.current = IF m.current = m.candidate THEN m.previous ELSE m.current
         /\ r.candidate = NoOwner /\ r.previous = NoOwner
<1> DEFINE was == IF m.current = m.candidate THEN m.previous ELSE m.current
           back == [m EXCEPT !.current = IF @ = m.candidate THEN m.previous ELSE @]
           given == [back EXCEPT !.at[m.candidate] = "retired"]
           settled == [given EXCEPT !.candidate = NoOwner, !.previous = NoOwner]
<1>1. /\ back \in Transactions /\ back.current = was /\ back.at = m.at
      /\ back.leases = m.leases
  BY DEF Transactions
<1> HIDE DEF back
<1>2. /\ given \in Transactions /\ given.current = was /\ given.leases = m.leases
      /\ \A p \in Owner : p # m.candidate => given.at[p] = m.at[p]
  BY <1>1 DEF Transactions
<1> HIDE DEF given
<1>3. /\ settled \in Transactions /\ settled.current = was /\ settled.leases = m.leases
      /\ settled.candidate = NoOwner /\ settled.previous = NoOwner
      /\ \A p \in Owner : p # m.candidate => settled.at[p] = m.at[p]
  BY <1>2 DEF Transactions
<1>4. RolledBack(m) = settled
  BY DEF RolledBack, Settled, Retired, settled, given, back
<1> HIDE DEF settled
<1>5. \E at \in {"free", "kept"} : r = [settled EXCEPT !.at[m.candidate] = at]
  BY <1>4 DEF OwnerDisposed, OwnerKept
<1>6. PICK at \in {"free", "kept"} : r = [settled EXCEPT !.at[m.candidate] = at]
  BY <1>5
<1>7. m.candidate \in Owner
  BY DEF Transactions
<1>8. /\ r \in Transactions /\ r.current = was /\ r.leases = m.leases
      /\ r.candidate = NoOwner /\ r.previous = NoOwner
      /\ r.at[m.candidate] = at
      /\ \A p \in Owner : p # m.candidate => r.at[p] = m.at[p]
  BY <1>3, <1>6, <1>7 DEF Transactions
<1>9. was # m.candidate /\ was \in Owner \cup {NoOwner}
  BY <1>7 DEF Transactions
<1>10. Held(r)
  BY <1>7, <1>8, <1>9, TransactionAssumption DEF Held
<1> QED
  BY <1>8, <1>10

\* A candidate that is committed is what is current, and what was before it is gone.
LEMMA CandidateTakesOver ==
  ASSUME NEW m \in Transactions, Held(m), m.candidate # NoOwner, m.current = m.candidate,
         m.previous # m.candidate, NEW r,
         r \in (IF m.previous = NoOwner THEN {Committed(m)}
                ELSE {OwnerDisposed(Committed(m), m.previous), OwnerKept(Committed(m), m.previous)})
  PROVE  /\ r \in Transactions /\ Held(r) /\ r.current = m.current
         /\ r.candidate = NoOwner /\ r.previous = NoOwner
<1>1. m.candidate \in Owner
  BY DEF Transactions
<1>2. CASE m.previous = NoOwner
  <2>1. r = [m EXCEPT !.candidate = NoOwner, !.previous = NoOwner]
    BY <1>2 DEF Committed, Settled, Retired
  <2>2. /\ r \in Transactions /\ r.current = m.current /\ r.leases = m.leases /\ r.at = m.at
        /\ r.candidate = NoOwner /\ r.previous = NoOwner
    BY <2>1 DEF Transactions
  <2>3. Held(r)
    BY <1>1, <1>2, <2>2, TransactionAssumption DEF Held
  <2> QED
    BY <2>2, <2>3
<1>3. CASE m.previous # NoOwner
  <2> DEFINE given == [m EXCEPT !.at[m.previous] = "retired"]
             settled == [given EXCEPT !.candidate = NoOwner, !.previous = NoOwner]
  <2>1. m.previous \in Owner
    BY <1>3 DEF Transactions
  <2>2. /\ given \in Transactions /\ given.current = m.current /\ given.leases = m.leases
        /\ \A p \in Owner : p # m.previous => given.at[p] = m.at[p]
    BY <2>1 DEF Transactions
  <2> HIDE DEF given
  <2>3. /\ settled \in Transactions /\ settled.current = m.current /\ settled.leases = m.leases
        /\ settled.candidate = NoOwner /\ settled.previous = NoOwner
        /\ \A p \in Owner : p # m.previous => settled.at[p] = m.at[p]
    BY <2>2 DEF Transactions
  <2>4. Committed(m) = settled
    BY <1>3 DEF Committed, Settled, Retired, settled, given
  <2> HIDE DEF settled
  <2>5. \E at \in {"free", "kept"} : r = [settled EXCEPT !.at[m.previous] = at]
    BY <1>3, <2>4 DEF OwnerDisposed, OwnerKept
  <2>6. PICK at \in {"free", "kept"} : r = [settled EXCEPT !.at[m.previous] = at]
    BY <2>5
  <2>7. /\ r \in Transactions /\ r.current = m.current /\ r.leases = m.leases
        /\ r.candidate = NoOwner /\ r.previous = NoOwner
        /\ r.at[m.previous] = at
        /\ \A p \in Owner : p # m.previous => r.at[p] = m.at[p]
    BY <2>1, <2>3, <2>6 DEF Transactions
  <2>8. Held(r)
    BY <1>1, <2>1, <2>7, TransactionAssumption DEF Held
  <2> QED
    BY <2>7, <2>8
<1> QED
  BY <1>2, <1>3

-----------------------------------------------------------------------------
(* The application, step by step *)

\* The types of the fields.
LEMMA FieldsTyped ==
  ASSUME BindingTypes
  PROVE  /\ binding \in Bindings /\ binding.applied \in States /\ binding.pending \in Nat
         /\ binding.applied.generation \in Nat /\ binding.applied.change \in Nat
         /\ apply \in Operations /\ apply.candidate \in States /\ apply.over \in States
         /\ apply.candidate.generation \in Nat /\ apply.candidate.change \in Nat
         /\ apply.over.generation \in Nat /\ apply.over.change \in Nat
         /\ run \in Runs /\ run.since \in Nat
         /\ models \in Transactions /\ failures \in 0..MaxFailures
         /\ news \in [epoch : 0..MaxEpochs, change : Nat, mixed : BOOLEAN] /\ news.epoch \in 0..MaxEpochs
         /\ news.change \in Nat /\ loaded \in Nat /\ accepted.generation \in Nat
         /\ news.mixed \in BOOLEAN /\ news.epoch \in Nat /\ binding.applied.epoch \in Nat
         /\ apply.candidate.epoch \in Nat /\ apply.over.epoch \in Nat
BY BindingAssumption DEF BindingTypes, BindingTypeOK, ModelsTypeOK, Bindings, Operations, Runs,
   Transactions, States

\* The types of the records.
LEMMA TypesFollow ==
  ASSUME binding' \in Bindings, apply' \in Operations, run' \in Runs, models' \in Transactions,
         failures' \in 0..MaxFailures, news' \in [epoch : 0..MaxEpochs, change : Nat, mixed : BOOLEAN],
         loaded' \in Nat, accepted'.generation \in Nat
  PROVE  BindingTypes'
BY DEF BindingTypes, BindingTypeOK, ModelsTypeOK, Bindings, Operations, Runs, Transactions

\* A turn begins: what a boundary asked for is the application's from now on.
LEMMA TurnBeginsKeeps ==
  ASSUME BindingInv, TurnBegins
  PROVE  BindingInv'
<1> DEFINE cleared == [binding EXCEPT !.again = FALSE, !.boundary = FALSE]
<1>1. BindingTypes /\ StageInv /\ OwnersInv /\ FollowInv
  BY DEF BindingInv
<1>2. /\ cleared \in Bindings /\ ~cleared.boundary
      /\ cleared.status = binding.status /\ cleared.applied = binding.applied
      /\ cleared.pending = binding.pending /\ cleared.abort = binding.abort
      /\ cleared.attached = binding.attached /\ cleared.registered = binding.registered
      /\ cleared.closing = binding.closing /\ cleared.disposed = binding.disposed
      /\ cleared.released = binding.released
  BY <1>1, FieldsTyped DEF Bindings
<1>3. binding' = Observed(cleared)
  BY DEF TurnBegins
<1> HIDE DEF cleared
<1>4. /\ binding' \in Bindings /\ ~binding'.boundary
      /\ binding'.status = binding.status /\ binding'.applied = binding.applied
      /\ binding'.pending >= binding.pending
      /\ binding'.pending \in {binding.pending, accepted.generation}
      /\ binding'.abort = binding.abort
      /\ binding'.attached = binding.attached /\ binding'.registered = binding.registered
      /\ binding'.closing = binding.closing /\ binding'.disposed = binding.disposed
      /\ binding'.released = binding.released
  BY <1>1, <1>2, <1>3, FieldsTyped, NewerIsPending DEF SameRest
<1>5. /\ apply.at = "queued" /\ apply' \in Operations /\ apply'.at \in {"first", "acquiring"}
      /\ apply'.boundary = (apply.boundary \/ binding.boundary)
      /\ apply'.candidate = apply.candidate
  BY <1>1, FieldsTyped DEF TurnBegins, Operations, Bindings
<1>6. UNCHANGED <<accepted, news, models, failures, loaded, run>>
  BY DEF TurnBegins, ConfigurationStays
<1>7. BindingTypes'
  BY <1>1, <1>4, <1>5, <1>6, FieldsTyped, TypesFollow
<1>8. StageInv'
  BY <1>1, <1>4, <1>5, <1>6, FieldsTyped DEF StageInv, Waits
<1>9. OwnersInv'
  BY <1>1, <1>4, <1>5, <1>6, FieldsTyped DEF OwnersInv, Held
<1>10. FollowInv'
  BY <1>1, <1>4, <1>5, <1>6, FieldsTyped
     DEF FollowInv, KeepsUp, Recent, Chosen, Remembered, MayBeHidden
<1> QED
  BY <1>7, <1>8, <1>9, <1>10 DEF BindingInv

\* The end of an application keeps the invariant, when what it leaves behind is at rest and
\* the binding keeps up with what was accepted.
LEMMA ApplicationEnds ==
  ASSUME BindingInv, apply.at # "none", NEW b, AtRest(b), ModelsAtRest(models', b),
         \/ ApplyFails(b)
         \/ /\ TurnSucceeds(b) \/ TurnEnds(b)
            /\ run.at = "starting" => b.closing \/ b.applied # NoState,
         UNCHANGED <<accepted, news>>, loaded' \in Nat, failures' \in 0..MaxFailures,
         KeepsUp(b, loaded')
  PROVE  BindingInv'
<1>1. BindingTypes /\ StageInv /\ OwnersInv /\ FollowInv
  BY DEF BindingInv
<1>2. ModelsTypeOK'
  BY DEF ModelsAtRest, ModelsTypeOK, Transactions
<1>3. news.change <= accepted.generation /\ run.since <= news.change
  BY <1>1 DEF FollowInv
<1>4. /\ BindingTypes' /\ StageInv' /\ apply'.at \in {"none", "queued"}
      /\ binding'.applied = b.applied /\ ~binding'.released
      /\ FollowInv'
  <2>1. CASE ApplyFails(b)
    BY <1>1, <1>2, <1>3, <2>1, FailureSettles
  <2>2. CASE /\ TurnSucceeds(b)
             /\ run.at = "starting" => b.closing \/ b.applied # NoState
    BY <1>1, <1>2, <1>3, <2>2, SuccessSettles
  <2>3. CASE /\ TurnEnds(b)
             /\ run.at = "starting" => b.closing \/ b.applied # NoState
    BY <1>1, <1>2, <1>3, <2>3, TurnSettles
  <2> QED
    BY <2>1, <2>2, <2>3
<1>5. OwnersInv'
  BY <1>4 DEF OwnersInv, ModelsAtRest
<1> QED
  BY <1>4, <1>5 DEF BindingInv

\* The binding is at rest as long as no candidate is applied.
LEMMA BindingRests ==
  ASSUME BindingInv, apply.at \notin {"none", "reloading", "committing", "restoring"}
  PROVE  AtRest(binding)
<1>1. binding \in Bindings /\ binding.status \in {"clean", "applying", "restoring", "poisoned"}
  BY FieldsTyped DEF BindingInv, Bindings
<1> QED
  BY <1>1 DEF BindingInv, AtRest, StageInv

\* The project is acquired, unless the binding or the configuration is closed.
LEMMA ProjectAcquiredKeeps ==
  ASSUME BindingInv, ProjectAcquired
  PROVE  BindingInv'
<1> DEFINE held == [binding EXCEPT !.registered = TRUE]
<1>1. BindingTypes /\ StageInv /\ OwnersInv /\ FollowInv
  BY DEF BindingInv
<1>2. /\ held \in Bindings /\ held.boundary = binding.boundary
      /\ held.status = binding.status /\ held.applied = binding.applied
      /\ held.pending = binding.pending /\ held.abort = binding.abort
      /\ held.attached = binding.attached
      /\ held.closing = binding.closing /\ held.disposed = binding.disposed
      /\ held.released = binding.released
  BY <1>1, FieldsTyped DEF Bindings
<1> HIDE DEF held
<1>3. apply.at = "acquiring" /\ UNCHANGED <<accepted, news, models, loaded>>
  BY DEF ProjectAcquired, ConfigurationStays
<1>4. AtRest(binding) /\ AtRest(held)
  BY <1>2, <1>3, BindingRests DEF AtRest
<1>5. failures' \in 0..MaxFailures
  BY <1>1, FailuresCounted DEF ProjectAcquired, BindingTypes
<1>6. ModelsAtRest(models', binding) /\ ModelsAtRest(models', held)
  BY <1>1, <1>2, <1>3, FieldsTyped DEF ModelsAtRest, OwnersInv
<1>7. KeepsUp(binding, loaded') /\ KeepsUp(held, loaded')
  BY <1>1, <1>2, <1>3 DEF FollowInv, KeepsUp, Recent, Remembered
<1>8. CASE ApplyFails(binding)
  BY <1>3, <1>4, <1>5, <1>6, <1>7, <1>8, <1>1, FieldsTyped, ApplicationEnds
<1>9. CASE ApplyFails(held)
  BY <1>3, <1>4, <1>5, <1>6, <1>7, <1>9, <1>1, FieldsTyped, ApplicationEnds
<1>10. CASE binding' = held /\ apply' = [apply EXCEPT !.at = "first"] /\ UNCHANGED run
  <2>1. /\ apply' \in Operations /\ apply'.at = "first" /\ apply'.boundary = apply.boundary
        /\ apply'.candidate = apply.candidate
    BY <1>1, <1>10, FieldsTyped DEF Operations
  <2>2. BindingTypes'
    BY <1>1, <1>2, <1>3, <1>5, <1>10, <2>1, FieldsTyped, TypesFollow
  <2>3. StageInv'
    BY <1>1, <1>2, <1>3, <1>10, <2>1 DEF StageInv, Waits
  <2>4. OwnersInv'
    BY <1>1, <1>2, <1>3, <1>4, <1>10, <2>1 DEF OwnersInv, Held, StageInv
  <2>5. FollowInv'
    BY <1>1, <1>2, <1>3, <1>10, <2>1
       DEF FollowInv, KeepsUp, Recent, Chosen, Remembered, MayBeHidden
  <2> QED
    BY <2>2, <2>3, <2>4, <2>5 DEF BindingInv
<1> QED
  BY <1>8, <1>9, <1>10 DEF ProjectAcquired, held

\* The operation of an application begins once more, with the binding b.
LEMMA AnewKeeps ==
  ASSUME BindingInv, apply.at \notin {"none", "reloading", "committing", "restoring"},
         NEW b, AtRest(b), ModelsAtRest(models', b), Anew(b),
         UNCHANGED <<accepted, news, loaded>>, failures' \in 0..MaxFailures,
         KeepsUp(b, loaded')
  PROVE  BindingInv'
<1>1. BindingTypes /\ StageInv /\ OwnersInv /\ FollowInv
  BY DEF BindingInv
<1>2. NoState \in States
  BY BindingAssumption DEF NoState, States
<1>3. /\ apply' \in Operations /\ apply'.at = "first" /\ apply'.boundary = apply.boundary
      /\ apply'.candidate = NoState
  BY <1>1, <1>2, FieldsTyped DEF Anew, Operations
<1>4. binding' = b /\ run' = run
  BY DEF Anew
<1>5. BindingTypes'
  BY <1>1, <1>3, <1>4, FieldsTyped, TypesFollow DEF AtRest, ModelsAtRest
<1>6. StageInv'
  BY <1>1, <1>3, <1>4 DEF StageInv, AtRest, Waits
<1>7. ~b.released
  BY <1>1 DEF StageInv, AtRest
<1>8. OwnersInv'
  BY <1>3, <1>4, <1>7 DEF OwnersInv, ModelsAtRest
<1>9. FollowInv'
  <2>1. KeepsUp(binding, loaded)'
    BY <1>4 DEF KeepsUp, Recent, Remembered, MayBeHidden
  <2>2. Recent(apply.candidate)'
    BY <1>1, <1>3, NothingIsRecent DEF Recent, FollowInv, MayBeHidden
  <2> QED
    BY <1>1, <1>3, <1>4, <2>1, <2>2 DEF FollowInv, Chosen
<1> QED
  BY <1>5, <1>6, <1>8, <1>9 DEF BindingInv

\* The binding is as it was, and so are the models: nothing is in anybody's way.
LEMMA AsItWas ==
  ASSUME BindingInv, apply.at \notin {"none", "reloading", "committing"},
         models.candidate = NoOwner, UNCHANGED models
  PROVE  ModelsAtRest(models', binding)
BY FieldsTyped DEF ModelsAtRest, BindingInv, OwnersInv

\* A candidate that is given up is disposed of, or kept for another try.
LEMMA GivenUpRests ==
  ASSUME BindingInv, apply.at \in {"preparing", "second", "prepared"},
         models.candidate # NoOwner,
         models' \in {OwnerDisposed(RolledBack(models), models.candidate),
                     OwnerKept(RolledBack(models), models.candidate)}
  PROVE  ModelsAtRest(models', binding)
<1>1. BindingTypes /\ StageInv /\ OwnersInv
  BY DEF BindingInv
<1>2. /\ models \in Transactions /\ Held(models) /\ models.previous = NoOwner
      /\ models.candidate # models.current
      /\ models.current = NoOwner => binding.applied = NoState
  BY <1>1, FieldsTyped DEF OwnersInv
<1>3. /\ models' \in Transactions /\ Held(models') /\ models'.current = models.current
      /\ models'.candidate = NoOwner /\ models'.previous = NoOwner
  BY <1>2, CandidateGivesWay
<1> QED
  BY <1>2, <1>3 DEF ModelsAtRest

\* The session keeps up with the binding as it is.
LEMMA StillKeepsUp ==
  ASSUME BindingInv, UNCHANGED <<accepted, news, loaded>>
  PROVE  KeepsUp(binding, loaded')
BY DEF BindingInv, FollowInv

\* GiveUp: the operation fails with its candidate given up.
LEMMA GiveUpKeeps ==
  ASSUME BindingInv, apply.at \in {"preparing", "second", "prepared"},
         models.candidate # NoOwner, GivenUp, ApplyFails(binding),
         UNCHANGED <<accepted, news, loaded>>
  PROVE  BindingInv'
<1>1. ModelsAtRest(models', binding)
  BY GivenUpRests DEF GivenUp
<1>2. failures' \in 0..MaxFailures
  BY FailuresCounted DEF GivenUp, BindingInv, BindingTypes
<1>3. loaded' \in Nat
  BY FieldsTyped DEF BindingInv
<1> QED
  BY <1>1, <1>2, <1>3, BindingRests, StillKeepsUp, ApplicationEnds

\* Retry: the operation begins anew with the binding b, or fails.
LEMMA RetryKeeps ==
  ASSUME BindingInv, apply.at \in {"preparing", "second", "prepared"},
         models.candidate # NoOwner, NEW b, AtRest(b), b.applied = binding.applied, Retry(b),
         UNCHANGED <<accepted, news, loaded>>,
         KeepsUp(b, loaded')
  PROVE  BindingInv'
<1>1. ModelsAtRest(models', binding)
  BY GivenUpRests DEF Retry
<1>2. ModelsAtRest(models', b)
  BY <1>1 DEF ModelsAtRest
<1>3. failures' \in 0..MaxFailures
  BY FailuresCounted DEF Retry, BindingInv, BindingTypes
<1>4. loaded' \in Nat
  BY FieldsTyped DEF BindingInv
<1>5. CASE Anew(b)
  BY <1>2, <1>3, <1>5, AnewKeeps
<1>6. CASE ApplyFails(binding)
  BY <1>1, <1>3, <1>4, <1>6, BindingRests, StillKeepsUp, ApplicationEnds
<1> QED
  BY <1>5, <1>6 DEF Retry

\* The preparation goes on with the candidate it has.
LEMMA PreparationGoesOn ==
  ASSUME BindingInv, apply.at \in {"resolving", "preparing", "second"},
         NEW at \in {"preparing", "second", "prepared"},
         at \in {"second", "prepared"} => models.candidate # NoOwner,
         apply' = [apply EXCEPT !.at = at],
         UNCHANGED <<accepted, news, models, failures, binding, loaded, run>>
  PROVE  BindingInv'
<1>1. BindingTypes /\ StageInv /\ OwnersInv /\ FollowInv
  BY DEF BindingInv
<1>2. /\ apply' \in Operations /\ apply'.at = at /\ apply'.boundary = apply.boundary
      /\ apply'.candidate = apply.candidate
  BY <1>1, FieldsTyped DEF Operations
<1>3. BindingTypes'
  BY <1>1, <1>2, FieldsTyped, TypesFollow
<1>4. StageInv'
  BY <1>1, <1>2 DEF StageInv, Waits
<1>5. OwnersInv'
  BY <1>1, <1>2 DEF OwnersInv, Held
<1>6. FollowInv'
  BY <1>1, <1>2
     DEF FollowInv, KeepsUp, Recent, Chosen, Remembered, MayBeHidden
<1> QED
  BY <1>3, <1>4, <1>5, <1>6 DEF BindingInv

\* The first synchronization is heard: the binding is up to date, or a candidate of what is
\* accepted now is to be prepared.
LEMMA SynchronizedKeeps ==
  ASSUME BindingInv, Synchronized
  PROVE  BindingInv'
<1>1. BindingTypes /\ StageInv /\ OwnersInv /\ FollowInv
  BY DEF BindingInv
<1>2. apply.at = "first" /\ UNCHANGED <<accepted, news, models, loaded>>
  BY DEF Synchronized, BinderHears, ConfigurationStays
<1>3. AtRest(binding) /\ KeepsUp(binding, loaded') /\ loaded' \in Nat
  BY <1>1, <1>2, BindingRests, StillKeepsUp, FieldsTyped
<1>4. ModelsAtRest(models', binding)
  BY <1>1, <1>2, AsItWas DEF OwnersInv
<1>5. failures' \in 0..MaxFailures
  BY <1>1, FailuresCounted DEF Synchronized, TurnEnds, BindingTypes
<1>6. CASE ApplyFails(binding)
  BY <1>2, <1>3, <1>4, <1>5, <1>6, ApplicationEnds
<1>7. CASE UpToDate /\ TurnEnds(binding)
  <2>1. binding.applied # NoState
    BY <1>7 DEF UpToDate
  <2> QED
    BY <1>2, <1>3, <1>4, <1>5, <1>7, <2>1, ApplicationEnds
<1>8. CASE /\ apply' = [apply EXCEPT !.at = "resolving",
                         !.candidate = [generation |-> accepted.generation, epoch |-> news.epoch,
                                        change |-> news.change]]
           /\ UNCHANGED <<failures, binding, run>>
  <2> DEFINE candidate == [generation |-> accepted.generation, epoch |-> news.epoch,
                           change |-> news.change]
  <2>1. /\ candidate \in States /\ candidate.generation = accepted.generation
        /\ candidate.change = news.change /\ candidate.epoch = news.epoch
    BY <1>1, FieldsTyped DEF States
  <2> HIDE DEF candidate
  <2>2. /\ apply' \in Operations /\ apply'.at = "resolving" /\ apply'.boundary = apply.boundary
        /\ apply'.candidate = candidate
    <3>1. apply' = [apply EXCEPT !.at = "resolving", !.candidate = candidate]
      BY <1>8 DEF candidate
    <3> QED
      BY <1>1, <2>1, <3>1, FieldsTyped DEF Operations
  <2>3. BindingTypes'
    BY <1>1, <1>2, <1>8, <2>2, FieldsTyped, TypesFollow
  <2>4. accepted.generation > 0
    BY <1>1, <1>2, FieldsTyped DEF StageInv
  <2>5. StageInv'
    BY <1>1, <1>2, <1>8, <2>1, <2>2, <2>4 DEF StageInv, Waits
  <2>6. OwnersInv'
    BY <1>1, <1>2, <1>8, <2>2 DEF OwnersInv, Held
  <2>7. FollowInv'
    <3>1. Recent(apply.candidate)'
      BY <1>1, <1>2, <2>1, <2>2, FieldsTyped DEF Recent, FollowInv
    <3>2. KeepsUp(binding, loaded)'
      BY <1>1, <1>2, <1>8 DEF FollowInv, KeepsUp, Recent, Remembered, MayBeHidden
    <3> QED
      BY <1>1, <1>2, <1>8, <2>1, <2>2, <3>1, <3>2 DEF FollowInv
  <2> QED
    BY <2>3, <2>5, <2>6, <2>7 DEF BindingInv
<1> QED
  BY <1>2, <1>6, <1>7, <1>8 DEF Synchronized, NoFailure

\* The definition of the candidate is resolved, unless the generation moved.
LEMMA DefinitionResolvedKeeps ==
  ASSUME BindingInv, DefinitionResolved
  PROVE  BindingInv'
<1>1. apply.at = "resolving" /\ UNCHANGED <<accepted, news, models, loaded>>
  BY DEF DefinitionResolved, ConfigurationStays
<1>2. /\ AtRest(binding) /\ KeepsUp(binding, loaded') /\ loaded' \in Nat
      /\ ModelsAtRest(models', binding)
  <2>1. models.candidate = NoOwner
    BY <1>1 DEF BindingInv, OwnersInv
  <2> QED
    BY <1>1, <2>1, BindingRests, StillKeepsUp, FieldsTyped, AsItWas DEF BindingInv
<1>3. failures' \in 0..MaxFailures
  BY FailuresCounted DEF DefinitionResolved, BindingInv, BindingTypes
<1>4. CASE Anew(binding)
  BY <1>1, <1>2, <1>3, <1>4, AnewKeeps
<1>5. CASE NoFailure /\ apply' = [apply EXCEPT !.at = "preparing"] /\ UNCHANGED <<binding, run>>
  BY <1>1, <1>5, PreparationGoesOn DEF NoFailure
<1>6. CASE ApplyFails(binding)
  BY <1>1, <1>2, <1>3, <1>6, ApplicationEnds
<1> QED
  BY <1>4, <1>5, <1>6 DEF DefinitionResolved

\* A model runtime is created for the candidate.
LEMMA RuntimeCreatedKeeps ==
  ASSUME BindingInv, RuntimeCreated
  PROVE  BindingInv'
<1>1. BindingTypes /\ StageInv /\ OwnersInv /\ FollowInv
  BY DEF BindingInv
<1>2. /\ apply.at = "preparing" /\ models.candidate = NoOwner
      /\ UNCHANGED <<accepted, news, loaded>>
  BY DEF RuntimeCreated, ConfigurationStays
<1>3. failures' \in 0..MaxFailures
  BY <1>1, FailuresCounted DEF RuntimeCreated, BindingTypes
<1>4. CASE ApplyFails(binding) /\ UNCHANGED models
  BY <1>1, <1>2, <1>3, <1>4, BindingRests, StillKeepsUp, AsItWas, ApplicationEnds, FieldsTyped
<1>5. CASE Free(models) # {} /\ models' = Created(models) /\ UNCHANGED <<apply, binding, run>>
  <2>1. models \in Transactions /\ Held(models) /\ models.previous = NoOwner
    BY <1>1, <1>2, FieldsTyped DEF OwnersInv
  <2>2. /\ models' \in Transactions /\ Held(models') /\ models'.candidate # NoOwner
        /\ models'.candidate # models.current /\ models'.current = models.current
        /\ models'.previous = NoOwner
    BY <1>2, <1>5, <2>1, CandidateCreated
  <2>3. BindingTypes'
    BY <1>1, <1>2, <1>3, <1>5, <2>2, FieldsTyped, TypesFollow
  <2>4. StageInv'
    BY <1>1, <1>2, <1>5 DEF StageInv, Waits
  <2>5. OwnersInv'
    BY <1>1, <1>2, <1>5, <2>2 DEF OwnersInv, StageInv
  <2>6. FollowInv'
    BY <1>1, <1>2, <1>5 DEF FollowInv, KeepsUp, Recent, Remembered, MayBeHidden
  <2> QED
    BY <2>3, <2>4, <2>5, <2>6 DEF BindingInv
<1> QED
  BY <1>4, <1>5 DEF RuntimeCreated

\* A model is selected, or the candidate is given up.
LEMMA ModelSelectedKeeps ==
  ASSUME BindingInv, ModelSelected
  PROVE  BindingInv'
<1>1. /\ apply.at = "preparing" /\ models.candidate # NoOwner
      /\ UNCHANGED <<accepted, news, loaded>>
  BY DEF ModelSelected, ConfigurationStays
<1>2. AtRest(binding) /\ KeepsUp(binding, loaded')
  BY <1>1, BindingRests, StillKeepsUp
<1>3. CASE GiveUp
  BY <1>1, <1>3, GiveUpKeeps DEF GiveUp
<1>4. CASE Retry(binding)
  BY <1>1, <1>2, <1>4, RetryKeeps
<1>5. CASE apply' = [apply EXCEPT !.at = "second"] /\ NoFailure /\ UNCHANGED <<models, binding, run>>
  BY <1>1, <1>5, PreparationGoesOn DEF NoFailure
<1> QED
  BY <1>3, <1>4, <1>5 DEF ModelSelected

\* The second synchronization confirms the candidate, or it is given up.
LEMMA ConfirmedKeeps ==
  ASSUME BindingInv, Confirmed
  PROVE  BindingInv'
<1>1. /\ apply.at = "second" /\ models.candidate # NoOwner
      /\ UNCHANGED <<accepted, news, loaded>>
  BY DEF Confirmed, ConfigurationStays, BinderHears, BindingInv, OwnersInv
<1>2. AtRest(binding) /\ KeepsUp(binding, loaded')
  BY <1>1, BindingRests, StillKeepsUp
<1>3. CASE GiveUp
  BY <1>1, <1>3, GiveUpKeeps DEF GiveUp
<1>4. CASE Retry(binding)
  BY <1>1, <1>2, <1>4, RetryKeeps
<1>5. CASE apply' = [apply EXCEPT !.at = "prepared"] /\ NoFailure /\ UNCHANGED <<models, binding, run>>
  BY <1>1, <1>5, PreparationGoesOn DEF NoFailure
<1> QED
  BY <1>3, <1>4, <1>5 DEF Confirmed

\* Discarded: the turn is over without the candidate.
LEMMA DiscardedKeeps ==
  ASSUME BindingInv, apply.at = "prepared", Discarded,
         binding.closing \/ ~Undisturbed,
         UNCHANGED <<accepted, news, loaded>>
  PROVE  BindingInv'
<1>1. models.candidate # NoOwner
  BY DEF BindingInv, OwnersInv
<1>2. ModelsAtRest(models', binding)
  BY <1>1, GivenUpRests DEF Discarded
<1>3. failures' \in 0..MaxFailures
  BY FailuresCounted DEF Discarded, TurnEnds, BindingInv, BindingTypes
<1>4. /\ AtRest(binding) /\ KeepsUp(binding, loaded') /\ loaded' \in Nat
      /\ run.at = "starting" => binding.closing \/ binding.applied # NoState
  BY BindingRests, StillKeepsUp, FieldsTyped DEF BindingInv, StageInv, Undisturbed
<1> QED
  BY <1>2, <1>3, <1>4, ApplicationEnds DEF Discarded

\* Activates: the candidate, which is what is accepted now, becomes what is applied.
LEMMA ActivatesKeeps ==
  ASSUME BindingInv, apply.at = "prepared", Activates, ~binding.closing, ~Moved,
         UNCHANGED <<accepted, news, loaded>>
  PROVE  BindingInv'
<1>1. BindingTypes /\ StageInv /\ OwnersInv /\ FollowInv
  BY DEF BindingInv
<1>2. /\ binding' \in Bindings /\ binding'.status = "applying"
      /\ binding'.applied = apply.candidate
      /\ binding'.boundary = binding.boundary
      /\ binding'.pending = binding.pending /\ binding'.abort = binding.abort
      /\ binding'.attached = binding.attached /\ binding'.registered = binding.registered
      /\ binding'.closing = binding.closing /\ binding'.disposed = binding.disposed
      /\ binding'.released = binding.released
  <2>1. binding' = [binding EXCEPT !.applied = apply.candidate, !.status = "applying"]
    BY DEF Activates
  <2> QED
    BY <1>1, <2>1, FieldsTyped DEF Bindings
<1> DEFINE at == IF binding.attached /\ apply.candidate.generation # binding.applied.generation
                 THEN "reloading" ELSE "committing"
<1>3. /\ apply' \in Operations /\ apply'.at = at /\ apply'.boundary = apply.boundary
      /\ apply'.candidate = apply.candidate /\ apply'.over = binding.applied
  <2>1. apply' = [apply EXCEPT !.over = binding.applied, !.at = at]
    BY DEF Activates
  <2>2. at \in {"reloading", "committing"}
    OBVIOUS
  <2> HIDE DEF at
  <2> QED
    BY <1>1, <2>1, <2>2, FieldsTyped DEF Operations
<1>4. UNCHANGED <<failures, run>>
  BY DEF Activates, NoFailure
<1>5. /\ models \in Transactions /\ Held(models) /\ models.candidate # NoOwner
      /\ models.candidate # models.current /\ models.previous = NoOwner
      /\ models.current = NoOwner => binding.applied = NoState
  BY <1>1, FieldsTyped DEF OwnersInv
<1>6. /\ models' \in Transactions /\ models'.current = models.candidate
      /\ models'.candidate = models.candidate /\ models'.previous = models.current
      /\ models'.at = models.at /\ models'.leases = models.leases
  BY <1>5 DEF Activates, Activated, Transactions
<1>7. Held(models')
  BY <1>5, <1>6, TransactionAssumption DEF Held
<1>8. BindingTypes'
  BY <1>1, <1>2, <1>3, <1>4, <1>6, FieldsTyped, TypesFollow
<1>9. apply.candidate.generation > 0 /\ NoState.generation = 0
  BY <1>1 DEF StageInv, NoState
<1>10. StageInv'
  BY <1>1, <1>2, <1>3, <1>4, <1>9, FieldsTyped DEF StageInv, Waits
<1>11. OwnersInv'
  <2>1. /\ apply'.at \in {"reloading", "committing"}
        /\ apply'.at = "reloading" => binding.attached
        /\ binding.attached => binding.applied # NoState
        /\ binding'.applied # NoState /\ ~binding'.released
    BY <1>1, <1>2, <1>3, <1>9 DEF StageInv
  <2> QED
    BY <1>5, <1>6, <1>7, <2>1 DEF OwnersInv
<1>12. FollowInv'
  <2>1. /\ FollowInv /\ apply.candidate.generation = accepted.generation
        /\ Recent(apply.candidate) /\ Recent(binding.applied)
        /\ ~MayBeHidden => apply.candidate.change = news.change
    BY <1>1 DEF FollowInv, KeepsUp, Moved, Recent
  <2>2. KeepsUp(binding, loaded)'
    BY <1>1, <1>2, <2>1, FieldsTyped DEF FollowInv, KeepsUp, Recent, Remembered, MayBeHidden
  <2>3. Recent(apply.candidate)' /\ Recent(apply.over)'
    BY <1>3, <2>1 DEF Recent, MayBeHidden
  <2>4. (/\ apply'.at = "committing" /\ binding'.attached /\ ~MayBeHidden
         /\ news.change <= binding'.applied.generation)
        => loaded' = binding'.applied.change
    <3>1. CASE /\ binding.attached /\ ~MayBeHidden
               /\ apply.candidate.generation = binding.applied.generation
      <4>1. binding.applied.change = news.change
        BY <1>1, <2>1, <3>1, FieldsTyped DEF Recent, FollowInv
      <4>2. binding.status \in {"clean", "poisoned"}
        BY <1>1, FieldsTyped DEF StageInv, Bindings
      <4>3. loaded = binding.applied.change
        BY <1>1, <2>1, <3>1, <4>2, FieldsTyped DEF FollowInv, KeepsUp
      <4> QED
        BY <1>2, <2>1, <4>1, <4>3
    <3> QED
      BY <1>2, <1>3, <3>1
  <2>5. apply'.at = "reloading" =>
          /\ apply'.over.generation < apply'.candidate.generation
          /\ Remembered(binding', apply'.over.generation)
    BY <1>1, <1>2, <1>3, <2>1, FieldsTyped DEF FollowInv, KeepsUp, Recent, Remembered
  <2> QED
    BY <1>1, <1>2, <1>3, <1>4, <2>1, <2>2, <2>3, <2>4, <2>5
       DEF FollowInv, Remembered, MayBeHidden
<1> QED
  BY <1>8, <1>10, <1>11, <1>12 DEF BindingInv

\* What is newer than the binding is pending, and it keeps up as before.
LEMMA ObservedRests ==
  ASSUME BindingInv, apply.at \notin {"none", "reloading", "committing", "restoring"},
         UNCHANGED <<accepted, news, loaded>>
  PROVE  /\ AtRest(Observed(binding)) /\ Observed(binding).applied = binding.applied
         /\ KeepsUp(Observed(binding), loaded')
<1> DEFINE b == Observed(binding)
<1>1. BindingTypes /\ FollowInv
  BY DEF BindingInv
<1>2. /\ b \in Bindings /\ b.pending >= binding.pending
      /\ b.pending = binding.pending \/ b.pending = accepted.generation
      /\ b.status = binding.status /\ b.applied = binding.applied /\ SameRest(binding, b)
  BY <1>1, FieldsTyped, NewerIsPending
<1> HIDE DEF b
<1>3. AtRest(b)
  BY <1>2, BindingRests DEF AtRest, SameRest
<1>4. KeepsUp(b, loaded')
  BY <1>1, <1>2, FieldsTyped DEF FollowInv, KeepsUp, Recent, SameRest, Remembered
<1> QED
  BY <1>2, <1>3, <1>4 DEF b

\* The candidate is applied, given up, or prepared once more.
LEMMA CandidateAppliedKeeps ==
  ASSUME BindingInv, CandidateApplied
  PROVE  BindingInv'
<1>1. /\ apply.at = "prepared" /\ models.candidate # NoOwner
      /\ UNCHANGED <<accepted, news, loaded>>
  BY DEF CandidateApplied, ConfigurationStays, BindingInv, OwnersInv
<1>2. CASE Discarded /\ (binding.closing \/ ~Undisturbed)
  BY <1>1, <1>2, DiscardedKeeps
<1>3. CASE Retry(Observed(binding))
  BY <1>1, <1>3, ObservedRests, RetryKeeps
<1>4. CASE GiveUp
  BY <1>1, <1>4, GiveUpKeeps DEF GiveUp
<1>5. CASE Activates /\ ~binding.closing /\ ~Moved
  BY <1>1, <1>5, ActivatesKeeps
<1> QED
  BY <1>2, <1>3, <1>4, <1>5 DEF CandidateApplied

\* The session is reloaded with the candidate, or what was applied before it is to be
\* restored.
LEMMA SessionReloadedKeeps ==
  ASSUME BindingInv, SessionReloaded
  PROVE  BindingInv'
<1>1. BindingTypes /\ StageInv /\ OwnersInv /\ FollowInv
  BY DEF BindingInv
<1>2. apply.at = "reloading" /\ UNCHANGED <<accepted, news, run>>
  BY DEF SessionReloaded, ConfigurationStays
<1>3. failures' \in 0..MaxFailures
  BY <1>1, FailuresCounted DEF SessionReloaded, BindingTypes
<1>4. CASE /\ loaded' = binding.applied.change /\ apply' = [apply EXCEPT !.at = "committing"]
           /\ UNCHANGED <<models, binding>>
  <2>1. /\ apply' \in Operations /\ apply'.at = "committing" /\ apply'.boundary = apply.boundary
        /\ apply'.candidate = apply.candidate
    BY <1>1, <1>4, FieldsTyped DEF Operations
  <2>2. BindingTypes'
    BY <1>1, <1>2, <1>3, <1>4, <2>1, FieldsTyped, TypesFollow
  <2>3. StageInv'
    BY <1>1, <1>2, <1>4, <2>1 DEF StageInv, Waits
  <2>4. OwnersInv'
    BY <1>1, <1>2, <1>4, <2>1 DEF OwnersInv, Held
  <2>5. FollowInv'
    <3>1. binding.status = "applying"
      BY <1>1, <1>2 DEF StageInv
    <3> QED
      BY <1>1, <1>2, <1>4, <2>1, <3>1
         DEF FollowInv, KeepsUp, Recent, Chosen, Remembered, MayBeHidden
  <2> QED
    BY <2>2, <2>3, <2>4, <2>5 DEF BindingInv
<1>5. CASE /\ loaded' \in {loaded, binding.applied.change}
           /\ models' = OwnerDisposed(RolledBack(models), models.candidate)
           /\ binding' = [binding EXCEPT !.applied = apply.over, !.status = "restoring"]
           /\ apply' = [apply EXCEPT !.at = "restoring"]
  <2>1. /\ apply' \in Operations /\ apply'.at = "restoring" /\ apply'.boundary = apply.boundary
        /\ apply'.candidate = apply.candidate
    BY <1>1, <1>5, FieldsTyped DEF Operations
  <2>2. /\ binding' \in Bindings /\ binding'.status = "restoring"
        /\ binding'.applied = apply.over
        /\ binding'.boundary = binding.boundary
        /\ binding'.pending = binding.pending /\ binding'.abort = binding.abort
        /\ binding'.attached = binding.attached /\ binding'.registered = binding.registered
        /\ binding'.closing = binding.closing /\ binding'.disposed = binding.disposed
        /\ binding'.released = binding.released
    BY <1>1, <1>5, FieldsTyped DEF Bindings
  <2>3. /\ models \in Transactions /\ Held(models) /\ models.candidate # NoOwner
        /\ models.current = models.candidate /\ models.previous # models.candidate
        /\ models.previous # NoOwner
    BY <1>1, <1>2, FieldsTyped DEF OwnersInv
  <2>4. /\ models' \in Transactions /\ Held(models') /\ models'.current = models.previous
        /\ models'.candidate = NoOwner /\ models'.previous = NoOwner
    BY <1>5, <2>3, CandidateGivesWay
  <2>5. loaded' \in Nat
    BY <1>1, <1>5, FieldsTyped
  <2>6. BindingTypes'
    BY <1>1, <1>2, <1>3, <2>1, <2>2, <2>4, <2>5, FieldsTyped, TypesFollow
  <2>7. StageInv'
    BY <1>1, <1>2, <2>1, <2>2 DEF StageInv, Waits
  <2>8. OwnersInv'
    BY <1>1, <1>2, <2>1, <2>2, <2>3, <2>4 DEF OwnersInv, StageInv
  <2>9. FollowInv'
    <3>1. Recent(apply.over) /\ Recent(apply.candidate)
      BY <1>1, <1>2 DEF FollowInv
    <3>2. Recent(binding.applied)' /\ Recent(apply.candidate)'
      BY <1>2, <2>1, <2>2, <3>1 DEF Recent, MayBeHidden
    <3>3. KeepsUp(binding, loaded)'
      BY <1>1, <1>2, <2>2, <3>2 DEF FollowInv, KeepsUp, Remembered
    <3> QED
      BY <1>1, <1>2, <2>1, <2>2, <3>2, <3>3 DEF FollowInv, Chosen
  <2> QED
    BY <2>6, <2>7, <2>8, <2>9 DEF BindingInv
<1> QED
  BY <1>4, <1>5 DEF SessionReloaded

\* The candidate is committed: it is what the session runs with from now on.
LEMMA CandidateCommittedKeeps ==
  ASSUME BindingInv, CandidateCommitted
  PROVE  BindingInv'
<1> DEFINE b == MarkedApplied(binding, apply.candidate.generation)
<1>1. BindingTypes /\ StageInv /\ OwnersInv /\ FollowInv
  BY DEF BindingInv
<1>2. apply.at = "committing" /\ UNCHANGED <<accepted, news, loaded>>
  BY DEF CandidateCommitted, ConfigurationStays
<1>3. failures' \in 0..MaxFailures
  BY <1>1, FailuresCounted DEF CandidateCommitted, TurnEnds, BindingTypes
<1>4. /\ b \in Bindings /\ b.status = "clean" /\ b.applied = binding.applied
      /\ b.pending = IF binding.pending <= apply.candidate.generation THEN 0 ELSE binding.pending
      /\ SameRest(binding, b)
  BY <1>1, FieldsTyped, AppliedMarked
<1>5. \/ TurnEnds(b) /\ models' = IF models.previous = NoOwner THEN Committed(models)
                                  ELSE OwnerDisposed(Committed(models), models.previous)
      \/ TurnSucceeds(b) /\ models.previous # NoOwner
           /\ models' = OwnerKept(Committed(models), models.previous)
  BY DEF CandidateCommitted
<1> HIDE DEF b
<1>6. /\ models \in Transactions /\ Held(models) /\ models.candidate # NoOwner
      /\ models.current = models.candidate /\ models.previous # models.candidate
  BY <1>1, <1>2, FieldsTyped DEF OwnersInv
<1>7. /\ models' \in Transactions /\ Held(models') /\ models'.current = models.current
      /\ models'.candidate = NoOwner /\ models'.previous = NoOwner
  BY <1>5, <1>6, CandidateTakesOver
<1>8. ModelsAtRest(models', b)
  BY <1>6, <1>7 DEF ModelsAtRest
<1>9. binding.applied = apply.candidate /\ apply.candidate.generation > 0 /\ b.applied # NoState
  BY <1>1, <1>2, <1>4 DEF StageInv, NoState
<1>10. AtRest(b)
  BY <1>4, <1>9 DEF AtRest, SameRest
<1>11. KeepsUp(b, loaded')
  BY <1>1, <1>2, <1>4, <1>9, FieldsTyped DEF FollowInv, KeepsUp, Recent, SameRest, Remembered
<1>12. loaded' \in Nat
  BY <1>1, <1>2, FieldsTyped
<1> QED
  BY <1>2, <1>3, <1>5, <1>8, <1>9, <1>10, <1>11, <1>12, ApplicationEnds

\* The session is restored with what was applied before, or nothing is known of it.
LEMMA SessionRestoredKeeps ==
  ASSUME BindingInv, SessionRestored
  PROVE  BindingInv'
<1>1. BindingTypes /\ StageInv /\ OwnersInv /\ FollowInv
  BY DEF BindingInv
<1>2. apply.at = "restoring" /\ UNCHANGED <<accepted, news, models>>
  BY DEF SessionRestored, ConfigurationStays
<1>3. failures' \in 0..MaxFailures
  BY <1>1, FailuresCounted DEF SessionRestored, BindingTypes
<1>4. PICK status \in {"clean", "poisoned"} :
        /\ loaded' \in {loaded, binding.applied.change}
        /\ status = "clean" => loaded' = binding.applied.change
        /\ ApplyFails(MarkedPending([binding EXCEPT !.status = status],
                                    apply.candidate.generation))
  BY DEF SessionRestored
<1> DEFINE marked == [binding EXCEPT !.status = status]
           b == MarkedPending(marked, apply.candidate.generation)
<1>5. /\ marked \in Bindings /\ marked.status = status /\ SameRest(binding, marked)
      /\ marked.applied = binding.applied /\ marked.pending = binding.pending
  BY <1>1, FieldsTyped DEF Bindings, SameRest
<1> HIDE DEF marked
<1>6. /\ b \in Bindings /\ b.status = status /\ SameRest(marked, b)
      /\ b.applied = binding.applied
      /\ b.pending = binding.pending \/ b.pending = apply.candidate.generation
      /\ b.pending >= binding.pending
  BY <1>1, <1>5, FieldsTyped, PendingMarked
<1>7. ApplyFails(b)
  BY <1>4 DEF marked
<1> HIDE DEF b
<1>8. SameRest(binding, b)
  BY <1>5, <1>6 DEF SameRest
<1>9. AtRest(b)
  BY <1>1, <1>6, <1>8 DEF AtRest, SameRest, StageInv
<1>10. ModelsAtRest(models', b)
  BY <1>1, <1>2, <1>6, FieldsTyped DEF ModelsAtRest, OwnersInv
<1>11. KeepsUp(b, loaded')
  BY <1>1, <1>2, <1>4, <1>6, <1>8, FieldsTyped DEF FollowInv, KeepsUp, Recent, SameRest, Remembered
<1>12. loaded' \in Nat
  BY <1>1, <1>4, FieldsTyped
<1> QED
  BY <1>2, <1>3, <1>7, <1>9, <1>10, <1>11, <1>12, ApplicationEnds

\* Each step of an application keeps the invariant.
LEMMA AppliesKeeps ==
  ASSUME BindingInv, Applies
  PROVE  BindingInv'
BY TurnBeginsKeeps, ProjectAcquiredKeeps, SynchronizedKeeps, DefinitionResolvedKeeps,
   RuntimeCreatedKeeps, ModelSelectedKeeps, ConfirmedKeeps, CandidateAppliedKeeps,
   SessionReloadedKeeps, CandidateCommittedKeeps, SessionRestoredKeeps DEF Applies

-----------------------------------------------------------------------------
(* The runner and the configuration *)

\* An application is joined, or begun with nothing of a candidate.
LEMMA ApplicationBegun ==
  ASSUME BindingTypes
  PROVE  /\ Begun(apply) \in Operations
         /\ apply.at # "none" => Begun(apply) = apply
         /\ apply.at = "none" => /\ Begun(apply).at = "queued" /\ ~Begun(apply).boundary
                                 /\ Begun(apply).candidate = NoState
<1>1. NoApply \in Operations /\ NoApply.candidate = NoState /\ ~NoApply.boundary
  BY BindingAssumption DEF NoApply, NoState, Operations, States
<1>2. apply.at = "none" =>
        /\ Begun(apply) \in Operations /\ Begun(apply).at = "queued" /\ ~Begun(apply).boundary
        /\ Begun(apply).candidate = NoState
  BY <1>1 DEF Begun, Operations
<1> QED
  BY <1>2, FieldsTyped DEF Begun

\* The runner waits for the application: of a session that is being set up, that is
\* attached, or whose next request is to be current.
LEMMA DemandKeeps ==
  ASSUME BindingInv, NEW b \in Bindings, NEW boundary \in BOOLEAN,
         NEW at \in {"starting", "attaching", "preparing", "boundary"},
         binding' = Demanded(b, boundary), Demands(at),
         b.status = binding.status, b.applied = binding.applied, b.boundary = binding.boundary,
         b.abort = binding.abort, b.closing = binding.closing, b.disposed = binding.disposed,
         b.released = binding.released, b.pending >= binding.pending, b.again = binding.again,
         ~b.closing, accepted.generation > 0,
         at = "starting" => run.at = "new" /\ b.attached = binding.attached,
         at # "starting" => b.attached /\ b.applied # NoState,
         at = "boundary" => boundary,
         b.attached # binding.attached => apply.at = "none",
         b.attached = binding.attached => loaded' = loaded,
         run.at \in {"new", "built", "idle", "busy"},
         UNCHANGED <<accepted, news, models, failures>>, loaded' \in Nat,
         KeepsUp(b, loaded')
  PROVE  BindingInv'
<1>1. BindingTypes /\ StageInv /\ OwnersInv /\ FollowInv
  BY DEF BindingInv
<1>2. /\ binding' \in Bindings /\ binding'.boundary = (b.boundary \/ boundary)
      /\ binding'.abort = (b.abort \/ boundary)
      /\ binding'.status = b.status /\ binding'.applied = b.applied
      /\ binding'.pending = b.pending /\ binding'.attached = b.attached
      /\ binding'.closing = b.closing /\ binding'.disposed = b.disposed
      /\ binding'.released = b.released /\ binding'.again = b.again
  BY DEF Demanded, Bindings
<1>3. run' \in Runs /\ run'.at = at /\ run'.since = news.change
  BY <1>1, FieldsTyped DEF Demands, Runs
<1>4. /\ apply' \in Operations /\ apply'.at # "none"
      /\ apply.at # "none" => apply' = apply
      /\ apply.at = "none" => /\ apply'.at = "queued" /\ ~apply'.boundary
                              /\ apply'.candidate = NoState
  BY <1>1, ApplicationBegun DEF Demands
<1>5. BindingTypes'
  BY <1>1, <1>2, <1>3, <1>4, FieldsTyped, TypesFollow
<1>6. ~b.disposed /\ ~b.released
  BY <1>1 DEF StageInv
<1>7. StageInv'
  BY <1>1, <1>2, <1>3, <1>4, <1>6 DEF StageInv, Waits
<1>8. OwnersInv'
  <2>1. apply.at = "none" => apply'.at = "queued"
    BY <1>4
  <2>2. models' = models /\ binding'.applied = binding.applied /\ ~binding'.released
        /\ ~binding.disposed
    BY <1>2, <1>6
  <2> QED
    BY <1>1, <1>4, <2>1, <2>2 DEF OwnersInv, Held
<1>9. FollowInv'
  <2>1. KeepsUp(binding, loaded)'
    BY <1>2 DEF KeepsUp, Recent, Remembered, MayBeHidden
  <2>2. Recent(apply.candidate)'
    <3>1. Recent(NoState) /\ Recent(apply.candidate)
      BY <1>1, NothingIsRecent DEF FollowInv
    <3> QED
      BY <1>4, <3>1 DEF Recent, MayBeHidden
  <2>3. /\ news'.change <= accepted'.generation /\ run'.since <= news'.change
    BY <1>1, <1>2, <1>3, FieldsTyped DEF FollowInv
  <2>4. CASE apply.at = "none"
    BY <1>4, <2>1, <2>2, <2>3, <2>4 DEF FollowInv, Chosen
  <2>5. CASE apply.at # "none"
    <3>1. apply' = apply /\ loaded' = loaded /\ binding'.attached = binding.attached
      BY <1>2, <1>4, <2>5
    <3>2. apply.at = "reloading" => Recent(apply.over)'
      BY <1>1, <3>1 DEF FollowInv, Recent, MayBeHidden
    <3>3. /\ binding'.attached = binding.attached /\ binding'.closing = binding.closing
          /\ binding'.applied = binding.applied /\ binding'.pending = b.pending
          /\ binding'.again = binding.again
      BY <1>2, <3>1
    <3>4. apply.at = "reloading" => Remembered(binding, apply.over.generation)'
      <4>1. b.pending \in Nat /\ ~binding.closing
        BY DEF Bindings
      <4>2. apply.at = "reloading" => Remembered(binding, apply.over.generation)
        BY <1>1 DEF FollowInv
      <4> QED
        BY <1>1, <3>1, <3>3, <4>1, <4>2, FieldsTyped DEF Remembered
    <3> QED
      BY <1>1, <2>1, <2>2, <2>3, <3>1, <3>2, <3>3, <3>4 DEF FollowInv, MayBeHidden
  <2> QED
    BY <2>4, <2>5
<1> QED
  BY <1>5, <1>7, <1>8, <1>9 DEF BindingInv

\* The set-up asks for an application.
LEMMA SetupBeginsKeeps ==
  ASSUME BindingInv, SetupBegins
  PROVE  BindingInv'
<1>1. /\ binding \in Bindings /\ binding.pending >= binding.pending
      /\ UNCHANGED <<accepted, news, models, failures, loaded>> /\ loaded' \in Nat
  BY FieldsTyped DEF SetupBegins, acceptedVars, BindingInv
<1>2. KeepsUp(binding, loaded')
  BY <1>1, StillKeepsUp
<1>3. accepted.generation > 0 /\ (binding.attached => binding.applied # NoState)
  BY DEF SetupBegins, BindingInv, StageInv
<1> QED
  BY <1>1, <1>2, <1>3, DemandKeeps DEF SetupBegins

\* So does a prompt.
LEMMA PromptPreparesKeeps ==
  ASSUME BindingInv, PromptPrepares
  PROVE  BindingInv'
<1>1. /\ binding \in Bindings /\ binding.pending >= binding.pending
      /\ UNCHANGED <<accepted, news, models, failures, loaded>> /\ loaded' \in Nat
  BY FieldsTyped DEF PromptPrepares, acceptedVars, BindingInv
<1>2. KeepsUp(binding, loaded')
  BY <1>1, StillKeepsUp
<1>3. accepted.generation > 0 /\ (binding.attached => binding.applied # NoState) /\ binding.attached
  BY DEF PromptPrepares, BindingInv, StageInv
<1> QED
  BY <1>1, <1>2, <1>3, DemandKeeps DEF PromptPrepares

\* And so does a boundary.
LEMMA BoundaryReachedKeeps ==
  ASSUME BindingInv, BoundaryReached
  PROVE  BindingInv'
<1>1. /\ binding \in Bindings /\ binding.pending >= binding.pending
      /\ UNCHANGED <<accepted, news, models, failures, loaded>> /\ loaded' \in Nat
  BY FieldsTyped DEF BoundaryReached, acceptedVars, BindingInv
<1>2. KeepsUp(binding, loaded')
  BY <1>1, StillKeepsUp
<1>3. accepted.generation > 0 /\ (binding.attached => binding.applied # NoState) /\ binding.attached
  BY DEF BoundaryReached, BindingInv, StageInv
<1> QED
  BY <1>1, <1>2, <1>3, DemandKeeps DEF BoundaryReached

\* The session is attached, and loaded with what was applied; what was accepted meanwhile is
\* pending.
LEMMA SessionAttachedKeeps ==
  ASSUME BindingInv, SessionAttached
  PROVE  BindingInv'
<1>1. BindingTypes /\ StageInv /\ OwnersInv /\ FollowInv
  BY DEF BindingInv
<1>2. /\ run.at = "built" /\ apply.at = "none" /\ binding.status = "clean"
      /\ UNCHANGED <<accepted, news, models, failures>>
      /\ binding.closing \/ binding.applied # NoState
      /\ ~binding.attached
  BY <1>1 DEF SessionAttached, acceptedVars, StageInv
<1>3. CASE binding.closing
  <2>1. /\ run' \in Runs /\ run'.at = "over" /\ run'.since = run.since
        /\ UNCHANGED <<binding, apply, loaded>>
    BY <1>1, <1>3, FieldsTyped DEF SessionAttached, Runs
  <2>2. BindingTypes'
    BY <1>1, <1>2, <2>1, FieldsTyped, TypesFollow
  <2>3. StageInv'
    BY <1>1, <1>2, <2>1 DEF StageInv, Waits
  <2>4. OwnersInv'
    BY <1>1, <1>2, <2>1 DEF OwnersInv, Held
  <2>5. FollowInv'
    BY <1>1, <1>2, <2>1 DEF FollowInv, KeepsUp, Recent, MayBeHidden
  <2> QED
    BY <2>2, <2>3, <2>4, <2>5 DEF BindingInv
<1>4. CASE ~binding.closing
  <2> DEFINE attached == [binding EXCEPT !.attached = TRUE]
             b == Observed(attached)
  <2>1. /\ binding' = Demanded(b, FALSE) /\ loaded' = binding.applied.change
        /\ Demands("attaching")
    BY <1>4 DEF SessionAttached
  <2>2. /\ attached \in Bindings /\ attached.attached
        /\ attached.status = binding.status /\ attached.applied = binding.applied
        /\ attached.boundary = binding.boundary /\ attached.abort = binding.abort
        /\ attached.pending = binding.pending /\ attached.again = binding.again
        /\ attached.closing = binding.closing /\ attached.disposed = binding.disposed
        /\ attached.released = binding.released
    BY <1>1, FieldsTyped DEF Bindings
  <2> HIDE DEF attached
  <2>3. /\ b \in Bindings /\ b.attached
        /\ b.status = binding.status /\ b.applied = binding.applied
        /\ b.boundary = binding.boundary /\ b.abort = binding.abort
        /\ b.pending >= binding.pending /\ b.again = binding.again
        /\ b.pending = binding.pending \/ b.pending = accepted.generation
        /\ accepted.generation > b.applied.generation => b.pending >= accepted.generation
        /\ b.closing = binding.closing /\ b.disposed = binding.disposed
        /\ b.released = binding.released
    BY <1>1, <1>2, <1>4, <2>2, FieldsTyped, NewerIsPending DEF SameRest
  <2> HIDE DEF b
  <2>4. KeepsUp(b, loaded')
    BY <1>1, <1>2, <2>1, <2>3, FieldsTyped DEF FollowInv, KeepsUp, Recent, Bindings, Remembered
  <2>5. loaded' \in Nat /\ accepted.generation > 0
    BY <1>1, <1>2, <2>1, FieldsTyped DEF StageInv
  <2> QED
    BY <1>2, <1>4, <2>1, <2>3, <2>4, <2>5, DemandKeeps
<1> QED
  BY <1>3, <1>4

\* A run begins, is given up, or is over.
LEMMA RunMovesKeeps ==
  ASSUME BindingInv, NEW at \in {"busy", "idle"}, run.at \in {"ready", "busy"},
         run' = [run EXCEPT !.at = at],
         UNCHANGED <<accepted, news, models, failures, binding, apply, loaded>>
  PROVE  BindingInv'
<1>1. BindingTypes /\ StageInv /\ OwnersInv /\ FollowInv
  BY DEF BindingInv
<1>2. run' \in Runs /\ run'.at = at /\ run'.since = run.since
  BY <1>1, FieldsTyped DEF Runs
<1>3. BindingTypes'
  BY <1>1, <1>2, FieldsTyped, TypesFollow
<1>4. StageInv'
  BY <1>1, <1>2 DEF StageInv, Waits
<1>5. OwnersInv'
  BY <1>1, <1>2 DEF OwnersInv, Held, StageInv
<1>6. FollowInv'
  BY <1>1, <1>2 DEF FollowInv, KeepsUp, Recent, Remembered, MayBeHidden
<1> QED
  BY <1>3, <1>4, <1>5, <1>6 DEF BindingInv

\* The binding is closed, at any time.
LEMMA BindingClosesKeeps ==
  ASSUME BindingInv, BindingCloses
  PROVE  BindingInv'
<1>1. BindingTypes /\ StageInv /\ OwnersInv /\ FollowInv
  BY DEF BindingInv
<1>2. PICK disposed \in BOOLEAN :
        binding' = [binding EXCEPT !.closing = TRUE, !.disposed = disposed]
  BY DEF BindingCloses
<1>3. /\ binding' \in Bindings /\ binding'.closing /\ binding'.disposed = disposed
      /\ binding'.boundary = binding.boundary /\ binding'.abort = binding.abort
      /\ binding'.status = binding.status /\ binding'.applied = binding.applied
      /\ binding'.pending = binding.pending /\ binding'.attached = binding.attached
      /\ binding'.registered = binding.registered /\ binding'.released = binding.released
  BY <1>1, <1>2, FieldsTyped DEF Bindings
<1>4. /\ UNCHANGED <<accepted, news, models, failures, apply, loaded, run>>
      /\ run.at # "new" /\ ~binding.disposed
  BY DEF BindingCloses, acceptedVars
<1>5. BindingTypes'
  BY <1>1, <1>3, <1>4, FieldsTyped, TypesFollow
<1>6. StageInv'
  BY <1>1, <1>3, <1>4 DEF StageInv, Waits
<1>7. OwnersInv'
  BY <1>1, <1>3, <1>4 DEF OwnersInv, Held, StageInv
<1>8. FollowInv'
  BY <1>1, <1>3, <1>4 DEF FollowInv, KeepsUp, Recent, Remembered, MayBeHidden
<1> QED
  BY <1>5, <1>6, <1>7, <1>8 DEF BindingInv

\* Everything is released, or one runtime or the project is left to another try.
LEMMA BindingDisposedKeeps ==
  ASSUME BindingInv, BindingDisposed
  PROVE  BindingInv'
<1>1. BindingTypes /\ StageInv /\ OwnersInv /\ FollowInv
  BY DEF BindingInv
<1>2. /\ UNCHANGED <<accepted, news, apply, loaded>> /\ apply.at = "none" /\ binding.disposed
      /\ run' = [run EXCEPT !.at = "over"]
  BY DEF BindingDisposed, acceptedVars
<1>3. PICK kept \in {{}} \cup {{o} : o \in {p \in Owner : models.at[p] # "free"}},
           registered \in {FALSE, binding.registered} :
        /\ IF kept = {} /\ ~registered THEN NoFailure ELSE Failure
        /\ models' = [TransactionClosed(models) EXCEPT !.disposing = FALSE,
                        !.at = [o \in Owner |-> IF o \in kept THEN "kept" ELSE "free"]]
        /\ binding' = [binding EXCEPT !.attached = FALSE, !.registered = registered,
                                      !.released = kept = {} /\ ~registered]
  BY DEF BindingDisposed
<1>4. failures' \in 0..MaxFailures
  BY <1>1, <1>3, FailuresCounted DEF BindingTypes
<1>5. registered \in BOOLEAN
  BY <1>1, FieldsTyped DEF Bindings
<1>6. /\ binding' \in Bindings /\ ~binding'.attached /\ binding'.registered = registered
      /\ binding'.released = (kept = {} /\ ~registered)
      /\ binding'.status = binding.status /\ binding'.applied = binding.applied
      /\ binding'.pending = binding.pending /\ binding'.boundary = binding.boundary
      /\ binding'.closing = binding.closing /\ binding'.disposed = binding.disposed
  BY <1>1, <1>3, <1>5, FieldsTyped DEF Bindings
<1>7. run' \in Runs /\ run'.at = "over" /\ run'.since = run.since
  BY <1>1, <1>2, FieldsTyped DEF Runs
<1>8. /\ models' \in Transactions /\ models'.current = NoOwner /\ models'.candidate = NoOwner
      /\ models'.previous = NoOwner /\ models'.leases = models.leases
      /\ \A o \in Owner : models'.at[o] = IF o \in kept THEN "kept" ELSE "free"
  <2> DEFINE shut == TransactionClosed(models)
             left == [o \in Owner |-> IF o \in kept THEN "kept" ELSE "free"]
  <2>1. /\ shut \in Transactions /\ shut.current = NoOwner /\ shut.candidate = NoOwner
        /\ shut.previous = NoOwner /\ shut.leases = models.leases
    BY <1>1, FieldsTyped DEF TransactionClosed, Transactions
  <2>2. left \in [Owner -> {"free", "live", "retired", "kept"}]
    OBVIOUS
  <2>3. models' = [shut EXCEPT !.disposing = FALSE, !.at = left]
    BY <1>3
  <2>4. \A o \in Owner : left[o] = IF o \in kept THEN "kept" ELSE "free"
    OBVIOUS
  <2> HIDE DEF shut, left
  <2> QED
    BY <2>1, <2>2, <2>3, <2>4 DEF Transactions
<1>9. Held(models')
  BY <1>1, <1>8, TransactionAssumption DEF OwnersInv, Held
<1>10. BindingTypes'
  BY <1>1, <1>2, <1>4, <1>6, <1>7, <1>8, FieldsTyped, TypesFollow
<1>11. StageInv'
  BY <1>1, <1>2, <1>6, <1>7 DEF StageInv, Waits
<1>12. OwnersInv'
  BY <1>2, <1>6, <1>7, <1>8, <1>9 DEF OwnersInv
<1>13. FollowInv'
  BY <1>1, <1>2, <1>6, <1>7 DEF FollowInv, KeepsUp, Recent, MayBeHidden
<1> QED
  BY <1>10, <1>11, <1>12, <1>13 DEF BindingInv

\* An event that is published: the binding of a session hears of it, and a change of the
\* runtime is pending from then on, unless a new epoch hides it.
LEMMA PublishedKeeps ==
  ASSUME BindingInv, NEW event, Published(event),
         event.generation \in Nat, event.epoch \in Nat,
         event.runtime \in BOOLEAN, event.availability \in BOOLEAN,
         event.generation = accepted'.generation, accepted'.generation > 0,
         \/ accepted'.generation > accepted.generation
         \/ /\ accepted'.generation = accepted.generation /\ ~event.runtime
            /\ event.availability /\ event.epoch > news.epoch,
         news' \in [epoch : 0..MaxEpochs, change : Nat, mixed : BOOLEAN],
         news'.epoch >= news.epoch,
         IF event.runtime
           THEN /\ news'.change = accepted'.generation
                /\ news'.mixed = (event.availability /\ accepted.generation > 0)
           ELSE news'.change = news.change /\ news'.mixed = news.mixed,
         UNCHANGED <<models, failures, loaded, run>>
  PROVE  BindingInv'
<1>1. BindingTypes /\ StageInv /\ OwnersInv /\ FollowInv
  BY DEF BindingInv
<1>2. /\ accepted'.generation \in Nat /\ news'.change \in Nat /\ news'.mixed \in BOOLEAN
      /\ news'.epoch \in Nat /\ news.epoch \in Nat
      /\ accepted'.generation >= accepted.generation
      /\ news'.change <= accepted'.generation /\ news.change <= news'.change
  BY <1>1, FieldsTyped, BindingAssumption DEF FollowInv
\* A change that is told of now is in nothing that there is; what could be hidden still can.
<1>3. /\ event.runtime => news'.change > accepted.generation
      /\ ~event.runtime => /\ news'.change = news.change /\ news'.mixed = news.mixed
                           /\ ~MayBeHidden' => ~MayBeHidden
  BY <1>1, <1>2, FieldsTyped DEF MayBeHidden
<1>4. ASSUME NEW s, s.generation \in Nat, s.epoch \in Nat, Recent(s)
      PROVE  /\ s.change <= s.generation /\ s.generation <= accepted'.generation
             /\ s.epoch <= news'.epoch
             /\ ~MayBeHidden' /\ news'.change <= s.generation => s.change = news'.change
  BY <1>1, <1>2, <1>3, <1>4, FieldsTyped DEF Recent
<1>5. CASE ~Listening
  <2>1. binding' = binding /\ apply' = apply /\ (~binding.attached \/ binding.closing)
    BY <1>5 DEF Published, Listening
  <2>2. BindingTypes'
    BY <1>1, <1>2, <2>1, FieldsTyped, TypesFollow
  <2>3. StageInv'
    BY <1>1, <2>1 DEF StageInv, Waits
  <2>4. OwnersInv'
    BY <1>1, <2>1 DEF OwnersInv, Held
  <2>5. FollowInv'
    <3>1. Recent(binding.applied)' /\ Recent(apply.candidate)'
             /\ (apply.at = "reloading" => Recent(apply.over)')
      BY <1>1, <1>4, <2>1, FieldsTyped DEF Recent, FollowInv, KeepsUp
    <3>2. Recent(binding.applied)
      BY <1>1 DEF FollowInv, KeepsUp
    <3>3. KeepsUp(binding, loaded)'
      <4>1. /\ binding'.pending <= accepted'.generation
            /\ binding'.attached => Remembered(binding, binding.applied.generation)'
        BY <1>1, <1>2, <2>1, FieldsTyped DEF FollowInv, KeepsUp, Remembered
      <4>2. CASE event.runtime
        <5>1. ~(news'.change <= binding.applied.generation)
          BY <1>1, <1>2, <1>3, <3>2, <4>2, FieldsTyped DEF Recent
        <5>2. binding.applied.generation < accepted'.generation
          BY <1>1, <1>2, <5>1, FieldsTyped
        <5> QED
          BY <2>1, <3>1, <4>1, <5>1, <5>2 DEF KeepsUp
      <4>3. CASE ~event.runtime
        BY <1>1, <1>2, <1>3, <2>1, <3>1, <4>1, <4>3, FieldsTyped DEF FollowInv, KeepsUp
      <4> QED
        BY <4>2, <4>3
    <3>4. apply.at = "reloading" => binding.closing
      BY <1>1, <2>1 DEF StageInv
    <3>5. (/\ apply'.at = "committing" /\ binding'.attached /\ ~MayBeHidden'
           /\ news'.change <= binding'.applied.generation)
          => loaded' = binding'.applied.change
      BY <1>1, <1>2, <1>3, <2>1, <3>2, FieldsTyped DEF FollowInv, Recent
    <3>6. /\ apply'.at = "reloading" =>
               /\ apply'.over.generation < apply'.candidate.generation
               /\ Remembered(binding, apply.over.generation)'
          /\ apply'.at = "restoring" =>
               binding'.applied.generation < apply'.candidate.generation
          /\ run'.since <= news'.change
      BY <1>1, <1>2, <2>1, <3>4, FieldsTyped DEF FollowInv, Remembered
    <3> QED
      BY <1>2, <2>1, <3>1, <3>3, <3>5, <3>6 DEF FollowInv
  <2> QED
    BY <2>2, <2>3, <2>4, <2>5 DEF BindingInv
<1>6. CASE Listening
  <2>1. binding.attached /\ ~binding.closing
    BY <1>6 DEF Listening
  <2>2. Hears(binding, binding', event)
    BY <1>1, <1>6, FieldsTyped, EventHeard DEF Published
  <2>3. /\ binding' \in Bindings /\ SameRest(binding, binding')
        /\ binding'.status = binding.status
        /\ \/ binding'.applied = binding.applied
           \/ binding'.applied.generation > 0 /\ binding.status = "clean"
    BY <1>1, <2>2, FieldsTyped DEF Hears
  <2>4. /\ apply' \in Operations
        /\ \/ apply' = apply
           \/ /\ apply.at = "none" /\ apply'.at = "queued" /\ ~apply'.boundary
              /\ apply'.candidate = NoState
    <3>1. apply' = apply \/ apply' = Begun(apply)
      BY DEF Published
    <3> QED
      BY <1>1, <3>1, ApplicationBegun, FieldsTyped
  <2>5. BindingTypes'
    BY <1>1, <1>2, <2>3, <2>4, FieldsTyped, TypesFollow
  <2>6. binding'.applied # NoState /\ run.at # "new" /\ run.at \notin {"built", "starting"}
    BY <1>1, <2>1, <2>3 DEF StageInv, NoState
  <2>7. ~binding.released /\ ~binding.disposed
    BY <1>1, <2>1 DEF StageInv
  <2>8. StageInv'
    BY <1>1, <2>1, <2>3, <2>4, <2>6, <2>7 DEF StageInv, Waits, SameRest
  <2>9. OwnersInv'
    <3>1. models.current # NoOwner
      BY <1>1, <2>1 DEF OwnersInv, StageInv
    <3>2. ~binding'.released /\ models' = models
      BY <2>3, <2>7 DEF SameRest
    <3> QED
      BY <1>1, <2>4, <3>1, <3>2 DEF OwnersInv, Held
  <2>10. FollowInv'
    <3>1. /\ KeepsUp(binding, loaded) /\ Recent(binding.applied)
          /\ news.mixed \/ news.change <= binding.applied.generation
               \/ news.change <= binding.pending
          /\ binding.pending <= accepted.generation
          /\ binding.applied.generation <= accepted.generation
      BY <1>1, <2>1 DEF FollowInv, KeepsUp, Remembered, Recent
    <3>2. /\ binding'.attached /\ ~binding'.closing
          /\ binding'.pending \in Nat /\ binding'.applied.change = binding.applied.change
          /\ binding'.applied.generation \in Nat
          /\ binding'.applied = binding.applied \/ binding.status = "clean"
      BY <1>1, <2>1, <2>2, <2>3, FieldsTyped DEF Hears, SameRest, Bindings, States
    \* A change of the runtime is pending, unless an epoch came with it.
    <3>3. event.runtime => news'.mixed \/ binding'.pending >= accepted'.generation
      <4>1. accepted.generation > 0
        BY <1>1, <2>6 DEF StageInv
      <4> QED
        BY <1>1, <1>2, <1>3, <2>2, <3>1, <4>1, FieldsTyped DEF Hears
    \* A generation is taken over when no change before it is pending or hidden.
    <3>4. ASSUME binding'.applied # binding.applied
          PROVE  /\ ~event.runtime /\ binding'.applied.generation = accepted'.generation
                 /\ binding'.applied.generation > binding.applied.generation
                 /\ binding'.applied.epoch = binding.applied.epoch
                 /\ binding'.status = "clean"
                 /\ ~MayBeHidden' => news.change <= binding.applied.generation
      <4>1. /\ binding.pending = 0 /\ ~event.runtime /\ binding.status = "clean"
            /\ binding'.applied.generation = accepted'.generation
            /\ binding'.applied.generation > binding.applied.generation
            /\ binding'.applied.epoch = binding.applied.epoch
            /\ ~(event.availability /\ event.epoch > binding.applied.epoch)
        BY <2>2, <3>4 DEF Hears
      <4>2. accepted'.generation > accepted.generation
        <5>1. binding.applied.epoch <= news.epoch
          BY <3>1 DEF Recent
        <5> QED
          BY <1>1, <1>2, <4>1, <5>1, FieldsTyped
      <4>3. ~MayBeHidden' => ~news.mixed
        BY <1>1, <1>2, <1>3, <4>1, <4>2, FieldsTyped DEF MayBeHidden, FollowInv
      <4> QED
        BY <1>1, <2>3, <3>1, <4>1, <4>3, FieldsTyped
    <3>5. Recent(binding.applied)'
      <4>1. CASE binding'.applied = binding.applied
        BY <1>1, <1>4, <3>1, <4>1, FieldsTyped DEF Recent
      <4>2. CASE binding'.applied # binding.applied
        <5>1. ~MayBeHidden' => binding.applied.change = news'.change
          BY <1>3, <3>1, <3>4, <4>2 DEF Recent
        <5>2. /\ binding'.applied.generation > binding.applied.generation
              /\ binding'.applied.generation = accepted'.generation
              /\ binding'.applied.epoch = binding.applied.epoch
          BY <3>4, <4>2
        <5>3. /\ binding.applied.change <= binding.applied.generation
              /\ binding.applied.epoch <= news'.epoch
          BY <1>1, <1>4, <3>1, FieldsTyped
        <5> QED
          BY <1>1, <1>2, <3>2, <5>1, <5>2, <5>3, FieldsTyped DEF Recent
      <4> QED
        BY <4>1, <4>2
    <3>6. KeepsUp(binding, loaded)'
      <4>1. binding'.pending <= accepted'.generation
        BY <1>1, <1>2, <2>2, <3>1, FieldsTyped DEF Hears
      <4>2. Remembered(binding, binding.applied.generation)'
        <5>1. CASE event.runtime
          BY <1>2, <3>2, <3>3, <5>1 DEF Remembered
        <5>2. CASE ~event.runtime
          <6>1. /\ binding'.pending = binding.pending
                /\ binding'.applied.generation >= binding.applied.generation
            BY <1>1, <2>2, <5>2, FieldsTyped DEF Hears
          <6> QED
            BY <1>1, <1>3, <3>1, <3>2, <5>2, <6>1, FieldsTyped DEF Remembered
        <5> QED
          BY <5>1, <5>2
      <4>3. (/\ binding'.status = "clean" /\ ~MayBeHidden'
             /\ news'.change <= binding'.applied.generation)
            => loaded' = binding'.applied.change
        <5>1. SUFFICES ASSUME binding.status = "clean", ~MayBeHidden',
                              news'.change <= binding'.applied.generation
                       PROVE  loaded = binding.applied.change
          BY <2>3, <3>2
        <5>2. ~event.runtime /\ news.change <= binding.applied.generation
          <6>1. CASE binding'.applied = binding.applied
            BY <1>1, <1>2, <1>3, <3>1, <5>1, <6>1, FieldsTyped
          <6>2. CASE binding'.applied # binding.applied
            BY <3>4, <5>1, <6>2
          <6> QED
            BY <6>1, <6>2
        <5> QED
          BY <1>3, <2>1, <3>1, <5>1, <5>2 DEF KeepsUp
      <4>4. binding'.status = "poisoned" /\ ~MayBeHidden' =>
              \/ loaded' = binding'.applied.change
              \/ binding'.applied.generation < accepted'.generation
        <5>1. SUFFICES ASSUME binding.status = "poisoned", ~MayBeHidden'
                       PROVE  \/ loaded = binding.applied.change
                              \/ binding.applied.generation < accepted'.generation
          BY <2>3, <3>2
        <5>2. CASE event.runtime
          BY <1>1, <1>2, <1>3, <3>1, <5>2, FieldsTyped
        <5>3. CASE ~event.runtime
          BY <1>1, <1>2, <1>3, <2>1, <3>1, <5>1, <5>3, FieldsTyped DEF KeepsUp
        <5> QED
          BY <5>2, <5>3
      <4> QED
        BY <3>5, <4>1, <4>2, <4>3, <4>4 DEF KeepsUp
    <3>7. Recent(apply.candidate)'
      <4>1. CASE apply' = apply
        BY <1>1, <1>4, <4>1, FieldsTyped DEF Recent, FollowInv
      <4>2. CASE apply'.candidate = NoState
        BY <1>2, <4>2 DEF Recent, NoState
      <4> QED
        BY <2>4, <4>1, <4>2
    <3>8. (/\ apply'.at = "committing" /\ ~MayBeHidden'
           /\ news'.change <= binding'.applied.generation)
          => loaded' = binding'.applied.change
      <4>1. SUFFICES ASSUME apply'.at = "committing", ~MayBeHidden',
                            news'.change <= binding'.applied.generation
                     PROVE  loaded = binding.applied.change
        BY <3>2
      <4>2. apply' = apply /\ binding.status = "applying"
        BY <1>1, <2>4, <4>1 DEF StageInv
      <4>3. binding'.applied = binding.applied
        BY <3>2, <4>2
      <4>4. ~event.runtime
        BY <1>1, <1>2, <1>3, <3>1, <4>1, <4>3, FieldsTyped
      <4> QED
        BY <1>1, <1>3, <2>1, <4>1, <4>2, <4>3, <4>4 DEF FollowInv
    <3>9. apply'.at = "reloading" =>
            /\ Recent(apply.over)' /\ apply'.over.generation < apply'.candidate.generation
            /\ Remembered(binding, apply.over.generation)'
      <4>1. SUFFICES ASSUME apply'.at = "reloading"
                     PROVE  /\ Recent(apply.over)'
                            /\ apply'.over.generation < apply'.candidate.generation
                            /\ Remembered(binding, apply.over.generation)'
        OBVIOUS
      <4>2. apply' = apply
        BY <2>4, <4>1
      <4>3. /\ Recent(apply.over) /\ apply.over.generation < apply.candidate.generation
            /\ Remembered(binding, apply.over.generation)
        BY <1>1, <4>1, <4>2 DEF FollowInv
      <4>4. Recent(apply.over)'
        BY <1>1, <1>4, <4>2, <4>3, FieldsTyped DEF Recent
      <4>5. Remembered(binding, apply.over.generation)'
        <5>1. CASE event.runtime
          BY <1>2, <3>2, <3>3, <5>1 DEF Remembered
        <5>2. CASE ~event.runtime
          <6>1. binding'.pending = binding.pending
            BY <2>2, <5>2 DEF Hears
          <6> QED
            BY <1>3, <2>1, <4>2, <4>3, <5>2, <6>1 DEF Remembered
        <5> QED
          BY <5>1, <5>2
      <4> QED
        BY <4>2, <4>3, <4>4, <4>5
    <3>10. apply'.at = "restoring" =>
             binding'.applied.generation < apply'.candidate.generation
      BY <1>1, <2>4, <3>2 DEF FollowInv, StageInv
    <3>11. run'.since <= news'.change
      BY <1>1, <1>2, FieldsTyped DEF FollowInv
    <3>12. apply'.at \in Chosen /\ ~MayBeHidden' =>
             news'.change <= apply'.candidate.generation \/ binding'.again
      <4>1. SUFFICES ASSUME apply'.at \in Chosen, ~MayBeHidden'
                     PROVE  news'.change <= apply'.candidate.generation \/ binding'.again
        OBVIOUS
      <4>2. apply' = apply /\ apply.at # "none"
        BY <2>4, <4>1 DEF Chosen
      <4>3. event.runtime => binding'.again
        BY <2>2, <4>2 DEF Hears
      <4>4. ~event.runtime => news.change <= apply.candidate.generation \/ binding.again
        BY <1>1, <1>3, <2>1, <4>1, <4>2 DEF FollowInv
      <4>5. binding.again => binding'.again
        BY <2>2 DEF Hears
      <4> QED
        BY <1>3, <4>2, <4>3, <4>4, <4>5
    <3> QED
      BY <1>2, <3>6, <3>7, <3>8, <3>9, <3>10, <3>11, <3>12 DEF FollowInv
  <2> QED
    BY <2>5, <2>8, <2>9, <2>10 DEF BindingInv
<1> QED
  BY <1>5, <1>6

\* A new generation is told, or still to be told.
LEMMA GenerationAcceptedKeeps ==
  ASSUME BindingInv, GenerationAccepted
  PROVE  BindingInv'
<1>1. BindingTypes
  BY DEF BindingInv
<1>2. accepted'.generation = accepted.generation + 1
  BY DEF GenerationAccepted, Accepts
<1>3. UNCHANGED <<models, failures, loaded, run>>
  BY DEF GenerationAccepted
<1>4. PICK runtime \in BOOLEAN, availability \in BOOLEAN :
        /\ availability => news.epoch < MaxEpochs
        /\ news' = [epoch |-> IF availability THEN news.epoch + 1 ELSE news.epoch,
                    change |-> IF runtime THEN accepted'.generation ELSE news.change,
                    mixed |-> IF runtime THEN availability /\ accepted.generation > 0
                                         ELSE news.mixed]
        /\ Published([generation |-> accepted'.generation, epoch |-> news'.epoch,
                      runtime |-> runtime, availability |-> availability])
  BY DEF GenerationAccepted
<1> DEFINE event == [generation |-> accepted'.generation, epoch |-> news'.epoch,
                     runtime |-> runtime, availability |-> availability]
<1>5. /\ news'.epoch \in 0..MaxEpochs /\ news'.epoch \in Nat /\ news'.epoch >= news.epoch
      /\ news'.change = IF runtime THEN accepted'.generation ELSE news.change
      /\ news'.mixed = IF runtime THEN availability /\ accepted.generation > 0 ELSE news.mixed
      /\ news' \in [epoch : 0..MaxEpochs, change : Nat, mixed : BOOLEAN]
  <2>1. /\ (IF availability THEN news.epoch + 1 ELSE news.epoch) \in 0..MaxEpochs
        /\ (IF runtime THEN accepted'.generation ELSE news.change) \in Nat
    BY <1>1, <1>2, <1>4, FieldsTyped, BindingAssumption
  <2>2. (IF runtime THEN availability /\ accepted.generation > 0 ELSE news.mixed) \in BOOLEAN
    BY <1>1, FieldsTyped
  <2> QED
    BY <1>1, <1>4, <2>1, <2>2, FieldsTyped, BindingAssumption
<1>6. /\ event.generation = accepted'.generation /\ event.epoch = news'.epoch
      /\ event.runtime = runtime /\ event.availability = availability
  OBVIOUS
<1>7. Published(event)
  BY <1>4
<1>8. /\ accepted'.generation \in Nat /\ accepted'.generation > 0
      /\ accepted'.generation > accepted.generation
  BY <1>1, <1>2, FieldsTyped
<1> HIDE DEF event
<1> QED
  BY <1>1, <1>3, <1>5, <1>6, <1>7, <1>8, FieldsTyped, PublishedKeeps

\* So is a new availability of models.
LEMMA AvailabilityMovesKeeps ==
  ASSUME BindingInv, AvailabilityMoves
  PROVE  BindingInv'
<1>1. BindingTypes
  BY DEF BindingInv
<1>2. /\ accepted.generation > 0 /\ news.epoch < MaxEpochs /\ accepted' = accepted
      /\ news' = [news EXCEPT !.epoch = @ + 1]
      /\ UNCHANGED <<models, failures, loaded, run>>
  BY DEF AvailabilityMoves, acceptedVars
<1> DEFINE event == [generation |-> accepted.generation, epoch |-> news'.epoch,
                     runtime |-> FALSE, availability |-> TRUE]
<1>3. Published(event)
  BY DEF AvailabilityMoves
<1>4. /\ news'.epoch \in Nat /\ news'.change = news.change /\ news'.mixed = news.mixed
      /\ news'.epoch > news.epoch /\ news'.epoch >= news.epoch
      /\ news' \in [epoch : 0..MaxEpochs, change : Nat, mixed : BOOLEAN]
  BY <1>1, <1>2, FieldsTyped, BindingAssumption
<1>5. /\ event.generation = accepted'.generation /\ event.epoch = news'.epoch
      /\ ~event.runtime /\ event.availability /\ event.epoch = news'.epoch
      /\ event.runtime \in BOOLEAN /\ event.availability \in BOOLEAN
  BY <1>2
<1> HIDE DEF event
<1>6. /\ accepted'.generation \in Nat /\ accepted'.generation > 0
      /\ accepted'.generation = accepted.generation
      /\ event.generation \in Nat /\ event.epoch \in Nat
  BY <1>1, <1>2, <1>4, <1>5, FieldsTyped
<1>7. UNCHANGED <<models, failures, loaded, run>>
  BY <1>2
<1> QED
  BY <1>3, <1>4, <1>5, <1>6, <1>7, PublishedKeeps

\* What the configuration answers changes nothing of this.
LEMMA NothingMoves ==
  ASSUME BindingInv,
         UNCHANGED <<accepted, models, failures, news, binding, apply, loaded, run>>
  PROVE  BindingInv'
BY DEF BindingInv, BindingTypes, BindingTypeOK, ModelsTypeOK, StageInv, Waits, OwnersInv, Held,
       FollowInv, KeepsUp, Recent, Remembered, MayBeHidden

\* Each step keeps the invariant.
LEMMA BindingNextKeeps ==
  ASSUME BindingInv, [BindingNext]_bindingVars
  PROVE  BindingInv'
<1>1. CASE RunBegins \/ RunEnds
  <2>1. /\ run.at \in {"ready", "busy"} /\ \E at \in {"busy", "idle"} : run' = [run EXCEPT !.at = at]
        /\ UNCHANGED <<accepted, news, models, failures, binding, apply, loaded>>
    BY <1>1 DEF RunBegins, RunEnds, acceptedVars
  <2> QED
    BY <2>1, RunMovesKeeps
<1>2. CASE (Rejects \/ Answers \/ Closes)
             /\ UNCHANGED <<models, failures, news, binding, apply, loaded, run>>
  <2>1. accepted' = accepted
    BY <1>2 DEF Rejects, Answers, Closes
  <2> QED
    BY <1>2, <2>1, NothingMoves
<1>3. CASE UNCHANGED bindingVars
  BY <1>3, NothingMoves DEF bindingVars, acceptedVars
<1> QED
  BY <1>1, <1>2, <1>3, AppliesKeeps, SetupBeginsKeeps, SessionAttachedKeeps, PromptPreparesKeeps,
     BoundaryReachedKeeps, BindingClosesKeeps, BindingDisposedKeeps, GenerationAcceptedKeeps,
     AvailabilityMovesKeeps DEF BindingNext

\* The invariant holds before the set-up.
LEMMA BindingStarts ==
  ASSUME BindingInit
  PROVE  BindingInv
<1>1. NoState \in States /\ NoState.generation = 0 /\ NoState.change = 0 /\ NoState.epoch = 0
  BY BindingAssumption DEF NoState, States
<1>2. /\ binding \in Bindings /\ binding.status = "clean" /\ binding.applied = NoState
      /\ binding.pending = 0 /\ ~binding.attached /\ ~binding.closing /\ ~binding.disposed
      /\ ~binding.released
  BY <1>1 DEF BindingInit, NewBinding, Bindings
<1>3. /\ apply \in Operations /\ apply.at = "none" /\ apply.candidate = NoState
  BY <1>1 DEF BindingInit, NoApply, Operations
<1>4. run \in Runs /\ run.at = "new" /\ run.since = 0
  BY DEF BindingInit, NewRun, Runs
<1>5. /\ models \in Transactions /\ models.current = NoOwner /\ models.candidate = NoOwner
      /\ models.previous = NoOwner /\ failures \in 0..MaxFailures
      /\ \A o \in Owner : models.at[o] = "free" /\ models.leases[o] = {}
  BY TransactionAssumption DEF BindingInit, NoModels, NoLeases, Transactions
<1>6. /\ news \in [epoch : 0..MaxEpochs, change : Nat, mixed : BOOLEAN]
      /\ news.change = 0 /\ news.epoch = 0 /\ loaded = 0
      /\ accepted.generation = 0
  BY BindingAssumption DEF BindingInit, AcceptedInit
<1>7. BindingTypes
  BY <1>2, <1>3, <1>4, <1>5, <1>6
     DEF BindingTypes, BindingTypeOK, ModelsTypeOK, Bindings, Operations, Runs, Transactions
<1>8. StageInv
  BY <1>2, <1>3, <1>4, <1>6 DEF StageInv, Waits
<1>9. OwnersInv
  BY <1>2, <1>3, <1>4, <1>5, TransactionAssumption DEF OwnersInv, Held
<1>10. FollowInv
  BY <1>1, <1>2, <1>3, <1>4, <1>6 DEF FollowInv, KeepsUp, Recent
<1> QED
  BY <1>7, <1>8, <1>9, <1>10 DEF BindingInv

-----------------------------------------------------------------------------
(* The theorems *)

\* The inductive invariant of a binding.
THEOREM BindingConsistent == BindingSpec => []BindingInv
<1>1. BindingInit => BindingInv
  BY BindingStarts
<1>2. BindingInv /\ [BindingNext]_bindingVars => BindingInv'
  BY BindingNextKeeps
<1> QED
  BY <1>1, <1>2, PTL DEF BindingSpec

\* What the binding keeps has its type (createAgentRuntimeBinding).
THEOREM BindingTypeCorrect == BindingSpec => []BindingTypeOK
<1>1. BindingInv => BindingTypeOK
  BY DEF BindingInv, BindingTypes
<1> QED
  BY <1>1, BindingConsistent, PTL

\* So do the models of its transaction (createModelRuntimeTransaction).
THEOREM ModelsTypeCorrect == BindingSpec => []ModelsTypeOK
<1>1. BindingInv => ModelsTypeOK
  BY DEF BindingInv, BindingTypes
<1> QED
  BY <1>1, BindingConsistent, PTL

\* No model runtime is left behind by a candidate that was given up or by a binding that was
\* disposed of, and none is disposed of while the session delegates to it, with any number of
\* runtimes and failures of their disposals (applyLatest, prepareCandidate, dispose).
THEOREM NothingLeft == BindingSpec => []NothingIsLeftBehind
<1>1. BindingInv => NothingIsLeftBehind
  <2> SUFFICES ASSUME BindingInv PROVE NothingIsLeftBehind
    OBVIOUS
  <2>1. BindingTypes /\ StageInv /\ OwnersInv
    BY DEF BindingInv
  <2>2. RuntimesInUseStay
    BY <2>1, FieldsTyped, TransactionAssumption DEF RuntimesInUseStay, OwnersInv, Held, Transactions
  <2> QED
    BY <2>1, <2>2 DEF NothingIsLeftBehind, OwnersInv, StageInv
<1> QED
  BY <1>1, BindingConsistent, PTL

\* A generation that is applied does not hide a change before it that the session was not
\* loaded with, whatever the events tell of together, until the last change is one that came
\* with a new epoch and has a generation without a change after it: what that hides, the next
\* change makes up for (the listener of the binding, markPending and markApplied).
THEOREM AppliedAreLoaded == BindingSpec => []AppliedChangesAreLoaded
<1>1. BindingInv => AppliedChangesAreLoaded
  BY DEF BindingInv, FollowInv, KeepsUp, Recent, AppliedChangesAreLoaded
<1> QED
  BY <1>1, BindingConsistent, PTL

\* An application that fails has the run of a boundary aborted.
LEMMA FailureAborts ==
  ASSUME BindingInv, run.at = "boundary", NEW b, b.abort = binding.abort,
         b.attached = binding.attached, ApplyFails(b)
  PROVE  run'.at # "busy"
<1>1. b.abort /\ b.attached /\ run \in Runs
  BY FieldsTyped DEF BindingInv, StageInv
<1> QED
  BY <1>1 DEF ApplyFails, Fails, Runs

\* A run goes on at a boundary when a turn succeeded and no other boundary joined it; an
\* application that serves a boundary has left no change to go round for.
LEMMA BoundaryGoesOn ==
  ASSUME BindingInv, run.at = "boundary", run'.at = "busy", NEW b \in Bindings,
         SameRest(binding, b), ~b.closing, TurnSucceeds(b) \/ TurnEnds(b)
  PROVE  ~binding.boundary /\ (apply.boundary => ~b.again)
<1>1. CASE TurnSucceeds(b)
  <2>1. ~GoesAgain(b)
    BY <1>1 DEF TurnSucceeds
  <2> QED
    BY <2>1 DEF GoesAgain, SameRest
<1>2. CASE ApplyFails(MarkedPending([b EXCEPT !.status = "poisoned"], accepted.generation))
  <2> DEFINE marked == [b EXCEPT !.status = "poisoned"]
             left == MarkedPending(marked, accepted.generation)
  <2>1. /\ marked \in Bindings /\ marked.abort = binding.abort
        /\ marked.attached = binding.attached
    BY DEF Bindings, SameRest
  <2> HIDE DEF marked
  <2>2. left.abort = binding.abort /\ left.attached = binding.attached
    BY <2>1, FieldsTyped, PendingMarked DEF BindingInv, SameRest
  <2>3. ApplyFails(left)
    BY <1>2 DEF marked
  <2> HIDE DEF left
  <2> QED
    BY <2>2, <2>3, FailureAborts
<1> QED
  BY <1>1, <1>2 DEF TurnEnds

\* What a run goes on with is no older than the change it waited for.
LEMMA BoundaryStep ==
  ASSUME BindingInv, ~MayBeHidden, BindingNext,
         run.at = "boundary", run'.at = "busy", ~binding.closing
  PROVE  loaded' >= run.since
<1>1. BindingTypes /\ StageInv /\ OwnersInv /\ FollowInv
  BY DEF BindingInv
<1>2. /\ run.since <= news.change /\ news.change <= accepted.generation
      /\ KeepsUp(binding, loaded) /\ binding.attached
      /\ binding.boundary \/ apply.boundary
  BY <1>1 DEF FollowInv, StageInv
<1>3. run' # run
  OBVIOUS
<1>4. /\ SameRest(binding, binding) /\ binding \in Bindings
      /\ ~ApplyFails(binding)
      /\ ~ApplyFails([binding EXCEPT !.registered = TRUE])
  <2> DEFINE held == [binding EXCEPT !.registered = TRUE]
  <2>1. held.abort = binding.abort /\ held.attached = binding.attached
    BY <1>1, FieldsTyped DEF Bindings
  <2> HIDE DEF held
  <2>2. ~ApplyFails(held)
    BY <2>1, FailureAborts
  <2> QED
    BY <1>1, <2>2, FailureAborts, FieldsTyped DEF SameRest, held
<1>5. CASE Synchronized
  <2>1. UpToDate /\ TurnEnds(binding) /\ apply.at = "first" /\ UNCHANGED loaded
    BY <1>3, <1>4, <1>5 DEF Synchronized, BinderHears
  <2>2. binding.status = "clean"
    BY <1>1, <2>1, FieldsTyped DEF UpToDate, StageInv, Bindings
  <2> QED
    BY <1>1, <1>2, <2>1, <2>2, FieldsTyped DEF UpToDate, KeepsUp, Recent
<1>6. CASE CandidateApplied
  <2>1. /\ Discarded /\ ~apply.boundary
    BY <1>3, <1>4, <1>6 DEF CandidateApplied, Retry, Anew, GiveUp, Activates, Undisturbed
  <2>2. TurnEnds(binding)
    BY <1>4, <2>1 DEF Discarded
  <2> QED
    BY <1>2, <1>4, <2>1, <2>2, BoundaryGoesOn
<1>7. CASE CandidateCommitted
  <2> DEFINE b == MarkedApplied(binding, apply.candidate.generation)
  <2>1. (TurnEnds(b) \/ TurnSucceeds(b)) /\ apply.at = "committing" /\ UNCHANGED loaded
    BY <1>7 DEF CandidateCommitted
  <2>2. b \in Bindings /\ SameRest(binding, b) /\ b.again = binding.again
    BY <1>1, FieldsTyped, AppliedMarked
  <2> HIDE DEF b
  <2>3. ~binding.boundary /\ ~binding.again
    BY <1>2, <2>1, <2>2, BoundaryGoesOn DEF SameRest
  <2>4. binding.applied = apply.candidate /\ news.change <= apply.candidate.generation
    BY <1>1, <1>2, <2>1, <2>3 DEF FollowInv, StageInv, Chosen
  <2>5. loaded = binding.applied.change /\ binding.applied.change = news.change
    BY <1>1, <1>2, <2>1, <2>4 DEF FollowInv, Recent
  <2> QED
    BY <1>1, <1>2, <2>1, <2>5, FieldsTyped
<1>8. ~SessionRestored
  <2> SUFFICES ASSUME SessionRestored PROVE FALSE
    OBVIOUS
  <2>1. PICK status \in {"clean", "poisoned"} :
          ApplyFails(MarkedPending([binding EXCEPT !.status = status],
                                   apply.candidate.generation))
    BY DEF SessionRestored
  <2> DEFINE marked == [binding EXCEPT !.status = status]
             left == MarkedPending(marked, apply.candidate.generation)
  <2>2. /\ marked \in Bindings /\ marked.abort = binding.abort
        /\ marked.attached = binding.attached
    BY <1>4 DEF Bindings
  <2> HIDE DEF marked
  <2>3. left.abort = binding.abort /\ left.attached = binding.attached
    BY <1>1, <2>2, FieldsTyped, PendingMarked DEF SameRest
  <2>4. ApplyFails(left)
    BY <2>1 DEF marked
  <2> HIDE DEF left
  <2> QED
    BY <2>3, <2>4, FailureAborts
<1>9. /\ ~TurnBegins /\ ~ProjectAcquired /\ ~DefinitionResolved /\ ~RuntimeCreated
      /\ ~ModelSelected /\ ~Confirmed /\ ~SessionReloaded
  BY <1>3, <1>4 DEF TurnBegins, ProjectAcquired, DefinitionResolved, RuntimeCreated, ModelSelected,
     Confirmed, SessionReloaded, Retry, Anew, GiveUp
<1>10. /\ ~SetupBegins /\ ~SessionAttached /\ ~PromptPrepares /\ ~RunBegins /\ ~BoundaryReached
       /\ ~RunEnds /\ ~BindingCloses /\ ~GenerationAccepted /\ ~AvailabilityMoves
  BY <1>3 DEF SetupBegins, SessionAttached, PromptPrepares, RunBegins, BoundaryReached, RunEnds,
     BindingCloses, GenerationAccepted, AvailabilityMoves
<1>11. ~BindingDisposed
  BY <1>1, FieldsTyped DEF BindingDisposed, Runs
<1> QED
  BY <1>3, <1>5, <1>6, <1>7, <1>8, <1>9, <1>10, <1>11 DEF BindingNext, Applies

\* A response that follows another is computed with what had been accepted when the one
\* before it was over, whatever application it joined and whatever was hidden before, as long
\* as the last change cannot be hidden (ensureCurrent at a boundary).
THEOREM BoundariesKeptUp == BindingSpec => BoundariesKeepUp
<1>1. BindingInv /\ [BindingNext]_bindingVars =>
        [run.at = "boundary" /\ run'.at = "busy" /\ ~binding.closing /\ ~MayBeHidden
           => loaded' >= run.since]_bindingVars
  BY BoundaryStep
<1> QED
  BY <1>1, BindingConsistent, PTL DEF BindingSpec, BoundariesKeepUp

-----------------------------------------------------------------------------
(* The transaction of the server's own models. *)

\* A candidate of the server's own models is live and not yet current, and what gave way
\* to one is retired in the same step; nothing is current, prepared or leased once the
\* transaction was closed.
ModelsInv ==
  /\ ModelsTypeOK /\ RuntimesInUseStay
  /\ models.previous = NoOwner
  /\ models.candidate # NoOwner =>
       models.at[models.candidate] = "live" /\ models.candidate # models.current
  /\ models.closing =>
       /\ models.current = NoOwner /\ models.candidate = NoOwner
       /\ \A o \in Owner : models.leases[o] = {} /\ models.at[o] # "live"
  /\ models.disposing => models.closing

\* Nothing exists at first.
LEMMA ModelsBegin ==
  ASSUME models = NoModels, failures = 0
  PROVE  ModelsInv
BY TransactionAssumption DEF NoModels, NoLeases, ModelsInv, ModelsTypeOK, RuntimesInUseStay

\* A commit retires what was current and rolls the candidate in; a candidate that is given
\* up is retired itself.
LEMMA CandidateEnds ==
  ASSUME ModelsInv, models.candidate # NoOwner
  PROVE  /\ Committed(Activated(models)) =
              [models EXCEPT !.current = models.candidate, !.candidate = NoOwner,
                 !.at = IF models.current = NoOwner THEN models.at
                        ELSE [models.at EXCEPT ![models.current] = "retired"]]
         /\ RolledBack(models) =
              [models EXCEPT !.candidate = NoOwner,
                 !.at = [models.at EXCEPT ![models.candidate] = "retired"]]
<1>1. /\ models \in Transactions /\ models.previous = NoOwner
      /\ models.candidate # models.current
  BY DEF ModelsInv, ModelsTypeOK, Transactions
<1> QED
  BY <1>1 DEF Committed, Activated, RolledBack, Settled, Retired, Transactions

\* Each step of the server's models keeps the invariant.
LEMMA ModelsStep ==
  ASSUME ModelsInv, [ModelsNext]_<<models, failures>>
  PROVE  ModelsInv'
<1>1. models \in Transactions /\ failures \in 0..MaxFailures /\ NoOwner \notin Owner /\ MaxFailures \in Nat
  BY TransactionAssumption DEF ModelsInv, ModelsTypeOK, Transactions
<1> USE DEF ModelsInv, ModelsTypeOK, RuntimesInUseStay, NoFailure
<1>2. CASE CatalogPrepared
  <2>1. PICK o \in Free(models) : models' = [models EXCEPT !.at[o] = "live", !.candidate = o]
    <3> DEFINE o == CHOOSE o \in Free(models) : TRUE
    <3>1. o \in Free(models)
      BY <1>2 DEF CatalogPrepared
    <3>2. models' = [models EXCEPT !.at[o] = "live", !.candidate = o]
      BY <1>2 DEF CatalogPrepared, Created
    <3> QED
      BY <3>1, <3>2
  <2>2. /\ o \in Owner /\ models.at[o] = "free" /\ models.candidate = NoOwner
        /\ ~models.closing /\ failures' = failures
    BY <1>2, <2>1 DEF CatalogPrepared, Free
  <2>3. models' = [models EXCEPT !.at = [models.at EXCEPT ![o] = "live"], !.candidate = o]
    BY <1>1, <2>1 DEF Transactions
  <2>4. models.leases[o] = {} /\ o # models.current
    BY <2>2
  <2> QED
    BY <1>1, <2>2, <2>3, <2>4 DEF Transactions
<1>3. CASE CatalogCommitted
  <2>1. /\ models.candidate \in Owner /\ failures' = failures
        /\ models' = [models EXCEPT !.current = models.candidate, !.candidate = NoOwner,
                 !.at = IF models.current = NoOwner THEN models.at
                        ELSE [models.at EXCEPT ![models.current] = "retired"]]
    BY <1>1, <1>3, CandidateEnds DEF CatalogCommitted, Transactions
  <2> QED
    BY <1>1, <2>1 DEF Transactions
<1>4. CASE CatalogGivenUp
  <2>1. /\ models.candidate \in Owner /\ failures' = failures
        /\ models' = [models EXCEPT !.candidate = NoOwner,
                 !.at = [models.at EXCEPT ![models.candidate] = "retired"]]
    BY <1>1, <1>4, CandidateEnds DEF CatalogGivenUp, Transactions
  <2> QED
    BY <1>1, <2>1 DEF Transactions
<1>5. ASSUME NEW l \in Lease, LeaseAcquired(l) PROVE ModelsInv'
  <2>1. models.current \in Owner /\ failures' = failures /\ ~models.closing
    BY <1>1, <1>5 DEF LeaseAcquired, Transactions
  <2>2. models' = [models EXCEPT !.leases =
                     [models.leases EXCEPT ![models.current] = models.leases[models.current] \cup {l}]]
    BY <1>1, <1>5 DEF LeaseAcquired, Transactions
  <2> QED
    BY <1>1, <2>1, <2>2 DEF Transactions
<1>6. ASSUME NEW l \in Lease, LeaseReleased(l) PROVE ModelsInv'
  <2>1. PICK o \in Owner : l \in models.leases[o] /\ models' = [models EXCEPT !.leases[o] = @ \ {l}]
    BY <1>6 DEF LeaseReleased
  <2>2. models' = [models EXCEPT !.leases = [models.leases EXCEPT ![o] = models.leases[o] \ {l}]]
    BY <1>1, <2>1 DEF Transactions
  <2>3. failures' = failures
    BY <1>6 DEF LeaseReleased
  <2> QED
    BY <1>1, <2>1, <2>2, <2>3 DEF Transactions
<1>7. ASSUME NEW o \in Owner, OwnerReleased(o) PROVE ModelsInv'
  <2>1. /\ models.at[o] = "retired" /\ models.leases[o] = {}
        /\ failures' \in 0..MaxFailures
        /\ \E a \in {"free", "kept"} : models' = [models EXCEPT !.at = [models.at EXCEPT ![o] = a]]
    BY <1>1, <1>7 DEF OwnerReleased, Disposable, OwnerDisposed, OwnerKept, Failure, Transactions
  <2>2. o # models.current
    BY <1>1, <2>1
  <2> QED
    BY <1>1, <2>1, <2>2 DEF Transactions
<1>8. CASE TransactionDisposes
  <2>1. \A o \in Owner : models.leases[o] = {}
    BY <1>8 DEF TransactionDisposes, NoLeases
  <2>2. failures' = failures /\ models' = TransactionClosed(models)
    BY <1>8 DEF TransactionDisposes
  <2>3. [o \in Owner |-> IF models.at[o] = "free" THEN "free" ELSE "retired"]
          \in [Owner -> {"free", "retired"}]
    OBVIOUS
  <2> QED
    BY <1>1, <2>1, <2>2, <2>3 DEF TransactionClosed, Transactions
<1>9. CASE TransactionDisposed
  BY <1>1, <1>9 DEF TransactionDisposed, Transactions
<1>10. CASE UNCHANGED <<models, failures>>
  BY <1>10
<1> QED
  BY <1>2, <1>3, <1>4, <1>5, <1>6, <1>7, <1>8, <1>9, <1>10 DEF ModelsNext

\* A runtime that somebody runs on or has leased is not disposed of, and one that nobody
\* uses any more is not kept as if it were, for any number of runtimes, leases and
\* disposals that fail (createModelRuntimeTransaction, createAcceptedModelRuntime).
THEOREM LeasedRuntimesStay == ModelsSpec => []RuntimesInUseStay
<1>1. ModelsInv => RuntimesInUseStay
  BY DEF ModelsInv
<1> QED
  BY <1>1, ModelsBegin, ModelsStep, PTL DEF ModelsSpec
=============================================================================
