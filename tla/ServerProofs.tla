---------------------------- MODULE ServerProofs ----------------------------
(***************************************************************************)
(* What a server does besides its subagents and its registry: four         *)
(* operations that reach over several of its steps, and its parts taken    *)
(* together (MCServer).                                                    *)
(*                                                                         *)
(* A compaction is dropped because of what holds while its cancellation is *)
(* requested (CompactionInv); a deletion keeps the tree by what is         *)
(* reached, as a least fixed point; the credential follows the requests    *)
(* because of where each stands in the line (AuthInv); a page and the      *)
(* server agree on their views because what one does not know yet is in a  *)
(* request or in the pipe (EventInv).                                      *)
(*                                                                         *)
(* The parts of a server run as each of them is specified, and what is     *)
(* proved of each holds of all (ServerInv).                                *)
(***************************************************************************)
EXTENDS MCServer, RuntimeLeaseProofs, ConfigurationProofs, RuntimeBindingProofs,
        SequenceTheorems, FiniteSetTheorems, TLAPS

-----------------------------------------------------------------------------
(* The manual compaction *)

\* What is requested of the controller: nothing is queued and no compaction may
\* write while a cancellation is; what it waits for is its own compaction.
CancellingInv ==
  compaction.cancelling =>
    /\ ~compaction.pending
    /\ agent.compacts # "working"
    /\ compaction.running => compaction.waits = "own"

\* Where the adapter is, and what it has requested by then.
TeardownInv ==
  /\ teardown.at \in {"cancelling", "aborting", "cleaning", "stopping", "disposing"} =>
       compaction.cancelling
  /\ teardown.at \in {"aborting", "stopping"} => compaction.waits = "none"
  /\ teardown.at \in {"cleaning", "stopping", "disposing", "stopped"} => teardown.stop
  /\ teardown.at \in {"cancelling", "aborting"} => ~teardown.detached
  /\ teardown.detached =>
       teardown.stop /\ compaction.cancelling /\ ~compaction.running

\* The controller knows what compacts, as long as it listens; Pi's own compaction
\* is within a run.
ListeningInv ==
  /\ compaction.running => Compacting /\ ~compaction.native /\ ~compaction.pending
  /\ ~teardown.detached => (Compacting <=> compaction.running \/ compaction.native)
  /\ Compacting /\ ~compaction.running => agent.run \in {"streaming", "settling"}

CompactionInv == CompactionTypeOK /\ CancellingInv /\ TeardownInv /\ ListeningInv

\* Nothing compacts and nothing is cancelled at first.
LEMMA CompactionBegins == CompactionInit => CompactionInv
BY DEF CompactionInit, NoCompaction, CompactionInv, CompactionTypeOK, CancellingInv, TeardownInv,
       ListeningInv, Compacting

\* Each step keeps the types, and then the rest.
LEMMA CompactionStep ==
  ASSUME CompactionInv, [CompactionNext]_compactionVars
  PROVE  CompactionInv'
<1> USE DEF CompactionInv, CompactionTypeOK, CancellingInv, TeardownInv, ListeningInv, Compacting
<1>1. CASE CompactionRequested BY <1>1 DEF CompactionRequested, Started, IsStreaming
<1>2. CASE AgentStarts BY <1>2 DEF AgentStarts
<1>3. CASE AgentEnds
  <2>1. CASE compaction.pending
    <3>1. ~compaction.cancelling /\ ~teardown.detached /\ ~compaction.native BY <1>3, <2>1 DEF AgentEnds
    <3>2. compaction' = Started(compaction) BY <1>3, <2>1 DEF AgentEnds
    <3>3. agent' = [run |-> "ending", compacts |-> "called"] /\ teardown' = teardown
      BY <1>3, <2>1 DEF AgentEnds
    <3>4. CompactionTypeOK' BY <3>2, <3>3 DEF Started
    <3>5. CancellingInv' /\ TeardownInv' /\ ListeningInv' BY <3>1, <3>2, <3>3 DEF Started
    <3>6. QED BY <3>4, <3>5
  <2>2. CASE ~compaction.pending BY <1>3, <2>2 DEF AgentEnds
  <2>3. QED BY <2>1, <2>2
<1>4. CASE AgentEnded BY <1>4 DEF AgentEnded
<1>5. CASE AgentSettles BY <1>5 DEF AgentSettles
<1>6. CASE NativeStarts BY <1>6 DEF NativeStarts
<1>7. CASE BeforeCompact BY <1>7 DEF BeforeCompact, HookAborts
<1>8. CASE CompactionWritten BY <1>8 DEF CompactionWritten, Over
<1>9. CASE CompactionDropped BY <1>9 DEF CompactionDropped, Over
<1>10. CASE AbortBegins BY <1>10 DEF AbortBegins, Cancel, Awaited
<1>11. CASE StopBegins BY <1>11 DEF StopBegins
<1>12. CASE CleanupBegins BY <1>12 DEF CleanupBegins, Cancel, Awaited
<1>13. CASE CancelReturns BY <1>13 DEF CancelReturns
<1>14. CASE AbortFails BY <1>14 DEF AbortFails
<1>15. CASE AbortEnds BY <1>15 DEF AbortEnds
<1>16. CASE StopDetaches BY <1>16 DEF StopDetaches, Cancel, Awaited
<1>17. CASE StopEnds BY <1>17 DEF StopEnds
<1>18. CASE UNCHANGED compactionVars BY <1>18 DEF compactionVars
<1>19. QED BY <1>1, <1>2, <1>3, <1>4, <1>5, <1>6, <1>7, <1>8, <1>9, <1>10, <1>11, <1>12, <1>13, <1>14, <1>15, <1>16, <1>17, <1>18 DEF CompactionNext

\* The controller's state is well-formed, and so is what the page shows of it.
THEOREM CompactionTypeCorrect == CompactionSpec => []CompactionTypeOK
<1>1. CompactionInv => CompactionTypeOK BY DEF CompactionInv
<1>2. QED BY <1>1, CompactionBegins, CompactionStep, PTL DEF CompactionSpec

\* A compaction that a cancellation met does not write, however far it was, and
\* nothing compacts when the cancellation is over (cancel() and the hook of
\* subagent/compaction-cancellation.ts).
THEOREM CancelledIsDropped == CompactionSpec => CancelledCompactionIsDropped
<1> DEFINE A == /\ CompactionWritten => ~compaction.cancelling
                /\ AbortEnds \/ (StopDetaches /\ ~teardown'.failed) =>
                     ~Compacting /\ ~compaction.pending
<1>1. CompactionInv /\ [CompactionNext]_compactionVars => [A]_compactionVars
  <2> SUFFICES ASSUME CompactionInv PROVE A OBVIOUS
  <2> USE DEF CompactionInv, CompactionTypeOK, CancellingInv, TeardownInv, ListeningInv, Compacting
  <2>1. CompactionWritten => ~compaction.cancelling BY DEF CompactionWritten
  <2>2. AbortEnds => ~Compacting /\ ~compaction.pending BY DEF AbortEnds
  <2>3. StopDetaches /\ ~teardown'.failed => ~Compacting /\ ~compaction.pending
    BY DEF StopDetaches, Cancel
  <2>4. QED BY <2>1, <2>2, <2>3
<1>2. QED
  BY <1>1, CompactionBegins, CompactionStep, PTL DEF CompactionSpec, CancelledCompactionIsDropped

-----------------------------------------------------------------------------
(* The deletion of histories *)

\* No history is there at first.
LEMMA DeletionBegins == DeletionInit => DeletionTypeOK
BY WorkspaceAssumption DEF DeletionInit, DeletionTypeOK, NoDeletion

\* What is reached is what was there, or works in one of the directories.
LEMMA ReachedIsHistory ==
  ASSUME NEW some, NEW within PROVE Reached(some, within) \subseteq History
BY DEF Reached

\* Each step of a deletion keeps the types.
LEMMA DeletionStep ==
  ASSUME DeletionTypeOK, [DeletionNext]_deletionVars
  PROVE  DeletionTypeOK'
<1> USE DEF DeletionTypeOK
<1>1. ASSUME NEW s \in History, RootWritten(s) PROVE DeletionTypeOK'
  <2>1. PICK w \in Workspaces : Written(s, w) BY <1>1 DEF RootWritten
  <2>2. QED BY <1>1, <2>1 DEF RootWritten, Written
<1>2. ASSUME NEW o \in History, NEW s \in History, ChildWritten(o, s) PROVE DeletionTypeOK'
  BY <1>2 DEF ChildWritten, Written
<1>3. ASSUME NEW o \in History, NEW s \in History, ForkWritten(o, s) PROVE DeletionTypeOK'
  <2>1. PICK w \in Workspaces : Written(s, w) BY <1>3 DEF ForkWritten
  <2>2. QED BY <1>3, <2>1 DEF ForkWritten, Written
<1>4. CASE DeletionAsked
  <2>1. ASSUME NEW s \in History, NEW missing \in BOOLEAN,
               deletion' = [NoDeletion EXCEPT !.at = "listing", !.targets = {s}, !.missing = missing]
        PROVE  deletion' \in [at : {"idle", "listing", "listed"}, targets : SUBSET History,
                              listed : SUBSET History, preserve : BOOLEAN, missing : BOOLEAN]
    BY <2>1 DEF NoDeletion
  <2>2. ASSUME NEW w \in Workspaces,
               deletion' = [NoDeletion EXCEPT !.at = "listing", !.preserve = TRUE,
                                              !.targets = {s \in There : cwd[s] = w}]
        PROVE  deletion' \in [at : {"idle", "listing", "listed"}, targets : SUBSET History,
                              listed : SUBSET History, preserve : BOOLEAN, missing : BOOLEAN]
    <3>1. {s \in There : cwd[s] = w} \in SUBSET History BY DEF There
    <3>2. QED BY <2>2, <3>1 DEF NoDeletion
  <2>3. QED BY <1>4, <2>1, <2>2 DEF DeletionAsked
<1>5. CASE DeletionListed BY <1>5 DEF DeletionListed, There
<1>6. CASE FilesRemoved
  <2>1. PICK removed \in SUBSET Plan :
          /\ file' = [s \in History |-> IF s \in removed THEN "gone" ELSE file[s]]
          /\ refers' = [s \in History |-> IF s \in removed THEN {} ELSE refers[s]]
    BY <1>6 DEF FilesRemoved
  <2>2. file' \in [History -> {"new", "there", "gone"}] BY <2>1
  <2>3. refers' \in [History -> SUBSET History] BY <2>1
  <2>4. QED BY <1>6, <2>2, <2>3 DEF FilesRemoved, NoDeletion
<1>7. CASE DeletionRefused BY <1>7 DEF DeletionRefused, NoDeletion
<1>8. CASE UNCHANGED deletionVars BY <1>8 DEF deletionVars
<1>9. QED BY <1>1, <1>2, <1>3, <1>4, <1>5, <1>6, <1>7, <1>8 DEF DeletionNext

\* More is reached from more, through more directories.
LEMMA ReachedGrows ==
  ASSUME NEW some, NEW more, NEW within, NEW wider, some \subseteq more, within \subseteq wider
  PROVE  Reached(some, within) \subseteq Reached(more, wider)
<1>1. ASSUME NEW x \in Reached(some, within), NEW set \in SUBSET History,
             more \subseteq set, Closed(set, wider)
      PROVE  x \in set
  <2>1. Closed(set, within) BY <1>1 DEF Closed
  <2>2. QED BY <1>1, <2>1 DEF Reached
<1>2. QED BY <1>1 DEF Reached

\* What is reached is closed, and holds what it began with.
LEMMA ReachedIsClosed ==
  ASSUME DeletionTypeOK, NEW some \in SUBSET History, NEW within
  PROVE  some \subseteq Reached(some, within) /\ Closed(Reached(some, within), within)
<1>1. some \subseteq Reached(some, within) BY DEF Reached
<1>2. ASSUME NEW s \in Reached(some, within) \cap There, NEW c \in refers[s], cwd[c] \in within
      PROVE  c \in Reached(some, within)
  <2>1. c \in History BY <1>2 DEF DeletionTypeOK, There
  <2>2. ASSUME NEW set \in SUBSET History, some \subseteq set, Closed(set, within)
        PROVE  c \in set
    <3>1. s \in set \cap There BY <1>2, <2>2 DEF Reached
    <3>2. QED BY <1>2, <2>2, <3>1 DEF Closed
  <2>3. QED BY <2>1, <2>2 DEF Reached
<1>3. QED BY <1>1, <1>2 DEF Closed

\* What is reached was there to begin with, or some file that is reached refers to it
\* and it works in one of the directories: the others would do without it.
LEMMA ReachedThrough ==
  ASSUME DeletionTypeOK, NEW some \in SUBSET History, NEW within,
         NEW c \in Reached(some, within), c \notin some
  PROVE  /\ cwd[c] \in within
         /\ \E s \in Reached(some, within) \cap There : c \in refers[s]
<1> DEFINE R == Reached(some, within)
           Without == R \ {c}
<1>1. some \subseteq R /\ Closed(R, within) /\ R \subseteq History BY ReachedIsClosed, ReachedIsHistory
<1> SUFFICES ASSUME ~(cwd[c] \in within /\ \E s \in R \cap There : c \in refers[s]) PROVE FALSE
  OBVIOUS
<1>2. some \subseteq Without /\ Without \in SUBSET History BY <1>1
<1>3. Closed(Without, within) BY <1>1 DEF Closed
<1>4. c \in Without BY <1>2, <1>3 DEF Reached
<1>5. QED BY <1>4

\* The types of what the deletion keeps.
THEOREM DeletionTypeCorrect == DeletionSpec => []DeletionTypeOK
BY DeletionBegins, DeletionStep, PTL DEF DeletionSpec

\* A file that goes is one that a deletion removes.
LEMMA OnlyDeletionRemoves ==
  ASSUME DeletionTypeOK, DeletionNext, NEW s \in There, file'[s] = "gone"
  PROVE  FilesRemoved
<1>1. ASSUME NEW x \in History, NEW w \in Workspaces, Written(x, w) PROVE file'[s] # "gone"
  BY <1>1 DEF Written, There, DeletionTypeOK
<1>2. ASSUME NEW x \in History PROVE ~RootWritten(x) BY <1>1 DEF RootWritten
<1>3. ASSUME NEW o \in History, NEW x \in History PROVE ~ChildWritten(o, x)
  <2>1. ASSUME ChildWritten(o, x) PROVE cwd[o] \in Workspaces /\ Written(x, cwd[o])
    BY <2>1 DEF ChildWritten, DeletionTypeOK
  <2>2. QED BY <1>1, <2>1
<1>4. ASSUME NEW o \in History, NEW x \in History PROVE ~ForkWritten(o, x)
  BY <1>1 DEF ForkWritten
<1>5. file' = file => file'[s] # "gone" BY DEF There
<1>6. ~DeletionAsked /\ ~DeletionListed /\ ~DeletionRefused
  BY <1>5 DEF DeletionAsked, DeletionListed, DeletionRefused
<1>7. QED BY <1>2, <1>3, <1>4, <1>6 DEF DeletionNext

\* What a deletion is to remove lies within what its targets lead to.
LEMMA IntendedIsDoomed ==
  Intended \subseteq Reached(deletion.targets, {cwd[s] : s \in deletion.targets})
<1>1. Roots \subseteq deletion.targets BY DEF Roots
<1>2. {cwd[r] : r \in Roots} \subseteq {cwd[s] : s \in deletion.targets} BY <1>1
<1>3. QED BY <1>1, <1>2, ReachedGrows DEF Intended

\* Whoever works where a file that is to be removed does, and is one it refers to,
\* is to be removed as well.
LEMMA ReferredIsIntended ==
  ASSUME DeletionTypeOK, NEW x \in Intended \cap There, NEW c \in refers[x], cwd[c] = cwd[x]
  PROVE  c \in Intended
<1> DEFINE within == {cwd[r] : r \in Roots}
<1>1. Roots \in SUBSET History BY DEF Roots, There
<1>2. cwd[x] \in within
  <2>1. CASE x \in Roots BY <2>1
  <2>2. CASE x \notin Roots BY <1>1, <2>2, ReachedThrough DEF Intended
  <2>3. QED BY <2>1, <2>2
<1>3. Closed(Intended, within) BY <1>1, ReachedIsClosed DEF Intended
<1>4. QED BY <1>2, <1>3 DEF Closed

\* A deletion, whole or half way, removes no file that a history outside of it leads
\* to, and leaves no child in its directory that nothing refers to
\* (deleteSessionHistories: what it plans, and the order of its removals).
THEOREM TreeIsKept == DeletionSpec => DeletionKeepsTheTree
<1> DEFINE gone == {s \in There : file'[s] = "gone"}
           doomed == Reached(deletion.targets, {cwd[s] : s \in deletion.targets})
           A == gone # {} =>
                  /\ gone \cap Reached(There \ doomed, Workspaces) = {}
                  /\ \A x \in gone : \A c \in refers[x] \cap (There \ gone) :
                       cwd[c] = cwd[x] => \E s \in There \ gone : c \in refers[s]
<1>1. DeletionTypeOK /\ [DeletionNext]_deletionVars => [A]_deletionVars
  <2> SUFFICES ASSUME DeletionTypeOK, DeletionNext, gone # {} PROVE A OBVIOUS
  <2>1. FilesRemoved BY OnlyDeletionRemoves
  <2>2. PICK removed \in SUBSET Plan :
          /\ Prefix(removed)
          /\ file' = [s \in History |-> IF s \in removed THEN "gone" ELSE file[s]]
    BY <2>1 DEF FilesRemoved
  <2>3. There \subseteq Known BY <2>1 DEF FilesRemoved, Verified
  <2>4. gone = removed BY <2>2 DEF There, Plan
  <2>5. gone \subseteq (Intended \ Protected) \cap There BY <2>2, <2>4 DEF Plan
  <2>6. Reached(There \ doomed, Workspaces) \subseteq Protected
    <3>1. There \ doomed \subseteq Known \ Intended BY <2>3, IntendedIsDoomed
    <3>2. QED BY <3>1, ReachedGrows DEF Protected
  <2>7. ASSUME NEW x \in gone, NEW c \in refers[x] \cap (There \ gone), cwd[c] = cwd[x]
        PROVE  \E s \in There \ gone : c \in refers[s]
    <3>1. c \in Intended BY <2>5, <2>7, ReferredIsIntended
    <3>2. c \notin Plan BY <2>2, <2>4, <2>7 DEF Prefix
    <3>3. c \in Protected BY <2>7, <3>1, <3>2 DEF Plan
    <3>4. Known \ Intended \in SUBSET History BY ReachedIsHistory DEF Known
    <3>5. PICK s \in Protected \cap There : c \in refers[s]
      BY <3>1, <3>3, <3>4, ReachedThrough DEF Protected
    <3>6. s \in There \ gone BY <2>5
    <3>7. QED BY <3>5, <3>6
  <2>8. QED BY <2>5, <2>6, <2>7
<1>2. QED BY <1>1, DeletionBegins, DeletionStep, PTL DEF DeletionSpec, DeletionKeepsTheTree

-----------------------------------------------------------------------------
(* Logins, logouts and deletions of a provider *)

Ats == {"new", "preflight", "reserved", "queued", "running", "accepting", "cleaning",
        "removed", "committed", "publishing", "ended", "failed"}

AuthRecords ==
  [at : [Operation -> Ats], guard : Flow \cup {NoFlow}, aborted : SUBSET Flow,
   line : Seq(Operation), found : [Deletion -> SUBSET Flow]]

InLine(o) == \E i \in 1..Len(auth.line) : auth.line[i] = o

\* Everyone has one place in the line: a login from when its handler runs it, a
\* removal from when it is asked.
LineInv ==
  /\ \A i, j \in 1..Len(auth.line) : auth.line[i] = auth.line[j] => i = j
  /\ \A o \in Removal : ~Is(o, "new") <=> InLine(o)
  /\ \A f \in Flow : /\ auth.at[f] \in {"queued", "running", "committed", "publishing"} => InLine(f)
                     /\ auth.at[f] \in {"new", "preflight", "reserved"} => ~InLine(f)

\* The login under way holds the guard.
GuardInv == \A f \in Flow : ~Is(f, "new") /\ ~Is(f, "ended") => auth.guard = f

\* Who has come to its turn: it runs, has stored what it was to, or has ended well.
Turned(o) ==
  \/ auth.at[o] \in {"running", "accepting", "cleaning", "removed", "committed"}
  \/ o \in Deletion /\ Is(o, "ended")
  \/ o \in Flow /\ credential = o

\* Whoever has come to its turn found all before it settled.
TurnInv ==
  \A i \in 1..Len(auth.line) :
    Turned(auth.line[i]) => \A j \in 1..(i - 1) : PlaceSettled(auth.line[j])

StoredInv == credential # NoFlow => InLine(credential)

\* A login that a deletion found is over, or aborted; if it is at its turn all the
\* same, its place is before the deletion's.
FoundInv ==
  \A d \in Deletion : \A f \in auth.found[d] :
    /\ ~Is(f, "new")
    /\ Is(f, "ended") \/ f \in auth.aborted
    /\ Is(f, "running") =>
         \E i, j \in 1..Len(auth.line) : i < j /\ auth.line[i] = f /\ auth.line[j] = d

\* Nothing is under way when the shutdown is over.
ShutdownInv ==
  shutdown = "done" => \A o \in Operation : auth.at[o] \in {"new", "reserved", "ended", "failed"}

AuthInv ==
  AuthTypeOK /\ LineInv /\ GuardInv /\ TurnInv /\ StoredInv /\ FoundInv /\ ShutdownInv

\* Nobody is in the line at first.
LEMMA AuthBegins == AuthInit => AuthInv
<1> SUFFICES ASSUME AuthInit PROVE AuthInv OBVIOUS
<1>1. /\ auth.at = [o \in Operation |-> "new"] /\ auth.guard = NoFlow /\ auth.aborted = {}
      /\ auth.line = <<>> /\ auth.found = [d \in Deletion |-> {}]
      /\ credential = NoFlow /\ shutdown = "no"
  BY DEF AuthInit
<1>2. AuthTypeOK
  <2>1. provider \in [declared : BOOLEAN, accepted : BOOLEAN, builtIn : BOOLEAN]
    <3>1. PICK b \in BOOLEAN : provider = [declared |-> TRUE, accepted |-> TRUE, builtIn |-> b]
      BY DEF AuthInit
    <3>2. QED BY <3>1
  <2>2. /\ [o \in Operation |-> "new"] \in [Operation -> Ats]
        /\ [d \in Deletion |-> {}] \in [Deletion -> SUBSET Flow]
    BY DEF Ats
  <2>3. <<>> \in Seq(Operation) OBVIOUS
  <2>4. auth \in AuthRecords
    <3>1. auth = [at |-> [o \in Operation |-> "new"], guard |-> NoFlow, aborted |-> {},
                  line |-> <<>>, found |-> [d \in Deletion |-> {}]]
      BY DEF AuthInit
    <3>2. QED BY <2>2, <2>3, <3>1 DEF AuthRecords
  <2>5. QED BY <1>1, <2>1, <2>4 DEF AuthTypeOK, AuthRecords, Ats
<1>3. Len(auth.line) = 0 /\ \A o : ~InLine(o) BY <1>1 DEF InLine
<1>4. \A f \in Flow : f \in Operation /\ f # NoFlow BY FlowAssumption DEF Operation
<1>5. \A o \in Removal : o \in Operation BY DEF Operation
<1>6. LineInv BY <1>1, <1>3, <1>4, <1>5 DEF LineInv, Is
<1>7. GuardInv BY <1>1, <1>4 DEF GuardInv, Is
<1>8. TurnInv BY <1>3 DEF TurnInv
<1>9. QED
  BY <1>1, <1>2, <1>6, <1>7, <1>8 DEF AuthInv, StoredInv, FoundInv, ShutdownInv

\* The place of an operation, and who is before it, in terms of the line.
LEMMA PlaceInLine ==
  ASSUME AuthInv, NEW i \in 1..Len(auth.line)
  PROVE  Place(auth.line[i]) = i /\ Before(auth.line[i]) = {auth.line[j] : j \in 1..(i - 1)}
<1>1. Place(auth.line[i]) = i BY DEF AuthInv, LineInv, Place
<1>2. QED BY <1>1 DEF Before

\* An operation moves without a change of the line.
LEMMA MoveKeeps ==
  ASSUME AuthInv, AuthTypeOK', NEW o \in Operation, NEW v,
         auth'.at = [auth.at EXCEPT ![o] = v],
         auth'.line = auth.line, auth'.found = auth.found, auth.aborted \subseteq auth'.aborted,
         o \in Flow => \/ /\ auth.at[o] \in {"new", "preflight", "reserved"}
                         /\ v \in {"preflight", "reserved", "ended"}
                      \/ /\ auth.at[o] \in {"queued", "running", "committed", "publishing"}
                         /\ v \in {"running", "committed", "publishing", "ended"},
         o \in Flow /\ v = "running" => o \notin auth.aborted,
         o \in Removal => v # "new" /\ ~Is(o, "new"),
         PlaceSettled(o) => v \in {"publishing", "ended", "failed"},
         Turned(o)' => Turned(o) \/ \A x \in Before(o) : PlaceSettled(x),
         credential' \in {credential, NoFlow} \/ (credential' = o /\ Is(o, "running") /\ o \in Flow)
  PROVE  LineInv' /\ TurnInv' /\ StoredInv' /\ FoundInv'
<1> USE DEF AuthInv
<1>1. auth.at \in [Operation -> {"new", "preflight", "reserved", "queued", "running", "accepting",
                                "cleaning", "removed", "committed", "publishing", "ended", "failed"}]
      /\ auth.line \in Seq(Operation) /\ auth.found \in [Deletion -> SUBSET Flow]
  BY DEF AuthTypeOK
<1>2. \A x \in Operation : auth'.at[x] = IF x = o THEN v ELSE auth.at[x] BY <1>1
<1>3. \A x : InLine(x)' <=> InLine(x) BY DEF InLine
<1>4. Flow \subseteq Operation /\ Removal \subseteq Operation /\ Deletion \subseteq Removal
      /\ Flow \cap Removal = {}
  BY OperationAssumption DEF Operation, Removal
<1>5. LineInv' BY <1>2, <1>3, <1>4 DEF LineInv, Is
<1>6. TurnInv'
  <2> SUFFICES ASSUME NEW i \in 1..Len(auth.line), Turned(auth.line[i])', NEW j \in 1..(i - 1)
               PROVE  PlaceSettled(auth.line[j])'
    BY DEF TurnInv, PlaceSettled
  <2>1. auth.line[i] \in Operation /\ auth.line[j] \in Operation BY <1>1
  <2>2. PlaceSettled(auth.line[j])
    <3>1. CASE auth.line[i] = o
      <4>1. CASE Turned(o) BY <3>1, <4>1 DEF TurnInv
      <4>2. CASE \A x \in Before(o) : PlaceSettled(x)
        <5>1. Before(o) = {auth.line[k] : k \in 1..(i - 1)} BY <3>1, PlaceInLine
        <5>2. QED BY <4>2, <5>1
      <4>3. QED BY <3>1, <4>1, <4>2
    <3>2. CASE auth.line[i] # o
      <4>1. Turned(auth.line[i])
        BY <1>2, <2>1, <3>2, FlowAssumption DEF Turned, Is
      <4>2. QED BY <4>1 DEF TurnInv
    <3>3. QED BY <3>1, <3>2
  <2>3. QED BY <1>2, <2>1, <2>2 DEF PlaceSettled
<1>7. StoredInv'
  BY <1>3, <1>4 DEF StoredInv, LineInv, Is
<1>8. FoundInv'
  <2> SUFFICES ASSUME NEW d \in Deletion, NEW f \in auth.found[d]
               PROVE  /\ ~Is(f, "new")'
                      /\ Is(f, "ended")' \/ f \in auth'.aborted
                      /\ Is(f, "running")' =>
                           \E i, j \in 1..Len(auth.line) :
                             i < j /\ auth.line[i] = f /\ auth.line[j] = d
    BY DEF FoundInv
  <2>1. f \in Flow BY <1>1
  <2>2. f # o => auth'.at[f] = auth.at[f] BY <1>2, <1>4, <2>1
  <2>3. ~Is(f, "new") /\ (Is(f, "ended") \/ f \in auth.aborted) BY DEF FoundInv
  <2>4. Is(f, "running") =>
          \E i, j \in 1..Len(auth.line) : i < j /\ auth.line[i] = f /\ auth.line[j] = d
    BY DEF FoundInv
  <2>5. CASE f # o BY <2>2, <2>3, <2>4, <2>5 DEF Is
  <2>6. CASE f = o
    <3>1. ~Is(o, "ended") /\ o \in auth.aborted /\ v # "running" BY <2>1, <2>3, <2>6 DEF Is
    <3>2. QED BY <1>2, <2>1, <2>6, <3>1 DEF Is
  <2>7. QED BY <2>5, <2>6
<1>9. QED BY <1>5, <1>6, <1>7, <1>8

\* What the steps make of the gateway's state.
LEMMA MovesIs ==
  ASSUME AuthTypeOK, NEW o \in Operation, NEW v \in Ats
  PROVE  /\ Moves(auth, o, v) \in AuthRecords
         /\ Moves(auth, o, v).at = [auth.at EXCEPT ![o] = v]
         /\ Moves(auth, o, v).guard = auth.guard
         /\ Moves(auth, o, v).aborted = auth.aborted
         /\ Moves(auth, o, v).line = auth.line
         /\ Moves(auth, o, v).found = auth.found
BY DEF AuthTypeOK, Moves, AuthRecords, Ats

\* The end of a login frees the guard if it is its own, and changes nothing else
\* but its place.
LEMMA FlowOverIs ==
  ASSUME AuthTypeOK, NEW f \in Flow
  PROVE  /\ FlowOver(auth, f) \in AuthRecords
         /\ FlowOver(auth, f).at = [auth.at EXCEPT ![f] = "ended"]
         /\ FlowOver(auth, f).guard = IF auth.guard = f THEN NoFlow ELSE auth.guard
         /\ FlowOver(auth, f).aborted = auth.aborted
         /\ FlowOver(auth, f).line = auth.line
         /\ FlowOver(auth, f).found = auth.found
<1> DEFINE m == Moves(auth, f, "ended")
<1>1. f \in Operation /\ "ended" \in Ats BY DEF Operation, Ats
<1>2. /\ m \in AuthRecords /\ m.at = [auth.at EXCEPT ![f] = "ended"] /\ m.guard = auth.guard
      /\ m.aborted = auth.aborted /\ m.line = auth.line /\ m.found = auth.found
  BY <1>1, MovesIs
<1>3. FlowOver(auth, f) = [m EXCEPT !.guard = IF @ = f THEN NoFlow ELSE @] BY DEF FlowOver
<1> HIDE DEF m
<1>4. QED BY <1>2, <1>3 DEF AuthRecords

\* Who joins the line is the last of it.
LEMMA JoinsIs ==
  ASSUME AuthTypeOK, NEW o \in Operation
  PROVE  /\ Joins(auth, o) \in AuthRecords
         /\ Joins(auth, o).at = [auth.at EXCEPT ![o] = "queued"]
         /\ Joins(auth, o).guard = auth.guard
         /\ Joins(auth, o).aborted = auth.aborted
         /\ Joins(auth, o).line = Append(auth.line, o)
         /\ Joins(auth, o).found = auth.found
<1> DEFINE m == Moves(auth, o, "queued")
<1>1. "queued" \in Ats BY DEF Ats
<1>2. /\ m \in AuthRecords /\ m.at = [auth.at EXCEPT ![o] = "queued"] /\ m.guard = auth.guard
      /\ m.aborted = auth.aborted /\ m.line = auth.line /\ m.found = auth.found
  BY <1>1, MovesIs
<1>3. Joins(auth, o) = [m EXCEPT !.line = Append(@, o)] BY DEF Joins
<1> HIDE DEF m
<1>4. Append(m.line, o) \in Seq(Operation) BY <1>2 DEF AuthRecords
<1>5. QED BY <1>2, <1>3, <1>4 DEF AuthRecords

\* An operation enters the line; a login whose signal is aborted leaves it at once.
LEMMA EntryKeeps ==
  ASSUME AuthInv, NEW o \in Operation, NEW v \in {"queued", "ended"},
         auth'.at = [auth.at EXCEPT ![o] = v],
         auth'.line = Append(auth.line, o), auth.aborted \subseteq auth'.aborted,
         o \in Flow => Is(o, "reserved") /\ auth'.found = auth.found,
         o \in Removal => Is(o, "new") /\ v = "queued",
         \A d \in Deletion : \/ auth'.found[d] = auth.found[d]
                             \/ d = o /\ auth'.found[d] = {f \in Flow : ~Is(f, "new")}
                                /\ auth.guard \in auth'.aborted \cup {NoFlow},
         credential' = credential
  PROVE  LineInv' /\ TurnInv' /\ StoredInv' /\ FoundInv'
<1> USE DEF AuthInv
<1> DEFINE n == Len(auth.line)
<1>1. auth.at \in [Operation -> Ats] /\ auth.line \in Seq(Operation)
      /\ auth.found \in [Deletion -> SUBSET Flow]
  BY DEF AuthTypeOK, Ats
<1>2. \A x \in Operation : auth'.at[x] = IF x = o THEN v ELSE auth.at[x] BY <1>1
<1>3. /\ n \in Nat /\ Len(auth'.line) = n + 1 /\ auth'.line[n + 1] = o
      /\ \A i \in 1..n : auth'.line[i] = auth.line[i] /\ auth.line[i] \in Operation
  BY <1>1
<1>4. Flow \subseteq Operation /\ Removal \subseteq Operation /\ Deletion \subseteq Removal
      /\ Flow \cap Removal = {}
  BY OperationAssumption DEF Operation, Removal
<1>5. o \in Flow \/ o \in Removal BY DEF Operation
<1>6. ~InLine(o) BY <1>4, <1>5 DEF LineInv, Is
<1> HIDE DEF n
<1>7. \A x : InLine(x)' <=> InLine(x) \/ x = o
  BY <1>3 DEF InLine, n
<1>8. LineInv'
  <2>1. \A i, j \in 1..(n + 1) : auth'.line[i] = auth'.line[j] => i = j
    <3> SUFFICES ASSUME NEW i \in 1..(n + 1), NEW j \in 1..(n + 1), auth'.line[i] = auth'.line[j]
                 PROVE  i = j
      OBVIOUS
    <3>1. CASE i \in 1..n /\ j \in 1..n BY <1>3, <3>1 DEF LineInv, n
    <3>2. CASE i = n + 1 /\ j \in 1..n BY <1>3, <1>6, <3>2 DEF InLine, n
    <3>3. CASE i \in 1..n /\ j = n + 1 BY <1>3, <1>6, <3>3 DEF InLine, n
    <3>4. CASE i = n + 1 /\ j = n + 1 BY <3>4
    <3>5. QED BY <1>3, <3>1, <3>2, <3>3, <3>4
  <2>2. \A x \in Removal : ~Is(x, "new")' <=> InLine(x)'
    BY <1>2, <1>4, <1>7 DEF LineInv, Is
  <2>3. \A f \in Flow :
          /\ auth'.at[f] \in {"queued", "running", "committed", "publishing"} => InLine(f)'
          /\ auth'.at[f] \in {"new", "preflight", "reserved"} => ~InLine(f)'
    BY <1>2, <1>4, <1>7 DEF LineInv
  <2>4. QED BY <1>3, <2>1, <2>2, <2>3 DEF LineInv
<1>9. ~Turned(o)'
  <2>1. o \in Flow => credential # o BY <1>6, FlowAssumption DEF StoredInv
  <2>2. o \in Deletion => v = "queued" BY <1>4
  <2>3. QED BY <1>2, <2>1, <2>2 DEF Turned, Is
<1>10. TurnInv'
  <2> SUFFICES ASSUME NEW i \in 1..(n + 1), Turned(auth.line[i])', NEW j \in 1..(i - 1)
               PROVE  PlaceSettled(auth.line[j])'
    BY <1>3 DEF TurnInv
  <2>1. i \in 1..n BY <1>3, <1>9
  <2>2. j \in 1..n BY <1>3, <2>1
  <2>3. auth.line[i] # o /\ auth.line[j] # o BY <1>6, <2>1, <2>2 DEF InLine, n
  <2>4. auth'.line[i] = auth.line[i] /\ auth'.line[j] = auth.line[j] BY <1>3, <2>1, <2>2
  <2>5. auth'.at[auth.line[i]] = auth.at[auth.line[i]] /\ auth'.at[auth.line[j]] = auth.at[auth.line[j]]
    BY <1>2, <1>3, <2>1, <2>2, <2>3
  <2>6. Turned(auth.line[i]) BY <2>4, <2>5 DEF Turned, Is
  <2>7. PlaceSettled(auth.line[j]) BY <2>1, <2>6 DEF TurnInv, n
  <2>8. QED BY <2>4, <2>5, <2>7 DEF PlaceSettled
<1>11. StoredInv' BY <1>7 DEF StoredInv
<1>12. FoundInv'
  <2> SUFFICES ASSUME NEW d \in Deletion, NEW f \in auth'.found[d]
               PROVE  /\ ~Is(f, "new")'
                      /\ Is(f, "ended")' \/ f \in auth'.aborted
                      /\ Is(f, "running")' =>
                           \E i, j \in 1..(n + 1) :
                             i < j /\ auth'.line[i] = f /\ auth'.line[j] = d
    BY <1>3 DEF FoundInv
  <2>1. CASE auth'.found[d] = auth.found[d]
    <3>1. f \in Flow BY <1>1, <2>1
    <3>2. ~Is(f, "new") /\ (Is(f, "ended") \/ f \in auth.aborted) BY <2>1 DEF FoundInv
    <3>3. ASSUME Is(f, "running")
          PROVE  \E i, j \in 1..(n + 1) : i < j /\ auth'.line[i] = f /\ auth'.line[j] = d
      <4>1. PICK i \in 1..n, j \in 1..n : i < j /\ auth.line[i] = f /\ auth.line[j] = d
        BY <2>1, <3>3 DEF FoundInv, n
      <4>2. i \in 1..(n + 1) /\ j \in 1..(n + 1) BY <1>3
      <4>3. QED BY <1>3, <4>1, <4>2
    <3>4. CASE f = o BY <1>2, <1>4, <3>1, <3>2, <3>4 DEF Is
    <3>5. CASE f # o BY <1>2, <1>4, <3>1, <3>2, <3>3, <3>5 DEF Is
    <3>6. QED BY <3>4, <3>5
  <2>2. CASE d = o /\ auth'.found[d] = {x \in Flow : ~Is(x, "new")}
             /\ auth.guard \in auth'.aborted \cup {NoFlow}
    <3>1. f \in Flow /\ ~Is(f, "new") /\ f # o /\ f # NoFlow
      BY <1>4, <2>2, FlowAssumption
    <3>2. Is(f, "ended") \/ auth.guard = f BY <3>1 DEF GuardInv
    <3>3. auth'.at[f] = auth.at[f] BY <1>2, <1>4, <3>1
    <3>4. Is(f, "running") => \E i \in 1..n : auth.line[i] = f
      BY <3>1 DEF LineInv, InLine, Is, n
    <3>5. ASSUME Is(f, "running")
          PROVE  \E i, j \in 1..(n + 1) : i < j /\ auth'.line[i] = f /\ auth'.line[j] = d
      <4>1. PICK i \in 1..n : auth.line[i] = f BY <3>4, <3>5
      <4>2. i \in 1..(n + 1) /\ n + 1 \in 1..(n + 1) /\ i < n + 1 BY <1>3
      <4>3. QED BY <1>3, <2>2, <4>1, <4>2
    <3>6. QED BY <2>2, <3>1, <3>2, <3>3, <3>5 DEF Is
  <2>3. QED BY <2>1, <2>2
<1>13. QED BY <1>8, <1>10, <1>11, <1>12

\* A login is over.
LEMMA FlowOverKeeps ==
  ASSUME AuthInv, NEW f \in Flow, auth' = FlowOver(auth, f),
         auth.at[f] \in {"preflight", "reserved", "queued", "running", "publishing"},
         provider' = provider, credential' = credential, shutdown' = shutdown
  PROVE  AuthInv'
<1> USE DEF AuthInv
<1>1. /\ auth' \in AuthRecords /\ auth'.at = [auth.at EXCEPT ![f] = "ended"]
      /\ auth'.guard = IF auth.guard = f THEN NoFlow ELSE auth.guard
      /\ auth'.aborted = auth.aborted /\ auth'.line = auth.line /\ auth'.found = auth.found
  BY FlowOverIs
<1>2. AuthTypeOK' BY <1>1 DEF AuthTypeOK, AuthRecords, Ats
<1>3. f \in Operation /\ f \notin Removal /\ f \notin Deletion
  BY OperationAssumption DEF Operation, Removal
<1>4. \A x \in Operation : auth'.at[x] = IF x = f THEN "ended" ELSE auth.at[x]
  BY <1>1 DEF AuthTypeOK
<1>5. Turned(f)' => Turned(f) BY <1>3, <1>4 DEF Turned, Is
<1>6. LineInv' /\ TurnInv' /\ StoredInv' /\ FoundInv'
  BY <1>1, <1>2, <1>3, <1>5, MoveKeeps DEF PlaceSettled
<1>7. GuardInv'
  <2>1. \A x \in Flow : x # f /\ ~Is(x, "new") /\ ~Is(x, "ended") => auth.guard = x /\ auth.guard # f
    BY DEF GuardInv
  <2>2. QED BY <1>1, <1>4, <2>1 DEF GuardInv, Is, Operation
<1>8. ShutdownInv' BY <1>4 DEF ShutdownInv
<1>9. QED BY <1>2, <1>6, <1>7, <1>8

\* A login goes on.
LEMMA FlowMoves ==
  ASSUME AuthInv, NEW f \in Flow, NEW v \in {"preflight", "reserved", "running", "committed", "publishing"},
         auth'.at = [auth.at EXCEPT ![f] = v], auth'.line = auth.line, auth'.found = auth.found,
         auth'.aborted = auth.aborted, auth'.guard = f, auth' \in AuthRecords,
         \/ auth.at[f] \in {"new", "preflight"} /\ v \in {"preflight", "reserved"}
         \/ auth.at[f] \in {"queued", "running", "committed"} /\ v \in {"running", "committed", "publishing"},
         auth.guard \in {NoFlow, f},
         v = "running" => Turn(f) /\ f \notin auth.aborted,
         v = "committed" => Is(f, "running"),
         provider' = provider, shutdown' = shutdown,
         shutdown = "done" => v = "reserved" \/ auth.at[f] \in {"queued", "running", "committed"},
         credential' = credential \/ (v = "committed" /\ credential' = f)
  PROVE  AuthInv'
<1> USE DEF AuthInv
<1>1. AuthTypeOK' BY DEF AuthTypeOK, AuthRecords, Ats
<1>2. f \in Operation /\ f \notin Removal /\ f \notin Deletion
  BY OperationAssumption DEF Operation, Removal
<1>3. \A x \in Operation : auth'.at[x] = IF x = f THEN v ELSE auth.at[x]
  BY DEF AuthTypeOK
<1>4. Turned(f)' => Turned(f) \/ \A x \in Before(f) : PlaceSettled(x)
  BY <1>2, <1>3 DEF Turned, Is, Turn
<1>5. LineInv' /\ TurnInv' /\ StoredInv' /\ FoundInv'
  BY <1>1, <1>2, <1>4, MoveKeeps DEF PlaceSettled, Is
<1>6. GuardInv'
  <2>1. \A x \in Flow : ~Is(x, "new") /\ ~Is(x, "ended") => x = f
    BY FlowAssumption DEF GuardInv
  <2>2. QED BY <1>3, <2>1 DEF GuardInv, Is, Operation
<1>7. ShutdownInv' BY <1>2, <1>3 DEF ShutdownInv
<1>8. QED BY <1>1, <1>5, <1>6, <1>7

\* A removal goes on, or fails.
LEMMA RemovalMoves ==
  ASSUME AuthInv, NEW o \in Removal,
         NEW v \in {"running", "accepting", "cleaning", "removed", "ended", "failed"},
         auth' = Moves(auth, o, v),
         auth.at[o] \in {"queued", "running", "accepting", "cleaning", "removed"},
         Turn(o) \/ auth.at[o] # "queued" \/ v = "failed",
         provider' \in [declared : BOOLEAN, accepted : BOOLEAN, builtIn : BOOLEAN],
         shutdown' = shutdown, credential' \in {credential, NoFlow}
  PROVE  AuthInv'
<1> USE DEF AuthInv
<1>1. o \in Operation /\ o \notin Flow /\ v \in Ats BY OperationAssumption DEF Operation, Ats
<1>2. /\ auth' \in AuthRecords /\ auth'.at = [auth.at EXCEPT ![o] = v]
      /\ auth'.guard = auth.guard
      /\ auth'.aborted = auth.aborted /\ auth'.line = auth.line /\ auth'.found = auth.found
  BY <1>1, MovesIs
<1>3. AuthTypeOK' BY <1>2 DEF AuthTypeOK, AuthRecords, Ats
<1>4. \A x \in Operation : auth'.at[x] = IF x = o THEN v ELSE auth.at[x]
  BY <1>2 DEF AuthTypeOK
<1>5. Turned(o)' => Turned(o) \/ \A x \in Before(o) : PlaceSettled(x)
  BY <1>1, <1>4 DEF Turned, Is, Turn
<1>6. LineInv' /\ TurnInv' /\ StoredInv' /\ FoundInv'
  BY <1>1, <1>2, <1>3, <1>5, MoveKeeps DEF PlaceSettled, Is
<1>7. GuardInv' BY <1>1, <1>2, <1>4 DEF GuardInv, Is, Operation
<1>8. ShutdownInv' BY <1>1, <1>4 DEF ShutdownInv
<1>9. QED BY <1>3, <1>6, <1>7, <1>8

\* A signal is aborted, and nothing else changes in the gateway.
LEMMA AbortKeeps ==
  ASSUME AuthInv, NEW some \in SUBSET Flow, auth' = [auth EXCEPT !.aborted = @ \cup some],
         provider' = provider, credential' = credential,
         shutdown' = shutdown \/ shutdown' = "begun"
  PROVE  AuthInv'
<1> USE DEF AuthInv
<1>1. /\ auth'.at = auth.at /\ auth'.guard = auth.guard /\ auth'.line = auth.line
      /\ auth'.found = auth.found /\ auth'.aborted = auth.aborted \cup some
  BY DEF AuthTypeOK
<1>2. AuthTypeOK' BY DEF AuthTypeOK
<1>3. LineInv' BY <1>1 DEF LineInv, InLine, Is
<1>4. GuardInv' /\ ShutdownInv' BY <1>1 DEF GuardInv, ShutdownInv, Is
<1>5. TurnInv' BY <1>1 DEF TurnInv, Turned, PlaceSettled, Is
<1>6. StoredInv' BY <1>1 DEF StoredInv, InLine
<1>7. FoundInv' BY <1>1 DEF FoundInv, Is
<1>8. QED BY <1>2, <1>3, <1>4, <1>5, <1>6, <1>7

\* A login that moves keeps the invariant, and so does one that is over.
LEMMA FlowSteps ==
  ASSUME AuthInv, NEW f \in Flow,
         \/ PreflightBegins(f) \/ FlowProceeds(f) \/ LoginStores(f) \/ LoginFails(f)
         \/ FlowCancelled(f) \/ FlowTimesOut(f)
  PROVE  AuthInv'
<1>1. AuthTypeOK /\ f \in Operation /\ f # NoFlow
  BY FlowAssumption DEF AuthInv, Operation
<1>2. {"preflight", "reserved", "running", "committed", "publishing"} \subseteq Ats BY DEF Ats
<1>3. ~Is(f, "new") /\ ~Is(f, "ended") => auth.guard = f BY DEF AuthInv, GuardInv
<1>4. CASE PreflightBegins(f)
  <2> DEFINE m == Moves(auth, f, "preflight")
  <2>1. /\ m \in AuthRecords /\ m.at = [auth.at EXCEPT ![f] = "preflight"]
        /\ m.aborted = auth.aborted /\ m.line = auth.line /\ m.found = auth.found
    BY <1>1, <1>2, MovesIs
  <2>2. auth' = [m EXCEPT !.guard = f] BY <1>4 DEF PreflightBegins
  <2> HIDE DEF m
  <2>3. /\ auth' \in AuthRecords /\ auth'.at = [auth.at EXCEPT ![f] = "preflight"]
        /\ auth'.aborted = auth.aborted /\ auth'.line = auth.line /\ auth'.found = auth.found
        /\ auth'.guard = f
    BY <2>1, <2>2 DEF AuthRecords
  <2>4. QED BY <1>4, <2>3, FlowMoves DEF PreflightBegins, Is
<1>5. ASSUME NEW v \in {"reserved", "running", "committed", "publishing"},
             auth' = Moves(auth, f, v), auth.guard = f
      PROVE  /\ auth' \in AuthRecords /\ auth'.at = [auth.at EXCEPT ![f] = v]
             /\ auth'.aborted = auth.aborted /\ auth'.line = auth.line
             /\ auth'.found = auth.found /\ auth'.guard = f
  BY <1>1, <1>2, <1>5, MovesIs
<1>6. CASE PreflightPasses(f)
  <2>1. auth.guard = f BY <1>3, <1>6 DEF PreflightPasses, Is
  <2>2. QED BY <1>5, <1>6, <2>1, FlowMoves DEF PreflightPasses, Is
<1>7. CASE PreflightRefuses(f) BY <1>7, FlowOverKeeps DEF PreflightRefuses, Is
<1>8. CASE RunFlow(f)
  <2>1. CASE auth' = FlowOver(auth, f) BY <1>8, <2>1, FlowOverKeeps DEF RunFlow, Is
  <2>2. CASE auth' = Joins(auth, f) \/ auth' = FlowOver(Joins(auth, f), f)
    <3> DEFINE j == Joins(auth, f)
               v == auth'.at[f]
    <3>1. /\ j \in AuthRecords /\ j.at = [auth.at EXCEPT ![f] = "queued"]
          /\ j.guard = auth.guard /\ j.aborted = auth.aborted
          /\ j.line = Append(auth.line, f) /\ j.found = auth.found
      BY <1>1, JoinsIs
    <3>2. auth' = j \/ auth' = [[j EXCEPT !.at[f] = "ended"] EXCEPT !.guard = IF @ = f THEN NoFlow ELSE @]
      BY <2>2 DEF FlowOver, Moves
    <3> HIDE DEF j
    <3>3. /\ auth' \in AuthRecords
          /\ \/ auth'.at = j.at
             \/ auth'.at = [j.at EXCEPT ![f] = "ended"] /\ auth'.guard = NoFlow
          /\ auth'.guard \in {f, NoFlow}
          /\ auth'.guard = NoFlow \/ (auth'.at = j.at /\ auth'.guard = f)
          /\ auth'.aborted = auth.aborted /\ auth'.line = Append(auth.line, f)
          /\ auth'.found = auth.found
      <4>1. auth.guard = f BY <1>3, <1>8 DEF RunFlow, Is
      <4>2. CASE auth' = j BY <3>1, <4>1, <4>2
      <4>3. CASE auth' = [[j EXCEPT !.at[f] = "ended"] EXCEPT !.guard = IF @ = f THEN NoFlow ELSE @]
        <5>1. [j EXCEPT !.at[f] = "ended"] \in AuthRecords BY <3>1 DEF AuthRecords, Ats
        <5>2. QED BY <3>1, <4>1, <4>3, <5>1 DEF AuthRecords
      <4>4. QED BY <3>2, <4>2, <4>3
    <3>4. auth.at \in [Operation -> Ats] BY <1>1 DEF AuthTypeOK, Ats
    <3>5. v \in {"queued", "ended"} /\ auth'.at = [auth.at EXCEPT ![f] = v]
      BY <1>1, <3>1, <3>3, <3>4
    <3>6. v = "queued" => auth'.guard = f
      BY <1>1, <3>1, <3>3, <3>4
    <3>7. provider' = provider /\ credential' = credential /\ shutdown' = shutdown
          /\ Is(f, "reserved")
      BY <1>8 DEF RunFlow
    <3> HIDE DEF v
    <3>8. AuthTypeOK' BY <1>1, <3>3, <3>7 DEF AuthTypeOK, AuthRecords, Ats
    <3>9. f \notin Removal BY OperationAssumption
    <3>10. \A x \in Operation : auth'.at[x] = IF x = f THEN v ELSE auth.at[x] BY <3>4, <3>5
    <3>11. LineInv' /\ TurnInv' /\ StoredInv' /\ FoundInv'
      BY <1>1, <3>3, <3>5, <3>7, <3>9, EntryKeeps
    <3>12. GuardInv'
      <4>1. \A x \in Flow : ~Is(x, "new") /\ ~Is(x, "ended") => x = f
        BY <1>3, <3>7 DEF AuthInv, GuardInv, Is
      <4>2. QED BY <3>5, <3>6, <3>10, <4>1 DEF GuardInv, Is, Operation
    <3>13. ShutdownInv'
      <4>1. shutdown = "no" \/ v = "ended"
        BY <1>8, <2>2, <1>1, <3>4, <3>10, FlowOverIs DEF RunFlow
      <4>2. QED BY <3>7, <3>10, <4>1 DEF AuthInv, ShutdownInv
    <3>14. QED BY <3>8, <3>11, <3>12, <3>13 DEF AuthInv
  <2>3. QED BY <1>8, <2>1, <2>2 DEF RunFlow, AuthTypeOK, AuthInv
<1>9. CASE FlowTurn(f)
  <2>1. auth.guard = f /\ Is(f, "queued") BY <1>3, <1>9 DEF FlowTurn, Turn, Is
  <2>2. CASE provider.accepted BY <1>5, <1>9, <2>1, <2>2, FlowMoves DEF FlowTurn, Is
  <2>3. CASE ~provider.accepted BY <1>9, <2>1, <2>3, FlowOverKeeps DEF FlowTurn, Is
  <2>4. QED BY <2>2, <2>3
<1>10. CASE AbortedInLine(f) BY <1>10, FlowOverKeeps DEF AbortedInLine, Is
<1>11. CASE LoginPublishes(f)
  <2>1. auth.guard = f BY <1>3, <1>11 DEF LoginPublishes, Is
  <2>2. QED BY <1>5, <1>11, <2>1, FlowMoves DEF LoginPublishes, Is
<1>12. CASE LoginEnds(f) BY <1>12, FlowOverKeeps DEF LoginEnds, Is
<1>13. CASE LoginStores(f)
  <2>1. auth.guard = f BY <1>3, <1>13 DEF LoginStores, Is
  <2>2. QED BY <1>5, <1>13, <2>1, FlowMoves DEF LoginStores, Is
<1>14. CASE LoginFails(f) BY <1>14, FlowOverKeeps DEF LoginFails, Is
<1>15. CASE FlowCancelled(f) \/ FlowTimesOut(f)
  <2>1. PICK some \in SUBSET Flow : auth' = [auth EXCEPT !.aborted = @ \cup some]
    BY <1>15 DEF FlowCancelled, FlowTimesOut, Aborts
  <2>2. UNCHANGED <<provider, credential, shutdown>> BY <1>15 DEF FlowCancelled, FlowTimesOut
  <2>3. QED BY <2>1, <2>2, AbortKeeps
<1>16. QED
  BY <1>4, <1>6, <1>7, <1>8, <1>9, <1>10, <1>11, <1>12, <1>13, <1>14, <1>15 DEF FlowProceeds

\* A logout or a deletion takes its place in the line.
LEMMA RemovalAsked ==
  ASSUME AuthInv, NEW o \in Removal,
         \/ o \in Logout /\ LogoutAsked(o)
         \/ o \in Deletion /\ ProviderDeletionAsked(o)
  PROVE  AuthInv'
<1> DEFINE j == Joins(auth, o)
<1>1. AuthTypeOK /\ o \in Operation /\ o \notin Flow
  BY OperationAssumption DEF AuthInv, Operation
<1>2. /\ j \in AuthRecords /\ j.at = [auth.at EXCEPT ![o] = "queued"]
      /\ j.guard = auth.guard /\ j.aborted = auth.aborted
      /\ j.line = Append(auth.line, o) /\ j.found = auth.found
  BY <1>1, JoinsIs
<1>3. Is(o, "new") /\ shutdown = "no" /\ UNCHANGED <<provider, credential, shutdown>>
  BY DEF LogoutAsked, ProviderDeletionAsked
<1>4. \/ auth' = j
      \/ o \in Deletion
         /\ auth' = [j EXCEPT !.aborted = @ \cup ({auth.guard} \ {NoFlow}),
                             !.found[o] = {f \in Flow : ~Is(f, "new")}]
  BY DEF LogoutAsked, ProviderDeletionAsked
<1> HIDE DEF j
<1> DEFINE asked == {f \in Flow : ~Is(f, "new")}
           more == {auth.guard} \ {NoFlow}
<1>5. /\ auth' \in AuthRecords /\ auth'.at = [auth.at EXCEPT ![o] = "queued"]
      /\ auth'.guard = auth.guard /\ auth.aborted \subseteq auth'.aborted
      /\ auth'.line = Append(auth.line, o)
      /\ \/ auth'.found = auth.found
         \/ /\ auth'.found = [auth.found EXCEPT ![o] = asked]
            /\ auth.guard \in auth'.aborted \cup {NoFlow}
  <2>1. CASE auth' = j BY <1>2, <2>1
  <2>2. CASE o \in Deletion /\ auth' = [j EXCEPT !.aborted = @ \cup more, !.found[o] = asked]
    <3>1. more \in SUBSET Flow /\ asked \in SUBSET Flow BY <1>1 DEF AuthTypeOK
    <3>2. auth.guard \in more \cup {NoFlow} OBVIOUS
    <3> HIDE DEF asked, more
    <3>3. [j.found EXCEPT ![o] = asked] \in [Deletion -> SUBSET Flow]
      BY <1>2, <3>1 DEF AuthRecords
    <3>4. auth' = [j EXCEPT !.aborted = j.aborted \cup more, !.found = [j.found EXCEPT ![o] = asked]]
      BY <1>2, <2>2 DEF AuthRecords
    <3> DEFINE g == [j.found EXCEPT ![o] = asked]
    <3>5. auth' = [j EXCEPT !.aborted = j.aborted \cup more, !.found = g] BY <3>4
    <3>6. g \in [Deletion -> SUBSET Flow] BY <3>3
    <3>7. g = [auth.found EXCEPT ![o] = asked] BY <1>2
    <3> HIDE DEF g
    <3>8. /\ auth' \in AuthRecords /\ auth'.at = j.at /\ auth'.guard = j.guard
          /\ auth'.line = j.line /\ auth'.aborted = j.aborted \cup more /\ auth'.found = g
      BY <1>2, <3>1, <3>5, <3>6 DEF AuthRecords
    <3>9. QED BY <1>2, <3>2, <3>7, <3>8
  <2>3. QED BY <1>4, <2>1, <2>2
<1> HIDE DEF more
<1>6. AuthTypeOK' BY <1>1, <1>3, <1>5 DEF AuthTypeOK, AuthRecords, Ats
<1>7. \A x \in Operation : auth'.at[x] = IF x = o THEN "queued" ELSE auth.at[x]
  BY <1>1, <1>5 DEF AuthTypeOK
<1>8. \A d \in Deletion : \/ auth'.found[d] = auth.found[d]
                          \/ d = o /\ auth'.found[d] = asked
                             /\ auth.guard \in auth'.aborted \cup {NoFlow}
  <2> HIDE DEF asked
  <2>1. QED BY <1>1, <1>5 DEF AuthTypeOK
<1>9. LineInv' /\ TurnInv' /\ StoredInv' /\ FoundInv'
  BY <1>1, <1>3, <1>5, <1>8, EntryKeeps
<1>10. GuardInv' BY <1>1, <1>5, <1>7 DEF AuthInv, GuardInv, Is, Operation
<1>11. ShutdownInv' BY <1>3 DEF ShutdownInv
<1>12. QED BY <1>6, <1>9, <1>10, <1>11 DEF AuthInv

\* Each step of the gateway keeps the invariant.
LEMMA AuthStep ==
  ASSUME AuthInv, [AuthNext]_authVars
  PROVE  AuthInv'
<1>1. AuthTypeOK /\ Deletion \subseteq Removal /\ Logout \subseteq Removal
      /\ {"running", "accepting", "cleaning", "removed", "ended", "failed"} \subseteq Ats
  BY DEF AuthInv, Removal, Ats
<1>2. ASSUME NEW f \in Flow,
             \/ PreflightBegins(f) \/ FlowProceeds(f) \/ LoginStores(f) \/ LoginFails(f)
             \/ FlowCancelled(f) \/ FlowTimesOut(f)
      PROVE  AuthInv'
  BY <1>2, FlowSteps
<1>3. ASSUME NEW o \in Logout, LogoutAsked(o) PROVE AuthInv' BY <1>1, <1>3, RemovalAsked
<1>4. ASSUME NEW d \in Deletion, ProviderDeletionAsked(d) PROVE AuthInv' BY <1>1, <1>4, RemovalAsked
<1>5. ASSUME NEW d \in Deletion, DeclarationRemoved(d) PROVE AuthInv'
  <2>1. provider' \in [declared : BOOLEAN, accepted : BOOLEAN, builtIn : BOOLEAN]
    BY <1>1, <1>5 DEF DeclarationRemoved, AuthTypeOK
  <2>2. QED BY <1>1, <1>5, <2>1, RemovalMoves DEF DeclarationRemoved, Is
<1>6. ASSUME NEW d \in Deletion, DeletionAccepted(d) PROVE AuthInv'
  <2>1. provider' \in [declared : BOOLEAN, accepted : BOOLEAN, builtIn : BOOLEAN]
    BY <1>1, <1>6 DEF DeletionAccepted, AuthTypeOK
  <2>2. QED BY <1>1, <1>6, <2>1, RemovalMoves DEF DeletionAccepted, Is
<1>7. ASSUME NEW o \in Removal, RemovalTurn(o) PROVE AuthInv'
  BY <1>1, <1>7, RemovalMoves DEF RemovalTurn, Turn, Is, AuthTypeOK
<1>8. ASSUME NEW o \in Removal, RemovalCut(o) PROVE AuthInv'
  BY <1>1, <1>8, RemovalMoves DEF RemovalCut, Is, AuthTypeOK
<1>9. ASSUME NEW o \in Removal, CredentialRemoved(o) PROVE AuthInv'
  BY <1>1, <1>9, RemovalMoves DEF CredentialRemoved, Cleans, Is, AuthTypeOK
<1>10. ASSUME NEW o \in Removal, RemovalEnds(o) PROVE AuthInv'
  BY <1>1, <1>10, RemovalMoves DEF RemovalEnds, Is, AuthTypeOK
<1>11. ASSUME NEW o \in Removal, RemovalFails(o) PROVE AuthInv'
  BY <1>1, <1>11, RemovalMoves DEF RemovalFails, Is, AuthTypeOK
<1>12. CASE ProviderDeclared
  <2>1. UNCHANGED <<auth, credential, shutdown>> BY <1>12 DEF ProviderDeclared
  <2>2. AuthTypeOK' BY <1>1, <1>12 DEF ProviderDeclared, AuthTypeOK
  <2>3. QED
    BY <2>1, <2>2 DEF AuthInv, LineInv, GuardInv, TurnInv, StoredInv, FoundInv, ShutdownInv,
                      InLine, Turned, PlaceSettled, Is
<1>13. CASE AuthShutdown
  <2>1. PICK some \in SUBSET Flow : auth' = [auth EXCEPT !.aborted = @ \cup some]
    BY <1>1, <1>13 DEF AuthShutdown, AuthTypeOK
  <2>2. provider' = provider /\ credential' = credential /\ shutdown' = "begun"
    BY <1>13 DEF AuthShutdown
  <2>3. QED BY <2>1, <2>2, AbortKeeps
<1>14. CASE AuthShutdownEnds
  <2>1. UNCHANGED <<auth, provider, credential>> /\ shutdown' = "done"
        /\ \A o \in Operation : auth.at[o] \in {"new", "reserved", "ended", "failed"}
    BY <1>14 DEF AuthShutdownEnds
  <2>2. AuthTypeOK' BY <1>1, <2>1 DEF AuthTypeOK
  <2>3. QED
    BY <2>1, <2>2 DEF AuthInv, LineInv, GuardInv, TurnInv, StoredInv, FoundInv, ShutdownInv,
                      InLine, Turned, PlaceSettled, Is
<1>15. CASE UNCHANGED authVars
  BY <1>15 DEF authVars, AuthInv, AuthTypeOK, LineInv, GuardInv, TurnInv, StoredInv, FoundInv,
               ShutdownInv, InLine, Turned, PlaceSettled, Is
<1>16. QED
  BY <1>2, <1>3, <1>4, <1>5, <1>6, <1>7, <1>8, <1>9, <1>10, <1>11, <1>12, <1>13, <1>14, <1>15
  DEF AuthNext

\* The gateway's state is well-formed, everyone has one place in the line, and whoever
\* comes to its turn finds all before it settled (auth-gateway.ts: the line of a
\* provider).
THEOREM AuthConsistent == AuthSpec => []AuthInv
BY AuthBegins, AuthStep, PTL DEF AuthSpec

\* The gateway's state keeps its type: nobody is in the line who is not there, and the
\* guard is a login or nobody (auth-gateway.ts).
THEOREM AuthTypeCorrect == AuthSpec => []AuthTypeOK
<1>1. AuthInv => AuthTypeOK BY DEF AuthInv
<1>2. QED BY <1>1, AuthConsistent, PTL

\* A removal takes away the credential of a login before it in the line only.
LEMMA RemovalTakesEarlier ==
  ASSUME AuthInv, NEW o \in Removal, CredentialRemoved(o), credential # NoFlow
  PROVE  credential \in Before(o)
<1>1. auth.line \in Seq(Operation) /\ credential \in Flow
  BY DEF AuthInv, AuthTypeOK
<1>2. auth.at[o] \in {"running", "cleaning"} BY DEF CredentialRemoved, Cleans, Is
<1>3. PICK i \in 1..Len(auth.line) : auth.line[i] = o
  BY <1>2 DEF AuthInv, LineInv, InLine, Is
<1>4. PICK j \in 1..Len(auth.line) : auth.line[j] = credential
  BY DEF AuthInv, StoredInv, InLine
<1>5. i # j BY <1>1, <1>3, <1>4, OperationAssumption
<1>6. ~(i < j)
  <2>1. Turned(auth.line[j]) BY <1>1, <1>4 DEF Turned
  <2>2. \A k \in 1..(j - 1) : PlaceSettled(auth.line[k]) BY <2>1 DEF AuthInv, TurnInv
  <2>3. ~PlaceSettled(auth.line[i]) BY <1>2, <1>3 DEF PlaceSettled
  <2>4. QED BY <1>1, <2>2, <2>3
<1>7. j \in 1..(i - 1) BY <1>1, <1>5, <1>6
<1>8. Before(o) = {auth.line[k] : k \in 1..(i - 1)} BY <1>3, PlaceInLine
<1>9. QED BY <1>4, <1>7, <1>8

\* A login that a deletion found does not store once that deletion has ended well.
LEMMA FoundDoesNotStore ==
  ASSUME AuthInv, NEW f \in Flow, LoginStores(f)
  PROVE  f \notin Outlived
<1> SUFFICES ASSUME NEW d \in Deletion, Is(d, "ended"), f \in auth.found[d] PROVE FALSE
  BY DEF Outlived
<1>1. Is(f, "running") BY DEF LoginStores
<1>2. PICK i \in 1..Len(auth.line), j \in 1..Len(auth.line) :
        i < j /\ auth.line[i] = f /\ auth.line[j] = d
  BY <1>1 DEF AuthInv, FoundInv
<1>3. Turned(auth.line[j]) BY <1>2 DEF Turned
<1>4. i \in 1..(j - 1) BY <1>2
<1>5. PlaceSettled(f) BY <1>2, <1>3, <1>4 DEF AuthInv, TurnInv
<1>6. QED BY <1>1, <1>5 DEF PlaceSettled, Is

\* An operation has removed the credential in its own step only.
LEMMA RemovedByCleaning ==
  ASSUME AuthInv, AuthNext, NEW o \in Removal, auth'.at[o] = "removed", ~Is(o, "removed")
  PROVE  CredentialRemoved(o)
<1>1. AuthTypeOK /\ o \in Operation /\ Flow \subseteq Operation /\ Removal \subseteq Operation
      /\ Deletion \subseteq Removal /\ Logout \subseteq Removal /\ o \notin Flow
      /\ auth.at \in [Operation -> Ats]
  BY OperationAssumption DEF AuthInv, Operation, Removal, AuthTypeOK, Ats
<1>2. ASSUME NEW x \in Operation, NEW v \in Ats, auth' = Moves(auth, x, v)
      PROVE  x = o /\ v = "removed"
  <2>1. auth'.at = [auth.at EXCEPT ![x] = v] BY <1>1, <1>2, MovesIs
  <2>2. QED BY <1>1, <2>1 DEF AuthTypeOK, Is
<1>3. {"preflight", "reserved", "running", "accepting", "cleaning", "committed", "publishing",
       "ended", "failed", "removed"} \subseteq Ats
  BY DEF Ats
<1>4. auth'.at # auth.at BY DEF Is
<1>5. ASSUME NEW f \in Flow PROVE auth' # FlowOver(auth, f)
  <2>1. FlowOver(auth, f).at = [auth.at EXCEPT ![f] = "ended"] BY <1>1, FlowOverIs
  <2>2. QED BY <1>1, <2>1 DEF Is
<1>6. ASSUME NEW x \in Operation PROVE Joins(auth, x).at[o] # "removed"
  <2>1. Joins(auth, x).at = [auth.at EXCEPT ![x] = "queued"] BY <1>1, JoinsIs
  <2>2. QED BY <1>1, <2>1 DEF Is
<1>7. ASSUME NEW f \in Flow
      PROVE  /\ ~PreflightBegins(f) /\ ~FlowProceeds(f) /\ ~LoginStores(f) /\ ~LoginFails(f)
             /\ ~FlowCancelled(f) /\ ~FlowTimesOut(f)
  <2>1. f \in Operation /\ f # o BY <1>1
  <2>2. ~PreflightBegins(f)
    <3>1. ASSUME PreflightBegins(f) PROVE auth'.at = Moves(auth, f, "preflight").at
      BY <3>1, <1>1, <1>3, <2>1, MovesIs DEF PreflightBegins, AuthRecords
    <3>2. Moves(auth, f, "preflight").at = [auth.at EXCEPT ![f] = "preflight"]
      BY <1>1, <1>3, <2>1, MovesIs
    <3>3. QED BY <1>1, <2>1, <3>1, <3>2 DEF Is
  <2>3. ~RunFlow(f)
    <3>1. FlowOver(Joins(auth, f), f).at[o] = auth.at[o]
      <4> DEFINE j == Joins(auth, f)
      <4>1. j \in AuthRecords /\ j.at = [auth.at EXCEPT ![f] = "queued"] BY <1>1, <2>1, JoinsIs
      <4>2. FlowOver(j, f).at = [j.at EXCEPT ![f] = "ended"]
        <5> HIDE DEF j
        <5>1. QED BY <4>1 DEF FlowOver, Moves, AuthRecords
      <4>3. QED BY <1>1, <2>1, <4>1, <4>2 DEF AuthTypeOK
    <3>2. RunFlow(f) => \/ auth' = FlowOver(auth, f)
                        \/ auth' = FlowOver(Joins(auth, f), f)
                        \/ auth' = Joins(auth, f)
      BY <1>1 DEF RunFlow
    <3>3. QED BY <1>5, <1>6, <2>1, <3>1, <3>2 DEF Is
  <2>4. ~FlowCancelled(f) /\ ~FlowTimesOut(f)
    <3>1. Aborts(f) => auth'.at = auth.at BY <1>1 DEF Aborts, AuthTypeOK
    <3>2. QED BY <1>4, <3>1 DEF FlowCancelled, FlowTimesOut
  <2>5. ~PreflightPasses(f) /\ ~LoginStores(f) /\ ~LoginPublishes(f) /\ ~FlowTurn(f)
    BY <1>2, <1>3, <1>5, <2>1 DEF PreflightPasses, LoginStores, LoginPublishes, FlowTurn
  <2>6. ~PreflightRefuses(f) /\ ~AbortedInLine(f) /\ ~LoginEnds(f) /\ ~LoginFails(f)
    BY <1>5 DEF PreflightRefuses, AbortedInLine, LoginEnds, LoginFails
  <2>7. QED BY <2>2, <2>3, <2>4, <2>5, <2>6 DEF FlowProceeds
<1>8. ASSUME NEW x \in Logout PROVE ~LogoutAsked(x)
  BY <1>1, <1>6 DEF LogoutAsked
<1>9. ASSUME NEW x \in Deletion PROVE ~ProviderDeletionAsked(x)
  <2> DEFINE j == Joins(auth, x)
  <2>1. j \in AuthRecords BY <1>1, JoinsIs
  <2>2. j.at[o] # "removed" BY <1>1, <1>6
  <2>3. ProviderDeletionAsked(x) => auth'.at = j.at
    <3>1. ProviderDeletionAsked(x) =>
            auth' = [j EXCEPT !.aborted = @ \cup ({auth.guard} \ {NoFlow}),
                              !.found[x] = {f \in Flow : ~Is(f, "new")}]
      BY DEF ProviderDeletionAsked
    <3> HIDE DEF j
    <3>2. QED BY <2>1, <3>1 DEF AuthRecords
  <2>4. QED BY <2>2, <2>3
<1>10. ASSUME NEW x \in Deletion PROVE ~DeclarationRemoved(x) /\ ~DeletionAccepted(x)
  BY <1>1, <1>2, <1>3 DEF DeclarationRemoved, DeletionAccepted
<1>11. ASSUME NEW x \in Removal
       PROVE  ~RemovalTurn(x) /\ ~RemovalCut(x) /\ ~RemovalEnds(x) /\ ~RemovalFails(x)
              /\ (CredentialRemoved(x) => x = o)
  BY <1>1, <1>2, <1>3 DEF RemovalTurn, RemovalCut, RemovalEnds, RemovalFails, CredentialRemoved
<1>12. ~ProviderDeclared /\ ~AuthShutdown /\ ~AuthShutdownEnds
  BY <1>1, <1>4 DEF ProviderDeclared, AuthShutdown, AuthShutdownEnds, AuthTypeOK
<1>13. QED BY <1>7, <1>8, <1>9, <1>10, <1>11, <1>12 DEF AuthNext

\* The credential follows the order of the requests: no login that a deletion found
\* outlives it, a removal takes only what was stored before it in the line, and
\* nothing changes after the shutdown.
THEOREM CredentialFollows == AuthSpec => CredentialFollowsRequests
<1> DEFINE A == /\ credential' \in Flow \ {credential} => credential' \notin Outlived
                /\ \A o \in Removal :
                     auth'.at[o] = "removed" /\ ~Is(o, "removed") /\ credential # NoFlow
                       => credential \in Before(o)
                /\ shutdown = "done" => credential' = credential
<1>1. AuthInv /\ [AuthNext]_authVars => [A]_authVars
  <2> SUFFICES ASSUME AuthInv, AuthNext PROVE A OBVIOUS
  <2>1. \A f \in Flow : f # NoFlow BY FlowAssumption
  <2>2. \/ credential' = credential
        \/ \E f \in Flow : LoginStores(f) /\ credential' = f
        \/ \E o \in Removal : CredentialRemoved(o) /\ credential' = NoFlow
    BY DEF AuthNext, PreflightBegins, FlowProceeds, LoginStores, LoginFails, FlowCancelled,
           FlowTimesOut, PreflightPasses, PreflightRefuses, RunFlow, FlowTurn, AbortedInLine,
           LoginPublishes, LoginEnds, LogoutAsked, ProviderDeletionAsked, DeclarationRemoved,
           DeletionAccepted, RemovalTurn, RemovalCut, CredentialRemoved, RemovalEnds,
           RemovalFails, ProviderDeclared, AuthShutdown, AuthShutdownEnds
  <2>3. credential' \in Flow \ {credential} => credential' \notin Outlived
    BY <2>1, <2>2, FoundDoesNotStore
  <2>4. shutdown = "done" => credential' = credential
    <3>1. Flow \subseteq Operation /\ Removal \subseteq Operation BY DEF Operation
    <3>2. \A f \in Flow : LoginStores(f) => Is(f, "running") BY DEF LoginStores
    <3>3. \A o \in Removal : CredentialRemoved(o) => auth.at[o] \in {"running", "cleaning"}
      BY DEF CredentialRemoved, Cleans, Is
    <3>4. QED BY <2>2, <3>1, <3>2, <3>3 DEF AuthInv, ShutdownInv, Is
  <2>5. ASSUME NEW o \in Removal, auth'.at[o] = "removed", ~Is(o, "removed"), credential # NoFlow
        PROVE  credential \in Before(o)
    <3>1. CredentialRemoved(o) BY <2>5, RemovedByCleaning
    <3>2. QED BY <2>5, <3>1, RemovalTakesEarlier
  <2>6. QED BY <2>3, <2>4, <2>5
<1>2. QED BY <1>1, AuthConsistent, PTL DEF AuthSpec, CredentialFollowsRequests

-----------------------------------------------------------------------------
(* The event channel *)

Pages == [life : [View -> {"new", "wanted", "gone"}], ended : SUBSET View,
          retrying : SUBSET View, link : {"none", "connecting", "open", "waiting"},
          put : [at : {"none", "sent", "applied", "refused"}, set : SUBSET View],
          changed : BOOLEAN]

Sources == [source : Nat, at : {"none", "opened", "live", "sent"}]

Frames == [type : {"snapshot", "event", "end"}, view : View, source : Nat]

\* What the connection is at each end: without a channel nothing is on its way, and a view
\* whose stream has ended has its timer.
ConnectionInv ==
  /\ page.put.at = "none" => page.put = NoPut
  /\ page.link # "open" => page.put = NoPut /\ page.retrying = {}
  /\ page.link = "open" => page.ended = page.retrying /\ (page.put = NoPut => ~page.changed)
  /\ page.retrying \subseteq Wanted(page)
  /\ channel.open => page.link = "open"
  /\ ~channel.open => channel = NoChannel /\ pipe = <<>>
  /\ page.put.at = "refused" => ~channel.open
  /\ \A v \in View : channel.serves[v].at = "none" => channel.serves[v] = NoSource

\* Those the page will be told of that their stream has ended.
Ending == {v \in View : \E i \in 1..Len(pipe) : pipe[i].type = "end" /\ pipe[i].view = v}

\* A request that nothing has overtaken asks for what is wanted, and the server then serves it.
AgreeInv ==
  page.link = "open" /\ channel.open /\ ~page.changed =>
    /\ page.put.at = "sent" =>
         /\ page.put.set \subseteq Wanted(page)
         /\ Wanted(page) \subseteq page.put.set \cup page.ended
    /\ page.put.at \in {"none", "applied"} =>
         /\ Served \subseteq Wanted(page)
         /\ Wanted(page) \subseteq Served \cup page.ended \cup Ending

\* Nobody knows of a view before it subscribes.
NewInv ==
  \A v \in View : page.life[v] = "new" =>
    /\ v \notin page.put.set /\ v \notin Served
    /\ \A i \in 1..Len(pipe) : pipe[i].view # v

\* A view has the snapshot of its source, or finds it in the pipe before the k-th frame.
Given(v, k) ==
  \/ view[v].snapshot = channel.serves[v].source
  \/ \E j \in 1..(k - 1) : pipe[j].view = v /\ pipe[j].type = "snapshot"

Follows(v) ==
  /\ \A i \in 1..Len(pipe) : pipe[i].view = v =>
       /\ channel.serves[v].at \in {"live", "sent"}
       /\ pipe[i].source = channel.serves[v].source
       /\ pipe[i].type # "end"
       /\ pipe[i].type = "event" => Given(v, i)
  /\ channel.serves[v].at \in {"live", "sent"} => Given(v, Len(pipe) + 1)

\* As long as none has ended, a view has one source in a connection, whose frames come in
\* their order.
OneSourceInv ==
  ends = 0 =>
    /\ page.ended = {}
    /\ page.put.at = "sent" => Served \cap Wanted(page) \subseteq page.put.set
    /\ EventsFollowTheirSnapshot
    /\ \A v \in Wanted(page) : Follows(v)

EventInv == EventTypeOK /\ ConnectionInv /\ AgreeInv /\ NewInv /\ OneSourceInv

-----------------------------------------------------------------------------
\* The types of the parts.
LEMMA EventTypes ==
  EventTypeOK <=>
    /\ page \in Pages
    /\ view \in [View -> [snapshot : Nat, latest : Nat]]
    /\ channel \in [open : BOOLEAN, serves : [View -> Sources]]
    /\ pipe \in Seq(Frames)
    /\ opened \in Nat /\ ends \in 0..MaxEnds /\ losses \in 0..MaxLosses
BY DEF EventTypeOK, Pages, Sources, Frames

\* A frame that is appended is the last, and leaves the others where they are.
LEMMA AppendedIs ==
  ASSUME NEW s \in Seq(Frames), NEW f \in Frames
  PROVE  /\ Append(s, f) \in Seq(Frames)
         /\ Len(Append(s, f)) = Len(s) + 1 /\ Len(s) \in Nat
         /\ \A i \in 1..Len(s) : Append(s, f)[i] = s[i]
         /\ Append(s, f)[Len(s) + 1] = f
BY AppendProperties, LenProperties

\* The first frame is taken, the others move up.
LEMMA TakenIs ==
  ASSUME NEW s \in Seq(Frames), s # <<>>
  PROVE  /\ Head(s) \in Frames /\ Head(s) = s[1]
         /\ Tail(s) \in Seq(Frames)
         /\ Len(s) \in Nat /\ Len(s) > 0 /\ Len(Tail(s)) = Len(s) - 1
         /\ \A i \in 1..Len(Tail(s)) : Tail(s)[i] = s[i + 1]
BY HeadTailProperties, LenProperties, EmptySeq

\* Nothing is in an empty pipe.
LEMMA NothingIsIn ==
  <<>> \in Seq(Frames) /\ Len(<<>>) = 0 /\ \A i \in 1..Len(<<>>) : FALSE
OBVIOUS

\* sync writes a request if none is under way, and otherwise notes that it must.
LEMMA SyncedIs ==
  ASSUME NEW p \in Pages
  PROVE  /\ Synced(p) \in Pages
         /\ Synced(p).life = p.life /\ Synced(p).link = p.link
         /\ Synced(p).ended = p.ended /\ Synced(p).retrying = p.retrying
         /\ Wanted(Synced(p)) = Wanted(p) /\ Wanted(p) \subseteq View
         /\ p.link = "open" /\ p.put = NoPut =>
              /\ Synced(p).put.at = "sent" /\ Synced(p).put.set = Wanted(p) \ p.ended
              /\ ~Synced(p).changed
         /\ ~(p.link = "open" /\ p.put = NoPut) => Synced(p).put = p.put /\ Synced(p).changed
BY DEF Synced, Pages, Wanted

\* A connection that is over has no request and no timers, and starts again unless nobody
\* is left.
LEMMA ReconnectsIs ==
  ASSUME NEW p \in Pages
  PROVE  /\ Reconnects(p) \in Pages /\ Stopped(p) \in Pages
         /\ Reconnects(p).life = p.life /\ Stopped(p).life = p.life
         /\ Reconnects(p).ended = p.ended /\ Stopped(p).ended = p.ended
         /\ Reconnects(p).link # "open" /\ Stopped(p).link = "none"
         /\ Reconnects(p).put = NoPut /\ Stopped(p).put = NoPut
         /\ Reconnects(p).retrying = {} /\ Stopped(p).retrying = {}
         /\ Wanted(Reconnects(p)) = Wanted(p) /\ Wanted(Stopped(p)) = Wanted(p)
BY DEF Reconnects, Stopped, Pages, Wanted, NoPut

\* There is no channel with sources of its own.
LEMMA NoChannelIs ==
  /\ NoChannel \in [open : BOOLEAN, serves : [View -> Sources]]
  /\ ~NoChannel.open
  /\ \A v \in View : NoChannel.serves[v] = NoSource /\ NoChannel.serves[v].at = "none"
BY DEF NoChannel, NoSource, Sources

\* At first nobody has subscribed.
LEMMA EventsBegin ==
  ASSUME EventInit
  PROVE  EventInv
<1>1. EventTypeOK
  BY EventTypes, NoChannelIs, NothingIsIn, EventAssumption DEF EventInit, Pages, NoPut
<1>2. ConnectionInv
  BY NoChannelIs DEF EventInit, ConnectionInv
<1>3. AgreeInv /\ NewInv /\ OneSourceInv
  BY NoChannelIs, NothingIsIn
  DEF EventInit, AgreeInv, NewInv, OneSourceInv, NoPut, Served, Wanted, EventsFollowTheirSnapshot
<1> QED
  BY <1>1, <1>2, <1>3 DEF EventInv

-----------------------------------------------------------------------------
\* The channel is gone, and the page has stopped: only what the views were last given is left.
LEMMA LossKeeps ==
  ASSUME EventInv, NEW p \in Pages,
         page' \in {Stopped(p), Reconnects(p)}, channel' = NoChannel, pipe' = <<>>,
         \A v \in View : p.life[v] = "new" => page.life[v] = "new",
         p.ended \subseteq page.ended,
         UNCHANGED <<view, opened, ends>>, losses' \in 0..MaxLosses
  PROVE  EventInv'
<1>1. /\ page' \in Pages /\ page'.life = p.life /\ page'.ended = p.ended
      /\ page'.link # "open" /\ page'.put = NoPut /\ page'.retrying = {}
  BY ReconnectsIs
<1>2. EventTypeOK'
  BY <1>1, EventTypes, NoChannelIs, NothingIsIn DEF EventInv, EventTypeOK, Pages, Sources, Frames
<1>3. ConnectionInv'
  BY <1>1, NoChannelIs DEF ConnectionInv
<1>4. AgreeInv'
  BY <1>1 DEF AgreeInv
<1>5. NewInv'
  BY <1>1, NoChannelIs, NothingIsIn DEF NewInv, Served, NoPut
<1>6. OneSourceInv'
  BY <1>1, NoChannelIs, NothingIsIn
  DEF EventInv, OneSourceInv, EventsFollowTheirSnapshot, NoPut, Follows, Given, Wanted
<1> QED
  BY <1>2, <1>3, <1>4, <1>5, <1>6 DEF EventInv

\* The page syncs after a change of what is wanted.
LEMMA SyncKeeps ==
  ASSUME EventInv, NEW p \in Pages, page' = Synced(p),
         UNCHANGED <<view, channel, pipe, opened, ends, losses>>,
         p.link = page.link \/ (page.link # "open" /\ p.link # "open"),
         p.put \in {page.put, NoPut},
         p.link # "open" => p.retrying = {},
         p.link = "open" => p.ended = p.retrying,
         p.ended \subseteq page.ended, p.retrying \subseteq Wanted(p),
         \A v \in View : /\ p.life[v] = "new" => page.life[v] = "new"
                         /\ p.life[v] = "wanted" => page.life[v] \in {"new", "wanted"}
  PROVE  EventInv'
<1>1. /\ page' \in Pages /\ page'.life = p.life /\ page'.link = p.link
      /\ page'.ended = p.ended /\ page'.retrying = p.retrying
      /\ Wanted(page') = Wanted(p) /\ Wanted(p) \subseteq View
      /\ p.link = "open" /\ p.put = NoPut =>
           page'.put.at = "sent" /\ page'.put.set = Wanted(p) \ p.ended /\ ~page'.changed
      /\ ~(p.link = "open" /\ p.put = NoPut) => page'.put = p.put /\ page'.changed
  BY SyncedIs
<1>2. EventTypeOK'
  BY <1>1, EventTypes DEF EventInv, EventTypeOK, Pages, Sources, Frames
<1>3. ConnectionInv'
  BY <1>1 DEF EventInv, ConnectionInv, NoPut
<1>4. AgreeInv'
  BY <1>1 DEF AgreeInv
<1>5. NewInv'
  BY <1>1 DEF EventInv, NewInv, Served, NoPut, Wanted
<1>6. OneSourceInv'
  <2> SUFFICES ASSUME ends = 0 PROVE OneSourceInv'
    BY DEF OneSourceInv
  <2>1. page'.ended = {} /\ EventsFollowTheirSnapshot'
    BY <1>1 DEF EventInv, OneSourceInv, EventsFollowTheirSnapshot
  <2>2. \A v \in Served \cap Wanted(p) : v \in Wanted(page)
    BY DEF EventInv, NewInv, Served, Wanted
  <2>3. page'.put.at = "sent" => Served' \cap Wanted(page') \subseteq page'.put.set
    BY <1>1, <2>1, <2>2 DEF EventInv, OneSourceInv, Served, NoPut
  <2>4. ASSUME NEW v \in Wanted(p) PROVE Follows(v)'
    <3>1. CASE v \in Wanted(page)
      BY <3>1 DEF EventInv, OneSourceInv, Follows, Given
    <3>2. CASE page.life[v] = "new"
      <4>1. v \in View /\ v \notin Served /\ \A i \in 1..Len(pipe) : pipe[i].view # v
        BY <1>1, <3>2 DEF EventInv, NewInv
      <4> QED
        BY <4>1 DEF Follows, Served, NoSource
    <3> QED
      BY <1>1, <3>1, <3>2 DEF Wanted
  <2> QED
    BY <1>1, <2>1, <2>3, <2>4 DEF OneSourceInv
<1> QED
  BY <1>2, <1>3, <1>4, <1>5, <1>6 DEF EventInv

\* Views subscribe, go, and are asked for again.
LEMMA PageKeeps ==
  ASSUME EventInv, NEW v \in View, Subscribe(v) \/ Unsubscribe(v) \/ RetryView(v)
  PROVE  EventInv'
<1>1. /\ page \in Pages /\ losses \in 0..MaxLosses
      /\ page.link # "open" => page.put = NoPut /\ page.retrying = {}
      /\ page.link = "open" => page.ended = page.retrying
      /\ page.retrying \subseteq Wanted(page)
  BY EventTypes DEF EventInv, ConnectionInv
<1>2. CASE Subscribe(v)
  <2> DEFINE p == [page EXCEPT !.life[v] = "wanted", !.link = IF @ = "none" THEN "connecting" ELSE @]
  <2>1. /\ p \in Pages /\ p.ended = page.ended /\ p.retrying = page.retrying
        /\ p.put = page.put /\ p.link = IF page.link = "none" THEN "connecting" ELSE page.link
        /\ p.life = [page.life EXCEPT ![v] = "wanted"]
    BY <1>1 DEF Pages
  <2>2. page.life \in [View -> {"new", "wanted", "gone"}] /\ page.life[v] = "new"
    BY <1>1, <1>2 DEF Pages, Subscribe
  <2>3. p.retrying \subseteq Wanted(p)
    BY <1>1, <2>1, <2>2 DEF Wanted
  <2>4. page' = Synced(p) /\ UNCHANGED <<view, channel, pipe, opened, ends, losses>>
    BY <1>2 DEF Subscribe
  <2> HIDE DEF p
  <2> QED
    BY <1>1, <2>1, <2>2, <2>3, <2>4, SyncKeeps
<1>3. CASE Unsubscribe(v)
  <2> DEFINE p == [page EXCEPT !.life[v] = "gone", !.retrying = @ \ {v}, !.ended = @ \ {v}]
  <2>1. /\ p \in Pages /\ p.ended = page.ended \ {v} /\ p.retrying = page.retrying \ {v}
        /\ p.put = page.put /\ p.link = page.link
        /\ p.life = [page.life EXCEPT ![v] = "gone"]
    BY <1>1 DEF Pages
  <2>2. page.life \in [View -> {"new", "wanted", "gone"}]
    BY <1>1 DEF Pages
  <2>3. p.retrying \subseteq Wanted(p)
    BY <1>1, <2>1, <2>2 DEF Wanted
  <2>4. /\ UNCHANGED <<view, opened, ends, losses>>
        /\ \/ page' = Stopped(p) /\ channel' = NoChannel /\ pipe' = <<>>
           \/ page' = Synced(p) /\ UNCHANGED <<channel, pipe>>
    BY <1>3 DEF Unsubscribe
  <2> HIDE DEF p
  <2>5. CASE page' = Stopped(p) /\ channel' = NoChannel /\ pipe' = <<>>
    BY <1>1, <2>1, <2>2, <2>4, <2>5, LossKeeps
  <2>6. CASE page' = Synced(p) /\ UNCHANGED <<channel, pipe>>
    BY <1>1, <2>1, <2>2, <2>3, <2>4, <2>6, SyncKeeps
  <2> QED
    BY <2>4, <2>5, <2>6
<1>4. CASE RetryView(v)
  <2> DEFINE p == [page EXCEPT !.retrying = @ \ {v}, !.ended = @ \ {v}]
  <2>1. /\ p \in Pages /\ p.ended = page.ended \ {v} /\ p.retrying = page.retrying \ {v}
        /\ p.put = page.put /\ p.link = page.link /\ p.life = page.life
    BY <1>1 DEF Pages
  <2>2. Wanted(p) = Wanted(page)
    BY <2>1 DEF Wanted
  <2>3. page' = Synced(p) /\ UNCHANGED <<view, channel, pipe, opened, ends, losses>>
    BY <1>4 DEF RetryView
  <2>4. page.life \in [View -> {"new", "wanted", "gone"}]
    BY <1>1 DEF Pages
  <2> HIDE DEF p
  <2> QED
    BY <1>1, <2>1, <2>2, <2>3, <2>4, SyncKeeps
<1> QED
  BY <1>2, <1>3, <1>4

\* A request is answered: the next is written if something has changed since.
LEMMA AnswerKeeps ==
  ASSUME EventInv, PutAnswered
  PROVE  EventInv'
<1>1. /\ page \in Pages
      /\ page.link # "open" => page.put = NoPut /\ page.retrying = {}
      /\ page.link = "open" => page.ended = page.retrying
      /\ page.retrying \subseteq Wanted(page)
  BY EventTypes DEF EventInv, ConnectionInv
<1> DEFINE p == [page EXCEPT !.put = NoPut]
<1>2. /\ p \in Pages /\ p.ended = page.ended /\ p.retrying = page.retrying
      /\ p.put = NoPut /\ p.link = page.link /\ p.life = page.life /\ p.changed = page.changed
  BY <1>1 DEF Pages, NoPut
<1>3. Wanted(p) = Wanted(page)
  BY <1>2 DEF Wanted
<1>4. /\ page.put.at = "applied" /\ UNCHANGED <<view, channel, pipe, opened, ends, losses>>
      /\ page' = IF p.changed THEN Synced(p) ELSE p
  BY DEF PutAnswered
<1>5. page.life \in [View -> {"new", "wanted", "gone"}]
  BY <1>1 DEF Pages
<1> HIDE DEF p
<1>6. CASE p.changed
  BY <1>1, <1>2, <1>3, <1>4, <1>5, <1>6, SyncKeeps
<1>7. CASE ~p.changed
  <2>1. page' = p /\ page.link = "open"
    BY <1>1, <1>4, <1>7 DEF NoPut
  <2>2. EventTypeOK'
    BY <1>2, <1>4, <2>1, EventTypes DEF EventInv, EventTypeOK, Pages, Sources, Frames
  <2>3. ConnectionInv'
    BY <1>2, <1>3, <1>4, <1>7, <2>1 DEF EventInv, ConnectionInv, NoPut
  <2>4. AgreeInv'
    BY <1>2, <1>3, <1>4, <1>7, <2>1 DEF EventInv, AgreeInv, NoPut, Served, Ending
  <2>5. NewInv'
    BY <1>2, <1>4, <2>1 DEF EventInv, NewInv, Served, NoPut
  <2>6. OneSourceInv'
    BY <1>2, <1>3, <1>4, <2>1
    DEF EventInv, OneSourceInv, EventsFollowTheirSnapshot, Follows, Given, NoPut
  <2> QED
    BY <2>2, <2>3, <2>4, <2>5, <2>6 DEF EventInv
<1> QED
  BY <1>6, <1>7

\* The connection is lost, refused or over, and starts again.
LEMMA ConnectionKeeps ==
  ASSUME EventInv, StreamLost \/ ClosureHeard \/ PutRefused \/ Starts \/ Connected
  PROVE  EventInv'
<1>1. /\ page \in Pages /\ losses \in 0..MaxLosses /\ MaxLosses \in Nat
      /\ page.link # "open" => page.put = NoPut /\ page.retrying = {}
      /\ channel.open => page.link = "open"
      /\ ~channel.open => channel = NoChannel /\ pipe = <<>>
  BY EventTypes, EventAssumption DEF EventInv, ConnectionInv
<1>2. CASE StreamLost \/ ClosureHeard \/ PutRefused
  <2>1. /\ page' = Reconnects(page) /\ channel' = NoChannel /\ pipe' = <<>>
        /\ UNCHANGED <<view, opened, ends>> /\ losses' \in 0..MaxLosses
    BY <1>1, <1>2 DEF StreamLost, ClosureHeard, PutRefused
  <2> QED
    BY <1>1, <2>1, LossKeeps
<1>3. CASE Starts
  <2> DEFINE p == [page EXCEPT !.link = "connecting"]
  <2>1. /\ p \in Pages /\ p.ended = page.ended /\ p.retrying = page.retrying
        /\ p.put = page.put /\ p.link = "connecting" /\ p.life = page.life
    BY <1>1 DEF Pages
  <2>2. Wanted(p) = Wanted(page)
    BY <2>1 DEF Wanted
  <2>3. /\ page' = p /\ page.link = "waiting"
        /\ UNCHANGED <<view, channel, pipe, opened, ends, losses>>
    BY <1>3 DEF Starts
  <2> HIDE DEF p
  <2>4. EventTypeOK'
    BY <2>1, <2>3, EventTypes DEF EventInv, EventTypeOK, Pages, Sources, Frames
  <2>5. ConnectionInv'
    BY <1>1, <2>1, <2>2, <2>3 DEF EventInv, ConnectionInv, NoPut
  <2>6. AgreeInv' /\ NewInv'
    BY <2>1, <2>3 DEF EventInv, AgreeInv, NewInv, Served
  <2>7. OneSourceInv'
    BY <2>1, <2>2, <2>3
    DEF EventInv, OneSourceInv, EventsFollowTheirSnapshot, Follows, Given, Served
  <2> QED
    BY <2>4, <2>5, <2>6, <2>7 DEF EventInv
<1>4. CASE Connected
  <2> DEFINE p == [page EXCEPT !.link = "open", !.ended = {}]
  <2>1. /\ p \in Pages /\ p.ended = {} /\ p.retrying = {}
        /\ p.put = NoPut /\ p.link = "open" /\ p.life = page.life
    BY <1>1, <1>4 DEF Pages, Connected
  <2>2. page' = Synced(p) /\ UNCHANGED <<view, opened, ends, losses>> /\ pipe' = <<>>
    BY <1>4 DEF Connected
  <2>3. /\ channel' \in [open : BOOLEAN, serves : [View -> Sources]] /\ channel'.open
        /\ channel'.serves = NoChannel.serves
    BY <1>4, NoChannelIs DEF Connected
  <2> HIDE DEF p
  <2>4. /\ page' \in Pages /\ page'.life = page.life /\ page'.link = "open"
        /\ page'.ended = {} /\ page'.retrying = {}
        /\ page'.put.at = "sent" /\ page'.put.set = Wanted(page') /\ ~page'.changed
    BY <2>1, <2>2, SyncedIs
  <2>5. EventTypeOK'
    BY <2>2, <2>3, <2>4, EventTypes, NothingIsIn DEF EventInv, EventTypeOK, Pages, Sources, Frames
  <2>6. ConnectionInv'
    BY <2>3, <2>4, NoChannelIs DEF ConnectionInv, NoPut
  <2>7. AgreeInv'
    BY <2>4 DEF AgreeInv
  <2>8. NewInv'
    BY <2>2, <2>3, <2>4, NoChannelIs, NothingIsIn DEF NewInv, Served, Wanted
  <2>9. OneSourceInv'
    BY <2>2, <2>3, <2>4, NoChannelIs, NothingIsIn
    DEF EventInv, OneSourceInv, EventsFollowTheirSnapshot, Follows, Given, Wanted, Served
  <2> QED
    BY <2>5, <2>6, <2>7, <2>8, <2>9 DEF EventInv
<1> QED
  BY <1>2, <1>3, <1>4

\* The channel closes, and the page still has to hear of it.
LEMMA ClosureKeeps ==
  ASSUME EventInv, ChannelCloses \/ PutFindsNothing
  PROVE  EventInv'
<1>1. /\ page \in Pages /\ losses \in 0..MaxLosses /\ MaxLosses \in Nat
  BY EventTypes, EventAssumption DEF EventInv
<1>2. CASE ChannelCloses
  <2>1. /\ channel' = NoChannel /\ pipe' = <<>> /\ losses' \in 0..MaxLosses
        /\ UNCHANGED <<page, view, opened, ends>>
    BY <1>1, <1>2 DEF ChannelCloses
  <2>2. EventTypeOK'
    BY <2>1, EventTypes, NoChannelIs, NothingIsIn DEF EventInv, EventTypeOK, Pages, Sources, Frames
  <2>3. ConnectionInv' /\ AgreeInv'
    BY <2>1, NoChannelIs DEF EventInv, ConnectionInv, AgreeInv
  <2>4. NewInv'
    BY <2>1, NoChannelIs, NothingIsIn DEF EventInv, NewInv, Served
  <2>5. OneSourceInv'
    BY <2>1, NoChannelIs, NothingIsIn
    DEF EventInv, OneSourceInv, EventsFollowTheirSnapshot, Follows, Given, Served, Wanted
  <2> QED
    BY <2>2, <2>3, <2>4, <2>5 DEF EventInv
<1>3. CASE PutFindsNothing
  <2>1. /\ page' \in Pages /\ page'.put.at = "refused" /\ page'.put.set = page.put.set
        /\ page'.life = page.life /\ page'.link = page.link /\ page'.ended = page.ended
        /\ page'.retrying = page.retrying /\ page'.changed = page.changed
        /\ page.put.at = "sent" /\ ~channel.open
        /\ UNCHANGED <<view, channel, pipe, opened, ends, losses>>
    BY <1>1, <1>3 DEF PutFindsNothing, Pages
  <2>2. Wanted(page') = Wanted(page)
    BY <2>1 DEF Wanted
  <2>3. EventTypeOK'
    BY <2>1, EventTypes DEF EventInv, EventTypeOK, Pages, Sources, Frames
  <2>4. ConnectionInv' /\ AgreeInv'
    BY <2>1, <2>2 DEF EventInv, ConnectionInv, AgreeInv, NoPut
  <2>5. NewInv'
    BY <2>1 DEF EventInv, NewInv, Served
  <2>6. OneSourceInv'
    BY <2>1, <2>2 DEF EventInv, OneSourceInv, EventsFollowTheirSnapshot, Follows, Given, Served
  <2> QED
    BY <2>3, <2>4, <2>5, <2>6 DEF EventInv
<1> QED
  BY <1>2, <1>3

\* A source sends its snapshot, then an event: the frames of a view stay in their order.
LEMMA SourceSendsKeeps ==
  ASSUME EventInv, NEW v \in View, SnapshotSent(v) \/ EventSent(v)
  PROVE  EventInv'
<1> DEFINE s == channel.serves[v]
           sends == IF s.at = "opened" THEN "snapshot" ELSE "event"
           next == IF s.at = "opened" THEN "live" ELSE "sent"
           f == Frame(sends, v)
<1>1. /\ page \in Pages /\ channel \in [open : BOOLEAN, serves : [View -> Sources]]
      /\ pipe \in Seq(Frames) /\ s \in Sources
  BY EventTypes DEF EventInv
<1>2. /\ s.at \in {"opened", "live"} /\ pipe' = Append(pipe, f)
      /\ channel' = [channel EXCEPT !.serves[v].at = next]
      /\ UNCHANGED <<page, view, opened, ends, losses>>
  BY DEF SnapshotSent, EventSent
<1>3. f \in Frames /\ f.type = sends /\ f.view = v /\ f.source = s.source
  BY <1>1 DEF Frame, Frames, Sources
<1>4. /\ channel' \in [open : BOOLEAN, serves : [View -> Sources]] /\ channel'.open = channel.open
      /\ channel'.serves[v].at = next /\ channel'.serves[v].source = s.source
      /\ \A w \in View \ {v} : channel'.serves[w] = channel.serves[w]
  BY <1>1, <1>2 DEF Sources
<1>5. Served' = Served /\ v \in Served
  BY <1>2, <1>4 DEF Served, NoSource
<1>6. PICK n \in Nat : n = Len(pipe)
  BY <1>1, LenProperties
<1>7. /\ pipe' \in Seq(Frames) /\ Len(pipe') = n + 1
      /\ \A i \in 1..n : pipe'[i] = pipe[i]
      /\ pipe'[n + 1] = f
  BY <1>6, <1>1, <1>2, <1>3, AppendedIs
<1>8. channel.open
  BY <1>2, NoChannelIs DEF EventInv, ConnectionInv
<1> HIDE DEF f, s, next
<1>9. EventTypeOK'
  BY <1>2, <1>4, <1>7, EventTypes DEF EventInv, EventTypeOK, Pages, Sources, Frames
<1>10. ConnectionInv'
  BY <1>2, <1>4, <1>8 DEF EventInv, ConnectionInv, next
<1>11. Ending \subseteq Ending'
  BY <1>6, <1>7 DEF Ending
<1>12. AgreeInv'
  BY <1>2, <1>4, <1>5, <1>11 DEF EventInv, AgreeInv
<1>13. NewInv'
  <2>1. page.life[v] # "new"
    BY <1>5 DEF EventInv, NewInv
  <2> QED
    BY <1>6, <1>2, <1>3, <1>5, <1>7, <2>1 DEF EventInv, NewInv
<1>14. ASSUME ends = 0 PROVE OneSourceInv'
  <2>1. ASSUME NEW w \in Wanted(page), w # v PROVE Follows(w)'
    <3>1. w \in View /\ channel'.serves[w] = channel.serves[w] /\ Follows(w)
      BY <1>4, <1>14, <2>1 DEF EventInv, OneSourceInv, Wanted
    <3>2. \A k \in 1..(n + 1) : Given(w, k) => Given(w, k)'
      BY <1>2, <1>7, <3>1 DEF Given
    <3>3. Given(w, n + 1)' => Given(w, n + 2)'
      BY <1>7 DEF Given
    <3>4. \A i \in 1..(n + 1) : pipe'[i].view = w => i \in 1..n /\ pipe'[i] = pipe[i]
      BY <1>3, <1>7, <2>1
    <3> QED
      BY <1>6, <1>7, <3>1, <3>2, <3>3, <3>4 DEF Follows
  <2>2. ASSUME v \in Wanted(page) PROVE Follows(v)'
    <3>1. Follows(v)
      BY <1>14, <2>2 DEF EventInv, OneSourceInv
    <3>2. CASE s.at = "opened"
      <4>1. \A i \in 1..n : pipe[i].view # v
        BY <1>6, <3>1, <3>2 DEF Follows, s
      <4>2. Given(v, n + 2)'
        BY <1>3, <1>7, <3>2 DEF Given
      <4>3. \A i \in 1..(n + 1) : pipe'[i].view = v => i = n + 1
        BY <1>7, <4>1
      <4> QED
        BY <1>3, <1>4, <1>7, <3>2, <4>2, <4>3 DEF Follows, next
    <3>3. CASE s.at = "live"
      <4>1. \A k \in 1..(n + 1) : Given(v, k) => Given(v, k)'
        BY <1>2, <1>4, <1>7 DEF Given, s
      <4>2. Given(v, n + 1)
        BY <1>6, <3>1, <3>3 DEF Follows, s
      <4>3. Given(v, n + 1)' /\ Given(v, n + 2)'
        BY <1>7, <4>1, <4>2 DEF Given
      <4>4. \A i \in 1..n : pipe[i].view = v =>
              /\ pipe[i].source = s.source /\ pipe[i].type # "end"
              /\ pipe[i].type = "event" => Given(v, i)'
        BY <1>6, <1>7, <3>1, <4>1 DEF Follows, s
      <4> QED
        BY <1>3, <1>4, <1>7, <3>3, <4>3, <4>4 DEF Follows, next
    <3> QED
      BY <1>2, <3>2, <3>3
  <2> QED
    BY <1>2, <1>5, <1>14, <2>1, <2>2 DEF EventInv, OneSourceInv, EventsFollowTheirSnapshot
<1> QED
  BY <1>2, <1>9, <1>10, <1>12, <1>13, <1>14 DEF EventInv, OneSourceInv

\* A source ends, and the page will be told.
LEMMA SourceEndsKeeps ==
  ASSUME EventInv, NEW v \in View, SourceEnds(v)
  PROVE  EventInv'
<1> DEFINE f == Frame("end", v)
<1>1. /\ page \in Pages /\ channel \in [open : BOOLEAN, serves : [View -> Sources]]
      /\ pipe \in Seq(Frames) /\ channel.serves[v] \in Sources
      /\ ends \in 0..MaxEnds /\ MaxEnds \in Nat
  BY EventTypes, EventAssumption DEF EventInv
<1>2. /\ v \in Served /\ pipe' = Append(pipe, f) /\ ends' = ends + 1 /\ ends < MaxEnds
      /\ channel' = [channel EXCEPT !.serves[v] = NoSource]
      /\ UNCHANGED <<page, view, opened, losses>>
  BY DEF SourceEnds
<1>3. f \in Frames /\ f.type = "end" /\ f.view = v
  BY <1>1 DEF Frame, Frames, Sources
<1>4. /\ channel' \in [open : BOOLEAN, serves : [View -> Sources]] /\ channel'.open = channel.open
      /\ channel'.serves[v] = NoSource
      /\ \A w \in View \ {v} : channel'.serves[w] = channel.serves[w]
  BY <1>1, <1>2 DEF Sources, NoSource
<1>5. Served' = Served \ {v}
  BY <1>4 DEF Served
<1>6. PICK n \in Nat : n = Len(pipe)
  BY <1>1, LenProperties
<1>7. /\ pipe' \in Seq(Frames) /\ Len(pipe') = n + 1
      /\ \A i \in 1..n : pipe'[i] = pipe[i]
      /\ pipe'[n + 1] = f
  BY <1>6, <1>1, <1>2, <1>3, AppendedIs
<1>8. channel.open
  BY <1>2, NoChannelIs DEF EventInv, ConnectionInv, Served
<1> HIDE DEF f
<1>9. EventTypeOK'
  <2>1. ends' \in 0..MaxEnds
    BY <1>1, <1>2
  <2> QED
    BY <1>2, <1>4, <1>7, <2>1, EventTypes DEF EventInv, EventTypeOK, Pages, Sources, Frames
<1>10. ConnectionInv'
  BY <1>2, <1>4, <1>8 DEF EventInv, ConnectionInv, NoSource
<1>11. Ending \cup {v} \subseteq Ending'
  BY <1>6, <1>3, <1>7 DEF Ending
<1>12. AgreeInv'
  BY <1>2, <1>4, <1>5, <1>11 DEF EventInv, AgreeInv
<1>13. NewInv'
  BY <1>6, <1>2, <1>3, <1>5, <1>7 DEF EventInv, NewInv
<1>14. OneSourceInv'
  BY <1>1, <1>2 DEF OneSourceInv
<1> QED
  BY <1>9, <1>10, <1>12, <1>13, <1>14 DEF EventInv

\* A request arrives: the server serves what it asks for, but for one that cannot be opened.
LEMMA PutKeeps ==
  ASSUME EventInv, PutArrives
  PROVE  EventInv'
<1> DEFINE new == page.put.set \ Served
<1>1. /\ page \in Pages /\ channel \in [open : BOOLEAN, serves : [View -> Sources]]
      /\ pipe \in Seq(Frames) /\ opened \in Nat /\ ends \in 0..MaxEnds /\ MaxEnds \in Nat
      /\ page.put.at = "sent" /\ channel.open /\ page.put.set \subseteq View /\ page.link = "open"
  BY EventTypes, EventAssumption DEF EventInv, ConnectionInv, PutArrives, Pages
<1>2. PICK failing \in {{}} \cup {{v} : v \in new} :
        /\ ends + Cardinality(failing) <= MaxEnds
        /\ ends' = ends + Cardinality(failing)
        /\ opened' = IF new \subseteq failing THEN opened ELSE opened + 1
        /\ channel' = [channel EXCEPT !.serves =
             [v \in View |-> CASE v \in new \ failing -> [source |-> opened', at |-> "opened"]
                               [] v \in page.put.set \ new -> @[v]
                               [] OTHER -> NoSource]]
        /\ \/ failing = {} /\ pipe' = pipe
           \/ \E v \in failing : pipe' = Append(pipe, [type |-> "end", view |-> v, source |-> 0])
  BY DEF PutArrives
<1>3. /\ failing \subseteq page.put.set \ Served
      /\ failing = {} => Cardinality(failing) = 0
      /\ failing # {} => Cardinality(failing) = 1
  BY <1>2, FS_EmptySet, FS_Singleton
<1>4. UNCHANGED <<view, losses>> /\ page' = [page EXCEPT !.put.at = "applied"]
  BY DEF PutArrives
<1>5. opened' \in Nat /\ ends' \in 0..MaxEnds /\ (ends' = 0 => failing = {} /\ ends = 0)
  BY <1>1, <1>2, <1>3
<1>6. /\ page' \in Pages /\ page'.put.at = "applied" /\ page'.put.set = page.put.set
      /\ page'.life = page.life /\ page'.link = page.link /\ page'.ended = page.ended
      /\ page'.retrying = page.retrying /\ page'.changed = page.changed
  BY <1>1, <1>4 DEF Pages
<1>7. Wanted(page') = Wanted(page)
  BY <1>6 DEF Wanted
<1>8. /\ channel'.open
      /\ channel' \in [open : BOOLEAN, serves : [View -> Sources]]
      /\ \A v \in new \ failing : channel'.serves[v] = [source |-> opened', at |-> "opened"]
      /\ \A v \in page.put.set \ new : channel'.serves[v] = channel.serves[v]
      /\ \A v \in View : v \notin new \ failing /\ v \notin page.put.set \ new =>
           channel'.serves[v] = NoSource
  <2> DEFINE serves == [v \in View |-> CASE v \in new \ failing -> [source |-> opened', at |-> "opened"]
                               [] v \in page.put.set \ new -> channel.serves[v]
                               [] OTHER -> NoSource]
  <2>1. channel' = [channel EXCEPT !.serves = serves]
    BY <1>2
  <2>2. channel'.open = channel.open /\ channel'.serves = serves
    BY <1>1, <2>1
  <2>3. NoSource \in Sources /\ [source |-> opened', at |-> "opened"] \in Sources
    BY <1>5 DEF NoSource, Sources
  <2>4. serves \in [View -> Sources]
    BY <1>1, <2>3
  <2> QED
    BY <1>1, <2>1, <2>2, <2>4
<1>9. Served' = page.put.set \ failing
  <2>1. \A v \in View : v \in Served' <=> channel'.serves[v] # NoSource
    BY DEF Served
  <2>2. \A v \in page.put.set \ new : channel'.serves[v] # NoSource
    BY <1>8 DEF Served
  <2>3. [source |-> opened', at |-> "opened"] # NoSource
    BY DEF NoSource
  <2> QED
    BY <1>1, <1>3, <1>8, <2>1, <2>2, <2>3 DEF Served
<1> DEFINE n == Len(pipe)
<1>10. /\ pipe' \in Seq(Frames) /\ n \in Nat
       /\ failing = {} => pipe' = pipe
       /\ failing # {} =>
            /\ Len(pipe') = n + 1 /\ \A i \in 1..n : pipe'[i] = pipe[i]
            /\ pipe'[n + 1].type = "end" /\ failing = {pipe'[n + 1].view}
  <2>1. CASE failing = {}
    BY <1>1, <1>2, <2>1, LenProperties
  <2>2. CASE failing # {}
    <3>1. PICK v \in failing : pipe' = Append(pipe, [type |-> "end", view |-> v, source |-> 0])
      BY <1>2, <2>2
    <3>2. failing = {v} /\ v \in View
      BY <1>1, <1>2, <3>1
    <3>3. [type |-> "end", view |-> v, source |-> 0] \in Frames
      BY <3>2 DEF Frames
    <3> QED
      BY <1>1, <2>2, <3>1, <3>2, <3>3, AppendedIs
  <2> QED
    BY <2>1, <2>2
<1> HIDE DEF n
<1>11. EventTypeOK'
  BY <1>4, <1>5, <1>6, <1>8, <1>10, EventTypes DEF EventInv, EventTypeOK, Pages, Sources, Frames
<1>12. ConnectionInv'
  <2>1. \A v \in View : channel'.serves[v].at = "none" => channel'.serves[v] = NoSource
    BY <1>8 DEF EventInv, ConnectionInv, NoSource
  <2> QED
    BY <1>1, <1>6, <1>7, <1>8, <2>1 DEF EventInv, ConnectionInv, NoPut
<1>13. Ending \cup failing \subseteq Ending'
  BY <1>1, <1>3, <1>10 DEF Ending, n
<1>14. AgreeInv'
  BY <1>1, <1>6, <1>7, <1>8, <1>9, <1>13 DEF EventInv, AgreeInv
<1>15. NewInv'
  <2>1. \A v \in View : page.life[v] = "new" => v \notin page.put.set
    BY DEF EventInv, NewInv
  <2> QED
    BY <1>1, <1>3, <1>6, <1>9, <1>10, <2>1 DEF EventInv, NewInv, n
<1>16. ASSUME ends' = 0 PROVE OneSourceInv'
  <2>1. ends = 0 /\ failing = {} /\ pipe' = pipe
    BY <1>5, <1>10, <1>16
  <2>2. ASSUME NEW v \in Wanted(page) PROVE Follows(v)'
    <3>1. v \in View /\ Follows(v) /\ (v \in Served => v \in page.put.set)
      BY <1>1, <2>1, <2>2 DEF EventInv, OneSourceInv, Wanted
    <3>2. CASE v \in Served
      <4>1. channel'.serves[v] = channel.serves[v]
        BY <1>8, <3>1, <3>2
      <4> QED
        BY <1>4, <2>1, <3>1, <4>1 DEF Follows, Given
    <3>3. CASE v \notin Served
      <4>1. \A i \in 1..Len(pipe) : pipe[i].view # v
        BY <3>1, <3>3 DEF Follows, Served, NoSource
      <4>2. channel'.serves[v].at \in {"opened", "none"}
        BY <1>8, <3>1, <3>3 DEF NoSource
      <4> QED
        BY <2>1, <4>1, <4>2 DEF Follows
    <3> QED
      BY <3>2, <3>3
  <2> QED
    BY <1>4, <1>6, <1>7, <2>1, <2>2 DEF EventInv, OneSourceInv, EventsFollowTheirSnapshot
<1> QED
  BY <1>11, <1>12, <1>14, <1>15, <1>16 DEF EventInv, OneSourceInv
\* The first frame is heard by its view, or by nobody: the others move up, and the page knows
\* whose stream has ended.
LEMMA FrameKeeps ==
  ASSUME EventInv, FrameArrives
  PROVE  EventInv'
<1>1. /\ page \in Pages /\ view \in [View -> [snapshot : Nat, latest : Nat]]
      /\ pipe \in Seq(Frames) /\ pipe # <<>>
      /\ page.link = "open"
  BY EventTypes DEF EventInv, FrameArrives
<1>2. PICK frame \in Frames, v \in View : frame = Head(pipe) /\ v = frame.view
  BY <1>1, TakenIs DEF Frames
<1>3. frame = pipe[1] /\ frame.source \in Nat /\ frame.type \in {"snapshot", "event", "end"}
  BY <1>1, <1>2, TakenIs DEF Frames
<1>4. PICK hears \in BOOLEAN : hears <=> v \in Wanted(page) \ page.ended
  OBVIOUS
<1>5. /\ pipe' = Tail(pipe) /\ UNCHANGED <<channel, opened, ends, losses>>
      /\ \/ /\ hears /\ frame.type = "end"
            /\ page' = [page EXCEPT !.ended = @ \cup {v}, !.retrying = @ \cup {v}]
            /\ view' = view
         \/ /\ hears /\ frame.type = "snapshot" /\ page' = page
            /\ view' = [view EXCEPT ![v] = [snapshot |-> frame.source, latest |-> frame.source]]
         \/ /\ hears /\ frame.type = "event" /\ page' = page
            /\ view' = [view EXCEPT ![v].latest = frame.source]
         \/ ~hears /\ page' = page /\ view' = view
  BY <1>2, <1>3, <1>4 DEF FrameArrives
<1>6. PICK n \in Nat : Len(pipe) = n + 1
  <2>1. Len(pipe) - 1 \in Nat /\ Len(pipe) = (Len(pipe) - 1) + 1
    BY <1>1, TakenIs
  <2> QED
    BY <2>1
<1>7. /\ pipe' \in Seq(Frames) /\ Len(pipe') = n
      /\ \A i \in 1..n : pipe'[i] = pipe[i + 1]
  BY <1>1, <1>5, <1>6, TakenIs
<1>8. /\ page' \in Pages /\ page'.life = page.life /\ page'.link = page.link
      /\ page'.put = page.put /\ page'.changed = page.changed
      /\ hears /\ frame.type = "end" =>
           page'.ended = page.ended \cup {v} /\ page'.retrying = page.retrying \cup {v}
      /\ ~(hears /\ frame.type = "end") => page' = page
  <2>1. CASE hears /\ frame.type = "end"
    <3>1. page' = [page EXCEPT !.ended = @ \cup {v}, !.retrying = @ \cup {v}]
      BY <1>5, <2>1
    <3> QED
      BY <1>1, <2>1, <3>1 DEF Pages
  <2>2. CASE ~(hears /\ frame.type = "end")
    <3>1. page' = page
      BY <1>5, <2>2
    <3> QED
      BY <1>1, <2>2, <3>1
  <2> QED
    BY <2>1, <2>2
<1>9. Wanted(page') = Wanted(page)
  BY <1>8 DEF Wanted
<1>10. /\ view' \in [View -> [snapshot : Nat, latest : Nat]]
       /\ \A w \in View \ {v} : view'[w] = view[w]
       /\ ~hears \/ frame.type = "end" => view'[v] = view[v]
       /\ hears /\ frame.type = "snapshot" =>
            view'[v].snapshot = frame.source /\ view'[v].latest = frame.source
       /\ hears /\ frame.type = "event" =>
            view'[v].snapshot = view[v].snapshot /\ view'[v].latest = frame.source
  <2>1. CASE ~hears \/ frame.type = "end"
    <3>1. view' = view
      BY <1>5, <2>1
    <3> QED
      BY <1>1, <2>1, <3>1
  <2>2. CASE hears /\ frame.type = "snapshot"
    <3>1. view' = [view EXCEPT ![v] = [snapshot |-> frame.source, latest |-> frame.source]]
      BY <1>5, <2>2
    <3> QED
      BY <1>1, <1>3, <2>2, <3>1
  <2>3. CASE hears /\ frame.type = "event"
    <3>1. view' = [view EXCEPT ![v].latest = frame.source]
      BY <1>5, <2>3
    <3> QED
      BY <1>1, <1>3, <2>3, <3>1
  <2> QED
    BY <1>3, <2>1, <2>2, <2>3
<1>11. EventTypeOK'
  BY <1>5, <1>7, <1>8, <1>10, EventTypes DEF EventInv, EventTypeOK, Pages, Sources, Frames
<1>12. ConnectionInv'
  <2>1. pipe # <<>> /\ channel.open
    BY <1>1 DEF EventInv, ConnectionInv
  <2> QED
    BY <1>1, <1>5, <1>8, <1>9, <1>4, <2>1 DEF EventInv, ConnectionInv
<1>13. \A w \in Ending : w \in Ending' \/ (w = v /\ frame.type = "end")
  <2> SUFFICES ASSUME NEW w \in Ending, ~(w = v /\ frame.type = "end")
               PROVE  w \in Ending'
    OBVIOUS
  <2>1. PICK i \in 1..(n + 1) : pipe[i].type = "end" /\ pipe[i].view = w
    BY <1>6 DEF Ending
  <2>2. i # 1
    BY <1>2, <1>3, <2>1
  <2>3. i - 1 \in 1..n /\ pipe'[i - 1] = pipe[i]
    BY <1>7, <2>2
  <2> QED
    BY <1>7, <2>1, <2>3 DEF Ending
<1>14. AgreeInv'
  <2>1. \A w \in Wanted(page) : w = v /\ frame.type = "end" => w \in page'.ended
    BY <1>8, <1>4
  <2>2. page.ended \subseteq page'.ended
    BY <1>8
  <2> QED
    BY <1>5, <1>8, <1>9, <1>13, <2>1, <2>2 DEF EventInv, AgreeInv, Served
<1>15. NewInv'
  <2>1. \A i \in 1..n : i + 1 \in 1..Len(pipe)
    BY <1>6
  <2> QED
    BY <1>5, <1>7, <1>8, <2>1 DEF EventInv, NewInv, Served
<1>16. ASSUME ends = 0 PROVE OneSourceInv'
  <2>1. page.ended = {} /\ EventsFollowTheirSnapshot /\ (hears <=> v \in Wanted(page))
    BY <1>16, <1>4 DEF EventInv, OneSourceInv
  <2>2. ASSUME v \in Wanted(page)
        PROVE  /\ frame.type # "end" /\ frame.source = channel.serves[v].source
               /\ frame.type = "event" => view[v].snapshot = channel.serves[v].source
    <3>1. Follows(v) /\ 1 \in 1..Len(pipe)
      BY <1>6, <1>16, <2>2 DEF EventInv, OneSourceInv
    <3>2. Given(v, 1) => view[v].snapshot = channel.serves[v].source
      BY DEF Given
    <3> QED
      BY <1>2, <1>3, <3>1, <3>2 DEF Follows
  <2>3. page'.ended = {}
    BY <1>8, <2>1, <2>2
  <2>4. v \notin Wanted(page) => view'[v] = view[v]
    BY <1>10, <2>1
  <2>5. v \in Wanted(page) => /\ view'[v].snapshot = channel.serves[v].source
                             /\ view'[v].latest = channel.serves[v].source
    BY <1>3, <1>10, <2>1, <2>2
  <2>6. EventsFollowTheirSnapshot'
    BY <1>10, <2>1, <2>4, <2>5 DEF EventsFollowTheirSnapshot
  <2>7. ASSUME NEW w \in Wanted(page) PROVE Follows(w)'
    <3>1. w \in View /\ Follows(w)
      BY <1>16, <2>7 DEF EventInv, OneSourceInv, Wanted
    <3>2. view[w].snapshot = channel.serves[w].source =>
            view'[w].snapshot = channel.serves[w].source
      BY <1>10, <2>7, <2>5, <3>1
    <3>3. pipe[1].view = w /\ pipe[1].type = "snapshot" =>
            view'[w].snapshot = channel.serves[w].source
      BY <1>2, <1>3, <2>7, <2>5
    <3>4. ASSUME NEW k \in 1..(n + 1), Given(w, k + 1) PROVE Given(w, k)'
      <4>1. CASE view[w].snapshot = channel.serves[w].source
        BY <1>5, <3>2, <4>1 DEF Given
      <4>2. ASSUME NEW j \in 1..k, pipe[j].view = w, pipe[j].type = "snapshot"
            PROVE  Given(w, k)'
        <5>1. CASE j = 1
          BY <1>5, <3>3, <4>2, <5>1 DEF Given
        <5>2. CASE j # 1
          <6>1. j - 1 \in 1..n /\ j - 1 \in 1..(k - 1) /\ pipe'[j - 1] = pipe[j]
            BY <1>7, <5>2
          <6> QED
            BY <4>2, <6>1 DEF Given
        <5> QED
          BY <5>1, <5>2
      <4>3. (k + 1) - 1 = k
        OBVIOUS
      <4> QED
        BY <3>4, <4>1, <4>2, <4>3 DEF Given
    <3>5. \A i \in 1..n : i + 1 \in 1..Len(pipe) /\ i \in 1..(n + 1)
      BY <1>6
    <3>6. channel.serves[w].at \in {"live", "sent"} => Given(w, n + 1)'
      <4>1. channel.serves[w].at \in {"live", "sent"} => Given(w, (n + 1) + 1)
        BY <1>6, <3>1 DEF Follows
      <4> QED
        BY <3>4, <4>1
    <3> QED
      BY <1>5, <1>7, <3>1, <3>4, <3>5, <3>6 DEF Follows
  <2> QED
    BY <1>5, <1>8, <1>9, <1>16, <2>3, <2>6, <2>7 DEF EventInv, OneSourceInv, Served
<1> QED
  BY <1>5, <1>11, <1>12, <1>14, <1>15, <1>16 DEF EventInv, OneSourceInv

\* Every step of the channel keeps the invariant.
LEMMA EventStep ==
  ASSUME EventInv, [EventNext]_eventVars
  PROVE  EventInv'
<1>1. CASE UNCHANGED eventVars
  BY <1>1 DEF EventInv, EventTypeOK, ConnectionInv, AgreeInv, NewInv, OneSourceInv, eventVars,
     EventsFollowTheirSnapshot, Follows, Given, Served, Ending, Wanted
<1>2. CASE EventProceeds
  BY <1>2, PageKeeps, AnswerKeeps, ConnectionKeeps, ClosureKeeps, PutKeeps, FrameKeeps, SourceSendsKeeps
  DEF EventProceeds
<1>3. CASE StreamLost \/ ChannelCloses
  BY <1>3, ConnectionKeeps, ClosureKeeps
<1>4. ASSUME NEW v \in View, Subscribe(v) \/ Unsubscribe(v) \/ EventSent(v) \/ SourceEnds(v)
      PROVE  EventInv'
  BY <1>4, PageKeeps, SourceSendsKeeps, SourceEndsKeeps
<1> QED
  BY <1>1, <1>2, <1>3, <1>4 DEF EventNext

-----------------------------------------------------------------------------
\* Whatever is lost, refused or ends, the page and the server agree on what is on its way
\* between them (sync, replace).
THEOREM EventsConsistent == EventSpec => []EventInv
<1> QED
  BY EventsBegin, EventStep, PTL DEF EventSpec

\* The page's state, the server's and the frames between them have their types.
THEOREM EventTypeCorrect == EventSpec => []EventTypeOK
<1>1. EventInv => EventTypeOK
  BY DEF EventInv
<1> QED
  BY <1>1, EventsConsistent, PTL

\* A change made while a request is under way is not forgotten, and no source is left
\* running for a view that is gone: at rest the two ends agree.
THEOREM EndsAgree == EventSpec => []EndsAgreeAtRest
<1>1. EventInv => EndsAgreeAtRest
  <2> SUFFICES ASSUME EventInv, page.link = "open", channel.open, page.put = NoPut, pipe = <<>>
               PROVE  Served \subseteq Wanted(page) /\ Wanted(page) \subseteq Served \cup page.retrying
    BY DEF EndsAgreeAtRest
  <2>1. Ending = {}
    BY NothingIsIn DEF Ending
  <2> QED
    BY <2>1 DEF EventInv, ConnectionInv, AgreeInv, NoPut
<1> QED
  BY <1>1, EventsConsistent, PTL

\* Lost streams, new requests and views that go never make a view miss the snapshot of the
\* source it follows: only a source that ended and is asked for again does.
THEOREM UnendedAreFollowed == EventSpec => []UnendedSourcesAreFollowed
<1>1. EventInv => UnendedSourcesAreFollowed
  BY DEF EventInv, OneSourceInv, UnendedSourcesAreFollowed
<1> QED
  BY <1>1, EventsConsistent, PTL

-----------------------------------------------------------------------------
(* The parts of a server *)

\* What a binding changes of the configuration: it asks for a synchronization, and hears
\* the answer; the rest is the configuration's.
LEMMA BinderAskIs ==
  ASSUME BindingNext
  PROVE  \/ Accepts \/ Rejects \/ Answers \/ Closes
         \/ /\ UNCHANGED <<source, accepted, rejected, closed>>
            /\ BinderAsks \/ BinderHung \/ UNCHANGED ask
<1> USE DEF ConfigurationStays, acceptedVars
<1>1. CASE TurnBegins
  BY <1>1 DEF TurnBegins
<1>2. CASE ProjectAcquired
  BY <1>2 DEF ProjectAcquired
<1>3. CASE Synchronized
  BY <1>3 DEF Synchronized
<1>4. CASE DefinitionResolved
  BY <1>4 DEF DefinitionResolved, Anew
<1>5. CASE RuntimeCreated
  BY <1>5 DEF RuntimeCreated
<1>6. CASE ModelSelected
  BY <1>6 DEF ModelSelected, GiveUp, Retry, Anew
<1>7. CASE Confirmed
  BY <1>7 DEF Confirmed, GiveUp, Retry, Anew
<1>8. CASE CandidateApplied
  BY <1>8 DEF CandidateApplied, GiveUp, Retry, Anew, Activates
<1>9. CASE SessionReloaded \/ CandidateCommitted \/ SessionRestored
  BY <1>9 DEF SessionReloaded, CandidateCommitted, SessionRestored
<1>10. CASE SetupBegins \/ SessionAttached \/ PromptPrepares \/ RunBegins \/ BoundaryReached \/ RunEnds
  BY <1>10 DEF SetupBegins, SessionAttached, PromptPrepares, RunBegins, BoundaryReached, RunEnds
<1>11. CASE BindingCloses \/ BindingDisposed
  BY <1>11 DEF BindingCloses, BindingDisposed
<1>12. CASE GenerationAccepted \/ AvailabilityMoves
  BY <1>12 DEF GenerationAccepted, AvailabilityMoves
<1> QED
  BY <1>1, <1>2, <1>3, <1>4, <1>5, <1>6, <1>7, <1>8, <1>9, <1>10, <1>11, <1>12
  DEF BindingNext, Applies

\* So what is accepted keeps its types next to a binding, while nobody dispatches.
LEMMA BindingKeepsAccepted ==
  ASSUME DispatchInv, dispatch = DispatchIdle, BindingNext, UNCHANGED dispatch
  PROVE  DispatchInv'
<1>1. CASE Accepts \/ Rejects
  BY <1>1, PromiseKeeps
<1>2. CASE Answers \/ Closes
  BY <1>2, AnswersKeep
<1>3. CASE /\ UNCHANGED <<source, accepted, rejected, closed>>
           /\ BinderAsks \/ BinderHung \/ UNCHANGED ask
  <2>1. ask \in [Requester -> Asking] /\ source \in Versions
    BY DEF DispatchInv, AcceptedTypes
  <2>2. Answer("closed") \in Asking /\ Quiet \in Asking
    BY AnswerIs DEF Status
  <2>3. Request(TRUE, TRUE) \in Asking
    BY <2>1 DEF Request, Asking, Status
  <2>4. ask' \in [Requester -> Asking]
    <3>1. CASE BinderAsks /\ closed
      <4>1. ask' = [ask EXCEPT ![Binder] = Answer("closed")]
        BY <3>1 DEF BinderAsks
      <4> QED
        BY <2>1, <2>2, <4>1
    <3>2. CASE BinderAsks /\ ~closed
      <4>1. ask' = [ask EXCEPT ![Binder] = Request(TRUE, TRUE)]
        BY <3>2 DEF BinderAsks
      <4> QED
        BY <2>1, <2>3, <4>1
    <3>3. CASE BinderHung
      BY <2>1, <2>2, <3>3 DEF BinderHung
    <3> QED
      BY <1>3, <2>1, <3>1, <3>2, <3>3
  <2>5. AcceptedTypes'
    BY <1>3, <2>4 DEF DispatchInv, AcceptedTypes
  <2>6. Unheld(dispatch)'
    BY IdleIs
  <2> QED
    BY <1>3, <2>5, <2>6, RestartKeeps
<1> QED
  BY <1>1, <1>2, <1>3, BinderAskIs

BindingAtStart ==
  /\ news = [epoch |-> 0, change |-> 0, mixed |-> FALSE]
  /\ binding = NewBinding /\ apply = NoApply /\ loaded = 0 /\ run = NewRun

\* The part that runs keeps its invariant; those that do not are as they began.  Those with
\* variables of their own keep theirs either way.
ServerInv ==
  /\ IInv /\ DeletionTypeOK /\ AuthInv /\ EventInv /\ CompactionInv
  /\ IF part = "live" THEN LiveInv ELSE DispatchInv /\ LiveInnerInit
  /\ part # "dispatch" => dispatch = DispatchIdle
  /\ IF part = "binding" THEN BindingInv ELSE ModelsInv /\ BindingAtStart

serverVars == <<vars, configurationVars, smallVars, part>>

\* Whatever a server does, each part with variables of its own does a step of its own, or
\* nothing.
LEMMA PartsStep ==
  ASSUME [ServerNext]_serverVars
  PROVE  /\ [Next]_vars /\ [DeletionNext]_deletionVars /\ [AuthNext]_authVars
         /\ [EventNext]_eventVars /\ [CompactionNext]_compactionVars
<1>1. CASE LeaseSteps
  BY <1>1 DEF LeaseSteps, smallVars
<1>2. CASE LiveSteps \/ DispatchSteps \/ BindingSteps \/ ModelSteps
  BY <1>2 DEF LiveSteps, DispatchSteps, BindingSteps, ModelSteps, smallVars
<1>3. CASE DeletionSteps
  BY <1>3 DEF DeletionSteps
<1>4. CASE AuthSteps
  BY <1>4 DEF AuthSteps
<1>5. CASE EventSteps
  BY <1>5 DEF EventSteps
<1>6. CASE CompactionSteps
  BY <1>6 DEF CompactionSteps
<1>7. CASE UNCHANGED serverVars
  BY <1>7 DEF serverVars, smallVars
<1> QED
  BY <1>1, <1>2, <1>3, <1>4, <1>5, <1>6, <1>7 DEF ServerNext

\* At first every part is as it begins, whichever runs.
LEMMA ServerBegins ==
  ASSUME ServerInit
  PROVE  ServerInv
<1>1. AcceptedInit /\ BindingInit /\ LiveInnerInit /\ dispatch = DispatchIdle
  BY DEF ServerInit, BindingInit
<1>2. IInv /\ DeletionTypeOK /\ AuthInv /\ EventInv /\ CompactionInv
  BY InitIInv, DeletionBegins, AuthBegins, EventsBegin, CompactionBegins DEF ServerInit
<1>3. LiveInv /\ DispatchInv
  BY <1>1, LiveBegins, DispatchBeginsInv
<1>4. BindingInv /\ ModelsInv
  BY <1>1, BindingStarts, ModelsBegin DEF BindingInit
<1> QED
  BY <1>1, <1>2, <1>3, <1>4 DEF ServerInv, BindingAtStart, BindingInit

\* The configuration, those who rely on it and the server's own models keep the invariant.
LEMMA ConfigurationPartsKeep ==
  ASSUME ServerInv, [ServerNext]_serverVars
  PROVE  /\ (IF part = "live" THEN LiveInv ELSE DispatchInv /\ LiveInnerInit)'
         /\ (part # "dispatch" => dispatch = DispatchIdle)'
         /\ (IF part = "binding" THEN BindingInv ELSE ModelsInv /\ BindingAtStart)'
<1> DEFINE live == IF part = "live" THEN LiveInv ELSE DispatchInv /\ LiveInnerInit
           dispatching == part # "dispatch" => dispatch = DispatchIdle
           bound == IF part = "binding" THEN BindingInv ELSE ModelsInv /\ BindingAtStart
<1>1. UNCHANGED <<innerVars>> => (LiveInnerInit => LiveInnerInit')
  BY DEF innerVars, LiveInnerInit
<1>2. UNCHANGED bindingOnly => (BindingAtStart => BindingAtStart')
  BY DEF bindingOnly, BindingAtStart
<1>3. UNCHANGED <<acceptedVars, dispatch>> => (DispatchInv => DispatchInv')
  BY DispatchStep DEF dispatchVars
<1>4. UNCHANGED transactionVars => (ModelsInv => ModelsInv')
  BY ModelsStep DEF transactionVars
<1>5. UNCHANGED <<acceptedVars, transactionVars, bindingOnly>> => (BindingInv => BindingInv')
  BY BindingNextKeeps DEF bindingVars, transactionVars, bindingOnly
<1>6. UNCHANGED liveVars => (LiveInv => LiveInv')
  BY LiveStep
<1>7. part' = part
  BY DEF ServerNext, serverVars
<1>8. CASE LiveSteps
  <2>1. LiveInv' /\ UNCHANGED <<dispatch, transactionVars, bindingOnly>>
    BY <1>8, LiveStep DEF ServerInv, LiveSteps
  <2> QED
    BY <1>2, <1>4, <1>7, <1>8, <2>1 DEF ServerInv, LiveSteps
<1>9. CASE DispatchSteps
  <2>1. DispatchInv' /\ UNCHANGED <<innerVars, transactionVars, bindingOnly>>
    BY <1>9, DispatchStep DEF ServerInv, DispatchSteps
  <2> QED
    BY <1>1, <1>2, <1>4, <1>7, <1>9, <2>1 DEF ServerInv, DispatchSteps
<1>10. CASE BindingSteps
  <2>1. BindingInv' /\ UNCHANGED <<innerVars, dispatch>>
    BY <1>10, BindingNextKeeps DEF ServerInv, BindingSteps
  <2>2. DispatchInv'
    BY <1>10, <2>1, BindingKeepsAccepted DEF ServerInv, BindingSteps
  <2> QED
    BY <1>1, <1>7, <1>10, <2>1, <2>2 DEF ServerInv, BindingSteps
<1>11. CASE ModelSteps
  <2>1. ModelsInv' /\ UNCHANGED <<liveVars, dispatch, bindingOnly>>
    BY <1>11, ModelsStep DEF ServerInv, ModelSteps
  <2> QED
    BY <1>1, <1>2, <1>3, <1>6, <1>7, <1>11, <2>1 DEF ServerInv, ModelSteps, liveVars
<1>12. CASE UNCHANGED configurationVars
  <2>1. UNCHANGED <<liveVars, innerVars, acceptedVars, dispatch, transactionVars, bindingOnly>>
    BY <1>12 DEF configurationVars, liveVars
  <2> QED
    BY <1>1, <1>2, <1>3, <1>4, <1>5, <1>6, <1>7, <2>1 DEF ServerInv
<1>13. CASE LeaseSteps \/ DeletionSteps \/ AuthSteps \/ EventSteps \/ CompactionSteps
            \/ UNCHANGED serverVars
  BY <1>12, <1>13 DEF LeaseSteps, DeletionSteps, AuthSteps, EventSteps, CompactionSteps, serverVars
<1> QED
  BY <1>8, <1>9, <1>10, <1>11, <1>13 DEF ServerNext

\* Every step of a server keeps the invariant.
LEMMA ServerStep ==
  ASSUME ServerInv, [ServerNext]_serverVars
  PROVE  ServerInv'
BY PartsStep, ConfigurationPartsKeep, NextIInv, DeletionStep, AuthStep, EventStep, CompactionStep
DEF ServerInv

\* Each part with variables of its own is run as it is specified.
THEOREM ServerRunsItsParts ==
  ServerSpec => /\ Init /\ [][Next]_vars
                /\ DeletionSpec /\ CompactionSpec
                /\ AuthInit /\ [][AuthNext]_authVars
                /\ EventInit /\ [][EventNext]_eventVars
<1>1. ServerInit => Init /\ DeletionInit /\ CompactionInit /\ AuthInit /\ EventInit
  BY DEF ServerInit
<1> QED
  BY <1>1, PartsStep, PTL DEF ServerSpec, DeletionSpec, CompactionSpec, serverVars

\* Whichever part of a server runs keeps its invariant, and the others are left alone.
THEOREM ServerConsistent == ServerSpec => []ServerInv
<1> QED
  BY ServerBegins, ServerStep, PTL DEF ServerSpec, serverVars

\* A configuration that nobody begins to run has its types, whatever is accepted.
LEMMA UntouchedIsTyped ==
  /\ AcceptedTypes /\ LiveInnerInit => LiveTypeOK
  /\ BindingAtStart => BindingTypeOK
<1>1. ASSUME AcceptedTypes, LiveInnerInit PROVE LiveTypeOK
  <2>1. NoBatch \in Batches /\ DrainRest.at = "idle" /\ DrainRest.batch = NoBatch /\ DrainRest.status = "none"
    BY RestIs
  <2>2. \A r \in Requester : ask[r].at \in {"quiet", "waiting", "answered"} /\ ask[r].status \in Status
    BY <1>1 DEF AcceptedTypes, Asking
  <2>3. 0 \in 0..MaxLiveFaults
    BY LiveAssumption
  <2> QED
    BY <1>1, <2>1, <2>2, <2>3 DEF LiveTypeOK, LiveInnerInit, AcceptedTypes, Batches, Quality, Status
<1>2. ASSUME BindingAtStart PROVE BindingTypeOK
  <2>1. NoState \in States /\ 0 \in 0..MaxEpochs
    BY BindingAssumption DEF NoState, States
  <2> QED
    BY <1>2, <2>1 DEF BindingAtStart, BindingTypeOK, NewBinding, NoApply, NewRun
<1> QED
  BY <1>1, <1>2

\* What every part of a server keeps has its type, whichever runs.
THEOREM ServerTypeCorrect == ServerSpec => []ServerTypeOK
<1>1. ServerInv => ServerTypeOK
  <2> SUFFICES ASSUME ServerInv PROVE ServerTypeOK
    OBVIOUS
  <2>1. LeaseTypeOK /\ DeletionTypeOK /\ AuthTypeOK /\ EventTypeOK /\ CompactionTypeOK
    BY DEF ServerInv, IInv, AuthInv, EventInv, CompactionInv
  <2>2. LiveTypeOK
    BY LiveTyped, UntouchedIsTyped DEF ServerInv, DispatchInv
  <2>3. DispatchTypeOK
    BY IdleIs DEF ServerInv, DispatchInv, DispatchTypeOK, Unheld, Dispatches
  <2>4. BindingTypeOK /\ ModelsTypeOK
    BY UntouchedIsTyped DEF ServerInv, BindingInv, BindingTypes, ModelsInv
  <2> QED
    BY <2>1, <2>2, <2>3, <2>4 DEF ServerTypeOK
<1> QED
  BY <1>1, ServerConsistent, PTL
=============================================================================
