--------------------------- MODULE SessionDeletion ---------------------------
(***************************************************************************)
(* deleteSessionHistories (web/session-deletion.ts): a session and the     *)
(* children it dispatched are files that refer to one another, and forks   *)
(* refer to the children of what they were forked from.  A deletion lists  *)
(* the files, and in one synchronous step reads what they refer to, then   *)
(* refuses or removes.  A file may fail to be removed, or the server end,  *)
(* half way: whoever asked asks again.                                     *)
(***************************************************************************)
EXTENDS Naturals, FiniteSets

CONSTANTS
  History,    \* the ids of the sessions, each with a file of its own
  Workspaces  \* the directories they work in

ASSUME WorkspaceAssumption == Workspaces # {}

\* file: of each session; refers: the children recorded in it; cwd: the
\* directory of a session; child: those that a dispatch made; deletion: what
\* was asked for, and the files that its listing returned.
VARIABLES file, refers, cwd, child, deletion

deletionVars == <<file, refers, cwd, child, deletion>>

NoDeletion == [at |-> "idle", targets |-> {}, listed |-> {}, preserve |-> FALSE,
               missing |-> FALSE]

There == {s \in History : file[s] = "there"}

DeletionInit ==
  /\ file = [s \in History |-> "new"]
  /\ refers = [s \in History |-> {}]
  /\ cwd = [s \in History |-> CHOOSE w \in Workspaces : TRUE]
  /\ child = {}
  /\ deletion = NoDeletion

\* The sessions that some lead to, through the files there are, within some
\* directories (postorder; the journal, the aliases and the links of a file).
Closed(set, within) ==
  \A s \in set \cap There : {c \in refers[s] : cwd[c] \in within} \subseteq set
Reached(some, within) ==
  {x \in History : \A set \in SUBSET History :
                     some \subseteq set /\ Closed(set, within) => x \in set}

-----------------------------------------------------------------------------
\* Sessions go on meanwhile.

\* The ids are random; which one is drawn is immaterial.
Drawn(s) == file[s] = "new" /\ s = CHOOSE x \in History : file[x] = "new"

Written(s, w) ==
  /\ Drawn(s)
  /\ file' = [file EXCEPT ![s] = "there"]
  /\ cwd' = [cwd EXCEPT ![s] = w]
  /\ UNCHANGED deletion

RootWritten(s) ==
  /\ \E w \in Workspaces : Written(s, w)
  /\ UNCHANGED <<refers, child>>

\* A dispatch: the child works where its owner does.
ChildWritten(o, s) ==
  /\ o \in There
  /\ Written(s, cwd[o])
  /\ refers' = [refers EXCEPT ![o] = @ \cup {s}]
  /\ child' = child \cup {s}

\* A fork refers to what its source does, wherever it works.
ForkWritten(o, s) ==
  /\ o \in There
  /\ \E w \in Workspaces : Written(s, w)
  /\ refers' = [refers EXCEPT ![s] = refers[o]]
  /\ UNCHANGED child

-----------------------------------------------------------------------------
\* The deletion.

\* Of one session, which may never have been written, or of all those of a
\* workspace, where a child that others share may stay.
DeletionAsked ==
  /\ deletion.at = "idle"
  /\ \/ \E s \in History, missing \in BOOLEAN :
          /\ file[s] # "new"
          /\ deletion' = [NoDeletion EXCEPT !.at = "listing", !.targets = {s}, !.missing = missing]
     \/ \E w \in Workspaces :
          /\ \E s \in There : cwd[s] = w
          /\ deletion' = [NoDeletion EXCEPT !.at = "listing", !.preserve = TRUE,
                                            !.targets = {s \in There : cwd[s] = w}]
  /\ UNCHANGED <<file, refers, cwd, child>>

\* store.listAll leaves out what it cannot parse.
DeletionListed ==
  /\ deletion.at = "listing"
  /\ \E omitted \in {{}} \cup {{s} : s \in There} :
       deletion' = [deletion EXCEPT !.at = "listed", !.listed = There \ omitted]
  /\ UNCHANGED <<file, refers, cwd, child>>

Roots == deletion.targets \cap There

\* The histories known: those listed, and those that they lead to.
Known == Reached(deletion.listed, Workspaces) \cap There

\* What the targets lead to in their directory is to be removed, but for what
\* a history that stays leads to.
Intended == Reached(Roots, {cwd[r] : r \in Roots})
Protected == Reached(Known \ Intended, Workspaces)
Plan == (Intended \ Protected) \cap There

\* Mutant: the inventory is not compared with the files there are.
MutantVerified ==
  /\ Roots \subseteq deletion.listed
  /\ deletion.targets \subseteq There \/ deletion.missing
  /\ \A r \in Roots \cap Protected : deletion.preserve /\ r \in child

\* A target was listed, if it is there; every file there is, is known; and a
\* target that others refer to may only stay where that is asked for.
Verified ==
  /\ Roots \subseteq deletion.listed
  /\ deletion.targets \subseteq There \/ deletion.missing
  /\ There \subseteq Known
  /\ \A r \in Roots \cap Protected : deletion.preserve /\ r \in child

\* The files removed by then: children come before those that refer to them.
Prefix(removed) ==
  \A s \in removed : {c \in refers[s] \cap Plan : cwd[c] = cwd[s]} \subseteq removed

FilesRemoved ==
  /\ deletion.at = "listed"
  /\ Verified
  /\ \E removed \in SUBSET Plan :
       /\ Prefix(removed)
       /\ file' = [s \in History |-> IF s \in removed THEN "gone" ELSE file[s]]
       /\ refers' = [s \in History |-> IF s \in removed THEN {} ELSE refers[s]]
  /\ deletion' = NoDeletion
  /\ UNCHANGED <<cwd, child>>

\* SessionHistoryConflictError: of these checks, or of those on what the
\* records say of one another.
DeletionRefused ==
  /\ deletion.at = "listed"
  /\ deletion' = NoDeletion
  /\ UNCHANGED <<file, refers, cwd, child>>

DeletionNext ==
  \/ \E s \in History : RootWritten(s)
  \/ \E o, s \in History : ChildWritten(o, s) \/ ForkWritten(o, s)
  \/ DeletionAsked \/ DeletionListed \/ FilesRemoved \/ DeletionRefused

DeletionSpec == DeletionInit /\ [][DeletionNext]_deletionVars

-----------------------------------------------------------------------------

DeletionTypeOK ==
  /\ file \in [History -> {"new", "there", "gone"}]
  /\ refers \in [History -> SUBSET History]
  /\ cwd \in [History -> Workspaces]
  /\ child \subseteq History
  /\ deletion \in [at : {"idle", "listing", "listed"}, targets : SUBSET History,
                   listed : SUBSET History, preserve : BOOLEAN, missing : BOOLEAN]

\* Of the files that a deletion removes, whole or half way, none is one that a
\* history outside the deletion leads to, and none leaves a child behind in its
\* directory that no history refers to any more, which no later try would find
\* (session-deletion.test.ts: "retains the ownership index after a later-child
\* failure and completes a root-last retry", "protects a shared child").
DeletionKeepsTheTree ==
  [][LET gone == {s \in There : file'[s] = "gone"}
         doomed == Reached(deletion.targets, {cwd[s] : s \in deletion.targets})
     IN  gone # {} =>
           /\ gone \cap Reached(There \ doomed, Workspaces) = {}
           /\ \A x \in gone : \A c \in refers[x] \cap (There \ gone) :
                cwd[c] = cwd[x] => \E s \in There \ gone : c \in refers[s]]_deletionVars
=============================================================================
