-------------------------- MODULE SessionOwnership --------------------------
(***************************************************************************)
(* What the active session registry promises to the processes, the files   *)
(* and the people around it, whatever it does to keep the promise: a       *)
(* session has one runtime at most; its files are changed only while it    *)
(* has none; a closed registry has none at all and gets none any more.     *)
(* SessionRegistry is shown to implement this module.                      *)
(***************************************************************************)
EXTENDS FiniteSets

CONSTANTS
  Session,
  Runtime     \* names of runtimes

VARIABLES
  alive,      \* the runtimes of a session that hold its file open
  exclusive,  \* the sessions whose files are being changed
  gate        \* whether the registry admits work

ownership == <<alive, exclusive, gate>>

OwnershipInit ==
  /\ alive = [s \in Session |-> {}]
  /\ exclusive = {}
  /\ gate = "open"

Start(s, r) ==
  /\ gate = "open"
  /\ s \notin exclusive
  /\ alive[s] = {}
  /\ alive' = [alive EXCEPT ![s] = {r}]
  /\ UNCHANGED <<exclusive, gate>>

End(s) ==
  /\ alive[s] # {}
  /\ alive' = [alive EXCEPT ![s] = {}]
  /\ UNCHANGED <<exclusive, gate>>

\* Files are touched for one session (a deletion, a rename) or for all the
\* sessions of a workspace.
Enter(S) ==
  /\ gate # "closed"
  /\ S \cap exclusive = {}
  /\ \A s \in S : alive[s] = {}
  /\ exclusive' = exclusive \cup S
  /\ UNCHANGED <<alive, gate>>

Leave(S) ==
  /\ S \subseteq exclusive
  /\ exclusive' = exclusive \ S
  /\ UNCHANGED <<alive, gate>>

Close ==
  /\ gate = "open"
  /\ gate' = "closing"
  /\ UNCHANGED <<alive, exclusive>>

Closed ==
  /\ gate = "closing"
  /\ exclusive = {}
  /\ \A s \in Session : alive[s] = {}
  /\ gate' = "closed"
  /\ UNCHANGED <<alive, exclusive>>

OwnershipNext ==
  \/ \E s \in Session, r \in Runtime : Start(s, r)
  \/ \E s \in Session : End(s)
  \/ \E S \in SUBSET Session : Enter(S) \/ Leave(S)
  \/ Close
  \/ Closed

OwnershipSpec == OwnershipInit /\ [][OwnershipNext]_ownership
=============================================================================
