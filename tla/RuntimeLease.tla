---------------------------- MODULE RuntimeLease ----------------------------
(***************************************************************************)
(* The lease by which EasyResearch processes exclude one another           *)
(* (cli/runtime-lease.ts): a directory that appears under its name by one  *)
(* rename, with one file in it that names the owner's pid and token.  The  *)
(* processes share nothing but the file system, so each of their file      *)
(* system calls is a step of its own, and a process may die between any    *)
(* two of them.                                                            *)
(*                                                                         *)
(* The transition lease (one process at a time starts, stops or replaces a *)
(* server) and the server lease (one process at a time serves) are two     *)
(* directories run by this one algorithm; the server lease uses less of it *)
(* (no waiting, no handoff).                                               *)
(***************************************************************************)
EXTENDS Naturals

CONSTANTS
  Process,      \* processes, each with a pid of its own
  Token,        \* ownership tokens: random, so nobody draws one that was drawn
  NoProcess,    \* the pid of a token nobody has drawn yet
  NoToken,
  MaxCrashes,   \* processes that die on the way
  MaxFaults,    \* file operations of a handoff that throw
  LegacyLease   \* whether a lease file of an older version may be found

ASSUME LeaseAssumption ==
  /\ NoProcess \notin Process
  /\ NoToken \notin Token
  /\ MaxCrashes \in Nat
  /\ MaxFaults \in Nat
  /\ LegacyLease \in BOOLEAN

VARIABLES
  path,        \* what the lease's name refers to
  records,     \* the tokens whose owner file is in the directory
  guards,      \* the processes whose handoff guard is in the directory
  pidOf,       \* the pid that the record of a token names
  legacyAlive, \* the owner of an older version's lease file runs
  alive,
  pc,
  desired,     \* the token a process acquires with
  seen,        \* the token of the record it found
  held,        \* its handle's `held`
  rec,         \* its handle's `currentRecord`
  to,          \* the token of its handoff
  adoptable,   \* the tokens given to a process that adopts the lease itself
  outcome,     \* why the last acquisition rejected
  crashes, faults

disk == <<path, records, guards>>
handle == <<held, rec, to>>
request == <<desired, seen, outcome>>
tokens == <<pidOf, adoptable>>
env == <<legacyAlive, alive, crashes, faults>>
vars == <<disk, pc, tokens, request, handle, env>>

-----------------------------------------------------------------------------

Acquiring == {"publish", "exists", "stat", "list", "readFile", "read", "probe",
              "recheck", "unlink", "rmdir"}
Adopting == {"adoptList", "adoptRead"}
\* commit and cancel, each step of which leaves the guard where it is
HandingOff == {"reserved", "writeChild", "unlinkParent", "unlinkGuard",
               "cancelParent", "cancelChild", "cancelGuard"}
Releasing == {"releaseRead", "releaseUnlink", "releaseRmdir"}
Location == {"idle", "holding", "writeGuard", "checkCustody", "transferred", "lost"}
              \cup Acquiring \cup Adopting \cup HandingOff \cup Releasing

Empty == path = "dir" /\ records = {} /\ guards = {}
Used == {t \in Token : pidOf[t] # NoProcess} \cup {to[p] : p \in Process}
Fresh == Token \ Used
Goto(p, l) == pc' = [pc EXCEPT ![p] = l]
At(p, l) == alive[p] /\ pc[p] = l

(***************************************************************************)
(* Acquisition                                                             *)
(***************************************************************************)

StartAcquire(p, t) ==
  /\ At(p, "idle") /\ ~held[p]
  /\ desired' = [desired EXCEPT ![p] = t]
  /\ pidOf' = [pidOf EXCEPT ![t] = p]
  /\ outcome' = [outcome EXCEPT ![p] = "none"]
  /\ Goto(p, "publish")
  /\ UNCHANGED <<disk, seen, handle, adoptable, env>>

Reject(p, why) ==
  /\ outcome' = [outcome EXCEPT ![p] = why]
  /\ Goto(p, "idle")

\* The rename of a complete directory onto the lease's name; it replaces an
\* empty directory on POSIX.
Publish(p) ==
  /\ At(p, "publish")
  /\ path = "missing" \/ Empty
  /\ path' = "dir"
  /\ records' = {desired[p]}
  /\ held' = [held EXCEPT ![p] = TRUE]
  /\ rec' = [rec EXCEPT ![p] = desired[p]]
  /\ Goto(p, "holding")
  /\ UNCHANGED <<guards, tokens, request, to, env>>

\* The rename is refused, on Windows for an empty directory too.
PublishRefused(p) ==
  /\ At(p, "publish")
  /\ path # "missing"
  /\ Goto(p, "exists")
  /\ UNCHANGED <<disk, tokens, request, handle, env>>

\* An error of the rename counts as contention only if the name still exists.
PathExists(p) ==
  /\ At(p, "exists")
  /\ IF path = "missing" THEN Reject(p, "rename")
     ELSE Goto(p, "stat") /\ UNCHANGED outcome
  /\ UNCHANGED <<disk, tokens, desired, seen, handle, env>>

\* readLease, call by call: lstat, readdir, readFile
Stat(p) ==
  /\ At(p, "stat")
  /\ Goto(p, CASE path = "missing" -> "publish"
               [] path = "file" -> "readFile"
               [] path = "dir" -> "list")
  /\ UNCHANGED <<disk, tokens, request, handle, env>>

\* The entry that names the owner, where it is the only entry.
Sole(t) == path = "dir" /\ guards = {} /\ records = {t}

List(p) ==
  /\ At(p, "list")
  /\ \/ /\ Empty
        /\ Goto(p, "rmdir") /\ UNCHANGED <<seen, outcome>>
     \/ \E t \in records :
          /\ Sole(t)
          /\ seen' = [seen EXCEPT ![p] = t]
          /\ Goto(p, "read") /\ UNCHANGED outcome
     \/ /\ ~Empty /\ \A t \in records : ~Sole(t)
        /\ Reject(p, "unverifiable") /\ UNCHANGED seen
  /\ UNCHANGED <<disk, tokens, desired, handle, env>>

ReadRecord(p) ==
  /\ At(p, "read")
  /\ IF seen[p] \in records THEN Goto(p, "probe") /\ UNCHANGED outcome
     ELSE Reject(p, "unverifiable")
  /\ UNCHANGED <<disk, tokens, desired, seen, handle, env>>

\* A live owner is waited for, or refuses: at once for a server lease, at the
\* deadline for a transition.
RejectOrWait(p) ==
  \/ Reject(p, "live")
  \/ Goto(p, "publish") /\ UNCHANGED outcome

IsAlive(p) ==
  /\ At(p, "probe")
  /\ IF alive[pidOf[seen[p]]] THEN RejectOrWait(p)
     ELSE Goto(p, "recheck") /\ UNCHANGED outcome
  /\ UNCHANGED <<disk, tokens, desired, seen, handle, env>>

\* Mutant: the record is looked for under the contender's own token.
MutantRecheck(p) ==
  /\ At(p, "recheck")
  /\ Goto(p, IF desired[p] \in records THEN "unlink" ELSE "publish")
  /\ UNCHANGED <<disk, tokens, request, handle, env>>

\* removeDirectoryLease of the dead owner's token
Recheck(p) ==
  /\ At(p, "recheck")
  /\ Goto(p, IF seen[p] \in records THEN "unlink" ELSE "publish")
  /\ UNCHANGED <<disk, tokens, request, handle, env>>

\* Mutant: the dead owner's lease is removed with whatever its directory holds.
MutantUnlinkStale(p) ==
  /\ At(p, "unlink")
  /\ records' = {}
  /\ Goto(p, "rmdir")
  /\ UNCHANGED <<path, guards, tokens, request, handle, env>>

UnlinkStale(p) ==
  /\ At(p, "unlink")
  /\ records' = records \ {seen[p]}
  /\ Goto(p, IF seen[p] \in records THEN "rmdir" ELSE "publish")
  /\ UNCHANGED <<path, guards, tokens, request, handle, env>>

\* rmdir removes an empty directory and leaves any other
Rmdir == path' = IF Empty THEN "missing" ELSE path

RemoveEmptyDirectory(p) ==
  /\ At(p, "rmdir")
  /\ Rmdir
  /\ Goto(p, "publish")
  /\ UNCHANGED <<records, guards, tokens, request, handle, env>>

\* A lease file of an older version is respected while its owner lives and
\* never removed.
ReadLegacyFile(p) ==
  /\ At(p, "readFile")
  /\ IF path = "file" /\ legacyAlive THEN RejectOrWait(p)
     ELSE Reject(p, "unverifiable")
  /\ UNCHANGED <<disk, tokens, desired, seen, handle, env>>

(***************************************************************************)
(* Release                                                                 *)
(***************************************************************************)

StartRelease(p) ==
  /\ At(p, "holding") \/ At(p, "transferred")
  /\ Goto(p, "releaseRead")
  /\ UNCHANGED <<disk, tokens, request, handle, env>>

\* release() returns false where the record is gone, and the handle stays held.
ReleaseRead(p) ==
  /\ At(p, "releaseRead")
  /\ Goto(p, IF rec[p] \in records THEN "releaseUnlink" ELSE "lost")
  /\ UNCHANGED <<disk, tokens, request, handle, env>>

\* Mutant: the lease directory is removed with whatever it holds.
MutantReleaseUnlink(p) ==
  /\ At(p, "releaseUnlink")
  /\ records' = {}
  /\ Goto(p, "releaseRmdir")
  /\ UNCHANGED <<path, guards, tokens, request, handle, env>>

ReleaseUnlink(p) ==
  /\ At(p, "releaseUnlink")
  /\ records' = records \ {rec[p]}
  /\ Goto(p, IF rec[p] \in records THEN "releaseRmdir" ELSE "lost")
  /\ UNCHANGED <<path, guards, tokens, request, handle, env>>

ReleaseRmdir(p) ==
  /\ At(p, "releaseRmdir")
  /\ Rmdir
  /\ held' = [held EXCEPT ![p] = FALSE]
  /\ Goto(p, "idle")
  /\ UNCHANGED <<records, guards, tokens, request, rec, to, env>>

(***************************************************************************)
(* Handoff                                                                 *)
(***************************************************************************)

\* reserveHandoff, with the owner's own record: to a child that works under its
\* parent's custody, or to the process that started this one and will adopt the
\* lease; that process drew one token for all the handoffs it may be given.
Reserve(p, t, adopted) ==
  /\ At(p, "holding") /\ pidOf[rec[p]] = p
  /\ \/ t \in Fresh
     \/ t = to[p] /\ t \in adoptable /\ adopted
  /\ to' = [to EXCEPT ![p] = t]
  /\ adoptable' = IF adopted THEN adoptable \cup {t} ELSE adoptable
  /\ Goto(p, "writeGuard")
  /\ UNCHANGED <<disk, pidOf, request, held, rec, env>>

\* Mutant: a handoff is reserved without its guard.
MutantWriteGuard(p) ==
  /\ At(p, "writeGuard")
  /\ Goto(p, IF path = "dir" THEN "checkCustody" ELSE "holding")
  /\ UNCHANGED <<disk, tokens, request, handle, env>>

WriteGuard(p) ==
  /\ At(p, "writeGuard")
  /\ IF path = "dir"
     THEN guards' = guards \cup {p} /\ Goto(p, "checkCustody")
     ELSE Goto(p, "holding") /\ UNCHANGED guards
  /\ UNCHANGED <<path, records, tokens, request, handle, env>>

CheckCustody(p) ==
  /\ At(p, "checkCustody")
  /\ IF rec[p] \in records
     THEN Goto(p, "reserved") /\ UNCHANGED guards
     ELSE guards' = guards \ {p} /\ Goto(p, "holding")
  /\ UNCHANGED <<path, records, tokens, request, handle, env>>

\* commit(pid); one that threw may be called again for the same child
StartCommit(p, c) ==
  /\ At(p, "reserved") /\ p # c
  /\ \/ pidOf[to[p]] = c
     \/ pidOf[to[p]] = NoProcess /\ alive[c]
  /\ pidOf' = [pidOf EXCEPT ![to[p]] = c]
  /\ Goto(p, "writeChild")
  /\ UNCHANGED <<disk, request, handle, adoptable, env>>

WriteChild(p) ==
  /\ At(p, "writeChild")
  /\ records' = records \cup {to[p]}
  /\ Goto(p, "unlinkParent")
  /\ UNCHANGED <<path, guards, tokens, request, handle, env>>

UnlinkParent(p) ==
  /\ At(p, "unlinkParent")
  /\ records' = records \ {rec[p]}
  /\ Goto(p, "unlinkGuard")
  /\ UNCHANGED <<path, guards, tokens, request, handle, env>>

\* Where the child adopts the lease, relinquish() follows at once.
UnlinkGuard(p) ==
  /\ At(p, "unlinkGuard")
  /\ guards' = guards \ {p}
  /\ rec' = [rec EXCEPT ![p] = to[p]]
  /\ held' = [held EXCEPT ![p] = to[p] \notin adoptable]
  /\ Goto(p, IF to[p] \in adoptable THEN "idle" ELSE "transferred")
  /\ UNCHANGED <<path, records, tokens, request, to, env>>

\* A child that survives its parent's cleanup keeps the custody in its name.
Relinquish(p) ==
  /\ At(p, "transferred")
  /\ held' = [held EXCEPT ![p] = FALSE]
  /\ Goto(p, "idle")
  /\ UNCHANGED <<disk, tokens, request, rec, to, env>>

StartCancel(p) ==
  /\ At(p, "reserved")
  /\ Goto(p, "cancelParent")
  /\ UNCHANGED <<disk, tokens, request, handle, env>>

\* Mutant: the token acquired with is restored, not the handle's current one.
MutantCancelParent(p) ==
  /\ At(p, "cancelParent")
  /\ records' = records \cup {desired[p]}
  /\ Goto(p, "cancelChild")
  /\ UNCHANGED <<path, guards, tokens, request, handle, env>>

CancelParent(p) ==
  /\ At(p, "cancelParent")
  /\ records' = records \cup {rec[p]}
  /\ Goto(p, "cancelChild")
  /\ UNCHANGED <<path, guards, tokens, request, handle, env>>

CancelChild(p) ==
  /\ At(p, "cancelChild")
  /\ records' = records \ {to[p]}
  /\ Goto(p, "cancelGuard")
  /\ UNCHANGED <<path, guards, tokens, request, handle, env>>

CancelGuard(p) ==
  /\ At(p, "cancelGuard")
  /\ guards' = guards \ {p}
  /\ Goto(p, "holding")
  /\ UNCHANGED <<path, records, tokens, request, handle, env>>

\* A file operation of commit or cancel throws, and the handoff stays reserved.
HandoffFault(p) ==
  /\ alive[p] /\ pc[p] \in HandingOff \ {"reserved"}
  /\ faults < MaxFaults
  /\ faults' = faults + 1
  /\ Goto(p, "reserved")
  /\ UNCHANGED <<disk, tokens, request, handle, legacyAlive, alive, crashes>>

(***************************************************************************)
(* Adoption: the disk must name exactly this process and this token        *)
(***************************************************************************)

AdoptList(p, t) ==
  /\ At(p, "idle") /\ ~held[p]
  /\ t \in adoptable /\ pidOf[t] = p
  /\ Sole(t)
  /\ seen' = [seen EXCEPT ![p] = t]
  /\ Goto(p, "adoptRead")
  /\ UNCHANGED <<disk, tokens, desired, outcome, handle, env>>

AdoptRead(p) ==
  /\ At(p, "adoptRead")
  /\ IF seen[p] \in records
     THEN /\ held' = [held EXCEPT ![p] = TRUE]
          /\ rec' = [rec EXCEPT ![p] = seen[p]]
          /\ Goto(p, "holding")
     ELSE Goto(p, "idle") /\ UNCHANGED <<held, rec>>
  /\ UNCHANGED <<disk, tokens, request, to, env>>

(***************************************************************************)
(* The environment                                                         *)
(***************************************************************************)

Crash(p) ==
  /\ alive[p] /\ crashes < MaxCrashes
  /\ alive' = [alive EXCEPT ![p] = FALSE]
  /\ crashes' = crashes + 1
  /\ UNCHANGED <<disk, tokens, request, handle, legacyAlive, faults, pc>>

\* The older version's owner unlinks its file, or dies and leaves it.
LegacyExit ==
  /\ legacyAlive
  /\ legacyAlive' = FALSE
  /\ path' \in {"missing", "file"}
  /\ UNCHANGED <<records, guards, tokens, request, handle, alive, crashes, faults, pc>>

-----------------------------------------------------------------------------

Init ==
  /\ path \in IF LegacyLease THEN {"missing", "file"} ELSE {"missing"}
  /\ legacyAlive = (path = "file")
  /\ records = {} /\ guards = {}
  /\ pidOf = [t \in Token |-> NoProcess]
  /\ alive = [p \in Process |-> TRUE]
  /\ pc = [p \in Process |-> "idle"]
  /\ desired = [p \in Process |-> NoToken]
  /\ seen = [p \in Process |-> NoToken]
  /\ held = [p \in Process |-> FALSE]
  /\ rec = [p \in Process |-> NoToken]
  /\ to = [p \in Process |-> NoToken]
  /\ adoptable = {}
  /\ outcome = [p \in Process |-> "none"]
  /\ crashes = 0 /\ faults = 0

Acquisition(p) ==
  \/ Publish(p) \/ PublishRefused(p) \/ PathExists(p) \/ Stat(p) \/ List(p)
  \/ ReadRecord(p) \/ IsAlive(p) \/ Recheck(p) \/ UnlinkStale(p)
  \/ RemoveEmptyDirectory(p) \/ ReadLegacyFile(p)

Next ==
  \/ \E p \in Process : Acquisition(p)
  \/ \E p \in Process : \E t \in Fresh : StartAcquire(p, t)
  \/ \E p \in Process : StartRelease(p)
  \/ \E p \in Process : ReleaseRead(p)
  \/ \E p \in Process : ReleaseUnlink(p)
  \/ \E p \in Process : ReleaseRmdir(p)
  \/ \E p \in Process : \E t \in Token, adopted \in BOOLEAN : Reserve(p, t, adopted)
  \/ \E p \in Process : WriteGuard(p)
  \/ \E p \in Process : CheckCustody(p)
  \/ \E p, c \in Process : StartCommit(p, c)
  \/ \E p \in Process : WriteChild(p)
  \/ \E p \in Process : UnlinkParent(p)
  \/ \E p \in Process : UnlinkGuard(p)
  \/ \E p \in Process : Relinquish(p)
  \/ \E p \in Process : StartCancel(p)
  \/ \E p \in Process : CancelParent(p)
  \/ \E p \in Process : CancelChild(p)
  \/ \E p \in Process : CancelGuard(p)
  \/ \E p \in Process : HandoffFault(p)
  \/ \E p \in Process : \E t \in Token : AdoptList(p, t)
  \/ \E p \in Process : AdoptRead(p)
  \/ \E p \in Process : Crash(p)
  \/ LegacyExit

\* A process that acquires goes on: nothing it does there waits for another.
Fairness == \A p \in Process : WF_vars(Acquisition(p))

LeaseSpec == Init /\ [][Next]_vars /\ Fairness

-----------------------------------------------------------------------------
(***************************************************************************)
(* Properties                                                              *)
(***************************************************************************)

\* Type correctness of everything the lease keeps on disk and in memory.
LeaseTypeOK ==
  /\ path \in {"missing", "file", "dir"}
  /\ records \subseteq Token
  /\ guards \subseteq Process
  /\ pidOf \in [Token -> Process \cup {NoProcess}]
  /\ legacyAlive \in BOOLEAN
  /\ alive \in [Process -> BOOLEAN]
  /\ pc \in [Process -> Location]
  /\ desired \in [Process -> Token \cup {NoToken}]
  /\ seen \in [Process -> Token \cup {NoToken}]
  /\ held \in [Process -> BOOLEAN]
  /\ rec \in [Process -> Token \cup {NoToken}]
  /\ to \in [Process -> Token \cup {NoToken}]
  /\ adoptable \subseteq Token
  /\ outcome \in [Process -> {"none", "rename", "unverifiable", "live"}]
  /\ crashes \in 0..MaxCrashes
  /\ faults \in 0..MaxFaults

\* p acts as the lease's owner, in its own name or in the name of a child that
\* lives: it has a handle and has not begun to take its record away.
Custody(p) ==
  /\ alive[p] /\ held[p]
  /\ pidOf[rec[p]] \in Process /\ alive[pidOf[rec[p]]]
  /\ pc[p] # "releaseRmdir"

\* Two processes never act as owners at the same time, however the file system
\* calls of acquisitions, releases, handoffs and the removal of dead owners'
\* leases interleave, and wherever processes die (acquireRuntimeLease,
\* createLeaseHandle).
CustodyIsExclusive ==
  \A p, q \in Process : Custody(p) /\ Custody(q) => p = q

\* A record that names a live process is taken away only by a step of a process that
\* holds it: neither a contender that has found a dead owner nor an owner that
\* releases late removes the record of the owner that came after
\* (removeDirectoryLease).
LiveRecordsStay ==
  [][\A t \in records \ records' :
       pidOf[t] \in Process /\ alive[pidOf[t]] =>
         \E p \in Process :
           pc'[p] # pc[p] /\ alive[p] /\ held[p] /\ t \in {rec[p], to[p]}]_vars

\* "Every interrupted step before this point leaves the handoff guard [...], so
\* acquisition fails closed" (commit), and so does every step of cancel: from the
\* reservation on, when a child may already run that no record names, nobody
\* acquires or adopts the lease until the handoff is over, and nobody ever does
\* where its process died in the middle.
HandoffFailsClosed ==
  [][\A p, q \in Process :
       pc[p] \in HandingOff => (held'[q] => held[q])]_vars

\* release() finds its record gone only where the process it names has died and
\* somebody recovered the lease.
LostMeansDead ==
  \A p \in Process : At(p, "lost") => ~alive[pidOf[rec[p]]]

Stale == \E t \in records : Sole(t) /\ ~alive[pidOf[t]]

\* A lease whose owner died outside a handoff does not stay for ever while somebody
\* asks for it: it is recovered, or the contender has died or met with another
\* contender's steps (acquireRuntimeLease's loop).
StaleLeaseIsRecovered ==
  \A p \in Process :
    (Stale /\ alive[p] /\ pc[p] = "publish")
      ~> (~Stale \/ ~alive[p] \/ outcome[p] = "unverifiable")

\* "waits for a live transition owner and acquires after release", "recovers a
\* directory lease only after proving its process is dead" (runtime-lease.test.ts):
\* a contender finds a lease unverifiable only where there is something it cannot
\* verify, a handoff in progress or broken off, or an older version's file.
NothingCleanIsUnverifiable ==
  \A p \in Process :
    outcome[p] \in {"unverifiable", "rename"} =>
      LegacyLease \/ \E q \in Process : to[q] # NoToken

=============================================================================
