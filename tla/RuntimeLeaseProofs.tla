------------------------- MODULE RuntimeLeaseProofs -------------------------
(***************************************************************************)
(* Mutual exclusion by the lease directory, for any number of processes,   *)
(* tokens, crashes and failed file operations.                             *)
(*                                                                         *)
(* CustodyIsExclusive alone is not inductive: that nobody else becomes the *)
(* owner rests on what is on disk for as long as somebody is.  The         *)
(* invariant ties the two together: an owner's record is in the directory, *)
(* or its handoff guard is (Anchored), a contender removes only records of *)
(* the dead (StaleIsDead), and while an adopter reads, the record that it  *)
(* found is all there is (AdoptsAlone).                                    *)
(***************************************************************************)
EXTENDS RuntimeLease, TLAPS

Guarded == {"checkCustody"} \cup HandingOff
Holding == {"holding", "writeGuard", "transferred", "lost"} \cup Guarded \cup Releasing
Scanning == {"read", "probe", "recheck", "unlink"}

\* A handle is held exactly where the process is beyond its acquisition, and
\* names a process; a handoff begins with a record in the process's own name.
HandleNamesOwner ==
  \A p \in Process :
    /\ held[p] <=> pc[p] \in Holding
    /\ held[p] => rec[p] \in Token /\ pidOf[rec[p]] \in Process
    /\ pc[p] \in Guarded \cup {"writeGuard"} => pidOf[rec[p]] = p /\ to[p] \in Token
    /\ to[p] \in Token => pidOf[to[p]] # p
    /\ pc[p] \in {"writeChild", "unlinkParent", "unlinkGuard"} => pidOf[to[p]] \in Process
    /\ pc[p] \in Acquiring => desired[p] \in Token /\ pidOf[desired[p]] = p
    /\ held[p] /\ rec[p] \in adoptable => pidOf[rec[p]] = p
    /\ \A q \in Process : to[p] \in Token /\ to[p] = to[q] => p = q

\* What the directory holds: records of known processes, and the guards of the
\* handoffs that go on or were broken off.
Directory ==
  /\ path # "dir" => records = {} /\ guards = {}
  /\ legacyAlive => path = "file"
  /\ \A t \in records : pidOf[t] \in Process
  /\ \A p \in Process : p \in guards <=> pc[p] \in Guarded

\* A contender gets as far as removing a record only if its owner is dead.
StaleIsDead ==
  \A p \in Process :
    /\ pc[p] \in Scanning => seen[p] \in Token /\ pidOf[seen[p]] \in Process
    /\ pc[p] \in {"recheck", "unlink"} => ~alive[pidOf[seen[p]]]

\* An owner's record is on disk, or the guard of its handoff is.
Anchored ==
  \A p \in Process :
    /\ Custody(p) => rec[p] \in records \/ p \in guards
    /\ alive[p] /\ pc[p] \in {"checkCustody", "cancelChild", "cancelGuard"} =>
         rec[p] \in records
    /\ alive[p] /\ pc[p] \in {"unlinkParent", "unlinkGuard"} /\ alive[pidOf[to[p]]] =>
         to[p] \in records

\* While a process adopts, its record is all there is, and nobody else is owner.
AdoptsAlone ==
  \A p \in Process :
    At(p, "adoptRead") =>
      /\ Sole(seen[p]) /\ pidOf[seen[p]] = p /\ seen[p] \in adoptable
      /\ \A q \in Process : ~Custody(q)

IInv ==
  /\ LeaseTypeOK
  /\ HandleNamesOwner
  /\ Directory
  /\ StaleIsDead
  /\ Anchored
  /\ AdoptsAlone
  /\ CustodyIsExclusive
  /\ LostMeansDead

-----------------------------------------------------------------------------
(* The sets of locations and the abbreviations are expanded everywhere.    *)

USE LeaseAssumption
    DEF Acquiring, Adopting, HandingOff, Releasing, Guarded, Holding, Scanning,
        At, Goto, disk, handle,
        request, tokens, env

-----------------------------------------------------------------------------
(* What follows from the invariant in one state.                           *)

\* Under a name that is free to be taken, nobody is an owner, hands the lease over
\* or adopts it.
LEMMA FreeMeansNobody ==
  ASSUME IInv, path = "missing" \/ Empty, NEW q \in Process
  PROVE  /\ ~Custody(q) /\ q \notin guards /\ pc[q] \notin Guarded
         /\ ~At(q, "adoptRead")
<1>1. records = {} /\ guards = {}
  BY DEF IInv, Directory, Empty
<1>2. pc[q] \notin Guarded
  BY <1>1 DEF IInv, Directory
<1>3. ~Custody(q)
  BY <1>1 DEF IInv, Anchored
<1>4. ~At(q, "adoptRead")
  BY <1>1 DEF IInv, AdoptsAlone, Sole
<1> QED BY <1>1, <1>2, <1>3, <1>4

\* A process in a handoff is the owner, in its own name, and the only one; its guard
\* keeps everybody from adopting.
LEMMA HandoffIsCustody ==
  ASSUME IInv, NEW p \in Process, alive[p], pc[p] \in Guarded \cup {"writeGuard"}
  PROVE  /\ held[p] /\ Custody(p)
         /\ rec[p] \in Token /\ to[p] \in Token
         /\ pidOf[rec[p]] = p /\ pidOf[to[p]] # p
         /\ rec[p] # to[p]
         /\ \A q \in Process \ {p} : ~Custody(q)
         /\ \A q \in Process : ~At(q, "adoptRead")
<1>1. held[p] /\ rec[p] \in Token /\ pidOf[rec[p]] = p
      /\ to[p] \in Token /\ pidOf[to[p]] # p
  BY DEF IInv, HandleNamesOwner
<1>2. Custody(p)
  BY <1>1 DEF Custody
<1>3. \A q \in Process \ {p} : ~Custody(q)
  BY <1>2 DEF IInv, CustodyIsExclusive
<1>4. \A q \in Process : ~At(q, "adoptRead")
  BY <1>2 DEF IInv, AdoptsAlone
<1> QED BY <1>1, <1>2, <1>3, <1>4

\* The owner in the name of a live process has the only record with its token.
LEMMA CustodyOfToken ==
  ASSUME IInv, NEW p \in Process, NEW q \in Process,
         held[p], alive[p], pc[p] # "releaseRmdir", alive[pidOf[rec[p]]],
         Custody(q) \/ At(q, "adoptRead")
  PROVE  q = p
<1>1. Custody(p)
  BY DEF IInv, HandleNamesOwner, Custody
<1> QED BY <1>1 DEF IInv, CustodyIsExclusive, AdoptsAlone

-----------------------------------------------------------------------------
(* Types.                                                                  *)

\* Each step keeps the types.
LEMMA TypeKept ==
  ASSUME IInv, Next
  PROVE  LeaseTypeOK'
<1> USE DEF IInv, LeaseTypeOK, Location
<1>1. ASSUME NEW p \in Process, Acquisition(p)
      PROVE  LeaseTypeOK'
  <2>1. CASE Publish(p)
    BY <2>1 DEF Publish, HandleNamesOwner
  <2>2. CASE PublishRefused(p) \/ PathExists(p) \/ Stat(p)
    BY <2>2 DEF PublishRefused, PathExists, Stat, Reject
  <2>3. CASE List(p)
    BY <2>3 DEF List, Reject
  <2>4. CASE ReadRecord(p) \/ IsAlive(p) \/ ReadLegacyFile(p)
    BY <2>4 DEF ReadRecord, IsAlive, ReadLegacyFile, RejectOrWait, Reject
  <2>5. CASE Recheck(p) \/ UnlinkStale(p) \/ RemoveEmptyDirectory(p)
    BY <2>5 DEF Recheck, UnlinkStale, RemoveEmptyDirectory, Rmdir
  <2> QED BY <1>1, <2>1, <2>2, <2>3, <2>4, <2>5 DEF Acquisition
<1>2. ASSUME NEW p \in Process, NEW t \in Fresh, StartAcquire(p, t)
      PROVE  LeaseTypeOK'
  BY <1>2 DEF StartAcquire, Fresh
<1>3. ASSUME NEW p \in Process,
             StartRelease(p) \/ ReleaseRead(p) \/ ReleaseUnlink(p)
      PROVE  LeaseTypeOK'
  BY <1>3 DEF StartRelease, ReleaseRead, ReleaseUnlink
<1>4. ASSUME NEW p \in Process, ReleaseRmdir(p)
      PROVE  LeaseTypeOK'
  BY <1>4 DEF ReleaseRmdir, Rmdir
<1>5. ASSUME NEW p \in Process, NEW t \in Token, NEW adopted \in BOOLEAN,
             Reserve(p, t, adopted)
      PROVE  LeaseTypeOK'
  BY <1>5 DEF Reserve
<1>6. ASSUME NEW p \in Process, WriteGuard(p) \/ CheckCustody(p)
      PROVE  LeaseTypeOK'
  BY <1>6 DEF WriteGuard, CheckCustody
<1>7. ASSUME NEW p \in Process, NEW c \in Process, StartCommit(p, c)
      PROVE  LeaseTypeOK'
  BY <1>7 DEF StartCommit
<1>8. ASSUME NEW p \in Process,
             WriteChild(p) \/ UnlinkParent(p) \/ Relinquish(p)
      PROVE  LeaseTypeOK'
  <2>1. CASE WriteChild(p)
    BY <2>1 DEF WriteChild, HandleNamesOwner
  <2>2. CASE UnlinkParent(p)
    BY <2>2 DEF UnlinkParent
  <2>3. CASE Relinquish(p)
    BY <2>3 DEF Relinquish
  <2> QED BY <1>8, <2>1, <2>2, <2>3
<1>9. ASSUME NEW p \in Process,
             StartCancel(p) \/ CancelParent(p) \/ CancelChild(p) \/ CancelGuard(p)
      PROVE  LeaseTypeOK'
  BY <1>9 DEF StartCancel, CancelParent, CancelChild, CancelGuard, HandleNamesOwner
<1>10. ASSUME NEW p \in Process, HandoffFault(p)
       PROVE  LeaseTypeOK'
  BY <1>10 DEF HandoffFault
<1>11. ASSUME NEW p \in Process, UnlinkGuard(p)
       PROVE  LeaseTypeOK'
  BY <1>11 DEF UnlinkGuard
<1>12. ASSUME NEW p \in Process,
              AdoptRead(p) \/ \E t \in Token : AdoptList(p, t)
       PROVE  LeaseTypeOK'
  <2>1. CASE AdoptRead(p)
    <3>1. /\ UNCHANGED <<disk, tokens, request, to, env>>
          /\ \/ /\ seen[p] \in records
                /\ held' = [held EXCEPT ![p] = TRUE]
                /\ rec' = [rec EXCEPT ![p] = seen[p]]
                /\ pc' = [pc EXCEPT ![p] = "holding"]
             \/ UNCHANGED <<held, rec>> /\ pc' = [pc EXCEPT ![p] = "idle"]
      BY <2>1 DEF AdoptRead, Goto
    <3>2. pc' \in [Process -> Location]
      BY <3>1
    <3>3. rec' \in [Process -> Token \cup {NoToken}] /\ held' \in [Process -> BOOLEAN]
      BY <3>1
    <3> QED BY <3>1, <3>2, <3>3
  <2>2. ASSUME NEW t \in Token, AdoptList(p, t)
        PROVE  LeaseTypeOK'
    BY <2>2 DEF AdoptList
  <2> QED BY <1>12, <2>1, <2>2
<1>13. ASSUME NEW p \in Process, Crash(p)
       PROVE  LeaseTypeOK'
  BY <1>13 DEF Crash
<1>14. CASE LegacyExit
  BY <1>14 DEF LegacyExit
<1> QED
  BY <1>1, <1>2, <1>3, <1>4, <1>5, <1>6, <1>7, <1>8, <1>9, <1>10, <1>11, <1>12,
     <1>13, <1>14 DEF Next

-----------------------------------------------------------------------------
(* Steps that only look.                                                   *)

\* A contender that moves on without touching the directory disturbs nothing, as
\* long as what it takes for a dead owner's record is one.
LEMMA ContenderLooks ==
  ASSUME IInv, LeaseTypeOK', NEW p \in Process, NEW l \in Acquiring \cup {"idle"},
         pc[p] \in Acquiring, pc' = [pc EXCEPT ![p] = l],
         UNCHANGED <<disk, pidOf, legacyAlive, alive, desired, handle, adoptable>>,
         \A q \in Process \ {p} : seen'[q] = seen[q],
         l \in Scanning => seen'[p] \in Token /\ pidOf[seen'[p]] \in Process,
         l \in {"recheck", "unlink"} => ~alive[pidOf[seen'[p]]]
  PROVE  IInv'
<1> USE DEF IInv, LeaseTypeOK
<1>1. HandleNamesOwner'
  BY DEF HandleNamesOwner
<1>2. Directory'
  BY DEF Directory
<1>3. StaleIsDead'
  BY DEF StaleIsDead
<1>4. \A q \in Process : Custody(q)' = Custody(q)
  BY DEF Custody, HandleNamesOwner
<1>5. Anchored' /\ CustodyIsExclusive' /\ LostMeansDead'
  BY <1>4 DEF Anchored, CustodyIsExclusive, LostMeansDead
<1>6. AdoptsAlone'
  BY <1>4 DEF AdoptsAlone, Sole
<1> QED BY <1>1, <1>2, <1>3, <1>5, <1>6

\* A contender that only looks changes nothing on disk.
LEMMA AcquisitionLooks ==
  ASSUME IInv, LeaseTypeOK', NEW p \in Process,
         \/ PublishRefused(p) \/ PathExists(p) \/ Stat(p) \/ List(p)
         \/ ReadRecord(p) \/ IsAlive(p) \/ Recheck(p) \/ ReadLegacyFile(p)
  PROVE  IInv'
<1> USE DEF IInv, LeaseTypeOK
<1>1. CASE PublishRefused(p) \/ PathExists(p) \/ Stat(p) \/ ReadLegacyFile(p)
  BY <1>1, ContenderLooks
     DEF PublishRefused, PathExists, Stat, ReadLegacyFile, Reject, RejectOrWait
<1>2. CASE List(p)
  BY <1>2, ContenderLooks DEF List, Reject, Directory
<1>3. CASE ReadRecord(p)
  BY <1>3, ContenderLooks DEF ReadRecord, Reject, StaleIsDead
<1>4. CASE IsAlive(p)
  BY <1>4, ContenderLooks DEF IsAlive, Reject, RejectOrWait, StaleIsDead
<1>5. CASE Recheck(p)
  BY <1>5, ContenderLooks DEF Recheck, StaleIsDead
<1> QED BY <1>1, <1>2, <1>3, <1>4, <1>5

\* An owner that moves on without touching anything keeps its custody, if it does
\* not take a step forward in a handoff.
LEMMA OwnerMoves ==
  ASSUME IInv, LeaseTypeOK', NEW p \in Process,
         NEW l \in {"reserved", "cancelParent", "releaseRead", "releaseUnlink", "lost"},
         pc[p] \in Holding \ {"releaseRmdir"}, pc' = [pc EXCEPT ![p] = l],
         l \in Guarded <=> pc[p] \in Guarded,
         UNCHANGED <<disk, pidOf, legacyAlive, alive, desired, seen, handle, adoptable>>,
         l = "lost" => ~alive[pidOf[rec[p]]]
  PROVE  IInv'
<1> USE DEF IInv, LeaseTypeOK
<1>1. HandleNamesOwner' /\ Directory' /\ StaleIsDead'
  BY DEF HandleNamesOwner, Directory, StaleIsDead
<1>2. \A q \in Process : Custody(q)' = Custody(q)
  BY DEF Custody
<1>3. Anchored' /\ CustodyIsExclusive' /\ LostMeansDead'
  BY <1>2 DEF Anchored, CustodyIsExclusive, LostMeansDead
<1>4. AdoptsAlone'
  BY <1>2 DEF AdoptsAlone, Sole
<1> QED BY <1>1, <1>3, <1>4

-----------------------------------------------------------------------------
(* Steps that change what is on disk or who owns it.                       *)

\* A token that is drawn names a process for the first time: nothing that names
\* anybody refers to it yet.
LEMMA StartAcquireKeeps ==
  ASSUME IInv, LeaseTypeOK', NEW p \in Process, NEW t \in Fresh, StartAcquire(p, t)
  PROVE  IInv'
<1> USE DEF IInv, LeaseTypeOK, StartAcquire
<1>1. t \in Token /\ pidOf[t] = NoProcess /\ \A q \in Process : to[q] # t
  BY DEF Fresh, Used
<1>2. \A u \in Token : pidOf[u] \in Process => pidOf'[u] = pidOf[u]
  BY <1>1
<1>3. HandleNamesOwner'
  BY <1>1, <1>2 DEF HandleNamesOwner
<1>4. Directory' /\ StaleIsDead'
  BY <1>2 DEF Directory, StaleIsDead
<1>5. \A q \in Process : Custody(q)' = Custody(q)
  BY <1>2 DEF Custody, HandleNamesOwner
<1>6. Anchored'
  BY <1>2, <1>5 DEF Anchored, HandleNamesOwner
<1>7. CustodyIsExclusive' /\ LostMeansDead'
  BY <1>2, <1>5 DEF CustodyIsExclusive, LostMeansDead, HandleNamesOwner
<1>8. AdoptsAlone'
  BY <1>2, <1>5 DEF AdoptsAlone, Sole
<1> QED BY <1>3, <1>4, <1>6, <1>7, <1>8

\* The rename succeeds only onto a free name: whoever was an owner is not.
LEMMA PublishKeeps ==
  ASSUME IInv, LeaseTypeOK', NEW p \in Process, Publish(p)
  PROVE  IInv'
<1> USE DEF IInv, LeaseTypeOK, Publish
<1>1. \A q \in Process : /\ ~Custody(q) /\ q \notin guards /\ pc[q] \notin Guarded
                         /\ ~At(q, "adoptRead")
  BY FreeMeansNobody
<1>2. HandleNamesOwner' /\ StaleIsDead'
  BY DEF HandleNamesOwner, StaleIsDead
<1>3. Directory'
  BY <1>1 DEF Directory, HandleNamesOwner, Empty
<1>4. \A q \in Process : Custody(q)' => q = p
  BY <1>1 DEF Custody
<1>5. Anchored' /\ CustodyIsExclusive'
  BY <1>1, <1>4 DEF Anchored, CustodyIsExclusive
<1>6. AdoptsAlone' /\ LostMeansDead'
  BY <1>1 DEF AdoptsAlone, LostMeansDead
<1> QED BY <1>2, <1>3, <1>5, <1>6

\* The record that a contender removes names a dead process: no owner rests on it.
LEMMA UnlinkStaleKeeps ==
  ASSUME IInv, LeaseTypeOK', NEW p \in Process, UnlinkStale(p)
  PROVE  IInv'
<1> USE DEF IInv, LeaseTypeOK, UnlinkStale
<1>1. seen[p] \in Token /\ ~alive[pidOf[seen[p]]]
  BY DEF StaleIsDead
<1>2. HandleNamesOwner' /\ Directory' /\ StaleIsDead'
  BY DEF HandleNamesOwner, Directory, StaleIsDead
<1>3. \A q \in Process : Custody(q)' = Custody(q)
  BY DEF Custody, HandleNamesOwner
<1>4. Anchored'
  BY <1>1, <1>3 DEF Anchored, Custody, HandleNamesOwner
<1>5. CustodyIsExclusive' /\ LostMeansDead'
  BY <1>3 DEF CustodyIsExclusive, LostMeansDead
<1>6. AdoptsAlone'
  BY <1>1, <1>3 DEF AdoptsAlone, Sole
<1> QED BY <1>2, <1>4, <1>5, <1>6

\* Removing an empty directory takes nobody's record.
LEMMA RemoveEmptyDirectoryKeeps ==
  ASSUME IInv, LeaseTypeOK', NEW p \in Process, RemoveEmptyDirectory(p)
  PROVE  IInv'
<1> USE DEF IInv, LeaseTypeOK, RemoveEmptyDirectory
<1>1. HandleNamesOwner' /\ Directory' /\ StaleIsDead'
  BY DEF HandleNamesOwner, Directory, StaleIsDead, Rmdir, Empty
<1>2. \A q \in Process : Custody(q)' = Custody(q)
  BY DEF Custody, HandleNamesOwner
<1>3. Anchored' /\ CustodyIsExclusive' /\ LostMeansDead'
  BY <1>2 DEF Anchored, CustodyIsExclusive, LostMeansDead
<1>4. AdoptsAlone'
  BY <1>2 DEF AdoptsAlone, Sole, Rmdir, Empty
<1> QED BY <1>1, <1>3, <1>4

\* A release removes an empty directory.
LEMMA ReleaseRmdirKeeps ==
  ASSUME IInv, LeaseTypeOK', NEW p \in Process, ReleaseRmdir(p)
  PROVE  IInv'
<1> USE DEF IInv, LeaseTypeOK, ReleaseRmdir
<1>1. HandleNamesOwner' /\ Directory' /\ StaleIsDead'
  BY DEF HandleNamesOwner, Directory, StaleIsDead, Rmdir, Empty
<1>2. \A q \in Process : Custody(q)' = Custody(q)
  BY DEF Custody
<1>3. Anchored'
  BY <1>2 DEF Anchored
<1>4. CustodyIsExclusive' /\ LostMeansDead'
  BY <1>2 DEF CustodyIsExclusive, LostMeansDead
<1>5. AdoptsAlone'
  <2>1. \A q \in Process : At(q, "adoptRead")' => At(q, "adoptRead")
    BY DEF At, Goto
  <2>2. \A t \in Token : Sole(t) => Sole(t)'
    BY DEF Sole, Rmdir, Empty
  <2> QED BY <1>2, <2>1, <2>2 DEF AdoptsAlone
<1> QED BY <1>1, <1>3, <1>4, <1>5

\* Reading and unlinking at a release: a live owner finds its record, and takes
\* nobody else's.
LEMMA ReleaseKeeps ==
  ASSUME IInv, LeaseTypeOK', NEW p \in Process,
         StartRelease(p) \/ ReleaseRead(p) \/ ReleaseUnlink(p)
  PROVE  IInv'
<1> USE DEF IInv, LeaseTypeOK
<1>1. held[p] /\ alive[p] /\ rec[p] \in Token /\ pidOf[rec[p]] \in Process
      /\ p \notin guards
  BY DEF StartRelease, ReleaseRead, ReleaseUnlink, HandleNamesOwner, Directory
<1>2. alive[pidOf[rec[p]]] /\ pc[p] # "releaseRmdir" => rec[p] \in records
  BY <1>1 DEF Anchored, Custody
<1>3. CASE StartRelease(p) \/ ReleaseRead(p)
  BY <1>2, <1>3, OwnerMoves DEF StartRelease, ReleaseRead
<1>4. CASE ReleaseUnlink(p)
  <2> USE DEF ReleaseUnlink
  <2>1. HandleNamesOwner' /\ Directory' /\ StaleIsDead'
    BY <1>4 DEF HandleNamesOwner, Directory, StaleIsDead
  <2>2. \A q \in Process : /\ Custody(q)' => Custody(q)
                           /\ Custody(p)' => rec[p] \notin records
    BY <1>4 DEF Custody, HandleNamesOwner
  <2>3. LostMeansDead'
    BY <1>2, <1>4 DEF LostMeansDead
  <2>4. ~Custody(p)'
    BY <1>2, <1>4, <2>2 DEF Custody
  <2>5. \A q \in Process \ {p} : Custody(q) => rec[q] # rec[p]
    BY <1>1, <1>4, CustodyOfToken DEF Custody
  <2>6. \A q \in Process \ {p} :
          alive[q] /\ pc[q] \in Guarded =>
            /\ rec[q] # rec[p]
            /\ alive[pidOf[to[q]]] => to[q] # rec[p]
    BY <1>1, <1>4, HandoffIsCustody, CustodyOfToken
  <2>7. Anchored'
    BY <1>4, <2>2, <2>4, <2>5, <2>6 DEF Anchored
  <2>8. CustodyIsExclusive'
    BY <2>2 DEF CustodyIsExclusive
  <2>9. AdoptsAlone'
    <3> SUFFICES ASSUME NEW q \in Process, At(q, "adoptRead")'
                 PROVE  /\ Sole(seen[q])' /\ pidOf'[seen'[q]] = q
                        /\ seen'[q] \in adoptable'
                        /\ \A r \in Process : ~Custody(r)'
      BY DEF AdoptsAlone
    <3>1. At(q, "adoptRead") /\ q # p
      BY <1>4
    <3>2. seen[q] # rec[p]
      BY <1>1, <1>4, <3>1, CustodyOfToken DEF AdoptsAlone
    <3> QED BY <1>4, <2>2, <3>1, <3>2 DEF AdoptsAlone, Sole
  <2> QED BY <2>1, <2>3, <2>7, <2>8, <2>9
<1> QED BY <1>3, <1>4

\* The token reserved for a child is nobody's yet, or the one drawn for this very
\* child.
LEMMA ReserveKeeps ==
  ASSUME IInv, LeaseTypeOK', NEW p \in Process, NEW t \in Token,
         NEW adopted \in BOOLEAN, Reserve(p, t, adopted)
  PROVE  IInv'
<1> USE DEF IInv, LeaseTypeOK, Reserve
<1>1. \/ pidOf[t] = NoProcess /\ \A q \in Process : to[q] # t
      \/ t = to[p] /\ t \in adoptable
  BY DEF Fresh, Used
<1>2. HandleNamesOwner'
  BY <1>1 DEF HandleNamesOwner
<1>3. Directory' /\ StaleIsDead'
  BY DEF Directory, StaleIsDead
<1>4. \A q \in Process : Custody(q)' = Custody(q)
  BY DEF Custody
<1>5. Anchored' /\ CustodyIsExclusive' /\ LostMeansDead'
  BY <1>4 DEF Anchored, CustodyIsExclusive, LostMeansDead
<1>6. AdoptsAlone'
  BY <1>4 DEF AdoptsAlone, Sole
<1> QED BY <1>2, <1>3, <1>5, <1>6

\* An owner that writes its guard finds its own record beside it.
LEMMA GuardKeeps ==
  ASSUME IInv, LeaseTypeOK', NEW p \in Process, WriteGuard(p) \/ CheckCustody(p)
  PROVE  IInv'
<1> USE DEF IInv, LeaseTypeOK, WriteGuard, CheckCustody
<1>1. Custody(p) /\ \A q \in Process : ~At(q, "adoptRead")
  BY HandoffIsCustody
<1>2. rec[p] \in records /\ path = "dir"
  BY <1>1 DEF Anchored, Directory
<1>3. HandleNamesOwner' /\ Directory' /\ StaleIsDead'
  BY <1>2 DEF HandleNamesOwner, Directory, StaleIsDead
<1>4. \A q \in Process : Custody(q)' = Custody(q)
  BY DEF Custody
<1>5. Anchored' /\ CustodyIsExclusive' /\ LostMeansDead'
  BY <1>2, <1>4 DEF Anchored, CustodyIsExclusive, LostMeansDead
<1>6. AdoptsAlone'
  BY <1>1 DEF AdoptsAlone
<1> QED BY <1>3, <1>5, <1>6

\* The child's pid is learnt once, and its token is in no other handoff.
LEMMA StartCommitKeeps ==
  ASSUME IInv, LeaseTypeOK', NEW p \in Process, NEW c \in Process, StartCommit(p, c)
  PROVE  IInv'
<1> USE DEF IInv, LeaseTypeOK, StartCommit
<1>1. to[p] \in Token /\ \A q \in Process : ~At(q, "adoptRead")
  BY HandoffIsCustody
<1>2. \A u \in Token : pidOf[u] \in Process => pidOf'[u] = pidOf[u]
  BY <1>1
<1>3. HandleNamesOwner'
  BY <1>1, <1>2 DEF HandleNamesOwner
<1>4. Directory' /\ StaleIsDead'
  BY <1>2 DEF Directory, StaleIsDead
<1>5. \A q \in Process : Custody(q)' = Custody(q)
  BY <1>2 DEF Custody, HandleNamesOwner
<1>6. Anchored'
  BY <1>2, <1>5 DEF Anchored, HandleNamesOwner
<1>7. CustodyIsExclusive' /\ LostMeansDead'
  BY <1>2, <1>5 DEF CustodyIsExclusive, LostMeansDead, HandleNamesOwner
<1>8. AdoptsAlone'
  BY <1>1 DEF AdoptsAlone
<1> QED BY <1>3, <1>4, <1>6, <1>7, <1>8

\* The steps of a commit and of a cancellation: the guard stands for the records
\* until the right one is alone in the directory.
LEMMA CommitKeeps ==
  ASSUME IInv, LeaseTypeOK', NEW p \in Process, WriteChild(p) \/ UnlinkParent(p)
  PROVE  IInv'
<1> USE DEF IInv, LeaseTypeOK, WriteChild, UnlinkParent
<1>1. /\ Custody(p) /\ p \in guards /\ path = "dir"
      /\ to[p] \in Token /\ rec[p] # to[p] /\ pidOf[to[p]] \in Process
  BY HandoffIsCustody DEF Directory, HandleNamesOwner
<1>2. \A q \in Process \ {p} : ~Custody(q) /\ ~(alive[q] /\ pc[q] \in Guarded)
  BY HandoffIsCustody
<1>3. \A q \in Process : ~At(q, "adoptRead")
  BY HandoffIsCustody
<1>4. HandleNamesOwner' /\ Directory' /\ StaleIsDead'
  BY <1>1 DEF HandleNamesOwner, Directory, StaleIsDead
<1>5. \A q \in Process : Custody(q)' = Custody(q)
  BY DEF Custody
<1>6. Anchored'
  BY <1>1, <1>2, <1>5 DEF Anchored
<1>7. CustodyIsExclusive' /\ LostMeansDead' /\ AdoptsAlone'
  BY <1>3, <1>5 DEF CustodyIsExclusive, LostMeansDead, AdoptsAlone
<1> QED BY <1>4, <1>6, <1>7

\* A guard goes when its handoff is committed.
LEMMA UnlinkGuardKeeps ==
  ASSUME IInv, LeaseTypeOK', NEW p \in Process, UnlinkGuard(p)
  PROVE  IInv'
<1> USE DEF IInv, LeaseTypeOK, UnlinkGuard
<1>1. /\ Custody(p) /\ to[p] \in Token /\ pidOf[to[p]] \in Process
      /\ alive[pidOf[to[p]]] => to[p] \in records
  BY HandoffIsCustody DEF HandleNamesOwner, Anchored
<1>2. \A q \in Process \ {p} : ~Custody(q) /\ ~(alive[q] /\ pc[q] \in Guarded)
  BY HandoffIsCustody
<1>3. \A q \in Process : ~At(q, "adoptRead")
  BY HandoffIsCustody
<1>4. HandleNamesOwner' /\ Directory' /\ StaleIsDead'
  BY <1>1 DEF HandleNamesOwner, Directory, StaleIsDead
<1>5. \A q \in Process : Custody(q)' => q = p /\ alive[pidOf[to[p]]]
  BY <1>2 DEF Custody
<1>6. Anchored'
  BY <1>1, <1>2, <1>5 DEF Anchored
<1>7. CustodyIsExclusive' /\ LostMeansDead' /\ AdoptsAlone'
  BY <1>3, <1>5 DEF CustodyIsExclusive, LostMeansDead, AdoptsAlone
<1> QED BY <1>4, <1>6, <1>7

\* A cancelled handoff gives the lease back to its owner.
LEMMA CancelKeeps ==
  ASSUME IInv, LeaseTypeOK', NEW p \in Process,
         CancelParent(p) \/ CancelChild(p) \/ CancelGuard(p)
  PROVE  IInv'
<1> USE DEF IInv, LeaseTypeOK, CancelParent, CancelChild, CancelGuard
<1>1. /\ Custody(p) /\ p \in guards /\ path = "dir"
      /\ rec[p] \in Token /\ pidOf[rec[p]] = p /\ rec[p] # to[p]
  BY HandoffIsCustody DEF Directory
<1>2. \A q \in Process \ {p} : ~Custody(q) /\ ~(alive[q] /\ pc[q] \in Guarded)
  BY HandoffIsCustody
<1>3. \A q \in Process : ~At(q, "adoptRead")
  BY HandoffIsCustody
<1>4. HandleNamesOwner' /\ Directory' /\ StaleIsDead'
  BY <1>1 DEF HandleNamesOwner, Directory, StaleIsDead
<1>5. \A q \in Process : Custody(q)' = Custody(q)
  BY DEF Custody
<1>6. Anchored'
  BY <1>1, <1>2, <1>5 DEF Anchored
<1>7. CustodyIsExclusive' /\ LostMeansDead' /\ AdoptsAlone'
  BY <1>3, <1>5 DEF CustodyIsExclusive, LostMeansDead, AdoptsAlone
<1> QED BY <1>4, <1>6, <1>7

\* A process that gives its handle up is no owner any more.
LEMMA RelinquishKeeps ==
  ASSUME IInv, LeaseTypeOK', NEW p \in Process, Relinquish(p)
  PROVE  IInv'
<1> USE DEF IInv, LeaseTypeOK, Relinquish
<1>1. HandleNamesOwner' /\ Directory' /\ StaleIsDead'
  BY DEF HandleNamesOwner, Directory, StaleIsDead
<1>2. \A q \in Process : Custody(q)' => Custody(q)
  BY DEF Custody
<1>3. Anchored' /\ CustodyIsExclusive' /\ LostMeansDead'
  BY <1>2 DEF Anchored, CustodyIsExclusive, LostMeansDead
<1>4. AdoptsAlone'
  BY <1>2 DEF AdoptsAlone, Sole
<1> QED BY <1>1, <1>3, <1>4

\* A process adopts only what names it alone; its parent has given its handle up.
LEMMA AdoptKeeps ==
  ASSUME IInv, LeaseTypeOK', NEW p \in Process,
         AdoptRead(p) \/ \E t \in Token : AdoptList(p, t)
  PROVE  IInv'
<1> USE DEF IInv, LeaseTypeOK
<1>1. CASE \E t \in Token : AdoptList(p, t)
  <2>1. PICK t \in Token : AdoptList(p, t)
    BY <1>1
  <2> USE <2>1 DEF AdoptList
  <2>2. \A q \in Process : Custody(q)' = Custody(q)
    BY DEF Custody
  <2>3. \A q \in Process : ~Custody(q)
    BY DEF Anchored, Custody, HandleNamesOwner, Sole
  <2>4. HandleNamesOwner' /\ Directory' /\ StaleIsDead'
    BY DEF HandleNamesOwner, Directory, StaleIsDead
  <2>5. Anchored' /\ CustodyIsExclusive' /\ LostMeansDead'
    BY <2>2 DEF Anchored, CustodyIsExclusive, LostMeansDead
  <2>6. AdoptsAlone'
    BY <2>2, <2>3 DEF AdoptsAlone, Sole
  <2> QED BY <2>4, <2>5, <2>6
<1>2. CASE AdoptRead(p)
  <2> USE <1>2 DEF AdoptRead
  <2>1. /\ Sole(seen[p]) /\ pidOf[seen[p]] = p /\ seen[p] \in adoptable
        /\ \A q \in Process : ~Custody(q)
    BY DEF AdoptsAlone
  <2>2. HandleNamesOwner' /\ Directory' /\ StaleIsDead'
    BY <2>1 DEF HandleNamesOwner, Directory, StaleIsDead, Sole
  <2>3. \A q \in Process : Custody(q)' => q = p
    BY <2>1 DEF Custody
  <2>4. Anchored' /\ CustodyIsExclusive' /\ LostMeansDead'
    BY <2>1, <2>3 DEF Anchored, CustodyIsExclusive, LostMeansDead, Sole
  <2>5. ASSUME NEW q \in Process, At(q, "adoptRead")
        PROVE  q = p
    <3>1. Sole(seen[q]) /\ pidOf[seen[q]] = q
      BY <2>5 DEF AdoptsAlone
    <3> QED BY <2>1, <3>1 DEF Sole
  <2>6. AdoptsAlone'
    BY <2>5 DEF AdoptsAlone
  <2> QED BY <2>2, <2>4, <2>6
<1> QED BY <1>1, <1>2

\* A death takes custody away and gives none.
LEMMA EnvironmentKeeps ==
  ASSUME IInv, LeaseTypeOK', LegacyExit \/ \E p \in Process : Crash(p)
  PROVE  IInv'
<1> USE DEF IInv, LeaseTypeOK, Crash, LegacyExit
<1>1. /\ \A q \in Process : alive'[q] => alive[q]
      /\ UNCHANGED <<records, guards, pidOf, pc, desired, seen, handle, adoptable>>
      /\ path' = path \/ (path = "file" /\ path' = "missing")
      /\ legacyAlive' => legacyAlive /\ path' = path
  BY DEF Directory
<1> HIDE DEF Crash, LegacyExit
<1>2. HandleNamesOwner' /\ Directory' /\ StaleIsDead'
  BY <1>1 DEF HandleNamesOwner, Directory, StaleIsDead
<1>3. \A q \in Process : Custody(q)' => Custody(q)
  BY <1>1 DEF Custody
<1>4. Anchored' /\ CustodyIsExclusive' /\ LostMeansDead'
  BY <1>1, <1>3 DEF Anchored, CustodyIsExclusive, LostMeansDead, HandleNamesOwner
<1>5. AdoptsAlone'
  BY <1>1, <1>3 DEF AdoptsAlone, Sole
<1> QED BY <1>2, <1>4, <1>5

-----------------------------------------------------------------------------
(* The invariant.                                                          *)

\* Nobody owns the lease at first.
LEMMA InitIInv == Init => IInv
<1> SUFFICES ASSUME Init
             PROVE  IInv
  OBVIOUS
<1> USE DEF Init
<1>1. LeaseTypeOK
  BY DEF LeaseTypeOK, Location
<1>2. HandleNamesOwner /\ Directory /\ StaleIsDead
  BY DEF HandleNamesOwner, Directory, StaleIsDead
<1>3. \A p \in Process : ~Custody(p) /\ pc[p] = "idle"
  BY DEF Custody
<1>4. Anchored /\ AdoptsAlone /\ CustodyIsExclusive /\ LostMeansDead
  BY <1>3 DEF Anchored, AdoptsAlone, CustodyIsExclusive, LostMeansDead
<1> QED BY <1>1, <1>2, <1>4 DEF IInv

\* Nothing changes.
LEMMA StutterKeeps ==
  ASSUME IInv, UNCHANGED vars
  PROVE  IInv'
BY DEF vars, IInv, LeaseTypeOK, HandleNamesOwner, Directory,
       StaleIsDead, Anchored, AdoptsAlone, CustodyIsExclusive, LostMeansDead,
       Custody, Sole

\* Each step keeps the invariant.
LEMMA NextIInv == IInv /\ [Next]_vars => IInv'
<1> SUFFICES ASSUME IInv, Next
             PROVE  IInv'
  BY StutterKeeps
<1>1. LeaseTypeOK'
  BY TypeKept
<1>2. ASSUME NEW p \in Process, Acquisition(p)
      PROVE  IInv'
  BY <1>1, <1>2, AcquisitionLooks, PublishKeeps, UnlinkStaleKeeps,
     RemoveEmptyDirectoryKeeps DEF Acquisition
<1>3. ASSUME NEW p \in Process, NEW t \in Fresh, StartAcquire(p, t)
      PROVE  IInv'
  BY <1>1, <1>3, StartAcquireKeeps
<1>4. ASSUME NEW p \in Process,
             StartRelease(p) \/ ReleaseRead(p) \/ ReleaseUnlink(p) \/ ReleaseRmdir(p)
      PROVE  IInv'
  BY <1>1, <1>4, ReleaseKeeps, ReleaseRmdirKeeps
<1>5. ASSUME NEW p \in Process, NEW t \in Token, NEW adopted \in BOOLEAN,
             Reserve(p, t, adopted)
      PROVE  IInv'
  BY <1>1, <1>5, ReserveKeeps
<1>6. ASSUME NEW p \in Process, WriteGuard(p) \/ CheckCustody(p)
      PROVE  IInv'
  BY <1>1, <1>6, GuardKeeps
<1>7. ASSUME NEW p \in Process, NEW c \in Process, StartCommit(p, c)
      PROVE  IInv'
  BY <1>1, <1>7, StartCommitKeeps
<1>8. ASSUME NEW p \in Process,
             WriteChild(p) \/ UnlinkParent(p) \/ UnlinkGuard(p) \/ Relinquish(p)
      PROVE  IInv'
  BY <1>1, <1>8, CommitKeeps, UnlinkGuardKeeps, RelinquishKeeps
<1>9. ASSUME NEW p \in Process, StartCancel(p) \/ HandoffFault(p)
      PROVE  IInv'
  BY <1>1, <1>9, OwnerMoves DEF IInv, StartCancel, HandoffFault
<1>10. ASSUME NEW p \in Process, CancelParent(p) \/ CancelChild(p) \/ CancelGuard(p)
       PROVE  IInv'
  BY <1>1, <1>10, CancelKeeps
<1>11. ASSUME NEW p \in Process, AdoptRead(p) \/ \E t \in Token : AdoptList(p, t)
       PROVE  IInv'
  BY <1>1, <1>11, AdoptKeeps
<1>12. CASE LegacyExit \/ \E p \in Process : Crash(p)
  BY <1>1, <1>12, EnvironmentKeeps
<1> QED
  BY <1>2, <1>3, <1>4, <1>5, <1>6, <1>7, <1>8, <1>9, <1>10, <1>11, <1>12 DEF Next

\* The invariant that ties owners to what is on disk.
THEOREM LeaseConsistent == LeaseSpec => []IInv
BY InitIInv, NextIInv, PTL DEF LeaseSpec

\* The lease's state keeps its type.
THEOREM LeaseTypeCorrect == LeaseSpec => []LeaseTypeOK
<1>1. IInv => LeaseTypeOK
  BY DEF IInv
<1> QED BY <1>1, LeaseConsistent, PTL

\* Two processes never act as owners at the same time.
THEOREM OneCustodian == LeaseSpec => []CustodyIsExclusive
<1>1. IInv => CustodyIsExclusive
  BY DEF IInv
<1> QED BY <1>1, LeaseConsistent, PTL

\* A release finds its record gone only where the process it names has died.
THEOREM LostOnlyWhenDead == LeaseSpec => []LostMeansDead
<1>1. IInv => LostMeansDead
  BY DEF IInv
<1> QED BY <1>1, LeaseConsistent, PTL

-----------------------------------------------------------------------------
(* What a step may not do.                                                 *)

\* Only three steps take a record that names a live process away: the release of
\* its holder, and the commit and the cancellation of its holder's handoff.
THEOREM LiveRecordsAreKept == LeaseSpec => LiveRecordsStay
<1> DEFINE Taken == \A t \in records \ records' :
                      pidOf[t] \in Process /\ alive[pidOf[t]] =>
                        \E p \in Process :
                          pc'[p] # pc[p] /\ alive[p] /\ held[p] /\ t \in {rec[p], to[p]}
<1>1. ASSUME IInv, Next
      PROVE  Taken
  <2> USE DEF IInv, LeaseTypeOK
  <2>1. ASSUME NEW p \in Process,
               Publish(p) \/ UnlinkStale(p) \/ ReleaseUnlink(p) \/ UnlinkParent(p)
                 \/ CancelChild(p)
        PROVE  Taken
    <3>1. CASE Publish(p)
      BY <1>1, <3>1 DEF Publish, Empty, Directory
    <3>2. CASE UnlinkStale(p)
      BY <1>1, <3>2 DEF UnlinkStale, StaleIsDead
    <3>3. CASE ReleaseUnlink(p) \/ UnlinkParent(p) \/ CancelChild(p)
      BY <1>1, <3>3 DEF ReleaseUnlink, UnlinkParent, CancelChild, HandleNamesOwner
    <3> QED BY <2>1, <3>1, <3>2, <3>3
  <2>2. ASSUME records \subseteq records'
        PROVE  Taken
    BY <2>2
  <2> HIDE DEF Taken
  <2> QED
    BY <1>1, <2>1, <2>2
       DEF Next, Acquisition, PublishRefused, PathExists, Stat, List, ReadRecord,
           IsAlive, Recheck, RemoveEmptyDirectory, ReadLegacyFile, StartAcquire,
           StartRelease, ReleaseRead, ReleaseRmdir, Reserve, WriteGuard, CheckCustody,
           StartCommit, WriteChild, UnlinkGuard, Relinquish, StartCancel,
           CancelParent, CancelGuard, HandoffFault, AdoptList, AdoptRead, Crash,
           LegacyExit
<1>2. UNCHANGED vars => Taken
  BY DEF vars
<1>3. IInv /\ [Next]_vars => [Taken]_vars
  BY <1>1, <1>2
<1> QED BY <1>3, LeaseConsistent, PTL DEF LeaseSpec, LiveRecordsStay

\* While the guard of a handoff is on disk, nobody publishes and nobody adopts.
THEOREM HandoffBlocksAcquisition == LeaseSpec => HandoffFailsClosed
<1> DEFINE Closed == \A p, q \in Process :
                       pc[p] \in HandingOff => (held'[q] => held[q])
<1>1. ASSUME IInv, Next
      PROVE  Closed
  <2> USE DEF IInv, LeaseTypeOK
  <2>1. ASSUME NEW p \in Process, Publish(p)
        PROVE  Closed
    BY <1>1, <2>1, FreeMeansNobody DEF Publish
  <2>2. ASSUME NEW p \in Process, AdoptRead(p)
        PROVE  Closed
    BY <1>1, <2>2 DEF AdoptRead, AdoptsAlone, Sole, Directory
  <2>3. ASSUME NEW p \in Process, UnlinkGuard(p)
        PROVE  Closed
    BY <1>1, <2>3 DEF UnlinkGuard, HandleNamesOwner
  <2>4. ASSUME \A q \in Process : held'[q] => held[q]
        PROVE  Closed
    BY <2>4
  <2> HIDE DEF Closed
  <2>5. ASSUME NEW p \in Process, Acquisition(p)
        PROVE  Closed
    <3>1. CASE Publish(p)
      BY <2>1, <3>1
    <3>2. CASE ~Publish(p)
      BY <2>4, <2>5, <3>2
         DEF Acquisition, PublishRefused, PathExists, Stat, List, ReadRecord,
             IsAlive, Recheck, UnlinkStale, RemoveEmptyDirectory,
             ReadLegacyFile, handle
    <3> QED BY <3>1, <3>2
  <2>6. ASSUME NEW p \in Process,
               \/ StartRelease(p) \/ ReleaseRead(p) \/ ReleaseUnlink(p)
               \/ ReleaseRmdir(p) \/ Relinquish(p)
               \/ \E t \in Fresh : StartAcquire(p, t)
        PROVE  Closed
    BY <1>1, <2>4, <2>6
       DEF StartRelease, ReleaseRead, ReleaseUnlink, ReleaseRmdir, Relinquish,
           StartAcquire, handle
  <2>7. ASSUME NEW p \in Process,
               \/ \E t \in Token, adopted \in BOOLEAN : Reserve(p, t, adopted)
               \/ WriteGuard(p) \/ CheckCustody(p)
               \/ \E c \in Process : StartCommit(p, c)
               \/ WriteChild(p) \/ UnlinkParent(p) \/ HandoffFault(p)
        PROVE  Closed
    BY <2>4, <2>7
       DEF Reserve, WriteGuard, CheckCustody, StartCommit, WriteChild,
           UnlinkParent, HandoffFault, handle
  <2>8. ASSUME \/ LegacyExit
               \/ \E p \in Process :
                    \/ StartCancel(p) \/ CancelParent(p) \/ CancelChild(p)
                    \/ CancelGuard(p) \/ Crash(p)
                    \/ \E t \in Token : AdoptList(p, t)
        PROVE  Closed
    BY <2>4, <2>8
       DEF LegacyExit, StartCancel, CancelParent, CancelChild, CancelGuard,
           Crash, AdoptList, handle
  <2> QED BY <1>1, <2>2, <2>3, <2>5, <2>6, <2>7, <2>8 DEF Next
<1>2. UNCHANGED vars => Closed
  BY DEF vars
<1>3. IInv /\ [Next]_vars => [Closed]_vars
  BY <1>1, <1>2
<1> QED BY <1>3, LeaseConsistent, PTL DEF LeaseSpec, HandoffFailsClosed
=============================================================================
