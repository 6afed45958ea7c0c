------------------------ MODULE SessionRegistryProofs ------------------------
(***************************************************************************)
(* The registry of live sessions keeps the promise of SessionOwnership,    *)
(* and forgets no idle session, for any number of sessions, directories    *)
(* and runtimes.                                                           *)
(*                                                                         *)
(* None of what is promised is inductive.  That a session has one runtime  *)
(* at most rests on what the operations wait for: a restart reserves the   *)
(* second before the first has stopped (OneRuntimeEach), an operation that *)
(* has heard of no failure still waits for every runtime that is in its    *)
(* way (StillAwaited), and a launch that somebody waits for is cancelled,  *)
(* so that the end it reports is never that it has begun (AwaitedIsEnding).*)
(***************************************************************************)
EXTENDS RuntimeRestart, TLAPS

Occupied == {r \in Runtime : runtime[r].at # "free"}

\* What the state of a runtime says of its client and of its stop.
RuntimeShape ==
  \A r \in Runtime :
    /\ runtime[r].at = "free" => runtime[r] = Free
    /\ runtime[r].at # "free" => runtime[r].session \in Session
    /\ runtime[r].at \in {"reserved", "preparing"} => runtime[r].client = "none"
    /\ runtime[r].at \in {"starting", "state"} => runtime[r].client = "alive"
    /\ runtime[r].at = "active" => runtime[r].known
    /\ runtime[r].stop # "none" => runtime[r].at = "active" /\ runtime[r].closing
    /\ runtime[r].stop = "mutations" => runtime[r].client = "stopped"
    /\ runtime[r].mutating => runtime[r].at = "active"

\* The stages of each operation; a restart has a launch until that is over.
OperationShape ==
  \A s \in Session :
    /\ operation[s].kind = "none" => operation[s].at = "none"
    /\ operation[s].kind = "delete" => operation[s].at \in {"queued", "waiting", "working"}
    /\ operation[s].kind = "rename" => operation[s].at = "queued"
    /\ operation[s].kind = "restart" =>
         operation[s].at \in {"queued", "waiting", "launching", "ended"}
    /\ operation[s].launch # 0 <=>
         operation[s].kind = "restart" /\ operation[s].at \in {"waiting", "launching"}
    /\ operation[s].launch # 0 =>
         LET x == runtime[operation[s].launch] IN
         /\ x.session = s /\ x.known
         /\ operation[s].at = "waiting" => x.at = "reserved"
         /\ operation[s].at = "launching" => x.at \in {"preparing", "starting", "state", "cleanup"}
    /\ operation[s].kind = "restart" /\ operation[s].at = "queued" =>
         \A r \in Occupied : runtime[r].session = s => runtime[r].at = "active"

\* A session has one runtime, or the one that its restart has reserved besides.
OneRuntimeEach ==
  \A r, q \in Occupied :
    r # q /\ runtime[r].session = runtime[q].session =>
      operation[runtime[r].session].launch \in {r, q}
      /\ operation[runtime[r].session].at = "waiting"

\* Nobody can ask anything of a new session before its launch is over.
NewIsUnknown ==
  /\ \A r \in Occupied :
       /\ ~runtime[r].known =>
            /\ operation[runtime[r].session].kind = "none"
            /\ file[runtime[r].session] \in {"unused", "none"}
       /\ runtime[r].known \/ runtime[r].at # "preparing" => file[runtime[r].session] # "unused"
  /\ \A s \in Session :
       operation[s].kind # "none" \/ s \in lingering => file[s] # "unused"

\* A launch that somebody waits for never becomes a record.
AwaitedIsEnding ==
  \A w \in Waiter : \A r \in waits[w] : runtime[r].at = "active" \/ runtime[r].cancelled

\* While an operation has heard of no failure, it waits for each runtime that is in
\* its way; when it changes files, there is none.
StillAwaited ==
  /\ \A s \in Session, r \in Occupied :
       runtime[r].session = s =>
         /\ operation[s].at = "waiting" /\ r # operation[s].launch => failed[s] \/ r \in waits[s]
         /\ operation[s].at # "working" /\ operation[s].kind # "rename"
  /\ \A r \in Occupied :
       InScope(r, workspace.scopes) =>
         /\ workspace.at = "waiting" => failed[Workspace] \/ r \in waits[Workspace]
         /\ workspace.at # "running"
         /\ IF runtime[r].at = "active" THEN runtime[r].closing ELSE runtime[r].cancelled
  /\ shutdown = "waiting" => failed[Shutdown] \/ Occupied \subseteq waits[Shutdown]

\* The operations exclude each other, and the end of a shutdown them all.
OneAtATime ==
  /\ workspace.at = "none" <=> workspace.scopes = {}
  /\ workspace.at # "none" => \A s \in Session : operation[s].kind = "none"
  /\ shutdown # "none" => shuttingDown
  /\ shutdown = "done" => workspace.at = "none" /\ \A s \in Session : operation[s].kind = "none"
  /\ \A s \in lingering, r \in Occupied : runtime[r].session # s

OperationType ==
  [kind : {"none", "delete", "restart", "rename"},
   at : {"none", "queued", "waiting", "launching", "ended", "working"},
   force : BOOLEAN, lazy : BOOLEAN, launch : Runtime \cup {0}]

CoreInv ==
  /\ RegistryTypeOK
  /\ RuntimeShape
  /\ OperationShape
  /\ OneRuntimeEach
  /\ NewIsUnknown
  /\ AwaitedIsEnding
  /\ StillAwaited
  /\ OneAtATime

-----------------------------------------------------------------------------
(* Updates of one runtime.                                                 *)

\* Each helper makes a runtime of a runtime, and changes only what it names.
LEMMA ReconciledFields ==
  ASSUME NEW x \in RuntimeType
  PROVE  /\ Reconciled(x) \in RuntimeType
         /\ Reconciled(x).timer = canIdleStop(x)
         /\ \A f \in {"at", "session", "known", "cancelled", "client", "working", "error",
                      "closing", "stop", "mutating", "lazy"} : Reconciled(x)[f] = x[f]
BY DEF Reconciled, RuntimeType, canIdleStop, workspaceBlocked, conflictingOperation

\* Stopping closes a record and asks its client to stop.
LEMMA StoppingFields ==
  ASSUME NEW x \in RuntimeType
  PROVE  /\ Stopping(x) \in RuntimeType
         /\ Stopping(x).closing
         /\ Stopping(x).stop = IF x.stop = "none" THEN "client" ELSE x.stop
         /\ \A f \in {"at", "session", "known", "cancelled", "client", "working", "error",
                      "mutating", "lazy"} : Stopping(x)[f] = x[f]
BY DEF Stopping, RuntimeType

\* An operation that collects a runtime stops its record or cancels its launch.
LEMMA CollectedFields ==
  ASSUME NEW x \in RuntimeType
  PROVE  /\ Collected(x) \in RuntimeType
         /\ \A f \in {"session", "known", "client", "mutating"} : Collected(x)[f] = x[f]
         /\ x.at = "active" => Collected(x) = Stopping(x)
         /\ x.at # "active" =>
              /\ Collected(x).cancelled
              /\ Collected(x).at = IF x.at = "retained" THEN "cleanup" ELSE x.at
              /\ \A f \in {"closing", "stop", "timer"} : Collected(x)[f] = x[f]
BY DEF Collected, Stopping, RuntimeType

\* A slot that is free, and one that has just been reserved.
LEMMA FreeFields ==
  /\ Free \in RuntimeType
  /\ \A s \in Session, known \in BOOLEAN, at \in {"reserved", "preparing"} :
       Reserved(s, known, at) \in RuntimeType
BY DEF Free, Reserved, RuntimeType

\* What most steps do to a runtime: neither its session nor its client changes,
\* and what has been begun to end it is not taken back.
Kept(r) ==
  /\ \A f \in {"session", "known", "client"} : runtime'[r][f] = runtime[r][f]
  /\ runtime[r].at = "free" => runtime'[r] = runtime[r]
  /\ \/ runtime'[r].at = runtime[r].at
     \/ runtime[r].at = "retained" /\ runtime'[r].at = "cleanup"
  /\ runtime[r].cancelled => runtime'[r].cancelled
  /\ runtime[r].closing => runtime'[r].closing
  /\ \/ runtime'[r].stop = runtime[r].stop
     \/ /\ runtime[r].stop = "none" /\ runtime'[r].stop = "client"
        /\ runtime[r].at = "active" /\ runtime'[r].closing
  /\ runtime'[r].mutating => runtime[r].mutating \/ runtime[r].at = "active"

AllKept == runtime' \in [Runtime -> RuntimeType] /\ \A r \in Runtime : Kept(r)

\* What follows from it in general.
LEMMA KeptShape ==
  ASSUME CoreInv, AllKept
  PROVE  /\ RuntimeShape'
         /\ Occupied' = Occupied /\ (Pending \cup Records)' = Pending \cup Records
         /\ \A scopes : \A r \in Occupied : InScope(r, scopes)' = InScope(r, scopes)
<1>1. runtime \in [Runtime -> RuntimeType]
  BY DEF CoreInv, RegistryTypeOK
<1>2. RuntimeShape'
  BY <1>1 DEF CoreInv, RuntimeShape, AllKept, Kept
<1>3. Occupied' = Occupied /\ (Pending \cup Records)' = Pending \cup Records
  BY <1>1 DEF AllKept, Kept, Occupied, Pending, Records
<1>4. \A scopes : \A r \in Occupied : InScope(r, scopes)' = InScope(r, scopes)
  BY DEF AllKept, Kept, Occupied, InScope
<1> QED BY <1>2, <1>3, <1>4

\* The operations find their launches where they were.
LEMMA KeptShapeOfOperations ==
  ASSUME CoreInv, AllKept, UNCHANGED operation
  PROVE  OperationShape'
<1>1. /\ Occupied' = Occupied
      /\ \A r \in Runtime : Kept(r)
  BY KeptShape DEF AllKept
<1> SUFFICES ASSUME NEW t \in Session
             PROVE  OperationShape!(t)'
  BY DEF OperationShape
<1>2. OperationShape!(t)
  BY DEF CoreInv, OperationShape
<1>3. operation'[t] = operation[t]
  OBVIOUS
<1>4. operation[t].launch # 0 =>
        /\ operation[t].launch \in Runtime
        /\ Kept(operation[t].launch)
        /\ runtime'[operation[t].launch].at = runtime[operation[t].launch].at
  <2>1. operation[t].launch # 0 => operation[t].launch \in Runtime
    BY DEF CoreInv, RegistryTypeOK
  <2>2. operation[t].launch # 0 => runtime[operation[t].launch].at # "retained"
    BY <1>2
  <2> QED BY <1>1, <2>1, <2>2 DEF Kept
<1>5. \A r \in Occupied' :
        /\ runtime'[r].session = runtime[r].session
        /\ runtime[r].at = "active" => runtime'[r].at = "active"
  BY <1>1 DEF Kept, Occupied
<1>6. operation[t].launch # 0 =>
        LET y == runtime'[operation[t].launch]
            x == runtime[operation[t].launch] IN
        y.session = x.session /\ y.known = x.known /\ y.at = x.at
  BY <1>4 DEF Kept
<1> QED BY <1>1, <1>2, <1>3, <1>5, <1>6

\* Nothing else happens, but for the files.
LEMMA KeptBesidesFiles ==
  ASSUME CoreInv, AllKept, lingering' \subseteq lingering,
         UNCHANGED <<operation, workspace, shuttingDown, shutdown, waits, failed>>,
         file' \in [Session -> {"unused", "none", "written", "removed"}], NewIsUnknown'
  PROVE  CoreInv'
<1>1. RegistryTypeOK'
  BY KeptShape DEF CoreInv, RegistryTypeOK, AllKept
<1>2. OperationShape'
  BY KeptShapeOfOperations
<1>3. OneRuntimeEach'
  BY KeptShape DEF CoreInv, OneRuntimeEach, AllKept, Kept, Occupied
<1>4. AwaitedIsEnding'
  BY KeptShape DEF CoreInv, RegistryTypeOK, AwaitedIsEnding, AllKept, Kept, Occupied, Pending, Records
<1>5. StillAwaited'
  <2>1. Occupied' = Occupied
    BY KeptShape
  <2>2. \A r \in Occupied : /\ runtime'[r].session = runtime[r].session
                            /\ runtime'[r].at = "active" <=> runtime[r].at = "active"
                            /\ runtime[r].cancelled => runtime'[r].cancelled
                            /\ runtime[r].closing => runtime'[r].closing
    BY DEF AllKept, Kept, Occupied
  <2>3. StillAwaited
    BY DEF CoreInv
  <2>4. ASSUME NEW s \in Session, NEW r \in Occupied', runtime'[r].session = s
        PROVE  /\ operation'[s].at = "waiting" /\ r # operation'[s].launch =>
                    failed'[s] \/ r \in waits'[s]
               /\ operation'[s].at # "working" /\ operation'[s].kind # "rename"
    BY <2>1, <2>2, <2>3, <2>4 DEF StillAwaited
  <2>5. ASSUME NEW r \in Occupied', InScope(r, workspace.scopes)'
        PROVE  /\ workspace'.at = "waiting" => failed'[Workspace] \/ r \in waits'[Workspace]
               /\ workspace'.at # "running"
               /\ IF runtime'[r].at = "active" THEN runtime'[r].closing ELSE runtime'[r].cancelled
    BY <2>1, <2>2, <2>3, <2>5 DEF StillAwaited, InScope
  <2>6. shutdown' = "waiting" => failed'[Shutdown] \/ Occupied' \subseteq waits'[Shutdown]
    BY <2>1, <2>3 DEF StillAwaited
  <2> QED BY <2>4, <2>5, <2>6 DEF StillAwaited
<1>6. OneAtATime'
  BY KeptShape DEF CoreInv, OneAtATime, AllKept, Kept, Occupied
<1> QED BY KeptShape, <1>1, <1>2, <1>3, <1>4, <1>5, <1>6 DEF CoreInv

\* If nothing else happens, the invariant is kept.
LEMMA KeptIsEnough ==
  ASSUME CoreInv, AllKept, lingering' \subseteq lingering,
         UNCHANGED <<operation, workspace, shuttingDown, shutdown, waits, failed, file>>
  PROVE  CoreInv'
<1>1. NewIsUnknown'
  BY KeptShape DEF CoreInv, NewIsUnknown, AllKept, Kept, Occupied
<1> QED BY <1>1, KeptBesidesFiles DEF CoreInv, RegistryTypeOK

\* One runtime is given other fields.
LEMMA OneIsKept ==
  ASSUME CoreInv, NEW r \in Runtime, NEW y \in RuntimeType,
         runtime' = [runtime EXCEPT ![r] = y], Kept(r)
  PROVE  AllKept
BY DEF CoreInv, RegistryTypeOK, AllKept, Kept

\* A record whose timer is reconciled, after a change that ends nothing.
LEMMA RecordReconciled ==
  ASSUME CoreInv, NEW r \in Runtime, NEW y \in RuntimeType,
         runtime' = [runtime EXCEPT ![r] = Reconciled(y)],
         runtime[r].at = "active" \/ runtime[r].mutating,
         \A f \in {"at", "session", "known", "cancelled", "client", "closing", "stop"} :
           y[f] = runtime[r][f]
  PROVE  AllKept
<1>1. Reconciled(y) \in RuntimeType
  BY ReconciledFields
<1>2. runtime'[r] = Reconciled(y)
  BY DEF CoreInv, RegistryTypeOK
<1>3. \A f \in {"at", "session", "known", "cancelled", "client", "closing", "stop"} :
        runtime'[r][f] = runtime[r][f]
  BY <1>2, ReconciledFields
<1>4. runtime[r].at = "active"
  BY DEF CoreInv, RuntimeShape
<1>5. Kept(r)
  BY <1>3, <1>4 DEF Kept
<1> QED BY <1>1, <1>5, OneIsKept

\* A record that is stopped, or whose stop is joined.
LEMMA RecordStopped ==
  ASSUME CoreInv, NEW r \in Runtime, NEW y \in RuntimeType,
         runtime' = [runtime EXCEPT ![r] = Stopping(y)], y.at = "active",
         \A f \in {"at", "session", "known", "cancelled", "client", "closing", "stop"} :
           y[f] = runtime[r][f]
  PROVE  AllKept
<1>1. Stopping(y) \in RuntimeType
  BY StoppingFields
<1>2. runtime'[r] = Stopping(y)
  BY DEF CoreInv, RegistryTypeOK
<1>3. Kept(r)
  BY <1>2, StoppingFields DEF Kept
<1> QED BY <1>1, <1>3, OneIsKept

\* What people and clients do to a live session.
LEMMA RecordSteps ==
  ASSUME CoreInv, NEW r \in Runtime,
         \/ OpenLive(r) \/ WorkBegins(r) \/ WorkEnds(r) \/ RefreshFails(r) \/ Stop(r)
         \/ IdleTimeout(r) \/ MutationEnds(r)
         \/ \E prompt \in BOOLEAN : MutationBegins(r, prompt)
  PROVE  /\ AllKept /\ CoreInv'
         /\ UNCHANGED <<operation, workspace, lingering, shuttingDown, shutdown, waits, failed, file>>
<1> SUFFICES AllKept
  BY KeptIsEnough
     DEF OpenLive, WorkBegins, WorkEnds, RefreshFails, Stop, IdleTimeout, MutationEnds, MutationBegins
<1>1. runtime \in [Runtime -> RuntimeType] /\ runtime[r] \in RuntimeType
  BY DEF CoreInv, RegistryTypeOK
<1>2. CASE OpenLive(r)
  BY <1>1, <1>2, RecordReconciled DEF OpenLive
<1>3. CASE WorkBegins(r) \/ WorkEnds(r)
  <2>1. PICK working \in BOOLEAN :
          runtime' = [runtime EXCEPT ![r] = Reconciled([runtime[r] EXCEPT !.working = working])]
    BY <1>3 DEF WorkBegins, WorkEnds
  <2>2. [runtime[r] EXCEPT !.working = working] \in RuntimeType
    BY <1>1 DEF RuntimeType
  <2> QED BY <1>1, <1>3, <2>1, <2>2, RecordReconciled DEF WorkBegins, WorkEnds, RuntimeType
<1>4. CASE RefreshFails(r)
  BY <1>1, <1>4 DEF RefreshFails, AllKept, Kept, RuntimeType
<1>5. CASE Stop(r)
  BY <1>1, <1>5, RecordStopped DEF Stop
<1>6. CASE IdleTimeout(r)
  <2> DEFINE y == [runtime[r] EXCEPT !.timer = FALSE]
  <2>1. y \in RuntimeType
    BY <1>1 DEF RuntimeType
  <2>2. CASE y.at = "active" /\ canIdleStop(y)
    <3>1. runtime' = [runtime EXCEPT ![r] = Stopping(y)]
      BY <1>6, <2>2 DEF IdleTimeout
    <3> QED BY <1>1, <2>1, <2>2, <3>1, RecordStopped DEF RuntimeType
  <2>3. CASE ~(y.at = "active" /\ canIdleStop(y))
    <3>1. runtime' = [runtime EXCEPT ![r] = y]
      BY <1>6, <2>3 DEF IdleTimeout
    <3>2. runtime[r].at # "free"
      BY <1>6 DEF IdleTimeout, CoreInv, RuntimeShape, Free
    <3> QED BY <1>1, <3>1, <3>2 DEF AllKept, Kept, RuntimeType
  <2> QED BY <2>2, <2>3
<1>7. CASE MutationEnds(r)
  <2>1. [runtime[r] EXCEPT !.mutating = FALSE] \in RuntimeType
    BY <1>1 DEF RuntimeType
  <2> QED BY <1>1, <1>7, <2>1, RecordReconciled DEF MutationEnds, RuntimeType
<1>8. ASSUME NEW prompt \in BOOLEAN, MutationBegins(r, prompt)
      PROVE  AllKept
  BY <1>1, <1>8 DEF MutationBegins, AllKept, Kept, RuntimeType
<1> QED BY <1>2, <1>3, <1>4, <1>5, <1>6, <1>7, <1>8

\* The first answer of a new session, whose path is known by then, writes its file.
LEMMA FileWritten ==
  ASSUME CoreInv, NEW r \in Runtime, Answered(r)
  PROVE  CoreInv' /\ AllKept
<1>1. /\ RegistryTypeOK /\ runtime[r] \in RuntimeType /\ runtime[r].at = "active" /\ r \in Occupied
      /\ UNCHANGED <<operation, workspace, lingering, shuttingDown, shutdown, waits, failed>>
      /\ file' = [file EXCEPT ![runtime[r].session] = "written"]
  BY DEF CoreInv, RegistryTypeOK, Answered, Occupied
<1>2. AllKept
  <2>1. [runtime[r] EXCEPT !.lazy = FALSE] \in RuntimeType
    BY <1>1 DEF RuntimeType
  <2> QED BY <1>1, <2>1, RecordReconciled DEF Answered, RuntimeType
<1>3. ASSUME NEW q \in Occupied, ~runtime[q].known
      PROVE  runtime[q].session # runtime[r].session
  <2>1. q # r
    BY <1>1, <1>3 DEF CoreInv, RuntimeShape
  <2>2. operation[runtime[q].session].kind = "none" /\ runtime[q].session \in Session
    BY <1>3 DEF CoreInv, NewIsUnknown, RuntimeShape, Occupied
  <2>3. operation[runtime[q].session].at # "waiting"
    BY <2>2 DEF CoreInv, OperationShape
  <2> QED BY <1>1, <2>1, <2>3 DEF CoreInv, OneRuntimeEach
<1>4. /\ file' \in [Session -> {"unused", "none", "written", "removed"}]
      /\ \A s \in Session : file'[s] = IF s = runtime[r].session THEN "written" ELSE file[s]
  BY <1>1 DEF RegistryTypeOK
<1>5. NewIsUnknown'
  <2>1. NewIsUnknown /\ \A q \in Occupied : runtime[q].session \in Session
    BY DEF CoreInv, RuntimeShape, Occupied
  <2>2. /\ Occupied' = Occupied
        /\ \A q \in Occupied : /\ runtime'[q].session = runtime[q].session
                               /\ runtime'[q].known = runtime[q].known
                               /\ runtime[q].at = "preparing" <=> runtime'[q].at = "preparing"
    BY <1>2, KeptShape DEF AllKept, Kept, Occupied
  <2>3. runtime[r].at = "active" /\ r \in Occupied /\ operation' = operation /\ lingering' = lingering
    BY <1>1
  <2> QED BY <1>3, <1>4, <2>1, <2>2, <2>3 DEF NewIsUnknown
<1> QED BY <1>1, <1>2, <1>4, <1>5, KeptBesidesFiles

-----------------------------------------------------------------------------
(* Launches and stops.                                                     *)

\* A runtime that has ended is forgotten by whoever has waited for it.
LEMMA RuntimeFreed ==
  ASSUME CoreInv, NEW r \in Runtime, runtime[r].at # "free",
         runtime' \in [Runtime -> RuntimeType], runtime'[r] = Free,
         \A q \in Runtime \ {r} : Kept(q),
         Heard(r, TRUE),
         operation' \in [Session -> OperationType],
         \A s \in Session :
           IF operation[s].launch = r
           THEN /\ operation'[s].launch = 0
                /\ \/ operation'[s].kind = "none" /\ operation'[s].at = "none"
                   \/ operation'[s].kind = operation[s].kind /\ operation'[s].at = "ended"
           ELSE operation'[s] = operation[s],
         UNCHANGED <<workspace, lingering, shuttingDown, shutdown, file>>
  PROVE  CoreInv'
<1>1. runtime \in [Runtime -> RuntimeType] /\ RegistryTypeOK
  BY DEF CoreInv, RegistryTypeOK
<1>2. Occupied' = Occupied \ {r} /\ (Pending \cup Records)' = (Pending \cup Records) \ {r}
  BY <1>1 DEF Occupied, Pending, Records, Kept, Free
<1>3. /\ waits' = [w \in Waiter |-> waits[w] \ {r}]
      /\ failed' \in [Waiter -> BOOLEAN]
      /\ \A w \in Waiter : failed[w] => failed'[w]
  BY <1>1 DEF Heard, RegistryTypeOK
<1>4. RegistryTypeOK'
  BY <1>1, <1>2, <1>3 DEF RegistryTypeOK, OperationType
<1>5. RuntimeShape'
  BY <1>1 DEF CoreInv, RuntimeShape, Kept, Free
<1>6. OperationShape'
  <2> SUFFICES ASSUME NEW s \in Session
               PROVE  OperationShape!(s)'
    BY DEF OperationShape
  <2>1. OperationShape!(s)
    BY DEF CoreInv, OperationShape
  <2>2. CASE operation[s].launch = r
    <3>1. r # 0
      BY RegistryAssumption DEF Runtime
    <3> QED BY <2>1, <2>2, <3>1
  <2>3. CASE operation[s].launch # r
    <3>1. operation'[s] = operation[s]
      BY <2>3
    <3>2. ASSUME operation[s].launch # 0
          PROVE  Kept(operation[s].launch)
      BY <1>1, <2>3, <3>2 DEF RegistryTypeOK
    <3>3. \A q \in Occupied' : Kept(q) /\ q \in Occupied
      BY <1>2 DEF Occupied
    <3> QED BY <2>1, <3>1, <3>2, <3>3 DEF Kept
  <2> QED BY <2>2, <2>3
<1>7. OneRuntimeEach'
  BY <1>2 DEF CoreInv, OneRuntimeEach, RuntimeShape, Occupied, Kept
<1>8. NewIsUnknown'
  BY <1>1, <1>2 DEF CoreInv, NewIsUnknown, RuntimeShape, OperationShape, Occupied, Kept, RegistryTypeOK
<1>9. AwaitedIsEnding'
  BY <1>1, <1>2, <1>3 DEF CoreInv, RegistryTypeOK, AwaitedIsEnding, Kept, Pending, Records
<1>10. StillAwaited'
  BY <1>1, <1>2, <1>3 DEF CoreInv, RegistryTypeOK, StillAwaited, Kept, Occupied, InScope, Waiter, OperationShape
<1>11. OneAtATime'
  BY <1>1, <1>2 DEF CoreInv, OneAtATime, Kept, Occupied, OperationShape
<1> QED BY <1>4, <1>5, <1>6, <1>7, <1>8, <1>9, <1>10, <1>11 DEF CoreInv

\* What LaunchEnds leaves of the operations.
LEMMA LaunchOver ==
  ASSUME CoreInv, NEW r \in Runtime, runtime[r].at # "reserved", LaunchEnds(r)
  PROVE  /\ operation' \in [Session -> OperationType]
         /\ \A s \in Session :
              IF operation[s].launch = r
              THEN /\ operation'[s].launch = 0 /\ operation'[s].at = "ended"
                   /\ operation'[s].kind = operation[s].kind
              ELSE operation'[s] = operation[s]
<1>1. operation \in [Session -> OperationType]
  BY DEF CoreInv, RegistryTypeOK, OperationType
<1>2. r # 0
  BY RegistryAssumption DEF Runtime
<1>3. \A s \in Session : operation[s].launch = r => operation[s].at = "launching"
  BY <1>1, <1>2 DEF CoreInv, OperationShape
<1>4. ASSUME NEW s \in Session
      PROVE  /\ operation'[s] \in OperationType
             /\ IF operation[s].launch = r
                THEN /\ operation'[s].launch = 0 /\ operation'[s].at = "ended"
                     /\ operation'[s].kind = operation[s].kind
                ELSE operation'[s] = operation[s]
  <2>1. operation[s] \in OperationType
    BY <1>1
  <2>2. CASE operation[s].launch = r
    <3>1. operation'[s] = [operation[s] EXCEPT !.at = "ended", !.launch = 0]
      BY <1>3, <2>2 DEF LaunchEnds
    <3> QED BY <2>1, <2>2, <3>1 DEF OperationType
  <2>3. CASE operation[s].launch # r
    <3>1. operation'[s] = operation[s]
      BY <2>3 DEF LaunchEnds
    <3> QED BY <2>1, <2>3, <3>1
  <2> QED BY <2>2, <2>3
<1>5. operation' \in [Session -> OperationType]
  BY <1>4 DEF LaunchEnds
<1> QED BY <1>4, <1>5

\* A launch that has failed, been aborted or cleaned up, and a record that has
\* stopped.
LEMMA RuntimeLeaves ==
  ASSUME CoreInv, NEW r \in Runtime, LaunchAborted(r) \/ CleanupDone(r) \/ StopEnds(r)
  PROVE  CoreInv'
<1>1. runtime \in [Runtime -> RuntimeType] /\ runtime[r] \in RuntimeType
  BY DEF CoreInv, RegistryTypeOK
<1>2. runtime' = [runtime EXCEPT ![r] = Free] /\ Heard(r, TRUE)
      /\ UNCHANGED <<workspace, lingering, shuttingDown, shutdown, file>>
  BY DEF LaunchAborted, CleanupDone, StopEnds
<1>3. /\ runtime' \in [Runtime -> RuntimeType] /\ runtime'[r] = Free
      /\ \A q \in Runtime \ {r} : Kept(q)
  BY <1>1, <1>2, FreeFields DEF Kept
<1>4. CASE LaunchAborted(r) \/ CleanupDone(r)
  <2>1. LaunchEnds(r) /\ runtime[r].at \in {"preparing", "cleanup"}
    BY <1>4 DEF LaunchAborted, CleanupDone
  <2>2. /\ operation' \in [Session -> OperationType]
        /\ \A s \in Session :
             IF operation[s].launch = r
             THEN /\ operation'[s].launch = 0 /\ operation'[s].at = "ended"
                  /\ operation'[s].kind = operation[s].kind
             ELSE operation'[s] = operation[s]
    BY <2>1, LaunchOver
  <2> QED BY <1>2, <1>3, <2>1, <2>2, RuntimeFreed
<1>5. CASE StopEnds(r)
  <2>1. runtime[r].at = "active"
    BY <1>5 DEF StopEnds, CoreInv, RuntimeShape
  <2>2. operation' = operation /\ operation \in [Session -> OperationType]
    BY <1>5 DEF StopEnds, CoreInv, RegistryTypeOK, OperationType
  <2>3. r # 0
    BY RegistryAssumption DEF Runtime
  <2>4. \A s \in Session : operation[s].launch # r
    BY <2>1, <2>3 DEF CoreInv, OperationShape
  <2> QED BY <1>2, <1>3, <2>1, <2>2, <2>4, RuntimeFreed
<1> QED BY <1>4, <1>5

\* A runtime goes on; if it does not end as it was asked to, whoever has waited for
\* it knows that this failed.
LEMMA RuntimeMoves ==
  ASSUME CoreInv, NEW r \in Runtime, runtime[r].at # "free", runtime'[r].at # "free",
         runtime' \in [Runtime -> RuntimeType],
         \A q \in Runtime \ {r} : runtime'[q] = runtime[q],
         \A f \in {"session", "cancelled"} : runtime'[r][f] = runtime[r][f],
         runtime[r].known => runtime'[r].known,
         runtime[r].closing => runtime'[r].closing,
         runtime[r].at = "active" => runtime'[r].at = "active",
         runtime'[r].at = "active" => runtime[r].at = "active" \/ ~runtime[r].cancelled,
         RuntimeShape', OperationShape',
         operation' \in [Session -> OperationType],
         \A s \in Session :
           /\ operation'[s].kind = operation[s].kind
           /\ \/ operation'[s].at = operation[s].at /\ operation'[s].launch = operation[s].launch
              \/ operation[s].at = "launching" /\ operation'[s].at = "ended",
         waits' \in [Waiter -> SUBSET (Pending \cup Records)], failed' \in [Waiter -> BOOLEAN],
         \A w \in Waiter : /\ waits'[w] \subseteq waits[w]
                           /\ failed[w] => failed'[w]
                           /\ failed'[w] \/ waits'[w] = waits[w],
         file' \in [Session -> {"unused", "none", "written", "removed"}],
         \A s \in Session : file'[s] = file[s] \/ (file[s] = "unused" /\ file'[s] = "none"),
         runtime'[r].known \/ runtime'[r].at # "preparing" => file'[runtime[r].session] # "unused",
         UNCHANGED <<workspace, lingering, shuttingDown, shutdown>>
  PROVE  CoreInv'
<1>1. runtime \in [Runtime -> RuntimeType] /\ RegistryTypeOK
  BY DEF CoreInv, RegistryTypeOK
<1>0. \A q \in Runtime :
        /\ runtime'[q].session = runtime[q].session
        /\ runtime'[q].cancelled = runtime[q].cancelled
        /\ runtime[q].closing => runtime'[q].closing
        /\ runtime[q].known => runtime'[q].known
        /\ runtime[q].at = "active" => runtime'[q].at = "active"
        /\ runtime'[q].at = "active" => runtime[q].at = "active" \/ ~runtime[q].cancelled
  OBVIOUS
<1>2. Occupied' = Occupied /\ (Pending \cup Records)' = Pending \cup Records
  BY <1>1 DEF Occupied, Pending, Records
<1>3. RegistryTypeOK'
  BY <1>1, <1>2 DEF RegistryTypeOK, OperationType
<1>4. OneRuntimeEach'
  <2> SUFFICES ASSUME NEW a \in Occupied', NEW b \in Occupied', a # b,
                      runtime'[a].session = runtime'[b].session
               PROVE  /\ operation'[runtime'[a].session].launch \in {a, b}
                      /\ operation'[runtime'[a].session].at = "waiting"
    BY DEF OneRuntimeEach
  <2> DEFINE s == runtime[a].session
  <2>1. a \in Occupied /\ b \in Occupied /\ runtime'[a].session = s /\ runtime[b].session = s
    BY <1>0, <1>2 DEF Occupied
  <2>2. s \in Session /\ operation[s].launch \in {a, b} /\ operation[s].at = "waiting"
    BY <2>1 DEF CoreInv, OneRuntimeEach, RuntimeShape, Occupied
  <2> QED BY <2>1, <2>2
<1>5. NewIsUnknown'
  <2>1. NewIsUnknown
    BY DEF CoreInv
  <2>2. ASSUME NEW q \in Occupied'
        PROVE  /\ ~runtime'[q].known =>
                    /\ operation'[runtime'[q].session].kind = "none"
                    /\ file'[runtime'[q].session] \in {"unused", "none"}
               /\ runtime'[q].known \/ runtime'[q].at # "preparing" =>
                    file'[runtime'[q].session] # "unused"
    <3> DEFINE s == runtime[q].session
    <3>1. q \in Occupied /\ runtime'[q].session = s
      BY <1>0, <1>2 DEF Occupied
    <3>2. s \in Session
      BY <3>1 DEF CoreInv, RuntimeShape, Occupied
    <3>3. /\ ~runtime[q].known =>
               operation[s].kind = "none" /\ file[s] \in {"unused", "none"}
          /\ runtime[q].known \/ runtime[q].at # "preparing" => file[s] # "unused"
      BY <2>1, <3>1 DEF NewIsUnknown
    <3>4. q # r => runtime'[q] = runtime[q]
      BY <3>1 DEF Occupied
    <3> QED BY <1>0, <3>1, <3>2, <3>3, <3>4 DEF Occupied
  <2>3. \A s \in Session :
          operation'[s].kind # "none" \/ s \in lingering' => file'[s] # "unused"
    BY <2>1 DEF NewIsUnknown
  <2> QED BY <2>2, <2>3 DEF NewIsUnknown
<1>6. AwaitedIsEnding'
  BY <1>1, <1>2 DEF CoreInv, RegistryTypeOK, AwaitedIsEnding, Pending, Records
<1>7. StillAwaited'
  <2>1. StillAwaited
    BY DEF CoreInv
  <2>2. ASSUME NEW s \in Session, NEW q \in Occupied', runtime'[q].session = s
        PROVE  /\ operation'[s].at = "waiting" /\ q # operation'[s].launch =>
                    failed'[s] \/ q \in waits'[s]
               /\ operation'[s].at # "working" /\ operation'[s].kind # "rename"
    <3>1. q \in Occupied /\ runtime[q].session = s /\ s \in Waiter
      BY <1>0, <1>2, <2>2 DEF Waiter, Occupied
    <3> QED BY <2>1, <3>1 DEF StillAwaited
  <2>3. ASSUME NEW q \in Occupied', InScope(q, workspace.scopes)'
        PROVE  /\ workspace'.at = "waiting" => failed'[Workspace] \/ q \in waits'[Workspace]
               /\ workspace'.at # "running"
               /\ IF runtime'[q].at = "active" THEN runtime'[q].closing ELSE runtime'[q].cancelled
    <3>1. q \in Occupied /\ InScope(q, workspace.scopes) /\ Workspace \in Waiter
      BY <1>0, <1>2, <2>3 DEF Waiter, Occupied, InScope
    <3>2. /\ workspace.at = "waiting" => failed[Workspace] \/ q \in waits[Workspace]
          /\ workspace.at # "running"
          /\ IF runtime[q].at = "active" THEN runtime[q].closing ELSE runtime[q].cancelled
      BY <2>1, <3>1 DEF StillAwaited
    <3>3. IF runtime'[q].at = "active" THEN runtime'[q].closing ELSE runtime'[q].cancelled
      BY <1>0, <3>1, <3>2 DEF Occupied
    <3> QED BY <3>1, <3>2, <3>3
  <2>4. shutdown' = "waiting" => failed'[Shutdown] \/ Occupied' \subseteq waits'[Shutdown]
    BY <1>2, <2>1 DEF StillAwaited, Waiter
  <2> QED BY <2>2, <2>3, <2>4 DEF StillAwaited
<1>8. OneAtATime'
  BY <1>0, <1>2 DEF CoreInv, OneAtATime, Occupied, RegistryTypeOK
<1> QED BY <1>3, <1>4, <1>5, <1>6, <1>7, <1>8 DEF CoreInv

\* A launch goes forward, or a client is told to stop; nobody hears of it.
LEMMA RuntimeGoesOn ==
  ASSUME CoreInv, NEW r \in Runtime,
         LaunchStarts(r) \/ LaunchStarted(r) \/ LaunchFails(r) \/ ClientStops(r)
  PROVE  CoreInv'
<1> USE DEF LaunchStarts, LaunchStarted, LaunchFails, ClientStops
<1>1. /\ RegistryTypeOK /\ runtime \in [Runtime -> RuntimeType] /\ runtime[r] \in RuntimeType
      /\ runtime[r].session \in Session
      /\ runtime[r].at \in {"preparing", "starting", "state", "active"}
      /\ RuntimeShape /\ OperationShape /\ NewIsUnknown
  <2>1. runtime[r].at \in {"preparing", "starting", "state", "active"}
    OBVIOUS
  <2> QED BY <2>1 DEF CoreInv, RegistryTypeOK, RuntimeShape
<1>2. /\ runtime' \in [Runtime -> RuntimeType]
      /\ \A q \in Runtime \ {r} : runtime'[q] = runtime[q]
  BY <1>1 DEF RuntimeType
<1>3. /\ runtime'[r].session = runtime[r].session
      /\ runtime'[r].cancelled = runtime[r].cancelled
      /\ runtime'[r].known = runtime[r].known /\ runtime'[r].closing = runtime[r].closing
      /\ runtime'[r].mutating = runtime[r].mutating
      /\ IF runtime[r].at = "active" THEN runtime'[r].at = "active"
         ELSE runtime'[r].at \in {"starting", "state", "cleanup"}
  BY <1>1 DEF RuntimeType
<1>4. RuntimeShape'
  <2>1. ASSUME NEW q \in Runtime \ {r}
        PROVE  RuntimeShape!(q)'
    BY <1>1, <1>2 DEF RuntimeShape
  <2>2. RuntimeShape!(r)'
    BY <1>1 DEF RuntimeShape, RuntimeType
  <2> QED BY <2>1, <2>2 DEF RuntimeShape
<1>5. OperationShape'
  BY <1>1, <1>2, <1>3 DEF OperationShape, RegistryTypeOK, Occupied
<1>6. /\ file' \in [Session -> {"unused", "none", "written", "removed"}]
      /\ \A s \in Session : file'[s] = file[s] \/ (file[s] = "unused" /\ file'[s] = "none")
      /\ runtime'[r].known \/ runtime'[r].at # "preparing" =>
           file'[runtime[r].session] # "unused"
  BY <1>1, <1>3 DEF RegistryTypeOK, NewIsUnknown, Occupied
<1>7. /\ operation' = operation /\ waits' = waits /\ failed' = failed
      /\ UNCHANGED <<workspace, lingering, shuttingDown, shutdown>>
  OBVIOUS
<1>8. /\ operation' \in [Session -> OperationType]
      /\ waits' \in [Waiter -> SUBSET (Pending \cup Records)] /\ failed' \in [Waiter -> BOOLEAN]
  BY <1>1, <1>7 DEF RegistryTypeOK, OperationType
<1> QED BY <1>1, <1>2, <1>3, <1>4, <1>5, <1>6, <1>7, <1>8, RuntimeMoves

\* When the launch of a restart is over, the restart has its own end left.
LEMMA LaunchOverShape ==
  ASSUME CoreInv, NEW r \in Runtime, runtime[r].at \notin {"free", "reserved"},
         runtime' \in [Runtime -> RuntimeType],
         \A q \in Runtime \ {r} : runtime'[q] = runtime[q],
         runtime'[r].session = runtime[r].session,
         runtime[r].at = "active" => runtime'[r].at = "active",
         \A s \in Session :
           IF operation[s].launch = r
           THEN /\ operation'[s].launch = 0 /\ operation'[s].at = "ended"
                /\ operation'[s].kind = operation[s].kind
           ELSE operation'[s] = operation[s]
  PROVE  /\ OperationShape'
         /\ \A s \in Session :
              /\ operation'[s].kind = operation[s].kind
              /\ \/ operation'[s].at = operation[s].at /\ operation'[s].launch = operation[s].launch
                 \/ operation[s].at = "launching" /\ operation'[s].at = "ended"
<1>1. RegistryTypeOK /\ OperationShape
  BY DEF CoreInv
<1>2. \A s \in Session : operation[s].launch = r =>
        operation[s].kind = "restart" /\ operation[s].at = "launching"
  <2>1. r # 0
    BY RegistryAssumption DEF Runtime
  <2> QED BY <1>1, <2>1 DEF OperationShape
<1>3. OperationShape'
  <2> SUFFICES ASSUME NEW s \in Session
               PROVE  OperationShape!(s)'
    BY DEF OperationShape
  <2>1. OperationShape!(s)
    BY <1>1 DEF OperationShape
  <2>2. CASE operation[s].launch = r
    BY <1>2, <2>1, <2>2
  <2>3. CASE operation[s].launch # r
    <3>1. operation'[s] = operation[s]
      BY <2>3
    <3>2. operation[s].launch # 0 => runtime'[operation[s].launch] = runtime[operation[s].launch]
      BY <1>1, <2>3 DEF RegistryTypeOK
    <3>3. \A q \in Occupied' : q \in Occupied /\ runtime'[q].session = runtime[q].session
                               /\ (runtime[q].at = "active" => runtime'[q].at = "active")
      BY DEF Occupied
    <3> QED BY <2>1, <3>1, <3>2, <3>3
  <2> QED BY <2>2, <2>3
<1> QED BY <1>2, <1>3

\* A stop or a cleanup fails, and whoever has waited for it is told so.
LEMMA RuntimeFails ==
  ASSUME CoreInv, NEW r \in Runtime, CleanupFails(r) \/ StopFails(r)
  PROVE  CoreInv'
<1>1. /\ RegistryTypeOK /\ runtime \in [Runtime -> RuntimeType] /\ runtime[r] \in RuntimeType
      /\ RuntimeShape /\ OperationShape /\ NewIsUnknown
  BY DEF CoreInv, RegistryTypeOK
<1>2. /\ runtime[r].at \in {"active", "cleanup"} /\ runtime[r].session \in Session
      /\ Heard(r, FALSE)
      /\ UNCHANGED <<workspace, lingering, shuttingDown, shutdown, file>>
  <2>1. runtime[r].at \in {"active", "cleanup"}
    BY DEF CleanupFails, StopFails
  <2> QED BY <1>1, <2>1 DEF CleanupFails, StopFails, RuntimeShape
<1>3. /\ runtime' \in [Runtime -> RuntimeType]
      /\ \A q \in Runtime \ {r} : runtime'[q] = runtime[q]
      /\ runtime'[r].at = IF runtime[r].at = "active" THEN "active" ELSE "retained"
      /\ runtime[r].at = "active" =>
           runtime'[r].stop = "none" /\ runtime'[r].client = runtime[r].client
      /\ runtime[r].at # "active" => runtime'[r].stop = runtime[r].stop
      /\ runtime'[r].session = runtime[r].session /\ runtime'[r].cancelled = runtime[r].cancelled
      /\ runtime'[r].known = runtime[r].known /\ runtime'[r].closing = runtime[r].closing
      /\ runtime'[r].mutating = runtime[r].mutating
  <2>1. CASE CleanupFails(r)
    BY <1>1, <2>1 DEF CleanupFails, RuntimeType
  <2>2. CASE StopFails(r)
    BY <1>1, <2>2 DEF StopFails, RuntimeType
  <2> QED BY <2>1, <2>2
<1>4. RuntimeShape'
  <2>1. ASSUME NEW q \in Runtime \ {r}
        PROVE  RuntimeShape!(q)'
    BY <1>1, <1>3 DEF RuntimeShape
  <2>2. RuntimeShape!(r)'
    BY <1>1, <1>2, <1>3 DEF RuntimeShape, RuntimeType
  <2> QED BY <2>1, <2>2 DEF RuntimeShape
<1>5. /\ operation' \in [Session -> OperationType]
      /\ \A s \in Session :
           IF operation[s].launch = r
           THEN /\ operation'[s].launch = 0 /\ operation'[s].at = "ended"
                /\ operation'[s].kind = operation[s].kind
           ELSE operation'[s] = operation[s]
  <2>1. CASE CleanupFails(r)
    BY <2>1, LaunchOver DEF CleanupFails
  <2>2. CASE StopFails(r)
    <3>1. runtime[r].at = "active" /\ r # 0
      BY <2>2, RegistryAssumption DEF StopFails, Runtime
    <3>2. \A s \in Session : operation[s].launch # r
      BY <1>1, <3>1 DEF OperationShape
    <3> QED BY <1>1, <2>2, <3>2 DEF StopFails, RegistryTypeOK, OperationType
  <2> QED BY <2>1, <2>2
<1>6. /\ OperationShape'
      /\ \A s \in Session :
           /\ operation'[s].kind = operation[s].kind
           /\ \/ operation'[s].at = operation[s].at /\ operation'[s].launch = operation[s].launch
              \/ operation[s].at = "launching" /\ operation'[s].at = "ended"
  BY <1>2, <1>3, <1>5, LaunchOverShape
<1>7. /\ waits' \in [Waiter -> SUBSET (Pending \cup Records)] /\ failed' \in [Waiter -> BOOLEAN]
      /\ \A w \in Waiter : /\ waits'[w] \subseteq waits[w]
                           /\ failed[w] => failed'[w]
                           /\ failed'[w] \/ waits'[w] = waits[w]
  BY <1>1, <1>2 DEF Heard, RegistryTypeOK
<1>8. /\ file' \in [Session -> {"unused", "none", "written", "removed"}] /\ file' = file
      /\ file'[runtime[r].session] # "unused"
  BY <1>1, <1>2 DEF RegistryTypeOK, NewIsUnknown, Occupied
<1> QED BY <1>1, <1>2, <1>3, <1>4, <1>5, <1>6, <1>7, <1>8, RuntimeMoves

\* A launch becomes a record: nobody waits for it, or it had been cancelled.
LEMMA RuntimeReady ==
  ASSUME CoreInv, NEW r \in Runtime, LaunchReady(r)
  PROVE  CoreInv'
<1>1. /\ RegistryTypeOK /\ runtime \in [Runtime -> RuntimeType] /\ runtime[r] \in RuntimeType
      /\ RuntimeShape /\ NewIsUnknown /\ AwaitedIsEnding
  BY DEF CoreInv, RegistryTypeOK
<1>2. /\ runtime[r].at = "state" /\ runtime[r].session \in Session /\ ~runtime[r].cancelled
      /\ UNCHANGED <<workspace, lingering, shuttingDown, shutdown, file>>
  BY <1>1 DEF LaunchReady, RuntimeShape, throwIfLaunchCancelled
<1>3. PICK working \in BOOLEAN, lazy \in BOOLEAN :
        runtime' = [runtime EXCEPT ![r] = Reconciled(
          [runtime[r] EXCEPT !.at = "active", !.known = TRUE, !.working = working, !.lazy = lazy])]
  <2>1. runtime[r].lazy \in BOOLEAN
    BY <1>1 DEF RuntimeType
  <2> QED BY <2>1 DEF LaunchReady
<1>4. /\ runtime' \in [Runtime -> RuntimeType]
      /\ \A q \in Runtime \ {r} : runtime'[q] = runtime[q]
      /\ runtime'[r].at = "active" /\ runtime'[r].known
      /\ \A f \in {"session", "cancelled", "client", "closing", "stop", "mutating"} :
           runtime'[r][f] = runtime[r][f]
  <2> DEFINE y == [runtime[r] EXCEPT !.at = "active", !.known = TRUE, !.working = working,
                                     !.lazy = lazy]
  <2>1. /\ y \in RuntimeType /\ y.at = "active" /\ y.known
        /\ \A f \in {"session", "cancelled", "client", "closing", "stop", "mutating"} :
             y[f] = runtime[r][f]
    BY <1>1 DEF RuntimeType
  <2>2. runtime'[r] = Reconciled(y) /\ runtime' = [runtime EXCEPT ![r] = Reconciled(y)]
    BY <1>1, <1>3
  <2> HIDE DEF y
  <2> QED BY <1>1, <2>1, <2>2, ReconciledFields
<1>5. RuntimeShape'
  <2>1. ASSUME NEW q \in Runtime \ {r}
        PROVE  RuntimeShape!(q)'
    BY <1>1, <1>4 DEF RuntimeShape
  <2>2. RuntimeShape!(r)'
    BY <1>1, <1>2, <1>4 DEF RuntimeShape
  <2> QED BY <2>1, <2>2 DEF RuntimeShape
<1>6. /\ operation' \in [Session -> OperationType]
      /\ \A s \in Session :
           IF operation[s].launch = r
           THEN /\ operation'[s].launch = 0 /\ operation'[s].at = "ended"
                /\ operation'[s].kind = operation[s].kind
           ELSE operation'[s] = operation[s]
  BY <1>2, LaunchOver DEF LaunchReady
<1>7. /\ OperationShape'
      /\ \A s \in Session :
           /\ operation'[s].kind = operation[s].kind
           /\ \/ operation'[s].at = operation[s].at /\ operation'[s].launch = operation[s].launch
              \/ operation[s].at = "launching" /\ operation'[s].at = "ended"
  BY <1>2, <1>4, <1>6, LaunchOverShape
<1>8. \A w \in Waiter : r \notin waits[w]
  BY <1>1, <1>2 DEF AwaitedIsEnding
<1>9. /\ waits' \in [Waiter -> SUBSET (Pending \cup Records)] /\ failed' \in [Waiter -> BOOLEAN]
      /\ \A w \in Waiter : waits'[w] = waits[w] /\ (failed[w] => failed'[w])
  BY <1>1, <1>8 DEF LaunchReady, Heard, RegistryTypeOK
<1>10. /\ file' \in [Session -> {"unused", "none", "written", "removed"}] /\ file' = file
       /\ file'[runtime[r].session] # "unused"
  BY <1>1, <1>2 DEF RegistryTypeOK, NewIsUnknown, Occupied
<1> QED BY <1>1, <1>2, <1>4, <1>5, <1>6, <1>7, <1>9, <1>10, RuntimeMoves

-----------------------------------------------------------------------------
(* A slot is taken.                                                        *)

\* A session that has no runtime, and that no operation is about, gets one.
LEMMA SlotTaken ==
  ASSUME CoreInv, NEW r \in Runtime, NEW s \in Session, NEW known \in BOOLEAN,
         Reserve(r, s, known),
         UNCHANGED <<operation, workspace, lingering, shuttingDown, shutdown, waits, failed, file>>,
         \A q \in Occupied : runtime[q].session # s,
         s \notin lingering, operation[s].kind = "none",
         IF known THEN file[s] # "unused" ELSE file[s] = "unused"
  PROVE  CoreInv'
<1>1. /\ RegistryTypeOK /\ runtime \in [Runtime -> RuntimeType]
      /\ runtime[r].at = "free" /\ ~shuttingDown /\ CwdOf[s] \notin workspace.scopes
  BY DEF CoreInv, RegistryTypeOK, Reserve, NextSlot, workspaceBlocked
<1>2. /\ runtime' \in [Runtime -> RuntimeType]
      /\ \A q \in Runtime \ {r} : runtime'[q] = runtime[q]
      /\ runtime'[r] = Reserved(s, known, "preparing")
  BY <1>1, FreeFields DEF Reserve
<1>3. /\ runtime'[r].at = "preparing" /\ runtime'[r].session = s /\ runtime'[r].known = known
      /\ runtime'[r].client = "none" /\ runtime'[r].stop = "none" /\ ~runtime'[r].mutating
  BY <1>2 DEF Reserved, Free
<1>4. /\ Occupied' = Occupied \cup {r} /\ r \notin Occupied
      /\ (Pending \cup Records)' = Pending \cup Records \cup {r}
      /\ \A q \in Occupied : runtime'[q] = runtime[q]
  BY <1>1, <1>2, <1>3 DEF Occupied, Pending, Records
<1>5. RegistryTypeOK'
  BY <1>1, <1>2, <1>4 DEF RegistryTypeOK
<1>6. RuntimeShape'
  <2>1. ASSUME NEW q \in Runtime \ {r}
        PROVE  RuntimeShape!(q)'
    BY <1>2 DEF CoreInv, RuntimeShape
  <2>2. RuntimeShape!(r)'
    BY <1>3 DEF RuntimeShape
  <2> QED BY <2>1, <2>2 DEF RuntimeShape
<1>7. OperationShape'
  <2> SUFFICES ASSUME NEW t \in Session
               PROVE  OperationShape!(t)'
    BY DEF OperationShape
  <2>1. OperationShape!(t)
    BY DEF CoreInv, OperationShape
  <2>2. operation[t].launch # 0 => operation[t].launch # r
    BY <1>1, <2>1 DEF CoreInv, RuntimeShape, Free
  <2>3. operation[t].launch # 0 => runtime'[operation[t].launch] = runtime[operation[t].launch]
    BY <1>1, <1>2, <2>2 DEF RegistryTypeOK
  <2> QED BY <1>3, <1>4, <2>1, <2>3
<1>8. OneRuntimeEach'
  BY <1>3, <1>4 DEF CoreInv, OneRuntimeEach
<1>9. NewIsUnknown'
  BY <1>3, <1>4 DEF CoreInv, NewIsUnknown
<1>10. AwaitedIsEnding'
  BY <1>1, <1>2 DEF CoreInv, AwaitedIsEnding, RegistryTypeOK, Pending, Records
<1>11. StillAwaited'
  BY <1>1, <1>3, <1>4 DEF CoreInv, StillAwaited, OperationShape, OneAtATime, InScope
<1>12. OneAtATime'
  BY <1>3, <1>4 DEF CoreInv, OneAtATime
<1> QED BY <1>5, <1>6, <1>7, <1>8, <1>9, <1>10, <1>11, <1>12 DEF CoreInv

\* create() of a session that exists nowhere, and open() of one that has no runtime.
LEMMA LaunchBegins ==
  ASSUME CoreInv, NEW r \in Runtime, NEW s \in Session, Create(s, r) \/ Open(s, r)
  PROVE  CoreInv'
<1>1. CASE Create(s, r)
  BY <1>1, SlotTaken DEF Create, CoreInv, NewIsUnknown, Occupied
<1>2. CASE Open(s, r)
  <2>1. \A q \in Occupied : runtime[q].session # s
    BY <1>2 DEF Open, RecordsOf, Records, Pending, Occupied
  <2> QED BY <1>2, <2>1, SlotTaken DEF Open, conflictingOperation
<1> QED BY <1>1, <1>2

-----------------------------------------------------------------------------
(* Operations begin and end.                                               *)

\* An operation is admitted while there is no other, nor one on workspaces.
LEMMA OperationBegins ==
  ASSUME CoreInv, NEW s \in Session,
         \/ RestartBegins(s) \/ RenameBegins(s)
         \/ \E force \in BOOLEAN : DeleteBegins(s, force)
  PROVE  CoreInv'
<1>1. RegistryTypeOK
  BY DEF CoreInv
<1>2. PICK kind \in {"delete", "restart", "rename"}, force \in BOOLEAN, lazy \in BOOLEAN :
        Begin(s, kind, force, lazy) /\ (kind = "restart" => RestartBegins(s))
        /\ (kind = "rename" => RenameBegins(s))
        /\ (kind = "delete" => file[s] = "written" \/ RecordsOf(s) # {} \/ s \in lingering)
  <2>1. CASE RestartBegins(s)
    BY <2>1 DEF RestartBegins
  <2>2. CASE RenameBegins(s)
    BY <2>2 DEF RenameBegins
  <2>3. CASE \E force \in BOOLEAN : DeleteBegins(s, force)
    <3>1. (s \in lingering \/ \E r \in RecordsOf(s) : runtime[r].lazy) \in BOOLEAN
      OBVIOUS
    <3> QED BY <2>3, <3>1 DEF DeleteBegins
  <2> QED BY <2>1, <2>2, <2>3
<1>3. /\ operation' \in [Session -> OperationType]
      /\ operation'[s].kind = kind /\ operation'[s].at = "queued" /\ operation'[s].launch = 0
      /\ \A t \in Session \ {s} : operation'[t] = operation[t]
      /\ operation[s].kind = "none" /\ ~shuttingDown /\ workspace.at = "none"
  <2>1. operation' = [operation EXCEPT ![s] =
           [kind |-> kind, at |-> "queued", force |-> force, lazy |-> lazy, launch |-> 0]]
    BY <1>2 DEF Begin
  <2>2. operation \in [Session -> OperationType]
    BY <1>1 DEF RegistryTypeOK, OperationType
  <2> QED BY <1>2, <2>1, <2>2 DEF Begin, OperationType, conflictingOperation
<1>4. UNCHANGED <<runtime, workspace, lingering, shuttingDown, shutdown, waits, failed, file>>
  BY DEF RestartBegins, RenameBegins, DeleteBegins
<1>5. operation[s].at = "none"
  BY <1>3 DEF CoreInv, OperationShape
<1>6. \A r, q \in Occupied : runtime[r].session = s /\ runtime[q].session = s => r = q
  BY <1>5 DEF CoreInv, OneRuntimeEach
<1>7. \A r \in Occupied : runtime[r].session = s => runtime[r].known
  <2>1. CASE RecordsOf(s) # {}
    BY <1>6, <2>1 DEF CoreInv, RuntimeShape, RecordsOf, Records, Occupied
  <2>2. CASE s \in lingering
    BY <2>2 DEF CoreInv, OneAtATime
  <2>3. CASE file[s] = "written"
    BY <2>3 DEF CoreInv, NewIsUnknown
  <2> QED BY <1>2, <2>1, <2>2, <2>3 DEF RestartBegins, RenameBegins
<1>8. kind = "restart" => \A r \in Occupied : runtime[r].session = s => runtime[r].at = "active"
  <2>1. CASE RecordsOf(s) # {}
    BY <1>6, <2>1 DEF RecordsOf, Records, Occupied
  <2>2. CASE s \in lingering
    BY <2>2 DEF CoreInv, OneAtATime
  <2> QED BY <1>2, <2>1, <2>2 DEF RestartBegins
<1>9. kind = "rename" => \A r \in Occupied : runtime[r].session # s
  BY <1>2, <1>7 DEF RenameBegins, RecordsOf, PendingOf, Records, Pending, Occupied
<1>10. file[s] # "unused"
  <2>1. CASE RecordsOf(s) # {}
    BY <2>1 DEF CoreInv, NewIsUnknown, RecordsOf, Records, Occupied
  <2>2. CASE s \in lingering
    BY <2>2 DEF CoreInv, NewIsUnknown
  <2> QED BY <1>2, <2>1, <2>2 DEF RestartBegins, RenameBegins
<1>11. Occupied' = Occupied /\ (Pending \cup Records)' = Pending \cup Records
  BY <1>4 DEF Occupied, Pending, Records
<1>12. RegistryTypeOK'
  BY <1>1, <1>3, <1>4, <1>11 DEF RegistryTypeOK, OperationType
<1>13. RuntimeShape' /\ AwaitedIsEnding'
  BY <1>4 DEF CoreInv, RuntimeShape, AwaitedIsEnding
<1>14. OperationShape'
  <2> SUFFICES ASSUME NEW t \in Session
               PROVE  OperationShape!(t)'
    BY DEF OperationShape
  <2>1. OperationShape!(t)
    BY DEF CoreInv, OperationShape
  <2>2. CASE t = s
    BY <1>3, <1>4, <1>8, <1>11, <2>2
  <2>3. CASE t # s
    BY <1>3, <1>4, <1>11, <2>1, <2>3
  <2> QED BY <2>2, <2>3
<1>15. OneRuntimeEach'
  BY <1>3, <1>4, <1>6, <1>11 DEF CoreInv, OneRuntimeEach, RuntimeShape, Occupied
<1>16. NewIsUnknown'
  BY <1>3, <1>4, <1>7, <1>10, <1>11 DEF CoreInv, NewIsUnknown, RuntimeShape, Occupied
<1>17. StillAwaited'
  BY <1>3, <1>4, <1>9, <1>11 DEF CoreInv, StillAwaited, InScope, Occupied
<1>18. OneAtATime'
  <2>1. OneAtATime /\ shutdown # "done"
    BY <1>3 DEF CoreInv, OneAtATime
  <2> QED BY <1>3, <1>4, <1>11, <2>1 DEF OneAtATime
<1> QED BY <1>12, <1>13, <1>14, <1>15, <1>16, <1>17, <1>18 DEF CoreInv

\* The timers that an operation held back are set again, and nothing else of a
\* runtime changes.
LEMMA RearmedIsKept ==
  ASSUME CoreInv, NEW s \in Session
  PROVE  /\ Rearmed(s) \in [Runtime -> RuntimeType]
         /\ \A r \in Runtime :
              /\ \A f \in {"at", "session", "known", "cancelled", "client", "working", "error",
                           "closing", "stop", "mutating", "lazy"} :
                   Rearmed(s)[r][f] = runtime[r][f]
              /\ runtime[r].at # "active" => Rearmed(s)[r] = runtime[r]
<1>1. runtime \in [Runtime -> RuntimeType]
  BY DEF CoreInv, RegistryTypeOK
<1>2. ASSUME NEW r \in Runtime
      PROVE  /\ Rearmed(s)[r] \in RuntimeType
             /\ \A f \in {"at", "session", "known", "cancelled", "client", "working", "error",
                          "closing", "stop", "mutating", "lazy"} :
                  Rearmed(s)[r][f] = runtime[r][f]
             /\ runtime[r].at # "active" => Rearmed(s)[r] = runtime[r]
  <2>1. runtime[r] \in RuntimeType
    BY <1>1
  <2>2. CASE runtime[r].at = "active" /\ runtime[r].session = s
    <3> DEFINE timer == /\ ~runtime[r].error /\ ~runtime[r].working /\ ~runtime[r].closing
                        /\ ~runtime[r].mutating /\ ~workspaceBlocked(CwdOf[s])
    <3>1. Rearmed(s)[r] = [runtime[r] EXCEPT !.timer = timer]
      BY <2>2 DEF Rearmed
    <3>2. timer \in BOOLEAN
      OBVIOUS
    <3> HIDE DEF timer
    <3> QED BY <2>1, <2>2, <3>1, <3>2 DEF RuntimeType
  <2>3. CASE ~(runtime[r].at = "active" /\ runtime[r].session = s)
    <3>1. Rearmed(s)[r] = runtime[r]
      BY <2>3 DEF Rearmed
    <3> QED BY <2>1, <3>1
  <2> QED BY <2>2, <2>3
<1>3. Rearmed(s) \in [Runtime -> RuntimeType]
  BY <1>2 DEF Rearmed
<1> QED BY <1>2, <1>3

\* An operation without a launch is over; its session may have lost its file, or
\* be kept for another attempt, if it has no runtime.
LEMMA OperationOver ==
  ASSUME CoreInv, NEW s \in Session, EndOperation(s),
         operation[s].launch = 0, operation[s].kind # "none",
         UNCHANGED <<workspace, shuttingDown, shutdown, waits, failed>>,
         lingering' \in SUBSET (lingering \cup {s}),
         file' \in [Session -> {"unused", "none", "written", "removed"}],
         \A t \in Session \ {s} : file'[t] = file[t],
         file'[s] \in {file[s], "removed"},
         (file'[s] # file[s] \/ lingering' \ lingering # {}) =>
           \A r \in Occupied : runtime[r].session # s
  PROVE  CoreInv'
<1>1. RegistryTypeOK
  BY DEF CoreInv
<1>2. AllKept
  BY RearmedIsKept DEF EndOperation, AllKept, Kept
<1>3. /\ RuntimeShape' /\ Occupied' = Occupied /\ (Pending \cup Records)' = Pending \cup Records
      /\ \A r \in Runtime : /\ runtime'[r].session = runtime[r].session
                            /\ runtime'[r].known = runtime[r].known
                            /\ runtime'[r].at = runtime[r].at
                            /\ runtime'[r].closing = runtime[r].closing
                            /\ runtime'[r].cancelled = runtime[r].cancelled
  BY <1>2, KeptShape, RearmedIsKept DEF EndOperation
<1>4. /\ operation' \in [Session -> OperationType]
      /\ operation'[s].kind = "none" /\ operation'[s].at = "none" /\ operation'[s].launch = 0
      /\ \A t \in Session \ {s} : operation'[t] = operation[t]
  <2>1. operation \in [Session -> OperationType]
    BY <1>1 DEF RegistryTypeOK, OperationType
  <2> QED BY <2>1 DEF EndOperation, Ended, NoOperation, OperationType
<1>5. RegistryTypeOK'
  BY <1>1, <1>2, <1>3, <1>4 DEF RegistryTypeOK, OperationType, AllKept
<1>6. OperationShape'
  <2> SUFFICES ASSUME NEW t \in Session
               PROVE  OperationShape!(t)'
    BY DEF OperationShape
  <2>1. OperationShape!(t)
    BY DEF CoreInv, OperationShape
  <2>2. CASE t = s
    BY <1>4, <2>2
  <2>3. CASE t # s
    <3>1. operation'[t] = operation[t]
      BY <1>4, <2>3
    <3>2. operation[t].launch # 0 => operation[t].launch \in Runtime
      BY <1>1 DEF RegistryTypeOK
    <3>3. \A q \in Occupied' : q \in Runtime
      BY <1>3 DEF Occupied
    <3> QED BY <1>3, <2>1, <3>1, <3>2, <3>3
  <2> QED BY <2>2, <2>3
<1>7. OneRuntimeEach'
  <2>1. 0 \notin Runtime
    BY RegistryAssumption DEF Runtime
  <2> QED BY <1>3, <1>4, <2>1 DEF CoreInv, OneRuntimeEach, RuntimeShape, Occupied
<1>8. NewIsUnknown'
  BY <1>1, <1>3, <1>4 DEF CoreInv, NewIsUnknown, RuntimeShape, Occupied
<1>9. AwaitedIsEnding'
  BY <1>1, <1>3 DEF CoreInv, AwaitedIsEnding, RegistryTypeOK, Pending, Records
<1>10. StillAwaited'
  BY <1>1, <1>3, <1>4 DEF CoreInv, StillAwaited, InScope, Occupied
<1>11. OneAtATime'
  <2>1. OneAtATime
    BY DEF CoreInv
  <2>2. workspace.at = "none" /\ shutdown # "done"
    BY <2>1 DEF OneAtATime
  <2>3. \A t \in lingering', r \in Occupied' : runtime'[r].session # t
    BY <1>3, <2>1 DEF OneAtATime, Occupied
  <2> QED BY <2>1, <2>2, <2>3 DEF OneAtATime
<1> QED BY <1>3, <1>5, <1>6, <1>7, <1>8, <1>9, <1>10, <1>11 DEF CoreInv

\* The ends of the operations, each with what it leaves of the session.
LEMMA OperationEnds ==
  ASSUME CoreInv, NEW s \in Session,
         \/ DeleteRefused(s) \/ DeleteDone(s) \/ DeleteFails(s) \/ OperationGivesUp(s)
         \/ RestartRefused(s) \/ RestartEnds(s) \/ RenameEnds(s)
  PROVE  CoreInv'
<1>1. /\ RegistryTypeOK /\ OperationShape!(s)
  BY DEF CoreInv, OperationShape
<1>2. EndOperation(s) /\ UNCHANGED <<workspace, shuttingDown, shutdown, waits, failed>>
  BY DEF DeleteRefused, DeleteDone, DeleteFails, OperationGivesUp, RestartRefused, RestartEnds,
         RenameEnds
<1>3. operation[s].launch = 0 /\ operation[s].kind # "none"
  BY <1>1 DEF DeleteRefused, DeleteDone, DeleteFails, OperationGivesUp, RestartRefused, RestartEnds,
         RenameEnds
<1>4. operation[s].at = "working" => \A r \in Occupied : runtime[r].session # s
  BY DEF CoreInv, StillAwaited
<1>5. CASE DeleteDone(s)
  <2>1. /\ lingering' = lingering /\ operation[s].at = "working"
        /\ file' = [file EXCEPT ![s] = "removed"]
    BY <1>5 DEF DeleteDone
  <2>2. /\ file' \in [Session -> {"unused", "none", "written", "removed"}]
        /\ \A t \in Session \ {s} : file'[t] = file[t]
        /\ file'[s] = "removed"
    BY <1>1, <2>1 DEF RegistryTypeOK
  <2> QED BY <1>2, <1>3, <1>4, <2>1, <2>2, OperationOver
<1>6. CASE DeleteFails(s)
  BY <1>1, <1>2, <1>3, <1>4, <1>6, OperationOver DEF DeleteFails, RegistryTypeOK
<1>7. CASE \/ DeleteRefused(s) \/ OperationGivesUp(s) \/ RestartRefused(s) \/ RestartEnds(s)
           \/ RenameEnds(s)
  <2>1. lingering' = lingering /\ file' = file
    BY <1>7 DEF DeleteRefused, OperationGivesUp, RestartRefused, RestartEnds, RenameEnds
  <2> QED BY <1>1, <1>2, <1>3, <2>1, OperationOver DEF RegistryTypeOK
<1> QED BY <1>5, <1>6, <1>7

\* The stop before a restart failed, or its launch was cancelled.
LEMMA RestartReleased ==
  ASSUME CoreInv, NEW s \in Session, RestartReleases(s)
  PROVE  CoreInv'
<1> DEFINE r == operation[s].launch
<1>1. RegistryTypeOK /\ OperationShape!(s) /\ runtime \in [Runtime -> RuntimeType]
  BY DEF CoreInv, OperationShape, RegistryTypeOK
<1>2. /\ operation[s].kind = "restart" /\ operation[s].at = "waiting"
      /\ runtime' = [Rearmed(s) EXCEPT ![r] = Free]
      /\ operation' = [operation EXCEPT ![s] = NoOperation]
      /\ Heard(r, TRUE)
      /\ UNCHANGED <<workspace, lingering, shuttingDown, shutdown, file>>
  BY DEF RestartReleases, Ended
<1>3. r \in Runtime /\ runtime[r].at = "reserved" /\ runtime[r].session = s
  BY <1>1, <1>2 DEF RegistryTypeOK
<1>4. /\ runtime' \in [Runtime -> RuntimeType] /\ runtime'[r] = Free
      /\ \A q \in Runtime \ {r} : runtime'[q] = Rearmed(s)[q]
  BY <1>2, <1>3, RearmedIsKept, FreeFields
<1>5. \A q \in Runtime \ {r} : Kept(q)
  BY <1>4, RearmedIsKept DEF Kept
<1>6. /\ operation' \in [Session -> OperationType]
      /\ operation'[s].launch = 0 /\ operation'[s].kind = "none" /\ operation'[s].at = "none"
      /\ \A t \in Session \ {s} : operation'[t] = operation[t]
  <2>1. operation \in [Session -> OperationType]
    BY <1>1 DEF RegistryTypeOK, OperationType
  <2> QED BY <1>2, <2>1 DEF NoOperation, OperationType
<1>7. \A t \in Session \ {s} : operation[t].launch # r
  <2>1. r # 0
    BY <1>3, RegistryAssumption DEF Runtime
  <2> QED BY <1>3, <2>1 DEF CoreInv, OperationShape
<1> HIDE DEF r
<1>8. \A t \in Session :
        IF operation[t].launch = r
        THEN /\ operation'[t].launch = 0
             /\ \/ operation'[t].kind = "none" /\ operation'[t].at = "none"
                \/ operation'[t].kind = operation[t].kind /\ operation'[t].at = "ended"
        ELSE operation'[t] = operation[t]
  BY <1>6, <1>7 DEF r
<1> QED BY <1>2, <1>3, <1>4, <1>5, <1>6, <1>8, RuntimeFreed

-----------------------------------------------------------------------------
(* Operations wait for runtimes, and go on.                                *)

\* Who is collected is being ended, and nobody else is touched.
LEMMA CollectIsKept ==
  ASSUME CoreInv, NEW S \in SUBSET Occupied, NEW r \in Runtime
  PROVE  /\ Collect(S)[r] \in RuntimeType
         /\ \A f \in {"session", "known", "client", "mutating"} : Collect(S)[r][f] = runtime[r][f]
         /\ \/ Collect(S)[r].at = runtime[r].at
            \/ runtime[r].at = "retained" /\ Collect(S)[r].at = "cleanup"
         /\ runtime[r].cancelled => Collect(S)[r].cancelled
         /\ runtime[r].closing => Collect(S)[r].closing
         /\ \/ Collect(S)[r].stop = runtime[r].stop
            \/ /\ runtime[r].stop = "none" /\ Collect(S)[r].stop = "client"
               /\ runtime[r].at = "active" /\ Collect(S)[r].closing
         /\ r \notin S => Collect(S)[r] = runtime[r]
         /\ r \in S => IF runtime[r].at = "active" THEN Collect(S)[r].closing
                       ELSE Collect(S)[r].cancelled
<1>1. runtime[r] \in RuntimeType
  BY DEF CoreInv, RegistryTypeOK
<1>2. CASE r \notin S
  <2>1. Collect(S)[r] = runtime[r]
    BY <1>2 DEF Collect
  <2> QED BY <1>1, <1>2, <2>1
<1>3. CASE r \in S
  <2>1. Collect(S)[r] = Collected(runtime[r])
    BY <1>3 DEF Collect
  <2>2. CASE runtime[r].at = "active"
    <3>1. Collect(S)[r] = Stopping(runtime[r])
      BY <1>1, <2>1, <2>2, CollectedFields
    <3> QED BY <1>1, <1>3, <2>2, <3>1, StoppingFields
  <2>3. CASE runtime[r].at # "active"
    BY <1>1, <1>3, <2>1, <2>3, CollectedFields
  <2> QED BY <2>2, <2>3
<1> QED BY <1>2, <1>3

\* Everything that an operation has found is on its way to an end.
LEMMA AllCollected ==
  ASSUME CoreInv, NEW S \in SUBSET Occupied, runtime' = Collect(S)
  PROVE  /\ AllKept
         /\ \A r \in S : IF runtime'[r].at = "active" THEN runtime'[r].closing
                         ELSE runtime'[r].cancelled
<1>1. \A r \in Runtime : /\ Kept(r) /\ runtime'[r] \in RuntimeType
                         /\ r \in S => IF runtime'[r].at = "active" THEN runtime'[r].closing
                                       ELSE runtime'[r].cancelled
  <2> SUFFICES ASSUME NEW r \in Runtime
               PROVE  /\ Kept(r) /\ runtime'[r] \in RuntimeType
                      /\ r \in S => IF runtime'[r].at = "active" THEN runtime'[r].closing
                                    ELSE runtime'[r].cancelled
    OBVIOUS
  <2>1. r \in S => runtime[r].at # "free"
    BY DEF Occupied
  <2>2. runtime'[r] = Collect(S)[r]
    OBVIOUS
  <2> QED BY <2>1, <2>2, CollectIsKept DEF Kept
<1>2. runtime' \in [Runtime -> RuntimeType]
  BY <1>1 DEF Collect
<1> QED BY <1>1, <1>2 DEF AllKept, Occupied

\* deleteSession has stopped what it found: there is nothing else.
LEMMA DeleteGoesOn ==
  ASSUME CoreInv, NEW s \in Session, DeleteCollects(s) \/ DeleteRemoves(s)
  PROVE  CoreInv'
<1>1. /\ RegistryTypeOK /\ OperationShape!(s)
  BY DEF CoreInv, OperationShape
<1>2. /\ operation[s].kind = "delete" /\ operation[s].at \in {"queued", "waiting"}
      /\ UNCHANGED <<workspace, shuttingDown, shutdown, file>>
      /\ s \in Waiter /\ operation[s].launch = 0
  BY <1>1 DEF DeleteCollects, DeleteRemoves, Waiter
<1>3. /\ operation' \in [Session -> OperationType]
      /\ operation'[s].kind = "delete" /\ operation'[s].launch = 0
      /\ operation'[s].at = IF operation[s].at = "queued" THEN "waiting" ELSE "working"
      /\ \A t \in Session \ {s} : operation'[t] = operation[t]
  <2>1. operation \in [Session -> OperationType]
    BY <1>1 DEF RegistryTypeOK, OperationType
  <2>2. CASE DeleteRemoves(s)
    BY <1>2, <2>1, <2>2 DEF DeleteRemoves, OperationType
  <2>3. ASSUME DeleteCollects(s)
        PROVE  \E lazy \in BOOLEAN :
                 operation' = [operation EXCEPT ![s].at = "waiting", ![s].lazy = lazy]
    <3>1. PICK lazy \in BOOLEAN \cup {operation[s].lazy} \cup {runtime[r].lazy : r \in Runtime} :
            operation' = [operation EXCEPT ![s].at = "waiting", ![s].lazy = lazy /\ file[s] = "none"]
      BY <2>3 DEF DeleteCollects
    <3> QED BY <3>1
  <2>4. CASE DeleteCollects(s)
    <3>1. PICK lazy \in BOOLEAN :
            operation' = [operation EXCEPT ![s].at = "waiting", ![s].lazy = lazy]
      BY <2>3, <2>4
    <3>2. operation[s].at = "queued"
      BY <2>4 DEF DeleteCollects
    <3> QED BY <1>2, <2>1, <3>1, <3>2 DEF OperationType
  <2> QED BY <2>2, <2>4
<1> DEFINE found == IF operation[s].at = "queued" THEN RecordsOf(s) \cup PendingOf(s) ELSE {}
<1>4. found \in SUBSET Occupied
  BY DEF RecordsOf, PendingOf, Records, Pending, Occupied
<1>5. \A r \in Occupied : runtime[r].session = s =>
        r \in RecordsOf(s) \cup PendingOf(s)
  BY <1>2 DEF CoreInv, NewIsUnknown, RecordsOf, PendingOf, Records, Pending, Occupied
<1>6. /\ AllKept
      /\ \A r \in found : IF runtime'[r].at = "active" THEN runtime'[r].closing
                          ELSE runtime'[r].cancelled
      /\ lingering' \subseteq lingering
  <2>1. CASE DeleteCollects(s)
    <3>1. runtime' = Collect(found) /\ lingering' \subseteq lingering
      BY <2>1 DEF DeleteCollects
    <3> HIDE DEF found
    <3> QED BY <1>4, <3>1, AllCollected
  <2>2. CASE DeleteRemoves(s)
    <3>1. runtime' = runtime /\ lingering' = lingering /\ found = {}
      BY <1>3, <2>2 DEF DeleteRemoves
    <3>2. AllKept
      BY <1>1, <3>1 DEF AllKept, Kept, RegistryTypeOK
    <3> QED BY <3>1, <3>2
  <2> QED BY <2>1, <2>2
<1>7. /\ waits' = IF operation[s].at = "queued" THEN [waits EXCEPT ![s] = found] ELSE waits
      /\ failed' = IF operation[s].at = "queued" THEN [failed EXCEPT ![s] = FALSE] ELSE failed
      /\ operation[s].at # "queued" => waits[s] = {} /\ ~failed[s]
  BY DEF DeleteCollects, DeleteRemoves, AwaitAll
<1>8. /\ RuntimeShape' /\ Occupied' = Occupied /\ (Pending \cup Records)' = Pending \cup Records
      /\ \A r \in Runtime : /\ runtime'[r].session = runtime[r].session
                            /\ runtime'[r].known = runtime[r].known
                            /\ runtime[r].at = "active" <=> runtime'[r].at = "active"
                            /\ runtime[r].at = "reserved" <=> runtime'[r].at = "reserved"
                            /\ runtime[r].at = "preparing" <=> runtime'[r].at = "preparing"
                            /\ runtime[r].closing => runtime'[r].closing
                            /\ runtime[r].cancelled => runtime'[r].cancelled
  BY <1>6, KeptShape DEF AllKept, Kept
<1>9. found \subseteq Pending \cup Records
  BY <1>4 DEF Occupied, Pending, Records
<1> HIDE DEF found
<1>10. /\ waits' \in [Waiter -> SUBSET (Pending \cup Records)] /\ failed' \in [Waiter -> BOOLEAN]
       /\ \A w \in Waiter \ {s} : waits'[w] = waits[w] /\ failed'[w] = failed[w]
       /\ operation[s].at = "queued" => waits'[s] = found /\ ~failed'[s]
       /\ operation[s].at # "queued" => waits'[s] = {}
  BY <1>1, <1>2, <1>7, <1>9 DEF RegistryTypeOK
<1>11. RegistryTypeOK'
  <2>1. lingering' \subseteq Session
    BY <1>1, <1>6 DEF RegistryTypeOK
  <2> QED BY <1>1, <1>2, <1>3, <1>6, <1>8, <1>10, <2>1 DEF RegistryTypeOK, OperationType, AllKept
<1>12. OperationShape'
  <2> SUFFICES ASSUME NEW t \in Session
               PROVE  OperationShape!(t)'
    BY DEF OperationShape
  <2>1. OperationShape!(t)
    BY DEF CoreInv, OperationShape
  <2>2. CASE t = s
    BY <1>2, <1>3, <2>2
  <2>3. CASE t # s
    <3>1. operation'[t] = operation[t]
      BY <1>3, <2>3
    <3>2. operation[t].launch # 0 => operation[t].launch \in Runtime
      BY <1>1 DEF RegistryTypeOK
    <3>3. \A q \in Occupied' : q \in Runtime
      BY <1>8 DEF Occupied
    <3>4. operation[t].launch # 0 /\ operation[t].at = "launching" =>
            runtime'[operation[t].launch].at = runtime[operation[t].launch].at
      BY <1>6, <2>1, <3>2 DEF AllKept, Kept
    <3> QED BY <1>8, <2>1, <3>1, <3>2, <3>3, <3>4
  <2> QED BY <2>2, <2>3
<1>13. OneRuntimeEach'
  <2>1. \A a, b \in Occupied : a # b /\ runtime[a].session = runtime[b].session =>
          runtime[a].session \in Session \ {s}
    BY <1>2, RegistryAssumption DEF CoreInv, OneRuntimeEach, RuntimeShape, Occupied, Runtime
  <2> QED BY <1>3, <1>8, <2>1 DEF CoreInv, OneRuntimeEach, Occupied
<1>14. NewIsUnknown'
  <2>1. NewIsUnknown
    BY DEF CoreInv
  <2>2. \A q \in Occupied : runtime[q].session \in Session /\ q \in Runtime
    BY DEF CoreInv, RuntimeShape, Occupied
  <2>3. \A t \in Session : operation'[t].kind = operation[t].kind
    BY <1>2, <1>3
  <2> QED BY <1>2, <1>6, <1>8, <2>1, <2>2, <2>3 DEF NewIsUnknown
<1>15. AwaitedIsEnding'
  <2>1. AwaitedIsEnding
    BY DEF CoreInv
  <2>2. ASSUME NEW w \in Waiter, NEW r \in waits'[w]
        PROVE  runtime'[r].at = "active" \/ runtime'[r].cancelled
    <3>1. r \in Runtime
      BY <1>10 DEF Pending, Records
    <3>2. CASE r \in found
      BY <1>6, <3>2
    <3>3. CASE r \in waits[w]
      BY <1>8, <2>1, <3>1, <3>3 DEF AwaitedIsEnding
    <3> QED BY <1>2, <1>10, <3>2, <3>3
  <2> QED BY <2>2 DEF AwaitedIsEnding
<1>16. StillAwaited'
  <2>1. StillAwaited
    BY DEF CoreInv
  <2>2. ASSUME NEW t \in Session, NEW r \in Occupied', runtime'[r].session = t
        PROVE  /\ operation'[t].at = "waiting" /\ r # operation'[t].launch =>
                    failed'[t] \/ r \in waits'[t]
               /\ operation'[t].at # "working" /\ operation'[t].kind # "rename"
    <3>1. r \in Occupied /\ runtime[r].session = t /\ t \in Waiter
      BY <1>8, <2>2 DEF Waiter, Occupied
    <3>2. CASE t = s
      <4>1. operation[s].at = "queued"
        <5>1. r # 0
          BY <3>1, RegistryAssumption DEF Occupied, Runtime
        <5> QED BY <1>2, <1>7, <2>1, <3>1, <3>2, <5>1 DEF StillAwaited
      <4>2. r \in found
        BY <1>5, <3>1, <3>2, <4>1 DEF found
      <4> QED BY <1>3, <1>10, <3>2, <4>1, <4>2
    <3>3. CASE t # s
      <4>1. operation'[t] = operation[t] /\ waits'[t] = waits[t] /\ failed'[t] = failed[t]
        BY <1>3, <1>10, <3>1, <3>3
      <4> QED BY <2>1, <3>1, <4>1 DEF StillAwaited
    <3> QED BY <3>2, <3>3
  <2>3. workspace.at = "none"
    BY <1>2 DEF CoreInv, OneAtATime
  <2>4. \A r \in Occupied' : ~InScope(r, workspace.scopes)'
    BY <1>2, <2>3 DEF CoreInv, OneAtATime, InScope
  <2>5. shutdown' = "waiting" => failed'[Shutdown] \/ Occupied' \subseteq waits'[Shutdown]
    <3>1. Shutdown \in Waiter \ {s}
      BY RegistryAssumption DEF Waiter
    <3> QED BY <1>2, <1>8, <1>10, <2>1, <3>1 DEF StillAwaited
  <2> QED BY <2>2, <2>4, <2>5 DEF StillAwaited
<1>17. OneAtATime'
  <2>1. OneAtATime /\ workspace.at = "none" /\ shutdown # "done"
    BY <1>2 DEF CoreInv, OneAtATime
  <2>2. \A t \in lingering', r \in Occupied' : runtime'[r].session # t
    BY <1>6, <1>8, <2>1 DEF OneAtATime, Occupied
  <2> QED BY <1>2, <2>1, <2>2 DEF OneAtATime
<1> QED BY <1>8, <1>11, <1>12, <1>13, <1>14, <1>15, <1>16, <1>17 DEF CoreInv

\* A restart reserves the slot of its next launch, and waits for the record.
LEMMA RestartTakesSlot ==
  ASSUME CoreInv, NEW s \in Session, NEW r \in Runtime, RestartReserves(s, r)
  PROVE  CoreInv'
<1>1. /\ RegistryTypeOK /\ OperationShape!(s) /\ s \in Waiter
  BY DEF CoreInv, OperationShape, Waiter
<1>2. /\ operation[s].kind = "restart" /\ operation[s].at = "queued" /\ operation[s].launch = 0
      /\ ~shuttingDown /\ runtime[r].at = "free"
      /\ lingering' \subseteq lingering \ {s}
      /\ UNCHANGED <<workspace, shuttingDown, shutdown, file>>
  BY <1>1 DEF RestartReserves, NextSlot
<1>0. /\ operation' = [operation EXCEPT ![s].at = "waiting", ![s].launch = r]
      /\ runtime' = [Collect(RecordsOf(s)) EXCEPT ![r] = Reserved(s, TRUE, "reserved")]
      /\ waits' = [waits EXCEPT ![s] = RecordsOf(s)] /\ failed' = [failed EXCEPT ![s] = FALSE]
  BY <1>1 DEF RestartReserves, AwaitAll
<1>3. /\ operation' \in [Session -> OperationType]
      /\ operation'[s].kind = "restart" /\ operation'[s].at = "waiting" /\ operation'[s].launch = r
      /\ \A t \in Session \ {s} : operation'[t] = operation[t]
  <2>1. operation \in [Session -> OperationType]
    BY <1>1 DEF RegistryTypeOK, OperationType
  <2> QED BY <1>0, <1>2, <2>1 DEF OperationType
<1>4. RecordsOf(s) \in SUBSET Occupied /\ RecordsOf(s) \subseteq Pending \cup Records
  BY DEF RecordsOf, Records, Occupied
<1>5. \A q \in Occupied : runtime[q].session = s => q \in RecordsOf(s)
  BY <1>1, <1>2 DEF RecordsOf, Records, Occupied
<1>6. /\ runtime' \in [Runtime -> RuntimeType]
      /\ runtime'[r] = Reserved(s, TRUE, "reserved")
      /\ \A q \in Runtime \ {r} : runtime'[q] = Collect(RecordsOf(s))[q]
  <2>1. Collect(RecordsOf(s)) \in [Runtime -> RuntimeType]
    BY <1>4, CollectIsKept DEF Collect
  <2> QED BY <1>0, <2>1, FreeFields
<1>7. /\ runtime'[r].at = "reserved" /\ runtime'[r].session = s /\ runtime'[r].known
      /\ runtime'[r].client = "none" /\ runtime'[r].stop = "none" /\ ~runtime'[r].mutating
  BY <1>6 DEF Reserved, Free
<1>8. ASSUME NEW q \in Runtime \ {r}
      PROVE  /\ Kept(q) /\ RuntimeShape!(q)'
             /\ runtime[q].at = "free" <=> runtime'[q].at = "free"
             /\ runtime[q].at = "active" <=> runtime'[q].at = "active"
             /\ runtime'[q].session = runtime[q].session /\ runtime'[q].known = runtime[q].known
             /\ runtime[q].at # "retained" => runtime'[q].at = runtime[q].at
             /\ runtime[q].at = "retained" => runtime'[q].at \in {"retained", "cleanup"}
             /\ q \in RecordsOf(s) => runtime'[q].at = "active" /\ runtime'[q].closing
  <2>1. runtime'[q] = Collect(RecordsOf(s))[q]
    BY <1>6
  <2>2. Kept(q)
    BY <1>4, <2>1, CollectIsKept DEF Kept, Occupied
  <2>3. RuntimeShape!(q)'
    BY <2>2 DEF CoreInv, RuntimeShape, Kept
  <2>4. q \in RecordsOf(s) => runtime'[q].at = "active" /\ runtime'[q].closing
    BY <1>4, <2>1, CollectIsKept DEF RecordsOf, Records
  <2> QED BY <2>2, <2>3, <2>4 DEF Kept
<1>9. /\ Occupied' = Occupied \cup {r} /\ r \notin Occupied
      /\ (Pending \cup Records)' = Pending \cup Records \cup {r}
  BY <1>2, <1>7, <1>8 DEF Occupied, Pending, Records
<1>10. /\ waits' \in [Waiter -> SUBSET (Pending \cup Records)'] /\ failed' \in [Waiter -> BOOLEAN]
       /\ \A w \in Waiter \ {s} : waits'[w] = waits[w] /\ failed'[w] = failed[w]
       /\ waits'[s] = RecordsOf(s) /\ ~failed'[s]
  BY <1>0, <1>1, <1>4, <1>9 DEF RegistryTypeOK
<1>11. RegistryTypeOK'
  BY <1>1, <1>2, <1>3, <1>6, <1>10 DEF RegistryTypeOK, OperationType
<1>12. RuntimeShape'
  <2>1. RuntimeShape!(r)'
    BY <1>7 DEF RuntimeShape
  <2> QED BY <1>8, <2>1 DEF RuntimeShape
<1>13. OperationShape'
  <2> SUFFICES ASSUME NEW t \in Session
               PROVE  OperationShape!(t)'
    BY DEF OperationShape
  <2>1. OperationShape!(t)
    BY DEF CoreInv, OperationShape
  <2>2. r # 0
    BY RegistryAssumption DEF Runtime
  <2>3. CASE t = s
    BY <1>3, <1>7, <2>2, <2>3
  <2>4. CASE t # s
    <3>1. operation'[t] = operation[t]
      BY <1>3, <2>4
    <3>2. operation[t].launch # 0 => operation[t].launch \in Runtime \ {r}
      BY <1>1, <1>2, <2>1 DEF RegistryTypeOK
    <3>3. \A q \in Occupied' : runtime'[q].session = t => q \in Occupied \ {r}
      BY <1>7, <1>9, <2>4
    <3>4. \A q \in Occupied : q \in Runtime \ {r}
      BY <1>9 DEF Occupied
    <3> QED BY <1>8, <2>1, <3>1, <3>2, <3>3, <3>4
  <2> QED BY <2>3, <2>4
<1>14. OneRuntimeEach'
  <2> SUFFICES ASSUME NEW a \in Occupied', NEW b \in Occupied', a # b,
                      runtime'[a].session = runtime'[b].session
               PROVE  /\ operation'[runtime'[a].session].launch \in {a, b}
                      /\ operation'[runtime'[a].session].at = "waiting"
    BY DEF OneRuntimeEach
  <2>1. CASE r \in {a, b}
    BY <1>3, <1>7, <2>1
  <2>2. CASE r \notin {a, b}
    <3>1. /\ a \in Occupied /\ b \in Occupied
          /\ runtime'[a].session = runtime[a].session /\ runtime'[b].session = runtime[b].session
      BY <1>8, <1>9, <2>2 DEF Occupied
    <3>2. runtime[a].session \in Session
      BY <3>1 DEF CoreInv, RuntimeShape, Occupied
    <3>3. /\ operation[runtime[a].session].launch \in {a, b}
          /\ operation[runtime[a].session].at = "waiting"
      BY <2>2, <3>1 DEF CoreInv, OneRuntimeEach
    <3>4. runtime[a].session # s
      BY <1>2, <3>3
    <3> QED BY <1>3, <3>1, <3>2, <3>3, <3>4
  <2> QED BY <2>1, <2>2
<1>15. NewIsUnknown'
  <2>1. NewIsUnknown
    BY DEF CoreInv
  <2>2. \A t \in Session : operation'[t].kind = operation[t].kind
    BY <1>2, <1>3
  <2>3. ASSUME NEW q \in Occupied'
        PROVE  /\ ~runtime'[q].known =>
                    /\ operation'[runtime'[q].session].kind = "none"
                    /\ file'[runtime'[q].session] \in {"unused", "none"}
               /\ runtime'[q].known \/ runtime'[q].at # "preparing" =>
                    file'[runtime'[q].session] # "unused"
    <3>1. CASE q = r
      BY <1>2, <1>7, <2>1, <3>1 DEF NewIsUnknown
    <3>2. CASE q # r
      <4>1. q \in Occupied /\ q \in Runtime \ {r} /\ runtime[q].session \in Session
        BY <1>9, <3>2 DEF Occupied, CoreInv, RuntimeShape
      <4>2. /\ runtime'[q].session = runtime[q].session /\ runtime'[q].known = runtime[q].known
            /\ runtime'[q].at # "preparing" => runtime[q].at # "preparing"
        BY <1>8, <4>1
      <4>3. file' = file
        BY <1>2
      <4> QED BY <2>1, <2>2, <4>1, <4>2, <4>3 DEF NewIsUnknown
    <3> QED BY <3>1, <3>2
  <2>4. \A t \in Session :
          operation'[t].kind # "none" \/ t \in lingering' => file'[t] # "unused"
    BY <1>2, <2>1, <2>2 DEF NewIsUnknown
  <2> QED BY <2>3, <2>4 DEF NewIsUnknown
<1>16. AwaitedIsEnding'
  <2>1. AwaitedIsEnding
    BY DEF CoreInv
  <2>2. ASSUME NEW w \in Waiter, NEW q \in waits'[w]
        PROVE  runtime'[q].at = "active" \/ runtime'[q].cancelled
    <3>1. CASE w = s
      BY <1>4, <1>8, <1>9, <1>10, <3>1 DEF Occupied
    <3>2. CASE w # s
      <4>1. q \in waits[w] /\ q \in Runtime \ {r}
        BY <1>1, <1>2, <1>10, <3>2 DEF RegistryTypeOK, Pending, Records
      <4> QED BY <1>8, <2>1, <4>1 DEF AwaitedIsEnding, Kept
    <3> QED BY <3>1, <3>2
  <2> QED BY <2>2 DEF AwaitedIsEnding
<1>17. StillAwaited'
  <2>1. StillAwaited
    BY DEF CoreInv
  <2>2. ASSUME NEW t \in Session, NEW q \in Occupied', runtime'[q].session = t
        PROVE  /\ operation'[t].at = "waiting" /\ q # operation'[t].launch =>
                    failed'[t] \/ q \in waits'[t]
               /\ operation'[t].at # "working" /\ operation'[t].kind # "rename"
    <3>1. CASE t = s
      <4>1. q # r => q \in Occupied /\ runtime[q].session = s
        BY <1>8, <1>9, <2>2, <3>1 DEF Occupied
      <4> QED BY <1>3, <1>5, <1>10, <3>1, <4>1
    <3>2. CASE t # s
      <4>1. q \in Occupied /\ runtime[q].session = t /\ t \in Waiter \ {s}
        BY <1>7, <1>8, <1>9, <2>2, <3>2 DEF Waiter, Occupied
      <4>2. operation'[t] = operation[t] /\ waits'[t] = waits[t] /\ failed'[t] = failed[t]
        BY <1>3, <1>10, <4>1, <3>2
      <4> QED BY <2>1, <4>1, <4>2 DEF StillAwaited
    <3> QED BY <3>1, <3>2
  <2>3. \A q \in Occupied' : ~InScope(q, workspace.scopes)'
    BY <1>2 DEF CoreInv, OneAtATime, InScope
  <2>4. shutdown' # "waiting"
    BY <1>2 DEF CoreInv, OneAtATime
  <2> QED BY <2>2, <2>3, <2>4 DEF StillAwaited
<1>18. OneAtATime'
  <2>1. OneAtATime /\ workspace.at = "none" /\ shutdown = "none"
    BY <1>2 DEF CoreInv, OneAtATime
  <2>2. ASSUME NEW t \in lingering', NEW q \in Occupied'
        PROVE  runtime'[q].session # t
    <3>1. t \in lingering /\ t # s
      BY <1>2
    <3>2. q # r => q \in Occupied /\ runtime'[q].session = runtime[q].session
      BY <1>8, <1>9 DEF Occupied
    <3> QED BY <1>7, <2>1, <3>1, <3>2 DEF OneAtATime
  <2> QED BY <1>2, <2>1, <2>2 DEF OneAtATime
<1> QED BY <1>11, <1>12, <1>13, <1>14, <1>15, <1>16, <1>17, <1>18 DEF CoreInv

\* The record is gone: the launch that the restart has reserved is the only runtime.
LEMMA RestartGoesOn ==
  ASSUME CoreInv, NEW s \in Session, RestartLaunches(s)
  PROVE  CoreInv'
<1>1. /\ RegistryTypeOK /\ OperationShape!(s) /\ s \in Waiter
  BY DEF CoreInv, OperationShape, Waiter
<1>2. /\ operation[s].kind = "restart" /\ operation[s].at = "waiting"
      /\ waits[s] = {} /\ ~failed[s]
      /\ operation' = [operation EXCEPT ![s].at = "launching"]
      /\ runtime' = [runtime EXCEPT ![operation[s].launch].at = "preparing"]
      /\ UNCHANGED <<workspace, lingering, shuttingDown, shutdown, waits, failed, file>>
  BY DEF RestartLaunches
<1>3. PICK r \in Runtime :
        /\ operation[s].launch = r
        /\ runtime[r].at = "reserved" /\ runtime[r].session = s /\ runtime[r].known
  BY <1>1, <1>2 DEF RegistryTypeOK
<1>4. /\ operation' \in [Session -> OperationType]
      /\ operation'[s].kind = "restart" /\ operation'[s].at = "launching"
      /\ operation'[s].launch = r
      /\ \A t \in Session \ {s} : operation'[t] = operation[t]
  <2>1. operation \in [Session -> OperationType]
    BY <1>1 DEF RegistryTypeOK, OperationType
  <2> QED BY <1>2, <1>3, <2>1 DEF OperationType
<1>5. /\ runtime' \in [Runtime -> RuntimeType]
      /\ \A q \in Runtime \ {r} : runtime'[q] = runtime[q]
      /\ runtime'[r].at = "preparing"
      /\ \A f \in {"session", "known", "cancelled", "client", "closing", "stop", "mutating"} :
           runtime'[r][f] = runtime[r][f]
  <2>1. runtime \in [Runtime -> RuntimeType]
    BY <1>1 DEF RegistryTypeOK
  <2> QED BY <1>2, <1>3, <2>1 DEF RuntimeType
<1>6. UNCHANGED <<workspace, lingering, shuttingDown, shutdown, waits, failed, file>>
  BY <1>2
<1>7. \A q \in Occupied : runtime[q].session = s => q = r
  BY <1>2, <1>3 DEF CoreInv, StillAwaited
<1>8. operation[s].kind = "restart" /\ operation[s].at = "waiting"
  BY <1>2
<1>9. \A q \in Runtime :
        /\ runtime'[q].session = runtime[q].session /\ runtime'[q].known = runtime[q].known
        /\ runtime'[q].cancelled = runtime[q].cancelled
        /\ runtime'[q].closing = runtime[q].closing
        /\ runtime'[q].at = "free" <=> runtime[q].at = "free"
        /\ runtime'[q].at = "active" <=> runtime[q].at = "active"
        /\ runtime'[q].at = "preparing" => runtime[q].at = "preparing" \/ q = r
  BY <1>3, <1>5
<1>10. Occupied' = Occupied /\ (Pending \cup Records)' = Pending \cup Records /\ r \in Occupied
  BY <1>1, <1>3, <1>5, <1>9 DEF Occupied, Pending, Records, RegistryTypeOK
<1>11. RegistryTypeOK'
  BY <1>1, <1>4, <1>5, <1>6, <1>10 DEF RegistryTypeOK, OperationType
<1>12. RuntimeShape'
  <2>1. ASSUME NEW q \in Runtime \ {r}
        PROVE  RuntimeShape!(q)'
    BY <1>5 DEF CoreInv, RuntimeShape
  <2>2. RuntimeShape!(r)'
    BY <1>3, <1>5 DEF CoreInv, RuntimeShape
  <2> QED BY <2>1, <2>2 DEF RuntimeShape
<1>13. OperationShape'
  <2> SUFFICES ASSUME NEW t \in Session
               PROVE  OperationShape!(t)'
    BY DEF OperationShape
  <2>1. OperationShape!(t)
    BY DEF CoreInv, OperationShape
  <2>2. r # 0
    BY <1>3, RegistryAssumption DEF Runtime
  <2>3. CASE t = s
    <3>1. runtime'[r].session = s /\ runtime'[r].known /\ runtime'[r].at = "preparing"
      BY <1>3, <1>5
    <3> QED BY <1>4, <2>2, <2>3, <3>1
  <2>4. CASE t # s
    <3>1. operation'[t] = operation[t]
      BY <1>4, <2>4
    <3>2. operation[t].launch # 0 => operation[t].launch \in Runtime \ {r}
      BY <1>1, <1>3, <2>1, <2>4 DEF RegistryTypeOK
    <3>3. \A q \in Occupied' : q \in Occupied /\ q \in Runtime
      BY <1>10 DEF Occupied
    <3> QED BY <1>5, <1>9, <2>1, <3>1, <3>2, <3>3
  <2> QED BY <2>3, <2>4
<1>14. OneRuntimeEach'
  BY <1>4, <1>7, <1>9, <1>10 DEF CoreInv, OneRuntimeEach, RuntimeShape, Occupied
<1>15. NewIsUnknown'
  <2>1. NewIsUnknown
    BY DEF CoreInv
  <2>2. \A t \in Session : operation'[t].kind = operation[t].kind
    BY <1>4, <1>8
  <2>3. \A q \in Occupied : runtime[q].session \in Session /\ q \in Runtime
    BY DEF CoreInv, RuntimeShape, Occupied
  <2>4. \A q \in Occupied : runtime'[q].known \/ runtime'[q].at # "preparing" =>
          runtime[q].known \/ runtime[q].at # "preparing"
    BY <1>3, <1>5, <2>3
  <2> QED BY <1>6, <1>9, <1>10, <2>1, <2>2, <2>3, <2>4 DEF NewIsUnknown
<1>16. AwaitedIsEnding'
  BY <1>1, <1>6, <1>9 DEF CoreInv, AwaitedIsEnding, RegistryTypeOK, Pending, Records
<1>17. StillAwaited'
  <2>1. StillAwaited
    BY DEF CoreInv
  <2>2. ASSUME NEW t \in Session, NEW q \in Occupied', runtime'[q].session = t
        PROVE  /\ operation'[t].at = "waiting" /\ q # operation'[t].launch =>
                    failed'[t] \/ q \in waits'[t]
               /\ operation'[t].at # "working" /\ operation'[t].kind # "rename"
    <3>1. q \in Occupied /\ runtime[q].session = t
      BY <1>9, <1>10, <2>2 DEF Occupied
    <3>2. t # s => operation'[t] = operation[t]
      BY <1>4
    <3> QED BY <1>4, <1>6, <2>1, <3>1, <3>2 DEF StillAwaited
  <2>3. \A q \in Occupied' : ~InScope(q, workspace.scopes)'
    BY <1>6, <1>8 DEF CoreInv, OneAtATime, InScope
  <2>4. shutdown' = "waiting" => failed'[Shutdown] \/ Occupied' \subseteq waits'[Shutdown]
    BY <1>6, <1>10, <2>1 DEF StillAwaited
  <2> QED BY <2>2, <2>3, <2>4 DEF StillAwaited
<1>18. OneAtATime'
  <2>1. OneAtATime /\ workspace.at = "none" /\ shutdown # "done"
    BY <1>8 DEF CoreInv, OneAtATime
  <2> QED BY <1>6, <1>9, <1>10, <2>1 DEF OneAtATime, Occupied
<1> QED BY <1>11, <1>12, <1>13, <1>14, <1>15, <1>16, <1>17, <1>18 DEF CoreInv

\* An operation on workspaces begins while there is no other, collects every runtime
\* in its directories, and runs when they have ended.
LEMMA WorkspaceSteps ==
  ASSUME CoreInv,
         \/ \E scopes \in (SUBSET Cwd) \ {{}}, force \in BOOLEAN : WorkspaceBegins(scopes, force)
         \/ WorkspaceRuns \/ WorkspaceEnds
  PROVE  CoreInv'
<1>1. /\ RegistryTypeOK /\ runtime \in [Runtime -> RuntimeType] /\ Workspace \in Waiter
  BY DEF CoreInv, RegistryTypeOK, Waiter
<1>2. UNCHANGED <<operation, shuttingDown, shutdown, file>> /\ lingering' \subseteq lingering
  BY DEF WorkspaceBegins, WorkspaceRuns, WorkspaceEnds
<1>3. /\ workspace'.at # "none" => \A s \in Session : operation[s].kind = "none"
      /\ shutdown = "done" => workspace'.at = "none"
      /\ workspace' \in [at : {"none", "waiting", "running"}, scopes : SUBSET Cwd]
      /\ workspace'.at = "none" <=> workspace'.scopes = {}
  <2>1. OneAtATime
    BY DEF CoreInv
  <2>2. ASSUME NEW scopes \in (SUBSET Cwd) \ {{}}, NEW force \in BOOLEAN,
               WorkspaceBegins(scopes, force)
        PROVE  <1>3!:
    <3>1. /\ workspace' = [at |-> "waiting", scopes |-> scopes]
          /\ ~shuttingDown /\ \A s \in Session : operation[s].kind = "none"
      BY <2>2 DEF WorkspaceBegins, conflictingOperation
    <3> QED BY <2>1, <3>1 DEF OneAtATime
  <2>3. CASE WorkspaceRuns
    <3>1. workspace' \in {NoWorkspace, [workspace EXCEPT !.at = "running"]}
          /\ workspace.at = "waiting"
      BY <2>3 DEF WorkspaceRuns
    <3> QED BY <1>1, <2>1, <3>1 DEF OneAtATime, NoWorkspace, RegistryTypeOK
  <2>4. CASE WorkspaceEnds
    BY <2>1, <2>4 DEF OneAtATime, NoWorkspace, WorkspaceEnds
  <2> QED BY <2>2, <2>3, <2>4
<1>4. /\ AllKept
      /\ waits' \in [Waiter -> SUBSET (Pending \cup Records)] /\ failed' \in [Waiter -> BOOLEAN]
      /\ \A w \in Waiter \ {Workspace} : waits'[w] = waits[w] /\ failed'[w] = failed[w]
      /\ \A r \in Occupied : CwdOf[runtime[r].session] \in workspace'.scopes =>
           /\ workspace'.at = "waiting" => failed'[Workspace] \/ r \in waits'[Workspace]
           /\ workspace'.at # "running"
           /\ IF runtime'[r].at = "active" THEN runtime'[r].closing ELSE runtime'[r].cancelled
      /\ \A r \in waits'[Workspace] : runtime'[r].at = "active" \/ runtime'[r].cancelled
  <2>1. ASSUME NEW scopes \in (SUBSET Cwd) \ {{}}, NEW force \in BOOLEAN,
               WorkspaceBegins(scopes, force)
        PROVE  <1>4!:
    <3> DEFINE found == {r \in Pending \cup Records : InScope(r, scopes)}
    <3>1. /\ workspace' = [at |-> "waiting", scopes |-> scopes]
          /\ runtime' = Collect(found)
          /\ waits' = [waits EXCEPT ![Workspace] = found]
          /\ failed' = [failed EXCEPT ![Workspace] = FALSE]
      BY <2>1 DEF WorkspaceBegins, AwaitAll
    <3>2. found \in SUBSET Occupied /\ found \subseteq Pending \cup Records
          /\ \A r \in Occupied : CwdOf[runtime[r].session] \in scopes => r \in found
      BY <1>1 DEF Occupied, Pending, Records, InScope
    <3> HIDE DEF found
    <3>3. /\ AllKept
          /\ \A r \in found : IF runtime'[r].at = "active" THEN runtime'[r].closing
                              ELSE runtime'[r].cancelled
      BY <3>1, <3>2, AllCollected
    <3>4. /\ waits' \in [Waiter -> SUBSET (Pending \cup Records)] /\ failed' \in [Waiter -> BOOLEAN]
          /\ \A w \in Waiter \ {Workspace} : waits'[w] = waits[w] /\ failed'[w] = failed[w]
          /\ waits'[Workspace] = found
      BY <1>1, <3>1, <3>2 DEF RegistryTypeOK
    <3>5. workspace'.scopes = scopes /\ workspace'.at = "waiting"
      BY <3>1
    <3> QED BY <3>2, <3>3, <3>4, <3>5
  <2>2. CASE WorkspaceRuns \/ WorkspaceEnds
    <3>1. UNCHANGED <<runtime, waits, failed>>
      BY <2>2 DEF WorkspaceRuns, WorkspaceEnds
    <3>2. AllKept
      BY <1>1, <3>1 DEF AllKept, Kept
    <3>3. \A r \in Occupied : CwdOf[runtime[r].session] \in workspace'.scopes =>
            /\ workspace'.at = "waiting" => failed'[Workspace] \/ r \in waits'[Workspace]
            /\ workspace'.at # "running"
            /\ IF runtime'[r].at = "active" THEN runtime'[r].closing ELSE runtime'[r].cancelled
      <4>1. CASE workspace' = NoWorkspace
        BY <4>1 DEF NoWorkspace
      <4>2. CASE workspace' # NoWorkspace
        <5>1. /\ workspace' = [workspace EXCEPT !.at = "running"] /\ ~failed[Workspace]
              /\ workspace.at = "waiting" /\ waits[Workspace] = {}
          BY <2>2, <4>2 DEF WorkspaceRuns, WorkspaceEnds
        <5>2. workspace'.scopes = workspace.scopes
          BY <1>1, <5>1 DEF RegistryTypeOK
        <5> QED BY <5>1, <5>2 DEF CoreInv, StillAwaited, InScope
      <4> QED BY <4>1, <4>2
    <3>4. \A r \in waits'[Workspace] : runtime'[r].at = "active" \/ runtime'[r].cancelled
      BY <1>1, <3>1 DEF CoreInv, AwaitedIsEnding
    <3> QED BY <1>1, <3>1, <3>2, <3>3, <3>4 DEF RegistryTypeOK
  <2> QED BY <2>1, <2>2
<1>5. /\ RuntimeShape' /\ Occupied' = Occupied /\ (Pending \cup Records)' = Pending \cup Records
      /\ \A r \in Runtime : /\ runtime'[r].session = runtime[r].session
                            /\ runtime'[r].known = runtime[r].known
                            /\ runtime[r].at = "active" <=> runtime'[r].at = "active"
                            /\ runtime[r].at = "reserved" <=> runtime'[r].at = "reserved"
                            /\ runtime[r].at = "preparing" <=> runtime'[r].at = "preparing"
                            /\ runtime[r].cancelled => runtime'[r].cancelled
  BY <1>4, KeptShape DEF AllKept, Kept
<1>6. RegistryTypeOK'
  BY <1>1, <1>2, <1>3, <1>4, <1>5 DEF RegistryTypeOK, AllKept
<1>7. OperationShape'
  BY <1>2, <1>4, KeptShapeOfOperations
<1>8. OneRuntimeEach' /\ NewIsUnknown'
  BY <1>2, <1>5 DEF CoreInv, OneRuntimeEach, NewIsUnknown, RuntimeShape, Occupied
<1>9. AwaitedIsEnding'
  <2>1. ASSUME NEW w \in Waiter, NEW r \in waits'[w]
        PROVE  runtime'[r].at = "active" \/ runtime'[r].cancelled
    <3>1. r \in Runtime
      BY <1>4 DEF Pending, Records
    <3>2. w # Workspace => r \in waits[w]
      BY <1>4
    <3> QED BY <1>4, <1>5, <3>1, <3>2 DEF CoreInv, AwaitedIsEnding
  <2> QED BY <2>1 DEF AwaitedIsEnding
<1>10. StillAwaited'
  <2>1. StillAwaited
    BY DEF CoreInv
  <2>2. ASSUME NEW s \in Session, NEW r \in Occupied', runtime'[r].session = s
        PROVE  /\ operation'[s].at = "waiting" /\ r # operation'[s].launch =>
                    failed'[s] \/ r \in waits'[s]
               /\ operation'[s].at # "working" /\ operation'[s].kind # "rename"
    <3>1. r \in Occupied /\ runtime[r].session = s /\ s \in Waiter \ {Workspace}
      BY <1>5, <2>2, RegistryAssumption DEF Waiter, Occupied
    <3> QED BY <1>2, <1>4, <2>1, <3>1 DEF StillAwaited
  <2>3. ASSUME NEW r \in Occupied', InScope(r, workspace.scopes)'
        PROVE  /\ workspace'.at = "waiting" => failed'[Workspace] \/ r \in waits'[Workspace]
               /\ workspace'.at # "running"
               /\ IF runtime'[r].at = "active" THEN runtime'[r].closing ELSE runtime'[r].cancelled
    <3>1. r \in Occupied /\ CwdOf[runtime[r].session] \in workspace'.scopes
      BY <1>5, <2>3 DEF Occupied, InScope
    <3> QED BY <1>4, <3>1
  <2>4. shutdown' = "waiting" => failed'[Shutdown] \/ Occupied' \subseteq waits'[Shutdown]
    <3>1. Shutdown \in Waiter \ {Workspace}
      BY RegistryAssumption DEF Waiter
    <3> QED BY <1>2, <1>4, <1>5, <2>1, <3>1 DEF StillAwaited
  <2> QED BY <2>2, <2>3, <2>4 DEF StillAwaited
<1>11. OneAtATime'
  <2>1. OneAtATime
    BY DEF CoreInv
  <2>2. \A s \in lingering', r \in Occupied' : runtime'[r].session # s
    BY <1>2, <1>5, <2>1 DEF OneAtATime, Occupied
  <2> QED BY <1>2, <1>3, <2>1, <2>2 DEF OneAtATime
<1> QED BY <1>5, <1>6, <1>7, <1>8, <1>9, <1>10, <1>11 DEF CoreInv

\* A shutdown closes admission, collects every runtime, and ends when there is none
\* and no operation.
LEMMA ShutdownSteps ==
  ASSUME CoreInv, beginShutdown \/ ShutdownBegins \/ ShutdownEnds
  PROVE  CoreInv' /\ AllKept
<1>1. /\ RegistryTypeOK /\ runtime \in [Runtime -> RuntimeType] /\ Shutdown \in Waiter
  BY DEF CoreInv, RegistryTypeOK, Waiter
<1>2. /\ UNCHANGED <<operation, workspace, file>> /\ lingering' \subseteq lingering
      /\ shuttingDown' \in BOOLEAN /\ (shuttingDown => shuttingDown')
      /\ shutdown' \in {"none", "waiting", "failed", "done"}
      /\ shutdown' # "none" => shuttingDown'
      /\ shutdown' = "done" => workspace.at = "none" /\ \A s \in Session : operation[s].kind = "none"
  BY <1>1 DEF CoreInv, OneAtATime, RegistryTypeOK, beginShutdown, ShutdownBegins, ShutdownEnds,
              conflictingOperation
<1>3. /\ AllKept
      /\ waits' \in [Waiter -> SUBSET (Pending \cup Records)] /\ failed' \in [Waiter -> BOOLEAN]
      /\ \A w \in Waiter \ {Shutdown} : waits'[w] = waits[w] /\ failed'[w] = failed[w]
      /\ \A r \in waits'[Shutdown] : runtime'[r].at = "active" \/ runtime'[r].cancelled
      /\ shutdown' = "waiting" => failed'[Shutdown] \/ Occupied \subseteq waits'[Shutdown]
  <2>1. CASE beginShutdown
    <3>1. runtime' = Cancelled /\ UNCHANGED <<waits, failed, shutdown>>
      BY <2>1 DEF beginShutdown
    <3>2. ASSUME NEW r \in Runtime
          PROVE  runtime'[r] \in RuntimeType /\ Kept(r)
      <4> DEFINE cancelled == runtime[r].cancelled \/ r \in Pending
      <4>1. runtime[r] \in RuntimeType /\ cancelled \in BOOLEAN
        BY <1>1
      <4>2. runtime'[r] = [runtime[r] EXCEPT !.cancelled = cancelled]
        BY <3>1 DEF Cancelled
      <4>3. runtime[r].at = "free" => cancelled = runtime[r].cancelled
        <5>1. runtime[r].cancelled \in BOOLEAN
          BY <4>1 DEF RuntimeType
        <5>2. runtime[r].at = "free" => r \notin Pending
          BY DEF Pending
        <5> QED BY <5>1, <5>2
      <4>4. cancelled = runtime[r].cancelled => runtime'[r] = runtime[r]
        BY <4>1, <4>2 DEF RuntimeType
      <4>5. runtime[r].cancelled => cancelled
        OBVIOUS
      <4> HIDE DEF cancelled
      <4>6. /\ runtime'[r] \in RuntimeType
            /\ \A f \in {"at", "session", "known", "client", "closing", "stop", "mutating"} :
                 runtime'[r][f] = runtime[r][f]
            /\ runtime'[r].cancelled = cancelled
        BY <4>1, <4>2 DEF RuntimeType
      <4>7. /\ runtime'[r].at = runtime[r].at /\ runtime'[r].stop = runtime[r].stop
            /\ runtime'[r].closing = runtime[r].closing
            /\ runtime'[r].mutating = runtime[r].mutating
        BY <4>6
      <4>8. runtime[r].at = "free" => runtime'[r] = runtime[r]
        BY <4>3, <4>4
      <4>9. runtime[r].cancelled => runtime'[r].cancelled
        BY <4>5, <4>6
      <4>10. \A f \in {"session", "known", "client"} : runtime'[r][f] = runtime[r][f]
        BY <4>6
      <4> QED BY <4>6, <4>7, <4>8, <4>9, <4>10 DEF Kept
    <3>3. AllKept
      BY <3>1, <3>2 DEF AllKept, Cancelled
    <3>4. \A r \in waits'[Shutdown] : runtime'[r].at = "active" \/ runtime'[r].cancelled
      BY <1>1, <3>1, <3>3 DEF CoreInv, AwaitedIsEnding, AllKept, Kept, RegistryTypeOK, Pending, Records
    <3> QED BY <1>1, <3>1, <3>3, <3>4 DEF CoreInv, StillAwaited, RegistryTypeOK
  <2>2. CASE ShutdownBegins
    <3>1. /\ runtime' = Collect(Pending \cup Records)
          /\ waits' = [waits EXCEPT ![Shutdown] = Pending \cup Records]
          /\ failed' = [failed EXCEPT ![Shutdown] = FALSE]
      BY <2>2 DEF ShutdownBegins, AwaitAll
    <3>2. Pending \cup Records = Occupied
      BY <1>1 DEF Pending, Records, Occupied
    <3>3. /\ AllKept
          /\ \A r \in Occupied : IF runtime'[r].at = "active" THEN runtime'[r].closing
                                 ELSE runtime'[r].cancelled
      BY <3>1, <3>2, AllCollected
    <3>4. /\ waits' \in [Waiter -> SUBSET (Pending \cup Records)] /\ failed' \in [Waiter -> BOOLEAN]
          /\ \A w \in Waiter \ {Shutdown} : waits'[w] = waits[w] /\ failed'[w] = failed[w]
          /\ waits'[Shutdown] = Occupied
      BY <1>1, <3>1, <3>2 DEF RegistryTypeOK
    <3> QED BY <3>3, <3>4
  <2>3. CASE ShutdownEnds
    <3>1. UNCHANGED <<runtime, waits, failed>> /\ shutdown' # "waiting"
      BY <2>3 DEF ShutdownEnds
    <3>2. AllKept
      BY <1>1, <3>1 DEF AllKept, Kept
    <3> QED BY <1>1, <3>1, <3>2 DEF CoreInv, AwaitedIsEnding, RegistryTypeOK
  <2> QED BY <2>1, <2>2, <2>3
<1>5. /\ RuntimeShape' /\ Occupied' = Occupied /\ (Pending \cup Records)' = Pending \cup Records
      /\ \A r \in Runtime : /\ runtime'[r].session = runtime[r].session
                            /\ runtime'[r].known = runtime[r].known
                            /\ runtime[r].at = "active" <=> runtime'[r].at = "active"
                            /\ runtime[r].at = "preparing" <=> runtime'[r].at = "preparing"
                            /\ runtime[r].closing => runtime'[r].closing
                            /\ runtime[r].cancelled => runtime'[r].cancelled
  BY <1>3, KeptShape DEF AllKept, Kept
<1>6. RegistryTypeOK'
  <2>1. lingering' \subseteq Session
    BY <1>1, <1>2 DEF RegistryTypeOK
  <2> QED BY <1>1, <1>2, <1>3, <1>5, <2>1 DEF RegistryTypeOK, AllKept
<1>7. OperationShape'
  BY <1>2, <1>3, KeptShapeOfOperations
<1>8. OneRuntimeEach' /\ NewIsUnknown'
  BY <1>2, <1>5 DEF CoreInv, OneRuntimeEach, NewIsUnknown, RuntimeShape, Occupied
<1>9. AwaitedIsEnding'
  <2>1. ASSUME NEW w \in Waiter, NEW r \in waits'[w]
        PROVE  runtime'[r].at = "active" \/ runtime'[r].cancelled
    <3>1. r \in Runtime
      BY <1>3 DEF Pending, Records
    <3>2. w # Shutdown => r \in waits[w]
      BY <1>3
    <3> QED BY <1>3, <1>5, <3>1, <3>2 DEF CoreInv, AwaitedIsEnding
  <2> QED BY <2>1 DEF AwaitedIsEnding
<1>10. StillAwaited'
  <2>1. StillAwaited
    BY DEF CoreInv
  <2>2. ASSUME NEW s \in Session, NEW r \in Occupied', runtime'[r].session = s
        PROVE  /\ operation'[s].at = "waiting" /\ r # operation'[s].launch =>
                    failed'[s] \/ r \in waits'[s]
               /\ operation'[s].at # "working" /\ operation'[s].kind # "rename"
    <3>1. r \in Occupied /\ runtime[r].session = s /\ s \in Waiter \ {Shutdown}
      BY <1>5, <2>2, RegistryAssumption DEF Waiter, Occupied
    <3> QED BY <1>2, <1>3, <2>1, <3>1 DEF StillAwaited
  <2>3. ASSUME NEW r \in Occupied', InScope(r, workspace.scopes)'
        PROVE  /\ workspace'.at = "waiting" => failed'[Workspace] \/ r \in waits'[Workspace]
               /\ workspace'.at # "running"
               /\ IF runtime'[r].at = "active" THEN runtime'[r].closing ELSE runtime'[r].cancelled
    <3>1. r \in Occupied /\ InScope(r, workspace.scopes) /\ Workspace \in Waiter \ {Shutdown}
      BY <1>2, <1>5, <2>3, RegistryAssumption DEF Occupied, InScope, Waiter
    <3> QED BY <1>2, <1>3, <1>5, <2>1, <3>1 DEF StillAwaited, Occupied
  <2>4. shutdown' = "waiting" => failed'[Shutdown] \/ Occupied' \subseteq waits'[Shutdown]
    BY <1>3, <1>5
  <2> QED BY <2>2, <2>3, <2>4 DEF StillAwaited
<1>11. OneAtATime'
  <2>1. OneAtATime
    BY DEF CoreInv
  <2>2. \A s \in lingering', r \in Occupied' : runtime'[r].session # s
    BY <1>2, <1>5, <2>1 DEF OneAtATime, Occupied
  <2> QED BY <1>2, <2>1, <2>2 DEF OneAtATime
<1> QED BY <1>3, <1>5, <1>6, <1>7, <1>8, <1>9, <1>10, <1>11 DEF CoreInv

-----------------------------------------------------------------------------
(* The invariant.                                                          *)

\* A session with a record that is left is asked to stop: nothing is live.
LEMMA LingeringStopped ==
  ASSUME CoreInv, NEW s \in Session, StopLingering(s)
  PROVE  CoreInv' /\ AllKept
<1>1. AllKept
  BY DEF CoreInv, RegistryTypeOK, StopLingering, AllKept, Kept
<1> QED BY <1>1, KeptIsEnough DEF StopLingering

\* The registry starts empty.
LEMMA InitCorrect == RegistryInit => CoreInv
<1> SUFFICES ASSUME RegistryInit
             PROVE  CoreInv
  OBVIOUS
<1>1. /\ runtime = [r \in Runtime |-> Free] /\ Occupied = {} /\ workspace.at = "none"
      /\ operation = [s \in Session |-> NoOperation]
  BY DEF RegistryInit, Occupied, Free, NoWorkspace
<1>2. RegistryTypeOK
  <2>1. Free \in RuntimeType
    BY FreeFields
  <2>2. NoOperation \in OperationType
    BY DEF NoOperation, OperationType
  <2>3. runtime \in [Runtime -> RuntimeType] /\ operation \in [Session -> OperationType]
    BY <1>1, <2>1, <2>2
  <2> QED BY <2>3 DEF RegistryInit, RegistryTypeOK, OperationType, NoWorkspace
<1>3. RuntimeShape
  BY <1>1 DEF RuntimeShape, Free
<1>4. OperationShape
  BY <1>1 DEF OperationShape, NoOperation
<1>5. OneRuntimeEach /\ NewIsUnknown
  BY <1>1 DEF OneRuntimeEach, NewIsUnknown, NoOperation, RegistryInit
<1>6. AwaitedIsEnding /\ StillAwaited /\ OneAtATime
  BY <1>1 DEF AwaitedIsEnding, StillAwaited, OneAtATime, RegistryInit, NoOperation, NoWorkspace
<1> QED BY <1>2, <1>3, <1>4, <1>5, <1>6 DEF CoreInv

\* Every step of the registry keeps the invariant.
LEMMA StepCorrect == CoreInv /\ [RegistryNext]_registryVars => CoreInv'
<1> SUFFICES ASSUME CoreInv, [RegistryNext]_registryVars
             PROVE  CoreInv'
  OBVIOUS
<1>1. CASE UNCHANGED registryVars
  <2>1. AllKept
    BY <1>1 DEF CoreInv, RegistryTypeOK, AllKept, Kept, registryVars
  <2> QED BY <1>1, <2>1, KeptIsEnough DEF registryVars
<1>2. CASE RegistryEnvironment
  BY <1>2, LaunchBegins, RecordSteps, FileWritten, LingeringStopped, OperationBegins, WorkspaceSteps,
     ShutdownSteps
     DEF RegistryEnvironment
<1>3. ASSUME NEW r \in Runtime, RuntimeProceeds(r)
      PROVE  CoreInv'
  BY <1>3, RuntimeGoesOn, RuntimeReady, RuntimeLeaves, RuntimeFails, RecordSteps DEF RuntimeProceeds
<1>4. ASSUME NEW s \in Session, OperationProceeds(s)
      PROVE  CoreInv'
  BY <1>4, DeleteGoesOn, OperationEnds, RestartTakesSlot, RestartGoesOn, RestartReleased
     DEF OperationProceeds
<1>5. CASE WholeProceeds
  BY <1>5, WorkspaceSteps, ShutdownSteps DEF WholeProceeds
<1>6. CASE beginShutdown
  BY <1>6, ShutdownSteps
<1> QED BY <1>1, <1>2, <1>3, <1>4, <1>5, <1>6 DEF RegistryNext, RegistryProceeds

\* The invariant of the registry.
THEOREM RegistryCorrect == RegistrySpec => []CoreInv
BY InitCorrect, StepCorrect, PTL DEF RegistrySpec

\* What the coordinator does is a step of the registry, or none of it.
LEMMA RestartStepsAreRegistrySteps ==
  [RestartNext]_allVars => [RegistryNext]_registryVars
BY DEF RestartNext, RestartRequested, ReservationFails, RestartGivesWay, RestartCommits,
       AuthFlowBegins, AuthFlowEnds, RegistryNext, allVars

\* The invariant under the coordinator, which closes admission as anybody may.
THEOREM RestartCorrect == RestartSpec => []CoreInv
BY InitCorrect, StepCorrect, RestartStepsAreRegistrySteps, PTL DEF RestartSpec, RestartInit

\* The types of the registry and of the coordinator.
THEOREM RestartTypeCorrect == RestartSpec => []RestartTypeOK
<1> DEFINE Types == /\ coordinator \in {"idle", "reserving", "terminal"} /\ forced \in BOOLEAN
                    /\ reservation \in {"none", "committed", "stuck"} /\ authFlow \in BOOLEAN
<1>1. RestartInit => Types
  BY DEF RestartInit
<1>2. Types /\ [RestartNext]_allVars => Types'
  BY DEF RestartNext, RestartRequested, ReservationFails, RestartGivesWay, RestartCommits,
         AuthFlowBegins, AuthFlowEnds, allVars, restartVars
<1>3. CoreInv /\ Types => RestartTypeOK
  BY DEF CoreInv, RestartTypeOK
<1> HIDE DEF Types
<1> QED BY <1>1, <1>2, <1>3, RestartCorrect, PTL DEF RestartSpec

\* A restart that nobody forced closes admission only in a moment without work: it
\* looks at the registry in the step that closes it.
THEOREM RestartSparesWork == RestartSpec => UnforcedRestartSparesWork
<1>1. [RestartNext]_allVars =>
        [~forced /\ coordinator = "reserving" /\ coordinator' = "terminal" /\ ~shuttingDown /\ shuttingDown'
           => ~Busy]_allVars
  BY DEF RestartNext, RestartRequested, ReservationFails, RestartGivesWay, RestartCommits,
         AuthFlowBegins, AuthFlowEnds, restartVars, registryVars
<1> QED BY <1>1, PTL DEF RestartSpec, UnforcedRestartSparesWork

-----------------------------------------------------------------------------
(* Idle sessions.                                                          *)

Timed(r) == runtime[r].at = "active" /\ canIdleStop(runtime[r]) => runtime[r].timer

\* The property, of one runtime at a time.
LEMMA IdleIsTimed == IdleSessionsAreTimed <=> \A r \in Runtime : Timed(r)
BY DEF IdleSessionsAreTimed, Timed, Records

\* A record that has not been touched, or that is being stopped, while nothing that
\* held its timer back is over.
LEMMA UntouchedIsTimed ==
  ASSUME NEW r \in Runtime, Timed(r),
         \/ runtime'[r].at # "active"
         \/ runtime'[r].closing
         \/ /\ runtime[r].at = "active"
            /\ \A f \in {"session", "error", "working", "closing", "mutating", "timer"} :
                 runtime'[r][f] = runtime[r][f]
            /\ conflictingOperation(runtime[r].session) => conflictingOperation(runtime[r].session)'
            /\ workspaceBlocked(CwdOf[runtime[r].session]) =>
                 workspaceBlocked(CwdOf[runtime[r].session])'
  PROVE  Timed(r)'
BY DEF Timed, canIdleStop, conflictingOperation, workspaceBlocked

\* A record whose timer is reconciled in this step.
LEMMA ReconciledIsTimed ==
  ASSUME NEW r \in Runtime, NEW y \in RuntimeType, runtime'[r] = Reconciled(y),
         UNCHANGED workspace,
         conflictingOperation(y.session)' <=> conflictingOperation(y.session)
  PROVE  Timed(r)'
<1>1. /\ runtime'[r].timer = canIdleStop(y)
      /\ \A f \in {"session", "error", "working", "closing", "mutating"} : runtime'[r][f] = y[f]
  BY ReconciledFields
<1>2. /\ runtime'[r].session = y.session /\ runtime'[r].error = y.error
      /\ runtime'[r].working = y.working /\ runtime'[r].closing = y.closing
      /\ runtime'[r].mutating = y.mutating
  BY <1>1
<1>3. canIdleStop(runtime[r])' => canIdleStop(y)
  BY <1>1, <1>2 DEF canIdleStop, workspaceBlocked
<1> QED BY <1>1, <1>3 DEF Timed

\* What people and clients do to a live session leaves its timer as it must be.
LEMMA RecordsStayTimed ==
  ASSUME CoreInv, IdleSessionsAreTimed, NEW r \in Runtime,
         \/ OpenLive(r) \/ WorkBegins(r) \/ WorkEnds(r) \/ Answered(r) \/ RefreshFails(r) \/ Stop(r)
         \/ IdleTimeout(r) \/ MutationEnds(r)
         \/ \E prompt \in BOOLEAN : MutationBegins(r, prompt)
  PROVE  IdleSessionsAreTimed'
<1>1. /\ runtime \in [Runtime -> RuntimeType] /\ runtime[r] \in RuntimeType
      /\ \A q \in Runtime : Timed(q)
  BY IdleIsTimed DEF CoreInv, RegistryTypeOK
<1>2. UNCHANGED <<operation, workspace>>
  BY DEF OpenLive, WorkBegins, WorkEnds, Answered, RefreshFails, Stop, IdleTimeout, MutationEnds,
         MutationBegins
<1>3. \A q \in Runtime \ {r} : runtime'[q] = runtime[q]
  <2>1. CASE \E prompt \in BOOLEAN : MutationBegins(r, prompt)
    <3>1. PICK timer : runtime' = [runtime EXCEPT ![r].mutating = TRUE, ![r].timer = timer]
      BY <2>1 DEF MutationBegins
    <3> QED BY <1>1, <3>1
  <2>2. CASE RefreshFails(r)
    BY <1>1, <2>2 DEF RefreshFails
  <2>3. CASE ~RefreshFails(r) /\ ~ \E prompt \in BOOLEAN : MutationBegins(r, prompt)
    <3>1. \E y : runtime' = [runtime EXCEPT ![r] = y]
      BY <2>3 DEF OpenLive, WorkBegins, WorkEnds, Answered, Stop, IdleTimeout, MutationEnds
    <3> QED BY <1>1, <3>1
  <2> QED BY <2>1, <2>2, <2>3
<1>4. ASSUME NEW y \in RuntimeType, runtime' = [runtime EXCEPT ![r] = Reconciled(y)]
      PROVE  Timed(r)'
  <2>1. runtime'[r] = Reconciled(y)
    BY <1>1, <1>4
  <2> QED BY <1>2, <2>1, ReconciledIsTimed DEF conflictingOperation
<1>5. Timed(r)'
  <2>1. CASE OpenLive(r)
    BY <1>1, <1>4, <2>1 DEF OpenLive
  <2>2. CASE WorkBegins(r) \/ WorkEnds(r)
    <3>1. PICK working \in BOOLEAN :
            runtime' = [runtime EXCEPT ![r] = Reconciled([runtime[r] EXCEPT !.working = working])]
      BY <2>2 DEF WorkBegins, WorkEnds
    <3>2. [runtime[r] EXCEPT !.working = working] \in RuntimeType
      BY <1>1 DEF RuntimeType
    <3> QED BY <1>4, <3>1, <3>2
  <2>3. CASE Answered(r)
    <3>1. [runtime[r] EXCEPT !.lazy = FALSE] \in RuntimeType
      BY <1>1 DEF RuntimeType
    <3> QED BY <1>4, <2>3, <3>1 DEF Answered
  <2>4. CASE MutationEnds(r)
    <3>1. [runtime[r] EXCEPT !.mutating = FALSE] \in RuntimeType
      BY <1>1 DEF RuntimeType
    <3> QED BY <1>4, <2>4, <3>1 DEF MutationEnds
  <2>5. CASE RefreshFails(r)
    BY <1>1, <2>5 DEF RefreshFails, RuntimeType, Timed, canIdleStop
  <2>6. CASE Stop(r)
    <3>1. runtime'[r] = Stopping(runtime[r])
      BY <1>1, <2>6 DEF Stop
    <3>2. runtime'[r].closing
      BY <1>1, <3>1, StoppingFields
    <3> QED BY <1>1, <3>2, UntouchedIsTimed
  <2>7. CASE IdleTimeout(r)
    <3> DEFINE y == [runtime[r] EXCEPT !.timer = FALSE]
    <3>1. y \in RuntimeType
      BY <1>1 DEF RuntimeType
    <3>2. CASE y.at = "active" /\ canIdleStop(y)
      <4>1. runtime'[r] = Stopping(y)
        BY <1>1, <2>7, <3>2 DEF IdleTimeout
      <4> HIDE DEF y
      <4>2. runtime'[r].closing
        BY <3>1, <4>1, StoppingFields
      <4> QED BY <1>1, <4>2, UntouchedIsTimed
    <3>3. CASE ~(y.at = "active" /\ canIdleStop(y))
      <4>1. runtime'[r] = y
        BY <1>1, <2>7, <3>3 DEF IdleTimeout
      <4> HIDE DEF y
      <4> QED BY <1>2, <3>3, <4>1 DEF Timed, canIdleStop, workspaceBlocked, conflictingOperation
    <3> QED BY <3>2, <3>3
  <2>8. ASSUME NEW prompt \in BOOLEAN, MutationBegins(r, prompt)
        PROVE  Timed(r)'
    <3>1. PICK timer : runtime' = [runtime EXCEPT ![r].mutating = TRUE, ![r].timer = timer]
      BY <2>8 DEF MutationBegins
    <3>2. runtime'[r].mutating
      BY <1>1, <3>1 DEF RuntimeType
    <3> QED BY <3>2 DEF Timed, canIdleStop
  <2> QED BY <2>1, <2>2, <2>3, <2>4, <2>5, <2>6, <2>7, <2>8
<1>6. ASSUME NEW q \in Runtime \ {r}
      PROVE  Timed(q)'
  BY <1>1, <1>2, <1>3 DEF Timed, canIdleStop, workspaceBlocked, conflictingOperation
<1> QED BY <1>5, <1>6 DEF IdleSessionsAreTimed, Timed, Records

\* Nothing is done to the timers of other runtimes.
LEMMA OthersStayTimed ==
  ASSUME CoreInv, IdleSessionsAreTimed, NEW S \in SUBSET Runtime,
         \A r \in S :
           \/ runtime'[r].at # "active"
           \/ runtime'[r].closing
           \/ /\ runtime[r].at = "active"
              /\ \A f \in {"session", "error", "working", "closing", "mutating", "timer"} :
                   runtime'[r][f] = runtime[r][f],
         \A s \in Session : conflictingOperation(s) => conflictingOperation(s)',
         \A cwd \in Cwd : workspaceBlocked(cwd) => workspaceBlocked(cwd)'
  PROVE  \A r \in S : Timed(r)'
<1>1. \A r \in Runtime : Timed(r)
  BY IdleIsTimed
<1> SUFFICES ASSUME NEW r \in S
             PROVE  Timed(r)'
  OBVIOUS
<1>2. CASE runtime'[r].at # "active" \/ runtime'[r].closing
  BY <1>1, <1>2, UntouchedIsTimed
<1>3. CASE /\ runtime[r].at = "active"
           /\ \A f \in {"session", "error", "working", "closing", "mutating", "timer"} :
                runtime'[r][f] = runtime[r][f]
  <2>1. runtime[r].session \in Session /\ CwdOf[runtime[r].session] \in Cwd
    BY <1>3, RegistryAssumption DEF CoreInv, RuntimeShape
  <2> QED BY <1>1, <1>3, <2>1, UntouchedIsTimed
<1> QED BY <1>2, <1>3

\* Runtimes that move on to their records, and that end.
LEMMA RuntimesStayTimed ==
  ASSUME CoreInv, IdleSessionsAreTimed, NEW r \in Runtime,
         \/ LaunchStarts(r) \/ LaunchStarted(r) \/ LaunchReady(r) \/ LaunchAborted(r) \/ LaunchFails(r)
         \/ CleanupDone(r) \/ CleanupFails(r) \/ ClientStops(r) \/ StopFails(r) \/ StopEnds(r)
         \/ \E s \in Session : Create(s, r) \/ Open(s, r)
  PROVE  IdleSessionsAreTimed'
<1>1. runtime \in [Runtime -> RuntimeType] /\ runtime[r] \in RuntimeType
  BY DEF CoreInv, RegistryTypeOK
<1>2. UNCHANGED workspace /\ (UNCHANGED operation \/ LaunchEnds(r))
  BY DEF LaunchStarts, LaunchStarted, LaunchReady, LaunchAborted, LaunchFails, CleanupDone, CleanupFails,
         ClientStops, StopFails, StopEnds, Create, Open
<1>3. \A s \in Session : conflictingOperation(s)' <=> conflictingOperation(s)
  <2>1. CASE UNCHANGED operation
    BY <2>1 DEF conflictingOperation
  <2>2. ASSUME LaunchEnds(r), NEW s \in Session
        PROVE  operation'[s].kind = operation[s].kind
    <3>1. operation[s] \in OperationType
      BY DEF CoreInv, RegistryTypeOK, OperationType
    <3>2. CASE operation[s].at = "launching" /\ operation[s].launch = r
      <4>1. operation'[s] = [operation[s] EXCEPT !.at = "ended", !.launch = 0]
        BY <2>2, <3>2 DEF LaunchEnds
      <4> QED BY <3>1, <4>1 DEF OperationType
    <3>3. CASE ~(operation[s].at = "launching" /\ operation[s].launch = r)
      BY <2>2, <3>3 DEF LaunchEnds
    <3> QED BY <3>2, <3>3
  <2> QED BY <1>2, <2>1, <2>2 DEF conflictingOperation
<1>4. \A cwd \in Cwd : workspaceBlocked(cwd)' <=> workspaceBlocked(cwd)
  BY <1>2 DEF workspaceBlocked
<1>5. CASE LaunchReady(r)
  <2>1. PICK working \in BOOLEAN, lazy \in BOOLEAN : runtime' = [runtime EXCEPT ![r] = Reconciled(
          [runtime[r] EXCEPT !.at = "active", !.known = TRUE, !.working = working, !.lazy = lazy])]
    BY <1>5 DEF LaunchReady
  <2>2. PICK y \in RuntimeType : y.session = runtime[r].session /\ runtime' = [runtime EXCEPT ![r] = Reconciled(y)]
    BY <1>1, <2>1 DEF RuntimeType
  <2>3. runtime'[r] = Reconciled(y) /\ \A q \in Runtime \ {r} : runtime'[q] = runtime[q]
    BY <1>1, <2>2
  <2>4. y.session \in Session
    BY <1>5, <2>2 DEF LaunchReady, CoreInv, RuntimeShape
  <2>5. Timed(r)'
    BY <1>2, <1>3, <2>3, <2>4, ReconciledIsTimed
  <2>6. \A q \in Runtime \ {r} : Timed(q)'
    BY <1>3, <1>4, <2>3, OthersStayTimed
  <2> QED BY <2>5, <2>6 DEF IdleSessionsAreTimed, Timed, Records
<1>6. ASSUME NEW y, runtime' = [runtime EXCEPT ![r] = y], y.at # "active" \/ y.closing
      PROVE  IdleSessionsAreTimed'
  <2>1. runtime'[r] = y /\ \A q \in Runtime \ {r} : runtime'[q] = runtime[q]
    BY <1>1, <1>6
  <2>2. \A q \in Runtime : Timed(q)'
    BY <1>3, <1>4, <1>6, <2>1, OthersStayTimed
  <2> QED BY <2>2 DEF IdleSessionsAreTimed, Timed, Records
<1>7. CASE LaunchStarts(r) \/ LaunchStarted(r) \/ LaunchFails(r)
  <2>1. CASE LaunchStarts(r)
    <3>1. runtime' = [runtime EXCEPT ![r] = [runtime[r] EXCEPT !.at = "starting", !.client = "alive"]]
      BY <1>1, <2>1 DEF LaunchStarts
    <3>2. [runtime[r] EXCEPT !.at = "starting", !.client = "alive"].at # "active"
      BY <1>1 DEF RuntimeType
    <3> QED BY <1>6, <3>1, <3>2
  <2>2. CASE LaunchStarted(r)
    <3>1. runtime' = [runtime EXCEPT ![r] = [runtime[r] EXCEPT !.at = "state"]]
      BY <1>1, <2>2 DEF LaunchStarted
    <3>2. [runtime[r] EXCEPT !.at = "state"].at # "active"
      BY <1>1 DEF RuntimeType
    <3> QED BY <1>6, <3>1, <3>2
  <2>3. CASE LaunchFails(r)
    <3>1. runtime' = [runtime EXCEPT ![r] = [runtime[r] EXCEPT !.at = "cleanup"]]
      BY <1>1, <2>3 DEF LaunchFails
    <3>2. [runtime[r] EXCEPT !.at = "cleanup"].at # "active"
      BY <1>1 DEF RuntimeType
    <3> QED BY <1>6, <3>1, <3>2
  <2> QED BY <1>7, <2>1, <2>2, <2>3
<1>8. CASE CleanupFails(r)
  <2>1. PICK client \in {runtime[r].client, "stopped"} :
          runtime' = [runtime EXCEPT ![r].at = "retained", ![r].client = client]
    BY <1>8 DEF CleanupFails
  <2>2. runtime' = [runtime EXCEPT ![r] = [runtime[r] EXCEPT !.at = "retained", !.client = client]]
    BY <1>1, <2>1
  <2>3. [runtime[r] EXCEPT !.at = "retained", !.client = client].at # "active"
    BY <1>1 DEF RuntimeType
  <2> QED BY <1>6, <2>2, <2>3
<1>9. CASE LaunchAborted(r) \/ CleanupDone(r) \/ StopEnds(r)
  <2>1. runtime' = [runtime EXCEPT ![r] = Free]
    BY <1>9 DEF LaunchAborted, CleanupDone, StopEnds
  <2>2. Free.at # "active"
    BY DEF Free
  <2> QED BY <1>6, <2>1, <2>2
<1>10. CASE ClientStops(r)
  <2>1. runtime' = [runtime EXCEPT ![r] = [runtime[r] EXCEPT !.stop = "mutations",
                                             !.client = "stopped", !.working = FALSE]]
    BY <1>1, <1>10 DEF ClientStops
  <2>2. runtime[r].closing
    BY <1>10 DEF ClientStops, CoreInv, RuntimeShape
  <2>3. [runtime[r] EXCEPT !.stop = "mutations", !.client = "stopped", !.working = FALSE].closing
    BY <1>1, <2>2 DEF RuntimeType
  <2> QED BY <1>6, <2>1, <2>3
<1>11. CASE StopFails(r)
  <2>1. runtime' = [runtime EXCEPT ![r] = [runtime[r] EXCEPT !.stop = "none"]]
    BY <1>1, <1>11 DEF StopFails
  <2>2. runtime[r].closing
    BY <1>11 DEF StopFails, CoreInv, RuntimeShape
  <2>3. [runtime[r] EXCEPT !.stop = "none"].closing
    BY <1>1, <2>2 DEF RuntimeType
  <2> QED BY <1>6, <2>1, <2>3
<1>12. CASE \E s \in Session : Create(s, r) \/ Open(s, r)
  <2>1. PICK s \in Session, known \in BOOLEAN :
          runtime' = [runtime EXCEPT ![r] = Reserved(s, known, "preparing")]
    BY <1>12 DEF Create, Open, Reserve
  <2>2. Reserved(s, known, "preparing").at # "active"
    BY DEF Reserved, Free
  <2> QED BY <1>6, <2>1, <2>2
<1> QED BY <1>5, <1>7, <1>8, <1>9, <1>10, <1>11, <1>12

\* The end of an operation looks at the timers that it has held back.
LEMMA RearmedIsTimed ==
  ASSUME CoreInv, IdleSessionsAreTimed, NEW s \in Session, Ended(s), UNCHANGED workspace,
         NEW r \in Runtime, runtime'[r] = Rearmed(s)[r]
  PROVE  Timed(r)'
<1>1. /\ runtime[r] \in RuntimeType
      /\ \A t \in Session \ {s} : operation'[t] = operation[t]
  BY DEF CoreInv, RegistryTypeOK, Ended
<1>2. CASE runtime[r].at = "active" /\ runtime[r].session = s
  <2>1. \A f \in {"at", "session", "working", "error", "closing", "mutating"} :
          runtime'[r][f] = runtime[r][f]
    BY RearmedIsKept
  <2>2. runtime'[r].timer = (/\ ~runtime[r].error /\ ~runtime[r].working /\ ~runtime[r].closing
                             /\ ~runtime[r].mutating /\ ~workspaceBlocked(CwdOf[s]))
    <3>1. runtime'[r] = [runtime[r] EXCEPT !.timer =
             /\ ~runtime[r].error /\ ~runtime[r].working /\ ~runtime[r].closing
             /\ ~runtime[r].mutating /\ ~workspaceBlocked(CwdOf[s])]
      BY <1>2 DEF Rearmed
    <3> QED BY <1>1, <3>1 DEF RuntimeType
  <2>3. /\ runtime'[r].session = s /\ runtime'[r].error = runtime[r].error
        /\ runtime'[r].working = runtime[r].working /\ runtime'[r].closing = runtime[r].closing
        /\ runtime'[r].mutating = runtime[r].mutating
    BY <1>2, <2>1
  <2> QED BY <2>2, <2>3 DEF Timed, canIdleStop, workspaceBlocked
<1>3. CASE runtime[r].at = "active" /\ runtime[r].session # s
  <2>1. runtime'[r] = runtime[r]
    BY <1>3 DEF Rearmed
  <2>2. runtime[r].session \in Session \ {s}
    BY <1>3 DEF CoreInv, RuntimeShape
  <2>3. Timed(r)
    BY IdleIsTimed
  <2> QED BY <1>1, <2>1, <2>2, <2>3 DEF Timed, canIdleStop, workspaceBlocked, conflictingOperation
<1>4. CASE runtime[r].at # "active"
  BY <1>4, RearmedIsKept DEF Timed
<1> QED BY <1>2, <1>3, <1>4

\* Operations on one session.
LEMMA OperationsStayTimed ==
  ASSUME CoreInv, IdleSessionsAreTimed, NEW s \in Session,
         \/ OperationProceeds(s) \/ RestartBegins(s) \/ RenameBegins(s)
         \/ \E force \in BOOLEAN : DeleteBegins(s, force)
  PROVE  IdleSessionsAreTimed'
<1>1. /\ runtime \in [Runtime -> RuntimeType] /\ operation \in [Session -> OperationType]
      /\ UNCHANGED workspace
  BY DEF CoreInv, RegistryTypeOK, OperationType, OperationProceeds, DeleteCollects, DeleteRefused,
         DeleteRemoves, DeleteDone, DeleteFails, OperationGivesUp, RestartReserves, RestartRefused,
         RestartLaunches, RestartReleases, RestartEnds, RenameEnds, RestartBegins, RenameBegins,
         DeleteBegins
<1>2. \A cwd \in Cwd : workspaceBlocked(cwd)' <=> workspaceBlocked(cwd)
  BY <1>1 DEF workspaceBlocked
<1>3. SUFFICES \A r \in Runtime : Timed(r)'
  BY DEF IdleSessionsAreTimed, Timed, Records
<1>4. CASE EndOperation(s)
  BY <1>1, <1>4, RearmedIsTimed DEF EndOperation
<1>5. CASE RestartReleases(s)
  <2>1. PICK r \in Runtime : operation[s].launch = r
    BY <1>1, <1>5 DEF RestartReleases, CoreInv, OperationShape, OperationType
  <2>2. runtime' = [Rearmed(s) EXCEPT ![r] = Free] /\ Ended(s)
    BY <1>5, <2>1 DEF RestartReleases
  <2>3. \A q \in Runtime \ {r} : runtime'[q] = Rearmed(s)[q]
    BY <2>2 DEF Rearmed
  <2>4. runtime'[r].at # "active"
    <3>1. runtime'[r] = Free
      BY <2>2 DEF Rearmed
    <3> QED BY <3>1 DEF Free
  <2>5. Timed(r)'
    BY <2>4 DEF Timed
  <2> QED BY <1>1, <2>2, <2>3, <2>5, RearmedIsTimed
<1>6. ASSUME runtime' = runtime, \A t \in Session : operation[t].kind # "none" => operation'[t].kind # "none"
      PROVE  \A r \in Runtime : Timed(r)'
  <2>1. \A r \in Runtime :
          \/ runtime'[r].at # "active"
          \/ /\ runtime[r].at = "active"
             /\ \A f \in {"session", "error", "working", "closing", "mutating", "timer"} :
                  runtime'[r][f] = runtime[r][f]
    BY <1>6
  <2> QED BY <1>2, <1>6, <2>1, OthersStayTimed DEF conflictingOperation
<1>7. CASE RestartBegins(s) \/ RenameBegins(s) \/ \E force \in BOOLEAN : DeleteBegins(s, force)
  <2>1. PICK kind \in {"restart", "rename", "delete"} :
             \E force, lazy : Begin(s, kind, force, lazy)
    BY <1>7 DEF RestartBegins, RenameBegins, DeleteBegins
  <2>2. runtime' = runtime
    BY <1>7 DEF RestartBegins, RenameBegins, DeleteBegins
  <2>3. \A t \in Session : operation[t].kind # "none" => operation'[t].kind # "none"
    <3>1. PICK force, lazy : Begin(s, kind, force, lazy)
      BY <2>1
    <3> QED BY <1>1, <2>1, <3>1 DEF Begin
  <2> QED BY <1>6, <2>2, <2>3
<1>8. CASE DeleteRemoves(s)
  <2>1. \A t \in Session : operation'[t].kind = operation[t].kind
    BY <1>1, <1>8 DEF DeleteRemoves, OperationType
  <2> QED BY <1>6, <1>8, <2>1 DEF DeleteRemoves
<1>9. CASE DeleteCollects(s)
  <2> DEFINE found == RecordsOf(s) \cup PendingOf(s)
  <2>1. found \in SUBSET Occupied /\ runtime' = Collect(found)
    BY <1>9 DEF DeleteCollects, RecordsOf, PendingOf, Records, Pending, Occupied
  <2>2. PICK lazy : operation' = [operation EXCEPT ![s].at = "waiting", ![s].lazy = lazy]
    BY <1>9 DEF DeleteCollects
  <2>3. \A t \in Session : operation'[t].kind = operation[t].kind
    BY <1>1, <2>2 DEF OperationType
  <2> HIDE DEF found
  <2>4. ASSUME NEW r \in Runtime
        PROVE  \/ runtime'[r].at # "active"
               \/ runtime'[r].closing
               \/ runtime[r].at = "active" /\ runtime'[r] = runtime[r]
    BY <2>1, CollectIsKept
  <2> QED BY <1>2, <2>3, <2>4, OthersStayTimed DEF conflictingOperation
<1>10. ASSUME NEW r \in Runtime, RestartReserves(s, r)
       PROVE  \A q \in Runtime : Timed(q)'
  <2>1. /\ RecordsOf(s) \in SUBSET Occupied
        /\ runtime' = [Collect(RecordsOf(s)) EXCEPT ![r] = Reserved(s, TRUE, "reserved")]
    BY <1>10 DEF RestartReserves, RecordsOf, Records, Occupied
  <2>2. operation' = [operation EXCEPT ![s].at = "waiting", ![s].launch = r]
    BY <1>10 DEF RestartReserves
  <2>3. \A t \in Session : operation'[t].kind = operation[t].kind
    BY <1>1, <2>2 DEF OperationType
  <2>4. runtime'[r].at # "active"
    <3>1. runtime'[r] = Reserved(s, TRUE, "reserved")
      BY <2>1 DEF Collect
    <3> QED BY <3>1 DEF Reserved, Free
  <2>5. ASSUME NEW q \in Runtime \ {r}
        PROVE  \/ runtime'[q].at # "active"
               \/ runtime'[q].closing
               \/ runtime[q].at = "active" /\ runtime'[q] = runtime[q]
    <3>1. runtime'[q] = Collect(RecordsOf(s))[q]
      BY <2>1 DEF Collect
    <3> QED BY <2>1, <3>1, CollectIsKept
  <2> QED BY <1>2, <2>3, <2>4, <2>5, OthersStayTimed DEF conflictingOperation
<1>11. CASE RestartLaunches(s)
  <2>1. PICK r \in Runtime : operation[s].launch = r
    BY <1>1, <1>11 DEF RestartLaunches, CoreInv, OperationShape, OperationType
  <2>2. /\ runtime' = [runtime EXCEPT ![r].at = "preparing"]
        /\ operation' = [operation EXCEPT ![s].at = "launching"]
    BY <1>11, <2>1 DEF RestartLaunches
  <2>3. \A t \in Session : operation'[t].kind = operation[t].kind
    BY <1>1, <2>2 DEF OperationType
  <2>4. runtime'[r].at = "preparing" /\ \A q \in Runtime \ {r} : runtime'[q] = runtime[q]
    BY <1>1, <2>2 DEF RuntimeType
  <2>5. ASSUME NEW q \in Runtime
        PROVE  \/ runtime'[q].at # "active"
               \/ runtime[q].at = "active" /\ runtime'[q] = runtime[q]
    BY <2>4
  <2> QED BY <1>2, <2>3, <2>5, OthersStayTimed DEF conflictingOperation
<1> QED BY <1>4, <1>5, <1>7, <1>8, <1>9, <1>10, <1>11 DEF OperationProceeds, DeleteRefused, DeleteDone,
     DeleteFails, OperationGivesUp, RestartRefused, RestartEnds, RenameEnds

\* Workspace operations hold timers back, and leave none to set: what is in their
\* directories is being stopped.
LEMMA WholeStaysTimed ==
  ASSUME CoreInv, IdleSessionsAreTimed,
         \/ \E scopes \in (SUBSET Cwd) \ {{}}, force \in BOOLEAN : WorkspaceBegins(scopes, force)
         \/ WholeProceeds \/ beginShutdown \/ ShutdownBegins
  PROVE  IdleSessionsAreTimed'
<1>1. /\ runtime \in [Runtime -> RuntimeType] /\ UNCHANGED operation
  BY DEF CoreInv, RegistryTypeOK, WorkspaceBegins, WholeProceeds, WorkspaceRuns, WorkspaceEnds,
         ShutdownEnds, beginShutdown, ShutdownBegins
<1>2. \A s \in Session : conflictingOperation(s)' <=> conflictingOperation(s)
  BY <1>1 DEF conflictingOperation
<1>3. SUFFICES \A r \in Runtime : Timed(r)'
  BY DEF IdleSessionsAreTimed, Timed, Records
<1>4. ASSUME NEW S \in SUBSET Occupied, runtime' = Collect(S),
             \A cwd \in Cwd : workspaceBlocked(cwd) => workspaceBlocked(cwd)'
      PROVE  \A r \in Runtime : Timed(r)'
  <2>1. ASSUME NEW r \in Runtime
        PROVE  \/ runtime'[r].at # "active"
               \/ runtime'[r].closing
               \/ runtime[r].at = "active" /\ runtime'[r] = runtime[r]
    BY <1>4, CollectIsKept
  <2> QED BY <1>2, <1>4, <2>1, OthersStayTimed
<1>5. CASE \E scopes \in (SUBSET Cwd) \ {{}}, force \in BOOLEAN : WorkspaceBegins(scopes, force)
  <2>1. PICK scopes \in (SUBSET Cwd) \ {{}}, force \in BOOLEAN : WorkspaceBegins(scopes, force)
    BY <1>5
  <2>2. {r \in Pending \cup Records : InScope(r, scopes)} \in SUBSET Occupied
    BY DEF Pending, Records, Occupied
  <2>3. \A cwd \in Cwd : ~workspaceBlocked(cwd)
    BY <2>1 DEF WorkspaceBegins, workspaceBlocked, CoreInv, OneAtATime
  <2> QED BY <1>4, <2>1, <2>2, <2>3 DEF WorkspaceBegins
<1>6. CASE ShutdownBegins
  <2>1. Pending \cup Records \in SUBSET Occupied
    BY DEF Pending, Records, Occupied
  <2> QED BY <1>4, <1>6, <2>1 DEF ShutdownBegins, workspaceBlocked
<1>7. CASE beginShutdown
  <2>1. /\ \A cwd \in Cwd : workspaceBlocked(cwd)' <=> workspaceBlocked(cwd)
        /\ runtime' = Cancelled
    BY <1>7 DEF beginShutdown, workspaceBlocked
  <2>2. ASSUME NEW r \in Runtime
        PROVE  \/ runtime'[r].at # "active"
               \/ runtime[r].at = "active" /\ runtime'[r] = runtime[r]
    <3>1. AllKept
      BY <1>7, ShutdownSteps
    <3>2. runtime[r].at # "active" => runtime'[r].at # "active"
      BY <3>1 DEF AllKept, Kept
    <3>3. ASSUME runtime[r].at = "active"
          PROVE  runtime'[r] = runtime[r]
      <4>1. r \notin Pending /\ runtime[r] \in RuntimeType
        BY <1>1, <3>3 DEF Pending
      <4>2. runtime'[r] = [runtime[r] EXCEPT !.cancelled = runtime[r].cancelled]
        BY <2>1, <4>1 DEF Cancelled, RuntimeType
      <4> QED BY <4>1, <4>2 DEF RuntimeType
    <3> QED BY <3>2, <3>3
  <2> QED BY <1>2, <2>1, <2>2, OthersStayTimed
<1>8. CASE ShutdownEnds
  <2>1. runtime' = runtime /\ \A cwd \in Cwd : workspaceBlocked(cwd)' <=> workspaceBlocked(cwd)
    BY <1>8 DEF ShutdownEnds, workspaceBlocked
  <2>2. \A r \in Runtime : runtime'[r].at # "active" \/ (runtime[r].at = "active" /\ runtime'[r] = runtime[r])
    BY <2>1
  <2> QED BY <1>2, <2>1, <2>2, OthersStayTimed
<1>9. CASE WorkspaceRuns \/ WorkspaceEnds
  <2>1. /\ runtime' = runtime
        /\ \/ workspace'.scopes = workspace.scopes
           \/ failed[Workspace] \/ shuttingDown
           \/ workspace.at = "running"
    BY <1>9 DEF WorkspaceRuns, WorkspaceEnds, CoreInv, RegistryTypeOK
  <2>2. ASSUME NEW r \in Runtime, runtime[r].at = "active"
        PROVE  Timed(r)'
    <3>1. r \in Occupied /\ Timed(r)
      BY <2>2, IdleIsTimed DEF Occupied
    <3>2. CASE InScope(r, workspace.scopes)
      <4>1. runtime'[r].closing
        BY <2>1, <2>2, <3>1, <3>2 DEF CoreInv, StillAwaited
      <4> QED BY <3>1, <4>1, UntouchedIsTimed
    <3>3. CASE ~InScope(r, workspace.scopes)
      BY <1>1, <2>1, <2>2, <3>1, <3>3, UntouchedIsTimed
         DEF InScope, workspaceBlocked, conflictingOperation
    <3> QED BY <3>2, <3>3
  <2>3. ASSUME NEW r \in Runtime, runtime[r].at # "active"
        PROVE  Timed(r)'
    BY <2>1, <2>3 DEF Timed
  <2> QED BY <2>2, <2>3
<1> QED BY <1>5, <1>6, <1>7, <1>8, <1>9 DEF WholeProceeds

\* No step forgets an idle session.
LEMMA StepStaysTimed ==
  CoreInv /\ IdleSessionsAreTimed /\ [RegistryNext]_registryVars => IdleSessionsAreTimed'
<1> SUFFICES ASSUME CoreInv, IdleSessionsAreTimed, [RegistryNext]_registryVars
             PROVE  IdleSessionsAreTimed'
  OBVIOUS
<1>1. CASE UNCHANGED registryVars
  BY <1>1 DEF registryVars, IdleSessionsAreTimed, Records, canIdleStop, workspaceBlocked,
              conflictingOperation
<1>2. ASSUME NEW s \in Session, StopLingering(s)
      PROVE  IdleSessionsAreTimed'
  BY <1>2 DEF StopLingering, IdleSessionsAreTimed, Records, canIdleStop, workspaceBlocked,
              conflictingOperation
<1>3. CASE RegistryEnvironment
  BY <1>2, <1>3, RecordsStayTimed, RuntimesStayTimed, OperationsStayTimed, WholeStaysTimed
     DEF RegistryEnvironment
<1>4. CASE RegistryProceeds
  BY <1>4, RecordsStayTimed, RuntimesStayTimed, OperationsStayTimed, WholeStaysTimed
     DEF RegistryProceeds, RuntimeProceeds
<1>5. CASE beginShutdown
  BY <1>5, WholeStaysTimed
<1> QED BY <1>1, <1>3, <1>4, <1>5 DEF RegistryNext

\* A live session that may be stopped for being idle has its timer set.
THEOREM IdleSessionsTimed == RestartSpec => []IdleSessionsAreTimed
<1>1. RegistryInit => IdleSessionsAreTimed
  BY DEF RegistryInit, IdleSessionsAreTimed, Records, Free
<1> QED BY <1>1, StepStaysTimed, RestartStepsAreRegistrySteps, RestartCorrect, PTL
        DEF RestartSpec, RestartInit

-----------------------------------------------------------------------------
(* The refinement of SessionOwnership.                                     *)

Alive == [s \in Session |-> AliveRuntimes(s)]

OwnershipStep == [Ownership!OwnershipNext]_(Ownership!ownership)

\* The steps of the abstract specification, in terms of the registry.
LEMMA Stutters ==
  ASSUME UNCHANGED <<Alive, Exclusive, Gate>>
  PROVE  OwnershipStep
BY DEF OwnershipStep, Ownership!ownership, Alive

\* Start: the first client of a session that nobody has the files of.
LEMMA Starts ==
  ASSUME NEW s \in Session, NEW r \in Runtime, Gate = "open", s \notin Exclusive, Alive[s] = {},
         Alive' = [Alive EXCEPT ![s] = {r}], UNCHANGED <<Exclusive, Gate>>
  PROVE  OwnershipStep
BY DEF OwnershipStep, Ownership!OwnershipNext, Ownership!Start, Alive

\* End: the client of a session is gone.
LEMMA Ends ==
  ASSUME NEW s \in Session, Alive[s] # {},
         Alive' = [Alive EXCEPT ![s] = {}], UNCHANGED <<Exclusive, Gate>>
  PROVE  OwnershipStep
BY DEF OwnershipStep, Ownership!OwnershipNext, Ownership!End, Alive

\* Enter: an operation takes the files of sessions without a client.
LEMMA Enters ==
  ASSUME NEW S \in SUBSET Session, Gate # "closed", S \cap Exclusive = {},
         \A s \in S : Alive[s] = {},
         Exclusive' = Exclusive \cup S, UNCHANGED <<Alive, Gate>>
  PROVE  OwnershipStep
BY DEF OwnershipStep, Ownership!OwnershipNext, Ownership!Enter, Alive

\* Leave: it gives them back.
LEMMA Leaves ==
  ASSUME NEW S \in SUBSET Session, S \subseteq Exclusive,
         Exclusive' = Exclusive \ S, UNCHANGED <<Alive, Gate>>
  PROVE  OwnershipStep
BY DEF OwnershipStep, Ownership!OwnershipNext, Ownership!Leave, Alive

\* Close: admission is closed.
LEMMA Closes ==
  ASSUME Gate = "open", Gate' = "closing", UNCHANGED <<Alive, Exclusive>>
  PROVE  OwnershipStep
BY DEF OwnershipStep, Ownership!OwnershipNext, Ownership!Close, Alive

\* Closed: nothing is alive, and nobody is at the files.
LEMMA IsClosed ==
  ASSUME Gate = "closing", Exclusive = {}, \A s \in Session : Alive[s] = {}, Gate' = "closed",
         UNCHANGED <<Alive, Exclusive>>
  PROVE  OwnershipStep
BY DEF OwnershipStep, Ownership!OwnershipNext, Ownership!Closed, Alive

\* A session has one client at most: the runtime that a restart has reserved has none.
LEMMA OneIsAlive ==
  ASSUME CoreInv, NEW s \in Session, NEW r \in AliveRuntimes(s)
  PROVE  AliveRuntimes(s) = {r} /\ r \in Occupied
<1>1. \A q \in AliveRuntimes(s) : q \in Occupied /\ runtime[q].session = s /\ runtime[q].client = "alive"
  BY DEF AliveRuntimes, Occupied, CoreInv, RuntimeShape, Free
<1>2. ASSUME NEW q \in AliveRuntimes(s), q # r
      PROVE  FALSE
  <2>1. operation[s].launch \in {r, q} /\ operation[s].at = "waiting"
    BY <1>1, <1>2 DEF CoreInv, OneRuntimeEach
  <2>2. operation[s].launch # 0
    BY <1>1, <2>1, RegistryAssumption DEF Occupied, Runtime
  <2>3. runtime[operation[s].launch].at = "reserved"
    BY <2>1, <2>2 DEF CoreInv, OperationShape
  <2> QED BY <1>1, <2>1, <2>3 DEF CoreInv, RuntimeShape, Occupied
<1> QED BY <1>1, <1>2

\* Whoever changes no client and no session changes nothing that is alive.
LEMMA AliveKept ==
  ASSUME \A r \in Runtime : /\ runtime'[r].client = "alive" <=> runtime[r].client = "alive"
                            /\ runtime[r].client = "alive" => runtime'[r].session = runtime[r].session
  PROVE  Alive' = Alive
BY DEF Alive, AliveRuntimes

\* Most steps are of that kind.
LEMMA AllKeptAreAlive ==
  ASSUME AllKept
  PROVE  Alive' = Alive
BY AliveKept DEF AllKept, Kept

\* The operations that have the files to themselves are the same.
LEMMA ExclusiveKept ==
  ASSUME UNCHANGED workspace,
         \A s \in Session :
           /\ operation'[s].kind = "rename" <=> operation[s].kind = "rename"
           /\ operation'[s].kind = "delete" /\ operation'[s].at = "working" <=>
                operation[s].kind = "delete" /\ operation[s].at = "working"
  PROVE  Exclusive' = Exclusive
BY DEF Exclusive

\* Nothing of a session is left alive when it has no runtime.
LEMMA NoneAlive ==
  ASSUME CoreInv, NEW s \in Session, \A r \in Occupied : runtime[r].session # s
  PROVE  Alive[s] = {}
<1>1. Alive[s] = AliveRuntimes(s)
  BY DEF Alive
<1>2. AliveRuntimes(s) = {}
  BY DEF AliveRuntimes, Occupied, CoreInv, RuntimeShape, Free
<1> QED BY <1>1, <1>2

\* One runtime moves: its client starts when its session has none, or stops, or stays.
LEMMA RuntimeStep ==
  ASSUME CoreInv, NEW r \in Runtime, UNCHANGED <<Exclusive, Gate>>,
         \A q \in Runtime \ {r} : runtime'[q].client = runtime[q].client
                                  /\ runtime'[q].session = runtime[q].session,
         \/ runtime'[r].client = "alive" <=> runtime[r].client = "alive"
         \/ runtime'[r].client # "alive",
         runtime'[r].client = "alive" => runtime'[r].session = runtime[r].session
  PROVE  OwnershipStep
<1>1. CASE runtime'[r].client = "alive" <=> runtime[r].client = "alive"
  <2>1. Alive' = Alive
    BY <1>1, AliveKept
  <2> QED BY <2>1, Stutters
<1>2. CASE runtime'[r].client # "alive" /\ runtime[r].client = "alive"
  <2>1. PICK s \in Session : runtime[r].session = s
    BY <1>2 DEF CoreInv, RuntimeShape, Free
  <2>2. r \in AliveRuntimes(s)
    BY <1>2, <2>1 DEF AliveRuntimes
  <2>3. AliveRuntimes(s) = {r}
    BY <2>2, OneIsAlive
  <2>4. AliveRuntimes(s)' = {}
    BY <1>2, <2>3 DEF AliveRuntimes
  <2>5. \A t \in Session \ {s} : AliveRuntimes(t)' = AliveRuntimes(t)
    BY <1>2, <2>1 DEF AliveRuntimes
  <2>6. Alive[s] = {r} /\ Alive' = [Alive EXCEPT ![s] = {}]
    BY <2>3, <2>4, <2>5 DEF Alive
  <2> QED BY <2>6, Ends
<1> QED BY <1>1, <1>2

\* A launch starts a client while admission is open, and no operation is at the files.
LEMMA LaunchImplements ==
  ASSUME CoreInv, NEW r \in Runtime, LaunchStarts(r)
  PROVE  OwnershipStep
<1>1. /\ runtime \in [Runtime -> RuntimeType] /\ runtime[r].at = "preparing" /\ r \in Occupied
      /\ ~shuttingDown /\ ~runtime[r].cancelled /\ runtime[r].client # "alive"
      /\ runtime' = [runtime EXCEPT ![r].at = "starting", ![r].client = "alive"]
      /\ UNCHANGED <<operation, workspace, shuttingDown, shutdown>>
  BY DEF CoreInv, RegistryTypeOK, RuntimeShape, LaunchStarts, throwIfLaunchCancelled, Occupied
<1>2. PICK s \in Session : runtime[r].session = s
  BY <1>1 DEF CoreInv, RuntimeShape
<1>3. /\ runtime'[r].client = "alive" /\ runtime'[r].session = s
      /\ \A q \in Runtime \ {r} : runtime'[q] = runtime[q]
  BY <1>1, <1>2 DEF RuntimeType
<1>4. Gate = "open" /\ Gate' = Gate /\ Exclusive' = Exclusive
  BY <1>1 DEF Gate, Exclusive, CoreInv, OneAtATime
<1>5. s \notin Exclusive
  <2>1. operation[s].at # "working" /\ operation[s].kind # "rename"
    BY <1>1, <1>2 DEF CoreInv, StillAwaited
  <2>2. InScope(r, workspace.scopes) => workspace.at # "running"
    BY <1>1 DEF CoreInv, StillAwaited
  <2> QED BY <1>2, <2>1, <2>2 DEF Exclusive, InScope
<1>6. AliveRuntimes(s) = {}
  <2>1. ASSUME NEW q \in AliveRuntimes(s)
        PROVE  FALSE
    <3>1. q \in Occupied /\ q # r /\ runtime[q].session = s /\ runtime[q].client = "alive"
      BY <1>1, <2>1, OneIsAlive DEF AliveRuntimes
    <3>2. operation[s].launch \in {q, r} /\ operation[s].at = "waiting"
      BY <1>1, <1>2, <3>1 DEF CoreInv, OneRuntimeEach
    <3>3. operation[s].launch # 0
      BY <1>1, <3>1, <3>2, RegistryAssumption DEF Occupied, Runtime
    <3>4. runtime[operation[s].launch].at = "reserved"
      BY <3>2, <3>3 DEF CoreInv, OperationShape
    <3> QED BY <1>1, <3>1, <3>2, <3>4 DEF CoreInv, RuntimeShape, Occupied
  <2> QED BY <2>1
<1>7. AliveRuntimes(s)' = {r} /\ \A t \in Session \ {s} : AliveRuntimes(t)' = AliveRuntimes(t)
  <2>1. \A q \in Runtime : q \in AliveRuntimes(s)' <=> q = r
    BY <1>3, <1>6 DEF AliveRuntimes
  <2>2. ASSUME NEW t \in Session \ {s}, NEW q \in Runtime
        PROVE  q \in AliveRuntimes(t)' <=> q \in AliveRuntimes(t)
    BY <1>2, <1>3 DEF AliveRuntimes
  <2> QED BY <2>1, <2>2 DEF AliveRuntimes
<1>8. Alive[s] = {} /\ Alive' = [Alive EXCEPT ![s] = {r}]
  BY <1>6, <1>7 DEF Alive
<1> QED BY <1>4, <1>5, <1>8, Starts

\* The rest of a launch, and a stop: the client stops, or nothing changes.
LEMMA RuntimeImplements ==
  ASSUME CoreInv, NEW r \in Runtime, RuntimeProceeds(r)
  PROVE  OwnershipStep
<1>1. runtime \in [Runtime -> RuntimeType] /\ runtime[r] \in RuntimeType
  BY DEF CoreInv, RegistryTypeOK
<1>2. CASE LaunchStarts(r)
  BY <1>2, LaunchImplements
<1>3. CASE MutationEnds(r)
  <2>1. AllKept /\ UNCHANGED <<operation, workspace, shuttingDown, shutdown>>
    BY <1>3, RecordSteps
  <2> QED BY <2>1, AllKeptAreAlive, ExclusiveKept, Stutters DEF Gate
<1>4. CASE \/ LaunchStarted(r) \/ LaunchReady(r) \/ LaunchAborted(r) \/ LaunchFails(r)
           \/ CleanupDone(r) \/ CleanupFails(r) \/ ClientStops(r) \/ StopFails(r) \/ StopEnds(r)
  <2>1. UNCHANGED <<workspace, shuttingDown, shutdown>> /\ (UNCHANGED operation \/ LaunchEnds(r))
    BY <1>4 DEF LaunchStarted, LaunchReady, LaunchAborted, LaunchFails, CleanupDone, CleanupFails,
                ClientStops, StopFails, StopEnds
  <2>2. LaunchEnds(r) =>
          \A s \in Session : /\ operation'[s].kind = operation[s].kind
                             /\ operation'[s].at # operation[s].at =>
                                  operation[s].at = "launching" /\ operation'[s].at = "ended"
    <3> SUFFICES ASSUME LaunchEnds(r), NEW s \in Session
                 PROVE  /\ operation'[s].kind = operation[s].kind
                        /\ operation'[s].at # operation[s].at =>
                             operation[s].at = "launching" /\ operation'[s].at = "ended"
      OBVIOUS
    <3>1. operation[s] \in OperationType
      BY DEF CoreInv, RegistryTypeOK, OperationType
    <3>2. CASE operation[s].at = "launching" /\ operation[s].launch = r
      <4>1. operation'[s] = [operation[s] EXCEPT !.at = "ended", !.launch = 0]
        BY <3>2 DEF LaunchEnds
      <4> QED BY <3>1, <3>2, <4>1 DEF OperationType
    <3>3. CASE ~(operation[s].at = "launching" /\ operation[s].launch = r)
      BY <3>3 DEF LaunchEnds
    <3> QED BY <3>2, <3>3
  <2>3. Exclusive' = Exclusive /\ Gate' = Gate
    BY <2>1, <2>2, ExclusiveKept DEF Gate
  <2>4. \A q \in Runtime \ {r} : runtime'[q] = runtime[q]
    <3>1. \E y : runtime' = [runtime EXCEPT ![r] = y]
      <4>1. CASE LaunchReady(r) \/ LaunchAborted(r) \/ CleanupDone(r) \/ StopEnds(r)
        BY <4>1 DEF LaunchReady, LaunchAborted, CleanupDone, StopEnds
      <4>2. CASE LaunchStarted(r) \/ LaunchFails(r) \/ StopFails(r)
        BY <4>2 DEF LaunchStarted, LaunchFails, StopFails
      <4>3. CASE CleanupFails(r)
        <5>1. PICK client \in {runtime[r].client, "stopped"} :
                runtime' = [runtime EXCEPT ![r].at = "retained", ![r].client = client]
          BY <4>3 DEF CleanupFails
        <5>2. runtime' = [runtime EXCEPT ![r] = [runtime[r] EXCEPT !.at = "retained", !.client = client]]
          BY <1>1, <5>1
        <5> QED BY <5>2
      <4>4. CASE ClientStops(r)
        <5>1. runtime' = [runtime EXCEPT ![r] = [runtime[r] EXCEPT !.stop = "mutations",
                                                   !.client = "stopped", !.working = FALSE]]
          BY <1>1, <4>4 DEF ClientStops
        <5> QED BY <5>1
      <4> QED BY <1>4, <4>1, <4>2, <4>3, <4>4
    <3> QED BY <1>1, <3>1
  <2>5. \/ runtime'[r].client # "alive"
        \/ /\ runtime'[r].client = runtime[r].client
           /\ runtime'[r].session = runtime[r].session
    <3>1. CASE LaunchStarted(r) \/ LaunchFails(r)
      BY <1>1, <3>1 DEF LaunchStarted, LaunchFails, RuntimeType
    <3>2. CASE LaunchReady(r)
      <4>1. PICK working \in BOOLEAN : runtime'[r] = Reconciled(
              [runtime[r] EXCEPT !.at = "active", !.known = TRUE, !.working = working,
                                 !.lazy = @ /\ file[runtime[r].session] = "none"])
        BY <1>1, <3>2 DEF LaunchReady
      <4> QED BY <1>1, <4>1 DEF Reconciled, RuntimeType
    <3>3. CASE LaunchAborted(r) \/ CleanupDone(r) \/ StopEnds(r)
      <4>1. runtime'[r] = Free
        BY <1>1, <3>3 DEF LaunchAborted, CleanupDone, StopEnds
      <4> QED BY <4>1 DEF Free
    <3>4. CASE CleanupFails(r)
      <4>1. PICK client \in {runtime[r].client, "stopped"} :
              runtime' = [runtime EXCEPT ![r].at = "retained", ![r].client = client]
        BY <3>4 DEF CleanupFails
      <4>2. /\ runtime'[r].client = client /\ runtime'[r].session = runtime[r].session
        BY <1>1, <4>1 DEF RuntimeType
      <4> QED BY <4>2
    <3>5. CASE ClientStops(r)
      <4>1. runtime'[r].client = "stopped"
        BY <1>1, <3>5 DEF ClientStops, RuntimeType
      <4> QED BY <4>1
    <3>6. CASE StopFails(r)
      BY <1>1, <3>6 DEF StopFails, RuntimeType
    <3> QED BY <1>4, <3>1, <3>2, <3>3, <3>4, <3>5, <3>6
  <2> QED BY <2>3, <2>4, <2>5, RuntimeStep
<1> QED BY <1>2, <1>3, <1>4 DEF RuntimeProceeds

\* An operation has the files of its session.
AtFiles(s) ==
  \/ operation[s].kind = "delete" /\ operation[s].at = "working"
  \/ operation[s].kind = "rename"

\* One operation moves: it enters, it leaves, or neither.
LEMMA OperationStep ==
  ASSUME NEW s \in Session, workspace.at = "none", UNCHANGED <<workspace, Alive, Gate>>,
         \A t \in Session \ {s} : operation'[t] = operation[t],
         AtFiles(s)' => AtFiles(s) \/ (Gate # "closed" /\ Alive[s] = {})
  PROVE  OwnershipStep
<1>1. /\ Exclusive = {t \in Session : AtFiles(t)}
      /\ Exclusive' = {t \in Session : AtFiles(t)'}
  BY DEF Exclusive, AtFiles
<1>2. \A t \in Session \ {s} : AtFiles(t)' <=> AtFiles(t)
  BY DEF AtFiles
<1>3. CASE AtFiles(s)' <=> AtFiles(s)
  BY <1>1, <1>2, <1>3, Stutters
<1>4. CASE AtFiles(s)' /\ ~AtFiles(s)
  <2>1. Exclusive' = Exclusive \cup {s} /\ {s} \cap Exclusive = {}
    BY <1>1, <1>2, <1>4
  <2> QED BY <1>4, <2>1, Enters
<1>5. CASE ~AtFiles(s)' /\ AtFiles(s)
  <2>1. Exclusive' = Exclusive \ {s} /\ {s} \subseteq Exclusive
    BY <1>1, <1>2, <1>5
  <2> QED BY <2>1, Leaves
<1> QED BY <1>3, <1>4, <1>5

\* A launch that begins has no client yet.
LEMMA LaunchBeginningImplements ==
  ASSUME CoreInv, NEW s \in Session, NEW r \in Runtime, Create(s, r) \/ Open(s, r)
  PROVE  OwnershipStep
<1>1. PICK known \in BOOLEAN : Reserve(r, s, known)
  BY DEF Create, Open
<1>2. /\ runtime \in [Runtime -> RuntimeType] /\ runtime[r].client # "alive"
      /\ runtime' = [runtime EXCEPT ![r] = Reserved(s, known, "preparing")]
  BY <1>1 DEF Reserve, NextSlot, CoreInv, RegistryTypeOK, RuntimeShape, Free
<1>3. Reserved(s, known, "preparing").client = "none"
  BY DEF Reserved, Free
<1>4. /\ runtime'[r].client # "alive"
      /\ \A q \in Runtime \ {r} : runtime'[q] = runtime[q]
  BY <1>2, <1>3
<1>5. UNCHANGED <<operation, workspace, shuttingDown, shutdown>>
  BY DEF Create, Open
<1>6. Exclusive' = Exclusive /\ Gate' = Gate
  BY <1>5 DEF Exclusive, Gate
<1> QED BY <1>2, <1>4, <1>6, RuntimeStep

\* A deletion and a restart are queued first; a rename, of a session without a runtime,
\* has its file at once.
LEMMA OperationBeginningImplements ==
  ASSUME CoreInv, NEW s \in Session,
         \/ RestartBegins(s) \/ RenameBegins(s)
         \/ \E force \in BOOLEAN : DeleteBegins(s, force)
  PROVE  OwnershipStep
<1>1. PICK kind, force, lazy : Begin(s, kind, force, lazy)
  BY DEF RestartBegins, RenameBegins, DeleteBegins
<1>2. /\ ~shuttingDown /\ workspace.at = "none"
      /\ operation'[s].at = "queued"
      /\ \A t \in Session \ {s} : operation'[t] = operation[t]
  BY <1>1 DEF Begin, CoreInv, RegistryTypeOK
<1>3. UNCHANGED <<runtime, workspace, shuttingDown, shutdown>>
  BY DEF RestartBegins, RenameBegins, DeleteBegins
<1>4. Gate # "closed" /\ Gate' = Gate /\ Alive' = Alive
  BY <1>2, <1>3 DEF Gate, CoreInv, OneAtATime, Alive, AliveRuntimes
<1>5. operation'[s].kind = "rename" => Alive[s] = {}
  <2>1. RenameBegins(s) => \A r \in Occupied : runtime[r].session # s
    BY DEF RenameBegins, RecordsOf, PendingOf, Records, Pending, Occupied, CoreInv, NewIsUnknown
  <2>2. operation'[s].kind = "rename" => RenameBegins(s)
    BY DEF RestartBegins, DeleteBegins, Begin, CoreInv, RegistryTypeOK
  <2> QED BY <2>1, <2>2, NoneAlive
<1>6. AtFiles(s)' => operation'[s].kind = "rename"
  BY <1>2 DEF AtFiles
<1> QED BY <1>2, <1>3, <1>4, <1>5, <1>6, OperationStep

\* The end of an operation changes timers only.
LEMMA EndedIsAlive ==
  ASSUME CoreInv, NEW s \in Session, EndOperation(s)
  PROVE  /\ Alive' = Alive /\ operation'[s] = NoOperation
         /\ \A t \in Session \ {s} : operation'[t] = operation[t]
<1>1. runtime' = Rearmed(s)
  BY DEF EndOperation
<1>2. \A r \in Runtime : runtime'[r].client = runtime[r].client /\ runtime'[r].session = runtime[r].session
  BY <1>1, RearmedIsKept
<1> QED BY <1>2, AliveKept DEF EndOperation, Ended, CoreInv, RegistryTypeOK

\* Deletions and renames.
LEMMA FilesImplement ==
  ASSUME CoreInv, NEW s \in Session,
         \/ DeleteCollects(s) \/ DeleteRemoves(s)
         \/ DeleteRefused(s) \/ DeleteDone(s) \/ DeleteFails(s) \/ OperationGivesUp(s)
         \/ RestartRefused(s) \/ RestartEnds(s) \/ RenameEnds(s)
  PROVE  OwnershipStep
<1>1. operation[s].kind # "none" /\ UNCHANGED <<workspace, shuttingDown, shutdown>>
  BY DEF DeleteCollects, DeleteRemoves, DeleteRefused, DeleteDone, DeleteFails, OperationGivesUp,
         RestartRefused, RestartEnds, RenameEnds, CoreInv, OperationShape
<1>2. workspace.at = "none" /\ Gate # "closed" /\ Gate' = Gate
  BY <1>1 DEF CoreInv, OneAtATime, Gate
<1>3. operation \in [Session -> OperationType] /\ runtime \in [Runtime -> RuntimeType]
  BY DEF CoreInv, RegistryTypeOK, OperationType
<1>4. CASE DeleteCollects(s)
  <2>1. runtime' = Collect(RecordsOf(s) \cup PendingOf(s))
    BY <1>4 DEF DeleteCollects
  <2>2. RecordsOf(s) \cup PendingOf(s) \in SUBSET Occupied
    BY DEF RecordsOf, PendingOf, Records, Pending, Occupied
  <2>3. Alive' = Alive
    BY <2>1, <2>2, AllCollected, AllKeptAreAlive
  <2>4. \E lazy : operation' = [operation EXCEPT ![s].at = "waiting", ![s].lazy = lazy]
    BY <1>4 DEF DeleteCollects
  <2>5. /\ operation'[s].at = "waiting" /\ operation'[s].kind = "delete"
        /\ \A t \in Session \ {s} : operation'[t] = operation[t]
    BY <1>3, <1>4, <2>4 DEF DeleteCollects, OperationType
  <2> QED BY <1>1, <1>2, <2>3, <2>5, OperationStep DEF AtFiles
<1>5. CASE DeleteRemoves(s)
  <2>1. /\ operation[s].kind = "delete" /\ operation[s].at = "waiting" /\ waits[s] = {} /\ ~failed[s]
        /\ operation' = [operation EXCEPT ![s].at = "working"] /\ runtime' = runtime
    BY <1>5 DEF DeleteRemoves
  <2>2. \A r \in Occupied : runtime[r].session # s
    <3>1. operation[s].launch = 0
      BY <2>1 DEF CoreInv, OperationShape
    <3>2. \A r \in Occupied : r # 0
      BY RegistryAssumption DEF Occupied, Runtime
    <3> QED BY <2>1, <3>1, <3>2 DEF CoreInv, StillAwaited
  <2>3. Alive[s] = {}
    BY <2>2, NoneAlive
  <2>4. Alive' = Alive
    BY <2>1 DEF Alive, AliveRuntimes
  <2>5. \A t \in Session \ {s} : operation'[t] = operation[t]
    BY <1>3, <2>1
  <2> QED BY <1>1, <1>2, <2>3, <2>4, <2>5, OperationStep
<1>6. CASE EndOperation(s)
  <2>1. ~AtFiles(s)'
    BY <1>6, EndedIsAlive DEF AtFiles, NoOperation
  <2> QED BY <1>1, <1>2, <1>6, <2>1, EndedIsAlive, OperationStep
<1> QED BY <1>4, <1>5, <1>6 DEF DeleteRefused, DeleteDone, DeleteFails, OperationGivesUp,
         RestartRefused, RestartEnds, RenameEnds

\* A restart has no files; its launch has no client before it is prepared.
LEMMA RestartImplements ==
  ASSUME CoreInv, NEW s \in Session,
         \/ \E r \in Runtime : RestartReserves(s, r)
         \/ RestartLaunches(s) \/ RestartReleases(s)
  PROVE  OwnershipStep
<1>1. operation[s].kind = "restart" /\ UNCHANGED <<workspace, shuttingDown, shutdown>>
  BY DEF RestartReserves, RestartLaunches, RestartReleases
<1>2. workspace.at = "none" /\ Gate' = Gate
  BY <1>1 DEF CoreInv, OneAtATime, Gate
<1>3. operation \in [Session -> OperationType] /\ runtime \in [Runtime -> RuntimeType]
  BY DEF CoreInv, RegistryTypeOK, OperationType
<1>4. /\ ~AtFiles(s)'
      /\ \A t \in Session \ {s} : operation'[t] = operation[t]
  <2>1. CASE \E r \in Runtime : RestartReserves(s, r)
    <3>1. PICK r \in Runtime : operation' = [operation EXCEPT ![s].at = "waiting", ![s].launch = r]
      BY <2>1 DEF RestartReserves
    <3> QED BY <1>1, <1>3, <3>1 DEF AtFiles, OperationType
  <2>2. CASE RestartLaunches(s)
    BY <1>1, <1>3, <2>2 DEF RestartLaunches, AtFiles, OperationType
  <2>3. CASE RestartReleases(s)
    BY <1>1, <1>3, <2>3 DEF RestartReleases, Ended, NoOperation, AtFiles, OperationType
  <2> QED BY <2>1, <2>2, <2>3
<1>5. Alive' = Alive
  <2>1. CASE \E r \in Runtime : RestartReserves(s, r)
    <3>1. PICK r \in Runtime : RestartReserves(s, r)
      BY <2>1
    <3>2. /\ runtime' = [Collect(RecordsOf(s)) EXCEPT ![r] = Reserved(s, TRUE, "reserved")]
          /\ runtime[r].at = "free"
      BY <3>1 DEF RestartReserves, NextSlot
    <3>3. RecordsOf(s) \in SUBSET Occupied
      BY DEF RecordsOf, Records, Occupied
    <3>4. ASSUME NEW q \in Runtime \ {r}
          PROVE  runtime'[q].client = runtime[q].client /\ runtime'[q].session = runtime[q].session
      <4>1. runtime'[q] = Collect(RecordsOf(s))[q]
        BY <3>2 DEF Collect
      <4> QED BY <3>3, <4>1, CollectIsKept
    <3>5. runtime'[r].client # "alive" /\ runtime[r].client # "alive"
      <4>1. runtime'[r] = Reserved(s, TRUE, "reserved")
        BY <3>2 DEF Collect
      <4>2. runtime'[r].client = "none"
        BY <4>1 DEF Reserved, Free
      <4>3. runtime[r].client = "none"
        BY <3>2 DEF CoreInv, RuntimeShape, Free
      <4> QED BY <4>2, <4>3
    <3> QED BY <3>4, <3>5, AliveKept
  <2>2. CASE RestartLaunches(s)
    <3>1. \A q \in Runtime : runtime'[q].client = runtime[q].client /\ runtime'[q].session = runtime[q].session
      BY <1>3, <2>2 DEF RestartLaunches, RuntimeType
    <3> QED BY <3>1, AliveKept
  <2>3. CASE RestartReleases(s)
    <3>1. PICK r \in Runtime : operation[s].launch = r /\ runtime[r].at = "reserved"
      BY <1>3, <2>3 DEF RestartReleases, CoreInv, OperationShape, OperationType
    <3>2. runtime' = [Rearmed(s) EXCEPT ![r] = Free]
      BY <2>3, <3>1 DEF RestartReleases
    <3>3. ASSUME NEW q \in Runtime \ {r}
          PROVE  runtime'[q].client = runtime[q].client /\ runtime'[q].session = runtime[q].session
      <4>1. runtime'[q] = Rearmed(s)[q]
        BY <3>2 DEF Rearmed
      <4> QED BY <4>1, RearmedIsKept
    <3>4. runtime'[r].client # "alive" /\ runtime[r].client # "alive"
      <4>1. runtime'[r] = Free
        BY <3>2 DEF Rearmed
      <4>2. runtime'[r].client = "none"
        BY <4>1 DEF Free
      <4>3. runtime[r].client = "none"
        BY <3>1 DEF CoreInv, RuntimeShape
      <4> QED BY <4>2, <4>3
    <3> QED BY <3>3, <3>4, AliveKept
  <2> QED BY <2>1, <2>2, <2>3
<1> QED BY <1>1, <1>2, <1>4, <1>5, OperationStep

\* A workspace operation enters the sessions of its directories when none of them has
\* a runtime, and leaves them together.
LEMMA WorkspaceImplements ==
  ASSUME CoreInv,
         \/ \E scopes \in (SUBSET Cwd) \ {{}}, force \in BOOLEAN : WorkspaceBegins(scopes, force)
         \/ WorkspaceRuns \/ WorkspaceEnds
  PROVE  OwnershipStep
<1>1. UNCHANGED <<operation, shuttingDown, shutdown>>
  BY DEF WorkspaceBegins, WorkspaceRuns, WorkspaceEnds
<1>2. Gate' = Gate
  BY <1>1 DEF Gate
<1> DEFINE S == {s \in Session : CwdOf[s] \in workspace.scopes}
<1>3. workspace.at # "none" => \A s \in Session : operation[s].kind = "none"
  BY DEF CoreInv, OneAtATime
<1>4. workspace.at \in {"none", "waiting"} => Exclusive = {s \in Session : AtFiles(s)}
  BY DEF Exclusive, AtFiles
<1>5. workspace'.at \in {"none", "waiting"} => Exclusive' = {s \in Session : AtFiles(s)}
  BY <1>1 DEF Exclusive, AtFiles
<1>6. CASE \E scopes \in (SUBSET Cwd) \ {{}}, force \in BOOLEAN : WorkspaceBegins(scopes, force)
  <2>1. PICK scopes \in (SUBSET Cwd) \ {{}}, force \in BOOLEAN : WorkspaceBegins(scopes, force)
    BY <1>6
  <2>2. /\ workspace.at = "none" /\ workspace'.at = "waiting"
        /\ runtime' = Collect({r \in Pending \cup Records : InScope(r, scopes)})
    BY <2>1 DEF WorkspaceBegins
  <2>3. {r \in Pending \cup Records : InScope(r, scopes)} \in SUBSET Occupied
    BY DEF Pending, Records, Occupied
  <2>4. Alive' = Alive
    BY <2>2, <2>3, AllCollected, AllKeptAreAlive
  <2> QED BY <1>2, <1>4, <1>5, <2>2, <2>4, Stutters
<1>7. CASE WorkspaceRuns \/ WorkspaceEnds
  <2>1. Alive' = Alive
    BY <1>7 DEF WorkspaceRuns, WorkspaceEnds, Alive, AliveRuntimes
  <2>2. CASE WorkspaceRuns /\ workspace'.at = "none"
    BY <1>2, <1>4, <1>5, <2>1, <2>2, Stutters DEF WorkspaceRuns
  <2>3. CASE WorkspaceRuns /\ workspace'.at # "none"
    <3>1. /\ workspace.at = "waiting" /\ waits[Workspace] = {} /\ ~failed[Workspace] /\ ~shuttingDown
          /\ workspace'.at = "running" /\ workspace'.scopes = workspace.scopes
      BY <2>3 DEF WorkspaceRuns, NoWorkspace, CoreInv, RegistryTypeOK
    <3>2. Gate # "closed"
      BY <3>1 DEF Gate, CoreInv, OneAtATime
    <3>3. Exclusive = {} /\ Exclusive' = S
      BY <1>1, <1>3, <3>1 DEF Exclusive
    <3>4. ASSUME NEW s \in S
          PROVE  Alive[s] = {}
      <4>1. \A r \in Occupied : runtime[r].session # s
        BY <3>1, <3>4 DEF CoreInv, StillAwaited, InScope
      <4> QED BY <4>1, NoneAlive
    <3> QED BY <1>2, <2>1, <3>2, <3>3, <3>4, Enters
  <2>4. CASE WorkspaceEnds
    <3>1. workspace.at = "running" /\ workspace'.at = "none"
      BY <2>4 DEF WorkspaceEnds, NoWorkspace
    <3>2. Exclusive = S /\ Exclusive' = {}
      BY <1>1, <1>3, <3>1 DEF Exclusive
    <3> QED BY <1>2, <2>1, <3>2, Leaves
  <2>5. WorkspaceRuns => workspace'.at = "none" \/ workspace'.at # "none"
    OBVIOUS
  <2> QED BY <1>7, <2>2, <2>3, <2>4
<1> QED BY <1>6, <1>7

\* A shutdown closes admission, and says that it has succeeded when nothing is left.
LEMMA ShutdownImplements ==
  ASSUME CoreInv, beginShutdown \/ ShutdownBegins \/ ShutdownEnds
  PROVE  OwnershipStep
<1>1. Alive' = Alive
  BY ShutdownSteps, AllKeptAreAlive
<1>2. UNCHANGED <<operation, workspace>>
  BY DEF beginShutdown, ShutdownBegins, ShutdownEnds
<1>3. Exclusive' = Exclusive
  BY <1>2 DEF Exclusive
<1>4. CASE beginShutdown \/ ShutdownBegins
  <2>1. Gate' = "closing" /\ Gate \in {"open", "closing"}
    BY <1>4 DEF beginShutdown, ShutdownBegins, Gate, CoreInv, OneAtATime
  <2> QED BY <1>1, <1>3, <2>1, Stutters, Closes
<1>5. CASE ShutdownEnds
  <2>1. /\ Gate = "closing" /\ waits[Shutdown] = {} /\ shutdown = "waiting"
        /\ workspace.at = "none" /\ \A s \in Session : operation[s].kind = "none"
        /\ UNCHANGED shuttingDown
        /\ shutdown' = IF failed[Shutdown] THEN "failed" ELSE "done"
    BY <1>5 DEF ShutdownEnds, Gate, CoreInv, OneAtATime, conflictingOperation
  <2>2. CASE failed[Shutdown]
    <3>1. Gate' = Gate
      BY <2>1, <2>2 DEF Gate
    <3> QED BY <1>1, <1>3, <3>1, Stutters
  <2>3. CASE ~failed[Shutdown]
    <3>1. Gate' = "closed" /\ Exclusive = {}
      BY <2>1, <2>3 DEF Gate, Exclusive
    <3>2. Occupied = {}
      BY <2>1, <2>3 DEF CoreInv, StillAwaited
    <3>3. \A s \in Session : Alive[s] = {}
      BY <3>2, NoneAlive
    <3> QED BY <1>1, <1>3, <2>1, <3>1, <3>3, IsClosed
  <2> QED BY <2>2, <2>3
<1> QED BY <1>4, <1>5

\* Every step of the registry is a step of its promise, or changes nothing of it.
LEMMA StepImplements == CoreInv /\ [RegistryNext]_registryVars => OwnershipStep
<1> SUFFICES ASSUME CoreInv, [RegistryNext]_registryVars
             PROVE  OwnershipStep
  OBVIOUS
<1>1. CASE UNCHANGED registryVars
  <2>1. Alive' = Alive /\ Exclusive' = Exclusive /\ Gate' = Gate
    BY <1>1 DEF registryVars, Alive, AliveRuntimes, Exclusive, Gate
  <2> QED BY <2>1, Stutters
<1>2. ASSUME AllKept, UNCHANGED <<operation, workspace, shuttingDown, shutdown>>
      PROVE  OwnershipStep
  BY <1>2, AllKeptAreAlive, ExclusiveKept, Stutters DEF Gate
<1>3. ASSUME NEW r \in Runtime,
             \/ OpenLive(r) \/ WorkBegins(r) \/ WorkEnds(r) \/ Answered(r)
             \/ RefreshFails(r) \/ IdleTimeout(r) \/ Stop(r)
             \/ \E prompt \in BOOLEAN : MutationBegins(r, prompt)
      PROVE  OwnershipStep
  <2>1. CASE Answered(r)
    BY <1>2, <2>1, FileWritten DEF Answered
  <2> QED BY <1>2, <1>3, <2>1, RecordSteps
<1>4. ASSUME NEW s \in Session, StopLingering(s)
      PROVE  OwnershipStep
  BY <1>2, <1>4, LingeringStopped DEF StopLingering
<1>5. CASE RegistryEnvironment
  BY <1>3, <1>4, <1>5, LaunchBeginningImplements, OperationBeginningImplements, WorkspaceImplements,
     ShutdownImplements
     DEF RegistryEnvironment
<1>6. ASSUME NEW s \in Session, OperationProceeds(s)
      PROVE  OwnershipStep
  BY <1>6, FilesImplement, RestartImplements DEF OperationProceeds
<1>7. CASE RegistryProceeds
  BY <1>6, <1>7, RuntimeImplements, WorkspaceImplements, ShutdownImplements
     DEF RegistryProceeds, WholeProceeds
<1>8. CASE beginShutdown
  BY <1>8, ShutdownImplements
<1> QED BY <1>1, <1>5, <1>7, <1>8 DEF RegistryNext

\* Nothing is alive, nothing is at the files, and the gate is open.
LEMMA InitImplements == RegistryInit => Ownership!OwnershipInit
BY DEF RegistryInit, Ownership!OwnershipInit, AliveRuntimes, Exclusive, Gate, Free, NoOperation, NoWorkspace

\* The registry keeps the promise of SessionOwnership.
THEOREM RegistryImplements == RegistrySpec => ImplementsOwnership
BY InitImplements, StepImplements, RegistryCorrect, PTL
   DEF RegistrySpec, ImplementsOwnership, Ownership!OwnershipSpec, OwnershipStep

\* So it does while a restart of the server closes admission whenever it likes.
THEOREM RestartImplementsOwnership == RestartSpec => ImplementsOwnership
BY InitImplements, StepImplements, RestartStepsAreRegistrySteps, RestartCorrect, PTL
   DEF RestartSpec, RestartInit, ImplementsOwnership, Ownership!OwnershipSpec, OwnershipStep
=============================================================================
