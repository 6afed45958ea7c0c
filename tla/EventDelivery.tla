---------------------------- MODULE EventDelivery ----------------------------
(***************************************************************************)
(* One physical event stream between a page and the server                 *)
(* (webui/src/api/event-connection.ts, web/event-channel.ts): every view   *)
(* of the page subscribes to a source of its own; the page PUTs the whole  *)
(* set of its subscriptions, one request at a time, and the server opens   *)
(* and retires sources until it agrees.  A source begins with a snapshot   *)
(* of what it is about and may end or fail; the stream may be lost.        *)
(***************************************************************************)
EXTENDS Naturals, Sequences, FiniteSets

CONSTANTS
  View,       \* views of the page; each subscribes once
  MaxEnds,    \* bound on the sources that end or cannot be opened
  MaxLosses   \* bound on the streams and requests that are lost

ASSUME EventAssumption == MaxEnds \in Nat /\ MaxLosses \in Nat

\* page: the views that are subscribed (wanted), those whose stream has ended,
\* those with a timer to ask again, the stream (link), the PUT under way and
\* whether subscriptions have changed since it was written; view: the source
\* whose snapshot a view has last been given, and that of its last event;
\* channel: the server's end, with the source of every subscription; pipe: the
\* frames on their way.
VARIABLES page, view, channel, pipe, opened, ends, losses

eventVars == <<page, view, channel, pipe, opened, ends, losses>>

NoPut == [at |-> "none", set |-> {}]
NoSource == [source |-> 0, at |-> "none"]
NoChannel == [open |-> FALSE, serves |-> [v \in View |-> NoSource]]

EventInit ==
  /\ page = [life |-> [v \in View |-> "new"], ended |-> {}, retrying |-> {}, link |-> "none",
             put |-> NoPut, changed |-> FALSE]
  /\ view = [v \in View |-> [snapshot |-> 0, latest |-> 0]]
  /\ channel = NoChannel
  /\ pipe = <<>>
  /\ opened = 0 /\ ends = 0 /\ losses = 0

Wanted(p) == {v \in View : p.life[v] = "wanted"}
Served == {v \in View : channel.serves[v] # NoSource}

-----------------------------------------------------------------------------
\* The page.

\* sync: one request at a time, with every subscription that has not ended.
Synced(p) ==
  IF p.link = "open" /\ p.put = NoPut
  THEN [p EXCEPT !.put = [at |-> "sent", set |-> Wanted(p) \ p.ended], !.changed = FALSE]
  ELSE [p EXCEPT !.changed = TRUE]

Stopped(p) == [p EXCEPT !.link = "none", !.put = NoPut, !.retrying = {}]

\* Every view hears that the connection is lost; a timer starts it again.
Reconnects(p) == [Stopped(p) EXCEPT !.link = IF Wanted(p) = {} THEN "none" ELSE "waiting"]

Subscribe(v) ==
  /\ page.life[v] = "new"
  /\ LET p == [page EXCEPT !.life[v] = "wanted", !.link = IF @ = "none" THEN "connecting" ELSE @]
     IN page' = Synced(p)
  /\ UNCHANGED <<view, channel, pipe, opened, ends, losses>>

\* Without a view there is no stream.
Unsubscribe(v) ==
  /\ page.life[v] = "wanted"
  /\ LET p == [page EXCEPT !.life[v] = "gone", !.retrying = @ \ {v}, !.ended = @ \ {v}]
     IN IF Wanted(p) = {}
        THEN page' = Stopped(p) /\ channel' = NoChannel /\ pipe' = <<>>
        ELSE page' = Synced(p) /\ UNCHANGED <<channel, pipe>>
  /\ UNCHANGED <<view, opened, ends, losses>>

Starts ==
  /\ page.link = "waiting"
  /\ page' = [page EXCEPT !.link = "connecting"]
  /\ UNCHANGED <<view, channel, pipe, opened, ends, losses>>

\* The server opens a channel and the page hears of it, before anything else can
\* be said about it.
Connected ==
  /\ page.link = "connecting"
  /\ channel' = [NoChannel EXCEPT !.open = TRUE]
  /\ pipe' = <<>>
  /\ page' = Synced([page EXCEPT !.link = "open", !.ended = {}])
  /\ UNCHANGED <<view, opened, ends, losses>>

\* A stream that errs, that cannot be opened, or that is silent for too long; a
\* request that times out.
StreamLost ==
  /\ page.link \in {"connecting", "open"}
  /\ losses < MaxLosses
  /\ losses' = losses + 1
  /\ page' = Reconnects(page)
  /\ channel' = NoChannel /\ pipe' = <<>>
  /\ UNCHANGED <<view, opened, ends>>

\* The page hears that the channel is no more.
ClosureHeard ==
  /\ page.link = "open" /\ ~channel.open
  /\ page' = Reconnects(page)
  /\ UNCHANGED <<view, channel, pipe, opened, ends, losses>>

\* Mutant: an answer does not look at what has changed since the request.
MutantPutAnswered ==
  /\ page.put.at = "applied"
  /\ page' = [page EXCEPT !.put = NoPut]
  /\ UNCHANGED <<view, channel, pipe, opened, ends, losses>>

PutAnswered ==
  /\ page.put.at = "applied"
  /\ LET p == [page EXCEPT !.put = NoPut]
     IN page' = IF p.changed THEN Synced(p) ELSE p
  /\ UNCHANGED <<view, channel, pipe, opened, ends, losses>>

PutRefused ==
  /\ page.put.at = "refused"
  /\ page' = Reconnects(page)
  /\ channel' = NoChannel /\ pipe' = <<>>
  /\ UNCHANGED <<view, opened, ends, losses>>

\* The view's timer: it counts as subscribed again.
RetryView(v) ==
  /\ v \in page.retrying
  /\ page' = Synced([page EXCEPT !.retrying = @ \ {v}, !.ended = @ \ {v}])
  /\ UNCHANGED <<view, channel, pipe, opened, ends, losses>>

\* What a frame says to its view: nothing, if it is gone or its stream has ended.
FrameArrives ==
  /\ pipe # <<>> /\ page.link = "open"
  /\ pipe' = Tail(pipe)
  /\ LET frame == Head(pipe)
         v == frame.view
         hears == v \in Wanted(page) \ page.ended
     IN CASE hears /\ frame.type = "end" ->
               /\ page' = [page EXCEPT !.ended = @ \cup {v}, !.retrying = @ \cup {v}]
               /\ UNCHANGED view
          [] hears /\ frame.type = "snapshot" ->
               /\ view' = [view EXCEPT ![v] = [snapshot |-> frame.source, latest |-> frame.source]]
               /\ UNCHANGED page
          [] hears /\ frame.type = "event" ->
               /\ view' = [view EXCEPT ![v].latest = frame.source]
               /\ UNCHANGED page
          [] OTHER -> UNCHANGED <<page, view>>
  /\ UNCHANGED <<channel, opened, ends, losses>>

-----------------------------------------------------------------------------
\* The server.

Frame(type, v) == [type |-> type, view |-> v, source |-> channel.serves[v].source]

\* replace: sources that are not asked for are retired, new ones opened; one
\* that cannot be is reported as ended.
PutArrives ==
  /\ page.put.at = "sent" /\ channel.open
  /\ LET new == page.put.set \ Served
     IN \E failing \in {{}} \cup {{v} : v \in new} :
          /\ ends + Cardinality(failing) <= MaxEnds
          /\ ends' = ends + Cardinality(failing)
          /\ opened' = IF new \subseteq failing THEN opened ELSE opened + 1
          /\ channel' = [channel EXCEPT !.serves =
               [v \in View |-> CASE v \in new \ failing -> [source |-> opened', at |-> "opened"]
                                 [] v \in page.put.set \ new -> @[v]
                                 [] OTHER -> NoSource]]
          /\ \/ failing = {} /\ pipe' = pipe
             \/ \E v \in failing : pipe' = Append(pipe, [type |-> "end", view |-> v, source |-> 0])
  /\ page' = [page EXCEPT !.put.at = "applied"]
  /\ UNCHANGED <<view, losses>>

PutFindsNothing ==
  /\ page.put.at = "sent" /\ ~channel.open
  /\ page' = [page EXCEPT !.put.at = "refused"]
  /\ UNCHANGED <<view, channel, pipe, opened, ends, losses>>

SnapshotSent(v) ==
  /\ channel.serves[v].at = "opened"
  /\ pipe' = Append(pipe, Frame("snapshot", v))
  /\ channel' = [channel EXCEPT !.serves[v].at = "live"]
  /\ UNCHANGED <<page, view, opened, ends, losses>>

\* One event of a source stands for all of them.
EventSent(v) ==
  /\ channel.serves[v].at = "live"
  /\ pipe' = Append(pipe, Frame("event", v))
  /\ channel' = [channel EXCEPT !.serves[v].at = "sent"]
  /\ UNCHANGED <<page, view, opened, ends, losses>>

\* It completes, it cannot be hydrated, or a frame of it is too large.
SourceEnds(v) ==
  /\ v \in Served
  /\ ends < MaxEnds
  /\ ends' = ends + 1
  /\ pipe' = Append(pipe, Frame("end", v))
  /\ channel' = [channel EXCEPT !.serves[v] = NoSource]
  /\ UNCHANGED <<page, view, opened, losses>>

\* A page that reads too slowly, or a server that closes: what is queued is gone.
ChannelCloses ==
  /\ channel.open
  /\ losses < MaxLosses
  /\ losses' = losses + 1
  /\ channel' = NoChannel /\ pipe' = <<>>
  /\ UNCHANGED <<page, view, opened, ends>>

EventProceeds ==
  \/ Starts \/ Connected \/ ClosureHeard \/ PutAnswered \/ PutRefused \/ FrameArrives
  \/ PutArrives \/ PutFindsNothing
  \/ \E v \in View : RetryView(v) \/ SnapshotSent(v)

EventNext ==
  \/ EventProceeds \/ StreamLost \/ ChannelCloses
  \/ \E v \in View : Subscribe(v) \/ Unsubscribe(v) \/ EventSent(v) \/ SourceEnds(v)

\* Timers fire and requests, frames and snapshots arrive; nobody need subscribe,
\* and nothing need be lost or end.
EventSpec == EventInit /\ [][EventNext]_eventVars /\ WF_eventVars(EventProceeds)

-----------------------------------------------------------------------------
\* Type correctness of the page's state, the server's and what is between them.
EventTypeOK ==
  /\ page \in [life : [View -> {"new", "wanted", "gone"}], ended : SUBSET View,
               retrying : SUBSET View, link : {"none", "connecting", "open", "waiting"},
               put : [at : {"none", "sent", "applied", "refused"}, set : SUBSET View],
               changed : BOOLEAN]
  /\ view \in [View -> [snapshot : Nat, latest : Nat]]
  /\ channel \in [open : BOOLEAN,
                  serves : [View -> [source : Nat, at : {"none", "opened", "live", "sent"}]]]
  /\ pipe \in Seq([type : {"snapshot", "event", "end"}, view : View, source : Nat])
  /\ opened \in Nat /\ ends \in 0..MaxEnds /\ losses \in 0..MaxLosses

\* Through lost streams, requests and channels, sources that end, and views that
\* come and go while a request is under way, the server ends up with a source for
\* every view there is and for no other, and the page listens to all of them.
SubscriptionsConverge == <>[](Served = Wanted(page) /\ page.ended = {})

\* When nothing is on its way between them, the two ends agree, but for the views
\* that wait for their timers: a change made while a request was under way is not
\* forgotten, and no source runs on for a view that is gone (sync, replace).
EndsAgreeAtRest ==
  page.link = "open" /\ channel.open /\ page.put = NoPut /\ pipe = <<>> =>
    Served \subseteq Wanted(page) /\ Wanted(page) \subseteq Served \cup page.retrying

\* A view that follows the events of a source has been given the snapshot they
\* build upon.
EventsFollowTheirSnapshot == \A v \in View : view[v].latest = view[v].snapshot

\* So it has, as long as no source has ended: what reconnects, unsubscribes or
\* asks for other views does not make it miss the snapshot.
UnendedSourcesAreFollowed == ends = 0 => EventsFollowTheirSnapshot
=============================================================================
