----------------------------- MODULE TimelineSync -----------------------------
(***************************************************************************)
(* One viewed agent: its timeline in the daemon, the socket, and the       *)
(* client that keeps a copy of the timeline by live events and pages       *)
(* (selective delivery; the agent stays visible and the app active).       *)
(***************************************************************************)
EXTENDS TimelineReducer

CONSTANTS MaxRows,          \* rows an epoch may reach
          MaxEpoch,         \* epochs: replacements of the timeline
          MaxFaults         \* losses of the connection, requests and subscriptions that fail

ASSUME BoundsAssumption == {MaxRows, MaxEpoch, MaxFaults} \subseteq Nat /\ MaxEpoch >= 1

VARIABLES
  store,                    \* the daemon's timeline store
  subscribed,               \* viewedTimelineAgentIdsBySource has the agent
  connected,                \* the client's connection
  subscription,             \* setSubscription: "none", "asked", "acked", "failed"
  asked,                    \* requests on their way to the daemon, in order; "waited" or given up
  down,                     \* messages on their way to the client, in order
  stream,                   \* live rows the client has queued for the next frame
  timeline,                 \* the client's timeline of the agent
  cached,                   \* replica.cachedRanges: span of the local cache, until synced
  stored,                   \* the span the local cache holds on disk
  forced,                   \* forcedTimelineTailReplacements has the agent
  catchUp,                  \* the catch-up of the agent
  faults,                   \* faults so far
  lapsed                    \* history: on this connection, a notice's tail has failed alone

server == <<store, subscribed>>
client == <<timeline, cached, stored, forced, catchUp, stream>>
vars == <<store, subscribed, connected, subscription, asked, down, client, faults, lapsed>>

Live == connected /\ subscription = "acked"
ReadCursor(t, c) == IF c # NoSpan THEN c ELSE IF t.synced THEN t.range ELSE NoSpan

Event(row) == [type |-> "event", row |-> row]
Ack(waited) == [type |-> "ack", waited |-> waited]
Notice == [type |-> "notice"]
Answer(page, waited) == [type |-> "page", page |-> page, waited |-> waited]
Ask(request) == [request |-> request, waited |-> TRUE]
Subscribe == Request("subscribe", 0, 0)

Init ==
  /\ store \in { Store(1, n) : n \in 0..MaxRows }
  /\ stored \in {NoSpan} \union { Span(1, 1, n) : n \in 1..store.last }
  /\ subscribed = FALSE /\ connected = FALSE /\ subscription = "none"
  /\ asked = <<>> /\ down = <<>> /\ stream = <<>>
  /\ timeline = NewTimeline /\ cached = NoSpan /\ forced = FALSE
  /\ catchUp = CacheWanted(NewCatchUp)
  /\ faults = 0 /\ lapsed = FALSE

-----------------------------------------------------------------------------
(* What new fetches do: their requests go out, and they open an            *)
(* initialisation or a forced tail.                                        *)
SentBy(c) == [i \in DOMAIN c.sent |-> Ask(c.sent[i])]
Settled(c) == [c EXCEPT !.sent = <<>>]
InitializedBy(t, before, after) ==
  IF \E f \in after \ before : f.kind = "page"
  THEN Initializing(t, (CHOOSE f \in after \ before : f.kind = "page").request)
  ELSE t
ForcedBy(before, after) == \E f \in after \ before : f.kind = "latest"

(* A catch_up side effect: recoverGap.                                     *)
Recovered(c, request, span) ==
  IF request = NoRequest THEN c ELSE Started(c, Live, request, span)

(* flushAgent: the queued rows are applied, then their gaps recovered.     *)
Flushed == BatchApplied(timeline, stream)
FlushedCatchUp(span) ==
  LET requests == Flushed.recoveries
      after[i \in 0..Len(requests)] ==
        IF i = 0 THEN catchUp ELSE Recovered(after[i - 1], requests[i], span)
  IN after[Len(requests)]
CachedAfter(t, c) == IF t.synced THEN NoSpan ELSE c

(* Whoever waited for an answer goes on, older generations first: once a   *)
(* fetch of the latest tail has completed the entry, a page that waited    *)
(* for the same answer no longer owns it.                                  *)
Continued(c, waiting, page, span) ==
  LET owners == { f \in waiting : f.owner }
      latest == { f \in waiting : f.kind = "latest" }
      first == IF page.error \/ latest = {} THEN owners ELSE latest
      f == CHOOSE g \in first : TRUE
  IN IF first = {} THEN c
     ELSE IF page.error THEN Failed(c, f) ELSE Resumed(c, f, Live, page, span)

-----------------------------------------------------------------------------
(* The daemon.                                                             *)
Append1 ==
  /\ store.last < MaxRows
  /\ store' = [store EXCEPT !.last = @ + 1]
  /\ down' = IF subscribed THEN Append(down, Event(Row(store.epoch, store'.last))) ELSE down
  /\ UNCHANGED <<subscribed, connected, subscription, asked, client, faults, lapsed>>

(* The timeline is read again from the provider: a new epoch, whose rows   *)
(* are broadcast, or of which the subscribers are told (a rewind).         *)
Replace ==
  /\ store.epoch < MaxEpoch
  /\ \E last \in 0..MaxRows, broadcast \in BOOLEAN :
       /\ store' = Store(store.epoch + 1, last)
       /\ down' = IF ~subscribed THEN down
                  ELSE IF broadcast
                  THEN down \o [s \in 1..last |-> Event(Row(store.epoch + 1, s))]
                  ELSE Append(down, Notice)
  /\ UNCHANGED <<subscribed, connected, subscription, asked, client, faults, lapsed>>

(* Requests are handled in the order they were sent in.                    *)
HandleSubscribe ==
  /\ asked # <<>> /\ Head(asked).request = Subscribe
  /\ asked' = Tail(asked)
  /\ down' = Append(down, Ack(Head(asked).waited))
  /\ subscribed' = TRUE
  /\ UNCHANGED <<store, connected, subscription, client, faults, lapsed>>

(* No catch-up works with the answer to a tail: whoever waits for it is    *)
(* told of a failure, and asks no more (requestTimelineReplacement).       *)
NobodyRetries(request) ==
  request = TailFetch /\ ~\E f \in catchUp.fetches : f.request = request /\ f.owner

(* Any of them may fail.                                                   *)
HandleFetch ==
  /\ asked # <<>> /\ Head(asked).request # Subscribe
  /\ asked' = Tail(asked)
  /\ LET a == Head(asked)
     IN \/ /\ down' = Append(down, Answer(PageAnswered(store, a.request), a.waited))
           /\ faults' = faults /\ lapsed' = lapsed
        \/ /\ faults < MaxFaults /\ faults' = faults + 1
           /\ down' = Append(down, Answer(ErrorPage(a.request), a.waited))
           /\ lapsed' = (lapsed \/ (a.waited /\ NobodyRetries(a.request)))
  /\ UNCHANGED <<store, subscribed, connected, subscription, client>>

-----------------------------------------------------------------------------
(* The client's connection.                                                *)
Connect ==
  /\ ~connected
  /\ connected' = TRUE /\ subscription' = "asked"
  /\ asked' = Append(asked, Ask(Subscribe))
  /\ UNCHANGED <<server, down, client, faults, lapsed>>

(* The socket is lost: its requests fail, the client cancels the catch-up, *)
(* the daemon forgets the subscription.  Rows already queued stay.         *)
Disconnect ==
  /\ connected /\ faults < MaxFaults
  /\ faults' = faults + 1
  /\ connected' = FALSE /\ subscription' = "none"
  /\ subscribed' = FALSE /\ asked' = <<>> /\ down' = <<>>
  /\ catchUp' = [Cancelled(catchUp) EXCEPT !.fetches = {}, !.shown = "pending"]
  /\ timeline' = [timeline EXCEPT !.init = "none"]
  /\ forced' = FALSE /\ lapsed' = FALSE
  /\ UNCHANGED <<store, cached, stored, stream>>

(* The client stops waiting for the answers of a request that are still to *)
(* come, or on their way.                                                  *)
GivenUp(request) ==
  [i \in DOMAIN asked |->
     IF asked[i].request = request THEN [asked[i] EXCEPT !.waited = FALSE] ELSE asked[i]]
Unawaited(request) ==
  [i \in DOMAIN down |->
     IF down[i].type = "page" /\ down[i].page.request = request
     THEN [down[i] EXCEPT !.waited = FALSE] ELSE down[i]]

(* setSubscription gives up waiting, and is called again later.            *)
SubscriptionFails ==
  /\ subscription = "asked" /\ faults < MaxFaults
  /\ subscription' = "failed" /\ faults' = faults + 1
  /\ asked' = GivenUp(Subscribe)
  /\ down' = [i \in DOMAIN down |-> IF down[i].type = "ack" THEN Ack(FALSE) ELSE down[i]]
  /\ catchUp' = [catchUp EXCEPT !.shown = "error"]
  /\ UNCHANGED <<server, connected, timeline, cached, stored, forced, stream, lapsed>>

(* sendRequest gives up a request after a minute: whoever waited for it    *)
(* fails, the catch-up to try again, a replacement's tail for good; a late *)
(* answer is applied all the same.  The initialisation the fetch opened is *)
(* rejected.                                                               *)
FetchTimesOut ==
  /\ faults < MaxFaults /\ faults' = faults + 1
  /\ \E request \in { f.request : f \in catchUp.fetches } :
       LET waiting == { f \in catchUp.fetches : f.request = request }
           page == \E f \in waiting : f.kind = "page"
           rest == [catchUp EXCEPT !.fetches = @ \ waiting]
       IN /\ \/ \E owner \in waiting : owner.owner /\ catchUp' = Failed(rest, owner)
             \/ (\A f \in waiting : ~f.owner) /\ catchUp' = rest
          /\ lapsed' = (lapsed \/ NobodyRetries(request))
          /\ asked' = GivenUp(request)
          /\ down' = Unawaited(request)
          /\ forced' = (forced /\ \A f \in waiting : f.kind # "latest")
          /\ \/ page /\ timeline' = [timeline EXCEPT !.init = "none"]
             \/ (timeline.synced \/ ~page) /\ timeline' = timeline
  /\ UNCHANGED <<server, connected, subscription, cached, stored, stream>>

RetrySubscription ==
  /\ subscription = "failed"
  /\ subscription' = "asked"
  /\ asked' = Append(asked, Ask(Subscribe))
  /\ UNCHANGED <<server, connected, down, client, faults, lapsed>>

-----------------------------------------------------------------------------
(* The client's handlers.                                                  *)
ReceiveEvent ==
  /\ down # <<>> /\ Head(down).type = "event"
  /\ down' = Tail(down)
  /\ stream' = Append(stream, Head(down).row)
  /\ UNCHANGED <<server, connected, subscription, asked, timeline, cached, stored, forced, catchUp, faults, lapsed>>

Flush ==
  /\ stream # <<>>
  /\ LET t == Flushed.timeline
         c == FlushedCatchUp(ReadCursor(t, CachedAfter(t, cached)))
     IN /\ catchUp' = Settled(c)
        /\ timeline' = InitializedBy(t, catchUp.fetches, c.fetches)
        /\ cached' = CachedAfter(t, cached)
        /\ asked' = asked \o SentBy(c)
  /\ stream' = <<>>
  /\ UNCHANGED <<server, connected, subscription, down, stored, forced, faults, lapsed>>

ReceiveAck ==
  /\ down # <<>> /\ Head(down).type = "ack"
  /\ down' = Tail(down)
  /\ IF Head(down).waited
     THEN LET c == Started(catchUp, TRUE, catchUp.pending, ReadCursor(timeline, cached))
          IN /\ subscription' = "acked"
             /\ catchUp' = Settled(c)
             /\ timeline' = InitializedBy(timeline, catchUp.fetches, c.fetches)
             /\ asked' = asked \o SentBy(c)
     ELSE UNCHANGED <<subscription, catchUp, timeline, asked>>
  /\ UNCHANGED <<server, connected, cached, stored, forced, stream, faults, lapsed>>

(* requestTimelineReplacement: one tail, not tried again when it fails.    *)
ReceiveNotice ==
  /\ down # <<>> /\ Head(down).type = "notice"
  /\ down' = Tail(down)
  /\ LET c == Launched(catchUp, Fetch("notice", TailFetch, FALSE, FALSE))
     IN /\ catchUp' = Settled(c)
        /\ asked' = asked \o SentBy(c)
  /\ UNCHANGED <<server, connected, subscription, timeline, cached, stored, forced, stream, faults, lapsed>>

(* A page: the queued rows first, then the page, then whoever still waits  *)
(* for the answer goes on.                                                 *)
ReceivePage ==
  /\ down # <<>> /\ Head(down).type = "page"
  /\ down' = Tail(down) /\ stream' = <<>>
  /\ LET sent == Head(down).page
         forcing == forced /\ sent.dir = "tail"
         page == [sent EXCEPT !.reset = @ \/ forcing]
         t1 == Flushed.timeline
         c1 == FlushedCatchUp(ReadCursor(t1, CachedAfter(t1, cached)))
         t2 == PageApplied(t1, CachedAfter(t1, cached), page)
         span == ReadCursor(t2, CachedAfter(t2, CachedAfter(t1, cached)))
         c2 == Recovered(c1, PageRecovery(t1, CachedAfter(t1, cached), page),
                         ReadCursor(t2, CachedAfter(t1, cached)))
         resumed == { f \in c2.fetches : Head(down).waited /\ f.request = sent.request }
         rest == c2.fetches \ resumed
         idle == [c2 EXCEPT !.fetches = rest]
         c3 == Continued(idle, resumed, sent, span)
     IN /\ catchUp' = Settled(c3)
        /\ asked' = asked \o SentBy(c3)
        /\ timeline' = InitializedBy(t2, rest, c3.fetches)
        /\ cached' = IF page.error THEN CachedAfter(t1, cached) ELSE CachedAfter(t2, CachedAfter(t1, cached))
        /\ forced' = IF \E f \in resumed : f.kind = "latest" THEN FALSE
                     ELSE (forced /\ ~forcing) \/ ForcedBy(rest, c3.fetches)
  /\ UNCHANGED <<server, connected, subscription, stored, faults, lapsed>>

(* A failed catch-up is started again: by its timer, resuming from the     *)
(* span that is held, or by the user, repeating the request that failed.   *)
StartedAgain(request) ==
  /\ RetryDue(catchUp)
  /\ LET c == Started(catchUp, Live, request, ReadCursor(timeline, cached))
     IN /\ catchUp' = Settled(c)
        /\ timeline' = InitializedBy(timeline, catchUp.fetches, c.fetches)
        /\ asked' = asked \o SentBy(c)
  /\ UNCHANGED <<server, connected, subscription, down, cached, stored, forced, stream, faults, lapsed>>

Retry == StartedAgain(NoRequest)
UserRetry == StartedAgain(catchUp.request)

LoadCache ==
  /\ catchUp.cache = "loading"
  /\ LET t == Painted(timeline, stored)
         span == IF timeline.synced THEN cached ELSE stored
         c == CacheLoaded(catchUp, Live, ReadCursor(t, span))
     IN /\ cached' = span
        /\ catchUp' = Settled(c)
        /\ timeline' = InitializedBy(t, catchUp.fetches, c.fetches)
        /\ asked' = asked \o SentBy(c)
  /\ UNCHANGED <<server, connected, subscription, down, stored, forced, stream, faults, lapsed>>

DaemonAnswers == HandleSubscribe \/ HandleFetch
Receive == ReceiveEvent \/ ReceiveAck \/ ReceiveNotice \/ ReceivePage
ClientContinues == Connect \/ RetrySubscription \/ Flush \/ Retry \/ LoadCache

Next ==
  \/ Append1 \/ Replace \/ DaemonAnswers
  \/ Disconnect \/ SubscriptionFails \/ FetchTimesOut
  \/ Receive \/ ClientContinues

(* Weak fairness of the three, each with its enabling condition written    *)
(* out: the daemon answers, the socket delivers, and the client's frames,  *)
(* timers and reconnect loop run.                                          *)
ClientWaits ==
  /\ connected /\ subscription # "failed" /\ stream = <<>>
  /\ ~RetryDue(catchUp) /\ catchUp.cache # "loading"
Fairness ==
  /\ []<>(asked = <<>>) \/ []<><<DaemonAnswers>>_vars
  /\ []<>(down = <<>>) \/ []<><<Receive>>_vars
  /\ []<>ClientWaits \/ []<><<ClientContinues>>_vars

Spec == Init /\ [][Next]_vars
FairSpec == Spec /\ Fairness
(* With a user who does not wait for the retry.                            *)
RetrySpec == Init /\ [][Next \/ UserRetry]_vars

-----------------------------------------------------------------------------
Spans == [epoch : 0..MaxEpoch, from : 0..MaxRows, to : 0..MaxRows]

TypeOK ==
  /\ store \in [epoch : 1..MaxEpoch, last : 0..MaxRows]
  /\ subscribed \in BOOLEAN /\ connected \in BOOLEAN /\ forced \in BOOLEAN /\ lapsed \in BOOLEAN
  /\ subscription \in {"none", "asked", "acked", "failed"}
  /\ timeline.range \in Spans /\ cached \in Spans /\ stored \in Spans
  /\ timeline.rows \subseteq [epoch : 1..MaxEpoch, seq : 1..MaxRows]
  /\ timeline.init \in {"none", "tail", "after"}
  /\ catchUp.status \in {"none", "running", "complete", "error"}
  /\ catchUp.shown \in {"pending", "error", "ready"}
  /\ \A f, g \in catchUp.fetches : f.owner /\ g.owner => f = g

(* An authoritative timeline shows every row of its range and, of that     *)
(* epoch, no row past its end: live rows painted before the first page,    *)
(* late pages and missed rows are never counted in over a gap.             *)
NoHole ==
  LET seqs == { r.seq : r \in { x \in timeline.rows : x.epoch = timeline.range.epoch } }
  IN timeline.synced /\ timeline.range # NoSpan =>
       /\ timeline.range.from..timeline.range.to \subseteq seqs
       /\ \A s \in seqs : s <= timeline.range.to

(* The client's exception: the one tail that a replacement notice makes it *)
(* fetch has failed, with no catch-up waiting for the same answer, and the *)
(* client keeps the timeline that was replaced until it hears of the new   *)
(* one some other way (a row, a catch-up, or a new connection).            *)
Unreplaced == lapsed /\ timeline.range.epoch # store.epoch

(* A catch-up that is complete, with nothing in flight, missed nothing,    *)
(* but for that exception: once the rows on their way are applied the      *)
(* client is at the daemon's end.                                          *)
EventsOf(messages) ==
  LET rows[i \in 0..Len(messages)] ==
        IF i = 0 THEN <<>>
        ELSE IF messages[i].type = "event" THEN Append(rows[i - 1], messages[i].row) ELSE rows[i - 1]
  IN rows[Len(messages)]
AtEnd(t) ==
  /\ t.synced /\ ~t.newer
  /\ IF t.range = NoSpan THEN store.last = 0
     ELSE IF t.range.epoch # store.epoch THEN store.last = 0
     ELSE t.range.to = store.last
CompleteMissedNothing ==
  (Live /\ catchUp.status = "complete" /\ catchUp.fetches = {}
     /\ (\A i \in DOMAIN down : down[i].type # "notice") /\ ~Unreplaced)
  => AtEnd(BatchApplied(timeline, stream \o EventsOf(down)).timeline)

(* Within an epoch the client's end never moves back, whatever late page   *)
(* is applied.                                                             *)
EndNeverRetreats ==
  [][(timeline.synced /\ timeline'.synced /\ timeline.range.epoch = timeline'.range.epoch)
     => timeline'.range.to >= timeline.range.to]_vars

(* The client ends up at the daemon's end, and says so, unless it is left  *)
(* with a replaced timeline by the same exception.                         *)
Current == connected /\ AtEnd(timeline) /\ catchUp.shown = "ready"
BecomesCurrent == <>[](Current \/ Unreplaced)
=============================================================================
