------------------------- MODULE TimelineSyncProofs -------------------------
(***************************************************************************)
(* The client's timeline never has a hole, and its end never retreats, for *)
(* any page size, number of rows, epochs and faults.  The argument is one  *)
(* of order: rows and answers travel in the order in which the store has   *)
(* made them (InOrder), and what the client holds is behind everything     *)
(* that is still on its way (Behind), so that a page it applies is never   *)
(* older than what it has.  Beside it, every request under way, parked or  *)
(* kept by a fetch goes on from a row the client knows (RequestOK), so     *)
(* that a page is a tail, a reset or begins no later than where it joins.  *)
(***************************************************************************)
EXTENDS TimelineSync, SequenceTheorems, WellFoundedInduction, TLAPS

Rows == [epoch : 1..MaxEpoch, seq : 1..MaxRows]
Requests == {TailFetch} \union [dir : {"after"}, epoch : 1..MaxEpoch, seq : 1..MaxRows]
Fetches == [kind : {"page", "latest", "notice"}, request : Requests, owner : BOOLEAN, fallback : BOOLEAN]
CatchUps == [status : {"none", "running", "complete", "error"}, request : Requests \union {NoRequest},
             fetches : SUBSET Fetches, pending : Requests \union {NoRequest},
             cache : {"no", "loading", "yes"}, shown : {"pending", "error", "ready"},
             sent : Seq(Requests)]
Pages == [request : Requests, dir : {"tail", "after"}, epoch : 0..MaxEpoch, reset : BOOLEAN,
          from : 0..MaxRows, to : 0..MaxRows, max : 0..MaxRows, hasNewer : BOOLEAN, error : BOOLEAN]
Messages == { Event(r) : r \in Rows } \union { Ack(w) : w \in BOOLEAN } \union {Notice}
              \union { Answer(p, TRUE) : p \in Pages } \union { Answer(p, FALSE) : p \in Pages }
Timelines == [synced : BOOLEAN, range : Spans, newer : BOOLEAN, rows : SUBSET Rows,
              init : {"none", "tail", "after"}]
Stores == [epoch : 1..MaxEpoch, last : 0..MaxRows]

\* The order of rows: epochs, then sequence numbers.
Before(p, q) == p.epoch < q.epoch \/ (p.epoch = q.epoch /\ p.seq < q.seq)
UpTo(p, q) == p.epoch < q.epoch \/ (p.epoch = q.epoch /\ p.seq <= q.seq)

EndOf(span) == Row(span.epoch, span.to)
StoreEnd(st) == Row(st.epoch, st.last)
Top(page) == Row(page.epoch, page.max)
Position(request) == Row(request.epoch, request.seq)

\* Row p is older than what message m brings.
Precedes(p, m) ==
  /\ m.type = "event" => Before(p, m.row)
  /\ m.type = "page" /\ ~m.page.error => UpTo(p, Top(m.page))
Behind(p, st, s, d) ==
  /\ UpTo(p, StoreEnd(st))
  /\ \A i \in DOMAIN s : Before(p, s[i])
  /\ \A i \in DOMAIN d : Precedes(p, d[i])

\* The newest row a message brings, and the row its sender was asked to go on from.
Brings(m) ==
  IF m.type = "event" THEN {m.row}
  ELSE IF m.type = "page" /\ ~m.page.error THEN {Top(m.page)} ELSE {}
AsksAfter(m) ==
  IF m.type = "page" /\ m.page.dir = "after" THEN {Position(m.page.request)} ELSE {}

\* What is on its way is in order.
InOrder(st, s, d) ==
  /\ \A i \in DOMAIN s : /\ UpTo(s[i], StoreEnd(st))
                         /\ \A k \in DOMAIN s : i < k => Before(s[i], s[k])
                         /\ \A k \in DOMAIN d : Precedes(s[i], d[k])
  /\ \A i \in DOMAIN d :
       /\ \A p \in Brings(d[i]) : /\ UpTo(p, StoreEnd(st))
                                  /\ \A k \in DOMAIN d : i < k => Precedes(p, d[k])
       /\ \A p \in AsksAfter(d[i]) : \A k \in DOMAIN d : k < i => Precedes(p, d[k])

\* A page is what the store of its time answers to its request.
Shaped(page) ==
  /\ page.dir = page.request.dir
  /\ \/ page.from = 0 /\ page.to = 0
     \/ 1 <= page.from /\ page.from <= page.to /\ page.to <= page.max
  /\ page.hasNewer <=> ~page.reset /\ page.dir = "after" /\ page.from # 0 /\ page.to < page.max
  /\ page.dir = "tail" \/ page.reset =>
       IF page.from = 0 THEN page.max = 0 ELSE page.to = page.max
  /\ IF page.error THEN ~page.hasNewer ELSE page.epoch >= 1
  /\ page.dir = "after" /\ ~page.reset /\ ~page.error =>
       /\ page.epoch = page.request.epoch
       /\ IF page.from = 0 THEN page.max <= page.request.seq ELSE page.from = page.request.seq + 1

\* An authoritative timeline that holds nothing, and one that is not yet authoritative.
Empty(t) == t.synced /\ t.range = NoSpan

\* A request for the rows after some row: one the client knows; the cached one before
\* the timeline is authoritative; of an old epoch when nothing is held.
RequestOK(r, t, k, st, s, d) ==
  r.dir = "after" => /\ Behind(Position(r), st, s, d)
                     /\ ~t.synced => k # NoSpan /\ r = CatchUpAfter(k.epoch, k.to)
                     /\ Empty(t) => r.epoch < st.epoch
AnswerOK(page, t, k) ==
  /\ Shaped(page)
  /\ page.dir = "after" /\ ~page.error =>
       /\ ~t.synced => k # NoSpan /\ page.request = CatchUpAfter(k.epoch, k.to)
       /\ Empty(t) => page.reset
FetchOK(f, t) == ~t.synced /\ f.kind = "page" /\ f.request.dir = "after" => f.fallback

OneOwner(fetches) == \A f, g \in fetches : f.owner /\ g.owner => f = g

\* The timeline and the span of the cache.
RangeOK(span) == span = NoSpan \/ (1 <= span.epoch /\ 1 <= span.from /\ span.from <= span.to)
Held(t) ==
  t.synced /\ t.range # NoSpan =>
    /\ \A n \in t.range.from..t.range.to : Row(t.range.epoch, n) \in t.rows
    /\ \A r \in t.rows : r.epoch = t.range.epoch => r.seq <= t.range.to
Painting(t, k) ==
  /\ t.synced => k = NoSpan
  /\ k # NoSpan => RowsOf(k.epoch, k.from, k.to) \subseteq t.rows

-----------------------------------------------------------------------------
(* The catch-up.  Whatever handler runs it, its fetches and the request it *)
(* keeps stay in sets that the timeline allows.                            *)

Closed(J) == J \subseteq Fetches /\ \A f \in J : [f EXCEPT !.owner = FALSE] \in J

Allowed(J, P) ==
  /\ Closed(J) /\ P \subseteq Requests \union {NoRequest} /\ NoRequest \in P
  /\ Fetch("latest", TailFetch, TRUE, FALSE) \in J
  /\ \A r \in P : r # NoRequest => Fetch("page", r, TRUE, FALSE) \in J

\* What is sent is what a fetch may ask for.
SentIn(q, J) == \A i \in DOMAIN q : \E f \in J : f.request = q[i]

CatchUpIn(c, J, P) ==
  /\ c \in CatchUps /\ OneOwner(c.fetches)
  /\ c.fetches \subseteq J /\ c.pending \in P
  /\ SentIn(c.sent, J)

\* What a handler makes of c.
MovesIn(c, e, J, P) == CatchUpIn(e, J, P) /\ (e.cache = "yes" <=> c.cache = "yes")

\* What may be started, and with what a fetch goes on.
StartsIn(request, range, J, P) ==
  /\ request \in P
  /\ request = NoRequest =>
       Fetch("page", ResumeFetch(range), TRUE, ResumeFetch(range).dir = "after") \in J
GoesOnIn(f, page, J) ==
  /\ f \in J
  /\ page.hasNewer /\ f.kind = "page" /\ ~f.fallback =>
       Fetch("page", CatchUpAfter(page.epoch, page.to), TRUE, FALSE) \in J
SoleOwner(f, fetches) == f.owner => \A g \in fetches : ~g.owner

-----------------------------------------------------------------------------
(* The inductive invariant: of what is on its way, of the timeline, of the *)
(* local cache, of the catch-up and its requests, and of the pages.        *)

Wire(st, s, d) == st \in Stores /\ s \in Seq(Rows) /\ d \in Seq(Messages) /\ InOrder(st, s, d)

ClientOK(t, k, st, s, d) ==
  /\ t \in Timelines /\ RangeOK(t.range) /\ Held(t)
  /\ \A r \in t.rows : Behind(r, st, s, d)
  /\ k \in Spans /\ RangeOK(k) /\ Painting(t, k)

CacheOK(span, k, c, st, s, d) ==
  /\ span \in Spans /\ RangeOK(span) /\ k \in {NoSpan, span}
  /\ span # NoSpan => Behind(EndOf(span), st, s, d)
  /\ c.cache # "yes" => k = NoSpan

Jobs(t, k, st, s, d) == { f \in Fetches : RequestOK(f.request, t, k, st, s, d) /\ FetchOK(f, t) }
Pendings(t, k, st, s, d) ==
  { r \in Requests \union {NoRequest} :
      r # TailFetch /\ RequestOK(r, t, k, st, s, d) /\ (~t.synced => r = NoRequest) }

Asks == [request : Requests \union {Subscribe}, waited : BOOLEAN]
AskedOK(A, t, k, st, s, d) ==
  A \in Seq(Asks) /\ \A i \in DOMAIN A : RequestOK(A[i].request, t, k, st, s, d)
AnswersOK(d, t, k) == \A i \in DOMAIN d : d[i].type = "page" => AnswerOK(d[i].page, t, k)

Flags(sub, con, scr, frc) ==
  /\ sub \in BOOLEAN /\ con \in BOOLEAN /\ frc \in BOOLEAN
  /\ scr \in {"none", "asked", "acked", "failed"}

ClientInv(t, k, c, A, span, st, s, d) ==
  /\ Wire(st, s, d)
  /\ ClientOK(t, k, st, s, d)
  /\ CacheOK(span, k, c, st, s, d)
  /\ CatchUpIn(c, Jobs(t, k, st, s, d), Pendings(t, k, st, s, d))
  /\ AskedOK(A, t, k, st, s, d)
  /\ AnswersOK(d, t, k)

Inv ==
  /\ Flags(subscribed, connected, subscription, forced)
  /\ ClientInv(timeline, cached, catchUp, asked, stored, store, stream, down)

-----------------------------------------------------------------------------
(* The catch-up: what its operators make of it. *)

\* A fetch that has lost the catch-up is still a fetch that was allowed.
LEMMA DisownedIn ==
  ASSUME NEW J, Closed(J), NEW F, F \subseteq J
  PROVE  Disowned(F) \subseteq J /\ \A f \in Disowned(F) : ~f.owner
  <1>1. \A f \in F : f \in Fetches /\ [f EXCEPT !.owner = FALSE] \in J
    BY DEF Closed
  <1>2. \A f \in F : ~[f EXCEPT !.owner = FALSE].owner
    BY <1>1 DEF Fetches
  <1> QED
    BY <1>1, <1>2 DEF Disowned

\* A completed catch-up keeps the fetches under way, none of which owns it.
LEMMA CompletedIn ==
  ASSUME NEW J, Closed(J), NEW P, NEW c, CatchUpIn(c, J, P)
  PROVE  /\ CatchUpIn(Completed(c), J, P) /\ CatchUpIn([Completed(c) EXCEPT !.shown = "ready"], J, P)
         /\ Completed(c).cache = c.cache /\ [Completed(c) EXCEPT !.shown = "ready"].cache = c.cache
         /\ \A f \in Completed(c).fetches : ~f.owner
         /\ Completed(c).pending = c.pending
  <1> DEFINE D == Disowned(c.fetches)
             e == Completed(c)
             g == [e EXCEPT !.shown = "ready"]
  <1>1. c \in CatchUps /\ c.fetches \subseteq J /\ c.pending \in P /\ SentIn(c.sent, J)
    BY DEF CatchUpIn
  <1>2. D \subseteq J /\ D \subseteq Fetches /\ \A f \in D : ~f.owner
    BY <1>1, DisownedIn DEF Closed
  <1>3. e = [c EXCEPT !.status = "complete", !.request = NoRequest, !.fetches = D]
    BY DEF Completed
  <1> HIDE DEF D, e
  <1>4. /\ e \in CatchUps /\ e.fetches = D /\ e.pending = c.pending /\ e.cache = c.cache
        /\ e.sent = c.sent
    BY <1>1, <1>2, <1>3 DEF CatchUps
  <1>5. /\ g \in CatchUps /\ g.fetches = D /\ g.pending = c.pending /\ g.cache = c.cache
        /\ g.sent = c.sent
    BY <1>4 DEF CatchUps
  <1> HIDE DEF g
  <1>6. CatchUpIn(e, J, P) /\ CatchUpIn(g, J, P)
    BY <1>1, <1>2, <1>4, <1>5 DEF CatchUpIn, OneOwner
  <1> QED
    BY <1>2, <1>4, <1>5, <1>6 DEF e, g

\* A failed catch-up keeps the request of the fetch that failed.
LEMMA FailedIn ==
  ASSUME NEW J, Closed(J), NEW P, NEW c, CatchUpIn(c, J, P), NEW f \in J
  PROVE  CatchUpIn(Failed(c, f), J, P) /\ Failed(c, f).cache = c.cache
  <1> DEFINE D == Disowned(c.fetches)
             r == IF f.kind = "page" THEN f.request ELSE c.request
             e == [c EXCEPT !.status = "error", !.shown = "error", !.fetches = D, !.request = r]
  <1>1. c \in CatchUps /\ c.fetches \subseteq J /\ c.pending \in P /\ SentIn(c.sent, J)
    BY DEF CatchUpIn
  <1>2. D \subseteq J /\ D \subseteq Fetches /\ \A g \in D : ~g.owner
    BY <1>1, DisownedIn DEF Closed
  <1>3. r \in Requests \union {NoRequest}
    BY <1>1 DEF Closed, Fetches, CatchUps
  <1>4. Failed(c, f) = IF f.owner THEN e ELSE c
    BY DEF Failed
  <1> HIDE DEF D, r
  <1>5. /\ e \in CatchUps /\ e.fetches = D /\ e.pending = c.pending /\ e.cache = c.cache
        /\ e.sent = c.sent
    BY <1>1, <1>2, <1>3 DEF CatchUps
  <1> HIDE DEF e
  <1>6. CatchUpIn(e, J, P)
    BY <1>1, <1>2, <1>5 DEF CatchUpIn, OneOwner
  <1> QED
    BY <1>4, <1>5, <1>6

\* So does a fetch that begins, whether or not its request is sent.
LEMMA LaunchedIn ==
  ASSUME NEW J, Closed(J), NEW P, NEW c, CatchUpIn(c, J, P), NEW f \in J, SoleOwner(f, c.fetches)
  PROVE  /\ CatchUpIn(Launched(c, f), J, P)
         /\ Launched(c, f).cache = c.cache /\ Launched(c, f).fetches = c.fetches \union {f}
  <1> DEFINE F == c.fetches \union {f}
             q == IF \E g \in c.fetches : g.request = f.request THEN c.sent ELSE Append(c.sent, f.request)
             e == [c EXCEPT !.fetches = F, !.sent = q]
  <1>1. /\ c \in CatchUps /\ OneOwner(c.fetches) /\ c.fetches \subseteq J /\ c.pending \in P
        /\ SentIn(c.sent, J)
    BY DEF CatchUpIn
  <1>2. f \in Fetches /\ f.request \in Requests /\ J \subseteq Fetches
    BY DEF Closed, Fetches
  <1>3. Launched(c, f) = e
    BY DEF Launched
  <1>4. c.sent \in Seq(Requests)
    BY <1>1 DEF CatchUps
  <1>5. q \in Seq(Requests) /\ SentIn(q, J)
    <2>1. CASE q = c.sent
      BY <1>1, <1>4, <2>1
    <2>2. CASE q = Append(c.sent, f.request)
      <3>1. /\ q \in Seq(Requests) /\ DOMAIN c.sent = 1..Len(c.sent) /\ DOMAIN q = 1..Len(c.sent) + 1
            /\ Len(c.sent) \in Nat
            /\ \A i \in 1..Len(c.sent) : q[i] = c.sent[i]
            /\ q[Len(c.sent) + 1] = f.request
        BY <1>2, <1>4, <2>2, AppendProperties, LenProperties
      <3> HIDE DEF q
      <3>2. \A i \in 1..Len(c.sent) + 1 : \E g \in J : g.request = q[i]
        BY <1>1, <3>1 DEF SentIn
      <3> QED
        BY <3>1, <3>2 DEF SentIn
    <2> QED
      BY <2>1, <2>2
  <1>6. OneOwner(F) /\ F \subseteq J /\ F \subseteq Fetches
    BY <1>1, <1>2 DEF OneOwner, SoleOwner
  <1> HIDE DEF F, q
  <1>7. e \in CatchUps /\ e.fetches = F /\ e.pending = c.pending /\ e.cache = c.cache /\ e.sent = q
    BY <1>1, <1>5, <1>6 DEF CatchUps
  <1> HIDE DEF e
  <1>8. CatchUpIn(e, J, P)
    BY <1>1, <1>5, <1>6, <1>7 DEF CatchUpIn
  <1> QED
    BY <1>3, <1>7, <1>8 DEF F

\* startCatchUp keeps within what is allowed when its request or range does.
LEMMA StartedIn ==
  ASSUME NEW J, NEW P, Allowed(J, P),
         NEW c, CatchUpIn(c, J, P), NEW live \in BOOLEAN, NEW request, NEW range,
         StartsIn(request, range, J, P)
  PROVE  MovesIn(c, Started(c, live, request, range), J, P)
  <1> DEFINE supersede == request # NoRequest
             next == IF supersede THEN request ELSE ResumeFetch(range)
             new == Fetch("page", next, TRUE, ~supersede /\ next.dir = "after")
             D == Disowned(c.fetches)
             e == Started(c, live, request, range)
             p == IF supersede THEN request ELSE c.pending
             l == IF live /\ c.cache = "no" THEN "loading" ELSE c.cache
             a == [c EXCEPT !.pending = p, !.cache = l]
             b == [c EXCEPT !.pending = next]
             i == [c EXCEPT !.status = "running", !.request = next, !.pending = NoRequest,
                            !.fetches = D]
             n == Launched(i, new)
  <1>0. Closed(J) /\ NoRequest \in P /\ request \in P
    BY DEF Allowed, StartsIn
  <1>1. /\ c \in CatchUps /\ OneOwner(c.fetches) /\ c.fetches \subseteq J /\ c.pending \in P
        /\ SentIn(c.sent, J)
    BY DEF CatchUpIn
  <1>2. new \in J
    BY DEF Fetch, Allowed, StartsIn
  <1>3. D \subseteq J /\ \A f \in D : ~f.owner
    BY <1>0, <1>1, DisownedIn
  <1>4. next \in Requests
    <2>1. new \in Fetches /\ new.request = next
      BY <1>0, <1>2 DEF Closed, Fetch
    <2> QED
      BY <2>1 DEF Fetches
  <1>5. OneOwner(D) /\ SoleOwner(new, D)
    BY <1>3 DEF OneOwner, SoleOwner
  <1>6. J \subseteq Fetches
    BY <1>0 DEF Closed
  <1>7. \/ e = a /\ c.cache # "yes"
        \/ e = a /\ ~live
        \/ e = c
        \/ e = b /\ supersede
        \/ e = n
    BY DEF Started, Decision
  <1>8. supersede => next = request
    OBVIOUS
  <1> HIDE DEF D, e, new, next, supersede
  <1>9. CatchUpIn(a, J, P) /\ ((c.cache # "yes" \/ ~live) => (a.cache = "yes" <=> c.cache = "yes"))
    <2>1. p \in P /\ l \in {"no", "loading", "yes"}
      BY <1>0, <1>1 DEF CatchUps
    <2>2. (c.cache # "yes" \/ ~live) => (l = "yes" <=> c.cache = "yes")
      OBVIOUS
    <2> HIDE DEF p, l
    <2>4. p \in Requests \union {NoRequest}
      BY <2>1 DEF Allowed
    <2>3. /\ a \in CatchUps /\ a.fetches = c.fetches /\ a.pending = p /\ a.cache = l
          /\ a.sent = c.sent
      BY <1>1, <2>1, <2>4 DEF CatchUps
    <2> QED
      BY <1>1, <2>1, <2>2, <2>3 DEF CatchUpIn
  <1>10. supersede => CatchUpIn(b, J, P) /\ b.cache = c.cache
    <2> HAVE supersede
    <2>1. /\ b \in CatchUps /\ b.fetches = c.fetches /\ b.pending = next /\ b.cache = c.cache
          /\ b.sent = c.sent
      BY <1>1, <1>4 DEF CatchUps
    <2> QED
      BY <1>0, <1>1, <1>8, <2>1 DEF CatchUpIn
  <1>11. CatchUpIn(n, J, P) /\ n.cache = c.cache
    <2>1. /\ i \in CatchUps /\ i.fetches = D /\ i.pending = NoRequest /\ i.cache = c.cache
          /\ i.sent = c.sent
      BY <1>1, <1>3, <1>4, <1>6 DEF CatchUps
    <2> HIDE DEF i
    <2>2. CatchUpIn(i, J, P)
      BY <1>0, <1>1, <1>3, <1>5, <2>1 DEF CatchUpIn
    <2>3. CatchUpIn(Launched(i, new), J, P) /\ Launched(i, new).cache = i.cache
      BY <1>0, <1>2, <1>5, <2>1, <2>2, LaunchedIn
    <2> QED
      BY <2>1, <2>3
  <1>12. CatchUpIn(c, J, P)
    OBVIOUS
  <1>13. CatchUpIn(e, J, P) /\ (e.cache = "yes" <=> c.cache = "yes")
    <2> HIDE DEF a, b, n
    <2> QED
      BY <1>7, <1>9, <1>10, <1>11, <1>12
  <1> QED
    BY <1>13 DEF e, MovesIn

\* A fetch that goes on after its answer (fetchUntilCurrent) keeps within what is allowed.
LEMMA ResumedIn ==
  ASSUME NEW J, NEW P, Allowed(J, P), NEW c, CatchUpIn(c, J, P), NEW f, SoleOwner(f, c.fetches),
         NEW live \in BOOLEAN, NEW page, NEW range, GoesOnIn(f, page, J)
  PROVE  MovesIn(c, Resumed(c, f, live, page, range), J, P)
  <1> DEFINE e == Resumed(c, f, live, page, range)
             done == [Completed(c) EXCEPT !.shown = "ready"]
             next == IF f.fallback THEN Fetch("latest", TailFetch, TRUE, FALSE)
                     ELSE Fetch("page", CatchUpAfter(page.epoch, page.to), TRUE, FALSE)
             more == Launched(c, next)
             again == Started(Completed(c), live, c.pending, range)
  <1>1. Closed(J) /\ P \subseteq Requests \union {NoRequest} /\ NoRequest \in P
    BY DEF Allowed
  <1>2. c \in CatchUps /\ OneOwner(c.fetches) /\ c.fetches \subseteq J /\ c.pending \in P
    BY DEF CatchUpIn
  <1>3. \/ e = done
        \/ e = more /\ f.kind = "page" /\ f.owner /\ page.hasNewer
        \/ e = again /\ c.pending # NoRequest
        \/ e = c
    BY DEF Resumed
  <1>4. /\ CatchUpIn(Completed(c), J, P) /\ CatchUpIn(done, J, P)
        /\ Completed(c).cache = c.cache /\ done.cache = c.cache
    BY <1>1, CompletedIn
  <1>5. f.kind = "page" /\ f.owner /\ page.hasNewer => CatchUpIn(more, J, P) /\ more.cache = c.cache
    <2> SUFFICES ASSUME f.kind = "page", f.owner, page.hasNewer
                 PROVE  CatchUpIn(more, J, P) /\ more.cache = c.cache
      OBVIOUS
    <2>1. next \in J
      BY DEF Allowed, GoesOnIn
    <2> HIDE DEF next
    <2>2. SoleOwner(next, c.fetches)
      BY DEF SoleOwner
    <2> QED
      BY <1>1, <2>1, <2>2, LaunchedIn
  <1>6. c.pending # NoRequest => CatchUpIn(again, J, P) /\ (again.cache = "yes" <=> c.cache = "yes")
    <2> SUFFICES ASSUME c.pending # NoRequest
                 PROVE  CatchUpIn(again, J, P) /\ (again.cache = "yes" <=> c.cache = "yes")
      OBVIOUS
    <2> DEFINE d == Completed(c)
               r == c.pending
    <2>1. CatchUpIn(d, J, P) /\ r \in P /\ r # NoRequest /\ d.cache = c.cache
      BY <1>2, <1>4
    <2> HIDE DEF d, r
    <2>2. StartsIn(r, range, J, P)
      BY <2>1 DEF StartsIn
    <2>3. MovesIn(d, Started(d, live, r, range), J, P)
      BY <2>1, <2>2, StartedIn
    <2> QED
      BY <2>1, <2>3 DEF d, r, MovesIn
  <1> HIDE DEF e, done, more, again
  <1>7. CatchUpIn(e, J, P) /\ (e.cache = "yes" <=> c.cache = "yes")
    BY <1>3, <1>4, <1>5, <1>6
  <1> QED
    BY <1>7 DEF e, MovesIn

\* Those who waited are no longer among the fetches of c.
LEMMA ContinuedIn ==
  ASSUME NEW J, NEW P, Allowed(J, P), NEW b, CatchUpIn(b, J, P),
         NEW W, OneOwner(b.fetches \union W), b.fetches \intersect W = {},
         NEW page, NEW range, Live \in BOOLEAN, \A f \in W : GoesOnIn(f, page, J)
  PROVE  MovesIn(b, Continued(b, W, page, range), J, P)
  <1> DEFINE first == IF page.error \/ { f \in W : f.kind = "latest" } = {}
                      THEN { f \in W : f.owner } ELSE { f \in W : f.kind = "latest" }
             f == CHOOSE g \in first : TRUE
             e == Continued(b, W, page, range)
  <1>1. e = IF first = {} THEN b
            ELSE IF page.error THEN Failed(b, f) ELSE Resumed(b, f, Live, page, range)
    BY DEF Continued
  <1>2. Closed(J)
    BY DEF Allowed
  <1>3. first \subseteq W
    OBVIOUS
  <1>5. CASE first = {}
    BY <1>1, <1>5 DEF MovesIn
  <1>6. CASE first # {}
    <2>1. f \in W
      BY <1>3, <1>6
    <2> HIDE DEF f, first
    <2>2. SoleOwner(f, b.fetches)
      BY <2>1 DEF OneOwner, SoleOwner
    <2>3. GoesOnIn(f, page, J) /\ f \in J
      BY <2>1 DEF GoesOnIn
    <2>4. CatchUpIn(b, J, P)
      OBVIOUS
    <2>5. MovesIn(b, Failed(b, f), J, P)
      BY <1>2, <2>3, <2>4, FailedIn DEF MovesIn
    <2> DEFINE live == Live
    <2>6. live \in BOOLEAN
      OBVIOUS
    <2> HIDE DEF live
    <2>7. MovesIn(b, Resumed(b, f, live, page, range), J, P)
      BY <2>2, <2>3, <2>4, <2>6, ResumedIn
    <2>8. e = Failed(b, f) \/ e = Resumed(b, f, live, page, range)
      BY <1>1, <1>6 DEF live
    <2> HIDE DEF e
    <2>9. MovesIn(b, e, J, P)
      BY <2>5, <2>7, <2>8
    <2> QED
      BY <2>9 DEF e
  <1> QED
    BY <1>5, <1>6

-----------------------------------------------------------------------------
(* The order of rows. *)

Points == [epoch : Nat, seq : Nat]

\* The assumptions on the constants.
LEMMA Bounds == PageLimit \in Nat \ {0} /\ MaxRows \in Nat /\ MaxEpoch \in Nat \ {0} /\ MaxFaults \in Nat
  BY PageLimitAssumption, BoundsAssumption

\* The order of rows is transitive.
LEMMA OrderOfRows ==
  ASSUME NEW p \in Points, NEW q \in Points, NEW r \in Points
  PROVE  /\ UpTo(p, p)
         /\ Before(p, q) => UpTo(p, q)
         /\ UpTo(p, q) /\ UpTo(q, r) => UpTo(p, r)
         /\ UpTo(p, q) /\ Before(q, r) => Before(p, r)
         /\ Before(p, q) /\ UpTo(q, r) => Before(p, r)
  <1>1. /\ p.epoch \in Nat /\ p.seq \in Nat /\ q.epoch \in Nat /\ q.seq \in Nat
        /\ r.epoch \in Nat /\ r.seq \in Nat
    BY DEF Points
  <1> QED
    BY <1>1 DEF UpTo, Before

\* What is compared with rows is a point.
LEMMA PointTypes ==
  /\ Rows \subseteq Points
  /\ \A e, n \in Nat : Row(e, n) \in Points /\ Row(e, n).epoch = e /\ Row(e, n).seq = n
  /\ \A st \in Stores : StoreEnd(st) \in Points
  /\ \A page \in Pages : Top(page) \in Points
  /\ \A span \in Spans : EndOf(span) \in Points
  /\ \A q \in Requests : q.dir = "after" => Position(q) \in Rows
  <1>1. MaxRows \in Nat /\ MaxEpoch \in Nat
    BY Bounds
  <1>2. Rows \subseteq Points
    BY <1>1 DEF Rows, Points
  <1>3. \A e, n \in Nat : Row(e, n) \in Points /\ Row(e, n).epoch = e /\ Row(e, n).seq = n
    BY DEF Row, Points
  <1>4. \A st \in Stores : st.epoch \in Nat /\ st.last \in Nat
    BY <1>1 DEF Stores
  <1>5. \A page \in Pages : page.epoch \in Nat /\ page.max \in Nat
    BY <1>1 DEF Pages
  <1>6. \A span \in Spans : span.epoch \in Nat /\ span.to \in Nat
    BY <1>1 DEF Spans
  <1>7. \A q \in Requests : q.dir = "after" => q.epoch \in 1..MaxEpoch /\ q.seq \in 1..MaxRows
    BY DEF Requests, TailFetch, Request
  <1>8. \A q \in Requests : q.dir = "after" => Position(q) \in Rows
    BY <1>7 DEF Position, Row, Rows
  <1> QED
    BY <1>2, <1>3, <1>4, <1>5, <1>6, <1>8 DEF StoreEnd, Top, EndOf

\* A message by its type.
LEMMA MessageTypes ==
  ASSUME NEW m \in Messages
  PROVE  /\ m.type \in {"event", "ack", "notice", "page"}
         /\ m.type = "event" => m.row \in Rows
         /\ m.type = "page" => m.page \in Pages /\ m.waited \in BOOLEAN /\ m = Answer(m.page, m.waited)
         /\ m.type = "ack" => m.waited \in BOOLEAN
  <1>1. CASE m \in { Event(r) : r \in Rows } \union { Ack(w) : w \in BOOLEAN } \union {Notice}
    BY <1>1 DEF Event, Ack, Notice
  <1>2. CASE m \in { Answer(p, TRUE) : p \in Pages } \union { Answer(p, FALSE) : p \in Pages }
    <2>1. PICK p \in Pages : m = Answer(p, TRUE) \/ m = Answer(p, FALSE)
      BY <1>2
    <2>2. CASE m = Answer(p, TRUE)
      <3>1. m.type = "page" /\ m.page = p /\ m.waited = TRUE
        BY <2>2 DEF Answer
      <3> QED
        BY <2>2, <3>1
    <2>3. CASE m = Answer(p, FALSE)
      <3>1. m.type = "page" /\ m.page = p /\ m.waited = FALSE
        BY <2>3 DEF Answer
      <3> QED
        BY <2>3, <3>1
    <2> QED
      BY <2>1, <2>2, <2>3
  <1> QED
    BY <1>1, <1>2 DEF Messages

\* Nobody waits for an answer any more.
LEMMA AnswerUnawaited ==
  ASSUME NEW p, NEW w
  PROVE  [Answer(p, w) EXCEPT !.waited = FALSE] = Answer(p, FALSE)
  <1> DEFINE a == Answer(p, w)
             b == Answer(p, FALSE)
             e == [a EXCEPT !.waited = FALSE]
  <1>1. DOMAIN a = {"type", "page", "waited"} /\ DOMAIN b = {"type", "page", "waited"}
    BY DEF Answer
  <1>2. a.type = b.type /\ a.page = b.page /\ b.waited = FALSE
    BY DEF Answer
  <1>3. b = [x \in DOMAIN b |-> b[x]]
    BY Zenon DEF Answer
  <1> HIDE DEF a, b
  <1>4. e = [x \in DOMAIN a |-> IF x = "waited" THEN FALSE ELSE a[x]]
    BY Zenon
  <1>5. \A x \in DOMAIN a : (IF x = "waited" THEN FALSE ELSE a[x]) = b[x]
    BY <1>1, <1>2
  <1>6. e = [x \in DOMAIN b |-> b[x]]
    BY <1>1, <1>4, <1>5, Zenon
  <1> QED
    BY <1>3, <1>6 DEF a, b

\* Acknowledgements and answers are messages.
LEMMA MessagesMade ==
  /\ \A w \in BOOLEAN : Ack(w) \in Messages /\ Ack(w).type = "ack" /\ Ack(w).waited = w
  /\ \A p \in Pages, w \in BOOLEAN :
       /\ Answer(p, w) \in Messages /\ Answer(p, w).type = "page"
       /\ Answer(p, w).page = p /\ Answer(p, w).waited = w
  <1>1. \A w \in BOOLEAN : Ack(w) \in Messages /\ Ack(w).type = "ack" /\ Ack(w).waited = w
    BY DEF Messages, Ack
  <1>2. ASSUME NEW p \in Pages PROVE Answer(p, TRUE) \in Messages /\ Answer(p, FALSE) \in Messages
    BY DEF Messages
  <1>3. ASSUME NEW p \in Pages, NEW w \in BOOLEAN
        PROVE  /\ Answer(p, w) \in Messages /\ Answer(p, w).type = "page"
               /\ Answer(p, w).page = p /\ Answer(p, w).waited = w
    <2>1. w = TRUE \/ w = FALSE
      OBVIOUS
    <2>2. Answer(p, w) \in Messages
      BY <1>2, <2>1
    <2> QED
      BY <2>2 DEF Answer
  <1> QED
    BY <1>1, <1>3

\* What is older than a row that is behind, is behind.
LEMMA BehindToo ==
  ASSUME NEW p \in Points, NEW q \in Points, UpTo(p, q), NEW st \in Stores, NEW s \in Seq(Rows),
         NEW d \in Seq(Messages), Behind(q, st, s, d)
  PROVE  Behind(p, st, s, d)
  <1>1. UpTo(p, StoreEnd(st))
    <2>1. StoreEnd(st) \in Points /\ UpTo(q, StoreEnd(st))
      BY PointTypes DEF Behind
    <2> QED
      BY <2>1, OrderOfRows
  <1>2. ASSUME NEW i \in DOMAIN s PROVE Before(p, s[i])
    <2>1. s[i] \in Points /\ Before(q, s[i])
      BY ElementOfSeq, LenProperties, PointTypes DEF Behind
    <2> QED
      BY <2>1, OrderOfRows
  <1>3. ASSUME NEW i \in DOMAIN d PROVE Precedes(p, d[i])
    <2>1. d[i] \in Messages /\ Precedes(q, d[i])
      BY ElementOfSeq, LenProperties DEF Behind
    <2>2. d[i].type = "event" => Before(p, d[i].row)
      <3>1. d[i].type = "event" => d[i].row \in Points /\ Before(q, d[i].row)
        BY <2>1, MessageTypes, PointTypes DEF Precedes
      <3> QED
        BY <3>1, OrderOfRows
    <2>3. d[i].type = "page" /\ ~d[i].page.error => UpTo(p, Top(d[i].page))
      <3>1. d[i].type = "page" /\ ~d[i].page.error =>
              Top(d[i].page) \in Points /\ UpTo(q, Top(d[i].page))
        BY <2>1, MessageTypes, PointTypes DEF Precedes
      <3> QED
        BY <3>1, OrderOfRows
    <2> QED
      BY <2>2, <2>3 DEF Precedes
  <1> QED
    BY <1>1, <1>2, <1>3 DEF Behind

-----------------------------------------------------------------------------
(* The client's timeline: live rows. *)

\* Spans are typed; a timeline's end is one of its rows.
LEMMA SpanTypes ==
  ASSUME NEW span \in Spans, RangeOK(span)
  PROVE  /\ span # NoSpan => /\ span.epoch \in 1..MaxEpoch /\ span.from \in 1..MaxRows
                             /\ span.to \in 1..MaxRows /\ span.from <= span.to
                             /\ EndOf(span) \in Rows
                             /\ CatchUpAfter(span.epoch, span.to) \in Requests
                             /\ Position(CatchUpAfter(span.epoch, span.to)) = EndOf(span)
         /\ span = NoSpan => span.epoch = 0 /\ span.from = 0 /\ span.to = 0
  <1>1. MaxRows \in Nat /\ MaxEpoch \in Nat
    BY Bounds
  <1>2. span.epoch \in 0..MaxEpoch /\ span.from \in 0..MaxRows /\ span.to \in 0..MaxRows
    BY DEF Spans
  <1>3. span = NoSpan => span.epoch = 0 /\ span.from = 0 /\ span.to = 0
    BY DEF NoSpan, Span
  <1>4. span # NoSpan => span.epoch \in 1..MaxEpoch /\ span.from \in 1..MaxRows
                         /\ span.to \in 1..MaxRows /\ span.from <= span.to
    BY <1>1, <1>2 DEF RangeOK
  <1> QED
    BY <1>3, <1>4 DEF EndOf, Row, Rows, CatchUpAfter, Request, Requests, Position

\* The end of a synced range is a row the client holds.
LEMMA EndIsHeld ==
  ASSUME NEW t \in Timelines, RangeOK(t.range), Held(t), t.synced, t.range # NoSpan
  PROVE  EndOf(t.range) \in t.rows
  <1>1. t.range \in Spans
    BY DEF Timelines
  <1>2. t.range.to \in t.range.from..t.range.to
    BY <1>1, SpanTypes, Bounds
  <1> QED
    BY <1>2 DEF Held, EndOf
\* Timeline u comes of t by live rows among those of set new.
Lengthened(t, u, new) ==
  /\ u \in Timelines /\ RangeOK(u.range) /\ Held(u)
  /\ u.synced = t.synced /\ u.newer = t.newer /\ u.init = t.init
  /\ u.rows \subseteq t.rows \union new
  /\ ~t.synced => t.rows \subseteq u.rows
  /\ UpTo(EndOf(t.range), EndOf(u.range))
  /\ u.range = NoSpan => t.range = NoSpan

\* A live row is dropped or lengthens the range by itself (processAgentStreamEvent).
LEMMA EventLengthens ==
  ASSUME NEW t \in Timelines, RangeOK(t.range), Held(t),
         NEW row \in Rows, \A r \in t.rows : Before(r, row)
  PROVE  Lengthened(t, EventApplied(t, row), {row})
  <1> DEFINE e == row.epoch
             n == row.seq
             range == t.range
             u == EventApplied(t, row)
             painted == [t EXCEPT !.rows = t.rows \union {row}]
             first == [t EXCEPT !.range = Span(e, n, n), !.rows = t.rows \union {row}]
             longer == [range EXCEPT !.to = n]
             next == [t EXCEPT !.range = longer, !.rows = t.rows \union {row}]
             again == [t EXCEPT !.range = Span(e, 1, 1), !.rows = {row}]
  <1>1. MaxRows \in Nat /\ MaxEpoch \in Nat
    BY Bounds
  <1>2. /\ t.synced \in BOOLEAN /\ range \in Spans /\ t.newer \in BOOLEAN /\ t.rows \subseteq Rows
        /\ t.init \in {"none", "tail", "after"}
    BY DEF Timelines
  <1>3. e \in 1..MaxEpoch /\ n \in 1..MaxRows /\ row = Row(e, n)
    BY DEF Rows, Row
  <1>4. \A r \in t.rows : /\ r.epoch \in 1..MaxEpoch /\ r.seq \in 1..MaxRows
                          /\ r.epoch < e \/ (r.epoch = e /\ r.seq < n)
    BY <1>2 DEF Rows, Before
  <1>5. /\ range # NoSpan => /\ range.epoch \in 1..MaxEpoch /\ range.from \in 1..MaxRows
                             /\ range.to \in 1..MaxRows /\ range.from <= range.to
        /\ range = NoSpan => range.epoch = 0 /\ range.from = 0 /\ range.to = 0
    BY <1>2, SpanTypes
  <1>6. \/ u = painted /\ ~t.synced
        \/ u = first /\ t.synced /\ range = NoSpan
        \/ u = next /\ t.synced /\ range # NoSpan /\ range.epoch = e /\ n = range.to + 1
        \/ u = again /\ t.synced /\ range # NoSpan /\ range.epoch # e /\ n = 1
        \/ u = t
    BY DEF EventApplied
  <1>7. EndOf(range) \in Points /\ UpTo(EndOf(range), EndOf(range))
    BY <1>2, PointTypes, OrderOfRows
  <1>8. Lengthened(t, t, {row})
    BY <1>7 DEF Lengthened
  <1>9. ~t.synced => Lengthened(t, painted, {row})
    <2>1. /\ painted \in Timelines /\ painted.synced = t.synced /\ painted.newer = t.newer
          /\ painted.init = t.init /\ painted.range = range /\ painted.rows = t.rows \union {row}
      BY <1>2 DEF Timelines
    <2> HIDE DEF painted
    <2> QED
      BY <1>7, <2>1 DEF Lengthened, Held
  <1>10. t.synced /\ range = NoSpan => Lengthened(t, first, {row})
    <2> SUFFICES ASSUME t.synced, range = NoSpan
                 PROVE  Lengthened(t, first, {row})
      OBVIOUS
    <2> DEFINE span == Span(e, n, n)
    <2>1. /\ span \in Spans /\ span.epoch = e /\ span.from = n /\ span.to = n /\ span # NoSpan
          /\ RangeOK(span)
      BY <1>1, <1>3 DEF Span, Spans, NoSpan, RangeOK
    <2> HIDE DEF span
    <2>2. /\ first \in Timelines /\ first.synced = t.synced /\ first.newer = t.newer
          /\ first.init = t.init /\ first.range = span /\ first.rows = t.rows \union {row}
      BY <1>2, <2>1 DEF Timelines, span
    <2> HIDE DEF first
    <2>3. Held(first)
      <3>1. \A k \in n..n : k = n
        BY <1>1, <1>3
      <3>2. \A k \in span.from..span.to : Row(span.epoch, k) \in first.rows
        BY <1>3, <2>1, <2>2, <3>1
      <3>3. \A r \in first.rows : r.epoch = span.epoch => r.seq <= span.to
        BY <1>1, <1>3, <1>4, <2>1, <2>2
      <3> QED
        BY <2>2, <3>2, <3>3 DEF Held
    <2>4. UpTo(EndOf(range), EndOf(span))
      BY <1>1, <1>3, <1>5, <2>1 DEF UpTo, EndOf, Row
    <2> QED
      BY <2>1, <2>2, <2>3, <2>4 DEF Lengthened
  <1>11. t.synced /\ range # NoSpan /\ range.epoch = e /\ n = range.to + 1 =>
           Lengthened(t, next, {row})
    <2> SUFFICES ASSUME t.synced, range # NoSpan, range.epoch = e, n = range.to + 1
                 PROVE  Lengthened(t, next, {row})
      OBVIOUS
    <2>1. /\ longer \in Spans /\ longer.epoch = e /\ longer.from = range.from /\ longer.to = n
          /\ longer # NoSpan
      BY <1>1, <1>2, <1>3, <1>5 DEF Spans, NoSpan, Span
    <2>2. RangeOK(longer)
      BY <1>1, <1>3, <1>5, <2>1 DEF RangeOK
    <2> HIDE DEF longer
    <2>3. /\ next \in Timelines /\ next.synced = t.synced /\ next.newer = t.newer
          /\ next.init = t.init /\ next.range = longer /\ next.rows = t.rows \union {row}
      BY <1>2, <2>1 DEF Timelines
    <2> HIDE DEF next
    <2>4. Held(next)
      <3>1. ASSUME NEW k \in longer.from..longer.to PROVE Row(longer.epoch, k) \in next.rows
        <4>1. k \in range.from..range.to \/ k = n
          BY <1>1, <1>3, <1>5, <2>1
        <4>2. k \in range.from..range.to => Row(e, k) \in t.rows
          BY DEF Held
        <4> QED
          BY <1>3, <2>1, <2>3, <4>1, <4>2
      <3>2. \A r \in next.rows : r.epoch = longer.epoch => r.seq <= longer.to
        BY <1>1, <1>3, <1>4, <2>1, <2>3
      <3> QED
        BY <2>3, <3>1, <3>2 DEF Held
    <2>5. UpTo(EndOf(range), EndOf(longer))
      BY <1>1, <1>3, <1>5, <2>1 DEF UpTo, EndOf, Row
    <2> QED
      BY <2>1, <2>2, <2>3, <2>4, <2>5 DEF Lengthened
  <1>12. t.synced /\ range # NoSpan /\ range.epoch # e /\ n = 1 => Lengthened(t, again, {row})
    <2> SUFFICES ASSUME t.synced, range # NoSpan, range.epoch # e, n = 1
                 PROVE  Lengthened(t, again, {row})
      OBVIOUS
    <2> DEFINE span == Span(e, 1, 1)
    <2>1. /\ span \in Spans /\ span.epoch = e /\ span.from = 1 /\ span.to = 1 /\ span # NoSpan
          /\ RangeOK(span)
      BY <1>1, <1>3 DEF Span, Spans, NoSpan, RangeOK
    <2> HIDE DEF span
    <2>2. /\ again \in Timelines /\ again.synced = t.synced /\ again.newer = t.newer
          /\ again.init = t.init /\ again.range = span /\ again.rows = {row}
      BY <1>2, <2>1 DEF Timelines, span
    <2> HIDE DEF again
    <2>3. Held(again)
      <3>1. \A k \in 1..1 : k = 1
        OBVIOUS
      <3>2. \A k \in span.from..span.to : Row(span.epoch, k) \in again.rows
        BY <1>3, <2>1, <2>2, <3>1
      <3>3. \A r \in again.rows : r.epoch = span.epoch => r.seq <= span.to
        BY <2>1, <2>2
      <3> QED
        BY <2>2, <3>2, <3>3 DEF Held
    <2>4. range.epoch < e
      <3>1. EndOf(range) \in t.rows
        BY EndIsHeld
      <3>2. EndOf(range).epoch = range.epoch
        BY DEF EndOf, Row
      <3> QED
        BY <1>1, <1>3, <1>4, <1>5, <3>1, <3>2
    <2>5. UpTo(EndOf(range), EndOf(span))
      BY <2>1, <2>4 DEF UpTo, EndOf, Row
    <2> QED
      BY <2>1, <2>2, <2>3, <2>5 DEF Lengthened
  <1> HIDE DEF u, painted, first, next, again, range
  <1>13. Lengthened(t, u, {row})
    BY <1>6, <1>8, <1>9, <1>10, <1>11, <1>12
  <1> QED
    BY <1>13 DEF u
(* The queued rows are applied one after the other: by induction on their  *)
(* number.                                                                 *)

\* Induction over the naturals, for a set and not a predicate.
LEMMA Induction ==
  ASSUME NEW T, 0 \in T, \A n \in Nat : n \in T => n + 1 \in T
  PROVE  \A n \in Nat : n \in T
  <1> DEFINE R == OpToRel(<, Nat)
             U == Nat \ T
  <1>1. \A x, y \in Nat : x < y => <<x, y>> \in R
    BY DEF OpToRel
  <1>2. IsWellFoundedOn(R, Nat)
    BY NatLessThanWellFounded
  <1> HIDE DEF R
  <1>3. SUFFICES ASSUME U # {} PROVE FALSE
    OBVIOUS
  <1>4. PICK x \in U : \A y \in U : ~(<<y, x>> \in R)
    BY <1>2, <1>3, WFMin
  <1>5. x # 0 /\ x - 1 \in Nat /\ x - 1 < x
    BY <1>4
  <1>6. x - 1 \in T
    BY <1>1, <1>4, <1>5
  <1>7. x - 1 + 1 \in T /\ x - 1 + 1 = x
    BY <1>5, <1>6
  <1> QED
    BY <1>4, <1>7

\* The function that BatchApplied chooses exists.
LEMMA BatchExists ==
  ASSUME NEW t, NEW s, NEW N \in Nat
  PROVE  \E g : g = [i \in 0..N |-> IF i = 0 THEN [timeline |-> t, recoveries |-> <<>>] ELSE BatchStep(g[i - 1], s[i])]
  <1> DEFINE First == [timeline |-> t, recoveries |-> <<>>]
             Step(x, i) == BatchStep(x, s[i])
             Kind(g, n) == g = [i \in 0..n |-> IF i = 0 THEN First ELSE Step(g[i - 1], i)]
             T == {n \in Nat : \E g : Kind(g, n)}
  <1> HIDE DEF First, Step
  <1>1. 0 \in T
    <2>1. Kind([i \in 0..0 |-> First], 0)
      OBVIOUS
    <2> QED
      BY <2>1
  <1>2. ASSUME NEW n \in Nat, n \in T
        PROVE  n + 1 \in T
    <2>1. PICK g : Kind(g, n)
      BY <1>2
    <2> DEFINE h == [i \in 0..n + 1 |-> IF i = n + 1 THEN Step(g[n], n + 1) ELSE g[i]]
    <2>2. h[0] = First
      BY <2>1
    <2>3. ASSUME NEW i \in 0..n + 1, i # 0
          PROVE  h[i] = Step(h[i - 1], i)
      <3>1. i - 1 \in 0..n /\ h[i - 1] = g[i - 1]
        BY <2>3
      <3>2. CASE i = n + 1
        BY <3>1, <3>2
      <3>3. CASE i # n + 1
        <4>1. i \in 0..n /\ h[i] = g[i]
          BY <3>3
        <4>2. g[i] = Step(g[i - 1], i)
          BY <2>1, <2>3, <4>1
        <4> QED
          BY <3>1, <4>1, <4>2
      <3> QED
        BY <3>2, <3>3
    <2>4. h = [i \in 0..n + 1 |-> IF i = 0 THEN First ELSE Step(h[i - 1], i)]
      BY <2>2, <2>3
    <2> HIDE DEF h
    <2>5. Kind(h, n + 1)
      BY <2>4
    <2> QED
      BY <2>5
  <1>3. N \in T
    <2> HIDE DEF T
    <2> QED
      BY <1>1, <1>2, Induction
  <1>4. PICK g : Kind(g, N)
    BY <1>3
  <1> QED
    BY <1>4 DEF First, Step

\* Requests q follow up a timeline u that comes of t.
FollowUp(q, t, u, new) ==
  /\ q \in Seq(Requests)
  /\ \A i \in DOMAIN q : q[i].dir = "after" /\ Position(q[i]) \in t.rows \union new
  /\ q # <<>> => t.synced /\ u.range # NoSpan

\* A batch of live rows in order lengthens the range and asks only to go on from its end
\* (processAgentStreamEvents).
LEMMA BatchLengthens ==
  ASSUME NEW t \in Timelines, RangeOK(t.range), Held(t), NEW s \in Seq(Rows),
         \A r \in t.rows : \A i \in DOMAIN s : Before(r, s[i]),
         \A i, k \in DOMAIN s : i < k => Before(s[i], s[k])
  PROVE  /\ Lengthened(t, BatchApplied(t, s).timeline, { s[i] : i \in DOMAIN s })
         /\ FollowUp(BatchApplied(t, s).recoveries, t, BatchApplied(t, s).timeline,
                     { s[i] : i \in DOMAIN s })
  <1> DEFINE N == Len(s)
             New(n) == { s[i] : i \in 1..n }
             Start == [timeline |-> t, recoveries |-> <<>>]
             Step(x, i) == BatchStep(x, s[i])
             Kind(g) == g = [i \in 0..N |-> IF i = 0 THEN Start ELSE Step(g[i - 1], i)]
             after == CHOOSE g : Kind(g)
             Good(x, n) == Lengthened(t, x.timeline, New(n))
                           /\ FollowUp(x.recoveries, t, x.timeline, New(n))
  <1>1. N \in Nat /\ DOMAIN s = 1..N
    BY LenProperties
  <1>2. \A i \in 1..N : s[i] \in Rows
    BY <1>1, ElementOfSeq
  <1>3. Good(Start, 0)
    <2>1. t.range \in Spans
      BY DEF Timelines
    <2>2. UpTo(EndOf(t.range), EndOf(t.range))
      BY <2>1, PointTypes, OrderOfRows
    <2>3. Lengthened(t, t, New(0))
      BY <2>2 DEF Lengthened
    <2>4. FollowUp(<<>>, t, t, New(0))
      <3>1. <<>> \in Seq(Requests) /\ DOMAIN <<>> = {}
        BY EmptySeq
      <3> QED
        BY <3>1 DEF FollowUp
    <2> QED
      BY <2>3, <2>4
  <1>4. New(N) = { s[i] : i \in DOMAIN s }
    BY <1>1
  <1>5. CASE t.synced /\ t.newer
    <2>1. BatchApplied(t, s) = Start
      BY <1>5 DEF BatchApplied
    <2>2. Lengthened(t, Start.timeline, New(N)) /\ FollowUp(Start.recoveries, t, Start.timeline, New(N))
      BY <1>3 DEF Lengthened, FollowUp
    <2> HIDE DEF Start, New
    <2> QED
      BY <1>4, <2>1, <2>2
  <1>6. CASE ~(t.synced /\ t.newer)
    <2>1. BatchApplied(t, s) = after[N]
      BY <1>6 DEF BatchApplied
    <2>2. Kind(after)
      BY <1>1, BatchExists
    <2> HIDE DEF after, Step, Start
    <2>3. after[0] = Start /\ \A i \in 1..N : after[i] = Step(after[i - 1], i)
      BY <1>1, <2>2
    <2> DEFINE T == {n \in Nat : n <= N => Good(after[n], n)}
    <2> HIDE DEF Good
    <2>4. 0 \in T
      BY <1>3, <2>3
    <2>5. ASSUME NEW n \in Nat, n \in T
          PROVE  n + 1 \in T
      <3> SUFFICES ASSUME n + 1 <= N
                   PROVE  Good(after[n + 1], n + 1)
        OBVIOUS
      <3> DEFINE x == after[n]
                 u == x.timeline
                 q == x.recoveries
                 row == s[n + 1]
                 v == EventApplied(u, row)
                 more == CatchUpAfter(u.range.epoch, u.range.to)
                 w == IF EventGap(u, row) THEN Append(q, more) ELSE q
      <3>1. n + 1 \in 1..N /\ n <= N /\ (n + 1) - 1 = n
        BY <1>1
      <3>2. Lengthened(t, u, New(n)) /\ FollowUp(q, t, u, New(n))
        BY <2>5, <3>1 DEF Good
      <3>3. after[n + 1] = [timeline |-> v, recoveries |-> w]
        <4>1. after[n + 1] = Step(x, n + 1)
          BY <2>3, <3>1
        <4> QED
          BY <4>1 DEF Step, BatchStep
      <3> HIDE DEF x, u, q
      <3>4. row \in Rows
        BY <1>2, <3>1
      <3>5. \A r \in u.rows : Before(r, row)
        <4>1. \A r \in New(n) : Before(r, row)
          BY <1>1, <3>1
        <4> QED
          BY <1>1, <3>1, <3>2, <4>1 DEF Lengthened
      <3>6. Lengthened(u, v, {row})
        <4>1. u \in Timelines /\ RangeOK(u.range) /\ Held(u)
          BY <3>2 DEF Lengthened
        <4> QED
          BY <3>4, <3>5, <4>1, EventLengthens
      <3>7. New(n) \subseteq New(n + 1) /\ row \in New(n + 1)
        BY <3>1
      <3> HIDE DEF New, v, row
      <3>8. Lengthened(t, v, New(n + 1))
        <4>1. /\ v.rows \subseteq u.rows \union {row} /\ u.rows \subseteq t.rows \union New(n)
              /\ ~t.synced => t.rows \subseteq v.rows
              /\ v.range = NoSpan => t.range = NoSpan
              /\ v.synced = t.synced /\ v.newer = t.newer /\ v.init = t.init
              /\ v \in Timelines /\ RangeOK(v.range) /\ Held(v)
          BY <3>2, <3>6 DEF Lengthened
        <4>2. UpTo(EndOf(t.range), EndOf(v.range))
          <5>1. t.range \in Spans /\ u.range \in Spans /\ v.range \in Spans
            BY <3>2, <3>6 DEF Lengthened, Timelines
          <5>2. UpTo(EndOf(t.range), EndOf(u.range)) /\ UpTo(EndOf(u.range), EndOf(v.range))
            BY <3>2, <3>6 DEF Lengthened
          <5> QED
            BY <5>1, <5>2, PointTypes, OrderOfRows
        <4>3. v.rows \subseteq t.rows \union New(n + 1)
          BY <3>7, <4>1
        <4> QED
          BY <4>1, <4>2, <4>3 DEF Lengthened
      <3>9. FollowUp(w, t, v, New(n + 1))
        <4>1. /\ q \in Seq(Requests) /\ (v.range = NoSpan => u.range = NoSpan)
              /\ u.synced = t.synced /\ u \in Timelines /\ RangeOK(u.range) /\ Held(u)
              /\ u.rows \subseteq t.rows \union New(n)
              /\ \A i \in DOMAIN q : q[i].dir = "after" /\ Position(q[i]) \in t.rows \union New(n)
              /\ q # <<>> => t.synced /\ u.range # NoSpan
          BY <3>2, <3>6 DEF Lengthened, FollowUp
        <4>2. CASE EventGap(u, row)
          <5>1. u.synced /\ u.range # NoSpan
            BY <4>2 DEF EventGap
          <5>2. more \in Requests /\ Position(more) \in t.rows \union New(n) /\ more.dir = "after"
            <6>1. u.range \in Spans
              BY <4>1 DEF Timelines
            <6>2. more \in Requests /\ Position(more) = EndOf(u.range)
              BY <4>1, <5>1, <6>1, SpanTypes
            <6>3. EndOf(u.range) \in u.rows
              BY <4>1, <5>1, EndIsHeld
            <6> QED
              BY <4>1, <6>2, <6>3 DEF CatchUpAfter, Request
          <5> HIDE DEF more
          <5>6. w = Append(q, more)
            BY <4>2
          <5> HIDE DEF w
          <5>3. /\ w \in Seq(Requests) /\ Len(w) = Len(q) + 1
                /\ \A i \in 1..Len(q) : w[i] = q[i]
                /\ w[Len(q) + 1] = more
            BY <4>1, <5>2, <5>6, AppendProperties
          <5>4. DOMAIN q = 1..Len(q) /\ DOMAIN w = 1..Len(q) + 1 /\ Len(q) \in Nat
            BY <4>1, <5>3, LenProperties
          <5>5. \A i \in DOMAIN w : w[i].dir = "after" /\ Position(w[i]) \in t.rows \union New(n + 1)
            BY <3>7, <4>1, <5>2, <5>3, <5>4
          <5> QED
            BY <4>1, <5>1, <5>3, <5>5 DEF FollowUp
        <4>3. CASE ~EventGap(u, row)
          <5>1. w = q
            BY <4>3
          <5> HIDE DEF w
          <5> QED
            BY <3>7, <4>1, <5>1 DEF FollowUp
        <4> QED
          BY <4>2, <4>3
      <3> HIDE DEF w
      <3> QED
        BY <3>3, <3>8, <3>9 DEF Good
    <2>6. N \in T
      <3> HIDE DEF T
      <3> QED
        BY <1>1, <2>4, <2>5, Induction
    <2>7. Good(after[N], N)
      BY <1>1, <2>6
    <2> HIDE DEF New
    <2> QED
      BY <1>4, <2>1, <2>7 DEF Good
  <1> QED
    BY <1>5, <1>6

-----------------------------------------------------------------------------
(* The client's timeline: pages. *)

\* The rows of a page.
LEMMA RowsTypes ==
  ASSUME NEW e \in 1..MaxEpoch, NEW from \in 0..MaxRows, NEW to \in 0..MaxRows
  PROVE  /\ RowsOf(e, from, to) \subseteq Rows
         /\ from = 0 => RowsOf(e, from, to) = {}
         /\ from # 0 => \A n \in from..to : Row(e, n) \in RowsOf(e, from, to)
         /\ \A r \in RowsOf(e, from, to) : r.epoch = e /\ from <= r.seq /\ r.seq <= to
  BY Bounds DEF RowsOf, Row, Rows

NonEmpty(span, e, from, to) ==
  /\ span \in Spans /\ RangeOK(span) /\ span # NoSpan
  /\ span.epoch = e /\ span.from = from /\ span.to = to

\* A span of rows is a span.
LEMMA SpanMade ==
  ASSUME NEW e \in 1..MaxEpoch, NEW from \in 1..MaxRows, NEW to \in 1..MaxRows, from <= to
  PROVE  NonEmpty(Span(e, from, to), e, from, to)
  BY Bounds DEF NonEmpty, NoSpan, Span, Spans, RangeOK

\* A commit keeps the range and rows it is given (commitProcessedTimeline).
LEMMA CommittedTypes ==
  ASSUME NEW t \in Timelines, NEW page \in Pages, NEW placed \in Timelines
  PROVE  /\ Committed(t, placed, page) \in Timelines
         /\ Committed(t, placed, page).range = placed.range
         /\ Committed(t, placed, page).rows = placed.rows
         /\ Committed(t, placed, page).synced =
              (placed.synced \/ page.dir = "tail" \/ ~page.hasNewer)
  <1> DEFINE i == InitAfter(t, page)
             b == placed.synced \/ page.dir = "tail" \/ ~page.hasNewer
             u == Committed(t, placed, page)
  <1>1. t.init \in {"none", "tail", "after"} /\ page.hasNewer \in BOOLEAN
    BY DEF Timelines, Pages
  <1>2. i \in {"none", "tail", "after"}
    BY <1>1 DEF InitAfter
  <1>3. b \in BOOLEAN
    OBVIOUS
  <1>4. u = [placed EXCEPT !.newer = page.hasNewer, !.init = i, !.synced = b]
    BY DEF Committed
  <1> HIDE DEF i, b, u
  <1>5. u \in Timelines /\ u.range = placed.range /\ u.rows = placed.rows /\ u.synced = b
    BY <1>1, <1>2, <1>3, <1>4 DEF Timelines
  <1> QED
    BY <1>5 DEF b, u

\* Where a page has been put.
Placed(t, placed, range, rows) ==
  /\ placed \in Timelines /\ placed.range = range /\ placed.rows = rows
  /\ placed.synced = t.synced

\* A timeline with another range and other rows.
LEMMA PlacedTypes ==
  ASSUME NEW t \in Timelines, NEW range \in Spans, NEW rows \in SUBSET Rows
  PROVE  Placed(t, [t EXCEPT !.range = range, !.rows = rows], range, rows)
  BY DEF Timelines, Placed

\* Timeline u comes of t by a page.
PageMoves(t, u, page) ==
  /\ u \in Timelines /\ RangeOK(u.range) /\ Held(u)
  /\ t.synced => u.synced
  /\ ~u.synced => t.rows \subseteq u.rows
  /\ \A r \in u.rows : r \in t.rows \/ (~page.error /\ UpTo(r, Top(page)))
  /\ Empty(u) => /\ ~page.hasNewer
                 /\ \/ Empty(t)
                    \/ ~page.error /\ page.max = 0 /\ (page.dir = "tail" \/ page.reset)
  /\ t.synced /\ u.range # NoSpan => UpTo(EndOf(t.range), EndOf(u.range))

\* A page that is all there is.
LEMMA ReplacedMoves ==
  ASSUME NEW t \in Timelines, RangeOK(t.range), Held(t), NEW page \in Pages, Shaped(page),
         ~page.error, \A r \in t.rows : UpTo(r, Top(page)), page.dir = "tail" \/ page.reset,
         NEW continuing \in BOOLEAN, NEW u,
         u = Committed(t, ReplacedBy(t, page, continuing), page)
  PROVE  PageMoves(t, u, page) /\ (page.from # 0 => u.synced /\ ~Empty(u))
  <1> DEFINE e == page.epoch
             span == IF page.from = 0 THEN NoSpan ELSE Span(e, page.from, page.to)
             kept == IF continuing THEN { r \in t.rows : r.epoch = e /\ r.seq > page.to } ELSE {}
             rows == RowsOf(e, page.from, page.to) \union kept
  <1>0. MaxRows \in Nat /\ MaxEpoch \in Nat
    BY Bounds
  <1>1. /\ e \in 1..MaxEpoch /\ page.from \in 0..MaxRows /\ page.to \in 0..MaxRows
        /\ page.max \in 0..MaxRows
        /\ page.from # 0 => page.from <= page.to /\ page.to = page.max
        /\ page.from = 0 => page.max = 0 /\ page.to = 0
        /\ ~page.hasNewer
    BY <1>0 DEF Pages, Shaped
  <1>2. t.rows \subseteq Rows /\ t.range \in Spans
    BY DEF Timelines
  <1>3. /\ rows \subseteq Rows
        /\ page.from # 0 => \A n \in page.from..page.to : Row(e, n) \in rows
        /\ \A r \in rows : r \in t.rows \/ (r.epoch = e /\ r.seq <= page.to)
        /\ page.from # 0 => \A r \in rows : r.epoch = e => r.seq <= page.to
    <2>1. \A r \in t.rows : r.epoch = e => r.seq <= page.max
      BY <1>0, <1>1, <1>2 DEF UpTo, Top, Row, Rows
    <2>2. /\ RowsOf(e, page.from, page.to) \subseteq Rows
          /\ page.from # 0 => \A n \in page.from..page.to : Row(e, n) \in RowsOf(e, page.from, page.to)
          /\ \A r \in RowsOf(e, page.from, page.to) : r.epoch = e /\ r.seq <= page.to
      BY <1>1, RowsTypes
    <2>3. kept \subseteq t.rows /\ \A r \in kept : r.epoch = e /\ r.seq > page.to
      OBVIOUS
    <2> HIDE DEF kept
    <2> QED
      BY <1>0, <1>1, <1>2, <2>1, <2>2, <2>3
  <1>4. /\ span \in Spans /\ RangeOK(span) /\ (span = NoSpan <=> page.from = 0)
        /\ page.from # 0 => span.epoch = e /\ span.from = page.from /\ span.to = page.to
    <2>1. NoSpan \in Spans /\ RangeOK(NoSpan)
      BY <1>0 DEF NoSpan, Span, Spans, RangeOK
    <2>2. page.from # 0 => NonEmpty(Span(e, page.from, page.to), e, page.from, page.to)
      BY <1>0, <1>1, SpanMade
    <2> QED
      BY <2>1, <2>2 DEF NonEmpty
  <1>5. ReplacedBy(t, page, continuing) = [t EXCEPT !.range = span, !.rows = rows]
    BY DEF ReplacedBy
  <1> HIDE DEF span, rows
  <1>6. u \in Timelines /\ u.range = span /\ u.rows = rows /\ u.synced
    <2> DEFINE placed == ReplacedBy(t, page, continuing)
    <2>1. Placed(t, placed, span, rows)
      BY <1>3, <1>4, <1>5, PlacedTypes
    <2>2. u = Committed(t, placed, page)
      OBVIOUS
    <2> HIDE DEF placed
    <2>3. /\ u \in Timelines /\ u.range = span /\ u.rows = rows
          /\ u.synced = (placed.synced \/ page.dir = "tail" \/ ~page.hasNewer)
      BY <2>1, <2>2, CommittedTypes DEF Placed
    <2> QED
      BY <1>1, <2>3
  <1>7. Held(u)
    BY <1>3, <1>4, <1>6 DEF Held
  <1>8. \A r \in u.rows : r \in t.rows \/ UpTo(r, Top(page))
    BY <1>0, <1>1, <1>3, <1>6 DEF UpTo, Top, Row, Rows
  <1>9. Empty(u) => page.max = 0
    BY <1>1, <1>4, <1>6 DEF Empty
  <1>10. t.synced /\ span # NoSpan => UpTo(EndOf(t.range), EndOf(span))
    <2> SUFFICES ASSUME t.synced, span # NoSpan
                 PROVE  UpTo(EndOf(t.range), EndOf(span))
      OBVIOUS
    <2>0. page.from # 0
      BY <1>4 DEF span
    <2>1. EndOf(span) = Top(page)
      BY <1>1, <1>4, <2>0 DEF EndOf, Top
    <2>2. CASE t.range = NoSpan
      <3>1. EndOf(t.range).epoch = 0 /\ Top(page).epoch = e
        BY <2>2 DEF EndOf, Row, NoSpan, Span, Top
      <3> QED
        BY <1>0, <1>1, <2>1, <3>1 DEF UpTo
    <2>3. CASE t.range # NoSpan
      BY <2>1, <2>3, EndIsHeld
    <2> QED
      BY <2>2, <2>3
  <1> QED
    BY <1>1, <1>4, <1>6, <1>7, <1>8, <1>9, <1>10 DEF PageMoves, Empty
\* A page that is put behind what is held.
LEMMA ExtendedMoves ==
  ASSUME NEW t \in Timelines, RangeOK(t.range), Held(t),
         NEW k \in Spans, RangeOK(k), Painting(t, k), NEW page \in Pages, AnswerOK(page, t, k),
         ~page.error, ~page.reset, \A r \in t.rows : UpTo(r, Top(page)),
         NEW cur, cur = CurrentRange(t, k),
         page.dir = "tail" => \/ cur = NoSpan
                              \/ /\ cur.epoch = page.epoch /\ page.max > cur.to
                                 /\ page.from <= cur.to + 1,
         NEW u, u = Committed(t, Extended(t, cur, page), page)
  PROVE  /\ PageMoves(t, u, page)
         /\ PageGap(cur, page) => t.synced /\ u.range = t.range
  <1> DEFINE e == page.epoch
             from == page.from
             to == page.to
             rows == RowsOf(e, from, to)
             span == Span(e, from, to)
             longer == [cur EXCEPT !.to = to]
             stays == u.range = cur /\ u.rows = t.rows
  <1>0. MaxRows \in Nat /\ MaxEpoch \in Nat
    BY Bounds
  <1>1. /\ t.synced \in BOOLEAN /\ t.rows \subseteq Rows /\ t.range \in Spans
        /\ cur \in Spans /\ RangeOK(cur)
        /\ cur = IF t.synced THEN t.range ELSE k
    BY DEF Timelines, CurrentRange
  <1>2. /\ e \in 1..MaxEpoch /\ from \in 0..MaxRows /\ to \in 0..MaxRows
        /\ page.max \in 0..MaxRows /\ page.hasNewer \in BOOLEAN /\ page.dir \in {"tail", "after"}
        /\ from = 0 => to = 0
        /\ from # 0 => from <= to /\ to <= page.max
        /\ page.hasNewer <=> page.dir = "after" /\ from # 0 /\ to < page.max
        /\ page.dir = "tail" => IF from = 0 THEN page.max = 0 ELSE to = page.max
    BY <1>0 DEF Pages, AnswerOK, Shaped
  <1>3. page.dir = "after" =>
          /\ ~Empty(t)
          /\ ~t.synced => /\ cur # NoSpan /\ e = cur.epoch
                          /\ IF from = 0 THEN page.max <= cur.to ELSE from = cur.to + 1
    <2> SUFFICES ASSUME page.dir = "after"
                 PROVE  /\ ~Empty(t)
                        /\ ~t.synced => /\ cur # NoSpan /\ e = cur.epoch
                                        /\ IF from = 0 THEN page.max <= cur.to ELSE from = cur.to + 1
      OBVIOUS
    <2>1. e = page.request.epoch
      BY DEF AnswerOK, Shaped
    <2>2. IF from = 0 THEN page.max <= page.request.seq ELSE from = page.request.seq + 1
      BY DEF AnswerOK, Shaped
    <2>3. ~Empty(t)
      BY DEF AnswerOK
    <2>4. ~t.synced => k # NoSpan /\ page.request = CatchUpAfter(k.epoch, k.to)
      BY DEF AnswerOK
    <2>5. CatchUpAfter(k.epoch, k.to).epoch = k.epoch /\ CatchUpAfter(k.epoch, k.to).seq = k.to
      BY DEF CatchUpAfter, Request
    <2> QED
      BY <1>1, <2>1, <2>2, <2>3, <2>4, <2>5
  <1>4. \A r \in t.rows : /\ r.epoch \in Nat /\ r.seq \in Nat
                          /\ r.epoch = e => r.seq <= page.max
    BY <1>0, <1>1, <1>2 DEF UpTo, Top, Row, Rows
  <1>5. /\ cur # NoSpan => /\ cur.epoch \in 1..MaxEpoch /\ cur.from \in 1..MaxRows
                           /\ cur.to \in 1..MaxRows /\ cur.from <= cur.to
        /\ cur = NoSpan => cur.epoch = 0 /\ cur.from = 0 /\ cur.to = 0
    BY <1>1, SpanTypes
  <1>6. /\ rows \subseteq Rows
        /\ from # 0 => \A n \in from..to : Row(e, n) \in rows
        /\ \A r \in rows : r.epoch = e /\ from <= r.seq /\ r.seq <= to
    BY <1>2, RowsTypes
  <1>7. /\ t.synced /\ cur # NoSpan => /\ \A n \in cur.from..cur.to : Row(cur.epoch, n) \in t.rows
                                       /\ \A r \in t.rows : r.epoch = cur.epoch => r.seq <= cur.to
        /\ ~t.synced /\ cur # NoSpan => \A n \in cur.from..cur.to : Row(cur.epoch, n) \in t.rows
    <2>1. k # NoSpan => RowsOf(k.epoch, k.from, k.to) \subseteq t.rows
      BY DEF Painting
    <2>2. ~t.synced /\ cur # NoSpan => \A n \in cur.from..cur.to : Row(cur.epoch, n) \in RowsOf(k.epoch, k.from, k.to)
      BY <1>0, <1>1, <1>5 DEF RowsOf
    <2> QED
      BY <1>1, <2>1, <2>2 DEF Held
  <1>8. /\ u \in Timelines
        /\ u.synced = (t.synced \/ page.dir = "tail" \/ ~page.hasNewer)
        /\ \/ stays /\ (from = 0 \/ (cur # NoSpan
                                     /\ ~(cur.epoch = e /\ to > cur.to /\ from <= cur.to + 1)))
           \/ u.range = span /\ u.rows = t.rows \union rows /\ from # 0 /\ cur = NoSpan
           \/ /\ u.range = longer /\ u.rows = t.rows \union rows
              /\ from # 0 /\ cur # NoSpan /\ cur.epoch = e /\ to > cur.to /\ from <= cur.to + 1
    <2> DEFINE placed == Extended(t, cur, page)
               all == t.rows \union rows
    <2>1. all \in SUBSET Rows
      BY <1>1, <1>6
    <2>2. CASE from = 0
      <3>1. placed = [t EXCEPT !.range = cur, !.rows = t.rows]
        BY <1>1, <2>2 DEF Extended, Timelines
      <3>2. Placed(t, placed, cur, t.rows)
        BY <1>1, <3>1, PlacedTypes
      <3> HIDE DEF placed
      <3>3. u = Committed(t, placed, page)
        BY DEF placed
      <3>4. /\ u \in Timelines /\ u.range = cur /\ u.rows = t.rows
            /\ u.synced = (t.synced \/ page.dir = "tail" \/ ~page.hasNewer)
        BY <3>2, <3>3, CommittedTypes DEF Placed
      <3> QED
        BY <2>2, <3>4
    <2>3. CASE from # 0 /\ cur = NoSpan
      <3>1. placed = [t EXCEPT !.range = span, !.rows = all]
        BY <2>3 DEF Extended
      <3>2. span \in Spans
        BY <1>2, <2>3, SpanMade DEF NonEmpty
      <3> HIDE DEF all, span
      <3>3. Placed(t, placed, span, all)
        BY <2>1, <3>1, <3>2, PlacedTypes
      <3> HIDE DEF placed
      <3>4. u = Committed(t, placed, page)
        BY DEF placed
      <3>5. /\ u \in Timelines /\ u.range = span /\ u.rows = all
            /\ u.synced = (t.synced \/ page.dir = "tail" \/ ~page.hasNewer)
        BY <3>3, <3>4, CommittedTypes DEF Placed
      <3> QED
        BY <2>3, <3>5 DEF all
    <2>4. CASE from # 0 /\ cur # NoSpan /\ cur.epoch = e /\ to > cur.to /\ from <= cur.to + 1
      <3>1. placed = [t EXCEPT !.range = longer, !.rows = all]
        BY <2>4 DEF Extended
      <3>2. longer \in Spans
        BY <1>1, <1>2 DEF Spans
      <3> HIDE DEF all, longer
      <3>3. Placed(t, placed, longer, all)
        BY <2>1, <3>1, <3>2, PlacedTypes
      <3> HIDE DEF placed
      <3>4. u = Committed(t, placed, page)
        BY DEF placed
      <3>5. /\ u \in Timelines /\ u.range = longer /\ u.rows = all
            /\ u.synced = (t.synced \/ page.dir = "tail" \/ ~page.hasNewer)
        BY <3>3, <3>4, CommittedTypes DEF Placed
      <3> QED
        BY <2>4, <3>5 DEF all
    <2>5. CASE from # 0 /\ cur # NoSpan /\ ~(cur.epoch = e /\ to > cur.to /\ from <= cur.to + 1)
      <3>1. placed = [t EXCEPT !.range = cur, !.rows = t.rows]
        BY <1>1, <2>5 DEF Extended, Timelines
      <3>2. Placed(t, placed, cur, t.rows)
        BY <1>1, <3>1, PlacedTypes
      <3> HIDE DEF placed
      <3>3. u = Committed(t, placed, page)
        BY DEF placed
      <3>4. /\ u \in Timelines /\ u.range = cur /\ u.rows = t.rows
            /\ u.synced = (t.synced \/ page.dir = "tail" \/ ~page.hasNewer)
        BY <3>2, <3>3, CommittedTypes DEF Placed
      <3> QED
        BY <2>5, <3>4
    <2> QED
      BY <2>2, <2>3, <2>4, <2>5
  <1>9. /\ ~page.hasNewer => u.synced
        /\ t.synced => u.synced
        /\ ~u.synced => ~t.synced
    BY <1>1, <1>8
  <1>10. NoSpan \in Spans /\ RangeOK(NoSpan)
    BY <1>0 DEF NoSpan, Span, Spans, RangeOK
  <1>11. UpTo(EndOf(t.range), EndOf(t.range))
    BY <1>1, PointTypes, OrderOfRows
  <1>12. \A r \in rows : UpTo(r, Top(page))
    <2>1. \A r \in rows : r.epoch = e /\ r.seq <= page.max
      <3>1. \A r \in rows : r.seq \in Nat
        BY <1>0, <1>6 DEF Rows
      <3> QED
        BY <1>0, <1>2, <1>6, <3>1
    <2>2. Top(page).epoch = e /\ Top(page).seq = page.max
      BY DEF Top, Row
    <2> QED
      BY <2>1, <2>2 DEF UpTo
  <1>13. t.range = NoSpan => \A p \in Points : UpTo(EndOf(t.range), p)
    BY DEF EndOf, Row, NoSpan, Span, UpTo, Points
  <1>14. CASE stays /\ t.synced
    <2>1. u.range = t.range /\ u.rows = t.rows /\ u.synced /\ cur = t.range
      BY <1>1, <1>9, <1>14
    <2>2. Held(u) /\ RangeOK(u.range) /\ (Empty(u) => Empty(t))
      BY <1>14, <2>1 DEF Held, Empty
    <2>3. Empty(u) => ~page.hasNewer
      BY <1>2, <1>3, <2>2
    <2> QED
      BY <1>8, <1>11, <1>14, <2>1, <2>2, <2>3 DEF PageMoves
  <1>15. CASE stays /\ ~t.synced
    <2>1. from = 0
      <3> SUFFICES ASSUME from # 0
                   PROVE  FALSE
        OBVIOUS
      <3>1. cur # NoSpan /\ ~(cur.epoch = e /\ to > cur.to /\ from <= cur.to + 1)
        <4>1. CASE u.range = span /\ cur = NoSpan
          <5>1. span # NoSpan
            BY <1>2, SpanMade DEF NonEmpty
          <5> QED
            BY <1>15, <4>1, <5>1
        <4>2. CASE u.range = longer /\ to > cur.to
          <5>1. longer # cur
            <6>1. longer.to = to /\ cur.to \in Nat
              BY <1>0, <1>1 DEF Spans
            <6>2. to \in Nat
              BY <1>0, <1>2
            <6> HIDE DEF longer, to
            <6> QED
              BY <4>2, <6>1, <6>2
          <5> QED
            BY <1>15, <4>2, <5>1
        <4> QED
          BY <1>8, <4>1, <4>2
      <3>2. CASE page.dir = "after"
        BY <1>0, <1>2, <1>3, <1>5, <1>15, <3>1, <3>2
      <3>3. CASE page.dir = "tail"
        BY <1>0, <1>2, <1>5, <1>15, <3>1, <3>3
      <3> QED
        BY <1>2, <3>2, <3>3
    <2>2. ~page.hasNewer /\ u.synced /\ u.range = cur /\ u.rows = t.rows
      BY <1>2, <1>9, <1>15, <2>1
    <2>3. Held(u)
      <3> SUFFICES ASSUME cur # NoSpan
                   PROVE  /\ \A n \in cur.from..cur.to : Row(cur.epoch, n) \in t.rows
                          /\ \A r \in t.rows : r.epoch = cur.epoch => r.seq <= cur.to
        BY <2>2 DEF Held
      <3>1. page.dir = "after"
        BY <1>0, <1>2, <1>5, <2>1
      <3>2. e = cur.epoch /\ page.max <= cur.to
        BY <1>3, <1>15, <2>1, <3>1
      <3>3. \A r \in t.rows : r.epoch = cur.epoch => r.seq <= cur.to
        BY <1>0, <1>2, <1>4, <1>5, <3>2
      <3> QED
        BY <1>7, <1>15, <3>3
    <2>4. Empty(u) => page.max = 0 /\ page.dir = "tail"
      BY <1>2, <1>3, <1>15, <2>1, <2>2 DEF Empty
    <2>5. ~PageGap(cur, page)
      BY <2>1 DEF PageGap
    <2> QED
      BY <1>1, <1>8, <1>15, <2>2, <2>3, <2>4, <2>5 DEF PageMoves
  <1>16. CASE u.range = span /\ u.rows = t.rows \union rows /\ from # 0 /\ cur = NoSpan
    <2>1. NonEmpty(span, e, from, to)
      BY <1>2, <1>16, SpanMade
    <2>2. page.dir = "tail"
      BY <1>1, <1>2, <1>3, <1>16 DEF Empty
    <2>3. u.synced /\ to = page.max
      BY <1>2, <1>8, <1>16, <2>2
    <2>4. Held(u)
      <3>1. \A n \in from..to : Row(e, n) \in u.rows
        BY <1>6, <1>16
      <3>2. \A r \in u.rows : r.epoch = e => r.seq <= to
        BY <1>4, <1>6, <1>16, <2>3
      <3> HIDE DEF span
      <3> QED
        BY <1>16, <2>1, <3>1, <3>2 DEF Held, NonEmpty
    <2>5. t.synced => t.range = NoSpan
      BY <1>1, <1>16
    <2>6. EndOf(u.range) \in Points
      BY <1>8, PointTypes DEF Timelines
    <2>7. ~Empty(u) /\ RangeOK(u.range)
      BY <1>16, <2>1 DEF Empty, NonEmpty
    <2>8. ~PageGap(cur, page)
      BY <1>16 DEF PageGap
    <2> QED
      BY <1>8, <1>12, <1>13, <1>16, <2>3, <2>4, <2>5, <2>6, <2>7, <2>8 DEF PageMoves
  <1>17. CASE /\ u.range = longer /\ u.rows = t.rows \union rows
              /\ from # 0 /\ cur # NoSpan /\ cur.epoch = e /\ to > cur.to /\ from <= cur.to + 1
    <2>1. /\ longer \in Spans /\ longer.epoch = e /\ longer.from = cur.from /\ longer.to = to
          /\ longer # NoSpan
      BY <1>0, <1>1, <1>2, <1>5, <1>17 DEF Spans, NoSpan, Span
    <2>2. RangeOK(longer)
      BY <1>0, <1>2, <1>5, <1>17, <2>1 DEF RangeOK
    <2> HIDE DEF longer, rows
    <2>3. ASSUME NEW n \in cur.from..to PROVE Row(e, n) \in u.rows
      <3>1. n \in cur.from..cur.to \/ n \in from..to
        BY <1>0, <1>2, <1>5, <1>17
      <3> QED
        BY <1>6, <1>7, <1>17, <3>1
    <2>4. u.synced => \A r \in u.rows : r.epoch = e => r.seq <= to
      <3> SUFFICES ASSUME u.synced
                   PROVE  \A r \in t.rows : r.epoch = e => r.seq <= to
        BY <1>6, <1>17
      <3>1. CASE t.synced
        BY <1>0, <1>2, <1>4, <1>5, <1>7, <1>17, <3>1
      <3>2. CASE ~t.synced
        <4>1. to = page.max
          <5>1. page.dir = "tail" \/ ~page.hasNewer
            BY <1>8, <3>2
          <5>2. to \in Nat /\ page.max \in Nat /\ to <= page.max /\ from # 0
            BY <1>0, <1>2, <1>17
          <5> HIDE DEF from, to
          <5> QED
            BY <1>2, <5>1, <5>2
        <4> QED
          BY <1>4, <4>1
      <3> QED
        BY <3>1, <3>2
    <2>5. Held(u)
      BY <1>17, <2>1, <2>3, <2>4 DEF Held
    <2>6. t.synced => UpTo(EndOf(t.range), EndOf(u.range))
      BY <1>0, <1>1, <1>2, <1>5, <1>17, <2>1 DEF UpTo, EndOf, Row
    <2>7. ~Empty(u) /\ ~PageGap(cur, page)
      BY <1>0, <1>2, <1>5, <1>17, <2>1 DEF Empty, PageGap
    <2> QED
      BY <1>8, <1>9, <1>12, <1>17, <2>2, <2>5, <2>6, <2>7 DEF PageMoves
  <1> QED
    BY <1>8, <1>14, <1>15, <1>16, <1>17
\* A request that follows up a page which has made timeline u.
Recovery(q, u, page) ==
  q = NoRequest \/ /\ q \in Requests /\ q.dir = "after"
                   /\ ~page.error /\ UpTo(Position(q), Top(page))
                   /\ u.synced /\ ~Empty(u)

\* Any answer may be applied: the range is replaced or extended without a hole, and what it
\* makes the client ask for goes on from its end (processTimelineResponse).
LEMMA PageApplies ==
  ASSUME NEW t \in Timelines, RangeOK(t.range), Held(t),
         NEW k \in Spans, RangeOK(k), Painting(t, k), NEW page \in Pages, AnswerOK(page, t, k),
         ~page.error => \A r \in t.rows : UpTo(r, Top(page))
  PROVE  /\ PageMoves(t, PageApplied(t, k, page), page)
         /\ Recovery(PageRecovery(t, k, page), PageApplied(t, k, page), page)
  <1> DEFINE cur == CurrentRange(t, k)
             policy == ResumePolicy(t, cur, page)
             continuing == \/ policy = "replace_continuing"
                           \/ policy = "not_resume" /\ (cur.epoch = page.epoch \/ ~page.reset)
             replaces == \/ page.reset \/ BootstrapReplace(t, page)
                         \/ policy \in {"replace", "replace_continuing"}
             u == PageApplied(t, k, page)
             q == PageRecovery(t, k, page)
             i == InitAfter(t, page)
  <1>0. MaxRows \in Nat /\ MaxEpoch \in Nat
    BY Bounds
  <1>1. /\ t.synced \in BOOLEAN /\ t.rows \subseteq Rows /\ t.range \in Spans
        /\ t.init \in {"none", "tail", "after"} /\ t.newer \in BOOLEAN
        /\ cur \in Spans /\ RangeOK(cur) /\ page.hasNewer \in BOOLEAN
        /\ page.dir \in {"tail", "after"}
    BY DEF Timelines, CurrentRange, Pages
  <1>2. UpTo(EndOf(t.range), EndOf(t.range))
    BY <1>1, PointTypes, OrderOfRows
  <1>3. CASE page.error
    <2>1. u = [t EXCEPT !.init = "none"]
      BY <1>3 DEF PageApplied
    <2>2. /\ u \in Timelines /\ u.synced = t.synced /\ u.range = t.range /\ u.rows = t.rows
      BY <1>1, <2>1 DEF Timelines
    <2>3. q = NoRequest
      BY <1>3 DEF PageRecovery
    <2>4. ~page.hasNewer
      BY <1>3 DEF AnswerOK, Shaped
    <2> HIDE DEF u, q
    <2>5. PageMoves(t, u, page)
      BY <1>2, <2>2, <2>4 DEF PageMoves, Held, Empty
    <2> QED
      BY <2>3, <2>5 DEF Recovery, u, q
  <1>4. policy # "not_resume" =>
          /\ page.dir = "tail" /\ ~page.reset /\ cur # NoSpan /\ ~BootstrapReplace(t, page)
          /\ policy \in {"replace", "discard", "append", "replace_continuing"}
          /\ policy = "append" =>
               cur.epoch = page.epoch /\ page.max > cur.to /\ page.from <= cur.to + 1
    BY DEF ResumePolicy
  <1>5. policy = "not_resume" => \/ page.dir # "tail" \/ page.reset
                                 \/ BootstrapReplace(t, page) \/ cur = NoSpan
    BY DEF ResumePolicy
  <1>6. ~page.error => q = IF BootstrapReplace(t, page)
                           THEN IF page.from = 0 THEN NoRequest ELSE CatchUpAfter(page.epoch, page.to)
                           ELSE IF ~page.reset /\ policy = "not_resume" /\ PageGap(cur, page)
                           THEN CatchUpAfter(cur.epoch, cur.to) ELSE NoRequest
    BY DEF PageRecovery
  <1>7. Shaped(page)
    BY DEF AnswerOK
  <1>8. CASE ~page.error /\ policy = "discard"
    <2>1. u = [t EXCEPT !.newer = page.hasNewer, !.init = i]
      BY <1>8 DEF PageApplied
    <2>2. i \in {"none", "tail", "after"}
      BY <1>1 DEF InitAfter
    <2>3. q = NoRequest /\ ~page.hasNewer
      BY <1>4, <1>6, <1>7, <1>8 DEF Shaped
    <2> HIDE DEF i, q
    <2>4. /\ u \in Timelines /\ u.synced = t.synced /\ u.range = t.range /\ u.rows = t.rows
      BY <1>1, <2>1, <2>2 DEF Timelines
    <2> HIDE DEF u
    <2>5. PageMoves(t, u, page)
      BY <1>2, <2>3, <2>4 DEF PageMoves, Held, Empty
    <2> QED
      BY <2>3, <2>5 DEF Recovery, u, q
  <1>9. CASE ~page.error /\ policy # "discard" /\ replaces
    <2>1. u = Committed(t, ReplacedBy(t, page, continuing), page)
      BY <1>9 DEF PageApplied
    <2>2. page.dir = "tail" \/ page.reset
      BY <1>4, <1>9 DEF BootstrapReplace
    <2> DEFINE c == continuing
    <2>3. c \in BOOLEAN
      OBVIOUS
    <2>4. u = Committed(t, ReplacedBy(t, page, c), page)
      BY <2>1
    <2> HIDE DEF c, u
    <2>5. PageMoves(t, u, page) /\ (page.from # 0 => u.synced /\ ~Empty(u))
      BY <1>7, <1>9, <2>2, <2>3, <2>4, ReplacedMoves
    <2>6. Recovery(q, u, page)
      <3>1. CASE BootstrapReplace(t, page) /\ page.from # 0
        <4>1. q = CatchUpAfter(page.epoch, page.to)
          BY <1>6, <1>9, <3>1
        <4>2. /\ page.epoch \in 1..MaxEpoch /\ page.to \in 1..MaxRows /\ page.to = page.max
              /\ page.max # 0
          BY <1>0, <1>7, <1>9, <2>2, <3>1 DEF Shaped, Pages
        <4>3. q \in Requests /\ q.dir = "after" /\ UpTo(Position(q), Top(page))
          BY <1>0, <4>1, <4>2 DEF Requests, CatchUpAfter, Request, Position, Row, Top, UpTo
        <4> HIDE DEF q
        <4> QED
          BY <1>9, <2>5, <3>1, <4>3 DEF Recovery
      <3>2. CASE ~(BootstrapReplace(t, page) /\ page.from # 0)
        <4>1. q = NoRequest
          BY <1>4, <1>6, <1>9, <3>2
        <4> QED
          BY <4>1 DEF Recovery
      <3> QED
        BY <3>1, <3>2
    <2> QED
      BY <2>5, <2>6 DEF u
  <1>10. CASE ~page.error /\ policy # "discard" /\ ~replaces
    <2>1. u = Committed(t, Extended(t, cur, page), page)
      BY <1>10 DEF PageApplied
    <2>2. /\ ~page.reset
          /\ page.dir = "tail" => \/ cur = NoSpan
                                  \/ /\ cur.epoch = page.epoch /\ page.max > cur.to
                                     /\ page.from <= cur.to + 1
      BY <1>4, <1>5, <1>10
    <2> HIDE DEF u
    <2> DEFINE c == cur
    <2>3. /\ c = CurrentRange(t, k) /\ u = Committed(t, Extended(t, c, page), page)
          /\ page.dir = "tail" => \/ c = NoSpan
                                  \/ /\ c.epoch = page.epoch /\ page.max > c.to
                                     /\ page.from <= c.to + 1
      BY <2>1, <2>2
    <2> HIDE DEF c
    <2>4. PageMoves(t, u, page) /\ (PageGap(c, page) => t.synced /\ u.range = t.range)
      BY <1>10, <2>2, <2>3, ExtendedMoves
    <2>5. Recovery(q, u, page)
      <3>1. CASE PageGap(cur, page) /\ policy = "not_resume"
        <4>1. q = CatchUpAfter(cur.epoch, cur.to)
          BY <1>6, <1>10, <3>1
        <4>2. t.synced /\ u.range = t.range /\ cur = t.range /\ t.range # NoSpan /\ u.synced
          <5>1. t.synced /\ u.range = t.range
            BY <2>4, <3>1 DEF c
          <5>2. cur = t.range /\ cur # NoSpan
            BY <3>1, <5>1 DEF CurrentRange, PageGap
          <5> QED
            BY <2>4, <5>1, <5>2 DEF PageMoves
        <4>3. /\ q \in Requests /\ Position(q) = EndOf(t.range) /\ q.dir = "after"
          <5>1. /\ CatchUpAfter(t.range.epoch, t.range.to) \in Requests
                /\ Position(CatchUpAfter(t.range.epoch, t.range.to)) = EndOf(t.range)
            BY <1>1, <4>2, SpanTypes
          <5> QED
            BY <4>1, <4>2, <5>1 DEF CatchUpAfter, Request
        <4>4. EndOf(t.range) \in t.rows
          BY <4>2, EndIsHeld
        <4> HIDE DEF q
        <4> QED
          BY <1>10, <4>2, <4>3, <4>4 DEF Recovery, Empty
      <3>2. CASE ~(PageGap(cur, page) /\ policy = "not_resume")
        <4>1. q = NoRequest
          BY <1>6, <1>10, <3>2
        <4> QED
          BY <4>1 DEF Recovery
      <3> QED
        BY <3>1, <3>2
    <2> QED
      BY <2>4, <2>5 DEF u
  <1> QED
    BY <1>3, <1>8, <1>9, <1>10

-----------------------------------------------------------------------------
(* What is on its way: rows and answers leave in order and stay so.        *)

\* What is behind everything stays behind.
StaysBehind(st, s, d, stn, sn, dn) ==
  \A p \in Points : Behind(p, st, s, d) => Behind(p, stn, sn, dn)

\* What a message brings is a point.
LEMMA BringsPoints ==
  ASSUME NEW m \in Messages
  PROVE  Brings(m) \subseteq Points
  BY MessageTypes, PointTypes DEF Brings

\* Messages are sent: e is d with more messages behind it.
LEMMA WireGrows ==
  ASSUME NEW st, NEW s, NEW d, Wire(st, s, d), NEW stn \in Stores, UpTo(StoreEnd(st), StoreEnd(stn)),
         NEW e \in Seq(Messages), Len(d) <= Len(e), \A i \in 1..Len(d) : e[i] = d[i],
         \A i \in Len(d) + 1..Len(e) :
           /\ \A p \in Points : UpTo(p, StoreEnd(st)) => Precedes(p, e[i])
           /\ \A p \in Brings(e[i]) : /\ UpTo(p, StoreEnd(stn))
                                      /\ \A k \in i + 1..Len(e) : Precedes(p, e[k])
           /\ \A p \in AsksAfter(e[i]) : \A k \in 1..i - 1 : Precedes(p, e[k])
  PROVE  Wire(stn, s, e) /\ StaysBehind(st, s, d, stn, s, e)
  <1>1. st \in Stores /\ s \in Seq(Rows) /\ d \in Seq(Messages) /\ InOrder(st, s, d)
    BY DEF Wire
  <1>2. Len(d) \in Nat /\ Len(e) \in Nat /\ DOMAIN d = 1..Len(d) /\ DOMAIN e = 1..Len(e)
    BY <1>1, LenProperties
  <1>3. StoreEnd(st) \in Points /\ StoreEnd(stn) \in Points
    BY <1>1, PointTypes
  <1>4. \A p \in Points : UpTo(p, StoreEnd(st)) => UpTo(p, StoreEnd(stn))
    BY <1>3, OrderOfRows
  <1> DEFINE M == Len(d)
             N == Len(e)
  <1> HIDE DEF M, N
  <1>5. ASSUME NEW p \in Points, UpTo(p, StoreEnd(st)), NEW j \in Nat,
               \A i \in 1..M : j < i => Precedes(p, d[i])
        PROVE  \A i \in 1..N : j < i => Precedes(p, e[i])
    <2> TAKE i \in 1..N
    <2> HAVE j < i
    <2>1. CASE i \in 1..M
      BY <1>5, <2>1 DEF M
    <2>2. CASE i \in M + 1..N
      BY <1>5, <2>2 DEF M, N
    <2> QED
      BY <1>2, <2>1, <2>2 DEF M, N
  <1>6. StaysBehind(st, s, d, stn, s, e)
    <2> SUFFICES ASSUME NEW p \in Points, Behind(p, st, s, d)
                 PROVE  Behind(p, stn, s, e)
      BY DEF StaysBehind
    <2>1. UpTo(p, StoreEnd(st)) /\ \A i \in 1..M : 0 < i => Precedes(p, d[i])
      BY <1>2 DEF Behind, M
    <2>2. \A i \in 1..N : 0 < i => Precedes(p, e[i])
      BY <1>5, <2>1
    <2> QED
      BY <1>2, <1>4, <2>1, <2>2 DEF Behind, N
  <1>7. ASSUME NEW i \in DOMAIN s
        PROVE  UpTo(s[i], StoreEnd(stn)) /\ \A k \in DOMAIN e : Precedes(s[i], e[k])
    <2>1. s[i] \in Points
      BY <1>1, ElementOfSeq, LenProperties, PointTypes
    <2>2. UpTo(s[i], StoreEnd(st)) /\ \A k \in 1..M : 0 < k => Precedes(s[i], d[k])
      BY <1>1, <1>2 DEF InOrder, M
    <2>3. \A k \in 1..N : 0 < k => Precedes(s[i], e[k])
      BY <1>5, <2>1, <2>2
    <2> QED
      BY <1>2, <1>4, <2>1, <2>2, <2>3 DEF N
  <1>8. ASSUME NEW i \in 1..M, NEW p \in Brings(e[i])
        PROVE  UpTo(p, StoreEnd(stn)) /\ \A k \in DOMAIN e : i < k => Precedes(p, e[k])
    <2>1. d[i] \in Messages /\ e[i] = d[i]
      BY <1>1, <1>2, ElementOfSeq DEF M
    <2>2. p \in Points
      BY <1>8, <2>1, BringsPoints
    <2>3. UpTo(p, StoreEnd(st)) /\ \A k \in 1..M : i < k => Precedes(p, d[k])
      BY <1>1, <1>2, <1>8, <2>1 DEF InOrder, M
    <2>4. \A k \in 1..N : i < k => Precedes(p, e[k])
      BY <1>5, <2>2, <2>3
    <2> QED
      BY <1>2, <1>4, <2>2, <2>3, <2>4 DEF N
  <1>9. ASSUME NEW i \in 1..M, NEW p \in AsksAfter(e[i]), NEW k \in DOMAIN e, k < i
        PROVE  Precedes(p, e[k])
    <2>1. e[i] = d[i] /\ k \in 1..M /\ e[k] = d[k]
      BY <1>2, <1>9 DEF M
    <2> QED
      BY <1>1, <1>2, <1>9, <2>1 DEF InOrder, M
  <1>10. ASSUME NEW i \in M + 1..N
         PROVE  /\ \A p \in Brings(e[i]) :
                     UpTo(p, StoreEnd(stn)) /\ \A k \in DOMAIN e : i < k => Precedes(p, e[k])
                /\ \A p \in AsksAfter(e[i]) : \A k \in DOMAIN e : k < i => Precedes(p, e[k])
    <2>1. \A k \in DOMAIN e : (i < k => k \in i + 1..Len(e)) /\ (k < i => k \in 1..i - 1)
      BY <1>2 DEF M, N
    <2> QED
      BY <2>1 DEF M, N
  <1>11. \A i \in DOMAIN e : i \in 1..M \/ i \in M + 1..N
    BY <1>2 DEF M, N
  <1>12. \A i, k \in DOMAIN s : i < k => Before(s[i], s[k])
    BY <1>1 DEF InOrder
  <1>13. InOrder(stn, s, e)
    BY ONLY <1>7, <1>8, <1>9, <1>10, <1>11, <1>12 DEF InOrder
  <1> QED
    BY <1>1, <1>6, <1>13 DEF Wire

\* One message is sent.
LEMMA WireSends ==
  ASSUME NEW st, NEW s, NEW d, Wire(st, s, d), NEW stn \in Stores, UpTo(StoreEnd(st), StoreEnd(stn)),
         NEW m \in Messages,
         \A p \in Points : UpTo(p, StoreEnd(st)) => Precedes(p, m),
         \A p \in Brings(m) : UpTo(p, StoreEnd(stn)),
         \A p \in AsksAfter(m) : \A k \in DOMAIN d : Precedes(p, d[k])
  PROVE  Wire(stn, s, Append(d, m)) /\ StaysBehind(st, s, d, stn, s, Append(d, m))
  <1> DEFINE e == Append(d, m)
  <1>1. d \in Seq(Messages)
    BY DEF Wire
  <1>2. /\ e \in Seq(Messages) /\ Len(e) = Len(d) + 1 /\ Len(d) \in Nat
        /\ \A i \in 1..Len(d) : e[i] = d[i]
        /\ e[Len(d) + 1] = m /\ DOMAIN d = 1..Len(d)
    BY <1>1, AppendProperties, LenProperties
  <1> HIDE DEF e
  <1>3. \A i \in Len(d) + 1..Len(e) : i = Len(d) + 1 /\ e[i] = m
    BY <1>2
  <1>4. \A i \in Len(d) + 1..Len(e) : i + 1..Len(e) = {} /\ 1..i - 1 = 1..Len(d)
    BY <1>2, <1>3
  <1>5. \A i \in Len(d) + 1..Len(e) :
           /\ \A p \in Points : UpTo(p, StoreEnd(st)) => Precedes(p, e[i])
           /\ \A p \in Brings(e[i]) : /\ UpTo(p, StoreEnd(stn))
                                      /\ \A k \in i + 1..Len(e) : Precedes(p, e[k])
           /\ \A p \in AsksAfter(e[i]) : \A k \in 1..i - 1 : Precedes(p, e[k])
    BY <1>2, <1>3, <1>4
  <1>6. Wire(stn, s, e) /\ StaysBehind(st, s, d, stn, s, e)
    BY <1>2, <1>5, WireGrows
  <1> QED
    BY <1>6 DEF e

\* A message is taken.
RestOf(d, e) == \A i \in DOMAIN e : i + 1 \in DOMAIN d /\ e[i] = d[i + 1]

\* The first message is delivered.
LEMMA WireTakes ==
  ASSUME NEW st, NEW s, NEW d, Wire(st, s, d), d # <<>>
  PROVE  /\ Wire(st, s, Tail(d)) /\ StaysBehind(st, s, d, st, s, Tail(d))
         /\ Head(d) \in Messages /\ RestOf(d, Tail(d)) /\ Head(d) = d[1] /\ 1 \in DOMAIN d
         /\ \A p \in Brings(Head(d)) : /\ UpTo(p, StoreEnd(st))
                                       /\ \A i \in DOMAIN Tail(d) : Precedes(p, Tail(d)[i])
  <1> DEFINE e == Tail(d)
             N == Len(d)
  <1>1. st \in Stores /\ s \in Seq(Rows) /\ d \in Seq(Messages) /\ InOrder(st, s, d)
    BY DEF Wire
  <1>2. /\ e \in Seq(Messages) /\ Len(e) = N - 1 /\ Head(d) \in Messages
        /\ \A i \in 1..N - 1 : e[i] = d[i + 1]
    BY <1>1, HeadTailProperties
  <1>3. Head(d) = d[1]
    BY DEF Head
  <1>4. N \in Nat \ {0} /\ DOMAIN d = 1..N /\ DOMAIN e = 1..N - 1
    BY <1>1, <1>2, LenProperties, EmptySeq
  <1> HIDE DEF e, N
  <1>5. \A i \in DOMAIN e : i + 1 \in DOMAIN d /\ e[i] = d[i + 1] /\ 1 < i + 1 /\ i \in Int
    BY <1>2, <1>4
  <1>6. 1 \in DOMAIN d
    BY <1>4
  <1>7. StaysBehind(st, s, d, st, s, e)
    BY <1>5 DEF StaysBehind, Behind
  <1>8. \A p \in Brings(Head(d)) : /\ UpTo(p, StoreEnd(st))
                                   /\ \A i \in DOMAIN e : Precedes(p, e[i])
    BY <1>1, <1>3, <1>5, <1>6 DEF InOrder
  <1>9. InOrder(st, s, e)
    <2>1. \A i, k \in DOMAIN e : /\ i < k => i + 1 < k + 1
                                 /\ k < i => k + 1 < i + 1
      BY <1>5
    <2>2. ASSUME NEW i \in DOMAIN e, NEW p \in Brings(e[i])
          PROVE  UpTo(p, StoreEnd(st)) /\ \A k \in DOMAIN e : i < k => Precedes(p, e[k])
      BY <1>1, <1>5, <2>1, <2>2 DEF InOrder
    <2>3. ASSUME NEW i \in DOMAIN e, NEW p \in AsksAfter(e[i])
          PROVE  \A k \in DOMAIN e : k < i => Precedes(p, e[k])
      BY <1>1, <1>5, <2>1, <2>3 DEF InOrder
    <2>4. \A i \in DOMAIN s : /\ UpTo(s[i], StoreEnd(st))
                              /\ \A k \in DOMAIN s : i < k => Before(s[i], s[k])
                              /\ \A k \in DOMAIN e : Precedes(s[i], e[k])
      BY <1>1, <1>5 DEF InOrder
    <2> QED
      BY ONLY <2>2, <2>3, <2>4 DEF InOrder
  <1>10. Wire(st, s, e)
    BY <1>1, <1>2, <1>9 DEF Wire
  <1>11. RestOf(d, e)
    BY <1>5 DEF RestOf
  <1> QED
    BY <1>2, <1>3, <1>6, <1>7, <1>8, <1>10, <1>11 DEF e

\* A live row is queued.
LEMMA WireQueues ==
  ASSUME NEW st, NEW s, NEW d, Wire(st, s, d), d # <<>>, Head(d).type = "event"
  PROVE  /\ Wire(st, Append(s, Head(d).row), Tail(d))
         /\ StaysBehind(st, s, d, st, Append(s, Head(d).row), Tail(d))
  <1> DEFINE row == Head(d).row
             z == Append(s, row)
             e == Tail(d)
  <1>1. st \in Stores /\ s \in Seq(Rows) /\ d \in Seq(Messages) /\ InOrder(st, s, d)
    BY DEF Wire
  <1>2. /\ Wire(st, s, e) /\ StaysBehind(st, s, d, st, s, e) /\ Head(d) \in Messages
        /\ Head(d) = d[1] /\ 1 \in DOMAIN d
        /\ \A p \in Brings(Head(d)) : UpTo(p, StoreEnd(st)) /\ \A i \in DOMAIN e : Precedes(p, e[i])
    BY WireTakes
  <1>3. row \in Rows /\ UpTo(row, StoreEnd(st)) /\ \A i \in DOMAIN e : Precedes(row, e[i])
    <2>1. row \in Brings(Head(d))
      BY DEF Brings
    <2> QED
      BY <1>2, <2>1, MessageTypes
  <1>4. \A p : Precedes(p, d[1]) => Before(p, row)
    BY <1>2 DEF Precedes
  <1>5. \A i \in DOMAIN s : Before(s[i], row)
    BY <1>1, <1>2, <1>4 DEF InOrder
  <1>6. e \in Seq(Messages) /\ InOrder(st, s, e)
    BY <1>2 DEF Wire
  <1> HIDE DEF e, row
  <1>7. /\ z \in Seq(Rows) /\ Len(z) = Len(s) + 1 /\ Len(s) \in Nat
        /\ \A i \in 1..Len(s) : z[i] = s[i]
        /\ z[Len(s) + 1] = row /\ DOMAIN s = 1..Len(s) /\ DOMAIN z = 1..Len(s) + 1
    BY <1>1, <1>3, AppendProperties, LenProperties
  <1> HIDE DEF z
  <1>8. StaysBehind(st, s, d, st, z, e)
    <2> SUFFICES ASSUME NEW p \in Points, Behind(p, st, s, d)
                 PROVE  Behind(p, st, z, e)
      BY DEF StaysBehind
    <2>1. Behind(p, st, s, e) /\ Before(p, row)
      BY <1>2, <1>4 DEF StaysBehind, Behind
    <2>2. \A i \in DOMAIN z : Before(p, z[i])
      BY <1>7, <2>1 DEF Behind
    <2> QED
      BY <2>1, <2>2 DEF Behind
  <1>9. InOrder(st, z, e)
    <2>1. \A i \in DOMAIN z : UpTo(z[i], StoreEnd(st)) /\ \A k \in DOMAIN e : Precedes(z[i], e[k])
      BY <1>3, <1>6, <1>7 DEF InOrder
    <2>2. \A i, k \in DOMAIN z : i < k => Before(z[i], z[k])
      <3> TAKE i, k \in DOMAIN z
      <3> HAVE i < k
      <3>1. i \in DOMAIN s /\ z[i] = s[i]
        BY <1>7
      <3>2. CASE k \in DOMAIN s
        BY <1>6, <1>7, <3>1, <3>2 DEF InOrder
      <3>3. CASE k = Len(s) + 1
        BY <1>5, <1>7, <3>1, <3>3
      <3> QED
        BY <1>7, <3>2, <3>3
    <2>3. \A i \in DOMAIN e :
            /\ \A p \in Brings(e[i]) : /\ UpTo(p, StoreEnd(st))
                                       /\ \A k \in DOMAIN e : i < k => Precedes(p, e[k])
            /\ \A p \in AsksAfter(e[i]) : \A k \in DOMAIN e : k < i => Precedes(p, e[k])
      BY <1>6 DEF InOrder
    <2> QED
      BY ONLY <2>1, <2>2, <2>3 DEF InOrder
  <1>10. Wire(st, z, e)
    BY <1>1, <1>6, <1>7, <1>9 DEF Wire
  <1> QED
    BY <1>8, <1>10 DEF z, e, row

\* The queued rows are applied; what is on its way comes after them.
LEMMA WireDrains ==
  ASSUME NEW st, NEW s, NEW d, Wire(st, s, d)
  PROVE  /\ Wire(st, <<>>, d) /\ StaysBehind(st, s, d, st, <<>>, d)
         /\ \A i \in DOMAIN s : s[i] \in Rows /\ Behind(s[i], st, <<>>, d)
  <1>1. st \in Stores /\ s \in Seq(Rows) /\ d \in Seq(Messages) /\ InOrder(st, s, d)
    BY DEF Wire
  <1>2. <<>> \in Seq(Rows) /\ DOMAIN <<>> = {}
    BY EmptySeq
  <1>3. \A i \in DOMAIN s : s[i] \in Rows
    BY <1>1, ElementOfSeq, LenProperties
  <1>4. InOrder(st, <<>>, d)
    BY <1>1, <1>2 DEF InOrder
  <1>5. StaysBehind(st, s, d, st, <<>>, d)
    BY <1>2 DEF StaysBehind, Behind
  <1>6. \A i \in DOMAIN s : Behind(s[i], st, <<>>, d)
    BY <1>1, <1>2 DEF InOrder, Behind
  <1> QED
    BY <1>1, <1>2, <1>3, <1>4, <1>5, <1>6 DEF Wire

\* The connection is lost.
LEMMA WireForgets ==
  ASSUME NEW st, NEW s, NEW d, Wire(st, s, d)
  PROVE  Wire(st, s, <<>>) /\ StaysBehind(st, s, d, st, s, <<>>)
  <1>1. st \in Stores /\ s \in Seq(Rows) /\ d \in Seq(Messages) /\ InOrder(st, s, d)
    BY DEF Wire
  <1>2. <<>> \in Seq(Messages) /\ DOMAIN <<>> = {}
    BY EmptySeq
  <1>3. InOrder(st, s, <<>>)
    BY <1>1, <1>2 DEF InOrder
  <1>4. StaysBehind(st, s, d, st, s, <<>>)
    BY <1>2 DEF StaysBehind, Behind
  <1> QED
    BY <1>1, <1>2, <1>3, <1>4 DEF Wire

\* The same message, whoever waits for it.
SameMessage(m, n) ==
  /\ n.type = m.type
  /\ m.type = "event" => n.row = m.row
  /\ m.type = "page" => n.page = m.page

\* Messages may be waited for or given up.
LEMMA WireAcks ==
  ASSUME NEW st, NEW s, NEW d, Wire(st, s, d), NEW e \in Seq(Messages), DOMAIN e = DOMAIN d,
         \A i \in DOMAIN d : SameMessage(d[i], e[i])
  PROVE  Wire(st, s, e) /\ StaysBehind(st, s, d, st, s, e)
  <1>1. st \in Stores /\ s \in Seq(Rows) /\ d \in Seq(Messages) /\ InOrder(st, s, d)
    BY DEF Wire
  <1>2. \A i \in DOMAIN d : \A p : Precedes(p, d[i]) => Precedes(p, e[i])
    BY DEF Precedes, SameMessage
  <1>3. \A i \in DOMAIN d : Brings(e[i]) = Brings(d[i]) /\ AsksAfter(e[i]) = AsksAfter(d[i])
    BY DEF Brings, AsksAfter, SameMessage
  <1>4. InOrder(st, s, e)
    BY <1>1, <1>2, <1>3 DEF InOrder
  <1>5. StaysBehind(st, s, d, st, s, e)
    BY <1>2 DEF StaysBehind, Behind
  <1> QED
    BY <1>1, <1>4, <1>5 DEF Wire

-----------------------------------------------------------------------------
(* What a timeline allows, and that it goes on being allowed.              *)

\* The requests that name no row.
LEMMA SomeRequests ==
  /\ TailFetch \in Requests /\ TailFetch.dir = "tail"
  /\ NoRequest.dir = "none" /\ NoRequest \notin Requests
  /\ Subscribe.dir = "subscribe" /\ Subscribe \notin Requests
  BY DEF TailFetch, NoRequest, Subscribe, Request, Requests

\* The fetches and parked requests of a timeline are closed under what the catch-up does.
LEMMA JobsAllowed ==
  ASSUME NEW t, NEW k, NEW st, NEW s, NEW d
  PROVE  Allowed(Jobs(t, k, st, s, d), Pendings(t, k, st, s, d))
  <1> DEFINE J == Jobs(t, k, st, s, d)
             P == Pendings(t, k, st, s, d)
             OK(r) == RequestOK(r, t, k, st, s, d)
  <1>1. J \subseteq Fetches /\ \A f \in J : OK(f.request) /\ FetchOK(f, t)
    BY DEF Jobs
  <1>2. OK(TailFetch) /\ OK(NoRequest)
    BY SomeRequests DEF RequestOK
  <1> HIDE DEF OK
  <1>3. ASSUME NEW f \in J PROVE [f EXCEPT !.owner = FALSE] \in J
    <2> DEFINE g == [f EXCEPT !.owner = FALSE]
    <2>1. g \in Fetches /\ g.request = f.request /\ g.kind = f.kind /\ g.fallback = f.fallback
      BY <1>1 DEF Fetches
    <2> HIDE DEF g
    <2>2. OK(g.request) /\ FetchOK(g, t)
      BY <1>1, <2>1 DEF FetchOK
    <2>3. g \in J
      BY <2>1, <2>2 DEF Jobs, OK
    <2> QED
      BY <2>3 DEF g
  <1>4. NoRequest \in P /\ P \subseteq Requests \union {NoRequest}
    BY <1>2, SomeRequests DEF Pendings, OK
  <1>5. Fetch("latest", TailFetch, TRUE, FALSE) \in J
    <2> DEFINE g == Fetch("latest", TailFetch, TRUE, FALSE)
    <2>1. g \in Fetches /\ g.request = TailFetch /\ g.kind = "latest"
      BY SomeRequests DEF Fetch, Fetches
    <2> HIDE DEF g
    <2>2. OK(g.request) /\ FetchOK(g, t)
      BY <1>2, <2>1 DEF FetchOK
    <2>3. g \in J
      BY <2>1, <2>2 DEF Jobs, OK
    <2> QED
      BY <2>3 DEF g
  <1>6. ASSUME NEW r \in P, r # NoRequest PROVE Fetch("page", r, TRUE, FALSE) \in J
    <2> DEFINE g == Fetch("page", r, TRUE, FALSE)
    <2>1. r \in Requests /\ OK(r) /\ t.synced
      BY <1>6 DEF Pendings, OK
    <2>2. g \in Fetches /\ g.request = r
      BY <2>1 DEF Fetch, Fetches
    <2> HIDE DEF g
    <2>3. OK(g.request) /\ FetchOK(g, t)
      BY <2>1, <2>2 DEF FetchOK
    <2>4. g \in J
      BY <2>2, <2>3 DEF Jobs, OK
    <2> QED
      BY <2>4 DEF g
  <1> QED
    BY <1>1, <1>3, <1>4, <1>5, <1>6 DEF Allowed, Closed

\* The end of what is held, and of the cached span, is behind what is on its way.
LEMMA EndsBehind ==
  ASSUME NEW t, NEW k, NEW st, NEW s, NEW d, ClientOK(t, k, st, s, d)
  PROVE  /\ t.synced /\ t.range # NoSpan => Behind(EndOf(t.range), st, s, d)
         /\ k # NoSpan => ~t.synced /\ Behind(EndOf(k), st, s, d)
  <1>1. /\ t \in Timelines /\ RangeOK(t.range) /\ Held(t) /\ k \in Spans /\ RangeOK(k)
        /\ Painting(t, k) /\ \A r \in t.rows : Behind(r, st, s, d)
    BY DEF ClientOK
  <1>2. t.synced /\ t.range # NoSpan => EndOf(t.range) \in t.rows
    BY <1>1, EndIsHeld
  <1>3. k # NoSpan => EndOf(k) \in t.rows
    <2> HAVE k # NoSpan
    <2>1. /\ k.epoch \in 1..MaxEpoch /\ k.from \in 1..MaxRows /\ k.to \in 1..MaxRows
          /\ k.from <= k.to
      BY <1>1, SpanTypes
    <2>2. k.to \in k.from..k.to /\ k.from # 0 /\ k.from \in 0..MaxRows /\ k.to \in 0..MaxRows
      BY <2>1, Bounds
    <2>3. EndOf(k) \in RowsOf(k.epoch, k.from, k.to)
      BY <2>1, <2>2, RowsTypes DEF EndOf
    <2> QED
      BY <1>1, <2>3 DEF Painting
  <1>4. k # NoSpan => ~t.synced
    BY <1>1 DEF Painting
  <1> QED
    BY <1>1, <1>2, <1>3, <1>4

\* A catch-up may resume from what is read of the timeline, whatever is kept.
LEMMA ResumeStarts ==
  ASSUME NEW t, NEW k, NEW st, NEW s, NEW d, ClientOK(t, k, st, s, d),
         NEW request \in Pendings(t, k, st, s, d)
  PROVE  StartsIn(request, ReadCursor(t, k), Jobs(t, k, st, s, d), Pendings(t, k, st, s, d))
  <1> DEFINE range == ReadCursor(t, k)
             r == ResumeFetch(range)
             g == Fetch("page", r, TRUE, r.dir = "after")
  <1>1. t \in Timelines /\ RangeOK(t.range) /\ k \in Spans /\ RangeOK(k) /\ t.range \in Spans
    BY DEF ClientOK, Timelines
  <1>2. \/ r = TailFetch
        \/ r = CatchUpAfter(k.epoch, k.to) /\ k # NoSpan
        \/ r = CatchUpAfter(t.range.epoch, t.range.to) /\ t.synced /\ t.range # NoSpan
    BY DEF ReadCursor, ResumeFetch
  <1> HIDE DEF range, r
  <1>3. r \in Requests /\ RequestOK(r, t, k, st, s, d)
    <2>1. CASE r = TailFetch
      BY <2>1, SomeRequests DEF RequestOK
    <2>2. CASE r = CatchUpAfter(k.epoch, k.to) /\ k # NoSpan
      <3>1. r \in Requests /\ Position(r) = EndOf(k)
        BY <1>1, <2>2, SpanTypes
      <3>2. ~t.synced /\ Behind(EndOf(k), st, s, d)
        BY <2>2, EndsBehind
      <3> QED
        BY <2>2, <3>1, <3>2 DEF RequestOK, Empty
    <2>3. CASE r = CatchUpAfter(t.range.epoch, t.range.to) /\ t.synced /\ t.range # NoSpan
      <3>1. r \in Requests /\ Position(r) = EndOf(t.range)
        BY <1>1, <2>3, SpanTypes
      <3>2. Behind(EndOf(t.range), st, s, d)
        BY <2>3, EndsBehind
      <3> QED
        BY <2>3, <3>1, <3>2 DEF RequestOK, Empty
    <2> QED
      BY <1>2, <2>1, <2>2, <2>3
  <1>4. g \in Fetches /\ g.request = r /\ g.fallback = (r.dir = "after")
    <2> DEFINE b == r.dir = "after"
    <2>1. b \in BOOLEAN
      OBVIOUS
    <2> HIDE DEF b
    <2> QED
      BY <1>3, <2>1 DEF Fetch, Fetches
  <1> HIDE DEF g
  <1>5. g \in Jobs(t, k, st, s, d)
    BY <1>3, <1>4 DEF Jobs, FetchOK
  <1> QED
    BY <1>5 DEF StartsIn, g, r, range

\* The context a timeline gives to requests is followed by another.
Follows(t, k, st, s, d, u, l, stn, sn, dn) ==
  /\ StaysBehind(st, s, d, stn, sn, dn)
  /\ ~u.synced => ~t.synced /\ (l = k \/ k = NoSpan)
  /\ Empty(u) => \/ Empty(t) /\ st.epoch <= stn.epoch
                 \/ \A p \in Rows : Behind(p, st, s, d) => p.epoch < stn.epoch

\* A request that was right goes on being right.
LEMMA RequestKept ==
  ASSUME NEW t, NEW k, NEW st \in Stores, NEW s, NEW d, NEW u, NEW l, NEW stn \in Stores, NEW sn, NEW dn,
         Follows(t, k, st, s, d, u, l, stn, sn, dn),
         NEW r, r \in Requests \/ r.dir # "after", RequestOK(r, t, k, st, s, d)
  PROVE  RequestOK(r, u, l, stn, sn, dn)
  <1> SUFFICES ASSUME r.dir = "after"
               PROVE  RequestOK(r, u, l, stn, sn, dn)
    BY DEF RequestOK
  <1> DEFINE p == Position(r)
  <1>1. p \in Rows /\ p \in Points /\ p.epoch = r.epoch
    BY PointTypes DEF Position, Row
  <1>2. /\ Behind(p, st, s, d) /\ (~t.synced => k # NoSpan /\ r = CatchUpAfter(k.epoch, k.to))
        /\ Empty(t) => r.epoch < st.epoch
    BY DEF RequestOK
  <1> HIDE DEF p
  <1>3. Behind(p, stn, sn, dn)
    BY <1>1, <1>2 DEF Follows, StaysBehind
  <1>4. ~u.synced => l # NoSpan /\ r = CatchUpAfter(l.epoch, l.to)
    BY <1>2 DEF Follows
  <1>5. Empty(u) => r.epoch < stn.epoch
    <2>1. st.epoch \in Nat /\ stn.epoch \in Nat /\ r.epoch \in Nat
      BY <1>1, Bounds DEF Stores, Points
    <2>2. CASE Empty(u) /\ Empty(t) /\ st.epoch <= stn.epoch
      BY <1>2, <2>1, <2>2
    <2>3. CASE \A q \in Rows : Behind(q, st, s, d) => q.epoch < stn.epoch
      BY <1>1, <1>2, <2>3
    <2> QED
      BY <2>2, <2>3 DEF Follows
  <1> QED
    BY <1>3, <1>4, <1>5 DEF RequestOK, p

\* So do the fetches, the parked request and what the daemon was asked.
LEMMA ContextKept ==
  ASSUME NEW t, NEW k, NEW st \in Stores, NEW s, NEW d, NEW u, NEW l, NEW stn \in Stores, NEW sn, NEW dn,
         Follows(t, k, st, s, d, u, l, stn, sn, dn)
  PROVE  /\ Jobs(t, k, st, s, d) \subseteq Jobs(u, l, stn, sn, dn)
         /\ Pendings(t, k, st, s, d) \subseteq Pendings(u, l, stn, sn, dn)
         /\ \A A : AskedOK(A, t, k, st, s, d) => AskedOK(A, u, l, stn, sn, dn)
  <1> DEFINE Old(r) == RequestOK(r, t, k, st, s, d)
             New(r) == RequestOK(r, u, l, stn, sn, dn)
  <1>1. \A r \in Requests \union {NoRequest, Subscribe} : Old(r) => New(r)
    <2> TAKE r \in Requests \union {NoRequest, Subscribe}
    <2>1. r \in Requests \/ r.dir # "after"
      BY SomeRequests
    <2> QED
      BY <2>1, RequestKept
  <1>2. ~u.synced => ~t.synced
    BY DEF Follows
  <1> HIDE DEF Old, New
  <1>3. ASSUME NEW f \in Jobs(t, k, st, s, d) PROVE f \in Jobs(u, l, stn, sn, dn)
    <2>1. f \in Fetches /\ Old(f.request) /\ FetchOK(f, t)
      BY DEF Jobs, Old
    <2>2. f.request \in Requests
      BY <2>1 DEF Fetches
    <2>3. New(f.request) /\ FetchOK(f, u)
      BY <1>1, <1>2, <2>1, <2>2 DEF FetchOK
    <2> QED
      BY <2>1, <2>3 DEF Jobs, New
  <1>4. ASSUME NEW r \in Pendings(t, k, st, s, d) PROVE r \in Pendings(u, l, stn, sn, dn)
    <2>1. r \in Requests \union {NoRequest} /\ Old(r) /\ (~t.synced => r = NoRequest)
      BY DEF Pendings, Old
    <2>2. New(r)
      BY <1>1, <2>1
    <2> QED
      BY <1>2, <2>1, <2>2 DEF Pendings, New
  <1>5. ASSUME NEW A, AskedOK(A, t, k, st, s, d) PROVE AskedOK(A, u, l, stn, sn, dn)
    <2>1. A \in Seq(Asks) /\ \A i \in DOMAIN A : Old(A[i].request)
      BY <1>5 DEF AskedOK, Old
    <2>2. \A i \in DOMAIN A : A[i].request \in Requests \union {NoRequest, Subscribe}
      <3>1. DOMAIN A = 1..Len(A) /\ \A i \in 1..Len(A) : A[i] \in Asks
        BY <2>1, ElementOfSeq, LenProperties
      <3>2. \A a \in Asks : a.request \in Requests \union {NoRequest, Subscribe}
        BY DEF Asks
      <3> QED
        BY <3>1, <3>2
    <2>3. \A i \in DOMAIN A : New(A[i].request)
      BY <1>1, <2>1, <2>2
    <2> QED
      BY <2>1, <2>3 DEF AskedOK, New
  <1> QED
    BY <1>3, <1>4, <1>5

\* A catch-up stays within more.
LEMMA CatchUpKept ==
  ASSUME NEW J, NEW P, NEW c, CatchUpIn(c, J, P), NEW I, NEW Q, J \subseteq I, P \subseteq Q
  PROVE  CatchUpIn(c, I, Q)
  BY DEF CatchUpIn, SentIn

\* Two moves of the catch-up are a move.
LEMMA MovesOn ==
  ASSUME NEW J, NEW P, NEW c, NEW e, NEW g, MovesIn(c, e, J, P), MovesIn(e, g, J, P)
  PROVE  MovesIn(c, g, J, P)
  BY DEF MovesIn

\* The cached position stays behind everything that is on its way.
LEMMA CacheKept ==
  ASSUME NEW span, NEW k, NEW c, NEW st, NEW s, NEW d, CacheOK(span, k, c, st, s, d),
         NEW stn, NEW sn, NEW dn, StaysBehind(st, s, d, stn, sn, dn),
         NEW l \in {NoSpan, k}, NEW e, e.cache = "yes" <=> c.cache = "yes"
  PROVE  CacheOK(span, l, e, stn, sn, dn)
  <1>1. EndOf(span) \in Points
    BY PointTypes DEF CacheOK
  <1> QED
    BY <1>1 DEF CacheOK, StaysBehind

\* A request is opened by a fetch; an initialisation changes nothing that matters here.
SameFor(t, u) ==
  u.synced = t.synced /\ u.range = t.range /\ u.rows = t.rows /\ u.newer = t.newer

\* An initialization request changes neither range nor rows.
LEMMA Initialized ==
  ASSUME NEW t \in Timelines, NEW F, NEW G \in SUBSET Fetches
  PROVE  InitializedBy(t, F, G) \in Timelines /\ SameFor(t, InitializedBy(t, F, G))
  <1> DEFINE u == InitializedBy(t, F, G)
             f == CHOOSE f \in G \ F : f.kind = "page"
             r == f.request
             v == [t EXCEPT !.init = r.dir]
  <1>1. u = t \/ (u = v /\ f \in G)
    <2>1. CASE \E h \in G \ F : h.kind = "page"
      <3>1. f \in G
        BY <2>1
      <3>2. u = Initializing(t, f.request)
        BY <2>1 DEF InitializedBy
      <3> QED
        BY <3>1, <3>2 DEF Initializing
    <2>2. CASE ~ \E h \in G \ F : h.kind = "page"
      BY <2>2 DEF InitializedBy
    <2> QED
      BY <2>1, <2>2
  <1> HIDE DEF f, u
  <1>2. f \in G => r.dir \in {"tail", "after"}
    <2> HAVE f \in G
    <2>1. r \in Requests
      BY DEF Fetches
    <2> QED
      BY <2>1, SomeRequests DEF Requests
  <1> HIDE DEF r
  <1>3. f \in G => v \in Timelines /\ SameFor(t, v)
    BY <1>2 DEF Timelines, SameFor
  <1> HIDE DEF v
  <1> QED
    BY <1>1, <1>3 DEF SameFor, u

\* What is allowed depends on the range, the rows and whether they are synced.
LEMMA SameContext ==
  ASSUME NEW t, NEW u, SameFor(t, u), NEW k, NEW st, NEW s, NEW d
  PROVE  /\ Jobs(u, k, st, s, d) = Jobs(t, k, st, s, d)
         /\ Pendings(u, k, st, s, d) = Pendings(t, k, st, s, d)
         /\ \A A : AskedOK(A, u, k, st, s, d) = AskedOK(A, t, k, st, s, d)
         /\ AnswersOK(d, t, k) => AnswersOK(d, u, k)
         /\ ClientOK(t, k, st, s, d) /\ u \in Timelines => ClientOK(u, k, st, s, d)
         /\ ReadCursor(u, k) = ReadCursor(t, k)
  <1>1. u.synced = t.synced /\ u.range = t.range /\ u.rows = t.rows /\ (Empty(u) <=> Empty(t))
    BY DEF SameFor, Empty
  <1>2. \A r : RequestOK(r, u, k, st, s, d) <=> RequestOK(r, t, k, st, s, d)
    BY <1>1 DEF RequestOK
  <1>3. \A f : FetchOK(f, u) <=> FetchOK(f, t)
    BY <1>1 DEF FetchOK
  <1>4. \A p : AnswerOK(p, t, k) => AnswerOK(p, u, k)
    BY <1>1 DEF AnswerOK
  <1>5. Jobs(u, k, st, s, d) = Jobs(t, k, st, s, d)
    BY <1>2, <1>3 DEF Jobs
  <1>6. Pendings(u, k, st, s, d) = Pendings(t, k, st, s, d)
    BY <1>1, <1>2 DEF Pendings
  <1>7. \A A : AskedOK(A, u, k, st, s, d) = AskedOK(A, t, k, st, s, d)
    BY <1>2 DEF AskedOK
  <1>8. AnswersOK(d, t, k) => AnswersOK(d, u, k)
    BY <1>4 DEF AnswersOK
  <1>9. ClientOK(t, k, st, s, d) /\ u \in Timelines => ClientOK(u, k, st, s, d)
    BY <1>1 DEF ClientOK, Held, Painting
  <1>10. ReadCursor(u, k) = ReadCursor(t, k)
    BY <1>1 DEF ReadCursor
  <1> QED
    BY <1>5, <1>6, <1>7, <1>8, <1>9, <1>10

\* What a catch-up sends is right.
LEMMA SentOK ==
  ASSUME NEW t, NEW k, NEW st, NEW s, NEW d, NEW c, c.sent \in Seq(Requests),
         SentIn(c.sent, Jobs(t, k, st, s, d))
  PROVE  /\ AskedOK(SentBy(c), t, k, st, s, d)
         /\ Len(SentBy(c)) = Len(c.sent)
         /\ \A i \in 1..Len(c.sent) : SentBy(c)[i] = Ask(c.sent[i])
  <1> DEFINE q == c.sent
             A == [i \in DOMAIN q |-> Ask(q[i])]
             n == Len(q)
  <1>1. q \in Seq(Requests) /\ n \in Nat /\ DOMAIN q = 1..n /\ \A i \in 1..n : q[i] \in Requests
    BY LenProperties, ElementOfSeq
  <1>2. \A i \in 1..n : RequestOK(q[i], t, k, st, s, d)
    BY <1>1 DEF SentIn, Jobs
  <1>3. A = SentBy(c)
    BY DEF SentBy
  <1> HIDE DEF q, n
  <1>4. ASSUME NEW i \in 1..n
        PROVE  A[i] = Ask(q[i]) /\ A[i] \in Asks /\ A[i].request = q[i]
    BY <1>1 DEF Ask, Asks
  <1>5. A = [i \in 1..n |-> Ask(q[i])] /\ DOMAIN A = 1..n
    BY <1>1
  <1> HIDE DEF A
  <1>6. A \in [1..n -> Asks]
    BY <1>4, <1>5
  <1>7. A \in Seq(Asks) /\ Len(A) = n
    BY <1>1, <1>5, <1>6, SeqDef, LenProperties
  <1>8. AskedOK(A, t, k, st, s, d)
    BY <1>2, <1>4, <1>5, <1>7 DEF AskedOK
  <1> QED
    BY <1>3, <1>4, <1>7, <1>8 DEF q, n

\* More may be asked, and less.
LEMMA AskedMore ==
  ASSUME NEW t, NEW k, NEW st, NEW s, NEW d, NEW A, NEW B,
         AskedOK(A, t, k, st, s, d), AskedOK(B, t, k, st, s, d)
  PROVE  AskedOK(A \o B, t, k, st, s, d)
  <1> DEFINE C == A \o B
             n == Len(A)
             m == Len(B)
  <1>1. A \in Seq(Asks) /\ B \in Seq(Asks)
    BY DEF AskedOK
  <1>2. /\ C \in Seq(Asks) /\ Len(C) = n + m /\ n \in Nat /\ m \in Nat
        /\ DOMAIN C = 1..n + m /\ DOMAIN A = 1..n /\ DOMAIN B = 1..m
        /\ \A i \in 1..n + m : C[i] = IF i <= n THEN A[i] ELSE B[i - n]
    BY <1>1, ConcatProperties, LenProperties
  <1> HIDE DEF C, n, m
  <1>3. ASSUME NEW i \in 1..n + m PROVE RequestOK(C[i].request, t, k, st, s, d)
    <2>1. CASE i <= n
      BY <1>2, <2>1 DEF AskedOK
    <2>2. CASE ~(i <= n)
      <3>1. i - n \in 1..m
        BY <1>2, <2>2
      <3> QED
        BY <1>2, <2>2, <3>1 DEF AskedOK
    <2> QED
      BY <2>1, <2>2
  <1> QED
    BY <1>2, <1>3 DEF AskedOK, C

\* The requests left when the first is answered.
LEMMA AskedLess ==
  ASSUME NEW t, NEW k, NEW st, NEW s, NEW d, NEW A, AskedOK(A, t, k, st, s, d), A # <<>>
  PROVE  /\ AskedOK(Tail(A), t, k, st, s, d)
         /\ Head(A) \in Asks /\ RequestOK(Head(A).request, t, k, st, s, d)
  <1> DEFINE B == Tail(A)
  <1>1. A \in Seq(Asks) /\ \A i \in DOMAIN A : RequestOK(A[i].request, t, k, st, s, d)
    BY DEF AskedOK
  <1>2. /\ Len(A) \in Nat /\ Len(A) # 0 /\ DOMAIN A = 1..Len(A) /\ Head(A) = A[1] /\ Head(A) \in Asks
        /\ B \in Seq(Asks) /\ Len(B) = Len(A) - 1 /\ DOMAIN B = 1..Len(B)
        /\ \A i \in 1..Len(B) : B[i] = A[i + 1]
    BY <1>1, LenProperties, EmptySeq, HeadTailProperties
  <1> HIDE DEF B
  <1>3. 1 \in DOMAIN A /\ \A i \in 1..Len(B) : i + 1 \in DOMAIN A
    BY <1>2
  <1> QED
    BY <1>1, <1>2, <1>3 DEF AskedOK, B

\* A request that is given up is asked all the same.
LEMMA AskedSame ==
  ASSUME NEW t, NEW k, NEW st, NEW s, NEW d, NEW A, AskedOK(A, t, k, st, s, d),
         NEW B \in Seq(Asks), Len(B) = Len(A), \A i \in 1..Len(A) : B[i].request = A[i].request
  PROVE  AskedOK(B, t, k, st, s, d)
  <1>1. A \in Seq(Asks) /\ DOMAIN A = 1..Len(A) /\ DOMAIN B = 1..Len(A)
    BY LenProperties DEF AskedOK
  <1> QED
    BY <1>1 DEF AskedOK

\* What a handler makes of the catch-up: its requests are sent, its fetches open an
\* initialisation.
LEMMA CatchUpMoves ==
  ASSUME NEW t, NEW k, NEW c, NEW A, NEW span, NEW st, NEW s, NEW d,
         ClientInv(t, k, c, A, span, st, s, d), NEW e, NEW F,
         MovesIn(c, e, Jobs(t, k, st, s, d), Pendings(t, k, st, s, d))
  PROVE  /\ ClientInv(InitializedBy(t, F, e.fetches), k, Settled(e), A \o SentBy(e), span, st, s, d)
         /\ InitializedBy(t, F, e.fetches) \in Timelines
         /\ SameFor(t, InitializedBy(t, F, e.fetches))
  <1> DEFINE G == e.fetches
             u == InitializedBy(t, F, G)
             B == SentBy(e)
             J == Jobs(t, k, st, s, d)
             P == Pendings(t, k, st, s, d)
             q == Settled(e)
  <1>1. /\ Wire(st, s, d) /\ ClientOK(t, k, st, s, d) /\ CacheOK(span, k, c, st, s, d)
        /\ AskedOK(A, t, k, st, s, d) /\ AnswersOK(d, t, k)
    BY DEF ClientInv
  <1>2. CatchUpIn(e, J, P) /\ (e.cache = "yes" <=> c.cache = "yes")
    BY DEF MovesIn
  <1>3. /\ G \in SUBSET Fetches /\ t \in Timelines /\ e \in CatchUps
        /\ e.sent \in Seq(Requests) /\ SentIn(e.sent, J)
    BY <1>1, <1>2 DEF CatchUpIn, CatchUps, ClientOK
  <1>4. CatchUpIn(q, J, P) /\ (q.cache = "yes" <=> c.cache = "yes")
    <2> DEFINE none == <<>>
    <2>1. none \in Seq(Requests) /\ SentIn(none, J)
      BY EmptySeq DEF SentIn
    <2>2. q = [e EXCEPT !.sent = none]
      BY DEF Settled
    <2> HIDE DEF none, q
    <2>3. /\ q \in CatchUps /\ q.fetches = e.fetches /\ q.pending = e.pending /\ q.cache = e.cache
          /\ q.sent = none
      BY <1>3, <2>1, <2>2 DEF CatchUps
    <2> QED
      BY <1>2, <2>1, <2>3 DEF CatchUpIn
  <1> HIDE DEF G, J, P, q
  <1>5. u \in Timelines /\ SameFor(t, u)
    BY <1>3, Initialized
  <1>6. AskedOK(B, t, k, st, s, d)
    BY <1>3, SentOK DEF J
  <1>7. AskedOK(A \o B, t, k, st, s, d)
    BY <1>1, <1>6, AskedMore
  <1> HIDE DEF u, B
  <1>8. CacheOK(span, k, q, st, s, d)
    BY <1>1, <1>4 DEF CacheOK
  <1>9. ClientInv(u, k, q, A \o B, span, st, s, d)
    BY <1>1, <1>4, <1>5, <1>7, <1>8, SameContext DEF ClientInv, J, P
  <1> QED
    BY <1>5, <1>9 DEF u, B, G, q

-----------------------------------------------------------------------------
(* The daemon's steps. *)

\* What is on its way changes; what is known of the timeline goes on.
LEMMA WireMoves ==
  ASSUME NEW t, NEW k, NEW c, NEW A, NEW span, NEW st, NEW s, NEW d,
         ClientInv(t, k, c, A, span, st, s, d), NEW stn, NEW sn, NEW dn, Wire(stn, sn, dn),
         StaysBehind(st, s, d, stn, sn, dn), st.epoch <= stn.epoch, AnswersOK(dn, t, k)
  PROVE  ClientInv(t, k, c, A, span, stn, sn, dn)
  <1>1. /\ Wire(st, s, d) /\ ClientOK(t, k, st, s, d) /\ CacheOK(span, k, c, st, s, d)
        /\ CatchUpIn(c, Jobs(t, k, st, s, d), Pendings(t, k, st, s, d))
        /\ AskedOK(A, t, k, st, s, d)
    BY DEF ClientInv
  <1>2. st \in Stores /\ stn \in Stores
    BY <1>1 DEF Wire
  <1>3. Follows(t, k, st, s, d, t, k, stn, sn, dn)
    BY DEF Follows
  <1>4. /\ Jobs(t, k, st, s, d) \subseteq Jobs(t, k, stn, sn, dn)
        /\ Pendings(t, k, st, s, d) \subseteq Pendings(t, k, stn, sn, dn)
        /\ AskedOK(A, t, k, stn, sn, dn)
    BY <1>1, <1>2, <1>3, ContextKept
  <1>5. CatchUpIn(c, Jobs(t, k, stn, sn, dn), Pendings(t, k, stn, sn, dn))
    BY <1>1, <1>4, CatchUpKept
  <1>6. CacheOK(span, k, c, stn, sn, dn)
    BY <1>1, CacheKept
  <1>7. ClientOK(t, k, stn, sn, dn)
    <2>1. t.rows \subseteq Points
      BY <1>1, PointTypes DEF ClientOK, Timelines
    <2> QED
      BY <1>1, <2>1 DEF ClientOK, StaysBehind
  <1> QED
    BY <1>4, <1>5, <1>6, <1>7 DEF ClientInv

\* A row is added, and sent to a subscriber.
LEMMA Append1Keeps ==
  ASSUME NEW t, NEW k, NEW c, NEW A, NEW span, NEW st, NEW s, NEW d,
         ClientInv(t, k, c, A, span, st, s, d), st.last < MaxRows,
         NEW stn, stn = [st EXCEPT !.last = st.last + 1]
  PROVE  /\ ClientInv(t, k, c, A, span, stn, s, d)
         /\ ClientInv(t, k, c, A, span, stn, s, Append(d, Event(Row(st.epoch, stn.last))))
  <1> DEFINE row == Row(st.epoch, stn.last)
             m == Event(row)
             e == Append(d, m)
  <1>1. Wire(st, s, d) /\ AnswersOK(d, t, k) /\ st \in Stores /\ d \in Seq(Messages)
    BY DEF ClientInv, Wire
  <1>2. /\ stn \in Stores /\ stn.epoch = st.epoch /\ stn.last = st.last + 1
        /\ st.epoch \in 1..MaxEpoch /\ st.last \in Nat
    BY <1>1, Bounds DEF Stores
  <1>3. UpTo(StoreEnd(st), StoreEnd(stn))
    BY <1>2, Bounds DEF UpTo, StoreEnd, Row
  <1>4. row \in Rows /\ row = StoreEnd(stn) /\ row \in Points
    BY <1>2, Bounds, PointTypes DEF Rows, Row, StoreEnd
  <1>5. m \in Messages /\ m.type = "event" /\ m.row = row
    BY <1>4 DEF Messages, Event
  <1>6. ASSUME NEW p \in Points, UpTo(p, StoreEnd(st)) PROVE Before(p, row)
    BY <1>2, <1>6, Bounds DEF Points, UpTo, Before, StoreEnd, Row
  <1> HIDE DEF row, m
  <1>7. \A p \in Points : UpTo(p, StoreEnd(st)) => Precedes(p, m)
    BY <1>5, <1>6 DEF Precedes
  <1>8. \A p \in Brings(m) : UpTo(p, StoreEnd(stn))
    BY <1>4, <1>5, OrderOfRows DEF Brings
  <1>9. AsksAfter(m) = {}
    BY <1>5 DEF AsksAfter
  <1>10. Wire(stn, s, e) /\ StaysBehind(st, s, d, stn, s, e)
    BY <1>1, <1>2, <1>3, <1>5, <1>7, <1>8, <1>9, WireSends
  <1>11. Wire(stn, s, d) /\ StaysBehind(st, s, d, stn, s, d)
    <2>1. Len(d) \in Nat /\ \A i \in Len(d) + 1..Len(d) : FALSE
      BY <1>1, LenProperties
    <2> QED
      BY <1>1, <1>2, <1>3, <2>1, WireGrows
  <1>12. AnswersOK(e, t, k)
    <2>1. /\ DOMAIN d = 1..Len(d) /\ DOMAIN e = 1..Len(d) + 1 /\ Len(d) \in Nat
          /\ \A i \in 1..Len(d) : e[i] = d[i]
          /\ e[Len(d) + 1] = m
      BY <1>1, <1>5, AppendProperties, LenProperties
    <2> HIDE DEF e
    <2> QED
      BY <1>1, <1>5, <2>1 DEF AnswersOK
  <1>13. st.epoch <= stn.epoch
    BY <1>2
  <1> HIDE DEF e
  <1>14. ClientInv(t, k, c, A, span, stn, s, d)
    BY <1>1, <1>11, <1>13, WireMoves
  <1>15. ClientInv(t, k, c, A, span, stn, s, e)
    BY <1>10, <1>12, <1>13, WireMoves
  <1> QED
    BY <1>14, <1>15 DEF e, m, row

\* The timeline is replaced; a subscriber is sent its rows, or told.
LEMMA ReplaceKeeps ==
  ASSUME NEW t, NEW k, NEW c, NEW A, NEW span, NEW st, NEW s, NEW d,
         ClientInv(t, k, c, A, span, st, s, d), st.epoch < MaxEpoch,
         NEW last \in 0..MaxRows, NEW stn, stn = Store(st.epoch + 1, last)
  PROVE  /\ ClientInv(t, k, c, A, span, stn, s, d)
         /\ ClientInv(t, k, c, A, span, stn, s, Append(d, Notice))
         /\ ClientInv(t, k, c, A, span, stn, s, d \o [n \in 1..last |-> Event(Row(st.epoch + 1, n))])
  <1> DEFINE ep == st.epoch + 1
             rows == [n \in 1..last |-> Event(Row(ep, n))]
             e == d \o rows
             g == Append(d, Notice)
  <1>1. Wire(st, s, d) /\ AnswersOK(d, t, k) /\ st \in Stores /\ d \in Seq(Messages)
    BY DEF ClientInv, Wire
  <1>2. /\ stn \in Stores /\ stn.epoch = ep /\ stn.last = last /\ ep \in 1..MaxEpoch
        /\ st.epoch \in 1..MaxEpoch /\ st.last \in Nat /\ last \in Nat /\ st.epoch <= stn.epoch
    BY <1>1, Bounds DEF Stores, Store
  <1>3. UpTo(StoreEnd(st), StoreEnd(stn))
    BY <1>2, Bounds DEF UpTo, StoreEnd, Row
  <1>4. ASSUME NEW n \in 1..last
        PROVE  /\ rows[n] \in Messages /\ rows[n].type = "event" /\ rows[n].row = Row(ep, n)
               /\ \A p \in Points : UpTo(p, StoreEnd(st)) => Precedes(p, rows[n])
               /\ \A p \in Brings(rows[n]) : p = Row(ep, n) /\ UpTo(p, StoreEnd(stn))
               /\ AsksAfter(rows[n]) = {}
    <2> DEFINE row == Row(ep, n)
               m == Event(row)
    <2>1. row \in Rows /\ row.epoch = ep /\ row.seq = n
      BY <1>2, Bounds DEF Rows, Row
    <2>2. rows[n] = m
      OBVIOUS
    <2>3. m \in Messages /\ m.type = "event" /\ m.row = row
      BY <2>1 DEF Messages, Event
    <2>4. UpTo(row, StoreEnd(stn))
      BY <1>2, <2>1 DEF UpTo, StoreEnd, Row
    <2>5. ASSUME NEW p \in Points, UpTo(p, StoreEnd(st)) PROVE Before(p, row)
      BY <1>2, <2>1, <2>5, Bounds DEF Points, UpTo, Before, StoreEnd, Row
    <2> HIDE DEF row, m, rows
    <2>6. \A p \in Points : UpTo(p, StoreEnd(st)) => Precedes(p, m)
      BY <2>3, <2>5 DEF Precedes
    <2>7. Brings(m) = {row} /\ AsksAfter(m) = {}
      BY <2>3 DEF Brings, AsksAfter
    <2> QED
      BY <2>2, <2>3, <2>4, <2>6, <2>7 DEF row
  <1>5. rows \in Seq(Messages) /\ Len(rows) = last
    <2>1. rows \in [1..last -> Messages]
      BY <1>4
    <2> HIDE DEF rows
    <2>2. rows \in Seq(Messages)
      BY <1>2, <2>1, SeqDef
    <2>3. DOMAIN rows = 1..last /\ DOMAIN rows = 1..Len(rows) /\ Len(rows) \in Nat
      BY <2>1, <2>2, LenProperties
    <2> QED
      BY <1>2, <2>2, <2>3
  <1> HIDE DEF rows
  <1>6. /\ e \in Seq(Messages) /\ Len(e) = Len(d) + last /\ Len(d) \in Nat
        /\ \A i \in 1..Len(d) : e[i] = d[i]
        /\ \A i \in Len(d) + 1..Len(e) : i - Len(d) \in 1..last /\ e[i] = rows[i - Len(d)]
    <2>1. /\ e \in Seq(Messages) /\ Len(e) = Len(d) + last /\ Len(d) \in Nat
          /\ \A i \in 1..Len(e) : e[i] = IF i <= Len(d) THEN d[i] ELSE rows[i - Len(d)]
      BY <1>1, <1>5, ConcatProperties, LenProperties
    <2> HIDE DEF e
    <2> QED
      BY <1>2, <2>1
  <1> HIDE DEF e
  <1>7. Wire(stn, s, e) /\ StaysBehind(st, s, d, stn, s, e)
    <2>1. ASSUME NEW i \in Len(d) + 1..Len(e)
          PROVE  /\ \A p \in Points : UpTo(p, StoreEnd(st)) => Precedes(p, e[i])
                 /\ \A p \in Brings(e[i]) : /\ UpTo(p, StoreEnd(stn))
                                            /\ \A j \in i + 1..Len(e) : Precedes(p, e[j])
                 /\ \A p \in AsksAfter(e[i]) : \A j \in 1..i - 1 : Precedes(p, e[j])
      <3> DEFINE n == i - Len(d)
      <3>1. n \in 1..last /\ e[i] = rows[n]
        BY <1>6
      <3>2. ASSUME NEW j \in i + 1..Len(e) PROVE Precedes(Row(ep, n), e[j])
        <4> DEFINE h == j - Len(d)
        <4>1. h \in 1..last /\ e[j] = rows[h] /\ n < h
          BY <1>6, <3>1
        <4>2. rows[h].type = "event" /\ rows[h].row = Row(ep, h)
          BY <1>4, <4>1
        <4>3. Before(Row(ep, n), Row(ep, h))
          BY <4>1 DEF Before, Row
        <4> QED
          BY <4>1, <4>2, <4>3 DEF Precedes
      <3> QED
        BY <1>4, <3>1, <3>2
    <2>2. Len(d) <= Len(e)
      BY <1>2, <1>6
    <2>3. \A i \in 1..Len(d) : e[i] = d[i]
      BY <1>6
    <2>4. e \in Seq(Messages) /\ Wire(st, s, d) /\ stn \in Stores /\ UpTo(StoreEnd(st), StoreEnd(stn))
      BY <1>1, <1>2, <1>3, <1>6
    <2> QED
      BY ONLY <2>1, <2>2, <2>3, <2>4, WireGrows
  <1>8. AnswersOK(e, t, k)
    <2>1. DOMAIN d = 1..Len(d) /\ DOMAIN e = 1..Len(e)
      BY <1>1, <1>6, LenProperties
    <2>2. ASSUME NEW i \in DOMAIN e, e[i].type = "page" PROVE i \in DOMAIN d /\ e[i] = d[i]
      BY <1>4, <1>6, <2>1, <2>2
    <2> QED
      BY <1>1, <2>2 DEF AnswersOK
  <1>9. Wire(stn, s, d) /\ StaysBehind(st, s, d, stn, s, d)
    <2>1. Len(d) \in Nat /\ \A i \in Len(d) + 1..Len(d) : FALSE
      BY <1>1, LenProperties
    <2> QED
      BY <1>1, <1>2, <1>3, <2>1, WireGrows
  <1>10. /\ Notice \in Messages /\ Notice.type = "notice" /\ Brings(Notice) = {} /\ AsksAfter(Notice) = {}
         /\ \A p : Precedes(p, Notice)
    BY DEF Notice, Messages, Brings, AsksAfter, Precedes
  <1>11. Wire(stn, s, g) /\ StaysBehind(st, s, d, stn, s, g)
    BY <1>1, <1>2, <1>3, <1>10, WireSends
  <1>12. AnswersOK(g, t, k)
    <2>1. /\ DOMAIN d = 1..Len(d) /\ DOMAIN g = 1..Len(d) + 1 /\ Len(d) \in Nat
          /\ \A i \in 1..Len(d) : g[i] = d[i]
          /\ g[Len(d) + 1] = Notice
      BY <1>1, <1>10, AppendProperties, LenProperties
    <2> HIDE DEF g
    <2> QED
      BY <1>1, <1>10, <2>1 DEF AnswersOK
  <1> HIDE DEF g
  <1>13. ClientInv(t, k, c, A, span, stn, s, d)
    BY <1>1, <1>2, <1>9, WireMoves
  <1>14. ClientInv(t, k, c, A, span, stn, s, e)
    BY <1>2, <1>7, <1>8, WireMoves
  <1>15. ClientInv(t, k, c, A, span, stn, s, g)
    BY <1>2, <1>11, <1>12, WireMoves
  <1> QED
    BY <1>13, <1>14, <1>15 DEF e, g, rows

\* A subscription is acknowledged.
LEMMA SubscribeKeeps ==
  ASSUME NEW t, NEW k, NEW c, NEW A, NEW span, NEW st, NEW s, NEW d,
         ClientInv(t, k, c, A, span, st, s, d), A # <<>>
  PROVE  ClientInv(t, k, c, Tail(A), span, st, s, Append(d, Ack(Head(A).waited)))
  <1> DEFINE a == Head(A)
             m == Ack(a.waited)
             e == Append(d, m)
  <1>1. /\ Wire(st, s, d) /\ AnswersOK(d, t, k) /\ st \in Stores /\ d \in Seq(Messages)
        /\ AskedOK(A, t, k, st, s, d)
    BY DEF ClientInv, Wire
  <1>2. m \in Messages /\ m.type = "ack"
    <2>1. a.waited \in BOOLEAN
      BY <1>1, AskedLess DEF Asks
    <2> QED
      BY <2>1 DEF Messages, Ack
  <1>3. UpTo(StoreEnd(st), StoreEnd(st)) /\ st.epoch <= st.epoch
    BY <1>1, PointTypes, OrderOfRows, Bounds DEF Stores
  <1> HIDE DEF m
  <1>4. Brings(m) = {} /\ AsksAfter(m) = {} /\ \A p : Precedes(p, m)
    BY <1>2 DEF Brings, AsksAfter, Precedes
  <1>5. Wire(st, s, e) /\ StaysBehind(st, s, d, st, s, e)
    BY <1>1, <1>2, <1>3, <1>4, WireSends
  <1>6. AnswersOK(e, t, k)
    <2>1. /\ DOMAIN d = 1..Len(d) /\ DOMAIN e = 1..Len(d) + 1 /\ Len(d) \in Nat
          /\ \A i \in 1..Len(d) : e[i] = d[i]
          /\ e[Len(d) + 1] = m
      BY <1>1, <1>2, AppendProperties, LenProperties
    <2> HIDE DEF e
    <2> QED
      BY <1>1, <1>2, <2>1 DEF AnswersOK
  <1> HIDE DEF e
  <1>7. ClientInv(t, k, c, A, span, st, s, e)
    BY <1>3, <1>5, <1>6, WireMoves
  <1>8. ClientInv(t, k, c, Tail(A), span, st, s, e)
    BY <1>7, AskedLess DEF ClientInv
  <1> QED
    BY <1>8 DEF e, m

\* What a page answered is: read of the store at its time.
LEMMA PageRead ==
  ASSUME NEW st \in Stores, NEW r \in Requests, NEW page, page = PageAnswered(st, r)
  PROVE  /\ page \in Pages /\ Shaped(page) /\ ~page.error
         /\ page.request = r /\ page.dir = r.dir /\ Top(page) = StoreEnd(st)
         /\ r.dir = "after" /\ r.epoch < st.epoch => page.reset
  <1> DEFINE last == st.last
             other == r.dir = "after" /\ r.epoch # st.epoch
             tail == r.dir = "tail" \/ other
             from == IF tail THEN TailStart(st) ELSE r.seq + 1
             to == IF tail THEN st.last ELSE PageEnd(st, r.seq + 1)
             newer == ~other /\ r.dir = "after" /\ from <= to /\ to < st.last
  <1>1. /\ MaxRows \in Nat /\ MaxEpoch \in Nat /\ PageLimit \in Nat \ {0}
        /\ st.epoch \in 1..MaxEpoch /\ last \in 0..MaxRows
        /\ r.dir \in {"tail", "after"} /\ r.epoch \in 0..MaxEpoch /\ r.seq \in 0..MaxRows
        /\ r.dir = "after" => r.epoch \in 1..MaxEpoch /\ r.seq \in 1..MaxRows
    BY Bounds DEF Stores, Requests, TailFetch, Request
  <1>2. page = Page(r, st, other, from, to)
    BY <1>1 DEF PageAnswered
  <1>3. /\ from \in Nat \ {0} /\ to \in 0..MaxRows /\ to <= last /\ to \in Nat
        /\ tail => to = last /\ (to # 0 => from <= to)
        /\ ~tail => from = r.seq + 1 /\ (from > to => last <= r.seq)
    BY <1>1 DEF TailStart, PageEnd
  <1>4. newer \in BOOLEAN /\ other \in BOOLEAN
    OBVIOUS
  <1> HIDE DEF other, from, to, tail
  <1>5. newer <=> (~other /\ r.dir = "after" /\ from <= to /\ to < last)
    OBVIOUS
  <1> DEFINE a == IF from > to THEN 0 ELSE from
             b == IF from > to THEN 0 ELSE to
  <1>6. a \in 0..MaxRows /\ b \in 0..MaxRows /\ (a = 0 => b = 0) /\ (a # 0 => from = a /\ to = b /\ a <= b)
        /\ (a = 0 <=> from > to)
    BY <1>1, <1>3
  <1>7. page = [request |-> r, dir |-> r.dir, epoch |-> st.epoch, reset |-> other, from |-> a, to |-> b,
                max |-> last, hasNewer |-> newer, error |-> FALSE]
    BY <1>2 DEF Page
  <1> HIDE DEF a, b, newer, last
  <1>8. page \in Pages
    BY <1>1, <1>4, <1>6, <1>7 DEF Pages
  <1>9. /\ page.request = r /\ page.dir = r.dir /\ page.epoch = st.epoch /\ page.reset = other
        /\ page.from = a /\ page.to = b /\ page.max = last /\ page.hasNewer = newer /\ ~page.error
    BY <1>7
  <1>10. tail => IF a = 0 THEN last = 0 ELSE b = last
    BY <1>1, <1>3, <1>6
  <1>11. newer <=> (~other /\ r.dir = "after" /\ a # 0 /\ b < last)
    BY <1>1, <1>3, <1>5, <1>6
  <1>12. ~tail => IF a = 0 THEN last <= r.seq ELSE a = r.seq + 1
    BY <1>1, <1>3, <1>6
  <1>13. (tail <=> r.dir = "tail" \/ other) /\ (other <=> r.dir = "after" /\ r.epoch # st.epoch)
    BY DEF tail, other
  <1>14. Shaped(page)
    <2>1. page.dir = page.request.dir
      BY <1>9
    <2>2. \/ page.from = 0 /\ page.to = 0
          \/ 1 <= page.from /\ page.from <= page.to /\ page.to <= page.max
      BY <1>1, <1>3, <1>6, <1>9
    <2>3. page.hasNewer <=> ~page.reset /\ page.dir = "after" /\ page.from # 0 /\ page.to < page.max
      BY <1>9, <1>11
    <2>4. page.dir = "tail" \/ page.reset => IF page.from = 0 THEN page.max = 0 ELSE page.to = page.max
      BY <1>9, <1>10, <1>13
    <2>5. ~page.error /\ page.epoch >= 1
      BY <1>1, <1>9
    <2>6. page.dir = "after" /\ ~page.reset =>
            /\ page.epoch = page.request.epoch
            /\ IF page.from = 0 THEN page.max <= page.request.seq ELSE page.from = page.request.seq + 1
      BY <1>1, <1>9, <1>12, <1>13
    <2> QED
      BY ONLY <2>1, <2>2, <2>3, <2>4, <2>5, <2>6 DEF Shaped
  <1>15. Top(page) = StoreEnd(st)
    BY <1>9 DEF Top, StoreEnd, last
  <1>16. r.dir = "after" /\ r.epoch < st.epoch => page.reset
    BY <1>1, <1>9, <1>13
  <1> QED
    BY <1>8, <1>9, <1>14, <1>15, <1>16

\* The answer of a request that failed.
LEMMA PageFailed ==
  ASSUME NEW r \in Requests, NEW page, page = ErrorPage(r)
  PROVE  page \in Pages /\ Shaped(page) /\ page.error /\ page.request = r /\ page.dir = r.dir
  <1>1. /\ MaxRows \in Nat /\ MaxEpoch \in Nat /\ r.dir \in {"tail", "after"}
    BY Bounds DEF Requests, TailFetch, Request
  <1>2. page = [request |-> r, dir |-> r.dir, epoch |-> 0, reset |-> FALSE, from |-> 0, to |-> 0,
                max |-> 0, hasNewer |-> FALSE, error |-> TRUE]
    <2> DEFINE newer == ~FALSE /\ r.dir = "after" /\ 1 <= 0 /\ 0 < 0
               none == Page(r, Store(0, 0), FALSE, 1, 0)
    <2>1. newer = FALSE
      OBVIOUS
    <2>2. /\ Store(0, 0).epoch = 0 /\ Store(0, 0).last = 0
          /\ (IF 1 > 0 THEN 0 ELSE 1) = 0 /\ (IF 1 > 0 THEN 0 ELSE 0) = 0
      BY DEF Store
    <2>3. none = [request |-> r, dir |-> r.dir, epoch |-> 0, reset |-> FALSE, from |-> 0, to |-> 0,
                  max |-> 0, hasNewer |-> newer, error |-> FALSE]
      BY <2>2 DEF Page
    <2> HIDE DEF newer, none
    <2>4. page = [none EXCEPT !.error = TRUE]
      BY DEF ErrorPage, none
    <2> QED
      BY <2>1, <2>3, <2>4
  <1>3. page \in Pages
    BY <1>1, <1>2 DEF Pages
  <1> QED
    BY <1>1, <1>2, <1>3 DEF Shaped

\* A request is answered, by a page of the store or by an error.
LEMMA FetchKeeps ==
  ASSUME NEW t, NEW k, NEW c, NEW A, NEW span, NEW st, NEW s, NEW d,
         ClientInv(t, k, c, A, span, st, s, d), A # <<>>, Head(A).request # Subscribe, NEW w \in BOOLEAN,
         NEW page, page = PageAnswered(st, Head(A).request) \/ page = ErrorPage(Head(A).request)
  PROVE  ClientInv(t, k, c, Tail(A), span, st, s, Append(d, Answer(page, w)))
  <1> DEFINE r == Head(A).request
             m == Answer(page, w)
             e == Append(d, m)
  <1>1. /\ Wire(st, s, d) /\ AnswersOK(d, t, k) /\ st \in Stores /\ d \in Seq(Messages)
        /\ AskedOK(A, t, k, st, s, d)
    BY DEF ClientInv, Wire
  <1>2. r \in Requests /\ RequestOK(r, t, k, st, s, d)
    BY <1>1, AskedLess DEF Asks
  <1> HIDE DEF r
  <1>3. /\ page \in Pages /\ Shaped(page) /\ page.request = r /\ page.dir = r.dir
        /\ ~page.error => Top(page) = StoreEnd(st) /\ (r.dir = "after" /\ r.epoch < st.epoch => page.reset)
    <2>1. CASE page = PageAnswered(st, r)
      BY <1>1, <1>2, <2>1, PageRead
    <2>2. CASE page = ErrorPage(r)
      BY <1>2, <2>2, PageFailed
    <2> QED
      BY <2>1, <2>2 DEF r
  <1>4. m \in Messages /\ m.type = "page" /\ m.page = page
    BY <1>3 DEF Messages, Answer
  <1> HIDE DEF m
  <1>5. UpTo(StoreEnd(st), StoreEnd(st)) /\ st.epoch <= st.epoch /\ StoreEnd(st) \in Points
    BY <1>1, PointTypes, OrderOfRows, Bounds DEF Stores
  <1>6. \A p \in Points : UpTo(p, StoreEnd(st)) => Precedes(p, m)
    BY <1>3, <1>4 DEF Precedes
  <1>7. \A p \in Brings(m) : UpTo(p, StoreEnd(st))
    BY <1>3, <1>4, <1>5 DEF Brings
  <1>8. \A p \in AsksAfter(m) : \A i \in DOMAIN d : Precedes(p, d[i])
    BY <1>2, <1>3, <1>4 DEF AsksAfter, RequestOK, Behind
  <1>9. Wire(st, s, e) /\ StaysBehind(st, s, d, st, s, e)
    BY <1>1, <1>4, <1>5, <1>6, <1>7, <1>8, WireSends
  <1>10. AnswerOK(page, t, k)
    BY <1>2, <1>3 DEF AnswerOK, RequestOK
  <1>11. AnswersOK(e, t, k)
    <2>1. /\ DOMAIN d = 1..Len(d) /\ DOMAIN e = 1..Len(d) + 1 /\ Len(d) \in Nat
          /\ \A i \in 1..Len(d) : e[i] = d[i]
          /\ e[Len(d) + 1] = m
      BY <1>1, <1>4, AppendProperties, LenProperties
    <2> HIDE DEF e
    <2> QED
      BY <1>1, <1>4, <1>10, <2>1 DEF AnswersOK
  <1> HIDE DEF e
  <1>12. ClientInv(t, k, c, A, span, st, s, e)
    BY <1>5, <1>9, <1>11, WireMoves
  <1>13. ClientInv(t, k, c, Tail(A), span, st, s, e)
    BY <1>12, AskedLess DEF ClientInv
  <1> QED
    BY <1>13 DEF e, m

-----------------------------------------------------------------------------
(* The client's steps. *)

\* A subscription is asked for.
LEMMA SubscriptionAsked ==
  ASSUME NEW t, NEW k, NEW c, NEW A, NEW span, NEW st, NEW s, NEW d,
         ClientInv(t, k, c, A, span, st, s, d)
  PROVE  ClientInv(t, k, c, Append(A, Ask(Subscribe)), span, st, s, d)
  <1>1. AskedOK(A, t, k, st, s, d)
    BY DEF ClientInv
  <1>2. Ask(Subscribe) \in Asks /\ Ask(Subscribe).request = Subscribe
    BY DEF Ask, Asks
  <1>3. RequestOK(Subscribe, t, k, st, s, d)
    BY SomeRequests DEF RequestOK
  <1> DEFINE a == Ask(Subscribe)
             B == Append(A, a)
             n == Len(A)
  <1>4. a \in Asks /\ RequestOK(a.request, t, k, st, s, d)
    BY <1>2, <1>3
  <1> HIDE DEF a
  <1>5. /\ A \in Seq(Asks) /\ DOMAIN A = 1..n /\ n \in Nat
        /\ B \in Seq(Asks) /\ DOMAIN B = 1..n + 1 /\ B[n + 1] = a
        /\ \A i \in 1..n : B[i] = A[i]
    BY <1>1, <1>4, LenProperties, AppendProperties DEF AskedOK
  <1> HIDE DEF B, n
  <1>6. AskedOK(B, t, k, st, s, d)
    BY <1>1, <1>4, <1>5 DEF AskedOK
  <1> QED
    BY <1>6 DEF ClientInv, B, a

\* The connection is lost.
LEMMA DisconnectKeeps ==
  ASSUME NEW t, NEW k, NEW c, NEW A, NEW span, NEW st, NEW s, NEW d,
         ClientInv(t, k, c, A, span, st, s, d),
         NEW u, u = [t EXCEPT !.init = "none"],
         NEW e, e = [Cancelled(c) EXCEPT !.fetches = {}, !.shown = "pending"]
  PROVE  ClientInv(u, k, e, <<>>, span, st, s, <<>>) /\ u.synced = t.synced /\ u.range = t.range
  <1> DEFINE J == Jobs(t, k, st, s, <<>>)
             P == Pendings(t, k, st, s, <<>>)
  <1>1. Wire(st, s, d) /\ t \in Timelines /\ c \in CatchUps /\ st \in Stores
    BY DEF ClientInv, Wire, ClientOK, CatchUpIn
  <1>2. u \in Timelines /\ SameFor(t, u)
    BY <1>1 DEF Timelines, SameFor
  <1>3. Wire(st, s, <<>>) /\ StaysBehind(st, s, d, st, s, <<>>) /\ st.epoch <= st.epoch
    BY <1>1, WireForgets, Bounds DEF Stores
  <1>4. AnswersOK(<<>>, t, k)
    BY DEF AnswersOK
  <1>5. ClientInv(t, k, c, A, span, st, s, <<>>)
    BY <1>3, <1>4, WireMoves
  <1>6. e = [c EXCEPT !.status = "none", !.request = NoRequest, !.pending = NoRequest,
                      !.fetches = {}, !.shown = "pending"]
    <2> DEFINE D == Disowned(c.fetches)
               g == [c EXCEPT !.status = "none", !.request = NoRequest, !.pending = NoRequest,
                              !.fetches = D]
    <2> HIDE DEF D
    <2>1. e = [g EXCEPT !.fetches = {}, !.shown = "pending"]
      BY DEF Cancelled, D
    <2> QED
      BY <1>1, <2>1 DEF CatchUps
  <1>7. /\ e \in CatchUps /\ e.fetches = {} /\ e.pending = NoRequest /\ e.cache = c.cache
        /\ e.sent = c.sent
    BY <1>1, <1>6 DEF CatchUps
  <1>8. MovesIn(c, e, J, P)
    <2>1. Allowed(J, P)
      BY JobsAllowed
    <2>2. NoRequest \in P
      BY <2>1 DEF Allowed
    <2>3. SentIn(c.sent, J)
      BY <1>5 DEF ClientInv, CatchUpIn
    <2> QED
      BY <1>7, <2>2, <2>3 DEF MovesIn, CatchUpIn, OneOwner
  <1>9. ClientInv(t, k, e, <<>>, span, st, s, <<>>)
    <2>1. AskedOK(<<>>, t, k, st, s, <<>>)
      BY EmptySeq DEF AskedOK
    <2>2. CacheOK(span, k, e, st, s, <<>>)
      BY <1>5, <1>7 DEF ClientInv, CacheOK
    <2> QED
      BY <1>5, <1>8, <2>1, <2>2 DEF ClientInv, MovesIn
  <1>10. ClientInv(u, k, e, <<>>, span, st, s, <<>>)
    BY <1>2, <1>9, SameContext DEF ClientInv
  <1> QED
    BY <1>2, <1>10 DEF SameFor

\* An answer that is given up is the same answer.
LEMMA GivenUpKeeps ==
  ASSUME NEW t, NEW k, NEW c, NEW A, NEW span, NEW st, NEW s, NEW d,
         ClientInv(t, k, c, A, span, st, s, d),
         NEW B \in Seq(Asks), Len(B) = Len(A), \A i \in 1..Len(A) : B[i].request = A[i].request,
         NEW e \in Seq(Messages), DOMAIN e = DOMAIN d, \A i \in DOMAIN d : SameMessage(d[i], e[i])
  PROVE  ClientInv(t, k, c, B, span, st, s, e)
  <1>1. /\ Wire(st, s, d) /\ d \in Seq(Messages) /\ st \in Stores /\ AnswersOK(d, t, k)
    BY DEF ClientInv, Wire
  <1>2. Wire(st, s, e) /\ StaysBehind(st, s, d, st, s, e)
    BY ONLY <1>1, WireAcks, e \in Seq(Messages), DOMAIN e = DOMAIN d, \A i \in DOMAIN d : SameMessage(d[i], e[i])
  <1>3. st.epoch <= st.epoch
    BY <1>1, Bounds DEF Stores
  <1>4. AnswersOK(e, t, k)
    BY <1>1 DEF AnswersOK, SameMessage
  <1>5. ClientInv(t, k, c, A, span, st, s, e)
    BY <1>2, <1>3, <1>4, WireMoves
  <1>6. AskedOK(B, t, k, st, s, e)
    BY <1>5, AskedSame DEF ClientInv
  <1> QED
    BY <1>5, <1>6 DEF ClientInv

\* What giving up a request makes of the requests and the messages.
LEMMA GivenUpTypes ==
  ASSUME NEW r, asked \in Seq(Asks), down \in Seq(Messages)
  PROVE  /\ GivenUp(r) \in Seq(Asks) /\ Len(GivenUp(r)) = Len(asked)
         /\ \A i \in 1..Len(asked) : /\ GivenUp(r)[i].request = asked[i].request
                                     /\ GivenUp(r)[i].waited <=> asked[i].waited /\ asked[i].request # r
         /\ Unawaited(r) \in Seq(Messages) /\ DOMAIN Unawaited(r) = DOMAIN down
         /\ \A i \in DOMAIN down :
              /\ SameMessage(down[i], Unawaited(r)[i])
              /\ down[i].type # "page" => Unawaited(r)[i] = down[i]
              /\ down[i].type = "page" =>
                   (Unawaited(r)[i].waited <=> down[i].waited /\ down[i].page.request # r)
  <1> DEFINE n == Len(asked)
             B == GivenUp(r)
             e == Unawaited(r)
  <1>1. /\ n \in Nat /\ DOMAIN asked = 1..n /\ \A i \in 1..n : asked[i] \in Asks
        /\ DOMAIN down = 1..Len(down) /\ Len(down) \in Nat /\ \A i \in DOMAIN down : down[i] \in Messages
    BY LenProperties, ElementOfSeq
  <1>2. /\ DOMAIN B = 1..n /\ B = [i \in 1..n |-> B[i]]
        /\ \A i \in 1..n : B[i] = IF asked[i].request = r THEN [asked[i] EXCEPT !.waited = FALSE] ELSE asked[i]
    BY <1>1 DEF GivenUp
  <1>3. ASSUME NEW i \in 1..n
        PROVE  /\ B[i] \in Asks /\ B[i].request = asked[i].request
               /\ B[i].waited <=> asked[i].waited /\ asked[i].request # r
    BY <1>1, <1>2 DEF Asks
  <1>4. B \in [1..n -> Asks]
    BY <1>2, <1>3
  <1>5. B \in Seq(Asks) /\ Len(B) = n
    BY <1>1, <1>2, <1>4, SeqDef, LenProperties
  <1>6. /\ DOMAIN e = DOMAIN down /\ e = [i \in DOMAIN down |-> e[i]]
        /\ \A i \in DOMAIN down :
             e[i] = IF down[i].type = "page" /\ down[i].page.request = r
                    THEN [down[i] EXCEPT !.waited = FALSE] ELSE down[i]
    BY DEF Unawaited
  <1>7. ASSUME NEW i \in DOMAIN down
        PROVE  /\ e[i] \in Messages /\ SameMessage(down[i], e[i])
               /\ down[i].type # "page" => e[i] = down[i]
               /\ down[i].type = "page" => (e[i].waited <=> down[i].waited /\ down[i].page.request # r)
    <2>1. CASE ~(down[i].type = "page" /\ down[i].page.request = r)
      BY <1>1, <1>6, <2>1 DEF SameMessage
    <2>2. CASE down[i].type = "page" /\ down[i].page.request = r
      <3> DEFINE p == down[i].page
                 w == down[i].waited
      <3>0. PICK q \in Messages : q = down[i] /\ q.type = "page"
        BY <1>1, <2>2
      <3>1. p \in Pages /\ down[i] = Answer(p, w)
        BY <3>0, MessageTypes
      <3>5. down[i].page = p
        BY DEF p
      <3> HIDE DEF p, w
      <3>2. [down[i] EXCEPT !.waited = FALSE] = Answer(p, FALSE)
        BY <3>1, AnswerUnawaited
      <3>3. e[i] = Answer(p, FALSE)
        BY <1>6, <2>2, <3>2
      <3>4. /\ Answer(p, FALSE) \in Messages /\ ~Answer(p, FALSE).waited
            /\ Answer(p, FALSE).type = "page" /\ Answer(p, FALSE).page = p
        BY <3>1, MessagesMade
      <3> QED
        BY <2>2, <3>3, <3>4, <3>5 DEF SameMessage
    <2> QED
      BY <2>1, <2>2
  <1>8. e \in [1..Len(down) -> Messages]
    BY <1>1, <1>6, <1>7
  <1>9. e \in Seq(Messages)
    BY <1>1, <1>8, SeqDef
  <1> QED
    BY <1>3, <1>5, <1>6, <1>7, <1>9

\* The same requests in the same order.
SameAsks(A, B) ==
  B \in Seq(Asks) /\ Len(B) = Len(A) /\ \A i \in 1..Len(A) : B[i].request = A[i].request

\* Nobody waits for the acknowledgement any more.
LEMMA SubscriptionFailsKeeps ==
  ASSUME NEW t, NEW k, NEW c, NEW A, NEW span, NEW st, NEW s, NEW d,
         ClientInv(t, k, c, A, span, st, s, d),
         NEW B, SameAsks(A, B),
         NEW e, e = [i \in DOMAIN d |-> IF d[i].type = "ack" THEN Ack(FALSE) ELSE d[i]],
         NEW g, g = [c EXCEPT !.shown = "error"]
  PROVE  ClientInv(t, k, g, B, span, st, s, e)
  <1>1. /\ d \in Seq(Messages) /\ c \in CatchUps
    BY DEF ClientInv, Wire, CatchUpIn
  <1>2. DOMAIN d = 1..Len(d) /\ Len(d) \in Nat /\ \A i \in DOMAIN d : d[i] \in Messages
    BY <1>1, LenProperties, ElementOfSeq
  <1>3. Ack(FALSE) \in Messages /\ Ack(FALSE).type = "ack"
    BY MessagesMade
  <1>4. e \in [1..Len(d) -> Messages] /\ DOMAIN e = DOMAIN d
    BY <1>2, <1>3
  <1>5. e \in Seq(Messages) /\ DOMAIN e = DOMAIN d
    BY ONLY <1>2, <1>4, SeqDef
  <1>6. \A i \in DOMAIN d : SameMessage(d[i], e[i])
    BY <1>3 DEF SameMessage
  <1>7. ClientInv(t, k, c, B, span, st, s, e)
    BY <1>5, <1>6, GivenUpKeeps DEF SameAsks
  <1>8. /\ g \in CatchUps /\ g.fetches = c.fetches /\ g.pending = c.pending /\ g.cache = c.cache
        /\ g.sent = c.sent
    BY <1>1 DEF CatchUps
  <1>9. CatchUpIn(g, Jobs(t, k, st, s, e), Pendings(t, k, st, s, e))
    BY <1>7, <1>8 DEF ClientInv, CatchUpIn
  <1>10. CacheOK(span, k, g, st, s, e)
    BY <1>7, <1>8 DEF ClientInv, CacheOK
  <1> QED
    BY <1>7, <1>9, <1>10 DEF ClientInv

\* Whoever waited for a request that is given up is gone; the owner has failed.
LEMMA TimesOutKeeps ==
  ASSUME NEW t, NEW k, NEW c, NEW A, NEW span, NEW st, NEW s, NEW d,
         ClientInv(t, k, c, A, span, st, s, d), NEW W, NEW f \in c.fetches,
         NEW u, u = t \/ u = [t EXCEPT !.init = "none"],
         NEW g, g = Failed([c EXCEPT !.fetches = @ \ W], f)
  PROVE  ClientInv(u, k, g, A, span, st, s, d) /\ SameFor(t, u)
  <1> DEFINE J == Jobs(t, k, st, s, d)
             P == Pendings(t, k, st, s, d)
             F == c.fetches \ W
             b == [c EXCEPT !.fetches = F]
  <1>1. /\ CatchUpIn(c, J, P) /\ t \in Timelines /\ CacheOK(span, k, c, st, s, d)
    BY DEF ClientInv, ClientOK
  <1>2. /\ c \in CatchUps /\ OneOwner(c.fetches) /\ c.fetches \subseteq J /\ c.pending \in P
        /\ SentIn(c.sent, J) /\ f \in J
    BY <1>1 DEF CatchUpIn
  <1>3. Closed(J)
    BY JobsAllowed DEF Allowed
  <1> HIDE DEF J, P
  <1>4. OneOwner(F) /\ F \subseteq J /\ F \subseteq c.fetches
    BY <1>2 DEF OneOwner
  <1> HIDE DEF F
  <1>5. /\ b \in CatchUps /\ b.fetches = F /\ b.pending = c.pending /\ b.cache = c.cache
        /\ b.sent = c.sent
    BY <1>2, <1>4 DEF CatchUps
  <1>6. g = Failed(b, f)
    BY DEF F
  <1> HIDE DEF b
  <1>7. CatchUpIn(b, J, P)
    BY <1>2, <1>4, <1>5 DEF CatchUpIn
  <1>8. CatchUpIn(g, J, P) /\ g.cache = c.cache
    BY <1>2, <1>3, <1>5, <1>6, <1>7, FailedIn
  <1>9. CacheOK(span, k, g, st, s, d)
    BY <1>1, <1>8 DEF CacheOK
  <1>10. ClientInv(t, k, g, A, span, st, s, d)
    BY <1>8, <1>9 DEF ClientInv, J, P
  <1>11. u \in Timelines /\ SameFor(t, u)
    BY <1>1 DEF Timelines, SameFor
  <1> QED
    BY <1>10, <1>11, SameContext DEF ClientInv

\* A message is taken that changes nothing by itself.
LEMMA TakeKeeps ==
  ASSUME NEW t, NEW k, NEW c, NEW A, NEW span, NEW st, NEW s, NEW d,
         ClientInv(t, k, c, A, span, st, s, d), d # <<>>
  PROVE  /\ ClientInv(t, k, c, A, span, st, s, Tail(d))
         /\ Head(d).type = "event" => ClientInv(t, k, c, A, span, st, Append(s, Head(d).row), Tail(d))
  <1>1. Wire(st, s, d) /\ AnswersOK(d, t, k) /\ st \in Stores
    BY DEF ClientInv, Wire
  <1>2. st.epoch <= st.epoch
    BY <1>1, Bounds DEF Stores
  <1> DEFINE e == Tail(d)
  <1>3. /\ Wire(st, s, e) /\ StaysBehind(st, s, d, st, s, e)
        /\ RestOf(d, e)
    BY <1>1, WireTakes
  <1>4. Head(d).type = "event" => /\ Wire(st, Append(s, Head(d).row), e)
                                  /\ StaysBehind(st, s, d, st, Append(s, Head(d).row), e)
    BY <1>1, WireQueues
  <1> HIDE DEF e
  <1>5. AnswersOK(e, t, k)
    BY <1>1, <1>3 DEF AnswersOK, RestOf
  <1>6. ClientInv(t, k, c, A, span, st, s, e)
    BY <1>2, <1>3, <1>5, WireMoves
  <1>7. Head(d).type = "event" => ClientInv(t, k, c, A, span, st, Append(s, Head(d).row), e)
    BY <1>2, <1>4, <1>5, WireMoves
  <1> QED
    BY <1>6, <1>7 DEF e

\* The tail that a notice asks for.
LEMMA NoticeKeeps ==
  ASSUME NEW t, NEW k, NEW c, NEW A, NEW span, NEW st, NEW s, NEW d,
         ClientInv(t, k, c, A, span, st, s, d), NEW e,
         e = Launched(c, Fetch("notice", TailFetch, FALSE, FALSE))
  PROVE  ClientInv(t, k, Settled(e), A \o SentBy(e), span, st, s, d)
  <1> DEFINE J == Jobs(t, k, st, s, d)
             P == Pendings(t, k, st, s, d)
             g == Fetch("notice", TailFetch, FALSE, FALSE)
  <1>1. CatchUpIn(c, J, P)
    BY DEF ClientInv
  <1>2. g \in Fetches /\ g.request = TailFetch /\ g.kind = "notice" /\ ~g.owner
    BY SomeRequests DEF Fetch, Fetches
  <1>3. g \in J
    <2>1. RequestOK(g.request, t, k, st, s, d) /\ FetchOK(g, t)
      BY <1>2, SomeRequests DEF RequestOK, FetchOK
    <2> HIDE DEF g
    <2> QED
      BY <1>2, <2>1 DEF Jobs
  <1>4. Closed(J)
    BY JobsAllowed DEF Allowed
  <1>5. e = Launched(c, g) /\ SoleOwner(g, c.fetches)
    BY <1>2 DEF SoleOwner
  <1> HIDE DEF g, J, P
  <1>6. MovesIn(c, e, J, P)
    <2>1. CatchUpIn(Launched(c, g), J, P) /\ Launched(c, g).cache = c.cache
      BY ONLY <1>1, <1>3, <1>4, <1>5, LaunchedIn
    <2> QED
      BY <1>5, <2>1 DEF MovesIn
  <1>7. ClientInv(InitializedBy(t, e.fetches, e.fetches), k, Settled(e), A \o SentBy(e), span, st, s, d)
    BY <1>6, CatchUpMoves DEF J, P
  <1>8. InitializedBy(t, e.fetches, e.fetches) = t
    BY DEF InitializedBy
  <1> QED
    BY <1>7, <1>8

\* The catch-up is started, or goes on, from what is read of the timeline.
LEMMA StartKeeps ==
  ASSUME NEW t, NEW k, NEW c, NEW A, NEW span, NEW st, NEW s, NEW d,
         ClientInv(t, k, c, A, span, st, s, d), NEW live \in BOOLEAN,
         NEW request \in {NoRequest, c.pending}
  PROVE  MovesIn(c, Started(c, live, request, ReadCursor(t, k)),
                 Jobs(t, k, st, s, d), Pendings(t, k, st, s, d))
  <1> DEFINE J == Jobs(t, k, st, s, d)
             P == Pendings(t, k, st, s, d)
             range == ReadCursor(t, k)
  <1>1. Allowed(J, P)
    BY JobsAllowed
  <1>2. CatchUpIn(c, J, P) /\ ClientOK(t, k, st, s, d)
    BY DEF ClientInv
  <1>3. request \in P
    BY <1>1, <1>2 DEF Allowed, CatchUpIn
  <1>4. StartsIn(request, range, J, P)
    BY <1>2, <1>3, ResumeStarts
  <1> HIDE DEF J, P, range
  <1>5. MovesIn(c, Started(c, live, request, range), J, P)
    BY <1>1, <1>2, <1>4, StartedIn
  <1> QED
    BY <1>5 DEF J, P, range

\* The local cache has been read: its rows are painted unless the timeline is authoritative.
LEMMA CachePainted ==
  ASSUME NEW t, NEW k, NEW c, NEW A, NEW span, NEW st, NEW s, NEW d,
         ClientInv(t, k, c, A, span, st, s, d), c.cache # "yes",
         NEW u, u = Painted(t, span), NEW l, l = (IF t.synced THEN k ELSE span),
         NEW e, e = [c EXCEPT !.cache = "yes"]
  PROVE  /\ ClientInv(u, l, e, A, span, st, s, d) /\ e.fetches = c.fetches /\ e.pending = c.pending
         /\ u.synced = t.synced /\ (t.synced => u.range = t.range)
  <1> DEFINE kept == { r \in t.rows : r.epoch = span.epoch /\ r.seq > span.to }
             new == RowsOf(span.epoch, span.from, span.to)
             v == [t EXCEPT !.range = span, !.newer = FALSE, !.rows = new \union kept]
  <1>1. /\ Wire(st, s, d) /\ ClientOK(t, k, st, s, d) /\ CacheOK(span, k, c, st, s, d)
        /\ CatchUpIn(c, Jobs(t, k, st, s, d), Pendings(t, k, st, s, d))
        /\ AskedOK(A, t, k, st, s, d) /\ AnswersOK(d, t, k)
    BY DEF ClientInv
  <1>2. /\ st \in Stores /\ s \in Seq(Rows) /\ d \in Seq(Messages)
        /\ t \in Timelines /\ Held(t) /\ RangeOK(t.range) /\ Painting(t, k)
        /\ \A r \in t.rows : Behind(r, st, s, d)
        /\ span \in Spans /\ RangeOK(span) /\ k = NoSpan
        /\ span # NoSpan => Behind(EndOf(span), st, s, d)
        /\ c \in CatchUps
    BY <1>1 DEF Wire, ClientOK, CacheOK, CatchUpIn
  <1>3. u = t \/ (u = v /\ ~t.synced /\ span # NoSpan)
    BY DEF Painted
  <1>4. IF t.synced \/ span = NoSpan THEN u = t ELSE u = v
    BY DEF Painted
  <1>5. span # NoSpan => new \subseteq Rows /\ \A r \in new : Behind(r, st, s, d)
    <2> HAVE span # NoSpan
    <2>1. /\ span.epoch \in 1..MaxEpoch /\ span.from \in 1..MaxRows /\ span.to \in 1..MaxRows
      BY <1>2, SpanTypes
    <2>2. span.from \in 0..MaxRows /\ span.to \in 0..MaxRows /\ span.from # 0
      BY <2>1, Bounds
    <2>3. new \subseteq Rows /\ \A r \in new : r.epoch = span.epoch /\ r.seq <= span.to
      BY <2>1, <2>2, RowsTypes
    <2> HIDE DEF new
    <2>4. \A r \in new : UpTo(r, EndOf(span))
      BY <2>3 DEF UpTo, EndOf, Row
    <2>5. EndOf(span) \in Points /\ new \subseteq Points
      BY <1>2, <2>3, PointTypes
    <2> QED
      BY <1>2, <2>3, <2>4, <2>5, BehindToo
  <1>6. kept \subseteq t.rows
    OBVIOUS
  <1> HIDE DEF new, kept
  <1>7. span # NoSpan => /\ v \in Timelines /\ v.synced = t.synced /\ v.range = span
                         /\ v.rows = new \union kept
    BY <1>2, <1>5, <1>6 DEF Timelines
  <1> HIDE DEF v
  <1>8. u \in Timelines /\ RangeOK(u.range) /\ u.synced = t.synced /\ Held(u)
    BY <1>2, <1>3, <1>7 DEF Held
  <1>9. \A r \in u.rows : Behind(r, st, s, d)
    BY <1>2, <1>3, <1>5, <1>6, <1>7
  <1>10. l \in {NoSpan, span} /\ l \in Spans /\ RangeOK(l) /\ (l = k \/ k = NoSpan)
    BY <1>2, Bounds DEF RangeOK, Spans, NoSpan, Span
  <1>11. Painting(u, l)
    <2>1. t.synced => l = NoSpan
      BY <1>2
    <2>2. l # NoSpan => l = span /\ u = v /\ span # NoSpan
      BY <1>2, <1>3, <1>4
    <2>3. l # NoSpan => RowsOf(l.epoch, l.from, l.to) = new
      BY <2>2 DEF new
    <2> QED
      BY <1>7, <1>8, <2>1, <2>2, <2>3 DEF Painting
  <1>12. ClientOK(u, l, st, s, d)
    BY <1>8, <1>9, <1>10, <1>11 DEF ClientOK
  <1>13. Follows(t, k, st, s, d, u, l, st, s, d)
    <2>1. ~u.synced => ~t.synced /\ k = NoSpan
      BY <1>2, <1>8
    <2>2. Empty(u) => Empty(t) /\ st.epoch <= st.epoch
      BY <1>2, <1>4, <1>8, Bounds DEF Empty, Stores
    <2> QED
      BY <2>1, <2>2 DEF Follows, StaysBehind
  <1>14. /\ Jobs(t, k, st, s, d) \subseteq Jobs(u, l, st, s, d)
         /\ Pendings(t, k, st, s, d) \subseteq Pendings(u, l, st, s, d)
         /\ AskedOK(A, u, l, st, s, d)
    BY <1>1, <1>2, <1>13, ContextKept
  <1>15. AnswersOK(d, u, l)
    <2>1. Empty(u) => Empty(t)
      BY <1>4, <1>8 DEF Empty
    <2>2. \A p : AnswerOK(p, t, k) => AnswerOK(p, u, l)
      BY <1>2, <1>8, <2>1 DEF AnswerOK
    <2> QED
      BY <1>1, <2>2 DEF AnswersOK
  <1>16. /\ e \in CatchUps /\ e.fetches = c.fetches /\ e.pending = c.pending /\ e.cache = "yes"
         /\ e.sent = c.sent
    BY <1>2 DEF CatchUps
  <1>17. CatchUpIn(e, Jobs(u, l, st, s, d), Pendings(u, l, st, s, d))
    BY <1>1, <1>14, <1>16 DEF CatchUpIn, SentIn
  <1>18. CacheOK(span, l, e, st, s, d)
    BY <1>2, <1>10, <1>16 DEF CacheOK
  <1>19. ClientInv(u, l, e, A, span, st, s, d)
    BY <1>1, <1>12, <1>14, <1>15, <1>17, <1>18 DEF ClientInv
  <1> QED
    BY <1>4, <1>8, <1>16, <1>19

\* The queued rows are applied; the requests that follow them up are allowed.
LEMMA Drained ==
  ASSUME NEW t, NEW k, NEW c, NEW A, NEW span, NEW st, NEW s, NEW d,
         ClientInv(t, k, c, A, span, st, s, d),
         NEW u, u = BatchApplied(t, s).timeline, NEW q, q = BatchApplied(t, s).recoveries
  PROVE  /\ ClientInv(u, CachedAfter(u, k), c, A, span, st, <<>>, d)
         /\ q \in Seq(Pendings(u, CachedAfter(u, k), st, <<>>, d)) /\ \A i \in DOMAIN q : q[i] # NoRequest
         /\ u.synced = t.synced /\ UpTo(EndOf(t.range), EndOf(u.range))
  <1> DEFINE new == { s[i] : i \in DOMAIN s }
             l == CachedAfter(u, k)
             P == Pendings(u, k, st, <<>>, d)
  <1>1. /\ Wire(st, s, d) /\ ClientOK(t, k, st, s, d) /\ CacheOK(span, k, c, st, s, d)
        /\ CatchUpIn(c, Jobs(t, k, st, s, d), Pendings(t, k, st, s, d))
        /\ AskedOK(A, t, k, st, s, d) /\ AnswersOK(d, t, k)
    BY DEF ClientInv
  <1>2. /\ st \in Stores /\ s \in Seq(Rows) /\ InOrder(st, s, d)
        /\ t \in Timelines /\ Held(t) /\ RangeOK(t.range) /\ Painting(t, k)
        /\ \A r \in t.rows : Behind(r, st, s, d)
        /\ k \in Spans /\ RangeOK(k)
    BY <1>1 DEF Wire, ClientOK
  <1>3. Lengthened(t, u, new) /\ FollowUp(q, t, u, new)
    <2>1. \A r \in t.rows : \A i \in DOMAIN s : Before(r, s[i])
      BY <1>2 DEF Behind
    <2>2. \A i, j \in DOMAIN s : i < j => Before(s[i], s[j])
      BY <1>2 DEF InOrder
    <2> QED
      BY <1>2, <2>1, <2>2, BatchLengthens
  <1>4. /\ Wire(st, <<>>, d) /\ StaysBehind(st, s, d, st, <<>>, d)
        /\ \A r \in new : r \in Rows /\ Behind(r, st, <<>>, d)
    BY <1>1, WireDrains
  <1> HIDE DEF new
  <1>5. \A r \in t.rows \union new : Behind(r, st, <<>>, d)
    <2>1. t.rows \subseteq Points
      BY <1>2, PointTypes DEF Timelines
    <2> QED
      BY <1>2, <1>4, <2>1 DEF StaysBehind
  <1>6. /\ u \in Timelines /\ RangeOK(u.range) /\ Held(u) /\ u.synced = t.synced
        /\ u.rows \subseteq t.rows \union new /\ (~t.synced => t.rows \subseteq u.rows)
        /\ (u.range = NoSpan => t.range = NoSpan) /\ UpTo(EndOf(t.range), EndOf(u.range))
    BY <1>3 DEF Lengthened
  <1>7. Painting(u, k) /\ l = k
    BY <1>2, <1>6 DEF Painting, CachedAfter
  <1>8. ClientOK(u, k, st, <<>>, d)
    BY <1>2, <1>5, <1>6, <1>7 DEF ClientOK
  <1>9. Follows(t, k, st, s, d, u, k, st, <<>>, d)
    <2>1. Empty(u) => Empty(t) /\ st.epoch <= st.epoch
      BY <1>2, <1>6, Bounds DEF Empty, Stores
    <2> QED
      BY <1>4, <1>6, <2>1 DEF Follows
  <1>10. /\ Jobs(t, k, st, s, d) \subseteq Jobs(u, k, st, <<>>, d)
         /\ Pendings(t, k, st, s, d) \subseteq Pendings(u, k, st, <<>>, d)
         /\ AskedOK(A, u, k, st, <<>>, d)
    BY ONLY <1>1, <1>2, <1>9, ContextKept
  <1>11. CatchUpIn(c, Jobs(u, k, st, <<>>, d), Pendings(u, k, st, <<>>, d))
    BY <1>1, <1>10, CatchUpKept
  <1>12. CacheOK(span, k, c, st, <<>>, d)
    BY <1>1, <1>4, CacheKept
  <1>13. AnswersOK(d, u, k)
    <2>1. Empty(u) => Empty(t)
      BY <1>6 DEF Empty
    <2>2. \A p : AnswerOK(p, t, k) => AnswerOK(p, u, k)
      BY <1>6, <2>1 DEF AnswerOK
    <2> QED
      BY <1>1, <2>2 DEF AnswersOK
  <1>14. ClientInv(u, k, c, A, span, st, <<>>, d)
    BY <1>4, <1>8, <1>10, <1>11, <1>12, <1>13 DEF ClientInv
  <1>15. q \in Seq(Requests) /\ DOMAIN q = 1..Len(q) /\ Len(q) \in Nat
    BY <1>3, LenProperties DEF FollowUp
  <1>16. ASSUME NEW i \in DOMAIN q PROVE q[i] \in P /\ q[i] # NoRequest
    <2>1. q[i] \in Requests
      BY <1>15, ElementOfSeq
    <2>2. q[i].dir = "after" /\ Position(q[i]) \in t.rows \union new
      BY <1>3 DEF FollowUp
    <2>3. q # <<>>
      BY <1>15
    <2>4. t.synced /\ u.range # NoSpan
      BY <1>3, <2>3 DEF FollowUp
    <2>5. RequestOK(q[i], u, k, st, <<>>, d)
      BY <1>5, <1>6, <2>2, <2>4 DEF RequestOK, Empty
    <2>6. q[i] # TailFetch
      BY <2>2, SomeRequests
    <2> QED
      BY <1>6, <2>1, <2>4, <2>5, <2>6, SomeRequests DEF Pendings
  <1>17. q \in Seq(P)
    <2>1. q \in [1..Len(q) -> P]
      <3>1. q \in [1..Len(q) -> Requests]
        BY <1>15, LenProperties
      <3> HIDE DEF P
      <3> QED
        BY <1>15, <1>16, <3>1
    <2> QED
      BY <1>15, <2>1, SeqDef
  <1> QED
    BY <1>6, <1>7, <1>14, <1>16, <1>17

\* A gap is recovered, or there is none.
LEMMA RecoveredIn ==
  ASSUME NEW J, NEW P, Allowed(J, P), NEW c, CatchUpIn(c, J, P), Live \in BOOLEAN,
         NEW request \in P, NEW span
  PROVE  MovesIn(c, Recovered(c, request, span), J, P)
  <1>1. CASE request = NoRequest
    BY <1>1 DEF Recovered, MovesIn
  <1>2. CASE request # NoRequest
    <2> DEFINE live == Live
    <2>1. live \in BOOLEAN
      OBVIOUS
    <2>2. Recovered(c, request, span) = Started(c, live, request, span)
      BY <1>2 DEF Recovered
    <2> HIDE DEF live
    <2>3. StartsIn(request, span, J, P)
      BY <1>2 DEF StartsIn
    <2> QED
      BY <2>1, <2>2, <2>3, StartedIn
  <1> QED
    BY <1>1, <1>2

\* The function that FlushedCatchUp chooses exists.
LEMMA FlushExists ==
  ASSUME NEW c, NEW q, NEW span, NEW N \in Nat
  PROVE  \E g : g = [i \in 0..N |-> IF i = 0 THEN c ELSE Recovered(g[i - 1], q[i], span)]
  <1> DEFINE Step(x, i) == Recovered(x, q[i], span)
             Kind(g, n) == g = [i \in 0..n |-> IF i = 0 THEN c ELSE Step(g[i - 1], i)]
             T == {n \in Nat : \E g : Kind(g, n)}
  <1> HIDE DEF Step
  <1>1. 0 \in T
    <2>1. Kind([i \in 0..0 |-> c], 0)
      OBVIOUS
    <2> QED
      BY <2>1
  <1>2. ASSUME NEW n \in Nat, n \in T
        PROVE  n + 1 \in T
    <2>1. PICK g : Kind(g, n)
      BY <1>2
    <2> DEFINE h == [i \in 0..n + 1 |-> IF i = n + 1 THEN Step(g[n], n + 1) ELSE g[i]]
    <2>2. h[0] = c
      BY <2>1
    <2>3. ASSUME NEW i \in 0..n + 1, i # 0
          PROVE  h[i] = Step(h[i - 1], i)
      <3>1. i - 1 \in 0..n /\ h[i - 1] = g[i - 1]
        BY <2>3
      <3>2. CASE i = n + 1
        BY <3>1, <3>2
      <3>3. CASE i # n + 1
        <4>1. i \in 0..n /\ h[i] = g[i]
          BY <3>3
        <4>2. g[i] = Step(g[i - 1], i)
          BY <2>1, <2>3, <4>1
        <4> QED
          BY <3>1, <4>1, <4>2
      <3> QED
        BY <3>2, <3>3
    <2>4. h = [i \in 0..n + 1 |-> IF i = 0 THEN c ELSE Step(h[i - 1], i)]
      BY <2>2, <2>3
    <2> HIDE DEF h
    <2>5. Kind(h, n + 1)
      BY <2>4
    <2> QED
      BY <2>5
  <1>3. N \in T
    <2> HIDE DEF T
    <2> QED
      BY <1>1, <1>2, Induction
  <1>4. PICK g : Kind(g, N)
    BY <1>3
  <1> QED
    BY <1>4 DEF Step

\* The gaps of the queued rows are recovered one after the other.
LEMMA FlushedIn ==
  ASSUME NEW J, NEW P, Allowed(J, P), CatchUpIn(catchUp, J, P), Live \in BOOLEAN, NEW span,
         Flushed.recoveries \in Seq(P)
  PROVE  MovesIn(catchUp, FlushedCatchUp(span), J, P)
  <1> DEFINE q == Flushed.recoveries
             N == Len(q)
             c == catchUp
             Kind(g) == g = [i \in 0..N |-> IF i = 0 THEN c ELSE Recovered(g[i - 1], q[i], span)]
             after == CHOOSE g : Kind(g)
             T == {n \in Nat : n <= N => MovesIn(c, after[n], J, P)}
  <1>1. N \in Nat /\ \A i \in 1..N : q[i] \in P
    BY LenProperties, ElementOfSeq
  <1>2. FlushedCatchUp(span) = after[N]
    BY DEF FlushedCatchUp
  <1> HIDE DEF q, N, c
  <1>3. Kind(after)
    BY <1>1, FlushExists
  <1> HIDE DEF after
  <1>4. after[0] = c /\ \A i \in 1..N : after[i] = Recovered(after[i - 1], q[i], span)
    BY <1>1, <1>3
  <1>5. 0 \in T
    BY <1>4 DEF MovesIn, c
  <1>6. ASSUME NEW n \in Nat, n \in T PROVE n + 1 \in T
    <2> SUFFICES ASSUME n + 1 <= N PROVE MovesIn(c, after[n + 1], J, P)
      OBVIOUS
    <2>1. n + 1 \in 1..N /\ n <= N /\ (n + 1) - 1 = n
      BY <1>1
    <2> DEFINE x == after[n]
               r == q[n + 1]
    <2>2. MovesIn(c, x, J, P) /\ r \in P /\ after[n + 1] = Recovered(x, r, span)
      BY <1>1, <1>4, <1>6, <2>1
    <2> HIDE DEF x, r
    <2>3. MovesIn(x, Recovered(x, r, span), J, P)
      BY <2>2, RecoveredIn DEF MovesIn
    <2> QED
      BY <2>2, <2>3, MovesOn
  <1>7. N \in T
    <2> HIDE DEF T
    <2> QED
      BY <1>1, <1>5, <1>6, Induction
  <1>8. MovesIn(c, after[N], J, P)
    BY <1>1, <1>7
  <1> QED
    BY <1>2, <1>8 DEF c

\* A page that replaces a rewound timeline counts as a reset.
LEMMA PageForced ==
  ASSUME NEW t, NEW k, NEW sent \in Pages, AnswerOK(sent, t, k), NEW forcing \in BOOLEAN,
         forcing => sent.dir = "tail",
         NEW page, page = [sent EXCEPT !.reset = sent.reset \/ forcing]
  PROVE  /\ page \in Pages /\ AnswerOK(page, t, k)
         /\ page.error = sent.error /\ page.dir = sent.dir /\ page.epoch = sent.epoch
         /\ page.max = sent.max /\ page.hasNewer = sent.hasNewer /\ Top(page) = Top(sent)
  <1> DEFINE b == sent.reset \/ forcing
  <1>1. b \in BOOLEAN /\ (b = sent.reset \/ sent.dir = "tail") /\ (sent.reset => b)
    BY DEF Pages
  <1>2. page = [sent EXCEPT !.reset = b]
    OBVIOUS
  <1> HIDE DEF b
  <1>3. /\ page \in Pages /\ page.request = sent.request /\ page.dir = sent.dir
        /\ page.epoch = sent.epoch /\ page.reset = b /\ page.from = sent.from /\ page.to = sent.to
        /\ page.max = sent.max /\ page.hasNewer = sent.hasNewer /\ page.error = sent.error
    BY <1>1, <1>2 DEF Pages
  <1>4. Shaped(sent)
    BY DEF AnswerOK
  <1>5. Shaped(page)
    <2>1. CASE b = sent.reset
      BY <1>3, <1>4, <2>1 DEF Shaped
    <2>2. CASE sent.dir = "tail"
      BY <1>3, <1>4, <2>2 DEF Shaped
    <2> QED
      BY <1>1, <2>1, <2>2
  <1>6. AnswerOK(page, t, k)
    BY <1>1, <1>3, <1>5 DEF AnswerOK
  <1> QED
    BY <1>3, <1>6 DEF Top

\* A page is put into the timeline.  What follows it is later than anything a page that
\* leaves the timeline empty has answered, so what was asked before is of an old epoch.
LEMMA PageKeeps ==
  ASSUME NEW t, NEW k, NEW c, NEW A, NEW span, NEW st, NEW d,
         ClientInv(t, k, c, A, span, st, <<>>, d), d # <<>>, Head(d).type = "page",
         NEW sent, sent = Head(d).page, NEW forcing \in BOOLEAN, forcing => sent.dir = "tail",
         NEW page, page = [sent EXCEPT !.reset = sent.reset \/ forcing],
         NEW u, u = PageApplied(t, k, page), NEW l, l = CachedAfter(u, k)
  PROVE  /\ ClientInv(u, l, c, A, span, st, <<>>, Tail(d))
         /\ Pendings(t, k, st, <<>>, d) \subseteq Pendings(u, l, st, <<>>, Tail(d))
         /\ PageRecovery(t, k, page) \in Pendings(u, l, st, <<>>, Tail(d))
         /\ \A f \in Jobs(u, l, st, <<>>, Tail(d)) :
              f.request = sent.request => GoesOnIn(f, sent, Jobs(u, l, st, <<>>, Tail(d)))
         /\ t.synced => u.synced
         /\ t.synced /\ u.range # NoSpan => UpTo(EndOf(t.range), EndOf(u.range))
         /\ page.error = sent.error
  <1> DEFINE e == Tail(d)
             top == Top(sent)
             q == PageRecovery(t, k, page)
  <1>1. /\ Wire(st, <<>>, d) /\ ClientOK(t, k, st, <<>>, d) /\ CacheOK(span, k, c, st, <<>>, d)
        /\ CatchUpIn(c, Jobs(t, k, st, <<>>, d), Pendings(t, k, st, <<>>, d))
        /\ AskedOK(A, t, k, st, <<>>, d) /\ AnswersOK(d, t, k)
    BY DEF ClientInv
  <1>2. /\ st \in Stores /\ d \in Seq(Messages) /\ InOrder(st, <<>>, d)
        /\ t \in Timelines /\ Held(t) /\ RangeOK(t.range) /\ Painting(t, k)
        /\ \A r \in t.rows : Behind(r, st, <<>>, d)
        /\ k \in Spans /\ RangeOK(k)
    BY <1>1 DEF Wire, ClientOK
  <1>3. /\ Wire(st, <<>>, e) /\ StaysBehind(st, <<>>, d, st, <<>>, e)
        /\ Head(d) \in Messages /\ Head(d) = d[1] /\ 1 \in DOMAIN d
        /\ \A i \in DOMAIN e : i + 1 \in DOMAIN d /\ e[i] = d[i + 1]
        /\ \A p \in Brings(Head(d)) : /\ UpTo(p, StoreEnd(st))
                                      /\ \A i \in DOMAIN e : Precedes(p, e[i])
    <2> DEFINE s == <<>>
               empty == <<>>
    <2>1. Wire(st, s, d) /\ d # empty
      BY <1>1
    <2> HIDE DEF s
    <2>2. /\ Wire(st, s, e) /\ StaysBehind(st, s, d, st, s, e) /\ RestOf(d, e)
          /\ Head(d) \in Messages /\ Head(d) = d[1] /\ 1 \in DOMAIN d
      BY ONLY <2>1, WireTakes
    <2>3. \A i \in DOMAIN Tail(d) : i + 1 \in DOMAIN d /\ Tail(d)[i] = d[i + 1]
      <3> HIDE DEF e
      <3>1. \A i \in DOMAIN e : i + 1 \in DOMAIN d /\ e[i] = d[i + 1]
        BY <2>2 DEF RestOf
      <3> QED
        BY <3>1 DEF e
    <2>4. \A p \in Brings(Head(d)) : UpTo(p, StoreEnd(st))
      BY ONLY <2>1, WireTakes
    <2>5. \A p \in Brings(Head(d)) : \A i \in DOMAIN Tail(d) : Precedes(p, Tail(d)[i])
      BY ONLY <2>1, WireTakes
    <2> QED
      BY <2>2, <2>3, <2>4, <2>5 DEF s
  <1> DEFINE h == Head(d)
  <1>4. sent \in Pages /\ AnswerOK(sent, t, k) /\ h.type = "page" /\ h.page = sent
    BY <1>1, <1>3, MessageTypes DEF AnswersOK
  <1>5. /\ page \in Pages /\ AnswerOK(page, t, k)
        /\ page.error = sent.error /\ page.dir = sent.dir /\ page.epoch = sent.epoch
        /\ page.max = sent.max /\ page.hasNewer = sent.hasNewer /\ Top(page) = top
    BY ONLY <1>4, forcing \in BOOLEAN, forcing => sent.dir = "tail",
            page = [sent EXCEPT !.reset = sent.reset \/ forcing], PageForced
  <1> HIDE DEF e, h, q
  <1>6. ~sent.error => /\ top \in Points /\ UpTo(top, StoreEnd(st))
                       /\ \A i \in DOMAIN e : Precedes(top, e[i])
                       /\ Behind(top, st, <<>>, e)
    <2>1. ~sent.error => top \in Brings(h)
      BY <1>4 DEF Brings
    <2>2. top \in Points
      BY <1>4, PointTypes
    <2>3. ~sent.error => UpTo(top, StoreEnd(st)) /\ \A i \in DOMAIN e : Precedes(top, e[i])
      BY <1>3, <2>1 DEF h
    <2> QED
      BY <2>2, <2>3 DEF Behind
  <1>7. ~sent.error => \A p \in Points : Behind(p, st, <<>>, d) => UpTo(p, top)
    BY <1>3, <1>4 DEF Behind, Precedes, h
  <1> HIDE DEF top
  <1>8. t.rows \subseteq Rows /\ t.rows \subseteq Points
    BY <1>2, PointTypes DEF Timelines
  <1>9. PageMoves(t, u, page) /\ Recovery(q, u, page)
    <2>1. ~page.error => \A r \in t.rows : UpTo(r, Top(page))
      BY <1>2, <1>5, <1>7, <1>8
    <2> QED
      BY ONLY <1>2, <1>5, <2>1, u = PageApplied(t, k, page), PageApplies DEF q
  <1>10. /\ u \in Timelines /\ RangeOK(u.range) /\ Held(u) /\ (t.synced => u.synced)
         /\ (~u.synced => t.rows \subseteq u.rows)
         /\ \A r \in u.rows : r \in t.rows \/ (~sent.error /\ UpTo(r, top))
         /\ Empty(u) => /\ ~sent.hasNewer
                        /\ Empty(t) \/ (~sent.error /\ sent.max = 0)
         /\ t.synced /\ u.range # NoSpan => UpTo(EndOf(t.range), EndOf(u.range))
    BY <1>5, <1>9 DEF PageMoves
  <1>11. l = IF u.synced THEN NoSpan ELSE k
    BY DEF CachedAfter
  \* Of a page that leaves the timeline empty.
  <1>12. Empty(u) => Empty(t) \/ (~sent.error /\ \A p \in Rows : UpTo(p, top) => p.epoch < sent.epoch)
    <2> SUFFICES ASSUME sent.max = 0, NEW p \in Rows, UpTo(p, top)
                 PROVE  p.epoch < sent.epoch
      BY <1>10
    <2>1. top.epoch = sent.epoch /\ top.seq = 0
      BY DEF top, Top, Row
    <2> QED
      BY <2>1, Bounds DEF UpTo, Rows
  <1>13. ~sent.error => sent.epoch <= st.epoch /\ sent.epoch \in Nat
    <2> HAVE ~sent.error
    <2>1. top.epoch = sent.epoch /\ UpTo(top, StoreEnd(st)) /\ StoreEnd(st).epoch = st.epoch
      BY <1>6 DEF top, Top, Row, StoreEnd
    <2>2. sent.epoch \in Nat /\ st.epoch \in Nat
      BY <1>2, <1>4, Bounds DEF Pages, Stores
    <2> QED
      BY <2>1, <2>2 DEF UpTo
  <1>14. Follows(t, k, st, <<>>, d, u, l, st, <<>>, e)
    <2>1. ~u.synced => ~t.synced /\ l = k
      BY <1>10, <1>11
    <2>2. st.epoch \in Nat
      BY <1>2, Bounds DEF Stores
    <2>3. ASSUME Empty(u), ~Empty(t), NEW p \in Rows, Behind(p, st, <<>>, d)
          PROVE  p.epoch < st.epoch
      <3>1. ~sent.error /\ p.epoch < sent.epoch
        BY <1>7, <1>12, <2>3, PointTypes
      <3>2. p.epoch \in Nat
        BY Bounds DEF Rows
      <3> QED
        BY <1>13, <2>2, <3>1, <3>2
    <2> QED
      BY <1>3, <2>1, <2>2, <2>3 DEF Follows
  <1>15. /\ Jobs(t, k, st, <<>>, d) \subseteq Jobs(u, l, st, <<>>, e)
         /\ Pendings(t, k, st, <<>>, d) \subseteq Pendings(u, l, st, <<>>, e)
         /\ AskedOK(A, u, l, st, <<>>, e)
    BY ONLY <1>1, <1>2, <1>14, ContextKept
  <1>16. CatchUpIn(c, Jobs(u, l, st, <<>>, e), Pendings(u, l, st, <<>>, e))
    BY <1>1, <1>15, CatchUpKept
  <1>17. CacheOK(span, l, c, st, <<>>, e)
    <2>1. l \in {NoSpan, k}
      BY <1>11
    <2> QED
      BY <1>1, <1>3, <2>1, CacheKept
  <1>18. ClientOK(u, l, st, <<>>, e)
    <2>1. \A r \in u.rows : Behind(r, st, <<>>, e)
      <3> TAKE r \in u.rows
      <3>1. r \in Points
        BY <1>10, PointTypes DEF Timelines
      <3>2. CASE r \in t.rows
        BY <1>2, <1>3, <3>1, <3>2 DEF StaysBehind
      <3>3. CASE ~sent.error /\ UpTo(r, top)
        <4>1. top \in Points /\ Behind(top, st, <<>>, e)
          BY <1>6, <3>3
        <4>2. <<>> \in Seq(Rows) /\ e \in Seq(Messages) /\ st \in Stores
          BY <1>3 DEF Wire
        <4> QED
          BY <3>1, <3>3, <4>1, <4>2, BehindToo
      <3> QED
        BY <1>10, <3>2, <3>3
    <2>2. l \in Spans /\ RangeOK(l)
      BY <1>2, <1>11, Bounds DEF RangeOK, Spans, NoSpan, Span
    <2>3. Painting(u, l)
      BY <1>2, <1>10, <1>11 DEF Painting
    <2> QED
      BY <1>10, <2>1, <2>2, <2>3 DEF ClientOK
  <1>19. AnswersOK(e, u, l)
    <2> SUFFICES ASSUME NEW i \in DOMAIN e, e[i].type = "page"
                 PROVE  AnswerOK(e[i].page, u, l)
      BY DEF AnswersOK
    <2> DEFINE m == e[i]
               p == m.page
    <2>1. i + 1 \in DOMAIN d /\ m = d[i + 1] /\ m.type = "page" /\ p = m.page
      BY <1>3
    <2>2. m \in Messages /\ 1 < i + 1
      <3>1. DOMAIN d = 1..Len(d) /\ DOMAIN e = 1..Len(e)
        BY <1>2, <1>3, LenProperties DEF Wire
      <3> QED
        BY <1>2, <2>1, <3>1, ElementOfSeq
    <2> HIDE DEF m, p
    <2>3. p \in Pages /\ AnswerOK(p, t, k)
      BY <1>1, <2>1, <2>2, MessageTypes DEF AnswersOK
    <2>4. ~u.synced => ~t.synced /\ l = k
      BY <1>10, <1>11
    <2>5. ASSUME Empty(u), ~Empty(t), p.dir = "after", ~p.error, ~p.reset
          PROVE  FALSE
      <3> DEFINE P == Position(p.request)
      <3>1. ~sent.error /\ \A r \in Rows : UpTo(r, top) => r.epoch < sent.epoch
        BY <1>12, <2>5
      <3>2. p.epoch = p.request.epoch /\ p.request.dir = "after" /\ p.request \in Requests
        BY <2>3, <2>5 DEF AnswerOK, Shaped, Pages
      <3>3. P \in Rows /\ P.epoch = p.epoch
        BY <3>2, PointTypes DEF Position, Row
      <3>4. P \in AsksAfter(m)
        BY <2>1, <2>5 DEF AsksAfter
      <3> HIDE DEF P
      <3>5. Precedes(P, h)
        BY <1>2, <1>3, <2>1, <2>2, <3>4 DEF InOrder, h
      <3>6. P.epoch < sent.epoch
        BY <1>4, <3>1, <3>3, <3>5 DEF Precedes, top
      <3>7. UpTo(top, Top(p))
        BY <1>6, <2>1, <2>5, <3>1 DEF Precedes, m
      <3>8. sent.epoch <= p.epoch
        <4>1. top.epoch = sent.epoch /\ Top(p).epoch = p.epoch
          BY DEF top, Top, Row
        <4>2. sent.epoch \in Nat /\ p.epoch \in Nat
          BY <1>4, <2>3, Bounds DEF Pages
        <4> QED
          BY <3>7, <4>1, <4>2 DEF UpTo
      <3>9. sent.epoch \in Nat /\ p.epoch \in Nat
        BY <1>4, <2>3, Bounds DEF Pages
      <3> QED
        BY <3>3, <3>6, <3>8, <3>9
    <2>6. AnswerOK(p, u, l)
      BY <2>3, <2>4, <2>5 DEF AnswerOK
    <2> QED
      BY <2>6 DEF p, m
  <1>20. ClientInv(u, l, c, A, span, st, <<>>, e)
    BY <1>3, <1>15, <1>16, <1>17, <1>18, <1>19 DEF ClientInv
  \* What the page asks for next.
  <1>21. ASSUME NEW r \in Requests, r.dir = "after", ~sent.error, UpTo(Position(r), top), u.synced, ~Empty(u)
         PROVE  RequestOK(r, u, l, st, <<>>, e)
    <2>1. Position(r) \in Points
      BY <1>21, PointTypes
    <2>2. top \in Points /\ Behind(top, st, <<>>, e)
      BY <1>6, <1>21
    <2>3. <<>> \in Seq(Rows) /\ e \in Seq(Messages) /\ st \in Stores
      BY <1>3 DEF Wire
    <2>4. Behind(Position(r), st, <<>>, e)
      BY <1>21, <2>1, <2>2, <2>3, BehindToo
    <2> QED
      BY <1>21, <2>4 DEF RequestOK
  <1>22. q \in Pendings(u, l, st, <<>>, e)
    <2>1. CASE q = NoRequest
      BY <2>1, SomeRequests DEF Pendings, RequestOK
    <2>2. CASE q # NoRequest
      <3>1. q \in Requests /\ RequestOK(q, u, l, st, <<>>, e) /\ u.synced
        BY <1>5, <1>9, <1>21, <2>2 DEF Recovery
      <3>2. q.dir = "after"
        BY <1>9, <2>2 DEF Recovery
      <3>3. q # TailFetch
        BY ONLY <3>2, SomeRequests
      <3> QED
        BY <3>1, <3>3 DEF Pendings
    <2> QED
      BY <2>1, <2>2
  <1>23. ASSUME NEW f \in Jobs(u, l, st, <<>>, e), f.request = sent.request
         PROVE  GoesOnIn(f, sent, Jobs(u, l, st, <<>>, e))
    <2> SUFFICES ASSUME sent.hasNewer, f.kind = "page", ~f.fallback
                 PROVE  Fetch("page", CatchUpAfter(sent.epoch, sent.to), TRUE, FALSE)
                          \in Jobs(u, l, st, <<>>, e)
      BY DEF GoesOnIn
    <2> DEFINE r == CatchUpAfter(sent.epoch, sent.to)
               g == Fetch("page", r, TRUE, FALSE)
    <2>1. /\ ~sent.error /\ sent.dir = "after" /\ sent.request.dir = "after" /\ sent.from # 0
          /\ sent.to < sent.max /\ 1 <= sent.to /\ 1 <= sent.epoch
      <3>1. sent.from \in Nat /\ sent.to \in Nat
        BY <1>4, Bounds DEF Pages
      <3> QED
        BY <1>4, <3>1 DEF AnswerOK, Shaped
    <2>2. /\ sent.epoch \in 1..MaxEpoch /\ sent.to \in 1..MaxRows /\ sent.max \in 0..MaxRows
      BY <1>4, <2>1, Bounds DEF Pages
    <2>3. r \in Requests /\ r.dir = "after" /\ Position(r) = Row(sent.epoch, sent.to)
      BY <2>2 DEF CatchUpAfter, Request, Requests, Position
    <2>4. UpTo(Position(r), top)
      BY <2>1, <2>2, <2>3, Bounds DEF UpTo, top, Top, Row
    <2>5. u.synced /\ ~Empty(u)
      <3>1. FetchOK(f, u)
        BY DEF Jobs
      <3> QED
        BY <1>10, <1>23, <2>1, <3>1 DEF FetchOK
    <2> HIDE DEF r
    <2>6. RequestOK(r, u, l, st, <<>>, e)
      BY <1>21, <2>1, <2>3, <2>4, <2>5
    <2>7. g \in Fetches /\ g.request = r
      BY <2>3 DEF Fetch, Fetches
    <2> HIDE DEF g
    <2>8. g \in Jobs(u, l, st, <<>>, e)
      BY <2>5, <2>6, <2>7 DEF Jobs, FetchOK
    <2> QED
      BY <2>8 DEF g, r
  <1> QED
    BY <1>5, <1>10, <1>15, <1>20, <1>22, <1>23 DEF e, q

-----------------------------------------------------------------------------
(* Every step preserves the invariant, and no step takes the client's end  *)
(* back.                                                                   *)

\* The end of timeline u is not before that of t.
Further(t, u) == t.synced /\ u.range # NoSpan => UpTo(EndOf(t.range), EndOf(u.range))

\* An end that has not moved is no further back.
LEMMA NotMoved ==
  ASSUME NEW t \in Timelines, NEW u, t.synced => u.range = t.range
  PROVE  Further(t, u)
  <1>1. t.range \in Spans
    BY DEF Timelines
  <1>2. UpTo(EndOf(t.range), EndOf(t.range))
    BY <1>1, PointTypes, OrderOfRows
  <1> QED
    BY <1>2 DEF Further

\* What every step uses of the invariant.
LEMMA InvFacts ==
  ASSUME Inv
  PROVE  /\ Flags(subscribed, connected, subscription, forced)
         /\ ClientInv(timeline, cached, catchUp, asked, stored, store, stream, down)
         /\ timeline \in Timelines /\ catchUp \in CatchUps /\ store \in Stores
         /\ Live \in BOOLEAN /\ Further(timeline, timeline)
  <1>1. timeline \in Timelines /\ catchUp \in CatchUps /\ store \in Stores
    BY DEF Inv, ClientInv, ClientOK, CatchUpIn, Wire
  <1>2. Live \in BOOLEAN
    BY DEF Live
  <1> QED
    BY <1>1, <1>2, NotMoved DEF Inv

\* Nothing is held, asked or on its way at first.
LEMMA InitInv == Init => Inv
  <1> SUFFICES ASSUME Init PROVE Inv
    OBVIOUS
  <1> DEFINE c == CacheWanted(NewCatchUp)
             J == Jobs(NewTimeline, NoSpan, store, <<>>, <<>>)
             P == Pendings(NewTimeline, NoSpan, store, <<>>, <<>>)
  <1>1. /\ MaxRows \in Nat /\ MaxEpoch \in Nat \ {0}
    BY Bounds
  <1>2. PICK n \in 0..MaxRows : store = Store(1, n)
    BY DEF Init
  <1>3. store \in Stores /\ store.epoch = 1 /\ store.last = n
    BY <1>1, <1>2 DEF Store, Stores
  <1>4. /\ timeline = NewTimeline /\ cached = NoSpan /\ catchUp = c /\ asked = <<>> /\ stream = <<>>
        /\ down = <<>> /\ forced = FALSE /\ subscribed = FALSE /\ connected = FALSE
        /\ subscription = "none" /\ stored \in {NoSpan} \union { Span(1, 1, m) : m \in 1..store.last }
    BY DEF Init
  <1>5. Wire(store, <<>>, <<>>)
    BY <1>3 DEF Wire, InOrder
  <1>6. NoSpan \in Spans /\ RangeOK(NoSpan)
    BY <1>1 DEF Spans, NoSpan, Span, RangeOK
  <1>7. /\ NewTimeline \in Timelines /\ ~NewTimeline.synced /\ NewTimeline.range = NoSpan
        /\ NewTimeline.rows = {}
    BY <1>6 DEF NewTimeline, Timelines
  <1>8. ClientOK(NewTimeline, NoSpan, store, <<>>, <<>>)
    BY <1>6, <1>7 DEF ClientOK, Held, Painting
  <1>9. /\ c \in CatchUps /\ c.fetches = {} /\ c.pending = NoRequest /\ c.cache = "loading"
        /\ c.sent = <<>>
    <2> DEFINE none == <<>>
    <2>2. none \in Seq(Requests) /\ none = <<>>
      BY EmptySeq
    <2>3. NewCatchUp = [status |-> "none", request |-> NoRequest, fetches |-> {}, pending |-> NoRequest,
                        cache |-> "no", shown |-> "pending", sent |-> none]
      BY DEF NewCatchUp
    <2> HIDE DEF none
    <2>1. c = [status |-> "none", request |-> NoRequest, fetches |-> {}, pending |-> NoRequest,
               cache |-> "loading", shown |-> "pending", sent |-> none]
      BY <2>3 DEF CacheWanted
    <2> QED
      BY <2>1, <2>2 DEF CatchUps
  <1> HIDE DEF c
  <1>10. CatchUpIn(c, J, P)
    <2>1. Allowed(J, P)
      BY JobsAllowed
    <2> QED
      BY <1>9, <2>1 DEF Allowed, CatchUpIn, OneOwner, SentIn
  <1>11. CacheOK(stored, NoSpan, c, store, <<>>, <<>>)
    <2>1. CASE stored = NoSpan
      BY <1>6, <2>1 DEF CacheOK
    <2>2. CASE stored # NoSpan
      <3>1. PICK m \in 1..n : stored = Span(1, 1, m)
        BY <1>3, <1>4, <2>2
      <3>2. stored \in Spans /\ RangeOK(stored) /\ EndOf(stored) = Row(1, m)
        BY <1>1, <3>1 DEF Spans, Span, RangeOK, EndOf
      <3>3. UpTo(Row(1, m), StoreEnd(store))
        BY <1>3, <3>1 DEF UpTo, Row, StoreEnd
      <3>4. Behind(EndOf(stored), store, <<>>, <<>>)
        BY <3>2, <3>3 DEF Behind
      <3> QED
        BY <3>2, <3>4 DEF CacheOK
    <2> QED
      BY <2>1, <2>2
  <1>12. AskedOK(<<>>, NewTimeline, NoSpan, store, <<>>, <<>>) /\ AnswersOK(<<>>, NewTimeline, NoSpan)
    BY EmptySeq DEF AskedOK, AnswersOK
  <1>13. Flags(subscribed, connected, subscription, forced)
    BY <1>4 DEF Flags
  <1> QED
    BY <1>4, <1>5, <1>8, <1>10, <1>11, <1>12, <1>13 DEF Inv, ClientInv

\* The steps of the daemon.
LEMMA Append1Step ==
  ASSUME Inv, Append1
  PROVE  Inv' /\ Further(timeline, timeline')
  <1>1. /\ store.last < MaxRows /\ store' = [store EXCEPT !.last = store.last + 1]
        /\ down' = down \/ down' = Append(down, Event(Row(store.epoch, store'.last)))
        /\ timeline' = timeline /\ cached' = cached /\ catchUp' = catchUp /\ asked' = asked
        /\ stored' = stored /\ stream' = stream
        /\ subscribed' = subscribed /\ connected' = connected /\ subscription' = subscription
        /\ forced' = forced
    BY DEF Append1, client
  <1>2. /\ ClientInv(timeline, cached, catchUp, asked, stored, store', stream, down)
        /\ ClientInv(timeline, cached, catchUp, asked, stored, store', stream,
                     Append(down, Event(Row(store.epoch, store'.last))))
    BY <1>1, InvFacts, Append1Keeps
  <1> QED
    BY <1>1, <1>2, InvFacts DEF Inv

\* The daemon replaces the timeline: a new epoch, a notice.
LEMMA ReplaceStep ==
  ASSUME Inv, Replace
  PROVE  Inv' /\ Further(timeline, timeline')
  <1>1. PICK last \in 0..MaxRows :
          /\ store' = Store(store.epoch + 1, last)
          /\ \/ down' = down
             \/ down' = down \o [n \in 1..last |-> Event(Row(store.epoch + 1, n))]
             \/ down' = Append(down, Notice)
    BY DEF Replace
  <1>2. /\ store.epoch < MaxEpoch
        /\ timeline' = timeline /\ cached' = cached /\ catchUp' = catchUp /\ asked' = asked
        /\ stored' = stored /\ stream' = stream
        /\ subscribed' = subscribed /\ connected' = connected /\ subscription' = subscription
        /\ forced' = forced
    BY DEF Replace, client
  <1>3. /\ ClientInv(timeline, cached, catchUp, asked, stored, store', stream, down)
        /\ ClientInv(timeline, cached, catchUp, asked, stored, store', stream, Append(down, Notice))
        /\ ClientInv(timeline, cached, catchUp, asked, stored, store', stream,
                     down \o [n \in 1..last |-> Event(Row(store.epoch + 1, n))])
    BY <1>1, <1>2, InvFacts, ReplaceKeeps
  <1> QED
    BY <1>1, <1>2, <1>3, InvFacts DEF Inv

\* The daemon answers a subscription.
LEMMA HandleSubscribeStep ==
  ASSUME Inv, HandleSubscribe
  PROVE  Inv' /\ Further(timeline, timeline')
  <1>1. asked # <<>> /\ asked' = Tail(asked) /\ down' = Append(down, Ack(Head(asked).waited))
    BY DEF HandleSubscribe
  <1>2. /\ timeline' = timeline /\ cached' = cached /\ catchUp' = catchUp /\ store' = store
        /\ stored' = stored /\ stream' = stream
        /\ subscribed' = TRUE /\ connected' = connected /\ subscription' = subscription
        /\ forced' = forced
    BY DEF HandleSubscribe, client
  <1>3. ClientInv(timeline, cached, catchUp, Tail(asked), stored, store, stream,
                  Append(down, Ack(Head(asked).waited)))
    BY <1>1, InvFacts, SubscribeKeeps
  <1>4. Flags(TRUE, connected, subscription, forced)
    BY InvFacts DEF Flags
  <1> QED
    BY <1>1, <1>2, <1>3, <1>4, InvFacts DEF Inv

\* The daemon answers a fetch from the store of the moment.
LEMMA HandleFetchStep ==
  ASSUME Inv, HandleFetch
  PROVE  Inv' /\ Further(timeline, timeline')
  <1> DEFINE r == Head(asked).request
             w == Head(asked).waited
  <1>1. /\ asked # <<>> /\ r # Subscribe /\ asked' = Tail(asked)
        /\ \/ down' = Append(down, Answer(PageAnswered(store, r), w))
           \/ down' = Append(down, Answer(ErrorPage(r), w))
    BY DEF HandleFetch
  <1>5. w \in BOOLEAN
    BY <1>1, InvFacts, AskedLess DEF ClientInv, Asks
  <1>2. PICK page : /\ page = PageAnswered(store, r) \/ page = ErrorPage(r)
                    /\ down' = Append(down, Answer(page, w))
    BY <1>1
  <1> HIDE DEF w
  <1>3. /\ timeline' = timeline /\ cached' = cached /\ catchUp' = catchUp /\ store' = store
        /\ stored' = stored /\ stream' = stream
        /\ subscribed' = subscribed /\ connected' = connected /\ subscription' = subscription
        /\ forced' = forced
    BY DEF HandleFetch, client
  <1>4. ClientInv(timeline, cached, catchUp, Tail(asked), stored, store, stream,
                  Append(down, Answer(page, w)))
    BY <1>1, <1>2, <1>5, InvFacts, FetchKeeps
  <1> QED
    BY <1>1, <1>2, <1>3, <1>4, InvFacts DEF Inv

\* The steps of the client's connection.
LEMMA ConnectStep ==
  ASSUME Inv, Connect \/ RetrySubscription
  PROVE  Inv' /\ Further(timeline, timeline')
  <1>1. /\ asked' = Append(asked, Ask(Subscribe)) /\ subscription' = "asked"
        /\ connected' = TRUE \/ connected' = connected
        /\ timeline' = timeline /\ cached' = cached /\ catchUp' = catchUp /\ store' = store
        /\ stored' = stored /\ stream' = stream /\ down' = down
        /\ subscribed' = subscribed /\ forced' = forced
    BY DEF Connect, RetrySubscription, server, client
  <1>2. ClientInv(timeline, cached, catchUp, Append(asked, Ask(Subscribe)), stored, store, stream, down)
    BY InvFacts, SubscriptionAsked
  <1>3. Flags(subscribed, connected', "asked", forced)
    BY <1>1, InvFacts DEF Flags
  <1> QED
    BY <1>1, <1>2, <1>3, InvFacts DEF Inv

\* The connection is lost with what was on its way.
LEMMA DisconnectStep ==
  ASSUME Inv, Disconnect
  PROVE  Inv' /\ Further(timeline, timeline')
  <1> DEFINE u == [timeline EXCEPT !.init = "none"]
             e == [Cancelled(catchUp) EXCEPT !.fetches = {}, !.shown = "pending"]
  <1>1. /\ timeline' = u /\ catchUp' = e /\ asked' = <<>> /\ down' = <<>>
        /\ connected' = FALSE /\ subscription' = "none" /\ subscribed' = FALSE /\ forced' = FALSE
        /\ cached' = cached /\ store' = store /\ stored' = stored /\ stream' = stream
    BY DEF Disconnect
  <1> HIDE DEF u, e
  <1>2. /\ ClientInv(u, cached, e, <<>>, stored, store, stream, <<>>)
        /\ u.synced = timeline.synced /\ u.range = timeline.range
    BY InvFacts, DisconnectKeeps DEF u, e
  <1>3. Further(timeline, u)
    BY <1>2, InvFacts, NotMoved
  <1>4. Flags(FALSE, FALSE, "none", FALSE)
    BY DEF Flags
  <1> QED
    BY <1>1, <1>2, <1>3, <1>4 DEF Inv

\* A subscription fails.
LEMMA SubscriptionFailsStep ==
  ASSUME Inv, SubscriptionFails
  PROVE  Inv' /\ Further(timeline, timeline')
  <1> DEFINE B == GivenUp(Subscribe)
             e == [i \in DOMAIN down |-> IF down[i].type = "ack" THEN Ack(FALSE) ELSE down[i]]
             g == [catchUp EXCEPT !.shown = "error"]
  <1>1. /\ asked' = B /\ down' = e /\ catchUp' = g /\ subscription' = "failed"
        /\ timeline' = timeline /\ cached' = cached /\ store' = store
        /\ stored' = stored /\ stream' = stream
        /\ subscribed' = subscribed /\ connected' = connected /\ forced' = forced
    BY DEF SubscriptionFails, server
  <1>2. ClientInv(timeline, cached, g, B, stored, store, stream, e)
    <2>1. /\ asked \in Seq(Asks) /\ down \in Seq(Messages)
          /\ ClientInv(timeline, cached, catchUp, asked, stored, store, stream, down)
      BY InvFacts DEF ClientInv, AskedOK, Wire
    <2>2. SameAsks(asked, B)
      BY ONLY <2>1, GivenUpTypes DEF SameAsks
    <2>3. /\ e = [i \in DOMAIN down |-> IF down[i].type = "ack" THEN Ack(FALSE) ELSE down[i]]
          /\ g = [catchUp EXCEPT !.shown = "error"]
      OBVIOUS
    <2> HIDE DEF B, e, g
    <2> QED
      BY ONLY <2>1, <2>2, <2>3, SubscriptionFailsKeeps
  <1> HIDE DEF B, e, g
  <1>3. Flags(subscribed, connected, "failed", forced)
    BY InvFacts DEF Flags
  <1> QED
    BY <1>1, <1>2, <1>3, InvFacts DEF Inv

\* A request is given up.
LEMMA FetchTimesOutStep ==
  ASSUME Inv, FetchTimesOut
  PROVE  Inv' /\ Further(timeline, timeline')
  <1>1. /\ cached' = cached /\ store' = store /\ stored' = stored /\ stream' = stream
        /\ subscribed' = subscribed /\ connected' = connected /\ subscription' = subscription
        /\ timeline' = timeline \/ timeline' = [timeline EXCEPT !.init = "none"]
        /\ forced' \in BOOLEAN
    BY InvFacts DEF FetchTimesOut, server, Flags
  <1>2. PICK f \in catchUp.fetches :
          /\ catchUp' = Failed([catchUp EXCEPT !.fetches = @ \ { g \in catchUp.fetches : g.request = f.request }], f)
          /\ asked' = GivenUp(f.request) /\ down' = Unawaited(f.request)
    <2> DEFINE V(r) == { g \in catchUp.fetches : g.request = r }
               rest(r) == [catchUp EXCEPT !.fetches = @ \ V(r)]
    <2>1. PICK r \in { g.request : g \in catchUp.fetches } :
            /\ asked' = GivenUp(r) /\ down' = Unawaited(r)
            /\ \/ \E owner \in V(r) : owner.owner /\ catchUp' = Failed(rest(r), owner)
               \/ (\A g \in V(r) : ~g.owner) /\ catchUp' = rest(r)
      BY DEF FetchTimesOut
    <2> HIDE DEF rest
    <2>2. CASE \E owner \in V(r) : owner.owner /\ catchUp' = Failed(rest(r), owner)
      BY <2>1, <2>2 DEF rest
    <2>3. CASE (\A g \in V(r) : ~g.owner) /\ catchUp' = rest(r)
      <3>1. PICK g \in catchUp.fetches : g.request = r
        OBVIOUS
      <3>2. g \in V(r) /\ ~g.owner
        BY <2>3, <3>1
      <3>3. Failed(rest(r), g) = rest(r)
        BY <3>2 DEF Failed
      <3> QED
        BY <2>1, <2>3, <3>1, <3>3 DEF rest
    <2> QED
      BY <2>1, <2>2, <2>3
  <1> DEFINE W == { g \in catchUp.fetches : g.request = f.request }
             r == f.request
             B == GivenUp(r)
             e == Unawaited(r)
  <1>3. /\ asked \in Seq(Asks) /\ down \in Seq(Messages)
        /\ ClientInv(timeline, cached, catchUp, asked, stored, store, stream, down)
    BY InvFacts DEF ClientInv, AskedOK, Wire
  <1> HIDE DEF W, r
  <1>4. /\ B \in Seq(Asks) /\ Len(B) = Len(asked) /\ \A i \in 1..Len(asked) : B[i].request = asked[i].request
        /\ e \in Seq(Messages) /\ DOMAIN e = DOMAIN down /\ \A i \in DOMAIN down : SameMessage(down[i], e[i])
    BY ONLY <1>3, GivenUpTypes
  <1> HIDE DEF B, e
  <1>5. ClientInv(timeline, cached, catchUp, B, stored, store, stream, e)
    BY ONLY <1>3, <1>4, GivenUpKeeps
  <1>6. ClientInv(timeline', cached, catchUp', B, stored, store, stream, e) /\ SameFor(timeline, timeline')
    <2>1. catchUp' = Failed([catchUp EXCEPT !.fetches = @ \ W], f)
      BY <1>2 DEF W
    <2> QED
      BY <1>1, <1>5, <2>1, TimesOutKeeps
  <1>7. Further(timeline, timeline')
    BY <1>6, InvFacts, NotMoved DEF SameFor
  <1>8. asked' = B /\ down' = e
    BY <1>2 DEF B, e, r
  <1>9. Flags(subscribed, connected, subscription, forced')
    BY <1>1, InvFacts DEF Flags
  <1> QED
    BY <1>1, <1>6, <1>7, <1>8, <1>9 DEF Inv

\* The steps of the client's handlers.
LEMMA ReceiveEventStep ==
  ASSUME Inv, ReceiveEvent
  PROVE  Inv' /\ Further(timeline, timeline')
  <1>1. /\ down # <<>> /\ Head(down).type = "event"
        /\ down' = Tail(down) /\ stream' = Append(stream, Head(down).row)
        /\ timeline' = timeline /\ cached' = cached /\ catchUp' = catchUp /\ store' = store
        /\ stored' = stored /\ asked' = asked
        /\ subscribed' = subscribed /\ connected' = connected /\ subscription' = subscription
        /\ forced' = forced
    BY DEF ReceiveEvent, server
  <1>2. ClientInv(timeline, cached, catchUp, asked, stored, store, Append(stream, Head(down).row), Tail(down))
    BY <1>1, InvFacts, TakeKeeps
  <1> QED
    BY <1>1, <1>2, InvFacts DEF Inv

\* A handler that moves the catch-up and changes no more of the timeline.
LEMMA MovesStep ==
  ASSUME NEW t, NEW k, NEW c, NEW A, NEW span, NEW st, NEW s, NEW d, NEW e,
         ClientInv(t, k, c, A, span, st, s, d),
         MovesIn(c, e, Jobs(t, k, st, s, d), Pendings(t, k, st, s, d))
  PROVE  /\ ClientInv(InitializedBy(t, c.fetches, e.fetches), k, Settled(e), A \o SentBy(e), span, st, s, d)
         /\ InitializedBy(t, c.fetches, e.fetches).synced = t.synced
         /\ InitializedBy(t, c.fetches, e.fetches).range = t.range
  <1> DEFINE F == c.fetches
  <1>1. /\ ClientInv(InitializedBy(t, F, e.fetches), k, Settled(e), A \o SentBy(e), span, st, s, d)
        /\ SameFor(t, InitializedBy(t, F, e.fetches))
    BY ONLY CatchUpMoves, ClientInv(t, k, c, A, span, st, s, d),
            MovesIn(c, e, Jobs(t, k, st, s, d), Pendings(t, k, st, s, d))
  <1> QED
    BY <1>1 DEF SameFor

\* The frame's timer applies the queued rows (flushAgent).
LEMMA FlushStep ==
  ASSUME Inv, Flush
  PROVE  Inv' /\ Further(timeline, timeline')
  <1> DEFINE t == Flushed.timeline
             q == Flushed.recoveries
             k == CachedAfter(t, cached)
             span == ReadCursor(t, k)
             c == FlushedCatchUp(span)
             J == Jobs(t, k, store, <<>>, down)
             P == Pendings(t, k, store, <<>>, down)
  <1>1. /\ catchUp' = Settled(c) /\ timeline' = InitializedBy(t, catchUp.fetches, c.fetches)
        /\ cached' = k /\ asked' = asked \o SentBy(c) /\ stream' = <<>>
        /\ store' = store /\ stored' = stored /\ down' = down
        /\ subscribed' = subscribed /\ connected' = connected /\ subscription' = subscription
        /\ forced' = forced
    BY DEF Flush, server
  <1>2. /\ ClientInv(t, k, catchUp, asked, stored, store, <<>>, down)
        /\ q \in Seq(P)
        /\ t.synced = timeline.synced /\ UpTo(EndOf(timeline.range), EndOf(t.range))
    BY InvFacts, Drained DEF Flushed
  <1> HIDE DEF t, k
  <1>3. Allowed(J, P) /\ CatchUpIn(catchUp, J, P) /\ Live \in BOOLEAN
    BY <1>2, InvFacts, JobsAllowed DEF ClientInv
  <1> HIDE DEF span
  <1>4. MovesIn(catchUp, FlushedCatchUp(span), J, P)
    BY <1>2, <1>3, FlushedIn
  <1> HIDE DEF c
  <1>5. MovesIn(catchUp, c, J, P)
    BY <1>4 DEF c
  <1>6. /\ ClientInv(timeline', k, Settled(c), asked', stored, store, <<>>, down)
        /\ timeline'.synced = t.synced /\ timeline'.range = t.range
    <2>1. /\ timeline' = InitializedBy(t, catchUp.fetches, c.fetches)
          /\ asked' = asked \o SentBy(c)
      BY <1>1
    <2>2. ClientInv(t, k, catchUp, asked, stored, store, <<>>, down)
      BY <1>2
    <2> DEFINE s == <<>>
    <2> HIDE DEF s
    <2>3. ClientInv(t, k, catchUp, asked, stored, store, s, down)
      BY <2>2 DEF s
    <2>4. MovesIn(catchUp, c, Jobs(t, k, store, s, down), Pendings(t, k, store, s, down))
      BY <1>5 DEF s
    <2>5. /\ ClientInv(timeline', k, Settled(c), asked', stored, store, s, down)
          /\ timeline'.synced = t.synced /\ timeline'.range = t.range
      <3> DEFINE v == InitializedBy(t, catchUp.fetches, c.fetches)
      <3>1. /\ ClientInv(v, k, Settled(c), asked \o SentBy(c), stored, store, s, down)
            /\ v.synced = t.synced /\ v.range = t.range
        BY ONLY <2>3, <2>4, MovesStep
      <3> HIDE DEF v
      <3>2. timeline' = v
        BY <2>1 DEF v
      <3> QED
        BY ONLY <2>1, <3>1, <3>2
    <2> QED
      BY <2>5 DEF s
  <1>7. Further(timeline, timeline')
    BY <1>2, <1>6 DEF Further
  <1> QED
    BY <1>1, <1>6, <1>7, InvFacts DEF Inv

\* The subscription is acknowledged and catch-ups start.
LEMMA ReceiveAckStep ==
  ASSUME Inv, ReceiveAck
  PROVE  Inv' /\ Further(timeline, timeline')
  <1> DEFINE d == Tail(down)
             live == TRUE
             c == Started(catchUp, live, catchUp.pending, ReadCursor(timeline, cached))
  <1>1. /\ down # <<>> /\ down' = d
        /\ \/ /\ catchUp' = Settled(c) /\ timeline' = InitializedBy(timeline, catchUp.fetches, c.fetches)
              /\ asked' = asked \o SentBy(c) /\ subscription' = "acked"
           \/ /\ catchUp' = catchUp /\ timeline' = timeline /\ asked' = asked
              /\ subscription' = subscription
        /\ cached' = cached /\ store' = store /\ stored' = stored /\ stream' = stream
        /\ subscribed' = subscribed /\ connected' = connected /\ forced' = forced
    BY DEF ReceiveAck, server
  <1>2. ClientInv(timeline, cached, catchUp, asked, stored, store, stream, d)
    BY <1>1, InvFacts, TakeKeeps
  <1>3. live \in BOOLEAN
    OBVIOUS
  <1> HIDE DEF d, live
  <1>4. MovesIn(catchUp, c, Jobs(timeline, cached, store, stream, d), Pendings(timeline, cached, store, stream, d))
    BY <1>2, <1>3, StartKeeps
  <1> HIDE DEF c
  <1>5. CASE /\ catchUp' = Settled(c) /\ timeline' = InitializedBy(timeline, catchUp.fetches, c.fetches)
             /\ asked' = asked \o SentBy(c) /\ subscription' = "acked"
    <2>1. /\ ClientInv(timeline', cached, Settled(c), asked', stored, store, stream, d)
          /\ timeline'.synced = timeline.synced /\ timeline'.range = timeline.range
      <3> DEFINE v == InitializedBy(timeline, catchUp.fetches, c.fetches)
      <3>1. /\ ClientInv(v, cached, Settled(c), asked \o SentBy(c), stored, store, stream, d)
            /\ v.synced = timeline.synced /\ v.range = timeline.range
        BY ONLY <1>2, <1>4, MovesStep
      <3> HIDE DEF v
      <3>2. timeline' = v
        BY <1>5 DEF v
      <3> QED
        BY ONLY <1>5, <3>1, <3>2
    <2>2. Flags(subscribed, connected, "acked", forced)
      BY InvFacts DEF Flags
    <2>3. Further(timeline, timeline')
      BY <2>1, InvFacts, NotMoved
    <2> QED
      BY <1>1, <1>5, <2>1, <2>2, <2>3 DEF Inv
  <1>6. CASE /\ catchUp' = catchUp /\ timeline' = timeline /\ asked' = asked
             /\ subscription' = subscription
    BY <1>1, <1>2, <1>6, InvFacts DEF Inv
  <1> QED
    BY <1>1, <1>5, <1>6

\* A replacement notice asks for the latest tail.
LEMMA ReceiveNoticeStep ==
  ASSUME Inv, ReceiveNotice
  PROVE  Inv' /\ Further(timeline, timeline')
  <1> DEFINE d == Tail(down)
             c == Launched(catchUp, Fetch("notice", TailFetch, FALSE, FALSE))
  <1>1. /\ down # <<>> /\ down' = d /\ catchUp' = Settled(c)
        /\ asked' = asked \o SentBy(c)
        /\ timeline' = timeline
        /\ cached' = cached /\ store' = store /\ stored' = stored /\ stream' = stream
        /\ subscribed' = subscribed /\ connected' = connected /\ forced' = forced
        /\ subscription' = subscription
    BY DEF ReceiveNotice, server
  <1>2. ClientInv(timeline, cached, catchUp, asked, stored, store, stream, d)
    BY <1>1, InvFacts, TakeKeeps
  <1> HIDE DEF d
  <1>3. ClientInv(timeline, cached, Settled(c),
                  asked \o SentBy(c), stored, store, stream, d)
    BY <1>2, NoticeKeeps
  <1> HIDE DEF c
  <1> QED
    BY <1>1, <1>3, InvFacts DEF Inv

\* The retry timer starts the catch-up again.
LEMMA RetryStep ==
  ASSUME Inv, Retry
  PROVE  Inv' /\ Further(timeline, timeline')
  <1> DEFINE live == Live
             c == Started(catchUp, live, NoRequest, ReadCursor(timeline, cached))
  <1>1. /\ catchUp' = Settled(c) /\ timeline' = InitializedBy(timeline, catchUp.fetches, c.fetches)
        /\ asked' = asked \o SentBy(c) /\ down' = down
        /\ cached' = cached /\ store' = store /\ stored' = stored /\ stream' = stream
        /\ subscribed' = subscribed /\ connected' = connected /\ forced' = forced
        /\ subscription' = subscription
    BY DEF Retry, StartedAgain, server
  <1>2. live \in BOOLEAN /\ ClientInv(timeline, cached, catchUp, asked, stored, store, stream, down)
    BY InvFacts
  <1> HIDE DEF live
  <1>3. MovesIn(catchUp, c, Jobs(timeline, cached, store, stream, down), Pendings(timeline, cached, store, stream, down))
    BY <1>2, StartKeeps
  <1> HIDE DEF c
  <1>4. /\ ClientInv(timeline', cached, Settled(c), asked', stored, store, stream, down)
        /\ timeline'.synced = timeline.synced /\ timeline'.range = timeline.range
    <2>1. /\ timeline' = InitializedBy(timeline, catchUp.fetches, c.fetches)
          /\ asked' = asked \o SentBy(c)
      BY <1>1
    <2> QED
      <3> DEFINE v == InitializedBy(timeline, catchUp.fetches, c.fetches)
      <3>1. /\ ClientInv(v, cached, Settled(c), asked \o SentBy(c), stored, store, stream, down)
            /\ v.synced = timeline.synced /\ v.range = timeline.range
        BY ONLY <1>2, <1>3, MovesStep
      <3> HIDE DEF v
      <3>2. timeline' = v
        BY <2>1 DEF v
      <3> QED
        BY ONLY <2>1, <3>1, <3>2
  <1>5. Further(timeline, timeline')
    BY <1>4, InvFacts, NotMoved
  <1> QED
    BY <1>1, <1>4, <1>5, InvFacts DEF Inv

\* The cached timeline is painted (ensureCacheLoaded).
LEMMA LoadCacheStep ==
  ASSUME Inv, LoadCache
  PROVE  Inv' /\ Further(timeline, timeline')
  <1> DEFINE live == Live
             t == Painted(timeline, stored)
             k == IF timeline.synced THEN cached ELSE stored
             b == [catchUp EXCEPT !.cache = "yes"]
             c == CacheLoaded(catchUp, live, ReadCursor(t, k))
  <1>1. /\ catchUp.cache = "loading"
        /\ catchUp' = Settled(c) /\ timeline' = InitializedBy(t, catchUp.fetches, c.fetches)
        /\ asked' = asked \o SentBy(c) /\ down' = down
        /\ cached' = k /\ store' = store /\ stored' = stored /\ stream' = stream
        /\ subscribed' = subscribed /\ connected' = connected /\ forced' = forced
        /\ subscription' = subscription
    BY DEF LoadCache, server
  <1>2. /\ ClientInv(t, k, b, asked, stored, store, stream, down)
        /\ b.fetches = catchUp.fetches /\ b.pending = catchUp.pending
        /\ t.synced = timeline.synced /\ (timeline.synced => t.range = timeline.range)
    BY <1>1, InvFacts, CachePainted
  <1>3. live \in BOOLEAN
    BY InvFacts
  <1>4. c = Started(b, live, b.pending, ReadCursor(t, k))
    BY <1>2 DEF CacheLoaded
  <1> HIDE DEF live, t, k, b, c
  <1>5. MovesIn(b, c, Jobs(t, k, store, stream, down), Pendings(t, k, store, stream, down))
    BY <1>2, <1>3, <1>4, StartKeeps
  <1>6. timeline' = InitializedBy(t, b.fetches, c.fetches) /\ asked' = asked \o SentBy(c)
    BY <1>1, <1>2
  <1>7. /\ ClientInv(timeline', k, Settled(c), asked', stored, store, stream, down)
        /\ timeline'.synced = t.synced /\ timeline'.range = t.range
    <2> DEFINE v == InitializedBy(t, b.fetches, c.fetches)
    <2>1. /\ ClientInv(v, k, Settled(c), asked \o SentBy(c), stored, store, stream, down)
          /\ v.synced = t.synced /\ v.range = t.range
      BY ONLY <1>2, <1>5, MovesStep
    <2> HIDE DEF v
    <2>2. timeline' = v
      BY <1>6 DEF v
    <2> QED
      BY ONLY <1>6, <2>1, <2>2
  <1>8. Further(timeline, timeline')
    BY <1>2, <1>7, InvFacts, NotMoved
  <1> QED
    BY <1>1, <1>7, <1>8, InvFacts DEF Inv

\* Those of catch-up e who waited for a page go on and make g of it; the others F wait on.
GoneOn(e, F, g, J) ==
  \E page, range :
    \E W \in SUBSET { f \in e.fetches : f.request = page.request } :
      /\ F = e.fetches \ W
      /\ g = Continued([e EXCEPT !.fetches = F], W, page, range)
      /\ \A f \in J : f.request = page.request => GoesOnIn(f, page, J)

\* Whoever waited for the answer goes on.
LEMMA WaitingGoOn ==
  ASSUME NEW t, NEW k, NEW c, NEW A, NEW span, NEW st, NEW s, NEW d,
         ClientInv(t, k, c, A, span, st, s, d), NEW e,
         MovesIn(c, e, Jobs(t, k, st, s, d), Pendings(t, k, st, s, d)), Live \in BOOLEAN,
         NEW F, NEW g, GoneOn(e, F, g, Jobs(t, k, st, s, d))
  PROVE  /\ ClientInv(InitializedBy(t, F, g.fetches), k, Settled(g), A \o SentBy(g), span, st, s, d)
         /\ InitializedBy(t, F, g.fetches).synced = t.synced
         /\ InitializedBy(t, F, g.fetches).range = t.range
  <1> DEFINE J == Jobs(t, k, st, s, d)
             P == Pendings(t, k, st, s, d)
             i == [e EXCEPT !.fetches = F]
  <1>1. CatchUpIn(e, J, P) /\ (e.cache = "yes" <=> c.cache = "yes")
    BY DEF MovesIn
  <1>2. /\ e \in CatchUps /\ OneOwner(e.fetches) /\ e.fetches \in SUBSET J /\ e.pending \in P
        /\ SentIn(e.sent, J)
    BY <1>1 DEF CatchUpIn
  <1>10. PICK page, range : \E V \in SUBSET { f \in e.fetches : f.request = page.request } :
           /\ F = e.fetches \ V
           /\ g = Continued(i, V, page, range)
           /\ \A f \in J : f.request = page.request => GoesOnIn(f, page, J)
    BY DEF GoneOn
  <1>11. PICK W \in SUBSET { f \in e.fetches : f.request = page.request } :
           /\ F = e.fetches \ W
           /\ g = Continued(i, W, page, range)
           /\ \A f \in J : f.request = page.request => GoesOnIn(f, page, J)
    BY <1>10
  <1>0. /\ W \in SUBSET e.fetches /\ \A f \in W : f.request = page.request
        /\ F = e.fetches \ W
        /\ g = Continued(i, W, page, range)
        /\ \A f \in J : f.request = page.request => GoesOnIn(f, page, J)
    BY <1>11
  <1>3. W \subseteq J /\ F \subseteq J /\ F \intersect W = {} /\ OneOwner(F \union W) /\ OneOwner(F)
        /\ F \subseteq Fetches
    BY <1>0, <1>2 DEF OneOwner, CatchUps
  <1>4. /\ i \in CatchUps /\ i.fetches = F /\ i.pending = e.pending /\ i.cache = e.cache
        /\ i.sent = e.sent
    BY <1>2, <1>3 DEF CatchUps
  <1>5. CatchUpIn(i, J, P)
    BY <1>2, <1>3, <1>4 DEF CatchUpIn
  <1>6. \A f \in W : GoesOnIn(f, page, J)
    BY <1>0, <1>3
  <1>7. Allowed(J, P)
    BY JobsAllowed
  <1>8. MovesIn(i, g, J, P)
    <2>1. g = Continued(i, W, page, range)
      BY <1>0
    <2> HIDE DEF J, P
    <2> HIDE DEF i
    <2>2. /\ CatchUpIn(i, J, P) /\ Allowed(J, P) /\ Live \in BOOLEAN
          /\ i.fetches \intersect W = {} /\ OneOwner(i.fetches \union W)
          /\ \A f \in W : GoesOnIn(f, page, J)
      BY <1>3, <1>4, <1>5, <1>6, <1>7
    <2>3. MovesIn(i, Continued(i, W, page, range), J, P)
      BY ONLY <2>2, ContinuedIn
    <2> QED
      BY <2>1, <2>3
  <1>9. MovesIn(c, g, J, P)
    BY <1>1, <1>4, <1>8 DEF MovesIn
  <1> QED
    BY <1>9, CatchUpMoves DEF SameFor

\* An answer arrives: the queued rows, the page and its recovery are applied, and whoever
\* waited for it goes on.
LEMMA ReceivePageStep ==
  ASSUME Inv, ReceivePage
  PROVE  Inv' /\ Further(timeline, timeline')
  <1> DEFINE d == Tail(down)
             sent == Head(down).page
             forcing == forced /\ sent.dir = "tail"
             page == [sent EXCEPT !.reset = sent.reset \/ forcing]
             t1 == Flushed.timeline
             k1 == CachedAfter(t1, cached)
             recoveries == Flushed.recoveries
             span1 == ReadCursor(t1, k1)
             c1 == FlushedCatchUp(span1)
             t2 == PageApplied(t1, k1, page)
             k2 == CachedAfter(t2, k1)
             span2 == ReadCursor(t2, k1)
             span == ReadCursor(t2, k2)
             q == PageRecovery(t1, k1, page)
             c2 == Recovered(c1, q, span2)
             W == { f \in c2.fetches : Head(down).waited /\ f.request = sent.request }
             F == c2.fetches \ W
             c3 == Continued([c2 EXCEPT !.fetches = F], W, sent, span)
             J == Jobs(t2, k2, store, <<>>, d)
             P == Pendings(t2, k2, store, <<>>, d)
             B == asked \o SentBy(c3)
             u == InitializedBy(t2, F, c3.fetches)
             force == IF \E f \in W : f.kind = "latest" THEN FALSE
                      ELSE (forced /\ ~forcing) \/ ForcedBy(F, c3.fetches)
  <1>1. /\ down # <<>> /\ Head(down).type = "page" /\ down' = d /\ stream' = <<>>
        /\ store' = store /\ stored' = stored
        /\ subscribed' = subscribed /\ connected' = connected /\ subscription' = subscription
    BY DEF ReceivePage, server
  <1>2. /\ catchUp' = Settled(c3) /\ asked' = B /\ timeline' = u
        /\ cached' = (IF page.error THEN k1 ELSE k2)
        /\ forced' = force
    BY DEF ReceivePage
  <1>3. forcing \in BOOLEAN /\ (forcing => sent.dir = "tail")
    BY InvFacts DEF Flags
  <1>4. force \in BOOLEAN
    BY InvFacts DEF Flags, ForcedBy
  <1>5. /\ ClientInv(t1, k1, catchUp, asked, stored, store, <<>>, down)
        /\ recoveries \in Seq(Pendings(t1, k1, store, <<>>, down))
        /\ t1.synced = timeline.synced /\ UpTo(EndOf(timeline.range), EndOf(t1.range))
    BY InvFacts, Drained DEF Flushed
  <1>6. page = [sent EXCEPT !.reset = sent.reset \/ forcing] /\ sent = Head(down).page
        /\ t2 = PageApplied(t1, k1, page) /\ k2 = CachedAfter(t2, k1) /\ q = PageRecovery(t1, k1, page)
    OBVIOUS
  <1>7. page.error => k2 = k1
    <2> HAVE page.error
    <2>1. t1 \in Timelines
      BY <1>5 DEF ClientInv, ClientOK
    <2>2. t2.synced = t1.synced
      <3> HIDE DEF t1, k1, page
      <3>1. t2 = [t1 EXCEPT !.init = "none"]
        BY DEF PageApplied
      <3> QED
        BY <2>1, <3>1 DEF Timelines
    <2> HIDE DEF t1, t2
    <2> QED
      BY <2>2 DEF CachedAfter
  <1>8. cached' = k2
    BY <1>2, <1>7
  <1> HIDE DEF d, sent, forcing, page, t1, k1, t2, k2, q, force
  <1>9. /\ ClientInv(t2, k2, catchUp, asked, stored, store, <<>>, d)
        /\ Pendings(t1, k1, store, <<>>, down) \subseteq P
        /\ q \in P
        /\ \A f \in J : f.request = sent.request => GoesOnIn(f, sent, J)
        /\ t1.synced => t2.synced
        /\ t1.synced /\ t2.range # NoSpan => UpTo(EndOf(t1.range), EndOf(t2.range))
    BY ONLY <1>1, <1>3, <1>5, <1>6, PageKeeps DEF d
  <1>10. Allowed(J, P) /\ CatchUpIn(catchUp, J, P) /\ Live \in BOOLEAN
    BY <1>9, InvFacts, JobsAllowed DEF ClientInv
  <1> HIDE DEF span1, span2, span
  <1>11. MovesIn(catchUp, c1, J, P)
    <2>1. recoveries \in Seq(P)
      BY ONLY <1>5, <1>9, SeqMonotonic
    <2>2. MovesIn(catchUp, FlushedCatchUp(span1), J, P)
      BY ONLY <1>10, <2>1, FlushedIn
    <2> QED
      BY <2>2
  <1> HIDE DEF c1
  <1>12. MovesIn(catchUp, c2, J, P)
    <2>1. CatchUpIn(c1, J, P)
      BY <1>11 DEF MovesIn
    <2>2. q \in P
      BY <1>9
    <2> HIDE DEF J, P
    <2>3. MovesIn(c1, Recovered(c1, q, span2), J, P)
      BY ONLY <1>10, <2>1, <2>2, RecoveredIn
    <2>4. MovesIn(c1, c2, J, P)
      BY <2>3
    <2> HIDE DEF c2
    <2> QED
      BY <1>11, <2>4, MovesOn
  <1> HIDE DEF c2
  <1>13. ClientInv(u, k2, Settled(c3), B, stored, store, <<>>, d) /\ u.synced = t2.synced /\ u.range = t2.range
    <2>1. GoneOn(c2, F, c3, J)
      <3>1. W \in SUBSET { f \in c2.fetches : f.request = sent.request }
        OBVIOUS
      <3> HIDE DEF W
      <3> QED
        BY <1>9, <3>1 DEF GoneOn
    <2>2. B = asked \o SentBy(c3)
          /\ u = InitializedBy(t2, F, c3.fetches)
      OBVIOUS
    <2> HIDE DEF W, F, c3, B, u
    <2> DEFINE s == <<>>
    <2> HIDE DEF s
    <2>3. /\ ClientInv(t2, k2, catchUp, asked, stored, store, s, d)
          /\ MovesIn(catchUp, c2, Jobs(t2, k2, store, s, d), Pendings(t2, k2, store, s, d))
          /\ GoneOn(c2, F, c3, Jobs(t2, k2, store, s, d))
      BY <1>9, <1>12, <2>1 DEF s
    <2>4. Live \in BOOLEAN
      BY <1>10
    <2>5. /\ ClientInv(InitializedBy(t2, F, c3.fetches), k2, Settled(c3), asked \o SentBy(c3),
                       stored, store, s, d)
          /\ InitializedBy(t2, F, c3.fetches).synced = t2.synced
          /\ InitializedBy(t2, F, c3.fetches).range = t2.range
      BY ONLY <2>3, <2>4, WaitingGoOn
    <2> QED
      BY <2>2, <2>5 DEF s
  <1> HIDE DEF W, F, c3, B, u
  <1>14. Further(timeline, u)
    <2>1. timeline.range \in Spans /\ t1.range \in Spans /\ t2.range \in Spans
      BY <1>5, <1>9, InvFacts DEF ClientInv, ClientOK, Timelines
    <2>2. EndOf(timeline.range) \in Points /\ EndOf(t1.range) \in Points /\ EndOf(t2.range) \in Points
      BY <2>1, PointTypes
    <2>3. timeline.synced /\ t2.range # NoSpan => UpTo(EndOf(timeline.range), EndOf(t2.range))
      BY <1>5, <1>9, <2>2, OrderOfRows
    <2> QED
      BY <1>13, <2>3 DEF Further
  <1>15. Flags(subscribed, connected, subscription, force)
    BY <1>4, InvFacts DEF Flags
  <1> QED
    BY <1>1, <1>2, <1>8, <1>13, <1>14, <1>15 DEF Inv

\* Every step.
LEMMA NextStep ==
  ASSUME Inv, Next
  PROVE  Inv' /\ Further(timeline, timeline')
  <1>1. CASE Append1 BY <1>1, Append1Step
  <1>2. CASE Replace BY <1>2, ReplaceStep
  <1>3. CASE HandleSubscribe BY <1>3, HandleSubscribeStep
  <1>4. CASE HandleFetch BY <1>4, HandleFetchStep
  <1>5. CASE Disconnect BY <1>5, DisconnectStep
  <1>6. CASE SubscriptionFails BY <1>6, SubscriptionFailsStep
  <1>7. CASE ReceiveEvent BY <1>7, ReceiveEventStep
  <1>8. CASE ReceiveAck BY <1>8, ReceiveAckStep
  <1>9. CASE ReceiveNotice BY <1>9, ReceiveNoticeStep
  <1>10. CASE ReceivePage BY <1>10, ReceivePageStep
  <1>11. CASE Connect \/ RetrySubscription BY <1>11, ConnectStep
  <1>12. CASE Flush BY <1>12, FlushStep
  <1>13. CASE Retry BY <1>13, RetryStep
  <1>14. CASE LoadCache BY <1>14, LoadCacheStep
  <1>15. CASE FetchTimesOut BY <1>15, FetchTimesOutStep
  <1> QED
    BY <1>1, <1>2, <1>3, <1>4, <1>5, <1>6, <1>7, <1>8, <1>9, <1>10, <1>11, <1>12, <1>13, <1>14,
       <1>15
       DEF Next, DaemonAnswers, Receive, ClientContinues

\* A step of somebody else.
LEMMA StutterStep ==
  ASSUME Inv, UNCHANGED vars
  PROVE  Inv' /\ Further(timeline, timeline')
  <1>1. /\ timeline' = timeline /\ cached' = cached /\ catchUp' = catchUp /\ store' = store
        /\ stored' = stored /\ stream' = stream /\ down' = down /\ asked' = asked
        /\ subscribed' = subscribed /\ connected' = connected /\ subscription' = subscription
        /\ forced' = forced
    BY DEF vars, client
  <1> QED
    BY <1>1, InvFacts DEF Inv

\* The history of the notices' tails is kept by every step.
LEMMA LapsedKept ==
  ASSUME lapsed \in BOOLEAN, [Next]_vars
  PROVE  lapsed' \in BOOLEAN
  BY DEF Next, DaemonAnswers, Receive, ClientContinues, vars, Append1, Replace, HandleSubscribe,
         HandleFetch, Connect, Disconnect, SubscriptionFails, FetchTimesOut, RetrySubscription,
         ReceiveEvent, Flush, ReceiveAck, ReceiveNotice, ReceivePage, Retry, StartedAgain, LoadCache

\* What the runs check follows from the invariant.
LEMMA InvImplies == Inv /\ lapsed \in BOOLEAN => TypeOK /\ NoHole
  <1> SUFFICES ASSUME Inv, lapsed \in BOOLEAN PROVE TypeOK /\ NoHole
    OBVIOUS
  <1>1. /\ Flags(subscribed, connected, subscription, forced) /\ store \in Stores
        /\ timeline \in Timelines /\ cached \in Spans /\ stored \in Spans
        /\ catchUp \in CatchUps /\ OneOwner(catchUp.fetches) /\ Held(timeline)
    BY DEF Inv, ClientInv, Wire, ClientOK, CacheOK, CatchUpIn
  <1>2. TypeOK
    BY <1>1 DEF TypeOK, Flags, Stores, Timelines, Rows, CatchUps, OneOwner
  <1>3. NoHole
    <2> DEFINE range == timeline.range
               seqs == { r.seq : r \in { x \in timeline.rows : x.epoch = range.epoch } }
    <2> SUFFICES ASSUME timeline.synced, range # NoSpan
                 PROVE  range.from..range.to \subseteq seqs /\ \A n \in seqs : n <= range.to
      BY DEF NoHole
    <2>1. ASSUME NEW n \in range.from..range.to PROVE n \in seqs
      <3>1. Row(range.epoch, n) \in timeline.rows
        BY <1>1 DEF Held
      <3>2. Row(range.epoch, n).epoch = range.epoch /\ Row(range.epoch, n).seq = n
        BY DEF Row
      <3> QED
        BY <3>1, <3>2
    <2>2. ASSUME NEW n \in seqs PROVE n <= range.to
      BY <1>1 DEF Held
    <2> QED
      BY <2>1, <2>2
  <1> QED
    BY <1>2, <1>3

\* Whatever the daemon appends, replaces and answers, whatever the connection loses and in
\* whatever order the client's handlers run: rows and answers arrive in the order they left,
\* and the client asks only for what follows a row it knows.
THEOREM TimelineInvariant == Spec => []Inv
  <1>1. Inv /\ [Next]_vars => Inv'
    BY NextStep, StutterStep
  <1> QED
    BY <1>1, InitInv, PTL DEF Spec

\* The history is a Boolean.
LEMMA LapsedTypes == Spec => [](lapsed \in BOOLEAN)
  <1> DEFINE L == lapsed \in BOOLEAN
  <1>1. Init => L
    BY DEF Init
  <1>2. L /\ [Next]_vars => L'
    BY LapsedKept
  <1>3. Spec => []L
    <2> HIDE DEF L
    <2> QED
      BY <1>1, <1>2, PTL DEF Spec
  <1> QED
    BY <1>3

\* The store, the wire, the catch-up and the client's timeline keep their types.
THEOREM TimelineTypes == Spec => []TypeOK
  BY TimelineInvariant, LapsedTypes, InvImplies, PTL

\* No page that processTimelineResponse applies and no batch that flushAgent applies leaves
\* a hole in a synced timeline or a row behind its end, live rows overtaking pages included.
THEOREM NoHoleHeld == Spec => []NoHole
  BY TimelineInvariant, LapsedTypes, InvImplies, PTL

\* applyAuthoritativeTimelineResponse never takes the end of a synced timeline back within
\* an epoch: a late answer, to a fetch that no longer owns the catch-up too, is dropped or extends.
THEOREM EndKept == Spec => EndNeverRetreats
  <1> DEFINE Kept == (timeline.synced /\ timeline'.synced /\ timeline.range.epoch = timeline'.range.epoch)
                     => timeline'.range.to >= timeline.range.to
  <1>1. Inv /\ Inv' /\ [Next]_vars => [Kept]_vars
    <2> SUFFICES ASSUME Inv, Inv', [Next]_vars, timeline.synced, timeline'.synced,
                        timeline.range.epoch = timeline'.range.epoch
                 PROVE  timeline'.range.to >= timeline.range.to
      OBVIOUS
    <2>1. Further(timeline, timeline')
      BY NextStep, StutterStep
    <2>2. /\ timeline.range \in Spans /\ RangeOK(timeline.range)
          /\ timeline'.range \in Spans /\ RangeOK(timeline'.range)
      BY DEF Inv, ClientInv, ClientOK, Timelines
    <2>3. /\ timeline.range.to \in Nat /\ timeline'.range.to \in Nat /\ timeline.range.epoch \in Nat
      BY <2>2, Bounds DEF Spans
    <2>4. CASE timeline'.range # NoSpan
      BY <2>1, <2>3, <2>4 DEF Further, UpTo, EndOf, Row
    <2>5. CASE timeline'.range = NoSpan
      <3>1. timeline.range = NoSpan
        BY <2>2, <2>5, Bounds, SpanTypes
      <3> QED
        BY <2>3, <2>5, <3>1
    <2> QED
      BY <2>4, <2>5
  <1>2. Spec => [][Next]_vars
    BY DEF Spec
  <1> QED
    BY <1>1, <1>2, TimelineInvariant, PTL DEF EndNeverRetreats

=============================================================================
