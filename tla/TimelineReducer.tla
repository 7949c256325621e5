--------------------------- MODULE TimelineReducer ---------------------------
(***************************************************************************)
(* The daemon's timeline of one agent (agent-timeline-store.ts) and what   *)
(* the client makes of the pages and events it is sent                     *)
(* (session-stream-reducers.ts, and the commits in viewed-timeline-sync.ts *)
(* and session-store.ts).  A row is named by its epoch and sequence        *)
(* number; its content and the merging of rows into display items are left *)
(* out.                                                                    *)
(***************************************************************************)
EXTENDS CatchUp

CONSTANT PageLimit          \* TIMELINE_FETCH_PAGE_SIZE
ASSUME PageLimitAssumption == PageLimit \in Nat \ {0}

Row(epoch, seq) == [epoch |-> epoch, seq |-> seq]
RowsOf(epoch, from, to) == IF from = 0 THEN {} ELSE { Row(epoch, s) : s \in from..to }

-----------------------------------------------------------------------------
(* The store: an epoch and its rows 1..last.                               *)
Store(epoch, last) == [epoch |-> epoch, last |-> last]

Page(request, store, reset, from, to) ==
  [request |-> request, dir |-> request.dir, epoch |-> store.epoch, reset |-> reset,
   from |-> IF from > to THEN 0 ELSE from, to |-> IF from > to THEN 0 ELSE to,
   max |-> store.last, hasNewer |-> ~reset /\ request.dir = "after" /\ from <= to /\ to < store.last,
   error |-> FALSE]

ErrorPage(request) ==
  [Page(request, Store(0, 0), FALSE, 1, 0) EXCEPT !.error = TRUE]

TailStart(store) == IF PageLimit >= store.last THEN 1 ELSE store.last - PageLimit + 1
PageEnd(store, from) == IF from + PageLimit - 1 < store.last THEN from + PageLimit - 1 ELSE store.last

(* InMemoryAgentTimelineStore.fetch: a cursor of another epoch is answered *)
(* with the tail, marked as a reset.                                       *)
PageAnswered(store, request) ==
  IF request.dir = "tail"
  THEN Page(request, store, FALSE, TailStart(store), store.last)
  ELSE IF request.epoch # store.epoch
  THEN Page(request, store, TRUE, TailStart(store), store.last)
  ELSE Page(request, store, FALSE, request.seq + 1, PageEnd(store, request.seq + 1))

-----------------------------------------------------------------------------
(* The client's timeline: "synced" is agentAuthoritativeHistoryApplied,    *)
(* "init" the direction an unfinished initialisation asked for.            *)
NewTimeline ==
  [synced |-> FALSE, range |-> NoSpan, newer |-> FALSE, rows |-> {}, init |-> "none"]

(* prepareCachedTimeline: the stored rows are painted, the live rows after *)
(* them stay.                                                              *)
Painted(t, stored) ==
  IF t.synced \/ stored = NoSpan THEN t
  ELSE [t EXCEPT !.range = stored, !.newer = FALSE,
                 !.rows = RowsOf(stored.epoch, stored.from, stored.to) \union
                          { r \in @ : r.epoch = stored.epoch /\ r.seq > stored.to }]

(* fetchPage of session-context.tsx: a fetch for a timeline that is not    *)
(* synced opens an initialisation unless one is open.                      *)
Initializing(t, request) ==
  IF ~t.synced /\ t.init = "none" THEN [t EXCEPT !.init = request.dir] ELSE t

(* The range the page is compared with: what is held if it is              *)
(* authoritative, else the range of the local cache.                       *)
CurrentRange(t, cached) == IF t.synced THEN t.range ELSE cached

BootstrapReplace(t, page) == ~page.reset /\ page.dir = "tail" /\ t.init # "none"

(* deriveResumeTailPolicy.                                                 *)
ResumePolicy(t, cur, page) ==
  CASE page.dir # "tail" \/ page.reset \/ BootstrapReplace(t, page) \/ cur = NoSpan -> "not_resume"
    [] OTHER -> IF cur.epoch # page.epoch THEN "replace"
                ELSE IF page.max = cur.to THEN "discard"
                ELSE IF page.max > cur.to /\ page.from <= cur.to + 1 THEN "append"
                ELSE IF page.max > cur.to THEN "replace_continuing"
                ELSE "replace"

(* applyTimelineReplacePath: the page is all there is, plus, where         *)
(* continuity is kept, the live rows after it.                             *)
ReplacedBy(t, page, continuing) ==
  [t EXCEPT !.range = IF page.from = 0 THEN NoSpan ELSE Span(page.epoch, page.from, page.to),
            !.rows = RowsOf(page.epoch, page.from, page.to) \union
                     (IF continuing THEN { r \in @ : r.epoch = page.epoch /\ r.seq > page.to } ELSE {})]

(* acceptIncrementalTimelineUnits and the rows it lets through.            *)
PageGap(cur, page) ==
  /\ page.from # 0
  /\ cur # NoSpan /\ cur.epoch = page.epoch
  /\ page.from > cur.to + 1

\* Mutant of Extended: a late page sets the end of the range.
ExtendedByAny(t, cur, page) ==
  IF page.from = 0 THEN [t EXCEPT !.range = cur]
  ELSE IF cur = NoSpan
  THEN [t EXCEPT !.range = Span(page.epoch, page.from, page.to),
                 !.rows = @ \union RowsOf(page.epoch, page.from, page.to)]
  ELSE IF cur.epoch = page.epoch /\ page.from <= cur.to + 1
  THEN [t EXCEPT !.range = [cur EXCEPT !.to = page.to],
                 !.rows = @ \union RowsOf(page.epoch, page.from, page.to)]
  ELSE [t EXCEPT !.range = cur]

Extended(t, cur, page) ==
  IF page.from = 0 THEN [t EXCEPT !.range = cur]
  ELSE IF cur = NoSpan
  THEN [t EXCEPT !.range = Span(page.epoch, page.from, page.to),
                 !.rows = @ \union RowsOf(page.epoch, page.from, page.to)]
  ELSE IF cur.epoch = page.epoch /\ page.to > cur.to /\ page.from <= cur.to + 1
  THEN [t EXCEPT !.range = [cur EXCEPT !.to = page.to],
                 !.rows = @ \union RowsOf(page.epoch, page.from, page.to)]
  ELSE [t EXCEPT !.range = cur]

(* shouldResolveTimelineInit.                                              *)
InitAfter(t, page) ==
  IF page.reset \/ (page.dir = t.init /\ ~page.hasNewer) THEN "none" ELSE t.init

(* commitProcessedTimeline.                                                *)
Committed(t, placed, page) ==
  [placed EXCEPT !.newer = page.hasNewer, !.init = InitAfter(t, page),
                 !.synced = @ \/ page.dir = "tail" \/ ~page.hasNewer]

(* processTimelineResponse.  A discarded page sets "newer" but leaves an   *)
(* unsynced timeline unsynced.                                             *)
PageApplied(t, cached, page) ==
  LET cur == CurrentRange(t, cached)
      policy == ResumePolicy(t, cur, page)
      continuing == policy = "replace_continuing"
                    \/ (policy = "not_resume" /\ (cur.epoch = page.epoch \/ ~page.reset))
      placed == IF page.reset \/ BootstrapReplace(t, page)
                   \/ policy \in {"replace", "replace_continuing"}
                THEN ReplacedBy(t, page, continuing)
                ELSE Extended(t, cur, page)
  IN IF page.error THEN [t EXCEPT !.init = "none"]
     ELSE IF policy = "discard"
     THEN [t EXCEPT !.newer = page.hasNewer, !.init = InitAfter(t, page)]
     ELSE Committed(t, placed, page)

(* The catch_up side effect of a page: of the bootstrap replacement, from  *)
(* the page's end; of a page past the end of the range, from that end.     *)
PageRecovery(t, cached, page) ==
  LET cur == CurrentRange(t, cached)
      policy == ResumePolicy(t, cur, page)
  IN CASE page.error -> NoRequest
       [] ~page.error /\ BootstrapReplace(t, page) ->
            IF page.from = 0 THEN NoRequest ELSE CatchUpAfter(page.epoch, page.to)
       [] ~page.error /\ ~page.reset /\ policy = "not_resume" /\ ~BootstrapReplace(t, page)
            /\ PageGap(cur, page) -> CatchUpAfter(cur.epoch, cur.to)
       [] OTHER -> NoRequest

-----------------------------------------------------------------------------
(* processTimelineSequencingGate and processAgentStreamEvent, for a live   *)
(* row while the timeline is not detached from its end.                    *)
EventGap(t, row) == t.synced /\ t.range # NoSpan /\ t.range.epoch = row.epoch /\ row.seq > t.range.to + 1

\* Mutant of EventApplied: any later row of the epoch is accepted.
EventAppliedOverGap(t, row) ==
  IF ~t.synced THEN [t EXCEPT !.rows = @ \union {row}]
  ELSE IF t.range = NoSpan
  THEN [t EXCEPT !.range = Span(row.epoch, row.seq, row.seq), !.rows = @ \union {row}]
  ELSE IF t.range.epoch = row.epoch /\ row.seq > t.range.to
  THEN [t EXCEPT !.range.to = row.seq, !.rows = @ \union {row}]
  ELSE IF t.range.epoch # row.epoch /\ row.seq = 1
  THEN [t EXCEPT !.range = Span(row.epoch, 1, 1), !.rows = {row}]
  ELSE t

EventApplied(t, row) ==
  IF ~t.synced THEN [t EXCEPT !.rows = @ \union {row}]
  ELSE IF t.range = NoSpan
  THEN [t EXCEPT !.range = Span(row.epoch, row.seq, row.seq), !.rows = @ \union {row}]
  ELSE IF t.range.epoch = row.epoch /\ row.seq = t.range.to + 1
  THEN [t EXCEPT !.range.to = row.seq, !.rows = @ \union {row}]
  ELSE IF t.range.epoch # row.epoch /\ row.seq = 1
  THEN [t EXCEPT !.range = Span(row.epoch, 1, 1), !.rows = {row}]
  ELSE t

(* processAgentStreamEvents over a batch: the timeline and the catch_up    *)
(* requests, in order.                                                     *)
BatchStep(acc, row) ==
  [timeline |-> EventApplied(acc.timeline, row),
   recoveries |-> IF EventGap(acc.timeline, row)
                  THEN Append(acc.recoveries, CatchUpAfter(acc.timeline.range.epoch, acc.timeline.range.to))
                  ELSE acc.recoveries]

BatchApplied(t, batch) ==
  IF t.synced /\ t.newer THEN [timeline |-> t, recoveries |-> <<>>]
  ELSE LET after[i \in 0..Len(batch)] ==
             IF i = 0 THEN [timeline |-> t, recoveries |-> <<>>]
             ELSE BatchStep(after[i - 1], batch[i])
       IN after[Len(batch)]
=============================================================================
