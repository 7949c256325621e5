------------------------------- MODULE CatchUp -------------------------------
(***************************************************************************)
(* The catch-up of one viewed agent, as the client keeps it in             *)
(* viewed-timeline-sync.ts: the entry of the maps catchUps,                *)
(* catchUpGenerations, pendingCatchUps, loadedCache/cacheLoads and         *)
(* visibilityCatchUp* for that agent, with the asynchronous fetches that   *)
(* work for it.  Generations are only ever compared for equality with the  *)
(* entry's, so a fetch carries "owner": its generation is the entry's.     *)
(***************************************************************************)
EXTENDS Integers, Sequences

Request(dir, epoch, seq) == [dir |-> dir, epoch |-> epoch, seq |-> seq]
NoRequest == Request("none", 0, 0)
TailFetch == Request("tail", 0, 0)
CatchUpAfter(epoch, seq) == Request("after", epoch, seq)

(* A span <<epoch, from, to>> of timeline rows, NoSpan for none.         *)
Span(epoch, from, to) == [epoch |-> epoch, from |-> from, to |-> to]
NoSpan == Span(0, 0, 0)

(* planTimelineResumeFetch: after the range that is held, else the tail.   *)
ResumeFetch(range) ==
  IF range = NoSpan THEN TailFetch ELSE CatchUpAfter(range.epoch, range.to)

(* A fetch in flight: a "page" of fetchUntilCurrent, its fallback to the   *)
(* "latest" tail, or the tail asked for by a replacement "notice".         *)
Fetch(kind, request, owner, fallback) ==
  [kind |-> kind, request |-> request, owner |-> owner, fallback |-> fallback]

NewCatchUp ==
  [status |-> "none", request |-> NoRequest, fetches |-> {}, pending |-> NoRequest,
   cache |-> "no", shown |-> "pending", sent |-> <<>>]

(* A fetch begins.  A request somebody waits for already is not sent again *)
(* (fetchAgentTimelineOnce); "sent" lists what one step sends, in order.   *)
Launched(c, f) ==
  [c EXCEPT !.fetches = @ \union {f},
            !.sent = IF \E g \in c.fetches : g.request = f.request THEN @ ELSE Append(@, f.request)]

\* Mutant of Disowned: a new catch-up keeps the generation of the old one.
DisownedNot(fetches) == fetches

(* No fetch in flight works for the entry any more.                        *)
Disowned(fetches) == { [f EXCEPT !.owner = FALSE] : f \in fetches }

(* decideCatchUp.                                                          *)
Decision(c, request, supersede) ==
  CASE c.status = "none" -> "replace"
    [] c.status # "none" /\ ~supersede ->
         IF c.status \in {"running", "complete"} THEN "keep" ELSE "replace"
    [] c.status # "none" /\ supersede ->
         IF c.status = "running" /\ c.request = request THEN "keep"
         ELSE IF c.status = "running" /\ c.request.dir = "tail" THEN "park"
         ELSE "replace"

(* startCatchUp: "live" is connected, desired and acknowledged; "range" is *)
(* what readCursor answers.  Superseding is what a given request does.     *)
Started(c, live, request, range) ==
  LET supersede == request # NoRequest
      next == IF supersede THEN request ELSE ResumeFetch(range)
      decision == Decision(c, next, supersede)
  IN IF ~live \/ c.cache # "yes"
     THEN [c EXCEPT !.pending = IF supersede THEN request ELSE @,
                    !.cache = IF live /\ @ = "no" THEN "loading" ELSE @]
     ELSE IF decision = "keep" THEN c
     ELSE IF decision = "park" THEN [c EXCEPT !.pending = next]
     ELSE Launched([c EXCEPT !.status = "running", !.request = next, !.pending = NoRequest,
                             !.fetches = Disowned(@)],
                   Fetch("page", next, TRUE, ~supersede /\ next.dir = "after"))

(* cancelCatchUp.                                                          *)
Cancelled(c) ==
  [c EXCEPT !.status = "none", !.request = NoRequest, !.pending = NoRequest,
            !.fetches = Disowned(@)]

(* ensureCacheLoaded and the end of the load it starts.                    *)
CacheWanted(c) == [c EXCEPT !.cache = IF @ = "no" THEN "loading" ELSE @]
CacheLoaded(c, live, range) == Started([c EXCEPT !.cache = "yes"], live, c.pending, range)

(* The catch branch of fetchUntilCurrent: a retry is scheduled (it is due  *)
(* for as long as the status is "error").                                  *)
Failed(c, f) ==
  IF f.owner
  THEN [c EXCEPT !.status = "error", !.shown = "error", !.fetches = Disowned(@),
                 !.request = IF f.kind = "page" THEN f.request ELSE @]
  ELSE c

(* catchUps.set(agentId, {generation, status: "complete"}).                *)
Completed(c) ==
  [c EXCEPT !.status = "complete", !.request = NoRequest, !.fetches = Disowned(@)]

(* fetchUntilCurrent, resumed with a page that was answered.  A fetch of   *)
(* the latest tail completes the entry without asking whether it still     *)
(* owns it; a page does ask.                                               *)
\* Mutant of Resumed: the first page completes the catch-up.
ResumedOnce(c, f, live, page, range) ==
  IF f.kind = "latest" \/ (f.kind = "page" /\ live /\ f.owner)
  THEN [Completed(c) EXCEPT !.shown = "ready"] ELSE c

Resumed(c, f, live, page, range) ==
  CASE f.kind = "latest" -> [Completed(c) EXCEPT !.shown = "ready"]
    [] f.kind = "page" /\ live /\ f.owner /\ page.hasNewer ->
         LET next == IF f.fallback THEN Fetch("latest", TailFetch, TRUE, FALSE)
                     ELSE Fetch("page", CatchUpAfter(page.epoch, page.to), TRUE, FALSE)
         IN Launched(c, next)
    [] f.kind = "page" /\ live /\ f.owner /\ ~page.hasNewer ->
         IF c.pending # NoRequest
         THEN Started(Completed(c), live, c.pending, range)
         ELSE [Completed(c) EXCEPT !.shown = "ready"]
    [] OTHER -> c

\* Mutant of RetryDue: no timer is set for a failed catch-up.
RetryDueNever(c) == FALSE

RetryDue(c) == c.status = "error"
=============================================================================
