----------------------- MODULE TimelineCompleteProofs -----------------------
(***************************************************************************)
(* A catch-up that is complete has missed nothing, for any page size,      *)
(* number of rows, epochs and faults, unless the tail of a replacement     *)
(* notice has failed with nobody to try it again (lapsed), which lasts     *)
(* until the connection is lost.  The argument is about the line of        *)
(* answers on their way to the client and requests on their way to the     *)
(* daemon, which the daemon keeps in the order of the requests (Line).     *)
(* Behind an answer that whoever owns the catch-up waits for nothing can   *)
(* detach a timeline that has caught up (PairOK), so that it stays caught  *)
(* up after it is called complete; and the rows behind a page lead from    *)
(* its end to the store's (PageLeads), so that it is caught up then.       *)
(***************************************************************************)
EXTENDS TimelineSyncProofs

-----------------------------------------------------------------------------
(* The line: what an answer or a request that is still to be answered can  *)
(* do.  One that "extends" the timeline may leave it detached from its     *)
(* end: a page after a row, which the daemon does not answer with a reset. *)

Entry(request, waited, failed, extends) ==
  [request |-> request, waited |-> waited, failed |-> failed, extends |-> extends]
Entries == [request : Requests \union {NoRequest}, waited : BOOLEAN, failed : BOOLEAN, extends : BOOLEAN]
Nothing == Entry(NoRequest, FALSE, FALSE, FALSE)

Extends(page) == page.request.dir = "after" /\ ~page.reset /\ ~page.error
OfMessage(m) ==
  IF m.type = "page" THEN Entry(m.page.request, m.waited, m.page.error, Extends(m.page)) ELSE Nothing
OfAsk(a, epoch) ==
  IF a.request = Subscribe THEN Nothing
  ELSE Entry(a.request, a.waited, FALSE, a.request.dir = "after" /\ a.request.epoch = epoch)
Line(d, A, epoch) ==
  [i \in 1..Len(d) + Len(A) |-> IF i <= Len(d) THEN OfMessage(d[i]) ELSE OfAsk(A[i - Len(d)], epoch)]

Lines == { L \in UNION { [1..n -> Entries] : n \in Nat } :
             \A i \in DOMAIN L : L[i].extends => L[i].request.dir = "after" /\ ~L[i].failed }

\* The requests of the fetch that owns the catch-up, and of all fetches.
Owned(c) == { f.request : f \in { g \in c.fetches : g.owner } }
Wanted(c) == { f.request : f \in c.fetches }

\* Entry x is ahead of entry y.
PairOK(x, y, O) ==
  /\ x.waited /\ y.waited => x.request # y.request
  /\ x.waited /\ ~x.failed /\ y.extends =>
       /\ x.request \notin O
       /\ x.request.dir = "after" => Before(Position(x.request), Position(y.request))
  /\ y.request = TailFetch /\ (y.failed \/ ~y.waited \/ TailFetch \in O) => ~x.extends
EntryOK(x, O, R) ==
  x.waited => /\ x.request \in R
              /\ x.failed /\ x.request = TailFetch => TailFetch \in O
LineOK(L, O, R) ==
  /\ \A i \in DOMAIN L : EntryOK(L[i], O, R)
  /\ \A i, j \in DOMAIN L : i < j => PairOK(L[i], L[j], O)

Harmless(L) == \A i \in DOMAIN L : ~L[i].extends
Bounded(L, p) ==
  \A i \in DOMAIN L : L[i].request.dir = "after" /\ ~L[i].failed => UpTo(Position(L[i].request), p)
\* A request that cannot extend the timeline is of an epoch that is gone.
Older(L, epoch) ==
  \A i \in DOMAIN L :
    L[i].request.dir = "after" /\ ~L[i].failed /\ ~L[i].extends => L[i].request.epoch < epoch

\* Line M comes of line L: entries keep their order, some leave, some are answered or given
\* up, and some that are no answers come in.
Lighter(x, y, epoch, O) ==
  /\ x.request = y.request
  /\ x.waited => y.waited
  /\ y.failed => x.failed
  /\ x.request = TailFetch /\ y.waited /\ ((x.failed /\ ~y.failed) \/ ~x.waited) => TailFetch \in O
  /\ x.extends => y.extends
  /\ y.extends /\ ~x.extends /\ ~x.failed => x.request.epoch < epoch
Thins(M, L, h, epoch, O) ==
  /\ \A i \in DOMAIN M : M[i] = Nothing \/ (h[i] \in DOMAIN L /\ Lighter(M[i], L[h[i]], epoch, O))
  /\ \A i, j \in DOMAIN M : i < j /\ M[i] # Nothing /\ M[j] # Nothing => h[i] < h[j]

\* Nothing in the line does nothing.
LEMMA NothingDoes ==
  /\ Nothing \in Entries /\ ~Nothing.waited /\ ~Nothing.failed /\ ~Nothing.extends
  /\ Nothing.request = NoRequest /\ Nothing.request.dir = "none" /\ Nothing.request # TailFetch
  BY DEF Nothing, Entry, Entries, NoRequest, TailFetch, Request

\* The entries of a line.
LEMMA LineEntries ==
  ASSUME NEW L \in Lines, NEW i \in DOMAIN L
  PROVE  /\ L[i] \in Entries /\ (L[i].extends => L[i].request.dir = "after" /\ ~L[i].failed)
         /\ i \in Nat
         /\ L[i].request \in Requests \union {NoRequest}
  <1>1. PICK n \in Nat : L \in [1..n -> Entries]
    BY DEF Lines
  <1>2. L[i] \in Entries /\ i \in Nat
    BY <1>1
  <1>3. L[i].extends => L[i].request.dir = "after" /\ ~L[i].failed
    BY DEF Lines
  <1> QED
    BY <1>2, <1>3 DEF Entries

\* The parts of an entry.
LEMMA EntryTypes ==
  ASSUME NEW x \in Entries
  PROVE  x.waited \in BOOLEAN /\ x.failed \in BOOLEAN /\ x.extends \in BOOLEAN
         /\ x.request \in Requests \union {NoRequest}
  BY DEF Entries

\* Lighter entries are in order when the others were.
LEMMA LighterPair ==
  ASSUME NEW x, NEW y, NEW a, NEW b, NEW epoch, NEW O, NEW R, Lighter(x, a, epoch, O), Lighter(y, b, epoch, O),
         PairOK(a, b, O), EntryOK(b, O, R)
  PROVE  PairOK(x, y, O)
  <1>1. x.waited /\ y.waited => x.request # y.request
    BY DEF PairOK, Lighter
  <1>2. x.waited /\ ~x.failed /\ y.extends =>
          x.request \notin O /\ (x.request.dir = "after" => Before(Position(x.request), Position(y.request)))
    BY DEF PairOK, Lighter
  <1>3. y.request = TailFetch /\ (y.failed \/ ~y.waited \/ TailFetch \in O) => ~x.extends
    BY DEF PairOK, Lighter
  <1> QED
    BY <1>1, <1>2, <1>3 DEF PairOK

\* A line that thins stays in order.
LEMMA Thinned ==
  ASSUME NEW L, NEW M, NEW h, NEW O, NEW was \in Nat, NEW epoch \in Nat, was <= epoch,
         \A i \in DOMAIN L : L[i].request.dir = "after" => L[i].request.epoch \in Nat,
         Thins(M, L, h, epoch, O)
  PROVE  /\ \A R : LineOK(L, O, R) => LineOK(M, O, R)
         /\ \A p : Bounded(L, p) => Bounded(M, p)
         /\ Harmless(L) => Harmless(M)
         /\ Older(L, was) => Older(M, epoch)
  <1>1. ASSUME NEW i \in DOMAIN M, M[i] # Nothing
        PROVE  h[i] \in DOMAIN L /\ Lighter(M[i], L[h[i]], epoch, O)
    BY <1>1 DEF Thins
  <1>2. /\ ~Nothing.waited /\ ~Nothing.failed /\ ~Nothing.extends
        /\ Nothing.request.dir # "after" /\ Nothing.request # TailFetch
    BY NothingDoes
  <1>3. ASSUME NEW R, LineOK(L, O, R) PROVE LineOK(M, O, R)
    <2>1. ASSUME NEW i \in DOMAIN M PROVE EntryOK(M[i], O, R)
      <3>1. CASE M[i] = Nothing
        BY <1>2, <3>1 DEF EntryOK
      <3>2. CASE M[i] # Nothing
        <4>1. h[i] \in DOMAIN L /\ Lighter(M[i], L[h[i]], epoch, O) /\ EntryOK(L[h[i]], O, R)
          BY <1>1, <1>3, <3>2 DEF LineOK
        <4> QED
          BY <4>1 DEF EntryOK, Lighter
      <3> QED
        BY <3>1, <3>2
    <2>2. ASSUME NEW i \in DOMAIN M, NEW j \in DOMAIN M, i < j PROVE PairOK(M[i], M[j], O)
      <3>1. CASE M[i] = Nothing \/ M[j] = Nothing
        BY <1>2, <3>1 DEF PairOK
      <3>2. CASE M[i] # Nothing /\ M[j] # Nothing
        <4>1. /\ h[i] \in DOMAIN L /\ Lighter(M[i], L[h[i]], epoch, O)
              /\ h[j] \in DOMAIN L /\ Lighter(M[j], L[h[j]], epoch, O)
          BY <1>1, <3>2
        <4>2. h[i] < h[j]
          BY <2>2, <3>2 DEF Thins
        <4>3. PairOK(L[h[i]], L[h[j]], O) /\ EntryOK(L[h[j]], O, R)
          BY <1>3, <4>1, <4>2 DEF LineOK
        <4> QED
          BY ONLY <4>1, <4>3, LighterPair
      <3> QED
        BY <3>1, <3>2
    <2> QED
      BY <2>1, <2>2 DEF LineOK
  <1>4. ASSUME NEW p, Bounded(L, p) PROVE Bounded(M, p)
    BY <1>1, <1>2, <1>4 DEF Bounded, Lighter
  <1>5. Harmless(L) => Harmless(M)
    BY <1>1, <1>2 DEF Harmless, Lighter
  <1>6. ASSUME Older(L, was) PROVE Older(M, epoch)
    <2> SUFFICES ASSUME NEW i \in DOMAIN M, M[i].request.dir = "after", ~M[i].failed, ~M[i].extends
                 PROVE  M[i].request.epoch < epoch
      BY DEF Older
    <2>1. M[i] # Nothing
      BY <1>2
    <2>2. h[i] \in DOMAIN L /\ Lighter(M[i], L[h[i]], epoch, O)
      BY <1>1, <2>1
    <2>3. L[h[i]].extends \/ M[i].request.epoch < was
      BY <1>6, <2>2 DEF Older, Lighter
    <2>4. M[i].request.epoch \in Nat
      BY <2>2 DEF Lighter
    <2>5. L[h[i]].extends => M[i].request.epoch < epoch
      BY <2>2 DEF Lighter
    <2> QED
      BY <2>3, <2>4, <2>5
  <1> QED
    BY <1>3, <1>4, <1>5, <1>6

\* No tail has been given up.
TailsAwaited(L) == \A i \in DOMAIN L : L[i].request = TailFetch => L[i].waited

\* The entry of a message and that of a request.
LEMMA EntriesMade ==
  /\ \A m \in Messages : OfMessage(m) \in Entries /\ (OfMessage(m).extends => OfMessage(m).request.dir = "after" /\ ~OfMessage(m).failed)
  /\ \A a \in Asks, e \in Nat : OfAsk(a, e) \in Entries /\ (OfAsk(a, e).extends => OfAsk(a, e).request.dir = "after" /\ ~OfAsk(a, e).failed)
  <1>1. ASSUME NEW m \in Messages
        PROVE  OfMessage(m) \in Entries /\ (OfMessage(m).extends => OfMessage(m).request.dir = "after" /\ ~OfMessage(m).failed)
    <2>1. CASE m.type = "page"
      <3>1. m.page \in Pages /\ m.waited \in BOOLEAN
        BY <2>1, MessageTypes
      <3>2. m.page.request \in Requests /\ m.page.error \in BOOLEAN /\ Extends(m.page) \in BOOLEAN
        BY <3>1 DEF Pages, Extends
      <3>3. OfMessage(m) = Entry(m.page.request, m.waited, m.page.error, Extends(m.page))
        BY <2>1 DEF OfMessage
      <3>4. Entry(m.page.request, m.waited, m.page.error, Extends(m.page)) \in Entries
        BY <3>1, <3>2 DEF Entry, Entries
      <3>5. Extends(m.page) => m.page.request.dir = "after" /\ ~m.page.error
        BY DEF Extends
      <3> QED
        BY <3>3, <3>4, <3>5 DEF Entry
    <2>2. CASE m.type # "page"
      BY <2>2, NothingDoes DEF OfMessage
    <2> QED
      BY <2>1, <2>2
  <1>2. ASSUME NEW a \in Asks, NEW e \in Nat
        PROVE  OfAsk(a, e) \in Entries /\ (OfAsk(a, e).extends => OfAsk(a, e).request.dir = "after" /\ ~OfAsk(a, e).failed)
    <2>1. CASE a.request = Subscribe
      BY <2>1, NothingDoes DEF OfAsk
    <2>2. CASE a.request # Subscribe
      <3> DEFINE b == a.request.dir = "after" /\ a.request.epoch = e
      <3>1. a.request \in Requests /\ a.waited \in BOOLEAN /\ b \in BOOLEAN
        BY <2>2 DEF Asks
      <3>2. OfAsk(a, e) = Entry(a.request, a.waited, FALSE, b)
        BY <2>2 DEF OfAsk
      <3>3. b => a.request.dir = "after"
        OBVIOUS
      <3> HIDE DEF b
      <3> QED
        BY <3>1, <3>2, <3>3 DEF Entry, Entries
    <2> QED
      BY <2>1, <2>2
  <1> QED
    BY <1>1, <1>2

\* The line of answers and requests.
LEMMA LineMade ==
  ASSUME NEW d \in Seq(Messages), NEW A \in Seq(Asks), NEW epoch \in Nat
  PROVE  /\ Line(d, A, epoch) \in Lines
         /\ DOMAIN Line(d, A, epoch) = 1..Len(d) + Len(A)
         /\ Len(d) \in Nat /\ Len(A) \in Nat
         /\ \A i \in 1..Len(d) : Line(d, A, epoch)[i] = OfMessage(d[i])
         /\ \A i \in 1..Len(A) : Line(d, A, epoch)[Len(d) + i] = OfAsk(A[i], epoch)
         /\ \A i \in Len(d) + 1..Len(d) + Len(A) : i - Len(d) \in 1..Len(A)
  <1> DEFINE n == Len(d)
             k == Len(A)
             L == Line(d, A, epoch)
  <1>1. n \in Nat /\ k \in Nat /\ (\A i \in 1..n : d[i] \in Messages) /\ (\A i \in 1..k : A[i] \in Asks)
    BY LenProperties, ElementOfSeq
  <1>2. L = [i \in 1..n + k |-> IF i <= n THEN OfMessage(d[i]) ELSE OfAsk(A[i - n], epoch)]
    BY DEF Line
  <1> HIDE DEF n, k, L
  <1>3. DOMAIN L = 1..n + k
    BY <1>2
  <1>4. ASSUME NEW i \in 1..n PROVE L[i] = OfMessage(d[i])
    <2>1. i \in 1..n + k /\ i <= n
      BY <1>1
    <2> QED
      BY <1>2, <2>1
  <1>5. ASSUME NEW i \in 1..k PROVE L[n + i] = OfAsk(A[i], epoch)
    <2>1. n + i \in 1..n + k /\ ~(n + i <= n) /\ (n + i) - n = i
      BY <1>1
    <2> QED
      BY <1>2, <2>1
  <1>6. \A i \in n + 1..n + k : i - n \in 1..k /\ n + (i - n) = i
    BY <1>1
  <1>7. ASSUME NEW i \in 1..n + k
        PROVE  L[i] \in Entries /\ (L[i].extends => L[i].request.dir = "after" /\ ~L[i].failed)
    <2>1. CASE i <= n
      <3>1. i \in 1..n
        BY <1>1, <2>1
      <3> QED
        BY <1>1, <1>4, <3>1, EntriesMade
    <2>2. CASE ~(i <= n)
      <3>1. i - n \in 1..k /\ n + (i - n) = i
        BY <1>1, <2>2
      <3>2. L[i] = OfAsk(A[i - n], epoch) /\ A[i - n] \in Asks
        BY <1>1, <1>5, <3>1
      <3> QED
        BY <3>2, EntriesMade
    <2> QED
      BY <2>1, <2>2
  <1>8. L \in Lines
    <2>1. n + k \in Nat
      BY <1>1
    <2>2. L = [i \in 1..n + k |-> L[i]]
      BY <1>2
    <2>3. \A i \in 1..n + k : L[i] \in Entries
      BY <1>7
    <2>4. L \in [1..n + k -> Entries]
      BY ONLY <2>2, <2>3
    <2> QED
      BY <1>3, <1>7, <2>1, <2>4 DEF Lines
  <1> QED
    BY <1>1, <1>3, <1>4, <1>5, <1>6, <1>8 DEF n, k, L

\* Its entries, found by their place.
LEMMA LinePlaces ==
  ASSUME NEW d \in Seq(Messages), NEW A \in Seq(Asks), NEW epoch \in Nat, NEW i \in DOMAIN Line(d, A, epoch)
  PROVE  \/ i \in 1..Len(d) /\ d[i] \in Messages /\ Line(d, A, epoch)[i] = OfMessage(d[i])
         \/ /\ i \notin 1..Len(d) /\ i - Len(d) \in 1..Len(A) /\ A[i - Len(d)] \in Asks
            /\ Line(d, A, epoch)[i] = OfAsk(A[i - Len(d)], epoch)
  <1>1. i \in 1..Len(d) + Len(A) /\ Len(d) \in Nat /\ Len(A) \in Nat
    BY LineMade
  <1>2. CASE i \in 1..Len(d)
    BY <1>2, LineMade, ElementOfSeq
  <1>3. CASE i \notin 1..Len(d)
    <2>1. i - Len(d) \in 1..Len(A) /\ Len(d) + (i - Len(d)) = i
      BY <1>1, <1>3
    <2>2. Line(d, A, epoch)[Len(d) + (i - Len(d))] = OfAsk(A[i - Len(d)], epoch)
      BY <2>1, LineMade
    <2>3. A[i - Len(d)] \in Asks
      BY <2>1, ElementOfSeq
    <2> QED
      BY <1>3, <2>1, <2>2, <2>3
  <1> QED
    BY <1>2, <1>3

\* Line M is in order, bounded, harmless and of old requests where line L is.
Thinner(L, M, O, was, epoch) ==
  /\ \A R : LineOK(L, O, R) => LineOK(M, O, R)
  /\ \A p : Bounded(L, p) => Bounded(M, p)
  /\ Harmless(L) => Harmless(M)
  /\ Older(L, was) => Older(M, epoch)

\* A line that thins, place by place.
LEMMA ThinnedLine ==
  ASSUME NEW L \in Lines, NEW M, NEW h, NEW O, NEW was \in Nat, NEW epoch \in Nat, was <= epoch,
         Thins(M, L, h, epoch, O)
  PROVE  Thinner(L, M, O, was, epoch)
  <1>1. ASSUME NEW i \in DOMAIN L, L[i].request.dir = "after" PROVE L[i].request.epoch \in Nat
    <2>1. L[i].request \in Requests
      BY <1>1, LineEntries DEF NoRequest, Request
    <2> QED
      BY <1>1, <2>1, Bounds DEF Requests, TailFetch, Request
  <1> QED
    BY <1>1, Thinned DEF Thinner

\* The first message is taken off the line.
LEMMA LineTakes ==
  ASSUME NEW d \in Seq(Messages), d # <<>>, NEW A \in Seq(Asks), NEW epoch \in Nat, NEW O
  PROVE  /\ Thinner(Line(d, A, epoch), Line(Tail(d), A, epoch), O, epoch, epoch)
         /\ \A i \in DOMAIN Line(Tail(d), A, epoch) :
              /\ i + 1 \in DOMAIN Line(d, A, epoch)
              /\ Line(Tail(d), A, epoch)[i] = Line(d, A, epoch)[i + 1]
         /\ 1 \in DOMAIN Line(d, A, epoch) /\ Line(d, A, epoch)[1] = OfMessage(Head(d))
         /\ Tail(d) \in Seq(Messages)
  <1> DEFINE e == Tail(d)
             L == Line(d, A, epoch)
             M == Line(e, A, epoch)
             h == [i \in DOMAIN M |-> i + 1]
  <1>1. /\ e \in Seq(Messages) /\ Len(e) = Len(d) - 1 /\ Len(d) >= 1 /\ Head(d) = d[1]
        /\ \A i \in 1..Len(d) - 1 : e[i] = d[i + 1]
    BY HeadTailProperties, LenProperties, EmptySeq
  <1>2. /\ L \in Lines /\ DOMAIN L = 1..Len(d) + Len(A) /\ Len(d) \in Nat /\ Len(A) \in Nat
        /\ \A i \in 1..Len(d) : L[i] = OfMessage(d[i])
        /\ \A i \in 1..Len(A) : L[Len(d) + i] = OfAsk(A[i], epoch)
    BY LineMade
  <1>3. DOMAIN M = 1..Len(e) + Len(A)
    BY <1>1, LineMade
  <1>4. ASSUME NEW i \in DOMAIN M PROVE i + 1 \in DOMAIN L /\ M[i] = L[i + 1]
    <2>1. i + 1 \in DOMAIN L
      BY <1>1, <1>2, <1>3
    <2>2. CASE i \in 1..Len(e)
      <3>1. M[i] = OfMessage(e[i])
        BY <1>1, <2>2, LineMade
      <3>2. e[i] = d[i + 1] /\ i + 1 \in 1..Len(d)
        BY <1>1, <1>2, <2>2
      <3> QED
        BY <1>2, <2>1, <3>1, <3>2
    <2>3. CASE i \notin 1..Len(e)
      <3>1. M[i] = OfAsk(A[i - Len(e)], epoch) /\ i - Len(e) \in 1..Len(A)
        <4> HIDE DEF e
        <4> QED
          BY <1>1, <2>3, LinePlaces
      <3>2. i + 1 = Len(d) + (i - Len(e))
        BY <1>1, <1>2, <1>3
      <3>3. L[Len(d) + (i - Len(e))] = OfAsk(A[i - Len(e)], epoch)
        BY <1>2, <3>1
      <3> QED
        BY <2>1, <3>1, <3>2, <3>3
    <2> QED
      BY <2>2, <2>3
  <1>5. Thins(M, L, h, epoch, O)
    <2>1. \A i \in DOMAIN M : h[i] = i + 1 /\ h[i] \in DOMAIN L /\ M[i] = L[h[i]] /\ i \in Int
      BY <1>2, <1>3, <1>4
    <2> HIDE DEF h, L, M
    <2> QED
      BY <2>1 DEF Thins, Lighter
  <1>6. Thinner(L, M, O, epoch, epoch)
    BY <1>2, <1>5, ThinnedLine
  <1>7. 1 \in DOMAIN L /\ L[1] = OfMessage(Head(d))
    BY <1>1, <1>2
  <1> QED
    BY <1>1, <1>4, <1>6, <1>7

\* Who waited for a tail still does.
SameTails(L, M) ==
  \A i \in DOMAIN M : M[i].request = TailFetch /\ ~M[i].waited =>
    \E j \in DOMAIN L : L[j].request = TailFetch /\ ~L[j].waited
\* Tails are still awaited.
LEMMA TailsSame ==
  ASSUME NEW L, NEW M, SameTails(L, M), TailsAwaited(L)
  PROVE  TailsAwaited(M)
  BY DEF SameTails, TailsAwaited

\* Entry x is what a request's entry y becomes, whoever waits for it.
Answers(x, y, epoch, O) == Lighter(x, y, epoch, O) /\ (y.waited => x.waited)
\* A message that is no answer.
Plain(m) == m.type # "page"
\* Messages that are no answers are sent, and the store's epoch may grow.
\* Plain messages leave every claim about the line true.
LEMMA LineInserts ==
  ASSUME NEW d \in Seq(Messages), NEW q \in Seq(Messages), \A i \in 1..Len(q) : Plain(q[i]),
         NEW A \in Seq(Asks), NEW was \in Nat, NEW epoch \in Nat, was <= epoch, NEW O,
         \A i \in 1..Len(A) : A[i].request.dir = "after" => A[i].request.epoch <= was
  PROVE  /\ Thinner(Line(d, A, was), Line(d \o q, A, epoch), O, was, epoch)
         /\ SameTails(Line(d, A, was), Line(d \o q, A, epoch))
  <1> DEFINE e == d \o q
             L == Line(d, A, was)
             M == Line(e, A, epoch)
             h == [i \in DOMAIN M |-> IF i <= Len(d) THEN i ELSE i - Len(q)]
  <1>1. /\ e \in Seq(Messages) /\ Len(e) = Len(d) + Len(q)
        /\ \A i \in 1..Len(e) : e[i] = IF i <= Len(d) THEN d[i] ELSE q[i - Len(d)]
    BY ConcatProperties
  <1>2. /\ L \in Lines /\ DOMAIN L = 1..Len(d) + Len(A) /\ Len(d) \in Nat /\ Len(A) \in Nat
        /\ \A i \in 1..Len(d) : L[i] = OfMessage(d[i])
        /\ \A i \in 1..Len(A) : L[Len(d) + i] = OfAsk(A[i], was)
    BY LineMade
  <1>3. DOMAIN M = 1..Len(e) + Len(A) /\ Len(q) \in Nat /\ Len(e) \in Nat
    BY <1>1, LineMade, LenProperties
  <1>4. ASSUME NEW i \in DOMAIN M
        PROVE  \/ i \in 1..Len(d) /\ h[i] \in DOMAIN L /\ M[i] = L[h[i]]
               \/ i \in Len(d) + 1..Len(d) + Len(q) /\ M[i] = Nothing
               \/ /\ i > Len(d) + Len(q) /\ h[i] \in DOMAIN L /\ i - Len(e) \in 1..Len(A)
                  /\ M[i] = OfAsk(A[i - Len(e)], epoch) /\ L[h[i]] = OfAsk(A[i - Len(e)], was)
    <2>1. CASE i \in 1..Len(e)
      <3>1. M[i] = OfMessage(e[i])
        BY <1>1, <2>1, LineMade
      <3>2. CASE i <= Len(d)
        <4>1. e[i] = d[i] /\ i \in 1..Len(d) /\ h[i] = i
          BY <1>1, <2>1, <3>2
        <4> QED
          BY <1>2, <1>3, <3>1, <4>1
      <3>3. CASE ~(i <= Len(d))
        <4>1. e[i] = q[i - Len(d)] /\ i - Len(d) \in 1..Len(q)
          BY <1>1, <1>2, <1>3, <2>1, <3>3
        <4>2. Plain(e[i])
          BY <4>1
        <4>3. M[i] = Nothing
          BY <3>1, <4>2 DEF Plain, OfMessage
        <4> QED
          BY <1>1, <1>2, <1>3, <2>1, <3>3, <4>3
      <3> QED
        BY <3>2, <3>3
    <2>2. CASE i \notin 1..Len(e)
      <3>1. M[i] = OfAsk(A[i - Len(e)], epoch) /\ i - Len(e) \in 1..Len(A)
        <4> HIDE DEF e, h, L
        <4>1. i \in DOMAIN Line(e, A, epoch)
          OBVIOUS
        <4>3. e \in Seq(Messages)
          BY <1>1
        <4>2. Line(e, A, epoch)[i] = OfAsk(A[i - Len(e)], epoch) /\ i - Len(e) \in 1..Len(A)
          BY ONLY <2>2, <4>1, <4>3, A \in Seq(Asks), epoch \in Nat, LinePlaces
        <4> QED
          BY <4>2
      <3>2. i > Len(d) + Len(q) /\ h[i] = i - Len(q) /\ i - Len(q) = Len(d) + (i - Len(e))
        BY <1>1, <1>2, <1>3, <2>2
      <3>3. L[Len(d) + (i - Len(e))] = OfAsk(A[i - Len(e)], was)
        BY <1>2, <3>1
      <3>4. i - Len(q) \in DOMAIN L
        BY <1>1, <1>2, <1>3, <3>1
      <3> QED
        BY <3>1, <3>2, <3>3, <3>4
    <2> QED
      BY <2>1, <2>2
  <1> HIDE DEF h, L, M
  <1>5. ASSUME NEW j \in 1..Len(A)
        PROVE  \/ OfAsk(A[j], epoch) = Nothing
               \/ Answers(OfAsk(A[j], epoch), OfAsk(A[j], was), epoch, O)
    <2> DEFINE r == A[j].request
               b == r.dir = "after" /\ r.epoch = epoch
               a == r.dir = "after" /\ r.epoch = was
    <2>1. A[j] \in Asks /\ A[j].request \in Requests \union {Subscribe}
      <3>1. A[j] \in Asks
        BY ElementOfSeq
      <3> QED
        BY <3>1 DEF Asks
    <2>2. CASE r = Subscribe
      BY <2>2 DEF OfAsk
    <2>3. CASE r # Subscribe
      <3>1. /\ OfAsk(A[j], epoch) = Entry(r, A[j].waited, FALSE, b)
            /\ OfAsk(A[j], was) = Entry(r, A[j].waited, FALSE, a)
        BY <2>3 DEF OfAsk
      <3>2. r \in Requests /\ (r.dir = "after" => r.epoch \in Nat /\ r.epoch <= was)
        BY <2>1, <2>3, Bounds DEF Requests, TailFetch, Request
      <3>3. (b => a) /\ (a /\ ~b => r.epoch < epoch)
        BY <3>2
      <3> HIDE DEF r, a, b
      <3> QED
        BY <3>1, <3>3 DEF Entry, Lighter, Answers
    <2> QED
      BY <2>2, <2>3
  <1>6. ASSUME NEW i \in DOMAIN M, M[i] # Nothing
        PROVE  h[i] \in DOMAIN L /\ Answers(M[i], L[h[i]], epoch, O)
    BY <1>4, <1>5, <1>6 DEF Answers, Lighter
  <1>7. ASSUME NEW i \in DOMAIN M, NEW j \in DOMAIN M, i < j, M[i] # Nothing, M[j] # Nothing
        PROVE  h[i] < h[j]
    <2>1. i \in Int /\ j \in Int
      BY <1>3
    <2>2. h[i] = (IF i <= Len(d) THEN i ELSE i - Len(q)) /\ h[j] = (IF j <= Len(d) THEN j ELSE j - Len(q))
      BY DEF h
    <2>3. /\ i <= Len(d) \/ i > Len(d) + Len(q)
          /\ j <= Len(d) \/ j > Len(d) + Len(q)
      BY <1>2, <1>3, <1>4, <1>7
    <2> QED
      BY <1>2, <1>3, <1>7, <2>1, <2>2, <2>3
  <1>8. Thins(M, L, h, epoch, O)
    BY <1>6, <1>7 DEF Thins, Answers
  <1>9. Thinner(L, M, O, was, epoch)
    BY <1>2, <1>8, ThinnedLine
  <1>10. SameTails(L, M)
    BY <1>6, NothingDoes DEF SameTails, Answers, Lighter
  <1> QED
    BY <1>9, <1>10 DEF L, M

\* The request that is handled becomes what the daemon answers; its place in the line is kept.
LEMMA LineAnswers ==
  ASSUME NEW d \in Seq(Messages), NEW m \in Messages, NEW A \in Seq(Asks), A # <<>>, NEW epoch \in Nat, NEW O,
         OfMessage(m) = Nothing \/ Answers(OfMessage(m), OfAsk(Head(A), epoch), epoch, O)
  PROVE  /\ Thinner(Line(d, A, epoch), Line(Append(d, m), Tail(A), epoch), O, epoch, epoch)
         /\ SameTails(Line(d, A, epoch), Line(Append(d, m), Tail(A), epoch))
  <1> DEFINE e == Append(d, m)
             B == Tail(A)
             L == Line(d, A, epoch)
             M == Line(e, B, epoch)
             h == [i \in DOMAIN M |-> i]
  <1>1. /\ e \in Seq(Messages) /\ Len(e) = Len(d) + 1 /\ e[Len(d) + 1] = m
        /\ \A i \in 1..Len(d) : e[i] = d[i]
    BY AppendProperties
  <1>2. /\ B \in Seq(Asks) /\ Len(B) = Len(A) - 1 /\ Len(A) >= 1 /\ Head(A) = A[1]
        /\ \A i \in 1..Len(A) - 1 : B[i] = A[i + 1]
    BY HeadTailProperties, LenProperties, EmptySeq
  <1>3. /\ L \in Lines /\ DOMAIN L = 1..Len(d) + Len(A) /\ Len(d) \in Nat /\ Len(A) \in Nat
        /\ \A i \in 1..Len(d) : L[i] = OfMessage(d[i])
        /\ \A i \in 1..Len(A) : L[Len(d) + i] = OfAsk(A[i], epoch)
    BY LineMade
  <1> HIDE DEF e, B, L
  <1>4. /\ DOMAIN M = 1..Len(e) + Len(B)
        /\ \A i \in 1..Len(e) : M[i] = OfMessage(e[i])
        /\ \A i \in 1..Len(B) : M[Len(e) + i] = OfAsk(B[i], epoch)
    BY <1>1, <1>2, LineMade
  <1> HIDE DEF M
  <1>5. DOMAIN M = DOMAIN L
    BY <1>1, <1>2, <1>3, <1>4
  <1>6. ASSUME NEW i \in DOMAIN M
        PROVE  M[i] = L[i] \/ (i = Len(d) + 1 /\ M[i] = OfMessage(m) /\ L[i] = OfAsk(Head(A), epoch))
    <2>1. CASE i \in 1..Len(d)
      <3>1. i \in 1..Len(e)
        BY <1>1, <1>3, <2>1
      <3> QED
        BY <1>1, <1>3, <1>4, <2>1, <3>1
    <2>2. CASE i = Len(d) + 1
      <3>1. i \in 1..Len(e) /\ i = Len(d) + 1 /\ 1 \in 1..Len(A)
        BY <1>1, <1>2, <1>3, <2>2
      <3>2. M[i] = OfMessage(m)
        BY <1>1, <1>4, <3>1
      <3>3. L[Len(d) + 1] = OfAsk(A[1], epoch)
        BY <1>3, <3>1
      <3> QED
        BY <1>2, <2>2, <3>2, <3>3
    <2>3. CASE i \notin 1..Len(d) /\ i # Len(d) + 1
      <3> DEFINE n == Len(d)
                 a == Len(A)
      <3>5. n \in Nat /\ a \in Nat /\ Len(e) = n + 1 /\ Len(B) = a - 1 /\ i \in 1..(n + 1) + (a - 1)
        BY <1>1, <1>2, <1>3, <1>4
      <3> HIDE DEF n, a
      <3>6. i \in Int /\ i >= n + 2 /\ i <= n + a
        BY <3>5, <2>3 DEF n
      <3>1. /\ i - Len(e) \in 1..Len(B) /\ Len(e) + (i - Len(e)) = i
            /\ i - Len(d) \in 1..Len(A) /\ Len(d) + (i - Len(d)) = i
            /\ i - Len(e) \in 1..Len(A) - 1 /\ (i - Len(e)) + 1 = i - Len(d)
        BY <3>5, <3>6 DEF n, a
      <3>2. M[Len(e) + (i - Len(e))] = OfAsk(B[i - Len(e)], epoch)
        BY <1>4, <3>1
      <3>3. L[Len(d) + (i - Len(d))] = OfAsk(A[i - Len(d)], epoch)
        BY <1>3, <3>1
      <3>4. B[i - Len(e)] = A[(i - Len(e)) + 1]
        BY <1>2, <3>1
      <3> QED
        BY <3>1, <3>2, <3>3, <3>4
    <2> QED
      BY <2>1, <2>2, <2>3
  <1>7. Thins(M, L, h, epoch, O)
    <2>1. \A i \in DOMAIN M : h[i] = i
      OBVIOUS
    <2> HIDE DEF h
    <2> QED
      BY <1>5, <1>6, <2>1 DEF Thins, Lighter, Answers
  <1>8. Thinner(L, M, O, epoch, epoch)
    BY <1>3, <1>7, ThinnedLine
  <1>9. SameTails(L, M)
    BY <1>5, <1>6, NothingDoes DEF SameTails, Answers, Lighter
  <1> QED
    BY <1>8, <1>9 DEF L, M, e, B

\* Some of those who sent a request give it up.
LEMMA LineMarks ==
  ASSUME NEW d \in Seq(Messages), NEW e \in Seq(Messages), Len(e) = Len(d),
         NEW A \in Seq(Asks), NEW B \in Seq(Asks), Len(B) = Len(A), NEW epoch \in Nat, NEW O,
         \A i \in 1..Len(d) : Lighter(OfMessage(e[i]), OfMessage(d[i]), epoch, O),
         \A i \in 1..Len(A) : Lighter(OfAsk(B[i], epoch), OfAsk(A[i], epoch), epoch, O)
  PROVE  /\ Thinner(Line(d, A, epoch), Line(e, B, epoch), O, epoch, epoch)
         /\ \A i \in DOMAIN Line(e, B, epoch) :
              \/ \E j \in 1..Len(d) : /\ Line(e, B, epoch)[i] = OfMessage(e[j])
                                      /\ i \in DOMAIN Line(d, A, epoch) /\ Line(d, A, epoch)[i] = OfMessage(d[j])
              \/ \E j \in 1..Len(A) : /\ Line(e, B, epoch)[i] = OfAsk(B[j], epoch)
                                      /\ i \in DOMAIN Line(d, A, epoch) /\ Line(d, A, epoch)[i] = OfAsk(A[j], epoch)
  <1> DEFINE L == Line(d, A, epoch)
             M == Line(e, B, epoch)
             h == [i \in DOMAIN M |-> i]
  <1>1. /\ L \in Lines /\ DOMAIN L = 1..Len(d) + Len(A) /\ Len(d) \in Nat /\ Len(A) \in Nat
        /\ \A i \in 1..Len(d) : L[i] = OfMessage(d[i])
        /\ \A i \in 1..Len(A) : L[Len(d) + i] = OfAsk(A[i], epoch)
    BY LineMade
  <1>2. /\ DOMAIN M = 1..Len(e) + Len(B)
        /\ \A i \in 1..Len(e) : M[i] = OfMessage(e[i])
        /\ \A i \in 1..Len(B) : M[Len(e) + i] = OfAsk(B[i], epoch)
    BY LineMade
  <1> HIDE DEF L, M
  <1>3. ASSUME NEW i \in DOMAIN M
        PROVE  /\ i \in DOMAIN L /\ Lighter(M[i], L[i], epoch, O)
               /\ \/ \E j \in 1..Len(d) : M[i] = OfMessage(e[j]) /\ L[i] = OfMessage(d[j])
                  \/ \E j \in 1..Len(A) : M[i] = OfAsk(B[j], epoch) /\ L[i] = OfAsk(A[j], epoch)
    <2>1. i \in DOMAIN L
      BY <1>1, <1>2
    <2>2. CASE i \in 1..Len(d)
      <3>1. M[i] = OfMessage(e[i]) /\ L[i] = OfMessage(d[i])
        BY <1>1, <1>2, <2>2
      <3> QED
        BY <2>1, <2>2, <3>1
    <2>3. CASE i \notin 1..Len(d)
      <3>1. i - Len(d) \in 1..Len(A) /\ Len(d) + (i - Len(d)) = i
        BY <1>1, <1>2, <2>3
      <3>2. M[Len(e) + (i - Len(d))] = OfAsk(B[i - Len(d)], epoch)
        BY <1>2, <3>1
      <3>3. L[Len(d) + (i - Len(d))] = OfAsk(A[i - Len(d)], epoch)
        BY <1>1, <3>1
      <3>4. Lighter(OfAsk(B[i - Len(d)], epoch), OfAsk(A[i - Len(d)], epoch), epoch, O)
        BY <3>1
      <3>5. M[i] = OfAsk(B[i - Len(d)], epoch) /\ L[i] = OfAsk(A[i - Len(d)], epoch)
        BY <3>1, <3>2, <3>3
      <3> QED
        BY <2>1, <3>1, <3>4, <3>5
    <2> QED
      BY <2>2, <2>3
  <1>4. Thins(M, L, h, epoch, O)
    <2>1. \A i \in DOMAIN M : h[i] = i
      OBVIOUS
    <2> HIDE DEF h
    <2> QED
      BY <1>3, <2>1 DEF Thins
  <1> HIDE DEF h
  <1>5. Thinner(L, M, O, epoch, epoch)
    <2>1. L \in Lines /\ epoch \in Nat /\ epoch <= epoch
      BY <1>1
    <2> QED
      BY ONLY <1>4, <2>1, ThinnedLine
  <1> QED
    BY <1>3, <1>5 DEF L, M

\* Line M is line L with an entry x behind it.
Longer(L, M, x) ==
  \E n \in Nat : /\ DOMAIN L = 1..n /\ DOMAIN M = 1..n + 1
                 /\ M[n + 1] = x /\ \A i \in 1..n : M[i] = L[i]

\* A request is sent.
LEMMA LineSends ==
  ASSUME NEW d \in Seq(Messages), NEW A \in Seq(Asks), NEW a \in Asks, NEW epoch \in Nat
  PROVE  Longer(Line(d, A, epoch), Line(d, Append(A, a), epoch), OfAsk(a, epoch))
  <1> DEFINE B == Append(A, a)
             L == Line(d, A, epoch)
             M == Line(d, B, epoch)
             n == Len(d) + Len(A)
  <1>1. /\ B \in Seq(Asks) /\ Len(B) = Len(A) + 1 /\ B[Len(A) + 1] = a
        /\ \A i \in 1..Len(A) : B[i] = A[i]
    BY AppendProperties
  <1>2. /\ L \in Lines /\ DOMAIN L = 1..Len(d) + Len(A) /\ Len(d) \in Nat /\ Len(A) \in Nat
        /\ \A i \in 1..Len(d) : L[i] = OfMessage(d[i])
        /\ \A i \in 1..Len(A) : L[Len(d) + i] = OfAsk(A[i], epoch)
    BY LineMade
  <1> HIDE DEF B, L
  <1>3. /\ DOMAIN M = 1..Len(d) + Len(B)
        /\ \A i \in 1..Len(d) : M[i] = OfMessage(d[i])
        /\ \A i \in 1..Len(B) : M[Len(d) + i] = OfAsk(B[i], epoch)
    BY <1>1, LineMade
  <1> HIDE DEF M
  <1>4. M[n + 1] = OfAsk(a, epoch)
    <2>1. Len(A) + 1 \in 1..Len(B)
      BY <1>1, <1>2
    <2>2. M[Len(d) + (Len(A) + 1)] = OfAsk(B[Len(A) + 1], epoch)
      BY <1>3, <2>1
    <2>3. Len(d) + (Len(A) + 1) = n + 1
      BY <1>2
    <2> QED
      BY <1>1, <2>2, <2>3
  <1>5. ASSUME NEW i \in 1..n PROVE M[i] = L[i]
    <2>1. CASE i \in 1..Len(d)
      BY <1>2, <1>3, <2>1
    <2>2. CASE i \notin 1..Len(d)
      <3>1. i - Len(d) \in 1..Len(A) /\ i - Len(d) \in 1..Len(B) /\ Len(d) + (i - Len(d)) = i
        BY <1>1, <1>2, <2>2
      <3>2. M[Len(d) + (i - Len(d))] = OfAsk(B[i - Len(d)], epoch)
        BY <1>3, <3>1
      <3>3. L[Len(d) + (i - Len(d))] = OfAsk(A[i - Len(d)], epoch)
        BY <1>2, <3>1
      <3> QED
        BY <1>1, <3>1, <3>2, <3>3
    <2> QED
      BY <2>1, <2>2
  <1>6. n \in Nat /\ DOMAIN L = 1..n /\ DOMAIN M = 1..n + 1
    BY <1>1, <1>2, <1>3
  <1> HIDE DEF n
  <1> QED
    BY <1>4, <1>5, <1>6 DEF Longer, L, M, B

-----------------------------------------------------------------------------
(* Fetches begin, and their requests go to the end of the line.            *)

\* What a catch-up sends is asked.
LEMMA SentEach ==
  ASSUME NEW c, c.sent \in Seq(Requests)
  PROVE  /\ SentBy(c) \in Seq(Asks) /\ Len(SentBy(c)) = Len(c.sent) /\ Len(c.sent) \in Nat
         /\ \A i \in 1..Len(c.sent) : SentBy(c)[i] = Ask(c.sent[i])
  <1> DEFINE q == c.sent
             A == [i \in DOMAIN q |-> Ask(q[i])]
             n == Len(q)
  <1>1. q \in Seq(Requests) /\ n \in Nat /\ DOMAIN q = 1..n /\ \A i \in 1..n : q[i] \in Requests
    BY LenProperties, ElementOfSeq
  <1>2. A = SentBy(c)
    BY DEF SentBy
  <1> HIDE DEF q, n
  <1>3. ASSUME NEW i \in 1..n PROVE A[i] = Ask(q[i]) /\ A[i] \in Asks
    BY <1>1 DEF Ask, Asks
  <1>4. A = [i \in 1..n |-> Ask(q[i])] /\ DOMAIN A = 1..n
    BY <1>1
  <1> HIDE DEF A
  <1>5. A \in [1..n -> Asks]
    BY <1>3, <1>4
  <1>6. A \in Seq(Asks) /\ Len(A) = n
    BY <1>1, <1>4, <1>5, SeqDef, LenProperties
  <1> QED
    BY <1>1, <1>2, <1>3, <1>6 DEF q, n

\* One more request goes to the end of what is asked.
LEMMA SentMore ==
  ASSUME NEW c, c.sent \in Seq(Requests), NEW r \in Requests, NEW e, e.sent = Append(c.sent, r),
         NEW A \in Seq(Asks)
  PROVE  A \o SentBy(e) = Append(A \o SentBy(c), Ask(r)) /\ e.sent \in Seq(Requests)
  <1> DEFINE q == c.sent
             B == SentBy(c)
             C == SentBy(e)
             x == Ask(r)
  <1>1. q \in Seq(Requests) /\ Len(q) \in Nat /\ B \in Seq(Asks) /\ Len(B) = Len(q) /\ x \in Asks
    BY SentEach DEF Ask, Asks
  <1>2. \A i \in 1..Len(q) : B[i] = Ask(q[i])
    BY SentEach
  <1>3. /\ e.sent \in Seq(Requests) /\ Len(e.sent) = Len(q) + 1
        /\ \A i \in 1..Len(q) : e.sent[i] = q[i]
        /\ e.sent[Len(q) + 1] = r
    BY AppendProperties
  <1>4. C \in Seq(Asks) /\ Len(C) = Len(q) + 1 /\ \A i \in 1..Len(q) + 1 : C[i] = Ask(e.sent[i])
    BY <1>3, SentEach
  <1> HIDE DEF q, B, C, x
  <1>5. C = Append(B, x)
    <2>1. /\ Append(B, x) \in Seq(Asks) /\ Len(Append(B, x)) = Len(q) + 1
          /\ \A i \in 1..Len(q) : Append(B, x)[i] = B[i]
          /\ Append(B, x)[Len(q) + 1] = x
      BY <1>1, AppendProperties
    <2>2. ASSUME NEW i \in 1..Len(q) + 1 PROVE C[i] = Append(B, x)[i]
      <3>1. CASE i \in 1..Len(q)
        BY <1>2, <1>3, <1>4, <2>1, <3>1
      <3>2. CASE i = Len(q) + 1
        BY <1>3, <1>4, <2>1, <3>2 DEF x
      <3> QED
        BY <1>1, <3>1, <3>2
    <2> QED
      BY <1>4, <2>1, <2>2, SeqEqual
  <1>6. A \o Append(B, x) = Append(A \o B, x)
    <2>1. /\ A \o B \in Seq(Asks) /\ Append(B, x) = B \o <<x>> /\ <<x>> \in Seq(Asks)
          /\ Append(A \o B, x) = (A \o B) \o <<x>>
      BY <1>1, AppendIsConcat, ConcatProperties
    <2>2. (A \o B) \o <<x>> = A \o (B \o <<x>>)
      BY <1>1, <2>1, ConcatAssociative
    <2> QED
      BY <2>1, <2>2
  <1> QED
    BY <1>3, <1>5, <1>6 DEF B, C, x

\* The line when what c sends is sent.
Sends(d, A, c, epoch) == Line(d, A \o SentBy(c), epoch)

\* It is a line, that of the requests asked when nothing is sent.
LEMMA SendsMade ==
  ASSUME NEW d \in Seq(Messages), NEW A \in Seq(Asks), NEW c, c.sent \in Seq(Requests), NEW epoch \in Nat
  PROVE  /\ A \o SentBy(c) \in Seq(Asks)
         /\ Sends(d, A, c, epoch) \in Lines
         /\ c.sent = <<>> => A \o SentBy(c) = A /\ Sends(d, A, c, epoch) = Line(d, A, epoch)
         /\ \A e : e.sent = c.sent => Sends(d, A, e, epoch) = Sends(d, A, c, epoch)
  <1>1. SentBy(c) \in Seq(Asks) /\ Len(SentBy(c)) = Len(c.sent)
    BY SentEach
  <1>2. A \o SentBy(c) \in Seq(Asks)
    BY <1>1, ConcatProperties
  <1>3. Sends(d, A, c, epoch) \in Lines
    BY <1>2, LineMade DEF Sends
  <1>4. ASSUME c.sent = <<>> PROVE A \o SentBy(c) = A
    <2>1. SentBy(c) = <<>>
      <3>1. Len(SentBy(c)) = 0
        BY <1>1, <1>4, EmptySeq
      <3> QED
        BY <1>1, <3>1, EmptySeq
    <2> QED
      BY <2>1, ConcatEmptySeq
  <1>5. \A e : e.sent = c.sent => SentBy(e) = SentBy(c)
    BY DEF SentBy
  <1> QED
    BY <1>2, <1>3, <1>4, <1>5 DEF Sends

\* A fetch begins: its request is sent unless somebody waits for it.
LEMMA LaunchedLine ==
  ASSUME NEW d \in Seq(Messages), NEW A \in Seq(Asks), NEW c \in CatchUps, NEW f \in Fetches, NEW epoch \in Nat,
         NEW g, g = Launched(c, f)
  PROVE  /\ g \in CatchUps /\ g.fetches = c.fetches \union {f}
         /\ g.status = c.status /\ g.request = c.request /\ g.pending = c.pending /\ g.cache = c.cache
         /\ \/ f.request \in Wanted(c) /\ Sends(d, A, g, epoch) = Sends(d, A, c, epoch)
            \/ /\ f.request \notin Wanted(c)
               /\ Longer(Sends(d, A, c, epoch), Sends(d, A, g, epoch), OfAsk(Ask(f.request), epoch))
  <1>1. c.sent \in Seq(Requests) /\ f.request \in Requests /\ c.fetches \subseteq Fetches
    BY DEF CatchUps, Fetches
  <1>2. Append(c.sent, f.request) \in Seq(Requests)
    BY <1>1, AppendProperties
  <1>3. /\ g.fetches = c.fetches \union {f}
        /\ g.status = c.status /\ g.request = c.request /\ g.pending = c.pending /\ g.cache = c.cache
        /\ g.sent = IF \E h \in c.fetches : h.request = f.request THEN c.sent ELSE Append(c.sent, f.request)
    BY DEF Launched, CatchUps
  <1>4. g \in CatchUps
    BY <1>1, <1>2 DEF Launched, CatchUps
  <1>5. f.request \in Wanted(c) <=> \E h \in c.fetches : h.request = f.request
    BY DEF Wanted
  <1>6. CASE f.request \in Wanted(c)
    BY <1>1, <1>3, <1>4, <1>5, <1>6, SendsMade
  <1>7. CASE f.request \notin Wanted(c)
    <2>1. A \o SentBy(g) = Append(A \o SentBy(c), Ask(f.request))
      BY <1>1, <1>3, <1>5, <1>7, SentMore
    <2>2. A \o SentBy(c) \in Seq(Asks) /\ Ask(f.request) \in Asks
      BY <1>1, SendsMade DEF Ask, Asks
    <2>3. Longer(Sends(d, A, c, epoch), Sends(d, A, g, epoch), OfAsk(Ask(f.request), epoch))
      BY <2>1, <2>2, LineSends DEF Sends
    <2> QED
      BY <1>3, <1>4, <1>7, <2>3
  <1> QED
    BY <1>6, <1>7

\* A request may begin: nothing ahead of it goes past its row, or nothing ahead of it extends.
Startable(M, r) ==
  \/ r.dir = "after" /\ Bounded(M, Position(r))
  \/ Harmless(M)
Joins(M, N, r, R, epoch) ==
  (r \in R /\ N = M) \/ (r \notin R /\ Longer(M, N, OfAsk(Ask(r), epoch)))

\* The entry of a request somebody waits for.
LEMMA AskedEntry ==
  ASSUME NEW r \in Requests, NEW epoch
  PROVE  OfAsk(Ask(r), epoch) = Entry(r, TRUE, FALSE, r.dir = "after" /\ r.epoch = epoch)
  BY SomeRequests DEF OfAsk, Ask

\* Requests after the same row are the same.
LEMMA SamePosition ==
  ASSUME NEW q \in Requests, NEW r \in Requests, q.dir = "after", r.dir = "after", q # r,
         UpTo(Position(q), Position(r))
  PROVE  Before(Position(q), Position(r))
  <1>1. /\ q.epoch \in Nat /\ q.seq \in Nat /\ r.epoch \in Nat /\ r.seq \in Nat
        /\ q.epoch # r.epoch \/ q.seq # r.seq
    BY Bounds DEF Requests, TailFetch, Request
  <1> QED
    BY <1>1 DEF UpTo, Before, Position, Row

\* The places of a longer line.
LEMMA LongerPlaces ==
  ASSUME NEW M, NEW N, NEW x, Longer(M, N, x)
  PROVE  /\ \A i \in DOMAIN N : (i \in DOMAIN M /\ N[i] = M[i]) \/ N[i] = x
         /\ \A i, j \in DOMAIN N : i < j => i \in DOMAIN M /\ N[i] = M[i] /\ ((j \in DOMAIN M /\ N[j] = M[j]) \/ N[j] = x)
  BY DEF Longer

\* A line with a request behind it: what it keeps.
LEMMA JoinKeeps ==
  ASSUME NEW M \in Lines, NEW N, NEW r \in Requests, NEW R, NEW epoch \in Nat, Joins(M, N, r, R, epoch),
         r.dir = "after" => r.epoch <= epoch
  PROVE  /\ Older(M, epoch) => Older(N, epoch)
         /\ \A p : Bounded(M, p) /\ (r.dir = "after" => UpTo(Position(r), p)) => Bounded(N, p)
         /\ TailsAwaited(M) => TailsAwaited(N)
         /\ Harmless(M) /\ r.dir # "after" => Harmless(N)
  <1> DEFINE b == r.dir = "after" /\ r.epoch = epoch
             x == Entry(r, TRUE, FALSE, b)
  <1>1. OfAsk(Ask(r), epoch) = x
    BY AskedEntry
  <1>2. x.request = r /\ x.waited /\ ~x.failed /\ (x.extends <=> b)
    BY DEF Entry
  <1>3. r.dir = "after" => r.epoch \in Nat
    BY Bounds DEF Requests, TailFetch, Request
  <1> HIDE DEF x
  <1>4. CASE N = M
    BY <1>4
  <1>5. CASE Longer(M, N, x)
    <2>1. \A i \in DOMAIN N : (i \in DOMAIN M /\ N[i] = M[i]) \/ N[i] = x
      BY <1>5, LongerPlaces
    <2>2. Older(M, epoch) => Older(N, epoch)
      BY <1>2, <1>3, <2>1 DEF Older
    <2>3. \A p : Bounded(M, p) /\ (r.dir = "after" => UpTo(Position(r), p)) => Bounded(N, p)
      BY <1>2, <2>1 DEF Bounded
    <2>4. TailsAwaited(M) => TailsAwaited(N)
      BY <1>2, <2>1 DEF TailsAwaited
    <2>5. Harmless(M) /\ r.dir # "after" => Harmless(N)
      BY <1>2, <2>1 DEF Harmless
    <2> QED
      BY <2>2, <2>3, <2>4, <2>5
  <1> QED
    BY <1>1, <1>4, <1>5 DEF Joins

\* The request of a new owner keeps the line in order.
LEMMA LaunchKeeps ==
  ASSUME NEW M \in Lines, NEW N, NEW r \in Requests, NEW R, NEW O, NEW epoch \in Nat, Joins(M, N, r, R, epoch),
         LineOK(M, O, R), Older(M, epoch), Startable(M, r), TailFetch \notin O \/ r = TailFetch
  PROVE  LineOK(N, {r}, R \union {r})
  <1> DEFINE b == r.dir = "after" /\ r.epoch = epoch
             x == Entry(r, TRUE, FALSE, b)
             Q == {r}
             S == R \union {r}
  <1>1. OfAsk(Ask(r), epoch) = x
    BY AskedEntry
  <1>2. x.request = r /\ x.waited /\ ~x.failed /\ (x.extends <=> b)
    BY DEF Entry
  <1> HIDE DEF x
  <1>3. ASSUME NEW i \in DOMAIN M
        PROVE  /\ M[i].request \in Requests \union {NoRequest}
               /\ M[i].extends => M[i].request.dir = "after" /\ ~M[i].failed
               /\ M[i].waited \in BOOLEAN /\ M[i].failed \in BOOLEAN /\ M[i].extends \in BOOLEAN
    <2>1. M[i] \in Entries /\ (M[i].extends => M[i].request.dir = "after" /\ ~M[i].failed)
      BY LineEntries
    <2> QED
      BY <2>1, EntryTypes, SomeRequests
  <1>4. ASSUME NEW i \in DOMAIN M PROVE EntryOK(M[i], Q, S)
    BY DEF LineOK, EntryOK
  \* An answer somebody waits for is not of request r when something behind it extends.
  <1>5. ASSUME NEW i \in DOMAIN M, NEW j \in DOMAIN M, i < j, M[i].waited, ~M[i].failed, M[j].extends
        PROVE  M[i].request # r /\ (M[i].request.dir = "after" => Before(Position(M[i].request), Position(M[j].request)))
    <2>1. M[i].request.dir = "after" => Before(Position(M[i].request), Position(M[j].request))
      BY <1>5 DEF LineOK, PairOK
    <2>2. ~Harmless(M)
      BY <1>5 DEF Harmless
    <2>3. r.dir = "after" /\ Bounded(M, Position(r))
      BY <2>2 DEF Startable
    <2>4. M[j].request.dir = "after" /\ M[j].request \in Requests /\ ~M[j].failed
      BY <1>3, <1>5, SomeRequests
    <2>5. UpTo(Position(M[j].request), Position(r))
      BY <2>3, <2>4 DEF Bounded
    <2>6. Position(M[j].request) \in Points /\ Position(r) \in Points
      BY <2>3, <2>4, PointTypes
    <2>7. ~Before(Position(r), Position(M[j].request))
      BY <2>5, <2>6 DEF Before, UpTo, Points
    <2>8. M[i].request # r
      BY <2>1, <2>3, <2>7
    <2> QED
      BY <2>1, <2>8
  <1>6. ASSUME NEW i \in DOMAIN M, NEW j \in DOMAIN M, i < j PROVE PairOK(M[i], M[j], Q)
    <2>1. M[i].waited /\ M[j].waited => M[i].request # M[j].request
      BY <1>6 DEF LineOK, PairOK
    <2>2. M[i].waited /\ ~M[i].failed /\ M[j].extends =>
            /\ M[i].request \notin Q
            /\ M[i].request.dir = "after" => Before(Position(M[i].request), Position(M[j].request))
      BY <1>5, <1>6
    <2>3. M[j].request = TailFetch /\ (M[j].failed \/ ~M[j].waited) => ~M[i].extends
      BY <1>6 DEF LineOK, PairOK
    <2>4. TailFetch \in Q => ~M[i].extends
      BY SomeRequests DEF Startable, Harmless
    <2> QED
      BY <2>1, <2>2, <2>3, <2>4 DEF PairOK
  <1>7. CASE r \in R /\ N = M
    BY <1>4, <1>6, <1>7 DEF LineOK
  <1>8. CASE r \notin R /\ Longer(M, N, x)
    <2>1. /\ \A i \in DOMAIN N : (i \in DOMAIN M /\ N[i] = M[i]) \/ N[i] = x
          /\ \A i, j \in DOMAIN N : i < j =>
               i \in DOMAIN M /\ N[i] = M[i] /\ ((j \in DOMAIN M /\ N[j] = M[j]) \/ N[j] = x)
      BY <1>8, LongerPlaces
    <2>2. EntryOK(x, Q, S)
      BY <1>2 DEF EntryOK
    <2>3. ASSUME NEW i \in DOMAIN M PROVE PairOK(M[i], x, Q)
      <3>1. M[i].waited => M[i].request # r
        BY <1>8 DEF LineOK, EntryOK
      <3>2. ASSUME M[i].waited, ~M[i].failed, M[i].request.dir = "after", b
            PROVE  Before(Position(M[i].request), Position(r))
        <4>1. M[i].request \in Requests /\ M[i].request # r
          BY <1>3, <3>1, <3>2, SomeRequests
        <4>2. CASE r.dir = "after" /\ Bounded(M, Position(r))
          BY <3>2, <4>1, <4>2, SamePosition DEF Bounded
        <4>3. CASE Harmless(M)
          <5>1. M[i].request.epoch < epoch
            BY <3>2, <4>3 DEF Harmless, Older
          <5> QED
            BY <3>2, <5>1 DEF Before, Position, Row
        <4> QED
          BY <4>2, <4>3 DEF Startable
      <3>3. r = TailFetch => ~M[i].extends
        BY SomeRequests DEF Startable, Harmless
      <3> QED
        BY <1>2, <3>1, <3>2, <3>3 DEF PairOK
    <2> QED
      BY <1>4, <1>6, <2>1, <2>2, <2>3 DEF LineOK
  <1> QED
    BY <1>1, <1>7, <1>8 DEF Joins

\* So does a tail that nobody's catch-up waits for.
LEMMA NoticeKeepsLine ==
  ASSUME NEW M \in Lines, NEW N, NEW R, NEW O, NEW epoch \in Nat, Joins(M, N, TailFetch, R, epoch),
         LineOK(M, O, R), O \subseteq R
  PROVE  LineOK(N, O, R \union {TailFetch}) /\ (Harmless(M) => Harmless(N))
  <1> DEFINE x == Entry(TailFetch, TRUE, FALSE, FALSE)
             S == R \union {TailFetch}
  <1>1. OfAsk(Ask(TailFetch), epoch) = x
    BY AskedEntry, SomeRequests
  <1>2. x.request = TailFetch /\ x.waited /\ ~x.failed /\ ~x.extends
    BY DEF Entry
  <1> HIDE DEF x
  <1>3. \A i \in DOMAIN M : EntryOK(M[i], O, S)
    BY DEF LineOK, EntryOK
  <1>4. CASE TailFetch \in R /\ N = M
    BY <1>3, <1>4 DEF LineOK
  <1>5. CASE TailFetch \notin R /\ Longer(M, N, x)
    <2>1. /\ \A i \in DOMAIN N : (i \in DOMAIN M /\ N[i] = M[i]) \/ N[i] = x
          /\ \A i, j \in DOMAIN N : i < j =>
               i \in DOMAIN M /\ N[i] = M[i] /\ ((j \in DOMAIN M /\ N[j] = M[j]) \/ N[j] = x)
      BY <1>5, LongerPlaces
    <2>2. EntryOK(x, O, S)
      BY <1>2 DEF EntryOK
    <2>3. ASSUME NEW i \in DOMAIN M PROVE PairOK(M[i], x, O)
      <3>1. M[i].waited => M[i].request # TailFetch
        BY <1>5 DEF LineOK, EntryOK
      <3> QED
        BY <1>2, <1>5, <3>1 DEF PairOK
    <2>4. LineOK(N, O, S)
      BY <1>3, <2>1, <2>2, <2>3 DEF LineOK
    <2> QED
      BY <1>2, <2>1, <2>4 DEF Harmless
  <1> QED
    BY <1>1, <1>4, <1>5, SomeRequests DEF Joins

-----------------------------------------------------------------------------
(* The catch-up and the line.                                              *)

HasLatest(c) == \E f \in c.fetches : f.kind = "latest"
OwnsTail(c) == \E f \in c.fetches : f.owner /\ f.kind = "page" /\ f.request = TailFetch

Modes(c, live) ==
  /\ c.status # "none" => live /\ c.cache = "yes"
  /\ \A f \in c.fetches :
       /\ f.owner => c.status = "running"
       /\ f.kind = "latest" => f.owner /\ f.request = TailFetch
       /\ f.kind = "notice" => ~f.owner
       /\ f.owner /\ f.kind = "page" /\ f.request = TailFetch => c.request = TailFetch

\* While nothing is asked for, or only the latest tail, nothing in the line extends.
Quiet(c, L) ==
  /\ c.status \in {"none", "complete"} \/ HasLatest(c) => Harmless(L)
  /\ HasLatest(c) => TailsAwaited(L)

Run(c, L, epoch, live) ==
  /\ c \in CatchUps /\ OneOwner(c.fetches) /\ L \in Lines
  /\ LineOK(L, Owned(c), Wanted(c)) /\ Older(L, epoch)
  /\ Modes(c, live) /\ Quiet(c, L)

\* What is asked for, and what may be, is not past point p.
Within(c, L, p) ==
  Bounded(L, p) /\ (c.pending # NoRequest => UpTo(Position(c.pending), p))

\* What a start leaves of the catch-up unless it launches a fetch.
SameFetches(c, e, request) ==
  /\ e \in CatchUps /\ e.fetches = c.fetches /\ e.sent = c.sent
  /\ e.status = c.status /\ e.request = c.request
  /\ e.pending = c.pending \/ (request # NoRequest /\ e.pending = request)
  /\ e.cache = "yes" <=> c.cache = "yes"
  /\ e.status = "complete" => e = c
\* And what it launches.
Launching(c, b, next) ==
  /\ b \in CatchUps /\ b.fetches = Disowned(c.fetches) /\ b.sent = c.sent
  /\ b.status = "running" /\ b.request = next /\ b.pending = NoRequest /\ b.cache = c.cache

\* The two ways a start may go.
Ways(c, e, request, next, live) ==
  \/ SameFetches(c, e, request)
  \/ /\ live /\ c.cache = "yes" /\ (c.status = "running" => c.request.dir # "tail")
     /\ \E fallback \in BOOLEAN : \E b :
          Launching(c, b, next) /\ e = Launched(b, Fetch("page", next, TRUE, fallback))
\* A start goes one of them.
LEMMA StartedWays ==
  ASSUME NEW c \in CatchUps, NEW live \in BOOLEAN, Modes(c, live), NEW range,
         NEW request \in Requests \union {NoRequest},
         NEW next \in Requests, next = IF request # NoRequest THEN request ELSE ResumeFetch(range),
         NEW e, e = Started(c, live, request, range)
  PROVE  Ways(c, e, request, next, live)
  <1> DEFINE sup == request # NoRequest
             way == Decision(c, next, sup)
             b == [c EXCEPT !.status = "running", !.request = next, !.pending = NoRequest,
                            !.fetches = Disowned(@)]
             fb == ~sup /\ next.dir = "after"
             x == [c EXCEPT !.pending = IF sup THEN request ELSE @,
                            !.cache = IF live /\ @ = "no" THEN "loading" ELSE @]
             y == [c EXCEPT !.pending = next]
  <1>1. e = IF ~live \/ c.cache # "yes" THEN x
            ELSE IF way = "keep" THEN c
            ELSE IF way = "park" THEN y
            ELSE Launched(b, Fetch("page", next, TRUE, fb))
    BY DEF Started
  <1>2. c.status \in {"none", "running", "complete", "error"}
    BY DEF CatchUps
  <1>3. CASE ~live \/ c.cache # "yes"
    <2>1. c.status = "none"
      BY <1>3 DEF Modes
    <2>2. SameFetches(c, x, request)
      BY <1>3, <2>1 DEF SameFetches, CatchUps
    <2> QED
      BY <1>1, <1>3, <2>2 DEF Ways
  <1>4. CASE live /\ c.cache = "yes" /\ way = "keep"
    BY <1>1, <1>4 DEF SameFetches, Ways
  <1>5. CASE live /\ c.cache = "yes" /\ way = "park"
    <2>1. sup /\ c.status = "running"
      BY <1>2, <1>5 DEF Decision
    <2>2. SameFetches(c, y, request)
      BY <2>1 DEF SameFetches, CatchUps
    <2> QED
      BY <1>1, <1>5, <2>2 DEF Ways
  <1>6. CASE live /\ c.cache = "yes" /\ way # "keep" /\ way # "park"
    <2>1. c.status = "running" => c.request.dir # "tail"
      BY <1>6 DEF Decision
    <2>2. Disowned(c.fetches) \subseteq Fetches
      <3>1. \A f \in Fetches : [f EXCEPT !.owner = FALSE] \in Fetches
        BY DEF Fetches
      <3> QED
        BY <3>1 DEF Disowned, CatchUps
    <2>3. Launching(c, b, next)
      BY <2>2 DEF Launching, CatchUps
    <2>4. fb \in BOOLEAN
      OBVIOUS
    <2>5. e = Launched(b, Fetch("page", next, TRUE, fb))
      BY <1>1, <1>6
    <2> HIDE DEF b, fb
    <2> QED
      BY <1>6, <2>1, <2>3, <2>4, <2>5 DEF Ways
  <1> HIDE DEF x, y, b, fb, way
  <1> QED
    BY <1>3, <1>4, <1>5, <1>6 DEF Ways

\* Fetches that are disowned wait as before.
LEMMA DisownedSame ==
  ASSUME NEW c, NEW b, b.fetches = Disowned(c.fetches), c.fetches \subseteq Fetches
  PROVE  /\ Wanted(b) = Wanted(c) /\ Owned(b) = {} /\ (HasLatest(b) <=> HasLatest(c))
         /\ \A f \in b.fetches : ~f.owner /\ \E g \in c.fetches : f.kind = g.kind /\ f.request = g.request
  <1>1. \A f \in b.fetches : ~f.owner /\ \E g \in c.fetches : f.kind = g.kind /\ f.request = g.request
    BY DEF Disowned, Fetches
  <1>2. \A g \in c.fetches : \E f \in b.fetches : f.kind = g.kind /\ f.request = g.request
    <2> SUFFICES ASSUME NEW g \in c.fetches PROVE \E f \in b.fetches : f.kind = g.kind /\ f.request = g.request
      OBVIOUS
    <2>1. [g EXCEPT !.owner = FALSE] \in b.fetches
      BY DEF Disowned
    <2>2. [g EXCEPT !.owner = FALSE].kind = g.kind /\ [g EXCEPT !.owner = FALSE].request = g.request
      BY DEF Fetches
    <2> QED
      BY <2>1, <2>2
  <1>3. Wanted(b) = Wanted(c)
    <2>1. \A r : r \in Wanted(b) => r \in Wanted(c)
      BY <1>1 DEF Wanted
    <2>2. \A r : r \in Wanted(c) => r \in Wanted(b)
      BY <1>2 DEF Wanted
    <2> QED
      BY <2>1, <2>2
  <1>4. Owned(b) = {}
    BY <1>1 DEF Owned
  <1>5. HasLatest(b) <=> HasLatest(c)
    BY <1>1, <1>2 DEF HasLatest
  <1> QED
    BY <1>1, <1>3, <1>4, <1>5

\* The parts of a fetch.
LEMMA FetchMade ==
  ASSUME NEW kind \in {"page", "latest", "notice"}, NEW r \in Requests, NEW o \in BOOLEAN, NEW fb \in BOOLEAN
  PROVE  /\ Fetch(kind, r, o, fb) \in Fetches
         /\ Fetch(kind, r, o, fb).kind = kind /\ Fetch(kind, r, o, fb).request = r
         /\ Fetch(kind, r, o, fb).owner = o /\ Fetch(kind, r, o, fb).fallback = fb
  BY DEF Fetch, Fetches

\* A launched owner is the only one.
LEMMA LaunchedOwner ==
  ASSUME NEW b, NEW f, NEW e, e.fetches = b.fetches \union {f}, Owned(b) = {}, f.owner
  PROVE  Owned(e) = {f.request} /\ Wanted(e) = Wanted(b) \union {f.request}
  <1>1. \A g \in b.fetches : ~g.owner
    BY DEF Owned
  <1>2. \A r : r \in Owned(e) <=> r = f.request
    BY <1>1 DEF Owned
  <1>3. \A r : r \in Wanted(e) <=> r \in Wanted(b) \/ r = f.request
    BY DEF Wanted
  <1> QED
    BY <1>2, <1>3

\* What is asked for when a catch-up is started.
Asking(request, next, range, epoch) ==
  /\ request \in Requests \union {NoRequest} /\ (request # NoRequest => request.dir = "after")
  /\ next \in Requests /\ next = (IF request # NoRequest THEN request ELSE ResumeFetch(range))
  /\ next.dir = "after" => next.epoch <= epoch
\* Catch-up c with line M becomes e with line N.
StartsOn(c, e, M, N, next, epoch, live) ==
  /\ Run(e, N, epoch, live) /\ ~HasLatest(e)
  /\ OwnsTail(e) => OwnsTail(c) \/ next = TailFetch
  /\ e.status = "complete" => e = c
  /\ \A p : (next.dir = "after" => UpTo(Position(next), p)) =>
       (Within(c, M, p) => Within(e, N, p)) /\ (Bounded(M, p) => Bounded(N, p))

\* A catch-up is started, or started again.
LEMMA StartedRun ==
  ASSUME NEW d \in Seq(Messages), NEW A \in Seq(Asks), NEW epoch \in Nat, NEW live \in BOOLEAN, NEW range,
         NEW c, Run(c, Sends(d, A, c, epoch), epoch, live), ~HasLatest(c),
         NEW request, NEW next, Asking(request, next, range, epoch), Startable(Sends(d, A, c, epoch), next),
         NEW e, e = Started(c, live, request, range)
  PROVE  StartsOn(c, e, Sends(d, A, c, epoch), Sends(d, A, e, epoch), next, epoch, live)
  <1>0. /\ request \in Requests \union {NoRequest} /\ (request # NoRequest => request.dir = "after")
        /\ next \in Requests /\ next = (IF request # NoRequest THEN request ELSE ResumeFetch(range))
        /\ next.dir = "after" => next.epoch <= epoch
    BY DEF Asking
  <1> DEFINE M == Sends(d, A, c, epoch)
             N == Sends(d, A, e, epoch)
  <1>1. /\ c \in CatchUps /\ OneOwner(c.fetches) /\ M \in Lines
        /\ LineOK(M, Owned(c), Wanted(c)) /\ Older(M, epoch) /\ Modes(c, live) /\ Quiet(c, M)
        /\ c.sent \in Seq(Requests) /\ c.fetches \subseteq Fetches
    BY DEF Run, CatchUps
  <1>2. CASE SameFetches(c, e, request)
    <2>1. N = M
      BY <1>1, <1>2, SendsMade DEF SameFetches
    <2>2. Owned(e) = Owned(c) /\ Wanted(e) = Wanted(c) /\ (HasLatest(e) <=> HasLatest(c)) /\ (OwnsTail(e) <=> OwnsTail(c))
      BY <1>2 DEF SameFetches, Owned, Wanted, HasLatest, OwnsTail
    <2>3. Modes(e, live)
      BY <1>1, <1>2 DEF SameFetches, Modes
    <2>4. Quiet(e, N)
      BY <1>1, <1>2, <2>1, <2>2 DEF SameFetches, Quiet
    <2>5. Run(e, N, epoch, live)
      BY <1>1, <1>2, <2>1, <2>2, <2>3, <2>4 DEF SameFetches, Run
    <2>6. ASSUME NEW p, next.dir = "after" => UpTo(Position(next), p)
          PROVE  (Within(c, M, p) => Within(e, N, p)) /\ (Bounded(M, p) => Bounded(N, p))
      BY <1>0, <1>2, <2>1, <2>6 DEF SameFetches, Within
    <2>7. e.status = "complete" => e = c
      BY <1>2 DEF SameFetches
    <2> QED
      BY <2>2, <2>5, <2>6, <2>7 DEF StartsOn
  <1>3. ASSUME NEW b, NEW fb \in BOOLEAN, live, c.cache = "yes", c.status = "running" => c.request.dir # "tail",
               Launching(c, b, next), e = Launched(b, Fetch("page", next, TRUE, fb))
        PROVE  StartsOn(c, e, M, N, next, epoch, live)
    <2> DEFINE f == Fetch("page", next, TRUE, fb)
    <2>1. f \in Fetches /\ f.kind = "page" /\ f.request = next /\ f.owner
      BY <1>0 DEF Fetch, Fetches
    <2>2. e = Launched(b, f)
      BY <1>3
    <2> HIDE DEF f
    <2>3. /\ b \in CatchUps /\ b.fetches = Disowned(c.fetches) /\ b.sent = c.sent
          /\ b.status = "running" /\ b.request = next /\ b.pending = NoRequest /\ b.cache = c.cache
      BY <1>3 DEF Launching
    <2>4. /\ Wanted(b) = Wanted(c) /\ Owned(b) = {} /\ (HasLatest(b) <=> HasLatest(c))
          /\ \A g \in b.fetches : ~g.owner /\ \E h \in c.fetches : g.kind = h.kind /\ g.request = h.request
      BY <1>1, <2>3, DisownedSame
    <2>5. Sends(d, A, b, epoch) = M
      BY <1>1, <2>3, SendsMade
    <2>6. /\ e \in CatchUps /\ e.fetches = b.fetches \union {f}
          /\ e.status = "running" /\ e.request = next /\ e.pending = NoRequest /\ e.cache = "yes"
          /\ \/ next \in Wanted(c) /\ N = M
             \/ next \notin Wanted(c) /\ Longer(M, N, OfAsk(Ask(next), epoch))
      <3>1. /\ e \in CatchUps /\ e.fetches = b.fetches \union {f}
            /\ e.status = b.status /\ e.request = b.request /\ e.pending = b.pending /\ e.cache = b.cache
            /\ \/ f.request \in Wanted(b) /\ Sends(d, A, e, epoch) = Sends(d, A, b, epoch)
               \/ /\ f.request \notin Wanted(b)
                  /\ Longer(Sends(d, A, b, epoch), Sends(d, A, e, epoch), OfAsk(Ask(f.request), epoch))
        BY <2>1, <2>2, <2>3, LaunchedLine
      <3> QED
        BY <1>3, <2>1, <2>3, <2>4, <2>5, <3>1
    <2>7. Owned(e) = {next} /\ Wanted(e) = Wanted(c) \union {next}
      BY <2>1, <2>4, <2>6, LaunchedOwner
    <2>8. TailFetch \notin Owned(c) \/ next = TailFetch
      <3>1. ASSUME TailFetch \in Owned(c) PROVE FALSE
        <4>1. PICK g \in c.fetches : g.owner /\ g.request = TailFetch
          BY <3>1 DEF Owned
        <4>2. g.kind # "latest" /\ g.kind # "notice" /\ g \in Fetches
          BY <1>1, <4>1 DEF HasLatest, Modes
        <4>3. c.status = "running" /\ c.request = TailFetch
          BY <1>1, <4>1, <4>2 DEF Modes, Fetches
        <4> QED
          BY <1>3, <4>3, SomeRequests
      <3> QED
        BY <3>1
    <2>9. Joins(M, N, next, Wanted(c), epoch) /\ Startable(M, next)
      BY <2>6 DEF Joins
    <2>10. LineOK(N, {next}, Wanted(c) \union {next})
      <3> HIDE DEF M, N
      <3> QED
        BY <1>0, <1>1, <2>8, <2>9, LaunchKeeps
    <2>11. /\ Older(N, epoch)
           /\ \A p : Bounded(M, p) /\ (next.dir = "after" => UpTo(Position(next), p)) => Bounded(N, p)
      <3> HIDE DEF M, N
      <3> QED
        BY <1>0, <1>1, <2>9, JoinKeeps
    <2>12. \A g \in e.fetches : g = f \/ (~g.owner /\ g.kind # "latest")
      BY <2>4, <2>6 DEF HasLatest
    <2>13. ~HasLatest(e) /\ (OwnsTail(e) => next = TailFetch) /\ OneOwner(e.fetches)
      BY <2>1, <2>12 DEF HasLatest, OwnsTail, OneOwner
    <2>14. Modes(e, live)
      BY <1>3, <2>1, <2>6, <2>12 DEF Modes
    <2>15. Quiet(e, N)
      BY <2>6, <2>13 DEF Quiet
    <2>16. N \in Lines
      <3>1. e.sent \in Seq(Requests)
        BY <2>6 DEF CatchUps
      <3> QED
        BY <3>1, SendsMade
    <2>17. Run(e, N, epoch, live)
      BY <2>6, <2>7, <2>10, <2>11, <2>13, <2>14, <2>15, <2>16 DEF Run
    <2>18. \A p : (next.dir = "after" => UpTo(Position(next), p)) =>
                (Within(c, M, p) => Within(e, N, p)) /\ (Bounded(M, p) => Bounded(N, p))
      BY <2>6, <2>11 DEF Within
    <2>19. e.status # "complete"
      BY <2>6
    <2> QED
      BY <2>13, <2>17, <2>18, <2>19 DEF StartsOn
  <1>4. Ways(c, e, request, next, live)
    BY <1>0, <1>1, StartedWays
  <1> HIDE DEF M, N
  <1>5. StartsOn(c, e, M, N, next, epoch, live)
    <2>1. CASE SameFetches(c, e, request)
      BY <1>2, <2>1 DEF M, N
    <2>2. CASE ~SameFetches(c, e, request)
      <3>1. /\ live /\ c.cache = "yes" /\ (c.status = "running" => c.request.dir # "tail")
            /\ \E fb \in BOOLEAN : \E b :
                 Launching(c, b, next) /\ e = Launched(b, Fetch("page", next, TRUE, fb))
        BY ONLY <1>4, <2>2 DEF Ways
      <3>2. PICK fb \in BOOLEAN : \E b : Launching(c, b, next) /\ e = Launched(b, Fetch("page", next, TRUE, fb))
        BY ONLY <3>1
      <3>3. PICK b : Launching(c, b, next) /\ e = Launched(b, Fetch("page", next, TRUE, fb))
        BY ONLY <3>2
      <3> QED
        BY ONLY <1>3, <3>1, <3>3
    <2> QED
      BY ONLY <2>1, <2>2
  <1> QED
    BY ONLY <1>5 DEF M, N

\* Recoveries go on from rows that never go back.
Recoveries(q, epoch) ==
  /\ q \in Seq(Requests)
  /\ \A i \in 1..Len(q) : q[i].dir = "after" /\ q[i].epoch <= epoch
  /\ \A i, j \in 1..Len(q) : i < j => UpTo(Position(q[i]), Position(q[j]))
Ahead(q, i, L) == \A j \in 1..Len(q) : i < j => Bounded(L, Position(q[j]))
Ending(q, p) == \A j \in 1..Len(q) : UpTo(Position(q[j]), p)
\* The first i recoveries of q have led from c to e.
Recovering(c, e, d, A, epoch, q, i) ==
  /\ Run(e, Sends(d, A, e, epoch), epoch, Live)
  /\ ~HasLatest(e)
  /\ OwnsTail(e) => OwnsTail(c)
  /\ e.status = "complete" => e = c
  /\ Ahead(q, i, Sends(d, A, e, epoch))
  /\ \A p : Ending(q, p) /\ Within(c, Sends(d, A, c, epoch), p) => Within(e, Sends(d, A, e, epoch), p)

\* One more recovery.
LEMMA RecoverStep ==
  ASSUME NEW d \in Seq(Messages), NEW A \in Seq(Asks), NEW epoch \in Nat, Live \in BOOLEAN, NEW span,
         NEW q, Recoveries(q, epoch), NEW i \in Nat, i + 1 <= Len(q),
         NEW c, NEW x, Recovering(c, x, d, A, epoch, q, i), NEW y, y = Recovered(x, q[i + 1], span)
  PROVE  Recovering(c, y, d, A, epoch, q, i + 1)
  <1> DEFINE r == q[i + 1]
             j == i + 1
  <1>1. /\ Len(q) \in Nat /\ j \in 1..Len(q) /\ i < j
        /\ r \in Requests /\ r.dir = "after" /\ r.epoch <= epoch /\ r # NoRequest
    <2>1. Len(q) \in Nat /\ q \in Seq(Requests)
      BY LenProperties DEF Recoveries
    <2>2. j \in 1..Len(q) /\ i < j
      BY <2>1
    <2>3. r \in Requests
      BY <2>1, <2>2, ElementOfSeq
    <2> QED
      BY <2>1, <2>2, <2>3, SomeRequests DEF Recoveries
  <1>2. \A k \in 1..Len(q) : j < k => i < k /\ UpTo(Position(r), Position(q[k]))
    BY <1>1 DEF Recoveries
  <1> HIDE DEF r, j
  <1>3. /\ Run(x, Sends(d, A, x, epoch), epoch, Live) /\ ~HasLatest(x)
        /\ Bounded(Sends(d, A, x, epoch), Position(r))
    BY <1>1 DEF Recovering, Ahead, r, j
  <1>4. y = Started(x, Live, r, span) /\ Startable(Sends(d, A, x, epoch), r)
    BY <1>1, <1>3 DEF Recovered, Startable, r, j
  <1>10. Asking(r, r, span, epoch)
    BY <1>1 DEF Asking
  <1>11. StartsOn(x, y, Sends(d, A, x, epoch), Sends(d, A, y, epoch), r, epoch, Live)
    BY <1>3, <1>4, <1>10, StartedRun
  <1>5. /\ Run(y, Sends(d, A, y, epoch), epoch, Live) /\ ~HasLatest(y)
        /\ OwnsTail(y) => OwnsTail(x) \/ r = TailFetch
        /\ y.status = "complete" => y = x
        /\ \A p : (r.dir = "after" => UpTo(Position(r), p)) =>
             /\ Within(x, Sends(d, A, x, epoch), p) => Within(y, Sends(d, A, y, epoch), p)
             /\ Bounded(Sends(d, A, x, epoch), p) => Bounded(Sends(d, A, y, epoch), p)
    BY <1>11 DEF StartsOn
  <1>6. Ahead(q, j, Sends(d, A, y, epoch))
    BY <1>2, <1>5 DEF Ahead, Recovering
  <1>7. ASSUME NEW p, Ending(q, p), Within(c, Sends(d, A, c, epoch), p)
        PROVE  Within(y, Sends(d, A, y, epoch), p)
    <2>1. Within(x, Sends(d, A, x, epoch), p) /\ UpTo(Position(r), p)
      BY <1>1, <1>7 DEF Recovering, Ending, r, j
    <2> QED
      BY <1>5, <2>1
  <1>8. (OwnsTail(y) => OwnsTail(c)) /\ (y.status = "complete" => y = c)
    BY <1>1, <1>5, SomeRequests DEF Recovering
  <1>9. Recovering(c, y, d, A, epoch, q, j)
    BY <1>5, <1>6, <1>7, <1>8 DEF Recovering
  <1> QED
    BY <1>9 DEF j

\* The recoveries of the queued rows, one by one.
LEMMA FlushedSteps ==
  ASSUME NEW span, Flushed.recoveries \in Seq(Requests)
  PROVE  \E after : /\ FlushedCatchUp(span) = after[Len(Flushed.recoveries)]
                    /\ after[0] = catchUp
                    /\ \A i \in 1..Len(Flushed.recoveries) :
                         after[i] = Recovered(after[i - 1], Flushed.recoveries[i], span)
  <1> DEFINE q == Flushed.recoveries
             N == Len(q)
             c == catchUp
             Kind(g) == g = [i \in 0..N |-> IF i = 0 THEN c ELSE Recovered(g[i - 1], q[i], span)]
             after == CHOOSE g : Kind(g)
  <1>1. N \in Nat /\ \A i \in 1..N : q[i] \in Requests
    BY LenProperties, ElementOfSeq
  <1>2. FlushedCatchUp(span) = after[N]
    BY DEF FlushedCatchUp
  <1> HIDE DEF q, N, c
  <1>3. Kind(after)
    BY <1>1, FlushExists
  <1> HIDE DEF after
  <1>4. after[0] = c /\ \A i \in 1..N : after[i] = Recovered(after[i - 1], q[i], span)
    BY <1>1, <1>3
  <1> QED
    BY <1>2, <1>4 DEF q, N, c

\* The recoveries of the queued rows.
LEMMA FlushedRun ==
  ASSUME NEW d \in Seq(Messages), NEW A \in Seq(Asks), NEW epoch \in Nat, Live \in BOOLEAN, NEW span,
         Recoveries(Flushed.recoveries, epoch), Ahead(Flushed.recoveries, 0, Sends(d, A, catchUp, epoch)),
         Run(catchUp, Sends(d, A, catchUp, epoch), epoch, Live),
         ~HasLatest(catchUp)
  PROVE  Recovering(catchUp, FlushedCatchUp(span), d, A, epoch, Flushed.recoveries, Len(Flushed.recoveries))
  <1> DEFINE q == Flushed.recoveries
             N == Len(q)
             c == catchUp
  <1>1. N \in Nat
    BY LenProperties DEF Recoveries
  <1>2. PICK after : /\ FlushedCatchUp(span) = after[N] /\ after[0] = c
                     /\ \A i \in 1..N : after[i] = Recovered(after[i - 1], q[i], span)
    BY FlushedSteps DEF Recoveries
  <1> DEFINE T == {n \in Nat : n <= N => Recovering(c, after[n], d, A, epoch, q, n)}
  <1>0. /\ Recoveries(q, epoch) /\ Ahead(q, 0, Sends(d, A, c, epoch))
        /\ Run(c, Sends(d, A, c, epoch), epoch, Live) /\ ~HasLatest(c)
    OBVIOUS
  <1> HIDE DEF q, N, c
  <1>5. 0 \in T
    <2>1. Recovering(c, c, d, A, epoch, q, 0)
      BY <1>0 DEF Recovering
    <2> QED
      BY <1>2, <2>1
  <1>6. ASSUME NEW n \in Nat, n \in T PROVE n + 1 \in T
    <2> SUFFICES ASSUME n + 1 <= N PROVE Recovering(c, after[n + 1], d, A, epoch, q, n + 1)
      OBVIOUS
    <2>1. n + 1 \in 1..N /\ n <= N /\ (n + 1) - 1 = n
      BY <1>1
    <2> DEFINE x == after[n]
               y == after[n + 1]
    <2>2. Recovering(c, x, d, A, epoch, q, n) /\ y = Recovered(x, q[n + 1], span)
      BY <1>1, <1>2, <1>6, <2>1
    <2> HIDE DEF x, y
    <2>3. Recovering(c, y, d, A, epoch, q, n + 1)
      BY <1>0, <2>1, <2>2, RecoverStep DEF N
    <2> QED
      BY <2>3 DEF y
  <1>7. N \in T
    <2> HIDE DEF T
    <2> QED
      BY <1>1, <1>5, <1>6, Induction
  <1> QED
    BY <1>1, <1>2, <1>7 DEF q, N, c

\* Catch-up b is c without those who waited for the answer to r, if they still do.
Rest(c, r, waited) == c.fetches \ { f \in c.fetches : waited /\ f.request = r }
Taking(c, b, r, waited) ==
  /\ b \in CatchUps /\ b.fetches = Rest(c, r, waited) /\ b.sent = c.sent
  /\ b.status = c.status /\ b.request = c.request /\ b.pending = c.pending /\ b.cache = c.cache
\* What is left of the line when its first answer x is taken: catch-up c with line L becomes b with M.
TakesOn(c, b, L, M, x, epoch, live) ==
  /\ Run(b, M, epoch, live)
  /\ HasLatest(b) => HasLatest(c)
  /\ OwnsTail(b) => OwnsTail(c)
  /\ \A p : Within(c, L, p) => Within(b, M, p)
  /\ \A p : Bounded(L, p) => Bounded(M, p)
  /\ Harmless(L) => Harmless(M)
  /\ x.waited => x.request \notin Wanted(b)
  /\ x.waited /\ x.request \in Owned(c) => Owned(b) = {} /\ ~HasLatest(b) /\ ~OwnsTail(b)
  /\ x.waited /\ x.request \in Owned(c) /\ ~x.failed => Harmless(M)
  /\ x.extends => TailsAwaited(M)

\* Those who waited for the first answer, without it.
LEMMA TakenRun ==
  ASSUME NEW L \in Lines, NEW M \in Lines, NEW x, L[1] = x, 1 \in DOMAIN L,
         \A i \in DOMAIN M : i + 1 \in DOMAIN L /\ M[i] = L[i + 1],
         NEW epoch \in Nat, NEW live \in BOOLEAN, NEW c, Run(c, L, epoch, live),
         NEW b, Taking(c, b, x.request, x.waited)
  PROVE  TakesOn(c, b, L, M, x, epoch, live)
  <1> DEFINE r == x.request
             R == Wanted(c)
             O == Owned(c)
  <1>1. /\ LineOK(L, O, R) /\ Older(L, epoch) /\ Modes(c, live) /\ Quiet(c, L)
        /\ OneOwner(c.fetches) /\ c \in CatchUps
    BY DEF Run
  <1>2. /\ b \in CatchUps /\ b.fetches = Rest(c, r, x.waited)
        /\ b.status = c.status /\ b.request = c.request /\ b.pending = c.pending /\ b.cache = c.cache
    BY DEF Taking
  <1>3. /\ b.fetches \subseteq c.fetches
        /\ x.waited => \A f \in b.fetches : f.request # r
        /\ \A f \in c.fetches : f \in b.fetches \/ (x.waited /\ f.request = r)
    BY <1>2 DEF Rest
  <1>4. /\ Owned(b) \subseteq O /\ Wanted(b) \subseteq R
        /\ x.waited => r \notin Wanted(b)
        /\ \A q \in R : q \in Wanted(b) \/ (x.waited /\ q = r)
        /\ \A q \in O : q \in Owned(b) \/ (x.waited /\ q = r)
    <2>1. Owned(b) \subseteq O /\ Wanted(b) \subseteq R
      BY <1>3 DEF Owned, Wanted
    <2>2. x.waited => r \notin Wanted(b)
      BY <1>3 DEF Wanted
    <2>3. \A q \in R : q \in Wanted(b) \/ (x.waited /\ q = r)
      BY <1>3 DEF Wanted
    <2>4. \A q \in O : q \in Owned(b) \/ (x.waited /\ q = r)
      BY <1>3 DEF Owned
    <2> QED
      BY <2>1, <2>2, <2>3, <2>4
  <1>5. /\ OneOwner(b.fetches)
        /\ HasLatest(b) => HasLatest(c)
        /\ OwnsTail(b) => OwnsTail(c)
    BY <1>1, <1>3 DEF OneOwner, HasLatest, OwnsTail
  <1> HIDE DEF R, O
  <1>6. ASSUME NEW i \in DOMAIN M
        PROVE  /\ i + 1 \in DOMAIN L /\ M[i] = L[i + 1] /\ 1 < i + 1
               /\ PairOK(x, M[i], O) /\ EntryOK(M[i], O, R)
    <2>1. i + 1 \in DOMAIN L /\ M[i] = L[i + 1] /\ i \in Nat /\ i >= 1
      <3>1. PICK n \in Nat : M \in [1..n -> Entries]
        BY DEF Lines
      <3> QED
        BY <3>1
    <2>2. 1 < i + 1
      BY <2>1
    <2>3. PairOK(L[1], L[i + 1], O) /\ EntryOK(L[i + 1], O, R)
      BY <1>1, <2>1, <2>2 DEF LineOK
    <2> QED
      BY <2>1, <2>2, <2>3
  <1>7. LineOK(M, Owned(b), Wanted(b))
    <2>1. ASSUME NEW i \in DOMAIN M PROVE EntryOK(M[i], Owned(b), Wanted(b))
      <3> SUFFICES ASSUME M[i].waited
                   PROVE  /\ M[i].request \in Wanted(b)
                          /\ M[i].failed /\ M[i].request = TailFetch => TailFetch \in Owned(b)
        BY DEF EntryOK
      <3>1. M[i].request \in R /\ (M[i].failed /\ M[i].request = TailFetch => TailFetch \in O)
        BY <1>6 DEF EntryOK
      <3>2. x.waited => M[i].request # r
        BY <1>6 DEF PairOK
      <3> QED
        BY <1>4, <3>1, <3>2
    <2>2. ASSUME NEW i \in DOMAIN M, NEW j \in DOMAIN M, i < j PROVE PairOK(M[i], M[j], Owned(b))
      <3>1. i + 1 \in DOMAIN L /\ j + 1 \in DOMAIN L /\ M[i] = L[i + 1] /\ M[j] = L[j + 1]
        BY <1>6
      <3>2. i + 1 < j + 1
        BY <2>2, LineEntries
      <3>3. PairOK(M[i], M[j], O)
        BY <1>1, <3>1, <3>2 DEF LineOK
      <3> QED
        BY <1>4, <3>3 DEF PairOK
    <2> QED
      BY <2>1, <2>2 DEF LineOK
  <1>8. /\ Older(M, epoch)
        /\ \A p : Bounded(L, p) => Bounded(M, p)
        /\ Harmless(L) => Harmless(M)
        /\ TailsAwaited(L) => TailsAwaited(M)
    <2>1. Older(M, epoch)
      BY <1>1, <1>6 DEF Older
    <2>2. \A p : Bounded(L, p) => Bounded(M, p)
      BY <1>6 DEF Bounded
    <2>3. Harmless(L) => Harmless(M)
      BY <1>6 DEF Harmless
    <2>4. TailsAwaited(L) => TailsAwaited(M)
      BY <1>6 DEF TailsAwaited
    <2> QED
      BY <2>1, <2>2, <2>3, <2>4
  <1>9. Modes(b, live)
    BY <1>1, <1>2, <1>3 DEF Modes
  <1>10. Quiet(b, M)
    BY <1>1, <1>2, <1>5, <1>8 DEF Quiet
  <1>11. Run(b, M, epoch, live)
    BY <1>2, <1>5, <1>7, <1>8, <1>9, <1>10 DEF Run
  <1>12. \A p : Within(c, L, p) => Within(b, M, p)
    BY <1>2, <1>8 DEF Within
  <1>13. ASSUME x.waited, r \in O PROVE Owned(b) = {} /\ ~HasLatest(b) /\ ~OwnsTail(b)
    <2>1. PICK f \in c.fetches : f.owner /\ f.request = r
      BY <1>13 DEF O, Owned
    <2>2. \A g \in b.fetches : ~g.owner
      BY <1>1, <1>3, <1>13, <2>1 DEF OneOwner
    <2>3. \A g \in b.fetches : g.kind # "latest"
      BY <1>1, <1>3, <2>2 DEF Modes
    <2> QED
      BY <2>2, <2>3 DEF Owned, HasLatest, OwnsTail
  <1>14. ASSUME x.waited, r \in O, ~x.failed PROVE Harmless(M)
    <2> SUFFICES ASSUME NEW i \in DOMAIN M, M[i].extends PROVE FALSE
      BY DEF Harmless
    <2> QED
      BY <1>6, <1>14 DEF PairOK
  <1>15. ASSUME x.extends PROVE TailsAwaited(M)
    <2> SUFFICES ASSUME NEW i \in DOMAIN M, ~M[i].waited, M[i].request = TailFetch PROVE FALSE
      BY DEF TailsAwaited
    <2> QED
      BY <1>6, <1>15 DEF PairOK
  <1> QED
    BY <1>4, <1>5, <1>8, <1>11, <1>12, <1>13, <1>14, <1>15 DEF TakesOn, O

\* Catch-up e has b's fetches, with no owner.
Resting(b, e, M, epoch, live) ==
  /\ Run(e, M, epoch, live) /\ Owned(e) = {} /\ ~HasLatest(e) /\ ~OwnsTail(e)
  /\ e.sent = b.sent /\ e.pending = b.pending

\* A catch-up completes, when nothing in the line extends.
LEMMA CompletedRun ==
  ASSUME NEW b, NEW M, NEW epoch, NEW live, Run(b, M, epoch, live), Harmless(M),
         Owned(b) = {}, ~HasLatest(b), b.status = "running",
         NEW e, e = Completed(b) \/ e = [Completed(b) EXCEPT !.shown = "ready"]
  PROVE  Resting(b, e, M, epoch, live) /\ e.status = "complete"
  <1>1. /\ b \in CatchUps /\ OneOwner(b.fetches) /\ M \in Lines /\ b.fetches \subseteq Fetches
        /\ LineOK(M, {}, Wanted(b)) /\ Older(M, epoch) /\ Modes(b, live) /\ Quiet(b, M)
    BY DEF Run, CatchUps
  <1>2. Disowned(b.fetches) \subseteq Fetches
    <2>1. \A f \in Fetches : [f EXCEPT !.owner = FALSE] \in Fetches
      BY DEF Fetches
    <2> QED
      BY <1>1, <2>1 DEF Disowned
  <1>3. /\ e \in CatchUps /\ e.fetches = Disowned(b.fetches)
        /\ e.status = "complete" /\ e.pending = b.pending /\ e.cache = b.cache /\ e.sent = b.sent
    BY <1>1, <1>2 DEF Completed, CatchUps
  <1>4. /\ Wanted(e) = Wanted(b) /\ Owned(e) = {} /\ (HasLatest(e) <=> HasLatest(b))
        /\ \A f \in e.fetches : ~f.owner /\ \E g \in b.fetches : f.kind = g.kind /\ f.request = g.request
    BY <1>1, <1>3, DisownedSame
  <1>5. OneOwner(e.fetches) /\ ~OwnsTail(e)
    BY <1>4 DEF OneOwner, OwnsTail
  <1>6. Modes(e, live)
    <2>1. live /\ e.cache = "yes"
      BY <1>1, <1>3 DEF Modes
    <2>2. \A f \in e.fetches : f.kind # "latest" /\ ~f.owner
      BY <1>4 DEF HasLatest
    <2> QED
      BY <2>1, <2>2 DEF Modes
  <1>7. Quiet(e, M)
    BY <1>4 DEF Quiet
  <1> QED
    BY <1>1, <1>3, <1>4, <1>5, <1>6, <1>7 DEF Run, Resting

\* A catch-up fails.
LEMMA FailedRun ==
  ASSUME NEW b, NEW M, NEW epoch, NEW live, Run(b, M, epoch, live),
         Owned(b) = {}, ~HasLatest(b), b.status = "running",
         NEW f \in Fetches, f.owner, NEW e, e = Failed(b, f)
  PROVE  Resting(b, e, M, epoch, live) /\ e.status = "error"
  <1>1. /\ b \in CatchUps /\ OneOwner(b.fetches) /\ M \in Lines /\ b.fetches \subseteq Fetches
        /\ LineOK(M, {}, Wanted(b)) /\ Older(M, epoch) /\ Modes(b, live)
    BY DEF Run, CatchUps
  <1>2. Disowned(b.fetches) \subseteq Fetches
    <2>1. \A g \in Fetches : [g EXCEPT !.owner = FALSE] \in Fetches
      BY DEF Fetches
    <2> QED
      BY <1>1, <2>1 DEF Disowned
  <1>3. /\ e \in CatchUps /\ e.fetches = Disowned(b.fetches)
        /\ e.status = "error" /\ e.pending = b.pending /\ e.cache = b.cache /\ e.sent = b.sent
    <2>1. f.request \in Requests
      BY DEF Fetches
    <2> QED
      BY <1>1, <1>2, <2>1 DEF Failed, CatchUps
  <1>4. /\ Wanted(e) = Wanted(b) /\ Owned(e) = {} /\ (HasLatest(e) <=> HasLatest(b))
        /\ \A g \in e.fetches : ~g.owner /\ \E h \in b.fetches : g.kind = h.kind /\ g.request = h.request
    BY <1>1, <1>3, DisownedSame
  <1>5. OneOwner(e.fetches) /\ ~OwnsTail(e)
    BY <1>4 DEF OneOwner, OwnsTail
  <1>6. Modes(e, live)
    <2>1. live /\ e.cache = "yes"
      BY <1>1, <1>3 DEF Modes
    <2>2. \A g \in e.fetches : g.kind # "latest" /\ ~g.owner
      BY <1>4 DEF HasLatest
    <2> QED
      BY <2>1, <2>2 DEF Modes
  <1>7. Quiet(e, M)
    BY <1>3, <1>4 DEF Quiet
  <1> QED
    BY <1>1, <1>3, <1>4, <1>5, <1>6, <1>7 DEF Run, Resting

\* Catch-up b, whose fetches W waited for the page, goes on as e.
Finishes(W, page) ==
  ~page.error /\ \E f \in W : f.owner /\ (f.kind = "latest" \/ (f.kind = "page" /\ ~page.hasNewer))
GoesOn(b, e, M, N, W, page, epoch, live) ==
  /\ Run(e, N, epoch, live)
  /\ OwnsTail(e) => OwnsTail(b)
  /\ HasLatest(e) => HasLatest(b) \/ page.hasNewer
  /\ e.status = "complete" => e = b \/ Finishes(W, page)
  /\ \A p : (page.hasNewer => UpTo(Row(page.epoch, page.to), p)) /\ Within(b, M, p) => Within(e, N, p)
\* What may be asked for next.
NextOK(c, page, epoch) ==
  /\ c.pending # NoRequest => c.pending \in Requests /\ c.pending.dir = "after" /\ c.pending.epoch <= epoch
  /\ page.hasNewer /\ (\E f \in c.fetches : f.owner /\ f.kind = "page" /\ f.request = page.request /\ ~f.fallback) =>
       CatchUpAfter(page.epoch, page.to) \in Requests /\ page.epoch <= epoch

\* Who owned the catch-up asks for the next page.
LEMMA NextPageRun ==
  ASSUME NEW d \in Seq(Messages), NEW A \in Seq(Asks), NEW epoch \in Nat, NEW live,
         NEW b, Run(b, Sends(d, A, b, epoch), epoch, live), Owned(b) = {}, ~HasLatest(b),
         b.status = "running", Harmless(Sends(d, A, b, epoch)), TailsAwaited(Sends(d, A, b, epoch)),
         NEW f \in Fetches, f.owner,
         \/ f.kind = "latest" /\ f.request = TailFetch
         \/ f.kind = "page" /\ f.request.dir = "after" /\ f.request.epoch <= epoch,
         NEW e, e = Launched(b, f)
  PROVE  /\ Run(e, Sends(d, A, e, epoch), epoch, live)
         /\ ~OwnsTail(e) /\ e.status = "running"
         /\ HasLatest(e) => f.kind = "latest"
         /\ \A p : (f.kind = "page" => UpTo(Position(f.request), p)) /\ Within(b, Sends(d, A, b, epoch), p) =>
              Within(e, Sends(d, A, e, epoch), p)
  <1> DEFINE M == Sends(d, A, b, epoch)
             N == Sends(d, A, e, epoch)
             r == f.request
  <1>1. /\ b \in CatchUps /\ OneOwner(b.fetches) /\ M \in Lines
        /\ LineOK(M, {}, Wanted(b)) /\ Older(M, epoch) /\ Modes(b, live) /\ Quiet(b, M)
        /\ b.sent \in Seq(Requests) /\ b.fetches \subseteq Fetches /\ r \in Requests
    BY DEF Run, CatchUps, Fetches
  <1>2. /\ e \in CatchUps /\ e.fetches = b.fetches \union {f}
        /\ e.status = "running" /\ e.request = b.request /\ e.pending = b.pending /\ e.cache = b.cache
        /\ \/ r \in Wanted(b) /\ N = M
           \/ r \notin Wanted(b) /\ Longer(M, N, OfAsk(Ask(r), epoch))
    BY <1>1, LaunchedLine
  <1>3. Owned(e) = {r} /\ Wanted(e) = Wanted(b) \union {r}
    BY <1>2, LaunchedOwner
  <1>4. Joins(M, N, r, Wanted(b), epoch) /\ Startable(M, r) /\ (r.dir = "after" => r.epoch <= epoch)
    BY <1>2, SomeRequests DEF Joins, Startable
  <1>5. /\ f.kind = "latest" => r.dir # "after"
        /\ f.kind = "page" => r # TailFetch
        /\ r.dir = "after" => f.kind = "page"
    BY SomeRequests
  <1>6. N \in Lines
    <2>1. e.sent \in Seq(Requests)
      BY <1>2 DEF CatchUps
    <2> QED
      BY <2>1, SendsMade
  <1>12. Harmless(M) /\ TailsAwaited(M)
    OBVIOUS
  <1> HIDE DEF M, N, r
  <1>7. LineOK(N, {r}, Wanted(b) \union {r})
    BY ONLY <1>1, <1>4, epoch \in Nat, TailFetch \notin {}, LaunchKeeps
  <1>8. /\ Older(N, epoch) /\ TailsAwaited(N) /\ (r.dir # "after" => Harmless(N))
        /\ \A p : Bounded(M, p) /\ (r.dir = "after" => UpTo(Position(r), p)) => Bounded(N, p)
    BY <1>1, <1>4, <1>12, JoinKeeps
  <1>9. \A g \in b.fetches : ~g.owner /\ g.kind # "latest"
    BY DEF Owned, HasLatest
  <1>10. /\ OneOwner(e.fetches) /\ ~OwnsTail(e) /\ (HasLatest(e) => f.kind = "latest")
    BY <1>2, <1>5, <1>9 DEF OneOwner, OwnsTail, HasLatest, r
  <1>11. Modes(e, live)
    BY <1>1, <1>2, <1>5, <1>9 DEF Modes, r
  <1>13. Quiet(e, N)
    BY <1>2, <1>5, <1>8, <1>10 DEF Quiet
  <1>14. Run(e, N, epoch, live)
    BY <1>1, <1>2, <1>3, <1>6, <1>7, <1>8, <1>10, <1>11, <1>13 DEF Run
  <1>15. \A p : (f.kind = "page" => UpTo(Position(r), p)) /\ Within(b, M, p) => Within(e, N, p)
    BY <1>2, <1>5, <1>8 DEF Within
  <1> QED
    BY <1>2, <1>10, <1>14, <1>15 DEF M, N, r

\* Whoever waited for the first answer goes on.
LEMMA ContinuedRun ==
  ASSUME NEW d \in Seq(Messages), NEW A \in Seq(Asks), NEW epoch \in Nat, Live \in BOOLEAN, NEW span,
         NEW c, NEW L, Run(c, L, epoch, Live),
         NEW page, NEW x, x.request = page.request, x.failed = page.error,
         page.hasNewer => x.extends /\ ~page.error,
         NEW b, Taking(c, b, x.request, x.waited), TakesOn(c, b, L, Sends(d, A, b, epoch), x, epoch, Live),
         NextOK(c, page, epoch),
         NEW W, W = { f \in c.fetches : x.waited /\ f.request = x.request },
         NEW e, e = Continued(b, W, page, span)
  PROVE  GoesOn(b, e, Sends(d, A, b, epoch), Sends(d, A, e, epoch), W, page, epoch, Live)
  <1> DEFINE M == Sends(d, A, b, epoch)
             N == Sends(d, A, e, epoch)
             latest == { f \in W : f.kind = "latest" }
             first == IF page.error \/ latest = {} THEN { f \in W : f.owner } ELSE latest
             f == CHOOSE g \in first : TRUE
             live == Live
  <1>0. live \in BOOLEAN
    OBVIOUS
  <1>1. e = IF first = {} THEN b ELSE IF page.error THEN Failed(b, f) ELSE Resumed(b, f, live, page, span)
    BY DEF Continued
  <1>2. Run(b, M, epoch, live)
    BY DEF TakesOn
  <1>3. /\ c \in CatchUps /\ c.fetches \subseteq Fetches /\ Modes(c, live)
        /\ b.pending = c.pending /\ b.status = c.status
    BY DEF Run, CatchUps, Taking
  <1>4. \A g \in W : g \in c.fetches /\ g.request = x.request /\ x.waited
    OBVIOUS
  <1>5. first # {} => f \in first
    OBVIOUS
  <1>6. first \subseteq W /\ \A g \in first : g.owner
    BY <1>3, <1>4 DEF Modes
  <1> HIDE DEF live
  <1>7. ASSUME first = {} PROVE GoesOn(b, e, M, N, W, page, epoch, live)
    <2>1. e = b
      BY <1>1, <1>7
    <2>2. N = M
      BY <2>1
    <2> HIDE DEF M, N
    <2> QED
      BY ONLY <1>2, <2>1, <2>2 DEF GoesOn
  <1>8. ASSUME first # {} PROVE GoesOn(b, e, M, N, W, page, epoch, live)
    <2>1. f \in W /\ f.owner
      BY <1>5, <1>6, <1>8
    <2>10. ~page.error => f.kind = "latest" \/ latest = {}
      BY <1>5, <1>8
    <2> HIDE DEF f, first
    <2>2. f \in c.fetches /\ f \in Fetches /\ f.request = x.request /\ x.waited
      BY <1>3, <1>4, <2>1
    <2>3. x.request \in Owned(c)
      BY <2>1, <2>2 DEF Owned
    <2>4. /\ Owned(b) = {} /\ ~HasLatest(b) /\ ~OwnsTail(b)
          /\ ~page.error => Harmless(M)
          /\ page.hasNewer => TailsAwaited(M)
      BY <2>2, <2>3 DEF TakesOn
    <2>5. b.status = "running" /\ live
      BY <1>3, <2>1, <2>2 DEF Modes
    <2>6. /\ b \in CatchUps /\ b.sent \in Seq(Requests)
      BY <1>2 DEF Run, CatchUps
    <2> HIDE DEF M, N, latest
    <2>7. ASSUME NEW g, Resting(b, g, M, epoch, live), e = g, g.status = "complete" => Finishes(W, page)
          PROVE  GoesOn(b, e, M, N, W, page, epoch, live)
      <3>1. Run(g, M, epoch, live) /\ ~HasLatest(g) /\ ~OwnsTail(g) /\ g.pending = b.pending /\ g.sent = b.sent
        BY <2>7 DEF Resting
      <3>2. N = M
        BY <2>6, <2>7, <3>1, SendsMade DEF M, N
      <3>3. \A p : Within(b, M, p) => Within(e, N, p)
        BY <2>7, <3>1, <3>2 DEF Within
      <3> QED
        BY <2>7, <3>1, <3>2, <3>3 DEF GoesOn
    <2>8. CASE page.error
      <3>1. e = Failed(b, f)
        BY <1>1, <1>8, <2>8
      <3>2. Resting(b, e, M, epoch, live) /\ e.status = "error"
        BY <1>2, <2>1, <2>2, <2>4, <2>5, <3>1, FailedRun
      <3> QED
        BY <2>7, <3>2
    <2>9. CASE ~page.error
      <3>1. e = Resumed(b, f, live, page, span) /\ Harmless(M)
        BY <1>1, <1>8, <2>4, <2>9
      <3> DEFINE done == [Completed(b) EXCEPT !.shown = "ready"]
                 rest == Completed(b)
      <3>2. /\ Resting(b, done, M, epoch, live) /\ done.status = "complete"
            /\ Resting(b, rest, M, epoch, live) /\ rest.status = "complete"
        BY <1>2, <2>4, <2>5, <3>1, CompletedRun
      <3> HIDE DEF done
      <3>3. CASE f.kind = "latest"
        <4>1. e = done
          BY <3>1, <3>3 DEF Resumed, done
        <4>2. Finishes(W, page)
          BY <2>1, <2>9, <3>3 DEF Finishes
        <4> QED
          BY <2>7, <3>2, <4>1, <4>2
      <3>4. CASE f.kind = "notice"
        BY <1>3, <2>1, <2>2, <3>4 DEF Modes
      <3>5. CASE f.kind = "page" /\ page.hasNewer
        <4> DEFINE next == IF f.fallback THEN Fetch("latest", TailFetch, TRUE, FALSE)
                           ELSE Fetch("page", CatchUpAfter(page.epoch, page.to), TRUE, FALSE)
                   r == CatchUpAfter(page.epoch, page.to)
        <4>1. e = Launched(b, next)
          BY <2>1, <2>5, <3>1, <3>5 DEF Resumed
        <4>2. ~f.fallback => r \in Requests /\ page.epoch <= epoch
          BY <2>1, <2>2, <3>5 DEF NextOK
        <4>3. Position(r) = Row(page.epoch, page.to) /\ r.dir = "after" /\ r.epoch = page.epoch
          BY DEF Position, Row, CatchUpAfter, Request
        <4>4. /\ next \in Fetches /\ next.owner
              /\ \/ next.kind = "latest" /\ next.request = TailFetch
                 \/ next.kind = "page" /\ next.request = r /\ r \in Requests /\ page.epoch <= epoch
          <5> HIDE DEF r
          <5>1. CASE f.fallback
            <6>1. next = Fetch("latest", TailFetch, TRUE, FALSE)
              BY <5>1
            <6> HIDE DEF next
            <6>2. TailFetch \in Requests
              BY SomeRequests
            <6> QED
              BY ONLY <6>1, <6>2, FetchMade
          <5>2. CASE ~f.fallback
            <6>1. next = Fetch("page", r, TRUE, FALSE)
              BY <5>2 DEF r
            <6>2. r \in Requests /\ page.epoch <= epoch
              BY <4>2, <5>2
            <6> HIDE DEF next
            <6> QED
              BY ONLY <6>1, <6>2, FetchMade
          <5> QED
            BY ONLY <5>1, <5>2
        <4> HIDE DEF next, r
        <4>5. /\ Run(e, N, epoch, live) /\ ~OwnsTail(e) /\ e.status = "running"
              /\ \A p : (next.kind = "page" => UpTo(Position(next.request), p)) /\ Within(b, M, p) =>
                   Within(e, N, p)
          <5>1. /\ Run(b, M, epoch, live) /\ Harmless(M) /\ TailsAwaited(M)
            BY <1>2, <2>4, <3>1, <3>5
          <5>2. \/ next.kind = "latest" /\ next.request = TailFetch
                \/ next.kind = "page" /\ next.request.dir = "after" /\ next.request.epoch <= epoch
            BY <4>3, <4>4
          <5> QED
            BY ONLY <4>1, <4>4, <5>1, <5>2, <2>4, <2>5, NextPageRun, epoch \in Nat, d \in Seq(Messages), A \in Seq(Asks) DEF M, N
        <4>6. \A p : UpTo(Row(page.epoch, page.to), p) /\ Within(b, M, p) => Within(e, N, p)
          BY <4>3, <4>4, <4>5
        <4> QED
          BY <3>5, <4>5, <4>6 DEF GoesOn
      <3>6. CASE f.kind = "page" /\ ~page.hasNewer /\ b.pending = NoRequest
        <4>1. e = done
          BY <2>1, <2>5, <3>1, <3>6, SomeRequests DEF Resumed, done
        <4>2. Finishes(W, page)
          BY <2>1, <2>9, <3>6 DEF Finishes
        <4> QED
          BY <2>7, <3>2, <4>1, <4>2
      <3>7. CASE f.kind = "page" /\ ~page.hasNewer /\ b.pending # NoRequest
        <4> DEFINE r == b.pending
        <4>1. e = Started(rest, live, r, span)
          BY <2>1, <2>5, <3>1, <3>7, SomeRequests DEF Resumed
        <4>2. r \in Requests /\ r.dir = "after" /\ r.epoch <= epoch /\ r # NoRequest
          BY <1>3, <3>7 DEF NextOK
        <4> HIDE DEF rest
        <4>8. r = rest.pending
          BY <3>2 DEF Resting
        <4> HIDE DEF r
        <4>3. Sends(d, A, rest, epoch) = M
          BY <2>6, <3>2, SendsMade DEF Resting, M
        <4>4. Asking(r, r, span, epoch)
          BY <4>2 DEF Asking
        <4>5. StartsOn(rest, e, M, N, r, epoch, live)
          <5>1. Run(rest, Sends(d, A, rest, epoch), epoch, live) /\ ~HasLatest(rest)
            BY <3>2, <4>3 DEF Resting
          <5>2. Startable(Sends(d, A, rest, epoch), r)
            BY <3>1, <4>3 DEF Startable
          <5>3. StartsOn(rest, e, Sends(d, A, rest, epoch), Sends(d, A, e, epoch), r, epoch, live)
            BY ONLY <1>0, <4>1, <4>4, <5>1, <5>2, StartedRun, epoch \in Nat, d \in Seq(Messages), A \in Seq(Asks)
          <5> QED
            BY <4>3, <5>3 DEF N
        <4>6. ASSUME NEW p, Within(b, M, p) PROVE Within(e, N, p)
          <5>1. Within(rest, M, p) /\ UpTo(Position(r), p)
            BY <3>2, <3>7, <4>6 DEF Within, Resting, r
          <5> QED
            BY <4>5, <5>1 DEF StartsOn
        <4>7. Run(e, N, epoch, live) /\ ~HasLatest(e) /\ ~OwnsTail(e)
          <5>1. r # TailFetch /\ ~OwnsTail(rest)
            BY <3>2, <4>2, SomeRequests DEF Resting
          <5> QED
            BY <4>5, <5>1 DEF StartsOn
        <4>9. Finishes(W, page)
          BY <2>1, <2>9, <3>7 DEF Finishes
        <4> QED
          BY <4>6, <4>7, <4>9 DEF GoesOn
      <3> QED
        <4>2. f.kind \in {"page", "latest", "notice"}
          BY <2>2 DEF Fetches
        <4> QED
          BY <3>3, <3>4, <3>5, <3>6, <3>7, <4>2
    <2> QED
      BY <2>8, <2>9
  <1> QED
    BY <1>7, <1>8 DEF M, N, live

-----------------------------------------------------------------------------
(* Rows: what the client still has to apply. *)

\* From point p the rows of w lead to the end of the store.
Covers(p, w, st) == \A n \in 1..st.last : (p.epoch = st.epoch /\ n <= p.seq) \/ Row(st.epoch, n) \in w
\* No row of w is past a gap behind p in its epoch, and the store's last row is among them.
Follows1(r, p, w) ==
  \/ Row(r.epoch, r.seq - 1) \in w
  \/ r.epoch = p.epoch /\ r.seq <= p.seq + 1
  \/ r.epoch # p.epoch /\ \A q \in w : q.epoch = r.epoch => r.seq <= q.seq
Reaches(p, w, st) ==
  \/ p.epoch = st.epoch /\ p.seq = st.last
  \/ Row(st.epoch, st.last) \in w
  \/ p.epoch # st.epoch /\ \A q \in w : q.epoch # st.epoch
Gapless(p, w, st) == (\A r \in w : Follows1(r, p, w)) /\ Reaches(p, w, st)

\* Row r, the first of those ahead, is applied to a range that ends at p, which then ends at z.
Applies(p, r, z) ==
  \/ z = r
  \/ z = p /\ (r.epoch = p.epoch => r.seq > p.seq + 1) /\ (r.epoch # p.epoch => r.seq > 1 /\ p.epoch >= 1)

\* A row by its parts.
LEMMA RowParts ==
  /\ \A r \in Rows : r.epoch \in Nat /\ r.seq \in Nat /\ r.epoch >= 1 /\ r.seq >= 1 /\ r = Row(r.epoch, r.seq)
  /\ \A e, n : Row(e, n).epoch = e /\ Row(e, n).seq = n
  /\ \A st \in Stores : st.epoch \in Nat /\ st.last \in Nat /\ st.epoch >= 1
                        /\ StoreEnd(st).epoch = st.epoch /\ StoreEnd(st).seq = st.last
  /\ \A p \in Points : p.epoch \in Nat /\ p.seq \in Nat
  BY Bounds DEF Rows, Row, Stores, StoreEnd, Points

\* The rows still lead to the end of the store.
LEMMA CoversOn ==
  ASSUME NEW st \in Stores, NEW p \in Points, NEW r \in Rows, NEW w \in SUBSET Rows,
         Before(p, r), UpTo(r, StoreEnd(st)), \A y \in w : Before(r, y),
         NEW z, Applies(p, r, z), Covers(p, {r} \union w, st)
  PROVE  Covers(z, w, st)
  <1>1. /\ st.epoch \in Nat /\ st.last \in Nat /\ p.epoch \in Nat /\ p.seq \in Nat
        /\ r.epoch \in Nat /\ r.seq \in Nat /\ r.seq >= 1
        /\ r.epoch < st.epoch \/ (r.epoch = st.epoch /\ r.seq <= st.last)
        /\ p.epoch < r.epoch \/ (p.epoch = r.epoch /\ p.seq < r.seq)
    BY RowParts DEF UpTo, Before
  <1>2. ASSUME NEW n \in 1..st.last, ~(p.epoch = st.epoch /\ n <= p.seq)
        PROVE  (r.epoch = st.epoch /\ r.seq = n) \/ (Row(st.epoch, n) \in w /\ (r.epoch = st.epoch => n > r.seq))
    <2>1. Row(st.epoch, n) = r \/ Row(st.epoch, n) \in w
      BY <1>2 DEF Covers
    <2>2. Row(st.epoch, n).epoch = st.epoch /\ Row(st.epoch, n).seq = n
      BY RowParts
    <2>3. Row(st.epoch, n) \in w => Before(r, Row(st.epoch, n))
      OBVIOUS
    <2> QED
      BY <1>1, <2>1, <2>2, <2>3 DEF Before
  <1>3. CASE r.epoch < st.epoch
    <2>1. z.epoch < st.epoch /\ p.epoch < st.epoch
      BY <1>1, <1>3 DEF Applies
    <2> QED
      BY <1>1, <1>2, <1>3, <2>1 DEF Covers
  <1>4. CASE r.epoch = st.epoch
    <2>1. z = r
      <3>1. SUFFICES ASSUME z # r PROVE FALSE
        OBVIOUS
      <3>2. (r.epoch = p.epoch => r.seq > p.seq + 1) /\ (r.epoch # p.epoch => r.seq > 1)
        BY <3>1 DEF Applies
      <3>3. CASE r.epoch = p.epoch
        <4>1. p.seq + 1 \in 1..st.last /\ ~(p.seq + 1 <= p.seq) /\ p.seq + 1 < r.seq
          BY <1>1, <1>4, <3>2, <3>3
        <4> QED
          BY <1>1, <1>2, <1>4, <4>1
      <3>4. CASE r.epoch # p.epoch
        <4>1. 1 \in 1..st.last /\ p.epoch # st.epoch /\ 1 < r.seq
          BY <1>1, <1>4, <3>2, <3>4
        <4> QED
          BY <1>1, <1>2, <1>4, <4>1
      <3> QED
        BY <3>3, <3>4
    <2>2. ASSUME NEW n \in 1..st.last, ~(n <= r.seq) PROVE Row(st.epoch, n) \in w
      BY <1>1, <1>2, <1>4, <2>2
    <2> QED
      BY <1>4, <2>1, <2>2 DEF Covers
  <1> QED
    BY <1>1, <1>3, <1>4

\* No gap opens, nor is one met.
LEMMA GaplessOn ==
  ASSUME NEW st \in Stores, NEW p \in Points, NEW r \in Rows, NEW w \in SUBSET Rows,
         Before(p, r), UpTo(r, StoreEnd(st)), \A y \in w : Before(r, y) /\ UpTo(y, StoreEnd(st)),
         NEW z, Applies(p, r, z), Gapless(p, {r} \union w, st)
  PROVE  Gapless(z, w, st) /\ ~(r.epoch = p.epoch /\ r.seq > p.seq + 1)
  <1> DEFINE x == {r} \union w
  <1>1. /\ st.epoch \in Nat /\ st.last \in Nat /\ p.epoch \in Nat /\ p.seq \in Nat
        /\ r.epoch \in Nat /\ r.seq \in Nat /\ r.seq >= 1 /\ r = Row(r.epoch, r.seq)
        /\ r.epoch < st.epoch \/ (r.epoch = st.epoch /\ r.seq <= st.last)
        /\ p.epoch < r.epoch \/ (p.epoch = r.epoch /\ p.seq < r.seq)
    BY RowParts DEF UpTo, Before
  <1>2. ASSUME NEW y \in w
        PROVE  /\ y.epoch \in Nat /\ y.seq \in Nat /\ y = Row(y.epoch, y.seq)
               /\ r.epoch < y.epoch \/ (r.epoch = y.epoch /\ r.seq < y.seq)
               /\ y.epoch < st.epoch \/ (y.epoch = st.epoch /\ y.seq <= st.last)
    BY RowParts DEF UpTo, Before
  <1>3. /\ r \in x /\ w \subseteq x
        /\ \A y \in x : y \in w \/ y = r
        /\ \A y \in x : Follows1(y, p, x)
        /\ Reaches(p, x, st)
    BY DEF Gapless
  <1> HIDE DEF x
  <1>4. Row(r.epoch, r.seq - 1) \notin x
    <2>1. Row(r.epoch, r.seq - 1).epoch = r.epoch /\ Row(r.epoch, r.seq - 1).seq = r.seq - 1
      BY RowParts
    <2> QED
      BY <1>1, <1>2, <1>3, <2>1
  <1>5. \/ r.epoch = p.epoch /\ r.seq = p.seq + 1 /\ z = r
        \/ r.epoch # p.epoch
    <2>1. r.epoch = p.epoch => r.seq <= p.seq + 1
      BY <1>3, <1>4 DEF Follows1
    <2> QED
      BY <1>1, <2>1 DEF Applies
  <1>6. z = r \/ (z = p /\ r.epoch # p.epoch)
    BY <1>5 DEF Applies
  <1>7. ASSUME NEW y \in w PROVE Follows1(y, z, w)
    <2>1. Follows1(y, p, x)
      BY <1>3
    <2>2. CASE Row(y.epoch, y.seq - 1) \in x
      <3>1. CASE Row(y.epoch, y.seq - 1) \in w
        BY <3>1 DEF Follows1
      <3>2. CASE Row(y.epoch, y.seq - 1) = r
        <4>1. r.epoch = y.epoch /\ r.seq = y.seq - 1
          BY <3>2, RowParts
        <4>2. \A q \in w : q.epoch = y.epoch => y.seq <= q.seq
          BY <1>1, <1>2, <4>1
        <4>3. CASE z = r
          BY <1>1, <1>2, <4>1, <4>3 DEF Follows1
        <4>4. CASE z = p /\ r.epoch # p.epoch
          BY <4>1, <4>2, <4>4 DEF Follows1
        <4> QED
          BY <1>6, <4>3, <4>4
      <3> QED
        BY <1>3, <2>2, <3>1, <3>2
    <2>3. CASE y.epoch = p.epoch /\ y.seq <= p.seq + 1
      BY <1>1, <1>2, <2>3
    <2>4. CASE y.epoch # p.epoch /\ \A q \in x : q.epoch = y.epoch => y.seq <= q.seq
      <3>1. r.epoch # y.epoch
        BY <1>1, <1>2, <1>3, <2>4
      <3>2. \A q \in w : q.epoch = y.epoch => y.seq <= q.seq
        BY <1>3, <2>4
      <3> QED
        BY <1>6, <2>4, <3>1, <3>2 DEF Follows1
    <2> QED
      BY <2>1, <2>2, <2>3, <2>4 DEF Follows1
  <1>8. Reaches(z, w, st)
    <2>1. CASE p.epoch = st.epoch /\ p.seq = st.last
      BY <1>1, <2>1
    <2>2. CASE Row(st.epoch, st.last) \in x
      <3>1. CASE Row(st.epoch, st.last) \in w
        BY <3>1 DEF Reaches
      <3>2. CASE Row(st.epoch, st.last) = r
        <4>1. r.epoch = st.epoch /\ r.seq = st.last
          BY <3>2, RowParts
        <4>2. \A y \in w : FALSE
          BY <1>1, <1>2, <4>1
        <4> QED
          BY <1>6, <4>1, <4>2 DEF Reaches
      <3> QED
        BY <1>3, <2>2, <3>1, <3>2
    <2>3. CASE p.epoch # st.epoch /\ \A q \in x : q.epoch # st.epoch
      BY <1>3, <1>6, <2>3 DEF Reaches
    <2> QED
      BY <1>3, <2>1, <2>2, <2>3 DEF Reaches
  <1> QED
    BY <1>1, <1>5, <1>7, <1>8 DEF Gapless

\* A live row applied to an authoritative timeline (processAgentStreamEvent).
LEMMA EventWalks ==
  ASSUME NEW t, t.synced, t.range \in Spans, RangeOK(t.range), t \in Timelines, NEW row \in Rows,
         Before(EndOf(t.range), row), NEW u, u = EventApplied(t, row)
  PROVE  /\ u.synced /\ u.newer = t.newer /\ u.init = t.init /\ u.range \in Spans /\ RangeOK(u.range)
         /\ u.range = NoSpan => FALSE
         /\ u.range = t.range \/ EndOf(u.range) = row
         /\ Applies(EndOf(t.range), row, EndOf(u.range))
         /\ EventGap(t, row) => t.range # NoSpan /\ row.epoch = EndOf(t.range).epoch /\ row.seq > EndOf(t.range).seq + 1
                                /\ u.range = t.range
  <1> DEFINE e == row.epoch
             n == row.seq
             range == t.range
             longer == [range EXCEPT !.to = n]
             v == IF range = NoSpan THEN Span(e, n, n)
                  ELSE IF range.epoch = e /\ n = range.to + 1 THEN longer
                  ELSE IF range.epoch # e /\ n = 1 THEN Span(e, 1, 1) ELSE range
  <1>1. MaxRows \in Nat /\ MaxEpoch \in Nat
    BY Bounds
  <1>2. e \in 1..MaxEpoch /\ n \in 1..MaxRows /\ row = Row(e, n)
    BY DEF Rows, Row
  <1>3. /\ range # NoSpan => /\ range.epoch \in 1..MaxEpoch /\ range.from \in 1..MaxRows
                             /\ range.to \in 1..MaxRows /\ range.from <= range.to
        /\ range = NoSpan => range.epoch = 0 /\ range.from = 0 /\ range.to = 0
    BY SpanTypes
  <1>4. u.synced /\ u.newer = t.newer /\ u.init = t.init /\ u.range = v
    BY DEF EventApplied, Timelines
  <1>5. /\ longer.epoch = range.epoch /\ longer.from = range.from /\ longer.to = n
        /\ n \in 0..MaxRows => longer \in Spans
    BY DEF Spans
  <1>6. \A f \in 1..MaxRows : Span(e, f, f) \in Spans /\ RangeOK(Span(e, f, f)) /\ Span(e, f, f) # NoSpan
                              /\ EndOf(Span(e, f, f)) = Row(e, f)
    BY <1>1, <1>2 DEF Span, Spans, RangeOK, NoSpan, EndOf
  <1> HIDE DEF longer
  <1>7. CASE range = NoSpan
    <2>1. v = Span(e, n, n)
      BY <1>7
    <2>2. v \in Spans /\ RangeOK(v) /\ v # NoSpan /\ EndOf(v) = row
      BY <1>2, <1>6, <2>1
    <2> HIDE DEF v
    <2> QED
      BY <1>4, <1>7, <2>2 DEF Applies, EventGap
  <1>8. CASE range # NoSpan /\ range.epoch = e /\ n = range.to + 1
    <2>1. v = longer
      BY <1>8
    <2>2. longer \in Spans /\ EndOf(longer) = row
      BY <1>1, <1>2, <1>5, <1>8 DEF EndOf
    <2>3. RangeOK(longer) /\ longer # NoSpan
      BY <1>1, <1>2, <1>3, <1>5, <1>8 DEF RangeOK, NoSpan, Span
    <2>4. ~EventGap(t, row)
      BY <1>8, <1>3 DEF EventGap
    <2> HIDE DEF v
    <2> QED
      BY <1>4, <2>1, <2>2, <2>3, <2>4 DEF Applies
  <1>9. CASE range # NoSpan /\ range.epoch # e /\ n = 1
    <2>1. v = Span(e, 1, 1) /\ row = Row(e, 1)
      BY <1>2, <1>9
    <2>2. v \in Spans /\ RangeOK(v) /\ v # NoSpan /\ EndOf(v) = row
      BY <1>2, <1>6, <1>9, <2>1
    <2>4. ~EventGap(t, row)
      BY <1>9 DEF EventGap
    <2> HIDE DEF v
    <2> QED
      BY <1>4, <2>2, <2>4 DEF Applies
  <1>10. CASE range # NoSpan /\ ~(range.epoch = e /\ n = range.to + 1) /\ ~(range.epoch # e /\ n = 1)
    <2>1. v = range
      BY <1>10
    <2>2. EndOf(range).epoch = range.epoch /\ EndOf(range).seq = range.to
      BY DEF EndOf, Row
    <2>3. EventGap(t, row) => n > range.to + 1 /\ range.epoch = e
      BY DEF EventGap
    <2> HIDE DEF v
    <2>4. Before(EndOf(range), row) => Applies(EndOf(range), row, EndOf(range))
      BY <1>1, <1>2, <1>3, <1>10, <2>2 DEF Applies, Before
    <2> QED
      BY <1>4, <1>10, <2>1, <2>2, <2>3, <2>4
  <1> QED
    BY <1>7, <1>8, <1>9, <1>10

\* Rows from row i of s on, and those of Y.
RowsFrom(s, i, Y) == { s[j] : j \in { k \in DOMAIN s : k >= i } } \union Y
\* Where the range of t may end while the rows of s are applied.
Spots(t, s) == { s[j] : j \in DOMAIN s } \union (IF t.range = NoSpan THEN {} ELSE {EndOf(t.range)})
\* Requests go on from ends the range has had, which never go back.
Chasing(q, spots, p) ==
  /\ q \in Seq(Requests)
  /\ \A i \in 1..Len(q) : q[i].dir = "after" /\ Position(q[i]) \in spots /\ UpTo(Position(q[i]), p)
  /\ \A i, j \in 1..Len(q) : i < j => UpTo(Position(q[i]), Position(q[j]))
\* The rows are in order, before those of Y, none of them past the end of the store.
Queued(p, s, Y, st) ==
  /\ s \in Seq(Rows) /\ Y \in SUBSET Rows
  /\ UpTo(p, StoreEnd(st))
  /\ \A i \in DOMAIN s : Before(p, s[i]) /\ UpTo(s[i], StoreEnd(st)) /\ (\A y \in Y : Before(s[i], y))
  /\ \A i, j \in DOMAIN s : i < j => Before(s[i], s[j])
  /\ \A y \in Y : UpTo(y, StoreEnd(st))
\* Timeline u, and the requests q, have come of t by rows of s, row i being next.
Walked(t, s, u, q, i, st) ==
  /\ u \in Timelines /\ u.synced /\ u.newer = t.newer /\ u.init = t.init
  /\ u.range \in Spans /\ RangeOK(u.range)
  /\ UpTo(EndOf(u.range), StoreEnd(st))
  /\ \A j \in DOMAIN s : j >= i => Before(EndOf(u.range), s[j])
  /\ u.range = NoSpan => t.range = NoSpan /\ q = <<>>
  /\ u.range # NoSpan => EndOf(u.range) \in Spots(t, s)
  /\ Chasing(q, Spots(t, s), EndOf(u.range))
\* They keep whatever leads to the end of the store.
Leads(t, s, Y, u, q, i, st) ==
  /\ Covers(EndOf(t.range), RowsFrom(s, 1, Y), st) => Covers(EndOf(u.range), RowsFrom(s, i, Y), st)
  /\ Gapless(EndOf(t.range), RowsFrom(s, 1, Y), st) => Gapless(EndOf(u.range), RowsFrom(s, i, Y), st) /\ q = <<>>

\* Row i and the rows behind it.
LEMMA RowsNext ==
  ASSUME NEW s \in Seq(Rows), NEW Y \in SUBSET Rows, NEW i \in DOMAIN s
  PROVE  /\ RowsFrom(s, i, Y) = {s[i]} \union RowsFrom(s, i + 1, Y)
         /\ RowsFrom(s, i + 1, Y) \in SUBSET Rows /\ s[i] \in Rows
         /\ \A y \in RowsFrom(s, i + 1, Y) : y \in Y \/ \E j \in DOMAIN s : j > i /\ y = s[j]
  <1>1. DOMAIN s = 1..Len(s) /\ Len(s) \in Nat /\ \A j \in DOMAIN s : s[j] \in Rows
    BY LenProperties, ElementOfSeq
  <1>2. \A k \in DOMAIN s : k >= i <=> k = i \/ k >= i + 1
    BY <1>1
  <1>3. \A k \in DOMAIN s : k >= i + 1 => k > i
    BY <1>1
  <1>4. \A y : y \in RowsFrom(s, i, Y) <=> y \in {s[i]} \union RowsFrom(s, i + 1, Y)
    BY <1>2 DEF RowsFrom
  <1> QED
    BY <1>1, <1>3, <1>4 DEF RowsFrom

\* One more request to go on from the end of the range.
LEMMA ChasesOn ==
  ASSUME NEW q, NEW spots, NEW p \in Points, Chasing(q, spots, p), NEW z \in Points, UpTo(p, z)
  PROVE  /\ Chasing(q, spots, z)
         /\ \A r \in Requests : r.dir = "after" /\ Position(r) = p /\ p \in spots => Chasing(Append(q, r), spots, z)
  <1>0. q \in Seq(Requests) /\ Len(q) \in Nat /\ \A i \in 1..Len(q) : q[i] \in Requests
    BY ElementOfSeq, LenProperties DEF Chasing
  <1>1. ASSUME NEW i \in 1..Len(q) PROVE Position(q[i]) \in Points
    BY <1>0, PointTypes DEF Chasing
  <1>2. Chasing(q, spots, z)
    <2>1. \A i \in 1..Len(q) : UpTo(Position(q[i]), z)
      BY <1>1, OrderOfRows DEF Chasing
    <2> QED
      BY <2>1 DEF Chasing
  <1>3. ASSUME NEW r \in Requests, r.dir = "after", Position(r) = p, p \in spots
        PROVE  Chasing(Append(q, r), spots, z)
    <2> DEFINE w == Append(q, r)
    <2>1. /\ w \in Seq(Requests) /\ Len(w) = Len(q) + 1
          /\ \A i \in 1..Len(q) : w[i] = q[i]
          /\ w[Len(q) + 1] = r
      BY <1>0, AppendProperties
    <2> HIDE DEF w
    <2>2. \A i \in 1..Len(w) : (i \in 1..Len(q) /\ w[i] = q[i]) \/ (i = Len(q) + 1 /\ w[i] = r)
      BY <1>0, <2>1
    <2>3. \A i \in 1..Len(w) : w[i].dir = "after" /\ Position(w[i]) \in spots /\ UpTo(Position(w[i]), z)
      BY <1>2, <1>3, <2>2 DEF Chasing
    <2>4. ASSUME NEW i \in 1..Len(w), NEW j \in 1..Len(w), i < j
          PROVE  UpTo(Position(w[i]), Position(w[j]))
      <3>1. i \in 1..Len(q) /\ w[i] = q[i]
        BY <1>0, <2>1, <2>2, <2>4
      <3>2. CASE j \in 1..Len(q) /\ w[j] = q[j]
        BY <2>4, <3>1, <3>2 DEF Chasing
      <3>3. CASE w[j] = r
        BY <1>3, <3>1, <3>3 DEF Chasing
      <3> QED
        BY <2>2, <3>2, <3>3
    <2> QED
      BY <2>1, <2>3, <2>4 DEF Chasing, w
  <1> QED
    BY <1>2, <1>3

\* One row.
LEMMA RowWalks ==
  ASSUME NEW t \in Timelines, NEW s, NEW Y, NEW st \in Stores, Queued(EndOf(t.range), s, Y, st),
         NEW u, NEW q, NEW i \in DOMAIN s, Walked(t, s, u, q, i, st), Leads(t, s, Y, u, q, i, st),
         NEW v, v = EventApplied(u, s[i]),
         NEW w, w = IF EventGap(u, s[i]) THEN Append(q, CatchUpAfter(u.range.epoch, u.range.to)) ELSE q
  PROVE  v \in Timelines => Walked(t, s, v, w, i + 1, st) /\ Leads(t, s, Y, v, w, i + 1, st)
  <1> DEFINE row == s[i]
             p == EndOf(u.range)
             z == EndOf(v.range)
             more == CatchUpAfter(u.range.epoch, u.range.to)
             ahead == RowsFrom(s, i + 1, Y)
  <1>1. /\ s \in Seq(Rows) /\ Y \in SUBSET Rows /\ row \in Rows /\ i \in Nat
        /\ UpTo(row, StoreEnd(st)) /\ Before(p, row)
    BY ElementOfSeq, LenProperties DEF Queued, Walked
  <1>2. /\ u \in Timelines /\ u.synced /\ u.newer = t.newer /\ u.init = t.init
        /\ u.range \in Spans /\ RangeOK(u.range)
    BY DEF Walked
  <1>3. /\ v.synced /\ v.newer = u.newer /\ v.init = u.init /\ v.range \in Spans /\ RangeOK(v.range)
        /\ v.range # NoSpan
        /\ v.range = u.range \/ z = row
        /\ Applies(p, row, z)
        /\ EventGap(u, row) => u.range # NoSpan /\ row.epoch = p.epoch /\ row.seq > p.seq + 1
                               /\ v.range = u.range
    BY <1>1, <1>2, EventWalks
  <1>4. p \in Points /\ z \in Points /\ row \in Points /\ StoreEnd(st) \in Points
    BY <1>1, <1>2, <1>3, PointTypes
  <1>5. RowsFrom(s, i, Y) = {row} \union ahead /\ ahead \in SUBSET Rows
        /\ \A y \in ahead : y \in Y \/ \E j \in DOMAIN s : j > i /\ y = s[j]
    BY <1>1, RowsNext
  <1>6. \A y \in ahead : Before(row, y) /\ UpTo(y, StoreEnd(st))
    BY <1>5 DEF Queued
  <1>7. more.dir = "after" /\ (u.range # NoSpan => more \in Requests /\ Position(more) = p)
    BY <1>2, SpanTypes DEF CatchUpAfter, Request
  <1>16. row \in Spots(t, s) /\ (u.range # NoSpan => p \in Spots(t, s))
    BY DEF Walked, Spots
  <1>17. /\ w = (IF EventGap(u, row) THEN Append(q, more) ELSE q)
         /\ Walked(t, s, u, q, i, st) /\ Leads(t, s, Y, u, q, i, st) /\ Queued(EndOf(t.range), s, Y, st)
    OBVIOUS
  <1> HIDE DEF row, p, z, more, ahead
  <1>8. UpTo(p, z) /\ UpTo(z, StoreEnd(st))
    <2>1. UpTo(p, StoreEnd(st)) /\ UpTo(p, p) /\ UpTo(p, row)
      BY <1>1, <1>4, <1>17, OrderOfRows DEF Walked, p
    <2>2. z = p \/ z = row
      BY <1>3 DEF p, z
    <2> QED
      BY <1>1, <2>1, <2>2
  <1>9. ASSUME NEW j \in DOMAIN s, j >= i + 1 PROVE Before(z, s[j])
    <2>1. j \in Nat /\ i < j
      BY <1>1, <1>9, LenProperties
    <2>2. Before(row, s[j]) /\ Before(p, s[j])
      BY <1>1, <1>17, <2>1 DEF Queued, Walked, row, p
    <2>3. z = p \/ z = row
      BY <1>3 DEF p, z
    <2> QED
      BY <2>2, <2>3
  <1>10. Chasing(w, Spots(t, s), z)
    <2>1. Chasing(q, Spots(t, s), p)
      BY <1>17 DEF Walked, p
    <2>2. CASE EventGap(u, row)
      BY <1>3, <1>4, <1>7, <1>8, <1>16, <1>17, <2>1, <2>2, ChasesOn
    <2>3. CASE ~EventGap(u, row)
      BY <1>4, <1>8, <1>17, <2>1, <2>3, ChasesOn
    <2> QED
      BY <2>2, <2>3
  <1>11. z \in Spots(t, s)
    <2>1. CASE z = row
      BY <1>16, <2>1
    <2>2. CASE v.range = u.range
      BY <1>3, <1>16, <2>2 DEF p, z
    <2> QED
      BY <1>3, <2>1, <2>2
  <1>12. ASSUME Covers(EndOf(t.range), RowsFrom(s, 1, Y), st) PROVE Covers(z, ahead, st)
    <2>1. Covers(p, {row} \union ahead, st)
      BY <1>5, <1>12, <1>17 DEF Leads, p
    <2> QED
      BY ONLY <1>1, <1>3, <1>4, <1>5, <1>6, <2>1, CoversOn, st \in Stores
  <1>13. ASSUME Gapless(EndOf(t.range), RowsFrom(s, 1, Y), st) PROVE Gapless(z, ahead, st) /\ w = <<>>
    <2>1. Gapless(p, {row} \union ahead, st) /\ q = <<>>
      BY <1>5, <1>13, <1>17 DEF Leads, p
    <2>2. Gapless(z, ahead, st) /\ ~(row.epoch = p.epoch /\ row.seq > p.seq + 1)
      BY ONLY <1>1, <1>3, <1>4, <1>5, <1>6, <2>1, GaplessOn, st \in Stores
    <2> QED
      BY <1>3, <1>17, <2>1, <2>2
  <1>14. v \in Timelines => Walked(t, s, v, w, i + 1, st)
    BY <1>2, <1>3, <1>8, <1>9, <1>10, <1>11 DEF Walked, z
  <1>15. Leads(t, s, Y, v, w, i + 1, st)
    BY <1>12, <1>13 DEF Leads, z, ahead
  <1> QED
    BY <1>14, <1>15

\* A live row leaves a timeline.
LEMMA EventTypes ==
  ASSUME NEW t \in Timelines, RangeOK(t.range), NEW row \in Rows
  PROVE  EventApplied(t, row) \in Timelines
  <1> DEFINE e == row.epoch
             n == row.seq
             range == t.range
             painted == [t EXCEPT !.rows = t.rows \union {row}]
             first == [t EXCEPT !.range = Span(e, n, n), !.rows = t.rows \union {row}]
             longer == [range EXCEPT !.to = n]
             next == [t EXCEPT !.range = longer, !.rows = t.rows \union {row}]
             again == [t EXCEPT !.range = Span(e, 1, 1), !.rows = {row}]
  <1>1. MaxRows \in Nat /\ MaxEpoch \in Nat
    BY Bounds
  <1>2. e \in 1..MaxEpoch /\ n \in 1..MaxRows
    BY DEF Rows
  <1>3. range \in Spans /\ t.rows \subseteq Rows
    BY DEF Timelines
  <1>4. longer \in Spans /\ Span(e, n, n) \in Spans
    BY <1>1, <1>2, <1>3 DEF Spans, Span
  <1>5. n = 1 => Span(e, 1, 1) \in Spans
    BY <1>4
  <1> HIDE DEF longer
  <1>6. \/ EventApplied(t, row) = painted
        \/ EventApplied(t, row) = first
        \/ EventApplied(t, row) = next
        \/ EventApplied(t, row) = again /\ n = 1
        \/ EventApplied(t, row) = t
    BY DEF EventApplied, longer
  <1>7. t.rows \union {row} \subseteq Rows /\ {row} \subseteq Rows
    BY <1>3
  <1>8. painted \in Timelines /\ first \in Timelines /\ next \in Timelines /\ (n = 1 => again \in Timelines)
    BY <1>4, <1>5, <1>7 DEF Timelines
  <1> QED
    BY <1>6, <1>8

\* A batch of live rows applied to an authoritative timeline that is not detached.
LEMMA BatchWalks ==
  ASSUME NEW t \in Timelines, t.synced, ~t.newer, RangeOK(t.range),
         NEW s, NEW Y, NEW st \in Stores, Queued(EndOf(t.range), s, Y, st)
  PROVE  /\ Walked(t, s, BatchApplied(t, s).timeline, BatchApplied(t, s).recoveries, Len(s) + 1, st)
         /\ Leads(t, s, Y, BatchApplied(t, s).timeline, BatchApplied(t, s).recoveries, Len(s) + 1, st)
  <1> DEFINE N == Len(s)
             Start == [timeline |-> t, recoveries |-> <<>>]
             Step(x, i) == BatchStep(x, s[i])
             Kind(g) == g = [i \in 0..N |-> IF i = 0 THEN Start ELSE Step(g[i - 1], i)]
             after == CHOOSE g : Kind(g)
             Good(x, n) == Walked(t, s, x.timeline, x.recoveries, n + 1, st)
                           /\ Leads(t, s, Y, x.timeline, x.recoveries, n + 1, st)
  <1>1. s \in Seq(Rows) /\ N \in Nat /\ DOMAIN s = 1..N
    BY LenProperties DEF Queued
  <1>2. \A i \in 1..N : s[i] \in Rows
    BY <1>1, ElementOfSeq
  <1>3. Good(Start, 0)
    <2>1. t.range \in Spans /\ EndOf(t.range) \in Points
      BY PointTypes DEF Timelines
    <2>2. <<>> \in Seq(Requests) /\ Len(<<>>) = 0
      BY EmptySeq
    <2>3. Chasing(<<>>, Spots(t, s), EndOf(t.range))
      BY <2>2 DEF Chasing
    <2>4. Walked(t, s, t, <<>>, 1, st)
      BY <2>1, <2>3 DEF Walked, Queued, Spots
    <2>5. Leads(t, s, Y, t, <<>>, 1, st)
      BY DEF Leads
    <2> QED
      BY <2>4, <2>5
  <1>4. BatchApplied(t, s) = after[N]
    BY DEF BatchApplied
  <1>5. Kind(after)
    BY <1>1, BatchExists
  <1> HIDE DEF after, Step, Start
  <1>6. after[0] = Start /\ \A i \in 1..N : after[i] = Step(after[i - 1], i)
    BY <1>1, <1>5
  <1> DEFINE T == {n \in Nat : n <= N => Good(after[n], n)}
  <1> HIDE DEF Good
  <1>7. 0 \in T
    BY <1>3, <1>6
  <1>8. ASSUME NEW n \in Nat, n \in T
        PROVE  n + 1 \in T
    <2> SUFFICES ASSUME n + 1 <= N
                 PROVE  Good(after[n + 1], n + 1)
      OBVIOUS
    <2> DEFINE x == after[n]
               u == x.timeline
               q == x.recoveries
               i == n + 1
               v == EventApplied(u, s[i])
               w == IF EventGap(u, s[i]) THEN Append(q, CatchUpAfter(u.range.epoch, u.range.to)) ELSE q
    <2>1. i \in DOMAIN s /\ n <= N /\ i - 1 = n /\ i \in 1..N /\ s[i] \in Rows
      BY <1>1, <1>2
    <2>2. Walked(t, s, u, q, i, st) /\ Leads(t, s, Y, u, q, i, st)
      BY <1>8, <2>1 DEF Good
    <2>3. after[i] = [timeline |-> v, recoveries |-> w]
      <3>1. after[i] = Step(x, i)
        BY <1>6, <2>1
      <3> QED
        BY <3>1 DEF Step, BatchStep
    <2>4. v \in Timelines
      BY <2>1, <2>2, EventTypes DEF Walked
    <2>5. v = EventApplied(u, s[i]) /\ w = IF EventGap(u, s[i]) THEN Append(q, CatchUpAfter(u.range.epoch, u.range.to)) ELSE q
      OBVIOUS
    <2>7. after[i].timeline = v /\ after[i].recoveries = w
      BY <2>3
    <2> HIDE DEF x, u, q, v, w, i
    <2>8. t \in Timelines /\ st \in Stores /\ Queued(EndOf(t.range), s, Y, st)
      OBVIOUS
    <2>6. Walked(t, s, v, w, i + 1, st) /\ Leads(t, s, Y, v, w, i + 1, st)
      BY ONLY <2>1, <2>2, <2>4, <2>5, <2>8, RowWalks
    <2>9. Good(after[i], i)
      BY <2>6, <2>7 DEF Good
    <2> QED
      BY <2>9 DEF i
  <1>9. N \in T
    <2> HIDE DEF T
    <2> QED
      BY <1>1, <1>7, <1>8, Induction
  <1>10. Good(after[N], N)
    BY <1>1, <1>9
  <1> QED
    BY <1>4, <1>10 DEF Good

\* The rows of s and Y, and those of Y alone.
Rng(s) == { s[i] : i \in DOMAIN s }
\* All the rows are those from the first on; behind the last there are only those of Y.
LEMMA RowsFromEnds ==
  ASSUME NEW s \in Seq(Rows), NEW Y
  PROVE  RowsFrom(s, 1, Y) = Rng(s) \union Y /\ RowsFrom(s, Len(s) + 1, Y) = Y
  <1>1. DOMAIN s = 1..Len(s) /\ Len(s) \in Nat
    BY LenProperties
  <1>2. (\A k \in DOMAIN s : k >= 1) /\ (\A k \in DOMAIN s : ~(k >= Len(s) + 1))
    BY <1>1
  <1> QED
    BY <1>2 DEF RowsFrom, Rng

-----------------------------------------------------------------------------
(* The rows on their way. *)

\* The rows that messages bring, and those behind message i.
Brought(d) == { d[i].row : i \in { k \in DOMAIN d : d[k].type = "event" } }
BroughtBehind(d, i) == { d[j].row : j \in { k \in DOMAIN d : k > i /\ d[k].type = "event" } }

\* Row by row, as EventsOf does.
Read(d, x, i) == IF d[i].type = "event" THEN Append(x, d[i].row) ELSE x
\* The function that EventsOf chooses exists.
LEMMA EventsExist ==
  ASSUME NEW d, NEW N \in Nat
  PROVE  \E g : g = [i \in 0..N |-> IF i = 0 THEN <<>> ELSE Read(d, g[i - 1], i)]
  <1> DEFINE Step(x, i) == Read(d, x, i)
             Kind(g, n) == g = [i \in 0..n |-> IF i = 0 THEN <<>> ELSE Step(g[i - 1], i)]
             T == {n \in Nat : \E g : Kind(g, n)}
  <1> HIDE DEF Step
  <1>1. 0 \in T
    <2>1. Kind([i \in 0..0 |-> <<>>], 0)
      OBVIOUS
    <2> QED
      BY <2>1
  <1>2. ASSUME NEW n \in Nat, n \in T
        PROVE  n + 1 \in T
    <2>1. PICK g : Kind(g, n)
      BY <1>2
    <2> DEFINE h == [i \in 0..n + 1 |-> IF i = n + 1 THEN Step(g[n], n + 1) ELSE g[i]]
    <2>2. h[0] = <<>>
      BY <2>1
    <2>3. ASSUME NEW i \in 0..n + 1, i # 0
          PROVE  h[i] = Step(h[i - 1], i)
      <3>1. i - 1 \in 0..n /\ h[i - 1] = g[i - 1]
        BY <2>3
      <3>2. CASE i = n + 1
        BY <3>1, <3>2
      <3>3. CASE i # n + 1
        <4>1. i \in 0..n /\ h[i] = g[i]
          BY <3>3
        <4>2. g[i] = Step(g[i - 1], i)
          BY <2>1, <2>3, <4>1
        <4> QED
          BY <3>1, <4>1, <4>2
      <3> QED
        BY <3>2, <3>3
    <2>4. h = [i \in 0..n + 1 |-> IF i = 0 THEN <<>> ELSE Step(h[i - 1], i)]
      BY <2>2, <2>3
    <2> HIDE DEF h
    <2>5. Kind(h, n + 1)
      BY <2>4
    <2> QED
      BY <2>5
  <1>3. N \in T
    <2> HIDE DEF T
    <2> QED
      BY <1>1, <1>2, Induction
  <1>4. PICK g : Kind(g, N)
    BY <1>3
  <1> QED
    BY <1>4 DEF Step

\* Sequence r is of the rows that the first n messages of d bring, in their order.
RowsRead(r, d, n) ==
  /\ r \in Seq(Rows)
  /\ \A j \in DOMAIN r : \E k \in 1..n : d[k].type = "event" /\ r[j] = d[k].row
  /\ \A k \in 1..n : d[k].type = "event" => \E j \in DOMAIN r : r[j] = d[k].row
  /\ \A i, j \in DOMAIN r : i < j => Before(r[i], r[j])
\* The rows of messages in order are read in order.
LEMMA EventsRead ==
  ASSUME NEW d \in Seq(Messages),
         \A i, k \in DOMAIN d : i < k /\ d[i].type = "event" /\ d[k].type = "event" => Before(d[i].row, d[k].row)
  PROVE  RowsRead(EventsOf(d), d, Len(d))
  <1> DEFINE N == Len(d)
             Kind(g) == g = [i \in 0..N |-> IF i = 0 THEN <<>> ELSE Read(d, g[i - 1], i)]
             rows == CHOOSE g : Kind(g)
  <1>1. N \in Nat /\ DOMAIN d = 1..N /\ \A i \in 1..N : d[i] \in Messages
    BY LenProperties, ElementOfSeq
  <1>2. EventsOf(d) = rows[N]
    BY DEF EventsOf, Read
  <1>3. Kind(rows)
    BY <1>1, EventsExist
  <1> HIDE DEF rows
  <1>4. /\ rows[0] = <<>>
        /\ \A i \in 1..N : rows[i] = Read(d, rows[i - 1], i)
    BY <1>1, <1>3
  <1> DEFINE T == {n \in Nat : n <= N => RowsRead(rows[n], d, n)}
  <1>5. 0 \in T
    <2>1. <<>> \in Seq(Rows) /\ DOMAIN <<>> = {}
      BY EmptySeq
    <2>2. RowsRead(<<>>, d, 0)
      BY <2>1 DEF RowsRead
    <2> QED
      BY <1>4, <2>2
  <1>6. ASSUME NEW n \in Nat, n \in T PROVE n + 1 \in T
    <2> SUFFICES ASSUME n + 1 <= N PROVE RowsRead(rows[n + 1], d, n + 1)
      OBVIOUS
    <2> DEFINE r == rows[n]
               i == n + 1
               row == d[i].row
               w == rows[i]
    <2>1. i \in 1..N /\ i - 1 = n /\ n <= N /\ d[i] \in Messages
          /\ (\A k \in 1..n : k \in 1..i /\ k \in 1..N /\ k < i) /\ (\A k \in 1..i : k \in 1..n \/ k = i) /\ i \in 1..i
      BY <1>1
    <2>2. RowsRead(r, d, n)
      BY <1>6, <2>1
    <2>3. w = IF d[i].type = "event" THEN Append(r, row) ELSE r
      BY <1>4, <2>1 DEF Read
    <2>4. \A k \in 1..n : d[i].type = "event" /\ d[k].type = "event" => Before(d[k].row, row)
      BY <1>1, <2>1
    <2> HIDE DEF r, w, i
    <2>5. CASE d[i].type # "event"
      <3>1. w = r
        BY <2>3, <2>5
      <3>2. \A j \in DOMAIN r : \E k \in 1..i : d[k].type = "event" /\ r[j] = d[k].row
        BY <2>1, <2>2 DEF RowsRead
      <3>3. \A k \in 1..i : d[k].type = "event" => \E j \in DOMAIN r : r[j] = d[k].row
        BY <2>1, <2>2, <2>5 DEF RowsRead
      <3>4. RowsRead(w, d, i)
        BY <2>2, <3>1, <3>2, <3>3 DEF RowsRead
      <3> QED
        BY <3>4 DEF w, i
    <2>6. CASE d[i].type = "event"
      <3>1. row \in Rows
        BY <2>1, <2>6, MessageTypes
      <3> HIDE DEF row
      <3>2. /\ r \in Seq(Rows) /\ w \in Seq(Rows) /\ Len(w) = Len(r) + 1 /\ Len(r) \in Nat
            /\ \A j \in 1..Len(r) : w[j] = r[j]
            /\ w[Len(r) + 1] = row
        BY <2>2, <2>3, <2>6, <3>1, AppendProperties, LenProperties DEF RowsRead
      <3>3. DOMAIN r = 1..Len(r) /\ DOMAIN w = 1..Len(r) + 1
        BY <3>2, LenProperties
      <3>4. /\ \A j \in DOMAIN w : (j \in DOMAIN r /\ w[j] = r[j]) \/ (j = Len(r) + 1 /\ w[j] = row)
            /\ \A j \in DOMAIN r : j \in DOMAIN w /\ w[j] = r[j]
            /\ Len(r) + 1 \in DOMAIN w
        BY <3>2, <3>3
      <3>5. row = d[i].row
        BY DEF row
      <3>6. ASSUME NEW j \in DOMAIN w PROVE \E k \in 1..i : d[k].type = "event" /\ w[j] = d[k].row
        <4>1. CASE j \in DOMAIN r /\ w[j] = r[j]
          BY <2>1, <2>2, <4>1 DEF RowsRead
        <4>2. CASE w[j] = row
          BY <2>1, <2>6, <3>5, <4>2
        <4> QED
          BY <3>4, <4>1, <4>2
      <3>7. ASSUME NEW k \in 1..i, d[k].type = "event" PROVE \E j \in DOMAIN w : w[j] = d[k].row
        <4>1. CASE k \in 1..n
          <5>1. PICK j \in DOMAIN r : r[j] = d[k].row
            BY <2>2, <3>7, <4>1 DEF RowsRead
          <5> QED
            BY <3>4, <5>1
        <4>2. CASE k = i
          BY <3>2, <3>4, <3>5, <4>2
        <4> QED
          BY <2>1, <4>1, <4>2
      <3>8. \A j \in DOMAIN r : Before(r[j], row)
        BY <2>2, <2>4, <2>6 DEF RowsRead, row
      <3>9. ASSUME NEW a \in DOMAIN w, NEW b \in DOMAIN w, a < b PROVE Before(w[a], w[b])
        <4>1. a \in DOMAIN r /\ w[a] = r[a]
          BY <3>2, <3>3, <3>4, <3>9
        <4>2. CASE b \in DOMAIN r /\ w[b] = r[b]
          BY <2>2, <3>9, <4>1, <4>2 DEF RowsRead
        <4>3. CASE w[b] = row
          BY <3>8, <4>1, <4>3
        <4> QED
          BY <3>4, <4>2, <4>3
      <3>10. RowsRead(w, d, i)
        BY <3>2, <3>6, <3>7, <3>9 DEF RowsRead
      <3> QED
        BY <3>10 DEF w, i
    <2> QED
      BY <2>5, <2>6
  <1>7. N \in T
    <2> HIDE DEF T
    <2> QED
      BY <1>1, <1>5, <1>6, Induction
  <1> QED
    BY <1>1, <1>2, <1>7

-----------------------------------------------------------------------------
(* The store grows, or is replaced. *)

\* Rows of the store, or of an epoch before.
Made(w, st) == w \in SUBSET Rows /\ \A r \in w : UpTo(r, StoreEnd(st))

\* A row is appended, and sent.
LEMMA AppendedLeads ==
  ASSUME NEW st \in Stores, NEW stn \in Stores, stn.epoch = st.epoch, stn.last = st.last + 1,
         NEW p \in Points, UpTo(p, StoreEnd(st)), NEW w, Made(w, st),
         NEW x, x = w \union {Row(st.epoch, stn.last)}
  PROVE  /\ Covers(p, w, st) => Covers(p, x, stn)
         /\ Gapless(p, w, st) => Gapless(p, x, stn)
  <1> DEFINE r == Row(st.epoch, stn.last)
  <1>1. /\ st.epoch \in Nat /\ st.last \in Nat /\ stn.epoch = st.epoch /\ stn.last = st.last + 1
        /\ p.epoch \in Nat /\ p.seq \in Nat
        /\ p.epoch < st.epoch \/ (p.epoch = st.epoch /\ p.seq <= st.last)
    BY RowParts DEF UpTo, Stores
  <1>2. r.epoch = st.epoch /\ r.seq = st.last + 1 /\ r \in x /\ w \subseteq x /\ \A y \in x : y \in w \/ y = r
    BY <1>1, RowParts
  <1>3. ASSUME NEW y \in w
        PROVE  /\ y.epoch \in Nat /\ y.seq \in Nat /\ y = Row(y.epoch, y.seq)
               /\ y.epoch < st.epoch \/ (y.epoch = st.epoch /\ y.seq <= st.last)
    BY RowParts DEF Made, UpTo
  <1>4. r = Row(stn.epoch, stn.last) /\ r = Row(st.epoch, st.last + 1)
    BY <1>1
  <1> HIDE DEF r
  <1>5. ASSUME Covers(p, w, st), NEW n \in 1..stn.last
        PROVE  (p.epoch = stn.epoch /\ n <= p.seq) \/ Row(stn.epoch, n) \in x
    <2>1. n \in 1..st.last \/ n = stn.last
      BY <1>1
    <2> QED
      BY <1>1, <1>2, <1>4, <1>5, <2>1 DEF Covers
  <1>6. ASSUME Gapless(p, w, st) PROVE Gapless(p, x, stn)
    <2>1. (\A y \in w : Follows1(y, p, w)) /\ Reaches(p, w, st)
      BY <1>6 DEF Gapless
    <2>2. ASSUME NEW y \in w PROVE Follows1(y, p, x)
      <3>1. Follows1(y, p, w)
        BY <2>1
      <3>2. r.epoch = y.epoch => y.seq <= r.seq
        BY <1>1, <1>2, <1>3
      <3> QED
        BY <1>2, <3>1, <3>2 DEF Follows1
    <2>3. Follows1(r, p, x)
      <3>1. CASE p.epoch = st.epoch /\ p.seq = st.last
        BY <1>1, <1>2, <3>1 DEF Follows1
      <3>2. CASE Row(st.epoch, st.last) \in w
        <4>1. Row(r.epoch, r.seq - 1) = Row(st.epoch, st.last)
          BY <1>1, <1>2
        <4> QED
          BY <1>2, <3>2, <4>1 DEF Follows1
      <3>3. CASE p.epoch # st.epoch /\ \A q \in w : q.epoch # st.epoch
        <4>1. \A q \in x : q.epoch = r.epoch => r.seq <= q.seq
          BY <1>1, <1>2, <3>3
        <4> QED
          BY <1>2, <3>3, <4>1 DEF Follows1
      <3> QED
        BY <2>1, <3>1, <3>2, <3>3 DEF Reaches
    <2>4. Reaches(p, x, stn)
      BY <1>2, <1>4 DEF Reaches
    <2> QED
      BY <1>2, <2>2, <2>3, <2>4 DEF Gapless
  <1> QED
    BY <1>5, <1>6 DEF Covers

\* The timeline is replaced, and its rows are sent or not.
LEMMA ReplacedLeads ==
  ASSUME NEW st \in Stores, NEW stn \in Stores, stn.epoch = st.epoch + 1,
         NEW p \in Points, UpTo(p, StoreEnd(st)), NEW w, Made(w, st),
         NEW x, x = w \union { Row(stn.epoch, n) : n \in 1..stn.last }
  PROVE  /\ Covers(p, x, stn)
         /\ Gapless(p, w, st) => Gapless(p, x, stn) /\ Gapless(p, w, stn)
  <1>1. /\ st.epoch \in Nat /\ st.last \in Nat /\ stn.epoch \in Nat /\ stn.last \in Nat
        /\ p.epoch \in Nat /\ p.seq \in Nat /\ p.epoch < stn.epoch /\ p.epoch # stn.epoch
    BY RowParts DEF UpTo
  <1>2. ASSUME NEW y \in w
        PROVE  y.epoch \in Nat /\ y.seq \in Nat /\ y.epoch < stn.epoch /\ y.epoch # stn.epoch
    BY <1>1, RowParts DEF Made, UpTo
  <1>3. \A n \in 1..stn.last : Row(stn.epoch, n) \in x
    OBVIOUS
  <1>4. ASSUME NEW y \in x
        PROVE  y \in w \/ (y.epoch = stn.epoch /\ y.seq \in 1..stn.last /\ y = Row(stn.epoch, y.seq))
    BY RowParts
  <1>5. Covers(p, x, stn)
    BY <1>3 DEF Covers
  <1>6. w \subseteq x
    OBVIOUS
  <1>7. ASSUME Gapless(p, w, st) PROVE Gapless(p, x, stn) /\ Gapless(p, w, stn)
    <2>1. \A y \in w : Follows1(y, p, w)
      BY <1>7 DEF Gapless
    <2>2. Gapless(p, w, stn)
      BY <1>1, <1>2, <2>1 DEF Gapless, Reaches
    <2>3. ASSUME NEW y \in w PROVE Follows1(y, p, x)
      <3>1. \A q \in x : q.epoch = y.epoch => q \in w
        BY <1>2, <1>4
      <3> QED
        BY <1>6, <2>1, <3>1 DEF Follows1
    <2>4. ASSUME NEW y \in x, y.epoch = stn.epoch, y.seq \in 1..stn.last PROVE Follows1(y, p, x)
      <3>1. CASE y.seq = 1
        <4>1. ASSUME NEW q \in x, q.epoch = y.epoch PROVE y.seq <= q.seq
          BY <1>1, <1>2, <1>4, <2>4, <3>1, <4>1
        <4> QED
          BY <1>1, <2>4, <4>1 DEF Follows1
      <3>2. CASE y.seq # 1
        <4>1. y.seq - 1 \in 1..stn.last
          BY <1>1, <2>4, <3>2
        <4>2. Row(stn.epoch, y.seq - 1) \in x
          BY <1>3, <4>1
        <4> QED
          BY <2>4, <4>2 DEF Follows1
      <3> QED
        BY <3>1, <3>2
    <2>5. Reaches(p, x, stn)
      <3>1. CASE stn.last = 0
        <4>1. \A q \in x : q.epoch # stn.epoch
          BY <1>1, <1>2, <1>4, <3>1
        <4> QED
          BY <1>1, <4>1 DEF Reaches
      <3>2. CASE stn.last # 0
        <4>1. stn.last \in 1..stn.last
          BY <1>1, <3>2
        <4> QED
          BY <1>3, <4>1 DEF Reaches
      <3> QED
        BY <3>1, <3>2
    <2>6. \A y \in x : Follows1(y, p, x)
      BY <1>4, <2>3, <2>4
    <2> QED
      BY <2>2, <2>5, <2>6 DEF Gapless
  <1> QED
    BY <1>5, <1>7

\* From the end of the store nothing leads on; before the first row is before every row.
LEMMA EndsLead ==
  ASSUME NEW st \in Stores
  PROVE  /\ Covers(StoreEnd(st), {}, st) /\ Gapless(StoreEnd(st), {}, st)
         /\ \A e \in Nat : \A w : Made(w, st) =>
              /\ Covers(Row(e, 0), w, st) => Covers(Row(0, 0), w, st)
              /\ Gapless(Row(e, 0), w, st) => Gapless(Row(0, 0), w, st)
  <1>1. /\ st.epoch \in Nat /\ st.last \in Nat /\ st.epoch >= 1
        /\ StoreEnd(st).epoch = st.epoch /\ StoreEnd(st).seq = st.last
    BY RowParts
  <1>2. Covers(StoreEnd(st), {}, st) /\ Gapless(StoreEnd(st), {}, st)
    BY <1>1 DEF Covers, Gapless, Reaches
  <1>3. ASSUME NEW e \in Nat, NEW w, Made(w, st)
        PROVE  /\ Covers(Row(e, 0), w, st) => Covers(Row(0, 0), w, st)
               /\ Gapless(Row(e, 0), w, st) => Gapless(Row(0, 0), w, st)
    <2> DEFINE p == Row(e, 0)
               z == Row(0, 0)
    <2>1. p.epoch = e /\ p.seq = 0 /\ z.epoch = 0 /\ z.seq = 0
      BY RowParts
    <2> HIDE DEF p, z
    <2>2. ASSUME NEW r \in w
          PROVE  /\ r.epoch \in Nat /\ r.seq \in Nat /\ r.epoch >= 1 /\ r.seq >= 1
                 /\ r.epoch < st.epoch \/ (r.epoch = st.epoch /\ r.seq <= st.last)
      <3>1. r \in Rows /\ UpTo(r, StoreEnd(st))
        BY <1>3 DEF Made
      <3> QED
        BY <1>1, <3>1, RowParts DEF UpTo
    <2>3. Covers(p, w, st) => Covers(z, w, st)
      BY <1>1, <2>1 DEF Covers
    <2>4. ASSUME Gapless(p, w, st) PROVE Gapless(z, w, st)
      <3>1. (\A r \in w : Follows1(r, p, w)) /\ Reaches(p, w, st)
        BY <2>4 DEF Gapless
      <3>2. ASSUME NEW r \in w PROVE Follows1(r, z, w)
        <4>1. Follows1(r, p, w) /\ r.epoch # z.epoch
          BY <2>1, <2>2, <3>1
        <4>2. CASE r.epoch = p.epoch /\ r.seq <= p.seq + 1
          <5>1. \A q \in w : r.seq <= q.seq
            BY <2>1, <2>2, <4>2
          <5> QED
            BY <4>1, <5>1 DEF Follows1
        <4> QED
          BY <4>1, <4>2 DEF Follows1
      <3>3. Reaches(z, w, st)
        <4>1. z.epoch # st.epoch
          BY <1>1, <2>1
        <4>2. CASE p.epoch = st.epoch /\ p.seq = st.last
          <5>1. \A q \in w : q.epoch # st.epoch
            BY <1>1, <2>1, <2>2, <4>2
          <5> QED
            BY <4>1, <5>1 DEF Reaches
        <4> QED
          BY <3>1, <4>1, <4>2 DEF Reaches
      <3> QED
        BY <3>2, <3>3 DEF Gapless
    <2> QED
      BY <2>3, <2>4 DEF p, z
  <1> QED
    BY <1>2, <1>3

-----------------------------------------------------------------------------
(* The timeline and the line. *)

\* A timeline that is authoritative and holds rows.
Has(t) == t.synced /\ t.range # NoSpan
\* Whatever row a page on its way was asked after, those in the queue are newer.
PastPages(d, s) == \A i \in DOMAIN d, k \in DOMAIN s : \A p \in AsksAfter(d[i]) : Before(p, s[k])
\* Nothing goes on from past what is held.
Reached(c, L, t) == Has(t) => Within(c, L, EndOf(t.range))

\* A request is of a row or of the tail.
LEMMA RequestKinds ==
  /\ \A r \in Requests \union {NoRequest} : r # NoRequest /\ r # TailFetch => r.dir = "after" /\ r \in Requests
  /\ \A r \in Requests : /\ Position(r) \in Points /\ r.epoch \in Nat
                          /\ Position(r).epoch = r.epoch /\ Position(r).seq = r.seq
  <1>1. \A r \in Requests : r.epoch \in Nat /\ r.seq \in Nat
    BY Bounds DEF Requests, TailFetch, Request
  <1>2. \A r \in Requests \union {NoRequest} : r # NoRequest /\ r # TailFetch => r.dir = "after" /\ r \in Requests
    BY DEF Requests
  <1>3. \A r \in Requests : Position(r) \in Points
    BY <1>1, PointTypes DEF Position
  <1> QED
    BY <1>1, <1>2, <1>3 DEF Position, Row

\* A point no request is past.
LEMMA LineWithin ==
  ASSUME NEW t, NEW k, NEW c, NEW A, NEW span, NEW st, NEW s, NEW d,
         ClientInv(t, k, c, A, span, st, s, d), NEW p,
         \A i \in DOMAIN d : \A q \in AsksAfter(d[i]) : UpTo(q, p),
         \A q \in Points : Behind(q, st, s, d) => UpTo(q, p)
  PROVE  Within(c, Line(d, A, st.epoch), p)
  <1> DEFINE L == Line(d, A, st.epoch)
  <1>1. /\ d \in Seq(Messages) /\ A \in Seq(Asks) /\ st.epoch \in Nat
        /\ \A i \in DOMAIN d : d[i].type = "page" => Shaped(d[i].page)
        /\ \A i \in DOMAIN A : RequestOK(A[i].request, t, k, st, s, d)
        /\ c.pending \in Pendings(t, k, st, s, d)
    BY RowParts DEF ClientInv, Wire, AskedOK, AnswersOK, AnswerOK, CatchUpIn
  <1>2. \A r \in Requests : r.dir = "after" /\ RequestOK(r, t, k, st, s, d) => UpTo(Position(r), p)
    BY RequestKinds DEF RequestOK
  <1>3. ASSUME NEW i \in DOMAIN L, L[i].request.dir = "after", ~L[i].failed PROVE UpTo(Position(L[i].request), p)
    <2>1. CASE i \in 1..Len(d) /\ d[i] \in Messages /\ L[i] = OfMessage(d[i])
      <3>1. d[i].type = "page"
        BY <1>3, <2>1, NothingDoes DEF OfMessage
      <3>2. L[i].request = d[i].page.request
        BY <2>1, <3>1 DEF OfMessage, Entry
      <3>3. i \in DOMAIN d
        BY <1>1, <2>1, LenProperties
      <3>4. d[i].page.dir = d[i].page.request.dir
        BY <1>1, <3>1, <3>3 DEF Shaped
      <3>5. Position(d[i].page.request) \in AsksAfter(d[i])
        BY <1>3, <3>1, <3>2, <3>4 DEF AsksAfter
      <3> QED
        BY <3>2, <3>3, <3>5
    <2>2. CASE i - Len(d) \in 1..Len(A) /\ A[i - Len(d)] \in Asks /\ L[i] = OfAsk(A[i - Len(d)], st.epoch)
      <3> DEFINE a == A[i - Len(d)]
      <3>1. i - Len(d) \in DOMAIN A
        BY <1>1, <2>2, LenProperties
      <3>2. RequestOK(a.request, t, k, st, s, d) /\ a.request \in Requests \union {Subscribe}
        BY <1>1, <2>2, <3>1 DEF Asks
      <3>3. L[i] = OfAsk(a, st.epoch)
        BY <2>2
      <3> HIDE DEF a, L
      <3>4. a.request # Subscribe
        BY <1>3, <3>3, NothingDoes DEF OfAsk
      <3>5. L[i].request = a.request
        BY <3>3, <3>4 DEF OfAsk, Entry
      <3> QED
        BY <1>2, <1>3, <3>2, <3>4, <3>5
    <2> QED
      BY <1>1, <2>1, <2>2, LinePlaces
  <1>4. c.pending # NoRequest => UpTo(Position(c.pending), p)
    BY <1>1, <1>2, RequestKinds DEF Pendings
  <1> QED
    BY <1>3, <1>4 DEF Within, Bounded

\* Nor is any past a row in the queue.
LEMMA QueueWithin ==
  ASSUME NEW t, NEW k, NEW c, NEW A, NEW span, NEW st, NEW s, NEW d,
         ClientInv(t, k, c, A, span, st, s, d), PastPages(d, s), NEW i \in DOMAIN s
  PROVE  Within(c, Line(d, A, st.epoch), s[i])
  <1>1. /\ s[i] \in Points /\ \A j \in DOMAIN d : d[j] \in Messages
    BY PointTypes, ElementOfSeq, LenProperties DEF ClientInv, Wire
  <1>2. ASSUME NEW j \in DOMAIN d, NEW q \in AsksAfter(d[j]) PROVE UpTo(q, s[i])
    <2>1. Before(q, s[i])
      BY <1>2 DEF PastPages
    <2>2. d[j].type = "page" /\ q = Position(d[j].page.request) /\ d[j].page.request \in Requests
      BY <1>1, <1>2, MessageTypes DEF AsksAfter, Pages
    <2>3. q \in Points
      BY <2>2, RequestKinds
    <2> QED
      BY <1>1, <2>1, <2>3, OrderOfRows
  <1>3. ASSUME NEW q \in Points, Behind(q, st, s, d) PROVE UpTo(q, s[i])
    BY <1>1, <1>3, OrderOfRows DEF Behind
  <1> QED
    BY <1>2, <1>3, LineWithin

\* The rows on their way are of the store.
LEMMA RowsOnTheWay ==
  ASSUME NEW st, NEW s, NEW d, Wire(st, s, d)
  PROVE  /\ Made(Brought(d), st) /\ Made(Rng(s), st) /\ Made(Rng(s) \union Brought(d), st)
         /\ \A i \in DOMAIN d : Made(BroughtBehind(d, i), st)
         /\ \A i \in DOMAIN s, y \in Brought(d) : Before(s[i], y)
         /\ \A i \in DOMAIN s : s[i] \in Rows
         /\ \A i \in DOMAIN d : d[i] \in Messages
  <1>1. st \in Stores /\ s \in Seq(Rows) /\ d \in Seq(Messages) /\ InOrder(st, s, d)
    BY DEF Wire
  <1>2. (\A i \in DOMAIN s : s[i] \in Rows) /\ (\A i \in DOMAIN d : d[i] \in Messages)
    BY <1>1, ElementOfSeq, LenProperties
  <1>3. ASSUME NEW i \in DOMAIN d, d[i].type = "event"
        PROVE  d[i].row \in Rows /\ UpTo(d[i].row, StoreEnd(st)) /\ \A j \in DOMAIN s : Before(s[j], d[i].row)
    <2>1. d[i].row \in Brings(d[i])
      BY <1>3 DEF Brings
    <2>2. \A j \in DOMAIN s : Precedes(s[j], d[i])
      BY <1>1 DEF InOrder
    <2> QED
      BY <1>1, <1>2, <1>3, <2>1, <2>2, MessageTypes DEF InOrder, Precedes
  <1>4. Made(Brought(d), st)
    BY <1>3 DEF Made, Brought
  <1>5. Made(Rng(s), st)
    BY <1>1, <1>2 DEF Made, Rng, InOrder
  <1>6. ASSUME NEW i \in DOMAIN d PROVE Made(BroughtBehind(d, i), st)
    BY <1>3 DEF Made, BroughtBehind
  <1>7. \A i \in DOMAIN s, y \in Brought(d) : Before(s[i], y)
    BY <1>3 DEF Brought
  <1>8. Made(Rng(s) \union Brought(d), st)
    BY <1>4, <1>5 DEF Made
  <1> QED
    BY <1>2, <1>4, <1>5, <1>6, <1>7, <1>8

\* The end of the timeline and the queue.
LEMMA QueueReady ==
  ASSUME NEW t, NEW k, NEW st, NEW s, NEW d, Wire(st, s, d), ClientOK(t, k, st, s, d), t.synced
  PROVE  Queued(EndOf(t.range), s, Brought(d), st)
  <1> DEFINE p == EndOf(t.range)
  <1>1. st \in Stores /\ s \in Seq(Rows) /\ InOrder(st, s, d) /\ t \in Timelines
    BY DEF Wire, ClientOK
  <1>2. UpTo(p, StoreEnd(st)) /\ \A i \in DOMAIN s : Before(p, s[i])
    <2>1. CASE t.range = NoSpan
      <3>1. p.epoch = 0
        BY <2>1, SpanTypes DEF EndOf, Row, NoSpan, Span
      <3>2. StoreEnd(st).epoch \in Nat /\ StoreEnd(st).epoch >= 1
        BY <1>1, RowParts
      <3>3. \A i \in DOMAIN s : s[i].epoch \in Nat /\ s[i].epoch >= 1
        BY RowsOnTheWay, RowParts
      <3> HIDE DEF p
      <3> QED
        BY <3>1, <3>2, <3>3 DEF UpTo, Before
    <2>2. CASE t.range # NoSpan
      BY <2>2, EndsBehind DEF Behind
    <2> QED
      BY <2>1, <2>2
  <1>3. /\ Brought(d) \in SUBSET Rows
        /\ \A y \in Brought(d) : UpTo(y, StoreEnd(st))
        /\ \A i \in DOMAIN s, y \in Brought(d) : Before(s[i], y)
    BY RowsOnTheWay DEF Made
  <1>4. /\ \A i \in DOMAIN s : UpTo(s[i], StoreEnd(st))
        /\ \A i, j \in DOMAIN s : i < j => Before(s[i], s[j])
    BY <1>1 DEF InOrder
  <1> QED
    BY <1>1, <1>2, <1>3, <1>4 DEF Queued

\* What the queue makes of timeline t and asks for.
Drains(t, u, q, c, L, st, s, d) ==
  /\ Recoveries(q, st.epoch) /\ Ahead(q, 0, L) /\ Ending(q, EndOf(u.range))
  /\ q # <<>> => Has(u)
  /\ Reached(c, L, u)
  /\ u.synced = t.synced /\ u.newer = t.newer /\ u.init = t.init
  /\ ~t.synced \/ t.newer => q = <<>>
  /\ t.synced /\ ~t.newer =>
       /\ Covers(EndOf(t.range), Rng(s) \union Brought(d), st) => Covers(EndOf(u.range), Brought(d), st)
       /\ Gapless(EndOf(t.range), Rng(s) \union Brought(d), st) => Gapless(EndOf(u.range), Brought(d), st) /\ q = <<>>

\* A frame: no request it makes is past what it leaves, nor behind what is still to be answered.
LEMMA QueueDrains ==
  ASSUME NEW t, NEW k, NEW c, NEW A, NEW span, NEW st, NEW s, NEW d,
         ClientInv(t, k, c, A, span, st, s, d), PastPages(d, s),
         NEW L, L = Line(d, A, st.epoch), Reached(c, L, t),
         NEW u, u = BatchApplied(t, s).timeline, NEW q, q = BatchApplied(t, s).recoveries
  PROVE  Drains(t, u, q, c, L, st, s, d)
  <1>1. /\ Wire(st, s, d) /\ ClientOK(t, k, st, s, d)
        /\ st \in Stores /\ s \in Seq(Rows) /\ d \in Seq(Messages)
        /\ t \in Timelines /\ RangeOK(t.range) /\ Held(t)
    BY DEF ClientInv, Wire, ClientOK
  <1>2. ASSUME q = <<>>, Reached(c, L, u), u.synced = t.synced, u.newer = t.newer, u.init = t.init, ~t.synced \/ t.newer
        PROVE  Drains(t, u, q, c, L, st, s, d)
    <2>1. q \in Seq(Requests) /\ Len(q) = 0
      BY <1>2, EmptySeq
    <2>2. Recoveries(q, st.epoch) /\ Ahead(q, 0, L) /\ Ending(q, EndOf(u.range))
      BY <2>1 DEF Recoveries, Ahead, Ending
    <2> QED
      BY <1>2, <2>2 DEF Drains
  <1>3. CASE ~t.synced
    <2>1. \A r \in t.rows : \A i \in DOMAIN s : Before(r, s[i])
      BY <1>1 DEF ClientOK, Behind
    <2>2. \A i, j \in DOMAIN s : i < j => Before(s[i], s[j])
      BY <1>1 DEF Wire, InOrder
    <2>3. /\ Lengthened(t, u, { s[i] : i \in DOMAIN s })
          /\ FollowUp(q, t, u, { s[i] : i \in DOMAIN s })
      BY <1>1, <2>1, <2>2, BatchLengthens
    <2>4. q = <<>> /\ u.synced = t.synced /\ u.newer = t.newer /\ u.init = t.init
      BY <1>3, <2>3 DEF FollowUp, Lengthened
    <2> QED
      BY <1>2, <1>3, <2>4 DEF Reached, Has
  <1>4. CASE t.synced /\ t.newer
    <2>1. u = t /\ q = <<>>
      BY <1>4 DEF BatchApplied
    <2> QED
      BY <1>2, <1>4, <2>1
  <1>5. CASE t.synced /\ ~t.newer
    <2> DEFINE Y == Brought(d)
               spots == Spots(t, s)
               p == EndOf(u.range)
    <2>1. Queued(EndOf(t.range), s, Y, st)
      BY <1>1, <1>5, QueueReady
    <2>2. Walked(t, s, u, q, Len(s) + 1, st) /\ Leads(t, s, Y, u, q, Len(s) + 1, st)
      BY <1>1, <1>5, <2>1, BatchWalks
    <2>3. RowsFrom(s, 1, Y) = Rng(s) \union Y /\ RowsFrom(s, Len(s) + 1, Y) = Y
      BY <1>1, RowsFromEnds
    <2>4. /\ u.synced = t.synced /\ u.newer = t.newer /\ u.init = t.init
          /\ u.range \in Spans /\ UpTo(p, StoreEnd(st))
          /\ u.range = NoSpan => q = <<>>
          /\ u.range # NoSpan => p \in spots
          /\ Chasing(q, spots, p)
      BY <1>5, <2>2 DEF Walked
    <2>5. /\ Covers(EndOf(t.range), Rng(s) \union Y, st) => Covers(p, Y, st)
          /\ Gapless(EndOf(t.range), Rng(s) \union Y, st) => Gapless(p, Y, st) /\ q = <<>>
      BY <2>2, <2>3 DEF Leads
    <2>6. ASSUME NEW x \in spots PROVE Within(c, L, x)
      <3>1. CASE \E j \in DOMAIN s : x = s[j]
        BY <3>1, QueueWithin
      <3>2. CASE t.range # NoSpan /\ x = EndOf(t.range)
        BY <1>5, <3>2 DEF Reached, Has
      <3> QED
        BY <3>1, <3>2 DEF Spots
    <2>7. Reached(c, L, u)
      BY <2>4, <2>6 DEF Reached, Has
    <2>8. q \in Seq(Requests) /\ Len(q) \in Nat /\ \A i \in 1..Len(q) : q[i] \in Requests
      BY <2>4, ElementOfSeq, LenProperties DEF Chasing
    <2> HIDE DEF spots
    <2>9. Ahead(q, 0, L) /\ Ending(q, p)
      BY <2>4, <2>6 DEF Ahead, Ending, Chasing, Within
    <2>10. ASSUME NEW i \in 1..Len(q) PROVE q[i].dir = "after" /\ q[i].epoch <= st.epoch
      <3>1. q[i].dir = "after" /\ UpTo(Position(q[i]), p)
        BY <2>4 DEF Chasing
      <3>2. Position(q[i]) \in Points /\ p \in Points /\ StoreEnd(st) \in Points
        BY <1>1, <2>4, <2>8, PointTypes, RequestKinds
      <3>3. UpTo(Position(q[i]), StoreEnd(st))
        BY <2>4, <3>1, <3>2, OrderOfRows
      <3>4. /\ Position(q[i]).epoch = q[i].epoch /\ q[i].epoch \in Nat
            /\ StoreEnd(st).epoch = st.epoch /\ st.epoch \in Nat
        BY <1>1, <2>8, RequestKinds, RowParts
      <3> QED
        BY <3>1, <3>3, <3>4 DEF UpTo
    <2>11. Recoveries(q, st.epoch)
      BY <2>4, <2>8, <2>10 DEF Recoveries, Chasing
    <2> QED
      BY <1>5, <2>4, <2>5, <2>7, <2>9, <2>11 DEF Drains, Has
  <1> QED
    BY <1>3, <1>4, <1>5

-----------------------------------------------------------------------------
(* The timeline and a page. *)

\* A page that leads to the end of the timeline has settled it as u, unless it is discarded.
Settles(u, page) ==
  u.synced /\ ~u.newer /\ (EndOf(u.range) = Top(page) \/ (page.max = 0 /\ u.range = NoSpan))
Discarded(t, k, u, page) ==
  page.dir = "tail" /\ ~page.reset /\ ~t.synced /\ ~u.synced /\ k # NoSpan /\ t.init = "none"
\* One that does not has left it detached.
Detaches(u, page) == u.newer /\ UpTo(Row(page.epoch, page.to), EndOf(u.range))
\* Nothing is asked for but what follows the page of a bootstrap.
Bootstraps(t, q, u, page) ==
  /\ q = CatchUpAfter(page.epoch, page.to) /\ q \in Requests /\ Position(q) = Top(page)
  /\ page.dir = "tail" /\ ~page.reset /\ t.init # "none"
  /\ Settles(u, page)

\* A commit marks the timeline as the page says.
LEMMA CommittedMarks ==
  ASSUME NEW t, NEW page, NEW placed \in Timelines
  PROVE  /\ Committed(t, placed, page).newer = page.hasNewer
         /\ Committed(t, placed, page).init = InitAfter(t, page)
         /\ Committed(t, placed, page).range = placed.range
         /\ Committed(t, placed, page).synced = (placed.synced \/ page.dir = "tail" \/ ~page.hasNewer)
  <1>1. \A f \in {"synced", "range", "newer", "init"} : f \in DOMAIN placed
    BY DEF Timelines
  <1> QED
    BY <1>1 DEF Committed, Timelines

\* What a page is placed over.
LEMMA ExtendedRange ==
  ASSUME NEW t \in Timelines, NEW cur \in Spans, NEW page \in Pages, ~page.error,
         page.from # 0 => page.epoch \in 1..MaxEpoch /\ page.from \in 1..MaxRows /\ page.to \in 1..MaxRows /\ page.from <= page.to,
         NEW p, p = Extended(t, cur, page)
  PROVE  /\ p \in Timelines /\ p.synced = t.synced
         /\ p.range = IF page.from = 0 THEN cur
                      ELSE IF cur = NoSpan THEN Span(page.epoch, page.from, page.to)
                      ELSE IF cur.epoch = page.epoch /\ page.to > cur.to /\ page.from <= cur.to + 1
                      THEN Span(cur.epoch, cur.from, page.to) ELSE cur
  <1> DEFINE rows == t.rows \union RowsOf(page.epoch, page.from, page.to)
             longer == [cur EXCEPT !.to = page.to]
             span == Span(page.epoch, page.from, page.to)
  <1>1. t.rows \subseteq Rows /\ (page.from # 0 => rows \subseteq Rows)
    BY RowsTypes DEF Timelines, Pages
  <1>2. longer = Span(cur.epoch, cur.from, page.to) /\ longer \in Spans
    BY DEF Spans, Span, Pages
  <1>3. page.from # 0 => span \in Spans
    BY SpanMade DEF NonEmpty
  <1> HIDE DEF rows, longer, span
  <1>4. CASE page.from = 0
    <2>1. p = [t EXCEPT !.range = cur]
      BY <1>4 DEF Extended
    <2> QED
      BY <1>4, <2>1 DEF Timelines
  <1>5. CASE page.from # 0 /\ cur = NoSpan
    <2>1. p = [t EXCEPT !.range = span, !.rows = rows]
      BY <1>5 DEF Extended, rows, span
    <2>2. Placed(t, p, span, rows)
      BY <1>1, <1>3, <1>5, <2>1, PlacedTypes
    <2> QED
      BY <1>5, <2>2 DEF Placed, span
  <1>6. CASE page.from # 0 /\ cur # NoSpan /\ cur.epoch = page.epoch /\ page.to > cur.to /\ page.from <= cur.to + 1
    <2>1. p = [t EXCEPT !.range = longer, !.rows = rows]
      BY <1>6 DEF Extended, rows, longer
    <2>2. Placed(t, p, longer, rows)
      BY <1>1, <1>2, <1>6, <2>1, PlacedTypes
    <2> QED
      BY <1>2, <1>6, <2>2 DEF Placed
  <1>7. CASE page.from # 0 /\ cur # NoSpan /\ ~(cur.epoch = page.epoch /\ page.to > cur.to /\ page.from <= cur.to + 1)
    <2>1. p = [t EXCEPT !.range = cur]
      BY <1>7 DEF Extended
    <2> QED
      BY <1>7, <2>1 DEF Timelines
  <1> QED
    BY <1>4, <1>5, <1>6, <1>7

\* A page joins what is held.
Joined(t, k, page) ==
  /\ UpTo(EndOf(CurrentRange(t, k)), Top(page))
  /\ page.dir = "after" /\ ~page.reset /\ t.synced => UpTo(Position(page.request), EndOf(t.range))

\* The ends of the range before and after a page that only extends it.
LEMMA ExtendedSettles ==
  ASSUME NEW t \in Timelines, RangeOK(t.range),
         NEW k \in Spans, RangeOK(k), NEW page \in Pages, AnswerOK(page, t, k),
         ~page.error, ~page.reset, Joined(t, k, page),
         NEW cur, cur = CurrentRange(t, k),
         page.dir = "tail" => \/ cur = NoSpan
                              \/ /\ cur.epoch = page.epoch /\ page.max > cur.to
                                 /\ page.from <= cur.to + 1,
         NEW u, u = Committed(t, Extended(t, cur, page), page)
  PROVE  /\ ~page.hasNewer => Settles(u, page)
         /\ page.hasNewer => Detaches(u, page) /\ u.synced = t.synced
         /\ ~PageGap(cur, page)
  <1> DEFINE e == page.epoch
             from == page.from
             to == page.to
             max == page.max
             p == Extended(t, cur, page)
  <1>0. MaxRows \in Nat /\ MaxEpoch \in Nat
    BY Bounds
  <1>1. cur \in Spans /\ RangeOK(cur) /\ cur = (IF t.synced THEN t.range ELSE k)
    BY DEF Timelines, CurrentRange
  <1>2. /\ e \in Nat /\ from \in Nat /\ to \in Nat /\ max \in Nat
        /\ e \in 1..MaxEpoch /\ from \in 0..MaxRows /\ to \in 0..MaxRows
        /\ page.hasNewer \in BOOLEAN /\ page.dir \in {"tail", "after"}
        /\ from = 0 => to = 0
        /\ from # 0 => from <= to /\ to <= max
        /\ page.hasNewer <=> page.dir = "after" /\ from # 0 /\ to < max
        /\ page.dir = "tail" => IF from = 0 THEN max = 0 ELSE to = max
    BY <1>0 DEF Pages, AnswerOK, Shaped
  <1>3. /\ cur # NoSpan => cur.epoch \in Nat /\ cur.from \in Nat /\ cur.to \in Nat /\ cur.to >= 1
        /\ cur = NoSpan => cur.epoch = 0 /\ cur.from = 0 /\ cur.to = 0
        /\ EndOf(cur).epoch = cur.epoch /\ EndOf(cur).seq = cur.to
        /\ Top(page).epoch = e /\ Top(page).seq = max
    <2>1. cur # NoSpan => cur.epoch \in Nat /\ cur.from \in Nat /\ cur.to \in Nat /\ cur.to >= 1
      BY <1>0, <1>1, SpanTypes
    <2>2. cur = NoSpan => cur.epoch = 0 /\ cur.from = 0 /\ cur.to = 0
      BY <1>1, SpanTypes
    <2>3. EndOf(cur).epoch = cur.epoch /\ EndOf(cur).seq = cur.to /\ Top(page).epoch = e /\ Top(page).seq = max
      BY RowParts DEF EndOf, Top
    <2> QED
      BY <2>1, <2>2, <2>3
  <1>4. cur.epoch < e \/ (cur.epoch = e /\ cur.to <= max)
    BY <1>3 DEF Joined, UpTo
  <1>5. ASSUME page.dir = "after"
        PROVE  /\ cur # NoSpan /\ cur.epoch = e
               /\ from = 0 => max <= cur.to
               /\ from # 0 => from <= cur.to + 1
    <2> DEFINE n == page.request.seq
    <2>1. page.request.epoch = e /\ (IF from = 0 THEN max <= n ELSE from = n + 1)
      BY <1>5 DEF AnswerOK, Shaped
    <2>2. CASE t.synced
      <3>1. ~Empty(t) /\ UpTo(Position(page.request), EndOf(cur))
        BY <1>1, <1>5, <2>2 DEF AnswerOK, Joined
      <3>2. Position(page.request).epoch = e /\ Position(page.request).seq = n
        BY <2>1 DEF Position, Row
      <3>3. n \in Nat
        <4>1. page.request \in Requests
          BY DEF Pages
        <4>2. Position(page.request) \in Points
          BY ONLY <4>1, RequestKinds
        <4> QED
          BY <3>2, <4>2 DEF Points
      <3>4. e < cur.epoch \/ (e = cur.epoch /\ n <= cur.to)
        BY <1>3, <3>1, <3>2 DEF UpTo
      <3>5. cur # NoSpan
        BY <1>1, <2>2, <3>1 DEF Empty
      <3> HIDE DEF n, e, from, max
      <3> QED
        BY <1>2, <1>3, <1>4, <2>1, <3>3, <3>4, <3>5
    <2>3. CASE ~t.synced
      <3>1. cur # NoSpan /\ page.request = CatchUpAfter(cur.epoch, cur.to)
        BY <1>1, <1>5, <2>3 DEF AnswerOK
      <3>2. page.request.epoch = cur.epoch /\ n = cur.to
        BY <3>1 DEF CatchUpAfter, Request
      <3> HIDE DEF n, e, from, max
      <3> QED
        BY <1>2, <1>3, <2>1, <3>1, <3>2
    <2> QED
      BY <2>2, <2>3
  <1>6. /\ p \in Timelines /\ p.synced = t.synced
        /\ p.range = IF from = 0 THEN cur ELSE IF cur = NoSpan THEN Span(e, from, to)
                     ELSE IF cur.epoch = e /\ to > cur.to /\ from <= cur.to + 1
                     THEN Span(cur.epoch, cur.from, to) ELSE cur
    <2>1. from # 0 => e \in 1..MaxEpoch /\ from \in 1..MaxRows /\ to \in 1..MaxRows /\ from <= to
      BY <1>0, <1>2
    <2> QED
      BY <1>1, <2>1, ExtendedRange
  <1> HIDE DEF p
  <1>7. /\ u.newer = page.hasNewer /\ u.range = p.range
        /\ ~page.hasNewer => u.synced
        /\ page.hasNewer => u.synced = t.synced
    <2>1. u = Committed(t, p, page) /\ p \in Timelines
      BY <1>6 DEF p
    <2>2. /\ u.newer = page.hasNewer /\ u.range = p.range
          /\ u.synced = (p.synced \/ page.dir = "tail" \/ ~page.hasNewer)
      BY ONLY <2>1, CommittedMarks
    <2>3. t.synced \in BOOLEAN
      BY DEF Timelines
    <2> QED
      BY <1>2, <1>6, <2>2, <2>3
  <1>8. \A x, y, z : EndOf(Span(x, y, z)) = Row(x, z)
    BY DEF EndOf, Span
  <1>9. EndOf(cur) = Row(cur.epoch, cur.to) /\ Top(page) = Row(e, max)
    BY DEF EndOf, Top
  <1>13. page.dir = "tail" => cur = NoSpan \/ (cur.epoch = e /\ max > cur.to /\ from <= cur.to + 1)
    OBVIOUS
  <1> HIDE DEF e, from, to, max
  <1>10. ASSUME ~page.hasNewer
         PROVE  EndOf(u.range) = Row(e, max) \/ (max = 0 /\ u.range = NoSpan)
    <2>1. CASE page.dir = "tail"
      <3>1. CASE from = 0 /\ cur = NoSpan
        BY <1>2, <1>6, <1>7, <2>1, <3>1
      <3>2. CASE from # 0
        <4>2. to = max
          BY <1>2, <2>1, <3>2
        <4>3. p.range = Span(e, from, to) \/ (p.range = Span(cur.epoch, cur.from, to) /\ cur.epoch = e)
          BY <1>6, <1>13, <2>1, <3>2, <4>2
        <4> QED
          BY <1>7, <1>8, <4>2, <4>3
      <3>3. CASE from = 0 /\ cur # NoSpan
        BY <1>2, <1>3, <1>13, <2>1, <3>3
      <3> QED
        BY <3>1, <3>2, <3>3
    <2>2. CASE page.dir = "after"
      <3>1. from = 0 \/ to = max
        BY <1>2, <1>10, <2>2
      <3>2. CASE p.range = cur /\ (from = 0 \/ ~(to > cur.to))
        <4>1. cur.to = max /\ cur.epoch = e
          BY <1>2, <1>3, <1>4, <1>5, <2>2, <3>1, <3>2
        <4> QED
          BY <1>7, <1>9, <3>2, <4>1
      <3>3. CASE p.range = Span(cur.epoch, cur.from, to) /\ from # 0
        BY <1>5, <1>7, <1>8, <2>2, <3>1, <3>3
      <3> QED
        BY <1>5, <1>6, <2>2, <3>2, <3>3
    <2> QED
      BY <1>2, <2>1, <2>2
  <1>11. ASSUME page.hasNewer
         PROVE  UpTo(Row(e, to), EndOf(u.range))
    <2>1. page.dir = "after" /\ from # 0
      BY <1>2, <1>11
    <2>2. CASE p.range = cur /\ ~(to > cur.to)
      <3>1. Row(e, to).epoch = cur.epoch /\ Row(e, to).seq <= cur.to
        BY <1>2, <1>3, <1>5, <2>1, <2>2 DEF Row
      <3> QED
        BY <1>3, <1>7, <2>2, <3>1 DEF UpTo
    <2>3. CASE p.range = Span(cur.epoch, cur.from, to)
      <3>1. EndOf(u.range) = Row(e, to)
        BY <1>5, <1>7, <1>8, <2>1, <2>3
      <3> QED
        BY <1>2, <3>1 DEF UpTo, Row
    <2> QED
      BY <1>5, <1>6, <2>1, <2>2, <2>3
  <1>12. ~PageGap(cur, page)
    <2>1. PageGap(cur, page) => from # 0 /\ cur # NoSpan /\ from > cur.to + 1
      BY DEF PageGap, from
    <2>2. ~(from # 0 /\ cur # NoSpan /\ from > cur.to + 1)
      BY <1>2, <1>3, <1>5, <1>13
    <2> QED
      BY <2>1, <2>2
  <1> QED
    BY <1>7, <1>9, <1>10, <1>11, <1>12 DEF Settles, Detaches, e, to, max

\* What a page leaves of the initialisation.
LEMMA InitialisationEnds ==
  ASSUME NEW t \in Timelines, NEW page
  PROVE  /\ page.reset => InitAfter(t, page) = "none"
         /\ t.init = "none" => InitAfter(t, page) = "none"
         /\ InitAfter(t, page) \in {"none", "tail", "after"}
  <1> QED
    BY DEF InitAfter, Timelines

\* A page that is all there is settles the timeline.
LEMMA ReplacedSettles ==
  ASSUME NEW t \in Timelines, NEW page \in Pages, Shaped(page), ~page.error,
         page.dir = "tail" \/ page.reset, NEW continuing \in BOOLEAN, NEW u,
         u = Committed(t, ReplacedBy(t, page, continuing), page)
  PROVE  ~page.hasNewer /\ Settles(u, page) /\ u.init = InitAfter(t, page)
  <1> DEFINE span == IF page.from = 0 THEN NoSpan ELSE Span(page.epoch, page.from, page.to)
             old == IF continuing THEN { r \in t.rows : r.epoch = page.epoch /\ r.seq > page.to } ELSE {}
             rows == RowsOf(page.epoch, page.from, page.to) \union old
             p == [t EXCEPT !.range = span, !.rows = rows]
  <1>0. MaxRows \in Nat /\ MaxEpoch \in Nat
    BY Bounds
  <1>1. /\ page.epoch \in 1..MaxEpoch /\ page.from \in 0..MaxRows /\ page.to \in 0..MaxRows
        /\ page.hasNewer \in BOOLEAN /\ ~page.hasNewer
        /\ page.from # 0 => page.from \in 1..MaxRows /\ page.to \in 1..MaxRows /\ page.from <= page.to
        /\ IF page.from = 0 THEN page.max = 0 ELSE page.to = page.max
    BY <1>0 DEF Pages, Shaped
  <1>2. span \in Spans
    BY <1>0, <1>1, SpanMade DEF NonEmpty, Spans, NoSpan, Span
  <1>3. rows \subseteq Rows
    BY <1>1, RowsTypes DEF Timelines
  <1>4. p = ReplacedBy(t, page, continuing)
    BY DEF ReplacedBy
  <1> HIDE DEF rows, span
  <1>5. Placed(t, p, span, rows)
    BY <1>2, <1>3, PlacedTypes
  <1> HIDE DEF p
  <1>6. u = Committed(t, p, page) /\ p \in Timelines /\ p.range = span
    BY <1>4, <1>5 DEF Placed
  <1>7. u.newer = page.hasNewer /\ u.init = InitAfter(t, page) /\ u.range = p.range
        /\ u.synced = (p.synced \/ page.dir = "tail" \/ ~page.hasNewer)
    BY ONLY <1>6, CommittedMarks
  <1>8. page.from = 0 => page.max = 0 /\ u.range = NoSpan
    BY <1>1, <1>6, <1>7 DEF span
  <1>9. page.from # 0 => EndOf(u.range) = Top(page)
    BY <1>1, <1>6, <1>7 DEF span, EndOf, Top, Span
  <1> QED
    BY <1>1, <1>7, <1>8, <1>9 DEF Settles

\* A page, not an error, settles the timeline, is discarded or detaches it.
Fits(t, k, u, q, page) ==
  /\ ~page.hasNewer => Settles(u, page) \/ Discarded(t, k, u, page)
  /\ page.hasNewer => Detaches(u, page) /\ u.synced = t.synced
  /\ q = NoRequest \/ Bootstraps(t, q, u, page)
  /\ page.reset => u.init = "none"
  /\ t.init = "none" => u.init = "none"
\* A page that is applied settles the timeline, detaches it or is discarded, as Fits says.
LEMMA PageSettles ==
  ASSUME NEW t \in Timelines, RangeOK(t.range),
         NEW k \in Spans, RangeOK(k), NEW page \in Pages, AnswerOK(page, t, k),
         ~page.error, Joined(t, k, page),
         NEW u, u = PageApplied(t, k, page), NEW q, q = PageRecovery(t, k, page)
  PROVE  Fits(t, k, u, q, page)
  <1> DEFINE cur == CurrentRange(t, k)
             policy == ResumePolicy(t, cur, page)
             continuing == \/ policy = "replace_continuing"
                           \/ policy = "not_resume" /\ (cur.epoch = page.epoch \/ ~page.reset)
             replaces == \/ page.reset \/ BootstrapReplace(t, page)
                         \/ policy \in {"replace", "replace_continuing"}
             i == InitAfter(t, page)
  <1>0. MaxRows \in Nat /\ MaxEpoch \in Nat
    BY Bounds
  <1>1. /\ t.synced \in BOOLEAN /\ t.rows \subseteq Rows /\ t.range \in Spans
        /\ t.init \in {"none", "tail", "after"} /\ t.newer \in BOOLEAN
        /\ cur \in Spans /\ RangeOK(cur) /\ page.hasNewer \in BOOLEAN
        /\ page.dir \in {"tail", "after"}
    BY DEF Timelines, CurrentRange, Pages
  <1>2. /\ page.reset => i = "none"
        /\ t.init = "none" => i = "none"
        /\ i \in {"none", "tail", "after"}
    BY InitialisationEnds
  <1>4. policy # "not_resume" =>
          /\ page.dir = "tail" /\ ~page.reset /\ cur # NoSpan /\ ~BootstrapReplace(t, page)
          /\ policy \in {"replace", "discard", "append", "replace_continuing"}
          /\ policy = "append" =>
               cur.epoch = page.epoch /\ page.max > cur.to /\ page.from <= cur.to + 1
          /\ policy = "discard" => cur.epoch = page.epoch /\ page.max = cur.to
    BY DEF ResumePolicy
  <1>5. policy = "not_resume" => \/ page.dir # "tail" \/ page.reset
                                 \/ BootstrapReplace(t, page) \/ cur = NoSpan
    BY DEF ResumePolicy
  <1>6. q = IF BootstrapReplace(t, page)
            THEN IF page.from = 0 THEN NoRequest ELSE CatchUpAfter(page.epoch, page.to)
            ELSE IF ~page.reset /\ policy = "not_resume" /\ PageGap(cur, page)
            THEN CatchUpAfter(cur.epoch, cur.to) ELSE NoRequest
    BY DEF PageRecovery
  <1>7. Shaped(page)
    BY DEF AnswerOK
  <1>8. CASE policy = "discard"
    <2>1. u = [t EXCEPT !.newer = page.hasNewer, !.init = i]
      BY <1>8 DEF PageApplied
    <2>2. q = NoRequest /\ ~page.hasNewer
      BY <1>4, <1>6, <1>7, <1>8 DEF Shaped
    <2> HIDE DEF i
    <2>4. u.synced = t.synced /\ u.range = t.range /\ u.newer = page.hasNewer /\ u.init = i
      BY <2>1 DEF Timelines
    <2>5. CASE t.synced
      <3>1. EndOf(u.range) = Top(page)
        BY <1>4, <1>8, <2>4, <2>5 DEF CurrentRange, EndOf, Top
      <3> QED
        BY <1>2, <2>2, <2>4, <2>5, <3>1 DEF Fits, Settles
    <2>6. CASE ~t.synced
      <3>1. t.init = "none" /\ k # NoSpan /\ page.dir = "tail" /\ ~page.reset
        BY <1>4, <1>8, <2>6 DEF BootstrapReplace, CurrentRange
      <3> QED
        BY <1>2, <2>2, <2>4, <2>6, <3>1 DEF Fits, Discarded
    <2> QED
      BY <1>1, <2>5, <2>6
  <1>9. CASE policy # "discard" /\ replaces
    <2>1. u = Committed(t, ReplacedBy(t, page, continuing), page)
      BY <1>9 DEF PageApplied
    <2>2. page.dir = "tail" \/ page.reset
      BY <1>4, <1>9 DEF BootstrapReplace
    <2> DEFINE c == continuing
    <2>3. c \in BOOLEAN
      OBVIOUS
    <2>4. u = Committed(t, ReplacedBy(t, page, c), page)
      BY <2>1
    <2> HIDE DEF c
    <2>5. ~page.hasNewer /\ Settles(u, page) /\ u.init = InitAfter(t, page)
      BY <1>7, <1>9, <2>2, <2>3, <2>4, ReplacedSettles
    <2>6. q = NoRequest \/ Bootstraps(t, q, u, page)
      <3>1. CASE BootstrapReplace(t, page) /\ page.from # 0
        <4>1. q = CatchUpAfter(page.epoch, page.to)
          BY <1>6, <1>9, <3>1
        <4>2. /\ page.epoch \in 1..MaxEpoch /\ page.to \in 1..MaxRows /\ page.to = page.max
              /\ page.max # 0
          BY <1>0, <1>7, <1>9, <2>2, <3>1 DEF Shaped, Pages
        <4>3. q \in Requests /\ Position(q) = Top(page)
          BY <1>0, <4>1, <4>2 DEF Requests, CatchUpAfter, Request, Position, Row, Top
        <4>4. page.dir = "tail" /\ ~page.reset /\ t.init # "none"
          BY <3>1 DEF BootstrapReplace
        <4> QED
          BY <2>5, <4>1, <4>3, <4>4 DEF Bootstraps
      <3>2. CASE ~(BootstrapReplace(t, page) /\ page.from # 0)
        BY <1>4, <1>6, <1>9, <3>2
      <3> QED
        BY <3>1, <3>2
    <2> QED
      BY <1>2, <2>5, <2>6 DEF Fits
  <1>10. CASE policy # "discard" /\ ~replaces
    <2>1. u = Committed(t, Extended(t, cur, page), page)
      BY <1>10 DEF PageApplied
    <2>2. /\ ~page.reset
          /\ page.dir = "tail" => \/ cur = NoSpan
                                  \/ /\ cur.epoch = page.epoch /\ page.max > cur.to
                                     /\ page.from <= cur.to + 1
      BY <1>4, <1>5, <1>10
    <2> DEFINE c == cur
    <2>3. /\ c = CurrentRange(t, k) /\ u = Committed(t, Extended(t, c, page), page)
          /\ page.dir = "tail" => \/ c = NoSpan
                                  \/ /\ c.epoch = page.epoch /\ page.max > c.to
                                     /\ page.from <= c.to + 1
      BY <2>1, <2>2
    <2> HIDE DEF c
    <2>4. /\ ~page.hasNewer => Settles(u, page)
          /\ page.hasNewer => Detaches(u, page) /\ u.synced = t.synced
          /\ ~PageGap(c, page)
      BY <1>10, <2>2, <2>3, ExtendedSettles
    <2>5. q = NoRequest
      <3>1. ~BootstrapReplace(t, page)
        BY <1>10
      <3> QED
        BY <1>6, <2>4, <3>1 DEF c
    <2>6. u.init = InitAfter(t, page)
      <3>1. page.from # 0 => page.epoch \in 1..MaxEpoch /\ page.from \in 1..MaxRows /\ page.to \in 1..MaxRows /\ page.from <= page.to
        BY <1>0, <1>7, <1>10 DEF Pages, Shaped
      <3>2. c \in Spans
        BY <1>1 DEF c
      <3> DEFINE p == Extended(t, c, page)
      <3>3. p = Extended(t, c, page) /\ p \in Timelines
        BY <1>10, <3>1, <3>2, ExtendedRange
      <3> HIDE DEF p
      <3>4. u = Committed(t, p, page) /\ p \in Timelines
        BY <2>3, <3>3
      <3> QED
        BY ONLY <3>4, CommittedMarks
    <2> QED
      BY <1>2, <2>4, <2>5, <2>6 DEF Fits
  <1> QED
    BY <1>8, <1>9, <1>10

-----------------------------------------------------------------------------
(* The invariant of the catch-up and the line. *)

\* The daemon sends to a subscriber, and is asked nothing before it is subscribed.
Relayed(con, sub, scr, A, d) ==
  /\ ~con => ~sub /\ scr = "none" /\ A = <<>>
  /\ ~sub => d = <<>> /\ scr # "acked" /\ \A i \in DOMAIN A : A[i].request = Subscribe
  /\ \A i \in DOMAIN A : A[i].request = Subscribe /\ A[i].waited => scr = "asked"
  /\ \A i \in DOMAIN d : d[i].type = "ack" /\ d[i].waited => scr = "asked"
\* The tail is asked for by a catch-up only where nothing is cached.
TailPlanned(t, k, c) == OwnsTail(c) /\ ~t.synced => k = NoSpan
\* The tail that a fallback asks for replaces the timeline, and no gap is met before it.
LatestOK(t, c, frc, st, s, d) ==
  HasLatest(c) => /\ frc \/ (t.synced /\ t.init = "none")
                  /\ \/ ~t.synced \/ t.newer
                     \/ Gapless(EndOf(t.range), Rng(s) \union Brought(d), st)
\* The rows behind a page lead from its end to the store's, unless a notice is among them.
Noticed(d, i) == \E k \in DOMAIN d : k > i /\ d[k].type = "notice"
PageLeads(d, i, st) ==
  /\ Gapless(Top(d[i].page), BroughtBehind(d, i), st)
  /\ Noticed(d, i) \/ Covers(Top(d[i].page), BroughtBehind(d, i), st)
PagesLead(d, st) == \A i \in DOMAIN d : d[i].type = "page" /\ ~d[i].page.error => PageLeads(d, i, st)
\* A catch-up that is complete has missed nothing, or a replacement is on its way.
Missed(t, c, st, s, d) ==
  c.status = "complete" =>
    /\ t.synced /\ ~t.newer
    /\ \/ Noticed(d, 0) \/ TailFetch \in Wanted(c)
       \/ Covers(EndOf(t.range), Rng(s) \union Brought(d), st)

CaughtUp(t, k, c, A, frc, st, s, d, live) ==
  /\ c.sent = <<>>
  /\ Run(c, Line(d, A, st.epoch), st.epoch, live)
  /\ Reached(c, Line(d, A, st.epoch), t)
  /\ TailPlanned(t, k, c)
  /\ LatestOK(t, c, frc, st, s, d)
  /\ PagesLead(d, st) /\ PastPages(d, s)
  /\ Missed(t, c, st, s, d)
Inv2 ==
  /\ Relayed(connected, subscribed, subscription, asked, down)
  /\ CaughtUp(timeline, cached, catchUp, asked, forced, store, stream, down, Live)

-----------------------------------------------------------------------------
(* The rows behind what is on its way. *)

\* All rows are behind the beginning.
LEMMA BehindNone ==
  ASSUME NEW d \in Seq(Messages)
  PROVE  BroughtBehind(d, 0) = Brought(d)
  <1>1. \A k \in DOMAIN d : k > 0
    OBVIOUS
  <1> QED
    BY <1>1 DEF BroughtBehind, Brought

\* Messages e are d and more.
Sent(d, e) == e \in Seq(Messages) /\ Len(d) <= Len(e) /\ \A i \in 1..Len(d) : e[i] = d[i]

\* What they bring, and announce.
LEMMA BroughtMore ==
  ASSUME NEW d \in Seq(Messages), NEW e, Sent(d, e), NEW i \in 0..Len(d)
  PROVE  /\ BroughtBehind(e, i) = BroughtBehind(d, i) \union BroughtBehind(e, Len(d))
         /\ Noticed(d, i) \/ Noticed(e, Len(d)) => Noticed(e, i)
  <1> DEFINE n == Len(d)
             m == Len(e)
  <1>1. /\ DOMAIN d = 1..n /\ DOMAIN e = 1..m /\ n \in Nat /\ m \in Nat /\ n <= m
        /\ \A j \in 1..n : e[j] = d[j]
    BY DEF Sent
  <1> HIDE DEF n, m
  <1>2. i \in Nat /\ i <= n
    BY <1>1 DEF n
  <1>3. ASSUME NEW x \in BroughtBehind(e, i)
        PROVE  x \in BroughtBehind(d, i) \union BroughtBehind(e, n)
    <2>1. PICK j \in 1..m : j > i /\ e[j].type = "event" /\ x = e[j].row
      BY <1>1, <1>3 DEF BroughtBehind
    <2>2. CASE j <= n
      BY <1>1, <2>1, <2>2 DEF BroughtBehind
    <2>3. CASE j > n
      BY <1>1, <2>1, <2>3 DEF BroughtBehind
    <2> QED
      BY <1>1, <2>1, <2>2, <2>3
  <1>4. ASSUME NEW x \in BroughtBehind(d, i)
        PROVE  x \in BroughtBehind(e, i)
    <2>1. PICK j \in 1..n : j > i /\ d[j].type = "event" /\ x = d[j].row
      BY <1>1, <1>4 DEF BroughtBehind
    <2>2. j \in 1..m /\ e[j] = d[j]
      BY <1>1, <2>1
    <2> QED
      BY <1>1, <2>1, <2>2 DEF BroughtBehind
  <1>5. ASSUME NEW x \in BroughtBehind(e, n)
        PROVE  x \in BroughtBehind(e, i)
    <2>1. PICK j \in 1..m : j > n /\ e[j].type = "event" /\ x = e[j].row
      BY <1>1, <1>5 DEF BroughtBehind
    <2>2. j > i
      BY <1>1, <1>2, <2>1
    <2> QED
      BY <1>1, <2>1, <2>2 DEF BroughtBehind
  <1>6. Noticed(d, i) => Noticed(e, i)
    <2> SUFFICES ASSUME Noticed(d, i) PROVE Noticed(e, i)
      OBVIOUS
    <2>1. PICK k \in 1..n : k > i /\ d[k].type = "notice"
      BY <1>1 DEF Noticed
    <2>2. k \in 1..m /\ e[k] = d[k]
      BY <1>1, <2>1
    <2> QED
      BY <1>1, <2>1, <2>2 DEF Noticed
  <1>7. Noticed(e, n) => Noticed(e, i)
    <2> SUFFICES ASSUME Noticed(e, n) PROVE Noticed(e, i)
      OBVIOUS
    <2>1. PICK k \in 1..m : k > n /\ e[k].type = "notice"
      BY <1>1 DEF Noticed
    <2>2. k > i
      BY <1>1, <1>2, <2>1
    <2> QED
      BY <1>1, <2>1, <2>2 DEF Noticed
  <1> QED
    BY <1>3, <1>4, <1>5, <1>6, <1>7 DEF n

\* The store becomes stn, rows w are sent: what led to its end still does, unless it is announced.
LeadOn(st, stn, w, announced) ==
  \A p \in Points, x \in SUBSET Rows : UpTo(p, StoreEnd(st)) /\ Made(x, st) =>
    /\ Gapless(p, x, st) => Gapless(p, x \union w, stn)
    /\ Covers(p, x, st) => announced \/ Covers(p, x \union w, stn)

\* The rows behind the pages still lead to the end.
LEMMA PagesGrow ==
  ASSUME NEW st, NEW s, NEW d, Wire(st, s, d), PagesLead(d, st),
         NEW e, Sent(d, e), \A i \in Len(d) + 1..Len(e) : e[i].type # "page",
         NEW stn, LeadOn(st, stn, BroughtBehind(e, Len(d)), Noticed(e, Len(d)))
  PROVE  PagesLead(e, stn)
  <1> SUFFICES ASSUME NEW i \in DOMAIN e, e[i].type = "page", ~e[i].page.error
               PROVE  PageLeads(e, i, stn)
    BY DEF PagesLead
  <1>1. d \in Seq(Messages) /\ st \in Stores
    BY DEF Wire
  <1>2. i \in 1..Len(d) /\ e[i] = d[i] /\ i \in DOMAIN d /\ i \in 0..Len(d)
    BY <1>1 DEF Sent
  <1> DEFINE p == Top(d[i].page)
             x == BroughtBehind(d, i)
             w == BroughtBehind(e, Len(d))
  <1>3. Gapless(p, x, st) /\ (Noticed(d, i) \/ Covers(p, x, st))
    BY <1>2 DEF PagesLead, PageLeads
  <1>4. BroughtBehind(e, i) = x \union w /\ (Noticed(d, i) \/ Noticed(e, Len(d)) => Noticed(e, i))
    BY <1>1, <1>2, BroughtMore
  <1>5. Made(x, st) /\ x \in SUBSET Rows
    BY <1>2, RowsOnTheWay DEF Made
  <1>6. p \in Points /\ UpTo(p, StoreEnd(st))
    <2>1. d[i] \in Messages /\ d[i].type = "page" /\ ~d[i].page.error
      BY <1>2, RowsOnTheWay
    <2>2. d[i].page \in Pages /\ p \in Brings(d[i])
      BY <2>1, MessageTypes DEF Brings
    <2> QED
      BY <1>2, <2>2, PointTypes DEF Wire, InOrder
  <1>7. Top(e[i].page) = p
    BY <1>2
  <1> HIDE DEF p, x, w
  <1>8. /\ Gapless(p, x \union w, stn)
        /\ Covers(p, x, st) => Noticed(e, Len(d)) \/ Covers(p, x \union w, stn)
    BY <1>3, <1>5, <1>6 DEF LeadOn, w
  <1> QED
    BY <1>3, <1>4, <1>7, <1>8 DEF PageLeads

\* So do those behind the end of the timeline.
LEMMA TimelineGrows ==
  ASSUME NEW t, NEW k, NEW c, NEW frc, NEW st, NEW s, NEW d, Wire(st, s, d), ClientOK(t, k, st, s, d),
         LatestOK(t, c, frc, st, s, d), Missed(t, c, st, s, d), PastPages(d, s),
         NEW e, Sent(d, e), \A i \in Len(d) + 1..Len(e) : e[i].type # "page",
         NEW stn, LeadOn(st, stn, BroughtBehind(e, Len(d)), Noticed(e, Len(d)))
  PROVE  LatestOK(t, c, frc, stn, s, e) /\ Missed(t, c, stn, s, e) /\ PastPages(e, s)
  <1> DEFINE p == EndOf(t.range)
             x == Rng(s) \union Brought(d)
             w == BroughtBehind(e, Len(d))
  <1>1. d \in Seq(Messages) /\ e \in Seq(Messages) /\ st \in Stores /\ Len(d) \in Nat
    BY DEF Wire, Sent
  <1>2. /\ Rng(s) \union Brought(e) = x \union w
        /\ Noticed(d, 0) \/ Noticed(e, Len(d)) => Noticed(e, 0)
    <2>1. /\ BroughtBehind(e, 0) = BroughtBehind(d, 0) \union w
          /\ Noticed(d, 0) \/ Noticed(e, Len(d)) => Noticed(e, 0)
      BY <1>1, BroughtMore
    <2>2. BroughtBehind(e, 0) = Brought(e) /\ BroughtBehind(d, 0) = Brought(d)
      BY <1>1, BehindNone
    <2> QED
      BY <2>1, <2>2
  <1>3. Made(x, st) /\ x \in SUBSET Rows
    BY RowsOnTheWay DEF Made
  <1>4. p \in Points /\ (t.synced => UpTo(p, StoreEnd(st)))
    <2>1. t \in Timelines /\ t.range \in Spans /\ RangeOK(t.range)
      BY DEF ClientOK, Timelines
    <2>2. p \in Points
      BY <2>1, PointTypes
    <2>3. t.synced /\ t.range # NoSpan => UpTo(p, StoreEnd(st))
      BY EndsBehind DEF Behind
    <2>4. t.range = NoSpan => UpTo(p, StoreEnd(st))
      BY <1>1, RowParts DEF UpTo, EndOf, NoSpan, Span
    <2> QED
      BY <2>2, <2>3, <2>4
  <1> HIDE DEF p, x, w
  <1>5. t.synced => /\ Gapless(p, x, st) => Gapless(p, x \union w, stn)
                    /\ Covers(p, x, st) => Noticed(e, Len(d)) \/ Covers(p, x \union w, stn)
    BY <1>3, <1>4 DEF LeadOn, w
  <1>6. LatestOK(t, c, frc, stn, s, e)
    <2> USE DEF LatestOK
    <2> QED
      BY <1>2, <1>5 DEF p, x
  <1>7. Missed(t, c, stn, s, e)
    BY <1>2, <1>5 DEF Missed, p, x
  <1>8. PastPages(e, s)
    <2> SUFFICES ASSUME NEW i \in DOMAIN e, NEW n \in DOMAIN s, NEW q \in AsksAfter(e[i])
                 PROVE  Before(q, s[n])
      BY DEF PastPages
    <2>1. e[i].type = "page"
      BY DEF AsksAfter
    <2>2. i \in DOMAIN d /\ e[i] = d[i]
      BY <1>1, <2>1 DEF Sent
    <2> QED
      BY <2>2 DEF PastPages
  <1> QED
    BY <1>6, <1>7, <1>8

\* The rows of a timeline that has been replaced.
NewRows(ep, last) == { Row(ep, n) : n \in 1..last }

\* The store is as it was, has one more row, or is replaced.
LEMMA StoreLeads ==
  ASSUME NEW st \in Stores
  PROVE  /\ \A b \in BOOLEAN : LeadOn(st, st, {}, b)
         /\ \A stn \in Stores, b \in BOOLEAN :
              /\ stn = [st EXCEPT !.last = st.last + 1] => LeadOn(st, stn, {Row(st.epoch, stn.last)}, b)
              /\ stn.epoch = st.epoch + 1 => /\ LeadOn(st, stn, NewRows(stn.epoch, stn.last), b)
                                             /\ LeadOn(st, stn, {}, TRUE)
  <1>1. ASSUME NEW b \in BOOLEAN PROVE LeadOn(st, st, {}, b)
    <2>1. \A x \in SUBSET Rows : x \union {} = x
      OBVIOUS
    <2> QED
      BY <2>1 DEF LeadOn
  <1>2. ASSUME NEW stn \in Stores, NEW b \in BOOLEAN, stn = [st EXCEPT !.last = st.last + 1]
        PROVE  LeadOn(st, stn, {Row(st.epoch, stn.last)}, b)
    <2> DEFINE w == {Row(st.epoch, stn.last)}
    <2>1. ASSUME NEW p \in Points, NEW x \in SUBSET Rows, UpTo(p, StoreEnd(st)), Made(x, st)
          PROVE  /\ Covers(p, x, st) => Covers(p, x \union w, stn)
                 /\ Gapless(p, x, st) => Gapless(p, x \union w, stn)
      <3> DEFINE y == x \union w
      <3>1. y = x \union {Row(st.epoch, stn.last)}
        OBVIOUS
      <3> HIDE DEF y
      <3>3. st \in Stores /\ stn \in Stores /\ stn.epoch = st.epoch /\ stn.last = st.last + 1
        BY <1>2 DEF Stores
      <3>4. p \in Points /\ UpTo(p, StoreEnd(st)) /\ Made(x, st)
        BY <2>1
      <3>2. /\ Covers(p, x, st) => Covers(p, y, stn)
            /\ Gapless(p, x, st) => Gapless(p, y, stn)
        BY ONLY <3>1, <3>3, <3>4, AppendedLeads
      <3> QED
        BY <3>2 DEF y
    <2> HIDE DEF w
    <2>2. LeadOn(st, stn, w, b)
      BY <2>1 DEF LeadOn
    <2> QED
      BY <2>2 DEF w
  <1>3. ASSUME NEW stn \in Stores, NEW b \in BOOLEAN, stn.epoch = st.epoch + 1
        PROVE  /\ LeadOn(st, stn, NewRows(stn.epoch, stn.last), b)
               /\ LeadOn(st, stn, {}, TRUE)
    <2> DEFINE w == { Row(stn.epoch, n) : n \in 1..stn.last }
    <2>1. ASSUME NEW p \in Points, NEW x \in SUBSET Rows, UpTo(p, StoreEnd(st)), Made(x, st)
          PROVE  /\ Covers(p, x, st) => Covers(p, x \union w, stn)
                 /\ Gapless(p, x, st) => Gapless(p, x \union w, stn) /\ Gapless(p, x, stn)
      <3> DEFINE y == x \union w
      <3>1. y = x \union { Row(stn.epoch, n) : n \in 1..stn.last }
        OBVIOUS
      <3> HIDE DEF y
      <3>2. /\ Covers(p, y, stn)
            /\ Gapless(p, x, st) => Gapless(p, y, stn) /\ Gapless(p, x, stn)
        BY <1>3, <2>1, <3>1, ReplacedLeads
      <3> QED
        BY <3>2 DEF y
    <2> HIDE DEF w
    <2>2. LeadOn(st, stn, w, b)
      BY <2>1 DEF LeadOn
    <2>3. \A x \in SUBSET Rows : x \union {} = x
      OBVIOUS
    <2>4. LeadOn(st, stn, {}, TRUE)
      BY <2>1, <2>3 DEF LeadOn
    <2> QED
      BY <2>2, <2>4 DEF w, NewRows
  <1> QED
    BY <1>1, <1>2, <1>3

\* One message is sent.
LEMMA SentOne ==
  ASSUME NEW d \in Seq(Messages), NEW m \in Messages, NEW e, e = Append(d, m)
  PROVE  /\ Sent(d, e) /\ Len(e) = Len(d) + 1 /\ e[Len(d) + 1] = m
         /\ m.type # "page" => \A i \in Len(d) + 1..Len(e) : e[i].type # "page"
         /\ BroughtBehind(e, Len(d)) = IF m.type = "event" THEN {m.row} ELSE {}
         /\ Noticed(e, Len(d)) <=> m.type = "notice"
  <1> DEFINE n == Len(d)
  <1>1. /\ e \in Seq(Messages) /\ Len(e) = n + 1 /\ e[n + 1] = m /\ n \in Nat
        /\ \A i \in 1..n : e[i] = d[i]
        /\ DOMAIN e = 1..n + 1
    OBVIOUS
  <1> HIDE DEF n
  <1>2. \A k \in DOMAIN e : k > n <=> k = n + 1
    BY <1>1
  <1>3. n + 1 \in DOMAIN e
    BY <1>1
  <1>4. BroughtBehind(e, n) = IF m.type = "event" THEN {m.row} ELSE {}
    BY <1>1, <1>2, <1>3 DEF BroughtBehind
  <1>5. Noticed(e, n) <=> m.type = "notice"
    BY <1>1, <1>2, <1>3 DEF Noticed
  <1>6. Sent(d, e)
    BY <1>1 DEF Sent, n
  <1>7. \A i \in n + 1..Len(e) : e[i] = m
    BY <1>1
  <1> QED
    BY <1>1, <1>4, <1>5, <1>6, <1>7 DEF n

\* Several rows are sent.
RowsSent(q, ep, last) == Len(q) = last /\ \A n \in 1..last : q[n] = Event(Row(ep, n))
SendsRows(d, e, q, ep, last) ==
  /\ \A i \in 1..Len(q) : Plain(q[i])
  /\ Sent(d, e)
  /\ \A i \in Len(d) + 1..Len(e) : e[i].type # "page"
  /\ BroughtBehind(e, Len(d)) = NewRows(ep, last)
\* What the daemon sends of its rows adds nothing but the new rows.
LEMMA SentRows ==
  ASSUME NEW d \in Seq(Messages), NEW ep \in 1..MaxEpoch, NEW last \in 0..MaxRows,
         NEW q \in Seq(Messages), RowsSent(q, ep, last), NEW e, e = d \o q
  PROVE  SendsRows(d, e, q, ep, last)
  <1> DEFINE n == Len(d)
  <1>0. MaxRows \in Nat /\ MaxEpoch \in Nat /\ last \in Nat
    BY Bounds
  <1>1. \A i \in 1..last : Event(Row(ep, i)) \in Messages /\ Event(Row(ep, i)).type = "event" /\ Event(Row(ep, i)).row = Row(ep, i)
    <2>1. \A i \in 1..last : Row(ep, i) \in Rows
      BY <1>0 DEF Row, Rows
    <2> QED
      BY <2>1 DEF Messages, Event
  <1>3. /\ e \in Seq(Messages) /\ n \in Nat /\ Len(e) = n + last /\ DOMAIN e = 1..n + last
        /\ \A i \in 1..n : e[i] = d[i]
        /\ \A i \in 1..last : e[n + i] = q[i]
    <2>1. e \in Seq(Messages) /\ Len(e) = Len(d) + Len(q)
      OBVIOUS
    <2>2. \A i \in 1..Len(d) : e[i] = d[i]
      OBVIOUS
    <2>3. \A i \in 1..Len(q) : e[Len(d) + i] = q[i]
      OBVIOUS
    <2>4. Len(q) = last /\ Len(d) \in Nat
      BY DEF RowsSent
    <2>5. DOMAIN e = 1..Len(e)
      BY <2>1
    <2> QED
      BY ONLY <2>1, <2>2, <2>3, <2>4, <2>5 DEF n
  <1>4. Sent(d, e)
    BY <1>0, <1>3 DEF Sent, n
  <1>5. Len(q) = last /\ \A i \in 1..last : q[i] = Event(Row(ep, i))
    BY DEF RowsSent
  <1> HIDE DEF n
  <1>6. \A i \in n + 1..n + last : i - n \in 1..last /\ e[i] = Event(Row(ep, i - n))
    <2> TAKE i \in n + 1..n + last
    <2>1. i - n \in 1..last /\ n + (i - n) = i
      BY <1>0, <1>3
    <2> QED
      BY <1>3, <1>5, <2>1
  <1>7. \A i \in n + 1..n + last : e[i].type = "event" /\ e[i].row = Row(ep, i - n)
    BY <1>1, <1>6
  <1>8. ASSUME NEW x \in BroughtBehind(e, n) PROVE x \in { Row(ep, i) : i \in 1..last }
    <2>1. PICK j \in 1..n + last : j > n /\ x = e[j].row
      BY <1>3, <1>8 DEF BroughtBehind
    <2>2. j \in n + 1..n + last
      BY <1>0, <1>3, <2>1
    <2> QED
      BY <1>6, <1>7, <2>1, <2>2
  <1>9. ASSUME NEW i \in 1..last PROVE Row(ep, i) \in BroughtBehind(e, n)
    <2>1. n + i \in n + 1..n + last /\ n + i \in 1..n + last /\ n + i > n /\ (n + i) - n = i
      BY <1>0, <1>3
    <2>2. e[n + i].type = "event" /\ e[n + i].row = Row(ep, i)
      BY <1>7, <2>1
    <2> QED
      BY <1>3, <2>1, <2>2 DEF BroughtBehind
  <1>10. \A i \in 1..Len(q) : Plain(q[i])
    BY <1>1, <1>5 DEF Plain
  <1> QED
    BY <1>3, <1>4, <1>7, <1>5, <1>8, <1>9, <1>10 DEF n, NewRows, SendsRows

\* An answer read of the store leads to its end.
Replies(d, e, page, w) == w \in BOOLEAN /\ e = Append(d, Answer(page, w))
\* The daemon's answer, read of its store, is a page whose rows behind it lead to the store's end.
LEMMA PagesAnswered ==
  ASSUME NEW st, NEW s, NEW d, Wire(st, s, d), PagesLead(d, st),
         NEW page \in Pages, page.error \/ Top(page) = StoreEnd(st), NEW w, NEW e, Replies(d, e, page, w)
  PROVE  /\ PagesLead(e, st) /\ Brought(e) = Brought(d)
         /\ Noticed(d, 0) => Noticed(e, 0)
  <1> DEFINE m == Answer(page, w)
             n == Len(d)
  <1>1. d \in Seq(Messages) /\ st \in Stores /\ n \in Nat
    BY DEF Wire
  <1>2. m \in Messages /\ m.type = "page" /\ m.page = page /\ e = Append(d, m)
    BY MessagesMade DEF Replies
  <1> HIDE DEF m
  <1>3. /\ Sent(d, e) /\ Len(e) = n + 1 /\ e[n + 1] = m
        /\ BroughtBehind(e, n) = {} /\ ~Noticed(e, n)
    BY <1>1, <1>2, SentOne DEF m
  <1> HIDE DEF n
  <1>4. \A i \in 0..n : /\ BroughtBehind(e, i) = BroughtBehind(d, i)
                        /\ Noticed(d, i) => Noticed(e, i)
    <2>1. \A i \in 0..n : /\ BroughtBehind(e, i) = BroughtBehind(d, i) \union BroughtBehind(e, n)
                          /\ Noticed(d, i) \/ Noticed(e, n) => Noticed(e, i)
      BY <1>1, <1>3, BroughtMore DEF n
    <2> QED
      BY <1>3, <2>1
  <1>5. DOMAIN e = 1..n + 1 /\ DOMAIN d = 1..n /\ \A i \in 1..n : e[i] = d[i]
    BY <1>1, <1>3 DEF Sent, n
  <1>6. PagesLead(e, st)
    <2> SUFFICES ASSUME NEW i \in DOMAIN e, e[i].type = "page", ~e[i].page.error
                 PROVE  PageLeads(e, i, st)
      BY DEF PagesLead
    <2>1. CASE i \in 1..n
      <3>1. PageLeads(d, i, st) /\ e[i] = d[i]
        BY <1>5, <2>1 DEF PagesLead
      <3>2. i \in 0..n
        BY <1>1, <2>1
      <3> QED
        BY <1>4, <3>1, <3>2 DEF PageLeads
    <2>2. CASE i = n + 1
      <3>1. BroughtBehind(e, i) = {}
        <4>1. \A k \in DOMAIN e : ~(k > i)
          BY <1>1, <1>5, <2>2
        <4> QED
          BY <4>1 DEF BroughtBehind
      <3>2. Top(e[i].page) = StoreEnd(st)
        BY <1>2, <1>3, <2>2
      <3>3. Covers(StoreEnd(st), {}, st) /\ Gapless(StoreEnd(st), {}, st)
        BY <1>1, EndsLead
      <3> QED
        BY <3>1, <3>2, <3>3 DEF PageLeads
    <2> QED
      BY <1>1, <1>5, <2>1, <2>2
  <1>7. 0 \in 0..n
    BY <1>1
  <1> QED
    BY <1>1, <1>3, <1>4, <1>6, <1>7, BehindNone DEF Sent

\* The first message is taken.
LEMMA PagesTaken ==
  ASSUME NEW st, NEW s, NEW d, Wire(st, s, d), PagesLead(d, st), d # <<>>
  PROVE  /\ PagesLead(Tail(d), st)
         /\ Brought(Tail(d)) = BroughtBehind(d, 1)
         /\ Brought(d) = BroughtBehind(d, 1) \union (IF Head(d).type = "event" THEN {Head(d).row} ELSE {})
         /\ Noticed(d, 1) => Noticed(Tail(d), 0)
         /\ Noticed(d, 0) /\ Head(d).type # "notice" => Noticed(Tail(d), 0)
         /\ Head(d).type = "page" /\ ~Head(d).page.error => PageLeads(d, 1, st)
  <1> DEFINE e == Tail(d)
             m == Len(e)
  <1>1. d \in Seq(Messages)
    BY DEF Wire
  <1>2. /\ e \in Seq(Messages) /\ m \in Nat /\ DOMAIN e = 1..m /\ DOMAIN d = 1..m + 1
        /\ \A i \in 1..m : e[i] = d[i + 1]
        /\ Head(d) = d[1]
    BY <1>1
  <1> HIDE DEF e, m
  <1>3. ASSUME NEW i \in 0..m
        PROVE  /\ BroughtBehind(e, i) = BroughtBehind(d, i + 1)
               /\ Noticed(e, i) <=> Noticed(d, i + 1)
    <2>1. ASSUME NEW k \in 1..m, k > i
          PROVE  k + 1 \in 1..m + 1 /\ k + 1 > i + 1 /\ d[k + 1] = e[k]
      BY <1>2, <2>1
    <2>2. ASSUME NEW k \in 1..m + 1, k > i + 1
          PROVE  k - 1 \in 1..m /\ k - 1 > i /\ e[k - 1] = d[k]
      <3>1. k - 1 \in 1..m /\ k - 1 > i /\ (k - 1) + 1 = k
        BY <1>2, <2>2
      <3> QED
        BY <1>2, <3>1
    <2>3. ASSUME NEW x \in BroughtBehind(e, i) PROVE x \in BroughtBehind(d, i + 1)
      <3>1. PICK k \in 1..m : k > i /\ e[k].type = "event" /\ x = e[k].row
        BY <1>2, <2>3 DEF BroughtBehind
      <3> QED
        BY <1>2, <2>1, <3>1 DEF BroughtBehind
    <2>4. ASSUME NEW x \in BroughtBehind(d, i + 1) PROVE x \in BroughtBehind(e, i)
      <3>1. PICK k \in 1..m + 1 : k > i + 1 /\ d[k].type = "event" /\ x = d[k].row
        BY <1>2, <2>4 DEF BroughtBehind
      <3> QED
        BY <1>2, <2>2, <3>1 DEF BroughtBehind
    <2>5. Noticed(e, i) => Noticed(d, i + 1)
      BY <1>2, <2>1 DEF Noticed
    <2>6. Noticed(d, i + 1) => Noticed(e, i)
      BY <1>2, <2>2 DEF Noticed
    <2> QED
      BY <2>3, <2>4, <2>5, <2>6
  <1>4. PagesLead(e, st)
    <2> SUFFICES ASSUME NEW i \in DOMAIN e, e[i].type = "page", ~e[i].page.error
                 PROVE  PageLeads(e, i, st)
      BY DEF PagesLead
    <2>1. i + 1 \in DOMAIN d /\ e[i] = d[i + 1] /\ i \in 0..m
      BY <1>2
    <2>2. PageLeads(d, i + 1, st)
      BY <2>1 DEF PagesLead
    <2> QED
      BY <1>3, <2>1, <2>2 DEF PageLeads
  <1>5. Brought(e) = BroughtBehind(d, 1)
    <2>1. 0 \in 0..m /\ 0 + 1 = 1
      BY <1>2
    <2>2. BroughtBehind(e, 0) = BroughtBehind(d, 1)
      BY <1>3, <2>1
    <2> QED
      BY <1>2, <2>2, BehindNone
  <1>6. Brought(d) = BroughtBehind(d, 1) \union (IF d[1].type = "event" THEN {d[1].row} ELSE {})
    <2>1. \A k \in DOMAIN d : k = 1 \/ k > 1
      BY <1>2
    <2>2. 1 \in DOMAIN d
      BY <1>2
    <2>3. ASSUME NEW x \in Brought(d)
          PROVE  x \in BroughtBehind(d, 1) \union (IF d[1].type = "event" THEN {d[1].row} ELSE {})
      <3>1. PICK k \in DOMAIN d : d[k].type = "event" /\ x = d[k].row
        BY <2>3 DEF Brought
      <3>2. CASE k = 1
        BY <3>1, <3>2
      <3>3. CASE k > 1
        BY <3>1, <3>3 DEF BroughtBehind
      <3> QED
        BY <2>1, <3>2, <3>3
    <2>4. ASSUME NEW x \in BroughtBehind(d, 1) PROVE x \in Brought(d)
      BY <2>4 DEF BroughtBehind, Brought
    <2>5. d[1].type = "event" => d[1].row \in Brought(d)
      BY <2>2 DEF Brought
    <2> QED
      BY <2>3, <2>4, <2>5
  <1>7. Noticed(d, 1) => Noticed(e, 0)
    <2>1. 0 \in 0..m /\ 0 + 1 = 1
      BY <1>2
    <2> QED
      BY <1>3, <2>1
  <1>8. Noticed(d, 0) /\ d[1].type # "notice" => Noticed(d, 1)
    <2>1. \A k \in DOMAIN d : k = 1 \/ k > 1
      BY <1>2
    <2> QED
      BY <2>1 DEF Noticed
  <1>9. d[1].type = "page" /\ ~d[1].page.error => PageLeads(d, 1, st)
    <2>1. 1 \in DOMAIN d
      BY <1>2
    <2> QED
      BY <2>1 DEF PagesLead
  <1> QED
    BY <1>2, <1>4, <1>5, <1>6, <1>7, <1>8, <1>9 DEF e

\* Some answers are given up.
LEMMA PagesMarked ==
  ASSUME NEW d, NEW st, NEW s, PagesLead(d, st), PastPages(d, s),
         NEW e, DOMAIN e = DOMAIN d, \A i \in DOMAIN d : SameMessage(d[i], e[i])
  PROVE  /\ PagesLead(e, st) /\ PastPages(e, s) /\ Brought(e) = Brought(d)
         /\ Noticed(d, 0) => Noticed(e, 0)
  <1>1. \A i : BroughtBehind(e, i) = BroughtBehind(d, i)
    BY DEF BroughtBehind, SameMessage
  <1>2. \A i : Noticed(d, i) => Noticed(e, i)
    BY DEF Noticed, SameMessage
  <1>3. Brought(e) = Brought(d)
    BY DEF Brought, SameMessage
  <1>4. PagesLead(e, st)
    BY <1>1, <1>2 DEF PagesLead, PageLeads, SameMessage
  <1>5. \A i \in DOMAIN d : AsksAfter(e[i]) = AsksAfter(d[i])
    BY DEF AsksAfter, SameMessage
  <1>6. PastPages(e, s)
    BY <1>5 DEF PastPages
  <1> QED
    BY <1>2, <1>3, <1>4, <1>6

-----------------------------------------------------------------------------
(* The line moves by itself. *)

\* Line M comes of L without a fetch that begins or ends.
LEMMA RunThins ==
  ASSUME NEW c, NEW L, NEW M \in Lines, NEW ep, NEW epn, NEW live, Run(c, L, ep, live),
         Thinner(L, M, Owned(c), ep, epn), HasLatest(c) => SameTails(L, M)
  PROVE  /\ Run(c, M, epn, live)
         /\ \A p : Within(c, L, p) => Within(c, M, p)
         /\ \A t : Reached(c, L, t) => Reached(c, M, t)
  <1>1. /\ LineOK(M, Owned(c), Wanted(c)) /\ Older(M, epn)
        /\ Harmless(L) => Harmless(M)
        /\ \A p : Bounded(L, p) => Bounded(M, p)
    BY DEF Run, Thinner
  <1>2. HasLatest(c) => (TailsAwaited(L) => TailsAwaited(M))
    BY TailsSame
  <1>3. Quiet(c, M)
    BY <1>1, <1>2 DEF Run, Quiet
  <1>4. Run(c, M, epn, live)
    BY <1>1, <1>3 DEF Run
  <1>5. \A p : Within(c, L, p) => Within(c, M, p)
    BY <1>1 DEF Within
  <1> QED
    BY <1>4, <1>5 DEF Reached

\* Catch-ups that differ in what they show or send.
Alike(c, e) ==
  /\ e \in CatchUps /\ e.fetches = c.fetches /\ e.status = c.status
  /\ e.request = c.request /\ e.pending = c.pending /\ e.cache = c.cache
\* What is said of a catch-up's line does not depend on what it shows or sends.
LEMMA AlikeRun ==
  ASSUME NEW c, NEW e, Alike(c, e)
  PROVE  /\ Owned(e) = Owned(c) /\ Wanted(e) = Wanted(c)
         /\ (HasLatest(e) <=> HasLatest(c)) /\ (OwnsTail(e) <=> OwnsTail(c))
         /\ \A L, ep, live : Run(c, L, ep, live) => Run(e, L, ep, live)
         /\ \A L, p : Within(c, L, p) => Within(e, L, p)
         /\ \A L, t : Reached(c, L, t) => Reached(e, L, t)
         /\ \A t, k : TailPlanned(t, k, c) => TailPlanned(t, k, e)
         /\ \A t, frc, st, s, d : LatestOK(t, c, frc, st, s, d) => LatestOK(t, e, frc, st, s, d)
         /\ \A t, st, s, d : Missed(t, c, st, s, d) => Missed(t, e, st, s, d)
  <1>1. /\ Owned(e) = Owned(c) /\ Wanted(e) = Wanted(c)
        /\ (HasLatest(e) <=> HasLatest(c)) /\ (OwnsTail(e) <=> OwnsTail(c))
    BY DEF Alike, Owned, Wanted, HasLatest, OwnsTail
  <1>2. \A live : Modes(c, live) => Modes(e, live)
    BY DEF Alike, Modes
  <1>3. \A L : Quiet(c, L) => Quiet(e, L)
    BY <1>1 DEF Alike, Quiet
  <1>4. \A L, ep, live : Run(c, L, ep, live) => Run(e, L, ep, live)
    BY <1>1, <1>2, <1>3 DEF Run, Alike
  <1>5. \A L, p : Within(c, L, p) => Within(e, L, p)
    BY DEF Within, Alike
  <1>6. \A L, t : Reached(c, L, t) => Reached(e, L, t)
    BY <1>5 DEF Reached
  <1>7. \A t, k : TailPlanned(t, k, c) => TailPlanned(t, k, e)
    BY <1>1 DEF TailPlanned
  <1>8. \A t, frc, st, s, d : LatestOK(t, c, frc, st, s, d) => LatestOK(t, e, frc, st, s, d)
    BY <1>1 DEF LatestOK
  <1>9. \A t, st, s, d : Missed(t, c, st, s, d) => Missed(t, e, st, s, d)
    BY <1>1 DEF Missed, Alike
  <1> QED
    BY <1>1, <1>4, <1>5, <1>6, <1>7, <1>8, <1>9

\* What has been sent is forgotten.
LEMMA SettledAlike ==
  ASSUME NEW c \in CatchUps
  PROVE  Alike(c, Settled(c)) /\ Settled(c).sent = <<>>
  <1> DEFINE none == <<>>
             e == [c EXCEPT !.sent = none]
  <1>1. none \in Seq(Requests)
    BY EmptySeq
  <1>2. Settled(c) = e
    BY DEF Settled
  <1> HIDE DEF none
  <1>3. e \in CatchUps /\ e.sent = none /\ e.fetches = c.fetches /\ e.status = c.status
        /\ e.request = c.request /\ e.pending = c.pending /\ e.cache = c.cache
    BY <1>1 DEF CatchUps
  <1> QED
    BY <1>2, <1>3 DEF Alike, none

\* An entry that does nothing comes in behind.
LEMMA LongerThins ==
  ASSUME NEW L \in Lines, NEW M, Longer(L, M, Nothing), NEW O, NEW ep \in Nat
  PROVE  Thinner(L, M, O, ep, ep) /\ SameTails(L, M)
  <1>1. PICK n \in Nat : /\ DOMAIN L = 1..n /\ DOMAIN M = 1..n + 1
                         /\ M[n + 1] = Nothing /\ \A i \in 1..n : M[i] = L[i]
    BY DEF Longer
  <1> DEFINE h == [i \in 1..n + 1 |-> i]
  <1>2. \A x : Lighter(x, x, ep, O)
    BY DEF Lighter
  <1>3. \A i \in 1..n + 1 : i \in 1..n \/ i = n + 1
    BY <1>1
  <1>4. Thins(M, L, h, ep, O)
    <2>1. \A i \in DOMAIN M : M[i] = Nothing \/ (h[i] \in DOMAIN L /\ Lighter(M[i], L[h[i]], ep, O))
      BY <1>1, <1>2, <1>3
    <2>2. \A i, j \in DOMAIN M : i < j /\ M[i] # Nothing /\ M[j] # Nothing => h[i] < h[j]
      BY <1>1
    <2> HIDE DEF h
    <2> QED
      BY <2>1, <2>2 DEF Thins
  <1> HIDE DEF h
  <1>5. Thinner(L, M, O, ep, ep)
    BY <1>4, ThinnedLine
  <1>6. SameTails(L, M)
    BY <1>1, <1>3, NothingDoes DEF SameTails
  <1> QED
    BY <1>5, <1>6

\* Requests are of the store's epoch or an older one.
LEMMA AsksUpTo ==
  ASSUME NEW t, NEW k, NEW c, NEW A, NEW span, NEW st, NEW s, NEW d,
         ClientInv(t, k, c, A, span, st, s, d)
  PROVE  /\ d \in Seq(Messages) /\ A \in Seq(Asks) /\ st \in Stores /\ st.epoch \in Nat
         /\ \A i \in 1..Len(A) : A[i].request.dir = "after" => A[i].request.epoch <= st.epoch
         /\ \A r \in Requests : RequestOK(r, t, k, st, s, d) /\ r.dir = "after" => UpTo(Position(r), StoreEnd(st)) /\ r.epoch <= st.epoch
  <1>1. d \in Seq(Messages) /\ A \in Seq(Asks) /\ st \in Stores
    BY DEF ClientInv, Wire, AskedOK
  <1>2. st.epoch \in Nat
    BY <1>1, RowParts
  <1>3. ASSUME NEW r \in Requests, RequestOK(r, t, k, st, s, d), r.dir = "after"
        PROVE  UpTo(Position(r), StoreEnd(st)) /\ r.epoch <= st.epoch
    <2>1. UpTo(Position(r), StoreEnd(st))
      BY <1>3 DEF RequestOK, Behind
    <2>2. Position(r).epoch = r.epoch /\ StoreEnd(st).epoch = st.epoch
      BY <1>1, RowParts DEF Position
    <2>3. r.epoch \in Nat
      BY RequestKinds
    <2> QED
      BY <1>2, <2>1, <2>2, <2>3 DEF UpTo
  <1>4. \A i \in 1..Len(A) : A[i].request.dir = "after" => A[i].request.epoch <= st.epoch
    <2> SUFFICES ASSUME NEW i \in 1..Len(A), A[i].request.dir = "after" PROVE A[i].request.epoch <= st.epoch
      OBVIOUS
    <2>1. A[i] \in Asks /\ RequestOK(A[i].request, t, k, st, s, d)
      BY <1>1 DEF ClientInv, AskedOK
    <2>2. A[i].request \in Requests
      BY <2>1, SomeRequests DEF Asks
    <2> QED
      BY <1>3, <2>1, <2>2
  <1> QED
    BY <1>1, <1>2, <1>3, <1>4

\* While it is not live, a catch-up waits for nothing that it could complete with.
LEMMA Idle ==
  ASSUME NEW c, NEW L, NEW ep, NEW live, Run(c, L, ep, live), c.status # "running"
  PROVE  /\ ~HasLatest(c) /\ ~OwnsTail(c) /\ Owned(c) = {}
         /\ \A f \in c.fetches : ~f.owner
  <1>1. \A f \in c.fetches : f.owner \in BOOLEAN
    BY DEF Run, CatchUps, Fetches
  <1>2. \A f \in c.fetches : ~f.owner
    BY DEF Run, Modes
  <1> QED
    BY <1>1, <1>2 DEF Run, Modes, HasLatest, OwnsTail, Owned

-----------------------------------------------------------------------------
(* The daemon's steps. *)

\* Messages that are no answers are sent to a subscriber, or to nobody.
LEMMA StoreSends ==
  ASSUME NEW t, NEW k, NEW c, NEW A, NEW span, NEW st, NEW s, NEW d, NEW frc, NEW live,
         ClientInv(t, k, c, A, span, st, s, d), CaughtUp(t, k, c, A, frc, st, s, d, live),
         NEW q \in Seq(Messages), \A i \in 1..Len(q) : Plain(q[i]), NEW e, e = d \o q,
         NEW stn \in Stores, st.epoch <= stn.epoch,
         \/ LeadOn(st, stn, BroughtBehind(e, Len(d)), Noticed(e, Len(d)))
         \/ ~live /\ d = <<>> /\ q = <<>>
  PROVE  CaughtUp(t, k, c, A, frc, stn, s, e, live)
  <1> DEFINE L == Line(d, A, st.epoch)
             M == Line(e, A, stn.epoch)
  <1>1. /\ d \in Seq(Messages) /\ A \in Seq(Asks) /\ st \in Stores /\ st.epoch \in Nat /\ stn.epoch \in Nat
        /\ \A i \in 1..Len(A) : A[i].request.dir = "after" => A[i].request.epoch <= st.epoch
    BY AsksUpTo, RowParts
  <1>2. Wire(st, s, d) /\ ClientOK(t, k, st, s, d)
    BY DEF ClientInv
  <1>3. e \in Seq(Messages) /\ Sent(d, e) /\ \A i \in Len(d) + 1..Len(e) : e[i].type # "page"
    <2>1. /\ e \in Seq(Messages) /\ Len(e) = Len(d) + Len(q) /\ Len(d) \in Nat /\ Len(q) \in Nat
          /\ \A i \in 1..Len(d) : e[i] = d[i]
          /\ \A i \in Len(d) + 1..Len(e) : i - Len(d) \in 1..Len(q) /\ e[i] = q[i - Len(d)]
      BY <1>1
    <2> QED
      BY <2>1 DEF Sent, Plain
  <1>4. Thinner(L, M, Owned(c), st.epoch, stn.epoch) /\ SameTails(L, M)
    BY <1>1, LineInserts
  <1>5. M \in Lines
    BY <1>1, <1>3, LineMade
  <1>6. Run(c, L, st.epoch, live) /\ Reached(c, L, t)
    BY DEF CaughtUp
  <1> HIDE DEF L, M
  <1>7. Run(c, M, stn.epoch, live) /\ Reached(c, M, t)
    BY <1>4, <1>5, <1>6, RunThins
  <1>8. PagesLead(e, stn) /\ PastPages(e, s) /\ LatestOK(t, c, frc, stn, s, e) /\ Missed(t, c, stn, s, e)
    <2>1. CASE LeadOn(st, stn, BroughtBehind(e, Len(d)), Noticed(e, Len(d)))
      <3>1. PagesLead(d, st) /\ PastPages(d, s) /\ LatestOK(t, c, frc, st, s, d) /\ Missed(t, c, st, s, d)
        BY DEF CaughtUp
      <3>2. PagesLead(e, stn)
        BY <1>2, <1>3, <2>1, <3>1, PagesGrow
      <3>3. PastPages(e, s) /\ LatestOK(t, c, frc, stn, s, e) /\ Missed(t, c, stn, s, e)
        BY ONLY <1>2, <1>3, <2>1, <3>1, TimelineGrows, stn \in Stores
      <3> QED
        BY <3>2, <3>3
    <2>2. CASE ~live /\ d = <<>> /\ q = <<>>
      <3>1. DOMAIN e = {}
        BY <2>2
      <3>2. c.status = "none"
        BY <1>6, <2>2 DEF Run, Modes, CatchUps
      <3>3. ~HasLatest(c)
        BY <1>6, <3>2, Idle
      <3> QED
        BY <3>1, <3>2, <3>3 DEF PagesLead, PastPages, LatestOK, Missed
    <2> QED
      BY <2>1, <2>2
  <1> QED
    BY <1>7, <1>8 DEF CaughtUp, M

\* What an action leaves of what is relayed, when what it sends is no acknowledgement.
LEMMA RelaysMore ==
  ASSUME NEW con, NEW sub, NEW scr, NEW A, NEW d, Relayed(con, sub, scr, A, d), sub,
         NEW e, Sent(d, e), d \in Seq(Messages), \A i \in Len(d) + 1..Len(e) : e[i].type # "ack"
  PROVE  Relayed(con, sub, scr, A, e)
  <1>1. \A i \in DOMAIN e : i \in Len(d) + 1..Len(e) \/ (i \in DOMAIN d /\ e[i] = d[i])
    BY DEF Sent
  <1> QED
    BY <1>1 DEF Relayed

\* What a step reads of the second invariant.
LEMMA Inv2Facts ==
  ASSUME Inv, Inv2
  PROVE  /\ Relayed(connected, subscribed, subscription, asked, down)
         /\ CaughtUp(timeline, cached, catchUp, asked, forced, store, stream, down, Live)
         /\ ClientInv(timeline, cached, catchUp, asked, stored, store, stream, down)
         /\ Live \in BOOLEAN /\ (Live => connected /\ subscribed /\ subscription = "acked")
         /\ subscribed \in BOOLEAN /\ connected \in BOOLEAN /\ subscription \in {"none", "asked", "acked", "failed"}
         /\ (~subscribed => down = <<>> /\ ~Live)
         /\ down \in Seq(Messages) /\ asked \in Seq(Asks) /\ store \in Stores /\ store.epoch \in Nat
         /\ stream \in Seq(Rows)
  <1>1. /\ Relayed(connected, subscribed, subscription, asked, down)
        /\ CaughtUp(timeline, cached, catchUp, asked, forced, store, stream, down, Live)
    BY DEF Inv2
  <1>2. /\ ClientInv(timeline, cached, catchUp, asked, stored, store, stream, down)
        /\ Live \in BOOLEAN /\ Flags(subscribed, connected, subscription, forced)
    BY InvFacts
  <1>3. (Live => connected /\ subscribed /\ subscription = "acked") /\ (~subscribed => down = <<>> /\ ~Live)
    BY <1>1, <1>2 DEF Live, Relayed, Flags
  <1>4. down \in Seq(Messages) /\ asked \in Seq(Asks) /\ store \in Stores /\ store.epoch \in Nat
    BY <1>2, AsksUpTo
  <1>5. stream \in Seq(Rows)
    BY <1>2 DEF ClientInv, Wire
  <1> QED
    BY <1>1, <1>2, <1>3, <1>4, <1>5 DEF Flags

\* A row is appended.
LEMMA Append1Caught ==
  ASSUME Inv, Inv2, Append1
  PROVE  Inv2'
  <1> DEFINE m == Event(Row(store.epoch, store'.last))
             q == IF subscribed THEN <<m>> ELSE <<>>
             e == down \o q
  <1>0. Inv'
    BY NextStep DEF Next
  <1>1. /\ Relayed(connected, subscribed, subscription, asked, down)
        /\ CaughtUp(timeline, cached, catchUp, asked, forced, store, stream, down, Live)
        /\ ClientInv(timeline, cached, catchUp, asked, stored, store, stream, down)
        /\ Live \in BOOLEAN /\ (~subscribed => down = <<>> /\ ~Live) /\ subscribed \in BOOLEAN
        /\ down \in Seq(Messages) /\ store \in Stores
    BY Inv2Facts
  <1>2. /\ store' = [store EXCEPT !.last = store.last + 1]
        /\ UNCHANGED <<subscribed, connected, subscription, asked, timeline, cached, forced, catchUp, stream>>
        /\ down' = IF subscribed THEN Append(down, m) ELSE down
    BY DEF Append1, client
  <1>3. store' \in Stores
    BY <1>0, InvFacts DEF Inv, ClientInv, Wire
  <1>4. store.epoch <= store'.epoch /\ store'.epoch = store.epoch
    BY <1>1, <1>2, RowParts DEF Stores
  <1>5. m \in Messages /\ m.type = "event" /\ m.row = Row(store.epoch, store'.last)
    <2>1. Row(store.epoch, store'.last) \in Rows
      BY <1>2, <1>1, Bounds DEF Append1, Stores, Rows, Row
    <2> QED
      BY <2>1 DEF Messages, Event
  <1> DEFINE L == LeadOn(store, store', BroughtBehind(e, Len(down)), Noticed(e, Len(down)))
  <1>6. e = down' /\ q \in Seq(Messages) /\ (\A i \in 1..Len(q) : Plain(q[i]))
    <2>1. Append(down, m) = down \o <<m>> /\ down \o <<>> = down
      BY <1>1, <1>5
    <2>2. <<m>> \in Seq(Messages) /\ <<>> \in Seq(Messages) /\ Len(<<m>>) = 1 /\ <<m>>[1] = m
      BY <1>5
    <2>3. Plain(m)
      BY <1>5 DEF Plain
    <2> HIDE DEF m
    <2> QED
      BY <1>1, <1>2, <2>1, <2>2, <2>3
  <1>7. ASSUME subscribed
        PROVE  L /\ Relayed(connected, subscribed, subscription, asked, e)
    <2>0. e = Append(down, m)
      BY <1>2, <1>6, <1>7
    <2> HIDE DEF e, m
    <2>1. /\ Sent(down, e) /\ Len(e) = Len(down) + 1 /\ e[Len(down) + 1] = m
          /\ BroughtBehind(e, Len(down)) = {m.row} /\ ~Noticed(e, Len(down))
      <3>1. down \in Seq(Messages) /\ m \in Messages /\ m.type = "event" /\ e = Append(down, m)
        BY <1>1, <1>5, <2>0
      <3>2. /\ Sent(down, e) /\ Len(e) = Len(down) + 1 /\ e[Len(down) + 1] = m
            /\ BroughtBehind(e, Len(down)) = IF m.type = "event" THEN {m.row} ELSE {}
            /\ Noticed(e, Len(down)) <=> m.type = "notice"
        BY ONLY <3>1, SentOne
      <3> QED
        BY ONLY <3>1, <3>2
    <2>2. Noticed(e, Len(down)) \in BOOLEAN
      BY DEF Noticed
    <2>3. L
      BY <1>1, <1>2, <1>3, <1>5, <2>1, <2>2, StoreLeads
    <2>4. \A i \in Len(down) + 1..Len(e) : e[i].type # "ack"
      <3>1. Len(down) \in Nat
        BY <1>1
      <3>2. \A i \in Len(down) + 1..Len(e) : i = Len(down) + 1
        BY <2>1, <3>1
      <3> QED
        BY <1>5, <2>1, <3>2
    <2> QED
      BY <1>1, <1>7, <2>1, <2>3, <2>4, RelaysMore
  <1>8. ~subscribed => q = <<>> /\ e = down
    BY <1>2, <1>6
  <1>9. Relayed(connected, subscribed, subscription, asked, e)
    BY <1>1, <1>7, <1>8
  <1> HIDE DEF e, q
  <1>10. L \/ (~Live /\ down = <<>> /\ q = <<>>)
    BY <1>1, <1>7, <1>8
  <1>11. e = down \o q
    BY DEF e
  <1>12. CaughtUp(timeline, cached, catchUp, asked, forced, store', stream, e, Live)
    BY <1>1, <1>3, <1>4, <1>6, <1>10, <1>11, StoreSends
  <1>13. Live' = Live
    BY <1>2 DEF Live
  <1> QED
    BY <1>2, <1>6, <1>9, <1>12, <1>13 DEF Inv2

\* Messages that are no acknowledgements are sent.
SentPlainly(d, e) == Sent(d, e) /\ \A i \in Len(d) + 1..Len(e) : e[i].type # "ack"
\* The timeline is replaced.
LEMMA ReplaceCaught ==
  ASSUME Inv, Inv2, Replace
  PROVE  Inv2' /\ SentPlainly(down, down')
  <1>0. Inv'
    BY NextStep DEF Next
  <1>1. /\ Relayed(connected, subscribed, subscription, asked, down)
        /\ CaughtUp(timeline, cached, catchUp, asked, forced, store, stream, down, Live)
        /\ ClientInv(timeline, cached, catchUp, asked, stored, store, stream, down)
        /\ Live \in BOOLEAN /\ (~subscribed => down = <<>> /\ ~Live) /\ subscribed \in BOOLEAN
        /\ down \in Seq(Messages) /\ store \in Stores
    BY Inv2Facts
  <1>2. PICK last \in 0..MaxRows, broadcast \in BOOLEAN :
          /\ store' = Store(store.epoch + 1, last)
          /\ down' = IF ~subscribed THEN down
                     ELSE IF broadcast
                     THEN down \o [n \in 1..last |-> Event(Row(store.epoch + 1, n))]
                     ELSE Append(down, Notice)
    BY DEF Replace
  <1>3. UNCHANGED <<subscribed, connected, subscription, asked, timeline, cached, forced, catchUp, stream>>
    BY DEF Replace, client
  <1>4. store' \in Stores
    BY <1>0, InvFacts DEF Inv, ClientInv, Wire
  <1> DEFINE ep == store.epoch + 1
             rows == [n \in 1..last |-> Event(Row(ep, n))]
             q == IF ~subscribed THEN <<>> ELSE IF broadcast THEN rows ELSE <<Notice>>
             e == down \o q
             L == LeadOn(store, store', BroughtBehind(e, Len(down)), Noticed(e, Len(down)))
  <1>5. store'.epoch = ep /\ store'.last = last /\ store.epoch <= store'.epoch /\ ep \in 1..MaxEpoch
    BY <1>1, <1>2, <1>4, RowParts DEF Store, Stores
  <1>6. Notice \in Messages /\ Notice.type = "notice" /\ Plain(Notice)
    BY DEF Messages, Notice, Plain
  <1>7. /\ rows \in Seq(Messages) /\ (\A i \in 1..Len(rows) : Plain(rows[i]))
        /\ Sent(down, down \o rows)
        /\ \A i \in Len(down) + 1..Len(down \o rows) : (down \o rows)[i].type # "page"
        /\ BroughtBehind(down \o rows, Len(down)) = NewRows(ep, last)
    <2>1. rows \in Seq(Messages) /\ RowsSent(rows, ep, last)
      <3>1. MaxRows \in Nat /\ ep \in 1..MaxEpoch /\ last \in 0..MaxRows
        BY <1>2, <1>5, Bounds
      <3>3. \A n \in 1..last : Row(ep, n) \in Rows
        BY ONLY <3>1 DEF Rows, Row
      <3>2. \A n \in 1..last : Event(Row(ep, n)) \in Messages
        BY ONLY <3>3 DEF Messages
      <3>4. rows \in [1..last -> Messages] /\ last \in Nat
        BY <3>1, <3>2
      <3>5. rows \in Seq(Messages) /\ Len(rows) = last
        BY <3>4
      <3>6. \A n \in 1..last : rows[n] = Event(Row(ep, n))
        OBVIOUS
      <3> HIDE DEF rows
      <3> QED
        BY <3>5, <3>6 DEF RowsSent
    <2> DEFINE x == down \o rows
    <2>2. x = down \o rows
      OBVIOUS
    <2> HIDE DEF rows, x, ep
    <2>3. SendsRows(down, x, rows, ep, last)
      <3>1. down \in Seq(Messages) /\ ep \in 1..MaxEpoch /\ last \in 0..MaxRows
        BY <1>1, <1>2, <1>5
      <3> QED
        BY ONLY <2>1, <2>2, <3>1, SentRows
    <2> QED
      BY <2>1, <2>3 DEF x, SendsRows
  <1> HIDE DEF rows, ep
  <1>8. e = down' /\ q \in Seq(Messages) /\ (\A i \in 1..Len(q) : Plain(q[i]))
    <2>1. Append(down, Notice) = down \o <<Notice>> /\ down \o <<>> = down
      BY <1>1, <1>6
    <2>2. <<Notice>> \in Seq(Messages) /\ <<>> \in Seq(Messages) /\ Len(<<Notice>>) = 1 /\ <<Notice>>[1] = Notice
          /\ Len(<<>>) = 0
      BY <1>6
    <2>3. e = down'
      BY <1>1, <1>2, <2>1 DEF rows, ep
    <2>4. q \in Seq(Messages)
      BY <1>1, <1>7, <2>2
    <2>5. \A i \in 1..Len(q) : Plain(q[i])
      <3>1. CASE ~subscribed
        BY <2>2, <3>1
      <3>2. CASE subscribed /\ broadcast
        BY <1>7, <3>2
      <3>3. CASE subscribed /\ ~broadcast
        <4>1. q = <<Notice>>
          BY <3>3
        <4>2. \A i \in 1..Len(q) : q[i] = Notice
          BY <2>2, <4>1
        <4> QED
          BY <1>6, <4>2
      <3> QED
        BY <1>1, <3>1, <3>2, <3>3
    <2> QED
      BY <2>3, <2>4, <2>5
  <1> HIDE DEF q
  <1>9. Len(q) \in Nat /\ Len(down) \in Nat /\ Len(e) = Len(down) + Len(q)
    BY <1>1, <1>8
  <1>10. Sent(down, e) /\ \A i \in Len(down) + 1..Len(e) : e[i].type # "ack"
    <2>1. /\ e \in Seq(Messages)
          /\ \A i \in 1..Len(down) : e[i] = down[i]
          /\ \A i \in Len(down) + 1..Len(e) : i - Len(down) \in 1..Len(q) /\ e[i] = q[i - Len(down)]
      <3>1. down \in Seq(Messages) /\ q \in Seq(Messages) /\ e = down \o q
        BY <1>1, <1>8
      <3> HIDE DEF e
      <3> QED
        BY ONLY <3>1
    <2>2. Sent(down, e)
      BY <1>9, <2>1 DEF Sent
    <2>3. \A i \in 1..Len(q) : q[i].type # "ack"
      <3>1. CASE ~subscribed
        BY <3>1 DEF q
      <3>2. CASE subscribed /\ broadcast
        <4>1. \A i \in 1..Len(rows) : rows[i].type # "ack"
          <5>1. rows = [n \in 1..last |-> Event(Row(ep, n))] /\ last \in Nat
            BY Bounds DEF rows
          <5>2. Len(rows) = last
            BY <5>1
          <5> QED
            BY <5>1, <5>2 DEF Event
        <4> QED
          BY <3>2, <4>1 DEF q
      <3>3. CASE subscribed /\ ~broadcast
        <4>1. q = <<Notice>>
          BY <3>3 DEF q
        <4> QED
          BY <1>6, <4>1
      <3> QED
        BY <1>1, <3>1, <3>2, <3>3
    <2> QED
      BY <2>1, <2>2, <2>3
  <1>11. ASSUME subscribed, broadcast
         PROVE  L
    <2>1. e = down \o rows
      BY <1>11 DEF q
    <2>2. BroughtBehind(e, Len(down)) = NewRows(store'.epoch, store'.last)
      BY <1>5, <1>7, <2>1
    <2>3. Noticed(e, Len(down)) \in BOOLEAN
      BY DEF Noticed
    <2> HIDE DEF e
    <2> QED
      BY <1>1, <1>4, <1>5, <2>2, <2>3, StoreLeads DEF ep
  <1>12. ASSUME subscribed, ~broadcast
         PROVE  L
    <2>1. e = Append(down, Notice)
      BY <1>1, <1>6, <1>12 DEF q
    <2> HIDE DEF e
    <2>2. BroughtBehind(e, Len(down)) = {} /\ Noticed(e, Len(down))
      BY <1>1, <1>6, <2>1, SentOne
    <2>3. Noticed(e, Len(down)) = TRUE
      BY <2>2 DEF Noticed
    <2> QED
      BY <1>1, <1>4, <1>5, <2>2, <2>3, StoreLeads DEF ep
  <1>13. ~subscribed => q = <<>> /\ e = down
    BY <1>2, <1>8 DEF q
  <1>14. e = down \o q
    OBVIOUS
  <1> HIDE DEF e
  <1>15. Relayed(connected, subscribed, subscription, asked, e)
    BY <1>1, <1>10, <1>13, RelaysMore
  <1>16. L \/ (~Live /\ down = <<>> /\ q = <<>>)
    BY <1>1, <1>11, <1>12, <1>13
  <1>17. CaughtUp(timeline, cached, catchUp, asked, forced, store', stream, e, Live)
    BY <1>1, <1>4, <1>5, <1>8, <1>14, <1>16, StoreSends
  <1>18. Live' = Live
    BY <1>3 DEF Live
  <1>19. SentPlainly(down, down')
    BY <1>8, <1>10 DEF SentPlainly
  <1> QED
    BY <1>3, <1>8, <1>15, <1>17, <1>18, <1>19 DEF Inv2

\* The same rows are on their way, and the same notices.
LEMMA RowsStay ==
  ASSUME NEW t, NEW c, NEW frc, NEW st, NEW s, NEW d, NEW e, Brought(e) = Brought(d), Noticed(d, 0) => Noticed(e, 0)
  PROVE  /\ LatestOK(t, c, frc, st, s, d) => LatestOK(t, c, frc, st, s, e)
         /\ Missed(t, c, st, s, d) => Missed(t, c, st, s, e)
  <1>1. LatestOK(t, c, frc, st, s, d) => LatestOK(t, c, frc, st, s, e)
    BY DEF LatestOK
  <1>2. Missed(t, c, st, s, d) => Missed(t, c, st, s, e)
    BY DEF Missed
  <1> QED
    BY <1>1, <1>2

\* The daemon handles a request, and sends message m.
LEMMA AnswerCaught ==
  ASSUME NEW t, NEW k, NEW c, NEW A, NEW span, NEW st, NEW s, NEW d, NEW frc, NEW live,
         ClientInv(t, k, c, A, span, st, s, d), CaughtUp(t, k, c, A, frc, st, s, d, live), A # <<>>,
         NEW m \in Messages, NEW e, e = Append(d, m),
         OfMessage(m) = Nothing \/ Answers(OfMessage(m), OfAsk(Head(A), st.epoch), st.epoch, Owned(c)),
         PagesLead(e, st), PastPages(e, s), Brought(e) = Brought(d), Noticed(d, 0) => Noticed(e, 0)
  PROVE  CaughtUp(t, k, c, Tail(A), frc, st, s, e, live)
  <1> DEFINE L == Line(d, A, st.epoch)
             M == Line(e, Tail(A), st.epoch)
  <1>1. d \in Seq(Messages) /\ A \in Seq(Asks) /\ st.epoch \in Nat
    BY AsksUpTo
  <1>2. Thinner(L, M, Owned(c), st.epoch, st.epoch) /\ SameTails(L, M)
    BY <1>1, LineAnswers
  <1>3. M \in Lines
    <2>1. e \in Seq(Messages) /\ Tail(A) \in Seq(Asks)
      BY <1>1
    <2> QED
      BY <1>1, <2>1, LineMade
  <1>4. Run(c, L, st.epoch, live) /\ Reached(c, L, t) /\ LatestOK(t, c, frc, st, s, d) /\ Missed(t, c, st, s, d)
    BY DEF CaughtUp
  <1> HIDE DEF L, M
  <1>5. Run(c, M, st.epoch, live) /\ Reached(c, M, t)
    BY <1>2, <1>3, <1>4, RunThins
  <1>6. LatestOK(t, c, frc, st, s, e) /\ Missed(t, c, st, s, e)
    BY <1>4, RowsStay
  <1> QED
    BY <1>5, <1>6 DEF CaughtUp, M

\* The daemon answers a subscription.
LEMMA HandleSubscribeCaught ==
  ASSUME Inv, Inv2, HandleSubscribe
  PROVE  Inv2'
  <1> DEFINE m == Ack(Head(asked).waited)
             e == Append(down, m)
  <1>1. /\ Relayed(connected, subscribed, subscription, asked, down)
        /\ CaughtUp(timeline, cached, catchUp, asked, forced, store, stream, down, Live)
        /\ ClientInv(timeline, cached, catchUp, asked, stored, store, stream, down)
        /\ down \in Seq(Messages) /\ store \in Stores /\ asked \in Seq(Asks)
    BY Inv2Facts
  <1>2. /\ asked # <<>> /\ Head(asked).request = Subscribe
        /\ asked' = Tail(asked) /\ down' = e /\ subscribed' = TRUE
        /\ UNCHANGED <<connected, subscription, store, timeline, cached, forced, catchUp, stream>>
    BY DEF HandleSubscribe, client
  <1>3. Head(asked).waited \in BOOLEAN /\ 1 \in DOMAIN asked /\ Head(asked) = asked[1]
    <2>1. 1 \in DOMAIN asked /\ Head(asked) = asked[1]
      BY <1>1, <1>2
    <2>2. asked[1] \in Asks
      BY <1>1, <2>1
    <2> QED
      BY <2>1, <2>2 DEF Asks
  <1>4. m \in Messages /\ m.type = "ack" /\ m.waited = Head(asked).waited
    BY <1>3, MessagesMade
  <1>5. OfMessage(m) = Nothing
    BY <1>4 DEF OfMessage
  <1> HIDE DEF m
  <1>6. /\ Sent(down, e) /\ Len(e) = Len(down) + 1 /\ e[Len(down) + 1] = m
        /\ BroughtBehind(e, Len(down)) = {} /\ ~Noticed(e, Len(down))
        /\ \A i \in Len(down) + 1..Len(e) : e[i].type # "page"
    <3>1. down \in Seq(Messages) /\ m \in Messages /\ m.type = "ack" /\ e = Append(down, m)
      BY <1>1, <1>4
    <3>2. /\ Sent(down, e) /\ Len(e) = Len(down) + 1 /\ e[Len(down) + 1] = m
          /\ m.type # "page" => \A i \in Len(down) + 1..Len(e) : e[i].type # "page"
          /\ BroughtBehind(e, Len(down)) = IF m.type = "event" THEN {m.row} ELSE {}
          /\ Noticed(e, Len(down)) <=> m.type = "notice"
      BY ONLY <3>1, SentOne
    <3> QED
      BY ONLY <3>1, <3>2
  <1>7. e = Append(down, m)
    OBVIOUS
  <1> HIDE DEF e
  <1>8. Wire(store, stream, down) /\ ClientOK(timeline, cached, store, stream, down)
    BY <1>1 DEF ClientInv
  <1>9. LeadOn(store, store, BroughtBehind(e, Len(down)), Noticed(e, Len(down)))
    <2>1. Noticed(e, Len(down)) \in BOOLEAN
      BY DEF Noticed
    <2> QED
      BY <1>1, <1>6, <2>1, StoreLeads
  <1>10. /\ PagesLead(down, store) /\ PastPages(down, stream)
         /\ LatestOK(timeline, catchUp, forced, store, stream, down) /\ Missed(timeline, catchUp, store, stream, down)
    BY <1>1 DEF CaughtUp
  <1>11. PagesLead(e, store)
    BY ONLY <1>6, <1>8, <1>9, <1>10, PagesGrow
  <1>12. PastPages(e, stream)
    BY ONLY <1>6, <1>8, <1>9, <1>10, TimelineGrows
  <1>13. Brought(e) = Brought(down) /\ (Noticed(down, 0) => Noticed(e, 0))
    <2>1. 0 \in 0..Len(down) /\ Len(down) \in Nat /\ e \in Seq(Messages)
      BY <1>1, <1>6 DEF Sent
    <2>2. /\ BroughtBehind(e, 0) = BroughtBehind(down, 0) \union {}
          /\ Noticed(down, 0) => Noticed(e, 0)
      BY <1>1, <1>6, <2>1, BroughtMore
    <2> QED
      BY <1>1, <2>1, <2>2, BehindNone
  <1>14. CaughtUp(timeline, cached, catchUp, Tail(asked), forced, store, stream, e, Live)
    BY <1>1, <1>2, <1>4, <1>5, <1>7, <1>11, <1>12, <1>13, AnswerCaught
  <1>15. Relayed(connected, TRUE, subscription, Tail(asked), e)
    <2>1. connected
      BY <1>1, <1>2 DEF Relayed
    <2>2. \A i \in DOMAIN Tail(asked) : i + 1 \in DOMAIN asked /\ Tail(asked)[i] = asked[i + 1]
      BY <1>1, <1>2
    <2>3. \A i \in DOMAIN e : (i \in DOMAIN down /\ e[i] = down[i]) \/ e[i] = m
      BY <1>1, <1>6 DEF Sent
    <2>4. m.waited => subscription = "asked"
      BY <1>1, <1>2, <1>3, <1>4 DEF Relayed
    <2>5. \A i \in DOMAIN Tail(asked) : Tail(asked)[i].request = Subscribe /\ Tail(asked)[i].waited => subscription = "asked"
      BY <1>1, <2>2 DEF Relayed
    <2>6. \A i \in DOMAIN e : e[i].type = "ack" /\ e[i].waited => subscription = "asked"
      BY <1>1, <2>3, <2>4 DEF Relayed
    <2> QED
      BY <2>1, <2>5, <2>6 DEF Relayed
  <1>16. Live' = Live
    BY <1>2 DEF Live
  <1> QED
    BY <1>2, <1>14, <1>15, <1>16 DEF Inv2

\* What the answer makes of the request's place in the line.
LEMMA AnswerLighter ==
  ASSUME NEW st \in Stores, NEW a \in Asks, NEW r \in Requests, a.request = r, r.dir = "after" => r.epoch <= st.epoch,
         NEW page, NEW w \in BOOLEAN, NEW O,
         w = a.waited, page = PageAnswered(st, r) \/ page = ErrorPage(r),
         page = ErrorPage(r) /\ a.waited /\ r = TailFetch => TailFetch \in O
  PROVE  Answers(OfMessage(Answer(page, w)), OfAsk(a, st.epoch), st.epoch, O)
  <1> DEFINE x == OfMessage(Answer(page, w))
             y == OfAsk(a, st.epoch)
  <1>1. /\ page \in Pages /\ page.request = r
        /\ page = PageAnswered(st, r) => ~page.error
        /\ page = ErrorPage(r) => page.error
    BY PageRead, PageFailed
  <1>2. x = Entry(r, w, page.error, Extends(page))
    BY <1>1, MessagesMade DEF OfMessage
  <1>3. r # Subscribe
    BY RequestKinds DEF Requests, Subscribe, Request, TailFetch
  <1>4. y = Entry(r, a.waited, FALSE, r.dir = "after" /\ r.epoch = st.epoch)
    BY <1>3 DEF OfAsk
  <1>5. a.waited \in BOOLEAN /\ st.epoch \in Nat
    BY RowParts DEF Asks
  <1>6. page.error \in BOOLEAN /\ Extends(page) \in BOOLEAN
    BY <1>1 DEF Pages, Extends
  <1>10. /\ x.request = r /\ x.waited = w /\ x.failed = page.error /\ x.extends = Extends(page)
         /\ y.request = r /\ y.waited = a.waited /\ y.failed = FALSE
         /\ y.extends = (r.dir = "after" /\ r.epoch = st.epoch)
    BY <1>2, <1>4 DEF Entry
  <1>9. x.request = r /\ y.request = r /\ (x.waited <=> y.waited)
    BY <1>10
  <1> HIDE DEF x, y
  <1>7. ASSUME page = PageAnswered(st, r) PROVE Answers(x, y, st.epoch, O)
    <2>1. ~page.error
      BY <1>1, <1>7
    <2>2. r.dir = "after" => (page.reset <=> r.epoch # st.epoch)
      BY <1>7 DEF PageAnswered, Page
    <2>3. Extends(page) <=> r.dir = "after" /\ r.epoch = st.epoch
      BY <1>1, <2>1, <2>2 DEF Extends
    <2>4. ~x.failed /\ ~y.failed /\ (x.extends <=> y.extends)
      BY <1>10, <2>1, <2>3
    <2> QED
      BY ONLY <1>9, <2>4 DEF Answers, Lighter
  <1>8. ASSUME page = ErrorPage(r) PROVE Answers(x, y, st.epoch, O)
    <2>1. page.error /\ ~Extends(page)
      BY <1>1, <1>8 DEF Extends
    <2>2. x.failed /\ ~y.failed /\ ~x.extends
      BY <1>10, <2>1
    <2>3. y.waited /\ r = TailFetch => TailFetch \in O
      BY <1>8, <1>10
    <2> QED
      BY ONLY <1>9, <2>2, <2>3 DEF Answers, Lighter
  <1> QED
    BY <1>7, <1>8 DEF x, y

\* The daemon answers a fetch, or fails one that is tried again.
LEMMA HandleFetchCaught ==
  ASSUME Inv, Inv2, HandleFetch, ~lapsed'
  PROVE  Inv2'
  <1> DEFINE a == Head(asked)
             r == a.request
  <1>1. /\ Relayed(connected, subscribed, subscription, asked, down)
        /\ CaughtUp(timeline, cached, catchUp, asked, forced, store, stream, down, Live)
        /\ ClientInv(timeline, cached, catchUp, asked, stored, store, stream, down)
        /\ down \in Seq(Messages) /\ store \in Stores /\ asked \in Seq(Asks)
        /\ subscribed \in BOOLEAN
    BY Inv2Facts
  <1>2. /\ asked # <<>> /\ r # Subscribe
        /\ asked' = Tail(asked)
        /\ UNCHANGED <<subscribed, connected, subscription, store, timeline, cached, forced, catchUp, stream>>
    BY DEF HandleFetch, client
  <1> DEFINE w == a.waited
  <1>3. w \in BOOLEAN
    <2>1. a \in Asks
      BY <1>1, <1>2
    <2> QED
      BY <2>1 DEF Asks
  <1>4. \/ down' = Append(down, Answer(PageAnswered(store, r), w))
        \/ /\ down' = Append(down, Answer(ErrorPage(r), w))
           /\ w /\ r = TailFetch => TailFetch \in Owned(catchUp)
    <2>1. CASE down' = Append(down, Answer(PageAnswered(store, r), w))
      BY <2>1
    <2>2. CASE down' = Append(down, Answer(ErrorPage(r), w)) /\ lapsed' = (lapsed \/ (w /\ NobodyRetries(r)))
      <3>1. w => ~NobodyRetries(r)
        BY <2>2
      <3>2. ~NobodyRetries(r) /\ r = TailFetch => TailFetch \in Owned(catchUp)
        BY DEF NobodyRetries, Owned
      <3> QED
        BY <2>2, <3>1, <3>2
    <2> QED
      BY <2>1, <2>2 DEF HandleFetch
  <1>5. PICK page : /\ down' = Append(down, Answer(page, w))
                    /\ page = PageAnswered(store, r) \/ page = ErrorPage(r)
                    /\ page = ErrorPage(r) /\ w /\ r = TailFetch => TailFetch \in Owned(catchUp)
    <2>1. CASE down' = Append(down, Answer(PageAnswered(store, r), w))
      <3>1. PageAnswered(store, r) # ErrorPage(r)
        <4>1. ~PageAnswered(store, r).error /\ ErrorPage(r).error
          BY DEF PageAnswered, ErrorPage, Page
        <4> QED
          BY <4>1
      <3> QED
        BY <2>1, <3>1
    <2>2. CASE ~(down' = Append(down, Answer(PageAnswered(store, r), w)))
      BY <1>4, <2>2
    <2> QED
      BY <2>1, <2>2
  <1>6. 1 \in 1..Len(asked) /\ a = asked[1] /\ a \in Asks
    BY <1>1, <1>2
  <1>7. r \in Requests /\ RequestOK(r, timeline, cached, store, stream, down)
    BY <1>1, <1>2, <1>6 DEF ClientInv, AskedOK, Asks
  <1>8. r.dir = "after" => r.epoch <= store.epoch
    BY <1>1, <1>6, AsksUpTo
  <1> HIDE DEF a, w
  <1> DEFINE m == Answer(page, w)
             e == Append(down, m)
             O == Owned(catchUp)
  <1>10. Answers(OfMessage(m), OfAsk(a, store.epoch), store.epoch, O)
    <2>1. /\ page = PageAnswered(store, r) \/ page = ErrorPage(r)
          /\ page = ErrorPage(r) /\ a.waited /\ r = TailFetch => TailFetch \in O
      BY <1>5 DEF w
    <2>2. a.request = r /\ w = a.waited
      BY DEF w
    <2> HIDE DEF r, O
    <2> QED
      BY <1>1, <1>3, <1>6, <1>7, <1>8, <2>1, <2>2, AnswerLighter
  <1>11. page \in Pages /\ page.request = r /\ page.dir = r.dir /\ (page.error \/ Top(page) = StoreEnd(store))
    BY <1>1, <1>5, <1>7, PageRead, PageFailed
  <1>12. m \in Messages /\ m.type = "page" /\ m.page = page
    BY <1>3, <1>11, MessagesMade
  <1>13. e = Append(down, Answer(page, w))
    OBVIOUS
  <1> HIDE DEF e, r, O
  <1>14. PagesLead(e, store) /\ Brought(e) = Brought(down) /\ (Noticed(down, 0) => Noticed(e, 0))
    <2>1. Wire(store, stream, down) /\ PagesLead(down, store)
      BY <1>1 DEF ClientInv, CaughtUp
    <2>2. page \in Pages /\ (page.error \/ Top(page) = StoreEnd(store)) /\ Replies(down, e, page, w)
      BY <1>3, <1>11, <1>13 DEF Replies
    <2> QED
      BY ONLY <2>1, <2>2, PagesAnswered
  <1> HIDE DEF m
  <1>15. \A i \in DOMAIN e : (i \in DOMAIN down /\ e[i] = down[i]) \/ e[i] = m
    <2>1. e = Append(down, m)
      BY <1>13 DEF m
    <2> QED
      BY <1>1, <1>12, <2>1
  <1>16. PastPages(e, stream)
    <2> SUFFICES ASSUME NEW i \in DOMAIN e, NEW n \in DOMAIN stream, NEW q \in AsksAfter(e[i])
                 PROVE  Before(q, stream[n])
      BY DEF PastPages
    <2>1. CASE i \in DOMAIN down /\ e[i] = down[i]
      BY <1>1, <2>1 DEF CaughtUp, PastPages
    <2>2. CASE e[i] = m
      <3>1. r.dir = "after" /\ q = Position(r)
        BY <1>11, <1>12, <2>2 DEF AsksAfter
      <3> QED
        BY <1>7, <3>1 DEF RequestOK, Behind
    <2> QED
      BY <1>15, <2>1, <2>2
  <1>17. CaughtUp(timeline, cached, catchUp, Tail(asked), forced, store, stream, e, Live)
    BY <1>1, <1>2, <1>10, <1>12, <1>13, <1>14, <1>16, AnswerCaught DEF a, m, O
  <1>18. Relayed(connected, subscribed, subscription, Tail(asked), e)
    <2>1. subscribed
      BY <1>1, <1>2, <1>6 DEF Relayed, r
    <2>2. \A i \in DOMAIN Tail(asked) : i + 1 \in DOMAIN asked /\ Tail(asked)[i] = asked[i + 1]
      BY <1>1, <1>2
    <2>3. connected
      BY <1>1, <2>1 DEF Relayed
    <2>5. \A i \in DOMAIN Tail(asked) : Tail(asked)[i].request = Subscribe /\ Tail(asked)[i].waited => subscription = "asked"
      BY <1>1, <2>2 DEF Relayed
    <2>6. \A i \in DOMAIN e : e[i].type = "ack" /\ e[i].waited => subscription = "asked"
      BY <1>1, <1>12, <1>15 DEF Relayed
    <2> QED
      BY <2>1, <2>3, <2>5, <2>6 DEF Relayed
  <1>19. Live' = Live
    BY <1>2 DEF Live
  <1>20. down' = e
    BY <1>5, <1>13
  <1> QED
    BY <1>2, <1>17, <1>18, <1>19, <1>20 DEF Inv2

-----------------------------------------------------------------------------
(* The steps of the client's connection. *)

\* The subscription is asked for: nothing else in the line moves.
LEMMA ConnectCaught ==
  ASSUME Inv, Inv2, Connect \/ RetrySubscription
  PROVE  Inv2'
  <1> DEFINE a == Ask(Subscribe)
             B == Append(asked, a)
             L == Line(down, asked, store.epoch)
             M == Line(down, B, store.epoch)
  <1>1. /\ Relayed(connected, subscribed, subscription, asked, down)
        /\ CaughtUp(timeline, cached, catchUp, asked, forced, store, stream, down, Live)
        /\ ClientInv(timeline, cached, catchUp, asked, stored, store, stream, down)
        /\ Live \in BOOLEAN /\ connected \in BOOLEAN
        /\ down \in Seq(Messages) /\ asked \in Seq(Asks) /\ store.epoch \in Nat
    BY Inv2Facts
  <1>2. /\ asked' = B /\ subscription' = "asked"
        /\ UNCHANGED <<subscribed, down, store, timeline, cached, forced, catchUp, stream>>
    BY DEF Connect, RetrySubscription, server, client
  <1>3. connected' /\ ~Live /\ ~Live'
    <2>1. RetrySubscription => connected
      BY <1>1 DEF RetrySubscription, Relayed
    <2> QED
      BY <1>2, <2>1 DEF Connect, RetrySubscription, Live
  <1>4. a \in Asks /\ a.request = Subscribe /\ OfAsk(a, store.epoch) = Nothing
    <2>1. a \in Asks /\ a.request = Subscribe
      BY DEF Ask, Asks
    <2> QED
      BY <2>1 DEF OfAsk
  <1> HIDE DEF a
  <1>5. Longer(L, M, Nothing)
    BY <1>1, <1>4, LineSends
  <1>6. B \in Seq(Asks) /\ L \in Lines /\ M \in Lines
    <2>1. B \in Seq(Asks)
      BY <1>1, <1>4
    <2> HIDE DEF B
    <2> QED
      BY <1>1, <2>1, LineMade
  <1>7. \A i \in DOMAIN B : (i \in DOMAIN asked /\ B[i] = asked[i]) \/ B[i].request = Subscribe
    BY <1>1, <1>4
  <1> HIDE DEF B
  <1>8. Thinner(L, M, Owned(catchUp), store.epoch, store.epoch) /\ SameTails(L, M)
    <2> HIDE DEF L, M
    <2> QED
      BY <1>1, <1>5, <1>6, LongerThins
  <1>9. Run(catchUp, L, store.epoch, Live) /\ Reached(catchUp, L, timeline)
    BY <1>1 DEF CaughtUp
  <1> HIDE DEF L, M
  <1>10. Run(catchUp, M, store.epoch, Live) /\ Reached(catchUp, M, timeline)
    BY <1>6, <1>8, <1>9, RunThins
  <1>11. CaughtUp(timeline, cached, catchUp, B, forced, store, stream, down, Live)
    BY <1>1, <1>10 DEF CaughtUp, M
  <1>12. Relayed(connected', subscribed, "asked", B, down)
    <2>1. ~subscribed => \A i \in DOMAIN B : B[i].request = Subscribe
      BY <1>1, <1>7 DEF Relayed
    <2>2. ~subscribed => down = <<>>
      BY <1>1 DEF Relayed
    <2> QED
      BY <1>3, <2>1, <2>2 DEF Relayed
  <1>13. Live' = Live
    BY <1>1, <1>3 DEF Live
  <1>14. CaughtUp(timeline, cached, catchUp, B, forced, store, stream, down, Live')
    BY <1>11, <1>13
  <1> QED
    BY <1>2, <1>12, <1>14 DEF Inv2

\* A catch-up that is cancelled, or has not begun.
LEMMA Cleared ==
  ASSUME NEW e \in CatchUps, e.status = "none", e.fetches = {}, e.pending = NoRequest, e.sent = <<>>,
         NEW t, NEW k, NEW frc, NEW st, NEW s, NEW live, st.epoch \in Nat
  PROVE  CaughtUp(t, k, e, <<>>, frc, st, s, <<>>, live)
  <1> DEFINE d == <<>>
             A == <<>>
             L == Line(d, A, st.epoch)
  <1>1. d \in Seq(Messages) /\ A \in Seq(Asks) /\ Len(d) = 0 /\ Len(A) = 0 /\ DOMAIN d = {}
    OBVIOUS
  <1> HIDE DEF d, A
  <1>2. L \in Lines /\ DOMAIN L = {}
    <2>1. L \in Lines /\ DOMAIN L = 1..Len(d) + Len(A)
      BY <1>1, LineMade
    <2>2. DOMAIN L = 1..0 + 0
      BY <1>1, <2>1
    <2> QED
      BY <2>1, <2>2
  <1> HIDE DEF L
  <1>3. ~HasLatest(e) /\ ~OwnsTail(e)
    BY DEF HasLatest, OwnsTail
  <1>4. Run(e, L, st.epoch, live)
    BY <1>2, <1>3 DEF Run, OneOwner, LineOK, Older, Modes, Quiet, Harmless
  <1>5. Reached(e, L, t)
    BY <1>2 DEF Reached, Within, Bounded
  <1>6. PagesLead(d, st) /\ PastPages(d, s)
    BY <1>1 DEF PagesLead, PastPages
  <1>7. TailPlanned(t, k, e) /\ LatestOK(t, e, frc, st, s, d) /\ Missed(t, e, st, s, d)
    BY <1>3 DEF TailPlanned, LatestOK, Missed
  <1> QED
    BY <1>4, <1>5, <1>6, <1>7 DEF CaughtUp, L, d, A

\* The connection is lost, and with it whatever was to be caught up.
LEMMA DisconnectCaught ==
  ASSUME Inv, catchUp.sent = <<>>, Disconnect
  PROVE  Inv2'
  <1> DEFINE none == {}
             e == [Cancelled(catchUp) EXCEPT !.fetches = none, !.shown = "pending"]
  <1>1. /\ catchUp' = e /\ asked' = <<>> /\ down' = <<>>
        /\ connected' = FALSE /\ subscription' = "none" /\ subscribed' = FALSE /\ store' = store
    BY DEF Disconnect
  <1>2. catchUp \in CatchUps /\ store.epoch \in Nat
    <2>1. catchUp \in CatchUps /\ store \in Stores
      BY InvFacts
    <2> QED
      BY <2>1, RowParts
  <1>3. e \in CatchUps /\ e.status = "none" /\ e.fetches = {} /\ e.pending = NoRequest /\ e.sent = <<>>
    <2>1. Disowned(catchUp.fetches) \subseteq Fetches
      <3>1. catchUp.fetches \subseteq Fetches
        BY <1>2 DEF CatchUps
      <3>2. \A f \in Fetches : [f EXCEPT !.owner = FALSE] \in Fetches
        BY DEF Fetches
      <3> QED
        BY <3>1, <3>2 DEF Disowned
    <2> HIDE DEF none
    <2>2. none \in SUBSET Fetches
      BY DEF none
    <2>3. e \in CatchUps /\ e.status = "none" /\ e.fetches = none /\ e.pending = NoRequest /\ e.sent = catchUp.sent
      BY <1>2, <2>1, <2>2 DEF Cancelled, CatchUps
    <2> QED
      BY <1>2, <2>3 DEF none
  <1> HIDE DEF e
  <1>4. CaughtUp(timeline', cached', e, <<>>, forced', store, stream', <<>>, Live')
    BY <1>2, <1>3, Cleared
  <1>5. Relayed(FALSE, FALSE, "none", <<>>, <<>>)
    BY DEF Relayed
  <1> QED
    BY <1>1, <1>4, <1>5 DEF Inv2

\* The subscription fails.
LEMMA SubscriptionFailsCaught ==
  ASSUME Inv, Inv2, SubscriptionFails
  PROVE  Inv2'
  <1> DEFINE B == GivenUp(Subscribe)
             e == [i \in DOMAIN down |-> IF down[i].type = "ack" THEN Ack(FALSE) ELSE down[i]]
             g == [catchUp EXCEPT !.shown = "error"]
             L == Line(down, asked, store.epoch)
             M == Line(e, B, store.epoch)
  <1>1. /\ Relayed(connected, subscribed, subscription, asked, down)
        /\ CaughtUp(timeline, cached, catchUp, asked, forced, store, stream, down, Live)
        /\ down \in Seq(Messages) /\ asked \in Seq(Asks) /\ store.epoch \in Nat /\ store \in Stores
        /\ Live \in BOOLEAN
    BY Inv2Facts
  <1>2. /\ asked' = B /\ subscription' = "failed" /\ down' = e /\ catchUp' = g /\ subscription = "asked"
        /\ UNCHANGED <<subscribed, connected, store, timeline, cached, forced, stream>>
    BY DEF SubscriptionFails, server
  <1>3. ~Live /\ ~Live' /\ connected
    BY <1>1, <1>2 DEF Live, Relayed
  <1>4. /\ B \in Seq(Asks) /\ Len(B) = Len(asked)
        /\ \A i \in 1..Len(asked) : B[i] = asked[i] \/ (B[i].request = Subscribe /\ asked[i].request = Subscribe /\ ~B[i].waited)
    <2>1. /\ B \in Seq(Asks) /\ Len(B) = Len(asked)
          /\ \A i \in 1..Len(asked) : B[i].request = asked[i].request /\ (B[i].waited <=> asked[i].waited /\ asked[i].request # Subscribe)
      BY <1>1, GivenUpTypes
    <2>2. \A i \in 1..Len(asked) : asked[i].request # Subscribe => B[i] = asked[i]
      BY <1>1 DEF GivenUp
    <2> QED
      BY <2>1, <2>2
  <1>5. /\ e \in Seq(Messages) /\ Len(e) = Len(down) /\ DOMAIN e = DOMAIN down
        /\ \A i \in 1..Len(down) : down[i] \in Messages /\ (e[i] = down[i] \/ (down[i].type = "ack" /\ e[i].type = "ack"))
        /\ \A i \in 1..Len(down) : e[i].type = "ack" => ~e[i].waited
    <2>1. Ack(FALSE) \in Messages /\ Ack(FALSE).type = "ack" /\ Ack(FALSE).waited = FALSE
      BY MessagesMade
    <2>2. DOMAIN down = 1..Len(down) /\ Len(down) \in Nat /\ \A i \in 1..Len(down) : down[i] \in Messages
      BY <1>1
    <2>3. \A i \in 1..Len(down) : e[i] = IF down[i].type = "ack" THEN Ack(FALSE) ELSE down[i]
      BY <2>2
    <2>4. e \in [1..Len(down) -> Messages]
      BY <2>1, <2>2
    <2>6. DOMAIN e = DOMAIN down
      OBVIOUS
    <2> HIDE DEF e
    <2>5. e \in Seq(Messages) /\ Len(e) = Len(down) /\ DOMAIN e = DOMAIN down
      BY <2>2, <2>4, <2>6
    <2> QED
      BY <2>1, <2>2, <2>3, <2>5
  <1> HIDE DEF B, e
  <1>6. \A i \in 1..Len(down) : SameMessage(down[i], e[i]) /\ OfMessage(e[i]) = OfMessage(down[i])
    <2> TAKE i \in 1..Len(down)
    <2>1. CASE e[i] = down[i]
      BY <2>1 DEF SameMessage
    <2>2. CASE down[i].type = "ack" /\ e[i].type = "ack"
      BY <2>2 DEF SameMessage, OfMessage
    <2> QED
      BY <1>5, <2>1, <2>2
  <1>7. \A i \in 1..Len(asked) : OfAsk(B[i], store.epoch) = OfAsk(asked[i], store.epoch)
    BY <1>4 DEF OfAsk
  <1>8. L = M
    BY <1>4, <1>5, <1>6, <1>7 DEF Line
  <1>9. Run(catchUp, L, store.epoch, Live) /\ Reached(catchUp, L, timeline) /\ catchUp \in CatchUps
    BY <1>1 DEF CaughtUp, Run
  <1> HIDE DEF L, M
  <1>10. Alike(catchUp, g) /\ g.sent = catchUp.sent
    BY <1>9 DEF Alike, CatchUps
  <1> HIDE DEF g
  <1>11. /\ PagesLead(e, store) /\ PastPages(e, stream) /\ Brought(e) = Brought(down)
         /\ Noticed(down, 0) => Noticed(e, 0)
    <2>1. PagesLead(down, store) /\ PastPages(down, stream)
      BY <1>1 DEF CaughtUp
    <2>2. DOMAIN e = DOMAIN down /\ \A i \in DOMAIN down : SameMessage(down[i], e[i])
      BY <1>1, <1>5, <1>6
    <2> QED
      BY <2>1, <2>2, PagesMarked
  <1>12. /\ LatestOK(timeline, catchUp, forced, store, stream, e) /\ Missed(timeline, catchUp, store, stream, e)
         /\ TailPlanned(timeline, cached, catchUp)
    BY <1>1, <1>11, RowsStay DEF CaughtUp
  <1>13. /\ Run(g, M, store.epoch, Live) /\ Reached(g, M, timeline)
         /\ TailPlanned(timeline, cached, g)
         /\ LatestOK(timeline, g, forced, store, stream, e) /\ Missed(timeline, g, store, stream, e)
    BY <1>8, <1>9, <1>10, <1>12, AlikeRun
  <1>14. CaughtUp(timeline, cached, g, B, forced, store, stream, e, Live)
    BY <1>1, <1>10, <1>11, <1>13 DEF CaughtUp, M
  <1>15. Relayed(connected, subscribed, "failed", B, e)
    <2>1. ~subscribed => e = <<>>
      BY <1>1, <1>5 DEF Relayed
    <2>2. DOMAIN B = DOMAIN asked /\ DOMAIN asked = 1..Len(asked)
      BY <1>1, <1>4
    <2>3. ~subscribed => \A i \in DOMAIN B : B[i].request = Subscribe
      BY <1>1, <1>4, <2>2 DEF Relayed
    <2>4. \A i \in DOMAIN B : B[i].request = Subscribe => ~B[i].waited
      BY <1>1, GivenUpTypes, <2>2 DEF B
    <2>5. \A i \in DOMAIN e : e[i].type = "ack" => ~e[i].waited
      BY <1>1, <1>5
    <2> QED
      BY <1>3, <2>1, <2>3, <2>4, <2>5 DEF Relayed
  <1>16. Live' = Live
    BY <1>1, <1>3 DEF Live
  <1>17. CaughtUp(timeline, cached, g, B, forced, store, stream, e, Live')
    BY <1>14, <1>16
  <1> QED
    BY <1>2, <1>15, <1>17 DEF Inv2

\* Catch-up b is c without those who waited for request r, for which nobody waits in line M.
Drops(c, b, r) ==
  /\ b \in CatchUps /\ b.fetches = { g \in c.fetches : g.request # r }
  /\ b.status = c.status /\ b.request = c.request /\ b.cache = c.cache
Unwaited(M, r) == \A i \in DOMAIN M : M[i].request = r => ~M[i].waited
Orphan(b, M, ep, live) == Run(b, M, ep, live) /\ Owned(b) = {} /\ ~HasLatest(b) /\ b.status = "running"

\* Those who waited for the request of f, which owned the catch-up, wait no more.
LEMMA GivenUpRun ==
  ASSUME NEW c, NEW L, NEW M \in Lines, NEW ep, NEW live, Run(c, L, ep, live), NEW f \in c.fetches, f.owner,
         Thinner(L, M, Owned(c), ep, ep), Unwaited(M, f.request), NEW b, Drops(c, b, f.request)
  PROVE  Orphan(b, M, ep, live)
  <1>1. /\ LineOK(M, Owned(c), Wanted(c)) /\ Older(M, ep) /\ Modes(c, live) /\ OneOwner(c.fetches)
    BY DEF Run, Thinner
  <1> USE DEF Drops, Unwaited
  <1>2. Owned(c) = {f.request} /\ \A g \in c.fetches : g.owner => g = f
    BY <1>1 DEF Owned, OneOwner
  <1>3. Owned(b) = {} /\ Wanted(b) = Wanted(c) \ {f.request} /\ \A g \in b.fetches : ~g.owner
    BY <1>2 DEF Owned, Wanted
  <1>4. ~HasLatest(b) /\ c.status = "running"
    BY <1>1, <1>2 DEF HasLatest, Modes
  <1>5. LineOK(M, {}, Wanted(b))
    <2>1. \A i \in DOMAIN M : EntryOK(M[i], {}, Wanted(b))
      BY <1>1, <1>2, <1>3 DEF LineOK, EntryOK
    <2>2. \A i, j \in DOMAIN M : i < j => PairOK(M[i], M[j], {})
      BY <1>1 DEF LineOK, PairOK
    <2> QED
      BY <2>1, <2>2 DEF LineOK
  <1>6. Modes(b, live) /\ OneOwner(b.fetches)
    BY <1>1, <1>3 DEF Modes, OneOwner
  <1>7. Quiet(b, M)
    BY <1>4 DEF Quiet
  <1> QED
    BY <1>1, <1>3, <1>4, <1>5, <1>6, <1>7 DEF Run, Orphan

\* Those who waited for a request that does not own the catch-up, and is no tail, wait no more.
LEMMA AbandonedRun ==
  ASSUME NEW c, NEW L, NEW M \in Lines, NEW ep, NEW live, Run(c, L, ep, live), NEW r, r # TailFetch,
         \A f \in c.fetches : f.request = r => ~f.owner,
         Thinner(L, M, Owned(c), ep, ep), SameTails(L, M), Unwaited(M, r), NEW b, Drops(c, b, r)
  PROVE  /\ Run(b, M, ep, live) /\ (TailFetch \in Wanted(b) <=> TailFetch \in Wanted(c))
         /\ (HasLatest(b) <=> HasLatest(c)) /\ (OwnsTail(b) <=> OwnsTail(c))
  <1>1. /\ LineOK(M, Owned(c), Wanted(c)) /\ Older(M, ep) /\ Modes(c, live) /\ OneOwner(c.fetches)
        /\ Quiet(c, L) /\ (Harmless(L) => Harmless(M)) /\ (TailsAwaited(L) => TailsAwaited(M))
    BY TailsSame DEF Run, Thinner
  <1> USE DEF Drops, Unwaited
  <1>2. /\ b.fetches \subseteq c.fetches /\ \A f \in c.fetches : f \in b.fetches \/ f.request = r
        /\ \A f \in b.fetches : f.request # r
    OBVIOUS
  <1>3. Owned(b) = Owned(c) /\ \A q : q \in Wanted(c) => q \in Wanted(b) \/ q = r
    BY <1>2 DEF Owned, Wanted
  <1>4. Wanted(b) \subseteq Wanted(c)
    BY <1>2 DEF Wanted
  <1>5. HasLatest(b) <=> HasLatest(c)
    BY <1>1, <1>2 DEF HasLatest, Modes
  <1>6. OwnsTail(b) <=> OwnsTail(c)
    BY <1>2 DEF OwnsTail
  <1>7. LineOK(M, Owned(b), Wanted(b))
    <2>1. \A i \in DOMAIN M : EntryOK(M[i], Owned(b), Wanted(b))
      BY <1>1, <1>3 DEF LineOK, EntryOK
    <2> QED
      BY <1>1, <1>3, <2>1 DEF LineOK
  <1>8. Modes(b, live) /\ OneOwner(b.fetches)
    BY <1>1, <1>2 DEF Modes, OneOwner
  <1>9. Quiet(b, M)
    BY <1>1, <1>5 DEF Quiet
  <1> QED
    BY <1>1, <1>3, <1>4, <1>5, <1>6, <1>7, <1>8, <1>9 DEF Run

\* What the line and the messages become when request r is given up, and what is relayed.
Abandons(r, B, e, L, M) ==
  /\ M \in Lines /\ Thinner(L, M, Owned(catchUp), store.epoch, store.epoch)
  /\ Unwaited(M, r) /\ (r # TailFetch => SameTails(L, M))
  /\ PagesLead(e, store) /\ PastPages(e, stream) /\ Brought(e) = Brought(down)
  /\ Noticed(down, 0) => Noticed(e, 0)
  /\ Relayed(connected, subscribed, subscription, B, e)
\* A tail that is given up is the owner's.
LEMMA GivenUpLine ==
  ASSUME Inv, Inv2, NEW r \in Requests, r = TailFetch => TailFetch \in Owned(catchUp),
         NEW B, B = GivenUp(r), NEW e, e = Unawaited(r)
  PROVE  Abandons(r, B, e, Line(down, asked, store.epoch), Line(e, B, store.epoch))
  <1> DEFINE L == Line(down, asked, store.epoch)
             M == Line(e, B, store.epoch)
             O == Owned(catchUp)
  <1>1. /\ Relayed(connected, subscribed, subscription, asked, down)
        /\ CaughtUp(timeline, cached, catchUp, asked, forced, store, stream, down, Live)
        /\ down \in Seq(Messages) /\ asked \in Seq(Asks) /\ store.epoch \in Nat /\ store \in Stores
    BY Inv2Facts
  <1>5. r # Subscribe
    BY SomeRequests DEF Requests, Subscribe, Request, TailFetch
  <1>8. /\ B \in Seq(Asks) /\ Len(B) = Len(asked)
        /\ \A i \in 1..Len(asked) : /\ B[i].request = asked[i].request
                                    /\ B[i].waited <=> asked[i].waited /\ asked[i].request # r
    BY <1>1, GivenUpTypes
  <1>9. /\ e \in Seq(Messages) /\ DOMAIN e = DOMAIN down
        /\ \A i \in DOMAIN down :
             /\ SameMessage(down[i], e[i])
             /\ down[i].type # "page" => e[i] = down[i]
             /\ down[i].type = "page" => (e[i].waited <=> down[i].waited /\ down[i].page.request # r)
    BY <1>1, GivenUpTypes
  <1>10. Len(e) = Len(down) /\ DOMAIN down = 1..Len(down) /\ DOMAIN B = DOMAIN asked /\ DOMAIN asked = 1..Len(asked)
    BY <1>1, <1>8, <1>9
  <1> HIDE DEF O
  \* What becomes of an entry.
  <1> DEFINE Dropped(x, y) == /\ Lighter(x, y, store.epoch, O)
                              /\ x.request = r => ~x.waited
                              /\ x.request # r => (y.waited => x.waited)
  <1>6. ASSUME NEW q, NEW v, NEW w, NEW b, NEW z, v <=> w /\ q # r
        PROVE  Dropped(Entry(q, v, b, z), Entry(q, w, b, z))
    <2> DEFINE x == Entry(q, v, b, z)
               y == Entry(q, w, b, z)
    <2>1. /\ x.request = q /\ x.waited = v /\ x.failed = b /\ x.extends = z
          /\ y.request = q /\ y.waited = w /\ y.failed = b /\ y.extends = z
      BY DEF Entry
    <2>2. x.request = q /\ y.request = q /\ (x.waited <=> y.waited /\ q # r)
          /\ (x.failed <=> y.failed) /\ (x.extends <=> y.extends)
      BY <1>6, <2>1
    <2>3. q = TailFetch /\ y.waited /\ ((x.failed /\ ~y.failed) \/ ~x.waited) => TailFetch \in O
      BY <2>2 DEF O
    <2>4. Dropped(x, y)
      <3> HIDE DEF x, y
      <3> QED
        BY ONLY <2>2, <2>3 DEF Lighter
    <2> QED
      BY <2>4
  <1>7. Dropped(Nothing, Nothing)
    BY NothingDoes DEF Lighter
  <1>11. ASSUME NEW i \in 1..Len(down) PROVE Dropped(OfMessage(e[i]), OfMessage(down[i]))
    <2> HIDE DEF Dropped
    <2>1. SameMessage(down[i], e[i]) /\ i \in DOMAIN down
      BY <1>9, <1>10
    <2>2. CASE down[i].type # "page"
      <3>1. OfMessage(e[i]) = Nothing /\ OfMessage(down[i]) = Nothing
        BY <2>1, <2>2 DEF OfMessage, SameMessage
      <3> QED
        BY <1>7, <3>1
    <2>3. CASE down[i].type = "page"
      <3>1. /\ OfMessage(e[i]) = Entry(down[i].page.request, e[i].waited, down[i].page.error, Extends(down[i].page))
            /\ OfMessage(down[i]) = Entry(down[i].page.request, down[i].waited, down[i].page.error, Extends(down[i].page))
        BY <2>1, <2>3 DEF OfMessage, SameMessage
      <3>2. e[i].waited <=> down[i].waited /\ down[i].page.request # r
        BY <1>9, <2>1, <2>3
      <3> QED
        BY <1>6, <3>1, <3>2
    <2> QED
      BY <2>2, <2>3
  <1>12. ASSUME NEW i \in 1..Len(asked)
         PROVE  Dropped(OfAsk(B[i], store.epoch), OfAsk(asked[i], store.epoch))
    <2> HIDE DEF Dropped
    <2>1. B[i].request = asked[i].request /\ (B[i].waited <=> asked[i].waited /\ asked[i].request # r)
      BY <1>8
    <2>2. CASE asked[i].request = Subscribe
      <3>1. OfAsk(B[i], store.epoch) = Nothing /\ OfAsk(asked[i], store.epoch) = Nothing
        BY <2>1, <2>2 DEF OfAsk
      <3> QED
        BY <1>7, <3>1
    <2>3. CASE asked[i].request # Subscribe
      <3> DEFINE q == asked[i].request
                 z == q.dir = "after" /\ q.epoch = store.epoch
      <3>1. /\ OfAsk(B[i], store.epoch) = Entry(q, B[i].waited, FALSE, z)
            /\ OfAsk(asked[i], store.epoch) = Entry(q, asked[i].waited, FALSE, z)
        BY <2>1, <2>3 DEF OfAsk
      <3> HIDE DEF q, z
      <3>2. B[i].waited <=> asked[i].waited /\ q # r
        BY <2>1 DEF q
      <3> QED
        BY <1>6, <3>1, <3>2
    <2> QED
      BY <2>2, <2>3
  <1>13. /\ Thinner(L, M, O, store.epoch, store.epoch)
         /\ \A i \in DOMAIN M :
              \/ \E j \in 1..Len(down) : M[i] = OfMessage(e[j]) /\ i \in DOMAIN L /\ L[i] = OfMessage(down[j])
              \/ \E j \in 1..Len(asked) : /\ M[i] = OfAsk(B[j], store.epoch)
                                          /\ i \in DOMAIN L /\ L[i] = OfAsk(asked[j], store.epoch)
    <2>1. /\ \A i \in 1..Len(down) : Lighter(OfMessage(e[i]), OfMessage(down[i]), store.epoch, O)
          /\ \A i \in 1..Len(asked) :
               Lighter(OfAsk(B[i], store.epoch), OfAsk(asked[i], store.epoch), store.epoch, O)
      BY <1>11, <1>12
    <2>2. /\ down \in Seq(Messages) /\ e \in Seq(Messages) /\ Len(e) = Len(down) /\ store.epoch \in Nat
          /\ asked \in Seq(Asks) /\ B \in Seq(Asks) /\ Len(B) = Len(asked)
      BY <1>1, <1>8, <1>9, <1>10
    <2> DEFINE n == store.epoch
    <2> HIDE DEF n
    <2>3. /\ Thinner(Line(down, asked, n), Line(e, B, n), O, n, n)
          /\ \A i \in DOMAIN Line(e, B, n) :
               \/ \E j \in 1..Len(down) : /\ Line(e, B, n)[i] = OfMessage(e[j])
                                          /\ i \in DOMAIN Line(down, asked, n) /\ Line(down, asked, n)[i] = OfMessage(down[j])
               \/ \E j \in 1..Len(asked) : /\ Line(e, B, n)[i] = OfAsk(B[j], n)
                                           /\ i \in DOMAIN Line(down, asked, n) /\ Line(down, asked, n)[i] = OfAsk(asked[j], n)
      <3>1. /\ \A i \in 1..Len(down) : Lighter(OfMessage(e[i]), OfMessage(down[i]), n, O)
            /\ \A i \in 1..Len(asked) : Lighter(OfAsk(B[i], n), OfAsk(asked[i], n), n, O)
            /\ n \in Nat
        BY <2>1, <2>2 DEF n
      <3> QED
        BY ONLY <2>2, <3>1, LineMarks
    <2> QED
      BY <2>3 DEF n
  <1>14. M \in Lines
    BY <1>1, <1>8, <1>9, LineMade
  <1> HIDE DEF L, M
  <1>15. \A i \in DOMAIN M : i \in DOMAIN L /\ Dropped(M[i], L[i])
    <2> HIDE DEF Dropped
    <2> QED
      BY <1>11, <1>12, <1>13
  <1>16. Unwaited(M, r)
    BY <1>15 DEF Unwaited
  <1>17. r # TailFetch => SameTails(L, M)
    <2> SUFFICES ASSUME r # TailFetch, NEW i \in DOMAIN M, M[i].request = TailFetch, ~M[i].waited
                 PROVE  \E j \in DOMAIN L : L[j].request = TailFetch /\ ~L[j].waited
      BY DEF SameTails
    <2>1. i \in DOMAIN L /\ L[i].request = TailFetch /\ ~L[i].waited
      BY <1>15 DEF Lighter
    <2> QED
      BY <2>1
  <1>19. /\ PagesLead(e, store) /\ PastPages(e, stream) /\ Brought(e) = Brought(down)
         /\ Noticed(down, 0) => Noticed(e, 0)
    <2>1. PagesLead(down, store) /\ PastPages(down, stream)
      BY <1>1 DEF CaughtUp
    <2>2. DOMAIN e = DOMAIN down /\ \A i \in DOMAIN down : SameMessage(down[i], e[i])
      BY <1>9
    <2> QED
      BY <2>1, <2>2, PagesMarked
  <1>21. Relayed(connected, subscribed, subscription, B, e)
    <2>1. ~subscribed => e = <<>>
      BY <1>1, <1>9, <1>10 DEF Relayed
    <2>2. ~connected => B = <<>>
      <3>1. asked = <<>> => Len(B) = 0
        BY <1>8
      <3>2. Len(B) = 0 => B = <<>>
        BY <1>8
      <3> QED
        BY <1>1, <3>1, <3>2 DEF Relayed
    <2>3. ~subscribed => \A i \in DOMAIN B : B[i].request = Subscribe
      BY <1>1, <1>8, <1>10 DEF Relayed
    <2>4. \A i \in DOMAIN B : B[i].request = Subscribe /\ B[i].waited => subscription = "asked"
      BY <1>1, <1>8, <1>10 DEF Relayed
    <2>5. \A i \in DOMAIN e : e[i].type = "ack" /\ e[i].waited => subscription = "asked"
      BY <1>1, <1>9 DEF Relayed, SameMessage
    <2> QED
      BY <1>1, <2>1, <2>2, <2>3, <2>4, <2>5 DEF Relayed
  <1> QED
    BY <1>13, <1>14, <1>16, <1>17, <1>19, <1>21 DEF Abandons, L, M, O

\* A request is given up, to be tried again.
LEMMA FetchTimesOutCaught ==
  ASSUME Inv, Inv2, FetchTimesOut, ~lapsed'
  PROVE  Inv2'
  <1>1. /\ Relayed(connected, subscribed, subscription, asked, down)
        /\ CaughtUp(timeline, cached, catchUp, asked, forced, store, stream, down, Live)
        /\ down \in Seq(Messages) /\ asked \in Seq(Asks) /\ store.epoch \in Nat /\ store \in Stores
        /\ Live \in BOOLEAN
    BY Inv2Facts
  <1> DEFINE V(r) == { g \in catchUp.fetches : g.request = r }
             rest(r) == [catchUp EXCEPT !.fetches = @ \ V(r)]
  <1>2. PICK r \in { f.request : f \in catchUp.fetches } :
          /\ \/ \E owner \in V(r) : owner.owner /\ catchUp' = Failed(rest(r), owner)
             \/ (\A f \in V(r) : ~f.owner) /\ catchUp' = rest(r)
          /\ lapsed' = (lapsed \/ NobodyRetries(r))
          /\ asked' = GivenUp(r) /\ down' = Unawaited(r)
          /\ (\A f \in V(r) : f.kind # "latest") => forced' = (forced /\ TRUE)
    <2> HIDE DEF rest
    <2>1. PICK r \in { f.request : f \in catchUp.fetches } :
            /\ \/ \E owner \in V(r) : owner.owner /\ catchUp' = Failed(rest(r), owner)
               \/ (\A f \in V(r) : ~f.owner) /\ catchUp' = rest(r)
            /\ lapsed' = (lapsed \/ NobodyRetries(r))
            /\ asked' = GivenUp(r) /\ down' = Unawaited(r)
            /\ forced' = (forced /\ \A f \in V(r) : f.kind # "latest")
      BY DEF FetchTimesOut, rest
    <2> QED
      BY <2>1
  <1>3. /\ UNCHANGED <<subscribed, connected, subscription, store, cached, stream>>
        /\ timeline'.range = timeline.range /\ timeline'.synced = timeline.synced /\ timeline'.newer = timeline.newer
        /\ timeline'.init \in {timeline.init, "none"}
    <2>1. timeline \in Timelines
      BY InvFacts
    <2>2. timeline' \in {timeline, [timeline EXCEPT !.init = "none"]}
      BY DEF FetchTimesOut
    <2>3. UNCHANGED <<subscribed, connected, subscription, store, cached, stream>>
      BY DEF FetchTimesOut, server
    <2> QED
      BY <2>1, <2>2, <2>3 DEF Timelines
  <1> DEFINE B == GivenUp(r)
             e == Unawaited(r)
             b == rest(r)
             L == Line(down, asked, store.epoch)
             M == Line(e, B, store.epoch)
  <1>4. catchUp \in CatchUps /\ catchUp.sent = <<>> /\ Run(catchUp, L, store.epoch, Live) /\ Reached(catchUp, L, timeline)
    BY <1>1 DEF CaughtUp, Run
  <1>5. r \in Requests
    <2>1. catchUp.fetches \subseteq Fetches
      BY <1>4 DEF CatchUps
    <2> QED
      BY <2>1 DEF Fetches
  <1>6. r = TailFetch => TailFetch \in Owned(catchUp)
    <2>1. ~NobodyRetries(r)
      BY <1>2
    <2> QED
      BY <2>1 DEF NobodyRetries, Owned
  <1>7. Abandons(r, B, e, L, M)
    BY <1>5, <1>6, GivenUpLine
  <1>8. /\ Drops(catchUp, b, r) /\ b.pending = catchUp.pending /\ b.sent = catchUp.sent
    <2>1. catchUp.fetches \ V(r) = { g \in catchUp.fetches : g.request # r }
      OBVIOUS
    <2>2. catchUp.fetches \ V(r) \subseteq Fetches
      BY <1>4 DEF CatchUps
    <2> DEFINE W == catchUp.fetches \ V(r)
    <2>3. b = [catchUp EXCEPT !.fetches = W]
      OBVIOUS
    <2> HIDE DEF W, b
    <2>4. /\ b \in CatchUps /\ b.fetches = W /\ b.status = catchUp.status /\ b.request = catchUp.request
          /\ b.cache = catchUp.cache /\ b.pending = catchUp.pending /\ b.sent = catchUp.sent
      BY <1>4, <2>2, <2>3 DEF CatchUps, W
    <2> QED
      BY <2>1, <2>4 DEF Drops, W
  <1>9. Live' = Live
    BY <1>3 DEF Live
  <1>10. asked' = B /\ down' = e
    BY <1>2
  <1> DEFINE g == catchUp'
  <1>11. CASE \E owner \in V(r) : owner.owner /\ g = Failed(b, owner)
    <2>1. PICK f \in catchUp.fetches : f.request = r /\ f.owner /\ g = Failed(b, f)
      BY <1>11
    <2> HIDE DEF B, e, b, L, M, g
    <2>2. Orphan(b, M, store.epoch, Live)
      <3>1. /\ M \in Lines /\ Thinner(L, M, Owned(catchUp), store.epoch, store.epoch) /\ Unwaited(M, f.request)
            /\ Drops(catchUp, b, f.request)
        BY <1>7, <1>8, <2>1 DEF Abandons
      <3> QED
        BY ONLY <1>4, <2>1, <3>1, GivenUpRun
    <2>3. Resting(b, g, M, store.epoch, Live) /\ g.status = "error"
      <3>1. f \in Fetches /\ Run(b, M, store.epoch, Live) /\ Owned(b) = {} /\ ~HasLatest(b) /\ b.status = "running"
        BY <1>4, <2>2 DEF Orphan, CatchUps
      <3> QED
        BY <2>1, <3>1, FailedRun
    <2>4. /\ Run(g, M, store.epoch, Live) /\ ~HasLatest(g) /\ ~OwnsTail(g) /\ g.sent = <<>> /\ g.pending = catchUp.pending
      BY <1>4, <1>8, <2>3 DEF Resting
    <2>5. Reached(g, M, timeline')
      <3>1. \A p : Bounded(L, p) => Bounded(M, p)
        BY <1>7 DEF Abandons, Thinner
      <3> QED
        BY <1>3, <1>4, <2>4, <3>1 DEF Reached, Within, Has
    <2>6. CaughtUp(timeline', cached, g, B, forced', store, stream, e, Live)
      BY <1>7, <2>3, <2>4, <2>5 DEF CaughtUp, M, TailPlanned, LatestOK, Missed, Abandons
    <2> QED
      BY <1>3, <1>7, <1>9, <1>10, <2>6 DEF Inv2, g, Abandons
  <1>12. CASE (\A f \in V(r) : ~f.owner) /\ g = b
    <2>1. (\A f \in catchUp.fetches : f.request = r => ~f.owner) /\ r # TailFetch
      BY <1>6, <1>12 DEF Owned
    <2>2. forced => forced'
      <3>1. \A f \in V(r) : f.kind # "latest"
        BY <1>4, <2>1 DEF Run, Modes
      <3> QED
        BY <1>2, <3>1
    <2> HIDE DEF B, e, b, L, M, g
    <2>3. /\ Run(b, M, store.epoch, Live) /\ (TailFetch \in Wanted(b) <=> TailFetch \in Wanted(catchUp))
          /\ (HasLatest(b) <=> HasLatest(catchUp)) /\ (OwnsTail(b) <=> OwnsTail(catchUp))
      <3>1. /\ M \in Lines /\ Thinner(L, M, Owned(catchUp), store.epoch, store.epoch) /\ Unwaited(M, r)
            /\ SameTails(L, M) /\ Drops(catchUp, b, r)
        BY <1>7, <1>8, <2>1 DEF Abandons
      <3> QED
        BY ONLY <1>4, <2>1, <3>1, AbandonedRun
    <2>4. Reached(b, M, timeline')
      <3>1. \A p : Bounded(L, p) => Bounded(M, p)
        BY <1>7 DEF Abandons, Thinner
      <3> QED
        BY <1>3, <1>4, <1>8, <3>1 DEF Reached, Within, Has
    <2>5. /\ LatestOK(timeline, catchUp, forced, store, stream, e) /\ Missed(timeline, catchUp, store, stream, e)
          /\ TailPlanned(timeline, cached, catchUp)
      BY <1>1, <1>7, RowsStay DEF CaughtUp, Abandons
    <2>6. LatestOK(timeline', b, forced', store, stream, e)
      BY <1>3, <2>2, <2>3, <2>5 DEF LatestOK
    <2>7. Missed(timeline', b, store, stream, e) /\ TailPlanned(timeline', cached, b)
      BY <1>3, <1>8, <2>3, <2>5 DEF Missed, TailPlanned, Drops
    <2>8. CaughtUp(timeline', cached, b, B, forced', store, stream, e, Live)
      BY <1>4, <1>7, <1>8, <2>3, <2>4, <2>6, <2>7 DEF CaughtUp, M, Abandons
    <2> QED
      BY <1>3, <1>7, <1>9, <1>10, <1>12, <2>8 DEF Inv2, g, Abandons
  <1> QED
    BY <1>2, <1>11, <1>12

-----------------------------------------------------------------------------
(* A catch-up is started. *)

\* What is asked for by whoever resumes, or by what is parked.
NextOf(request, t, k) == IF request # NoRequest THEN request ELSE ResumeFetch(ReadCursor(t, k))
\* Whoever resumes asks from where the cursor is, or what was parked.
LEMMA ResumeAsks ==
  ASSUME NEW t, NEW k, NEW c, NEW A, NEW span, NEW st, NEW s, NEW d,
         ClientInv(t, k, c, A, span, st, s, d), NEW request, request = NoRequest \/ request = c.pending
  PROVE  /\ Asking(request, NextOf(request, t, k), ReadCursor(t, k), st.epoch)
         /\ NextOf(request, t, k) = TailFetch => k = NoSpan
         /\ request = NoRequest /\ Has(t) => /\ NextOf(request, t, k).dir = "after"
                                             /\ Position(NextOf(request, t, k)) = EndOf(t.range)
         /\ request = NoRequest /\ ~Has(t) => /\ k = NoSpan => NextOf(request, t, k) = TailFetch
                                              /\ k # NoSpan => /\ ~t.synced
                                                               /\ NextOf(request, t, k) = CatchUpAfter(k.epoch, k.to)
  <1> DEFINE J == Jobs(t, k, st, s, d)
             P == Pendings(t, k, st, s, d)
             range == ReadCursor(t, k)
             next == NextOf(request, t, k)
  <1>1. CatchUpIn(c, J, P) /\ ClientOK(t, k, st, s, d)
    BY DEF ClientInv
  <1>2. request \in P
    BY <1>1, JobsAllowed DEF Allowed, CatchUpIn
  <1>3. StartsIn(request, range, J, P)
    BY <1>1, <1>2, ResumeStarts
  <1>4. request \in Requests \union {NoRequest} /\ request # TailFetch
        /\ RequestOK(request, t, k, st, s, d)
    BY <1>2 DEF Pendings
  <1>5. request # NoRequest => request \in Requests /\ request.dir = "after"
    BY <1>4, RequestKinds
  <1>6. next \in Requests /\ RequestOK(next, t, k, st, s, d)
    <2>1. CASE request # NoRequest
      BY <1>4, <1>5, <2>1 DEF NextOf
    <2>2. CASE request = NoRequest
      <3> DEFINE r == ResumeFetch(range)
      <3>1. Fetch("page", r, TRUE, r.dir = "after") \in J
        BY <1>3, <2>2 DEF StartsIn
      <3>2. next = r
        BY <2>2 DEF NextOf
      <3> HIDE DEF r
      <3>3. r \in Requests /\ RequestOK(r, t, k, st, s, d)
        BY <3>1 DEF Jobs, Fetches, Fetch
      <3> QED
        BY <3>2, <3>3
    <2> QED
      BY <2>1, <2>2
  <1>7. next.dir = "after" => next.epoch <= st.epoch
    BY <1>6, AsksUpTo
  <1>8. Asking(request, next, range, st.epoch)
    BY <1>4, <1>5, <1>6, <1>7 DEF Asking, NextOf
  <1>9. k # NoSpan => ~t.synced
    BY <1>1, EndsBehind
  <1>10. \A x : x # NoSpan => ResumeFetch(x) = CatchUpAfter(x.epoch, x.to) /\ ResumeFetch(x) # TailFetch
    BY DEF ResumeFetch, CatchUpAfter, TailFetch, Request
  <1>11. next = TailFetch => k = NoSpan
    BY <1>4, <1>10 DEF NextOf, ReadCursor
  <1>12. request = NoRequest /\ Has(t) => next.dir = "after" /\ Position(next) = EndOf(t.range)
    <2> SUFFICES ASSUME request = NoRequest, Has(t) PROVE next.dir = "after" /\ Position(next) = EndOf(t.range)
      OBVIOUS
    <2>1. range = t.range /\ t.range # NoSpan
      BY <1>9 DEF Has, ReadCursor
    <2>2. next = CatchUpAfter(t.range.epoch, t.range.to)
      BY <1>10, <2>1 DEF NextOf
    <2> QED
      BY <2>2 DEF CatchUpAfter, Request, Position, EndOf
  <1>13. request = NoRequest /\ ~Has(t) => /\ k = NoSpan => next = TailFetch
                                           /\ k # NoSpan => ~t.synced /\ next = CatchUpAfter(k.epoch, k.to)
    <2>1. k # NoSpan => range = k
      BY DEF ReadCursor
    <2>2. ~Has(t) /\ k = NoSpan => range = NoSpan
      BY DEF ReadCursor, Has
    <2>3. ResumeFetch(NoSpan) = TailFetch
      BY DEF ResumeFetch
    <2> QED
      BY <1>9, <1>10, <2>1, <2>2, <2>3 DEF NextOf
  <1> QED
    BY <1>8, <1>11, <1>12, <1>13

\* Whoever resumes may start: nothing on its way goes past what is held.
LEMMA ResumeStartable ==
  ASSUME NEW t, NEW k, NEW c, NEW A, NEW span, NEW st, NEW s, NEW d,
         ClientInv(t, k, c, A, span, st, s, d), NEW L, L = Line(d, A, st.epoch), Reached(c, L, t)
  PROVE  Startable(L, NextOf(NoRequest, t, k))
  <1> DEFINE next == NextOf(NoRequest, t, k)
  <1>1. /\ next = TailFetch => k = NoSpan
        /\ Has(t) => next.dir = "after" /\ Position(next) = EndOf(t.range)
        /\ ~Has(t) => /\ k = NoSpan => next = TailFetch
                      /\ k # NoSpan => ~t.synced /\ next = CatchUpAfter(k.epoch, k.to)
    BY ResumeAsks
  <1> HIDE DEF next
  <1>2. /\ d \in Seq(Messages) /\ A \in Seq(Asks) /\ st \in Stores /\ st.epoch \in Nat
        /\ AnswersOK(d, t, k) /\ AskedOK(A, t, k, st, s, d)
    BY AsksUpTo DEF ClientInv
  \* What an entry that is not failed asks for.
  <1>3. ASSUME NEW i \in DOMAIN L, L[i].request.dir = "after", ~L[i].failed
        PROVE  /\ ~t.synced => k # NoSpan /\ L[i].request = CatchUpAfter(k.epoch, k.to)
               /\ Empty(t) => ~L[i].extends
    <2>1. CASE i \in 1..Len(d) /\ d[i] \in Messages /\ L[i] = OfMessage(d[i])
      <3>1. d[i].type = "page"
        BY <1>3, <2>1, NothingDoes DEF OfMessage
      <3>2. L[i] = Entry(d[i].page.request, d[i].waited, d[i].page.error, Extends(d[i].page))
        BY <2>1, <3>1 DEF OfMessage
      <3>3. AnswerOK(d[i].page, t, k)
        BY <1>2, <2>1, <3>1 DEF AnswersOK
      <3> DEFINE page == d[i].page
      <3>4. L[i].request = page.request /\ L[i].failed = page.error /\ L[i].extends = Extends(page)
        BY <3>2 DEF Entry
      <3> HIDE DEF page
      <3>5. page.request.dir = "after" /\ ~page.error /\ page.dir = page.request.dir
        BY <1>3, <3>3, <3>4 DEF AnswerOK, Shaped, page
      <3>6. /\ ~t.synced => k # NoSpan /\ page.request = CatchUpAfter(k.epoch, k.to)
            /\ Empty(t) => page.reset
        BY <3>3, <3>5 DEF AnswerOK, page
      <3>7. Empty(t) => ~Extends(page)
        BY <3>6 DEF Extends
      <3> QED
        BY <3>4, <3>6, <3>7
    <2>2. CASE i - Len(d) \in 1..Len(A) /\ A[i - Len(d)] \in Asks /\ L[i] = OfAsk(A[i - Len(d)], st.epoch)
      <3> DEFINE a == A[i - Len(d)]
      <3>1. a.request # Subscribe
        BY <1>3, <2>2, NothingDoes DEF OfAsk
      <3>2. L[i] = Entry(a.request, a.waited, FALSE, a.request.dir = "after" /\ a.request.epoch = st.epoch)
        BY <2>2, <3>1 DEF OfAsk
      <3>3. RequestOK(a.request, t, k, st, s, d) /\ a.request \in Requests
        BY <1>2, <2>2, <3>1 DEF AskedOK, Asks
      <3> HIDE DEF a
      <3>4. a.request.epoch \in Nat
        BY <3>3, RequestKinds
      <3>5. /\ L[i].request = a.request
            /\ L[i].extends = (a.request.dir = "after" /\ a.request.epoch = st.epoch)
        BY <3>2 DEF Entry
      <3>6. /\ ~t.synced => k # NoSpan /\ a.request = CatchUpAfter(k.epoch, k.to)
            /\ Empty(t) => a.request.epoch < st.epoch
        BY <1>3, <3>3, <3>5 DEF RequestOK
      <3>7. Empty(t) => ~(a.request.dir = "after" /\ a.request.epoch = st.epoch)
        BY <1>2, <3>4, <3>6
      <3>8. Empty(t) => ~L[i].extends
        BY <3>5, <3>7
      <3>9. ~t.synced => k # NoSpan /\ L[i].request = CatchUpAfter(k.epoch, k.to)
        BY <3>5, <3>6
      <3> QED
        BY <3>8, <3>9
    <2>3. i \in DOMAIN Line(d, A, st.epoch)
      BY <1>3
    <2>4. \/ i \in 1..Len(d) /\ d[i] \in Messages /\ L[i] = OfMessage(d[i])
          \/ i - Len(d) \in 1..Len(A) /\ A[i - Len(d)] \in Asks /\ L[i] = OfAsk(A[i - Len(d)], st.epoch)
      BY <1>2, <2>3, LinePlaces
    <2> QED
      BY <2>1, <2>2, <2>4
  <1>4. ASSUME Has(t)
        PROVE  Startable(L, next)
    BY <1>1, <1>4 DEF Reached, Within, Startable
  <1>5. ASSUME ~Has(t), k = NoSpan
        PROVE  Startable(L, next)
    <2>1. \A i \in DOMAIN L : ~L[i].extends
      <3> TAKE i \in DOMAIN L
      <3>1. L \in Lines
        BY <1>2, LineMade
      <3>2. L[i].extends => L[i].request.dir = "after" /\ ~L[i].failed
        BY <3>1, LineEntries
      <3> QED
        BY <1>3, <1>5, <3>2 DEF Has, Empty
    <2> QED
      BY <2>1 DEF Harmless, Startable
  <1>6. ASSUME ~Has(t), k # NoSpan
        PROVE  Startable(L, next)
    <2>1. ~t.synced /\ next = CatchUpAfter(k.epoch, k.to)
      BY <1>1, <1>6
    <2>2. next.dir = "after"
      BY <2>1 DEF CatchUpAfter, Request
    <2>3. UpTo(Position(next), Position(next))
      <3>1. ClientOK(t, k, st, s, d)
        BY DEF ClientInv
      <3>2. EndOf(k) \in Points
        BY <3>1, PointTypes DEF ClientOK
      <3>3. Position(next) = EndOf(k)
        BY <2>1 DEF CatchUpAfter, Request, Position, EndOf
      <3> QED
        BY <3>2, <3>3, OrderOfRows
    <2>4. \A i \in DOMAIN L : L[i].request.dir = "after" /\ ~L[i].failed => L[i].request = next
      BY <1>3, <2>1
    <2>5. Bounded(L, Position(next))
      BY <2>3, <2>4 DEF Bounded
    <2> QED
      BY <2>2, <2>5 DEF Startable
  <1> QED
    BY <1>4, <1>5, <1>6 DEF next

\* A catch-up is ready for what a handler makes of it.
Ready(t, c, A, st, s, d, live) ==
  /\ c.sent = <<>>
  /\ Run(c, Line(d, A, st.epoch), st.epoch, live)
  /\ Reached(c, Line(d, A, st.epoch), t)
  /\ PagesLead(d, st) /\ PastPages(d, s)

\* What may be started.
StartsNow(t, k, c, request, A, st, d) ==
  \/ request = NoRequest
  \/ request = c.pending /\ Harmless(Line(d, A, st.epoch))

\* A catch-up is started that waits for nothing of its own.
LEMMA StartCaught ==
  ASSUME NEW t, NEW k, NEW c, NEW A, NEW span, NEW st, NEW s, NEW d,
         ClientInv(t, k, c, A, span, st, s, d), NEW live \in BOOLEAN, Ready(t, c, A, st, s, d, live),
         ~HasLatest(c), ~OwnsTail(c), c.status # "complete",
         NEW request, StartsNow(t, k, c, request, A, st, d),
         NEW e, e = Started(c, live, request, ReadCursor(t, k)),
         NEW u, u.synced = t.synced, u.range = t.range, NEW frc
  PROVE  CaughtUp(u, k, Settled(e), A \o SentBy(e), frc, st, s, d, live)
  <1> DEFINE next == NextOf(request, t, k)
             L == Line(d, A, st.epoch)
             M == Sends(d, A, c, st.epoch)
             N == Sends(d, A, e, st.epoch)
             range == ReadCursor(t, k)
  <1>1. /\ d \in Seq(Messages) /\ A \in Seq(Asks) /\ st \in Stores /\ st.epoch \in Nat
        /\ \A r \in Requests : RequestOK(r, t, k, st, s, d) /\ r.dir = "after" => UpTo(Position(r), StoreEnd(st))
    BY AsksUpTo
  <1>2. c.sent = <<>> /\ Run(c, L, st.epoch, live) /\ Reached(c, L, t) /\ PagesLead(d, st) /\ PastPages(d, s)
    BY DEF Ready
  <1>3. c.sent \in Seq(Requests)
    BY <1>2 DEF Run, CatchUps
  <1>4. M = L
    BY <1>1, <1>2, <1>3, SendsMade
  <1>5. request = NoRequest \/ request = c.pending
    BY DEF StartsNow
  <1>6. /\ Asking(request, next, range, st.epoch)
        /\ next = TailFetch => k = NoSpan
        /\ request = NoRequest /\ Has(t) => next.dir = "after" /\ Position(next) = EndOf(t.range)
    BY <1>5, ResumeAsks
  <1>7. Startable(L, next)
    <2>1. CASE request = NoRequest
      BY <1>2, <2>1, ResumeStartable
    <2>2. CASE Harmless(L)
      BY <2>2 DEF Startable
    <2> QED
      BY <2>1, <2>2 DEF StartsNow
  <1>8. request # NoRequest => next = c.pending /\ next.dir = "after"
    BY <1>5, <1>6 DEF NextOf, Asking
  <1> HIDE DEF next, L, M, N, range
  <1>9. StartsOn(c, e, M, N, next, st.epoch, live)
    <2>1. Run(c, M, st.epoch, live) /\ Startable(M, next)
      BY <1>2, <1>4, <1>7
    <2>2. e = Started(c, live, request, range)
      BY DEF range
    <2> QED
      BY <1>1, <1>6, <2>1, <2>2, StartedRun DEF M, N
  <1>10. /\ Run(e, N, st.epoch, live) /\ ~HasLatest(e)
         /\ OwnsTail(e) => next = TailFetch
         /\ e.status # "complete" /\ e \in CatchUps
    BY <1>9 DEF StartsOn, Run
  <1>11. Reached(e, N, u)
    <2> SUFFICES ASSUME Has(u) PROVE Within(e, N, EndOf(u.range))
      BY DEF Reached
    <2>1. Has(t) /\ Within(c, M, EndOf(t.range))
      BY <1>2, <1>4 DEF Has, Reached
    <2>2. next.dir = "after" => UpTo(Position(next), EndOf(t.range))
      <3>1. CASE request = NoRequest
        <4>1. ClientOK(t, k, st, s, d)
          BY DEF ClientInv
        <4>2. EndOf(t.range) \in Points
          BY <4>1, PointTypes DEF ClientOK, Timelines
        <4> QED
          BY <1>6, <2>1, <3>1, <4>2, OrderOfRows
      <3>2. CASE request # NoRequest
        BY <1>8, <2>1, <3>2, <1>5 DEF Within
      <3> QED
        BY <3>1, <3>2
    <2> QED
      BY <1>9, <2>1, <2>2 DEF StartsOn
  <1>12. TailPlanned(u, k, e)
    BY <1>6, <1>10 DEF TailPlanned
  <1>13. LatestOK(u, e, frc, st, s, d) /\ Missed(u, e, st, s, d)
    BY <1>10 DEF LatestOK, Missed
  <1>14. N = Line(d, A \o SentBy(e), st.epoch)
    BY DEF N, Sends
  <1>15. Alike(e, Settled(e)) /\ Settled(e).sent = <<>>
    BY <1>10, SettledAlike
  <1>16. /\ Run(Settled(e), N, st.epoch, live) /\ Reached(Settled(e), N, u) /\ TailPlanned(u, k, Settled(e))
         /\ LatestOK(u, Settled(e), frc, st, s, d) /\ Missed(u, Settled(e), st, s, d)
    BY <1>10, <1>11, <1>12, <1>13, <1>15, AlikeRun
  <1> QED
    BY <1>2, <1>14, <1>15, <1>16 DEF CaughtUp

-----------------------------------------------------------------------------
(* The client takes a message that is no answer. *)

\* The first message is taken off the line.
LEMMA TakenLine ==
  ASSUME NEW d \in Seq(Messages), d # <<>>, NEW A \in Seq(Asks), NEW ep \in Nat,
         NEW L, L = Line(d, A, ep), NEW M, M = Line(Tail(d), A, ep), NEW O
  PROVE  /\ L \in Lines /\ M \in Lines /\ 1 \in DOMAIN L /\ L[1] = OfMessage(Head(d))
         /\ Thinner(L, M, O, ep, ep) /\ SameTails(L, M)
         /\ \A i \in DOMAIN M : i + 1 \in DOMAIN L /\ M[i] = L[i + 1]
         /\ Tail(d) \in Seq(Messages)
  <1>1. /\ Thinner(L, M, O, ep, ep)
        /\ \A i \in DOMAIN M : i + 1 \in DOMAIN L /\ M[i] = L[i + 1]
        /\ 1 \in DOMAIN L /\ L[1] = OfMessage(Head(d)) /\ Tail(d) \in Seq(Messages)
    BY LineTakes
  <1>2. L \in Lines /\ M \in Lines
    BY <1>1, LineMade
  <1>3. SameTails(L, M)
    BY <1>1 DEF SameTails
  <1> QED
    BY <1>1, <1>2, <1>3

\* The catch-up and the line without the first message, which is no answer.
LEMMA TakesRun ==
  ASSUME NEW t, NEW k, NEW c, NEW A, NEW span, NEW st, NEW s, NEW d, NEW frc, NEW live,
         ClientInv(t, k, c, A, span, st, s, d), CaughtUp(t, k, c, A, frc, st, s, d, live), d # <<>>,
         NEW e, e = Tail(d)
  PROVE  /\ Run(c, Line(e, A, st.epoch), st.epoch, live) /\ Reached(c, Line(e, A, st.epoch), t)
         /\ PagesLead(e, st) /\ PastPages(e, s)
  <1> DEFINE L == Line(d, A, st.epoch)
             M == Line(e, A, st.epoch)
  <1>1. d \in Seq(Messages) /\ A \in Seq(Asks) /\ st.epoch \in Nat /\ Wire(st, s, d)
    BY AsksUpTo DEF ClientInv
  <1>2. Run(c, L, st.epoch, live) /\ Reached(c, L, t) /\ PagesLead(d, st) /\ PastPages(d, s)
    BY DEF CaughtUp
  <1>3. Thinner(L, M, Owned(c), st.epoch, st.epoch) /\ SameTails(L, M) /\ M \in Lines
    BY <1>1, TakenLine
  <1>4. PagesLead(e, st)
    BY <1>1, <1>2, PagesTaken
  <1>5. PastPages(e, s)
    <2>1. \A i \in DOMAIN e : i + 1 \in DOMAIN d /\ e[i] = d[i + 1]
      BY <1>1
    <2> QED
      BY <1>2, <2>1 DEF PastPages
  <1> HIDE DEF L, M
  <1>6. Run(c, M, st.epoch, live) /\ Reached(c, M, t)
    BY <1>2, <1>3, RunThins
  <1> QED
    BY <1>4, <1>5, <1>6 DEF M

\* What is relayed when the first message is taken.
LEMMA RelaysLess ==
  ASSUME NEW con, NEW sub, NEW scr, NEW A, NEW d, Relayed(con, sub, scr, A, d), d \in Seq(Messages), d # <<>>,
         NEW B \in Seq(Asks), \A i \in 1..Len(B) : B[i].request = Subscribe => \E j \in DOMAIN A : B[i] = A[j]
  PROVE  Relayed(con, sub, scr, B, Tail(d))
  <1>1. sub /\ con
    BY DEF Relayed
  <1>2. \A i \in DOMAIN Tail(d) : i + 1 \in DOMAIN d /\ Tail(d)[i] = d[i + 1]
    OBVIOUS
  <1>3. \A i \in DOMAIN B : B[i].request = Subscribe /\ B[i].waited => scr = "asked"
    BY DEF Relayed
  <1>4. \A i \in DOMAIN Tail(d) : Tail(d)[i].type = "ack" /\ Tail(d)[i].waited => scr = "asked"
    BY <1>2 DEF Relayed
  <1> QED
    BY <1>1, <1>3, <1>4 DEF Relayed

\* A row is queued.
LEMMA ReceiveEventCaught ==
  ASSUME Inv, Inv2, ReceiveEvent
  PROVE  Inv2'
  <1> DEFINE L == Line(down, asked, store.epoch)
             e == Tail(down)
             q == Append(stream, Head(down).row)
  <1>1. /\ Relayed(connected, subscribed, subscription, asked, down)
        /\ CaughtUp(timeline, cached, catchUp, asked, forced, store, stream, down, Live)
        /\ ClientInv(timeline, cached, catchUp, asked, stored, store, stream, down)
        /\ down \in Seq(Messages) /\ asked \in Seq(Asks) /\ stream \in Seq(Rows)
    BY Inv2Facts
  <1>2. /\ down # <<>> /\ Head(down).type = "event" /\ down' = e /\ stream' = q
        /\ UNCHANGED <<connected, subscribed, subscription, asked, timeline, cached, catchUp, forced, store>>
        /\ Live' = Live
    BY DEF ReceiveEvent, server, Live
  <1>3. /\ Run(catchUp, Line(e, asked, store.epoch), store.epoch, Live)
        /\ Reached(catchUp, Line(e, asked, store.epoch), timeline)
        /\ PagesLead(e, store) /\ PastPages(e, stream)
    BY <1>1, <1>2, TakesRun
  <1>4. Wire(store, stream, down) /\ PagesLead(down, store)
    BY <1>1 DEF ClientInv, CaughtUp
  <1>5. /\ Brought(e) = BroughtBehind(down, 1)
        /\ Brought(down) = BroughtBehind(down, 1) \union {Head(down).row}
        /\ Noticed(down, 0) => Noticed(e, 0)
    BY <1>2, <1>4, PagesTaken
  <1>6. Rng(q) = Rng(stream) \union {Head(down).row}
    <2>1. Head(down) \in Messages
      BY <1>1, <1>2
    <2>2. Head(down).row \in Rows
      BY <1>2, <2>1, MessageTypes
    <2> DEFINE row == Head(down).row
    <2> HIDE DEF row
    <2>3. DOMAIN q = DOMAIN stream \union {Len(stream) + 1} /\ q[Len(stream) + 1] = row
          /\ \A i \in DOMAIN stream : q[i] = stream[i]
      BY <1>1, <2>2 DEF row
    <2> QED
      BY <2>3 DEF Rng, row
  <1>7. Rng(q) \union Brought(e) = Rng(stream) \union Brought(down)
    BY <1>5, <1>6
  <1>8. PastPages(e, q)
    <2> SUFFICES ASSUME NEW i \in DOMAIN e, NEW k \in DOMAIN q, NEW p \in AsksAfter(e[i])
                 PROVE Before(p, q[k])
      BY DEF PastPages
    <2>1. CASE k \in DOMAIN stream
      <3>1. q[k] = stream[k]
        BY <1>1, <2>1
      <3> QED
        BY <1>3, <2>1, <3>1 DEF PastPages
    <2>2. CASE k = Len(stream) + 1
      <3>1. q[k] = Head(down).row
        BY <1>1, <2>2
      <3>2. i + 1 \in DOMAIN down /\ e[i] = down[i + 1] /\ 1 \in DOMAIN down /\ 1 < i + 1 /\ down[1] = Head(down)
        BY <1>1, <1>2
      <3>3. Precedes(p, down[1])
        BY <1>4, <3>2 DEF Wire, InOrder
      <3> QED
        BY <1>2, <3>1, <3>2, <3>3 DEF Precedes
    <2>3. k \in DOMAIN stream \/ k = Len(stream) + 1
      BY <1>1
    <2> QED
      BY <2>1, <2>2, <2>3
  <1>9. Relayed(connected, subscribed, subscription, asked, e)
    BY <1>1, <1>2, RelaysLess
  <1> HIDE DEF e, q
  <1>10. CaughtUp(timeline, cached, catchUp, asked, forced, store, q, e, Live)
    <2>1. /\ catchUp.sent = <<>> /\ TailPlanned(timeline, cached, catchUp)
          /\ LatestOK(timeline, catchUp, forced, store, stream, down) /\ Missed(timeline, catchUp, store, stream, down)
      BY <1>1 DEF CaughtUp
    <2>2. LatestOK(timeline, catchUp, forced, store, q, e)
      BY <1>7, <2>1 DEF LatestOK
    <2>3. Missed(timeline, catchUp, store, q, e)
      BY <1>5, <1>7, <2>1 DEF Missed
    <2> QED
      BY <1>3, <1>8, <2>1, <2>2, <2>3 DEF CaughtUp
  <1> QED
    BY <1>2, <1>9, <1>10 DEF Inv2

\* A tail that nobody's catch-up waits for is asked for.
Noted(c, g, L, N, ep, live) ==
  /\ Run(g, N, ep, live)
  /\ HasLatest(g) => HasLatest(c)
  /\ OwnsTail(g) => OwnsTail(c)
  /\ g.status = c.status /\ TailFetch \in Wanted(g)
  /\ \A p : Within(c, L, p) => Within(g, N, p)
\* The request a replacement notice starts joins the line.
LEMMA NoticeRun ==
  ASSUME NEW d \in Seq(Messages), NEW A \in Seq(Asks), NEW ep \in Nat, NEW live,
         NEW c, NEW L, L = Line(d, A, ep), Run(c, L, ep, live), c.sent = <<>>,
         NEW g, g = Launched(c, Fetch("notice", TailFetch, FALSE, FALSE))
  PROVE  Noted(c, g, L, Sends(d, A, g, ep), ep, live)
  <1> DEFINE f == Fetch("notice", TailFetch, FALSE, FALSE)
             M == Sends(d, A, c, ep)
             N == Sends(d, A, g, ep)
  <1>1. /\ c \in CatchUps /\ OneOwner(c.fetches) /\ L \in Lines
        /\ LineOK(L, Owned(c), Wanted(c)) /\ Older(L, ep)
        /\ Modes(c, live) /\ Quiet(c, L)
    BY DEF Run
  <1>2. M = L /\ c.sent \in Seq(Requests)
    <2>1. c.sent \in Seq(Requests)
      BY <1>1 DEF CatchUps
    <2> QED
      BY <2>1, SendsMade
  <1>3. /\ f \in Fetches /\ f.kind = "notice" /\ f.request = TailFetch /\ ~f.owner
        /\ TailFetch \in Requests /\ TailFetch.dir = "tail"
    BY FetchMade, SomeRequests
  <1> HIDE DEF f
  <1>4. /\ g \in CatchUps /\ g.fetches = c.fetches \union {f}
        /\ g.status = c.status /\ g.request = c.request /\ g.pending = c.pending /\ g.cache = c.cache
        /\ \/ f.request \in Wanted(c) /\ N = M
           \/ f.request \notin Wanted(c) /\ Longer(M, N, OfAsk(Ask(f.request), ep))
    <2>1. g = Launched(c, f)
      BY DEF f
    <2> QED
      BY <1>1, <1>3, <2>1, LaunchedLine
  <1>5. N \in Lines
    <2>1. g.sent \in Seq(Requests)
      BY <1>4 DEF CatchUps
    <2> QED
      BY <2>1, SendsMade
  <1> HIDE DEF M, N
  <1>6. Joins(L, N, TailFetch, Wanted(c), ep)
    BY <1>2, <1>3, <1>4 DEF Joins
  <1>7. Owned(g) = Owned(c) /\ Wanted(g) = Wanted(c) \union {TailFetch} /\ Owned(c) \subseteq Wanted(c)
    BY <1>3, <1>4 DEF Owned, Wanted
  <1>8. /\ HasLatest(g) <=> HasLatest(c)
        /\ OwnsTail(g) <=> OwnsTail(c)
        /\ OneOwner(g.fetches)
    BY <1>1, <1>3, <1>4 DEF HasLatest, OwnsTail, OneOwner
  <1>9. LineOK(N, Owned(g), Wanted(g)) /\ (Harmless(L) => Harmless(N))
    <2> DEFINE O == Owned(c)
               R == Wanted(c)
    <2>1. LineOK(L, O, R) /\ O \subseteq R /\ Joins(L, N, TailFetch, R, ep) /\ L \in Lines
      BY <1>1, <1>6, <1>7
    <2> HIDE DEF O, R
    <2>2. LineOK(N, O, R \union {TailFetch}) /\ (Harmless(L) => Harmless(N))
      BY ONLY <2>1, ep \in Nat, NoticeKeepsLine
    <2> QED
      BY <1>7, <2>2 DEF O, R
  <1>10. /\ Older(L, ep) => Older(N, ep)
         /\ \A p : Bounded(L, p) => Bounded(N, p)
         /\ TailsAwaited(L) => TailsAwaited(N)
    BY <1>1, <1>3, <1>6, JoinKeeps
  <1>11. Modes(g, live)
    <2>1. \A x \in g.fetches : x \in c.fetches \/ x = f
      BY <1>4
    <2> QED
      BY <1>1, <1>3, <1>4, <2>1 DEF Modes
  <1>12. Quiet(g, N)
    BY <1>1, <1>4, <1>8, <1>9, <1>10 DEF Quiet
  <1>13. \A p : Within(c, L, p) => Within(g, N, p)
    BY <1>4, <1>10 DEF Within
  <1>14. Run(g, N, ep, live)
    BY <1>1, <1>4, <1>5, <1>8, <1>9, <1>10, <1>11, <1>12 DEF Run
  <1> QED
    BY <1>4, <1>7, <1>8, <1>13, <1>14 DEF Noted, N

\* What a catch-up sends is no subscription.
LEMMA SentPlain ==
  ASSUME NEW c \in CatchUps, NEW A \in Seq(Asks), NEW B, B = A \o SentBy(c)
  PROVE  /\ B \in Seq(Asks)
         /\ \A i \in 1..Len(B) : B[i].request = Subscribe => i \in DOMAIN A /\ B[i] = A[i]
         /\ Len(A) <= Len(B) /\ \A i \in DOMAIN A : i \in DOMAIN B /\ B[i] = A[i]
  <1>1. c.sent \in Seq(Requests)
    BY DEF CatchUps
  <1>2. /\ SentBy(c) \in Seq(Asks) /\ Len(SentBy(c)) = Len(c.sent) /\ Len(c.sent) \in Nat
        /\ \A i \in 1..Len(c.sent) : SentBy(c)[i] = Ask(c.sent[i])
    BY <1>1, SentEach
  <1> DEFINE X == SentBy(c)
  <1>3. \A i \in 1..Len(X) : X[i].request # Subscribe
    <2> TAKE i \in 1..Len(X)
    <2>1. i \in 1..Len(c.sent) /\ X[i] = Ask(c.sent[i])
      BY <1>2
    <2>2. c.sent[i] \in Requests
      BY <1>1, <2>1
    <2>3. X[i].request = c.sent[i]
      BY <2>1 DEF Ask
    <2> QED
      BY <2>2, <2>3, SomeRequests
  <1> HIDE DEF X
  <1>4. X \in Seq(Asks) /\ B = A \o X
    BY <1>2 DEF X
  <1>5. ASSUME NEW i \in 1..Len(B), B[i].request = Subscribe PROVE i \in DOMAIN A /\ B[i] = A[i]
    <2>1. CASE i <= Len(A)
      BY <1>4, <1>5, <2>1
    <2>2. CASE i > Len(A)
      <3>1. i - Len(A) \in 1..Len(X) /\ B[i] = X[i - Len(A)]
        BY <1>4, <1>5, <2>2
      <3> QED
        BY <1>3, <1>5, <3>1
    <2> QED
      BY <2>1, <2>2
  <1> QED
    BY <1>4, <1>5

\* What is asked comes to be B.
MoreAsked(A, B) == \E c \in CatchUps : B = A \o SentBy(c)
\* A notice asks for the tail.
LEMMA ReceiveNoticeCaught ==
  ASSUME Inv, Inv2, ReceiveNotice
  PROVE  Inv2' /\ MoreAsked(asked, asked')
  <1> DEFINE e == Tail(down)
             g == Launched(catchUp, Fetch("notice", TailFetch, FALSE, FALSE))
             N == Sends(e, asked, g, store.epoch)
             L == Line(e, asked, store.epoch)
             B == asked \o SentBy(g)
  <1>1. /\ Relayed(connected, subscribed, subscription, asked, down)
        /\ CaughtUp(timeline, cached, catchUp, asked, forced, store, stream, down, Live)
        /\ ClientInv(timeline, cached, catchUp, asked, stored, store, stream, down)
        /\ down \in Seq(Messages) /\ asked \in Seq(Asks) /\ store.epoch \in Nat
    BY Inv2Facts
  <1>2. /\ down # <<>> /\ Head(down).type = "notice" /\ down' = e
        /\ catchUp' = Settled(g) /\ asked' = B
        /\ UNCHANGED <<connected, subscribed, subscription, stream, timeline, cached, forced, store>>
        /\ Live' = Live
    BY DEF ReceiveNotice, server, Live
  <1>3. /\ Run(catchUp, L, store.epoch, Live) /\ Reached(catchUp, L, timeline)
        /\ PagesLead(e, store) /\ PastPages(e, stream)
    BY <1>1, <1>2, TakesRun
  <1>4. Wire(store, stream, down) /\ PagesLead(down, store)
    BY <1>1 DEF ClientInv, CaughtUp
  <1>5. Brought(e) = Brought(down) /\ e \in Seq(Messages)
    <2>1. /\ Brought(e) = BroughtBehind(down, 1)
          /\ Brought(down) = BroughtBehind(down, 1) \union (IF Head(down).type = "event" THEN {Head(down).row} ELSE {})
      BY <1>2, <1>4, PagesTaken
    <2> QED
      BY <1>1, <1>2, <2>1
  <1>6. /\ catchUp.sent = <<>> /\ TailPlanned(timeline, cached, catchUp)
        /\ LatestOK(timeline, catchUp, forced, store, stream, down) /\ Missed(timeline, catchUp, store, stream, down)
    BY <1>1 DEF CaughtUp
  <1>7. Noted(catchUp, g, L, N, store.epoch, Live)
    BY <1>1, <1>3, <1>5, <1>6, NoticeRun
  <1> HIDE DEF e, g, L
  <1>8. /\ Run(g, N, store.epoch, Live) /\ g \in CatchUps
        /\ HasLatest(g) => HasLatest(catchUp)
        /\ OwnsTail(g) => OwnsTail(catchUp)
        /\ g.status = catchUp.status /\ TailFetch \in Wanted(g)
        /\ \A p : Within(catchUp, L, p) => Within(g, N, p)
    BY <1>7 DEF Noted, Run
  <1> HIDE DEF N, B
  <1>9. Relayed(connected, subscribed, subscription, B, e)
    <2>1. B \in Seq(Asks) /\ \A i \in 1..Len(B) : B[i].request = Subscribe => i \in DOMAIN asked /\ B[i] = asked[i]
      BY <1>1, <1>8, SentPlain DEF B
    <2>2. \A i \in 1..Len(B) : B[i].request = Subscribe => \E j \in DOMAIN asked : B[i] = asked[j]
      BY <2>1
    <2> QED
      BY <1>1, <1>2, <2>1, <2>2, RelaysLess DEF e
  <1>10. N = Line(e, B, store.epoch)
    BY DEF N, B, Sends
  <1>11. Alike(g, Settled(g)) /\ Settled(g).sent = <<>>
    BY <1>8, SettledAlike
  <1>12. /\ Reached(g, N, timeline) /\ TailPlanned(timeline, cached, g)
         /\ LatestOK(timeline, g, forced, store, stream, e) /\ Missed(timeline, g, store, stream, e)
    <2>1. Reached(g, N, timeline)
      BY <1>3, <1>8 DEF Reached
    <2>2. TailPlanned(timeline, cached, g)
      BY <1>6, <1>8 DEF TailPlanned
    <2>3. LatestOK(timeline, g, forced, store, stream, e)
      BY <1>5, <1>6, <1>8 DEF LatestOK
    <2>4. Missed(timeline, g, store, stream, e)
      BY <1>6, <1>8 DEF Missed
    <2> QED
      BY <2>1, <2>2, <2>3, <2>4
  <1>13. /\ Run(Settled(g), N, store.epoch, Live) /\ Reached(Settled(g), N, timeline)
         /\ TailPlanned(timeline, cached, Settled(g))
         /\ LatestOK(timeline, Settled(g), forced, store, stream, e) /\ Missed(timeline, Settled(g), store, stream, e)
    BY <1>8, <1>11, <1>12, AlikeRun
  <1>14. CaughtUp(timeline, cached, Settled(g), B, forced, store, stream, e, Live)
    BY <1>3, <1>10, <1>11, <1>13 DEF CaughtUp
  <1>15. MoreAsked(asked, asked')
    BY <1>2, <1>8 DEF MoreAsked, B
  <1> QED
    BY <1>2, <1>9, <1>14, <1>15 DEF Inv2

\* One acknowledgement is waited for at a time: the second ones asked for come after it is given up.
Waits(m) == m.type = "ack" /\ m.waited
Subscribes(a) == a.request = Subscribe /\ a.waited
Lone(A, d) ==
  /\ \A i, j \in DOMAIN d : i < j /\ Waits(d[i]) => ~Waits(d[j])
  /\ \A i \in DOMAIN d, j \in DOMAIN A : Waits(d[i]) => ~Subscribes(A[j])
  /\ \A i, j \in DOMAIN A : i < j /\ Subscribes(A[i]) => ~Subscribes(A[j])

\* A message is taken that neither brings nor announces anything.
LEMMA TakeCaught ==
  ASSUME NEW t, NEW k, NEW c, NEW A, NEW span, NEW st, NEW s, NEW d, NEW frc, NEW live,
         ClientInv(t, k, c, A, span, st, s, d), CaughtUp(t, k, c, A, frc, st, s, d, live), d # <<>>,
         Head(d).type = "ack", NEW e, e = Tail(d)
  PROVE  CaughtUp(t, k, c, A, frc, st, s, e, live)
  <1>1. /\ Run(c, Line(e, A, st.epoch), st.epoch, live) /\ Reached(c, Line(e, A, st.epoch), t)
        /\ PagesLead(e, st) /\ PastPages(e, s)
    BY TakesRun
  <1>2. Wire(st, s, d) /\ PagesLead(d, st)
    BY DEF ClientInv, CaughtUp
  <1>3. Brought(e) = Brought(d) /\ (Noticed(d, 0) => Noticed(e, 0))
    <2>1. /\ Brought(e) = BroughtBehind(d, 1)
          /\ Brought(d) = BroughtBehind(d, 1) \union (IF Head(d).type = "event" THEN {Head(d).row} ELSE {})
          /\ Noticed(d, 0) /\ Head(d).type # "notice" => Noticed(e, 0)
      BY <1>2, PagesTaken
    <2> QED
      BY <2>1
  <1>4. /\ c.sent = <<>> /\ TailPlanned(t, k, c)
        /\ LatestOK(t, c, frc, st, s, d) /\ Missed(t, c, st, s, d)
    BY DEF CaughtUp
  <1>5. LatestOK(t, c, frc, st, s, e) /\ Missed(t, c, st, s, e)
    BY <1>3, <1>4, RowsStay
  <1> QED
    BY <1>1, <1>4, <1>5 DEF CaughtUp

\* The timeline with the initialisation that a start opens.
LEMMA SameEnds ==
  ASSUME NEW t \in Timelines, NEW F, NEW c \in CatchUps, NEW u, u = InitializedBy(t, F, c.fetches)
  PROVE  u.synced = t.synced /\ u.range = t.range /\ u.newer = t.newer
  <1>1. c.fetches \in SUBSET Fetches
    BY DEF CatchUps
  <1> QED
    BY <1>1, Initialized DEF SameFor

\* The subscription is acknowledged, and what was parked is started.
LEMMA ReceiveAckCaught ==
  ASSUME Inv, Inv2, Lone(asked, down), ReceiveAck
  PROVE  Inv2'
  <1> DEFINE d == Tail(down)
             g == Started(catchUp, TRUE, catchUp.pending, ReadCursor(timeline, cached))
             u == InitializedBy(timeline, catchUp.fetches, g.fetches)
             L == Line(d, asked, store.epoch)
  <1>1. /\ Relayed(connected, subscribed, subscription, asked, down)
        /\ CaughtUp(timeline, cached, catchUp, asked, forced, store, stream, down, Live)
        /\ ClientInv(timeline, cached, catchUp, asked, stored, store, stream, down)
        /\ down \in Seq(Messages) /\ asked \in Seq(Asks) /\ store.epoch \in Nat
        /\ timeline \in Timelines
    BY Inv2Facts, InvFacts
  <1>2. /\ down # <<>> /\ Head(down).type = "ack" /\ down' = d
        /\ UNCHANGED <<connected, subscribed, stream, cached, forced, store>>
    BY DEF ReceiveAck, server
  <1>3. CASE ~Head(down).waited
    <2>1. UNCHANGED <<subscription, catchUp, timeline, asked>>
      BY <1>3 DEF ReceiveAck
    <2>2. CaughtUp(timeline, cached, catchUp, asked, forced, store, stream, d, Live)
      BY <1>1, <1>2, TakeCaught
    <2>3. Relayed(connected, subscribed, subscription, asked, d)
      BY <1>1, <1>2, RelaysLess
    <2>4. Live' = Live
      BY <1>2, <2>1 DEF Live
    <2> QED
      BY <1>2, <2>1, <2>2, <2>3, <2>4 DEF Inv2
  <1>4. CASE Head(down).waited
    <2>1. subscription' = "acked" /\ catchUp' = Settled(g) /\ timeline' = u /\ asked' = asked \o SentBy(g)
      BY <1>4 DEF ReceiveAck
    <2>2. 1 \in DOMAIN down /\ down[1] = Head(down) /\ Waits(down[1])
      BY <1>1, <1>2, <1>4 DEF Waits
    <2>3. subscription = "asked" /\ subscribed /\ connected
      BY <1>1, <1>2, <2>2 DEF Relayed, Waits
    <2>4. Live = FALSE /\ Live' = TRUE
      BY <1>2, <2>1, <2>3 DEF Live
    <2>5. /\ Run(catchUp, L, store.epoch, FALSE) /\ Reached(catchUp, L, timeline)
          /\ PagesLead(d, store) /\ PastPages(d, stream)
      BY <1>1, <1>2, <2>4, TakesRun
    <2>6. catchUp.status = "none" /\ Harmless(L) /\ catchUp \in CatchUps
      BY <2>5 DEF Run, Modes, Quiet
    <2>7. Run(catchUp, L, store.epoch, TRUE)
      BY <2>5, <2>6 DEF Run, Modes
    <2>8. ~HasLatest(catchUp) /\ ~OwnsTail(catchUp)
      BY <2>5, <2>6, Idle
    <2>9. catchUp.sent = <<>>
      BY <1>1 DEF CaughtUp
    <2>10. Ready(timeline, catchUp, asked, store, stream, d, TRUE)
      BY <2>5, <2>7, <2>9 DEF Ready
    <2>11. StartsNow(timeline, cached, catchUp, catchUp.pending, asked, store, d)
      BY <2>6 DEF StartsNow
    <2>12. ClientInv(timeline, cached, catchUp, asked, stored, store, stream, d)
      BY <1>1, <1>2, TakeKeeps
    <2> DEFINE range == ReadCursor(timeline, cached)
    <2>13. g \in CatchUps
      <3>1. MovesIn(catchUp, g, Jobs(timeline, cached, store, stream, d), Pendings(timeline, cached, store, stream, d))
        BY <2>12, StartKeeps
      <3> QED
        BY <3>1 DEF MovesIn, CatchUpIn
    <2>14. g = Started(catchUp, TRUE, catchUp.pending, ReadCursor(timeline, cached))
      OBVIOUS
    <2> HIDE DEF g, L, d
    <2>18. u = InitializedBy(timeline, catchUp.fetches, g.fetches)
      OBVIOUS
    <2> HIDE DEF u
    <2>15. u.synced = timeline.synced /\ u.range = timeline.range
      <3>1. timeline \in Timelines
        BY <1>1
      <3> DEFINE F == catchUp.fetches
      <3>2. u = InitializedBy(timeline, F, g.fetches)
        BY <2>18
      <3> HIDE DEF F
      <3> QED
        BY ONLY <2>13, <3>1, <3>2, SameEnds
    <2>16. CaughtUp(u, cached, Settled(g), asked \o SentBy(g), forced, store, stream, d, TRUE)
      <3>1. TRUE \in BOOLEAN /\ catchUp.status # "complete"
        BY <2>6
      <3> QED
        BY ONLY <2>8, <2>10, <2>11, <2>12, <2>14, <2>15, <3>1, StartCaught
    <2>17. Relayed(connected, subscribed, "acked", asked \o SentBy(g), d)
      <3> DEFINE B == asked \o SentBy(g)
      <3>1. /\ B \in Seq(Asks)
            /\ \A i \in 1..Len(B) : B[i].request = Subscribe => i \in DOMAIN asked /\ B[i] = asked[i]
        BY <1>1, <2>13, SentPlain
      <3> HIDE DEF B
      <3>2. \A i \in DOMAIN asked : ~Subscribes(asked[i])
        BY <2>2 DEF Lone
      <3>3. \A i \in DOMAIN B : B[i].request = Subscribe => ~B[i].waited
        BY <3>1, <3>2 DEF Subscribes
      <3>4. \A i \in DOMAIN d : i + 1 \in DOMAIN down /\ 1 < i + 1 /\ d[i] = down[i + 1]
        BY <1>1, <1>2 DEF d
      <3>5. \A i \in DOMAIN d : ~Waits(d[i])
        BY <2>2, <3>4 DEF Lone
      <3>6. Relayed(connected, subscribed, "acked", B, d)
        BY <2>3, <3>3, <3>5 DEF Relayed, Waits
      <3> QED
        BY <3>6 DEF B
    <2> QED
      BY <1>2, <2>1, <2>4, <2>16, <2>17 DEF Inv2
  <1> QED
    BY <1>3, <1>4

\* What is relayed when a catch-up sends, which it does to a daemon that sends to it.
LEMMA RelaysAsked ==
  ASSUME NEW con, NEW sub, NEW scr, NEW A \in Seq(Asks), NEW d, Relayed(con, sub, scr, A, d),
         NEW c \in CatchUps, sub \/ c.sent = <<>>
  PROVE  Relayed(con, sub, scr, A \o SentBy(c), d)
  <1> DEFINE B == A \o SentBy(c)
  <1>1. /\ B \in Seq(Asks)
        /\ \A i \in 1..Len(B) : B[i].request = Subscribe => i \in DOMAIN A /\ B[i] = A[i]
    BY SentPlain
  <1>2. c.sent = <<>> => B = A
    <2>1. c.sent = <<>> => SentBy(c) = <<>>
      BY DEF SentBy
    <2> QED
      BY <2>1
  <1> HIDE DEF B
  <1>3. CASE c.sent = <<>>
    BY <1>2, <1>3 DEF B
  <1>4. CASE sub
    <2>1. con
      BY <1>4 DEF Relayed
    <2>2. \A i \in DOMAIN B : B[i].request = Subscribe /\ B[i].waited => scr = "asked"
      BY <1>1 DEF Relayed
    <2>3. Relayed(con, sub, scr, B, d)
      BY <1>4, <2>1, <2>2 DEF Relayed
    <2> QED
      BY <2>3 DEF B
  <1> QED
    BY <1>3, <1>4

\* Nothing is sent by a start that is not live.
LEMMA StartedQuiet ==
  ASSUME NEW c \in CatchUps, NEW request, NEW range
  PROVE  Started(c, FALSE, request, range).sent = c.sent
  BY DEF Started, CatchUps

\* The retry timer starts the catch-up again.
LEMMA RetryCaught ==
  ASSUME Inv, Inv2, Retry
  PROVE  Inv2' /\ MoreAsked(asked, asked')
  <1> DEFINE g == Started(catchUp, Live, NoRequest, ReadCursor(timeline, cached))
             u == InitializedBy(timeline, catchUp.fetches, g.fetches)
             L == Line(down, asked, store.epoch)
  <1>1. /\ Relayed(connected, subscribed, subscription, asked, down)
        /\ CaughtUp(timeline, cached, catchUp, asked, forced, store, stream, down, Live)
        /\ ClientInv(timeline, cached, catchUp, asked, stored, store, stream, down)
        /\ down \in Seq(Messages) /\ asked \in Seq(Asks) /\ Live \in BOOLEAN
        /\ (~subscribed => ~Live)
        /\ timeline \in Timelines
    BY Inv2Facts, InvFacts
  <1>2. /\ catchUp.status = "error"
        /\ catchUp' = Settled(g) /\ timeline' = u /\ asked' = asked \o SentBy(g)
        /\ UNCHANGED <<connected, subscribed, subscription, down, stream, cached, forced, store>>
    BY DEF Retry, StartedAgain, RetryDue, server
  <1>3. Live' = Live
    BY <1>2 DEF Live
  <1>4. /\ Run(catchUp, L, store.epoch, Live) /\ Reached(catchUp, L, timeline)
        /\ PagesLead(down, store) /\ PastPages(down, stream) /\ catchUp.sent = <<>>
    BY <1>1 DEF CaughtUp
  <1>5. ~HasLatest(catchUp) /\ ~OwnsTail(catchUp)
    BY <1>2, <1>4, Idle
  <1>6. Ready(timeline, catchUp, asked, store, stream, down, Live)
    BY <1>4 DEF Ready
  <1>7. StartsNow(timeline, cached, catchUp, NoRequest, asked, store, down)
    BY DEF StartsNow
  <1>8. g \in CatchUps
    <2>1. CatchUpIn(catchUp, Jobs(timeline, cached, store, stream, down), Pendings(timeline, cached, store, stream, down))
      BY <1>1 DEF ClientInv
    <2>2. MovesIn(catchUp, g, Jobs(timeline, cached, store, stream, down), Pendings(timeline, cached, store, stream, down))
      BY <1>1, StartKeeps
    <2> QED
      BY <2>2 DEF MovesIn, CatchUpIn
  <1>9. catchUp \in CatchUps
    BY <1>4 DEF Run
  <1>10. ~subscribed => g.sent = <<>>
    <2>1. ~Live => Live = FALSE
      BY <1>1
    <2>2. ~Live => g.sent = catchUp.sent
      BY <1>9, <2>1, StartedQuiet
    <2> QED
      BY <1>1, <1>4, <2>2
  <1>11. g = Started(catchUp, Live, NoRequest, ReadCursor(timeline, cached))
    OBVIOUS
  <1> HIDE DEF g, L
  <1>12. u.synced = timeline.synced /\ u.range = timeline.range
    <2> DEFINE F == catchUp.fetches
    <2>1. u = InitializedBy(timeline, F, g.fetches)
      OBVIOUS
    <2>2. timeline \in Timelines
      BY <1>1
    <2> HIDE DEF F, u
    <2> QED
      BY ONLY <1>8, <2>1, <2>2, SameEnds
  <1> HIDE DEF u
  <1>13. CaughtUp(u, cached, Settled(g), asked \o SentBy(g), forced, store, stream, down, Live)
    <2>1. catchUp.status # "complete"
      BY <1>2
    <2>2. /\ ClientInv(timeline, cached, catchUp, asked, stored, store, stream, down)
          /\ Live \in BOOLEAN
      BY <1>1
    <2> QED
      BY ONLY <1>5, <1>6, <1>7, <1>11, <1>12, <2>1, <2>2, StartCaught
  <1>14. Relayed(connected, subscribed, subscription, asked \o SentBy(g), down)
    BY <1>1, <1>8, <1>10, RelaysAsked
  <1>15. MoreAsked(asked, asked')
    BY <1>2, <1>8 DEF MoreAsked
  <1> QED
    BY <1>2, <1>3, <1>13, <1>14, <1>15 DEF Inv2

\* The local cache has been read, and what was parked is started.
LEMMA LoadCacheCaught ==
  ASSUME Inv, Inv2, LoadCache
  PROVE  Inv2' /\ MoreAsked(asked, asked')
  <1> DEFINE t == Painted(timeline, stored)
             k == IF timeline.synced THEN cached ELSE stored
             b == [catchUp EXCEPT !.cache = "yes"]
             g == Started(b, Live, b.pending, ReadCursor(t, k))
             u == InitializedBy(t, catchUp.fetches, g.fetches)
             L == Line(down, asked, store.epoch)
  <1>1. /\ Relayed(connected, subscribed, subscription, asked, down)
        /\ CaughtUp(timeline, cached, catchUp, asked, forced, store, stream, down, Live)
        /\ ClientInv(timeline, cached, catchUp, asked, stored, store, stream, down)
        /\ down \in Seq(Messages) /\ asked \in Seq(Asks) /\ Live \in BOOLEAN
        /\ (~subscribed => ~Live)
    BY Inv2Facts
  <1>2. catchUp \in CatchUps
    BY <1>1 DEF CaughtUp, Run
  <1>3. /\ catchUp.cache = "loading"
        /\ catchUp' = Settled(g) /\ timeline' = u /\ asked' = asked \o SentBy(g) /\ cached' = k
        /\ UNCHANGED <<connected, subscribed, subscription, down, stream, forced, store>>
    <2>1. b.pending = catchUp.pending
      BY <1>2 DEF CatchUps
    <2> QED
      BY <2>1 DEF LoadCache, CacheLoaded, server
  <1>4. Live' = Live
    BY <1>3 DEF Live
  <1>5. /\ Run(catchUp, L, store.epoch, Live) /\ Reached(catchUp, L, timeline)
        /\ PagesLead(down, store) /\ PastPages(down, stream) /\ catchUp.sent = <<>>
    BY <1>1 DEF CaughtUp
  <1>6. catchUp.status = "none" /\ Harmless(L)
    BY <1>3, <1>5 DEF Run, Modes, Quiet
  <1>7. ~HasLatest(catchUp) /\ ~OwnsTail(catchUp)
    BY <1>5, <1>6, Idle
  <1>8. /\ b \in CatchUps /\ b.fetches = catchUp.fetches /\ b.pending = catchUp.pending
        /\ b.status = catchUp.status /\ b.request = catchUp.request /\ b.cache = "yes" /\ b.sent = catchUp.sent
    BY <1>2 DEF CatchUps
  <1>9. b = [catchUp EXCEPT !.cache = "yes"]
    OBVIOUS
  <1> HIDE DEF L
  <1>10. /\ ClientInv(t, k, b, asked, stored, store, stream, down)
         /\ t.synced = timeline.synced /\ (timeline.synced => t.range = timeline.range)
    <2>1. catchUp.cache # "yes"
      BY <1>3
    <2>2. t = Painted(timeline, stored) /\ k = (IF timeline.synced THEN cached ELSE stored)
      OBVIOUS
    <2> HIDE DEF t, k, b
    <2>3. ClientInv(timeline, cached, catchUp, asked, stored, store, stream, down)
      BY <1>1
    <2> QED
      BY ONLY <1>9, <2>1, <2>2, <2>3, CachePainted
  <1> HIDE DEF t, k, b
  <1>11. /\ Owned(b) = Owned(catchUp) /\ Wanted(b) = Wanted(catchUp)
         /\ HasLatest(b) <=> HasLatest(catchUp)
         /\ OwnsTail(b) <=> OwnsTail(catchUp)
    BY <1>8 DEF Owned, Wanted, HasLatest, OwnsTail
  <1>12. Run(b, L, store.epoch, Live)
    <2>1. Modes(b, Live)
      BY <1>5, <1>6, <1>8 DEF Run, Modes
    <2>2. Quiet(b, L)
      BY <1>5, <1>8, <1>11 DEF Run, Quiet
    <2> QED
      BY <1>5, <1>8, <1>11, <2>1, <2>2 DEF Run
  <1>13. Reached(b, L, t)
    BY <1>5, <1>8, <1>10 DEF Reached, Within, Has
  <1>14. Ready(t, b, asked, store, stream, down, Live)
    BY <1>5, <1>8, <1>12, <1>13 DEF Ready, L
  <1>15. StartsNow(t, k, b, b.pending, asked, store, down)
    BY <1>6 DEF StartsNow, L
  <1>16. g \in CatchUps
    <2> DEFINE J == Jobs(t, k, store, stream, down)
               P == Pendings(t, k, store, stream, down)
    <2>1. MovesIn(b, Started(b, Live, b.pending, ReadCursor(t, k)), J, P)
      <3>1. ClientInv(t, k, b, asked, stored, store, stream, down) /\ Live \in BOOLEAN
        BY <1>1, <1>10
      <3> QED
        BY ONLY <3>1, StartKeeps
    <2> QED
      BY <2>1 DEF MovesIn, CatchUpIn
  <1>17. ~subscribed => g.sent = <<>>
    <2>1. ~Live => Live = FALSE
      BY <1>1
    <2>2. ~Live => g.sent = b.sent
      BY <1>8, <2>1, StartedQuiet
    <2> QED
      BY <1>1, <1>5, <1>8, <2>2
  <1>18. g = Started(b, Live, b.pending, ReadCursor(t, k))
    OBVIOUS
  <1> HIDE DEF g
  <1>19. u.synced = t.synced /\ u.range = t.range
    <2> DEFINE F == catchUp.fetches
    <2>1. u = InitializedBy(t, F, g.fetches)
      OBVIOUS
    <2>2. t \in Timelines
      BY <1>10 DEF ClientInv, ClientOK
    <2> HIDE DEF F, u
    <2> QED
      BY ONLY <1>16, <2>1, <2>2, SameEnds
  <1> HIDE DEF u
  <1>20. CaughtUp(u, k, Settled(g), asked \o SentBy(g), forced, store, stream, down, Live)
    <2>1. b.status # "complete" /\ ~HasLatest(b) /\ ~OwnsTail(b)
      BY <1>6, <1>7, <1>8, <1>11
    <2>2. /\ ClientInv(t, k, b, asked, stored, store, stream, down)
          /\ Live \in BOOLEAN
      BY <1>1, <1>10
    <2> QED
      BY ONLY <1>14, <1>15, <1>18, <1>19, <2>1, <2>2, StartCaught
  <1>21. Relayed(connected, subscribed, subscription, asked \o SentBy(g), down)
    BY <1>1, <1>16, <1>17, RelaysAsked
  <1>22. MoreAsked(asked, asked')
    BY <1>3, <1>16 DEF MoreAsked
  <1> QED
    BY <1>3, <1>4, <1>20, <1>21, <1>22 DEF Inv2

-----------------------------------------------------------------------------
(* A frame: the queued rows are applied, and their gaps recovered. *)

\* Catch-up c becomes e while timeline t becomes u.
Framed(t, k, c, u, e, A, frc, st, d, live) ==
  /\ e \in CatchUps /\ Run(e, Sends(d, A, e, st.epoch), st.epoch, live)
  /\ Reached(e, Sends(d, A, e, st.epoch), u)
  /\ OwnsTail(e) => OwnsTail(c)
  /\ HasLatest(e) => HasLatest(c)
  /\ HasLatest(c) \/ e.status = "complete" => e = c
  /\ u.synced = t.synced /\ u.newer = t.newer /\ u.init = t.init
  /\ TailPlanned(u, CachedAfter(u, k), e)
  /\ LatestOK(u, e, frc, st, <<>>, d)
  /\ Missed(u, e, st, <<>>, d)
  /\ ~live => e.sent = <<>>

\* Nothing is sent by recoveries that are not live.
LEMMA FlushedQuiet ==
  ASSUME ~Live, Live \in BOOLEAN, catchUp \in CatchUps, NEW span,
         Flushed.recoveries \in Seq(Requests)
  PROVE  FlushedCatchUp(span).sent = catchUp.sent
  <1> DEFINE q == Flushed.recoveries
  <1>1. PICK after : /\ FlushedCatchUp(span) = after[Len(q)]
                     /\ after[0] = catchUp
                     /\ \A i \in 1..Len(q) : after[i] = Recovered(after[i - 1], q[i], span)
    BY FlushedSteps
  <1>2. Len(q) \in Nat
    OBVIOUS
  <1> HIDE DEF q
  <1> DEFINE T == { i \in Nat : i <= Len(q) => after[i] \in CatchUps /\ after[i].sent = catchUp.sent }
  <1>3. 0 \in T
    BY <1>1
  <1>4. ASSUME NEW i \in Nat, i \in T PROVE i + 1 \in T
    <2> SUFFICES ASSUME i + 1 <= Len(q) PROVE after[i + 1] \in CatchUps /\ after[i + 1].sent = catchUp.sent
      OBVIOUS
    <2>1. after[i] \in CatchUps /\ after[i].sent = catchUp.sent
      BY <1>2, <1>4
    <2>2. i + 1 \in 1..Len(q) /\ (i + 1) - 1 = i
      BY <1>2
    <2>3. after[i + 1] = Recovered(after[i], q[i + 1], span)
      BY <1>1, <2>2
    <2>4. q[i + 1] \in Requests
      BY <2>2 DEF q
    <2> DEFINE x == after[i]
               r == q[i + 1]
               y == after[i + 1]
    <2> HIDE DEF x, r, y
    <2>5. Live = FALSE
      OBVIOUS
    <2>6. y = x \/ y = Started(x, FALSE, r, span)
      BY <2>3, <2>5 DEF Recovered, x, y, r
    <2>7. x \in CatchUps /\ r \in Requests
      BY <2>1, <2>4 DEF x, r
    <2>8. Started(x, FALSE, r, span) \in CatchUps /\ Started(x, FALSE, r, span).sent = x.sent
      BY <2>7 DEF Started, CatchUps
    <2> QED
      BY <2>1, <2>6, <2>7, <2>8 DEF x, y
  <1>5. \A n \in Nat : n \in T
    <2> HIDE DEF T
    <2> QED
      BY <1>3, <1>4, Induction
  <1>6. Len(q) \in T
    BY <1>2, <1>5
  <1> QED
    BY <1>1, <1>2, <1>6

\* The queued rows are applied.
LEMMA FrameCaught ==
  ASSUME Inv, Inv2, NEW span
  PROVE  Framed(timeline, cached, catchUp, Flushed.timeline, FlushedCatchUp(span), asked, forced, store, down, Live)
  <1> DEFINE u == Flushed.timeline
             q == Flushed.recoveries
             e == FlushedCatchUp(span)
             L == Line(down, asked, store.epoch)
             M == Sends(down, asked, catchUp, store.epoch)
             N == Sends(down, asked, e, store.epoch)
  <1>1. /\ CaughtUp(timeline, cached, catchUp, asked, forced, store, stream, down, Live)
        /\ ClientInv(timeline, cached, catchUp, asked, stored, store, stream, down)
        /\ down \in Seq(Messages) /\ asked \in Seq(Asks) /\ Live \in BOOLEAN /\ store.epoch \in Nat
    BY Inv2Facts
  <1>2. /\ catchUp.sent = <<>> /\ Run(catchUp, L, store.epoch, Live) /\ Reached(catchUp, L, timeline)
        /\ TailPlanned(timeline, cached, catchUp)
        /\ LatestOK(timeline, catchUp, forced, store, stream, down)
        /\ PastPages(down, stream) /\ Missed(timeline, catchUp, store, stream, down)
    BY <1>1 DEF CaughtUp
  <1>3. Drains(timeline, u, q, catchUp, L, store, stream, down)
    <2>1. u = BatchApplied(timeline, stream).timeline /\ q = BatchApplied(timeline, stream).recoveries
      BY DEF Flushed
    <2> HIDE DEF u, q
    <2> QED
      BY <1>1, <1>2, <2>1, QueueDrains
  <1>4. M = L /\ catchUp \in CatchUps
    <2>1. catchUp \in CatchUps
      BY <1>2 DEF Run
    <2>2. catchUp.sent \in Seq(Requests)
      BY <2>1 DEF CatchUps
    <2> QED
      BY <1>1, <1>2, <2>1, <2>2, SendsMade
  <1>5. /\ Recoveries(q, store.epoch) /\ Ahead(q, 0, L) /\ Ending(q, EndOf(u.range))
        /\ Reached(catchUp, L, u)
        /\ q # <<>> => Has(u)
        /\ u.synced = timeline.synced /\ u.newer = timeline.newer /\ u.init = timeline.init
        /\ ~timeline.synced \/ timeline.newer => q = <<>>
        /\ timeline.synced /\ ~timeline.newer =>
             /\ Covers(EndOf(timeline.range), Rng(stream) \union Brought(down), store) => Covers(EndOf(u.range), Brought(down), store)
             /\ Gapless(EndOf(timeline.range), Rng(stream) \union Brought(down), store) =>
                  Gapless(EndOf(u.range), Brought(down), store) /\ q = <<>>
    BY <1>3 DEF Drains
  <1>6. q \in Seq(Requests)
    BY <1>5 DEF Recoveries
  <1>7. q = <<>> => e = catchUp
    <2>1. PICK after : FlushedCatchUp(span) = after[Len(q)] /\ after[0] = catchUp
      BY <1>6, FlushedSteps
    <2> QED
      BY <2>1
  <1>8. HasLatest(catchUp) => q = <<>>
    BY <1>2, <1>5 DEF LatestOK
  <1>9. ~Live => e.sent = <<>>
    BY <1>1, <1>2, <1>4, <1>6, FlushedQuiet
  <1>10. ~HasLatest(catchUp) => Recovering(catchUp, e, down, asked, store.epoch, q, Len(q))
    <2> SUFFICES ASSUME ~HasLatest(catchUp) PROVE Recovering(catchUp, e, down, asked, store.epoch, q, Len(q))
      OBVIOUS
    <2>1. /\ Recoveries(Flushed.recoveries, store.epoch)
          /\ Ahead(Flushed.recoveries, 0, Sends(down, asked, catchUp, store.epoch))
          /\ Run(catchUp, Sends(down, asked, catchUp, store.epoch), store.epoch, Live)
      BY <1>2, <1>4, <1>5
    <2> QED
      BY <1>1, <2>1, FlushedRun
  <1> HIDE DEF L, M, N, u, q, e
  <1>11. /\ e \in CatchUps /\ Run(e, N, store.epoch, Live)
         /\ OwnsTail(e) => OwnsTail(catchUp)
         /\ HasLatest(e) => HasLatest(catchUp)
         /\ HasLatest(catchUp) \/ e.status = "complete" => e = catchUp
         /\ \A p : Ending(q, p) /\ Within(catchUp, L, p) => Within(e, N, p)
    <2>1. CASE HasLatest(catchUp)
      <3>1. e = catchUp
        BY <1>7, <1>8, <2>1
      <3>2. N = L
        BY <1>4, <3>1 DEF M, N
      <3> QED
        BY <1>2, <1>4, <3>1, <3>2
    <2>2. CASE ~HasLatest(catchUp)
      <3>1. /\ Run(e, N, store.epoch, Live) /\ ~HasLatest(e)
            /\ OwnsTail(e) => OwnsTail(catchUp)
            /\ e.status = "complete" => e = catchUp
            /\ \A p : Ending(q, p) /\ Within(catchUp, M, p) => Within(e, N, p)
        BY <1>10, <2>2 DEF Recovering, M, N
      <3>2. e \in CatchUps
        BY <3>1 DEF Run
      <3> QED
        BY <1>4, <2>2, <3>1, <3>2
    <2> QED
      BY <2>1, <2>2
  <1>12. Reached(e, N, u)
    BY <1>5, <1>11 DEF Reached
  <1>13. TailPlanned(u, CachedAfter(u, cached), e)
    BY <1>2, <1>5, <1>11 DEF TailPlanned, CachedAfter
  <1>14. Rng(<<>>) \union Brought(down) = Brought(down)
    <2>1. Rng(<<>>) = {}
      BY DEF Rng
    <2> QED
      BY <2>1
  <1>15. LatestOK(u, e, forced, store, <<>>, down)
    <2> SUFFICES ASSUME HasLatest(e) PROVE LatestOK(u, e, forced, store, <<>>, down)
      BY DEF LatestOK
    <2>1. /\ forced \/ (timeline.synced /\ timeline.init = "none")
          /\ ~timeline.synced \/ timeline.newer
             \/ Gapless(EndOf(timeline.range), Rng(stream) \union Brought(down), store)
      BY <1>2, <1>11 DEF LatestOK
    <2>2. forced \/ (u.synced /\ u.init = "none")
      BY <1>5, <2>1
    <2>3. \/ ~u.synced \/ u.newer
          \/ Gapless(EndOf(u.range), Rng(<<>>) \union Brought(down), store)
      <3>1. timeline.newer \in BOOLEAN
        BY <1>1 DEF ClientInv, ClientOK, Timelines
      <3> QED
        BY <1>5, <1>14, <2>1, <3>1
    <2> QED
      BY <2>2, <2>3 DEF LatestOK
  <1>16. Missed(u, e, store, <<>>, down)
    <2> SUFFICES ASSUME e.status = "complete" PROVE Missed(u, e, store, <<>>, down)
      BY DEF Missed
    <2>1. e = catchUp
      BY <1>11
    <2>2. /\ timeline.synced /\ ~timeline.newer
          /\ \/ Noticed(down, 0) \/ TailFetch \in Wanted(catchUp)
             \/ Covers(EndOf(timeline.range), Rng(stream) \union Brought(down), store)
      BY <1>2, <2>1 DEF Missed
    <2>3. u.synced /\ ~u.newer
      BY <1>5, <2>2
    <2>4. \/ Noticed(down, 0) \/ TailFetch \in Wanted(e)
          \/ Covers(EndOf(u.range), Rng(<<>>) \union Brought(down), store)
      BY <1>5, <1>14, <2>1, <2>2
    <2> QED
      BY <2>3, <2>4 DEF Missed
  <1>17. Framed(timeline, cached, catchUp, u, e, asked, forced, store, down, Live)
    BY <1>5, <1>9, <1>11, <1>12, <1>13, <1>15, <1>16 DEF Framed, N
  <1> QED
    BY <1>17 DEF u, e

\* The frame's timer.
LEMMA FlushCaught ==
  ASSUME Inv, Inv2, Flush
  PROVE  Inv2' /\ MoreAsked(asked, asked')
  <1> DEFINE t == Flushed.timeline
             k == CachedAfter(t, cached)
             span == ReadCursor(t, k)
             g == FlushedCatchUp(span)
             u == InitializedBy(t, catchUp.fetches, g.fetches)
             N == Sends(down, asked, g, store.epoch)
  <1>1. /\ Relayed(connected, subscribed, subscription, asked, down)
        /\ CaughtUp(timeline, cached, catchUp, asked, forced, store, stream, down, Live)
        /\ ClientInv(timeline, cached, catchUp, asked, stored, store, stream, down)
        /\ asked \in Seq(Asks) /\ (~subscribed => ~Live)
    BY Inv2Facts
  <1>2. /\ catchUp' = Settled(g) /\ timeline' = u /\ asked' = asked \o SentBy(g) /\ cached' = k /\ stream' = <<>>
        /\ UNCHANGED <<connected, subscribed, subscription, down, forced, store>>
    BY DEF Flush, server
  <1>3. Live' = Live
    BY <1>2 DEF Live
  <1>4. Framed(timeline, cached, catchUp, t, g, asked, forced, store, down, Live)
    BY FrameCaught
  <1>5. t \in Timelines
    <2>1. t = BatchApplied(timeline, stream).timeline
      BY DEF Flushed
    <2>2. ClientInv(t, k, catchUp, asked, stored, store, <<>>, down)
      <3> DEFINE x == BatchApplied(timeline, stream).recoveries
      <3>1. x = BatchApplied(timeline, stream).recoveries
        OBVIOUS
      <3> HIDE DEF t, x
      <3> QED
        BY <1>1, <2>1, <3>1, Drained
    <2> QED
      BY <2>2 DEF ClientInv, ClientOK
  <1> HIDE DEF t, k, g, span
  <1>6. /\ g \in CatchUps /\ Run(g, N, store.epoch, Live) /\ Reached(g, N, t)
        /\ HasLatest(g) => HasLatest(catchUp)
        /\ HasLatest(catchUp) \/ g.status = "complete" => g = catchUp
        /\ TailPlanned(t, k, g) /\ LatestOK(t, g, forced, store, <<>>, down) /\ Missed(t, g, store, <<>>, down)
        /\ ~Live => g.sent = <<>>
    BY <1>4 DEF Framed, k
  <1>7. u.synced = t.synced /\ u.range = t.range /\ u.newer = t.newer
    <2> DEFINE F == catchUp.fetches
    <2>1. u = InitializedBy(t, F, g.fetches)
      OBVIOUS
    <2> HIDE DEF F, u
    <2> QED
      BY ONLY <1>5, <1>6, <2>1, SameEnds
  <1>8. HasLatest(g) => u.init = t.init
    <2>1. HasLatest(g) => g.fetches \ catchUp.fetches = {}
      BY <1>6
    <2> QED
      BY <2>1 DEF InitializedBy
  <1> HIDE DEF u
  <1>9. Reached(g, N, u) /\ TailPlanned(u, k, g) /\ LatestOK(u, g, forced, store, <<>>, down) /\ Missed(u, g, store, <<>>, down)
    <2>1. Reached(g, N, u)
      BY <1>6, <1>7 DEF Reached, Has
    <2>2. TailPlanned(u, k, g)
      BY <1>6, <1>7 DEF TailPlanned
    <2>3. LatestOK(u, g, forced, store, <<>>, down)
      BY <1>6, <1>7, <1>8 DEF LatestOK
    <2>4. Missed(u, g, store, <<>>, down)
      BY <1>6, <1>7 DEF Missed
    <2> QED
      BY <2>1, <2>2, <2>3, <2>4
  <1>10. N = Line(down, asked \o SentBy(g), store.epoch)
    BY DEF Sends
  <1> HIDE DEF N
  <1>11. Alike(g, Settled(g)) /\ Settled(g).sent = <<>>
    BY <1>6, SettledAlike
  <1>12. /\ Run(Settled(g), N, store.epoch, Live) /\ Reached(Settled(g), N, u)
         /\ TailPlanned(u, k, Settled(g))
         /\ LatestOK(u, Settled(g), forced, store, <<>>, down) /\ Missed(u, Settled(g), store, <<>>, down)
    BY <1>6, <1>9, <1>11, AlikeRun
  <1>13. PagesLead(down, store) /\ PastPages(down, <<>>)
    BY <1>1 DEF CaughtUp, PastPages
  <1>14. CaughtUp(u, k, Settled(g), asked \o SentBy(g), forced, store, <<>>, down, Live)
    BY <1>10, <1>11, <1>12, <1>13 DEF CaughtUp
  <1>15. Relayed(connected, subscribed, subscription, asked \o SentBy(g), down)
    BY <1>1, <1>6, RelaysAsked
  <1>16. MoreAsked(asked, asked')
    BY <1>2, <1>6 DEF MoreAsked
  <1> QED
    BY <1>2, <1>3, <1>14, <1>15, <1>16 DEF Inv2

-----------------------------------------------------------------------------
(* An answer is taken. *)

\* Nothing goes on from past an answer, once it is taken.
LEMMA HeadBounds ==
  ASSUME NEW t, NEW k, NEW c, NEW A, NEW span, NEW st, NEW s, NEW d,
         ClientInv(t, k, c, A, span, st, s, d), d # <<>>, Head(d).type = "page",
         NEW sent, sent = Head(d).page, ~sent.error
  PROVE  /\ Within(c, Line(Tail(d), A, st.epoch), Top(sent))
         /\ sent.dir = "tail" => Within(c, Line(d, A, st.epoch), Top(sent))
         /\ UpTo(EndOf(CurrentRange(t, k)), Top(sent))
  <1> DEFINE p == Top(sent)
             L == Line(d, A, st.epoch)
             M == Line(Tail(d), A, st.epoch)
  <1>1. /\ d \in Seq(Messages) /\ A \in Seq(Asks) /\ st.epoch \in Nat /\ InOrder(st, s, d)
        /\ \A i \in DOMAIN d : d[i].type = "page" => Shaped(d[i].page)
        /\ \A i \in DOMAIN A : RequestOK(A[i].request, t, k, st, s, d)
        /\ c.pending \in Pendings(t, k, st, s, d) /\ ClientOK(t, k, st, s, d)
    BY RowParts DEF ClientInv, Wire, AskedOK, AnswersOK, AnswerOK, CatchUpIn
  <1>2. 1 \in DOMAIN d /\ d[1] = Head(d)
    BY <1>1
  <1>3. \A x : Precedes(x, d[1]) => UpTo(x, p)
    BY <1>2 DEF Precedes
  <1>4. \A x : Behind(x, st, s, d) => UpTo(x, p)
    BY <1>2, <1>3 DEF Behind
  <1>5. \A i \in DOMAIN d : i > 1 => \A x \in AsksAfter(d[i]) : UpTo(x, p)
    BY <1>1, <1>2, <1>3 DEF InOrder
  <1> HIDE DEF p
  <1>6. \A r \in Requests : r.dir = "after" /\ RequestOK(r, t, k, st, s, d) => UpTo(Position(r), p)
    BY <1>4 DEF RequestOK
  <1>7. c.pending # NoRequest => UpTo(Position(c.pending), p)
    BY <1>1, <1>6, RequestKinds DEF Pendings
  <1>8. ASSUME NEW i \in DOMAIN L, L[i].request.dir = "after", ~L[i].failed, i > 1 \/ sent.dir = "tail"
        PROVE  UpTo(Position(L[i].request), p)
    <2>1. CASE i \in 1..Len(d) /\ d[i] \in Messages /\ L[i] = OfMessage(d[i])
      <3>1. d[i].type = "page"
        BY <1>8, <2>1, NothingDoes DEF OfMessage
      <3>2. L[i].request = d[i].page.request
        BY <2>1, <3>1 DEF OfMessage, Entry
      <3>3. i \in DOMAIN d /\ (i > 1 \/ i = 1)
        BY <1>1, <2>1, LenProperties
      <3>4. d[i].page.dir = d[i].page.request.dir
        BY <1>1, <3>1, <3>3 DEF Shaped
      <3>5. Position(d[i].page.request) \in AsksAfter(d[i])
        BY <1>8, <3>1, <3>2, <3>4 DEF AsksAfter
      <3>6. i > 1
        BY <1>2, <1>8, <3>2, <3>3, <3>4
      <3> QED
        BY <1>5, <3>2, <3>3, <3>5, <3>6
    <2>2. CASE i - Len(d) \in 1..Len(A) /\ A[i - Len(d)] \in Asks /\ L[i] = OfAsk(A[i - Len(d)], st.epoch)
      <3> DEFINE a == A[i - Len(d)]
      <3>1. i - Len(d) \in DOMAIN A
        BY <1>1, <2>2, LenProperties
      <3>2. RequestOK(a.request, t, k, st, s, d) /\ a.request \in Requests \union {Subscribe}
        BY <1>1, <2>2, <3>1 DEF Asks
      <3>3. L[i] = OfAsk(a, st.epoch)
        BY <2>2
      <3> HIDE DEF a, L
      <3>4. a.request # Subscribe
        BY <1>8, <3>3, NothingDoes DEF OfAsk
      <3>5. L[i].request = a.request
        BY <3>3, <3>4 DEF OfAsk, Entry
      <3> QED
        BY <1>6, <1>8, <3>2, <3>4, <3>5
    <2> QED
      BY <1>1, <2>1, <2>2, LinePlaces
  <1>9. sent.dir = "tail" => Within(c, L, p)
    BY <1>7, <1>8 DEF Within, Bounded
  <1>10. Within(c, M, p)
    <2>1. \A i \in DOMAIN M : i + 1 \in DOMAIN L /\ M[i] = L[i + 1] /\ i \in 1..Len(Tail(d)) + Len(A)
      <3>1. DOMAIN M = 1..Len(Tail(d)) + Len(A)
        BY DEF Line
      <3>2. L = Line(d, A, st.epoch) /\ M = Line(Tail(d), A, st.epoch) /\ d # <<>>
        OBVIOUS
      <3>3. d \in Seq(Messages) /\ A \in Seq(Asks) /\ st.epoch \in Nat
        BY <1>1
      <3> HIDE DEF L, M
      <3>4. Thinner(L, M, {}, st.epoch, st.epoch) /\ \A i \in DOMAIN M : i + 1 \in DOMAIN L /\ M[i] = L[i + 1]
        BY ONLY <3>2, <3>3, TakenLine
      <3> QED
        BY <3>1, <3>4
    <2>2. Len(Tail(d)) \in Nat /\ Len(A) \in Nat
      BY <1>1
    <2> HIDE DEF L, M
    <2>3. \A i \in DOMAIN M : i + 1 > 1
      BY <2>1, <2>2
    <2>4. \A i \in DOMAIN M : M[i].request.dir = "after" /\ ~M[i].failed => UpTo(Position(M[i].request), p)
      BY <1>8, <2>1, <2>3
    <2> QED
      BY <1>7, <2>4 DEF Within, Bounded
  <1>11. UpTo(EndOf(CurrentRange(t, k)), p)
    <2>1. /\ t.synced /\ t.range # NoSpan => Behind(EndOf(t.range), st, s, d)
          /\ k # NoSpan => Behind(EndOf(k), st, s, d)
      BY <1>1, EndsBehind
    <2>2. UpTo(EndOf(NoSpan), p)
      <3>1. d[1] \in Messages
        BY <1>1, <1>2
      <3>2. sent \in Pages
        BY <1>2, <3>1, MessageTypes
      <3>3. p \in Points /\ EndOf(NoSpan) = Row(0, 0)
        BY <3>2, PointTypes DEF p, EndOf, NoSpan, Span
      <3> QED
        BY <3>3 DEF UpTo, Points, Row
    <2> QED
      BY <1>4, <2>1, <2>2 DEF CurrentRange
  <1> QED
    BY <1>9, <1>10, <1>11 DEF p

\* It joins what is held.
LEMMA HeadJoins ==
  ASSUME NEW t, NEW k, NEW c, NEW A, NEW span, NEW st, NEW s, NEW d,
         ClientInv(t, k, c, A, span, st, s, d), d # <<>>, Head(d).type = "page",
         Reached(c, Line(d, A, st.epoch), t),
         NEW sent, sent = Head(d).page, ~sent.error,
         NEW page, page.dir = sent.dir, Top(page) = Top(sent), page.request = sent.request, sent.reset => page.reset
  PROVE  Joined(t, k, page)
  <1> DEFINE L == Line(d, A, st.epoch)
  <1>1. UpTo(EndOf(CurrentRange(t, k)), Top(page))
    BY HeadBounds
  <1>2. ASSUME page.dir = "after", ~page.reset, t.synced
        PROVE  UpTo(Position(page.request), EndOf(t.range))
    <2>1. d \in Seq(Messages) /\ A \in Seq(Asks) /\ st.epoch \in Nat /\ AnswersOK(d, t, k)
      BY RowParts DEF ClientInv, Wire, AskedOK
    <2>2. 1 \in DOMAIN d /\ d[1] = Head(d)
      BY <2>1
    <2>3. AnswerOK(sent, t, k)
      BY <2>1, <2>2 DEF AnswersOK
    <2>4. ~Empty(t) /\ sent.request.dir = "after"
      BY <1>2, <2>3 DEF AnswerOK, Shaped
    <2>5. Has(t)
      BY <1>2, <2>4 DEF Empty, Has
    <2>6. Bounded(L, EndOf(t.range))
      BY <2>5 DEF Reached, Within
    <2>7. 1 \in DOMAIN L /\ L[1] = OfMessage(Head(d))
      BY <2>1, LineTakes
    <2> HIDE DEF L
    <2>8. L[1].request = sent.request /\ L[1].failed = sent.error
      BY <2>7 DEF OfMessage, Entry
    <2> QED
      BY <2>4, <2>6, <2>7, <2>8 DEF Bounded
  <1> QED
    BY <1>1, <1>2 DEF Joined

\* Timeline t becomes u by an answer, which asks for q.
Turned(t, k, u, q, sent, page) ==
  /\ Shaped(sent) /\ sent \in Pages
  /\ page.reset = sent.reset \/ (page.reset /\ sent.dir = "tail")
  /\ sent.error => /\ q = NoRequest
                   /\ u.synced = t.synced /\ u.range = t.range /\ u.newer = t.newer /\ u.init = "none"
  /\ ~sent.error => Fits(t, k, u, q, page)
  /\ t.synced => u.synced
  /\ t.synced /\ u.range # NoSpan => UpTo(EndOf(t.range), EndOf(u.range))
  /\ Empty(t) => ~sent.hasNewer
\* The page as it is applied: a reset when it replaces the timeline by force.
Forcing(sent, page) ==
  /\ page.error = sent.error /\ page.dir = sent.dir /\ page.epoch = sent.epoch /\ page.max = sent.max
  /\ page.to = sent.to /\ page.hasNewer = sent.hasNewer /\ page.request = sent.request
  /\ Top(page) = Top(sent)
\* The page at the head of the line turns the timeline as its direction, reset and cursors say.
LEMMA PageTurns ==
  ASSUME NEW t, NEW k, NEW c, NEW A, NEW span, NEW st, NEW d,
         ClientInv(t, k, c, A, span, st, <<>>, d), d # <<>>, Head(d).type = "page",
         Reached(c, Line(d, A, st.epoch), t),
         NEW sent, sent = Head(d).page, NEW forcing \in BOOLEAN, forcing => sent.dir = "tail",
         NEW page, page = [sent EXCEPT !.reset = sent.reset \/ forcing],
         NEW u, u = PageApplied(t, k, page), NEW q, q = PageRecovery(t, k, page)
  PROVE  /\ Turned(t, k, u, q, sent, page) /\ Forcing(sent, page)
         /\ page.reset = (sent.reset \/ forcing)
  <1>1. /\ d \in Seq(Messages) /\ AnswersOK(d, t, k) /\ ClientOK(t, k, st, <<>>, d)
    BY DEF ClientInv, Wire
  <1>2. 1 \in DOMAIN d /\ d[1] = Head(d) /\ d[1] \in Messages
    BY <1>1
  <1>3. sent \in Pages /\ AnswerOK(sent, t, k)
    BY <1>1, <1>2, MessageTypes DEF AnswersOK
  <1>4. /\ page \in Pages /\ AnswerOK(page, t, k)
        /\ page.error = sent.error /\ page.dir = sent.dir /\ page.epoch = sent.epoch
        /\ page.max = sent.max /\ page.hasNewer = sent.hasNewer /\ Top(page) = Top(sent)
    BY <1>3, PageForced
  <1>5. page.reset = (sent.reset \/ forcing) /\ page.request = sent.request /\ page.to = sent.to
    BY <1>3 DEF Pages
  <1>6. /\ t \in Timelines /\ RangeOK(t.range) /\ k \in Spans /\ RangeOK(k)
    BY <1>1 DEF ClientOK
  <1>7. sent.reset \in BOOLEAN /\ sent.hasNewer \in BOOLEAN /\ sent.error \in BOOLEAN
    BY <1>3 DEF Pages
  <1>8. page.reset = sent.reset \/ (page.reset /\ sent.dir = "tail")
    BY <1>5, <1>7
  <1>9. /\ t.synced => u.synced
        /\ t.synced /\ u.range # NoSpan => UpTo(EndOf(t.range), EndOf(u.range))
    <2> DEFINE l == CachedAfter(u, k)
    <2>1. l = CachedAfter(u, k)
      OBVIOUS
    <2> HIDE DEF l
    <2> QED
      BY <2>1, PageKeeps
  <1>10. Empty(t) => ~sent.hasNewer
    <2> SUFFICES ASSUME Empty(t), sent.hasNewer PROVE FALSE
      OBVIOUS
    <2>1. sent.dir = "after" /\ ~sent.reset /\ ~sent.error
      BY <1>3 DEF AnswerOK, Shaped
    <2> QED
      BY <1>3, <2>1 DEF AnswerOK
  <1>11. sent.error => /\ q = NoRequest
                       /\ u.synced = t.synced /\ u.range = t.range /\ u.newer = t.newer /\ u.init = "none"
    <2> HAVE sent.error
    <2>1. q = NoRequest
      BY <1>4 DEF PageRecovery
    <2>2. u = [t EXCEPT !.init = "none"]
      BY <1>4 DEF PageApplied
    <2> QED
      BY <1>6, <2>1, <2>2 DEF Timelines
  <1>12. ~sent.error => Fits(t, k, u, q, page)
    <2> HAVE ~sent.error
    <2>1. Joined(t, k, page)
      <3> DEFINE s == <<>>
      <3> HIDE DEF s
      <3>1. ClientInv(t, k, c, A, span, st, s, d)
        BY DEF s
      <3>2. d # <<>> /\ Head(d).type = "page" /\ Reached(c, Line(d, A, st.epoch), t) /\ sent = Head(d).page
        OBVIOUS
      <3>3. page.dir = sent.dir /\ Top(page) = Top(sent) /\ page.request = sent.request /\ (sent.reset => page.reset)
        BY <1>4, <1>5
      <3> QED
        BY ONLY ~sent.error, <3>1, <3>2, <3>3, HeadJoins
    <2>2. u = PageApplied(t, k, page) /\ q = PageRecovery(t, k, page)
      OBVIOUS
    <2> QED
      BY ONLY ~sent.error, <1>4, <1>6, <2>1, <2>2, PageSettles
  <1>13. Shaped(sent)
    BY <1>3 DEF AnswerOK
  <1>14. Turned(t, k, u, q, sent, page)
    BY <1>3, <1>8, <1>9, <1>10, <1>11, <1>12, <1>13 DEF Turned
  <1>15. Forcing(sent, page)
    BY <1>4, <1>5 DEF Forcing
  <1> QED
    BY <1>5, <1>14, <1>15

\* The answer makes e of catch-up c by the request q, if any.
Recovers(c, e, A, st, d, u, q, sent, page, live) ==
  /\ e \in CatchUps /\ Run(e, Sends(d, A, e, st.epoch), st.epoch, live)
  /\ HasLatest(c) \/ e.status = "complete" => e = c
  /\ HasLatest(e) => HasLatest(c)
  /\ OwnsTail(e) => OwnsTail(c)
  /\ e = c \/ (~sent.error /\ Settles(u, page))
  /\ ~sent.error => Within(e, Sends(Tail(d), A, e, st.epoch), Top(sent))
\* The recovery a page starts keeps the line in order.
LEMMA PageRecovers ==
  ASSUME NEW t, NEW k, NEW c \in CatchUps, NEW A \in Seq(Asks), NEW span, NEW st, NEW s, NEW d,
         ClientInv(t, k, Settled(c), A \o SentBy(c), span, st, s, d), d # <<>>, Head(d).type = "page",
         Live \in BOOLEAN, Run(c, Sends(d, A, c, st.epoch), st.epoch, Live),
         NEW frc, LatestOK(t, c, frc, st, s, d),
         NEW u, NEW q, NEW sent, NEW page, sent = Head(d).page, Turned(t, k, u, q, sent, page), Forcing(sent, page),
         frc /\ sent.dir = "tail" => page.reset, q.dir = "after" => q.epoch <= st.epoch,
         NEW range, NEW e, e = Recovered(c, q, range)
  PROVE  Recovers(c, e, A, st, d, u, q, sent, page, Live)
  <1> DEFINE ep == st.epoch
             M == Sends(d, A, c, ep)
             N == Sends(d, A, e, ep)
             p == Top(sent)
  <1>1. d \in Seq(Messages) /\ st \in Stores /\ ep \in Nat
    BY AsksUpTo
  <1>2. ~sent.error => Within(c, Sends(Tail(d), A, c, ep), p) /\ (sent.dir = "tail" => Within(c, M, p))
    <2> HAVE ~sent.error
    <2> DEFINE b == Settled(c)
               B == A \o SentBy(c)
    <2>1. b.pending = c.pending
      BY DEF Settled, CatchUps
    <2>2. ClientInv(t, k, b, B, span, st, s, d) /\ d # <<>> /\ Head(d).type = "page" /\ sent = Head(d).page
      OBVIOUS
    <2>3. M = Line(d, B, st.epoch) /\ Sends(Tail(d), A, c, ep) = Line(Tail(d), B, st.epoch)
      BY DEF Sends
    <2> HIDE DEF b, B, M
    <2>4. /\ Within(b, Line(Tail(d), B, st.epoch), Top(sent))
          /\ sent.dir = "tail" => Within(b, Line(d, B, st.epoch), Top(sent))
      BY ONLY ~sent.error, <2>2, HeadBounds
    <2> QED
      BY <2>1, <2>3, <2>4 DEF Within
  <1>3. CASE q = NoRequest
    <2>1. e = c
      BY <1>3 DEF Recovered
    <2> QED
      BY <1>2, <2>1 DEF Recovers
  <1>4. CASE q # NoRequest
    <2>1. ~sent.error /\ Bootstraps(t, q, u, page)
      BY <1>4 DEF Turned, Fits
    <2>2. /\ q = CatchUpAfter(page.epoch, page.to) /\ q \in Requests /\ Position(q) = Top(page)
          /\ page.dir = "tail" /\ ~page.reset /\ t.init # "none" /\ Settles(u, page)
      BY <2>1 DEF Bootstraps
    <2>3. q.dir = "after" /\ Position(q) = p /\ sent.dir = "tail"
      BY <2>2 DEF CatchUpAfter, Request, Forcing
    <2>4. ~HasLatest(c)
      BY <2>2, <2>3 DEF LatestOK
    <2>5. Within(c, M, p)
      BY <1>2, <2>1, <2>3
    <2>6. Asking(q, q, range, ep)
      BY <1>4, <2>2, <2>3 DEF Asking
    <2>7. Startable(M, q)
      BY <2>3, <2>5 DEF Startable, Within
    <2>8. e = Started(c, Live, q, range)
      BY <1>4 DEF Recovered
    <2> HIDE DEF ep, M, N, p
    <2>9. StartsOn(c, e, M, N, q, ep, Live)
      <3>1. Run(c, Sends(d, A, c, ep), ep, Live) /\ Startable(Sends(d, A, c, ep), q)
        BY <2>7 DEF M, ep
      <3>2. StartsOn(c, e, Sends(d, A, c, ep), Sends(d, A, e, ep), q, ep, Live)
        BY ONLY <1>1, <2>4, <2>6, <2>8, <3>1, A \in Seq(Asks), Live \in BOOLEAN, StartedRun
      <3> QED
        BY <3>2 DEF M, N
    <2>10. /\ Run(e, N, ep, Live) /\ ~HasLatest(e) /\ e \in CatchUps
           /\ OwnsTail(e) => OwnsTail(c) \/ q = TailFetch
           /\ e.status = "complete" => e = c
      BY <2>9 DEF StartsOn, Run
    <2>11. q # TailFetch
      BY <2>3, SomeRequests
    <2>12. Within(e, N, p)
      <3>1. sent \in Pages
        BY DEF Turned
      <3>2. p \in Points
        BY <3>1, PointTypes DEF p
      <3>3. UpTo(Position(q), p)
        BY <2>3, <3>2, OrderOfRows
      <3> QED
        BY <2>5, <2>9, <3>3 DEF StartsOn
    <2>13. Within(e, Sends(Tail(d), A, e, ep), p)
      <3> DEFINE B == A \o SentBy(e)
                 L == Line(d, B, ep)
                 K == Line(Tail(d), B, ep)
      <3>1. B \in Seq(Asks)
        <4>1. e.sent \in Seq(Requests)
          BY <2>10 DEF CatchUps
        <4> QED
          BY <1>1, <4>1, SendsMade
      <3>2. N = L /\ Sends(Tail(d), A, e, ep) = K
        BY DEF N, Sends
      <3>3. L = Line(d, B, ep) /\ K = Line(Tail(d), B, ep) /\ d # <<>>
        OBVIOUS
      <3> HIDE DEF B, L, K
      <3>4. Thinner(L, K, {}, ep, ep)
        BY ONLY <1>1, <3>1, <3>3, TakenLine
      <3> QED
        BY <2>12, <3>2, <3>4 DEF Thinner, Within
    <2> QED
      BY <2>1, <2>2, <2>4, <2>10, <2>11, <2>13 DEF Recovers, N, ep, p
  <1> QED
    BY <1>3, <1>4

\* Those of catch-up e who waited for the answer, W, go on: e becomes b without them, then g.
Continues(e, b, g, A, d, x, W, sent, ep, live) ==
  /\ TakesOn(e, b, Sends(d, A, e, ep), Sends(Tail(d), A, b, ep), x, ep, live)
  /\ GoesOn(b, g, Sends(Tail(d), A, b, ep), Sends(Tail(d), A, g, ep), W, sent, ep, live)
  /\ b.fetches = e.fetches \ W /\ b.pending = e.pending /\ b.status = e.status /\ b.sent = e.sent
  /\ b \in CatchUps
\* Taking a page and asking for the next keeps the line in order.
LEMMA PageContinues ==
  ASSUME NEW A \in Seq(Asks), NEW d \in Seq(Messages), d # <<>>, Head(d).type = "page", NEW ep \in Nat, Live \in BOOLEAN,
         NEW sent, sent = Head(d).page, Shaped(sent), NEW x, x = OfMessage(Head(d)),
         NEW e, Run(e, Sends(d, A, e, ep), ep, Live), NextOK(e, sent, ep),
         NEW W, W = { f \in e.fetches : Head(d).waited /\ f.request = sent.request },
         NEW b, b = [e EXCEPT !.fetches = e.fetches \ W],
         NEW range, NEW g, g = Continued(b, W, sent, range)
  PROVE  Continues(e, b, g, A, d, x, W, sent, ep, Live)
  <1> DEFINE L == Sends(d, A, e, ep)
             K == Sends(Tail(d), A, b, ep)
             N == Sends(Tail(d), A, g, ep)
             B == A \o SentBy(e)
  <1>1. 1 \in DOMAIN d /\ d[1] = Head(d) /\ d[1] \in Messages /\ Tail(d) \in Seq(Messages)
    OBVIOUS
  <1>2. Head(d).waited \in BOOLEAN /\ sent \in Pages
    BY <1>1, MessageTypes
  <1>3. /\ x.request = sent.request /\ x.waited = Head(d).waited /\ x.failed = sent.error
        /\ x.extends = Extends(sent)
    BY DEF OfMessage, Entry
  <1>4. e \in CatchUps
    BY DEF Run
  <1>5. /\ b \in CatchUps /\ b.fetches = e.fetches \ W /\ b.sent = e.sent
        /\ b.status = e.status /\ b.request = e.request /\ b.pending = e.pending /\ b.cache = e.cache
    BY <1>4 DEF CatchUps
  <1>6. W = { f \in e.fetches : x.waited /\ f.request = x.request }
    BY <1>3
  <1>7. Taking(e, b, x.request, x.waited)
    BY <1>5, <1>6 DEF Taking, Rest
  <1>8. B \in Seq(Asks)
    <2>1. e.sent \in Seq(Requests)
      BY <1>4 DEF CatchUps
    <2> QED
      BY <2>1, SendsMade
  <1>9. L = Line(d, B, ep) /\ K = Line(Tail(d), B, ep)
    BY <1>5 DEF Sends, SentBy
  <1>10. B = A \o SentBy(e)
    OBVIOUS
  <1> HIDE DEF L, K, N, B
  <1>11. /\ L \in Lines /\ K \in Lines /\ 1 \in DOMAIN L /\ L[1] = x
         /\ \A i \in DOMAIN K : i + 1 \in DOMAIN L /\ K[i] = L[i + 1]
    <2>1. d \in Seq(Messages) /\ d # <<>> /\ x = OfMessage(Head(d)) /\ ep \in Nat
      OBVIOUS
    <2>2. /\ L \in Lines /\ K \in Lines /\ 1 \in DOMAIN L /\ L[1] = OfMessage(Head(d))
          /\ Thinner(L, K, {}, ep, ep)
          /\ \A i \in DOMAIN K : i + 1 \in DOMAIN L /\ K[i] = L[i + 1]
      BY ONLY <1>8, <1>9, <2>1, TakenLine
    <2> QED
      BY <2>1, <2>2
  <1>12. TakesOn(e, b, L, K, x, ep, Live)
    <2>1. Run(e, L, ep, Live)
      BY DEF L
    <2>2. Live \in BOOLEAN /\ ep \in Nat
      OBVIOUS
    <2> QED
      BY ONLY <1>7, <1>11, <2>1, <2>2, TakenRun
  <1>13. sent.hasNewer => x.extends /\ ~sent.error
    BY <1>2, <1>3 DEF Shaped, Extends
  <1>14. GoesOn(b, g, K, N, W, sent, ep, Live)
    <2> DEFINE dn == Tail(d)
    <2>1. dn \in Seq(Messages) /\ A \in Seq(Asks) /\ ep \in Nat /\ Live \in BOOLEAN
      BY <1>1
    <2>2. Run(e, L, ep, Live) /\ K = Sends(dn, A, b, ep) /\ N = Sends(dn, A, g, ep)
      BY DEF L, K, N
    <2> HIDE DEF dn
    <2>3. TakesOn(e, b, L, Sends(dn, A, b, ep), x, ep, Live)
      BY <1>12, <2>2
    <2>4. NextOK(e, sent, ep) /\ g = Continued(b, W, sent, range)
      OBVIOUS
    <2>5. x.request = sent.request /\ x.failed = sent.error
      BY <1>3
    <2>6. GoesOn(b, g, Sends(dn, A, b, ep), Sends(dn, A, g, ep), W, sent, ep, Live)
      BY ONLY <1>6, <1>7, <1>13, <2>1, <2>2, <2>3, <2>4, <2>5, ContinuedRun
    <2> QED
      BY <2>2, <2>6
  <1> QED
    BY <1>5, <1>12, <1>14 DEF Continues, L, K, N

\* A page that has settled the timeline: what is behind it leads on to the end of the store.
Led(u, d, st) ==
  /\ Gapless(EndOf(u.range), Rng(<<>>) \union Brought(d), st)
  /\ Noticed(d, 0) \/ Covers(EndOf(u.range), Rng(<<>>) \union Brought(d), st)
\* Behind a page that settles the timeline nothing is missing.
LEMMA SettledLeads ==
  ASSUME NEW st, NEW s, NEW d, Wire(st, s, d), PagesLead(d, st), d # <<>>, Head(d).type = "page",
         NEW sent, sent = Head(d).page, ~sent.error, NEW page, Forcing(sent, page), NEW u, Settles(u, page)
  PROVE  Led(u, Tail(d), st)
  <1> DEFINE w == BroughtBehind(d, 1)
  <1>1. d \in Seq(Messages) /\ st \in Stores
    BY DEF Wire
  <1>2. 1 \in DOMAIN d /\ d[1] = Head(d) /\ d[1] \in Messages
    BY <1>1
  <1>3. sent \in Pages
    BY <1>2, MessageTypes
  <1>4. /\ Brought(Tail(d)) = w
        /\ Noticed(d, 1) => Noticed(Tail(d), 0)
        /\ PageLeads(d, 1, st)
    BY PagesTaken
  <1>5. Made(w, st)
    BY <1>2, RowsOnTheWay
  <1> HIDE DEF w
  <1>6. Gapless(Top(sent), w, st) /\ (Noticed(d, 1) \/ Covers(Top(sent), w, st))
    BY <1>2, <1>4 DEF PageLeads, w
  <1>7. Rng(<<>>) \union w = w
    <2>1. Rng(<<>>) = {}
      BY DEF Rng
    <2> QED
      BY <2>1
  <1>8. Gapless(EndOf(u.range), w, st) /\ (Noticed(d, 1) \/ Covers(EndOf(u.range), w, st))
    <2>1. CASE EndOf(u.range) = Top(page)
      BY <1>6, <2>1 DEF Forcing
    <2>2. CASE page.max = 0 /\ u.range = NoSpan
      <3>1. Top(sent) = Row(sent.epoch, 0)
        BY <2>2 DEF Forcing, Top
      <3>2. EndOf(u.range) = Row(0, 0)
        BY <2>2 DEF EndOf, NoSpan, Span
      <3>3. sent.epoch \in Nat
        <4>1. sent.epoch \in 0..MaxEpoch
          BY <1>3 DEF Pages
        <4> QED
          BY <4>1, Bounds
      <3>4. /\ Covers(Row(sent.epoch, 0), w, st) => Covers(Row(0, 0), w, st)
            /\ Gapless(Row(sent.epoch, 0), w, st) => Gapless(Row(0, 0), w, st)
        BY <1>1, <1>5, <3>3, EndsLead
      <3> QED
        BY <1>6, <3>1, <3>2, <3>4
    <2> QED
      BY <2>1, <2>2 DEF Settles
  <1> QED
    BY <1>4, <1>7, <1>8 DEF Led

\* What is known when an answer has been taken: of the timeline before and after, t and u, of the
\* catch-up before, after its recovery, without those who waited, and when they have gone on.
Answered(t, k, u, q, sent, page, c, e, b, g, A, d, x, W, frc, st, live) ==
  /\ Wire(st, <<>>, d) /\ PagesLead(d, st) /\ d # <<>> /\ Head(d).type = "page" /\ sent = Head(d).page
  /\ x = OfMessage(Head(d)) /\ W = { f \in e.fetches : Head(d).waited /\ f.request = sent.request }
  /\ t \in Timelines /\ u \in Timelines /\ A \in Seq(Asks)
  /\ Reached(c, Sends(d, A, c, st.epoch), t) /\ TailPlanned(t, k, c)
  /\ LatestOK(t, c, frc, st, <<>>, d) /\ Missed(t, c, st, <<>>, d)
  /\ Turned(t, k, u, q, sent, page) /\ Forcing(sent, page) /\ (frc /\ sent.dir = "tail" => page.reset)
  /\ Recovers(c, e, A, st, d, u, q, sent, page, live)
  /\ Continues(e, b, g, A, d, x, W, sent, st.epoch, live)

\* What is read of it.
LEMMA AnsweredFacts ==
  ASSUME NEW t, NEW k, NEW u, NEW q, NEW sent, NEW page, NEW c, NEW e, NEW b, NEW g, NEW A, NEW d, NEW x, NEW W,
         NEW frc, NEW st, NEW live, Answered(t, k, u, q, sent, page, c, e, b, g, A, d, x, W, frc, st, live)
  PROVE  /\ x.request = sent.request /\ x.waited = Head(d).waited /\ x.failed = sent.error
         /\ x.extends = Extends(sent) /\ sent \in Pages
         /\ sent.hasNewer => x.extends /\ ~sent.error /\ sent.dir = "after"
         /\ ~x.extends => sent.error \/ page.reset \/ sent.dir = "tail"
         /\ Sends(d, A, e, st.epoch)[1] = x /\ 1 \in DOMAIN Sends(d, A, e, st.epoch)
         /\ Brought(Tail(d)) = Brought(d)
         /\ Noticed(d, 0) => Noticed(Tail(d), 0)
         /\ sent.dir = "tail" => sent.request = TailFetch
         /\ sent.request.dir = sent.dir
  <1>1. /\ Wire(st, <<>>, d) /\ PagesLead(d, st) /\ d # <<>> /\ Head(d).type = "page" /\ sent = Head(d).page
        /\ x = OfMessage(Head(d)) /\ Shaped(sent) /\ A \in Seq(Asks) /\ e \in CatchUps
        /\ page.reset = sent.reset \/ (page.reset /\ sent.dir = "tail")
    BY DEF Answered, Turned, Recovers
  <1>2. d \in Seq(Messages) /\ 1 \in DOMAIN d /\ d[1] = Head(d) /\ d[1] \in Messages /\ st.epoch \in Nat
    <2>1. d \in Seq(Messages) /\ st \in Stores
      BY <1>1 DEF Wire
    <2> QED
      BY <1>1, <2>1, RowParts
  <1>3. sent \in Pages
    BY <1>1, <1>2, MessageTypes
  <1>4. /\ x.request = sent.request /\ x.waited = Head(d).waited /\ x.failed = sent.error
        /\ x.extends = Extends(sent)
    BY <1>1 DEF OfMessage, Entry
  <1>5. sent.hasNewer => x.extends /\ ~sent.error /\ sent.dir = "after"
    BY <1>1, <1>3, <1>4 DEF Shaped, Extends
  <1>6. ~x.extends => sent.error \/ page.reset \/ sent.dir = "tail"
    <2>1. sent.dir \in {"tail", "after"} /\ sent.reset \in BOOLEAN
      BY <1>3 DEF Pages
    <2> QED
      BY <1>1, <1>4, <2>1 DEF Shaped, Extends
  <1>7. Sends(d, A, e, st.epoch)[1] = x /\ 1 \in DOMAIN Sends(d, A, e, st.epoch)
    <2>1. A \o SentBy(e) \in Seq(Asks)
      <3>1. e.sent \in Seq(Requests)
        BY <1>1 DEF CatchUps
      <3>2. SentBy(e) \in Seq(Asks)
        BY <3>1, SentEach
      <3> QED
        BY <1>1, <3>2
    <2> QED
      BY <1>1, <1>2, <2>1, LineTakes DEF Sends
  <1>8. /\ Brought(Tail(d)) = BroughtBehind(d, 1)
        /\ Brought(d) = BroughtBehind(d, 1) \union (IF Head(d).type = "event" THEN {Head(d).row} ELSE {})
        /\ Noticed(d, 0) /\ Head(d).type # "notice" => Noticed(Tail(d), 0)
    BY <1>1, PagesTaken
  <1>9. Brought(Tail(d)) = Brought(d) /\ (Noticed(d, 0) => Noticed(Tail(d), 0))
    BY <1>1, <1>8
  <1>10. sent.request.dir = sent.dir
    BY <1>1 DEF Shaped
  <1>11. sent.dir = "tail" => sent.request = TailFetch
    <2>1. sent.request \in Requests
      BY <1>3 DEF Pages
    <2> QED
      BY <1>10, <2>1 DEF Requests
  <1> QED
    BY <1>3, <1>4, <1>5, <1>6, <1>7, <1>9, <1>10, <1>11

\* Timeline v is u with an initialisation that may have opened.
Opened(u, v) ==
  /\ v.synced = u.synced /\ v.range = u.range /\ v.newer = u.newer
  /\ u.synced => v.init = u.init

\* Nothing goes on from past what is held.
LEMMA AnsweredReached ==
  ASSUME NEW t, NEW k, NEW u, NEW q, NEW sent, NEW page, NEW c, NEW e, NEW b, NEW g, NEW A, NEW d, NEW x, NEW W,
         NEW frc, NEW st, NEW live, Answered(t, k, u, q, sent, page, c, e, b, g, A, d, x, W, frc, st, live),
         NEW v, Opened(u, v)
  PROVE  Reached(g, Sends(Tail(d), A, g, st.epoch), v)
  <1> DEFINE ep == st.epoch
             M == Sends(d, A, c, ep)
             L == Sends(d, A, e, ep)
             K == Sends(Tail(d), A, b, ep)
             N == Sends(Tail(d), A, g, ep)
             p == EndOf(u.range)
  <1>1. /\ Reached(c, M, t) /\ t \in Timelines /\ u \in Timelines
        /\ e = c \/ (~sent.error /\ Settles(u, page))
        /\ ~sent.error => Within(e, Sends(Tail(d), A, e, ep), Top(sent))
        /\ Forcing(sent, page) /\ Turned(t, k, u, q, sent, page)
    BY DEF Answered, Recovers
  <1>2. /\ \A z : Within(e, L, z) => Within(b, K, z)
        /\ \A z : (sent.hasNewer => UpTo(Row(sent.epoch, sent.to), z)) /\ Within(b, K, z) => Within(g, N, z)
        /\ b.sent = e.sent /\ b.pending = e.pending
    BY DEF Answered, Continues, TakesOn, GoesOn
  <1>3. Sends(Tail(d), A, e, ep) = K
    BY <1>2 DEF Sends, SentBy
  <1>4. e = c => L = M
    OBVIOUS
  <1>5. sent.hasNewer => ~sent.error
    BY AnsweredFacts
  <1>6. t.range \in Spans /\ u.range \in Spans
    BY <1>1 DEF Timelines
  <1>7. EndOf(t.range) \in Points /\ p \in Points
    BY <1>6, PointTypes
  <1> HIDE DEF L, K, M, N, p
  \* Bounds go on.
  <1>8. ASSUME Has(t), UpTo(EndOf(t.range), p), e = c PROVE Within(b, K, p)
    <2>1. Within(c, M, EndOf(t.range))
      BY <1>1, <1>8 DEF Reached
    <2>2. Run(e, L, ep, live)
      BY DEF Answered, Recovers, L
    <2>3. L \in Lines /\ e.pending \in Requests \union {NoRequest}
      BY <2>2 DEF Run, CatchUps
    <2>4. \A r \in Requests : UpTo(Position(r), EndOf(t.range)) => UpTo(Position(r), p)
      BY <1>7, <1>8, RequestKinds, OrderOfRows
    <2>5. \A i \in DOMAIN L : L[i].request.dir = "after" => L[i].request \in Requests
      <3> TAKE i \in DOMAIN L
      <3>1. L[i].request \in Requests \union {NoRequest}
        BY <2>3, LineEntries
      <3> QED
        BY <3>1, SomeRequests
    <2>6. Within(e, L, p)
      BY <1>4, <1>8, <2>1, <2>3, <2>4, <2>5 DEF Within, Bounded
    <2> QED
      BY <1>2, <2>6
  <1>9. ASSUME ~sent.error, Settles(u, page), Has(u) PROVE Within(b, K, p) /\ ~sent.hasNewer
    <2>1. p = Top(page) /\ ~u.newer
      BY <1>9 DEF Settles, Has, p
    <2>2. p = Top(sent)
      BY <1>1, <2>1 DEF Forcing
    <2>3. Within(e, K, p)
      BY <1>1, <1>3, <1>9, <2>2
    <2>4. sent.hasNewer => u.newer
      BY <1>1, <1>9 DEF Turned, Fits, Detaches, Forcing
    <2> QED
      BY <1>2, <2>1, <2>3, <2>4 DEF Within
  <1>10. ASSUME Has(u) PROVE Within(g, N, p)
    <2>1. CASE sent.error
      <3>1. u.synced = t.synced /\ u.range = t.range /\ e = c
        BY <1>1, <2>1 DEF Turned
      <3>2. Has(t) /\ UpTo(EndOf(t.range), p)
        BY <1>7, <1>10, <3>1, OrderOfRows DEF Has, p
      <3>3. Within(b, K, p)
        BY <1>8, <3>1, <3>2
      <3> QED
        BY <1>2, <1>5, <2>1, <3>3
    <2>2. CASE ~sent.error /\ Settles(u, page)
      <3>1. Within(b, K, p) /\ ~sent.hasNewer
        BY <1>9, <1>10, <2>2
      <3> QED
        BY <1>2, <3>1
    <2>3. CASE ~sent.error /\ ~Settles(u, page)
      <3>1. e = c /\ Fits(t, k, u, q, page)
        BY <1>1, <2>3 DEF Turned
      <3>2. sent.hasNewer
        <4>1. ~Discarded(t, k, u, page)
          BY <1>10 DEF Has, Discarded
        <4> QED
          BY <1>1, <2>3, <3>1, <4>1 DEF Fits, Forcing
      <3>3. UpTo(Row(page.epoch, page.to), EndOf(u.range)) /\ u.synced = t.synced
        BY <1>1, <3>1, <3>2 DEF Fits, Detaches, Forcing
      <3>4. UpTo(Row(sent.epoch, sent.to), p)
        BY <1>1, <3>3 DEF Forcing, p
      <3>5. Has(t)
        <4>1. ~Empty(t) /\ t.synced
          BY <1>1, <1>10, <3>2, <3>3 DEF Turned, Has
        <4> QED
          BY <4>1 DEF Empty, Has
      <3>6. UpTo(EndOf(t.range), p)
        BY <1>1, <1>10, <3>5 DEF Turned, Has, p
      <3>7. Within(b, K, p)
        BY <1>8, <3>1, <3>5, <3>6
      <3> QED
        BY <1>2, <3>4, <3>7
    <2> QED
      BY <2>1, <2>2, <2>3
  <1> QED
    BY <1>10 DEF Reached, Opened, Has, p, N, ep

\* The tail is asked for where nothing is cached.
LEMMA AnsweredTail ==
  ASSUME NEW t, NEW k, NEW u, NEW q, NEW sent, NEW page, NEW c, NEW e, NEW b, NEW g, NEW A, NEW d, NEW x, NEW W,
         NEW frc, NEW st, NEW live, Answered(t, k, u, q, sent, page, c, e, b, g, A, d, x, W, frc, st, live),
         NEW v, Opened(u, v), NEW l, l \in {k, NoSpan}
  PROVE  TailPlanned(v, l, g)
  <1>1. /\ TailPlanned(t, k, c) /\ (t.synced => u.synced)
        /\ OwnsTail(e) => OwnsTail(c)
    BY DEF Answered, Recovers, Turned
  <1>2. OwnsTail(g) => OwnsTail(b)
    BY DEF Answered, Continues, GoesOn
  <1>3. OwnsTail(b) => OwnsTail(e)
    BY DEF Answered, Continues, TakesOn
  <1> QED
    BY <1>1, <1>2, <1>3 DEF TailPlanned, Opened

\* What the answer leaves of the forced tail.
Forces(frc, frcn, W, b, g, sent) ==
  frcn <=> /\ ~\E f \in W : f.kind = "latest"
           /\ (frc /\ ~(frc /\ sent.dir = "tail")) \/ ForcedBy(b.fetches, g.fetches)
\* What the line and those who wait say of the answer.
Heads(e, b, g, x, W, sent, page) ==
  /\ e.status = "complete" \/ HasLatest(e) => ~x.extends
  /\ HasLatest(e) /\ x.failed /\ x.request = TailFetch => x.waited
  /\ x.waited => x.request \notin Wanted(b)
  /\ HasLatest(b) => HasLatest(e) /\ ~\E f \in W : f.kind = "latest"
  /\ x.waited /\ x.failed /\ x.request = TailFetch => TailFetch \in Owned(e)
  /\ e.status = "complete" => Owned(e) = {}
  /\ \A f \in e.fetches : f.kind = "latest" => f.owner /\ f.request = TailFetch
\* What the head of the line, being answered, was waited for by.
LEMMA AnsweredHeads ==
  ASSUME NEW t, NEW k, NEW u, NEW q, NEW sent, NEW page, NEW c, NEW e, NEW b, NEW g, NEW A, NEW d, NEW x, NEW W,
         NEW frc, NEW st, NEW live, Answered(t, k, u, q, sent, page, c, e, b, g, A, d, x, W, frc, st, live)
  PROVE  Heads(e, b, g, x, W, sent, page)
  <1> DEFINE L == Sends(d, A, e, st.epoch)
  <1>1. L[1] = x /\ 1 \in DOMAIN L
    BY AnsweredFacts
  <1>2. Run(e, L, st.epoch, live)
    BY DEF Answered, Recovers
  <1>3. /\ HasLatest(b) => HasLatest(e)
        /\ x.waited => x.request \notin Wanted(b)
        /\ b.fetches = e.fetches \ W
    BY DEF Answered, Continues, TakesOn
  <1> HIDE DEF L
  <1>4. Quiet(e, L) /\ Modes(e, live) /\ OneOwner(e.fetches) /\ LineOK(L, Owned(e), Wanted(e))
    BY <1>2 DEF Run
  <1>5. e.status = "complete" \/ HasLatest(e) => ~x.extends
    BY <1>1, <1>4 DEF Quiet, Harmless
  <1>6. HasLatest(e) /\ x.failed /\ x.request = TailFetch => x.waited
    BY <1>1, <1>4 DEF Quiet, TailsAwaited
  <1>7. \A f \in e.fetches : f.kind = "latest" => f.owner /\ f.request = TailFetch
    BY <1>4 DEF Modes
  <1>8. ASSUME HasLatest(b), NEW f \in W, f.kind = "latest" PROVE FALSE
    <2>1. PICK y \in b.fetches : y.kind = "latest"
      BY <1>8 DEF HasLatest
    <2>2. f \in e.fetches
      BY <1>8 DEF Answered
    <2>3. y \in e.fetches /\ y # f
      BY <1>3, <1>8, <2>1
    <2> QED
      BY <1>4, <1>7, <1>8, <2>1, <2>2, <2>3 DEF OneOwner
  <1>9. x.waited /\ x.failed /\ x.request = TailFetch => TailFetch \in Owned(e)
    BY <1>1, <1>4 DEF LineOK, EntryOK
  <1>10. e.status = "complete" => Owned(e) = {}
    BY <1>4 DEF Modes, Owned
  <1> QED
    BY <1>3, <1>5, <1>6, <1>7, <1>8, <1>9, <1>10 DEF Heads

\* An answer that fits without rows behind it to come settles the timeline.
LEMMA AnsweredSettles ==
  ASSUME NEW t, NEW k, NEW u, NEW q, NEW sent, NEW page, NEW c, NEW e, NEW b, NEW g, NEW A, NEW d, NEW x, NEW W,
         NEW frc, NEW st, NEW live, Answered(t, k, u, q, sent, page, c, e, b, g, A, d, x, W, frc, st, live),
         ~sent.error, ~sent.hasNewer, t.synced \/ page.reset \/ sent.dir # "tail" \/ k = NoSpan
  PROVE  /\ u.synced /\ ~u.newer /\ Led(u, Tail(d), st)
         /\ page.reset => u.init = "none"
         /\ t.init = "none" => u.init = "none"
  <1>1. /\ Fits(t, k, u, q, page) /\ Forcing(sent, page) /\ Wire(st, <<>>, d) /\ PagesLead(d, st) /\ d # <<>>
        /\ Head(d).type = "page" /\ sent = Head(d).page
    BY DEF Answered, Turned
  <1>2. ~page.hasNewer /\ page.dir = sent.dir
    BY <1>1 DEF Forcing
  <1>3. Settles(u, page)
    BY <1>1, <1>2 DEF Fits, Discarded
  <1>4. Led(u, Tail(d), st)
    BY <1>1, <1>3, SettledLeads
  <1> QED
    BY <1>1, <1>3, <1>4 DEF Fits, Settles

\* The tail that a fallback asks for still replaces the timeline.
LEMMA AnsweredLatest ==
  ASSUME NEW t, NEW k, NEW u, NEW q, NEW sent, NEW page, NEW c, NEW e, NEW b, NEW g, NEW A, NEW d, NEW x, NEW W,
         NEW frc, NEW st, NEW live, Answered(t, k, u, q, sent, page, c, e, b, g, A, d, x, W, frc, st, live),
         NEW v, Opened(u, v), NEW frcn, Forces(frc, frcn, W, b, g, sent)
  PROVE  LatestOK(v, g, frcn, st, <<>>, Tail(d))
  <1>1. Heads(e, b, g, x, W, sent, page)
    BY AnsweredHeads
  <1>2. /\ x.request = sent.request /\ x.failed = sent.error
        /\ sent.hasNewer => x.extends /\ ~sent.error /\ sent.dir = "after"
        /\ ~x.extends => sent.error \/ page.reset \/ sent.dir = "tail"
        /\ Brought(Tail(d)) = Brought(d)
        /\ sent.dir = "tail" => sent.request = TailFetch
    BY AnsweredFacts
  <1>3. /\ HasLatest(g) => HasLatest(b) \/ sent.hasNewer
        /\ HasLatest(e) => HasLatest(c)
        /\ HasLatest(c) => e = c
        /\ W \subseteq e.fetches /\ b.fetches = e.fetches \ W
        /\ LatestOK(t, c, frc, st, <<>>, d)
        /\ Turned(t, k, u, q, sent, page) /\ Forcing(sent, page)
        /\ frc /\ sent.dir = "tail" => page.reset
    BY DEF Answered, Recovers, Continues, GoesOn
  <1>4. ASSUME HasLatest(g), sent.hasNewer PROVE frcn /\ v.newer
    <2>1. ~HasLatest(e) /\ ~HasLatest(b)
      BY <1>1, <1>2, <1>4 DEF Heads
    <2>2. ~\E f \in W : f.kind = "latest"
      BY <1>3, <2>1 DEF HasLatest
    <2>3. ForcedBy(b.fetches, g.fetches)
      BY <1>4, <2>1 DEF HasLatest, ForcedBy
    <2>4. u.newer
      BY <1>2, <1>3, <1>4 DEF Turned, Fits, Detaches, Forcing
    <2> QED
      BY <2>2, <2>3, <2>4 DEF Forces, Opened
  <1>5. ASSUME HasLatest(g), ~sent.hasNewer
        PROVE  /\ frcn \/ (v.synced /\ v.init = "none")
               /\ \/ ~v.synced \/ v.newer
                  \/ Gapless(EndOf(v.range), Rng(<<>>) \union Brought(Tail(d)), st)
    <2>1. HasLatest(b) /\ HasLatest(e) /\ HasLatest(c) /\ e = c
      BY <1>1, <1>3, <1>5 DEF Heads
    <2>2. ~x.extends /\ (~\E f \in W : f.kind = "latest")
      BY <1>1, <2>1 DEF Heads
    <2>3. /\ frc \/ (t.synced /\ t.init = "none")
          /\ \/ ~t.synced \/ t.newer
             \/ Gapless(EndOf(t.range), Rng(<<>>) \union Brought(d), st)
      BY <1>3, <2>1 DEF LatestOK
    <2>4. ASSUME sent.error, sent.dir = "tail" PROVE FALSE
      <3>1. x.waited /\ TailFetch \notin Wanted(b)
        BY <1>1, <1>2, <2>1, <2>4 DEF Heads
      <3>2. PICK y \in b.fetches : y.kind = "latest"
        BY <2>1 DEF HasLatest
      <3>3. y.request = TailFetch
        BY <1>1, <1>3, <3>2 DEF Heads
      <3> QED
        BY <3>1, <3>2, <3>3 DEF Wanted
    <2>5. CASE sent.error
      <3>1. u.synced = t.synced /\ u.range = t.range /\ u.newer = t.newer /\ u.init = "none"
        BY <1>3, <2>5 DEF Turned
      <3>2. sent.dir # "tail"
        BY <2>4, <2>5
      <3>3. frc => frcn
        BY <2>2, <3>2 DEF Forces
      <3> QED
        BY <1>2, <2>3, <3>1, <3>3 DEF Opened
    <2>6. CASE ~sent.error
      <3>1. page.reset \/ sent.dir = "tail"
        BY <1>2, <2>2, <2>6
      <3>2. t.synced \/ page.reset \/ sent.dir # "tail" \/ k = NoSpan
        BY <1>3, <2>3
      <3>3. /\ u.synced /\ ~u.newer /\ Led(u, Tail(d), st)
            /\ page.reset => u.init = "none"
            /\ t.init = "none" => u.init = "none"
        BY <1>5, <2>6, <3>2, AnsweredSettles
      <3>4. u.init = "none"
        BY <1>3, <2>3, <3>1, <3>3
      <3>5. Gapless(EndOf(v.range), Rng(<<>>) \union Brought(Tail(d)), st)
        BY <3>3 DEF Led, Opened
      <3> QED
        BY <3>3, <3>4, <3>5 DEF Opened
    <2> QED
      BY <2>5, <2>6
  <1> QED
    BY <1>4, <1>5 DEF LatestOK

\* A catch-up that the answer completes has missed nothing, nor has one that was complete.
LEMMA AnsweredMissed ==
  ASSUME NEW t, NEW k, NEW u, NEW q, NEW sent, NEW page, NEW c, NEW e, NEW b, NEW g, NEW A, NEW d, NEW x, NEW W,
         NEW frc, NEW st, NEW live, Answered(t, k, u, q, sent, page, c, e, b, g, A, d, x, W, frc, st, live),
         NEW v, Opened(u, v)
  PROVE  Missed(v, g, st, <<>>, Tail(d))
  <1>1. Heads(e, b, g, x, W, sent, page)
    BY AnsweredHeads
  <1>2. /\ x.request = sent.request /\ x.failed = sent.error /\ x.waited = Head(d).waited
        /\ sent.hasNewer => x.extends /\ ~sent.error /\ sent.dir = "after"
        /\ Brought(Tail(d)) = Brought(d)
        /\ Noticed(d, 0) => Noticed(Tail(d), 0)
        /\ sent.dir = "tail" => sent.request = TailFetch
        /\ sent.request.dir = sent.dir
    BY AnsweredFacts
  <1>3. /\ g.status = "complete" => g = b \/ Finishes(W, sent)
        /\ HasLatest(e) => HasLatest(c)
        /\ OwnsTail(e) => OwnsTail(c)
        /\ e.status = "complete" => e = c
        /\ b.status = e.status /\ b.fetches = e.fetches \ W
        /\ W = { f \in e.fetches : Head(d).waited /\ f.request = sent.request }
        /\ LatestOK(t, c, frc, st, <<>>, d) /\ TailPlanned(t, k, c) /\ Missed(t, c, st, <<>>, d)
        /\ Turned(t, k, u, q, sent, page)
        /\ frc /\ sent.dir = "tail" => page.reset
    BY DEF Answered, Recovers, Continues, GoesOn
  <1>4. ASSUME ~sent.error, ~sent.hasNewer, t.synced \/ page.reset \/ sent.dir # "tail" \/ k = NoSpan
        PROVE  /\ v.synced /\ ~v.newer
               /\ \/ Noticed(Tail(d), 0)
                  \/ Covers(EndOf(v.range), Rng(<<>>) \union Brought(Tail(d)), st)
    <2>1. u.synced /\ ~u.newer /\ Led(u, Tail(d), st)
      BY <1>4, AnsweredSettles
    <2> QED
      BY <2>1 DEF Opened, Led
  <1>5. ASSUME g = b, g.status = "complete"
        PROVE  /\ v.synced /\ ~v.newer
               /\ \/ Noticed(Tail(d), 0) \/ TailFetch \in Wanted(g)
                  \/ Covers(EndOf(v.range), Rng(<<>>) \union Brought(Tail(d)), st)
    <2>1. e = c /\ c.status = "complete" /\ e.status = "complete"
      BY <1>3, <1>5
    <2>2. /\ t.synced /\ ~t.newer
          /\ \/ Noticed(d, 0) \/ TailFetch \in Wanted(c)
             \/ Covers(EndOf(t.range), Rng(<<>>) \union Brought(d), st)
      BY <1>3, <2>1 DEF Missed
    <2>3. ~x.extends /\ Owned(e) = {}
      BY <1>1, <2>1 DEF Heads
    <2>4. CASE sent.error
      <3>1. u.synced = t.synced /\ u.range = t.range /\ u.newer = t.newer
        BY <1>3, <2>4 DEF Turned
      <3>2. ASSUME TailFetch \in Wanted(e) PROVE TailFetch \in Wanted(b)
        <4>1. PICK f \in e.fetches : f.request = TailFetch
          BY <3>2 DEF Wanted
        <4>2. f \notin W
          BY <1>1, <1>2, <1>3, <2>3, <2>4, <4>1 DEF Heads
        <4> QED
          BY <1>3, <4>1, <4>2 DEF Wanted
      <3> QED
        BY <1>2, <1>5, <2>1, <2>2, <3>1, <3>2 DEF Opened
    <2>5. CASE ~sent.error
      BY <1>2, <1>4, <2>2, <2>3, <2>5
    <2> QED
      BY <2>4, <2>5
  <1>6. ASSUME Finishes(W, sent)
        PROVE  /\ v.synced /\ ~v.newer
               /\ \/ Noticed(Tail(d), 0)
                  \/ Covers(EndOf(v.range), Rng(<<>>) \union Brought(Tail(d)), st)
    <2>1. ~sent.error
      BY <1>6 DEF Finishes
    <2>2. PICK f \in W : f.owner /\ (f.kind = "latest" \/ (f.kind = "page" /\ ~sent.hasNewer))
      BY <1>6 DEF Finishes
    <2>3. f \in e.fetches /\ f.request = sent.request
      BY <1>3, <2>2
    <2>4. TailFetch.dir = "tail"
      BY DEF TailFetch, Request
    <2>5. ~sent.hasNewer
      BY <1>1, <1>2, <2>2, <2>3, <2>4 DEF Heads
    <2>6. CASE f.kind = "latest"
      <3>1. HasLatest(c)
        BY <1>3, <2>3, <2>6 DEF HasLatest
      <3>2. frc \/ t.synced
        BY <1>3, <3>1 DEF LatestOK
      <3> QED
        BY <1>3, <1>4, <2>1, <2>5, <3>2
    <2>7. CASE f.kind = "page"
      <3>1. sent.dir = "tail" => OwnsTail(c)
        BY <1>2, <1>3, <2>2, <2>3, <2>7 DEF OwnsTail
      <3>2. sent.dir = "tail" /\ ~t.synced => k = NoSpan
        BY <1>3, <3>1 DEF TailPlanned
      <3> QED
        BY <1>4, <2>1, <2>5, <3>2
    <2> QED
      BY <2>2, <2>6, <2>7
  <1> QED
    BY <1>3, <1>5, <1>6 DEF Missed

\* What may be asked for next, when the catch-up keeps to what the timeline allows.
LEMMA NextAllowed ==
  ASSUME NEW u, NEW l, NEW c, NEW A, NEW span, NEW st, NEW d, ClientInv(u, l, c, A, span, st, <<>>, d),
         NEW J, NEW P, J = Jobs(u, l, st, <<>>, d), P = Pendings(u, l, st, <<>>, d),
         NEW e, CatchUpIn(e, J, P), NEW sent, \A f \in J : f.request = sent.request => GoesOnIn(f, sent, J)
  PROVE  /\ NextOK(e, sent, st.epoch)
         /\ \A q \in P : q.dir = "after" => q.epoch <= st.epoch
  <1>1. \A r \in Requests : RequestOK(r, u, l, st, <<>>, d) /\ r.dir = "after" => r.epoch <= st.epoch
    <2> DEFINE s == <<>>
    <2>1. ClientInv(u, l, c, A, span, st, s, d)
      OBVIOUS
    <2> HIDE DEF s
    <2>2. \A r \in Requests : RequestOK(r, u, l, st, s, d) /\ r.dir = "after" => r.epoch <= st.epoch
      BY <2>1, AsksUpTo
    <2> QED
      BY <2>2 DEF s
  <1>2. NoRequest.dir = "none"
    BY DEF NoRequest, Request
  <1>3. \A q \in P : /\ q \in Requests \union {NoRequest} /\ q # TailFetch
                     /\ RequestOK(q, u, l, st, <<>>, d)
    BY DEF Pendings
  <1>4. \A q \in P : q # NoRequest => q \in Requests /\ q.dir = "after" /\ q.epoch <= st.epoch
    BY <1>1, <1>3, RequestKinds
  <1>5. ASSUME NEW f \in J, GoesOnIn(f, sent, J), sent.hasNewer, f.kind = "page", ~f.fallback
        PROVE  CatchUpAfter(sent.epoch, sent.to) \in Requests /\ sent.epoch <= st.epoch
    <2> DEFINE r == CatchUpAfter(sent.epoch, sent.to)
               g == Fetch("page", r, TRUE, FALSE)
    <2>1. g \in J
      BY <1>5 DEF GoesOnIn
    <2>2. g.request = r /\ r.dir = "after" /\ r.epoch = sent.epoch
      BY DEF Fetch, CatchUpAfter, Request
    <2> HIDE DEF g
    <2>3. g \in Fetches /\ RequestOK(r, u, l, st, <<>>, d)
      BY <2>1, <2>2 DEF Jobs
    <2>4. r \in Requests
      BY <2>2, <2>3 DEF Fetches
    <2> QED
      BY <1>1, <2>2, <2>3, <2>4
  <1>6. e.fetches \subseteq J /\ e.pending \in P
    BY DEF CatchUpIn
  <1>7. NextOK(e, sent, st.epoch)
    BY <1>4, <1>5, <1>6 DEF NextOK
  <1> QED
    BY <1>2, <1>4, <1>7

\* The answer at the head of d, as it is applied and as it makes g of catch-up c.
Answering(t, k, u, q, sent, page, c, e, b, g, d, x, W, frc, range, next) ==
  /\ d # <<>> /\ Head(d).type = "page" /\ sent = Head(d).page /\ x = OfMessage(Head(d))
  /\ page = [sent EXCEPT !.reset = sent.reset \/ (frc /\ sent.dir = "tail")]
  /\ u = PageApplied(t, k, page) /\ q = PageRecovery(t, k, page)
  /\ e = Recovered(c, q, range)
  /\ W = { f \in e.fetches : Head(d).waited /\ f.request = sent.request }
  /\ b = [e EXCEPT !.fetches = e.fetches \ W]
  /\ g = Continued(b, W, sent, next)

\* An answer is applied to timeline t while the catch-up, c, is what a frame has made of b0.
LEMMA PageAnswers ==
  ASSUME NEW t, NEW k, NEW b0, NEW A, NEW span, NEW st, NEW d, ClientInv(t, k, b0, A, span, st, <<>>, d),
         NEW c, MovesIn(b0, c, Jobs(t, k, st, <<>>, d), Pendings(t, k, st, <<>>, d)), Live \in BOOLEAN,
         Run(c, Sends(d, A, c, st.epoch), st.epoch, Live), Reached(c, Sends(d, A, c, st.epoch), t),
         TailPlanned(t, k, c), NEW frc \in BOOLEAN, LatestOK(t, c, frc, st, <<>>, d), Missed(t, c, st, <<>>, d),
         PagesLead(d, st), NEW u, NEW q, NEW sent, NEW page, NEW e, NEW W, NEW b, NEW g, NEW x, NEW range, NEW next,
         Answering(t, k, u, q, sent, page, c, e, b, g, d, x, W, frc, range, next)
  PROVE  Answered(t, k, u, q, sent, page, c, e, b, g, A, d, x, W, frc, st, Live)
  <1> DEFINE s == <<>>
             J == Jobs(t, k, st, s, d)
             P == Pendings(t, k, st, s, d)
             l == CachedAfter(u, k)
             dn == Tail(d)
             Jn == Jobs(u, l, st, s, dn)
             Pn == Pendings(u, l, st, s, dn)
             forcing == frc /\ sent.dir = "tail"
  <1>0. /\ d # <<>> /\ Head(d).type = "page" /\ sent = Head(d).page /\ x = OfMessage(Head(d))
        /\ u = PageApplied(t, k, page) /\ q = PageRecovery(t, k, page)
        /\ e = Recovered(c, q, range)
        /\ W = { f \in e.fetches : Head(d).waited /\ f.request = sent.request }
        /\ b = [e EXCEPT !.fetches = e.fetches \ W]
        /\ g = Continued(b, W, sent, next)
    BY DEF Answering
  <1>1. Wire(st, s, d) /\ t \in Timelines /\ A \in Seq(Asks) /\ c \in CatchUps /\ st.epoch \in Nat /\ d \in Seq(Messages)
    <2>1. Wire(st, s, d) /\ t \in Timelines /\ A \in Seq(Asks)
      BY DEF ClientInv, ClientOK, AskedOK
    <2>2. st \in Stores /\ d \in Seq(Messages)
      BY <2>1 DEF Wire
    <2> QED
      BY <2>1, <2>2, RowParts DEF Run
  <1>2. /\ ClientInv(t, k, Settled(c), A \o SentBy(c), span, st, s, d)
    <2> DEFINE F == c.fetches
    <2>1. InitializedBy(t, F, c.fetches) = t
      BY DEF InitializedBy
    <2>2. ClientInv(t, k, b0, A, span, st, s, d) /\ MovesIn(b0, c, J, P)
      OBVIOUS
    <2> HIDE DEF F, s
    <2>3. ClientInv(InitializedBy(t, F, c.fetches), k, Settled(c), A \o SentBy(c), span, st, s, d)
      BY <2>2, CatchUpMoves
    <2> QED
      BY <2>1, <2>3
  <1>3. Reached(Settled(c), Line(d, A \o SentBy(c), st.epoch), t)
    BY <1>1, SettledAlike, AlikeRun DEF Sends
  <1>4. forcing \in BOOLEAN /\ (forcing => sent.dir = "tail") /\ page = [sent EXCEPT !.reset = sent.reset \/ forcing]
    BY DEF Answering
  <1>5. l = CachedAfter(u, k) /\ dn = Tail(d)
    OBVIOUS
  <1>6. /\ ClientInv(u, l, b0, A, span, st, s, dn) /\ P \subseteq Pn /\ q \in Pn
        /\ \A f \in Jn : f.request = sent.request => GoesOnIn(f, sent, Jn)
    <2>1. /\ d # <<>> /\ Head(d).type = "page" /\ sent = Head(d).page /\ u = PageApplied(t, k, page)
          /\ ClientInv(t, k, b0, A, span, st, <<>>, d)
      BY <1>0
    <2> HIDE DEF forcing, l
    <2>2. /\ ClientInv(u, l, b0, A, span, st, <<>>, Tail(d))
          /\ Pendings(t, k, st, <<>>, d) \subseteq Pendings(u, l, st, <<>>, Tail(d))
          /\ PageRecovery(t, k, page) \in Pendings(u, l, st, <<>>, Tail(d))
          /\ \A f \in Jobs(u, l, st, <<>>, Tail(d)) :
               f.request = sent.request => GoesOnIn(f, sent, Jobs(u, l, st, <<>>, Tail(d)))
      BY ONLY <1>4, <1>5, <2>1, PageKeeps
    <2> QED
      BY <1>0, <2>2
  <1>7. Turned(t, k, u, q, sent, page) /\ Forcing(sent, page) /\ page.reset = (sent.reset \/ forcing)
    <2> DEFINE c0 == Settled(c)
               A0 == A \o SentBy(c)
    <2>1. ClientInv(t, k, c0, A0, span, st, <<>>, d) /\ Reached(c0, Line(d, A0, st.epoch), t)
      BY <1>2, <1>3
    <2> HIDE DEF forcing, c0, A0
    <2>2. /\ d # <<>> /\ Head(d).type = "page" /\ sent = Head(d).page
          /\ u = PageApplied(t, k, page) /\ q = PageRecovery(t, k, page)
      BY <1>0
    <2> QED
      BY ONLY <1>4, <2>1, <2>2, PageTurns
  <1>8. CatchUpIn(e, Jn, Pn)
    <2>1. CatchUpIn(c, Jn, Pn)
      <3>1. MovesIn(b0, c, J, P)
        OBVIOUS
      <3>2. ClientInv(t, k, c, A, span, st, <<>>, d)
        <4>1. ClientInv(t, k, Settled(c), A \o SentBy(c), span, st, <<>>, d)
          BY <1>2
        <4> QED
          BY <3>1, <4>1 DEF ClientInv, CacheOK, MovesIn
      <3>3. ClientInv(u, l, c, A, span, st, <<>>, dn)
        <4> HIDE DEF forcing, l
        <4> QED
          BY <1>0, <1>4, <1>5, <3>2, PageKeeps
      <3> QED
        BY <3>3 DEF ClientInv
    <2>2. Allowed(Jn, Pn)
      BY JobsAllowed
    <2> HIDE DEF Jn, Pn
    <2>3. Live \in BOOLEAN /\ q \in Pn
      BY <1>6
    <2>4. MovesIn(c, Recovered(c, q, range), Jn, Pn)
      BY ONLY <2>1, <2>2, <2>3, RecoveredIn
    <2> QED
      BY <1>0, <2>4 DEF MovesIn
  <1>9. NextOK(e, sent, st.epoch) /\ \A r \in Pn : r.dir = "after" => r.epoch <= st.epoch
    <2>1. ClientInv(u, l, b0, A, span, st, <<>>, dn) /\ Jn = Jobs(u, l, st, <<>>, dn) /\ Pn = Pendings(u, l, st, <<>>, dn)
      BY <1>6
    <2> HIDE DEF Jn, Pn, l, dn
    <2> QED
      BY ONLY <1>6, <1>8, <2>1, NextAllowed
  <1>10. frc /\ sent.dir = "tail" => page.reset
    BY <1>7
  <1>11. Recovers(c, e, A, st, d, u, q, sent, page, Live)
    <2>1. ClientInv(t, k, Settled(c), A \o SentBy(c), span, st, s, d) /\ LatestOK(t, c, frc, st, s, d)
      BY <1>2
    <2>2. q.dir = "after" => q.epoch <= st.epoch
      BY <1>6, <1>9
    <2>3. d # <<>> /\ Head(d).type = "page" /\ sent = Head(d).page /\ Live \in BOOLEAN
          /\ Run(c, Sends(d, A, c, st.epoch), st.epoch, Live)
          /\ e = Recovered(c, q, range)
      BY <1>0
    <2> HIDE DEF s
    <2> QED
      BY ONLY <1>1, <1>7, <1>10, <2>1, <2>2, <2>3, PageRecovers
  <1>12. Continues(e, b, g, A, d, x, W, sent, st.epoch, Live)
    <2>1. Run(e, Sends(d, A, e, st.epoch), st.epoch, Live)
      BY <1>11 DEF Recovers
    <2>2. Shaped(sent)
      BY <1>7 DEF Turned
    <2> DEFINE ep == st.epoch
    <2>3. /\ d # <<>> /\ Head(d).type = "page" /\ sent = Head(d).page /\ Live \in BOOLEAN
          /\ W = { f \in e.fetches : Head(d).waited /\ f.request = sent.request }
          /\ b = [e EXCEPT !.fetches = e.fetches \ W]
          /\ g = Continued(b, W, sent, next) /\ x = OfMessage(Head(d))
      BY <1>0
    <2>4. /\ ep \in Nat /\ Run(e, Sends(d, A, e, ep), ep, Live) /\ NextOK(e, sent, ep)
          /\ A \in Seq(Asks) /\ d \in Seq(Messages)
      BY <1>1, <1>9, <2>1
    <2> HIDE DEF ep
    <2>5. Continues(e, b, g, A, d, x, W, sent, ep, Live)
      BY ONLY <2>2, <2>3, <2>4, PageContinues
    <2> QED
      BY <2>5 DEF ep
  <1>13. u \in Timelines
    BY <1>6 DEF ClientInv, ClientOK
  <1> QED
    BY <1>0, <1>1, <1>7, <1>10, <1>11, <1>12, <1>13 DEF Answered

\* An initialisation is opened only for a timeline that is not authoritative.
LEMMA InitialisedOpens ==
  ASSUME NEW t \in Timelines, NEW F, NEW c \in CatchUps, NEW u, u = InitializedBy(t, F, c.fetches)
  PROVE  Opened(t, u)
  <1>1. u.synced = t.synced /\ u.range = t.range /\ u.newer = t.newer
    BY SameEnds
  <1>2. t.synced => u = t
    BY DEF InitializedBy, Initializing
  <1> QED
    BY <1>1, <1>2 DEF Opened

\* What an answer leaves of the invariant.
LEMMA AnswerLeaves ==
  ASSUME NEW t, NEW k, NEW u, NEW q, NEW sent, NEW page, NEW c, NEW e, NEW b, NEW g, NEW A, NEW d, NEW x, NEW W,
         NEW frc, NEW st, NEW live, Answered(t, k, u, q, sent, page, c, e, b, g, A, d, x, W, frc, st, live),
         NEW v, v = InitializedBy(u, b.fetches, g.fetches), NEW l, l \in {k, NoSpan},
         NEW frcn, Forces(frc, frcn, W, b, g, sent)
  PROVE  /\ CaughtUp(v, l, Settled(g), A \o SentBy(g), frcn, st, <<>>, Tail(d), live)
         /\ g \in CatchUps
  <1> DEFINE N == Sends(Tail(d), A, g, st.epoch)
             s == <<>>
  <1>1. Run(g, N, st.epoch, live) /\ u \in Timelines /\ Wire(st, s, d) /\ PagesLead(d, st) /\ d # <<>>
    BY DEF Answered, Continues, GoesOn
  <1>2. g \in CatchUps
    BY <1>1 DEF Run
  <1>3. Opened(u, v)
    <2> DEFINE F == b.fetches
    <2>1. v = InitializedBy(u, F, g.fetches)
      OBVIOUS
    <2> HIDE DEF F
    <2> QED
      BY ONLY <1>1, <1>2, <2>1, InitialisedOpens
  <1>4. Reached(g, N, v)
    BY <1>3, AnsweredReached
  <1>5. TailPlanned(v, l, g)
    BY <1>3, AnsweredTail
  <1>6. LatestOK(v, g, frcn, st, s, Tail(d))
    BY <1>3, AnsweredLatest
  <1>7. Missed(v, g, st, s, Tail(d))
    BY <1>3, AnsweredMissed
  <1>8. PastPages(Tail(d), s)
    BY DEF PastPages
  <1> HIDE DEF s
  <1>9. PagesLead(Tail(d), st)
    BY <1>1, PagesTaken
  <1>10. N = Line(Tail(d), A \o SentBy(g), st.epoch)
    BY DEF Sends
  <1> HIDE DEF N
  <1>11. Alike(g, Settled(g)) /\ Settled(g).sent = <<>>
    BY <1>2, SettledAlike
  <1>12. /\ Run(Settled(g), N, st.epoch, live) /\ Reached(Settled(g), N, v) /\ TailPlanned(v, l, Settled(g))
         /\ LatestOK(v, Settled(g), frcn, st, s, Tail(d)) /\ Missed(v, Settled(g), st, s, Tail(d))
    BY <1>1, <1>4, <1>5, <1>6, <1>7, <1>11, AlikeRun
  <1>13. CaughtUp(v, l, Settled(g), A \o SentBy(g), frcn, st, s, Tail(d), live)
    BY <1>8, <1>9, <1>10, <1>11, <1>12 DEF CaughtUp
  <1> QED
    BY <1>2, <1>13 DEF s

\* An answer arrives.
LEMMA ReceivePageCaught ==
  ASSUME Inv, Inv2, ReceivePage
  PROVE  Inv2' /\ MoreAsked(asked, asked')
  <1> DEFINE d == Tail(down)
             sent == Head(down).page
             forcing == forced /\ sent.dir = "tail"
             page == [sent EXCEPT !.reset = sent.reset \/ forcing]
             t1 == Flushed.timeline
             k1 == CachedAfter(t1, cached)
             recoveries == Flushed.recoveries
             span1 == ReadCursor(t1, k1)
             c1 == FlushedCatchUp(span1)
             t2 == PageApplied(t1, k1, page)
             k2 == CachedAfter(t2, k1)
             l == IF page.error THEN k1 ELSE k2
             span2 == ReadCursor(t2, k1)
             span == ReadCursor(t2, k2)
             q == PageRecovery(t1, k1, page)
             c2 == Recovered(c1, q, span2)
             W == { f \in c2.fetches : Head(down).waited /\ f.request = sent.request }
             b == [c2 EXCEPT !.fetches = c2.fetches \ W]
             c3 == Continued(b, W, sent, span)
             B == asked \o SentBy(c3)
             u == InitializedBy(t2, c2.fetches \ W, c3.fetches)
             force == IF \E f \in W : f.kind = "latest" THEN FALSE
                      ELSE (forced /\ ~forcing) \/ ForcedBy(c2.fetches \ W, c3.fetches)
             x == OfMessage(Head(down))
             s == <<>>
  <1>1. /\ down # <<>> /\ Head(down).type = "page" /\ down' = d /\ stream' = s /\ store' = store
        /\ subscribed' = subscribed /\ connected' = connected /\ subscription' = subscription
    BY DEF ReceivePage, server
  <1>2. /\ catchUp' = Settled(c3) /\ asked' = B /\ timeline' = u /\ cached' = l /\ forced' = force
    BY DEF ReceivePage
  <1>3. l \in {k1, NoSpan}
    BY DEF CachedAfter
  <1>4. /\ Relayed(connected, subscribed, subscription, asked, down)
        /\ CaughtUp(timeline, cached, catchUp, asked, forced, store, stream, down, Live)
        /\ ClientInv(timeline, cached, catchUp, asked, stored, store, stream, down)
        /\ Live \in BOOLEAN /\ (~subscribed => down = <<>>) /\ forced \in BOOLEAN
        /\ asked \in Seq(Asks) /\ down \in Seq(Messages)
    <2>1. forced \in BOOLEAN
      BY InvFacts DEF Flags
    <2> QED
      BY <2>1, Inv2Facts
  <1>5. PagesLead(down, store)
    BY <1>4 DEF CaughtUp
  <1>6. Framed(timeline, cached, catchUp, t1, c1, asked, forced, store, down, Live)
    BY FrameCaught
  <1>7. /\ ClientInv(t1, k1, catchUp, asked, stored, store, s, down)
        /\ recoveries \in Seq(Pendings(t1, k1, store, s, down))
    <2>1. t1 = BatchApplied(timeline, stream).timeline /\ recoveries = BatchApplied(timeline, stream).recoveries
      BY DEF Flushed
    <2> HIDE DEF t1, recoveries
    <2> QED
      BY <1>4, <2>1, Drained
  <1>8. Answering(t1, k1, t2, q, sent, page, c1, c2, b, c3, down, x, W, forced, span2, span)
    <2>1. sent = Head(down).page /\ page = [sent EXCEPT !.reset = sent.reset \/ (forced /\ sent.dir = "tail")]
          /\ t2 = PageApplied(t1, k1, page) /\ q = PageRecovery(t1, k1, page) /\ c2 = Recovered(c1, q, span2)
          /\ W = { f \in c2.fetches : Head(down).waited /\ f.request = sent.request }
          /\ b = [c2 EXCEPT !.fetches = c2.fetches \ W] /\ c3 = Continued(b, W, sent, span) /\ x = OfMessage(Head(down))
      OBVIOUS
    <2> HIDE DEF t1, k1, c1, recoveries, span1, t2, k2, l, span2, span, q, page, sent, forcing, force, x, u, B, d, c2, W, b, c3
    <2> QED
      BY <1>1, <2>1 DEF Answering
  <1>9. u = InitializedBy(t2, c2.fetches \ W, c3.fetches) /\ B = asked \o SentBy(c3)
        /\ (force <=> /\ ~\E f \in W : f.kind = "latest"
                      /\ (forced /\ ~(forced /\ sent.dir = "tail")) \/ ForcedBy(c2.fetches \ W, c3.fetches))
    OBVIOUS
  <1>10. MovesIn(catchUp, c1, Jobs(t1, k1, store, s, down), Pendings(t1, k1, store, s, down))
    <2> DEFINE J == Jobs(t1, k1, store, s, down)
               P == Pendings(t1, k1, store, s, down)
    <2>1. CatchUpIn(catchUp, J, P) /\ recoveries \in Seq(P)
      BY <1>7 DEF ClientInv
    <2>2. Allowed(J, P)
      BY JobsAllowed
    <2> HIDE DEF J, P
    <2>3. MovesIn(catchUp, c1, J, P)
      BY ONLY <1>4, <2>1, <2>2, FlushedIn DEF recoveries, c1
    <2> QED
      BY <2>3 DEF J, P
  <1> HIDE DEF t1, k1, c1, recoveries, span1, t2, k2, l, span2, span, q, page, sent, forcing, force, x, u, B, d
  <1>11. /\ Run(c1, Sends(down, asked, c1, store.epoch), store.epoch, Live)
         /\ Reached(c1, Sends(down, asked, c1, store.epoch), t1)
         /\ TailPlanned(t1, k1, c1) /\ LatestOK(t1, c1, forced, store, s, down) /\ Missed(t1, c1, store, s, down)
    BY <1>6 DEF Framed, k1
  <1> HIDE DEF c2, W, b, c3
  <1>12. Answered(t1, k1, t2, q, sent, page, c1, c2, b, c3, asked, down, x, W, forced, store, Live)
    <2>1. /\ ClientInv(t1, k1, catchUp, asked, stored, store, <<>>, down)
          /\ MovesIn(catchUp, c1, Jobs(t1, k1, store, <<>>, down), Pendings(t1, k1, store, <<>>, down))
          /\ LatestOK(t1, c1, forced, store, <<>>, down) /\ Missed(t1, c1, store, <<>>, down)
      BY <1>7, <1>10, <1>11 DEF s
    <2> QED
      BY ONLY <1>4, <1>5, <1>8, <1>11, <2>1, PageAnswers
  <1>13. b.fetches = c2.fetches \ W
    BY <1>12 DEF Answered, Continues
  <1>14. Forces(forced, force, W, b, c3, sent)
    BY <1>9, <1>13 DEF Forces
  <1>15. u = InitializedBy(t2, b.fetches, c3.fetches)
    BY <1>9, <1>13
  <1>16. CaughtUp(u, l, Settled(c3), B, force, store, s, d, Live) /\ c3 \in CatchUps
    BY ONLY <1>3, <1>9, <1>12, <1>14, <1>15, AnswerLeaves DEF s, d
  <1>17. Relayed(connected, subscribed, subscription, B, d)
    <2>1. Relayed(connected, subscribed, subscription, asked, d)
      <3>1. \A i \in 1..Len(asked) : asked[i].request = Subscribe => \E j \in DOMAIN asked : asked[i] = asked[j]
        BY <1>4
      <3> QED
        BY <1>1, <1>4, <3>1, RelaysLess DEF d
    <2>2. subscribed
      BY <1>1, <1>4
    <2> QED
      BY <1>4, <1>9, <1>16, <2>1, <2>2, RelaysAsked
  <1>18. Live' = Live
    BY <1>1 DEF Live
  <1>19. MoreAsked(asked, asked')
    BY <1>2, <1>9, <1>16 DEF MoreAsked
  <1> QED
    BY <1>1, <1>2, <1>16, <1>17, <1>18, <1>19 DEF Inv2

-----------------------------------------------------------------------------
(* One acknowledgement is waited for at a time. *)
\* Messages are taken, requests handled.
LEMMA LoneTakes ==
  ASSUME NEW d \in Seq(Messages), NEW A \in Seq(Asks), Lone(A, d)
  PROVE  /\ d # <<>> => Lone(A, Tail(d))
         /\ A # <<>> => Lone(Tail(A), d)
  <1>1. ASSUME d # <<>> PROVE Lone(A, Tail(d))
    <2> DEFINE e == Tail(d)
    <2>1. \A i \in DOMAIN e : i \in Nat /\ i + 1 \in DOMAIN d /\ e[i] = d[i + 1]
      BY <1>1
    <2>2. \A i, j \in Nat : i < j => i + 1 < j + 1
      OBVIOUS
    <2> HIDE DEF e
    <2>3. Lone(A, e)
      BY <2>1, <2>2 DEF Lone
    <2> QED
      BY <2>3 DEF e
  <1>2. ASSUME A # <<>> PROVE Lone(Tail(A), d)
    <2> DEFINE B == Tail(A)
    <2>1. \A i \in DOMAIN B : i \in Nat /\ i + 1 \in DOMAIN A /\ B[i] = A[i + 1]
      BY <1>2
    <2>2. \A i, j \in Nat : i < j => i + 1 < j + 1
      OBVIOUS
    <2> HIDE DEF B
    <2>3. Lone(B, d)
      BY <2>1, <2>2 DEF Lone
    <2> QED
      BY <2>3 DEF B
  <1> QED
    BY <1>1, <1>2

\* Fetches are sent.
LEMMA LoneAsks ==
  ASSUME NEW A \in Seq(Asks), NEW d, Lone(A, d), NEW c \in CatchUps
  PROVE  Lone(A \o SentBy(c), d)
  <1> DEFINE B == A \o SentBy(c)
  <1>1. /\ B \in Seq(Asks)
        /\ \A i \in 1..Len(B) : B[i].request = Subscribe => i \in DOMAIN A /\ B[i] = A[i]
    BY SentPlain
  <1>2. DOMAIN B = 1..Len(B)
    BY <1>1
  <1> HIDE DEF B
  <1>3. \A i \in DOMAIN B : Subscribes(B[i]) => i \in DOMAIN A /\ B[i] = A[i]
    BY <1>1, <1>2 DEF Subscribes
  <1>4. Lone(B, d)
    BY <1>3 DEF Lone
  <1> QED
    BY <1>4 DEF B

\* What is no acknowledgement is sent.
LEMMA LoneSent ==
  ASSUME NEW d \in Seq(Messages), NEW A, Lone(A, d), NEW e, Sent(d, e),
         \A i \in Len(d) + 1..Len(e) : ~Waits(e[i])
  PROVE  Lone(A, e)
  <1>1. e \in Seq(Messages) /\ Len(d) \in Nat /\ Len(e) \in Nat /\ DOMAIN d = 1..Len(d) /\ DOMAIN e = 1..Len(e)
    BY DEF Sent
  <1>2. \A i \in DOMAIN e : Waits(e[i]) => i \in DOMAIN d /\ e[i] = d[i]
    BY <1>1 DEF Sent
  <1> QED
    BY <1>2 DEF Lone

\* Requests and answers are given up.
LEMMA LoneMarked ==
  ASSUME NEW A, NEW d, Lone(A, d), NEW B, NEW e, DOMAIN B = DOMAIN A, DOMAIN e = DOMAIN d,
         \A i \in DOMAIN A : Subscribes(B[i]) => Subscribes(A[i]),
         \A i \in DOMAIN d : Waits(e[i]) => Waits(d[i])
  PROVE  Lone(B, e)
  BY DEF Lone

\* Nobody waits.
LEMMA NobodyWaits ==
  ASSUME NEW con, NEW sub, NEW scr, NEW A, NEW d, Relayed(con, sub, scr, A, d), scr # "asked"
  PROVE  (\A i \in DOMAIN A : ~Subscribes(A[i])) /\ (\A i \in DOMAIN d : ~Waits(d[i]))
  BY DEF Relayed, Subscribes, Waits

\* The subscription is asked for by a client that waits for none.
LEMMA LoneSubscribes ==
  ASSUME NEW A \in Seq(Asks), NEW d, \A i \in DOMAIN A : ~Subscribes(A[i]), \A i \in DOMAIN d : ~Waits(d[i]), NEW a
  PROVE  Lone(Append(A, a), d)
  <1> DEFINE B == Append(A, a)
  <1>1. \A i \in DOMAIN B : i \in Nat /\ ((i \in DOMAIN A /\ B[i] = A[i]) \/ i = Len(A) + 1)
    OBVIOUS
  <1>2. \A i \in DOMAIN B : Subscribes(B[i]) => i = Len(A) + 1
    BY <1>1
  <1>3. Len(A) \in Nat
    OBVIOUS
  <1> HIDE DEF B
  <1>4. ASSUME NEW i \in DOMAIN B, NEW j \in DOMAIN B, i < j, Subscribes(B[i]), Subscribes(B[j]) PROVE FALSE
    <2>1. i = Len(A) + 1 /\ j = Len(A) + 1
      BY <1>2, <1>4
    <2> QED
      BY <1>3, <1>4, <2>1
  <1>5. Lone(B, d)
    BY <1>4 DEF Lone
  <1> QED
    BY <1>5 DEF B

\* The subscription is acknowledged.
LEMMA LoneAcknowledged ==
  ASSUME NEW d \in Seq(Messages), NEW A \in Seq(Asks), Lone(A, d), A # <<>>, Head(A).request = Subscribe
  PROVE  Lone(Tail(A), Append(d, Ack(Head(A).waited)))
  <1> DEFINE a == Head(A)
             B == Tail(A)
             m == Ack(a.waited)
             e == Append(d, m)
  <1>1. 1 \in DOMAIN A /\ A[1] = a
    OBVIOUS
  <1>2. \A i \in DOMAIN B : i \in Nat /\ 1 < i + 1 /\ i + 1 \in DOMAIN A /\ B[i] = A[i + 1]
    OBVIOUS
  <1>3. \A i \in DOMAIN e : i \in Nat /\ ((i \in DOMAIN d /\ e[i] = d[i]) \/ (i = Len(d) + 1 /\ e[i] = m))
    OBVIOUS
  <1>4. \A i \in DOMAIN d : i \in Nat /\ i < Len(d) + 1
    OBVIOUS
  <1>5. m.waited = a.waited
    BY DEF Ack
  <1>6. Len(d) \in Nat /\ \A i, j \in Nat : i < j => i + 1 < j + 1 /\ ~(j < i)
    OBVIOUS
  <1>7. Lone(B, d)
    BY LoneTakes
  <1> HIDE DEF a, B, m, e
  <1>8. Waits(m) => Subscribes(A[1])
    BY <1>1, <1>5 DEF Waits, Subscribes, a
  <1>9. Waits(m) => (\A i \in DOMAIN d : ~Waits(d[i])) /\ (\A i \in DOMAIN B : ~Subscribes(B[i]))
    <2> HAVE Waits(m)
    <2>1. \A i \in DOMAIN d : ~Waits(d[i])
      BY <1>1, <1>8 DEF Lone
    <2>2. \A i \in DOMAIN B : ~Subscribes(B[i])
      BY <1>1, <1>2, <1>8 DEF Lone
    <2> QED
      BY <2>1, <2>2
  <1>10. ASSUME NEW i \in DOMAIN e, NEW j \in DOMAIN e, i < j, Waits(e[i]), Waits(e[j]) PROVE FALSE
    <2>1. i \in DOMAIN d /\ e[i] = d[i]
      <3>1. i # Len(d) + 1
        <4> SUFFICES ASSUME i = Len(d) + 1 PROVE FALSE
          OBVIOUS
        <4>1. j \in DOMAIN d => j < i
          BY <1>4
        <4>2. j \in Nat /\ i \in Nat
          BY <1>3
        <4>3. j = i
          BY <1>3, <1>6, <1>10, <4>1, <4>2
        <4> QED
          BY <1>10, <4>2, <4>3
      <3> QED
        BY <1>3, <3>1
    <2>2. j \in DOMAIN d /\ e[j] = d[j]
      BY <1>3, <1>9, <1>10, <2>1
    <2> QED
      BY <1>10, <2>1, <2>2 DEF Lone
  <1>11. ASSUME NEW i \in DOMAIN e, NEW j \in DOMAIN B, Waits(e[i]), Subscribes(B[j]) PROVE FALSE
    BY <1>3, <1>7, <1>9, <1>11 DEF Lone
  <1>12. \A i, j \in DOMAIN B : i < j /\ Subscribes(B[i]) => ~Subscribes(B[j])
    BY <1>7 DEF Lone
  <1>13. Lone(B, e)
    BY <1>10, <1>11, <1>12 DEF Lone
  <1> QED
    BY <1>13 DEF B, e, m, a

\* The daemon's steps keep it.
LEMMA DaemonLone ==
  ASSUME Inv, Inv2, Lone(asked, down), Append1 \/ Replace \/ DaemonAnswers
  PROVE  Lone(asked, down)'
  <1>1. /\ Relayed(connected, subscribed, subscription, asked, down)
        /\ down \in Seq(Messages) /\ asked \in Seq(Asks)
    BY Inv2Facts
  <1>2. ASSUME Append1 PROVE Lone(asked', down')
    <2>1. Inv'
      BY <1>2, NextStep DEF Next
    <2>2. down' \in Seq(Messages) /\ asked' = asked
      <3>1. down' \in Seq(Messages)
        BY <2>1 DEF Inv, ClientInv, Wire
      <3> QED
        BY <1>2, <3>1 DEF Append1
    <2>3. down' = down \/ \E r : down' = Append(down, Event(r))
      BY <1>2 DEF Append1
    <2>4. ASSUME NEW r, down' = Append(down, Event(r)) PROVE Lone(asked, down')
      <3> DEFINE m == Event(r)
                 e == down'
      <3>1. e \in Seq(Messages) /\ Len(e) = Len(down) + 1 /\ e[Len(down) + 1] = m /\ \A i \in 1..Len(down) : e[i] = down[i]
        BY <1>1, <2>2, <2>4
      <3>2. Len(down) \in Nat /\ m.type = "event"
        BY <1>1 DEF Event
      <3> HIDE DEF m, e
      <3>3. Sent(down, e) /\ \A i \in Len(down) + 1..Len(e) : ~Waits(e[i])
        BY <3>1, <3>2 DEF Sent, Waits
      <3>4. Lone(asked, e)
        BY <1>1, <3>3, LoneSent
      <3> QED
        BY <3>4 DEF e
    <2> QED
      BY <2>2, <2>3, <2>4
  <1>3. ASSUME Replace PROVE Lone(asked', down')
    <2>1. SentPlainly(down, down') /\ asked' = asked
      BY <1>3, ReplaceCaught DEF Replace
    <2> QED
      BY <1>1, <2>1, LoneSent DEF SentPlainly, Waits
  <1>4. ASSUME HandleSubscribe PROVE Lone(asked', down')
    BY <1>1, <1>4, LoneAcknowledged DEF HandleSubscribe
  <1>5. ASSUME HandleFetch PROVE Lone(asked', down')
    <2>1. Inv'
      BY <1>5, NextStep DEF Next, DaemonAnswers
    <2>2. down' \in Seq(Messages)
      BY <2>1 DEF Inv, ClientInv, Wire
    <2>3. asked # <<>> /\ asked' = Tail(asked) /\ \E p, w : down' = Append(down, Answer(p, w))
      BY <1>5 DEF HandleFetch
    <2>4. Lone(asked', down)
      BY <1>1, <2>3, LoneTakes
    <2>5. PICK p, w : down' = Append(down, Answer(p, w))
      BY <2>3
    <2> DEFINE m == Answer(p, w)
               e == down'
               B == asked'
    <2>6. e \in Seq(Messages) /\ Len(e) = Len(down) + 1 /\ e[Len(down) + 1] = m /\ \A i \in 1..Len(down) : e[i] = down[i]
      BY <1>1, <2>2, <2>5
    <2>7. Len(down) \in Nat /\ m.type = "page" /\ Lone(B, down)
      BY <1>1, <2>4 DEF Answer
    <2> HIDE DEF m, e, B
    <2>8. Sent(down, e) /\ \A i \in Len(down) + 1..Len(e) : ~Waits(e[i])
      BY <2>6, <2>7 DEF Sent, Waits
    <2>9. Lone(B, e)
      BY <1>1, <2>7, <2>8, LoneSent
    <2> QED
      BY <2>9 DEF B, e
  <1>6. Lone(asked', down')
    BY <1>2, <1>3, <1>4, <1>5 DEF DaemonAnswers
  <1> QED
    BY <1>6 DEF Lone

\* So do those of the connection.
LEMMA ConnectionLone ==
  ASSUME Inv, Inv2, Lone(asked, down),
         Connect \/ RetrySubscription \/ Disconnect \/ SubscriptionFails \/ FetchTimesOut
  PROVE  Lone(asked, down)'
  <1>1. /\ Relayed(connected, subscribed, subscription, asked, down)
        /\ down \in Seq(Messages) /\ asked \in Seq(Asks)
    BY Inv2Facts
  <1>2. ASSUME Connect \/ RetrySubscription PROVE Lone(asked', down')
    <2>1. asked' = Append(asked, Ask(Subscribe)) /\ down' = down
      BY <1>2 DEF Connect, RetrySubscription
    <2>2. subscription # "asked"
      BY <1>1, <1>2 DEF Connect, RetrySubscription, Relayed
    <2>3. (\A i \in DOMAIN asked : ~Subscribes(asked[i])) /\ (\A i \in DOMAIN down : ~Waits(down[i]))
      BY <1>1, <2>2, NobodyWaits
    <2> QED
      BY <1>1, <2>1, <2>3, LoneSubscribes
  <1>3. ASSUME Disconnect PROVE Lone(asked', down')
    <2>1. asked' = <<>> /\ down' = <<>>
      BY <1>3 DEF Disconnect
    <2> QED
      BY <2>1 DEF Lone
  <1>4. ASSUME SubscriptionFails PROVE Lone(asked', down')
    <2>1. /\ asked' = GivenUp(Subscribe)
          /\ down' = [i \in DOMAIN down |-> IF down[i].type = "ack" THEN Ack(FALSE) ELSE down[i]]
      BY <1>4 DEF SubscriptionFails
    <2>2. DOMAIN asked' = DOMAIN asked /\ DOMAIN down' = DOMAIN down
      BY <2>1 DEF GivenUp
    <2>3. \A i \in DOMAIN asked : Subscribes(asked'[i]) => Subscribes(asked[i])
      <3> TAKE i \in DOMAIN asked
      <3>1. asked[i] \in Asks
        BY <1>1
      <3>2. asked'[i] = IF asked[i].request = Subscribe THEN [asked[i] EXCEPT !.waited = FALSE] ELSE asked[i]
        BY <2>1 DEF GivenUp
      <3>3. [asked[i] EXCEPT !.waited = FALSE].waited = FALSE
        BY <3>1 DEF Asks
      <3> QED
        BY <3>2, <3>3 DEF Subscribes
    <2>4. \A i \in DOMAIN down : Waits(down'[i]) => Waits(down[i])
      BY <2>1 DEF Waits, Ack
    <2> QED
      BY <2>2, <2>3, <2>4, LoneMarked
  <1>5. ASSUME FetchTimesOut PROVE Lone(asked', down')
    <2>1. PICK f \in catchUp.fetches : asked' = GivenUp(f.request) /\ down' = Unawaited(f.request)
      BY <1>5 DEF FetchTimesOut
    <2> DEFINE r == f.request
    <2>2. DOMAIN asked' = DOMAIN asked /\ DOMAIN down' = DOMAIN down
      BY <2>1 DEF GivenUp, Unawaited
    <2>3. \A i \in DOMAIN asked : Subscribes(asked'[i]) => Subscribes(asked[i])
      <3> TAKE i \in DOMAIN asked
      <3>1. asked[i] \in Asks
        BY <1>1
      <3>2. asked'[i] = IF asked[i].request = r THEN [asked[i] EXCEPT !.waited = FALSE] ELSE asked[i]
        BY <2>1 DEF GivenUp
      <3>3. [asked[i] EXCEPT !.waited = FALSE].waited = FALSE
        BY <3>1 DEF Asks
      <3> QED
        BY <3>2, <3>3 DEF Subscribes
    <2>4. \A i \in DOMAIN down : Waits(down'[i]) => Waits(down[i])
      <3> TAKE i \in DOMAIN down
      <3>1. down[i] \in Messages
        BY <1>1
      <3>2. down'[i] = IF down[i].type = "page" /\ down[i].page.request = r
                       THEN [down[i] EXCEPT !.waited = FALSE] ELSE down[i]
        BY <2>1 DEF Unawaited
      <3>3. down[i].type = "page" => [down[i] EXCEPT !.waited = FALSE].type = "page"
        <4> HAVE down[i].type = "page"
        <4>1. down[i] = Answer(down[i].page, down[i].waited)
          BY <3>1, MessageTypes
        <4>2. [down[i] EXCEPT !.waited = FALSE] = Answer(down[i].page, FALSE)
          BY <4>1, AnswerUnawaited
        <4> QED
          BY <4>2 DEF Answer
      <3> QED
        BY <3>2, <3>3 DEF Waits
    <2> QED
      BY <2>2, <2>3, <2>4, LoneMarked
  <1>6. Lone(asked', down')
    BY <1>2, <1>3, <1>4, <1>5
  <1> QED
    BY <1>6 DEF Lone

\* And those of the client's handlers.
LEMMA HandlersLone ==
  ASSUME Inv, Inv2, Lone(asked, down), Receive \/ Flush \/ Retry \/ LoadCache
  PROVE  Lone(asked, down)'
  <1>1. /\ Relayed(connected, subscribed, subscription, asked, down)
        /\ down \in Seq(Messages) /\ asked \in Seq(Asks)
    BY Inv2Facts
  <1>2. ASSUME MoreAsked(asked, asked'), NEW e, Lone(asked, e) PROVE Lone(asked', e)
    <2>1. PICK c \in CatchUps : asked' = asked \o SentBy(c)
      BY <1>2 DEF MoreAsked
    <2> QED
      BY <1>1, <1>2, <2>1, LoneAsks
  <1>3. ASSUME Receive PROVE down # <<>> /\ down' = Tail(down)
    BY <1>3 DEF Receive, ReceiveEvent, ReceiveAck, ReceiveNotice, ReceivePage
  <1>4. ASSUME Receive PROVE Lone(asked, down')
    BY <1>1, <1>3, <1>4, LoneTakes
  <1>5. ASSUME ReceiveEvent PROVE Lone(asked', down')
    BY <1>4, <1>5 DEF ReceiveEvent, Receive
  <1>6. ASSUME ReceiveNotice \/ ReceivePage PROVE Lone(asked', down')
    <2>1. MoreAsked(asked, asked')
      BY <1>6, ReceiveNoticeCaught, ReceivePageCaught
    <2> QED
      BY <1>2, <1>4, <1>6, <2>1 DEF Receive
  <1>7. ASSUME ReceiveAck PROVE Lone(asked', down')
    <2>1. CASE ~Head(down).waited
      <3>1. asked' = asked
        BY <1>7, <2>1 DEF ReceiveAck
      <3> QED
        BY <1>4, <1>7, <3>1 DEF Receive
    <2>2. CASE Head(down).waited
      <3>1. subscription' = "acked"
        BY <1>7, <2>2 DEF ReceiveAck
      <3>2. Inv2'
        BY <1>7, ReceiveAckCaught
      <3>3. Relayed(connected', subscribed', subscription', asked', down')
        BY <3>2 DEF Inv2
      <3>4. (\A i \in DOMAIN asked' : ~Subscribes(asked'[i])) /\ (\A i \in DOMAIN down' : ~Waits(down'[i]))
        BY <3>1, <3>3, NobodyWaits
      <3> QED
        BY <3>4 DEF Lone
    <2> QED
      BY <2>1, <2>2
  <1>8. ASSUME Flush \/ Retry \/ LoadCache PROVE Lone(asked', down')
    <2>1. MoreAsked(asked, asked') /\ down' = down
      BY <1>8, FlushCaught, RetryCaught, LoadCacheCaught DEF Flush, Retry, StartedAgain, LoadCache
    <2> QED
      BY <1>2, <2>1
  <1>9. Lone(asked', down')
    BY <1>5, <1>6, <1>7, <1>8 DEF Receive
  <1> QED
    BY <1>9 DEF Lone

-----------------------------------------------------------------------------
(* The invariant holds, and implies that nothing has been missed. *)
CompleteInv == Inv /\ catchUp.sent = <<>> /\ (lapsed \/ (Inv2 /\ Lone(asked, down)))

\* Nothing is asked or on its way at first.
LEMMA InitCaught == Init => CompleteInv
  <1> SUFFICES ASSUME Init PROVE CompleteInv
    OBVIOUS
  <1>1. Inv
    BY InitInv
  <1>2. asked = <<>> /\ down = <<>> /\ stream = <<>> /\ ~connected /\ subscription = "none" /\ ~subscribed
    BY DEF Init
  <1>3. catchUp \in CatchUps /\ store \in Stores
    BY <1>1, InvFacts
  <1>4. catchUp.status = "none" /\ catchUp.fetches = {} /\ catchUp.pending = NoRequest /\ catchUp.sent = <<>>
    BY DEF Init, CacheWanted, NewCatchUp
  <1>5. CaughtUp(timeline, cached, catchUp, <<>>, forced, store, stream, <<>>, Live)
    <2>1. store.epoch \in Nat
      BY <1>3, RowParts
    <2> QED
      BY <1>3, <1>4, <2>1, Cleared
  <1>6. Relayed(connected, subscribed, subscription, <<>>, <<>>)
    BY <1>2 DEF Relayed
  <1>7. Lone(<<>>, <<>>)
    BY DEF Lone
  <1> QED
    BY <1>1, <1>2, <1>4, <1>5, <1>6, <1>7 DEF Inv2, CompleteInv

\* Every handler sends what its fetches ask for.
LEMMA SentKept ==
  ASSUME Inv, catchUp.sent = <<>>, Next
  PROVE  catchUp'.sent = <<>>
  <1>1. catchUp \in CatchUps /\ catchUp' \in CatchUps
    <2>1. Inv'
      BY NextStep
    <2> QED
      BY <2>1 DEF Inv, ClientInv, CatchUpIn
  <1>2. ASSUME NEW c, catchUp' = Settled(c) PROVE catchUp'.sent = <<>>
    BY <1>1, <1>2 DEF Settled, CatchUps
  <1>3. CASE Append1 \/ Replace \/ HandleSubscribe \/ HandleFetch \/ Connect \/ RetrySubscription \/ ReceiveEvent
    BY <1>3 DEF Append1, Replace, HandleSubscribe, HandleFetch, Connect, RetrySubscription, ReceiveEvent, client
  <1>4. CASE Flush \/ ReceiveNotice \/ ReceivePage \/ Retry \/ LoadCache
    <2>1. \E c : catchUp' = Settled(c)
      BY <1>4 DEF Flush, ReceiveNotice, ReceivePage, Retry, StartedAgain, LoadCache
    <2> QED
      BY <1>2, <2>1
  <1>5. CASE ReceiveAck
    <2>1. catchUp' = catchUp \/ \E c : catchUp' = Settled(c)
      BY <1>5 DEF ReceiveAck
    <2> QED
      BY <1>2, <2>1
  <1>6. CASE SubscriptionFails
    BY <1>1, <1>6 DEF SubscriptionFails, CatchUps
  <1>7. CASE Disconnect
    <2>1. Inv2'
      BY <1>7, DisconnectCaught
    <2> QED
      BY <2>1 DEF Inv2, CaughtUp, Run
  <1>8. CASE FetchTimesOut
    <2>1. PICK W : \/ \E f \in W : catchUp' = Failed([catchUp EXCEPT !.fetches = @ \ W], f)
                   \/ catchUp' = [catchUp EXCEPT !.fetches = @ \ W]
      BY <1>8 DEF FetchTimesOut
    <2> DEFINE F == catchUp.fetches \ W
               b == [catchUp EXCEPT !.fetches = F]
    <2>2. F \in SUBSET Fetches
      BY <1>1 DEF CatchUps
    <2> HIDE DEF F
    <2>3. b \in CatchUps /\ b.sent = catchUp.sent
      BY <1>1, <2>2 DEF CatchUps
    <2>4. (\E f \in W : catchUp' = Failed(b, f)) \/ catchUp' = b
      BY <2>1 DEF F
    <2> HIDE DEF b
    <2>5. ASSUME NEW f, catchUp' = Failed(b, f) PROVE catchUp'.sent = b.sent
      BY <2>3, <2>5 DEF Failed, CatchUps
    <2> QED
      BY <2>3, <2>4, <2>5
  <1> QED
    BY <1>3, <1>4, <1>5, <1>6, <1>7, <1>8 DEF Next, DaemonAnswers, Receive, ClientContinues

\* Only a lost connection ends the exception.
LEMMA LapseEnds ==
  ASSUME Next, lapsed, ~lapsed'
  PROVE  Disconnect
  BY DEF Next, DaemonAnswers, Receive, ClientContinues, Append1, Replace, HandleSubscribe,
         HandleFetch, Connect, SubscriptionFails, FetchTimesOut, RetrySubscription,
         ReceiveEvent, Flush, ReceiveAck, ReceiveNotice, ReceivePage, Retry, StartedAgain, LoadCache

\* Every step keeps it.
LEMMA NextCaught ==
  ASSUME CompleteInv, Next
  PROVE  CompleteInv'
  <1>1. Inv /\ catchUp.sent = <<>> /\ (lapsed \/ (Inv2 /\ Lone(asked, down)))
    BY DEF CompleteInv
  <1>2. Inv' /\ catchUp'.sent = <<>>
    BY <1>1, NextStep, SentKept
  <1>3. ASSUME Inv2, Lone(asked, down), ~lapsed' PROVE Inv2'
    <2>1. CASE Append1 BY <1>1, <1>3, <2>1, Append1Caught
    <2>2. CASE Replace BY <1>1, <1>3, <2>2, ReplaceCaught
    <2>3. CASE HandleSubscribe BY <1>1, <1>3, <2>3, HandleSubscribeCaught
    <2>4. CASE HandleFetch BY <1>1, <1>3, <2>4, HandleFetchCaught
    <2>5. CASE Disconnect BY <1>1, <2>5, DisconnectCaught
    <2>6. CASE SubscriptionFails BY <1>1, <1>3, <2>6, SubscriptionFailsCaught
    <2>7. CASE FetchTimesOut BY <1>1, <1>3, <2>7, FetchTimesOutCaught
    <2>8. CASE ReceiveEvent BY <1>1, <1>3, <2>8, ReceiveEventCaught
    <2>9. CASE ReceiveAck BY <1>1, <1>3, <2>9, ReceiveAckCaught
    <2>10. CASE ReceiveNotice BY <1>1, <1>3, <2>10, ReceiveNoticeCaught
    <2>11. CASE ReceivePage BY <1>1, <1>3, <2>11, ReceivePageCaught
    <2>12. CASE Connect \/ RetrySubscription BY <1>1, <1>3, <2>12, ConnectCaught
    <2>13. CASE Flush BY <1>1, <1>3, <2>13, FlushCaught
    <2>14. CASE Retry BY <1>1, <1>3, <2>14, RetryCaught
    <2>15. CASE LoadCache BY <1>1, <1>3, <2>15, LoadCacheCaught
    <2> QED
      BY <2>1, <2>2, <2>3, <2>4, <2>5, <2>6, <2>7, <2>8, <2>9, <2>10, <2>11, <2>12, <2>13, <2>14, <2>15
         DEF Next, DaemonAnswers, Receive, ClientContinues
  <1>4. ASSUME Inv2, Lone(asked, down) PROVE Lone(asked', down')
    <2>1. Lone(asked, down)'
      BY <1>1, <1>4, DaemonLone, ConnectionLone, HandlersLone DEF Next, ClientContinues
    <2> QED
      BY <2>1 DEF Lone
  <1>5. ASSUME lapsed, ~lapsed' PROVE Inv2' /\ Lone(asked', down')
    <2>1. Disconnect
      BY <1>5, LapseEnds
    <2>2. asked' = <<>> /\ down' = <<>>
      BY <2>1 DEF Disconnect
    <2>3. Lone(asked', down')
      BY <2>2 DEF Lone
    <2> QED
      BY <1>1, <2>1, <2>3, DisconnectCaught
  <1>6. lapsed' \/ (Inv2' /\ Lone(asked', down'))
    BY <1>1, <1>3, <1>4, <1>5
  <1>7. Lone(asked, down)' <=> Lone(asked', down')
    BY DEF Lone
  <1> QED
    BY <1>2, <1>6, <1>7 DEF CompleteInv

\* So does a step of somebody else.
LEMMA StutterCaught ==
  ASSUME CompleteInv, UNCHANGED vars
  PROVE  CompleteInv'
  <1>1. Inv'
    BY StutterStep DEF CompleteInv
  <1>2. /\ timeline' = timeline /\ cached' = cached /\ catchUp' = catchUp /\ store' = store
        /\ stream' = stream /\ down' = down /\ asked' = asked /\ forced' = forced
        /\ subscribed' = subscribed /\ connected' = connected /\ subscription' = subscription
    BY DEF vars, client
  <1>3. lapsed' = lapsed
    BY DEF vars
  <1>4. Live' = Live
    BY <1>2 DEF Live
  <1>5. Inv2 => Inv2'
    BY <1>2, <1>4 DEF Inv2
  <1>6. Lone(asked, down) => Lone(asked, down)'
    BY <1>2 DEF Lone
  <1> QED
    BY <1>1, <1>2, <1>3, <1>5, <1>6 DEF CompleteInv

\* x is every row the client has yet to apply, in order.
RowsLeft(t, k, st, s, d, r, x) ==
  Queued(EndOf(t.range), x, {}, st) /\ Rng(x) = Rng(s) \union Brought(d)

\* The queued rows and those on their way, one after the other.
LEMMA RowsInOrder ==
  ASSUME NEW t, NEW k, NEW st, NEW s, NEW d, Wire(st, s, d), ClientOK(t, k, st, s, d), t.synced,
         NEW r, RowsRead(r, d, Len(d)), NEW x, x = s \o r
  PROVE  RowsLeft(t, k, st, s, d, r, x)
  <1> DEFINE p == EndOf(t.range)
  <1>1. /\ s \in Seq(Rows) /\ d \in Seq(Messages) /\ st \in Stores /\ r \in Seq(Rows) /\ x \in Seq(Rows)
        /\ Len(s) \in Nat /\ Len(r) \in Nat
    BY DEF Wire, RowsRead
  <1>2. DOMAIN d = 1..Len(d) /\ DOMAIN s = 1..Len(s) /\ DOMAIN r = 1..Len(r) /\ DOMAIN x = 1..Len(s) + Len(r)
    BY <1>1
  <1>3. /\ \A i \in DOMAIN s : i \in DOMAIN x /\ x[i] = s[i]
        /\ \A i \in DOMAIN r : i + Len(s) \in DOMAIN x /\ x[i + Len(s)] = r[i]
        /\ \A i \in DOMAIN x : (i \in DOMAIN s /\ x[i] = s[i]) \/ (i > Len(s) /\ i - Len(s) \in DOMAIN r /\ x[i] = r[i - Len(s)])
    BY <1>1, <1>2
  <1>4. /\ \A j \in DOMAIN r : \E i \in DOMAIN d : d[i].type = "event" /\ r[j] = d[i].row
        /\ \A i \in DOMAIN d : d[i].type = "event" => \E j \in DOMAIN r : r[j] = d[i].row
        /\ \A i, j \in DOMAIN r : i < j => Before(r[i], r[j])
    BY <1>2 DEF RowsRead
  <1>5. \A j \in DOMAIN r : r[j] \in Brought(d)
    BY <1>4 DEF Brought
  <1>6. Queued(p, s, Brought(d), st)
    BY QueueReady
  <1>7. \A y \in Brought(d) : Before(p, y)
    <2> SUFFICES ASSUME NEW i \in DOMAIN d, d[i].type = "event" PROVE Before(p, d[i].row)
      BY DEF Brought
    <2>1. d[i].row \in Rows
      BY <1>1, MessageTypes
    <2>2. CASE t.range = NoSpan
      <3>1. p.epoch = 0
        BY <2>2 DEF EndOf, NoSpan, Span, Row
      <3> QED
        BY <2>1, <3>1, RowParts DEF Before
    <2>3. CASE t.range # NoSpan
      BY <2>3, EndsBehind DEF Behind, Precedes
    <2> QED
      BY <2>2, <2>3
  <1>8. \A i \in DOMAIN s, y \in Brought(d) : Before(s[i], y)
    BY RowsOnTheWay
  <1>9. /\ UpTo(p, StoreEnd(st))
        /\ \A i \in DOMAIN s : Before(p, s[i]) /\ UpTo(s[i], StoreEnd(st))
        /\ \A i, j \in DOMAIN s : i < j => Before(s[i], s[j])
        /\ \A y \in Brought(d) : UpTo(y, StoreEnd(st))
    BY <1>6 DEF Queued
  <1> HIDE DEF p
  <1>10. \A i \in DOMAIN x : Before(p, x[i]) /\ UpTo(x[i], StoreEnd(st))
    BY <1>3, <1>5, <1>7, <1>9
  <1>11. ASSUME NEW i \in DOMAIN x, NEW j \in DOMAIN x, i < j PROVE Before(x[i], x[j])
    <2>1. i \in Nat /\ j \in Nat
      BY <1>1, <1>2
    <2>2. CASE i \in DOMAIN s
      BY <1>3, <1>5, <1>8, <1>9, <1>11, <2>2
    <2>3. CASE i \notin DOMAIN s
      <3>1. i > Len(s) /\ i - Len(s) \in DOMAIN r /\ x[i] = r[i - Len(s)]
        BY <1>3, <2>3
      <3>2. j \notin DOMAIN s
        BY <1>1, <1>2, <1>11, <2>1, <3>1
      <3>3. j - Len(s) \in DOMAIN r /\ x[j] = r[j - Len(s)] /\ i - Len(s) < j - Len(s)
        BY <1>1, <1>3, <1>11, <2>1, <3>2
      <3> QED
        BY <1>4, <3>1, <3>3
    <2> QED
      BY <2>2, <2>3
  <1>12. Queued(p, x, {}, st)
    BY <1>1, <1>9, <1>10, <1>11 DEF Queued
  <1>13. Rng(x) = Rng(s) \union Brought(d)
    <2>1. ASSUME NEW i \in DOMAIN x PROVE x[i] \in Rng(s) \union Brought(d)
      BY <1>3, <1>5 DEF Rng
    <2>2. ASSUME NEW i \in DOMAIN s PROVE s[i] \in Rng(x)
      BY <1>3 DEF Rng
    <2>3. ASSUME NEW y \in Brought(d) PROVE y \in Rng(x)
      <3>1. PICK i \in DOMAIN d : d[i].type = "event" /\ y = d[i].row
        BY DEF Brought
      <3>2. PICK j \in DOMAIN r : r[j] = y
        BY <1>4, <3>1
      <3> QED
        BY <1>3, <3>2 DEF Rng
    <2>4. Rng(x) \subseteq Rng(s) \union Brought(d)
      BY <2>1 DEF Rng
    <2>5. Rng(s) \subseteq Rng(x)
      BY <2>2 DEF Rng
    <2> QED
      BY <2>3, <2>4, <2>5
  <1> QED
    BY <1>12, <1>13 DEF p, RowsLeft

\* From a range that covers the store there is nothing left to read.
LEMMA CoversEnds ==
  ASSUME NEW u \in Timelines, u.synced, ~u.newer, store \in Stores, UpTo(EndOf(u.range), StoreEnd(store)),
         Covers(EndOf(u.range), {}, store)
  PROVE  AtEnd(u)
  <1>1. store.epoch \in Nat /\ store.last \in Nat /\ store.epoch >= 1
        /\ StoreEnd(store).epoch = store.epoch /\ StoreEnd(store).seq = store.last
    BY RowParts
  <1>2. u.range \in Spans
    BY DEF Timelines
  <1>3. u.range.epoch \in Nat /\ u.range.to \in Nat
    BY <1>2, Bounds DEF Spans
  <1>4. EndOf(u.range).epoch = u.range.epoch /\ EndOf(u.range).seq = u.range.to
    BY DEF EndOf, Row
  <1>5. \A n \in 1..store.last : u.range.epoch = store.epoch /\ n <= u.range.to
    BY <1>4 DEF Covers
  <1>6. u.range.epoch # store.epoch => store.last = 0
    BY <1>1, <1>5
  <1>7. u.range = NoSpan => u.range.epoch # store.epoch
    BY <1>1 DEF NoSpan, Span
  <1>8. u.range.epoch = store.epoch => u.range.to = store.last
    <2> HAVE u.range.epoch = store.epoch
    <2>1. u.range.to <= store.last
      BY <1>1, <1>3, <1>4 DEF UpTo
    <2>2. store.last >= 1 => store.last <= u.range.to
      BY <1>1, <1>5
    <2> QED
      BY <1>1, <1>3, <2>1, <2>2
  <1> QED
    BY <1>6, <1>7, <1>8 DEF AtEnd

\* A catch-up that is complete, with nothing in flight and no replacement announced, has missed nothing.
LEMMA CaughtImplies == CompleteInv /\ ~lapsed => CompleteMissedNothing
  <1> SUFFICES ASSUME CompleteInv, ~lapsed, Live, catchUp.status = "complete", catchUp.fetches = {},
                      \A i \in DOMAIN down : down[i].type # "notice"
               PROVE  AtEnd(BatchApplied(timeline, stream \o EventsOf(down)).timeline)
    BY DEF CompleteMissedNothing
  <1> DEFINE r == EventsOf(down)
             x == stream \o r
             u == BatchApplied(timeline, x).timeline
             q == BatchApplied(timeline, x).recoveries
  <1>1. /\ CaughtUp(timeline, cached, catchUp, asked, forced, store, stream, down, Live)
        /\ ClientInv(timeline, cached, catchUp, asked, stored, store, stream, down)
        /\ down \in Seq(Messages) /\ store \in Stores
    BY Inv2Facts DEF CompleteInv
  <1>2. /\ Wire(store, stream, down) /\ ClientOK(timeline, cached, store, stream, down)
        /\ timeline \in Timelines /\ RangeOK(timeline.range)
    BY <1>1 DEF ClientInv, ClientOK
  <1>3. /\ timeline.synced /\ ~timeline.newer
        /\ \/ Noticed(down, 0) \/ TailFetch \in Wanted(catchUp)
           \/ Covers(EndOf(timeline.range), Rng(stream) \union Brought(down), store)
    BY <1>1 DEF CaughtUp, Missed
  <1>4. ~Noticed(down, 0) /\ TailFetch \notin Wanted(catchUp)
    BY DEF Noticed, Wanted
  <1>5. Covers(EndOf(timeline.range), Rng(stream) \union Brought(down), store)
    BY <1>3, <1>4
  <1>6. RowsRead(r, down, Len(down))
    <2>1. \A i, k \in DOMAIN down : i < k /\ down[i].type = "event" /\ down[k].type = "event" =>
            Before(down[i].row, down[k].row)
      BY <1>2 DEF Wire, InOrder, Brings, Precedes
    <2> QED
      BY <1>1, <2>1, EventsRead
  <1> HIDE DEF r
  <1>7. Queued(EndOf(timeline.range), x, {}, store) /\ Rng(x) = Rng(stream) \union Brought(down)
    <2>1. x = stream \o r
      OBVIOUS
    <2> HIDE DEF x
    <2>2. Wire(store, stream, down)
      BY <1>2
    <2>3. ClientOK(timeline, cached, store, stream, down)
      BY <1>2
    <2>4. timeline.synced
      BY <1>3
    <2>5. RowsLeft(timeline, cached, store, stream, down, r, x)
      BY ONLY <2>1, <2>2, <2>3, <2>4, <1>6, RowsInOrder
    <2> QED
      BY ONLY <2>5 DEF RowsLeft
  <1> HIDE DEF x
  <1>8. /\ Walked(timeline, x, u, q, Len(x) + 1, store)
        /\ Leads(timeline, x, {}, u, q, Len(x) + 1, store)
    BY <1>1, <1>2, <1>3, <1>7, BatchWalks
  <1> HIDE DEF u, q
  <1>9. RowsFrom(x, 1, {}) = Rng(x) \union {} /\ RowsFrom(x, Len(x) + 1, {}) = {}
    <2>1. x \in Seq(Rows)
      BY <1>7 DEF Queued
    <2> QED
      BY <2>1, RowsFromEnds
  <1>10. Covers(EndOf(u.range), {}, store)
    <2>1. Covers(EndOf(timeline.range), RowsFrom(x, 1, {}), store)
      <3>1. RowsFrom(x, 1, {}) = Rng(stream) \union Brought(down)
        BY <1>7, <1>9
      <3> QED
        BY <1>5, <3>1
    <2>2. Covers(EndOf(u.range), RowsFrom(x, Len(x) + 1, {}), store)
      BY <1>8, <2>1 DEF Leads
    <2> QED
      BY <1>9, <2>2
  <1>11. u \in Timelines /\ u.synced /\ ~u.newer /\ UpTo(EndOf(u.range), StoreEnd(store))
    BY <1>3, <1>8 DEF Walked
  <1>12. AtEnd(u)
    BY <1>1, <1>10, <1>11, CoversEnds
  <1> QED
    BY <1>12 DEF u, x, r

\* When viewed-timeline-sync calls a catch-up complete and nothing is in flight, applying the rows
\* on their way brings the client to the daemon's end, whatever was lost, given up, superseded,
\* replaced or answered late before; but for a connection on which the tail of a replacement
\* notice has failed, or timed out, while no catch-up waited for the same answer
\* (session-context.tsx, requestTimelineReplacement, does not try it again).
THEOREM NothingMissed == Spec => [](~lapsed => CompleteMissedNothing)
  <1> DEFINE P == ~lapsed => CompleteMissedNothing
  <1>1. Init => CompleteInv
    BY InitCaught
  <1>2. CompleteInv /\ [Next]_vars => CompleteInv'
    BY NextCaught, StutterCaught
  <1>3. CompleteInv => P
    BY CaughtImplies
  <1>4. Spec => []P
    <2> HIDE DEF P
    <2> QED
      BY <1>1, <1>2, <1>3, PTL DEF Spec
  <1> QED
    BY <1>4
=============================================================================
