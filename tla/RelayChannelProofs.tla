------------------------- MODULE RelayChannelProofs -------------------------
(***************************************************************************)
(* What the daemon's channel receives is what its client has sent, in      *)
(* order, for any number of clients, messages, hellos and failures.        *)
(*                                                                         *)
(* The argument is about one connection: the client cl, its frames u on    *)
(* their way to the relay, the answers dn on their way back, the relay's   *)
(* record r and the daemon's data socket d.  Link says how the five go     *)
(* together; every step keeps it, for the connection it is about, and      *)
(* leaves the others alone.                                                *)
(***************************************************************************)
EXTENDS RelayChannel, SequenceTheorems, WellFoundedInduction, TLAPS

Clients == [at : {"away", "handshaking", "open", "gone"}, sent : 0..MaxSent]
Relays == [client : {"none", "listed", "closing"}, server : {"none", "live", "dead"},
           old : BOOLEAN, pending : Seq(Frames), nudge : {"off", "first", "second"}]
Sockets == [at : {"none", "connecting", "hello", "answering", "open"}, closing : BOOLEAN,
            inbox : Seq(Frames), buffered : Seq(Frames), got : Seq(Frames)]
Controls == [up : BOOLEAN, deaf : BOOLEAN, ready : BOOLEAN, queue : Seq(ControlMessages)]

Typed(cl, u, dn, r, d) ==
  /\ cl \in Clients /\ u \in Seq(Frames) /\ dn \in Nat /\ r \in Relays /\ d \in Sockets
  /\ Len(r.pending) <= PendingLimit

Serving == {"hello", "answering", "open"}
Live(cl) == cl.at \in {"handshaking", "open"}

\* A client that leaves forgets its messages and the answers it waits for.
Departed(cl, dn, r) ==
  /\ cl.at # "open" => cl.sent = 0
  /\ ~Live(cl) => dn = 0
  /\ Live(cl) => r.client # "none"

\* The relay's and the daemon's ends of a data socket.
Joined(r, d) ==
  /\ r.server = "live" => d.at \in Serving /\ ~d.closing
  /\ r.client # "none" /\ d.at \in Serving => r.server = "live"
  /\ r.pending # <<>> => r.server = "none" /\ ~r.old /\ r.client # "none"
  /\ d.closing => d.at \in Serving
  /\ d.at # "open" => d.got = <<>>
  /\ d.at # "answering" => d.buffered = <<>>
  /\ d.at \notin Serving => d.inbox = <<>>

\* A connection's frames are hellos up to the 0-th and then the messages in order;
\* those of s come after the k-th.
Turn(k) == IF k > 0 THEN k ELSE Hello
Numbered(s, k) == \A i \in DOMAIN s : s[i] = Turn(k + i)

\* What is left of a connection's frames, behind the k-th.
Flow(cl, u, r, d, k) ==
  /\ Numbered(d.buffered, k)
  /\ Numbered(d.inbox, k + Len(d.buffered))
  /\ Numbered(r.pending, k + Len(d.buffered) + Len(d.inbox))
  /\ Numbered(u, k + Len(d.buffered) + Len(d.inbox) + Len(r.pending))
  /\ Live(cl) => cl.sent = k + Len(d.buffered) + Len(d.inbox) + Len(r.pending) + Len(u)
  /\ d.at = "answering" => k <= 0
  /\ d.at = "open" => Len(d.got) = Turn(k)

\* A client that has had no answer yet has sent hellos alone.
Hellos(s) == \A i \in DOMAIN s : s[i] = Hello
Unanswered(r, d) ==
  r.client = "listed" /\ ~r.old /\ (r.server = "none" \/ d.at = "hello")
Quiet(cl, u, dn, r, d) ==
  dn = 0 /\ cl.at # "open" /\ Hellos(u) /\ Hellos(r.pending) /\ Hellos(d.inbox)

Received(d) == \A i \in DOMAIN d.got : d.got[i] = i

Link(cl, u, dn, r, d) ==
  /\ Typed(cl, u, dn, r, d)
  /\ Departed(cl, dn, r) /\ Joined(r, d) /\ Received(d)
  /\ \E k \in Int : Flow(cl, u, r, d, k)
  /\ Unanswered(r, d) => Quiet(cl, u, dn, r, d)

LinkOf(c) == Link(client[c], up[c], down[c], relay[c], data[c])

\* The inductive invariant.
Inv == TypeOK /\ \A c \in Conns : LinkOf(c)

-----------------------------------------------------------------------------
(* Sequences of frames.                                                    *)

\* A frame is a number: a hello is 0 and a message its turn.
LEMMA FramesAreNumbers == Hello \in Frames /\ \A f \in Frames : f \in Nat
  BY BoundsAssumption DEF Hello, Frames

\* The next message in turn is numbered like the ones before it.
LEMMA NumberedAppend ==
  ASSUME NEW s \in Seq(Frames), NEW k \in Int, Numbered(s, k),
         NEW f \in Frames, f = Turn(k + Len(s) + 1)
  PROVE  Append(s, f) \in Seq(Frames) /\ Len(Append(s, f)) = Len(s) + 1 /\ Numbered(Append(s, f), k)
  <1>1. /\ Append(s, f) \in Seq(Frames) /\ Len(Append(s, f)) = Len(s) + 1 /\ Len(s) \in Nat
        /\ \A i \in 1..Len(s) : Append(s, f)[i] = s[i]
        /\ Append(s, f)[Len(s) + 1] = f
    BY AppendProperties, LenProperties
  <1>2. DOMAIN Append(s, f) = 1..Len(s) + 1 /\ DOMAIN s = 1..Len(s)
    BY <1>1, LenProperties
  <1>3. \A i \in 1..Len(s) + 1 : i \in 1..Len(s) \/ i = Len(s) + 1
    BY <1>1
  <1> QED
    BY <1>1, <1>2, <1>3 DEF Numbered

\* The first numbered message is delivered.
LEMMA NumberedTail ==
  ASSUME NEW s \in Seq(Frames), NEW k \in Int, Numbered(s, k), s # <<>>
  PROVE  /\ Head(s) \in Frames /\ Head(s) = Turn(k + 1)
         /\ Tail(s) \in Seq(Frames) /\ Len(Tail(s)) = Len(s) - 1 /\ Numbered(Tail(s), k + 1)
  <1>1. /\ Head(s) \in Frames /\ Tail(s) \in Seq(Frames) /\ Len(Tail(s)) = Len(s) - 1
        /\ \A i \in 1..Len(Tail(s)) : Tail(s)[i] = s[i + 1]
        /\ Len(s) \in Nat \ {0} /\ Head(s) = s[1]
    BY HeadTailProperties, EmptySeq
  <1>2. DOMAIN Tail(s) = 1..Len(s) - 1 /\ DOMAIN s = 1..Len(s)
    BY <1>1, LenProperties
  <1>3. Head(s) = Turn(k + 1)
    BY <1>1, <1>2 DEF Numbered
  <1>4. \A i \in 1..Len(s) - 1 : i + 1 \in 1..Len(s) /\ k + (i + 1) = (k + 1) + i
    BY <1>1
  <1>5. Numbered(Tail(s), k + 1)
    BY <1>1, <1>2, <1>4 DEF Numbered
  <1> QED
    BY <1>1, <1>3, <1>5

\* bufferFrame drops the oldest frames.
LEMMA NumberedKept ==
  ASSUME NEW s \in Seq(Frames), NEW k \in Int, Numbered(s, k)
  PROVE  /\ Kept(s) \in Seq(Frames) /\ Len(Kept(s)) <= PendingLimit
         /\ Numbered(Kept(s), k + (Len(s) - Len(Kept(s))))
         /\ Hellos(s) => Hellos(Kept(s))
  <1> DEFINE from == Len(s) - PendingLimit + 1
             t == SubSeq(s, from, Len(s))
  <1>1. Len(s) \in Nat /\ DOMAIN s = 1..Len(s) /\ PendingLimit \in Nat \ {0}
    BY BoundsAssumption, LenProperties
  <1>2. CASE Len(s) <= PendingLimit
    <2>1. Kept(s) = s
      BY <1>1, <1>2 DEF Kept
    <2> QED
      BY <1>1, <1>2, <2>1
  <1>3. CASE Len(s) > PendingLimit
    <2>1. Kept(s) = t
      BY <1>3 DEF Kept
    <2>2. from \in 1..Len(s) /\ \A i \in from..Len(s) : s[i] \in Frames
      BY <1>1, <1>3, ElementOfSeq
    <2>3. t \in Seq(Frames) /\ Len(t) = PendingLimit
          /\ \A i \in 1..Len(s) - from + 1 : t[i] = s[from + i - 1]
      BY <1>1, <1>3, <2>2, SubSeqProperties
    <2>4. DOMAIN t = 1..PendingLimit
      BY <2>3, LenProperties
    <2>5. \A i \in 1..PendingLimit :
             /\ i \in 1..Len(s) - from + 1 /\ from + i - 1 \in 1..Len(s)
             /\ k + (from + i - 1) = (k + (Len(s) - PendingLimit)) + i
      BY <1>1, <1>3
    <2> HIDE DEF t, from
    <2>6. Numbered(t, k + (Len(s) - PendingLimit))
      BY <1>1, <2>3, <2>4, <2>5 DEF Numbered
    <2>7. Hellos(s) => Hellos(t)
      BY <1>1, <2>3, <2>4, <2>5 DEF Hellos
    <2> QED
      BY <1>1, <2>1, <2>3, <2>6, <2>7
  <1> QED
    BY <1>1, <1>2, <1>3

\* A sequence of hellos stays one.
LEMMA HellosKept ==
  ASSUME NEW s \in Seq(Frames), Hellos(s)
  PROVE  /\ Hellos(Append(s, Hello))
         /\ s # <<>> => Hellos(Tail(s)) /\ Head(s) = Hello
  <1>1. Numbered(s, -Len(s)) /\ Len(s) \in Nat /\ DOMAIN s = 1..Len(s)
    BY LenProperties DEF Hellos, Numbered, Turn
  <1>2. Append(s, Hello) \in Seq(Frames) /\ Len(Append(s, Hello)) = Len(s) + 1
        /\ \A i \in 1..Len(s) : Append(s, Hello)[i] = s[i]
        /\ Append(s, Hello)[Len(s) + 1] = Hello
    BY AppendProperties, FramesAreNumbers
  <1>3. DOMAIN Append(s, Hello) = 1..Len(s) + 1
    BY <1>2, LenProperties
  <1>4. Hellos(Append(s, Hello))
    BY <1>1, <1>2, <1>3 DEF Hellos
  <1>5. ASSUME s # <<>>
        PROVE  Hellos(Tail(s)) /\ Head(s) = Hello
    <2>1. /\ Tail(s) \in Seq(Frames) /\ Len(Tail(s)) = Len(s) - 1
          /\ \A i \in 1..Len(Tail(s)) : Tail(s)[i] = s[i + 1]
          /\ Len(s) \in Nat \ {0} /\ Head(s) = s[1]
      BY <1>5, HeadTailProperties, EmptySeq
    <2>2. DOMAIN Tail(s) = 1..Len(s) - 1
      BY <2>1, LenProperties
    <2> QED
      BY <1>1, <2>1, <2>2 DEF Hellos
  <1> QED
    BY <1>4, <1>5

-----------------------------------------------------------------------------
(* The client's steps.                                                     *)

\* The initial states of the ends, and the empty sequences.
LEMMA NothingThere ==
  /\ NoClient \in Clients /\ NoRelay \in Relays /\ NoData \in Sockets
  /\ <<>> \in Seq(Frames) /\ <<Hello>> \in Seq(Frames) /\ Len(<<Hello>>) = 1 /\ Len(<<>>) = 0
  /\ DOMAIN <<>> = {} /\ DOMAIN <<Hello>> = {1}
  <1>1. <<>> \in Seq(Frames) /\ <<Hello>> \in Seq(Frames)
    BY FramesAreNumbers
  <1> QED
    BY <1>1, BoundsAssumption DEF NoClient, NoRelay, NoData, Clients, Relays, Sockets

\* A client connects on a fresh socket and says hello.
LEMMA LinkConnects ==
  ASSUME NEW cl, NEW u, NEW dn, NEW r, NEW d, Link(cl, u, dn, r, d), cl.at = "away"
  PROVE  Link([cl EXCEPT !.at = "handshaking"], <<Hello>>, dn,
              [NoRelay EXCEPT !.client = "listed", !.nudge = "first"], NoData)
  <1> DEFINE n == [cl EXCEPT !.at = "handshaking"]
             m == [NoRelay EXCEPT !.client = "listed", !.nudge = "first"]
  <1>1. cl.sent = 0 /\ dn = 0 /\ cl \in Clients
    BY DEF Link, Typed, Departed, Live
  <1>2. n \in Clients /\ n.at = "handshaking" /\ n.sent = 0
    BY <1>1 DEF Clients
  <1>3. m \in Relays /\ m.client = "listed" /\ m.server = "none" /\ m.pending = <<>> /\ ~m.old
    BY NothingThere DEF NoRelay, Relays
  <1>4. /\ NoData.at = "none" /\ NoData.got = <<>> /\ NoData.buffered = <<>> /\ NoData.inbox = <<>>
        /\ ~NoData.closing
    BY DEF NoData
  <1> HIDE DEF n, m
  <1>5. Typed(n, <<Hello>>, dn, m, NoData)
    BY <1>1, <1>2, <1>3, NothingThere, BoundsAssumption DEF Typed
  <1>6. Departed(n, dn, m) /\ Joined(m, NoData) /\ Received(NoData)
    BY <1>1, <1>2, <1>3, <1>4, NothingThere DEF Departed, Joined, Received, Live, Serving
  <1>7. Flow(n, <<Hello>>, m, NoData, -1)
    BY <1>2, <1>3, <1>4, NothingThere DEF Flow, Live, Numbered, Turn
  <1>8. Quiet(n, <<Hello>>, dn, m, NoData)
    BY <1>1, <1>2, <1>3, <1>4, NothingThere DEF Quiet, Hellos
  <1> QED
    BY <1>5, <1>6, <1>7, <1>8 DEF Link, n, m

\* It says hello again.
LEMMA LinkHelloAgain ==
  ASSUME NEW cl, NEW u, NEW dn, NEW r, NEW d, Link(cl, u, dn, r, d), cl.at = "handshaking"
  PROVE  Link(cl, Append(u, Hello), dn, r, d)
  <1>1. PICK k \in Int : Flow(cl, u, r, d, k)
    BY DEF Link
  <1> DEFINE a == Len(d.buffered)
             b == Len(d.inbox)
             p == Len(r.pending)
             v == Len(u)
  <1>2. /\ d.buffered \in Seq(Frames) /\ d.inbox \in Seq(Frames) /\ r.pending \in Seq(Frames)
        /\ u \in Seq(Frames) /\ cl.sent = 0
    BY DEF Link, Typed, Sockets, Relays, Departed
  <1>3. a \in Nat /\ b \in Nat /\ p \in Nat /\ v \in Nat
    BY <1>2, LenProperties
  <1>4. k + a + b + p + v = 0
    BY <1>1, <1>2 DEF Flow, Live
  <1>5. /\ Numbered(d.buffered, k) /\ Numbered(d.inbox, k + a)
        /\ Numbered(r.pending, k + a + b) /\ Numbered(u, k + a + b + p)
        /\ Len(d.buffered) = a /\ Len(d.inbox) = b /\ Len(r.pending) = p /\ Len(u) = v
    BY <1>1 DEF Flow
  <1>6. /\ d.at = "answering" => k <= 0
        /\ d.at = "open" => Len(d.got) = Turn(k)
    BY <1>1 DEF Flow
  <1>7. \A n : Flow(cl, Append(u, Hello), r, d, n) <=>
          /\ Numbered(d.buffered, n) /\ Numbered(d.inbox, n + a)
          /\ Numbered(r.pending, n + a + b) /\ Numbered(Append(u, Hello), n + a + b + p)
          /\ Live(cl) => cl.sent = n + a + b + p + Len(Append(u, Hello))
          /\ d.at = "answering" => n <= 0
          /\ d.at = "open" => Len(d.got) = Turn(n)
    BY DEF Flow
  <1> HIDE DEF a, b, p, v
  <1>8. ASSUME NEW s \in Seq(Frames), NEW j \in Int, Numbered(s, j), j + Len(s) <= 0
        PROVE  Hellos(s) /\ Numbered(s, j - 1)
    BY <1>8, LenProperties DEF Numbered, Hellos, Turn
  <1>9. /\ k + a <= 0 /\ k + a + b <= 0 /\ k + a + b + p <= 0 /\ k + a + b + p + v <= 0
        /\ {k + a, k + a + b, k + a + b + p} \subseteq Int
        /\ (k + a) - 1 = (k - 1) + a /\ (k + a + b) - 1 = (k - 1) + a + b
        /\ (k + a + b + p) - 1 = (k - 1) + a + b + p
        /\ (k - 1) + a + b + p + (v + 1) = 0
    BY <1>3, <1>4
  <1>10. /\ Numbered(d.buffered, k - 1) /\ Numbered(d.inbox, (k - 1) + a)
         /\ Numbered(r.pending, (k - 1) + a + b) /\ Numbered(u, (k - 1) + a + b + p)
         /\ Hellos(d.inbox) /\ Hellos(r.pending) /\ Hellos(u)
    <2>1. Numbered(d.buffered, k - 1)
      BY <1>2, <1>5, <1>8, <1>9
    <2>2. Hellos(d.inbox) /\ Numbered(d.inbox, (k - 1) + a)
      BY <1>2, <1>5, <1>8, <1>9
    <2>3. Hellos(r.pending) /\ Numbered(r.pending, (k - 1) + a + b)
      BY <1>2, <1>5, <1>8, <1>9
    <2>4. Hellos(u) /\ Numbered(u, (k - 1) + a + b + p)
      BY <1>2, <1>5, <1>8, <1>9
    <2> QED
      BY <2>1, <2>2, <2>3, <2>4
  <1>11. /\ Append(u, Hello) \in Seq(Frames) /\ Len(Append(u, Hello)) = v + 1
         /\ Numbered(Append(u, Hello), (k - 1) + a + b + p)
    <2>1. Hello = Turn((k - 1) + a + b + p + v + 1) /\ (k - 1) + a + b + p \in Int
      BY <1>3, <1>4 DEF Turn
    <2> QED
      BY <1>2, <1>5, <1>10, <2>1, NumberedAppend, FramesAreNumbers
  <1>12. Hellos(Append(u, Hello))
    BY <1>2, <1>10, HellosKept
  <1>13. /\ d.at = "answering" => k - 1 <= 0
         /\ d.at = "open" => Len(d.got) = Turn(k - 1)
    BY <1>3, <1>4, <1>6 DEF Turn
  <1>14. cl.sent = (k - 1) + a + b + p + Len(Append(u, Hello)) /\ k - 1 \in Int
    BY <1>2, <1>9, <1>11
  <1>15. Flow(cl, Append(u, Hello), r, d, k - 1)
    BY <1>7, <1>10, <1>11, <1>13, <1>14
  <1> QED
    BY <1>10, <1>11, <1>12, <1>14, <1>15 DEF Link, Typed, Quiet

\* The daemon's answer opens the client's channel.
LEMMA LinkOpens ==
  ASSUME NEW cl, NEW u, NEW dn, NEW r, NEW d, Link(cl, u, dn, r, d), dn > 0
  PROVE  /\ Link(IF cl.at = "handshaking" THEN [cl EXCEPT !.at = "open"] ELSE cl, u, dn - 1, r, d)
  <1> DEFINE n == IF cl.at = "handshaking" THEN [cl EXCEPT !.at = "open"] ELSE cl
  <1>1. cl \in Clients /\ dn \in Nat /\ Live(cl)
    BY DEF Link, Typed, Departed
  <1>2. n \in Clients /\ n.at = "open" /\ n.sent = cl.sent
    BY <1>1 DEF Clients, Live
  <1>3. ~Unanswered(r, d)
    BY <1>1 DEF Link, Quiet
  <1>4. dn - 1 \in Nat
    BY <1>1
  <1> HIDE DEF n
  <1>5. PICK k \in Int : Flow(cl, u, r, d, k)
    BY DEF Link
  <1>6. Flow(n, u, r, d, k)
    BY <1>1, <1>2, <1>5 DEF Flow
  <1>7. Typed(n, u, dn - 1, r, d) /\ Departed(n, dn - 1, r) /\ Joined(r, d) /\ Received(d)
    BY <1>1, <1>2, <1>4 DEF Link, Typed, Departed, Live
  <1> QED
    BY <1>3, <1>6, <1>7 DEF Link, n

\* The client seals its next message.
LEMMA LinkSends ==
  ASSUME NEW cl, NEW u, NEW dn, NEW r, NEW d, Link(cl, u, dn, r, d),
         cl.at = "open", cl.sent < MaxSent
  PROVE  Link([cl EXCEPT !.sent = @ + 1], Append(u, cl.sent + 1), dn, r, d)
  <1> DEFINE n == [cl EXCEPT !.sent = @ + 1]
  <1>1. cl \in Clients /\ cl.sent \in 0..MaxSent /\ u \in Seq(Frames)
    BY DEF Link, Typed, Clients
  <1>2. n \in Clients /\ n.at = "open" /\ n.sent = cl.sent + 1 /\ cl.sent + 1 \in Frames
    BY <1>1, BoundsAssumption DEF Clients, Frames
  <1>3. ~Unanswered(r, d)
    BY DEF Link, Quiet
  <1> HIDE DEF n
  <1>4. PICK k \in Int : Flow(cl, u, r, d, k)
    BY DEF Link
  <1> DEFINE j == k + Len(d.buffered) + Len(d.inbox) + Len(r.pending)
  <1>5. j \in Int /\ Len(u) \in Nat
    BY <1>1, LenProperties DEF Link, Typed, Sockets, Relays
  <1>6. Numbered(u, j) /\ cl.sent = j + Len(u)
    BY <1>4 DEF Flow, Live
  <1> HIDE DEF j
  <1>7. /\ Append(u, cl.sent + 1) \in Seq(Frames) /\ Len(Append(u, cl.sent + 1)) = Len(u) + 1
        /\ Numbered(Append(u, cl.sent + 1), j)
    <2>1. cl.sent + 1 = Turn(j + Len(u) + 1)
      BY <1>1, <1>5, <1>6 DEF Turn
    <2> QED
      BY <1>1, <1>2, <1>5, <1>6, <2>1, NumberedAppend
  <1>8. n.sent = j + Len(Append(u, cl.sent + 1))
    BY <1>2, <1>5, <1>6, <1>7
  <1>9. Flow(n, Append(u, cl.sent + 1), r, d, k)
    BY <1>4, <1>7, <1>8 DEF Flow, j
  <1>10. /\ Typed(n, Append(u, cl.sent + 1), dn, r, d) /\ Departed(n, dn, r)
         /\ Joined(r, d) /\ Received(d)
    BY <1>2, <1>7 DEF Link, Typed, Departed, Live
  <1> QED
    BY <1>3, <1>9, <1>10 DEF Link, n

\* The client leaves, and what is under way to it is lost.
LEMMA LinkGone ==
  ASSUME NEW cl, NEW u, NEW dn, NEW r, NEW d, Link(cl, u, dn, r, d)
  PROVE  Link([NoClient EXCEPT !.at = "gone"], u, 0, r, d)
  <1> DEFINE n == [NoClient EXCEPT !.at = "gone"]
  <1>1. n \in Clients /\ n.at = "gone" /\ n.sent = 0
    BY NothingThere DEF Clients, NoClient
  <1> HIDE DEF n
  <1>2. PICK k \in Int : Flow(cl, u, r, d, k)
    BY DEF Link
  <1>3. Flow(n, u, r, d, k)
    BY <1>1, <1>2 DEF Flow, Live
  <1>4. Typed(n, u, 0, r, d) /\ Departed(n, 0, r) /\ Joined(r, d) /\ Received(d)
    BY <1>1 DEF Link, Typed, Departed, Live
  <1>5. Unanswered(r, d) => Quiet(n, u, 0, r, d)
    BY <1>1 DEF Link, Quiet
  <1> QED
    BY <1>3, <1>4, <1>5 DEF Link, n

\* It comes back when the relay has forgotten it.
LEMMA LinkReturns ==
  ASSUME NEW cl, NEW u, NEW dn, NEW r, NEW d, Link(cl, u, dn, r, d),
         cl.at = "gone", r.client = "none"
  PROVE  Link(NoClient, u, dn, r, d)
  <1>1. NoClient.at = "away" /\ NoClient.sent = 0 /\ NoClient \in Clients
    BY NothingThere DEF NoClient
  <1>2. PICK k \in Int : Flow(cl, u, r, d, k)
    BY DEF Link
  <1>3. Flow(NoClient, u, r, d, k)
    BY <1>1, <1>2 DEF Flow, Live
  <1> QED
    BY <1>1, <1>3 DEF Link, Typed, Departed, Live, Quiet, Unanswered

-----------------------------------------------------------------------------
(* What the open channel makes of the frames kept for it: the function     *)
(* kept is what its definition says, by induction on the number of frames. *)

\* Induction over the naturals, for a set and not a predicate.
LEMMA Induction ==
  ASSUME NEW T, 0 \in T, \A n \in Nat : n \in T => n + 1 \in T
  PROVE  \A n \in Nat : n \in T
  <1> DEFINE R == OpToRel(<, Nat)
             U == Nat \ T
  <1>1. \A x, y \in Nat : x < y => <<x, y>> \in R
    BY DEF OpToRel
  <1>2. IsWellFoundedOn(R, Nat)
    BY NatLessThanWellFounded
  <1> HIDE DEF R
  <1>3. SUFFICES ASSUME U # {} PROVE FALSE
    OBVIOUS
  <1>4. PICK x \in U : \A y \in U : ~(<<y, x>> \in R)
    BY <1>2, <1>3, WFMin
  <1>5. x # 0 /\ x - 1 \in Nat /\ x - 1 < x
    BY <1>4
  <1>6. x - 1 \in T
    BY <1>1, <1>4, <1>5
  <1>7. x - 1 + 1 \in T /\ x - 1 + 1 = x
    BY <1>5, <1>6
  <1> QED
    BY <1>4, <1>7

\* The function that Kept chooses exists.
LEMMA KeptExists ==
  ASSUME NEW s, NEW N \in Nat
  PROVE  \E g : g = [i \in 0..N |-> IF i = 0 THEN <<>>
                                    ELSE IF s[i] = Hello THEN g[i - 1] ELSE Append(g[i - 1], s[i])]
  <1> DEFINE Step(m, i) == IF s[i] = Hello THEN m ELSE Append(m, s[i])
             Kind(g, n) == g = [i \in 0..n |-> IF i = 0 THEN <<>> ELSE Step(g[i - 1], i)]
             T == {n \in Nat : \E g : Kind(g, n)}
  <1> HIDE DEF Step
  <1>1. 0 \in T
    <2>1. Kind([i \in 0..0 |-> <<>>], 0)
      OBVIOUS
    <2> QED
      BY <2>1
  <1>2. ASSUME NEW n \in Nat, n \in T
        PROVE  n + 1 \in T
    <2>1. PICK g : Kind(g, n)
      BY <1>2
    <2> DEFINE h == [i \in 0..n + 1 |-> IF i = n + 1 THEN Step(g[n], n + 1) ELSE g[i]]
    <2>2. h[0] = <<>>
      BY <2>1
    <2>3. ASSUME NEW i \in 0..n + 1, i # 0
          PROVE  h[i] = Step(h[i - 1], i)
      <3>1. i - 1 \in 0..n /\ h[i - 1] = g[i - 1]
        BY <2>3
      <3>2. CASE i = n + 1
        BY <3>1, <3>2
      <3>3. CASE i # n + 1
        <4>1. i \in 0..n /\ h[i] = g[i]
          BY <3>3
        <4>2. g[i] = Step(g[i - 1], i)
          BY <2>1, <2>3, <4>1
        <4> QED
          BY <3>1, <4>1, <4>2
      <3> QED
        BY <3>2, <3>3
    <2>4. h = [i \in 0..n + 1 |-> IF i = 0 THEN <<>> ELSE Step(h[i - 1], i)]
      BY <2>2, <2>3
    <2> HIDE DEF h
    <2>5. Kind(h, n + 1)
      BY <2>4
    <2> QED
      BY <2>5
  <1>3. N \in T
    <2> HIDE DEF T
    <2> QED
      BY <1>1, <1>2, Induction
  <1>4. PICK g : Kind(g, N)
    BY <1>3
  <1> QED
    BY <1>4 DEF Step

\* Of hellos and then messages, the messages are left.
LEMMA MessagesNumbered ==
  ASSUME NEW s \in Seq(Frames), NEW k \in Int, Numbered(s, k), k <= 0
  PROVE  /\ Messages(s) \in Seq(Frames) /\ Len(Messages(s)) = Turn(k + Len(s))
         /\ \A i \in DOMAIN Messages(s) : Messages(s)[i] = i
  <1> DEFINE N == Len(s)
             Step(m, i) == IF s[i] = Hello THEN m ELSE Append(m, s[i])
             Kind(g) == g = [i \in 0..N |-> IF i = 0 THEN <<>> ELSE Step(g[i - 1], i)]
             kept == CHOOSE g : Kind(g)
  <1>1. N \in Nat /\ DOMAIN s = 1..N
    BY LenProperties
  <1>2. Messages(s) = kept[N]
    BY DEF Messages
  <1>3. Kind(kept)
    BY <1>1, KeptExists
  <1> HIDE DEF kept, Step
  <1>4. kept[0] = <<>> /\ \A i \in 1..N : kept[i] = Step(kept[i - 1], i)
    BY <1>1, <1>3
  <1> DEFINE Good(m, n) == /\ m \in Seq(Frames) /\ Len(m) = Turn(k + n)
                           /\ \A i \in DOMAIN m : m[i] = i
             T == {n \in Nat : n <= N => Good(kept[n], n)}
  <1>5. 0 \in T
    <2>1. kept[0] = <<>>
      BY <1>4
    <2>2. Turn(k + 0) = 0
      BY DEF Turn, Hello
    <2>3. Good(<<>>, 0)
      BY <2>2, NothingThere
    <2> QED
      BY <2>1, <2>3
  <1>6. ASSUME NEW n \in Nat, n \in T
        PROVE  n + 1 \in T
    <2> SUFFICES ASSUME n + 1 <= N
                 PROVE  Good(kept[n + 1], n + 1)
      OBVIOUS
    <2>1. n + 1 \in 1..N /\ n <= N /\ (n + 1) - 1 = n
      BY <1>1
    <2> DEFINE m == kept[n]
               f == s[n + 1]
    <2>2. Good(m, n)
      BY <1>6, <2>1
    <2>3. f = Turn(k + (n + 1)) /\ f \in Frames
      BY <1>1, <2>1, ElementOfSeq DEF Numbered
    <2>4. kept[n + 1] = IF f = Hello THEN m ELSE Append(m, f)
      <3>1. kept[n + 1] = Step(kept[n], n + 1)
        BY <1>4, <2>1
      <3> QED
        BY <3>1 DEF Step
    <2> HIDE DEF m, f
    <2>5. CASE k + (n + 1) <= 0
      <3>1. f = Hello /\ Turn(k + n) = Turn(k + (n + 1))
        BY <2>3, <2>5 DEF Turn
      <3> QED
        BY <2>2, <2>4, <3>1
    <2>6. CASE k + (n + 1) > 0
      <3>1. /\ f = k + (n + 1) /\ f # Hello /\ f = Turn(k + n) + 1 /\ f \in Nat
            /\ Turn(k + (n + 1)) = f
        BY <2>3, <2>6 DEF Turn, Hello
      <3>2. kept[n + 1] = Append(m, f) /\ Len(m) = f - 1 /\ Len(m) \in Nat
        BY <2>2, <2>4, <3>1
      <3>3. /\ Append(m, f) \in Seq(Frames) /\ Len(Append(m, f)) = Len(m) + 1
            /\ \A i \in 1..Len(m) : Append(m, f)[i] = m[i]
            /\ Append(m, f)[Len(m) + 1] = f
        BY <2>2, <2>3, AppendProperties
      <3>4. DOMAIN m = 1..Len(m) /\ DOMAIN Append(m, f) = 1..Len(m) + 1
        BY <2>2, <3>3, LenProperties
      <3>5. \A i \in DOMAIN Append(m, f) : Append(m, f)[i] = i
        BY <2>2, <3>1, <3>2, <3>3, <3>4
      <3> QED
        BY <3>1, <3>2, <3>3, <3>5
    <2> QED
      BY <1>1, <2>5, <2>6
  <1>7. N \in T
    <2> HIDE DEF T
    <2> QED
      BY <1>1, <1>5, <1>6, Induction
  <1> QED
    BY <1>2, <1>7

-----------------------------------------------------------------------------
(* The relay's steps.                                                      *)

\* The types of one connection.
LEMMA LinkTypes ==
  ASSUME NEW cl, NEW u, NEW dn, NEW r, NEW d, Link(cl, u, dn, r, d)
  PROVE  /\ cl \in Clients /\ r \in Relays /\ d \in Sockets /\ dn \in Nat
         /\ {u, r.pending, d.inbox, d.buffered, d.got} \subseteq Seq(Frames)
         /\ {Len(u), Len(r.pending), Len(d.inbox), Len(d.buffered), Len(d.got)} \subseteq Nat
  <1>1. /\ cl \in Clients /\ r \in Relays /\ d \in Sockets /\ dn \in Nat
        /\ {u, r.pending, d.inbox, d.buffered, d.got} \subseteq Seq(Frames)
    BY DEF Link, Typed, Sockets, Relays
  <1> QED
    BY <1>1, LenProperties

\* The frames of a connection without a data socket.
LEMMA IdleFlow ==
  ASSUME NEW cl, NEW u, NEW r, NEW d, NEW k \in Int,
         d.inbox = <<>>, d.buffered = <<>>, d.at \notin Serving, Len(r.pending) \in Nat
  PROVE  Flow(cl, u, r, d, k) <=>
           /\ Numbered(r.pending, k) /\ Numbered(u, k + Len(r.pending))
           /\ Live(cl) => cl.sent = k + Len(r.pending) + Len(u)
  <1>1. Len(<<>>) = 0 /\ \A n : Numbered(<<>>, n)
    BY NothingThere DEF Numbered
  <1>2. k + 0 + 0 = k
    OBVIOUS
  <1> QED
    BY <1>1, <1>2 DEF Flow, Serving

\* The relay keeps a frame for a daemon that is not there yet.
LEMMA LinkKeeps ==
  ASSUME NEW cl, NEW u, NEW dn, NEW r, NEW d, Link(cl, u, dn, r, d),
         u # <<>>, r.client # "none", r.server = "none", ~r.old
  PROVE  Link(cl, Tail(u), dn, [r EXCEPT !.pending = Kept(Append(@, Head(u)))], d)
  <1> DEFINE q == Append(r.pending, Head(u))
             w == Kept(q)
             m == [r EXCEPT !.pending = w]
             p == Len(r.pending)
             x == Len(w)
             v == Len(u)
  <1>1. /\ r \in Relays /\ r.pending \in Seq(Frames) /\ u \in Seq(Frames) /\ p \in Nat /\ v \in Nat
        /\ cl \in Clients
    BY LinkTypes
  <1>2. d.at \notin Serving /\ d.inbox = <<>> /\ d.buffered = <<>>
    BY DEF Link, Joined, Serving
  <1>3. PICK k \in Int : Flow(cl, u, r, d, k)
    BY DEF Link
  <1>4. /\ Numbered(r.pending, k) /\ Numbered(u, k + p)
        /\ Live(cl) => cl.sent = k + p + v
    BY <1>1, <1>2, <1>3, IdleFlow
  <1>5. /\ Head(u) \in Frames /\ Head(u) = Turn(k + p + 1) /\ Tail(u) \in Seq(Frames)
        /\ Len(Tail(u)) = v - 1 /\ Numbered(Tail(u), k + p + 1)
    BY <1>1, <1>4, NumberedTail
  <1>6. q \in Seq(Frames) /\ Len(q) = p + 1 /\ Numbered(q, k)
    BY <1>1, <1>4, <1>5, NumberedAppend
  <1>7. w \in Seq(Frames) /\ x <= PendingLimit /\ Numbered(w, k + (Len(q) - x))
    BY <1>6, NumberedKept
  <1>8. x \in Nat
    BY <1>7, LenProperties
  <1>9. m \in Relays /\ m = [r EXCEPT !.pending = w] /\ m.pending = w /\ m.client = r.client
        /\ m.server = r.server /\ m.old = r.old
    BY <1>1, <1>7 DEF Relays
  <1>10. Hellos(u) /\ Hellos(r.pending) => Hellos(Tail(u)) /\ Hellos(w)
    <2> SUFFICES ASSUME Hellos(u), Hellos(r.pending)
                 PROVE  Hellos(Tail(u)) /\ Hellos(w)
      OBVIOUS
    <2>1. Hellos(Tail(u)) /\ Head(u) = Hello
      BY <1>1, HellosKept
    <2>2. Hellos(q)
      BY <1>1, <2>1, HellosKept
    <2> QED
      BY <1>6, <2>1, <2>2, NumberedKept
  <1> DEFINE j == k + (p + 1 - x)
  <1>11. /\ j \in Int /\ j + x = k + p + 1 /\ j = k + (Len(q) - x)
         /\ j + x + (v - 1) = k + p + v
    BY <1>1, <1>6, <1>8
  <1> HIDE DEF q, w, m, p, x, v, j
  <1>12. Flow(cl, Tail(u), m, d, j)
    <2>1. /\ Numbered(m.pending, j) /\ Numbered(Tail(u), j + Len(m.pending)) /\ Len(m.pending) = x
          /\ Live(cl) => cl.sent = j + Len(m.pending) + Len(Tail(u))
      BY <1>4, <1>5, <1>7, <1>9, <1>11 DEF x
    <2> QED
      BY <1>2, <1>8, <1>11, <2>1, IdleFlow
  <1>13. Typed(cl, Tail(u), dn, m, d)
    BY <1>5, <1>7, <1>9 DEF Link, Typed, x
  <1>14. Departed(cl, dn, m) /\ Joined(m, d) /\ Received(d)
    BY <1>9 DEF Link, Departed, Joined
  <1>15. Unanswered(m, d) => Quiet(cl, Tail(u), dn, m, d)
    BY <1>9, <1>10 DEF Link, Unanswered, Quiet
  <1> QED
    BY <1>9, <1>11, <1>12, <1>13, <1>14, <1>15 DEF Link, w, q

\* The relay forwards a frame to the daemon's data socket.
LEMMA LinkForwards ==
  ASSUME NEW cl, NEW u, NEW dn, NEW r, NEW d, Link(cl, u, dn, r, d), u # <<>>, r.server = "live"
  PROVE  Link(cl, Tail(u), dn, r, [d EXCEPT !.inbox = Append(@, Head(u))])
  <1> DEFINE q == Append(d.inbox, Head(u))
             e == [d EXCEPT !.inbox = q]
             a == Len(d.buffered)
             b == Len(d.inbox)
             v == Len(u)
  <1>1. /\ d \in Sockets /\ d.inbox \in Seq(Frames) /\ u \in Seq(Frames)
        /\ a \in Nat /\ b \in Nat /\ v \in Nat
    BY LinkTypes
  <1>2. d.at \in Serving /\ r.pending = <<>> /\ Len(r.pending) = 0
    BY NothingThere DEF Link, Joined
  <1>3. PICK k \in Int : Flow(cl, u, r, d, k)
    BY DEF Link
  <1>4. /\ Numbered(d.inbox, k + a) /\ Numbered(u, k + a + b)
        /\ Live(cl) => cl.sent = k + a + b + v
    <2>1. k + a + b + 0 = k + a + b
      BY <1>1
    <2> QED
      BY <1>2, <1>3, <2>1 DEF Flow
  <1>5. Len(u) = v /\ Len(d.inbox) = b /\ Len(d.buffered) = a
    OBVIOUS
  <1> HIDE DEF a, b, v
  <1>6. {k + a, k + a + b} \subseteq Int
    BY <1>1
  <1>7. /\ Head(u) \in Frames /\ Head(u) = Turn(k + a + b + 1) /\ Tail(u) \in Seq(Frames)
        /\ Len(Tail(u)) = v - 1 /\ Numbered(Tail(u), k + a + b + 1)
    BY <1>5, <1>1, <1>4, <1>6, NumberedTail
  <1>8. q \in Seq(Frames) /\ Len(q) = b + 1 /\ Numbered(q, k + a)
    BY <1>5, <1>1, <1>4, <1>7, <1>6, NumberedAppend
  <1>9. /\ e \in Sockets /\ e.inbox = q /\ e.at = d.at /\ e.closing = d.closing
        /\ e.buffered = d.buffered /\ e.got = d.got
    BY <1>1, <1>8 DEF Sockets
  <1>10. Hellos(u) /\ Hellos(d.inbox) => Hellos(Tail(u)) /\ Hellos(q)
    BY <1>1, HellosKept
  <1>11. k + a + (b + 1) + 0 = k + a + b + 1 /\ k + a + (b + 1) + 0 + (v - 1) = k + a + b + v
    BY <1>1
  <1>12. Flow(cl, Tail(u), r, e, k)
    <2>1. /\ Numbered(e.buffered, k) /\ Len(e.buffered) = a /\ Len(e.inbox) = b + 1
          /\ Numbered(r.pending, k + a + (b + 1))
      BY <1>5, <1>2, <1>3, <1>8, <1>9, NothingThere DEF Flow, Numbered
    <2>2. Numbered(Tail(u), k + a + (b + 1) + Len(r.pending))
      BY <1>2, <1>7, <1>11
    <2>3. Live(cl) => cl.sent = k + a + (b + 1) + Len(r.pending) + Len(Tail(u))
      BY <1>2, <1>4, <1>7, <1>11
    <2>4. /\ e.at = "answering" => k <= 0
          /\ e.at = "open" => Len(e.got) = Turn(k)
      BY <1>3, <1>9 DEF Flow
    <2>5. Numbered(e.inbox, k + a)
      BY <1>8, <1>9
    <2> HIDE DEF e, q
    <2> QED
      BY <2>1, <2>2, <2>3, <2>4, <2>5 DEF Flow
  <1> HIDE DEF e, q
  <1>13. Typed(cl, Tail(u), dn, r, e)
    BY <1>7, <1>9 DEF Link, Typed
  <1>14. Departed(cl, dn, r) /\ Joined(r, e) /\ Received(e)
    BY <1>2, <1>9 DEF Link, Joined, Received
  <1>15. Unanswered(r, e) => Quiet(cl, Tail(u), dn, r, e)
    BY <1>9, <1>10 DEF Link, Unanswered, Quiet
  <1> QED
    BY <1>12, <1>13, <1>14, <1>15 DEF Link, e, q

\* The relay drops a frame behind a socket that is dead or old.
LEMMA LinkDrops ==
  ASSUME NEW cl, NEW u, NEW dn, NEW r, NEW d, Link(cl, u, dn, r, d),
         u # <<>>, r.client # "none", r.server # "none" \/ r.old, r.server # "live"
  PROVE  Link(cl, Tail(u), dn, r, d)
  <1> DEFINE v == Len(u)
  <1>1. u \in Seq(Frames) /\ v \in Nat
    BY LinkTypes
  <1>2. /\ d.at \notin Serving /\ d.inbox = <<>> /\ d.buffered = <<>>
        /\ r.pending = <<>> /\ Len(r.pending) = 0
    BY NothingThere DEF Link, Joined, Serving
  <1>3. PICK k \in Int : Flow(cl, u, r, d, k)
    BY DEF Link
  <1>4. Numbered(u, k) /\ (Live(cl) => cl.sent = k + v)
    <2>1. k + 0 = k
      OBVIOUS
    <2> QED
      BY <1>2, <1>3, <2>1, IdleFlow
  <1>5. /\ Tail(u) \in Seq(Frames) /\ Len(Tail(u)) = v - 1 /\ Numbered(Tail(u), k + 1)
    BY <1>1, <1>4, NumberedTail
  <1>6. k + 1 \in Int /\ (k + 1) + 0 = k + 1 /\ (k + 1) + 0 + (v - 1) = k + v
    BY <1>1
  <1> HIDE DEF v
  <1>7. Flow(cl, Tail(u), r, d, k + 1)
    <2>1. /\ Numbered(r.pending, k + 1) /\ Numbered(Tail(u), (k + 1) + Len(r.pending))
          /\ Live(cl) => cl.sent = (k + 1) + Len(r.pending) + Len(Tail(u))
      BY <1>2, <1>4, <1>5, <1>6, NothingThere DEF Numbered
    <2> QED
      BY <1>2, <1>6, <2>1, IdleFlow
  <1>8. Unanswered(r, d) => Quiet(cl, Tail(u), dn, r, d)
    BY <1>2 DEF Unanswered, Serving
  <1> QED
    BY <1>5, <1>6, <1>7, <1>8 DEF Link, Typed

\* The relay handles the close of the client's socket.
LEMMA LinkClientClosed ==
  ASSUME NEW cl, NEW u, NEW dn, NEW r, NEW d, Link(cl, u, dn, r, d), cl.at = "gone"
  PROVE  Link(cl, <<>>, dn, [Dropped(r) EXCEPT !.client = "none", !.pending = <<>>],
              IF r.server = "live" THEN [d EXCEPT !.closing = TRUE] ELSE d)
  <1> DEFINE m == [Dropped(r) EXCEPT !.client = "none", !.pending = <<>>]
             e == IF r.server = "live" THEN [d EXCEPT !.closing = TRUE] ELSE d
  <1>1. r \in Relays /\ d \in Sockets
    BY LinkTypes
  <1>2. m \in Relays /\ m.client = "none" /\ m.server # "live" /\ m.pending = <<>>
    BY <1>1, NothingThere DEF Dropped, Relays
  <1>3. /\ e \in Sockets /\ e.at = d.at /\ e.inbox = d.inbox /\ e.buffered = d.buffered /\ e.got = d.got
        /\ e.closing => r.server = "live" \/ d.closing
    BY <1>1 DEF Sockets
  <1>4. PICK k \in Int : Flow(cl, u, r, d, k)
    BY DEF Link
  <1> HIDE DEF m, e
  <1>5. Flow(cl, <<>>, m, e, k)
    BY <1>2, <1>3, <1>4, NothingThere DEF Flow, Numbered, Live
  <1>6. Typed(cl, <<>>, dn, m, e)
    BY <1>2, <1>3, NothingThere, BoundsAssumption DEF Link, Typed
  <1>7. Departed(cl, dn, m) /\ Joined(m, e) /\ Received(e) /\ ~Unanswered(m, e)
    BY <1>2, <1>3 DEF Link, Departed, Joined, Received, Unanswered, Live
  <1> QED
    BY <1>5, <1>6, <1>7 DEF Link, m, e

\* What the relay's record says of the daemon's socket can change: it is dead, or gone.
LEMMA LinkServerGone ==
  ASSUME NEW cl, NEW u, NEW dn, NEW r, NEW d, NEW m \in Relays, Link(cl, u, dn, r, d),
         m.pending = r.pending, m.client \in {r.client, "closing"},
         r.client = "none" <=> m.client = "none",
         \/ m.old = r.old /\ m.server = r.server
         \/ ~m.old /\ m.server = r.server /\ m.client # "listed"
         \/ m.old = r.old /\ r.server = "dead" /\ m.server = "none" /\ m.client # "listed"
  PROVE  Link(cl, u, dn, m, d)
  <1>1. PICK k \in Int : Flow(cl, u, r, d, k)
    BY DEF Link
  <1>2. Flow(cl, u, m, d, k)
    BY <1>1 DEF Flow
  <1>3. Typed(cl, u, dn, m, d) /\ Departed(cl, dn, m)
    BY DEF Link, Typed, Departed
  <1>4. Joined(m, d) /\ Received(d)
    BY DEF Link, Joined
  <1>5. Unanswered(m, d) => Quiet(cl, u, dn, m, d)
    BY DEF Link, Unanswered, Quiet
  <1> QED
    BY <1>2, <1>3, <1>4, <1>5 DEF Link

\* The nudge timers touch no frame.
LEMMA LinkNudge ==
  ASSUME NEW cl, NEW u, NEW dn, NEW r, NEW d, Link(cl, u, dn, r, d),
         NEW x \in {"off", "first", "second"}
  PROVE  Link(cl, u, dn, [r EXCEPT !.nudge = x], d)
  <1> DEFINE m == [r EXCEPT !.nudge = x]
  <1>1. r \in Relays
    BY LinkTypes
  <1>2. /\ m \in Relays /\ m.pending = r.pending /\ m.client = r.client /\ m.server = r.server
        /\ m.old = r.old
    BY <1>1 DEF Relays
  <1> HIDE DEF m
  <1>3. Link(cl, u, dn, m, d)
    BY <1>2, LinkServerGone
  <1> QED
    BY <1>3 DEF m

\* The relay handles the close of a data socket.
LEMMA LinkServerClosed ==
  ASSUME NEW cl, NEW u, NEW dn, NEW r, NEW d, Link(cl, u, dn, r, d),
         NEW x, x = IF r.client = "listed" THEN "closing" ELSE r.client
  PROVE  /\ r.old => Link(cl, u, dn, [r EXCEPT !.old = FALSE, !.client = x], d)
         /\ r.server = "dead" => Link(cl, u, dn, [r EXCEPT !.server = "none", !.client = x], d)
  <1> DEFINE m == [r EXCEPT !.old = FALSE, !.client = x]
             n == [r EXCEPT !.server = "none", !.client = x]
  <1>1. r \in Relays
    BY LinkTypes
  <1>2. x \in {"none", "closing"} /\ x \in {r.client, "closing"} /\ (r.client = "none" <=> x = "none")
    BY <1>1 DEF Relays
  <1>3. /\ m \in Relays /\ m.pending = r.pending /\ m.client = x /\ m.server = r.server /\ ~m.old
        /\ n \in Relays /\ n.pending = r.pending /\ n.client = x /\ n.server = "none" /\ n.old = r.old
    BY <1>1, <1>2 DEF Relays
  <1> HIDE DEF m, n
  <1>4. r.old => Link(cl, u, dn, m, d)
    BY <1>2, <1>3, LinkServerGone
  <1>5. r.server = "dead" => Link(cl, u, dn, n, d)
    BY <1>2, <1>3, LinkServerGone
  <1> QED
    BY <1>4, <1>5 DEF m, n

\* The daemon's data socket opens and the kept frames are flushed to it.
LEMMA LinkDataOpens ==
  ASSUME NEW cl, NEW u, NEW dn, NEW r, NEW d, Link(cl, u, dn, r, d), d.at = "connecting",
         NEW x, x = (r.server # "none" \/ r.old)
  PROVE  Link(cl, u, dn, [r EXCEPT !.server = "live", !.pending = <<>>, !.old = x],
              [d EXCEPT !.at = "hello", !.inbox = r.pending])
  <1> DEFINE m == [r EXCEPT !.server = "live", !.pending = <<>>, !.old = x]
             e == [d EXCEPT !.at = "hello", !.inbox = r.pending]
             p == Len(r.pending)
  <1>1. r \in Relays /\ d \in Sockets /\ r.pending \in Seq(Frames) /\ p \in Nat /\ u \in Seq(Frames)
    BY LinkTypes
  <1>2. d.inbox = <<>> /\ d.buffered = <<>> /\ d.got = <<>> /\ ~d.closing /\ d.at \notin Serving
    BY DEF Link, Joined, Serving
  <1>3. /\ m \in Relays /\ m.server = "live" /\ m.pending = <<>> /\ m.old = x /\ m.client = r.client
    BY <1>1, NothingThere DEF Relays
  <1>4. /\ e \in Sockets /\ e.at = "hello" /\ e.inbox = r.pending /\ e.buffered = <<>> /\ e.got = <<>>
        /\ ~e.closing
    BY <1>1, <1>2 DEF Sockets
  <1>5. PICK k \in Int : Flow(cl, u, r, d, k)
    BY DEF Link
  <1>6. Numbered(r.pending, k) /\ Numbered(u, k + p) /\ (Live(cl) => cl.sent = k + p + Len(u))
    BY <1>1, <1>2, <1>5, IdleFlow
  <1>7. Len(r.pending) = p
    OBVIOUS
  <1> HIDE DEF m, e, p
  <1>8. k + 0 = k /\ k + 0 + p = k + p /\ k + 0 + p + 0 = k + p
    BY <1>1
  <1>9. Flow(cl, u, m, e, k)
    <2>1. Numbered(<<>>, k) /\ Numbered(<<>>, k + p)
      BY NothingThere DEF Numbered
    <2> QED
      BY <1>3, <1>4, <1>6, <1>7, <1>8, <2>1, NothingThere DEF Flow
  <1>10. Typed(cl, u, dn, m, e)
    BY <1>3, <1>4, NothingThere, BoundsAssumption DEF Link, Typed
  <1>11. Departed(cl, dn, m) /\ Joined(m, e) /\ Received(e)
    BY <1>3, <1>4, NothingThere DEF Link, Departed, Joined, Received, Serving
  <1>12. Unanswered(m, e) => Quiet(cl, u, dn, m, e)
    <2>1. Hellos(<<>>)
      BY NothingThere DEF Hellos
    <2> QED
      BY <1>3, <1>4, <2>1 DEF Link, Unanswered, Quiet
  <1> QED
    BY <1>9, <1>10, <1>11, <1>12 DEF Link, m, e

\* The relay is put to sleep, and forgets the frames it has kept.
LEMMA LinkSleeps ==
  ASSUME NEW cl, NEW u, NEW dn, NEW r, NEW d, Link(cl, u, dn, r, d)
  PROVE  Link(cl, u, dn, [r EXCEPT !.pending = <<>>], d)
  <1> DEFINE m == [r EXCEPT !.pending = <<>>]
             p == Len(r.pending)
             v == Len(u)
  <1>1. r \in Relays /\ p \in Nat /\ v \in Nat /\ u \in Seq(Frames)
    BY LinkTypes
  <1>2. /\ m \in Relays /\ m.pending = <<>> /\ m.client = r.client /\ m.server = r.server
        /\ m.old = r.old
    BY <1>1, NothingThere DEF Relays
  <1>3. CASE r.pending = <<>>
    <2>1. m = r
      BY <1>1, <1>3 DEF Relays
    <2> QED
      BY <2>1
  <1>4. CASE r.pending # <<>>
    <2>1. d.at \notin Serving /\ d.inbox = <<>> /\ d.buffered = <<>>
      BY <1>4 DEF Link, Joined, Serving
    <2>2. PICK k \in Int : Flow(cl, u, r, d, k)
      BY DEF Link
    <2>3. Numbered(u, k + p) /\ (Live(cl) => cl.sent = k + p + v)
      BY <1>1, <2>1, <2>2, IdleFlow
    <2> HIDE DEF m, p
    <2>4. k + p \in Int /\ (k + p) + 0 = k + p
      BY <1>1
    <2>5. Flow(cl, u, m, d, k + p)
      <3>1. /\ Numbered(m.pending, k + p) /\ Numbered(u, (k + p) + Len(m.pending))
            /\ Live(cl) => cl.sent = (k + p) + Len(m.pending) + Len(u)
        BY <1>2, <2>3, <2>4, NothingThere DEF Numbered
      <3>2. Len(m.pending) \in Nat
        BY <1>2, NothingThere
      <3> QED
        BY <2>1, <2>4, <3>1, <3>2, IdleFlow
    <2>6. Typed(cl, u, dn, m, d)
      BY <1>2, NothingThere, BoundsAssumption DEF Link, Typed
    <2>7. Departed(cl, dn, m) /\ Joined(m, d) /\ Received(d)
      BY <1>2 DEF Link, Departed, Joined
    <2>8. Unanswered(m, d) => Quiet(cl, u, dn, m, d)
      BY <1>2, NothingThere DEF Link, Unanswered, Quiet, Hellos
    <2> QED
      BY <2>4, <2>5, <2>6, <2>7, <2>8 DEF Link, m
  <1> QED
    BY <1>3, <1>4

-----------------------------------------------------------------------------
(* The daemon's steps.                                                     *)

\* The daemon connects a data socket.
LEMMA LinkConnecting ==
  ASSUME NEW cl, NEW u, NEW dn, NEW r, NEW d, Link(cl, u, dn, r, d), d.at = "none"
  PROVE  Link(cl, u, dn, r, [NoData EXCEPT !.at = "connecting"])
  <1> DEFINE e == [NoData EXCEPT !.at = "connecting"]
  <1>1. d.inbox = <<>> /\ d.buffered = <<>> /\ d.got = <<>> /\ ~d.closing
    BY DEF Link, Joined, Serving
  <1>2. /\ e \in Sockets /\ e.at = "connecting" /\ e.inbox = <<>> /\ e.buffered = <<>> /\ e.got = <<>>
        /\ ~e.closing
    BY NothingThere DEF NoData, Sockets
  <1> HIDE DEF e
  <1>3. PICK k \in Int : Flow(cl, u, r, d, k)
    BY DEF Link
  <1>4. Flow(cl, u, r, e, k)
    BY <1>1, <1>2, <1>3 DEF Flow
  <1>5. Typed(cl, u, dn, r, e) /\ Joined(r, e) /\ Received(e)
    BY <1>1, <1>2 DEF Link, Typed, Joined, Received, Serving
  <1>6. Unanswered(r, e) => Quiet(cl, u, dn, r, e)
    BY <1>1, <1>2 DEF Link, Unanswered, Quiet
  <1> QED
    BY <1>4, <1>5, <1>6 DEF Link, e

\* The daemon's end is gone, with the frames it had: the ones under way come after them.
LEMMA LinkLost ==
  ASSUME NEW cl, NEW u, NEW dn, NEW r, NEW d, Link(cl, u, dn, r, d)
  PROVE  /\ Link(cl, u, dn, Dropped(r), NoData)
         /\ d.closing \/ d.at = "connecting" => Link(cl, u, dn, r, NoData)
  <1> DEFINE m == Dropped(r)
             a == Len(d.buffered)
             b == Len(d.inbox)
             p == Len(r.pending)
             v == Len(u)
  <1>1. r \in Relays /\ a \in Nat /\ b \in Nat /\ p \in Nat /\ v \in Nat
    BY LinkTypes
  <1>2. /\ m \in Relays /\ m.client = r.client /\ m.old = r.old /\ m.pending = r.pending
        /\ m.server = IF r.server = "live" THEN "dead" ELSE r.server
    BY <1>1 DEF Dropped, Relays
  <1>3. /\ NoData.at = "none" /\ NoData.got = <<>> /\ NoData.buffered = <<>> /\ NoData.inbox = <<>>
        /\ ~NoData.closing /\ NoData \in Sockets
    BY NothingThere DEF NoData
  <1>4. d.closing \/ d.at = "connecting" => r.server # "live"
    BY DEF Link, Joined, Serving
  <1>5. r.server # "live" => m = r
    BY DEF Dropped
  <1>6. PICK k \in Int : Flow(cl, u, r, d, k)
    BY DEF Link
  <1>7. /\ Numbered(r.pending, k + a + b) /\ Numbered(u, k + a + b + p)
        /\ Live(cl) => cl.sent = k + a + b + p + v
    BY <1>6 DEF Flow
  <1>8. Len(r.pending) = p /\ Len(u) = v
    OBVIOUS
  <1> DEFINE j == k + a + b
  <1>9. j \in Int
    BY <1>1
  <1> HIDE DEF m, a, b, p, v
  <1>10. Flow(cl, u, m, NoData, j)
    <2>1. /\ Numbered(m.pending, j) /\ Numbered(u, j + Len(m.pending))
          /\ Live(cl) => cl.sent = j + Len(m.pending) + Len(u)
      BY <1>2, <1>7, <1>8
    <2>2. NoData.at \notin Serving /\ Len(m.pending) \in Nat
      BY <1>1, <1>2, <1>3, <1>8 DEF Serving
    <2> HIDE DEF j
    <2> QED
      BY <1>3, <1>9, <2>1, <2>2, IdleFlow
  <1>11. Typed(cl, u, dn, m, NoData)
    BY <1>2, <1>3 DEF Link, Typed
  <1>12. Departed(cl, dn, m) /\ Joined(m, NoData) /\ Received(NoData)
    BY <1>2, <1>3, NothingThere DEF Link, Departed, Joined, Received, Serving
  <1>13. Unanswered(m, NoData) => Quiet(cl, u, dn, m, NoData)
    BY <1>2, <1>3, NothingThere DEF Link, Unanswered, Quiet, Hellos
  <1>14. Link(cl, u, dn, m, NoData)
    BY <1>9, <1>10, <1>11, <1>12, <1>13 DEF Link
  <1> QED
    BY <1>4, <1>5, <1>14 DEF m

\* A frame is taken from the socket, and not kept for later.
LEMMA FlowTaken ==
  ASSUME NEW cl, NEW u, NEW dn, NEW r, NEW d, NEW e \in Sockets, NEW k \in Int,
         Link(cl, u, dn, r, d), Flow(cl, u, r, d, k), d.inbox # <<>>, d.at # "answering",
         e.inbox = Tail(d.inbox), e.buffered = <<>>,
         e.at = "answering" => k + 1 <= 0,
         e.at = "open" => Len(e.got) = Turn(k + 1)
  PROVE  /\ Flow(cl, u, r, e, k + 1) /\ Head(d.inbox) = Turn(k + 1)
         /\ Tail(d.inbox) \in Seq(Frames)
         /\ Hellos(d.inbox) => Hellos(Tail(d.inbox))
  <1> DEFINE b == Len(d.inbox)
             p == Len(r.pending)
             v == Len(u)
  <1>1. b \in Nat /\ p \in Nat /\ v \in Nat /\ d.inbox \in Seq(Frames)
    BY LinkTypes
  <1>2. d.buffered = <<>> /\ Len(d.buffered) = 0
    BY NothingThere DEF Link, Joined
  <1>3. k + 0 = k
    OBVIOUS
  <1>4. /\ Numbered(d.inbox, k) /\ Numbered(r.pending, k + b) /\ Numbered(u, k + b + p)
        /\ Live(cl) => cl.sent = k + b + p + v
    BY <1>2, <1>3 DEF Flow
  <1>5. Len(d.inbox) = b /\ Len(r.pending) = p /\ Len(u) = v
    OBVIOUS
  <1>6. /\ Head(d.inbox) = Turn(k + 1) /\ Tail(d.inbox) \in Seq(Frames)
        /\ Len(Tail(d.inbox)) = b - 1 /\ Numbered(Tail(d.inbox), k + 1)
    BY <1>1, <1>4, NumberedTail
  <1>7. Hellos(d.inbox) => Hellos(Tail(d.inbox))
    BY <1>1, HellosKept
  <1> HIDE DEF b, p, v
  <1>8. (k + 1) + 0 = k + 1 /\ (k + 1) + 0 + (b - 1) = k + b
    BY <1>1
  <1>9. Numbered(<<>>, k + 1)
    BY NothingThere DEF Numbered
  <1>10. Flow(cl, u, r, e, k + 1)
    BY <1>4, <1>5, <1>6, <1>8, <1>9, NothingThere DEF Flow
  <1> QED
    BY <1>6, <1>7, <1>10

\* A hello is answered: the first one, and any on the open channel.
LEMMA LinkAnswers ==
  ASSUME NEW cl, NEW u, NEW dn, NEW r, NEW d, Link(cl, u, dn, r, d), d.inbox # <<>>,
         d.at \in {"hello", "open"}, Head(d.inbox) = Hello,
         NEW a, a = IF d.at = "hello" THEN "answering" ELSE "open",
         NEW n, n = IF cl.at \in {"handshaking", "open"} THEN dn + 1 ELSE 0
  PROVE  Link(cl, u, n, r, [d EXCEPT !.inbox = Tail(@), !.at = a])
  <1> DEFINE e == [d EXCEPT !.inbox = Tail(@), !.at = a]
  <1>1. d \in Sockets /\ cl \in Clients /\ dn \in Nat /\ d.inbox \in Seq(Frames)
    BY LinkTypes
  <1>2. Tail(d.inbox) \in Seq(Frames) /\ d.buffered = <<>>
    BY <1>1, HeadTailProperties, EmptySeq DEF Link, Joined
  <1>3. /\ e \in Sockets /\ e.inbox = Tail(d.inbox) /\ e.at = a /\ e.buffered = <<>> /\ e.got = d.got
        /\ e.closing = d.closing
    BY <1>1, <1>2 DEF Sockets
  <1>4. PICK k \in Int : Flow(cl, u, r, d, k)
    BY DEF Link
  <1>5. k + 1 <= 0
    <2>1. Numbered(d.inbox, k + 0)
      BY <1>2, <1>4, NothingThere DEF Flow
    <2>2. Head(d.inbox) = Turn(k + 1)
      BY <1>1, <2>1, NumberedTail
    <2> QED
      BY <2>2 DEF Turn, Hello
  <1>6. e.at = "open" => Len(e.got) = Turn(k + 1)
    BY <1>3, <1>4, <1>5 DEF Flow, Turn
  <1> HIDE DEF e
  <1>7. Flow(cl, u, r, e, k + 1) /\ k + 1 \in Int
    BY <1>3, <1>4, <1>5, <1>6, FlowTaken
  <1>8. n \in Nat /\ (~Live(cl) => n = 0)
    BY <1>1 DEF Live
  <1>9. Typed(cl, u, n, r, e)
    BY <1>3, <1>8 DEF Link, Typed
  <1>10. Departed(cl, n, r) /\ Joined(r, e) /\ Received(e)
    BY <1>3, <1>8 DEF Link, Departed, Joined, Received, Serving
  <1>11. ~Unanswered(r, e)
    BY <1>3 DEF Link, Joined, Unanswered, Serving
  <1> QED
    BY <1>7, <1>9, <1>10, <1>11 DEF Link, e

\* The open channel takes a message.
LEMMA LinkReceives ==
  ASSUME NEW cl, NEW u, NEW dn, NEW r, NEW d, Link(cl, u, dn, r, d), d.inbox # <<>>,
         d.at = "open", Head(d.inbox) # Hello
  PROVE  Link(cl, u, dn, r, [d EXCEPT !.inbox = Tail(@), !.got = Append(@, Head(d.inbox))])
  <1> DEFINE g == Append(d.got, Head(d.inbox))
             e == [d EXCEPT !.inbox = Tail(@), !.got = g]
             n == Len(d.got)
  <1>1. d \in Sockets /\ d.inbox \in Seq(Frames) /\ d.got \in Seq(Frames) /\ n \in Nat
    BY LinkTypes
  <1>2. /\ Tail(d.inbox) \in Seq(Frames) /\ Head(d.inbox) \in Frames /\ d.buffered = <<>>
    BY <1>1, HeadTailProperties, EmptySeq DEF Link, Joined
  <1>3. /\ g \in Seq(Frames) /\ Len(g) = n + 1 /\ g[n + 1] = Head(d.inbox)
        /\ \A i \in 1..n : g[i] = d.got[i]
    BY <1>1, <1>2, AppendProperties
  <1>4. DOMAIN g = 1..n + 1 /\ DOMAIN d.got = 1..n
    BY <1>1, <1>3, LenProperties
  <1> HIDE DEF g
  <1>5. /\ e \in Sockets /\ e.inbox = Tail(d.inbox) /\ e.at = "open" /\ e.buffered = <<>> /\ e.got = g
        /\ e.closing = d.closing
    BY <1>1, <1>2, <1>3 DEF Sockets
  <1>6. PICK k \in Int : Flow(cl, u, r, d, k)
    BY DEF Link
  <1>7. Head(d.inbox) = k + 1 /\ n = k /\ Turn(k + 1) = k + 1
    <2>1. Numbered(d.inbox, k + 0)
      BY <1>2, <1>6, NothingThere DEF Flow
    <2>2. Head(d.inbox) = Turn(k + 1)
      BY <1>1, <2>1, NumberedTail
    <2>3. n = Turn(k)
      BY <1>6 DEF Flow
    <2> HIDE DEF n
    <2> QED
      BY <2>2, <2>3 DEF Turn, Hello
  <1> HIDE DEF e, n
  <1>8. Flow(cl, u, r, e, k + 1) /\ k + 1 \in Int
    BY <1>3, <1>5, <1>6, <1>7, FlowTaken
  <1>9. Received(e)
    <2>1. \A i \in 1..n : d.got[i] = i
      BY <1>4 DEF Link, Received
    <2> QED
      BY <1>1, <1>3, <1>4, <1>5, <1>7, <2>1 DEF Received
  <1>10. Typed(cl, u, dn, r, e)
    BY <1>5 DEF Link, Typed
  <1>11. Joined(r, e)
    BY <1>2, <1>5 DEF Link, Joined, Serving
  <1>12. ~Unanswered(r, e)
    BY <1>5 DEF Link, Joined, Unanswered, Serving
  <1> QED
    BY <1>8, <1>9, <1>10, <1>11, <1>12 DEF Link, e, g

\* A frame that comes while the answer is sent is kept.
LEMMA LinkBuffers ==
  ASSUME NEW cl, NEW u, NEW dn, NEW r, NEW d, Link(cl, u, dn, r, d), d.inbox # <<>>,
         d.at = "answering"
  PROVE  Link(cl, u, dn, r, [d EXCEPT !.inbox = Tail(@), !.buffered = Append(@, Head(d.inbox))])
  <1> DEFINE q == Append(d.buffered, Head(d.inbox))
             t == Tail(d.inbox)
             e == [d EXCEPT !.inbox = t, !.buffered = q]
             a == Len(d.buffered)
             b == Len(d.inbox)
             p == Len(r.pending)
             v == Len(u)
  <1>1. /\ d \in Sockets /\ a \in Nat /\ b \in Nat /\ p \in Nat /\ v \in Nat
        /\ d.inbox \in Seq(Frames) /\ d.buffered \in Seq(Frames)
    BY LinkTypes
  <1>2. PICK k \in Int : Flow(cl, u, r, d, k)
    BY DEF Link
  <1>3. /\ Numbered(d.buffered, k) /\ Numbered(d.inbox, k + a) /\ Numbered(r.pending, k + a + b)
        /\ Numbered(u, k + a + b + p) /\ (Live(cl) => cl.sent = k + a + b + p + v) /\ k <= 0
    BY <1>2 DEF Flow
  <1>4. Len(d.buffered) = a /\ Len(d.inbox) = b /\ Len(r.pending) = p /\ Len(u) = v
    OBVIOUS
  <1> HIDE DEF a, b, p, v
  <1>5. k + a \in Int
    BY <1>1
  <1>6. /\ Head(d.inbox) \in Frames /\ Head(d.inbox) = Turn(k + a + 1) /\ t \in Seq(Frames)
        /\ Len(t) = b - 1 /\ Numbered(t, k + a + 1)
    BY <1>1, <1>3, <1>4, <1>5, NumberedTail
  <1>7. q \in Seq(Frames) /\ Len(q) = a + 1 /\ Numbered(q, k)
    BY <1>1, <1>3, <1>4, <1>6, NumberedAppend
  <1> HIDE DEF q, t
  <1>8. /\ e \in Sockets /\ e.inbox = t /\ e.buffered = q /\ e.at = "answering" /\ e.got = d.got
        /\ e.closing = d.closing
    BY <1>1, <1>6, <1>7 DEF Sockets
  <1> HIDE DEF e
  <1>9. k + (a + 1) = k + a + 1 /\ k + (a + 1) + (b - 1) = k + a + b
    BY <1>1
  <1>10. Flow(cl, u, r, e, k)
    BY <1>3, <1>4, <1>6, <1>7, <1>8, <1>9 DEF Flow
  <1>11. Typed(cl, u, dn, r, e)
    BY <1>8 DEF Link, Typed
  <1>12. Joined(r, e) /\ Received(e) /\ ~Unanswered(r, e)
    BY <1>8 DEF Link, Joined, Received, Unanswered, Serving
  <1> QED
    BY <1>10, <1>11, <1>12 DEF Link, e, q, t

\* The answer has been sent: the messages kept are the first the channel receives.
LEMMA LinkChannelOpens ==
  ASSUME NEW cl, NEW u, NEW dn, NEW r, NEW d, Link(cl, u, dn, r, d), d.at = "answering"
  PROVE  Link(cl, u, dn, r, [d EXCEPT !.at = "open", !.got = Messages(d.buffered), !.buffered = <<>>])
  <1> DEFINE g == Messages(d.buffered)
             e == [d EXCEPT !.at = "open", !.got = g, !.buffered = <<>>]
             a == Len(d.buffered)
  <1>1. d \in Sockets /\ a \in Nat /\ d.buffered \in Seq(Frames)
    BY LinkTypes
  <1>2. PICK k \in Int : Flow(cl, u, r, d, k)
    BY DEF Link
  <1>3. Numbered(d.buffered, k) /\ k <= 0
    BY <1>2 DEF Flow
  <1>4. /\ g \in Seq(Frames) /\ Len(g) = Turn(k + a)
        /\ \A i \in DOMAIN g : g[i] = i
    BY <1>1, <1>3, MessagesNumbered
  <1> HIDE DEF g
  <1>5. /\ e \in Sockets /\ e.inbox = d.inbox /\ e.buffered = <<>> /\ e.at = "open" /\ e.got = g
        /\ e.closing = d.closing
    BY <1>1, <1>4, NothingThere DEF Sockets
  <1>6. k + a \in Int /\ (k + a) + 0 = k + a
    BY <1>1
  <1> HIDE DEF e
  <1>7. Flow(cl, u, r, e, k + a)
    <2>1. /\ Numbered(d.inbox, k + a) /\ Numbered(r.pending, k + a + Len(d.inbox))
          /\ Numbered(u, k + a + Len(d.inbox) + Len(r.pending))
          /\ Live(cl) => cl.sent = k + a + Len(d.inbox) + Len(r.pending) + Len(u)
      BY <1>2 DEF Flow
    <2>2. Numbered(<<>>, k + a)
      BY NothingThere DEF Numbered
    <2> HIDE DEF a
    <2> QED
      BY <1>4, <1>5, <1>6, <2>1, <2>2, NothingThere DEF Flow
  <1>8. Typed(cl, u, dn, r, e)
    BY <1>5 DEF Link, Typed
  <1>9. Joined(r, e) /\ Received(e) /\ ~Unanswered(r, e)
    BY <1>4, <1>5 DEF Link, Joined, Received, Unanswered, Serving
  <1> QED
    BY <1>6, <1>7, <1>8, <1>9 DEF Link, e, g

-----------------------------------------------------------------------------
(* The control socket.                                                     *)

\* The types of the control socket.
LEMMA ControlTypes ==
  ASSUME control \in Controls
  PROVE  /\ ControlDown \in Controls
         /\ \A c \in Conns : Single("connected", c) \in ControlMessages
                             /\ Single("disconnected", c) \in ControlMessages
         /\ Sync(relay) \in ControlMessages
         /\ \A ctl \in Controls, m \in ControlMessages : Told(ctl, m) \in Controls
         /\ \A c \in Conns : Forgotten(c) \in Controls
         /\ [ControlDown EXCEPT !.up = TRUE, !.queue = <<Sync(relay)>>] \in Controls
  <1>1. ControlDown \in Controls
    BY DEF ControlDown, Controls
  <1>2. \A c \in Conns : Single("connected", c) \in ControlMessages
                         /\ Single("disconnected", c) \in ControlMessages
    BY DEF Single, ControlMessages
  <1>3. Sync(relay) \in ControlMessages
    BY DEF Sync, ControlMessages
  <1>4. ASSUME NEW ctl \in Controls, NEW m \in ControlMessages
        PROVE  Told(ctl, m) \in Controls
    <2>1. ctl.queue \in Seq(ControlMessages)
      BY DEF Controls
    <2>2. Append(ctl.queue, m) \in Seq(ControlMessages)
      BY <2>1, AppendProperties
    <2> QED
      BY <2>2 DEF Told, Controls
  <1>5. ASSUME NEW c \in Conns
        PROVE  Forgotten(c) \in Controls
    <2> DEFINE s == control.queue
               t == [i \in DOMAIN s |-> [s[i] EXCEPT !.conns = @ \ {c}]]
    <2>1. s \in Seq(ControlMessages)
      BY DEF Controls
    <2>2. Len(s) \in Nat /\ DOMAIN s = 1..Len(s) /\ \A i \in 1..Len(s) : s[i] \in ControlMessages
      BY <2>1, LenProperties, ElementOfSeq
    <2>3. \A i \in 1..Len(s) : [s[i] EXCEPT !.conns = @ \ {c}] \in ControlMessages
      BY <2>2 DEF ControlMessages
    <2>4. t \in [1..Len(s) -> ControlMessages]
      BY <2>2, <2>3
    <2>5. t \in Seq(ControlMessages)
      BY <2>2, <2>4, IsASeq
    <2>6. [control EXCEPT !.queue = t] \in Controls
      <3> HIDE DEF t
      <3> QED
        BY <2>5 DEF Controls
    <2> QED
      BY <2>6 DEF Forgotten
  <1>6. <<Sync(relay)>> \in Seq(ControlMessages)
    BY <1>3
  <1> QED
    BY <1>1, <1>2, <1>3, <1>4, <1>5, <1>6 DEF ControlDown, Controls

-----------------------------------------------------------------------------
(* A step changes what is linked of one connection, or of each by itself.  *)

\* The invariant, from each connection.
LEMMA InvAgain ==
  ASSUME client' = [x \in Conns |-> client'[x]], up' = [x \in Conns |-> up'[x]],
         down' = [x \in Conns |-> down'[x]], relay' = [x \in Conns |-> relay'[x]],
         data' = [x \in Conns |-> data'[x]],
         control' \in Controls, faults' \in 0..MaxFaults,
         \A c \in Conns : Link(client'[c], up'[c], down'[c], relay'[c], data'[c])
  PROVE  Inv'
  <1>1. ASSUME NEW c \in Conns
        PROVE  /\ client'[c] \in Clients /\ up'[c] \in Seq(Frames) /\ down'[c] \in Nat
               /\ relay'[c] \in Relays /\ data'[c] \in Sockets /\ Len(relay'[c].pending) <= PendingLimit
    <2>1. Link(client'[c], up'[c], down'[c], relay'[c], data'[c])
      OBVIOUS
    <2> QED
      BY ONLY <2>1 DEF Link, Typed
  <1>2. /\ client' \in [Conns -> Clients] /\ up' \in [Conns -> Seq(Frames)] /\ down' \in [Conns -> Nat]
        /\ relay' \in [Conns -> Relays] /\ data' \in [Conns -> Sockets]
    BY <1>1
  <1>3. TypeOK'
    BY <1>1, <1>2 DEF TypeOK, Clients, Relays, Sockets, Controls
  <1> QED
    BY <1>3 DEF Inv, LinkOf

\* Each connection, from the invariant.
LEMMA InvTypes ==
  ASSUME Inv
  PROVE  /\ client = [x \in Conns |-> client[x]] /\ up = [x \in Conns |-> up[x]]
         /\ down = [x \in Conns |-> down[x]] /\ relay = [x \in Conns |-> relay[x]]
         /\ data = [x \in Conns |-> data[x]]
         /\ control \in Controls /\ faults \in 0..MaxFaults
         /\ \A c \in Conns : Link(client[c], up[c], down[c], relay[c], data[c])
  BY DEF Inv, TypeOK, Controls, LinkOf

\* A step of one connection leaves the others alone.
LEMMA OneMoves ==
  ASSUME Inv, NEW c \in Conns, NEW cl, NEW u, NEW dn, NEW r, NEW d, Link(cl, u, dn, r, d),
         client' = [client EXCEPT ![c] = cl] \/ (client' = client /\ cl = client[c]),
         up' = [up EXCEPT ![c] = u] \/ (up' = up /\ u = up[c]),
         down' = [down EXCEPT ![c] = dn] \/ (down' = down /\ dn = down[c]),
         relay' = [relay EXCEPT ![c] = r] \/ (relay' = relay /\ r = relay[c]),
         data' = [data EXCEPT ![c] = d] \/ (data' = data /\ d = data[c]),
         control' \in Controls, faults' \in 0..MaxFaults
  PROVE  Inv'
  <1>1. /\ client = [x \in Conns |-> client[x]] /\ up = [x \in Conns |-> up[x]]
        /\ down = [x \in Conns |-> down[x]] /\ relay = [x \in Conns |-> relay[x]]
        /\ data = [x \in Conns |-> data[x]]
    BY InvTypes
  <1>2. /\ client' = [x \in Conns |-> client'[x]] /\ client'[c] = cl
        /\ \A x \in Conns \ {c} : client'[x] = client[x]
    BY <1>1
  <1>3. /\ up' = [x \in Conns |-> up'[x]] /\ up'[c] = u
        /\ \A x \in Conns \ {c} : up'[x] = up[x]
    BY <1>1
  <1>4. /\ down' = [x \in Conns |-> down'[x]] /\ down'[c] = dn
        /\ \A x \in Conns \ {c} : down'[x] = down[x]
    BY <1>1
  <1>5. /\ relay' = [x \in Conns |-> relay'[x]] /\ relay'[c] = r
        /\ \A x \in Conns \ {c} : relay'[x] = relay[x]
    BY <1>1
  <1>6. /\ data' = [x \in Conns |-> data'[x]] /\ data'[c] = d
        /\ \A x \in Conns \ {c} : data'[x] = data[x]
    BY <1>1
  <1>7. ASSUME NEW x \in Conns
        PROVE  Link(client'[x], up'[x], down'[x], relay'[x], data'[x])
    <2>1. CASE x = c
      BY <1>2, <1>3, <1>4, <1>5, <1>6, <2>1
    <2>2. CASE x # c
      <3>1. Link(client[x], up[x], down[x], relay[x], data[x])
        BY InvTypes
      <3> QED
        BY <1>2, <1>3, <1>4, <1>5, <1>6, <2>2, <3>1
    <2> QED
      BY <2>1, <2>2
  <1> QED
    BY <1>2, <1>3, <1>4, <1>5, <1>6, <1>7, InvAgain

\* The client's steps.
LEMMA ClientMoves ==
  ASSUME Inv, NEW c \in Conns,
         ClientStep(c) \/ HelloAgain(c) \/ ClientSends(c) \/ ClientLeaves(c)
  PROVE  Inv'
  <1>1. /\ Link(client[c], up[c], down[c], relay[c], data[c]) /\ control \in Controls
        /\ faults \in 0..MaxFaults
    BY InvTypes
  <1>2. CASE ClientConnects(c)
    <2>1. Link([client[c] EXCEPT !.at = "handshaking"], <<Hello>>, down[c],
               [NoRelay EXCEPT !.client = "listed", !.nudge = "first"], NoData)
      BY <1>1, <1>2, LinkConnects DEF ClientConnects
    <2>2. control' \in Controls
      BY <1>1, <1>2, ControlTypes DEF ClientConnects
    <2> QED
      BY <1>1, <1>2, <2>1, <2>2, OneMoves DEF ClientConnects
  <1>3. CASE HelloAgain(c)
    <2>1. Link(client[c], Append(up[c], Hello), down[c], relay[c], data[c])
      BY <1>1, <1>3, LinkHelloAgain DEF HelloAgain
    <2> QED
      BY <1>1, <1>3, <2>1, OneMoves DEF HelloAgain
  <1>4. CASE ClientOpens(c)
    <2> DEFINE cl == IF client[c].at = "handshaking" THEN [client[c] EXCEPT !.at = "open"] ELSE client[c]
    <2>1. Link(cl, up[c], down[c] - 1, relay[c], data[c])
      BY <1>1, <1>4, LinkOpens DEF ClientOpens
    <2>2. client' = [client EXCEPT ![c] = cl] \/ (client' = client /\ cl = client[c])
      BY <1>4 DEF ClientOpens
    <2> HIDE DEF cl
    <2> QED
      BY <1>1, <1>4, <2>1, <2>2, OneMoves DEF ClientOpens
  <1>5. CASE ClientSends(c)
    <2>1. Link([client[c] EXCEPT !.sent = @ + 1], Append(up[c], client[c].sent + 1), down[c], relay[c], data[c])
      BY <1>1, <1>5, LinkSends DEF ClientSends
    <2> QED
      BY <1>1, <1>5, <2>1, OneMoves DEF ClientSends
  <1>6. ASSUME Gone(c), faults' \in 0..MaxFaults
        PROVE  Inv'
    <2>1. Link([NoClient EXCEPT !.at = "gone"], up[c], 0, relay[c], data[c])
      BY <1>1, LinkGone
    <2> QED
      BY <1>1, <1>6, <2>1, OneMoves DEF Gone
  <1>7. CASE ClientSeesClose(c) \/ ConnectTimesOut(c)
    BY <1>1, <1>6, <1>7 DEF ClientSeesClose, ConnectTimesOut
  <1>8. CASE ClientLeaves(c)
    BY <1>1, <1>6, <1>8, BoundsAssumption DEF ClientLeaves, Faulty
  <1>9. CASE ClientReturns(c)
    <2>1. Link(NoClient, up[c], down[c], relay[c], data[c])
      BY <1>1, <1>9, LinkReturns DEF ClientReturns
    <2> QED
      BY <1>1, <1>9, <2>1, OneMoves DEF ClientReturns
  <1> QED
    BY <1>2, <1>3, <1>4, <1>5, <1>7, <1>8, <1>9 DEF ClientStep

\* The relay's steps.
LEMMA RelayMoves ==
  ASSUME Inv, NEW c \in Conns, RelayHandles(c) \/ RelayCloses(c) \/ Nudges(c)
  PROVE  Inv'
  <1>1. /\ Link(client[c], up[c], down[c], relay[c], data[c]) /\ control \in Controls
        /\ faults \in 0..MaxFaults /\ relay[c] \in Relays
    BY InvTypes, LinkTypes
  <1>2. CASE RelayHandles(c)
    <2>1. CASE ~HasServer(c) /\ relay' = [relay EXCEPT ![c].pending = Kept(Append(@, Head(up[c])))]
               /\ UNCHANGED data
      <3>1. Link(client[c], Tail(up[c]), down[c],
                 [relay[c] EXCEPT !.pending = Kept(Append(@, Head(up[c])))], data[c])
        BY <1>1, <1>2, <2>1, LinkKeeps DEF RelayHandles, HasServer
      <3> QED
        BY <1>1, <1>2, <2>1, <3>1, OneMoves DEF RelayHandles
    <2>2. CASE relay[c].server = "live" /\ data' = [data EXCEPT ![c].inbox = Append(@, Head(up[c]))]
               /\ UNCHANGED relay
      <3>1. Link(client[c], Tail(up[c]), down[c], relay[c],
                 [data[c] EXCEPT !.inbox = Append(@, Head(up[c]))])
        BY <1>1, <1>2, <2>2, LinkForwards DEF RelayHandles
      <3> QED
        BY <1>1, <1>2, <2>2, <3>1, OneMoves DEF RelayHandles
    <2>3. CASE HasServer(c) /\ relay[c].server # "live" /\ UNCHANGED <<relay, data>>
      <3>1. Link(client[c], Tail(up[c]), down[c], relay[c], data[c])
        BY <1>1, <1>2, <2>3, LinkDrops DEF RelayHandles, HasServer
      <3> QED
        BY <1>1, <1>2, <2>3, <3>1, OneMoves DEF RelayHandles
    <2> QED
      BY <1>2, <2>1, <2>2, <2>3 DEF RelayHandles
  <1>3. CASE RelaySeesClientClose(c)
    <2> DEFINE m == [Dropped(relay[c]) EXCEPT !.client = "none", !.pending = <<>>]
               e == IF relay[c].server = "live" THEN [data[c] EXCEPT !.closing = TRUE] ELSE data[c]
    <2>1. Link(client[c], <<>>, down[c], m, e)
      BY <1>1, <1>3, LinkClientClosed DEF RelaySeesClientClose
    <2>2. control' \in Controls
      BY <1>1, <1>3, ControlTypes DEF RelaySeesClientClose, Notified
    <2>3. relay' = [relay EXCEPT ![c] = m]
      BY <1>3 DEF RelaySeesClientClose
    <2>4. data' = [data EXCEPT ![c] = e] \/ (data' = data /\ e = data[c])
      BY <1>3 DEF RelaySeesClientClose
    <2> HIDE DEF m, e
    <2> QED
      BY <1>1, <1>3, <2>1, <2>2, <2>3, <2>4, OneMoves DEF RelaySeesClientClose
  <1>4. CASE RelaySeesServerClose(c)
    <2> DEFINE x == IF relay[c].client = "listed" THEN "closing" ELSE relay[c].client
    <2>1. \/ relay[c].old /\ relay' = [relay EXCEPT ![c].old = FALSE, ![c].client = x]
          \/ relay[c].server = "dead" /\ relay' = [relay EXCEPT ![c].server = "none", ![c].client = x]
      BY <1>4 DEF RelaySeesServerClose
    <2> DEFINE m == [relay[c] EXCEPT !.old = FALSE, !.client = x]
               n == [relay[c] EXCEPT !.server = "none", !.client = x]
    <2>2. /\ relay[c].old => Link(client[c], up[c], down[c], m, data[c])
          /\ relay[c].server = "dead" => Link(client[c], up[c], down[c], n, data[c])
      BY <1>1, LinkServerClosed
    <2>3. \/ relay[c].old /\ relay' = [relay EXCEPT ![c] = m]
          \/ relay[c].server = "dead" /\ relay' = [relay EXCEPT ![c] = n]
      <3> HIDE DEF x
      <3>1. relay = [y \in Conns |-> relay[y]]
        BY InvTypes
      <3> QED
        BY <2>1, <3>1
    <2> HIDE DEF m, n
    <2> QED
      BY <1>1, <1>4, <2>2, <2>3, OneMoves DEF RelaySeesServerClose
  <1>5. CASE NudgeFirst(c)
    <2> DEFINE x == IF Missing(c) THEN "second" ELSE "off"
    <2>1. Link(client[c], up[c], down[c], [relay[c] EXCEPT !.nudge = x], data[c])
      BY <1>1, LinkNudge
    <2>2. control' \in Controls
      BY <1>1, <1>5, ControlTypes DEF NudgeFirst, Notified
    <2>3. relay' = [relay EXCEPT ![c].nudge = x]
      BY <1>5 DEF NudgeFirst
    <2> HIDE DEF x
    <2> QED
      BY <1>1, <1>5, <2>1, <2>2, <2>3, OneMoves DEF NudgeFirst
  <1>6. CASE NudgeSecond(c)
    <2>1. Link(client[c], up[c], down[c], [relay[c] EXCEPT !.nudge = "off"], data[c])
      BY <1>1, LinkNudge
    <2>2. control' \in Controls
      BY <1>1, <1>6, ControlTypes DEF NudgeSecond
    <2> QED
      BY <1>1, <1>6, <2>1, <2>2, OneMoves DEF NudgeSecond
  <1> QED
    BY <1>2, <1>3, <1>4, <1>5, <1>6 DEF RelayCloses, Nudges

\* A data socket is lost.
LEMMA SocketGone ==
  ASSUME Inv, NEW c \in Conns, Lost(c), control' \in Controls, faults' \in 0..MaxFaults, UNCHANGED ends
  PROVE  Inv'
  <1>1. Link(client[c], up[c], down[c], Dropped(relay[c]), NoData)
    BY InvTypes, LinkLost
  <1> QED
    BY <1>1, OneMoves DEF Lost, ends

\* The daemon's steps on a data socket.
LEMMA DaemonMoves ==
  ASSUME Inv, NEW c \in Conns, DaemonStep(c) \/ DataFails(c) \/ DataLost(c)
  PROVE  Inv'
  <1>1. /\ Link(client[c], up[c], down[c], relay[c], data[c]) /\ control \in Controls
        /\ faults \in 0..MaxFaults /\ data[c] \in Sockets
        /\ data = [x \in Conns |-> data[x]] /\ relay = [x \in Conns |-> relay[x]]
    BY InvTypes, LinkTypes
  <1>2. CASE DataOpens(c)
    <2> DEFINE x == HasServer(c)
               m == [relay[c] EXCEPT !.server = "live", !.pending = <<>>, !.old = x]
               e == [data[c] EXCEPT !.at = "hello", !.inbox = relay[c].pending]
    <2>1. x = (relay[c].server # "none" \/ relay[c].old)
      BY DEF HasServer
    <2>2. Link(client[c], up[c], down[c], m, e)
      <3> HIDE DEF x
      <3> QED
        BY <1>1, <1>2, <2>1, LinkDataOpens DEF DataOpens
    <2>3. relay' = [relay EXCEPT ![c] = m] /\ data' = [data EXCEPT ![c] = e]
      <3>1. /\ relay' = [relay EXCEPT ![c].server = "live", ![c].pending = <<>>, ![c].old = x]
            /\ data' = [data EXCEPT ![c].at = "hello", ![c].inbox = relay[c].pending]
        BY <1>2 DEF DataOpens
      <3> HIDE DEF x
      <3> QED
        BY <1>1, <3>1
    <2> HIDE DEF m, e
    <2> QED
      BY <1>1, <1>2, <2>2, <2>3, OneMoves DEF DataOpens, ends
  <1>3. ASSUME data[c].at \in {"hello", "open"}, data[c].inbox # <<>>, Head(data[c].inbox) = Hello,
               Answered(c), UNCHANGED <<client, up, relay, control, faults>>,
               NEW a, a = IF data[c].at = "hello" THEN "answering" ELSE "open",
               data' = [data EXCEPT ![c] = [data[c] EXCEPT !.inbox = Tail(@), !.at = a]]
        PROVE  Inv'
    <2> DEFINE n == IF client[c].at \in {"handshaking", "open"} THEN down[c] + 1 ELSE 0
               e == [data[c] EXCEPT !.inbox = Tail(@), !.at = a]
    <2>1. Link(client[c], up[c], n, relay[c], e)
      BY <1>1, <1>3, LinkAnswers
    <2>2. down' = [down EXCEPT ![c] = n]
      BY <1>3 DEF Answered
    <2> HIDE DEF n, e
    <2> QED
      BY <1>1, <1>3, <2>1, <2>2, OneMoves DEF e
  <1>4. CASE FirstFrame(c)
    <2>1. CASE Head(data[c].inbox) = Hello /\ data' = [Taken(c) EXCEPT ![c].at = "answering"]
               /\ Answered(c) /\ UNCHANGED relay
      <3>1. data' = [data EXCEPT ![c] = [data[c] EXCEPT !.inbox = Tail(@), !.at = "answering"]]
        BY <1>1, <2>1 DEF Taken
      <3> QED
        BY <1>3, <1>4, <2>1, <3>1 DEF FirstFrame
    <2>2. CASE Lost(c) /\ UNCHANGED down
      BY <1>1, <1>4, <2>2, SocketGone DEF FirstFrame, ends
    <2> QED
      BY <1>4, <2>1, <2>2 DEF FirstFrame
  <1>5. CASE NextFrame(c)
    <2> DEFINE e == [data[c] EXCEPT !.inbox = Tail(@), !.buffered = Append(@, Head(data[c].inbox))]
    <2>1. Link(client[c], up[c], down[c], relay[c], e)
      BY <1>1, <1>5, LinkBuffers DEF NextFrame
    <2>2. data' = [data EXCEPT ![c] = e]
      <3>1. data' = [Taken(c) EXCEPT ![c].buffered = Append(@, Head(data[c].inbox))]
        BY <1>5 DEF NextFrame
      <3>2. Taken(c)[c].buffered = data[c].buffered
        BY <1>1 DEF Taken, Sockets
      <3> QED
        BY <1>1, <3>1, <3>2 DEF Taken
    <2> HIDE DEF e
    <2> QED
      BY <1>1, <1>5, <2>1, <2>2, OneMoves DEF NextFrame, ends
  <1>6. CASE AnswerSent(c)
    <2> DEFINE g == Messages(data[c].buffered)
               e == [data[c] EXCEPT !.at = "open", !.got = g, !.buffered = <<>>]
    <2>1. Link(client[c], up[c], down[c], relay[c], e)
      BY <1>1, <1>6, LinkChannelOpens DEF AnswerSent
    <2>2. data' = [data EXCEPT ![c] = e]
      <3>1. data' = [data EXCEPT ![c].at = "open", ![c].got = g, ![c].buffered = <<>>]
        BY <1>6 DEF AnswerSent
      <3> HIDE DEF g
      <3> QED
        BY <1>1, <3>1
    <2> HIDE DEF e, g
    <2> QED
      BY <1>1, <1>6, <2>1, <2>2, OneMoves DEF AnswerSent, ends
  <1>7. CASE ChannelFrame(c)
    <2>1. CASE Head(data[c].inbox) = Hello /\ data' = Taken(c) /\ Answered(c)
      <3>1. [data[c] EXCEPT !.inbox = Tail(@)] = [data[c] EXCEPT !.inbox = Tail(@), !.at = "open"]
        BY <1>1, <1>7 DEF ChannelFrame, Sockets
      <3>2. data' = [data EXCEPT ![c] = [data[c] EXCEPT !.inbox = Tail(@), !.at = "open"]]
        BY <2>1, <3>1 DEF Taken
      <3> QED
        BY <1>3, <1>7, <2>1, <3>2 DEF ChannelFrame
    <2>2. CASE Head(data[c].inbox) # Hello /\ UNCHANGED down
               /\ data' = [Taken(c) EXCEPT ![c].got = Append(@, Head(data[c].inbox))]
      <3> DEFINE e == [data[c] EXCEPT !.inbox = Tail(@), !.got = Append(@, Head(data[c].inbox))]
      <3>1. Link(client[c], up[c], down[c], relay[c], e)
        BY <1>1, <1>7, <2>2, LinkReceives DEF ChannelFrame
      <3>2. data' = [data EXCEPT ![c] = e]
        <4>1. Taken(c)[c].got = data[c].got
          BY <1>1 DEF Taken, Sockets
        <4> QED
          BY <1>1, <2>2, <4>1 DEF Taken
      <3> HIDE DEF e
      <3> QED
        BY <1>1, <1>7, <2>2, <3>1, <3>2, OneMoves DEF ChannelFrame
    <2> QED
      BY <1>7, <2>1, <2>2 DEF ChannelFrame
  <1>8. CASE DataSeesClose(c)
    <2>1. Link(client[c], up[c], down[c], relay[c], NoData)
      BY <1>1, <1>8, LinkLost DEF DataSeesClose
    <2> QED
      BY <1>1, <1>8, <2>1, OneMoves DEF DataSeesClose, ends
  <1>9. CASE DataFails(c)
    <2>1. Link(client[c], up[c], down[c], relay[c], NoData)
      BY <1>1, <1>9, LinkLost DEF DataFails
    <2>2. faults' \in 0..MaxFaults
      BY <1>1, <1>9, BoundsAssumption DEF DataFails, Faulty
    <2> QED
      BY <1>1, <1>9, <2>1, <2>2, OneMoves DEF DataFails, ends
  <1>10. CASE DataLost(c)
    <2>1. faults' \in 0..MaxFaults
      BY <1>1, <1>10, BoundsAssumption DEF DataLost, Faulty
    <2> QED
      BY <1>1, <1>10, <2>1, SocketGone DEF DataLost, ends
  <1> QED
    BY <1>2, <1>4, <1>5, <1>6, <1>7, <1>8, <1>9, <1>10 DEF DaemonStep

\* Steps of the control socket, and the failures of a process: every connection by itself.
LEMMA ControlMoves ==
  ASSUME Inv, ControlStep \/ ControlStale \/ ControlLost \/ ControlDeaf \/ Crash \/ Sleeps
  PROVE  Inv'
  <1>1. /\ client = [x \in Conns |-> client[x]] /\ up = [x \in Conns |-> up[x]]
        /\ down = [x \in Conns |-> down[x]] /\ relay = [x \in Conns |-> relay[x]]
        /\ data = [x \in Conns |-> data[x]]
        /\ control \in Controls /\ faults \in 0..MaxFaults
        /\ \A c \in Conns : Link(client[c], up[c], down[c], relay[c], data[c])
    BY InvTypes
  <1>2. Faulty => faults' \in 0..MaxFaults
    BY <1>1, BoundsAssumption DEF Faulty
  <1>3. ASSUME control' \in Controls, UNCHANGED <<ends, relay, data>>, faults' \in 0..MaxFaults
        PROVE  Inv'
    BY <1>1, <1>3, InvAgain DEF ends
  <1>4. CASE ControlConnects \/ ControlNotReady \/ ControlStale \/ ControlLost
    BY <1>1, <1>2, <1>3, <1>4, ControlTypes
       DEF ControlConnects, ControlNotReady, ControlStale, ControlLost
  <1>5. CASE ControlDeaf
    <2>1. control' \in Controls
      <3>1. control \in Controls /\ control' = [control EXCEPT !.deaf = TRUE, !.queue = <<>>]
        BY <1>1, <1>5 DEF ControlDeaf
      <3>2. <<>> \in Seq(ControlMessages)
        OBVIOUS
      <3> QED
        BY ONLY <3>1, <3>2 DEF Controls
    <2> QED
      BY <1>2, <1>3, <1>5, <2>1 DEF ControlDeaf
  <1>6. CASE Crash
    <2>1. /\ UNCHANGED ends /\ control' \in Controls /\ faults' \in 0..MaxFaults
          /\ data' = [x \in Conns |-> NoData] /\ relay' = [x \in Conns |-> Dropped(relay[x])]
      BY <1>1, <1>2, <1>6, ControlTypes DEF Crash
    <2>2. \A c \in Conns : Link(client[c], up[c], down[c], Dropped(relay[c]), NoData)
      BY <1>1, LinkLost
    <2> QED
      BY <1>1, <2>1, <2>2, InvAgain DEF ends
  <1>7. CASE Sleeps
    <2>1. /\ UNCHANGED <<ends, control, data>> /\ faults' \in 0..MaxFaults
          /\ relay' = [x \in Conns |-> [relay[x] EXCEPT !.pending = <<>>]]
      BY <1>2, <1>7 DEF Sleeps
    <2>2. \A c \in Conns : Link(client[c], up[c], down[c], [relay[c] EXCEPT !.pending = <<>>], data[c])
      BY <1>1, LinkSleeps
    <2> QED
      BY <1>1, <2>1, <2>2, InvAgain DEF ends
  <1>8. CASE ControlHandles
    <2> DEFINE named == Head(control.queue).conns
               drops == Head(control.queue).type = "disconnected"
               e(c) == CASE c \in named /\ drops -> NoData
                         [] c \in named /\ ~drops /\ data[c].at = "none" -> [NoData EXCEPT !.at = "connecting"]
                         [] OTHER -> data[c]
               m(c) == IF c \in named /\ drops THEN Dropped(relay[c]) ELSE relay[c]
    <2>1. /\ UNCHANGED <<ends, faults>> /\ data' = [c \in Conns |-> e(c)] /\ relay' = [c \in Conns |-> m(c)]
          /\ control' = [control EXCEPT !.queue = Tail(@), !.ready = TRUE] /\ control.queue # <<>>
      BY <1>8 DEF ControlHandles
    <2>2. control' \in Controls
      <3>1. Tail(control.queue) \in Seq(ControlMessages)
        BY <1>1, <2>1, HeadTailProperties, EmptySeq DEF Controls
      <3> QED
        BY <1>1, <2>1, <3>1 DEF Controls
    <2>3. ASSUME NEW c \in Conns
          PROVE  Link(client[c], up[c], down[c], m(c), e(c))
      <3>1. Link(client[c], up[c], down[c], relay[c], data[c])
        BY <1>1
      <3>2. CASE c \in named /\ drops
        <4>1. m(c) = Dropped(relay[c]) /\ e(c) = NoData
          BY <3>2
        <4> QED
          BY <3>1, <4>1, LinkLost
      <3>3. CASE c \in named /\ ~drops /\ data[c].at = "none"
        <4>1. m(c) = relay[c] /\ e(c) = [NoData EXCEPT !.at = "connecting"]
          BY <3>3
        <4> QED
          BY <3>1, <3>3, <4>1, LinkConnecting
      <3>4. CASE ~(c \in named /\ drops) /\ ~(c \in named /\ ~drops /\ data[c].at = "none")
        <4>1. m(c) = relay[c] /\ e(c) = data[c]
          BY <3>4
        <4> QED
          BY <3>1, <4>1
      <3> QED
        BY <3>2, <3>3, <3>4
    <2> HIDE DEF m, e
    <2> QED
      BY <1>1, <2>1, <2>2, <2>3, InvAgain DEF ends
  <1> QED
    BY <1>4, <1>5, <1>6, <1>7, <1>8 DEF ControlStep

-----------------------------------------------------------------------------
\* Nobody is connected at first.
LEMMA InvInit == Init => Inv
  <1> SUFFICES ASSUME Init PROVE Inv
    OBVIOUS
  <1>1. ControlDown \in Controls
    BY DEF ControlDown, Controls
  <1>2. /\ NoClient.at = "away" /\ NoClient.sent = 0
        /\ NoRelay.client = "none" /\ NoRelay.server = "none" /\ NoRelay.pending = <<>>
        /\ NoData.at = "none" /\ NoData.inbox = <<>> /\ NoData.buffered = <<>> /\ NoData.got = <<>>
        /\ ~NoData.closing
    BY DEF NoClient, NoRelay, NoData
  <1>3. Link(NoClient, <<>>, 0, NoRelay, NoData)
    <2>1. Typed(NoClient, <<>>, 0, NoRelay, NoData)
      BY <1>2, NothingThere, BoundsAssumption DEF Typed
    <2>2. Departed(NoClient, 0, NoRelay) /\ Joined(NoRelay, NoData) /\ Received(NoData)
      BY <1>2, NothingThere DEF Departed, Joined, Received, Live, Serving
    <2>3. Flow(NoClient, <<>>, NoRelay, NoData, 0)
      BY <1>2, NothingThere DEF Flow, Live, Numbered
    <2>4. ~Unanswered(NoRelay, NoData)
      BY <1>2 DEF Unanswered
    <2> QED
      BY <2>1, <2>2, <2>3, <2>4 DEF Link
  <1>4. \A c \in Conns : LinkOf(c)
    BY <1>3 DEF Init, LinkOf
  <1>5. TypeOK
    BY <1>1, <1>2, NothingThere, BoundsAssumption DEF Init, TypeOK, Clients, Relays, Sockets, Controls
  <1> QED
    BY <1>4, <1>5 DEF Inv

\* Every step.
LEMMA InvNext == Inv /\ [Next]_vars => Inv'
  <1> SUFFICES ASSUME Inv, [Next]_vars PROVE Inv'
    OBVIOUS
  <1>1. CASE UNCHANGED vars
    BY <1>1, InvTypes, InvAgain DEF vars
  <1>2. ASSUME NEW c \in Conns,
               \/ ClientStep(c) \/ HelloAgain(c) \/ ClientSends(c)
               \/ RelayHandles(c) \/ RelayCloses(c) \/ Nudges(c) \/ DaemonStep(c)
               \/ ClientLeaves(c) \/ DataFails(c) \/ DataLost(c)
        PROVE  Inv'
    BY <1>2, ClientMoves, RelayMoves, DaemonMoves
  <1>3. CASE ControlStep \/ ControlStale \/ ControlLost \/ ControlDeaf \/ Crash \/ Sleeps
    BY <1>3, ControlMoves
  <1> QED
    BY <1>1, <1>2, <1>3 DEF Next, Failure

\* The invariant holds throughout.
LEMMA Invariance == Spec => []Inv
  BY InvInit, InvNext, PTL DEF Spec

(* The types, and the relay's limit on the frames it keeps.                *)
THEOREM RelayTypes == Spec => []TypeOK
  <1>1. Inv => TypeOK
    BY DEF Inv
  <1> QED
    BY <1>1, Invariance, PTL

(* The daemon's channel receives what its client has sent, from the first  *)
(* message on and in order; a frame is taken for a bad hello only when the *)
(* client has to connect again anyway.                                     *)
THEOREM ChannelSoundness == Spec => []ChannelIsSound
  <1>1. Inv => ChannelIsSound
    <2> SUFFICES ASSUME Inv, NEW c \in Conns
                 PROVE  /\ \A i \in DOMAIN data[c].got : data[c].got[i] = i
                        /\ data[c].at = "hello" /\ data[c].inbox # <<>> /\ Head(data[c].inbox) # Hello
                             => relay[c].old \/ relay[c].client # "listed"
      BY DEF ChannelIsSound
    <2>1. Link(client[c], up[c], down[c], relay[c], data[c]) /\ data[c].inbox \in Seq(Frames)
      BY InvTypes, LinkTypes
    <2>2. \A i \in DOMAIN data[c].got : data[c].got[i] = i
      BY <2>1 DEF Link, Received
    <2>3. Unanswered(relay[c], data[c]) => Hellos(data[c].inbox)
      BY <2>1 DEF Link, Quiet
    <2>4. Hellos(data[c].inbox) /\ data[c].inbox # <<>> => Head(data[c].inbox) = Hello
      BY <2>1, HellosKept
    <2> QED
      BY <2>2, <2>3, <2>4 DEF Unanswered
  <1> QED
    BY <1>1, Invariance, PTL
=============================================================================
