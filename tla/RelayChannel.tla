---------------------------- MODULE RelayChannel ----------------------------
(***************************************************************************)
(* A client and the daemon behind a relay: the durable object that pairs    *)
(* their sockets (cloudflare-adapter.ts), the daemon's control and data     *)
(* sockets (relay-transport.ts), and the handshake of the encrypted channel *)
(* that runs through them (encrypted-channel.ts, with the client's          *)
(* transport, daemon-client-relay-e2ee-transport.ts).                       *)
(*                                                                          *)
(* The relay gives every client socket a connection of its own.  A client   *)
(* that connects again gets a fresh one: the model uses the name again and  *)
(* forgets what was left of the former connection.                          *)
(***************************************************************************)
EXTENDS Integers, Sequences, FiniteSets

CONSTANTS Conns,            \* clients, each with one connection at a time
          MaxSent,          \* messages a client sends on a connection
          MaxHellos,        \* hellos and their answers under way at a time
          PendingLimit,     \* frames the relay keeps for a missing data socket
          MaxFaults         \* failures of sockets and processes

ASSUME BoundsAssumption ==
  /\ {MaxSent, MaxFaults} \subseteq Nat
  /\ {MaxHellos, PendingLimit} \subseteq Nat \ {0}

VARIABLES
  client,                   \* the client's transport and channel
  up,                       \* frames from the client on their way to the relay
  down,                     \* answers to hellos on their way to the client
  relay,                    \* sockets, pendingFrames and timers of a connection
  control,                  \* the daemon's control socket
  data,                     \* dataSockets, and the channel on each
  faults

ends == <<client, up, down>>
vars == <<client, up, down, relay, control, data, faults>>

(* A frame is a hello or an encrypted message, the n-th its client sends.  *)
Hello == 0
Frames == 0..MaxSent

NoClient == [at |-> "away", sent |-> 0]
NoRelay == [client |-> "none", server |-> "none", old |-> FALSE, pending |-> <<>>, nudge |-> "off"]
NoData == [at |-> "none", closing |-> FALSE, inbox |-> <<>>, buffered |-> <<>>, got |-> <<>>]
ControlDown == [up |-> FALSE, deaf |-> FALSE, ready |-> FALSE, queue |-> <<>>]

Init ==
  /\ client = [c \in Conns |-> NoClient]
  /\ up = [c \in Conns |-> <<>>] /\ down = [c \in Conns |-> 0]
  /\ relay = [c \in Conns |-> NoRelay]
  /\ control = ControlDown
  /\ data = [c \in Conns |-> NoData]
  /\ faults = 0

Faulty == faults < MaxFaults /\ faults' = faults + 1

-----------------------------------------------------------------------------
(* The relay's side.  A socket that is closed stays listed until its close *)
(* event; what is sent on it is lost.                                      *)

Sync(view) == [type |-> "sync", conns |-> {c \in Conns : view[c].client # "none"}]
Single(type, c) == [type |-> type, conns |-> {c}]

(* notifyControls: a deaf socket takes what nobody reads.                  *)
Told(ctl, message) == IF ctl.up /\ ~ctl.deaf THEN [ctl EXCEPT !.queue = Append(@, message)] ELSE ctl
Notified(message) == Told(control, message)

(* A name that is used again means nothing to the messages of before.      *)
Forgotten(c) ==
  LET rest(message) == [message EXCEPT !.conns = @ \ {c}]
  IN [control EXCEPT !.queue = [i \in DOMAIN @ |-> rest(@[i])]]

HasServer(c) == relay[c].server # "none" \/ relay[c].old

(* The server's socket, when the daemon's end of it is gone.               *)
Dropped(r) == IF r.server = "live" THEN [r EXCEPT !.server = "dead"] ELSE r

\* Mutant of Kept: there is no limit.
Kept_All(frames) == frames
(* bufferFrame keeps the last frames.                                      *)
Kept(frames) ==
  IF Len(frames) > PendingLimit THEN SubSeq(frames, Len(frames) - PendingLimit + 1, Len(frames)) ELSE frames

(* webSocketMessage, of a client.                                          *)
RelayHandles(c) ==
  /\ up[c] # <<>> /\ relay[c].client # "none"
  /\ up' = [up EXCEPT ![c] = Tail(@)]
  /\ \/ /\ ~HasServer(c)
        /\ relay' = [relay EXCEPT ![c].pending = Kept(Append(@, Head(up[c])))]
        /\ UNCHANGED data
     \/ /\ relay[c].server = "live"
        /\ data' = [data EXCEPT ![c].inbox = Append(@, Head(up[c]))]
        /\ UNCHANGED relay
     \/ /\ HasServer(c) /\ relay[c].server # "live"
        /\ UNCHANGED <<relay, data>>
  /\ UNCHANGED <<client, down, control, faults>>

(* webSocketClose, of a client: the only one of its connection.            *)
RelaySeesClientClose(c) ==
  /\ client[c].at = "gone" /\ relay[c].client # "none"
  /\ relay' = [relay EXCEPT ![c] = [Dropped(@) EXCEPT !.client = "none", !.pending = <<>>]]
  /\ data' = IF relay[c].server = "live" THEN [data EXCEPT ![c].closing = TRUE] ELSE data
  /\ up' = [up EXCEPT ![c] = <<>>]
  /\ control' = Notified(Single("disconnected", c))
  /\ UNCHANGED <<client, down, faults>>

(* webSocketClose, of a data socket: the client must handshake again.      *)
RelaySeesServerClose(c) ==
  /\ LET closed == IF relay[c].client = "listed" THEN "closing" ELSE relay[c].client
     IN \/ relay[c].old /\ relay' = [relay EXCEPT ![c].old = FALSE, ![c].client = closed]
        \/ relay[c].server = "dead" /\ relay' = [relay EXCEPT ![c].server = "none", ![c].client = closed]
  /\ UNCHANGED <<client, up, down, control, data, faults>>

(* nudgeOrResetControlForConnection: a list first, then a reset, for which *)
(* the client must have waited through both.                               *)
Missing(c) == relay[c].client # "none" /\ ~HasServer(c)

(* Timers are long, ten seconds and more, and messages quick: a timer that *)
(* finds a socket missing runs out only when nothing is on its way to open *)
(* it.  One that is too quick does what ControlLost and ClientLeaves do.   *)
Stalled(c) == data[c].at = "none" /\ (~control.up \/ control.deaf \/ control.queue = <<>>)

NudgeFirst(c) ==
  /\ relay[c].nudge = "first"
  /\ relay' = [relay EXCEPT ![c].nudge = IF Missing(c) THEN "second" ELSE "off"]
  /\ control' = IF Missing(c) THEN Notified(Sync(relay)) ELSE control
  /\ UNCHANGED <<client, up, down, data, faults>>

NudgeSecond(c) ==
  /\ relay[c].nudge = "second" /\ (Missing(c) => Stalled(c))
  /\ relay' = [relay EXCEPT ![c].nudge = "off"]
  /\ control' = IF Missing(c) THEN ControlDown ELSE control
  /\ UNCHANGED <<client, up, down, data, faults>>

-----------------------------------------------------------------------------
(* The client.                                                             *)

(* The relay accepts its socket, and the handshake starts.                 *)
ClientConnects(c) ==
  /\ client[c].at = "away"
  /\ client' = [client EXCEPT ![c].at = "handshaking"]
  /\ up' = [up EXCEPT ![c] = <<Hello>>]
  /\ relay' = [relay EXCEPT ![c] = [NoRelay EXCEPT !.client = "listed", !.nudge = "first"]]
  /\ data' = [data EXCEPT ![c] = NoData]
  /\ control' = Told(Forgotten(c), Single("connected", c))
  /\ UNCHANGED <<down, faults>>

UnderWay(c) ==
  LET hellos(s) == Cardinality({i \in DOMAIN s : s[i] = Hello})
  IN hellos(up[c]) + hellos(relay[c].pending) + hellos(data[c].inbox) + hellos(data[c].buffered) + down[c]

(* The hello is sent again until the channel is open.                      *)
HelloAgain(c) ==
  /\ client[c].at = "handshaking" /\ UnderWay(c) < MaxHellos
  /\ up' = [up EXCEPT ![c] = Append(@, Hello)]
  /\ UNCHANGED <<client, down, relay, control, data, faults>>

(* An answer opens the channel; another one is ignored.                    *)
ClientOpens(c) ==
  /\ down[c] > 0
  /\ down' = [down EXCEPT ![c] = @ - 1]
  /\ client' = IF client[c].at = "handshaking" THEN [client EXCEPT ![c].at = "open"] ELSE client
  /\ UNCHANGED <<up, relay, control, data, faults>>

ClientSends(c) ==
  /\ client[c].at = "open" /\ client[c].sent < MaxSent
  /\ client' = [client EXCEPT ![c].sent = @ + 1]
  /\ up' = [up EXCEPT ![c] = Append(@, client[c].sent + 1)]
  /\ UNCHANGED <<down, relay, control, data, faults>>

Gone(c) ==
  /\ client' = [client EXCEPT ![c] = [NoClient EXCEPT !.at = "gone"]]
  /\ down' = [down EXCEPT ![c] = 0]
  /\ UNCHANGED <<up, relay, control, data>>

ClientSeesClose(c) ==
  /\ client[c].at \in {"handshaking", "open"} /\ relay[c].client = "closing"
  /\ Gone(c)
  /\ UNCHANGED faults

(* The connect timeout counts from the client's socket, not from anything  *)
(* the relay does, and may fire before, between or after its nudges.       *)
ConnectTimesOut(c) ==
  /\ client[c].at = "handshaking" /\ Stalled(c)
  /\ Gone(c)
  /\ UNCHANGED faults

ClientLeaves(c) == Faulty /\ client[c].at \in {"handshaking", "open"} /\ Gone(c)

(* scheduleReconnect, once the relay has done with the connection.         *)
ClientReturns(c) ==
  /\ client[c].at = "gone" /\ relay[c].client = "none"
  /\ client' = [client EXCEPT ![c] = NoClient]
  /\ UNCHANGED <<up, down, relay, control, data, faults>>

-----------------------------------------------------------------------------
(* The daemon's control socket.                                            *)

(* connectControl; the relay answers with the list of clients.             *)
ControlConnects ==
  /\ ~control.up
  /\ control' = [ControlDown EXCEPT !.up = TRUE, !.queue = <<Sync(relay)>>]
  /\ UNCHANGED <<ends, relay, data, faults>>

(* ensureClientDataSocket, for every client named; a data socket whose     *)
(* client has left is closed.                                              *)
ControlHandles ==
  /\ control.up /\ control.queue # <<>>
  /\ control' = [control EXCEPT !.queue = Tail(@), !.ready = TRUE]
  /\ LET message == Head(control.queue)
         named == message.conns
         drops == message.type = "disconnected"
     IN /\ data' = [c \in Conns |->
             CASE c \in named /\ drops -> NoData
               [] c \in named /\ ~drops /\ data[c].at = "none" -> [NoData EXCEPT !.at = "connecting"]
               [] OTHER -> data[c]]
        /\ relay' = [c \in Conns |-> IF c \in named /\ drops THEN Dropped(relay[c]) ELSE relay[c]]
  /\ UNCHANGED <<ends, faults>>

(* No message after the socket has opened: it is terminated.               *)
ControlNotReady ==
  /\ control.up /\ ~control.ready /\ control.queue = <<>>
  /\ control' = ControlDown
  /\ UNCHANGED <<ends, relay, data, faults>>

\* Mutant of ControlStale: markControlReady clears the interval of the pings too.
ControlStale_BeforeReady ==
  /\ control.up /\ control.deaf /\ ~control.ready
  /\ control' = ControlDown
  /\ UNCHANGED <<ends, relay, data, faults>>

(* The daemon's pings are not answered: the pongs would have come the same *)
(* way as the messages.                                                    *)
ControlStale ==
  /\ control.up /\ control.deaf
  /\ control' = ControlDown
  /\ UNCHANGED <<ends, relay, data, faults>>

-----------------------------------------------------------------------------
(* The daemon's data sockets, and the channel on each.                     *)

(* The relay accepts the data socket and flushes the frames it has kept.   *)
DataOpens(c) ==
  /\ data[c].at = "connecting"
  /\ data' = [data EXCEPT ![c].at = "hello", ![c].inbox = relay[c].pending]
  /\ relay' = [relay EXCEPT ![c].server = "live", ![c].pending = <<>>, ![c].old = HasServer(c)]
  /\ UNCHANGED <<ends, control, faults>>

Answered(c) == down' = [down EXCEPT ![c] = IF client[c].at \in {"handshaking", "open"} THEN @ + 1 ELSE 0]
Lost(c) == data' = [data EXCEPT ![c] = NoData] /\ relay' = [relay EXCEPT ![c] = Dropped(@)]
Taken(c) == [data EXCEPT ![c].inbox = Tail(@)]

(* A hello among the frames kept is not for the open channel.              *)
Messages(frames) ==
  LET kept[i \in 0..Len(frames)] ==
        IF i = 0 THEN <<>>
        ELSE IF frames[i] = Hello THEN kept[i - 1] ELSE Append(kept[i - 1], frames[i])
  IN kept[Len(frames)]

(* createDaemonChannel: the first frame must be a hello.                   *)
FirstFrame(c) ==
  /\ data[c].at = "hello" /\ data[c].inbox # <<>>
  /\ \/ /\ Head(data[c].inbox) = Hello
        /\ data' = [Taken(c) EXCEPT ![c].at = "answering"]
        /\ Answered(c)
        /\ UNCHANGED relay
     \/ Head(data[c].inbox) # Hello /\ Lost(c) /\ UNCHANGED down
  /\ UNCHANGED <<client, up, control, faults>>

\* Mutant of NextFrame: frames that come while the answer is sent are dropped.
NextFrame_NotBuffered(c) ==
  /\ data[c].at = "answering" /\ data[c].inbox # <<>>
  /\ data' = Taken(c)
  /\ UNCHANGED <<ends, relay, control, faults>>

(* While the answer is being sent, frames are kept.                        *)
NextFrame(c) ==
  /\ data[c].at = "answering" /\ data[c].inbox # <<>>
  /\ data' = [Taken(c) EXCEPT ![c].buffered = Append(@, Head(data[c].inbox))]
  /\ UNCHANGED <<ends, relay, control, faults>>

(* The answer has been sent: the channel is open.                          *)
AnswerSent(c) ==
  /\ data[c].at = "answering"
  /\ data' = [data EXCEPT ![c].at = "open", ![c].got = Messages(data[c].buffered), ![c].buffered = <<>>]
  /\ UNCHANGED <<ends, relay, control, faults>>

(* handleMessage: a hello again is answered again.                         *)
ChannelFrame(c) ==
  /\ data[c].at = "open" /\ data[c].inbox # <<>>
  /\ \/ /\ Head(data[c].inbox) = Hello
        /\ data' = Taken(c)
        /\ Answered(c)
     \/ /\ Head(data[c].inbox) # Hello
        /\ data' = [Taken(c) EXCEPT ![c].got = Append(@, Head(data[c].inbox))]
        /\ UNCHANGED down
  /\ UNCHANGED <<client, up, relay, control, faults>>

DataSeesClose(c) ==
  /\ data[c].closing
  /\ data' = [data EXCEPT ![c] = NoData]
  /\ UNCHANGED <<ends, relay, control, faults>>

-----------------------------------------------------------------------------
(* Failures: a control socket lost, or one the relay can write to but      *)
(* nobody reads; a data socket that cannot be opened, or is lost; a crash  *)
(* of the daemon; a relay that is put to sleep and forgets its frames.     *)

ControlLost == Faulty /\ control.up /\ control' = ControlDown /\ UNCHANGED <<ends, relay, data>>
ControlDeaf ==
  /\ Faulty /\ control.up /\ ~control.deaf
  /\ control' = [control EXCEPT !.deaf = TRUE, !.queue = <<>>]
  /\ UNCHANGED <<ends, relay, data>>
DataFails(c) ==
  /\ Faulty /\ data[c].at = "connecting"
  /\ data' = [data EXCEPT ![c] = NoData]
  /\ UNCHANGED <<ends, relay, control>>
DataLost(c) ==
  /\ Faulty /\ data[c].at \in {"hello", "answering", "open"}
  /\ Lost(c)
  /\ UNCHANGED <<ends, control>>
Crash ==
  /\ Faulty
  /\ control' = ControlDown
  /\ data' = [c \in Conns |-> NoData]
  /\ relay' = [c \in Conns |-> Dropped(relay[c])]
  /\ UNCHANGED ends
Sleeps ==
  /\ Faulty /\ \A c \in Conns : relay[c].nudge = "off"
  /\ relay' = [c \in Conns |-> [relay[c] EXCEPT !.pending = <<>>]]
  /\ UNCHANGED <<ends, control, data>>

-----------------------------------------------------------------------------
ClientStep(c) ==
  ClientConnects(c) \/ ClientOpens(c) \/ ClientSeesClose(c) \/ ConnectTimesOut(c) \/ ClientReturns(c)
RelayCloses(c) == RelaySeesClientClose(c) \/ RelaySeesServerClose(c)
Nudges(c) == NudgeFirst(c) \/ NudgeSecond(c)
DaemonStep(c) ==
  DataOpens(c) \/ FirstFrame(c) \/ NextFrame(c) \/ AnswerSent(c) \/ ChannelFrame(c) \/ DataSeesClose(c)
ControlStep == ControlConnects \/ ControlHandles \/ ControlNotReady

Failure ==
  \/ ControlLost \/ ControlDeaf \/ Crash \/ Sleeps
  \/ \E c \in Conns : ClientLeaves(c) \/ DataFails(c) \/ DataLost(c)

Next ==
  \/ \E c \in Conns :
       \/ ClientStep(c) \/ HelloAgain(c) \/ ClientSends(c)
       \/ RelayHandles(c) \/ RelayCloses(c) \/ Nudges(c) \/ DaemonStep(c)
  \/ ControlStep \/ ControlStale
  \/ Failure

(* Everything goes on but the client's messages and the failures.  A deaf  *)
(* control ends by the daemon's own keepalive: no client need wait for the *)
(* relay's reset.                                                          *)
Fairness ==
  /\ \A c \in Conns :
       /\ WF_vars(ClientStep(c)) /\ WF_vars(HelloAgain(c))
       /\ WF_vars(RelayHandles(c)) /\ WF_vars(RelayCloses(c)) /\ WF_vars(Nudges(c))
       /\ WF_vars(DaemonStep(c))
  /\ WF_vars(ControlStep) /\ WF_vars(ControlStale)

Spec == Init /\ [][Next]_vars
FairSpec == Spec /\ Fairness

-----------------------------------------------------------------------------
ControlMessages == [type : {"sync", "connected", "disconnected"}, conns : SUBSET Conns]

(* Types; the relay keeps frames only while no data socket is listed, and  *)
(* within its limit.                                                       *)
TypeOK ==
  /\ client \in [Conns -> [at : {"away", "handshaking", "open", "gone"}, sent : 0..MaxSent]]
  /\ up \in [Conns -> Seq(Frames)]
  /\ down \in [Conns -> Nat]
  /\ relay \in [Conns -> [client : {"none", "listed", "closing"}, server : {"none", "live", "dead"},
                          old : BOOLEAN, pending : Seq(Frames), nudge : {"off", "first", "second"}]]
  /\ control \in [up : BOOLEAN, deaf : BOOLEAN, ready : BOOLEAN, queue : Seq(ControlMessages)]
  /\ data \in [Conns -> [at : {"none", "connecting", "hello", "answering", "open"}, closing : BOOLEAN,
                         inbox : Seq(Frames), buffered : Seq(Frames), got : Seq(Frames)]]
  /\ faults \in 0..MaxFaults
  /\ \A c \in Conns : Len(relay[c].pending) <= PendingLimit

(* What a daemon's channel has received is what the client has sent first, *)
(* in order: no frame that overtakes the handshake is lost or doubled.  A  *)
(* frame is taken for a bad hello only on a data socket that has replaced  *)
(* another one, whose client has to connect again anyway.                  *)
ChannelIsSound ==
  \A c \in Conns :
    /\ \A i \in DOMAIN data[c].got : data[c].got[i] = i
    /\ data[c].at = "hello" /\ data[c].inbox # <<>> /\ Head(data[c].inbox) # Hello
         => relay[c].old \/ relay[c].client # "listed"

(* Once the failures are over, a client that keeps trying gets through: it *)
(* is neither left waiting for the daemon nor with a channel whose other   *)
(* end is gone.                                                            *)
Paired(c) ==
  /\ client[c].at = "open" /\ data[c].at = "open"
  /\ relay[c].server = "live" /\ relay[c].client = "listed" /\ ~data[c].closing
EveryClientGetsThrough == \A c \in Conns : []<>Paired(c)
=============================================================================
