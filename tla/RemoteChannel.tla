--------------------------- MODULE RemoteChannel ---------------------------
(***************************************************************************)
(* The message channel between the editor and the remote server             *)
(* (ChannelClient, crates/remote/src/remote_client.rs).  Both ends run the  *)
(* same code: envelopes are numbered, kept in a buffer until the peer's     *)
(* ack_id covers them, and sent again after a reconnection.  The client's   *)
(* outgoing queue dies with its proxy process; the server's survives in     *)
(* start_server (crates/remote_server/src/server.rs), which writes it to    *)
(* whichever connection it has accepted.                                    *)
(*                                                                          *)
(* Sending draws an id, stamps it with max_received, takes the lock of the  *)
(* buffer and then the lock of outgoing_tx.  Two threads of the server send *)
(* (the foreground and a background task such as the telemetry forwarder),  *)
(* so there each of these is a step of its own; only the foreground writes  *)
(* max_received, so its own draw and stamp are one.  The client sends on    *)
(* its foreground only, in one step.                                        *)
(*                                                                          *)
(* Ids are u32 in the code; they stay far below 2^32 here and no property   *)
(* is about their wrap-around.  Streamed responses are left out.            *)
(***************************************************************************)
EXTENDS Integers, Sequences, FiniteSets, SequencesExt

CONSTANTS
    MaxSends,        \* messages the application of each end sends: [End -> Nat]
    MaxRequests,     \* requests the application of each end makes: [End -> Nat]
    MaxTelemetry,    \* events the server's background thread forwards
    MaxDisconnects,  \* connections lost during a behaviour
    MaxEvents,       \* sends, requests, background events and lost connections in all
    MaxId            \* bound on message ids, for the history of receipts

Client == "client"
Server == "server"
End == {Client, Server}
Peer(e) == IF e = Client THEN Server ELSE Client

Foreground == "foreground"
Background == "background"
Thread == {Foreground, Background}

None == -1
Ids == 0..MaxId

ASSUME BoundsAssumption ==
    /\ MaxSends \in [End -> Nat] /\ MaxRequests \in [End -> Nat]
    /\ MaxTelemetry \in Nat /\ MaxDisconnects \in Nat
    /\ MaxEvents \in Nat /\ MaxId \in Nat

VARIABLES
    nextId,       \* next_message_id of each end
    maxReceived,  \* max_received of each end
    buffer,       \* buffer of each end: the envelopes not yet acknowledged
    waiting,      \* keys of response_channels of each end
    starting,     \* the message task of the end has been spawned, not yet polled
    ready,        \* the client's remote_started signal
    resync,       \* id of the client's FlushBufferedMessages awaited, or None
    hand,         \* per thread of the server: the envelope it is about to buffer
    todo,         \* per thread of the server: envelopes it is about to queue
    linkUp,       \* a proxy process connects the two ends
    outgoing,     \* the server's outgoing_rx
    wire,         \* envelopes written by each end and not yet read by its peer
    handling,     \* requests whose handler runs at an end: <<id, receipt>>
    sends, requests, telemetry, disconnects,  \* how much of each bound is used
    sent,         \* history: messages each end put into its buffer
    overtaken,    \* history: ids the server queued after drawing a later one
    received      \* history: how often each end dispatched an id of its peer

local == <<nextId, maxReceived, buffer, waiting, starting, ready, resync>>
threads == <<hand, todo>>
network == <<linkUp, outgoing, wire>>
used == <<sends, requests, telemetry, disconnects>>
history == <<sent, overtaken>>
vars == <<local, threads, network, handling, used, history, received>>

Envelope ==
    [kind : {"message", "request", "response", "flush", "ack", "started"},
     id : Ids, ack : Ids \cup {None}, re : Ids \cup {None}]

Env(kind, id, ack, re) == [kind |-> kind, id |-> id, ack |-> ack, re |-> re]

\* What a thread of the server holds: an envelope to stamp, then to buffer; or
\* the flush it answers, before it locks the buffer and while it resends.
Idle == [at |-> "idle"]
Holding == [at : {"stamp", "buffer", "lock", "flush"}, env : Envelope]

TypeOK ==
    /\ nextId \in [End -> 0..(MaxId + 1)]
    /\ maxReceived \in [End -> Ids]
    /\ \A e \in End : /\ Range(buffer[e]) \subseteq Envelope
                      /\ Range(wire[e]) \subseteq Envelope
    /\ Range(outgoing) \subseteq Envelope
    /\ hand \in [Thread -> Holding \cup {Idle}]
    /\ \A t \in Thread : Range(todo[t]) \subseteq Envelope
    /\ waiting \in [End -> SUBSET Ids]
    /\ starting \in [End -> BOOLEAN]
    /\ ready \in BOOLEAN /\ linkUp \in BOOLEAN
    /\ resync \in Ids \cup {None}
    /\ handling \in [End -> SUBSET (Ids \X Nat)]
    /\ overtaken \subseteq Ids
    /\ \A e \in End : \A m \in sent[e] : m.id \in Ids /\ m.outage \in Nat
    /\ received \in [End -> [Ids -> Nat]]

(***************************************************************************)
(* Both processes have just created their ChannelClient; the first proxy    *)
(* is up.                                                                   *)
(***************************************************************************)
Init ==
    /\ nextId = [e \in End |-> 0]
    /\ maxReceived = [e \in End |-> 0]
    /\ buffer = [e \in End |-> <<>>]
    /\ waiting = [e \in End |-> {}]
    /\ starting = [e \in End |-> TRUE]
    /\ ready = FALSE
    /\ resync = None
    /\ hand = [t \in Thread |-> Idle]
    /\ todo = [t \in Thread |-> <<>>]
    /\ linkUp = TRUE
    /\ outgoing = <<>>
    /\ wire = [e \in End |-> <<>>]
    /\ handling = [e \in End |-> {}]
    /\ sends = [e \in End |-> 0]
    /\ requests = [e \in End |-> 0]
    /\ telemetry = 0
    /\ disconnects = 0
    /\ sent = [e \in End |-> {}]
    /\ overtaken = {}
    /\ received = [e \in End |-> [i \in Ids |-> 0]]

-----------------------------------------------------------------------------
Draw(e) == nextId[e] \in Ids /\ nextId' = [nextId EXCEPT ![e] = @ + 1]

\* What the application and the network still may do within the bounds
MoreEvents ==
    sends[Client] + sends[Server] + requests[Client] + requests[Server]
      + telemetry + disconnects < MaxEvents

Free(t) == hand[t] = Idle /\ todo[t] = <<>>

\* The client's queue is the pipe to its proxy: without one, what is put there is
\* dropped (the error of unbounded_send is ignored).  `to' is wire so far.
Written(ms, to) == IF linkUp THEN [to EXCEPT ![Client] = @ \o ms] ELSE to

\* push_back under the buffer's lock.  A message the client buffers without a
\* connection meets the present outage, the server's queue keeps it.
Push(e, m) ==
    /\ buffer' = [buffer EXCEPT ![e] = Append(@, m)]
    /\ sent' = [sent EXCEPT ![e] = @ \cup
                  {[id |-> m.id, re |-> m.re,
                    outage |-> IF e = Client /\ ~linkUp THEN disconnects - 1
                                                        ELSE disconnects]}]

\* send_buffered of a foreground: the client's in one go; the server's thread
\* holds the stamped envelope before it locks the buffer.
Buffered(e, kind, re) ==
    LET m == Env(kind, nextId[e], maxReceived[e], re) IN
    /\ Draw(e)
    /\ \/ /\ e = Client
          /\ Push(e, m)
          /\ wire' = Written(<<m>>, wire)
          /\ UNCHANGED hand
       \/ /\ e = Server
          /\ Free(Foreground)
          /\ hand' = [hand EXCEPT ![Foreground] = [at |-> "buffer", env |-> m]]
          /\ UNCHANGED <<buffer, sent, wire>>
    /\ UNCHANGED <<todo, linkUp, outgoing, overtaken>>

\* The client hands itself out once the server has reported RemoteStarted.
MaySend(e) == e = Server \/ ready

\* send / send_dynamic
Send(e) ==
    /\ MaySend(e)
    /\ sends[e] < MaxSends[e] /\ MoreEvents
    /\ sends' = [sends EXCEPT ![e] = @ + 1]
    /\ Buffered(e, "message", None)
    /\ UNCHANGED <<maxReceived, waiting, starting, ready, resync,
                   handling, requests, telemetry, disconnects, received>>

\* request_dynamic with use_buffer: the answer is awaited under the fresh id
Request(e) ==
    /\ MaySend(e)
    /\ requests[e] < MaxRequests[e] /\ MoreEvents
    /\ requests' = [requests EXCEPT ![e] = @ + 1]
    /\ waiting' = [waiting EXCEPT ![e] = @ \cup {nextId[e]}]
    /\ Buffered(e, "request", None)
    /\ UNCHANGED <<maxReceived, starting, ready, resync, handling,
                   sends, telemetry, disconnects, received>>

\* A request's handler finishes: the response goes through the buffer too.
Reply(e) ==
    \E h \in handling[e] :
        /\ handling' = [handling EXCEPT ![e] = @ \ {h}]
        /\ Buffered(e, "response", h[1])
        /\ UNCHANGED <<maxReceived, waiting, starting, ready, resync, used, received>>

\* init_telemetry_forwarding sends on a background thread: its fetch_add,
\* then its load of max_received.
DrawId ==
    /\ Free(Background)
    /\ telemetry < MaxTelemetry /\ MoreEvents
    /\ telemetry' = telemetry + 1
    /\ hand' = [hand EXCEPT ![Background] =
                  [at |-> "stamp", env |-> Env("message", nextId[Server], None, None)]]
    /\ Draw(Server)
    /\ UNCHANGED <<maxReceived, buffer, waiting, starting, ready, resync, todo, network,
                   handling, sends, requests, disconnects, history, received>>

Stamp ==
    /\ hand[Background].at = "stamp"
    /\ hand' = [hand EXCEPT ![Background] =
                  [at |-> "buffer", env |-> [@.env EXCEPT !.ack = maxReceived[Server]]]]
    /\ UNCHANGED <<local, todo, network, handling, used, history, received>>

\* The foreground holds the buffer's lock while it resends.
Locked == hand[Foreground].at = "flush" /\ todo[Foreground] # <<>>

\* A thread of the server locks the buffer and keeps a copy of its envelope.
Buffer(t) ==
    /\ hand[t].at = "buffer"
    /\ ~Locked
    /\ Push(Server, hand[t].env)
    /\ hand' = [hand EXCEPT ![t] = Idle]
    /\ todo' = [todo EXCEPT ![t] = <<hand[t].env>>]
    /\ UNCHANGED <<nextId, maxReceived, waiting, starting, ready, resync, network,
                   handling, used, overtaken, received>>

\* A thread of the server locks outgoing_tx and queues one envelope.
Queue(t) ==
    LET m == Head(todo[t]) IN
    /\ todo[t] # <<>>
    /\ todo' = [todo EXCEPT ![t] = Tail(@)]
    /\ outgoing' = Append(outgoing, m)
    /\ overtaken' = IF hand[t] = Idle /\ nextId[Server] > m.id + 1
                      THEN overtaken \cup {m.id} ELSE overtaken
    /\ UNCHANGED <<local, hand, linkUp, wire, handling, used, sent, received>>

\* The first poll of the message task: announce this end
StartHandling(e) ==
    LET m == Env("started", 0, None, None) IN
    /\ starting[e]
    /\ starting' = [starting EXCEPT ![e] = FALSE]
    /\ \/ e = Client /\ wire' = Written(<<m>>, wire) /\ UNCHANGED todo
       \/ /\ e = Server /\ Free(Foreground)
          /\ todo' = [todo EXCEPT ![Foreground] = <<m>>] /\ UNCHANGED wire
    /\ UNCHANGED <<nextId, maxReceived, buffer, waiting, ready, resync, hand, linkUp,
                   outgoing, handling, used, history, received>>

\* Acknowledging pops from the front of the buffer, up to the first larger id.
Unacknowledged_Fault(b, ack) ==
    LET first == SelectInSeq(b, LAMBDA m : m.id > ack + 1)
    IN IF first = 0 THEN <<>> ELSE SubSeq(b, first, Len(b))
Unacknowledged(b, ack) ==
    LET first == SelectInSeq(b, LAMBDA m : m.id > ack)
    IN IF first = 0 THEN <<>> ELSE SubSeq(b, first, Len(b))

\* The envelope end e reads next
Incoming(e) == Head(wire[Peer(e)])
Reading(e, kinds) ==
    /\ ~starting[e]
    /\ wire[Peer(e)] # <<>>
    /\ Incoming(e).kind \in kinds
    /\ e = Server => Free(Foreground)
Kept(e) == Unacknowledged(buffer[e], Incoming(e).ack)

\* The envelope is taken, and the client writes ms.
Take(e, ms) ==
    LET rest == [wire EXCEPT ![Peer(e)] = Tail(@)] IN
    /\ wire' = IF e = Client THEN Written(ms, rest) ELSE rest
    /\ UNCHANGED <<linkUp, outgoing>>

\* FlushBufferedMessages, which only the client sends: acknowledge, lock the
\* buffer, queue all of it under the lock, then draw the Ack's id.
HandleFlush ==
    /\ Reading(Server, {"flush"})
    /\ buffer' = [buffer EXCEPT ![Server] = Kept(Server)]
    /\ hand' = [hand EXCEPT ![Foreground] =
                  [at |-> "lock", env |-> Env("ack", 0, None, Incoming(Server).id)]]
    /\ Take(Server, <<>>)
    /\ UNCHANGED <<nextId, maxReceived, waiting, starting, ready, resync, todo,
                   handling, used, history, received>>

Resend_Fault ==
    /\ hand[Foreground].at = "lock"
    /\ hand' = [hand EXCEPT ![Foreground].at = "flush"]
    /\ UNCHANGED <<local, todo, network, handling, used, history, received>>
Resend ==
    /\ hand[Foreground].at = "lock"
    /\ hand' = [hand EXCEPT ![Foreground].at = "flush"]
    /\ todo' = [todo EXCEPT ![Foreground] = buffer[Server]]
    /\ UNCHANGED <<local, network, handling, used, history, received>>

AckFlush ==
    /\ hand[Foreground].at = "flush" /\ todo[Foreground] = <<>>
    /\ Draw(Server)
    /\ hand' = [hand EXCEPT ![Foreground] = Idle]
    /\ todo' = [todo EXCEPT ![Foreground] =
                  <<[hand[Foreground].env EXCEPT !.id = nextId[Server]]>>]
    /\ UNCHANGED <<maxReceived, buffer, waiting, starting, ready, resync, network,
                   handling, used, history, received>>

\* RemoteStarted: signal it, acknowledge it
HandleStarted_Fault(e) ==
    LET m == Env("ack", nextId[e], None, Incoming(e).id) IN
    /\ Reading(e, {"started"})
    /\ Draw(e)
    /\ ready' = (ready \/ e = Client)
    /\ Take(e, Append(buffer[e], m))
    /\ todo' = IF e = Server THEN [todo EXCEPT ![Foreground] = Append(buffer[e], m)] ELSE todo
    /\ UNCHANGED <<maxReceived, buffer, waiting, starting, resync, hand,
                   handling, used, history, received>>
HandleStarted(e) ==
    LET m == Env("ack", nextId[e], None, Incoming(e).id) IN
    /\ Reading(e, {"started"})
    /\ Draw(e)
    /\ ready' = (ready \/ e = Client)
    /\ Take(e, <<m>>)
    /\ todo' = IF e = Server THEN [todo EXCEPT ![Foreground] = <<m>>] ELSE todo
    /\ UNCHANGED <<maxReceived, buffer, waiting, starting, resync, hand,
                   handling, used, history, received>>

Receipt(e) ==
    /\ maxReceived' = [maxReceived EXCEPT ![e] = Incoming(e).id]
    /\ received' = [received EXCEPT ![e][Incoming(e).id] = @ + 1]

\* A response wakes its request.  The answer to the awaited flush also resumes
\* resync, which sends the client's own buffer again before the message task
\* reads on (it waits for the woken request to take the response).
HandleResponse(e) ==
    LET resumes == e = Client /\ resync # None /\ Incoming(e).re = resync IN
    /\ Reading(e, {"response", "ack"})
    /\ buffer' = [buffer EXCEPT ![e] = Kept(e)]
    /\ Receipt(e)
    /\ waiting' = [waiting EXCEPT ![e] = @ \ {Incoming(e).re}]
    /\ resync' = IF resumes THEN None ELSE resync
    /\ Take(e, IF resumes THEN Kept(e) ELSE <<>>)
    /\ UNCHANGED <<nextId, starting, ready, threads, handling, used, history>>

\* Any other message is dispatched to its handler, seen before or not.
HandleMessage(e) ==
    /\ Reading(e, {"message", "request"})
    /\ buffer' = [buffer EXCEPT ![e] = Kept(e)]
    /\ Receipt(e)
    /\ handling' = IF Incoming(e).kind = "request"
                     THEN [handling EXCEPT ![e] = @ \cup
                             {<<Incoming(e).id, received[e][Incoming(e).id]>>}]
                     ELSE handling
    /\ Take(e, <<>>)
    /\ UNCHANGED <<nextId, waiting, starting, ready, resync, threads, used, history>>

\* start_server: the accepted connection takes the next queued envelope
Transmit ==
    /\ linkUp
    /\ outgoing # <<>>
    /\ outgoing' = Tail(outgoing)
    /\ wire' = [wire EXCEPT ![Server] = Append(@, Head(outgoing))]
    /\ UNCHANGED <<local, threads, linkUp, handling, used, history, received>>

\* The proxy dies (or a resync times out, whose connection is killed): what was
\* on its way is lost, and a running resync is given up.  (What the server's task
\* has not yet taken of its incoming_rx is not lost in the code; reading it
\* later does to the server what reading it before the loss does.)
Disconnect ==
    /\ linkUp /\ ready
    /\ disconnects < MaxDisconnects /\ MoreEvents
    /\ disconnects' = disconnects + 1
    /\ linkUp' = FALSE
    /\ wire' = [e \in End |-> <<>>]
    /\ resync' = None
    /\ UNCHANGED <<nextId, maxReceived, buffer, waiting, starting, ready, threads,
                   outgoing, handling, sends, requests, telemetry, history,
                   received>>

\* ChannelClient::reconnect, then resync up to its first await: the flush is
\* on the new connection before the new message task announces itself.
Reconnect ==
    LET m == Env("flush", nextId[Client], maxReceived[Client], None) IN
    /\ ~linkUp
    /\ Draw(Client)
    /\ linkUp' = TRUE
    /\ starting' = [starting EXCEPT ![Client] = TRUE]
    /\ waiting' = [waiting EXCEPT ![Client] = @ \cup {m.id}]
    /\ resync' = m.id
    /\ wire' = [wire EXCEPT ![Client] = <<m>>]
    /\ UNCHANGED <<maxReceived, buffer, ready, threads, outgoing, handling,
                   used, history, received>>

Next ==
    \/ \E e \in End :
         \/ Send(e) \/ Request(e) \/ Reply(e) \/ StartHandling(e)
         \/ HandleStarted(e) \/ HandleResponse(e) \/ HandleMessage(e)
    \/ HandleFlush \/ Resend \/ AckFlush
    \/ DrawId \/ Stamp
    \/ \E t \in Thread : Buffer(t) \/ Queue(t)
    \/ Transmit \/ Disconnect \/ Reconnect

Spec == Init /\ [][Next]_vars

\* Both ends' tasks and threads, the pumps and the reconnection loop keep
\* running; the application need not send and the connection need not fail.
Handle(e) ==
    \/ HandleStarted(e) \/ HandleResponse(e) \/ HandleMessage(e)
    \/ e = Server /\ (HandleFlush \/ Resend \/ AckFlush)
Fairness ==
    /\ \A e \in End : WF_vars(StartHandling(e)) /\ WF_vars(Handle(e)) /\ WF_vars(Reply(e))
    /\ \A t \in Thread : WF_vars(Buffer(t) \/ Queue(t))
    /\ WF_vars(Stamp) /\ WF_vars(Transmit) /\ WF_vars(Reconnect)

FairSpec == Spec /\ Fairness
-----------------------------------------------------------------------------
\* Where an envelope of end e can still be on its way to its peer
Underway(e) ==
    IF e = Server THEN Range(wire[e]) \cup Range(outgoing) \cup
                         UNION {Range(todo[t]) : t \in Thread}
                  ELSE Range(wire[e])
\* o is a copy of the message with id i (RemoteStarted has no id of its own)
CopyOf(o, i) == o.id = i /\ o.kind # "started"
Lost(e) ==
    {m \in sent[e] : /\ received[Peer(e)][m.id] = 0
                     /\ \A o \in Range(buffer[e]) \cup Underway(e) : ~CopyOf(o, m.id)}

\* How many lost connections a message can stand before it may be lost: id 0 is
\* acknowledged by the initial max_received, and one that was overtaken by the
\* acknowledgement of a later id.
Stands(e, m) == IF m.id = 0 \/ (e = Server /\ m.id \in overtaken) THEN 0 ELSE 1
MayBeLost(e, m) == disconnects - m.outage > Stands(e, m)

\* No message is lost: one its peer has not dispatched is still in the sender's
\* buffer or on its way, unless it was sent before the last connection but one
\* (or the last, if an acknowledgement may cover it early).
NoMessageLost == \A e \in End : \A m \in Lost(e) : MayBeLost(e, m)

\* Nothing is lost at all.  Violated, by each of the exceptions above.
NoneLost == \A e \in End : Lost(e) = {}

\* A message is dispatched again only because a resync sent it again: at most
\* once per lost connection more than intended (nothing removes duplicates).
RedeliveredOnlyByResync ==
    \A e \in End : \A m \in sent[e] : received[Peer(e)][m.id] <= 1 + disconnects

Dispatched(e, m) == received[Peer(e)][m.id] > 0 \/ MayBeLost(e, m)
\* Across reconnections every message is in the end dispatched by the peer, and
\* every request answered, but for messages that may be lost as above.
EventuallyDelivered ==
    <>[](\A e \in End : \A m \in sent[e] :
           /\ Dispatched(e, m)
           /\ m.id \in waiting[e] =>
                \/ MayBeLost(e, m)
                \/ \E r \in sent[Peer(e)] : r.re = m.id /\ MayBeLost(Peer(e), r))
=============================================================================
