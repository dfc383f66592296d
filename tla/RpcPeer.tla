------------------------------- MODULE RpcPeer -------------------------------
(***************************************************************************)
(* One connection of rpc::Peer (crates/rpc/src/peer.rs), seen from the     *)
(* side that makes requests.  Four actors share the two maps of response   *)
(* channels: the tasks that make requests, the handle_io future that moves *)
(* messages and closes the maps when the connection ends, the task that    *)
(* consumes the stream of incoming messages and hands responses to the     *)
(* requests, and whoever disconnects.  Each step below is one critical     *)
(* section, one channel operation or one await of the code.                *)
(*                                                                         *)
(* The peer at the other end is external: it answers a request at most     *)
(* once, or a stream request with items and an end, in any order among the *)
(* requests, and sends messages of its own between.  Message ids are the   *)
(* names of the requests; keepalive pings carry nothing and are left out.  *)
(***************************************************************************)
EXTENDS Integers, FiniteSets, Sequences, SequencesExt

CONSTANTS
    Unary,       \* requests made with request_dynamic
    Streams,     \* requests made with request_stream_dynamic
    Capacity,    \* what the channel of INCOMING_BUFFER_SIZE holds: that many
                 \* and the slot of its one sender
    MaxPlain,    \* bound: messages of the other side that answer nothing
    MaxItems     \* bound: items of one stream

ASSUME RequestAssumption == Unary \cap Streams = {}
ASSUME BoundAssumption == Capacity \in Nat \ {0} /\ MaxPlain \in Nat /\ MaxItems \in Nat

Requests == Unary \cup Streams

VARIABLES
    io,        \* handle_io: "running", then the three steps of its deferred
               \* clean-up: "unary_cut", "stream_cut", "ended"
    listed,    \* the connection is in Peer::connections
    channels,  \* response_channels, empty once taken
    streams,   \* stream_response_channels, empty once taken
    pc,        \* what each request is doing
    slot,      \* what is in the channel of each request, in order
    outgoing,  \* outgoing_rx
    inbox,     \* requests the other side has received and not finished
    wire,      \* messages on their way to this side
    incoming,  \* incoming_rx, bounded
    reader,    \* the consumer: "idle", or what it holds or waits for
    sent,      \* ghost: number of messages the other side has sent
    plain,     \* how many of those answered nothing
    items,     \* items sent per stream
    seen       \* ghost: the messages that took effect here, in order

vars == <<io, listed, channels, streams, pc, slot, outgoing, inbox, wire,
          incoming, reader, sent, plain, items, seen>>
callers == <<listed, channels, streams, pc, slot, outgoing>>
remote == <<inbox, wire, sent, plain, items>>

\* The maps are None once handle_io has taken them.
ChannelsOpen == io = "running"
StreamsOpen == io \in {"running", "unary_cut"}

Live == {"looked", "inserted", "waiting", "streaming"}

Init ==
    /\ io = "running" /\ listed = TRUE
    /\ channels = {} /\ streams = {}
    /\ pc = [r \in Requests |-> "new"] /\ slot = [r \in Requests |-> <<>>]
    /\ outgoing = <<>> /\ inbox = {} /\ wire = <<>> /\ incoming = <<>>
    /\ reader = [state |-> "idle"]
    /\ sent = 0 /\ plain = 0 /\ items = [r \in Streams |-> 0] /\ seen = <<>>

\* The consumer holds the sender of r's channel, or waits for r to resume.
Handing(r) == reader.state \in {"took", "holds", "barrier"} /\ reader.msg.to = r

Goto(r, state) == pc' = [pc EXCEPT ![r] = state]

-----------------------------------------------------------------------------
(* Making a request.                                                       *)

\* connection_state: a clone of the state, which keeps outgoing_tx alive.
Look(r) ==
    /\ pc[r] = "new"
    /\ Goto(r, IF listed THEN "looked" ELSE "failed")
    /\ UNCHANGED <<io, listed, channels, streams, slot, outgoing, remote, incoming, reader, seen>>

Register_Fault(r) ==
    /\ pc[r] = "looked"
    /\ Goto(r, "inserted")
    /\ channels' = channels \cup ({r} \cap Unary)
    /\ streams' = streams \cup ({r} \cap Streams)
    /\ UNCHANGED <<io, listed, slot, outgoing, remote, incoming, reader, seen>>

\* The channel goes into the map before the message is sent; once the map
\* has been taken the request fails.
Register(r) ==
    /\ pc[r] = "looked"
    /\ LET open == IF r \in Unary THEN ChannelsOpen ELSE StreamsOpen
       IN  /\ Goto(r, IF open THEN "inserted" ELSE "failed")
           /\ channels' = IF open THEN channels \cup ({r} \cap Unary) ELSE channels
           /\ streams' = IF open THEN streams \cup ({r} \cap Streams) ELSE streams
    /\ UNCHANGED <<io, listed, slot, outgoing, remote, incoming, reader, seen>>

\* unbounded_send fails only when handle_io has gone; a stream request then
\* takes its channel out again.
Send(r) ==
    /\ pc[r] = "inserted"
    /\ IF io = "ended"
       THEN Goto(r, "failed") /\ UNCHANGED outgoing
       ELSE /\ Goto(r, IF r \in Unary THEN "waiting" ELSE "streaming")
            /\ outgoing' = Append(outgoing, r)
    /\ UNCHANGED <<io, listed, channels, streams, slot, remote, incoming, reader, seen>>

\* The response is in the channel: the request ends and drops the barrier,
\* which lets the consumer go on.
Resume(r) ==
    /\ pc[r] = "waiting" /\ slot[r] # <<>>
    /\ Goto(r, "answered")
    /\ seen' = Append(seen, Head(slot[r]).n)
    /\ reader' = [state |-> "idle"]
    /\ UNCHANGED <<io, listed, channels, streams, slot, outgoing, remote, incoming>>

\* The sender of the channel was dropped: rx.await fails.
Abandoned(r) ==
    /\ pc[r] = "waiting" /\ slot[r] = <<>>
    /\ r \notin channels
    /\ ~Handing(r)
    /\ Goto(r, "failed")
    /\ UNCHANGED <<io, listed, channels, streams, slot, outgoing, remote, incoming, reader, seen>>

\* The caller drops the request.  A stream's guard removes its channel; a
\* unary request leaves it to the response.
Cancel(r) ==
    /\ pc[r] \in {"waiting", "streaming"}
    /\ Goto(r, "dropped")
    /\ streams' = streams \ {r}
    /\ slot' = [slot EXCEPT ![r] = <<>>]
    /\ reader' = IF reader.state = "barrier" /\ reader.msg.to = r
                 THEN [state |-> "idle"] ELSE reader
    /\ UNCHANGED <<io, listed, channels, outgoing, remote, incoming, seen>>

\* The stream is polled: an item, an error, or EndStream, which yields
\* nothing.  After an error or the end the caller drops the stream, which
\* removes the channel and whatever is still in it.
Poll(r) ==
    /\ pc[r] = "streaming" /\ slot[r] # <<>>
    /\ LET m == Head(slot[r])
       IN  /\ slot' = [slot EXCEPT ![r] = IF m.kind = "item" THEN Tail(@) ELSE <<>>]
           /\ Goto(r, CASE m.kind = "item" -> "streaming"
                        [] m.kind = "end" -> "answered"
                        [] OTHER -> "failed")
           /\ streams' = IF m.kind = "item" THEN streams ELSE streams \ {r}
           /\ seen' = IF m.kind = "closed" THEN seen ELSE Append(seen, m.n)
           /\ reader' = IF /\ reader.state = "barrier" /\ reader.msg.to = r
                           /\ reader.msg = m \/ m.kind # "item"
                        THEN [state |-> "idle"] ELSE reader
    /\ UNCHANGED <<io, listed, channels, outgoing, remote, incoming>>

-----------------------------------------------------------------------------
(* handle_io.                                                              *)

WriteOut ==
    /\ io = "running" /\ outgoing # <<>>
    /\ outgoing' = Tail(outgoing)
    /\ inbox' = inbox \cup {Head(outgoing)}
    /\ UNCHANGED <<io, listed, channels, streams, pc, slot, wire, incoming, reader,
                   sent, plain, items, seen>>

ReadIn ==
    /\ io = "running" /\ wire # <<>> /\ Len(incoming) < Capacity
    /\ incoming' = Append(incoming, Head(wire))
    /\ wire' = Tail(wire)
    /\ UNCHANGED <<io, callers, inbox, reader, sent, plain, items, seen>>

\* A failed or timed-out read, write, ping or hand-over to the consumer
\* ends the future; the deferred clean-up begins by taking the first map,
\* which drops the channels of all the unary requests.
Break ==
    /\ io = "running"
    /\ io' = "unary_cut" /\ channels' = {}
    /\ UNCHANGED <<listed, streams, pc, slot, outgoing, remote, incoming, reader, seen>>

Drained_Fault ==
    /\ io = "running" /\ outgoing = <<>> /\ ~listed /\ channels = {}
    /\ io' = "unary_cut" /\ channels' = {}
    /\ UNCHANGED <<listed, streams, pc, slot, outgoing, remote, incoming, reader, seen>>

\* The last sender of outgoing_tx is gone and everything has been written.
Drained ==
    /\ io = "running" /\ outgoing = <<>> /\ ~listed
    /\ \A r \in Requests : pc[r] \notin {"looked", "inserted"}
    /\ io' = "unary_cut" /\ channels' = {}
    /\ UNCHANGED <<listed, streams, pc, slot, outgoing, remote, incoming, reader, seen>>

CutStreams_Fault ==
    /\ io = "unary_cut"
    /\ io' = "stream_cut" /\ streams' = {}
    /\ UNCHANGED <<listed, channels, pc, slot, outgoing, remote, incoming, reader, seen>>

\* Every stream that is still in the map is told.
CutStreams ==
    /\ io = "unary_cut"
    /\ io' = "stream_cut" /\ streams' = {}
    /\ slot' = [r \in Requests |-> IF r \in streams
                   THEN Append(slot[r], [kind |-> "closed", to |-> r, n |-> 0])
                   ELSE slot[r]]
    /\ UNCHANGED <<listed, channels, pc, outgoing, remote, incoming, reader, seen>>

Unlist ==
    /\ io = "stream_cut"
    /\ io' = "ended" /\ listed' = FALSE
    /\ UNCHANGED <<channels, streams, pc, slot, outgoing, remote, incoming, reader, seen>>

\* Peer::disconnect and Peer::teardown.
Disconnect ==
    /\ listed /\ listed' = FALSE
    /\ UNCHANGED <<io, channels, streams, pc, slot, outgoing, remote, incoming, reader, seen>>

-----------------------------------------------------------------------------
(* The consumer of incoming messages.                                      *)

\* A message that answers nothing goes to its handler.  A response takes the
\* channel of its request out of the map of unary requests; once the map is
\* gone the response is dropped.
Take ==
    /\ reader.state = "idle" /\ incoming # <<>>
    /\ LET m == Head(incoming)
       IN  /\ incoming' = Tail(incoming)
           /\ seen' = IF m.kind = "plain" THEN Append(seen, m.n) ELSE seen
           /\ reader' = IF m.kind # "plain" /\ ChannelsOpen
                        THEN [state |-> IF m.to \in channels THEN "took" ELSE "looks",
                              msg |-> m]
                        ELSE reader
           /\ channels' = channels \ {m.to}
    /\ UNCHANGED <<io, listed, streams, pc, slot, outgoing, remote>>

\* Then the map of streams, under a lock of its own: the end or an error
\* takes the channel out, an item clones its sender.  If the connection was
\* closed meanwhile the response is dropped, with the channel it had taken;
\* so is a response no one waits for.
TakeStream ==
    /\ reader.state \in {"took", "looks"}
    /\ LET m == reader.msg
       IN  /\ reader' = IF StreamsOpen /\ (reader.state = "took" \/ m.to \in streams)
                        THEN [state |-> "holds", msg |-> m] ELSE [state |-> "idle"]
           /\ streams' = IF m.kind \in {"end", "error"} THEN streams \ {m.to} ELSE streams
    /\ UNCHANGED <<io, listed, channels, pc, slot, outgoing, remote, incoming, seen>>

Give_Fault ==
    /\ reader.state = "holds"
    /\ LET m == reader.msg
       IN  /\ reader' = [state |-> "idle"]
           /\ slot' = IF pc[m.to] \in Live THEN [slot EXCEPT ![m.to] = Append(@, m)] ELSE slot
    /\ UNCHANGED <<io, listed, channels, streams, pc, outgoing, remote, incoming, seen>>

\* The response goes into the channel and the consumer waits until the
\* requester has run.  If the requester is gone it goes on at once, and
\* forgets a stream.
Give ==
    /\ reader.state = "holds"
    /\ LET m == reader.msg
       IN  IF pc[m.to] \in Live
           THEN /\ slot' = [slot EXCEPT ![m.to] = Append(@, m)]
                /\ reader' = [state |-> "barrier", msg |-> m]
                /\ UNCHANGED streams
           ELSE /\ reader' = [state |-> "idle"]
                /\ streams' = streams \ {m.to}
                /\ UNCHANGED slot
    /\ UNCHANGED <<io, listed, channels, pc, outgoing, remote, incoming, seen>>

-----------------------------------------------------------------------------
(* The other side (external).                                              *)

Say(m) ==
    /\ wire' = Append(wire, [kind |-> m[1], to |-> m[2], n |-> sent + 1])
    /\ sent' = sent + 1
    /\ UNCHANGED <<io, callers, incoming, reader, seen>>

Answer ==
    \E r \in inbox :
        \E kind \in IF r \in Unary THEN {"ok", "error"} ELSE {"end", "error"} :
            Say(<<kind, r>>) /\ inbox' = inbox \ {r} /\ UNCHANGED <<plain, items>>

Item ==
    \E r \in inbox \cap Streams :
        /\ items[r] < MaxItems
        /\ Say(<<"item", r>>)
        /\ items' = [items EXCEPT ![r] = @ + 1]
        /\ UNCHANGED <<plain, inbox>>

Notify ==
    /\ plain < MaxPlain
    /\ Say(<<"plain", "none">>)
    /\ plain' = plain + 1
    /\ UNCHANGED <<items, inbox>>

-----------------------------------------------------------------------------
Caller(r) == Look(r) \/ Register(r) \/ Send(r) \/ Resume(r) \/ Abandoned(r)
                 \/ Poll(r)
HandleIo == WriteOut \/ ReadIn \/ Drained \/ CutStreams \/ Unlist
Consumer == Take \/ TakeStream \/ Give

Next ==
    \/ \E r \in Requests : Caller(r) \/ Cancel(r)
    \/ HandleIo \/ Consumer \/ Break \/ Disconnect
    \/ Answer \/ Item \/ Notify

Spec == Init /\ [][Next]_vars

\* The executors poll the tasks: a request, the io future and the consumer
\* that can go on do.  The network, the other side and the callers' choice
\* to disconnect or cancel are free.
FairSpec ==
    /\ Spec
    /\ \A r \in Requests : WF_vars(Caller(r))
    /\ WF_vars(HandleIo) /\ WF_vars(Consumer)

-----------------------------------------------------------------------------
(* Properties.                                                             *)

\* The maps hold requests of their kind, the buffer of incoming messages
\* stays within its capacity, and the channel of a unary request, a oneshot,
\* is never given a second response.
TypeOK ==
    /\ channels \subseteq Unary /\ (channels # {} => ChannelsOpen)
    /\ streams \subseteq Streams /\ (streams # {} => StreamsOpen)
    /\ Len(incoming) <= Capacity
    /\ \A r \in Unary : Len(slot[r]) <= 1
    /\ \A r \in Requests : pc[r] \in Live \cup
          {"new", "failed", "answered", "dropped"}

\* What the other side sends takes effect here in the order it was sent: a
\* response is seen by its requester before the handler of any later message
\* runs, although requester and handler are different tasks.
EffectsInOrder ==
    \A i, j \in DOMAIN seen : i < j => seen[i] < seen[j]

\* A stream never just ends: its caller reads the end or the error the other
\* side sent, or the error that the connection was closed, however the close
\* interleaves with the registration and the responses.  (A receiver whose
\* channel is empty and has no sender left yields the end of the stream.)
NoSilentTruncation ==
    \A r \in Streams :
        pc[r] = "streaming" => slot[r] # <<>> \/ r \in streams \/ Handing(r)

\* When the connection has ended, every request of it ends.
ClosedEndsRequests ==
    (io = "ended") ~> (\A r \in Requests : pc[r] \notin Live)

\* A disconnected connection shuts down, its pending messages written first,
\* even while requests hold clones of its state and others wait for answers.
DisconnectEnds == (~listed) ~> (io = "ended")
=============================================================================
