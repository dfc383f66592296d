---------------------------- MODULE RpcPeerProofs ----------------------------
(***************************************************************************)
(* Theorems about RpcPeer, for any requests, capacity and number of        *)
(* messages.  The order of effects rests on the barrier: the consumer has   *)
(* at most one response in hand or in a channel, so what it has handed on   *)
(* is older than what it has yet to take.  That a stream does not just end  *)
(* rests on the close: a stream whose channel left the map has its last     *)
(* word in the channel, or the consumer holds it.                           *)
(***************************************************************************)
EXTENDS RpcPeer, SequenceTheorems, TLAPS

Stages == Live \cup {"new", "failed", "answered", "dropped"}
Response == [kind : {"ok", "error", "end", "item"}, to : Requests, n : Nat]
Plain == [kind : {"plain"}, to : {"none"}, n : Nat]
Closed == [kind : {"closed"}, to : Streams, n : {0}]
Busy == {"took", "looks", "holds", "barrier"}

Types ==
    /\ io \in {"running", "unary_cut", "stream_cut", "ended"}
    /\ channels \subseteq Unary /\ streams \subseteq Streams
    /\ pc \in [Requests -> Stages]
    /\ slot \in [Requests -> Seq(Response \cup Closed)]
    /\ outgoing \in Seq(Requests) /\ inbox \subseteq Requests
    /\ incoming \in Seq(Response \cup Plain) /\ wire \in Seq(Response \cup Plain)
    /\ reader \in [state : {"idle"}] \cup [state : Busy, msg : Response]
    /\ sent \in Nat /\ seen \in Seq(Nat)

\* What waits was asked for; the maps are empty once they are taken; a sender
\* taken out of the map of unary requests is that of one.
Kinds ==
    /\ \A r \in Requests :
          (pc[r] = "waiting" => r \in Unary) /\ (pc[r] = "streaming" => r \in Streams)
    /\ channels # {} => ChannelsOpen
    /\ streams # {} => StreamsOpen
    /\ reader.state = "took" => reader.msg.to \in Unary

\* A channel holds what was sent to it.
OwnSlots == \A r \in Requests : \A k \in DOMAIN slot[r] : slot[r][k].to = r

\* A response in a channel is the one the consumer waits for, and there is no
\* second one.
Inserted(m) == reader.state = "barrier" /\ reader.msg = m
OneInHand ==
    \A r \in Requests : pc[r] \in Live \cup {"new"} =>
        /\ \A k \in DOMAIN slot[r] : slot[r][k].kind = "closed" \/ Inserted(slot[r][k])
        /\ \A k, l \in DOMAIN slot[r] :
              slot[r][k].kind # "closed" /\ slot[r][l].kind # "closed" => k = l
OneShot == \A r \in Unary : Len(slot[r]) <= 1

\* A stream's channel is in the map, or its last word is in the channel, or
\* the consumer holds it.
LastWord(r) ==
    \/ r \in streams
    \/ \E k \in DOMAIN slot[r] : slot[r][k].kind # "item"
    \/ reader.state = "holds" /\ reader.msg.to = r /\ reader.msg.kind # "item"
StreamKept == \A r \in Streams : pc[r] \in {"inserted", "streaming"} => LastWord(r)

\* What took effect is older than what the consumer has in hand, that than
\* what was read, and that than what is on its way.
Passed == Range(seen) \cup (IF reader.state = "idle" THEN {} ELSE {reader.msg.n})
Ascending(q) == \A i, j \in DOMAIN q : i < j => q[i].n < q[j].n
Later(q) == \A x \in Passed, i \in DOMAIN q : x < q[i].n
Line ==
    /\ Ascending(incoming) /\ Ascending(wire) /\ Later(incoming) /\ Later(wire)
    /\ \A i \in DOMAIN incoming, j \in DOMAIN wire : incoming[i].n < wire[j].n
    /\ \A x \in Passed : x <= sent
    /\ \A i \in DOMAIN incoming : incoming[i].n <= sent
    /\ \A i \in DOMAIN wire : wire[i].n <= sent
    /\ reader.state # "idle" => \A x \in Range(seen) : x < reader.msg.n
    /\ EffectsInOrder

Inv ==
    /\ Types /\ Kinds /\ Len(incoming) <= Capacity /\ OwnSlots /\ OneInHand /\ OneShot
    /\ StreamKept /\ Line

-----------------------------------------------------------------------------
LEMMA Disjoint == \A r \in Unary : r \notin Streams
  BY RequestAssumption

\* Messages leave a queue at its head and enter it at its end.
LEMMA Queues ==
    ASSUME NEW S, NEW q \in Seq(S)
    PROVE  /\ Len(q) \in Nat /\ DOMAIN q = 1..Len(q)
           /\ q # <<>> => /\ Head(q) \in S /\ Tail(q) \in Seq(S) /\ 1 \in DOMAIN q
                          /\ Head(q) = q[1] /\ Len(Tail(q)) = Len(q) - 1
                          /\ \A i \in DOMAIN Tail(q) :
                                i + 1 \in DOMAIN q /\ Tail(q)[i] = q[i + 1]
           /\ \A m \in S :
                /\ Append(q, m) \in Seq(S)
                /\ Len(Append(q, m)) = Len(q) + 1
                /\ DOMAIN Append(q, m) = 1..(Len(q) + 1)
                /\ \A i \in DOMAIN q : Append(q, m)[i] = q[i]
                /\ Append(q, m)[Len(q) + 1] = m
  <1>1. Len(q) \in Nat /\ DOMAIN q = 1..Len(q)
    BY LenProperties
  <1>2. ASSUME q # <<>>
        PROVE  /\ Head(q) \in S /\ Tail(q) \in Seq(S) /\ 1 \in DOMAIN q
               /\ Head(q) = q[1] /\ Len(Tail(q)) = Len(q) - 1
               /\ \A i \in DOMAIN Tail(q) : i + 1 \in DOMAIN q /\ Tail(q)[i] = q[i + 1]
    <2>1. Len(q) > 0 /\ Head(q) = q[1] /\ Head(q) \in S /\ Tail(q) \in Seq(S)
      BY <1>1, <1>2
    <2>2. Len(Tail(q)) = Len(q) - 1 /\ \A i \in 1..(Len(q) - 1) : Tail(q)[i] = q[i + 1]
      BY <1>1, <1>2, <2>1
    <2>. QED
      BY <1>1, <2>1, <2>2, LenProperties
  <1>3. ASSUME NEW m \in S
        PROVE  /\ Append(q, m) \in Seq(S)
               /\ Len(Append(q, m)) = Len(q) + 1
               /\ DOMAIN Append(q, m) = 1..(Len(q) + 1)
               /\ \A i \in DOMAIN q : Append(q, m)[i] = q[i]
               /\ Append(q, m)[Len(q) + 1] = m
    BY <1>1, LenProperties
  <1>. QED
    BY <1>1, <1>2, <1>3

\* The types of what the steps move
LEMMA Typed ==
    ASSUME Inv
    PROVE  /\ pc \in [Requests -> Stages] /\ slot \in [Requests -> Seq(Response \cup Closed)]
           /\ incoming \in Seq(Response \cup Plain) /\ wire \in Seq(Response \cup Plain)
           /\ outgoing \in Seq(Requests) /\ inbox \subseteq Requests
           /\ reader.state # "idle" =>
                reader.state \in Busy /\ reader.msg \in Response /\ reader.msg.to \in Requests
           /\ reader \in [state : {"idle"}] \cup [state : Busy, msg : Response]
           /\ [state |-> "idle"] \in [state : {"idle"}] \cup [state : Busy, msg : Response]
           /\ sent \in Nat /\ seen \in Seq(Nat)
           /\ channels \subseteq Unary /\ streams \subseteq Streams
           /\ Unary \subseteq Requests /\ Streams \subseteq Requests
  BY DEF Inv, Types, Response, Requests

\* What is read of a channel of a request under way is in the consumer's hands,
\* unless it is the news that the connection was closed.
LEMMA HeadInHand ==
    ASSUME Inv, NEW r \in Requests, pc[r] \in Live, slot[r] # <<>>
    PROVE  /\ Head(slot[r]) \in Response \cup Closed /\ Head(slot[r]).to = r
           /\ Tail(slot[r]) \in Seq(Response \cup Closed) /\ Len(slot[r]) \in Nat
           /\ Head(slot[r]).kind # "closed" =>
                /\ Inserted(Head(slot[r])) /\ reader.msg.to = r
                /\ \A k \in DOMAIN Tail(slot[r]) : Tail(slot[r])[k].kind = "closed"
           /\ r \in Unary => Head(slot[r]).kind # "closed"
           /\ Head(slot[r]).kind = "closed" => Head(slot[r]).n = 0
  <1>. DEFINE q == slot[r]
  <1>1. q \in Seq(Response \cup Closed)
    BY Typed
  <1>2. /\ Head(q) \in Response \cup Closed /\ Tail(q) \in Seq(Response \cup Closed) /\ Len(q) \in Nat
        /\ DOMAIN q = 1..Len(q) /\ 1 \in DOMAIN q /\ Head(q) = q[1]
        /\ \A i \in DOMAIN Tail(q) : i + 1 \in DOMAIN q /\ Tail(q)[i] = q[i + 1]
        /\ Len(Tail(q)) \in Nat /\ DOMAIN Tail(q) = 1..Len(Tail(q))
    BY <1>1, Queues
  <1>3. Head(q).to = r
    BY <1>2 DEF Inv, OwnSlots
  <1>4. ASSUME Head(q).kind # "closed"
        PROVE  /\ Inserted(Head(q)) /\ reader.msg.to = r
               /\ \A k \in DOMAIN Tail(q) : Tail(q)[k].kind = "closed"
    <2>1. Inserted(Head(q))
      BY <1>2, <1>4 DEF Inv, OneInHand
    <2>2. ASSUME NEW k \in DOMAIN Tail(q), Tail(q)[k].kind # "closed" PROVE FALSE
      <3>1. k + 1 \in DOMAIN q /\ q[k + 1].kind # "closed" /\ q[1].kind # "closed"
        BY <1>2, <1>4, <2>2
      <3>2. k + 1 = 1
        BY <1>2, <3>1 DEF Inv, OneInHand
      <3>. QED
        BY <1>2, <3>2
    <2>. QED
      BY <1>3, <2>1, <2>2 DEF Inserted
  <1>5. r \in Unary => Head(q).kind # "closed"
    BY <1>2, <1>3, Disjoint DEF Closed, Response
  <1>6. Head(q).kind = "closed" => Head(q).n = 0
    BY <1>2 DEF Closed, Response
  <1>. QED
    BY <1>2, <1>3, <1>4, <1>5, <1>6

\* The other side numbers its messages.
LEMMA Said ==
    ASSUME Inv, Answer \/ Item \/ Notify
    PROVE  \E m \in Response \cup Plain :
              wire' = Append(wire, m) /\ m.n = sent + 1 /\ sent' = sent + 1
  <1>0. sent + 1 \in Nat
    BY Typed
  <1>1. ASSUME NEW r \in Requests, NEW kind \in {"ok", "error", "end", "item"}, Say(<<kind, r>>)
        PROVE  \E m \in Response \cup Plain :
                  wire' = Append(wire, m) /\ m.n = sent + 1 /\ sent' = sent + 1
    <2>. DEFINE m == [kind |-> kind, to |-> r, n |-> sent + 1]
    <2>1. wire' = Append(wire, m) /\ sent' = sent + 1
      BY <1>1 DEF Say
    <2>2. m \in Response /\ m.n = sent + 1
      BY <1>0 DEF Response
    <2>. QED
      BY <2>1, <2>2
  <1>2. CASE Answer
    <2>1. PICK r \in inbox, kind \in {"ok", "error", "end"} : Say(<<kind, r>>)
      BY <1>2 DEF Answer
    <2>. QED
      BY <1>1, <2>1, Typed
  <1>3. CASE Item
    <2>1. PICK r \in inbox : Say(<<"item", r>>)
      BY <1>3 DEF Item
    <2>. QED
      BY <1>1, <2>1, Typed
  <1>4. CASE Notify
    <2>. DEFINE m == [kind |-> "plain", to |-> "none", n |-> sent + 1]
    <2>1. wire' = Append(wire, m) /\ sent' = sent + 1
      BY <1>4 DEF Notify, Say
    <2>2. m \in Plain /\ m.n = sent + 1
      BY <1>0 DEF Plain
    <2>. QED
      BY <2>1, <2>2
  <1>. QED
    BY <1>2, <1>3, <1>4

-----------------------------------------------------------------------------
(* Types and the maps.                                                     *)

LEMMA TypesStep == ASSUME Inv, [Next]_vars PROVE Types'
  <1>. USE Typed DEF callers, remote
  <1>1. ASSUME NEW r \in Requests, Look(r) \/ Register(r) \/ Send(r) \/ Abandoned(r)
        PROVE  Types'
    <2>1. pc' \in [Requests -> Stages]
      BY <1>1 DEF Look, Register, Send, Abandoned, Goto, Stages, Live
    <2>2. channels' \subseteq Unary /\ streams' \subseteq Streams
      BY <1>1 DEF Look, Register, Send, Abandoned
    <2>3. outgoing' \in Seq(Requests)
      <3>1. Append(outgoing, r) \in Seq(Requests)
        BY Queues
      <3>. QED
        BY <1>1, <3>1 DEF Look, Register, Send, Abandoned
    <2>4. UNCHANGED <<io, slot, inbox, incoming, wire, reader, sent, seen>>
      BY <1>1 DEF Look, Register, Send, Abandoned
    <2>. QED
      BY <2>1, <2>2, <2>3, <2>4 DEF Inv, Types
  <1>2. ASSUME NEW r \in Requests, Resume(r) \/ Poll(r) PROVE Types'
    <2>1. pc[r] \in Live /\ slot[r] # <<>>
      BY <1>2 DEF Resume, Poll, Live
    <2>2. Head(slot[r]) \in Response \cup Closed /\ Tail(slot[r]) \in Seq(Response \cup Closed)
      BY <2>1, HeadInHand
    <2>3. Head(slot[r]).n \in Nat /\ 0 \in Nat
      BY <2>2 DEF Response, Closed
    <2>4. seen' \in Seq(Nat)
      <3>1. Append(seen, Head(slot[r]).n) \in Seq(Nat)
        BY <2>3, Queues
      <3>. QED
        BY <1>2, <3>1 DEF Resume, Poll
    <2>5. pc' \in [Requests -> Stages]
      BY <1>2 DEF Resume, Poll, Goto, Stages, Live
    <2>6. slot' \in [Requests -> Seq(Response \cup Closed)]
      <3>1. ASSUME NEW q \in Seq(Response \cup Closed)
            PROVE  [slot EXCEPT ![r] = q] \in [Requests -> Seq(Response \cup Closed)]
        OBVIOUS
      <3>2. <<>> \in Seq(Response \cup Closed)
        OBVIOUS
      <3>3. \/ slot' = slot
            \/ slot' = [slot EXCEPT ![r] = Tail(slot[r])]
            \/ slot' = [slot EXCEPT ![r] = <<>>]
        BY <1>2 DEF Resume, Poll
      <3>. QED
        BY <2>2, <3>1, <3>2, <3>3
    <2>7. reader' \in [state : {"idle"}] \cup [state : Busy, msg : Response]
      BY <1>2 DEF Resume, Poll
    <2>8. /\ channels' \subseteq Unary /\ streams' \subseteq Streams
          /\ UNCHANGED <<io, outgoing, inbox, incoming, wire, sent>>
      BY <1>2 DEF Resume, Poll
    <2>. QED
      BY <2>4, <2>5, <2>6, <2>7, <2>8 DEF Inv, Types
  <1>3. ASSUME NEW r \in Requests, Cancel(r) PROVE Types'
    <2>1. pc' \in [Requests -> Stages]
      BY <1>3 DEF Cancel, Goto, Stages
    <2>2. slot' \in [Requests -> Seq(Response \cup Closed)]
      BY <1>3 DEF Cancel
    <2>3. /\ reader' \in [state : {"idle"}] \cup [state : Busy, msg : Response]
          /\ streams' \subseteq Streams
          /\ UNCHANGED <<io, channels, outgoing, inbox, incoming, wire, sent, seen>>
      BY <1>3 DEF Cancel
    <2>. QED
      BY <2>1, <2>2, <2>3 DEF Inv, Types
  <1>4. CASE WriteOut \/ ReadIn
    <2>1. outgoing' \in Seq(Requests) /\ inbox' \subseteq Requests
      <3>1. outgoing # <<>> => Head(outgoing) \in Requests /\ Tail(outgoing) \in Seq(Requests)
        BY Queues
      <3>. QED
        BY <1>4, <3>1 DEF WriteOut, ReadIn
    <2>2. incoming' \in Seq(Response \cup Plain) /\ wire' \in Seq(Response \cup Plain)
      <3>1. wire # <<>> =>
              /\ Head(wire) \in Response \cup Plain /\ Tail(wire) \in Seq(Response \cup Plain)
              /\ Append(incoming, Head(wire)) \in Seq(Response \cup Plain)
        BY Queues
      <3>. QED
        BY <1>4, <3>1 DEF WriteOut, ReadIn
    <2>3. UNCHANGED <<io, channels, streams, pc, slot, reader, sent, seen>>
      BY <1>4 DEF WriteOut, ReadIn
    <2>. QED
      BY <2>1, <2>2, <2>3 DEF Inv, Types
  <1>5. CASE Break \/ Drained \/ Unlist \/ Disconnect
    BY <1>5 DEF Break, Drained, Unlist, Disconnect, Inv, Types
  <1>6. CASE CutStreams
    <2>1. ASSUME NEW r \in Requests
          PROVE  slot'[r] \in Seq(Response \cup Closed)
      <3>1. r \in streams => [kind |-> "closed", to |-> r, n |-> 0] \in Response \cup Closed
        BY DEF Closed
      <3>2. slot[r] \in Seq(Response \cup Closed)
        OBVIOUS
      <3>. QED
        BY <1>6, <3>1, <3>2, Queues DEF CutStreams
    <2>2. slot' \in [Requests -> Seq(Response \cup Closed)]
      BY <1>6, <2>1 DEF CutStreams
    <2>3. /\ io' = "stream_cut" /\ streams' = {}
          /\ UNCHANGED <<channels, pc, outgoing, inbox, incoming, wire, reader, sent, seen>>
      BY <1>6 DEF CutStreams
    <2>. QED
      BY <2>2, <2>3 DEF Inv, Types
  <1>7. CASE Take
    <2>1. Head(incoming) \in Response \cup Plain /\ incoming' \in Seq(Response \cup Plain)
      BY <1>7, Queues DEF Take
    <2>2. Head(incoming).n \in Nat /\ (Head(incoming).kind # "plain" => Head(incoming) \in Response)
      BY <2>1 DEF Response, Plain
    <2>3. seen' \in Seq(Nat)
      BY <1>7, <2>2, Queues DEF Take
    <2>4. reader' \in [state : {"idle"}] \cup [state : Busy, msg : Response]
      BY <1>7, <2>2 DEF Take, Busy
    <2>5. /\ channels' \subseteq Unary
          /\ UNCHANGED <<io, streams, pc, slot, outgoing, inbox, wire, sent>>
      BY <1>7 DEF Take
    <2>. QED
      BY <2>1, <2>3, <2>4, <2>5 DEF Inv, Types
  <1>8. CASE TakeStream
    <2>1. reader.msg \in Response
      BY <1>8 DEF TakeStream
    <2>2. reader' \in [state : {"idle"}] \cup [state : Busy, msg : Response]
      BY <1>8, <2>1 DEF TakeStream, Busy
    <2>3. /\ streams' \subseteq Streams
          /\ UNCHANGED <<io, channels, pc, slot, outgoing, inbox, incoming, wire, sent, seen>>
      BY <1>8 DEF TakeStream
    <2>. QED
      BY <2>2, <2>3 DEF Inv, Types
  <1>9. CASE Give
    <2>1. reader.msg \in Response /\ reader.msg.to \in Requests
      BY <1>9 DEF Give
    <2>2. reader' \in [state : {"idle"}] \cup [state : Busy, msg : Response]
      BY <1>9, <2>1 DEF Give, Busy
    <2>3. Append(slot[reader.msg.to], reader.msg) \in Seq(Response \cup Closed)
      BY <2>1, Queues
    <2>4. slot' \in [Requests -> Seq(Response \cup Closed)]
      BY <1>9, <2>3 DEF Give
    <2>5. /\ streams' \subseteq Streams
          /\ UNCHANGED <<io, channels, pc, outgoing, inbox, incoming, wire, sent, seen>>
      BY <1>9 DEF Give
    <2>. QED
      BY <2>2, <2>4, <2>5 DEF Inv, Types
  <1>10. CASE Answer \/ Item \/ Notify
    <2>1. PICK m \in Response \cup Plain : wire' = Append(wire, m) /\ sent' = sent + 1
      BY <1>10, Said
    <2>2. wire' \in Seq(Response \cup Plain) /\ sent' \in Nat
      BY <2>1, Queues
    <2>3. /\ inbox' \subseteq Requests
          /\ UNCHANGED <<io, channels, streams, pc, slot, outgoing, incoming, reader, seen>>
      BY <1>10 DEF Answer, Item, Notify, Say
    <2>. QED
      BY <2>2, <2>3 DEF Inv, Types
  <1>11. CASE UNCHANGED vars
    BY <1>11 DEF vars, Inv, Types
  <1>. QED
    BY <1>1, <1>2, <1>3, <1>4, <1>5, <1>6, <1>7, <1>8, <1>9, <1>10, <1>11
       DEF Next, Caller, HandleIo, Consumer

LEMMA KindsStep == ASSUME Inv, [Next]_vars PROVE Kinds'
  <1>. USE Typed DEF callers, remote
  <1>0. Kinds /\ "idle" # "took"
    BY DEF Inv
  <1>1. ASSUME NEW r \in Requests,
               Look(r) \/ Register(r) \/ Send(r) \/ Abandoned(r) \/ Resume(r) \/ Poll(r)
                  \/ Cancel(r)
        PROVE  Kinds'
    <2>1. \A q \in Requests : (pc'[q] = "waiting" => q \in Unary)
                              /\ (pc'[q] = "streaming" => q \in Streams)
      <3>1. \A q \in Requests : q # r => pc'[q] = pc[q]
        BY <1>1 DEF Look, Register, Send, Abandoned, Resume, Poll, Cancel, Goto
      <3>2. (pc'[r] = "waiting" => r \in Unary) /\ (pc'[r] = "streaming" => r \in Streams)
        BY <1>0, <1>1 DEF Look, Register, Send, Abandoned, Resume, Poll, Cancel, Goto, Kinds,
           Requests
      <3>. QED
        BY <1>0, <3>1, <3>2 DEF Kinds
    <2>2. /\ io' = io
          /\ channels' # {} => ChannelsOpen
          /\ streams' # {} => StreamsOpen
      <3>1. CASE Register(r)
        BY <1>0, <3>1, Disjoint DEF Register, Kinds, ChannelsOpen, StreamsOpen, Requests
      <3>2. CASE Look(r) \/ Send(r) \/ Abandoned(r) \/ Resume(r) \/ Poll(r) \/ Cancel(r)
        BY <1>0, <3>2 DEF Look, Send, Abandoned, Resume, Poll, Cancel, Kinds
      <3>. QED
        BY <1>1, <3>1, <3>2
    <2>3. reader' = reader \/ reader' = [state |-> "idle"]
      BY <1>1 DEF Look, Register, Send, Abandoned, Resume, Poll, Cancel
    <2>4. reader'.state = "took" => reader'.msg.to \in Unary
      BY <1>0, <2>3 DEF Kinds
    <2>. QED
      BY <2>1, <2>2, <2>4 DEF Kinds, ChannelsOpen, StreamsOpen
  <1>2. CASE WriteOut \/ ReadIn \/ Disconnect \/ Answer \/ Item \/ Notify
    <2>1. UNCHANGED <<io, channels, streams, pc, reader>>
      BY <1>2 DEF WriteOut, ReadIn, Disconnect, Answer, Item, Notify, Say
    <2>. QED
      BY <1>0, <2>1 DEF Kinds, ChannelsOpen, StreamsOpen
  <1>3. CASE Break \/ Drained \/ CutStreams \/ Unlist
    <2>1. /\ UNCHANGED <<pc, reader>>
          /\ channels' # {} => io' = "running"
          /\ streams' # {} => io' \in {"running", "unary_cut"}
      BY <1>0, <1>3 DEF Break, Drained, CutStreams, Unlist, Kinds, ChannelsOpen, StreamsOpen
    <2>. QED
      BY <1>0, <2>1 DEF Kinds, ChannelsOpen, StreamsOpen
  <1>4. CASE Take \/ TakeStream \/ Give
    <2>1. UNCHANGED <<io, pc>> /\ channels' \subseteq channels /\ streams' \subseteq streams
      BY <1>4 DEF Take, TakeStream, Give
    <2>2. reader'.state = "took" => reader'.msg.to \in Unary
      BY <1>0, <1>4 DEF Take, TakeStream, Give, Kinds
    <2>. QED
      BY <1>0, <2>1, <2>2 DEF Kinds, ChannelsOpen, StreamsOpen
  <1>5. CASE UNCHANGED vars
    BY <1>0, <1>5 DEF vars, Kinds, ChannelsOpen, StreamsOpen
  <1>. QED
    BY <1>1, <1>2, <1>3, <1>4, <1>5 DEF Next, Caller, HandleIo, Consumer

\* The channel of INCOMING_BUFFER_SIZE is not overrun.
LEMMA CapacityStep == ASSUME Inv, [Next]_vars PROVE Len(incoming') <= Capacity
  <1>. USE Typed DEF callers, remote
  <1>0. Len(incoming) <= Capacity /\ Len(incoming) \in Nat /\ Capacity \in Nat
    BY Queues, BoundAssumption DEF Inv
  <1>1. CASE ReadIn
    <2>1. Head(wire) \in Response \cup Plain
      BY <1>1, Queues DEF ReadIn
    <2>2. Len(Append(incoming, Head(wire))) = Len(incoming) + 1
      BY <2>1, Queues
    <2>. QED
      BY <1>0, <1>1, <2>2 DEF ReadIn
  <1>2. CASE Take
    <2>1. Len(Tail(incoming)) = Len(incoming) - 1
      BY <1>2, Queues DEF Take
    <2>. QED
      BY <1>0, <1>2, <2>1 DEF Take
  <1>3. CASE incoming' = incoming
    BY <1>0, <1>3
  <1>. QED
    BY <1>1, <1>2, <1>3 DEF Next, Caller, HandleIo, Consumer, vars, Look, Register, Send, Abandoned,
       Resume, Poll, Cancel, WriteOut, Drained, CutStreams, Unlist, TakeStream, Give, Break,
       Disconnect, Answer, Item, Notify, Say

-----------------------------------------------------------------------------
(* What is in the channels.                                                *)

\* What is appended to a channel stands at its end.
LEMMA Appended ==
    ASSUME NEW q \in Seq(Response \cup Closed), NEW m \in Response \cup Closed
    PROVE  /\ Append(q, m) \in Seq(Response \cup Closed)
           /\ \A k \in DOMAIN q : k \in DOMAIN Append(q, m) /\ Append(q, m)[k] = q[k]
           /\ \A k \in DOMAIN Append(q, m) :
                \/ k \in DOMAIN q /\ Append(q, m)[k] = q[k]
                \/ k = Len(q) + 1 /\ Append(q, m)[k] = m
           /\ \E k \in DOMAIN Append(q, m) : Append(q, m)[k] = m
           /\ Len(Append(q, m)) = Len(q) + 1 /\ Len(q) \in Nat
  <1>. DEFINE more == Append(q, m)
  <1>1. /\ more \in Seq(Response \cup Closed) /\ Len(more) = Len(q) + 1 /\ Len(q) \in Nat
        /\ DOMAIN more = 1..(Len(q) + 1) /\ DOMAIN q = 1..Len(q)
        /\ \A i \in DOMAIN q : more[i] = q[i]
        /\ more[Len(q) + 1] = m
    BY Queues
  <1>. HIDE DEF more
  <1>2. /\ \A k \in DOMAIN q : k \in DOMAIN more /\ more[k] = q[k]
        /\ Len(q) + 1 \in DOMAIN more
    BY <1>1
  <1>3. \A k \in DOMAIN more : \/ k \in DOMAIN q /\ more[k] = q[k]
                               \/ k = Len(q) + 1 /\ more[k] = m
    BY <1>1
  <1>. QED
    BY <1>1, <1>2, <1>3 DEF more

LEMMA Given ==
    ASSUME Inv, Give
    PROVE  /\ reader.state = "holds" /\ reader.msg \in Response /\ reader.msg.to \in Requests
           /\ UNCHANGED <<pc, seen, incoming, wire, sent>>
           /\ \/ /\ pc[reader.msg.to] \in Live
                 /\ slot' = [slot EXCEPT ![reader.msg.to] =
                                Append(slot[reader.msg.to], reader.msg)]
                 /\ reader' = [state |-> "barrier", msg |-> reader.msg]
                 /\ streams' = streams
              \/ /\ pc[reader.msg.to] \notin Live
                 /\ reader' = [state |-> "idle"] /\ slot' = slot
                 /\ streams' = streams \ {reader.msg.to}
  <1>1. reader.state = "holds" /\ reader.msg \in Response /\ reader.msg.to \in Requests
    BY Typed DEF Give
  <1>2. UNCHANGED <<pc, seen, incoming, wire, sent>>
    BY DEF Give, remote
  <1>. QED
    BY <1>1, <1>2 DEF Give

\* The channels of the streams that are still in the map get the error.
LEMMA Cut ==
    ASSUME Inv, CutStreams, NEW r \in Requests
    PROVE  /\ slot'[r] \in Seq(Response \cup Closed)
           /\ \A k \in DOMAIN slot[r] : k \in DOMAIN slot'[r] /\ slot'[r][k] = slot[r][k]
           /\ \A k \in DOMAIN slot'[r] :
                \/ k \in DOMAIN slot[r] /\ slot'[r][k] = slot[r][k]
                \/ r \in streams /\ slot'[r][k].kind = "closed" /\ slot'[r][k].to = r
           /\ r \in streams => \E k \in DOMAIN slot'[r] : slot'[r][k].kind = "closed"
           /\ r \notin streams => slot'[r] = slot[r]
  <1>. DEFINE closed == [kind |-> "closed", to |-> r, n |-> 0]
  <1>1. slot'[r] = IF r \in streams THEN Append(slot[r], closed) ELSE slot[r]
    BY DEF CutStreams
  <1>2. slot[r] \in Seq(Response \cup Closed) /\ (r \in streams => closed \in Response \cup Closed)
    BY Typed DEF Closed
  <1>3. closed.kind = "closed" /\ closed.to = r
    OBVIOUS
  <1>. HIDE DEF closed
  <1>4. CASE r \in streams
    <2>1. slot'[r] = Append(slot[r], closed) /\ closed \in Response \cup Closed
      BY <1>1, <1>2, <1>4
    <2>. QED
      BY <1>2, <1>3, <1>4, <2>1, Appended
  <1>5. CASE r \notin streams
    BY <1>1, <1>2, <1>5
  <1>. QED
    BY <1>4, <1>5

LEMMA OwnSlotsStep == ASSUME Inv, [Next]_vars PROVE OwnSlots'
  <1>. USE Typed DEF callers, remote
  <1>0. ASSUME NEW r \in Requests, NEW q \in Seq(Response \cup Closed), slot' = [slot EXCEPT ![r] = q],
               \A k \in DOMAIN q : q[k].to = r
        PROVE  OwnSlots'
    BY <1>0 DEF Inv, OwnSlots
  <1>1. ASSUME NEW r \in Requests, Poll(r) PROVE OwnSlots'
    <2>1. slot[r] # <<>> /\ slot[r] \in Seq(Response \cup Closed)
      BY <1>1 DEF Poll
    <2>2. /\ Tail(slot[r]) \in Seq(Response \cup Closed)
          /\ \A k \in DOMAIN Tail(slot[r]) :
                k + 1 \in DOMAIN slot[r] /\ Tail(slot[r])[k] = slot[r][k + 1]
      BY <2>1, Queues
    <2>3. \A k \in DOMAIN Tail(slot[r]) : Tail(slot[r])[k].to = r
      BY <2>2 DEF Inv, OwnSlots
    <2>4. <<>> \in Seq(Response \cup Closed) /\ DOMAIN <<>> = {}
      OBVIOUS
    <2>5. \/ slot' = [slot EXCEPT ![r] = Tail(slot[r])]
          \/ slot' = [slot EXCEPT ![r] = <<>>]
      BY <1>1 DEF Poll
    <2>. QED
      BY <1>0, <2>2, <2>3, <2>4, <2>5
  <1>2. ASSUME NEW r \in Requests, Cancel(r) PROVE OwnSlots'
    <2>1. <<>> \in Seq(Response \cup Closed) /\ DOMAIN <<>> = {}
      OBVIOUS
    <2>. QED
      BY <1>0, <1>2, <2>1 DEF Cancel
  <1>3. CASE CutStreams
    BY <1>3, Cut DEF Inv, OwnSlots
  <1>4. CASE Give
    <2>. DEFINE r == reader.msg.to
                more == Append(slot[r], reader.msg)
    <2>1. reader.msg \in Response /\ r \in Requests
      BY <1>4, Given
    <2>2. more \in Seq(Response \cup Closed) /\ \A k \in DOMAIN more : more[k].to = r
      <3>1. slot[r] \in Seq(Response \cup Closed) /\ reader.msg \in Response \cup Closed
        BY <2>1
      <3>2. \A k \in DOMAIN slot[r] : slot[r][k].to = r
        BY <2>1 DEF Inv, OwnSlots
      <3>3. reader.msg.to = r
        OBVIOUS
      <3>. HIDE DEF r
      <3>4. /\ more \in Seq(Response \cup Closed)
            /\ \A k \in DOMAIN more : (k \in DOMAIN slot[r] /\ more[k] = slot[r][k])
                                      \/ more[k] = reader.msg
        BY <3>1, Appended
      <3>. HIDE DEF more
      <3>. QED
        BY <3>2, <3>3, <3>4
    <2>4. slot' = slot \/ slot' = [slot EXCEPT ![r] = more]
      BY <1>4, Given
    <2>. HIDE DEF more, r
    <2>5. slot' = slot => OwnSlots'
      BY DEF Inv, OwnSlots
    <2>. QED
      BY <1>0, <2>1, <2>2, <2>4, <2>5
  <1>5. CASE slot' = slot
    BY <1>5 DEF Inv, OwnSlots
  <1>. QED
    BY <1>1, <1>2, <1>3, <1>4, <1>5 DEF Next, Caller, HandleIo, Consumer, vars, Look, Register,
       Send, Abandoned, Resume, WriteOut, ReadIn, Drained, Unlist, Take, TakeStream, Break,
       Disconnect, Answer, Item, Notify, Say

\* Requests under way, when the consumer has put nothing into their channels:
\* there is nothing there but the news of the close.
News(q) == \A k \in DOMAIN q : q[k].kind = "closed"

LEMMA OnlyClosed ==
    ASSUME Inv, NEW r \in Requests, pc[r] \in Live \cup {"new"},
           reader.state # "barrier" \/ reader.msg.to # r
    PROVE  News(slot[r]) /\ (r \in Unary => slot[r] = <<>>)
  <1>1. \A k \in DOMAIN slot[r] : slot[r][k].to = r
    BY DEF Inv, OwnSlots
  <1>2. \A k \in DOMAIN slot[r] : slot[r][k].kind = "closed"
    BY <1>1 DEF Inv, OneInHand, Inserted
  <1>3. ASSUME r \in Unary, slot[r] # <<>> PROVE FALSE
    <2>1. slot[r] \in Seq(Response \cup Closed)
      BY Typed
    <2>2. 1 \in DOMAIN slot[r] /\ Head(slot[r]) = slot[r][1] /\ Head(slot[r]) \in Response \cup Closed
      BY <1>3, <2>1, Queues
    <2>3. Head(slot[r]).to = r /\ Head(slot[r]).kind = "closed"
      BY <1>1, <1>2, <2>2
    <2>. QED
      BY <1>3, <2>2, <2>3, Disjoint DEF Response, Closed
  <1>. QED
    BY <1>2, <1>3 DEF News

LEMMA OneInHandStep == ASSUME Inv, [Next]_vars PROVE OneInHand'
  <1>. USE Typed DEF callers, remote
  <1>0. ASSUME \A q \in Requests : pc'[q] \in Live \cup {"new"} =>
                  \/ News(slot'[q])
                  \/ slot'[q] = slot[q] /\ pc[q] \in Live \cup {"new"} /\ reader' = reader
        PROVE  OneInHand'
    <2>1. ASSUME NEW q \in Requests, pc'[q] \in Live \cup {"new"}
          PROVE  /\ \A k \in DOMAIN slot'[q] :
                       \/ slot'[q][k].kind = "closed"
                       \/ reader'.state = "barrier" /\ reader'.msg = slot'[q][k]
                 /\ \A k, l \in DOMAIN slot'[q] :
                       slot'[q][k].kind # "closed" /\ slot'[q][l].kind # "closed" => k = l
      <3>1. CASE News(slot'[q])
        BY <3>1 DEF News
      <3>2. CASE slot'[q] = slot[q] /\ pc[q] \in Live \cup {"new"} /\ reader' = reader
        BY <3>2 DEF Inv, OneInHand, Inserted
      <3>. QED
        BY <1>0, <2>1, <3>1, <3>2
    <2>. QED
      BY <2>1 DEF OneInHand, Inserted
  <1>1. ASSUME slot' = slot, reader' = reader,
               \A q \in Requests : pc'[q] \in Live \cup {"new"} => pc[q] \in Live \cup {"new"}
        PROVE  OneInHand'
    BY <1>0, <1>1
  <1>2. ASSUME NEW r \in Requests, Look(r) \/ Register(r) \/ Send(r) \/ Abandoned(r)
        PROVE  OneInHand'
    <2>1. /\ slot' = slot /\ reader' = reader
          /\ pc[r] \in Live \cup {"new"} /\ \E s : pc' = [pc EXCEPT ![r] = s]
      BY <1>2 DEF Look, Register, Send, Abandoned, Live, Goto
    <2>. QED
      BY <1>1, <2>1
  <1>3. CASE \/ WriteOut \/ ReadIn \/ Break \/ Drained \/ Unlist \/ Disconnect
             \/ Answer \/ Item \/ Notify \/ UNCHANGED vars
    <2>1. slot' = slot /\ reader' = reader /\ pc' = pc
      BY <1>3 DEF WriteOut, ReadIn, Break, Drained, Unlist, Disconnect, Answer, Item, Notify,
         Say, vars
    <2>. QED
      BY <1>1, <2>1
  <1>4. CASE Take \/ TakeStream
    <2>1. slot' = slot /\ pc' = pc /\ reader.state # "barrier"
      BY <1>4 DEF Take, TakeStream
    <2>. QED
      BY <1>0, <2>1, OnlyClosed
  <1>5. ASSUME NEW r \in Requests, Resume(r) PROVE OneInHand'
    <2>1. /\ pc[r] \in Live /\ slot[r] # <<>> /\ r \in Unary
          /\ pc' = [pc EXCEPT ![r] = "answered"] /\ slot' = slot
      BY <1>5 DEF Resume, Live, Goto, Inv, Kinds
    <2>2. reader.msg.to = r
      BY <2>1, HeadInHand
    <2>3. \A q \in Requests : pc'[q] \in Live \cup {"new"} => q # r /\ pc'[q] = pc[q]
      BY <2>1 DEF Live
    <2>. QED
      BY <1>0, <2>1, <2>2, <2>3, OnlyClosed
  <1>6. ASSUME NEW r \in Requests, Cancel(r) PROVE OneInHand'
    <2>1. /\ pc' = [pc EXCEPT ![r] = "dropped"] /\ slot' = [slot EXCEPT ![r] = <<>>]
          /\ reader' = reader \/ reader.msg.to = r
      BY <1>6 DEF Cancel, Goto
    <2>2. \A q \in Requests : pc'[q] \in Live \cup {"new"} =>
             q # r /\ pc'[q] = pc[q] /\ slot'[q] = slot[q]
      BY <2>1 DEF Live
    <2>. QED
      BY <1>0, <2>1, <2>2, OnlyClosed
  <1>7. ASSUME NEW r \in Requests, Poll(r) PROVE OneInHand'
    <2>1. /\ pc[r] \in Live /\ slot[r] # <<>>
          /\ reader' = reader \/ reader.msg.to = r
          /\ \A q \in Requests : q # r => pc'[q] = pc[q] /\ slot'[q] = slot[q]
          /\ pc'[r] \in Live \cup {"new"} =>
                Head(slot[r]).kind = "item" /\ slot'[r] = Tail(slot[r])
      <3>1. pc[r] \in Live /\ slot[r] # <<>> /\ (reader' = reader \/ reader.msg.to = r)
        BY <1>7 DEF Poll, Live
      <3>2. \A q \in Requests : q # r => pc'[q] = pc[q] /\ slot'[q] = slot[q]
        BY <1>7 DEF Poll, Goto
      <3>3. ASSUME Head(slot[r]).kind = "item" PROVE slot'[r] = Tail(slot[r])
        BY <1>7, <3>3 DEF Poll
      <3>4. ASSUME Head(slot[r]).kind # "item" PROVE pc'[r] \notin Live \cup {"new"}
        <4>1. pc'[r] \in {"answered", "failed"}
          BY <1>7, <3>4 DEF Poll, Goto
        <4>. QED
          BY <4>1 DEF Live
      <3>. QED
        BY <3>1, <3>2, <3>3, <3>4
    <2>2. Head(slot[r]).kind = "item" => News(Tail(slot[r]))
      BY <2>1, HeadInHand DEF News
    <2>3. pc'[r] \in Live \cup {"new"} => News(slot'[r])
      BY <2>1, <2>2
    <2>4. \A q \in Requests : q # r /\ pc'[q] \in Live \cup {"new"} =>
             News(slot'[q]) \/ (slot'[q] = slot[q] /\ pc[q] \in Live \cup {"new"} /\ reader' = reader)
      BY <2>1, OnlyClosed
    <2>. QED
      BY <1>0, <2>3, <2>4
  <1>8. CASE CutStreams
    <2>1. pc' = pc /\ reader' = reader
      BY <1>8 DEF CutStreams
    <2>2. ASSUME NEW q \in Requests, pc[q] \in Live \cup {"new"}
          PROVE  /\ \A k \in DOMAIN slot'[q] :
                       slot'[q][k].kind = "closed" \/ Inserted(slot'[q][k])
                 /\ \A k, l \in DOMAIN slot'[q] :
                       slot'[q][k].kind # "closed" /\ slot'[q][l].kind # "closed" => k = l
      BY <1>8, <2>2, Cut, SMTT(30) DEF Inv, OneInHand
    <2>. QED
      BY <2>1, <2>2 DEF OneInHand, Inserted
  <1>9. CASE Give
    <2>. DEFINE r == reader.msg.to
    <2>1. /\ reader.state = "holds" /\ reader.msg \in Response /\ r \in Requests /\ pc' = pc
          /\ \/ /\ slot' = [slot EXCEPT ![r] = Append(slot[r], reader.msg)]
                /\ reader' = [state |-> "barrier", msg |-> reader.msg]
             \/ slot' = slot
      BY <1>9, Given
    <2>2. \A q \in Requests : pc[q] \in Live \cup {"new"} => News(slot[q])
      BY <2>1, OnlyClosed
    <2>3. CASE slot' = slot
      BY <1>0, <2>1, <2>2, <2>3
    <2>4. CASE /\ slot' = [slot EXCEPT ![r] = Append(slot[r], reader.msg)]
               /\ reader' = [state |-> "barrier", msg |-> reader.msg]
      <3>1. slot[r] \in Seq(Response \cup Closed) /\ reader.msg \in Response \cup Closed
        BY <2>1
      <3>2. \A q \in Requests : q # r => slot'[q] = slot[q]
        BY <2>4
      <3>3. /\ slot'[r] = Append(slot[r], reader.msg)
            /\ reader'.state = "barrier" /\ reader'.msg = reader.msg
        BY <2>1, <2>4
      <3>4. \A k \in DOMAIN slot'[r] :
               \/ k \in DOMAIN slot[r] /\ slot'[r][k] = slot[r][k]
               \/ k = Len(slot[r]) + 1 /\ slot'[r][k] = reader.msg
        <4>. HIDE DEF r
        <4>. QED
          BY <3>1, <3>3, Appended
      <3>. HIDE DEF r
      <3>5. ASSUME NEW q \in Requests, pc[q] \in Live \cup {"new"}
            PROVE  /\ \A k \in DOMAIN slot'[q] :
                         slot'[q][k].kind = "closed" \/ slot'[q][k] = reader.msg
                   /\ \A k, l \in DOMAIN slot'[q] :
                         slot'[q][k].kind # "closed" /\ slot'[q][l].kind # "closed" => k = l
        <4>1. CASE q = r
          <5>1. \A k \in DOMAIN slot[r] : slot[r][k].kind = "closed"
            BY <2>2, <3>5, <4>1 DEF News
          <5>. QED
            BY <3>4, <4>1, <5>1, ZenonT(40)
        <4>2. CASE q # r
          BY <2>2, <3>2, <3>5, <4>2, SMTT(30) DEF News
        <4>. QED
          BY <4>1, <4>2
      <3>. QED
        BY <2>1, <3>3, <3>5 DEF OneInHand, Inserted
    <2>. QED
      BY <2>1, <2>3, <2>4
  <1>. QED
    BY <1>2, <1>3, <1>4, <1>5, <1>6, <1>7, <1>8, <1>9 DEF Next, Caller, HandleIo, Consumer

\* A oneshot is given one response.
LEMMA OneShotStep == ASSUME Inv, [Next]_vars PROVE OneShot'
  <1>. USE Typed DEF callers, remote
  <1>0. ASSUME \A q \in Unary : slot'[q] = slot[q] \/ slot'[q] = <<>> PROVE OneShot'
    <2>1. Len(<<>>) = 0
      OBVIOUS
    <2>. QED
      BY <1>0, <2>1 DEF Inv, OneShot
  <1>1. ASSUME NEW r \in Requests, Poll(r) PROVE OneShot'
    <2>1. r \in Streams /\ \A q \in Requests : q # r => slot'[q] = slot[q]
      BY <1>1 DEF Poll, Inv, Kinds
    <2>. QED
      BY <1>0, <2>1, Disjoint
  <1>2. ASSUME NEW r \in Requests, Cancel(r) PROVE OneShot'
    BY <1>0, <1>2 DEF Cancel
  <1>3. CASE CutStreams
    <2>1. \A q \in Unary : slot'[q] = slot[q]
      BY <1>3, Cut, Disjoint
    <2>. QED
      BY <1>0, <2>1
  <1>4. CASE Give
    <2>. DEFINE r == reader.msg.to
    <2>1. /\ reader.state = "holds" /\ reader.msg \in Response /\ r \in Requests
          /\ slot' = slot \/ (pc[r] \in Live
                                /\ slot' = [slot EXCEPT ![r] = Append(slot[r], reader.msg)])
      BY <1>4, Given
    <2>2. CASE slot' = slot
      BY <1>0, <2>2
    <2>3. CASE pc[r] \in Live /\ slot' = [slot EXCEPT ![r] = Append(slot[r], reader.msg)]
      <3>1. r \in Unary => slot[r] = <<>>
        BY <2>1, <2>3, OnlyClosed
      <3>2. slot'[r] = Append(slot[r], reader.msg) /\ \A q \in Requests : q # r => slot'[q] = slot[q]
        BY <2>1, <2>3
      <3>3. Len(Append(<<>>, reader.msg)) = 1
        BY <2>1
      <3>. HIDE DEF r
      <3>4. ASSUME NEW q \in Unary PROVE Len(slot'[q]) <= 1
        <4>1. CASE q = r
          <5>1. slot'[q] = Append(<<>>, reader.msg)
            BY <3>1, <3>2, <4>1
          <5>. QED
            BY <3>3, <5>1
        <4>2. CASE q # r
          BY <3>2, <4>2 DEF Inv, OneShot
        <4>. QED
          BY <4>1, <4>2
      <3>. QED
        BY <3>4 DEF OneShot
    <2>. QED
      BY <2>1, <2>2, <2>3
  <1>5. CASE slot' = slot
    BY <1>5 DEF Inv, OneShot
  <1>. QED
    BY <1>1, <1>2, <1>3, <1>4, <1>5 DEF Next, Caller, HandleIo, Consumer, vars, Look, Register,
       Send, Abandoned, Resume, WriteOut, ReadIn, Drained, Unlist, Take, TakeStream, Break,
       Disconnect, Answer, Item, Notify, Say

-----------------------------------------------------------------------------
(* The close.                                                              *)

LEMMA StreamKeptStep == ASSUME Inv, [Next]_vars PROVE StreamKept'
  <1>. USE Typed DEF callers, remote
  <1>. DEFINE Held(r) == /\ reader'.state = "holds" /\ reader'.msg.to = r
                         /\ reader'.msg.kind # "item"
              Kept(r) == \/ r \in streams'
                         \/ \E k \in DOMAIN slot'[r] : slot'[r][k].kind # "item"
                         \/ Held(r)
  <1>0. ASSUME \A r \in Streams : pc'[r] \in {"inserted", "streaming"} => Kept(r)
        PROVE  StreamKept'
    BY <1>0 DEF StreamKept, LastWord
  <1>1. \A r \in Streams : pc[r] \in {"inserted", "streaming"} => LastWord(r)
    BY DEF Inv, StreamKept
  <1>2. CASE \/ ReadIn \/ WriteOut \/ Break \/ Drained \/ Unlist \/ Disconnect
             \/ Answer \/ Item \/ Notify \/ UNCHANGED vars
    <2>1. UNCHANGED <<pc, slot, streams, reader>>
      BY <1>2 DEF WriteOut, ReadIn, Break, Drained, Unlist, Disconnect, Answer, Item, Notify,
         Say, vars
    <2>. QED
      BY <1>0, <1>1, <2>1 DEF LastWord
  <1>3. ASSUME NEW r \in Requests, Look(r) \/ Abandoned(r) PROVE StreamKept'
    <2>1. /\ UNCHANGED <<slot, streams, reader>>
          /\ \A q \in Requests : q # r => pc'[q] = pc[q]
          /\ pc'[r] \in {"looked", "failed"}
      BY <1>3 DEF Look, Abandoned, Goto
    <2>. QED
      BY <1>0, <1>1, <2>1 DEF LastWord
  <1>4. ASSUME NEW r \in Requests, Register(r) \/ Send(r) PROVE StreamKept'
    <2>1. /\ UNCHANGED <<slot, reader>> /\ streams \subseteq streams'
          /\ \A q \in Requests : q # r => pc'[q] = pc[q]
          /\ r \in Streams /\ pc'[r] \in {"inserted", "streaming"} =>
               r \in streams' \/ pc[r] = "inserted"
      BY <1>4, Disjoint DEF Register, Send, Goto, Requests
    <2>. QED
      BY <1>0, <1>1, <2>1 DEF LastWord
  <1>5. ASSUME NEW r \in Requests, Resume(r) PROVE StreamKept'
    <2>1. /\ pc[r] \in Live /\ slot[r] # <<>> /\ r \in Unary
          /\ pc' = [pc EXCEPT ![r] = "answered"] /\ UNCHANGED <<slot, streams>>
      BY <1>5 DEF Resume, Live, Goto, Inv, Kinds
    <2>2. reader.state # "holds"
      BY <2>1, HeadInHand DEF Inserted
    <2>3. \A q \in Requests : q # r => pc'[q] = pc[q]
      BY <2>1
    <2>4. r \notin Streams
      BY <2>1, Disjoint
    <2>. QED
      BY <1>0, <1>1, <2>1, <2>2, <2>3, <2>4 DEF LastWord
  <1>6. ASSUME NEW r \in Requests, Cancel(r) PROVE StreamKept'
    <2>1. /\ \A q \in Requests : q # r => pc'[q] = pc[q] /\ slot'[q] = slot[q]
          /\ streams' = streams \ {r} /\ pc'[r] = "dropped"
          /\ reader' = reader \/ reader.state = "barrier"
      BY <1>6 DEF Cancel, Goto
    <2>. QED
      BY <1>0, <1>1, <2>1, ZenonT(30) DEF LastWord
  <1>7. ASSUME NEW r \in Requests, Poll(r) PROVE StreamKept'
    <2>1. /\ \A q \in Requests : q # r => pc'[q] = pc[q] /\ slot'[q] = slot[q]
          /\ reader' = reader \/ reader.state = "barrier"
          /\ streams' = streams \/ streams' = streams \ {r}
          /\ pc[r] = "streaming" /\ r \in Streams
      BY <1>7 DEF Poll, Goto, Inv, Kinds
    <2>2. \A q \in Streams : q # r /\ pc'[q] \in {"inserted", "streaming"} => Kept(q)
      BY <1>1, <2>1, ZenonT(30) DEF LastWord
    <2>3. ASSUME pc'[r] \in {"inserted", "streaming"} PROVE Kept(r)
      <3>1. /\ Head(slot[r]).kind = "item" /\ slot'[r] = Tail(slot[r]) /\ slot[r] # <<>>
            /\ streams' = streams
        <4>1. Head(slot[r]).kind = "item"
          BY <1>7, <2>3 DEF Poll, Goto
        <4>. QED
          BY <1>7, <4>1 DEF Poll
      <3>2. CASE \E k \in DOMAIN slot[r] : slot[r][k].kind # "item"
        <4>1. PICK k \in DOMAIN slot[r] : slot[r][k].kind # "item"
          BY <3>2
        <4>2. slot[r] \in Seq(Response \cup Closed)
          OBVIOUS
        <4>3. /\ DOMAIN slot[r] = 1..Len(slot[r]) /\ Len(slot[r]) \in Nat
              /\ Head(slot[r]) = slot[r][1] /\ Tail(slot[r]) \in Seq(Response \cup Closed)
              /\ Len(Tail(slot[r])) = Len(slot[r]) - 1
              /\ \A i \in DOMAIN Tail(slot[r]) : Tail(slot[r])[i] = slot[r][i + 1]
          BY <3>1, <4>2, Queues
        <4>4. k # 1
          BY <3>1, <4>1, <4>3
        <4>5. DOMAIN Tail(slot[r]) = 1..(Len(slot[r]) - 1)
          BY <4>3, LenProperties
        <4>6. k - 1 \in DOMAIN Tail(slot[r]) /\ (k - 1) + 1 = k
          BY <4>1, <4>3, <4>4, <4>5
        <4>7. slot'[r][k - 1].kind # "item"
          BY <3>1, <4>1, <4>3, <4>6
        <4>. QED
          BY <3>1, <4>6, <4>7
      <3>. QED
        BY <1>1, <2>1, <3>1, <3>2 DEF LastWord
    <2>. QED
      BY <1>0, <2>2, <2>3
  <1>8. CASE CutStreams
    <2>1. pc' = pc /\ reader' = reader
      BY <1>8 DEF CutStreams
    <2>2. ASSUME NEW r \in Streams, LastWord(r) PROVE Kept(r)
      <3>1. CASE r \in streams
        BY <1>8, <3>1, Cut
      <3>2. CASE \E k \in DOMAIN slot[r] : slot[r][k].kind # "item"
        <4>1. \A k \in DOMAIN slot[r] : k \in DOMAIN slot'[r] /\ slot'[r][k] = slot[r][k]
          BY <1>8, Cut
        <4>. QED
          BY <3>2, <4>1
      <3>. QED
        BY <2>1, <2>2, <3>1, <3>2 DEF LastWord
    <2>. QED
      BY <1>0, <1>1, <2>1, <2>2
  <1>9. CASE Take
    <2>1. UNCHANGED <<pc, slot, streams>> /\ reader.state = "idle"
      BY <1>9 DEF Take
    <2>. QED
      BY <1>0, <1>1, <2>1 DEF LastWord
  <1>10. CASE TakeStream
    <2>1. UNCHANGED <<pc, slot>> /\ reader.state \in {"took", "looks"}
      BY <1>10 DEF TakeStream
    <2>2. ASSUME NEW r \in Streams, r \in streams PROVE Kept(r)
      <3>1. CASE r \in streams'
        BY <3>1
      <3>2. CASE r \notin streams'
        <4>1. reader.msg.to = r /\ reader.msg.kind \in {"end", "error"}
          BY <1>10, <2>2, <3>2 DEF TakeStream
        <4>2. StreamsOpen
          BY <2>2 DEF Inv, Kinds
        <4>3. reader' = [state |-> "holds", msg |-> reader.msg]
          BY <1>10, <2>2, <4>1, <4>2 DEF TakeStream
        <4>. QED
          BY <4>1, <4>3
      <3>. QED
        BY <3>1, <3>2
    <2>. QED
      BY <1>0, <1>1, <2>1, <2>2 DEF LastWord
  <1>11. CASE Give
    <2>. DEFINE r == reader.msg.to
    <2>1. /\ reader.state = "holds" /\ reader.msg \in Response /\ r \in Requests /\ pc' = pc
          /\ \/ /\ slot' = [slot EXCEPT ![r] = Append(slot[r], reader.msg)]
                /\ streams' = streams
             \/ /\ pc[r] \notin Live
                /\ slot' = slot /\ streams' = streams \ {r}
      BY <1>11, Given
    <2>2. CASE pc[r] \notin Live /\ slot' = slot /\ streams' = streams \ {r}
      <3>1. \A q \in Streams : pc[q] \in {"inserted", "streaming"} => q # r
        BY <2>2 DEF Live
      <3>. QED
        BY <1>0, <1>1, <2>1, <2>2, <3>1 DEF LastWord
    <2>3. CASE slot' = [slot EXCEPT ![r] = Append(slot[r], reader.msg)] /\ streams' = streams
      <3>1. slot'[r] = Append(slot[r], reader.msg) /\ \A q \in Requests : q # r => slot'[q] = slot[q]
        BY <2>1, <2>3
      <3>2. slot[r] \in Seq(Response \cup Closed) /\ reader.msg \in Response \cup Closed
        BY <2>1
      <3>3. /\ \A k \in DOMAIN slot[r] : k \in DOMAIN slot'[r] /\ slot'[r][k] = slot[r][k]
            /\ \E k \in DOMAIN slot'[r] : slot'[r][k] = reader.msg
        <4>. DEFINE q == slot[r]
                    m == reader.msg
        <4>1. q \in Seq(Response \cup Closed) /\ m \in Response \cup Closed /\ slot'[r] = Append(q, m)
          BY <3>1, <3>2
        <4>. HIDE DEF q, m
        <4>2. /\ \A k \in DOMAIN q : k \in DOMAIN Append(q, m) /\ Append(q, m)[k] = q[k]
              /\ \E k \in DOMAIN Append(q, m) : Append(q, m)[k] = m
          BY <4>1, Appended
        <4>. QED
          BY <4>1, <4>2 DEF q, m
      <3>4. ASSUME NEW q \in Streams, LastWord(q) PROVE Kept(q)
        <4>1. CASE q = r
          <5>1. CASE \E k \in DOMAIN slot[r] : slot[r][k].kind # "item"
            BY <3>3, <4>1, <5>1
          <5>2. CASE reader.msg.kind # "item"
            BY <3>3, <4>1, <5>2
          <5>. QED
            BY <2>3, <3>4, <4>1, <5>1, <5>2 DEF LastWord
        <4>2. CASE q # r
          BY <2>3, <3>1, <3>4, <4>2 DEF LastWord
        <4>. QED
          BY <4>1, <4>2
      <3>. QED
        BY <1>0, <1>1, <2>1, <3>4
    <2>. QED
      BY <2>1, <2>2, <2>3
  <1>. QED
    BY <1>2, <1>3, <1>4, <1>5, <1>6, <1>7, <1>8, <1>9, <1>10, <1>11
       DEF Next, Caller, HandleIo, Consumer

-----------------------------------------------------------------------------
(* The order of effects.                                                   *)

LEMMA SeenGrows ==
    ASSUME Inv, NEW x \in Nat, \A y \in Range(seen) : y < x, seen' = Append(seen, x)
    PROVE  EffectsInOrder' /\ Range(seen') = Range(seen) \cup {x}
  <1>1. /\ Len(seen) \in Nat /\ DOMAIN seen = 1..Len(seen)
        /\ DOMAIN seen' = 1..(Len(seen) + 1)
        /\ \A i \in DOMAIN seen : seen'[i] = seen[i]
        /\ seen'[Len(seen) + 1] = x
    <2>1. seen \in Seq(Nat)
      BY Typed
    <2>. QED
      BY <2>1, Queues
  <1>2. \A i \in DOMAIN seen : seen[i] < x
    BY DEF Range
  <1>3. ASSUME NEW i \in DOMAIN seen', NEW j \in DOMAIN seen', i < j PROVE seen'[i] < seen'[j]
    <2>1. i \in DOMAIN seen
      BY <1>1, <1>3
    <2>2. CASE j \in DOMAIN seen
      BY <1>1, <1>3, <2>1, <2>2 DEF Inv, Line, EffectsInOrder
    <2>3. CASE j = Len(seen) + 1
      BY <1>1, <1>2, <2>1, <2>3
    <2>. QED
      BY <1>1, <2>2, <2>3
  <1>4. Range(seen') = Range(seen) \cup {x}
    <2>1. \A i \in DOMAIN seen' : i \in DOMAIN seen \/ i = Len(seen) + 1
      BY <1>1
    <2>2. \A i \in DOMAIN seen : i \in DOMAIN seen' /\ seen'[i] = seen[i]
      BY <1>1
    <2>3. Len(seen) + 1 \in DOMAIN seen'
      BY <1>1
    <2>. QED
      BY <1>1, <2>1, <2>2, <2>3 DEF Range
  <1>. QED
    BY <1>3, <1>4 DEF EffectsInOrder

\* The numbers of messages and of effects are numbers.
LEMMA Numbers ==
    ASSUME Inv
    PROVE  /\ Passed \subseteq Nat /\ Range(seen) \subseteq Passed
           /\ reader.state # "idle" => reader.msg.n \in Passed
           /\ \A i \in DOMAIN incoming : incoming[i].n \in Nat
           /\ \A i \in DOMAIN wire : wire[i].n \in Nat
  <1>1. \A m \in Response \cup Plain : m.n \in Nat
    BY DEF Response, Plain
  <1>2. /\ \A i \in DOMAIN incoming : incoming[i] \in Response \cup Plain
        /\ \A i \in DOMAIN wire : wire[i] \in Response \cup Plain
        /\ \A i \in DOMAIN seen : seen[i] \in Nat
    BY Typed, ElementOfSeq, LenProperties
  <1>3. Range(seen) \subseteq Nat
    BY <1>2 DEF Range
  <1>4. reader.state # "idle" => reader.msg \in Response
    BY Typed
  <1>. QED
    BY <1>1, <1>2, <1>3, <1>4 DEF Passed

LEMMA LineStep == ASSUME Inv, [Next]_vars PROVE Line'
  <1>. USE Typed DEF callers, remote
  <1>. DEFINE Behind == reader'.state # "idle" => \A x \in Range(seen') : x < reader'.msg.n
  <1>0. ASSUME UNCHANGED <<incoming, wire, sent>>, Passed' \subseteq Passed, EffectsInOrder',
               Behind
        PROVE  Line'
    BY <1>0 DEF Inv, Line, Ascending, Later
  \* Nothing takes effect, and the consumer lets go of what it has in hand or not.
  <1>1. ASSUME UNCHANGED <<incoming, wire, sent, seen>>,
               \/ reader'.state = "idle"
               \/ reader.state # "idle" /\ reader'.msg = reader.msg
        PROVE  Line'
    <2>1. Passed' \subseteq Passed
      BY <1>1 DEF Passed
    <2>2. EffectsInOrder'
      BY <1>1 DEF Inv, Line, EffectsInOrder
    <2>3. Behind
      BY <1>1 DEF Inv, Line
    <2>. QED
      BY <1>0, <1>1, <2>1, <2>2, <2>3
  <1>2. ASSUME NEW r \in Requests, Look(r) \/ Register(r) \/ Send(r) \/ Abandoned(r) \/ Cancel(r)
        PROVE  Line'
    BY <1>1, <1>2 DEF Look, Register, Send, Abandoned, Cancel
  <1>3. CASE WriteOut \/ Break \/ Drained \/ CutStreams \/ Unlist \/ Disconnect \/ UNCHANGED vars
    <2>1. UNCHANGED <<incoming, wire, sent, seen, reader>>
      BY <1>3 DEF WriteOut, Break, Drained, CutStreams, Unlist, Disconnect, vars
    <2>. QED
      BY <1>1, <2>1
  <1>4. CASE TakeStream
    BY <1>1, <1>4 DEF TakeStream
  <1>5. CASE Give
    BY <1>1, <1>5, Given
  \* What is read of a channel was in the consumer's hand.
  <1>6. ASSUME NEW r \in Requests, Resume(r) \/ Poll(r) PROVE Line'
    <2>1. pc[r] \in Live /\ slot[r] # <<>>
      BY <1>6 DEF Resume, Poll, Live
    <2>2. UNCHANGED <<incoming, wire, sent>> /\ (reader' = reader \/ reader' = [state |-> "idle"])
      BY <1>6 DEF Resume, Poll
    <2>3. CASE Head(slot[r]).kind = "closed"
      <3>1. r \notin Unary
        BY <2>1, <2>3, HeadInHand
      <3>2. seen' = seen
        BY <1>6, <2>3, <3>1 DEF Resume, Poll, Inv, Kinds
      <3>. QED
        BY <1>1, <2>2, <3>2
    <2>4. CASE Head(slot[r]).kind # "closed"
      <3>1. /\ reader.state = "barrier" /\ reader.msg = Head(slot[r]) /\ reader.msg.to = r
            /\ reader.msg \in Response
        BY <2>1, <2>4, HeadInHand DEF Inserted
      <3>2. seen' = Append(seen, reader.msg.n) /\ reader' = [state |-> "idle"]
        BY <1>6, <2>4, <3>1 DEF Resume, Poll
      <3>3. reader.msg.n \in Nat /\ \A y \in Range(seen) : y < reader.msg.n
        BY <3>1 DEF Inv, Line, Response
      <3>4. EffectsInOrder' /\ Range(seen') = Range(seen) \cup {reader.msg.n}
        BY <3>2, <3>3, SeenGrows
      <3>5. Passed' \subseteq Passed
        BY <3>1, <3>2, <3>4 DEF Passed
      <3>. QED
        BY <1>0, <2>2, <3>2, <3>4, <3>5
    <2>. QED
      BY <2>3, <2>4
  <1>7. CASE ReadIn
    <2>. DEFINE m == Head(wire)
    <2>1. /\ m \in Response \cup Plain /\ 1 \in DOMAIN wire /\ m = wire[1]
          /\ \A i \in DOMAIN wire' : i + 1 \in DOMAIN wire /\ wire'[i] = wire[i + 1]
          /\ DOMAIN wire = 1..Len(wire) /\ Len(wire) \in Nat
          /\ DOMAIN wire' = 1..(Len(wire) - 1)
          /\ incoming' = Append(incoming, m)
      <3>1. /\ m \in Response \cup Plain /\ 1 \in DOMAIN wire /\ m = wire[1]
            /\ Tail(wire) \in Seq(Response \cup Plain) /\ Len(Tail(wire)) = Len(wire) - 1
            /\ \A i \in DOMAIN Tail(wire) : i + 1 \in DOMAIN wire /\ Tail(wire)[i] = wire[i + 1]
            /\ DOMAIN wire = 1..Len(wire) /\ Len(wire) \in Nat
        BY <1>7, Queues DEF ReadIn
      <3>2. wire' = Tail(wire) /\ incoming' = Append(incoming, m)
        BY <1>7 DEF ReadIn
      <3>. QED
        BY <3>1, <3>2, LenProperties
    <2>. HIDE DEF m
    <2>2. /\ Len(incoming) \in Nat /\ DOMAIN incoming = 1..Len(incoming)
          /\ DOMAIN incoming' = 1..(Len(incoming) + 1)
          /\ \A i \in DOMAIN incoming : incoming'[i] = incoming[i]
          /\ incoming'[Len(incoming) + 1] = m
      BY <2>1, Queues
    <2>3. /\ UNCHANGED <<sent, seen, reader>> /\ Passed' = Passed
      BY <1>7 DEF ReadIn, Passed
    <2>4. /\ \A i \in DOMAIN incoming' : i \in DOMAIN incoming \/ incoming'[i] = m
          /\ \A i, j \in DOMAIN incoming' : i < j => i \in DOMAIN incoming
      BY <2>2
    <2>5. /\ m.n \in Nat /\ m.n <= sent /\ \A x \in Passed : x < m.n
          /\ \A i \in DOMAIN incoming : incoming[i].n < m.n
          /\ \A j \in DOMAIN wire' : m.n < wire'[j].n
      <3>1. \A j \in DOMAIN wire' : 1 < j + 1
        BY <2>1
      <3>. QED
        BY <2>1, <3>1, Numbers DEF Inv, Line, Later, Ascending
    <2>6. Ascending(incoming')
      <3>1. ASSUME NEW i \in DOMAIN incoming', NEW j \in DOMAIN incoming', i < j
            PROVE  incoming'[i].n < incoming'[j].n
        <4>1. i \in DOMAIN incoming
          BY <2>4, <3>1
        <4>2. CASE j \in DOMAIN incoming
          BY <2>2, <3>1, <4>1, <4>2 DEF Inv, Line, Ascending
        <4>3. CASE incoming'[j] = m
          BY <2>2, <2>5, <4>1, <4>3
        <4>. QED
          BY <2>4, <4>2, <4>3
      <3>. QED
        BY <3>1 DEF Ascending
    <2>7. Ascending(wire')
      <3>1. ASSUME NEW i \in DOMAIN wire', NEW j \in DOMAIN wire', i < j
            PROVE  wire'[i].n < wire'[j].n
        <4>1. i + 1 < j + 1
          BY <2>1, <3>1
        <4>. QED
          BY <2>1, <4>1 DEF Inv, Line, Ascending
      <3>. QED
        BY <3>1 DEF Ascending
    <2>8. /\ \A x \in Passed, i \in DOMAIN incoming' : x < incoming'[i].n
          /\ \A x \in Passed, i \in DOMAIN wire' : x < wire'[i].n
      BY <2>1, <2>2, <2>4, <2>5 DEF Inv, Line, Later
    <2>9. \A i \in DOMAIN incoming', j \in DOMAIN wire' : incoming'[i].n < wire'[j].n
      BY <2>1, <2>2, <2>4, <2>5 DEF Inv, Line
    <2>10. /\ \A i \in DOMAIN incoming' : incoming'[i].n <= sent
           /\ \A i \in DOMAIN wire' : wire'[i].n <= sent
      BY <2>1, <2>2, <2>4, <2>5 DEF Inv, Line
    <2>. QED
      BY <2>3, <2>6, <2>7, <2>8, <2>9, <2>10
         DEF Inv, Line, Ascending, Later, EffectsInOrder
  <1>8. CASE Take
    <2>. DEFINE m == Head(incoming)
    <2>1. /\ m \in Response \cup Plain /\ 1 \in DOMAIN incoming /\ m = incoming[1]
          /\ \A i \in DOMAIN incoming' :
                i + 1 \in DOMAIN incoming /\ incoming'[i] = incoming[i + 1] /\ i \in Nat /\ i > 0
      <3>1. /\ m \in Response \cup Plain /\ 1 \in DOMAIN incoming /\ m = incoming[1]
            /\ Tail(incoming) \in Seq(Response \cup Plain)
            /\ \A i \in DOMAIN Tail(incoming) :
                  i + 1 \in DOMAIN incoming /\ Tail(incoming)[i] = incoming[i + 1]
        BY <1>8, Queues DEF Take
      <3>2. incoming' = Tail(incoming)
        BY <1>8 DEF Take
      <3>. QED
        BY <3>1, <3>2, LenProperties
    <2>2. /\ UNCHANGED <<wire, sent>> /\ reader.state = "idle"
          /\ \/ seen' = Append(seen, m.n) /\ reader' = reader
             \/ seen' = seen /\ reader' = reader
             \/ seen' = seen /\ reader'.state # "idle" /\ reader'.msg = m
      BY <1>8 DEF Take
    <2>. HIDE DEF m
    <2>3. /\ m.n \in Nat /\ m.n <= sent /\ \A x \in Passed : x < m.n
          /\ \A i \in DOMAIN incoming' : m.n < incoming'[i].n
          /\ \A i \in DOMAIN wire : m.n < wire[i].n
      <3>1. \A i \in DOMAIN incoming' : 1 < i + 1
        BY <2>1
      <3>. QED
        BY <2>1, <3>1, Numbers DEF Inv, Line, Later, Ascending
    <2>4. Passed = Range(seen)
      BY <2>2 DEF Passed
    <2>5. EffectsInOrder' /\ Passed' \subseteq Passed \cup {m.n} /\ Behind
      <3>1. CASE seen' = Append(seen, m.n) /\ reader' = reader
        <4>1. EffectsInOrder' /\ Range(seen') = Range(seen) \cup {m.n}
          BY <2>3, <2>4, <3>1, SeenGrows
        <4>. QED
          BY <2>2, <3>1, <4>1 DEF Passed
      <3>2. CASE seen' = seen
        <4>1. EffectsInOrder'
          BY <3>2 DEF Inv, Line, EffectsInOrder
        <4>2. reader'.state # "idle" => reader'.msg = m
          BY <2>2
        <4>. QED
          BY <2>3, <2>4, <3>2, <4>1, <4>2 DEF Passed
      <3>. QED
        BY <2>2, <3>1, <3>2
    <2>6. Ascending(incoming')
      <3>1. ASSUME NEW i \in DOMAIN incoming', NEW j \in DOMAIN incoming', i < j
            PROVE  incoming'[i].n < incoming'[j].n
        <4>1. i + 1 < j + 1
          BY <2>1, <3>1
        <4>. QED
          BY <2>1, <4>1 DEF Inv, Line, Ascending
      <3>. QED
        BY <3>1 DEF Ascending
    <2>7. /\ \A x \in Passed', i \in DOMAIN incoming' : x < incoming'[i].n
          /\ \A x \in Passed', i \in DOMAIN wire : x < wire[i].n
          /\ \A x \in Passed' : x <= sent
      BY <2>1, <2>3, <2>5 DEF Inv, Line, Later
    <2>8. /\ \A i \in DOMAIN incoming', j \in DOMAIN wire : incoming'[i].n < wire[j].n
          /\ \A i \in DOMAIN incoming' : incoming'[i].n <= sent
      BY <2>1 DEF Inv, Line
    <2>9. Later(incoming)' /\ Later(wire)' /\ Ascending(wire)'
      BY <2>2, <2>7 DEF Inv, Line, Later, Ascending
    <2>. QED
      BY <2>2, <2>5, <2>6, <2>7, <2>8, <2>9 DEF Inv, Line, Ascending
  <1>9. CASE Answer \/ Item \/ Notify
    <2>1. PICK m \in Response \cup Plain : wire' = Append(wire, m) /\ m.n = sent + 1
      BY <1>9, Said
    <2>2. sent' = sent + 1 /\ UNCHANGED <<incoming, reader, seen>>
      BY <1>9 DEF Answer, Item, Notify, Say
    <2>3. Passed' = Passed
      BY <2>2 DEF Passed
    <2>4. /\ DOMAIN wire = 1..Len(wire) /\ Len(wire) \in Nat
          /\ DOMAIN wire' = 1..(Len(wire) + 1)
          /\ \A i \in DOMAIN wire : wire'[i] = wire[i]
          /\ wire'[Len(wire) + 1] = m
      BY <2>1, Queues
    <2>5. /\ \A i \in DOMAIN wire' : i \in DOMAIN wire \/ wire'[i] = m
          /\ \A i, j \in DOMAIN wire' : i < j => i \in DOMAIN wire
      BY <2>4
    <2>6. Ascending(wire')
      <3>1. ASSUME NEW i \in DOMAIN wire', NEW j \in DOMAIN wire', i < j
            PROVE  wire'[i].n < wire'[j].n
        <4>1. i \in DOMAIN wire
          BY <2>5, <3>1
        <4>2. CASE j \in DOMAIN wire
          BY <2>4, <3>1, <4>1, <4>2 DEF Inv, Line, Ascending
        <4>3. CASE wire'[j] = m
          <5>1. wire'[i].n <= sent /\ wire'[i].n \in Nat
            BY <2>4, <4>1, Numbers DEF Inv, Line
          <5>. QED
            BY <2>1, <4>3, <5>1
        <4>. QED
          BY <2>5, <4>2, <4>3
      <3>. QED
        BY <3>1 DEF Ascending
    <2>7. /\ \A x \in Passed, i \in DOMAIN wire' : x < wire'[i].n
          /\ \A i \in DOMAIN incoming, j \in DOMAIN wire' : incoming[i].n < wire'[j].n
      <3>1. ASSUME NEW x \in Nat, x <= sent PROVE x < m.n
        BY <2>1, <3>1
      <3>2. /\ \A x \in Passed : x < m.n
            /\ \A i \in DOMAIN incoming : incoming[i].n < m.n
        BY <3>1, Numbers DEF Inv, Line
      <3>. QED
        BY <2>4, <2>5, <3>2 DEF Inv, Line, Later
    <2>8. /\ \A x \in Passed : x <= sent'
          /\ \A i \in DOMAIN incoming : incoming[i].n <= sent'
          /\ \A i \in DOMAIN wire' : wire'[i].n <= sent'
      <3>1. ASSUME NEW x \in Nat, x <= sent PROVE x <= sent'
        BY <2>2, <3>1
      <3>2. m.n <= sent'
        BY <2>1, <2>2
      <3>. QED
        BY <2>4, <2>5, <3>1, <3>2, Numbers DEF Inv, Line
    <2>9. Later(incoming)' /\ Later(wire)' /\ Ascending(incoming)'
      BY <2>2, <2>3, <2>7 DEF Inv, Line, Later, Ascending
    <2>10. Behind /\ EffectsInOrder'
      BY <2>2 DEF Inv, Line, EffectsInOrder
    <2>. QED
      BY <2>2, <2>3, <2>6, <2>7, <2>8, <2>9, <2>10 DEF Line, Ascending
  <1>. QED
    BY <1>2, <1>3, <1>4, <1>5, <1>6, <1>7, <1>8, <1>9 DEF Next, Caller, HandleIo, Consumer

-----------------------------------------------------------------------------
LEMMA InitInv == Init => Inv
  <1>. SUFFICES ASSUME Init PROVE Inv
    OBVIOUS
  <1>1. Types
    BY DEF Init, Types, Stages
  <1>2. Kinds /\ Len(incoming) <= Capacity
    <2>1. Kinds
      BY DEF Init, Kinds
    <2>2. Len(incoming) = 0
      BY DEF Init
    <2>. QED
      BY <2>1, <2>2, BoundAssumption
  <1>3. OwnSlots /\ OneInHand /\ StreamKept
    <2>1. \A r \in Requests : DOMAIN slot[r] = {}
      BY DEF Init
    <2>2. \A r \in Streams : pc[r] = "new"
      BY DEF Init, Requests
    <2>. QED
      BY <2>1, <2>2 DEF OwnSlots, OneInHand, StreamKept
  <1>4. OneShot
    <2>1. \A r \in Unary : slot[r] = <<>>
      BY DEF Init, Requests
    <2>2. Len(<<>>) = 0
      OBVIOUS
    <2>. QED
      BY <2>1, <2>2 DEF OneShot
  <1>5. Line
    <2>1. /\ DOMAIN incoming = {} /\ DOMAIN wire = {} /\ DOMAIN seen = {}
          /\ reader.state = "idle"
      BY DEF Init
    <2>2. Range(seen) = {}
      BY <2>1 DEF Range
    <2>3. Passed = {}
      BY <2>1, <2>2 DEF Passed
    <2>. QED
      BY <2>1, <2>3 DEF Line, Ascending, Later, EffectsInOrder
  <1>. QED
    BY <1>1, <1>2, <1>3, <1>4, <1>5 DEF Inv

LEMMA Invariance == Spec => []Inv
  <1>1. Inv /\ [Next]_vars => Inv'
    BY TypesStep, KindsStep, CapacityStep, OwnSlotsStep, OneInHandStep, OneShotStep,
       StreamKeptStep, LineStep DEF Inv
  <1>. QED
    BY InitInv, <1>1, PTL DEF Spec

-----------------------------------------------------------------------------
\* The maps hold requests of their kind and are empty once taken, the buffer of
\* incoming messages is not overrun, and the oneshot of a request is given one
\* response (Peer::add_connection, request_dynamic).
THEOREM PeerTypes == Spec => []TypeOK
  <1>1. ASSUME Inv PROVE TypeOK
    BY <1>1, Typed DEF TypeOK, Inv, Kinds, OneShot, Stages
  <1>. QED
    BY Invariance, <1>1, PTL

\* Responses and messages take effect in the order in which the other side sent
\* them, however many requests and streams wait: the barrier keeps the consumer
\* from the next message until the response has been seen (add_connection).
THEOREM EffectsOrdered == Spec => []EffectsInOrder
  <1>1. Inv => EffectsInOrder
    BY DEF Inv, Line
  <1>. QED
    BY Invariance, <1>1, PTL

\* A stream whose connection is closed, at whatever moment of its registration
\* or of a response, is never left without its end or an error
\* (request_stream_dynamic, the deferred clean-up of handle_io).
THEOREM StreamsAreTold == Spec => []NoSilentTruncation
  <1>1. ASSUME Inv PROVE NoSilentTruncation
    <2>1. ASSUME NEW r \in Streams, pc[r] = "streaming"
          PROVE  slot[r] # <<>> \/ r \in streams \/ Handing(r)
      <3>1. LastWord(r)
        BY <1>1, <2>1 DEF Inv, StreamKept
      <3>2. DOMAIN <<>> = {}
        OBVIOUS
      <3>. QED
        BY <3>1, <3>2 DEF LastWord, Handing
    <2>. QED
      BY <2>1 DEF NoSilentTruncation
  <1>. QED
    BY Invariance, <1>1, PTL
=============================================================================
