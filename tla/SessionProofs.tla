--------------------------- MODULE SessionProofs ---------------------------
(***************************************************************************)
(* Proofs about Sessions, for any number of messages, damaged frames and   *)
(* intervals: its types, ClosedOnBothSides, PlayersHaveConnections,        *)
(* DisconnectHasReason and RemovedOnce.                                    *)
(*                                                                         *)
(* SessionInv is inductive.  It is LinkInv of LinkProofs, that every step  *)
(* keeps because it is a step of Connection, an exception or no step of    *)
(* it, and for each side                                                   *)
(*   Resets     there is one CONNECTION_RESET, then only KEEP_ALIVEs       *)
(*   Unmanaged  nothing happens before the connection is in the map        *)
(*   Removal    where in the loop a removal may be listed                  *)
(*   Reason     what a removal and a missing connection are due to         *)
(*   Acted      a CONNECTION_RESET that has been returned is acted on      *)
(* and for the server Refusal and Events, how its events, its connection   *)
(* and the client's Player belong together.                                *)
(***************************************************************************)
EXTENDS LinkProofs, Sessions

-----------------------------------------------------------------------------
(* The connections under the managers keep the invariant of LinkProofs.    *)

\* The owners' steps that concern no frame: an exception, or the end of a
\* ReceiveMessage that has found nothing.
LEMMA LinkKept ==
  ASSUME LinkInv, TypeOK', NoProtocolException',
         UNCHANGED <<state, sequence_counter, last_send_sequence,
                     last_received_sequence_counter,
                     unacknowledged_sent_message, send_message_queue,
                     receive_message_queue, stream, sent, delivered>>
  PROVE  LinkInv'
<1>1. IInv /\ LinkRest /\ ListShape
  BY DEF LinkInv, IInv
<1>2. IInv'
  BY <1>1, AllUnchanged DEF IInv
<1>3. PICK read \in [Sides -> 0 .. 2] : LinkParts(read)
  BY <1>1 DEF LinkRest
<1>4. ASSUME NEW t \in Sides
      PROVE  Flow(t, read[t])' /\ Streamed(t)' /\ InOrder(t, read[t])'
  <2>1. Flow(t, read[t]) /\ Streamed(t) /\ InOrder(t, read[t])
    BY <1>3 DEF LinkParts, SideInv
  <2>2. read[t] \in 0 .. 2 /\ Peer(t) \in Sides
    BY PeerType
  <2> QED BY <1>1, <2>1, <2>2, FlowUnchanged, StreamedUnchanged, InOrderUnchanged
<1>5. LinkParts(read)'
  BY <1>3, <1>4, PartsUnchanged
<1> QED BY <1>2, <1>5 DEF LinkInv, LinkRest

LEMMA LinkFails ==
  ASSUME LinkInv, NEW s \in Sides,
         NEW what \in {"UnknownPartnerException", "AssertionFailed", "Killed"},
         Fail(s, what)
  PROVE  LinkInv'
<1>1. TypeOK /\ NoProtocolException
  BY DEF LinkInv, IInv, LinkRest
<1>2. TypeOK'
  BY <1>1 DEF Fail, TypeOK
<1>3. NoProtocolException'
  BY <1>1 DEF Fail, TypeOK, NoProtocolException
<1> QED BY <1>2, <1>3, LinkKept DEF Fail

LEMMA LinkNext == ASSUME LinkInv, [Next]_vars PROVE LinkInv'
  BY NextLink

LEMMA SendOnConnectionLink ==
  ASSUME LinkInv, NEW s \in Sides,
         NEW type \in {"PAYLOAD", "KEEP_ALIVE", "CONNECTION_RESET"},
         SendOnConnection(s, type)
  PROVE  LinkInv'
<1>1. CASE UNCHANGED connectionVars
  BY <1>1, LinkNext DEF connectionVars
<1>2. CASE Fail(s, "AssertionFailed")
  BY <1>2, LinkFails
<1>3. CASE \E elapsed \in BOOLEAN : SendMessage(s, type, elapsed)
  <2>1. Next
    BY <1>3, SessionAssumption DEF Next
  <2> QED BY <2>1, LinkNext
<1> QED BY <1>1, <1>2, <1>3 DEF SendOnConnection

LEMMA SendMessageToConnectionLink ==
  ASSUME LinkInv, NEW s \in Sides,
         NEW type \in {"PAYLOAD", "KEEP_ALIVE", "CONNECTION_RESET"},
         SendMessageToConnection(s, type)
  PROVE  LinkInv'
  BY SendOnConnectionLink, LinkFails DEF SendMessageToConnection

LEMMA HandleAllLink ==
  ASSUME LinkInv, NEW s \in Sides, HandleAll(s)
  PROVE  LinkInv'
<1>1. CASE UNCHANGED connectionVars
  BY <1>1, LinkNext DEF connectionVars
<1>2. CASE \E elapsed \in BOOLEAN : Handle(s, elapsed)
  BY <1>2, LinkNext DEF Next
<1> QED BY <1>1, <1>2 DEF HandleAll

LEMMA ManagerStepLink ==
  ASSUME LinkInv, NEW s \in Sides, ManagerStep(s)
  PROVE  LinkInv'
<1>1. CASE UNCHANGED connectionVars
  BY <1>1, LinkNext DEF connectionVars
<1>2. CASE ReceivingMessage(s)
  <2>1. Next
    BY <1>2 DEF ReceivingMessage, Next
  <2> QED BY <2>1, LinkNext
<1>3. CASE MessageReturned(s)
  <2>1. Next
    BY <1>3 DEF MessageReturned, Next, Return
  <2> QED BY <2>1, LinkNext
<1>4. CASE NoMessageReturned(s)
  <2>1. TypeOK /\ NoProtocolException
    BY DEF LinkInv, IInv, LinkRest
  <2>2. TypeOK'
    BY <1>4, <2>1 DEF NoMessageReturned, TypeOK
  <2>3. NoProtocolException'
    BY <1>4, <2>1 DEF NoMessageReturned, NoProtocolException
  <2> QED BY <1>4, <2>2, <2>3, LinkKept DEF NoMessageReturned
<1>5. CASE CheckConnection(s)
  BY <1>1, <1>5, SendOnConnectionLink DEF CheckConnection
<1>6. CASE RemoveConnections(s)
  BY <1>1, <1>6, LinkFails DEF RemoveConnections
<1> QED BY <1>1, <1>2, <1>3, <1>4, <1>5, <1>6 DEF ManagerStep, AddConnection

LEMMA SessionLink == ASSUME LinkInv, [SessionNext]_allVars PROVE LinkInv'
<1>1. CASE UNCHANGED connectionVars
  BY <1>1, LinkNext DEF connectionVars
<1>2. ASSUME NEW s \in Sides, Establish(s) PROVE LinkInv'
  <2>1. Next
    BY <1>2 DEF Establish, Next
  <2> QED BY <2>1, LinkNext
<1>3. ASSUME NEW s \in Sides, Greet(s) PROVE LinkInv'
  BY <1>1, <1>3, SendMessageToConnectionLink DEF Greet
<1>4. ASSUME NEW s \in Sides, ManagerStep(s) PROVE LinkInv'
  BY <1>4, ManagerStepLink
<1>5. CASE ClientLoop
  BY <1>1, <1>5, HandleAllLink DEF ClientLoop, ClientHandles,
                                   ClientHandlesEvent, Sides
<1>6. CASE ServerLoop
  <2>1. CASE ServerHandlesEvents
    BY <1>1, <2>1, SendMessageToConnectionLink
       DEF ServerHandlesEvents, ServerConnectEvent, ServerDisconnectEvent,
           ServerPayloadEvent, Sides
  <2> QED BY <1>1, <1>6, <2>1, HandleAllLink
          DEF ServerLoop, ServerStarts, ServerHandles, Sides
<1>7. ASSUME NEW s \in Sides, Damage(s) PROVE LinkInv'
  <2>1. Next
    BY <1>7 DEF Damage, Next
  <2> QED BY <2>1, LinkNext
<1>8. ASSUME NEW s \in Sides, TimePasses(s) PROVE LinkInv'
  BY <1>1, <1>8 DEF TimePasses, Tick
<1>9. ASSUME NEW s \in Sides, Kill(s) PROVE LinkInv'
  BY <1>9, LinkFails DEF Kill
<1>10. CASE ClientSendsChange
  BY <1>10, SendMessageToConnectionLink DEF ClientSendsChange, Sides
<1>11. CASE ClientExits
  BY <1>11, SendMessageToConnectionLink DEF ClientExits, Sides
<1>12. CASE ServerSendsWorld
  BY <1>12, SendOnConnectionLink, LinkFails DEF ServerSendsWorld, Sides
<1>13. CASE UNCHANGED allVars
  BY <1>1, <1>13 DEF allVars
<1> QED BY <1>2, <1>3, <1>4, <1>5, <1>6, <1>7, <1>8, <1>9, <1>10, <1>11,
           <1>12, <1>13 DEF SessionNext, Loop

-----------------------------------------------------------------------------
(* The parts of the invariant. *)

\* The side has closed its connection, and its reset has left the send queue.
Final == {"WAITING_FOR_CONNECTION_RESET_ACKNOWLEDGE", "CLOSED"}

\* The owner of s has called CloseConnection.
Closes(s) == IF s = "client" THEN exiting ELSE refused

IsReset(message) == message.type = "CONNECTION_RESET"

\* The peer's owner has got everything that has left the send queue of s.
AllReturned(s) == Len(delivered[Peer(s)]) = Left(s)

\* In the queue "queue" only KEEP_ALIVEs come after a CONNECTION_RESET, and
\* once that has been sent only they are left.
LastReset(queue, status) ==
  /\ \A j, k \in 1 .. Len(queue) :
       j < k /\ IsReset(queue[j]) => queue[k].type = "KEEP_ALIVE"
  /\ status \in Final =>
       \A k \in 1 .. Len(queue) : queue[k].type = "KEEP_ALIVE"

\* There is one CONNECTION_RESET, after the owner has closed: in the queue,
\* or sent, as the message the side waits for.
Resets(s) ==
  /\ LastReset(send_message_queue[s], state[s])
  /\ state[s] \in Final => Left(s) > 0
  /\ \/ Closes(s)
     \/ /\ state[s] \notin Final
        /\ \A k \in 1 .. Len(send_message_queue[s]) :
             ~IsReset(send_message_queue[s][k])
  /\ state[s] \in Waiting =>
       \A k \in 1 .. Len(unacknowledged_sent_message[s]) :
         ~IsAck(unacknowledged_sent_message[s][k]) =>
           (IsReset(unacknowledged_sent_message[s][k]) <=> state[s] \in Final)

\* Before a side is in its map nothing is sent, returned or closed.
Unmanaged(s) ==
  phase[s] = "establish" =>
    /\ ~Managed(s) /\ ~Closes(s)
    /\ state[s] \notin Waiting \cup {"CLOSED"}
    /\ delivered[s] = <<>> /\ sent[s] = 0

\* Where in the loop a removal may be listed and a closed connection may
\* still be in the map; "fresh": something has been returned just before.
Removal(s) ==
  /\ connection_remove_list[s] > 0 => phase[s] \in {"receive", "check", "remove"}
  /\ Managed(s) /\ state[s] = "CLOSED" =>
       \/ phase[s] \in {"receive", "check"} /\ timestamp_last_received[s] = "fresh"
       \/ phase[s] = "remove" /\ connection_remove_list[s] > 0
  /\ phase[s] = "greet" => ~Closes(s)

\* s has sent its CONNECTION_RESET and the peer's owner has got it.
Settled(s) == state[s] \in Final /\ AllReturned(s)

\* A listed removal has a reason.  Until the checks it is that the peer's
\* CONNECTION_RESET has been returned.
Reason(s) ==
  /\ phase[s] \in {"receive", "check"} /\ connection_remove_list[s] > 0 =>
       /\ connection_remove_list[s] = 1
       /\ timestamp_last_received[s] = "fresh"
       /\ Settled(Peer(s))
  /\ connection_remove_list[s] > 0 =>
       exiting \/ refused \/ timestamp_last_received[s] = "late"
  /\ connection_remove_list[s] > 1 => exiting /\ refused
  /\ phase[s] # "establish" /\ ~Managed(s) =>
       exiting \/ refused \/ timestamp_last_received[s] = "late"

\* The peer acts on a CONNECTION_RESET that has been returned to it.
Acted(s) ==
  Settled(s) =>
    ~Managed(Peer(s)) \/ connection_remove_list[Peer(s)] > 0

\* The server has sent nothing before it has handled CONNECT; the connection
\* of a client it refuses is READY then.
Unanswered == /\ event_queue["server"] # <<>>
              /\ event_queue["server"][1] = "CONNECT"
Refusal ==
  /\ Unanswered =>
       /\ sent["server"] = 0 /\ state["server"] = "READY"
       /\ phase["server"] \in {"receive", "check"} =>
            timestamp_last_received["server"] = "fresh"
  /\ refused => state["server"] \in Final \/ ~Managed("server")

Queues(event) ==
  \E k \in 1 .. Len(event_queue["server"]) : event_queue["server"][k] = event

\* What the server has heard of its client: nothing, a CONNECT it has not
\* handled, or something after that.
Events ==
  /\ phase["server"] = "owner" => event_queue["server"] = <<>>
  /\ phase["server"] = "establish" =>
       event_queue["server"] = <<>> /\ ~player /\ ~refused
  /\ Unanswered =>
       /\ phase["server"] \in {"receive", "check", "remove", "handle", "events"}
       /\ ~player /\ ~refused
       /\ Managed("server") <=> ~Queues("DISCONNECT")
  /\ \A k \in 2 .. Len(event_queue["server"]) : event_queue["server"][k] # "CONNECT"
  /\ ~Unanswered /\ phase["server"] # "establish" =>
       /\ Managed("server") => ~Queues("DISCONNECT") /\ (player \/ refused)
       /\ ~Managed("server") /\ player => Queues("DISCONNECT")

SideOK(s) == /\ Resets(s) /\ Unmanaged(s) /\ Removal(s) /\ Reason(s)
             /\ Acted(s)

SessionInv ==
  /\ SessionTypeOK /\ LinkInv
  /\ \A s \in Sides : SideOK(s)
  /\ Refusal /\ Events

-----------------------------------------------------------------------------
(* What the steps of a connection do to what the invariant speaks of. *)

\* The other side is not concerned, except that its messages are returned.
OnlyFor(s) ==
  \A t \in Sides \ {s} :
    /\ state'[t] = state[t] /\ sent'[t] = sent[t]
    /\ send_message_queue'[t] = send_message_queue[t]
    /\ unacknowledged_sent_message'[t] = unacknowledged_sent_message[t]
    /\ delivered'[t] = delivered[t]

Still == UNCHANGED <<state, sent, send_message_queue,
                     unacknowledged_sent_message, delivered>>

\* s has sent the next message or has had none to send.
Sends(s) ==
  /\ OnlyFor(s) /\ UNCHANGED delivered
  /\ \/ state'[s] = state[s] /\ Left(s)' = Left(s)
     \/ /\ state[s] = "READY" /\ state'[s] \in Waiting
        /\ Left(s)' = Left(s) + 1

LEMMA SideTypes ==
  ASSUME LinkInv, NEW s \in Sides
  PROVE  /\ Left(s) \in Nat /\ Len(send_message_queue[s]) \in Nat
         /\ sent[s] \in Nat /\ Peer(s) \in Sides /\ Peer(s) # s
         /\ Peer(Peer(s)) = s
         /\ send_message_queue[s] \in Seq(Queued)
         /\ \A t \in Sides : t = s \/ t = Peer(s)
         /\ state[s] \in ConnectionState
         /\ delivered[s] \in Seq(Nat) /\ Len(delivered[s]) \in Nat
<1>1. PICK read \in [Sides -> 0 .. 2] : LinkParts(read)
  BY DEF LinkInv, LinkRest
<1>2. InOrder(s, read[s])
  BY <1>1 DEF LinkParts, SideInv
<1>3. IInv /\ TypeOK
  BY DEF LinkInv, IInv
<1>4. send_message_queue[s] \in Seq(Queued) /\ delivered[s] \in Seq(Nat)
  BY <1>3 DEF TypeOK
<1>5. \A t \in Sides : t = s \/ t = Peer(s)
  BY DEF Sides, Peer
<1> QED BY <1>2, <1>3, <1>4, <1>5, FlowTypes DEF InOrder

LEMMA AllReturnedWhen ==
  ASSUME LinkInv, NEW s \in Sides, state[s] \in {"READY", "CLOSED"}
  PROVE  AllReturned(s)
<1>1. delivered[Peer(s)] = [n \in 1 .. Left(s) |-> n]
  BY LinkDelivers DEF ReadyMeansDelivered, Left
<1>2. Left(s) \in Nat
  BY SideTypes
<1> QED BY <1>1, <1>2 DEF AllReturned

LEMMA HandleQueueEffect ==
  ASSUME LinkInv, NEW s \in Sides, NEW queue \in Seq(Queued),
         NEW elapsed \in BOOLEAN, HandleQueue(s, queue, elapsed),
         sent' \in [Sides -> Nat], \A t \in Sides \ {s} : sent'[t] = sent[t],
         sent'[s] - Len(queue) = Left(s)
  PROVE  /\ Sends(s)
         /\ \/ /\ state'[s] = state[s]
               /\ send_message_queue'[s] = queue
               /\ unacknowledged_sent_message'[s] = unacknowledged_sent_message[s]
            \/ /\ state[s] = "READY" /\ queue # <<>>
               /\ state'[s] = AwaitingState(Head(queue).type)
               /\ send_message_queue'[s] = Tail(queue)
               /\ \A k \in 1 .. Len(unacknowledged_sent_message'[s]) :
                    ~IsAck(unacknowledged_sent_message'[s][k]) =>
                      unacknowledged_sent_message'[s][k].type = Head(queue).type
<1> DEFINE list == unacknowledged_sent_message[s]
           frame == Stamped(s, Head(queue).type, 0, Head(queue).payload)
<1>1. IInv /\ TypeOK /\ ShapeInState(s)
  BY DEF LinkInv, IInv, ListShape
<1>2. UNCHANGED delivered
  BY DEF HandleQueue
<1>3. OnlyFor(s)
  BY <1>1 DEF HandleQueue, SendMessageNow, OnlyFor, TypeOK
<1>4. CASE /\ MaySendNext(s, queue)
           /\ SendMessageNow(s, frame,
                             IF elapsed THEN list ELSE <<>>, list)
           /\ send_message_queue' = [send_message_queue EXCEPT ![s] = Tail(queue)]
           /\ state' = [state EXCEPT ![s] = AwaitingState(Head(queue).type)]
  <2>1. state[s] = "READY" /\ queue # <<>>
    BY <1>4 DEF MaySendNext
  <2>2. /\ state'[s] = AwaitingState(Head(queue).type)
        /\ send_message_queue'[s] = Tail(queue)
        /\ unacknowledged_sent_message'[s] = Append(list, frame)
    BY <1>1, <1>4 DEF TypeOK, SendMessageNow
  <2>3. frame.type = Head(queue).type
    BY DEF Stamped
  <2>4. list \in Seq(Frame) /\ \A k \in 1 .. Len(list) : IsAck(list[k])
    BY <1>1, <2>1, IInvImpliesOneOutstanding DEF TypeOK, OneOutstanding
  <2>5. \A k \in 1 .. Len(Append(list, frame)) :
          ~IsAck(Append(list, frame)[k]) =>
            Append(list, frame)[k].type = Head(queue).type
    <3> HIDE DEF frame, list
    <3> SUFFICES ASSUME NEW k \in 1 .. Len(Append(list, frame)),
                        ~IsAck(Append(list, frame)[k])
                 PROVE  Append(list, frame)[k].type = Head(queue).type
      OBVIOUS
    <3>1. Len(Append(list, frame)) = Len(list) + 1 /\ Len(list) \in Nat
      BY <2>4
    <3>2. CASE k \in 1 .. Len(list)
      BY <2>4, <3>2
    <3>3. CASE k = Len(list) + 1
      BY <2>3, <2>4, <3>3
    <3> QED BY <3>1, <3>2, <3>3
  <2>6. Len(Tail(queue)) = Len(queue) - 1
    BY <2>1
  <2>7. Left(s)' = Left(s) + 1
    <3>1. sent'[s] \in Nat /\ Len(queue) \in Nat
      OBVIOUS
    <3> QED BY <2>2, <2>6, <3>1 DEF Left
  <2>8. state'[s] \in Waiting
    BY <2>2 DEF AwaitingState, Waiting
  <2> QED BY <1>2, <1>3, <2>1, <2>2, <2>5, <2>7, <2>8 DEF Sends
<1>5. CASE /\ send_message_queue' = [send_message_queue EXCEPT ![s] = queue]
           /\ UNCHANGED <<state, unacknowledged_sent_message>>
  <2>1. send_message_queue'[s] = queue
    BY <1>1, <1>5 DEF TypeOK
  <2>2. Left(s)' = Left(s)
    BY <2>1 DEF Left
  <2> QED BY <1>2, <1>3, <1>5, <2>1, <2>2 DEF Sends
<1> QED BY <1>4, <1>5 DEF HandleQueue

LEMMA ResetsSame ==
  ASSUME NEW t \in Sides, Resets(t), state'[t] = state[t], sent'[t] = sent[t],
         send_message_queue'[t] = send_message_queue[t],
         unacknowledged_sent_message'[t] = unacknowledged_sent_message[t],
         Closes(t) => Closes(t)'
  PROVE  Resets(t)'
<1>1. Left(t)' = Left(t)
  BY DEF Left
<1> QED BY <1>1 DEF Resets

LEMMA HandleResets ==
  ASSUME LinkInv, NEW s \in Sides, NEW queue \in Seq(Queued),
         NEW elapsed \in BOOLEAN, HandleQueue(s, queue, elapsed),
         sent' \in [Sides -> Nat], \A t \in Sides \ {s} : sent'[t] = sent[t],
         sent'[s] - Len(queue) = Left(s),
         Resets(s), LastReset(queue, state[s]),
         \/ Closes(s)'
         \/ /\ state[s] \notin Final
            /\ \A k \in 1 .. Len(queue) : ~IsReset(queue[k])
  PROVE  Resets(s)'
<1>1. CASE /\ state'[s] = state[s]
           /\ send_message_queue'[s] = queue
           /\ unacknowledged_sent_message'[s] = unacknowledged_sent_message[s]
  <2>1. Left(s)' = Left(s)
    BY <1>1 DEF Left
  <2> QED BY <1>1, <2>1 DEF Resets
<1>2. CASE /\ state[s] = "READY" /\ queue # <<>>
           /\ state'[s] = AwaitingState(Head(queue).type)
           /\ send_message_queue'[s] = Tail(queue)
           /\ \A k \in 1 .. Len(unacknowledged_sent_message'[s]) :
                ~IsAck(unacknowledged_sent_message'[s][k]) =>
                  unacknowledged_sent_message'[s][k].type = Head(queue).type
  <2>1. /\ Left(s) \in Nat /\ Left(s)' = Left(s) + 1
    <3>1. Sends(s)
      BY HandleQueueEffect
    <3>2. state'[s] # state[s]
      BY <1>2 DEF AwaitingState
    <3> QED BY <3>1, <3>2, SideTypes DEF Sends
  <2>2. /\ Head(queue) = queue[1] /\ 1 \in 1 .. Len(queue)
        /\ Len(Tail(queue)) = Len(queue) - 1
        /\ \A k \in 1 .. Len(Tail(queue)) :
             Tail(queue)[k] = queue[k + 1] /\ k + 1 \in 1 .. Len(queue)
    BY <1>2
  <2>3. state'[s] \in Final <=> IsReset(queue[1])
    BY <1>2, <2>2 DEF AwaitingState, Final, IsReset
  <2>4. LastReset(Tail(queue), state'[s])
    <3>1. \A j, k \in 1 .. Len(queue) :
            j < k /\ IsReset(queue[j]) => queue[k].type = "KEEP_ALIVE"
      BY DEF LastReset
    <3>2. ASSUME NEW j \in 1 .. Len(Tail(queue)),
                 NEW k \in 1 .. Len(Tail(queue)), j < k,
                 IsReset(Tail(queue)[j])
          PROVE  Tail(queue)[k].type = "KEEP_ALIVE"
      BY <2>2, <3>1, <3>2
    <3>3. ASSUME state'[s] \in Final, NEW k \in 1 .. Len(Tail(queue))
          PROVE  Tail(queue)[k].type = "KEEP_ALIVE"
      <4>1. 1 < k + 1 /\ k + 1 \in 1 .. Len(queue)
        BY <2>2
      <4> QED BY <2>2, <2>3, <3>1, <3>3, <4>1
    <3> QED BY <3>2, <3>3 DEF LastReset
  <2>5. \/ Closes(s)'
        \/ /\ state'[s] \notin Final
           /\ \A k \in 1 .. Len(Tail(queue)) : ~IsReset(Tail(queue)[k])
    BY <2>2, <2>3
  <2>6. \A k \in 1 .. Len(unacknowledged_sent_message'[s]) :
          ~IsAck(unacknowledged_sent_message'[s][k]) =>
            (IsReset(unacknowledged_sent_message'[s][k])
               <=> state'[s] \in Final)
    BY <1>2, <2>2, <2>3 DEF IsReset
  <2> QED BY <1>2, <2>1, <2>4, <2>5, <2>6 DEF Resets
<1> QED BY <1>1, <1>2, HandleQueueEffect

LEMMA HandleEffect ==
  ASSUME LinkInv, NEW s \in Sides, NEW elapsed \in BOOLEAN, Handle(s, elapsed),
         Resets(s), UNCHANGED <<exiting, refused>>
  PROVE  Sends(s) /\ Resets(s)' /\ sent' = sent
<1>1. /\ HandleQueue(s, send_message_queue[s], elapsed) /\ sent' = sent
      /\ send_message_queue[s] \in Seq(Queued) /\ sent \in [Sides -> Nat]
  BY SideTypes DEF Handle, LinkInv, IInv, TypeOK
<1>2. sent'[s] - Len(send_message_queue[s]) = Left(s)
  BY <1>1 DEF Left
<1>3. Closes(s)' <=> Closes(s)
  BY DEF Closes
<1> QED BY <1>1, <1>2, <1>3, HandleQueueEffect, HandleResets DEF Resets

LEMMA SendMessageEffect ==
  ASSUME LinkInv, NEW s \in Sides,
         NEW type \in {"PAYLOAD", "KEEP_ALIVE", "CONNECTION_RESET"},
         NEW elapsed \in BOOLEAN, SendMessage(s, type, elapsed), Resets(s),
         type # "KEEP_ALIVE" => ~Closes(s),
         Closes(s) \/ type = "CONNECTION_RESET" => Closes(s)'
  PROVE  Sends(s) /\ Resets(s)'
<1> DEFINE queue == send_message_queue[s]
           new == [type |-> type, payload |-> sent[s] + 1]
           longer == Append(queue, new)
<1>1. /\ state[s] \in {"READY", "WAITING_FOR_ACKNOWLEDGE"}
      /\ sent' = [sent EXCEPT ![s] = @ + 1]
      /\ HandleQueue(s, longer, elapsed)
  BY DEF SendMessage
<1>2. /\ queue \in Seq(Queued) /\ sent \in [Sides -> Nat]
      /\ Len(queue) \in Nat
  BY SideTypes DEF LinkInv, IInv, TypeOK
<1>3. new \in Queued
  BY <1>2, SessionAssumption DEF Queued
<1>4. /\ longer \in Seq(Queued) /\ Len(longer) = Len(queue) + 1
      /\ \A k \in 1 .. Len(queue) : longer[k] = queue[k]
      /\ longer[Len(queue) + 1] = new
  BY <1>2, <1>3
<1>5. /\ sent' \in [Sides -> Nat] /\ \A t \in Sides \ {s} : sent'[t] = sent[t]
      /\ sent'[s] - Len(longer) = Left(s)
  BY <1>1, <1>2, <1>4 DEF Left
<1>6. state[s] \notin Final
  BY <1>1 DEF Final
<1>7. new.type = type
  OBVIOUS
<1> HIDE DEF new, longer, queue
<1>8. Closes(s) \/ \A k \in 1 .. Len(queue) : ~IsReset(queue[k])
  BY DEF Resets, queue
<1>9. LastReset(longer, state[s])
  <2>1. ASSUME NEW j \in 1 .. Len(longer), NEW k \in 1 .. Len(longer), j < k,
               IsReset(longer[j])
        PROVE  longer[k].type = "KEEP_ALIVE"
    <3>1. j \in 1 .. Len(queue) /\ IsReset(queue[j])
      BY <1>2, <1>4, <2>1
    <3>2. type = "KEEP_ALIVE"
      BY <1>8, <3>1
    <3>3. CASE k \in 1 .. Len(queue)
      <4>1. longer[k] = queue[k]
        BY <1>4, <3>3
      <4> QED BY <2>1, <3>1, <3>3, <4>1 DEF Resets, LastReset, queue
    <3>4. CASE k = Len(queue) + 1
      BY <1>4, <1>7, <3>2, <3>4
    <3> QED BY <1>2, <1>4, <3>3, <3>4
  <2> QED BY <1>6, <2>1 DEF LastReset
<1>10. Closes(s)' \/ \A k \in 1 .. Len(longer) : ~IsReset(longer[k])
  <2> SUFFICES ASSUME ~Closes(s)', NEW k \in 1 .. Len(longer)
               PROVE  ~IsReset(longer[k])
    OBVIOUS
  <2>1. CASE k \in 1 .. Len(queue)
    BY <1>4, <1>8, <2>1
  <2>2. CASE k = Len(queue) + 1
    BY <1>4, <1>7, <2>2 DEF IsReset
  <2> QED BY <1>2, <1>4, <2>1, <2>2
<1> QED BY <1>1, <1>4, <1>5, <1>6, <1>9, <1>10, HandleQueueEffect, HandleResets

\* What is sent when nothing is closed or only a KEEP_ALIVE is sent.
LEMMA SendOnConnectionEffect ==
  ASSUME LinkInv, NEW s \in Sides,
         NEW type \in {"PAYLOAD", "KEEP_ALIVE", "CONNECTION_RESET"},
         SendOnConnection(s, type), Resets(s),
         type # "KEEP_ALIVE" => ~Closes(s),
         Closes(s) \/ type = "CONNECTION_RESET" => Closes(s)'
  PROVE  Sends(s) /\ Resets(s)'
<1>1. CASE Still
  <2>1. Resets(s)'
    BY <1>1, ResetsSame DEF Still
  <2> QED BY <1>1, <2>1 DEF Still, Sends, OnlyFor, Left
<1>2. CASE \E elapsed \in BOOLEAN : SendMessage(s, type, elapsed)
  BY <1>2, SendMessageEffect
<1> QED BY <1>1, <1>2
        DEF SendOnConnection, Fail, Still, connectionVars, vars

LEMMA SendMessageToConnectionEffect ==
  ASSUME LinkInv, NEW s \in Sides,
         NEW type \in {"PAYLOAD", "KEEP_ALIVE", "CONNECTION_RESET"},
         SendMessageToConnection(s, type), Resets(s),
         type # "KEEP_ALIVE" => ~Closes(s),
         Closes(s) \/ type = "CONNECTION_RESET" => Closes(s)'
  PROVE  Sends(s) /\ Resets(s)'
<1>1. CASE Still
  <2>1. Resets(s)'
    BY <1>1, ResetsSame DEF Still
  <2> QED BY <1>1, <2>1 DEF Still, Sends, OnlyFor, Left
<1> QED BY <1>1, SendOnConnectionEffect DEF SendMessageToConnection, Fail, Still

LEMMA HandleAllEffect ==
  ASSUME LinkInv, NEW s \in Sides, HandleAll(s), Resets(s),
         UNCHANGED <<exiting, refused>>
  PROVE  Sends(s) /\ Resets(s)' /\ sent' = sent
<1>1. CASE Still
  <2>1. Resets(s)'
    BY <1>1, ResetsSame DEF Still, Closes
  <2> QED BY <1>1, <2>1 DEF Still, Sends, OnlyFor, Left
<1> QED BY <1>1, HandleEffect DEF HandleAll, Still, connectionVars, vars

\* BlockingEstablish ends in READY; nothing is returned to the owner.
LEMMA EstablishEffect ==
  ASSUME LinkInv, NEW s \in Sides, Establish(s), Unmanaged(s), Resets(s)
  PROVE  /\ OnlyFor(s) /\ UNCHANGED <<sent, send_message_queue, delivered>>
         /\ phase[s] = "establish"
         /\ state'[s] \notin Waiting \cup {"CLOSED"}
         /\ Resets(s)'
         /\ UNCHANGED <<managerVars, ownerVars>>
<1>1. /\ phase[s] = "establish" /\ state[s] \notin OpenStates \cup {"CLOSED"}
      /\ state[s] \notin Waiting \cup {"CLOSED"}
      /\ UNCHANGED <<managerVars, ownerVars>>
  BY DEF Establish, Unmanaged, OpenStates, Waiting
<1>2. TypeOK
  BY DEF LinkInv, IInv
<1>3. /\ OnlyFor(s) /\ UNCHANGED <<sent, send_message_queue, delivered>>
      /\ state' = state \/ \E next \in ConnectionState \ (Waiting \cup {"CLOSED"}) :
                             state' = [state EXCEPT ![s] = next]
  <2> USE DEF ConnectionState, Waiting, OnlyFor
  <2>1. CASE ClientSendsRequest(s)
    BY <1>2, <2>1 DEF ClientSendsRequest, SendMessageNow, TypeOK
  <2>2. CASE HandshakeResend(s) \/ HandshakeTimeout(s)
    BY <2>2 DEF HandshakeResend, HandshakeTimeout
  <2>3. CASE TryReceive(s)
    BY <2>3 DEF TryReceive, TryReceiveDamaged, TryReceiveNack, TryReceiveMessage
  <2>4. CASE ReceiveNothing(s)
    BY <2>4 DEF ReceiveNothing
  <2>5. CASE ClientReceivesResponse(s)
    BY <1>2, <2>5 DEF ClientReceivesResponse, SendMessageNow, Throw, TypeOK
  <2>6. CASE ServerReceivesRequest(s)
    BY <1>2, <2>6 DEF ServerReceivesRequest, SendMessageNow, Throw, TypeOK
  <2>7. CASE ServerReceivesAcknowledge(s)
    BY <1>2, <2>7 DEF ServerReceivesAcknowledge, Throw, TypeOK
  <2>8. ~ReceiveAcknowledge(s) /\ ~ReceiveOther(s)
    BY <1>1 DEF ReceiveAcknowledge, ReceiveOther
  <2> QED BY <2>1, <2>2, <2>3, <2>4, <2>5, <2>6, <2>7, <2>8
          DEF Establish, Return
<1>4. state'[s] \notin Waiting \cup {"CLOSED"}
  BY <1>1, <1>2, <1>3 DEF TypeOK
<1>5. Resets(s)'
  <2>1. state'[s] \notin Final /\ state[s] \notin Final
    BY <1>1, <1>4 DEF Final, Waiting
  <2>2. Closes(s)' <=> Closes(s)
    BY <1>1 DEF Closes, ownerVars
  <2> QED BY <1>3, <1>4, <2>1, <2>2 DEF Resets, LastReset
<1> QED BY <1>1, <1>3, <1>4, <1>5

\* An acknowledge is not a message for the owner.
LEMMA AcknowledgeEffect ==
  ASSUME LinkInv, NEW s \in Sides, ReceiveAcknowledge(s), Resets(s),
         UNCHANGED <<exiting, refused>>
  PROVE  /\ OnlyFor(s) /\ UNCHANGED <<sent, send_message_queue, delivered>>
         /\ \/ state'[s] = state[s]
            \/ state[s] \in Final /\ state'[s] = "CLOSED"
            \/ state[s] = "WAITING_FOR_ACKNOWLEDGE" /\ state'[s] = "READY"
         /\ Resets(s)'
<1>1. TypeOK
  BY DEF LinkInv, IInv
<1>2. OnlyFor(s) /\ UNCHANGED <<sent, send_message_queue, delivered>>
  BY <1>1 DEF ReceiveAcknowledge, Throw, OnlyFor, TypeOK
<1>3. \/ UNCHANGED <<state, unacknowledged_sent_message>>
      \/ state[s] \in Final /\ state'[s] = "CLOSED"
      \/ state[s] = "WAITING_FOR_ACKNOWLEDGE" /\ state'[s] = "READY"
  BY <1>1 DEF ReceiveAcknowledge, Throw, AckExpected, TypeOK, Final
<1>4. Closes(s)' <=> Closes(s)
  BY DEF Closes
<1>5. Resets(s)'
  <2>1. CASE UNCHANGED <<state, unacknowledged_sent_message>>
    BY <1>2, <1>4, <2>1, ResetsSame
  <2>2. Left(s)' = Left(s)
    BY <1>2 DEF Left
  <2>3. CASE state[s] \in Final /\ state'[s] = "CLOSED"
    BY <1>2, <1>4, <2>2, <2>3 DEF Resets, LastReset, Final, Waiting
  <2>4. CASE state[s] = "WAITING_FOR_ACKNOWLEDGE" /\ state'[s] = "READY"
    BY <1>2, <1>4, <2>4 DEF Resets, LastReset, Final, Waiting
  <2> QED BY <1>3, <2>1, <2>3, <2>4
<1> QED BY <1>2, <1>3, <1>5

LEMMA WithoutAcksKeeps ==
  ASSUME NEW s \in Sides, IInv, state[s] \in Waiting
  PROVE  \E k \in 1 .. Len(unacknowledged_sent_message[s]) :
           WithoutAcks(unacknowledged_sent_message[s]) =
             <<unacknowledged_sent_message[s][k]>>
<1>1. OnlyMessage(s) \/ AckThenMessage(s) \/ MessageThenAck(s)
  BY DEF IInv, ListShape, ShapeInState, Waiting
<1>2. CASE OnlyMessage(s)
  <2>1. PICK m \in Frame :
          unacknowledged_sent_message[s] = <<m>> /\ ~IsAck(m)
    BY <1>2 DEF OnlyMessage, Awaited
  <2>2. WithoutAcks(<<m>>) = <<m>> /\ Len(<<m>>) = 1 /\ <<m>>[1] = m
    BY <2>1, WithoutAcksOne
  <2> QED BY <2>1, <2>2
<1>3. CASE AckThenMessage(s)
  <2>1. PICK a \in Frame, m \in Frame :
          unacknowledged_sent_message[s] = <<a, m>> /\ IsAck(a) /\ ~IsAck(m)
    BY <1>3 DEF AckThenMessage, Awaited
  <2>2. WithoutAcks(<<a, m>>) = <<m>> /\ Len(<<a, m>>) = 2 /\ <<a, m>>[2] = m
    BY <2>1, WithoutAcksTwo
  <2> QED BY <2>1, <2>2
<1>4. CASE MessageThenAck(s)
  <2>1. PICK a \in Frame, m \in Frame :
          unacknowledged_sent_message[s] = <<m, a>> /\ IsAck(a) /\ ~IsAck(m)
    BY <1>4 DEF MessageThenAck, Awaited, LatestAck
  <2>2. WithoutAcks(<<m, a>>) = <<m>> /\ Len(<<m, a>>) = 2 /\ <<m, a>>[1] = m
    BY <2>1, WithoutAcksTwo
  <2> QED BY <2>1, <2>2
<1> QED BY <1>1, <1>2, <1>3, <1>4

\* Any other message is the one its sender waits for: a CONNECTION_RESET when
\* the sender has closed.
LEMMA OtherEffect ==
  ASSUME LinkInv, NEW s \in Sides, ReceiveOther(s), Resets(s),
         Resets(Peer(s)), UNCHANGED <<exiting, refused>>
  PROVE  /\ UNCHANGED <<state, sent, send_message_queue>>
         /\ delivered'[Peer(s)] = delivered[Peer(s)]
         /\ state[Peer(s)] \in Waiting /\ ~AllReturned(Peer(s))
         /\ IsReset(Received(s)) <=> state[Peer(s)] \in Final
         /\ AllReturned(Peer(s))'
         /\ \A t \in Sides : Resets(t)'
<1> DEFINE p == Peer(s)
           list == unacknowledged_sent_message[s]
           frame == Stamped(s, "ACKNOWLEDGE", Received(s).seq, 0)
<1>1. PICK read \in [Sides -> 0 .. 2] : LinkParts(read)
  BY DEF LinkInv, LinkRest
<1>2. /\ IInv /\ TypeOK /\ p \in Sides /\ p # s /\ Peer(p) = s
      /\ \A t \in Sides : t = s \/ t = p
      /\ delivered[s] \in Seq(Nat) /\ Left(p) \in Nat
  BY SideTypes DEF LinkInv, IInv
<1>3. /\ state[s] \in OpenStates /\ PopReceived(s) /\ ~IsAck(Received(s))
      /\ SendMessageNow(s, frame, <<>>, WithoutAcks(list))
      /\ delivered' = [delivered EXCEPT ![s] = Append(@, Received(s).payload)]
      /\ UNCHANGED <<state, sent, send_message_queue>>
  BY DEF ReceiveOther
<1>4. /\ state[p] \in Waiting
      /\ delivered[s] = [i \in 1 .. Left(p) - 1 |-> i] /\ Left(p) > 0
  BY <1>1, <1>2, <1>3, ReturnedMessage
<1>5. Len(delivered[s]) = Left(p) - 1
  BY <1>2, <1>4
<1>6. /\ delivered'[p] = delivered[p]
      /\ Len(delivered'[s]) = Len(delivered[s]) + 1
  BY <1>2, <1>3 DEF TypeOK
<1>7. Left(p)' = Left(p)
  BY <1>3 DEF Left
<1>8. ~AllReturned(p) /\ AllReturned(p)'
  BY <1>2, <1>5, <1>6, <1>7 DEF AllReturned
<1>9. IsReset(Received(s)) <=> state[p] \in Final
  <2>1. /\ read[p] + 1 \in 1 .. Len(unacknowledged_sent_message[p])
        /\ Received(s) = unacknowledged_sent_message[p][read[p] + 1]
    BY <1>1, <1>2, <1>3, Popped
  <2> QED BY <1>3, <1>4, <2>1 DEF Resets
<1>10. \A t \in Sides : Closes(t)' <=> Closes(t)
  BY DEF Closes
<1>11. Resets(p)'
  <2>1. unacknowledged_sent_message'[p] = unacknowledged_sent_message[p]
    BY <1>2, <1>3 DEF SendMessageNow
  <2> QED BY <1>2, <1>3, <1>10, <2>1, ResetsSame
<1>12. Resets(s)'
  <2>1. unacknowledged_sent_message'[s] = Append(WithoutAcks(list), frame)
    BY <1>2, <1>3 DEF SendMessageNow, TypeOK
  <2>2. IsAck(frame)
    BY DEF Stamped, IsAck
  <2>3. ASSUME state[s] \in Waiting,
               NEW k \in 1 .. Len(unacknowledged_sent_message'[s]),
               ~IsAck(unacknowledged_sent_message'[s][k])
        PROVE  IsReset(unacknowledged_sent_message'[s][k])
                 <=> state'[s] \in Final
    <3>1. PICK j \in 1 .. Len(list) : WithoutAcks(list) = <<list[j]>>
      BY <1>2, <2>3, WithoutAcksKeeps
    <3>2. unacknowledged_sent_message'[s] = <<list[j], frame>>
      <4>1. Received(s) \in Frame
        BY <1>2, <1>3, PopReceivedType
      <4>2. Received(s).seq \in Sequence
        BY <4>1 DEF Frame
      <4>3. frame \in Frame
        BY <1>2, <4>2, StampedType DEF MessageType
      <4>4. list[j] \in Frame
        BY <1>2 DEF TypeOK
      <4> HIDE DEF frame, list
      <4> QED BY <2>1, <3>1, <4>3, <4>4, AppendPair
    <3>3. k = 1 \/ k = 2
      BY <2>3, <3>2
    <3>4. unacknowledged_sent_message'[s][k] = list[j]
      BY <2>2, <2>3, <3>2, <3>3
    <3> QED BY <1>3, <2>3, <3>4 DEF Resets
  <2>4. Left(s)' = Left(s)
    BY <1>3 DEF Left
  <2>5. state'[s] = state[s] /\ send_message_queue'[s] = send_message_queue[s]
    BY <1>3
  <2> QED BY <1>10, <2>3, <2>4, <2>5 DEF Resets
<1> QED BY <1>2, <1>3, <1>4, <1>6, <1>8, <1>9, <1>11, <1>12

-----------------------------------------------------------------------------
(* Steps that return no message. *)

\* The connections have closed nothing and returned nothing.
Calm ==
  \A t \in Sides :
    /\ Resets(t)'
    /\ Settled(t)' <=> Settled(t)
    /\ state'[t] = "CLOSED" <=> state[t] = "CLOSED"
    /\ delivered'[t] = delivered[t]
    /\ phase[t] = "establish" =>
         state'[t] \notin Waiting \cup {"CLOSED"} /\ sent'[t] = sent[t]

\* No owner that closes has done so before.
ClosesLater == \A t \in Sides : Closes(t) => Closes(t)'

LEMMA StillCalm ==
  ASSUME SessionInv, Still, ClosesLater
  PROVE  Calm
<1>1. ASSUME NEW t \in Sides
      PROVE  /\ Resets(t)'
             /\ Settled(t)' <=> Settled(t)
             /\ phase[t] = "establish" =>
                  state'[t] \notin Waiting \cup {"CLOSED"}
  <2>1. Resets(t) /\ Unmanaged(t)
    BY DEF SessionInv, SideOK
  <2>2. Resets(t)'
    BY <2>1, ResetsSame DEF Still, ClosesLater
  <2>3. Settled(t)' <=> Settled(t)
    BY DEF Still, Settled, AllReturned, Left
  <2> QED BY <2>1, <2>2, <2>3 DEF Still, Unmanaged
<1> QED BY <1>1 DEF Still, Calm

LEMMA SendsCalm ==
  ASSUME SessionInv, NEW s \in Sides, Sends(s), Resets(s)', ClosesLater,
         phase[s] # "establish"
  PROVE  Calm
<1>1. /\ LinkInv /\ Peer(s) \in Sides /\ Peer(s) # s /\ Peer(Peer(s)) = s
      /\ \A t \in Sides : t = s \/ t = Peer(s)
  BY SideTypes DEF SessionInv
<1>2. OnlyFor(s) /\ UNCHANGED delivered
  BY DEF Sends
<1>3. Resets(Peer(s))'
  BY <1>1, <1>2, ResetsSame DEF OnlyFor, ClosesLater, SessionInv, SideOK
<1>4. Settled(Peer(s))' <=> Settled(Peer(s))
  BY <1>1, <1>2 DEF OnlyFor, Settled, AllReturned, Left
<1>5. Settled(s)' <=> Settled(s)
  <2>1. CASE state'[s] = state[s] /\ Left(s)' = Left(s)
    BY <1>2, <2>1 DEF Settled, AllReturned
  <2>2. CASE state[s] = "READY" /\ Left(s)' = Left(s) + 1
    <3>1. AllReturned(s) /\ Left(s) \in Nat
      BY <1>1, <2>2, AllReturnedWhen, SideTypes
    <3>2. ~AllReturned(s)'
      BY <1>2, <2>2, <3>1 DEF AllReturned
    <3> QED BY <2>2, <3>2 DEF Settled, Final
  <2> QED BY <2>1, <2>2 DEF Sends
<1>6. /\ state'[s] = "CLOSED" <=> state[s] = "CLOSED"
      /\ state'[Peer(s)] = state[Peer(s)] /\ sent'[Peer(s)] = sent[Peer(s)]
  BY <1>1, <1>2 DEF Sends, Waiting, OnlyFor
<1>7. phase[Peer(s)] = "establish" =>
        state'[Peer(s)] \notin Waiting \cup {"CLOSED"}
  BY <1>1, <1>6 DEF SessionInv, SideOK, Unmanaged
<1> QED BY <1>1, <1>2, <1>3, <1>4, <1>5, <1>6, <1>7 DEF Calm

LEMMA EstablishCalm ==
  ASSUME SessionInv, NEW s \in Sides, Establish(s)
  PROVE  Calm
<1>1. /\ LinkInv /\ Peer(s) \in Sides /\ Peer(s) # s /\ Peer(Peer(s)) = s
      /\ \A t \in Sides : t = s \/ t = Peer(s)
      /\ Unmanaged(s) /\ Unmanaged(Peer(s)) /\ Resets(s) /\ Resets(Peer(s))
  BY SideTypes DEF SessionInv, SideOK
<1>2. /\ OnlyFor(s) /\ UNCHANGED <<sent, send_message_queue, delivered>>
      /\ phase[s] = "establish" /\ state'[s] \notin Waiting \cup {"CLOSED"}
      /\ Resets(s)' /\ UNCHANGED <<managerVars, ownerVars>>
  BY <1>1, EstablishEffect
<1>3. Resets(Peer(s))'
  BY <1>1, <1>2, ResetsSame DEF OnlyFor, Closes, ownerVars
<1>4. Settled(Peer(s))' <=> Settled(Peer(s))
  BY <1>1, <1>2 DEF OnlyFor, Settled, AllReturned, Left
<1>5. /\ state'[Peer(s)] = state[Peer(s)]
      /\ state[s] \notin Waiting \cup {"CLOSED"}
      /\ phase[Peer(s)] = "establish" =>
           state[Peer(s)] \notin Waiting \cup {"CLOSED"}
  BY <1>1, <1>2 DEF OnlyFor, Unmanaged
<1>6. ~Settled(s) /\ ~Settled(s)'
  BY <1>2, <1>5 DEF Settled, Final, Waiting
<1> QED BY <1>1, <1>2, <1>3, <1>4, <1>5, <1>6 DEF Calm

\* A phase that neither begins nor ends a removal.
Proceeds(t) ==
  \/ phase'[t] = phase[t]
  \/ phase[t] = "receive" /\ phase'[t] = "check"
  \/ /\ phase[t] \in {"greet", "owner", "handle", "events"}
     /\ phase'[t] \in {"greet", "owner", "receive", "events", "done"}
     /\ phase'[t] = "greet" => ~Closes(t)'

\* Time passes outside of ReceiveMessages.
Ages(t) ==
  \/ timestamp_last_received'[t] = timestamp_last_received[t]
  \/ Managed(t) /\ phase'[t] \in {"greet", "owner", "handle", "events"}

LEMMA CalmSides ==
  ASSUME SessionInv, Calm, ClosesLater,
         UNCHANGED <<connection_map, connection_remove_list>>,
         NEW t \in Sides, Proceeds(t), Ages(t),
         phase'[t] \in {"establish", "greet"} => ~Closes(t)'
  PROVE  SideOK(t)'
<1>1. SideOK(t) /\ Peer(t) \in Sides
  BY PeerType DEF SessionInv
<1>2. exiting => exiting'
  BY DEF ClosesLater, Closes, Sides
<1>3. refused => refused'
  BY DEF ClosesLater, Closes, Sides
<1>4. /\ connection_remove_list[t] \in Nat
      /\ Settled(t)' <=> Settled(t)
      /\ Settled(Peer(t))' <=> Settled(Peer(t))
  BY <1>1 DEF Calm, SessionInv, SessionTypeOK
<1>5. Resets(t)'
  BY DEF Calm
<1>6. Unmanaged(t)'
  BY <1>1 DEF SideOK, Unmanaged, Proceeds, Calm, Managed
<1>7. Removal(t)'
  BY <1>1, <1>4 DEF SideOK, Removal, Proceeds, Ages, Calm, Managed
<1>8. Reason(t)'
  BY <1>1, <1>2, <1>3, <1>4 DEF SideOK, Removal, Reason, Proceeds, Ages, Managed
<1>9. Acted(t)'
  BY <1>1, <1>4 DEF SideOK, Acted, Managed
<1> QED BY <1>5, <1>6, <1>7, <1>8, <1>9 DEF SideOK

LEMMA ServerSame ==
  ASSUME SessionInv, UNCHANGED <<player, refused>>,
         event_queue'["server"] = event_queue["server"],
         phase'["server"] = phase["server"],
         Managed("server")' <=> Managed("server"),
         sent'["server"] = sent["server"], state'["server"] = state["server"],
         timestamp_last_received'["server"] = timestamp_last_received["server"]
  PROVE  Refusal' /\ Events'
<1>1. Refusal /\ Events
  BY DEF SessionInv
<1>2. /\ Unanswered' <=> Unanswered
      /\ \A event : Queues(event)' <=> Queues(event)
  BY DEF Unanswered, Queues
<1>3. Refusal'
  BY <1>1, <1>2 DEF Refusal
<1>4. Events'
  BY <1>1, <1>2 DEF Events
<1> QED BY <1>3, <1>4

\* Before the server has handled CONNECT its connection sends nothing.
LEMMA UnansweredIdle ==
  ASSUME SessionInv, LinkInv', Unanswered, Sends("server"), sent' = sent
  PROVE  state'["server"] = "READY" /\ sent'["server"] = 0
<1>1. state["server"] = "READY" /\ sent["server"] = 0
  BY DEF SessionInv, Refusal
<1>2. Left("server") \in Nat /\ Left("server")' \in Nat
      /\ Len(send_message_queue["server"])' \in Nat
  <2>1. LinkInv /\ "server" \in Sides
    BY DEF SessionInv, Sides
  <2>2. Left("server") \in Nat
    BY <2>1, SideTypes
  <2>3. /\ send_message_queue'["server"] \in Seq(Queued)
    BY <2>1 DEF LinkInv, IInv, TypeOK
  <2>4. Left("server")' \in Nat
    <3>1. PICK read \in [Sides -> 0 .. 2] : LinkParts(read)'
      BY DEF LinkInv, LinkRest
    <3>2. InOrder("server", read["server"])'
      BY <2>1, <3>1 DEF LinkParts, SideInv
    <3> QED BY <3>2 DEF InOrder
  <2> QED BY <2>2, <2>3, <2>4
<1>3. Left("server")' = Left("server") + 1 => FALSE
  BY <1>1, <1>2 DEF Left
<1> QED BY <1>1, <1>3 DEF Sends

\* The types of what the owners and the managers keep.
ManagerTypes ==
  /\ connection_map \subseteq Sides
  /\ timestamp_last_received \in [Sides -> Age]
  /\ connection_remove_list \in [Sides -> Nat]
  /\ event_queue \in [Sides -> Seq(EventType)]
  /\ phase \in [Sides -> Phases]
  /\ player \in BOOLEAN /\ exiting \in BOOLEAN /\ refused \in BOOLEAN

LEMMA TypesOf ==
  /\ SessionInv => ManagerTypes
  /\ LinkInv => (SessionTypeOK <=> ManagerTypes)
  BY DEF SessionInv, SessionTypeOK, ManagerTypes, LinkInv, IInv

\* A step that returns, lists and removes nothing, after which the server is
\* as it was, or as "Refusal" and "Events" say.
LEMMA CalmStep ==
  ASSUME SessionInv, LinkInv', Calm, ClosesLater,
         UNCHANGED <<connection_map, connection_remove_list>>,
         \A t \in Sides :
           /\ Proceeds(t) /\ Ages(t)
           /\ phase'[t] \in {"establish", "greet"} => ~Closes(t)',
         ManagerTypes', Refusal', Events'
  PROVE  SessionInv'
<1>1. \A t \in Sides : SideOK(t)'
  BY CalmSides
<1>2. SessionTypeOK'
  BY DEF SessionTypeOK, ManagerTypes, LinkInv, IInv
<1> QED BY <1>1, <1>2 DEF SessionInv

LEMMA EstablishStep ==
  ASSUME SessionInv, LinkInv', NEW s \in Sides, Establish(s)
  PROVE  SessionInv'
<1>1. /\ LinkInv /\ Unmanaged(s) /\ Resets(s) /\ ManagerTypes /\ Refusal /\ Events
      /\ \A t \in Sides : Unmanaged(t) /\ Removal(t)
  BY TypesOf DEF SessionInv, SideOK
<1>2. /\ OnlyFor(s) /\ UNCHANGED <<sent, send_message_queue, delivered>>
      /\ phase[s] = "establish"
      /\ UNCHANGED <<connection_map, timestamp_last_received,
                     connection_remove_list, event_queue, phase, player,
                     exiting, refused>>
  BY <1>1, EstablishEffect DEF managerVars, ownerVars
<1>3. Calm
  BY EstablishCalm
<1>4. \A t \in Sides : (Closes(t)' <=> Closes(t)) /\ Proceeds(t) /\ Ages(t)
  BY <1>2 DEF Closes, Proceeds, Ages
<1>5. Refusal' /\ Events'
  <2>1. CASE s = "client"
    <3>1. state'["server"] = state["server"]
      BY <1>2, <2>1 DEF OnlyFor, Sides
    <3> QED BY <1>2, <3>1, ServerSame DEF Managed
  <2>2. CASE s = "server"
    <3>1. event_queue["server"] = <<>> /\ ~refused
      BY <1>1, <1>2, <2>2 DEF Events
    <3>2. Refusal'
      BY <1>2, <3>1 DEF Refusal, Unanswered
    <3>3. Events'
      BY <1>1, <1>2 DEF Events, Unanswered, Queues, Managed
    <3> QED BY <3>2, <3>3
  <2> QED BY <2>1, <2>2 DEF Sides
<1>6. ManagerTypes'
  BY <1>1, <1>2 DEF ManagerTypes
<1>7. \A t \in Sides : phase'[t] \in {"establish", "greet"} => ~Closes(t)'
  BY <1>1, <1>2, <1>4 DEF Unmanaged, Removal
<1> QED BY <1>2, <1>3, <1>4, <1>5, <1>6, <1>7, CalmStep DEF ClosesLater

\* Steps of a connection, or of none, that change no manager.
LEMMA StillStep ==
  ASSUME SessionInv, LinkInv', Still,
         UNCHANGED <<connection_map, connection_remove_list, event_queue,
                     player, exiting, refused, phase>>,
         ManagerTypes',
         \A t \in Sides :
           \/ timestamp_last_received'[t] = timestamp_last_received[t]
           \/ Managed(t) /\ phase[t] \in {"greet", "owner", "handle", "events"}
  PROVE  SessionInv'
<1>1. /\ Refusal /\ Events /\ \A t \in Sides : Unmanaged(t) /\ Removal(t)
  BY DEF SessionInv, SideOK
<1>2. \A t \in Sides : (Closes(t)' <=> Closes(t)) /\ Proceeds(t) /\ Ages(t)
  BY DEF Closes, Proceeds, Ages
<1>3. Calm
  BY <1>2, StillCalm DEF ClosesLater
<1>4. /\ Unanswered' <=> Unanswered
      /\ \A event : Queues(event)' <=> Queues(event)
  BY DEF Unanswered, Queues
<1>5. Refusal'
  BY <1>1, <1>4 DEF Refusal, Still, Sides, Managed
<1>6. Events'
  BY <1>1, <1>4 DEF Events, Managed
<1>7. \A t \in Sides : phase'[t] \in {"establish", "greet"} => ~Closes(t)'
  BY <1>1, <1>2 DEF Unmanaged, Removal
<1> QED BY <1>2, <1>3, <1>5, <1>6, <1>7, CalmStep DEF ClosesLater

LEMMA StillSteps ==
  ASSUME SessionInv, LinkInv', NEW s \in Sides,
         \/ Damage(s) \/ TimePasses(s) \/ Kill(s)
         \/ ReceivingMessage(s) /\ UNCHANGED ownerVars
  PROVE  SessionInv'
<1>1. ManagerTypes
  BY TypesOf
<1>2. CASE Damage(s) \/ Kill(s) \/ (ReceivingMessage(s) /\ UNCHANGED ownerVars)
  <2>1. Still /\ UNCHANGED <<managerVars, ownerVars>>
    BY <1>2 DEF Damage, DamageFrame, Kill, Fail, ReceivingMessage, TryReceive,
                TryReceiveDamaged, TryReceiveNack, TryReceiveMessage, Still
  <2> QED BY <1>1, <2>1, StillStep DEF managerVars, ownerVars, ManagerTypes
<1>3. CASE TimePasses(s)
  <2>1. /\ Still
        /\ UNCHANGED <<connection_map, connection_remove_list, event_queue,
                       player, exiting, refused, phase>>
        /\ Managed(s) /\ phase[s] \in {"greet", "owner", "handle", "events"}
        /\ timestamp_last_received' =
             [timestamp_last_received EXCEPT
                ![s] = IF @ = "fresh" THEN "quiet" ELSE "late"]
    BY <1>3 DEF TimePasses, Tick, connectionVars, vars, ownerVars, Still
  <2>2. ManagerTypes'
    BY <1>1, <2>1 DEF ManagerTypes, Age
  <2>3. \A t \in Sides \ {s} :
          timestamp_last_received'[t] = timestamp_last_received[t]
    BY <1>1, <2>1 DEF ManagerTypes
  <2> QED BY <2>1, <2>2, <2>3, StillStep
<1> QED BY <1>2, <1>3

LEMMA NoMessageReturnedStep ==
  ASSUME SessionInv, LinkInv', NEW s \in Sides, NoMessageReturned(s),
         UNCHANGED ownerVars
  PROVE  SessionInv'
<1>1. /\ ManagerTypes /\ Refusal /\ Events
      /\ \A t \in Sides : Unmanaged(t) /\ Removal(t)
  BY TypesOf DEF SessionInv, SideOK
<1>2. /\ Still /\ phase[s] = "receive"
      /\ phase' = [phase EXCEPT ![s] = "check"]
      /\ UNCHANGED <<connection_map, timestamp_last_received,
                     connection_remove_list, event_queue, player, exiting,
                     refused>>
  BY DEF NoMessageReturned, EnterPhase, Still, ownerVars
<1>3. \A t \in Sides : (Closes(t)' <=> Closes(t)) /\ Ages(t)
  BY <1>2 DEF Closes, Ages
<1>4. phase'[s] = "check" /\ \A t \in Sides \ {s} : phase'[t] = phase[t]
  BY <1>1, <1>2 DEF ManagerTypes
<1>5. Calm /\ \A t \in Sides : Proceeds(t)
  BY <1>2, <1>3, <1>4, StillCalm DEF ClosesLater, Proceeds
<1>6. /\ Unanswered' <=> Unanswered
      /\ \A event : Queues(event)' <=> Queues(event)
  BY <1>2 DEF Unanswered, Queues
<1>7. Refusal'
  BY <1>1, <1>2, <1>4, <1>6 DEF Refusal, Still, Sides, Managed
<1>8. Events'
  BY <1>1, <1>2, <1>4, <1>6 DEF Events, Sides, Managed
<1>9. \A t \in Sides : phase'[t] \in {"establish", "greet"} => ~Closes(t)'
  BY <1>1, <1>3, <1>4 DEF Unmanaged, Removal
<1>10. ManagerTypes'
  BY <1>1, <1>2 DEF ManagerTypes, Phases
<1> QED BY <1>2, <1>3, <1>5, <1>7, <1>8, <1>9, <1>10, CalmStep DEF ClosesLater

-----------------------------------------------------------------------------
(* The owners. *)

\* What the client does is nothing to the server.
LEMMA ClientStep ==
  ASSUME SessionInv, LinkInv', Sends("client"), Resets("client")',
         phase["client"] # "establish",
         UNCHANGED <<connection_map, timestamp_last_received,
                     connection_remove_list, player, refused>>,
         exiting => exiting', ManagerTypes',
         event_queue'["server"] = event_queue["server"],
         phase'["server"] = phase["server"], Proceeds("client"),
         phase'["client"] \in {"establish", "greet"} => ~Closes("client")'
  PROVE  SessionInv'
<1>1. /\ OnlyFor("client") /\ "client" \in Sides /\ "server" \in Sides
      /\ Sides = {"client", "server"}
  BY DEF Sends, Sides
<1>2. /\ sent'["server"] = sent["server"] /\ state'["server"] = state["server"]
  BY <1>1 DEF OnlyFor
<1>3. Refusal' /\ Events'
  BY <1>2, ServerSame DEF Managed
<1>4. ClosesLater /\ (Closes("server")' <=> Closes("server"))
  BY <1>1 DEF ClosesLater, Closes
<1>5. Calm
  BY <1>1, <1>4, SendsCalm
<1>6. phase'["server"] \in {"establish", "greet"} => ~Closes("server")'
  BY <1>1, <1>4 DEF SessionInv, SideOK, Unmanaged, Removal
<1>7. \A t \in Sides :
        /\ Proceeds(t) /\ Ages(t)
        /\ phase'[t] \in {"establish", "greet"} => ~Closes(t)'
  BY <1>1, <1>6 DEF Proceeds, Ages
<1> QED BY <1>3, <1>4, <1>5, <1>7, CalmStep

LEMMA ServerStep ==
  ASSUME SessionInv, LinkInv', Sends("server"), Resets("server")',
         phase["server"] # "establish",
         UNCHANGED <<connection_map, timestamp_last_received,
                     connection_remove_list, exiting>>,
         refused => refused', ManagerTypes', Refusal', Events',
         phase'["client"] = phase["client"], Proceeds("server"),
         phase'["server"] \in {"establish", "greet"} => ~Closes("server")'
  PROVE  SessionInv'
<1>1. /\ OnlyFor("server") /\ "client" \in Sides /\ "server" \in Sides
      /\ Sides = {"client", "server"}
  BY DEF Sends, Sides
<1>2. ClosesLater /\ (Closes("client")' <=> Closes("client"))
  BY <1>1 DEF ClosesLater, Closes
<1>3. Calm
  BY <1>1, <1>2, SendsCalm
<1>4. phase'["client"] \in {"establish", "greet"} => ~Closes("client")'
  BY <1>1, <1>2 DEF SessionInv, SideOK, Unmanaged, Removal
<1>5. \A t \in Sides :
        /\ Proceeds(t) /\ Ages(t)
        /\ phase'[t] \in {"establish", "greet"} => ~Closes(t)'
  BY <1>1, <1>4 DEF Proceeds, Ages
<1> QED BY <1>2, <1>3, <1>5, CalmStep

LEMMA StillSends ==
  ASSUME SessionInv, Still, ClosesLater, NEW s \in Sides
  PROVE  Sends(s) /\ Resets(s)'
<1>1. Calm
  BY StillCalm
<1> QED BY <1>1 DEF Calm, Still, Sends, OnlyFor, Left

LEMMA GreetStep ==
  ASSUME SessionInv, LinkInv', NEW s \in Sides, Greet(s)
  PROVE  SessionInv'
<1>1. /\ ManagerTypes /\ Refusal /\ Events /\ LinkInv
      /\ Removal(s) /\ Resets(s)
  BY TypesOf DEF SessionInv, SideOK
<1>2. /\ phase[s] = "greet" /\ ~Closes(s)
      /\ UNCHANGED <<connection_map, timestamp_last_received,
                     connection_remove_list, event_queue, player, exiting,
                     refused>>
  BY <1>1 DEF Greet, Removal, ownerVars
<1>3. \A t \in Sides : Closes(t)' <=> Closes(t)
  BY <1>2 DEF Closes
<1>4. Sends(s) /\ Resets(s)'
  <2>1. CASE UNCHANGED connectionVars
    <3>1. Still
      BY <2>1 DEF connectionVars, vars, Still
    <3> QED BY <1>3, <3>1, StillSends DEF ClosesLater
  <2>2. CASE SendMessageToConnection(s, "PAYLOAD")
    BY <1>1, <1>2, <1>3, <2>2, SendMessageToConnectionEffect
  <2> QED BY <2>1, <2>2 DEF Greet
<1>5. \/ phase' = phase
      \/ phase' = [phase EXCEPT ![s] = IF s = "client" THEN "owner" ELSE "events"]
  BY DEF Greet, EnterPhase
<1>6. /\ phase'[s] \in {"greet", IF s = "client" THEN "owner" ELSE "events"}
      /\ \A t \in Sides \ {s} : phase'[t] = phase[t]
  BY <1>1, <1>2, <1>5 DEF ManagerTypes
<1>7. ManagerTypes' /\ Proceeds(s)
  BY <1>1, <1>2, <1>3, <1>5, <1>6 DEF ManagerTypes, Proceeds, Phases
<1>8. CASE s = "client"
  BY <1>2, <1>3, <1>4, <1>6, <1>7, <1>8, ClientStep DEF Sides
<1>9. CASE s = "server"
  <2>1. ~Unanswered /\ ~refused
    BY <1>1, <1>2, <1>9 DEF Events, Closes
  <2>2. /\ ~Unanswered'
        /\ \A event : Queues(event)' <=> Queues(event)
    BY <1>2, <2>1 DEF Unanswered, Queues
  <2>3. Refusal'
    BY <1>2, <2>1, <2>2 DEF Refusal
  <2>4. Events'
    BY <1>1, <1>2, <1>6, <1>9, <2>1, <2>2 DEF Events, Managed
  <2> QED BY <1>2, <1>3, <1>4, <1>6, <1>7, <1>9, <2>3, <2>4, ServerStep DEF Sides
<1> QED BY <1>8, <1>9 DEF Sides

LEMMA ClientLoopStep ==
  ASSUME SessionInv, LinkInv', ClientLoop
  PROVE  SessionInv'
<1>1. /\ ManagerTypes /\ LinkInv /\ Resets("client") /\ "client" \in Sides
      /\ "server" \in Sides
  BY TypesOf DEF SessionInv, SideOK, Sides
<1>2. /\ UNCHANGED <<connection_map, timestamp_last_received,
                     connection_remove_list, player, exiting, refused>>
      /\ ClosesLater /\ phase["client"] \in {"owner", "events"}
      /\ \E next \in {"receive", "done", "owner"} :
            phase' = [phase EXCEPT !["client"] = next]
  BY DEF ClientLoop, ClientHandles, ClientHandlesEvent, EnterPhase, ownerVars,
         ClosesLater, Closes
<1>3. Sends("client") /\ Resets("client")'
  <2>1. CASE ClientHandles
    BY <1>1, <1>2, <2>1, HandleAllEffect DEF ClientHandles
  <2>2. CASE ClientHandlesEvent
    <3>1. Still
      BY <2>2 DEF ClientHandlesEvent, connectionVars, vars, Still
    <3> QED BY <1>1, <1>2, <3>1, StillSends
  <2> QED BY <2>1, <2>2 DEF ClientLoop
<1>4. /\ phase'["client"] \in {"receive", "done", "owner"}
      /\ phase'["server"] = phase["server"]
      /\ phase' \in [Sides -> Phases]
  BY <1>1, <1>2 DEF ManagerTypes, Phases
<1>5. /\ event_queue' \in [Sides -> Seq(EventType)]
      /\ event_queue'["server"] = event_queue["server"]
  <2>1. event_queue["client"] # <<>> =>
          Tail(event_queue["client"]) \in Seq(EventType)
    BY <1>1 DEF ManagerTypes
  <2> QED BY <1>1, <2>1
          DEF ManagerTypes, ClientLoop, ClientHandles, ClientHandlesEvent
<1>6. Proceeds("client") /\ ManagerTypes'
  BY <1>1, <1>2, <1>4, <1>5 DEF Proceeds, ManagerTypes
<1> QED BY <1>1, <1>2, <1>3, <1>4, <1>5, <1>6, ClientStep

LEMMA ClientSendsStep ==
  ASSUME SessionInv, LinkInv', ClientSendsChange \/ ClientExits
  PROVE  SessionInv'
<1>1. /\ ManagerTypes /\ LinkInv /\ Resets("client") /\ "client" \in Sides
      /\ "server" \in Sides
  BY TypesOf DEF SessionInv, SideOK, Sides
<1>2. /\ UNCHANGED <<connection_map, timestamp_last_received,
                     connection_remove_list, player, refused, event_queue, phase>>
      /\ phase["client"] \in {"owner", "events"}
      /\ ~Closes("client") /\ exiting' \in BOOLEAN
  BY <1>1 DEF ClientSendsChange, ClientExits, managerVars, ownerVars, Closes,
              ManagerTypes
<1>3. Sends("client") /\ Resets("client")'
  <2>1. CASE ClientSendsChange
    BY <1>1, <1>2, <2>1, SendMessageToConnectionEffect DEF ClientSendsChange
  <2>2. CASE ClientExits
    <3>1. /\ SendMessageToConnection("client", "CONNECTION_RESET")
          /\ Closes("client")'
      BY <2>2 DEF ClientExits, Closes
    <3> QED BY <1>1, <1>2, <3>1, SendMessageToConnectionEffect
  <2> QED BY <2>1, <2>2
<1>4. Proceeds("client") /\ ManagerTypes'
  BY <1>1, <1>2 DEF Proceeds, ManagerTypes
<1>5. exiting => exiting'
  BY <1>2 DEF Closes
<1> QED BY <1>1, <1>2, <1>3, <1>4, <1>5, ClientStep

LEMMA ServerStartsStep ==
  ASSUME SessionInv, LinkInv', ServerStarts \/ ServerHandles,
         UNCHANGED ownerVars
  PROVE  SessionInv'
<1>1. /\ ManagerTypes /\ LinkInv /\ Resets("server") /\ "client" \in Sides
      /\ "server" \in Sides /\ Refusal /\ Events
  BY TypesOf DEF SessionInv, SideOK, Sides
<1>2. /\ UNCHANGED <<connection_map, timestamp_last_received, event_queue,
                     connection_remove_list, player, exiting, refused>>
      /\ ClosesLater
      /\ \/ phase["server"] = "owner" /\ phase' = [phase EXCEPT !["server"] = "receive"]
         \/ phase["server"] = "handle" /\ phase' = [phase EXCEPT !["server"] = "events"]
  BY DEF ServerStarts, ServerHandles, EnterPhase, ownerVars, ClosesLater, Closes
<1>3. Sends("server") /\ Resets("server")' /\ sent' = sent
  <2>1. CASE ServerHandles
    BY <1>1, <1>2, <2>1, HandleAllEffect DEF ServerHandles
  <2>2. CASE ServerStarts
    <3>1. Still
      BY <2>2 DEF ServerStarts, connectionVars, vars, Still
    <3> QED BY <1>1, <1>2, <3>1, StillSends DEF Still
  <2> QED BY <2>1, <2>2
<1>4. /\ phase'["client"] = phase["client"] /\ phase' \in [Sides -> Phases]
      /\ \/ phase["server"] = "owner" /\ phase'["server"] = "receive"
         \/ phase["server"] = "handle" /\ phase'["server"] = "events"
  BY <1>1, <1>2 DEF ManagerTypes, Phases
<1>5. Proceeds("server") /\ ManagerTypes'
  BY <1>1, <1>2, <1>4 DEF Proceeds, ManagerTypes
<1>6. /\ Unanswered' <=> Unanswered
      /\ \A event : Queues(event)' <=> Queues(event)
  BY <1>2 DEF Unanswered, Queues
<1>7. Refusal'
  <2>1. ASSUME Unanswered
        PROVE  /\ state'["server"] = "READY" /\ sent'["server"] = 0
               /\ phase'["server"] \notin {"receive", "check"}
    BY <1>1, <1>3, <1>4, <2>1, UnansweredIdle DEF Events
  <2>2. state["server"] \in Final => state'["server"] \in Final
    BY <1>3 DEF Sends, Final
  <2> QED BY <1>1, <1>2, <1>6, <2>1, <2>2 DEF Refusal, Managed
<1>8. Events'
  <2>1. Unanswered => phase'["server"] = "events"
    BY <1>1, <1>4 DEF Events, Unanswered
  <2> QED BY <1>1, <1>2, <1>4, <1>6, <2>1 DEF Events, Managed
<1> QED BY <1>2, <1>3, <1>4, <1>5, <1>7, <1>8, ServerStep

LEMMA ServerSendsWorldStep ==
  ASSUME SessionInv, LinkInv', ServerSendsWorld
  PROVE  SessionInv'
<1>1. /\ ManagerTypes /\ LinkInv /\ Resets("server") /\ "client" \in Sides
      /\ "server" \in Sides /\ Refusal /\ Events
  BY TypesOf DEF SessionInv, SideOK, Sides
<1>2. /\ UNCHANGED <<connection_map, timestamp_last_received, event_queue,
                     connection_remove_list, player, exiting, refused, phase>>
      /\ ClosesLater /\ phase["server"] = "owner"
  BY DEF ServerSendsWorld, managerVars, ownerVars, ClosesLater, Closes
<1>3. /\ Sends("server") /\ Resets("server")'
      /\ refused => Still
  <2>1. CASE Fail("server", "UnknownPartnerException")
    <3>1. Still
      BY <2>1 DEF Fail, Still
    <3> QED BY <1>1, <1>2, <3>1, StillSends
  <2>2. CASE /\ Managed("server")
             /\ state["server"] \in {"READY", "WAITING_FOR_ACKNOWLEDGE"}
             /\ SendOnConnection("server", "PAYLOAD")
    <3>1. ~refused /\ ~Closes("server") /\ ~Closes("server")'
      BY <1>1, <1>2, <2>2 DEF Refusal, Final, Closes
    <3> QED BY <1>1, <2>2, <3>1, SendOnConnectionEffect
  <2> QED BY <2>1, <2>2 DEF ServerSendsWorld
<1>4. ~Unanswered' /\ \A event : Queues(event)' <=> Queues(event)
  BY <1>1, <1>2 DEF Events, Unanswered, Queues
<1>5. Refusal'
  BY <1>1, <1>2, <1>3, <1>4 DEF Refusal, Still, Managed
<1>6. Events'
  BY <1>1, <1>2, <1>4 DEF Events, Managed, Unanswered
<1>7. Proceeds("server") /\ ManagerTypes'
  BY <1>1, <1>2 DEF Proceeds, ManagerTypes
<1> QED BY <1>2, <1>3, <1>5, <1>6, <1>7, ServerStep

\* A refused client's connection is READY, so that the reset leaves at once.
LEMMA RefusalSent ==
  ASSUME SessionInv, Unanswered, Managed("server"),
         SendMessageToConnection("server", "CONNECTION_RESET")
  PROVE  state'["server"] \in Final
<1> DEFINE queue == send_message_queue["server"]
           new == [type |-> "CONNECTION_RESET", payload |-> sent["server"] + 1]
<1>1. /\ state["server"] = "READY" /\ sent["server"] = 0 /\ "server" \in Sides
      /\ LinkInv
  BY DEF SessionInv, Refusal, Sides
<1>2. Left("server") \in Nat /\ queue \in Seq(Queued) /\ Len(queue) \in Nat
  BY <1>1, SideTypes
<1>3. queue = <<>>
  <2>1. Len(queue) = 0
    BY <1>1, <1>2 DEF Left
  <2> QED BY <1>2, <2>1
<1>4. PICK elapsed \in BOOLEAN : SendMessage("server", "CONNECTION_RESET", elapsed)
  BY <1>1 DEF SendMessageToConnection, SendOnConnection
<1>5. HandleQueue("server", Append(queue, new), elapsed)
  BY <1>4 DEF SendMessage
<1>6. Append(queue, new) # <<>> /\ Head(Append(queue, new)) = new
  <2> HIDE DEF new, queue
  <2>1. Append(queue, new) = <<new>>
    BY <1>3
  <2> QED BY <2>1
<1>7. state' = [state EXCEPT !["server"] = AwaitingState(new.type)]
  <2> HIDE DEF new, queue
  <2>1. MaySendNext("server", Append(queue, new))
    BY <1>1, <1>6 DEF MaySendNext
  <2> QED BY <1>5, <1>6, <2>1 DEF HandleQueue
<1>8. TypeOK
  BY <1>1 DEF LinkInv, IInv
<1> QED BY <1>1, <1>7, <1>8 DEF TypeOK, AwaitingState, Final

LEMMA ServerHandlesEventsStep ==
  ASSUME SessionInv, LinkInv', ServerHandlesEvents
  PROVE  SessionInv'
<1> DEFINE queue == event_queue["server"]
<1>1. /\ ManagerTypes /\ LinkInv /\ Resets("server") /\ "client" \in Sides
      /\ "server" \in Sides /\ Refusal /\ Events /\ queue \in Seq(EventType)
  BY TypesOf DEF SessionInv, SideOK, Sides, ManagerTypes
<1>2. /\ UNCHANGED <<connection_map, timestamp_last_received,
                     connection_remove_list, exiting>>
      /\ phase["server"] = "events"
  BY DEF ServerHandlesEvents
<1>3. CASE queue = <<>>
  <2>1. /\ Still /\ phase' = [phase EXCEPT !["server"] = "owner"]
        /\ UNCHANGED <<event_queue, player, refused>>
    BY <1>3 DEF ServerHandlesEvents, EnterPhase, connectionVars, vars, Still
  <2>2. ClosesLater
    BY <1>2, <2>1 DEF ClosesLater, Closes
  <2>3. /\ phase'["client"] = phase["client"] /\ phase' \in [Sides -> Phases]
        /\ phase'["server"] = "owner"
    BY <1>1, <2>1 DEF ManagerTypes, Phases
  <2>4. /\ Unanswered' <=> Unanswered
        /\ \A event : Queues(event)' <=> Queues(event)
    BY <2>1 DEF Unanswered, Queues
  <2>5. ~Unanswered
    BY <1>3 DEF Unanswered
  <2>6. Refusal'
    BY <1>1, <1>2, <2>1, <2>4, <2>5 DEF Refusal, Still, Managed
  <2>7. Events'
    BY <1>1, <1>2, <1>3, <2>1, <2>3, <2>4, <2>5 DEF Events, Managed
  <2>8. Proceeds("server") /\ ManagerTypes'
    BY <1>1, <1>2, <2>1, <2>3 DEF Proceeds, ManagerTypes
  <2> QED BY <1>1, <1>2, <2>1, <2>2, <2>3, <2>6, <2>7, <2>8, StillSends, ServerStep
<1>4. CASE queue # <<>>
  <2>1. /\ event_queue' = [event_queue EXCEPT !["server"] = Tail(queue)]
        /\ ServerConnectEvent \/ ServerDisconnectEvent \/ ServerPayloadEvent
    BY <1>4 DEF ServerHandlesEvents
  <2>2. /\ event_queue'["server"] = Tail(queue) /\ Head(queue) = queue[1]
        /\ Tail(queue) \in Seq(EventType) /\ Len(Tail(queue)) = Len(queue) - 1
        /\ \A k \in 1 .. Len(Tail(queue)) : Tail(queue)[k] = queue[k + 1]
        /\ Len(queue) \in Nat \ {0}
    BY <1>1, <1>4, <2>1 DEF ManagerTypes
  <2>3. event_queue' \in [Sides -> Seq(EventType)]
    BY <1>1, <2>1, <2>2 DEF ManagerTypes
  <2>4. \A k \in 1 .. Len(Tail(queue)) : Tail(queue)[k] # "CONNECT"
    BY <1>1, <2>2 DEF Events
  <2>5. ~Unanswered'
    <3>1. Tail(queue) # <<>> => 1 \in 1 .. Len(Tail(queue))
      BY <2>2
    <3> QED BY <2>2, <2>4, <3>1 DEF Unanswered
  <2>6. /\ Queues("DISCONNECT")' => Queues("DISCONNECT")
        /\ Queues("DISCONNECT") =>
             Queues("DISCONNECT")' \/ queue[1] = "DISCONNECT"
        /\ queue[1] = "DISCONNECT" => Queues("DISCONNECT")
    <3> HIDE DEF queue
    <3>1. Queues("DISCONNECT") <=>
            \E k \in 1 .. Len(queue) : queue[k] = "DISCONNECT"
      BY DEF Queues, queue
    <3>2. Queues("DISCONNECT")' <=>
            \E k \in 1 .. Len(Tail(queue)) : Tail(queue)[k] = "DISCONNECT"
      BY <2>2 DEF Queues
    <3>3. ASSUME NEW k \in 1 .. Len(queue), queue[k] = "DISCONNECT", k # 1
          PROVE  Tail(queue)[k - 1] = "DISCONNECT" /\ k - 1 \in 1 .. Len(Tail(queue))
      BY <2>2, <3>3
    <3> QED BY <2>2, <3>1, <3>2, <3>3
  <2>7. \A k \in 2 .. Len(Tail(queue)) : Tail(queue)[k] # "CONNECT"
    BY <2>4
  <2>8. Unanswered <=> queue[1] = "CONNECT"
    BY <1>4 DEF Unanswered
  <2>9. CASE ServerConnectEvent
    <3>1. /\ Unanswered /\ ~player /\ ~refused
          /\ Managed("server") <=> ~Queues("DISCONNECT")
      BY <1>1, <2>2, <2>8, <2>9 DEF ServerConnectEvent, Events
    <3>2. Queues("DISCONNECT")' <=> Queues("DISCONNECT")
      BY <2>6, <2>8, <3>1
    <3>3. ~Closes("server") /\ refused => refused'
      BY <3>1 DEF Closes
    <3>4. CASE /\ refused' = TRUE
               /\ SendMessageToConnection("server", "CONNECTION_RESET")
               /\ UNCHANGED <<player, phase>>
      <4>1. Closes("server")'
        BY <3>4 DEF Closes
      <4>2. Sends("server") /\ Resets("server")'
        BY <1>1, <3>3, <3>4, <4>1, SendMessageToConnectionEffect, <3>1 DEF Closes
      <4>3. Refusal'
        BY <1>2, <2>5, <3>1, <3>4, RefusalSent DEF Refusal, Managed
      <4>4. Events'
        BY <1>2, <2>2, <2>5, <2>7, <3>1, <3>2, <3>4 DEF Events, Managed
      <4>5. Proceeds("server") /\ ManagerTypes'
        BY <1>1, <1>2, <2>3, <3>4 DEF Proceeds, ManagerTypes
      <4> QED BY <1>2, <3>1, <3>4, <4>2, <4>3, <4>4, <4>5, ServerStep
    <3>5. CASE /\ player' = TRUE
               /\ EnterPhase("server", "greet")
               /\ UNCHANGED <<connectionVars, refused>>
      <4>1. Still /\ ClosesLater
        BY <1>2, <3>5 DEF connectionVars, vars, Still, ClosesLater, Closes
      <4>2. /\ phase'["server"] = "greet" /\ phase'["client"] = phase["client"]
            /\ phase' \in [Sides -> Phases]
        BY <1>1, <3>5 DEF EnterPhase, ManagerTypes, Phases
      <4>3. Refusal'
        BY <2>5, <3>1, <3>5 DEF Refusal
      <4>4. Events'
        BY <1>2, <2>2, <2>5, <2>7, <3>1, <3>2, <3>5, <4>2 DEF Events, Managed
      <4>5. ~Closes("server")'
        BY <3>1, <3>5 DEF Closes
      <4>6. Proceeds("server") /\ ManagerTypes'
        BY <1>1, <1>2, <2>3, <3>5, <4>2, <4>5 DEF Proceeds, ManagerTypes
      <4>7. Sends("server") /\ Resets("server")'
        BY <1>1, <4>1, StillSends
      <4> QED BY <1>2, <3>1, <3>5, <4>2, <4>3, <4>4, <4>5, <4>6, <4>7, ServerStep
    <3> QED BY <2>9, <3>4, <3>5 DEF ServerConnectEvent
  <2>10. CASE ServerDisconnectEvent \/ ServerPayloadEvent
    <3>1. /\ Still /\ UNCHANGED <<phase, refused>> /\ ~Unanswered
          /\ \/ queue[1] = "DISCONNECT" /\ player' = FALSE
             \/ queue[1] = "PAYLOAD" /\ player' = player
      BY <2>2, <2>8, <2>10
         DEF ServerDisconnectEvent, ServerPayloadEvent, connectionVars, vars, Still
    <3>2. ClosesLater
      BY <1>2, <3>1 DEF ClosesLater, Closes
    <3>3. /\ Managed("server") => ~Queues("DISCONNECT") /\ (player \/ refused)
          /\ ~Managed("server") /\ player => Queues("DISCONNECT")
      BY <1>1, <1>2, <3>1 DEF Events
    <3>4. Refusal'
      BY <1>1, <1>2, <2>5, <3>1 DEF Refusal, Still, Managed
    <3>5. Events'
      BY <1>2, <2>2, <2>5, <2>6, <2>7, <3>1, <3>3 DEF Events, Managed
    <3>6. Proceeds("server") /\ ManagerTypes'
      BY <1>1, <1>2, <2>3, <3>1 DEF Proceeds, ManagerTypes
    <3>7. Sends("server") /\ Resets("server")'
      BY <1>1, <3>1, <3>2, StillSends
    <3> QED BY <1>2, <3>1, <3>4, <3>5, <3>6, <3>7, ServerStep
  <2> QED BY <2>1, <2>9, <2>10
<1> QED BY <1>3, <1>4

-----------------------------------------------------------------------------
(* The managers. *)

\* A connection in the map has nothing returned that was sent before.
LEMMA AddConnectionStep ==
  ASSUME SessionInv, LinkInv', NEW s \in Sides, AddConnection(s),
         UNCHANGED ownerVars
  PROVE  SessionInv'
<1> DEFINE p == Peer(s)
<1>1. /\ ManagerTypes /\ LinkInv /\ Refusal /\ Events
      /\ SideOK(s) /\ SideOK(p) /\ p \in Sides /\ p # s /\ Peer(p) = s
      /\ \A t \in Sides : t = s \/ t = p
  BY TypesOf, SideTypes DEF SessionInv
<1>2. /\ Still /\ phase[s] = "establish" /\ state[s] = "READY"
      /\ connection_map' = connection_map \cup {s}
      /\ timestamp_last_received' = [timestamp_last_received EXCEPT ![s] = "fresh"]
      /\ event_queue' = [event_queue EXCEPT ![s] = Append(@, "CONNECT")]
      /\ phase' = [phase EXCEPT ![s] = IF s = "client" THEN "greet" ELSE "receive"]
      /\ UNCHANGED <<connection_remove_list, player, exiting, refused>>
  BY DEF AddConnection, EnterPhase, connectionVars, vars, Still, ownerVars
<1>3. /\ phase'[s] \in {"greet", "receive"} /\ phase'[p] = phase[p]
      /\ s = "server" => phase'[s] = "receive"
      /\ timestamp_last_received'[s] = "fresh"
      /\ timestamp_last_received'[p] = timestamp_last_received[p]
      /\ event_queue'[p] = event_queue[p]
      /\ event_queue'[s] = Append(event_queue[s], "CONNECT")
  BY <1>1, <1>2 DEF ManagerTypes
<1>4. \A t \in Sides : Closes(t)' <=> Closes(t)
  BY <1>2 DEF Closes
<1>5. Calm
  BY <1>2, <1>4, StillCalm DEF ClosesLater
<1>6. ManagerTypes'
  <2>1. Append(event_queue[s], "CONNECT") \in Seq(EventType)
    BY <1>1 DEF ManagerTypes, EventType
  <2> QED BY <1>1, <1>2, <2>1 DEF ManagerTypes, Age, Phases
<1>7. ~Settled(p) /\ ~Settled(s)
  <2>1. Settled(p) => Len(delivered[s]) = Left(p) /\ Left(p) > 0
    BY <1>1 DEF Settled, AllReturned, SideOK, Resets
  <2>2. Len(delivered[s]) = 0
    BY <1>1, <1>2 DEF SideOK, Unmanaged
  <2> QED BY <1>2, <2>1, <2>2 DEF Settled, Final
<1>8. SideOK(s)'
  <2>1. Unmanaged(s)' /\ Resets(s)'
    BY <1>3, <1>5 DEF Unmanaged, Calm
  <2>2. connection_remove_list'[s] = 0
    BY <1>1, <1>2 DEF SideOK, Removal, ManagerTypes
  <2>3. Removal(s)'
    BY <1>1, <1>2, <1>4, <2>2 DEF SideOK, Removal, Unmanaged, Still
  <2>4. Reason(s)'
    BY <1>2, <2>2 DEF Reason, Managed
  <2>5. Acted(s)'
    BY <1>5, <1>7 DEF Acted, Calm
  <2> QED BY <2>1, <2>3, <2>4, <2>5 DEF SideOK
<1>9. SideOK(p)'
  <2>1. /\ Managed(p)' <=> Managed(p)
        /\ connection_remove_list'[p] = connection_remove_list[p]
    BY <1>1, <1>2 DEF Managed
  <2>2. Unmanaged(p)' /\ Resets(p)'
    BY <1>1, <1>2, <1>3, <1>4, <1>5, <2>1 DEF SideOK, Unmanaged, Calm, Still
  <2>3. Removal(p)'
    BY <1>1, <1>2, <1>3, <1>4, <2>1 DEF SideOK, Removal, Still
  <2>4. Reason(p)'
    BY <1>1, <1>2, <1>3, <1>5, <1>7, <2>1 DEF SideOK, Reason, Calm
  <2>5. Acted(p)'
    BY <1>1, <1>5, <1>7 DEF Acted, Calm
  <2> QED BY <2>2, <2>3, <2>4, <2>5 DEF SideOK
<1>10. Refusal' /\ Events'
  <2>1. CASE s = "client"
    <3>1. p = "server"
      BY <2>1 DEF Peer
    <3>2. Managed("server")' <=> Managed("server")
      BY <1>2, <2>1 DEF Managed
    <3> QED BY <1>2, <1>3, <3>1, <3>2, ServerSame DEF Still
  <2>2. CASE s = "server"
    <3>1. event_queue["server"] = <<>> /\ ~player /\ ~refused /\ sent["server"] = 0
      BY <1>1, <1>2, <2>2 DEF Events, SideOK, Unmanaged
    <3>2. event_queue'["server"] = <<"CONNECT">>
      BY <1>3, <2>2, <3>1
    <3>3. Managed("server")' /\ ~Queues("DISCONNECT")' /\ Unanswered'
      BY <1>2, <2>2, <3>2 DEF Managed, Queues, Unanswered
    <3>4. Refusal'
      BY <1>2, <1>3, <2>2, <3>1 DEF Refusal, Still
    <3>5. Events'
      BY <1>2, <1>3, <2>2, <3>1, <3>2, <3>3 DEF Events
    <3> QED BY <3>4, <3>5
  <2> QED BY <2>1, <2>2 DEF Sides
<1>11. SessionTypeOK'
  BY <1>6 DEF SessionTypeOK, ManagerTypes, LinkInv, IInv
<1> QED BY <1>1, <1>8, <1>9, <1>10, <1>11 DEF SessionInv

LEMMA CheckConnectionStep ==
  ASSUME SessionInv, LinkInv', NEW s \in Sides, CheckConnection(s),
         UNCHANGED ownerVars
  PROVE  SessionInv'
<1> DEFINE p == Peer(s)
           listed == IF Managed(s) THEN Listed(s) ELSE 0
<1>1. /\ ManagerTypes /\ LinkInv /\ Refusal /\ Events
      /\ SideOK(s) /\ SideOK(p) /\ p \in Sides /\ p # s /\ Peer(p) = s
      /\ \A t \in Sides : t = s \/ t = p
  BY TypesOf, SideTypes DEF SessionInv
<1>2. /\ phase[s] = "check" /\ phase' = [phase EXCEPT ![s] = "remove"]
      /\ connection_remove_list' = [connection_remove_list EXCEPT ![s] = @ + listed]
      /\ UNCHANGED <<connection_map, timestamp_last_received, event_queue, player,
                     exiting, refused>>
  BY DEF CheckConnection, EnterPhase, ownerVars
<1>3. /\ phase'[s] = "remove" /\ phase'[p] = phase[p] /\ listed \in Nat
      /\ connection_remove_list[s] \in Nat
      /\ connection_remove_list'[s] = connection_remove_list[s] + listed
      /\ connection_remove_list'[p] = connection_remove_list[p]
  BY <1>1, <1>2 DEF ManagerTypes, Listed
<1>4. \A t \in Sides : Closes(t)' <=> Closes(t)
  BY <1>2 DEF Closes
<1>5. Sends(s) /\ Resets(s)' /\ (~KeepAliveDue(s) => Still)
  <2>1. CASE UNCHANGED connectionVars
    <3>1. Still
      BY <2>1 DEF connectionVars, vars, Still
    <3> QED BY <1>4, <3>1, StillSends DEF ClosesLater
  <2>2. CASE KeepAliveDue(s) /\ SendOnConnection(s, "KEEP_ALIVE")
    BY <1>1, <1>4, <2>2, SendOnConnectionEffect DEF SideOK
  <2> QED BY <2>1, <2>2 DEF CheckConnection
<1>6. Calm
  BY <1>2, <1>4, <1>5, SendsCalm DEF ClosesLater
<1>7. ManagerTypes'
  BY <1>1, <1>2, <1>3 DEF ManagerTypes, Phases
<1>8. SideOK(s)'
  <2>1. Unmanaged(s)' /\ Resets(s)'
    BY <1>3, <1>6 DEF Unmanaged, Calm
  <2>2. Removal(s)'
    <3>1. ASSUME Managed(s)', state'[s] = "CLOSED"
          PROVE  connection_remove_list'[s] > 0
      <4>1. Managed(s)
        BY <1>2, <3>1 DEF Managed
      <4>2. state[s] = "CLOSED"
        BY <1>6, <3>1 DEF Calm
      <4>3. listed > 0
        BY <4>1, <4>2 DEF Listed
      <4> QED BY <1>3, <4>3
    <3> QED BY <1>3, <3>1 DEF Removal
  <2>3. state[s] = "CLOSED" => Closes(s)
    BY <1>1 DEF SideOK, Resets, Final
  <2>4. Settled(p) => Closes(p)
    BY <1>1 DEF SideOK, Resets, Settled
  <2>5. Closes(s) /\ Closes(p) => exiting /\ refused
    BY <1>1 DEF Closes, Sides
  <2>6. Closes(s) => exiting \/ refused
    BY DEF Closes
  <2>7. connection_remove_list'[s] > 0 =>
          exiting \/ refused \/ timestamp_last_received[s] = "late"
    BY <1>1, <1>3, <2>3, <2>6 DEF SideOK, Reason, Listed
  <2>8. connection_remove_list'[s] > 1 => exiting /\ refused
    <3> SUFFICES ASSUME connection_remove_list'[s] > 1 PROVE exiting /\ refused
      OBVIOUS
    <3>1. CASE connection_remove_list[s] = 0
      <4>1. Managed(s) /\ state[s] = "CLOSED" /\ timestamp_last_received[s] = "late"
        BY <1>3, <3>1 DEF Listed
      <4> QED BY <1>1, <1>2, <4>1 DEF SideOK, Removal
    <3>2. CASE connection_remove_list[s] > 0
      <4>1. /\ connection_remove_list[s] = 1 /\ Settled(p)
            /\ timestamp_last_received[s] = "fresh"
        BY <1>1, <1>2, <3>2 DEF SideOK, Reason
      <4>2. state[s] = "CLOSED"
        BY <1>3, <4>1 DEF Listed
      <4> QED BY <2>3, <2>4, <2>5, <4>1, <4>2
    <3> QED BY <1>3, <3>1, <3>2
  <2>9. Reason(s)'
    BY <1>1, <1>2, <1>3, <2>7, <2>8 DEF SideOK, Reason, Managed
  <2>10. Acted(s)'
    BY <1>1, <1>2, <1>3, <1>6 DEF SideOK, Acted, Managed, Calm
  <2> QED BY <2>1, <2>2, <2>9, <2>10 DEF SideOK
<1>9. SideOK(p)'
  <2>1. Unmanaged(p)' /\ Resets(p)'
    BY <1>1, <1>2, <1>3, <1>4, <1>6 DEF SideOK, Unmanaged, Calm, Managed
  <2>2. Removal(p)'
    BY <1>1, <1>2, <1>3, <1>4, <1>6 DEF SideOK, Removal, Calm, Managed
  <2>3. Reason(p)'
    BY <1>1, <1>2, <1>3, <1>6 DEF SideOK, Reason, Calm, Managed
  <2>4. Acted(p)'
    BY <1>1, <1>2, <1>3, <1>6 DEF SideOK, Acted, Calm, Managed
  <2> QED BY <2>1, <2>2, <2>3, <2>4 DEF SideOK
<1>10. Refusal' /\ Events'
  <2>1. CASE s = "client"
    <3>1. p = "server"
      BY <2>1 DEF Peer
    <3>2. sent'[p] = sent[p] /\ state'[p] = state[p]
      BY <1>1, <1>5 DEF Sends, OnlyFor
    <3> QED BY <1>2, <1>3, <3>1, <3>2, ServerSame DEF Managed
  <2>2. CASE s = "server"
    <3>1. /\ Unanswered' <=> Unanswered
          /\ \A event : Queues(event)' <=> Queues(event)
      BY <1>2 DEF Unanswered, Queues
    <3>2. Unanswered => Still
      BY <1>1, <1>2, <1>5, <2>2 DEF Refusal, KeepAliveDue
    <3>3. state["server"] \in Final => state'["server"] \in Final
      BY <1>5, <2>2 DEF Sends, Final
    <3>4. Refusal'
      BY <1>1, <1>2, <1>3, <2>2, <3>1, <3>2, <3>3 DEF Refusal, Still, Managed
    <3>5. Events'
      BY <1>1, <1>2, <1>3, <2>2, <3>1 DEF Events, Managed
    <3> QED BY <3>4, <3>5
  <2> QED BY <2>1, <2>2 DEF Sides
<1>11. SessionTypeOK'
  BY <1>7 DEF SessionTypeOK, ManagerTypes, LinkInv, IInv
<1> QED BY <1>1, <1>8, <1>9, <1>10, <1>11 DEF SessionInv

LEMMA EventAppended ==
  ASSUME ManagerTypes, Events, NEW event \in {"PAYLOAD", "DISCONNECT"},
         event_queue'["server"] = Append(event_queue["server"], event)
  PROVE  /\ Unanswered' <=> Unanswered
         /\ Queues("DISCONNECT")' <=> Queues("DISCONNECT") \/ event = "DISCONNECT"
         /\ \A k \in 2 .. Len(event_queue'["server"]) :
              event_queue'["server"][k] # "CONNECT"
<1> DEFINE queue == event_queue["server"]
           longer == event_queue'["server"]
<1>1. /\ queue \in Seq(EventType) /\ Len(queue) \in Nat
      /\ \A k \in 2 .. Len(queue) : queue[k] # "CONNECT"
  BY DEF ManagerTypes, Sides, Events
<1>2. /\ longer # <<>> /\ Len(longer) = Len(queue) + 1
      /\ \A k \in 1 .. Len(queue) : longer[k] = queue[k]
      /\ longer[Len(queue) + 1] = event
  BY <1>1 DEF EventType
<1>3. /\ queue # <<>> <=> 1 \in 1 .. Len(queue)
      /\ queue = <<>> <=> Len(queue) = 0
  BY <1>1
<1>4. Unanswered' <=> Unanswered
  BY <1>1, <1>2, <1>3 DEF Unanswered
<1>5. Queues("DISCONNECT")' <=> Queues("DISCONNECT") \/ event = "DISCONNECT"
  <2> HIDE DEF queue, longer
  <2>1. Queues("DISCONNECT") <=>
          \E k \in 1 .. Len(queue) : queue[k] = "DISCONNECT"
    BY DEF Queues, queue
  <2>2. Queues("DISCONNECT")' <=>
          \E k \in 1 .. Len(longer) : longer[k] = "DISCONNECT"
    BY DEF Queues, longer
  <2>3. \A k \in 1 .. Len(longer) : k \in 1 .. Len(queue) \/ k = Len(queue) + 1
    BY <1>1, <1>2
  <2>4. 1 .. Len(queue) \subseteq 1 .. Len(longer)
        /\ Len(queue) + 1 \in 1 .. Len(longer)
    BY <1>1, <1>2
  <2> QED BY <1>2, <2>1, <2>2, <2>3, <2>4
<1>6. ASSUME NEW k \in 2 .. Len(longer) PROVE longer[k] # "CONNECT"
  <2>1. k \in 2 .. Len(queue) \/ k = Len(queue) + 1
    BY <1>1, <1>2
  <2> QED BY <1>1, <1>2, <2>1
<1> QED BY <1>4, <1>5, <1>6

LEMMA RemoveConnectionsStep ==
  ASSUME SessionInv, LinkInv', NEW s \in Sides, RemoveConnections(s),
         UNCHANGED ownerVars
  PROVE  SessionInv'
<1> DEFINE p == Peer(s)
           next == AfterReceiveMessages(s)
<1>1. /\ ManagerTypes /\ LinkInv /\ Refusal /\ Events
      /\ SideOK(s) /\ SideOK(p) /\ p \in Sides /\ p # s /\ Peer(p) = s
      /\ \A t \in Sides : t = s \/ t = p
  BY TypesOf, SideTypes DEF SessionInv
<1>2. /\ Still /\ phase[s] = "remove" /\ phase' = [phase EXCEPT ![s] = next]
      /\ connection_remove_list' = [connection_remove_list EXCEPT ![s] = 0]
      /\ UNCHANGED <<timestamp_last_received, player, exiting, refused>>
  BY DEF RemoveConnections, EnterPhase, Fail, connectionVars, vars, Still, ownerVars
<1>3. \/ /\ connection_remove_list[s] = 0
         /\ UNCHANGED <<connection_map, event_queue>>
      \/ /\ connection_remove_list[s] > 0
         /\ connection_map' = connection_map \ {s}
         /\ event_queue' = [event_queue EXCEPT ![s] = Append(@, "DISCONNECT")]
  BY DEF RemoveConnections
<1>4. /\ phase'[s] = next /\ phase'[p] = phase[p]
      /\ next = IF s = "client" THEN "events" ELSE "handle"
      /\ connection_remove_list'[s] = 0
      /\ connection_remove_list'[p] = connection_remove_list[p]
      /\ connection_remove_list[s] \in Nat
      /\ Managed(p)' <=> Managed(p)
      /\ IF connection_remove_list[s] = 0 THEN Managed(s)' <=> Managed(s)
                                          ELSE ~Managed(s)'
  BY <1>1, <1>2, <1>3 DEF ManagerTypes, AfterReceiveMessages, Managed
<1>5. \A t \in Sides : Closes(t)' <=> Closes(t)
  BY <1>2 DEF Closes
<1>6. Calm
  BY <1>2, <1>5, StillCalm DEF ClosesLater
<1>7. ManagerTypes'
  <2>1. Append(event_queue[s], "DISCONNECT") \in Seq(EventType)
    BY <1>1 DEF ManagerTypes, EventType
  <2>2. event_queue' \in [Sides -> Seq(EventType)]
    BY <1>1, <1>3, <2>1 DEF ManagerTypes
  <2>3. connection_map' \subseteq Sides
    BY <1>1, <1>3 DEF ManagerTypes
  <2> QED BY <1>1, <1>2, <1>4, <2>2, <2>3 DEF ManagerTypes, Phases
<1>8. SideOK(s)'
  <2>1. Unmanaged(s)' /\ Resets(s)'
    BY <1>4, <1>6 DEF Unmanaged, Calm
  <2>2. Removal(s)'
    <3>1. Managed(s)' => state'[s] # "CLOSED"
      BY <1>1, <1>2, <1>4, <1>6 DEF SideOK, Removal, Calm
    <3> QED BY <1>4, <3>1 DEF Removal
  <2>3. Reason(s)'
    BY <1>1, <1>2, <1>4 DEF SideOK, Reason
  <2>4. Acted(s)'
    BY <1>1, <1>4, <1>6 DEF SideOK, Acted, Calm
  <2> QED BY <2>1, <2>2, <2>3, <2>4 DEF SideOK
<1>9. SideOK(p)'
  <2>1. Unmanaged(p)' /\ Resets(p)'
    BY <1>1, <1>2, <1>4, <1>5, <1>6 DEF SideOK, Unmanaged, Calm
  <2>2. Removal(p)'
    BY <1>1, <1>2, <1>4, <1>5, <1>6 DEF SideOK, Removal, Calm
  <2>3. Reason(p)'
    BY <1>1, <1>2, <1>4, <1>6 DEF SideOK, Reason, Calm
  <2>4. Acted(p)'
    BY <1>1, <1>4, <1>6 DEF SideOK, Acted, Calm
  <2> QED BY <2>1, <2>2, <2>3, <2>4 DEF SideOK
<1>10. Refusal' /\ Events'
  <2>1. CASE s = "client"
    <3>1. p = "server"
      BY <2>1 DEF Peer
    <3>2. event_queue'["server"] = event_queue["server"]
      BY <1>1, <1>3, <2>1, <3>1 DEF ManagerTypes
    <3>3. /\ phase'["server"] = phase["server"]
          /\ Managed("server")' <=> Managed("server")
      BY <1>4, <3>1
    <3> QED BY <1>2, <3>2, <3>3, ServerSame DEF Still
  <2>2. CASE s = "server"
    <3>1. phase'["server"] = "handle" /\ phase["server"] = "remove"
      BY <1>2, <1>4, <2>2
    <3>2. CASE connection_remove_list[s] = 0
      <4>1. /\ Managed("server")' <=> Managed("server")
            /\ event_queue' = event_queue
        BY <1>3, <1>4, <2>2, <3>2
      <4>2. /\ Unanswered' <=> Unanswered
            /\ \A event : Queues(event)' <=> Queues(event)
        BY <4>1 DEF Unanswered, Queues
      <4>3. Refusal'
        BY <1>1, <1>2, <3>1, <4>1, <4>2 DEF Refusal, Still
      <4>4. Events'
        BY <1>1, <1>2, <3>1, <4>1, <4>2 DEF Events
      <4> QED BY <4>3, <4>4
    <3>3. CASE connection_remove_list[s] > 0
      <4>1. /\ ~Managed("server")'
            /\ event_queue'["server"] = Append(event_queue["server"], "DISCONNECT")
        BY <1>1, <1>3, <1>4, <2>2, <3>3 DEF ManagerTypes
      <4>2. /\ Unanswered' <=> Unanswered
            /\ Queues("DISCONNECT")'
            /\ \A k \in 2 .. Len(event_queue'["server"]) :
                 event_queue'["server"][k] # "CONNECT"
        BY <1>1, <4>1, EventAppended
      <4>3. Refusal'
        BY <1>1, <1>2, <3>1, <4>1, <4>2 DEF Refusal, Still
      <4>4. Events'
        BY <1>1, <1>2, <3>1, <4>1, <4>2 DEF Events
      <4> QED BY <4>3, <4>4
    <3> QED BY <1>4, <3>2, <3>3
  <2> QED BY <2>1, <2>2 DEF Sides
<1>11. SessionTypeOK'
  BY <1>7 DEF SessionTypeOK, ManagerTypes, LinkInv, IInv
<1> QED BY <1>1, <1>8, <1>9, <1>10, <1>11 DEF SessionInv

\* A message has been returned: "removals" is 1 if it is a CONNECTION_RESET,
\* the first that the peer's owner gets.
LEMMA ReturnedStep ==
  ASSUME SessionInv, LinkInv', NEW s \in Sides,
         phase[s] = "receive", Managed(s),
         timestamp_last_received' = [timestamp_last_received EXCEPT ![s] = "fresh"],
         UNCHANGED <<connection_map, phase, player, exiting, refused, sent>>,
         NEW removals \in {0, 1},
         connection_remove_list' =
           [connection_remove_list EXCEPT ![s] = @ + removals],
         NEW events \in {<<>>, <<"PAYLOAD">>},
         event_queue' = [event_queue EXCEPT ![s] = @ \o events],
         state'[Peer(s)] = state[Peer(s)],
         \/ state'[s] = state[s]
         \/ state[s] \in Final /\ state'[s] = "CLOSED"
         \/ state[s] = "WAITING_FOR_ACKNOWLEDGE" /\ state'[s] = "READY",
         delivered'[Peer(s)] = delivered[Peer(s)],
         \A t \in Sides : Resets(t)',
         Settled(s)' <=> Settled(s),
         Settled(Peer(s))' <=> Settled(Peer(s)) \/ removals = 1,
         removals = 1 => connection_remove_list[s] = 0
  PROVE  SessionInv'
<1> DEFINE p == Peer(s)
<1>1. /\ ManagerTypes /\ LinkInv /\ Refusal /\ Events
      /\ SideOK(s) /\ SideOK(p) /\ p \in Sides /\ p # s /\ Peer(p) = s
      /\ \A t \in Sides : t = s \/ t = p
  BY TypesOf, SideTypes DEF SessionInv
<1>2. /\ timestamp_last_received'[s] = "fresh"
      /\ timestamp_last_received'[p] = timestamp_last_received[p]
      /\ connection_remove_list[s] \in Nat
      /\ connection_remove_list'[s] = connection_remove_list[s] + removals
      /\ connection_remove_list'[p] = connection_remove_list[p]
      /\ event_queue'[p] = event_queue[p]
      /\ event_queue'[s] = event_queue[s] \o events
  BY <1>1 DEF ManagerTypes
<1>3. \A t \in Sides : (Closes(t)' <=> Closes(t)) /\ (Managed(t)' <=> Managed(t))
  BY DEF Closes, Managed
<1>4. /\ event_queue[s] \in Seq(EventType)
      /\ event_queue[s] \o <<>> = event_queue[s]
      /\ event_queue[s] \o <<"PAYLOAD">> = Append(event_queue[s], "PAYLOAD")
  BY <1>1 DEF ManagerTypes, EventType
<1>5. ManagerTypes'
  <2>1. Append(event_queue[s], "PAYLOAD") \in Seq(EventType)
    BY <1>4 DEF EventType
  <2>2. event_queue[s] \o events \in Seq(EventType)
    BY <1>4, <2>1
  <2> QED BY <1>1, <1>2, <2>2 DEF ManagerTypes, Age
<1>6. SideOK(s)'
  <2>1. Unmanaged(s)' /\ Removal(s)'
    BY <1>2 DEF Unmanaged, Removal
  <2>2. connection_remove_list'[s] > 0 =>
          connection_remove_list'[s] = 1 /\ Settled(p)'
    BY <1>1, <1>2 DEF SideOK, Reason
  <2>3. Settled(p)' => Closes(p)'
    BY <1>1 DEF Resets, Settled
  <2>4. Closes(p)' => exiting' \/ refused'
    BY DEF Closes
  <2>5. Reason(s)'
    BY <1>2, <1>3, <2>2, <2>3, <2>4 DEF Reason
  <2>6. Acted(s)'
    BY <1>1, <1>2, <1>3 DEF SideOK, Acted
  <2> QED BY <2>1, <2>5, <2>6 DEF SideOK
<1>7. SideOK(p)'
  <2>1. Unmanaged(p)' /\ Removal(p)'
    BY <1>1, <1>2, <1>3 DEF SideOK, Unmanaged, Removal
  <2>2. Reason(p)'
    BY <1>1, <1>2, <1>3 DEF SideOK, Reason
  <2>3. Acted(p)'
    BY <1>1, <1>2, <1>3 DEF SideOK, Acted
  <2> QED BY <1>1, <2>1, <2>2, <2>3 DEF SideOK
<1>8. Refusal' /\ Events'
  <2>1. CASE s = "client"
    <3>1. p = "server"
      BY <2>1 DEF Peer
    <3>2. "server" \in Sides
      BY DEF Sides
    <3> QED BY <1>2, <1>3, <3>1, <3>2, ServerSame
  <2>2. CASE s = "server"
    <3>1. /\ Unanswered' <=> Unanswered
          /\ Queues("DISCONNECT")' <=> Queues("DISCONNECT")
          /\ \A k \in 2 .. Len(event_queue'["server"]) :
               event_queue'["server"][k] # "CONNECT"
      <4>1. CASE events = <<>>
        BY <1>1, <1>2, <1>4, <2>2, <4>1 DEF Unanswered, Queues, Events
      <4>2. CASE events = <<"PAYLOAD">>
        BY <1>1, <1>2, <1>4, <2>2, <4>2, EventAppended
      <4> QED BY <4>1, <4>2
    <3>2. Refusal'
      BY <1>1, <1>2, <1>3, <2>2, <3>1 DEF Refusal, Final
    <3>3. Events'
      BY <1>1, <1>2, <1>3, <2>2, <3>1 DEF Events
    <3> QED BY <3>2, <3>3
  <2> QED BY <2>1, <2>2 DEF Sides
<1>9. SessionTypeOK'
  BY <1>5 DEF SessionTypeOK, ManagerTypes, LinkInv, IInv
<1> QED BY <1>1, <1>6, <1>7, <1>8, <1>9 DEF SessionInv

LEMMA MessageReturnedStep ==
  ASSUME SessionInv, LinkInv', NEW s \in Sides, MessageReturned(s),
         UNCHANGED ownerVars
  PROVE  SessionInv'
<1> DEFINE p == Peer(s)
<1>1. /\ LinkInv /\ Resets(s) /\ Resets(p) /\ Reason(s)
      /\ p \in Sides /\ p # s /\ Peer(p) = s /\ \A t \in Sides : t = s \/ t = p
      /\ connection_remove_list[s] \in Nat
  BY SideTypes, TypesOf DEF SessionInv, SideOK, ManagerTypes
<1>2. /\ phase[s] = "receive" /\ Managed(s)
      /\ timestamp_last_received' = [timestamp_last_received EXCEPT ![s] = "fresh"]
      /\ event_queue' =
           [event_queue EXCEPT ![s] = @ \o EventsOf(Received(s).type)]
      /\ connection_remove_list' =
           [connection_remove_list EXCEPT ![s] = @ + RemovalsOf(Received(s).type)]
      /\ UNCHANGED <<connection_map, phase, player, exiting, refused>>
  BY DEF MessageReturned, ownerVars
<1>3. CASE ReceiveAcknowledge(s)
  <2>1. /\ OnlyFor(s) /\ UNCHANGED <<sent, send_message_queue, delivered>>
        /\ \/ state'[s] = state[s]
           \/ state[s] \in Final /\ state'[s] = "CLOSED"
           \/ state[s] = "WAITING_FOR_ACKNOWLEDGE" /\ state'[s] = "READY"
        /\ Resets(s)'
    BY <1>1, <1>2, <1>3, AcknowledgeEffect
  <2>2. IsAck(Received(s))
    BY <1>3 DEF ReceiveAcknowledge
  <2>3. EventsOf(Received(s).type) = <<>> /\ RemovalsOf(Received(s).type) = 0
    BY <2>2 DEF IsAck, EventsOf, RemovalsOf
  <2>4. \A t \in Sides : Closes(t)' <=> Closes(t)
    BY <1>2 DEF Closes
  <2>5. \A t \in Sides : Resets(t)'
    BY <1>1, <2>1, <2>4, ResetsSame DEF OnlyFor
  <2>6. \A t \in Sides : AllReturned(t)' <=> AllReturned(t)
    BY <2>1 DEF AllReturned, Left
  <2>7. state'[p] = state[p] /\ (Settled(p)' <=> Settled(p))
    BY <1>1, <2>1, <2>6 DEF OnlyFor, Settled
  <2>8. Settled(s)' <=> Settled(s)
    BY <2>1, <2>6 DEF Settled, Final
  <2>9. /\ EventsOf(Received(s).type) \in {<<>>, <<"PAYLOAD">>}
        /\ RemovalsOf(Received(s).type) \in {0, 1}
        /\ RemovalsOf(Received(s).type) # 1
    BY <2>3
  <2>10. Settled(p)' <=> Settled(p) \/ RemovalsOf(Received(s).type) = 1
    BY <2>7, <2>9
  <2> QED BY <1>2, <2>1, <2>5, <2>7, <2>8, <2>9, <2>10, ReturnedStep
<1>4. CASE ReceiveOther(s)
  <2>1. /\ UNCHANGED <<state, sent, send_message_queue>>
        /\ delivered'[p] = delivered[p]
        /\ state[p] \in Waiting /\ ~AllReturned(p)
        /\ IsReset(Received(s)) <=> state[p] \in Final
        /\ AllReturned(p)'
        /\ \A t \in Sides : Resets(t)'
    BY <1>1, <1>2, <1>4, OtherEffect
  <2>2. /\ EventsOf(Received(s).type) \in {<<>>, <<"PAYLOAD">>}
        /\ RemovalsOf(Received(s).type) \in {0, 1}
        /\ RemovalsOf(Received(s).type) = 1 <=> IsReset(Received(s))
    BY DEF EventsOf, RemovalsOf, IsReset
  <2>3. connection_remove_list[s] = 0
    BY <1>1, <1>2, <2>1 DEF Reason, Settled
  <2>4. Settled(s)' <=> Settled(s)
    BY <2>1 DEF Settled, AllReturned, Left
  <2>5. Settled(p)' <=> Settled(p) \/ RemovalsOf(Received(s).type) = 1
    BY <2>1, <2>2 DEF Settled
  <2> QED BY <1>2, <2>1, <2>2, <2>3, <2>4, <2>5, ReturnedStep
<1> QED BY <1>3, <1>4 DEF MessageReturned

-----------------------------------------------------------------------------
(* The invariant and what follows from it. *)

LEMMA InitSession == SessionInit => SessionInv
<1> SUFFICES ASSUME SessionInit PROVE SessionInv
  OBVIOUS
<1>1. LinkInv
  BY InitLink DEF SessionInit, LinkInv
<1>2. /\ connection_map = {}
      /\ timestamp_last_received = [s \in Sides |-> "fresh"]
      /\ connection_remove_list = [s \in Sides |-> 0]
      /\ event_queue = [s \in Sides |-> <<>>]
      /\ phase = [s \in Sides |-> "establish"]
      /\ player = FALSE /\ exiting = FALSE /\ refused = FALSE
  BY DEF SessionInit, InitManagers
<1>3. SessionTypeOK
  <2>1. event_queue \in [Sides -> Seq(EventType)]
    BY <1>2
  <2>2. phase \in [Sides -> Phases] /\ timestamp_last_received \in [Sides -> Age]
    BY <1>2 DEF Phases, Age
  <2>3. connection_remove_list \in [Sides -> Nat] /\ connection_map \subseteq Sides
    BY <1>2
  <2>4. TypeOK
    BY <1>1 DEF LinkInv, IInv
  <2> QED BY <1>2, <2>1, <2>2, <2>3, <2>4 DEF SessionTypeOK
<1>4. ASSUME NEW s \in Sides PROVE SideOK(s)
  <2>1. /\ state[s] \in {"CLIENT_CONNECTION_START", "SERVER_WAITING_FOR_FIRST"}
        /\ sent[s] = 0 /\ delivered[s] = <<>> /\ send_message_queue[s] = <<>>
    BY DEF SessionInit, Init
  <2>2. state[s] \notin Waiting \cup Final
    BY <2>1 DEF Waiting, Final
  <2>3. Resets(s)
    <3>1. \A k \in 1 .. Len(send_message_queue[s]) : FALSE
      BY <2>1
    <3> QED BY <2>2, <3>1 DEF Resets, LastReset
  <2>4. ~Managed(s) /\ ~Closes(s) /\ phase[s] = "establish"
        /\ connection_remove_list[s] = 0
    BY <1>2 DEF Managed, Closes
  <2>5. state[s] # "CLOSED"
    BY <2>1
  <2>6. Unmanaged(s)
    BY <2>1, <2>2, <2>4, <2>5 DEF Unmanaged
  <2>7. Removal(s) /\ Reason(s)
    BY <2>4 DEF Removal, Reason
  <2>8. Acted(s)
    BY <2>2 DEF Acted, Settled
  <2> QED BY <2>3, <2>6, <2>7, <2>8 DEF SideOK
<1>5. event_queue["server"] = <<>> /\ phase["server"] = "establish"
  BY <1>2 DEF Sides
<1>6. Refusal /\ Events
  <2>1. \A k \in 2 .. Len(event_queue["server"]) : FALSE
    BY <1>5
  <2> QED BY <1>2, <1>5, <2>1 DEF Refusal, Events, Unanswered
<1> QED BY <1>1, <1>3, <1>4, <1>6 DEF SessionInv

LEMMA StutterStep ==
  ASSUME SessionInv, LinkInv', UNCHANGED allVars
  PROVE  SessionInv'
<1>1. /\ Still /\ UNCHANGED <<connection_map, timestamp_last_received,
                              connection_remove_list, event_queue, phase,
                              player, exiting, refused>>
  BY DEF allVars, connectionVars, vars, managerVars, ownerVars, Still
<1>2. ManagerTypes'
  BY <1>1, TypesOf DEF ManagerTypes
<1> QED BY <1>1, <1>2, StillStep

LEMMA SessionStep == SessionInv /\ [SessionNext]_allVars => SessionInv'
<1> SUFFICES ASSUME SessionInv, [SessionNext]_allVars PROVE SessionInv'
  OBVIOUS
<1>1. LinkInv'
  BY SessionLink DEF SessionInv
<1>2. CASE UNCHANGED allVars
  BY <1>1, <1>2, StutterStep
<1>3. ASSUME NEW s \in Sides, Establish(s) PROVE SessionInv'
  BY <1>1, <1>3, EstablishStep
<1>4. ASSUME NEW s \in Sides, Greet(s) PROVE SessionInv'
  BY <1>1, <1>4, GreetStep
<1>5. ASSUME NEW s \in Sides, ManagerStep(s) PROVE SessionInv'
  <2>1. UNCHANGED ownerVars
    BY <1>5 DEF ManagerStep
  <2>2. CASE AddConnection(s)
    BY <1>1, <2>1, <2>2, AddConnectionStep
  <2>3. CASE ReceivingMessage(s)
    BY <1>1, <2>1, <2>3, StillSteps
  <2>4. CASE MessageReturned(s)
    BY <1>1, <2>1, <2>4, MessageReturnedStep
  <2>5. CASE NoMessageReturned(s)
    BY <1>1, <2>1, <2>5, NoMessageReturnedStep
  <2>6. CASE CheckConnection(s)
    BY <1>1, <2>1, <2>6, CheckConnectionStep
  <2>7. CASE RemoveConnections(s)
    BY <1>1, <2>1, <2>7, RemoveConnectionsStep
  <2> QED BY <1>5, <2>2, <2>3, <2>4, <2>5, <2>6, <2>7 DEF ManagerStep
<1>6. CASE ClientLoop
  BY <1>1, <1>6, ClientLoopStep
<1>7. CASE ServerLoop
  <2>1. CASE (ServerStarts \/ ServerHandles) /\ UNCHANGED ownerVars
    BY <1>1, <2>1, ServerStartsStep
  <2>2. CASE ServerHandlesEvents
    BY <1>1, <2>2, ServerHandlesEventsStep
  <2> QED BY <1>7, <2>1, <2>2 DEF ServerLoop
<1>8. ASSUME NEW s \in Sides, Damage(s) \/ TimePasses(s) \/ Kill(s)
      PROVE  SessionInv'
  BY <1>1, <1>8, StillSteps
<1>9. CASE ClientSendsChange \/ ClientExits
  BY <1>1, <1>9, ClientSendsStep
<1>10. CASE ServerSendsWorld
  BY <1>1, <1>10, ServerSendsWorldStep
<1> QED BY <1>2, <1>3, <1>4, <1>5, <1>6, <1>7, <1>8, <1>9, <1>10
        DEF SessionNext, Loop

LEMMA SessionInvariant == SessionSpec => []SessionInv
  BY InitSession, SessionStep, PTL DEF SessionSpec

\* In a session of any length, with any number of messages, damaged frames
\* and intervals, the variables of connections, managers and owners keep their
\* types.
THEOREM SessionTypeCorrect == SessionSpec => []SessionTypeOK
<1>1. SessionInv => SessionTypeOK
  BY DEF SessionInv
<1> QED BY <1>1, SessionInvariant, PTL

\* However close_connection.md's exchange is interleaved with changes, events,
\* KEEP_ALIVEs, resends and the other side's own CloseConnection, a side whose
\* CONNECTION_RESET is acknowledged has had everything before it returned, and
\* its peer's ConnectionManager drops the connection.
THEOREM NoHalfOpenConnection == SessionSpec => []ClosedOnBothSides
<1>1. SessionInv => ClosedOnBothSides
  <2> SUFFICES ASSUME SessionInv, NEW s \in Sides, state[s] = "CLOSED"
               PROVE
        /\ Peer(s) \notin connection_map \/ connection_remove_list[Peer(s)] > 0
        /\ delivered[Peer(s)] =
             [n \in 1 .. sent[s] - Len(send_message_queue[s]) |-> n]
        /\ \A k \in 1 .. Len(send_message_queue[s]) :
             send_message_queue[s][k].type = "KEEP_ALIVE"
    BY DEF ClosedOnBothSides
  <2>1. LinkInv /\ SideOK(s)
    BY DEF SessionInv
  <2>2. delivered[Peer(s)] =
          [n \in 1 .. sent[s] - Len(send_message_queue[s]) |-> n]
    BY <2>1, LinkDelivers DEF ReadyMeansDelivered
  <2>3. Settled(s)
    BY <2>1, AllReturnedWhen DEF Settled, Final
  <2>4. Peer(s) \notin connection_map \/ connection_remove_list[Peer(s)] > 0
    BY <2>1, <2>3 DEF SideOK, Acted, Managed
  <2>5. \A k \in 1 .. Len(send_message_queue[s]) :
          send_message_queue[s][k].type = "KEEP_ALIVE"
    BY <2>1 DEF SideOK, Resets, LastReset, Final
  <2> QED BY <2>2, <2>4, <2>5
<1> QED BY <1>1, SessionInvariant, PTL

\* Each time GameServer sends the world, its players and the connections of its
\* ServerSideConnectionManager agree, whatever CONNECT, DISCONNECT and refusal
\* were queued together.
THEOREM PlayersAreConnected == SessionSpec => []PlayersHaveConnections
<1>1. SessionInv => PlayersHaveConnections
  <2> SUFFICES ASSUME SessionInv, phase["server"] = "owner"
               PROVE  /\ player => Managed("server")
                      /\ Managed("server") => player \/ refused
    BY DEF PlayersHaveConnections
  <2>1. Events /\ event_queue["server"] = <<>>
    BY DEF SessionInv, Events
  <2>2. ~Unanswered
    BY <2>1 DEF Unanswered
  <2>3. ~Queues("DISCONNECT")
    <3>1. \A k \in 1 .. Len(event_queue["server"]) : FALSE
      BY <2>1
    <3> QED BY <3>1 DEF Queues
  <2> QED BY <2>1, <2>2, <2>3 DEF Events
<1> QED BY <1>1, SessionInvariant, PTL

\* ReceiveMessages removes no connection because of damage, resends or
\* keep-alives: somebody has called CloseConnection, or the timeout has passed.
THEOREM DisconnectsHaveReasons == SessionSpec => []DisconnectHasReason
<1>1. SessionInv => DisconnectHasReason
  BY DEF SessionInv, SideOK, Reason, DisconnectHasReason
<1> QED BY <1>1, SessionInvariant, PTL

\* ReceiveMessages puts a partner on connection_remove_list once, so that
\* RemoveConnection does not throw, unless both owners have closed.
THEOREM RemovalsAreSingle == SessionSpec => []RemovedOnce
<1>1. SessionInv => RemovedOnce
  <2> SUFFICES ASSUME SessionInv, NEW s \in Sides
               PROVE  connection_remove_list[s] <= 1 \/ (exiting /\ refused)
    BY DEF RemovedOnce
  <2>1. connection_remove_list[s] \in Nat
    BY DEF SessionInv, SessionTypeOK
  <2>2. Reason(s)
    BY DEF SessionInv, SideOK
  <2> QED BY <2>1, <2>2 DEF Reason
<1> QED BY <1>1, SessionInvariant, PTL
=============================================================================
