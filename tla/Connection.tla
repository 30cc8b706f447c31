----------------------------- MODULE Connection -----------------------------
(***************************************************************************)
(* The two Connection objects of one link (connection/Connection.cpp): the *)
(* client's and the server's.  Each endpoint runs in a process of its own  *)
(* and is used by one thread at a time; the endpoints interleave through   *)
(* the two byte streams between them, each a FIFO of message frames.       *)
(*                                                                         *)
(* A connection numbers what it sends, keeps every frame that may not have *)
(* arrived (unacknowledged_sent_message), resends all of it when its timer *)
(* elapses or when the other side answers NOT_ACKNOWLEDGE, accepts only    *)
(* the frame that follows the last one it accepted, and hands out at most  *)
(* one message (RESPONSE, PAYLOAD, KEEP_ALIVE, RESET) at a time: the next  *)
(* leaves send_message_queue when the previous one is acknowledged.        *)
(*                                                                         *)
(* Left out: the statistics counters (they never steer the protocol), time *)
(* stamps (a timer is a choice: elapsed or not), and message contents (a   *)
(* payload is the number of the SendMessage call that queued it).          *)
(***************************************************************************)
EXTENDS Integers, Sequences

CONSTANTS
  SequenceModulus,      \* 2^16: sequence_t is uint16_t
  ClientFirstSequence,  \* 1200
  ServerFirstSequence,  \* 3400
  Kinds,                \* the types the owner passes to SendMessage
  MaxSent,              \* bound: SendMessage calls per side
  MaxErrors,            \* bound: frames damaged on the way
  MaxBacklog,           \* bound: a resend timer elapses only while at most
                        \*   this many frames are on their way to the peer
  MayTimeOut            \* whether ReceiveWithTimeout may run out of time

ASSUME SequenceAssumption ==
  /\ SequenceModulus \in Nat /\ SequenceModulus > 1
  /\ ClientFirstSequence \in 0 .. SequenceModulus - 1
  /\ ServerFirstSequence \in 0 .. SequenceModulus - 1

ASSUME KindsAssumption ==
  Kinds \subseteq {"PAYLOAD", "KEEP_ALIVE", "CONNECTION_RESET"}

ASSUME BoundAssumption ==
  /\ MaxSent \in Nat /\ MaxErrors \in Nat /\ MaxBacklog \in Nat
  /\ MayTimeOut \in BOOLEAN

VARIABLES
  state,                          \* ConnectionState of each side
  sequence_counter,               \* the next sequence to give out
  last_send_sequence,             \* of the last message that is not an ACK
  last_received_sequence_counter, \* of the last frame accepted, or none
  unacknowledged_sent_message,    \* frames to resend, oldest first
  send_message_queue,             \* messages not sent yet
  receive_message_queue,          \* frames accepted, not yet returned
  stream,                         \* frames on their way to each side
  pc,                             \* how far ReceiveMessage has come
  exception,                      \* what ended the side, if anything
  sent,                           \* SendMessage calls of each side so far
  delivered,                      \* payloads ReceiveMessage returned
  errors                          \* frames damaged so far

vars == <<state, sequence_counter, last_send_sequence,
          last_received_sequence_counter, unacknowledged_sent_message,
          send_message_queue, receive_message_queue, stream, pc, exception,
          sent, delivered, errors>>

-----------------------------------------------------------------------------
(* Sides, states and frames. *)

Sides == {"client", "server"}
Peer(s) == IF s = "client" THEN "server" ELSE "client"

ConnectionState ==
  {"CLIENT_CONNECTION_START", "CLIENT_CONNECTION_REQUEST_SENT",
   "SERVER_WAITING_FOR_FIRST", "SERVER_CONNECTION_RESPONSE_SENT",
   "READY", "WAITING_FOR_ACKNOWLEDGE",
   "WAITING_FOR_CONNECTION_RESET_ACKNOWLEDGE", "CLOSED"}

\* ReceiveWithTimeout runs in these states,
HandshakeStates == {"CLIENT_CONNECTION_REQUEST_SENT",
                    "SERVER_WAITING_FOR_FIRST",
                    "SERVER_CONNECTION_RESPONSE_SENT"}
\* Handle and ReceiveMessage assert these.
OpenStates == {"READY", "WAITING_FOR_ACKNOWLEDGE",
               "WAITING_FOR_CONNECTION_RESET_ACKNOWLEDGE"}

MessageType == {"CONNECTION_REQUEST", "CONNECTION_RESPONSE", "PAYLOAD",
                "KEEP_ALIVE", "CONNECTION_RESET", "ACKNOWLEDGE",
                "NOT_ACKNOWLEDGE"}

Sequence == 0 .. SequenceModulus - 1
NoSequence == -1        \* last_received_sequence_counter has no value

\* What a side sends.  "DAMAGED" is a frame no decoder accepts.
Frame == [type : MessageType \cup {"DAMAGED"}, seq : Sequence,
          acknowledged : Sequence, payload : Nat]
Damaged == [type |-> "DAMAGED", seq |-> 0, acknowledged |-> 0, payload |-> 0]
\* "the sequence of NACKs is never read": 4444 in the code.
Nack == [type |-> "NOT_ACKNOWLEDGE", seq |-> 0, acknowledged |-> 0,
         payload |-> 0]

\* A message in the send queue has no sequence yet.
Queued == [type : Kinds, payload : Nat]

IsAck(frame) == frame.type = "ACKNOWLEDGE"

-----------------------------------------------------------------------------
(* The list unacknowledged_sent_message. *)

\* Mutant: clear(), as in the handshake, instead of remove_if.
WithoutAcksClears(frames) == <<>>

\* remove_if(type == ACKNOWLEDGE)
WithoutAcks(frames) ==
  LET kept[n \in 0 .. Len(frames)] ==
        IF n = 0 THEN <<>>
        ELSE IF IsAck(frames[n]) THEN kept[n-1]
             ELSE Append(kept[n-1], frames[n])
  IN kept[Len(frames)]

\* erase(begin, ++find(seq)), nothing when it is not in the list
AfterAcknowledged(frames, seq) ==
  LET hits == {i \in 1 .. Len(frames) : frames[i].seq = seq}
      first == CHOOSE i \in hits : \A j \in hits : i <= j
  IN IF hits = {} THEN frames ELSE SubSeq(frames, first + 1, Len(frames))

-----------------------------------------------------------------------------
Init ==
  /\ state = [s \in Sides |-> IF s = "client" THEN "CLIENT_CONNECTION_START"
                              ELSE "SERVER_WAITING_FOR_FIRST"]
  /\ sequence_counter = [s \in Sides |-> IF s = "client"
                                         THEN ClientFirstSequence
                                         ELSE ServerFirstSequence]
  /\ last_send_sequence = [s \in Sides |-> 0]
  /\ last_received_sequence_counter = [s \in Sides |-> NoSequence]
  /\ unacknowledged_sent_message = [s \in Sides |-> <<>>]
  /\ send_message_queue = [s \in Sides |-> <<>>]
  /\ receive_message_queue = [s \in Sides |-> <<>>]
  /\ stream = [s \in Sides |-> <<>>]
  /\ pc = [s \in Sides |-> "idle"]
  /\ exception = [s \in Sides |-> "none"]
  /\ sent = [s \in Sides |-> 0]
  /\ delivered = [s \in Sides |-> <<>>]
  /\ errors = 0

-----------------------------------------------------------------------------
(* Sending. *)

\* Mutant: a counter wider than the type of the sequence.
NextSequenceWide(seq) == seq + 1

\* GenerateSequence: uint16_t, so the counter wraps.
NextSequence(seq) == IF seq = SequenceModulus - 1 THEN 0 ELSE seq + 1

\* The frame SendMessageNow makes of a message.
Stamped(s, type, acknowledged, payload) ==
  [type |-> type, seq |-> sequence_counter[s], acknowledged |-> acknowledged,
   payload |-> payload]

\* SendMessageNow for everything but a NACK.  "resent" is what
\* ResendIfNecessary has put on the stream just before, "kept" the list of
\* unacknowledged frames at the time of the call.
SendMessageNow(s, frame, resent, kept) ==
  /\ sequence_counter' = [sequence_counter EXCEPT ![s] = NextSequence(@)]
  /\ last_send_sequence' =
       IF IsAck(frame) THEN last_send_sequence
       ELSE [last_send_sequence EXCEPT ![s] = frame.seq]
  /\ stream' = [stream EXCEPT ![Peer(s)] = (@ \o resent) \o <<frame>>]
  /\ unacknowledged_sent_message' =
       [unacknowledged_sent_message EXCEPT ![s] = Append(kept, frame)]

Alive(s) == exception[s] = "none"

\* now - timestamp_last_change >= resend_interval.
ResendTimerElapsed(s) == Len(stream[Peer(s)]) <= MaxBacklog

\* The state SendMessageNow enters when it expects an acknowledge.
AwaitingState(type) ==
  IF type = "CONNECTION_RESET"
  THEN "WAITING_FOR_CONNECTION_RESET_ACKNOWLEDGE"
  ELSE "WAITING_FOR_ACKNOWLEDGE"

\* Mutant: the test for READY is missing.
MaySendNextUnasked(s, queue) == queue # <<>>

\* A message leaves the queue only in READY.
MaySendNext(s, queue) == state[s] = "READY" /\ queue # <<>>

\* Handle with the send queue "queue": resend if the timer has elapsed, then
\* send the next message if the last one is acknowledged.
HandleQueue(s, queue, elapsed) ==
  LET resent == IF elapsed THEN unacknowledged_sent_message[s] ELSE <<>>
  IN
  /\ Alive(s) /\ pc[s] = "idle" /\ state[s] \in OpenStates
  /\ elapsed => ResendTimerElapsed(s)
  /\ \/ /\ MaySendNext(s, queue)
        /\ SendMessageNow(s, Stamped(s, Head(queue).type, 0,
                                     Head(queue).payload),
                          resent, unacknowledged_sent_message[s])
        /\ send_message_queue' = [send_message_queue EXCEPT ![s] = Tail(queue)]
        /\ state' = [state EXCEPT ![s] = AwaitingState(Head(queue).type)]
     \/ /\ ~MaySendNext(s, queue)
        /\ stream' = [stream EXCEPT ![Peer(s)] = @ \o resent]
        /\ send_message_queue' = [send_message_queue EXCEPT ![s] = queue]
        /\ UNCHANGED <<state, sequence_counter, last_send_sequence,
                       unacknowledged_sent_message>>
  /\ UNCHANGED <<last_received_sequence_counter, receive_message_queue, pc,
                 exception, delivered, errors>>

\* Handle, called in every iteration of the owner's loop.
Handle(s, elapsed) ==
  /\ HandleQueue(s, send_message_queue[s], elapsed)
  /\ UNCHANGED sent

\* SendMessage: queue the message, then Handle.  The owner calls it only
\* while IsUsable();
\* ConnectionManager models the calls made in other states.
SendMessage(s, type, elapsed) ==
  /\ sent[s] < MaxSent
  /\ state[s] \in {"READY", "WAITING_FOR_ACKNOWLEDGE"}
  /\ sent' = [sent EXCEPT ![s] = @ + 1]
  /\ HandleQueue(s, Append(send_message_queue[s],
                           [type |-> type, payload |-> sent[s] + 1]), elapsed)

-----------------------------------------------------------------------------
(* Receiving: ReceiveAll calls TryReceive until it returns FALSE, then the *)
(* caller takes the oldest accepted frame.  One TryReceive is one step, so *)
(* the other side may send between two of them.                            *)

\* Inside ReceiveMessage or ReceiveWithTimeout, or about to call it.
Receiving(s) ==
  /\ Alive(s) /\ pc[s] \in {"idle", "receiving"}
  /\ state[s] \in HandshakeStates \cup OpenStates

\* Mutant: repeated frames are not recognised.
InSequenceAny(s, frame) == TRUE

\* Mutant: a gap is not recognised, only a repeated frame is.
InSequenceGaps(s, frame) == frame.seq > last_received_sequence_counter[s]

\* received->seq == *last_received_sequence_counter + 1, computed in int:
\* the sum does not wrap.
InSequence(s, frame) ==
  \/ last_received_sequence_counter[s] = NoSequence
  \/ frame.seq = last_received_sequence_counter[s] + 1

\* The frame cannot be decoded: answer NACK; the NACK is not recorded.
TryReceiveDamaged(s) ==
  /\ Receiving(s) /\ stream[s] # <<>>
  /\ Head(stream[s]).type = "DAMAGED"
  /\ stream' = [stream EXCEPT ![s] = Tail(@), ![Peer(s)] = Append(@, Nack)]
  /\ pc' = [pc EXCEPT ![s] = "received"]
  /\ UNCHANGED <<state, sequence_counter, last_send_sequence,
                 last_received_sequence_counter, unacknowledged_sent_message,
                 send_message_queue, receive_message_queue, exception, sent,
                 delivered, errors>>

\* NACK: ResendLastMessages.
TryReceiveNack(s) ==
  /\ Receiving(s) /\ stream[s] # <<>>
  /\ Head(stream[s]).type = "NOT_ACKNOWLEDGE"
  /\ stream' = [stream EXCEPT ![s] = Tail(@),
                              ![Peer(s)] = @ \o unacknowledged_sent_message[s]]
  /\ pc' = [pc EXCEPT ![s] = "received"]
  /\ UNCHANGED <<state, sequence_counter, last_send_sequence,
                 last_received_sequence_counter, unacknowledged_sent_message,
                 send_message_queue, receive_message_queue, exception, sent,
                 delivered, errors>>

\* Any other frame: accepted when it is the next one, dropped otherwise.
TryReceiveMessage(s) ==
  LET frame == Head(stream[s]) IN
  /\ Receiving(s) /\ stream[s] # <<>>
  /\ frame.type \notin {"DAMAGED", "NOT_ACKNOWLEDGE"}
  /\ stream' = [stream EXCEPT ![s] = Tail(@)]
  /\ pc' = [pc EXCEPT ![s] = "receiving"]
  /\ \/ /\ InSequence(s, frame)
        /\ last_received_sequence_counter' =
             [last_received_sequence_counter EXCEPT ![s] = frame.seq]
        /\ receive_message_queue' =
             [receive_message_queue EXCEPT ![s] = Append(@, frame)]
     \/ /\ ~InSequence(s, frame)
        /\ UNCHANGED <<last_received_sequence_counter, receive_message_queue>>
  /\ UNCHANGED <<state, sequence_counter, last_send_sequence,
                 unacknowledged_sent_message, send_message_queue, exception,
                 sent, delivered, errors>>

\* TryReceive has returned FALSE, or would: nothing is on the stream.
ReceivedAll(s) ==
  /\ Alive(s) /\ state[s] \in HandshakeStates \cup OpenStates
  /\ pc[s] = "received" \/ stream[s] = <<>>

\* receive_message_queue is empty: nullptr, or another round of
\* ReceiveWithTimeout.
ReceiveNothing(s) ==
  /\ ReceivedAll(s) /\ pc[s] # "idle" /\ receive_message_queue[s] = <<>>
  /\ pc' = [pc EXCEPT ![s] = "idle"]
  /\ UNCHANGED <<state, sequence_counter, last_send_sequence,
                 last_received_sequence_counter, unacknowledged_sent_message,
                 send_message_queue, receive_message_queue, stream, exception,
                 sent, delivered, errors>>

\* receive_message_queue.front() and pop(), common to all that follows.
PopReceived(s) ==
  /\ ReceivedAll(s) /\ receive_message_queue[s] # <<>>
  /\ receive_message_queue' = [receive_message_queue EXCEPT ![s] = Tail(@)]
  /\ pc' = [pc EXCEPT ![s] = "idle"]
Received(s) == Head(receive_message_queue[s])

Throw(s, what) ==
  /\ exception' = [exception EXCEPT ![s] = what]
  /\ UNCHANGED <<state, sequence_counter, last_send_sequence,
                 unacknowledged_sent_message, stream, delivered>>

-----------------------------------------------------------------------------
(* TryEstablish: the 3-way handshake. *)

\* Step 1 of the client.
ClientSendsRequest(s) ==
  /\ Alive(s) /\ state[s] = "CLIENT_CONNECTION_START"
  /\ SendMessageNow(s, Stamped(s, "CONNECTION_REQUEST", 0, 0), <<>>,
                    unacknowledged_sent_message[s])
  /\ state' = [state EXCEPT ![s] = "CLIENT_CONNECTION_REQUEST_SENT"]
  /\ UNCHANGED <<last_received_sequence_counter, send_message_queue,
                 receive_message_queue, pc, exception, sent, delivered,
                 errors>>

\* Step 2 arrives at the client, which answers with step 3.
ClientReceivesResponse(s) ==
  /\ state[s] = "CLIENT_CONNECTION_REQUEST_SENT" /\ PopReceived(s)
  /\ \/ /\ Received(s).type = "CONNECTION_RESPONSE"
        /\ SendMessageNow(s, Stamped(s, "ACKNOWLEDGE", Received(s).seq, 0),
                          <<>>, <<>>)
        /\ state' = [state EXCEPT ![s] = "READY"]
        /\ UNCHANGED <<exception, delivered>>
     \/ /\ Received(s).type # "CONNECTION_RESPONSE"
        /\ Throw(s, "ConnectionCreationFailed")
  /\ UNCHANGED <<last_received_sequence_counter, send_message_queue, sent,
                 errors>>

\* Step 1 arrives at the server, which answers with step 2.
ServerReceivesRequest(s) ==
  /\ state[s] = "SERVER_WAITING_FOR_FIRST" /\ PopReceived(s)
  /\ \/ /\ Received(s).type = "CONNECTION_REQUEST"
        /\ SendMessageNow(s, Stamped(s, "CONNECTION_RESPONSE", 0, 0), <<>>,
                          unacknowledged_sent_message[s])
        /\ state' = [state EXCEPT ![s] = "SERVER_CONNECTION_RESPONSE_SENT"]
        /\ UNCHANGED <<exception, delivered>>
     \/ /\ Received(s).type # "CONNECTION_REQUEST"
        /\ Throw(s, "ConnectionCreationFailed")
  /\ UNCHANGED <<last_received_sequence_counter, send_message_queue, sent,
                 errors>>

\* Mutant: a 2-way handshake, the server does not wait for step 3.
ServerSkipsAcknowledge(s) ==
  /\ Alive(s) /\ state[s] = "SERVER_CONNECTION_RESPONSE_SENT"
  /\ state' = [state EXCEPT ![s] = "READY"]
  /\ unacknowledged_sent_message' =
       [unacknowledged_sent_message EXCEPT ![s] = <<>>]
  /\ UNCHANGED <<sequence_counter, last_send_sequence,
                 last_received_sequence_counter, send_message_queue,
                 receive_message_queue, stream, pc, exception, sent,
                 delivered, errors>>

\* Step 3 arrives at the server.
ServerReceivesAcknowledge(s) ==
  /\ state[s] = "SERVER_CONNECTION_RESPONSE_SENT" /\ PopReceived(s)
  /\ \/ /\ IsAck(Received(s))
        /\ Received(s).acknowledged = last_send_sequence[s]
        /\ unacknowledged_sent_message' =
             [unacknowledged_sent_message EXCEPT ![s] = <<>>]
        /\ state' = [state EXCEPT ![s] = "READY"]
        /\ UNCHANGED <<sequence_counter, last_send_sequence, stream,
                       exception, delivered>>
     \/ /\ ~ /\ IsAck(Received(s))
             /\ Received(s).acknowledged = last_send_sequence[s]
        /\ Throw(s, "ConnectionCreationFailed")
  /\ UNCHANGED <<last_received_sequence_counter, send_message_queue, sent,
                 errors>>

\* Mutant: ReceiveWithTimeout does not resend.
HandshakeResendsNothing(s) == FALSE

\* ReceiveWithTimeout: ResendIfNecessary before each round of ReceiveAll.
HandshakeResend(s) ==
  /\ Alive(s) /\ pc[s] = "idle" /\ state[s] \in HandshakeStates
  /\ ResendTimerElapsed(s) /\ unacknowledged_sent_message[s] # <<>>
  /\ stream' =
       [stream EXCEPT ![Peer(s)] = @ \o unacknowledged_sent_message[s]]
  /\ UNCHANGED <<state, sequence_counter, last_send_sequence,
                 last_received_sequence_counter, unacknowledged_sent_message,
                 send_message_queue, receive_message_queue, pc, exception,
                 sent, delivered, errors>>

\* ReceiveWithTimeout runs out of time between two rounds.  Nothing catches
\* the exception: the process ends.
HandshakeTimeout(s) ==
  /\ MayTimeOut
  /\ Alive(s) /\ pc[s] = "idle" /\ state[s] \in HandshakeStates
  /\ exception' = [exception EXCEPT ![s] = "TimeoutException"]
  /\ UNCHANGED <<state, sequence_counter, last_send_sequence,
                 last_received_sequence_counter, unacknowledged_sent_message,
                 send_message_queue, receive_message_queue, stream, pc, sent,
                 delivered, errors>>

-----------------------------------------------------------------------------
(* ReceiveMessage on an established connection. *)

\* The two conditions that keep an ACK from being a bad one.
AckExpected(s, ack) ==
  /\ state[s] \in {"WAITING_FOR_ACKNOWLEDGE",
                   "WAITING_FOR_CONNECTION_RESET_ACKNOWLEDGE"}
  /\ ack.acknowledged = last_send_sequence[s]

\* The list after the ACK: everything up to the acknowledged message is gone.
AfterAck(s, ack) ==
  AfterAcknowledged(unacknowledged_sent_message[s], ack.acknowledged)

ReceiveAcknowledge(s) ==
  /\ state[s] \in OpenStates /\ PopReceived(s)
  /\ IsAck(Received(s))
  /\ \/ /\ AckExpected(s, Received(s))
        /\ unacknowledged_sent_message' =
             [unacknowledged_sent_message EXCEPT
                ![s] = AfterAck(s, Received(s))]
        /\ state' =
             [state EXCEPT ![s] =
                IF @ = "WAITING_FOR_CONNECTION_RESET_ACKNOWLEDGE"
                THEN "CLOSED" ELSE "READY"]
        /\ UNCHANGED <<sequence_counter, last_send_sequence, stream,
                       exception, delivered>>
     \/ /\ ~AckExpected(s, Received(s))
        /\ Throw(s, "BadAcknowledgeException")
  /\ UNCHANGED <<last_received_sequence_counter, send_message_queue, sent,
                 errors>>

\* Every other message: forget the ACKs sent so far ("the other side would
\* only send ... if it is not waiting for any ACK messages"), acknowledge it
\* and return it to the owner.
ReceiveOther(s) ==
  /\ state[s] \in OpenStates /\ PopReceived(s)
  /\ ~IsAck(Received(s))
  /\ SendMessageNow(s, Stamped(s, "ACKNOWLEDGE", Received(s).seq, 0), <<>>,
                    WithoutAcks(unacknowledged_sent_message[s]))
  /\ delivered' = [delivered EXCEPT ![s] = Append(@, Received(s).payload)]
  /\ UNCHANGED <<state, last_received_sequence_counter, send_message_queue,
                 exception, sent, errors>>

-----------------------------------------------------------------------------
(* The streams.  A damaged frame makes its reader fail up to twice: once   *)
(* inside the frame and once at its end flag, which looks like a start; or *)
(* never, when both flags are hit.  The damage shows only when the frame   *)
(* is read, so it may as well happen then.                                 *)
DamageFrame(s) ==
  /\ errors < MaxErrors
  /\ stream[s] # <<>> /\ Head(stream[s]).type # "DAMAGED"
  /\ errors' = errors + 1
  /\ \E failures \in 0 .. 2 :
       stream' = [stream EXCEPT
                    ![s] = [i \in 1 .. failures |-> Damaged] \o Tail(@)]
  /\ UNCHANGED <<state, sequence_counter, last_send_sequence,
                 last_received_sequence_counter, unacknowledged_sent_message,
                 send_message_queue, receive_message_queue, pc, exception,
                 sent, delivered>>

-----------------------------------------------------------------------------
TryReceive(s) ==
  TryReceiveDamaged(s) \/ TryReceiveNack(s) \/ TryReceiveMessage(s)

\* The end of ReceiveMessage or ReceiveWithTimeout.
Return(s) ==
  \/ ReceiveNothing(s)
  \/ ClientReceivesResponse(s)
  \/ ServerReceivesRequest(s)
  \/ ServerReceivesAcknowledge(s)
  \/ ReceiveAcknowledge(s)
  \/ ReceiveOther(s)

Next ==
  \E s \in Sides :
    \/ ClientSendsRequest(s)
    \/ HandshakeResend(s)
    \/ HandshakeTimeout(s)
    \/ \E elapsed \in BOOLEAN : Handle(s, elapsed)
    \/ \E type \in Kinds, elapsed \in BOOLEAN : SendMessage(s, type, elapsed)
    \/ TryReceive(s)
    \/ Return(s)
    \/ DamageFrame(s)

Spec == Init /\ [][Next]_vars

\* Each side keeps running its loop: it calls TryEstablish until it returns
\* TRUE, then Handle and ReceiveMessage.  A resend timer that keeps being
\* due is acted on, and ReceiveAll, much faster than the timers, ends.
Fairness ==
  \A s \in Sides :
    /\ WF_vars(ClientSendsRequest(s))
    /\ WF_vars(TryReceive(s))
    /\ SF_vars(Return(s))
    /\ SF_vars(HandshakeResend(s))
    /\ SF_vars(Handle(s, TRUE))

FairSpec == Spec /\ Fairness
-----------------------------------------------------------------------------
(* Properties. *)

\* Every variable keeps its type.  The last three exceptions are those of the
\* managers and of a process that is killed.
TypeOK ==
  /\ state \in [Sides -> ConnectionState]
  /\ sequence_counter \in [Sides -> Sequence]
  /\ last_send_sequence \in [Sides -> Sequence]
  /\ last_received_sequence_counter \in [Sides -> Sequence \cup {NoSequence}]
  /\ unacknowledged_sent_message \in [Sides -> Seq(Frame)]
  /\ send_message_queue \in [Sides -> Seq(Queued)]
  /\ receive_message_queue \in [Sides -> Seq(Frame)]
  /\ stream \in [Sides -> Seq(Frame)]
  /\ pc \in [Sides -> {"idle", "receiving", "received"}]
  /\ exception \in [Sides -> {"none", "TimeoutException",
                              "ConnectionCreationFailed",
                              "BadAcknowledgeException",
                              "UnknownPartnerException", "AssertionFailed",
                              "Killed"}]
  /\ sent \in [Sides -> Nat]
  /\ delivered \in [Sides -> Seq(Nat)]
  /\ errors \in Nat

\* However frames are damaged, dropped, repeated by a timer or by a NACK, the
\* two sides never break the protocol towards each other: the step that
\* comes out of the receive queue is always the one the handshake waits for
\* (no ConnectionCreationFailed), and every acknowledge is for the message
\* that waits for it (no BadAcknowledgeException).
NoProtocolException ==
  \A s \in Sides :
    exception[s] \notin {"ConnectionCreationFailed", "BadAcknowledgeException"}

\* At most one message and one acknowledge of a side are unacknowledged, so a
\* resend repeats at most two frames; in READY no message is; and the message
\* a side waits for is in the list, which the resends depend on.
OneOutstanding ==
  \A s \in Sides :
    LET list == unacknowledged_sent_message[s] IN
    /\ \A i, j \in 1 .. Len(list) : IsAck(list[i]) = IsAck(list[j]) => i = j
    /\ state[s] = "READY" => \A i \in 1 .. Len(list) : IsAck(list[i])
    /\ state[s] \in {"WAITING_FOR_ACKNOWLEDGE",
                    "WAITING_FOR_CONNECTION_RESET_ACKNOWLEDGE"} =>
         \E i \in 1 .. Len(list) :
           ~IsAck(list[i]) /\ list[i].seq = last_send_sequence[s]

\* Whatever a side has sent and the other has not accepted can still be
\* resent: the pruning of unacknowledged_sent_message - by an acknowledge, by
\* remove_if on the next message, by clear() in the handshake - drops only
\* frames the other side has accepted.  (Sequences that have not wrapped.)
FirstSequence(s) == IF s = "client" THEN ClientFirstSequence
                    ELSE ServerFirstSequence
NothingLost ==
  \A s \in Sides :
    \A seq \in FirstSequence(s) .. sequence_counter[s] - 1 :
      \/ seq <= last_received_sequence_counter[Peer(s)]
      \/ \E i \in 1 .. Len(unacknowledged_sent_message[s]) :
           unacknowledged_sent_message[s][i].seq = seq

\* READY and CLOSED mean what doc/connection_states.md says: whatever left the
\* send queue has not only been acknowledged but returned to the other
\* side's owner, each message once and in order.
ReadyMeansDelivered ==
  \A s \in Sides :
    state[s] \in {"READY", "CLOSED"} =>
      delivered[Peer(s)] =
        [n \in 1 .. sent[s] - Len(send_message_queue[s]) |-> n]

\* The server is established only when the client is, and the client only
\* when the server has answered it.
HandshakeAgreement ==
  /\ state["server"] \in OpenStates \cup {"CLOSED"} =>
       state["client"] \in OpenStates \cup {"CLOSED"}
  /\ state["client"] \in OpenStates \cup {"CLOSED"} =>
       state["server"] # "SERVER_WAITING_FOR_FIRST"

\* No flood of resends can make the queue of accepted frames grow: it holds at
\* most one message and one acknowledge.
ReceiveQueueBounded == \A s \in Sides : Len(receive_message_queue[s]) <= 2

\* Every message handed to SendMessage is eventually returned to the other
\* side's owner, once the stream has stopped damaging frames.
EveryMessageDelivered ==
  \A s \in Sides : \A n \in 1 .. MaxSent :
    sent[s] >= n ~> Len(delivered[Peer(s)]) >= n

\* The handshake completes on both sides.
HandshakeCompletes ==
  <>(\A s \in Sides : state[s] \in OpenStates \cup {"CLOSED"})
=============================================================================
