----------------------------- MODULE LinkProofs -----------------------------
(***************************************************************************)
(* What a connection guarantees, and the two of a link to each other, for  *)
(* every value of the constants: every modulus and pair of first           *)
(* sequences, sequences that wrap, any number of damaged frames and of     *)
(* messages, resend timers that elapse at any time MaxBacklog allows.      *)
(***************************************************************************)
EXTENDS MCConnection, SequenceTheorems, TLAPS

-----------------------------------------------------------------------------
(***************************************************************************)
(* One side alone.  Type correctness is not inductive on its own: what     *)
(* remove_if leaves of a list of any length has no rule the provers know.  *)
(* It is proved together with ListShape, which says what the list of       *)
(* unacknowledged frames looks like in each state, so that the list never  *)
(* has more than two frames.                                               *)
(***************************************************************************)

-----------------------------------------------------------------------------
(* The list of unacknowledged frames. *)

\* An acknowledge that nothing was sent after.
LatestAck(s, frame) ==
  IsAck(frame) /\ sequence_counter[s] = NextSequence(frame.seq)

\* The message the side waits for.
Awaited(s, frame) ==
  ~IsAck(frame) /\ frame.seq = last_send_sequence[s]

EmptyList(s) == unacknowledged_sent_message[s] = <<>>
OnlyMessage(s) == \E m \in Frame : /\ unacknowledged_sent_message[s] = <<m>>
                                   /\ Awaited(s, m)
OnlyAck(s) == \E a \in Frame : /\ unacknowledged_sent_message[s] = <<a>>
                               /\ LatestAck(s, a)
AckThenMessage(s) ==
  \E a, m \in Frame : /\ unacknowledged_sent_message[s] = <<a, m>>
                      /\ IsAck(a) /\ Awaited(s, m)
                      /\ m.seq = NextSequence(a.seq)
MessageThenAck(s) ==
  \E a, m \in Frame : /\ unacknowledged_sent_message[s] = <<m, a>>
                      /\ Awaited(s, m) /\ LatestAck(s, a)

\* What the list looks like in each state of the connection.
ShapeInState(s) ==
  /\ state[s] \in {"CLIENT_CONNECTION_START", "SERVER_WAITING_FOR_FIRST"} =>
       EmptyList(s)
  /\ state[s] \in {"CLIENT_CONNECTION_REQUEST_SENT",
                   "SERVER_CONNECTION_RESPONSE_SENT"} => OnlyMessage(s)
  /\ state[s] \in {"READY", "CLOSED"} => EmptyList(s) \/ OnlyAck(s)
  /\ state[s] \in {"WAITING_FOR_ACKNOWLEDGE",
                   "WAITING_FOR_CONNECTION_RESET_ACKNOWLEDGE"} =>
       OnlyMessage(s) \/ AckThenMessage(s) \/ MessageThenAck(s)

ListShape == \A s \in Sides : ShapeInState(s)

IInv == TypeOK /\ ListShape

-----------------------------------------------------------------------------
(* Sequence numbers. *)

LEMMA NextSequenceType ==
  ASSUME NEW n \in Sequence
  PROVE  NextSequence(n) \in Sequence /\ NextSequence(n) # n
  BY SequenceAssumption DEF Sequence, NextSequence

-----------------------------------------------------------------------------
(* remove_if and erase on the lists that occur. *)

LEMMA WithoutAcksEmpty == WithoutAcks(<<>>) = <<>>
<1> DEFINE step(f) == [n \in 0 .. 0 |-> IF n = 0 THEN <<>>
                        ELSE IF IsAck(<<>>[n]) THEN f[n-1]
                             ELSE Append(f[n-1], <<>>[n])]
           kept == CHOOSE f : f = step(f)
<1>1. \E f : f = step(f)
  <2>1. [n \in 0 .. 0 |-> <<>>] = step([n \in 0 .. 0 |-> <<>>])
    OBVIOUS
  <2> QED BY <2>1
<1>2. kept = step(kept)
  BY <1>1
<1>3. kept[0] = <<>>
  BY <1>2
<1>4. WithoutAcks(<<>>) = kept[0]
  BY DEF WithoutAcks
<1> QED BY <1>3, <1>4

\* The values of the recursion in WithoutAcks, on one and on two frames.
LEMMA WithoutAcksOne ==
  ASSUME NEW x \in Frame
  PROVE  WithoutAcks(<<x>>) = IF IsAck(x) THEN <<>> ELSE <<x>>
<1> DEFINE list == <<x>>
           step(f) == [n \in 0 .. Len(list) |->
                        IF n = 0 THEN <<>>
                        ELSE IF IsAck(list[n]) THEN f[n-1]
                             ELSE Append(f[n-1], list[n])]
           kept == CHOOSE f : f = step(f)
           one == IF IsAck(x) THEN <<>> ELSE <<x>>
           result == [n \in 0 .. Len(list) |-> IF n = 0 THEN <<>> ELSE one]
<1>1. Len(list) = 1 /\ list[1] = x
  OBVIOUS
<1>2. result = step(result)
  <2>1. \A n \in 0 .. Len(list) : result[n] = step(result)[n]
    <3> SUFFICES ASSUME NEW n \in 0 .. Len(list)
                 PROVE  result[n] = step(result)[n]
      OBVIOUS
    <3>1. CASE n = 0
      BY <3>1
    <3>2. CASE n = 1
      BY <3>2, <1>1
    <3> QED BY <3>1, <3>2, <1>1
  <2> QED BY <2>1
<1>3. kept = step(kept)
  <2> HIDE DEF step, result
  <2> QED BY <1>2
<1>4. kept[0] = <<>> /\ kept[1] = one
  <2> HIDE DEF kept
  <2>1. kept[0] = <<>>
    BY <1>1, <1>3
  <2>2. kept[1] = IF IsAck(x) THEN kept[0] ELSE Append(kept[0], x)
    BY <1>1, <1>3 DEF IsAck
  <2>3. Append(<<>>, x) = <<x>>
    OBVIOUS
  <2> QED BY <2>1, <2>2, <2>3
<1>5. WithoutAcks(list) = kept[Len(list)]
  BY DEF WithoutAcks
<1> HIDE DEF kept
<1> QED BY <1>1, <1>4, <1>5

LEMMA ShortLists ==
  <<>> \in Seq(Frame) /\ \A x \in Frame : <<x>> \in Seq(Frame)
  OBVIOUS

LEMMA AppendPair ==
  ASSUME NEW x \in Frame, NEW y \in Frame
  PROVE  Append(<<x>>, y) = <<x, y>>
<1>1. /\ Append(<<x>>, y) \in Seq(Frame)
      /\ Len(Append(<<x>>, y)) = 2
      /\ Append(<<x>>, y)[1] = x
      /\ Append(<<x>>, y)[2] = y
  OBVIOUS
<1>2. /\ <<x, y>> \in Seq(Frame)
      /\ Len(<<x, y>>) = 2
      /\ <<x, y>>[1] = x
      /\ <<x, y>>[2] = y
  OBVIOUS
<1>3. ASSUME NEW s \in Seq(Frame), NEW t \in Seq(Frame),
             Len(s) = 2, Len(t) = 2, s[1] = t[1], s[2] = t[2]
      PROVE  s = t
  <2>1. \A i \in 1 .. Len(s) : s[i] = t[i]
    BY <1>3
  <2> QED BY <2>1, <1>3, SeqEqual
<1> QED BY <1>1, <1>2, <1>3

LEMMA WithoutAcksTwo ==
  ASSUME NEW x \in Frame, NEW y \in Frame
  PROVE  WithoutAcks(<<x, y>>) =
           IF IsAck(x) THEN IF IsAck(y) THEN <<>> ELSE <<y>>
           ELSE IF IsAck(y) THEN <<x>> ELSE <<x, y>>
<1> DEFINE list == <<x, y>>
           step(f) == [n \in 0 .. Len(list) |->
                        IF n = 0 THEN <<>>
                        ELSE IF IsAck(list[n]) THEN f[n-1]
                             ELSE Append(f[n-1], list[n])]
           kept == CHOOSE f : f = step(f)
           one == IF IsAck(x) THEN <<>> ELSE <<x>>
           two == IF IsAck(y) THEN one ELSE Append(one, y)
           result == [n \in 0 .. Len(list) |->
                       IF n = 0 THEN <<>> ELSE IF n = 1 THEN one ELSE two]
<1>1. Len(list) = 2 /\ list[1] = x /\ list[2] = y
  OBVIOUS
<1>2. result = step(result)
  <2>1. \A n \in 0 .. Len(list) : result[n] = step(result)[n]
    <3> SUFFICES ASSUME NEW n \in 0 .. Len(list)
                 PROVE  result[n] = step(result)[n]
      OBVIOUS
    <3>1. CASE n = 0
      BY <3>1
    <3>2. CASE n = 1
      BY <3>2, <1>1
    <3>3. CASE n = 2
      BY <3>3, <1>1
    <3> QED BY <3>1, <3>2, <3>3, <1>1
  <2> QED BY <2>1
<1>3. kept = step(kept)
  <2> HIDE DEF step, result
  <2> QED BY <1>2
<1>4. kept[0] = <<>> /\ kept[1] = one /\ kept[2] = two
  <2> HIDE DEF kept
  <2>1. kept[0] = <<>>
    BY <1>1, <1>3
  <2>2. \A n \in 1 .. 2 : kept[n] = IF IsAck(list[n]) THEN kept[n-1]
                                    ELSE Append(kept[n-1], list[n])
    <3> HIDE DEF list
    <3> SUFFICES ASSUME NEW n \in 1 .. 2
                 PROVE  kept[n] = IF IsAck(list[n]) THEN kept[n-1]
                                  ELSE Append(kept[n-1], list[n])
      OBVIOUS
    <3>1. n \in 0 .. Len(list) /\ n # 0
      BY <1>1
    <3>2. kept[n] = step(kept)[n]
      BY <1>3
    <3> QED BY <3>1, <3>2
  <2>3. Append(<<>>, x) = <<x>>
    OBVIOUS
  <2>4. kept[1] = IF IsAck(x) THEN kept[0] ELSE Append(kept[0], x)
    <3> HIDE DEF list
    <3> QED BY <1>1, <2>2
  <2>5. kept[2] = IF IsAck(y) THEN kept[1] ELSE Append(kept[1], y)
    <3> HIDE DEF list
    <3> QED BY <1>1, <2>2
  <2> QED BY <2>1, <2>3, <2>4, <2>5
<1>5. WithoutAcks(list) = kept[Len(list)]
  BY DEF WithoutAcks
<1>6. Append(<<>>, y) = <<y>>
  OBVIOUS
<1>7. Append(<<x>>, y) = <<x, y>>
  BY AppendPair
<1> HIDE DEF kept
<1> QED BY <1>1, <1>4, <1>5, <1>6, <1>7

LEMMA AfterAcknowledgedOne ==
  ASSUME NEW x \in Frame
  PROVE  AfterAcknowledged(<<x>>, x.seq) = <<>>
  BY DEF AfterAcknowledged

LEMMA AfterAcknowledgedFirst ==
  ASSUME NEW x \in Frame, NEW y \in Frame
  PROVE  AfterAcknowledged(<<x, y>>, x.seq) = <<y>>
<1> DEFINE list == <<x, y>>
           hits == {i \in 1 .. Len(list) : list[i].seq = x.seq}
           first == CHOOSE i \in hits : \A j \in hits : i <= j
<1>1. 1 \in hits /\ hits \subseteq 1 .. 2
  OBVIOUS
<1>2. first = 1
  BY <1>1
<1>3. SubSeq(list, 2, 2) = <<y>>
  <2>1. /\ SubSeq(list, 2, 2) \in Seq(Frame)
        /\ Len(SubSeq(list, 2, 2)) = 1
        /\ SubSeq(list, 2, 2)[1] = list[2]
    BY SubSeqProperties
  <2>2. <<y>> \in Seq(Frame) /\ Len(<<y>>) = 1 /\ list[2] = y
    OBVIOUS
  <2>3. \A i \in 1 .. 1 : SubSeq(list, 2, 2)[i] = <<y>>[i]
    BY <2>1, <2>2
  <2> HIDE DEF list
  <2> QED BY <2>1, <2>2, <2>3, SeqEqual
<1>4. AfterAcknowledged(list, x.seq) = SubSeq(list, first + 1, Len(list))
  BY <1>1 DEF AfterAcknowledged
<1>5. Len(list) = 2
  OBVIOUS
<1> HIDE DEF first
<1> QED BY <1>2, <1>3, <1>4, <1>5

LEMMA AfterAcknowledgedSecond ==
  ASSUME NEW x \in Frame, NEW y \in Frame, x.seq # y.seq
  PROVE  AfterAcknowledged(<<x, y>>, y.seq) = <<>>
  BY DEF AfterAcknowledged

-----------------------------------------------------------------------------
(* What the actions have in common. *)

LEMMA PeerType ==
  ASSUME NEW s \in Sides
  PROVE  Peer(s) \in Sides /\ Peer(s) # s
  BY DEF Sides, Peer

LEMMA StampedType ==
  ASSUME TypeOK, NEW s \in Sides, NEW type \in MessageType,
         NEW acknowledged \in Sequence, NEW payload \in Nat
  PROVE  /\ Stamped(s, type, acknowledged, payload) \in Frame
         /\ Stamped(s, type, acknowledged, payload).seq = sequence_counter[s]
         /\ Stamped(s, type, acknowledged, payload).type = type
  BY DEF TypeOK, Stamped, Frame

\* Types after SendMessageNow.
LEMMA SendMessageNowType ==
  ASSUME TypeOK, NEW s \in Sides, NEW frame \in Frame,
         NEW resent \in Seq(Frame), NEW kept \in Seq(Frame),
         SendMessageNow(s, frame, resent, kept)
  PROVE  /\ sequence_counter' \in [Sides -> Sequence]
         /\ last_send_sequence' \in [Sides -> Sequence]
         /\ stream' \in [Sides -> Seq(Frame)]
         /\ unacknowledged_sent_message' \in [Sides -> Seq(Frame)]
<1> USE DEF TypeOK, SendMessageNow
<1>1. sequence_counter' \in [Sides -> Sequence]
  BY NextSequenceType
<1>2. last_send_sequence' \in [Sides -> Sequence]
  BY DEF Frame
<1>3. stream' \in [Sides -> Seq(Frame)]
  <2>1. (stream[Peer(s)] \o resent) \o <<frame>> \in Seq(Frame)
    BY PeerType
  <2> QED BY <2>1
<1>4. unacknowledged_sent_message' \in [Sides -> Seq(Frame)]
  <2>1. Append(kept, frame) \in Seq(Frame)
    OBVIOUS
  <2> QED BY <2>1
<1> QED BY <1>1, <1>2, <1>3, <1>4

\* The side that does not move keeps its shape.
LEMMA ShapeUnchanged ==
  ASSUME NEW s \in Sides, ShapeInState(s),
         state'[s] = state[s],
         sequence_counter'[s] = sequence_counter[s],
         last_send_sequence'[s] = last_send_sequence[s],
         unacknowledged_sent_message'[s] = unacknowledged_sent_message[s]
  PROVE  ShapeInState(s)'
  BY DEF ShapeInState, EmptyList, OnlyMessage, OnlyAck, AckThenMessage,
         MessageThenAck, Awaited, LatestAck

\* The frame a side takes from its receive queue.
LEMMA PopReceivedType ==
  ASSUME TypeOK, NEW s \in Sides, PopReceived(s)
  PROVE  /\ Received(s) \in Frame
         /\ receive_message_queue' \in [Sides -> Seq(Frame)]
         /\ pc' \in [Sides -> {"idle", "receiving", "received"}]
  BY DEF TypeOK, PopReceived, Received

\* A message is sent on a list without one.
LEMMA SendMessageShape ==
  ASSUME TypeOK, NEW s \in Sides, NEW frame \in Frame, ~IsAck(frame),
         frame.seq = sequence_counter[s], NEW resent,
         EmptyList(s) \/ OnlyAck(s),
         SendMessageNow(s, frame, resent, unacknowledged_sent_message[s])
  PROVE  /\ EmptyList(s) => OnlyMessage(s)'
         /\ OnlyAck(s) => AckThenMessage(s)'
<1>1. /\ unacknowledged_sent_message'[s] =
           Append(unacknowledged_sent_message[s], frame)
      /\ Awaited(s, frame)'
  BY DEF TypeOK, SendMessageNow, Awaited, IsAck
<1>2. CASE EmptyList(s)
  <2>1. Append(<<>>, frame) = <<frame>>
    OBVIOUS
  <2>2. OnlyMessage(s)'
    BY <1>1, <1>2, <2>1 DEF EmptyList, OnlyMessage
  <2>3. ~OnlyAck(s)
    BY <1>2 DEF EmptyList, OnlyAck
  <2> QED BY <2>2, <2>3
<1>3. CASE OnlyAck(s)
  <2>1. PICK a \in Frame : /\ unacknowledged_sent_message[s] = <<a>>
                           /\ LatestAck(s, a)
    BY <1>3 DEF OnlyAck
  <2>2. unacknowledged_sent_message'[s] = <<a, frame>>
    BY <2>1, <1>1, AppendPair
  <2>3. frame.seq = NextSequence(a.seq) /\ IsAck(a)
    BY <2>1 DEF LatestAck
  <2> QED BY <2>2, <2>3, <1>1, <1>3 DEF AckThenMessage, EmptyList, OnlyAck
<1> QED BY <1>2, <1>3

\* An acknowledge is sent after the ACKs have been removed.
LEMMA SendAcknowledgeShape ==
  ASSUME TypeOK, NEW s \in Sides, NEW frame \in Frame, IsAck(frame),
         frame.seq = sequence_counter[s], NEW resent, NEW kept,
         SendMessageNow(s, frame, resent, kept)
  PROVE  /\ kept = <<>> => OnlyAck(s)'
         /\ \A m \in Frame : kept = <<m>> /\ Awaited(s, m)
                               => MessageThenAck(s)'
<1>1. /\ unacknowledged_sent_message'[s] = Append(kept, frame)
      /\ LatestAck(s, frame)'
      /\ last_send_sequence' = last_send_sequence
  BY DEF TypeOK, SendMessageNow, LatestAck, IsAck
<1>2. ASSUME kept = <<>> PROVE OnlyAck(s)'
  BY <1>1, <1>2 DEF OnlyAck
<1>3. ASSUME NEW m \in Frame, kept = <<m>>, Awaited(s, m)
      PROVE  MessageThenAck(s)'
  <2>1. unacknowledged_sent_message'[s] = <<m, frame>>
    BY <1>1, <1>3, AppendPair
  <2>2. Awaited(s, m)'
    BY <1>1, <1>3 DEF Awaited
  <2> QED BY <1>1, <2>1, <2>2 DEF MessageThenAck
<1> QED BY <1>2, <1>3

\* What remove_if leaves.
LEMMA WithoutAcksShape ==
  ASSUME NEW s \in Sides
  PROVE  LET kept == WithoutAcks(unacknowledged_sent_message[s]) IN
         /\ EmptyList(s) \/ OnlyAck(s) => kept = <<>>
         /\ OnlyMessage(s) \/ AckThenMessage(s) \/ MessageThenAck(s)
              => \E m \in Frame : kept = <<m>> /\ Awaited(s, m)
<1>1. EmptyList(s) => WithoutAcks(unacknowledged_sent_message[s]) = <<>>
  BY WithoutAcksEmpty DEF EmptyList
<1>2. OnlyAck(s) => WithoutAcks(unacknowledged_sent_message[s]) = <<>>
  BY WithoutAcksOne DEF OnlyAck, LatestAck
<1>3. OnlyMessage(s) =>
        \E m \in Frame : /\ WithoutAcks(unacknowledged_sent_message[s]) = <<m>>
                         /\ Awaited(s, m)
  BY WithoutAcksOne DEF OnlyMessage, Awaited
<1>4. AckThenMessage(s) =>
        \E m \in Frame : /\ WithoutAcks(unacknowledged_sent_message[s]) = <<m>>
                         /\ Awaited(s, m)
  BY WithoutAcksTwo DEF AckThenMessage, Awaited
<1>5. MessageThenAck(s) =>
        \E m \in Frame : /\ WithoutAcks(unacknowledged_sent_message[s]) = <<m>>
                         /\ Awaited(s, m)
  BY WithoutAcksTwo DEF MessageThenAck, Awaited, LatestAck
<1> QED BY <1>1, <1>2, <1>3, <1>4, <1>5

\* What the acknowledge of the awaited message leaves.
LEMMA AfterAcknowledgedShape ==
  ASSUME NEW s \in Sides, TypeOK,
         OnlyMessage(s) \/ AckThenMessage(s) \/ MessageThenAck(s)
  PROVE  LET rest == AfterAcknowledged(unacknowledged_sent_message[s],
                                       last_send_sequence[s])
         IN rest = <<>> \/ \E a \in Frame : rest = <<a>> /\ LatestAck(s, a)
<1>1. CASE OnlyMessage(s)
  BY <1>1, AfterAcknowledgedOne DEF OnlyMessage, Awaited
<1>2. CASE AckThenMessage(s)
  <2>1. PICK a \in Frame, m \in Frame :
          /\ unacknowledged_sent_message[s] = <<a, m>>
          /\ Awaited(s, m) /\ m.seq = NextSequence(a.seq)
    BY <1>2 DEF AckThenMessage
  <2>2. a.seq # m.seq
    BY <2>1, NextSequenceType DEF Frame
  <2> QED BY <2>1, <2>2, AfterAcknowledgedSecond DEF Awaited
<1>3. CASE MessageThenAck(s)
  BY <1>3, AfterAcknowledgedFirst DEF MessageThenAck, Awaited
<1> QED BY <1>1, <1>2, <1>3

-----------------------------------------------------------------------------
(* Initial states and steps. *)

LEMMA InitIInv == Init => IInv
<1> SUFFICES ASSUME Init PROVE TypeOK /\ ListShape
  BY DEF IInv
<1>1. TypeOK
  BY SequenceAssumption DEF Init, TypeOK, Sides, ConnectionState, Sequence,
                            NoSequence
<1>2. ListShape
  BY DEF Init, ListShape, ShapeInState, EmptyList, Sides
<1> QED BY <1>1, <1>2

\* To establish the shape for both sides it is enough to look at the side that
\* moves.
LEMMA OtherSideUnchanged ==
  ASSUME NEW s \in Sides, ListShape, ShapeInState(s)',
         \A t \in Sides \ {s} :
           /\ state'[t] = state[t]
           /\ sequence_counter'[t] = sequence_counter[t]
           /\ last_send_sequence'[t] = last_send_sequence[t]
           /\ unacknowledged_sent_message'[t] = unacknowledged_sent_message[t]
  PROVE  ListShape'
<1> SUFFICES ASSUME NEW t \in Sides PROVE ShapeInState(t)'
  BY DEF ListShape
<1>1. CASE t = s
  BY <1>1
<1>2. CASE t # s
  BY <1>2, ShapeUnchanged DEF ListShape
<1> QED BY <1>1, <1>2

\* A step that leaves all four variables alone keeps the shape.
LEMMA AllUnchanged ==
  ASSUME ListShape,
         UNCHANGED <<state, sequence_counter, last_send_sequence,
                     unacknowledged_sent_message>>
  PROVE  ListShape'
  BY ShapeUnchanged DEF ListShape

\* SendMessageNow touches one side only.
LEMMA SendMessageNowFrame ==
  ASSUME TypeOK, NEW s \in Sides, NEW frame, NEW resent, NEW kept,
         SendMessageNow(s, frame, resent, kept)
  PROVE  \A t \in Sides \ {s} :
           /\ sequence_counter'[t] = sequence_counter[t]
           /\ last_send_sequence'[t] = last_send_sequence[t]
           /\ unacknowledged_sent_message'[t] = unacknowledged_sent_message[t]
  BY DEF TypeOK, SendMessageNow

LEMMA HandleQueueStep ==
  ASSUME IInv, NEW s \in Sides, NEW queue \in Seq(Queued),
         NEW elapsed \in BOOLEAN, HandleQueue(s, queue, elapsed),
         sent' \in [Sides -> Nat]
  PROVE  IInv'
<1> DEFINE resent == IF elapsed THEN unacknowledged_sent_message[s] ELSE <<>>
           frame == Stamped(s, Head(queue).type, 0, Head(queue).payload)
<1> USE DEF IInv
<1>1. resent \in Seq(Frame) /\ unacknowledged_sent_message[s] \in Seq(Frame)
  BY DEF TypeOK
<1>2. CASE MaySendNext(s, queue)
  <2>1. /\ SendMessageNow(s, frame, resent, unacknowledged_sent_message[s])
        /\ send_message_queue' = [send_message_queue EXCEPT ![s] = Tail(queue)]
        /\ state' = [state EXCEPT ![s] = AwaitingState(Head(queue).type)]
        /\ UNCHANGED <<last_received_sequence_counter, receive_message_queue,
                       pc, exception, delivered, errors>>
    BY <1>2 DEF HandleQueue
  <2>2. queue # <<>> /\ state[s] = "READY"
    BY <1>2 DEF MaySendNext
  <2>3. Head(queue) \in Queued /\ Tail(queue) \in Seq(Queued)
    BY <2>2
  <2>4. /\ Head(queue).type \in MessageType /\ Head(queue).payload \in Nat
        /\ Head(queue).type # "ACKNOWLEDGE"
    BY <2>3, KindsAssumption DEF Queued, MessageType
  <2>5. 0 \in Sequence
    BY SequenceAssumption DEF Sequence
  <2>6. frame \in Frame /\ ~IsAck(frame) /\ frame.seq = sequence_counter[s]
    BY <2>4, <2>5, StampedType DEF IsAck
  <2> HIDE DEF frame, resent
  <2>7. AwaitingState(Head(queue).type) \in
          {"WAITING_FOR_ACKNOWLEDGE",
           "WAITING_FOR_CONNECTION_RESET_ACKNOWLEDGE"}
    BY DEF AwaitingState
  <2>8. TypeOK'
    BY <1>1, <2>1, <2>3, <2>6, <2>7, SendMessageNowType
       DEF TypeOK, ConnectionState
  <2>9. ShapeInState(s)'
    <3>1. EmptyList(s) \/ OnlyAck(s)
      BY <2>2 DEF ListShape, ShapeInState
    <3>2. OnlyMessage(s)' \/ AckThenMessage(s)'
      BY <2>1, <2>6, <3>1, SendMessageShape
    <3>3. state'[s] \in {"WAITING_FOR_ACKNOWLEDGE",
                         "WAITING_FOR_CONNECTION_RESET_ACKNOWLEDGE"}
      BY <2>1, <2>7 DEF TypeOK
    <3> QED BY <3>2, <3>3 DEF ShapeInState
  <2>10. \A t \in Sides \ {s} : state'[t] = state[t]
    BY <2>1 DEF TypeOK
  <2>11. ListShape'
    BY <2>1, <2>9, <2>10, SendMessageNowFrame, OtherSideUnchanged
  <2> QED BY <2>8, <2>11
<1>3. CASE ~MaySendNext(s, queue)
  <2>1. /\ stream' = [stream EXCEPT ![Peer(s)] = @ \o resent]
        /\ send_message_queue' = [send_message_queue EXCEPT ![s] = queue]
        /\ UNCHANGED <<state, sequence_counter, last_send_sequence,
                       unacknowledged_sent_message,
                       last_received_sequence_counter, receive_message_queue,
                       pc, exception, delivered, errors>>
    BY <1>3 DEF HandleQueue
  <2>2. stream[Peer(s)] \o resent \in Seq(Frame)
    BY <1>1, PeerType DEF TypeOK
  <2> HIDE DEF resent
  <2>3. TypeOK'
    BY <2>1, <2>2 DEF TypeOK
  <2> QED BY <2>1, <2>3, AllUnchanged
<1> QED BY <1>2, <1>3

LEMMA SendMessageStep ==
  ASSUME IInv, NEW s \in Sides, NEW type \in Kinds, NEW elapsed \in BOOLEAN,
         SendMessage(s, type, elapsed)
  PROVE  IInv'
<1> DEFINE queue == Append(send_message_queue[s],
                           [type |-> type, payload |-> sent[s] + 1])
<1>1. queue \in Seq(Queued)
  <2>1. [type |-> type, payload |-> sent[s] + 1] \in Queued
    BY DEF IInv, TypeOK, Queued
  <2>2. send_message_queue[s] \in Seq(Queued)
    BY DEF IInv, TypeOK
  <2> QED BY <2>1, <2>2
<1>2. sent' \in [Sides -> Nat] /\ HandleQueue(s, queue, elapsed)
  BY DEF IInv, TypeOK, SendMessage
<1> HIDE DEF queue
<1> QED BY <1>1, <1>2, HandleQueueStep

LEMMA HandleStep ==
  ASSUME IInv, NEW s \in Sides, NEW elapsed \in BOOLEAN, Handle(s, elapsed)
  PROVE  IInv'
<1>1. send_message_queue[s] \in Seq(Queued)
  BY DEF IInv, TypeOK
<1>2. HandleQueue(s, send_message_queue[s], elapsed)
  BY DEF Handle
<1>3. sent' \in [Sides -> Nat]
  BY DEF Handle, IInv, TypeOK
<1> QED BY <1>1, <1>2, <1>3, HandleQueueStep

\* The steps that only move frames: streams, receive queues and pc.
LEMMA TransportStep ==
  ASSUME IInv, NEW s \in Sides,
         \/ TryReceive(s) \/ ReceiveNothing(s) \/ HandshakeResend(s)
         \/ HandshakeTimeout(s) \/ DamageFrame(s)
  PROVE  IInv'
<1> USE DEF IInv
<1>1. Damaged \in Frame /\ Nack \in Frame
  BY SequenceAssumption DEF Damaged, Nack, Frame, Sequence, MessageType
<1>2. /\ Peer(s) \in Sides /\ Peer(s) # s
      /\ unacknowledged_sent_message[s] \in Seq(Frame)
      /\ stream[s] \in Seq(Frame) /\ stream[Peer(s)] \in Seq(Frame)
      /\ receive_message_queue[s] \in Seq(Frame)
  BY PeerType DEF TypeOK
<1>3. CASE TryReceiveDamaged(s)
  <2>1. /\ Tail(stream[s]) \in Seq(Frame)
        /\ Append(stream[Peer(s)], Nack) \in Seq(Frame)
    BY <1>1, <1>2, <1>3 DEF TryReceiveDamaged
  <2>2. TypeOK'
    BY <1>2, <1>3, <2>1 DEF TryReceiveDamaged, TypeOK
  <2> QED BY <1>3, <2>2, AllUnchanged DEF TryReceiveDamaged
<1>4. CASE TryReceiveNack(s)
  <2>1. /\ Tail(stream[s]) \in Seq(Frame)
        /\ stream[Peer(s)] \o unacknowledged_sent_message[s] \in Seq(Frame)
    BY <1>2, <1>4 DEF TryReceiveNack
  <2>2. TypeOK'
    BY <1>2, <1>4, <2>1 DEF TryReceiveNack, TypeOK
  <2> QED BY <1>4, <2>2, AllUnchanged DEF TryReceiveNack
<1>5. CASE TryReceiveMessage(s)
  <2>1. /\ Head(stream[s]) \in Frame /\ Tail(stream[s]) \in Seq(Frame)
        /\ Append(receive_message_queue[s], Head(stream[s])) \in Seq(Frame)
    BY <1>2, <1>5 DEF TryReceiveMessage
  <2>2. Head(stream[s]).seq \in Sequence
    BY <2>1 DEF Frame
  <2>3. /\ stream' \in [Sides -> Seq(Frame)]
        /\ pc' \in [Sides -> {"idle", "receiving", "received"}]
    BY <1>5, <2>1 DEF TryReceiveMessage, TypeOK
  <2>4. last_received_sequence_counter' \in
          [Sides -> Sequence \cup {NoSequence}]
    BY <1>5, <2>2 DEF TryReceiveMessage, TypeOK
  <2>5. receive_message_queue' \in [Sides -> Seq(Frame)]
    BY <1>5, <2>1 DEF TryReceiveMessage, TypeOK
  <2>6. TypeOK'
    BY <1>5, <2>3, <2>4, <2>5 DEF TryReceiveMessage, TypeOK
  <2> QED BY <1>5, <2>6, AllUnchanged DEF TryReceiveMessage
<1>6. CASE ReceiveNothing(s)
  <2>1. TypeOK'
    BY <1>6 DEF ReceiveNothing, TypeOK
  <2> QED BY <1>6, <2>1, AllUnchanged DEF ReceiveNothing
<1>7. CASE HandshakeResend(s)
  <2>1. stream[Peer(s)] \o unacknowledged_sent_message[s] \in Seq(Frame)
    BY <1>2
  <2>2. TypeOK'
    BY <1>2, <1>7, <2>1 DEF HandshakeResend, TypeOK
  <2> QED BY <1>7, <2>2, AllUnchanged DEF HandshakeResend
<1>8. CASE HandshakeTimeout(s)
  <2>1. TypeOK'
    BY <1>8 DEF HandshakeTimeout, TypeOK
  <2> QED BY <1>8, <2>1, AllUnchanged DEF HandshakeTimeout
<1>9. CASE DamageFrame(s)
  <2>1. PICK failures \in 0 .. 2 :
          stream' = [stream EXCEPT
                       ![s] = [i \in 1 .. failures |-> Damaged] \o Tail(@)]
    BY <1>9 DEF DamageFrame
  <2>2. [i \in 1 .. failures |-> Damaged] \in Seq(Frame)
    BY <1>1
  <2>3. Tail(stream[s]) \in Seq(Frame)
    BY <1>2, <1>9 DEF DamageFrame
  <2>4. [i \in 1 .. failures |-> Damaged] \o Tail(stream[s]) \in Seq(Frame)
    BY <2>2, <2>3, ConcatProperties
  <2>5. stream' \in [Sides -> Seq(Frame)]
    BY <2>1, <2>4 DEF TypeOK
  <2>6. errors' \in Nat
    BY <1>9 DEF DamageFrame, TypeOK
  <2>7. TypeOK'
    BY <1>9, <2>5, <2>6 DEF DamageFrame, TypeOK
  <2> QED BY <1>9, <2>7, AllUnchanged DEF DamageFrame
<1> QED
  BY <1>3, <1>4, <1>5, <1>6, <1>7, <1>8, <1>9 DEF TryReceive

\* A step that ends in an exception changes neither lists nor states.
LEMMA ThrowStep ==
  ASSUME IInv, NEW s \in Sides, PopReceived(s),
         NEW what \in {"ConnectionCreationFailed", "BadAcknowledgeException"},
         Throw(s, what),
         UNCHANGED <<last_received_sequence_counter, send_message_queue, sent,
                     errors>>
  PROVE  IInv'
<1>1. TypeOK'
  BY PopReceivedType DEF IInv, TypeOK, Throw
<1> QED BY <1>1, AllUnchanged DEF Throw, IInv

LEMMA ClientSendsRequestStep ==
  ASSUME IInv, NEW s \in Sides, ClientSendsRequest(s)
  PROVE  IInv'
<1> DEFINE frame == Stamped(s, "CONNECTION_REQUEST", 0, 0)
<1> USE DEF IInv
<1>1. /\ SendMessageNow(s, frame, <<>>, unacknowledged_sent_message[s])
      /\ state[s] = "CLIENT_CONNECTION_START"
      /\ state' = [state EXCEPT ![s] = "CLIENT_CONNECTION_REQUEST_SENT"]
  BY DEF ClientSendsRequest
<1>2. frame \in Frame /\ ~IsAck(frame) /\ frame.seq = sequence_counter[s]
  BY StampedType, SequenceAssumption DEF Sequence, MessageType, IsAck
<1>3. <<>> \in Seq(Frame) /\ unacknowledged_sent_message[s] \in Seq(Frame)
  BY DEF TypeOK
<1> HIDE DEF frame
<1>4. TypeOK'
  BY <1>1, <1>2, <1>3, SendMessageNowType
     DEF ClientSendsRequest, TypeOK, ConnectionState
<1>5. ShapeInState(s)'
  <2>1. EmptyList(s)
    BY <1>1 DEF ListShape, ShapeInState
  <2>2. OnlyMessage(s)'
    BY <1>1, <1>2, <2>1, SendMessageShape
  <2>3. state'[s] = "CLIENT_CONNECTION_REQUEST_SENT"
    BY <1>1 DEF TypeOK
  <2> QED BY <2>2, <2>3 DEF ShapeInState
<1>6. \A t \in Sides \ {s} : state'[t] = state[t]
  BY <1>1 DEF TypeOK
<1>7. ListShape'
  BY <1>1, <1>5, <1>6, SendMessageNowFrame, OtherSideUnchanged
<1> QED BY <1>4, <1>7

LEMMA ServerReceivesRequestStep ==
  ASSUME IInv, NEW s \in Sides, ServerReceivesRequest(s)
  PROVE  IInv'
<1> DEFINE frame == Stamped(s, "CONNECTION_RESPONSE", 0, 0)
<1> USE DEF IInv
<1>1. CASE Received(s).type = "CONNECTION_REQUEST"
  <2>1. /\ SendMessageNow(s, frame, <<>>, unacknowledged_sent_message[s])
        /\ state[s] = "SERVER_WAITING_FOR_FIRST"
        /\ state' = [state EXCEPT ![s] = "SERVER_CONNECTION_RESPONSE_SENT"]
        /\ PopReceived(s)
        /\ UNCHANGED <<exception, delivered, last_received_sequence_counter,
                       send_message_queue, sent, errors>>
    BY <1>1 DEF ServerReceivesRequest
  <2>2. frame \in Frame /\ ~IsAck(frame) /\ frame.seq = sequence_counter[s]
    BY StampedType, SequenceAssumption DEF Sequence, MessageType, IsAck
  <2>3. <<>> \in Seq(Frame) /\ unacknowledged_sent_message[s] \in Seq(Frame)
    BY DEF TypeOK
  <2> HIDE DEF frame
  <2>4. TypeOK'
    BY <2>1, <2>2, <2>3, SendMessageNowType, PopReceivedType
       DEF TypeOK, ConnectionState
  <2>5. ShapeInState(s)'
    <3>1. EmptyList(s)
      BY <2>1 DEF ListShape, ShapeInState
    <3>2. OnlyMessage(s)'
      BY <2>1, <2>2, <3>1, SendMessageShape
    <3>3. state'[s] = "SERVER_CONNECTION_RESPONSE_SENT"
      BY <2>1 DEF TypeOK
    <3> QED BY <3>2, <3>3 DEF ShapeInState
  <2>6. \A t \in Sides \ {s} : state'[t] = state[t]
    BY <2>1 DEF TypeOK
  <2>7. ListShape'
    BY <2>1, <2>5, <2>6, SendMessageNowFrame, OtherSideUnchanged
  <2> QED BY <2>4, <2>7
<1>2. CASE Received(s).type # "CONNECTION_REQUEST"
  BY <1>2, ThrowStep DEF ServerReceivesRequest
<1> QED BY <1>1, <1>2

LEMMA ClientReceivesResponseStep ==
  ASSUME IInv, NEW s \in Sides, ClientReceivesResponse(s)
  PROVE  IInv'
<1> DEFINE frame == Stamped(s, "ACKNOWLEDGE", Received(s).seq, 0)
<1> USE DEF IInv
<1>1. CASE Received(s).type = "CONNECTION_RESPONSE"
  <2>1. /\ SendMessageNow(s, frame, <<>>, <<>>)
        /\ state' = [state EXCEPT ![s] = "READY"]
        /\ PopReceived(s)
        /\ UNCHANGED <<exception, delivered, last_received_sequence_counter,
                       send_message_queue, sent, errors>>
    BY <1>1 DEF ClientReceivesResponse
  <2>2. Received(s).seq \in Sequence
    BY <2>1, PopReceivedType DEF Frame
  <2>3. frame \in Frame /\ IsAck(frame) /\ frame.seq = sequence_counter[s]
    BY <2>2, StampedType DEF MessageType, IsAck
  <2>4. <<>> \in Seq(Frame)
    OBVIOUS
  <2> HIDE DEF frame
  <2>5. TypeOK'
    BY <2>1, <2>3, <2>4, SendMessageNowType, PopReceivedType
       DEF TypeOK, ConnectionState
  <2>6. ShapeInState(s)'
    <3>1. OnlyAck(s)'
      BY <2>1, <2>3, SendAcknowledgeShape
    <3>2. state'[s] = "READY"
      BY <2>1 DEF TypeOK
    <3> QED BY <3>1, <3>2 DEF ShapeInState
  <2>7. \A t \in Sides \ {s} : state'[t] = state[t]
    BY <2>1 DEF TypeOK
  <2>8. ListShape'
    BY <2>1, <2>6, <2>7, SendMessageNowFrame, OtherSideUnchanged
  <2> QED BY <2>5, <2>8
<1>2. CASE Received(s).type # "CONNECTION_RESPONSE"
  BY <1>2, ThrowStep DEF ClientReceivesResponse
<1> QED BY <1>1, <1>2

LEMMA ServerReceivesAcknowledgeStep ==
  ASSUME IInv, NEW s \in Sides, ServerReceivesAcknowledge(s)
  PROVE  IInv'
<1> DEFINE good == /\ IsAck(Received(s))
                   /\ Received(s).acknowledged = last_send_sequence[s]
<1> USE DEF IInv
<1>1. CASE good
  <2>1. /\ unacknowledged_sent_message' =
             [unacknowledged_sent_message EXCEPT ![s] = <<>>]
        /\ state' = [state EXCEPT ![s] = "READY"]
        /\ PopReceived(s)
        /\ UNCHANGED <<sequence_counter, last_send_sequence, stream,
                       exception, delivered, last_received_sequence_counter,
                       send_message_queue, sent, errors>>
    BY <1>1 DEF ServerReceivesAcknowledge
  <2>2. TypeOK'
    BY <2>1, PopReceivedType DEF TypeOK, ConnectionState
  <2>3. ShapeInState(s)'
    BY <2>1 DEF TypeOK, ShapeInState, EmptyList
  <2>4. ListShape'
    BY <2>1, <2>3, OtherSideUnchanged DEF TypeOK
  <2> QED BY <2>2, <2>4
<1>2. CASE ~good
  BY <1>2, ThrowStep DEF ServerReceivesAcknowledge
<1> QED BY <1>1, <1>2

LEMMA ReceiveAcknowledgeStep ==
  ASSUME IInv, NEW s \in Sides, ReceiveAcknowledge(s)
  PROVE  IInv'
<1> DEFINE rest == AfterAcknowledged(unacknowledged_sent_message[s],
                                     last_send_sequence[s])
<1> USE DEF IInv
<1>1. CASE AckExpected(s, Received(s))
  <2>1. /\ unacknowledged_sent_message' =
             [unacknowledged_sent_message EXCEPT ![s] = rest]
        /\ state' = [state EXCEPT ![s] =
                       IF @ = "WAITING_FOR_CONNECTION_RESET_ACKNOWLEDGE"
                       THEN "CLOSED" ELSE "READY"]
        /\ PopReceived(s)
        /\ UNCHANGED <<sequence_counter, last_send_sequence, stream,
                       exception, delivered, last_received_sequence_counter,
                       send_message_queue, sent, errors>>
    BY <1>1 DEF ReceiveAcknowledge, AckExpected, AfterAck
  <2>2. OnlyMessage(s) \/ AckThenMessage(s) \/ MessageThenAck(s)
    BY <1>1 DEF AckExpected, ListShape, ShapeInState
  <2>3. \/ rest = <<>>
        \/ \E a \in Frame : rest = <<a>> /\ LatestAck(s, a)
    BY <2>2, AfterAcknowledgedShape
  <2> HIDE DEF rest
  <2>4. rest \in Seq(Frame)
    BY <2>3, ShortLists
  <2>5. TypeOK'
    BY <2>1, <2>4, PopReceivedType DEF TypeOK, ConnectionState
  <2>6. ShapeInState(s)'
    <3>1. EmptyList(s)' \/ OnlyAck(s)'
      BY <2>1, <2>3 DEF TypeOK, EmptyList, OnlyAck, LatestAck
    <3>2. state'[s] \in {"READY", "CLOSED"}
      BY <2>1 DEF TypeOK
    <3> QED BY <3>1, <3>2 DEF ShapeInState
  <2>7. ListShape'
    BY <2>1, <2>6, OtherSideUnchanged DEF TypeOK
  <2> QED BY <2>5, <2>7
<1>2. CASE ~AckExpected(s, Received(s))
  BY <1>2, ThrowStep DEF ReceiveAcknowledge
<1> QED BY <1>1, <1>2

LEMMA ReceiveOtherStep ==
  ASSUME IInv, NEW s \in Sides, ReceiveOther(s)
  PROVE  IInv'
<1> DEFINE frame == Stamped(s, "ACKNOWLEDGE", Received(s).seq, 0)
           kept == WithoutAcks(unacknowledged_sent_message[s])
<1> USE DEF IInv
<1>1. /\ SendMessageNow(s, frame, <<>>, kept)
      /\ state[s] \in OpenStates
      /\ PopReceived(s)
      /\ delivered' = [delivered EXCEPT ![s] = Append(@, Received(s).payload)]
      /\ UNCHANGED <<state, last_received_sequence_counter,
                     send_message_queue, exception, sent, errors>>
  BY DEF ReceiveOther
<1>2. Received(s).seq \in Sequence /\ Received(s).payload \in Nat
  BY <1>1, PopReceivedType DEF Frame
<1>3. frame \in Frame /\ IsAck(frame) /\ frame.seq = sequence_counter[s]
  BY <1>2, StampedType DEF MessageType, IsAck
<1>4. /\ state[s] = "READY" => kept = <<>>
      /\ state[s] # "READY" =>
           \E m \in Frame : kept = <<m>> /\ Awaited(s, m)
  BY <1>1, WithoutAcksShape DEF ListShape, ShapeInState, OpenStates
<1> HIDE DEF frame, kept
<1>5. <<>> \in Seq(Frame) /\ kept \in Seq(Frame)
  BY <1>4, ShortLists
<1>6. TypeOK'
  <2>1. delivered' \in [Sides -> Seq(Nat)]
    <3>1. Append(delivered[s], Received(s).payload) \in Seq(Nat)
      BY <1>2 DEF TypeOK
    <3> QED BY <1>1, <3>1 DEF TypeOK
  <2>2. /\ receive_message_queue' \in [Sides -> Seq(Frame)]
        /\ pc' \in [Sides -> {"idle", "receiving", "received"}]
    BY <1>1, PopReceivedType
  <2>3. /\ sequence_counter' \in [Sides -> Sequence]
        /\ last_send_sequence' \in [Sides -> Sequence]
        /\ stream' \in [Sides -> Seq(Frame)]
        /\ unacknowledged_sent_message' \in [Sides -> Seq(Frame)]
    BY <1>1, <1>3, <1>5, SendMessageNowType
  <2> QED BY <1>1, <2>1, <2>2, <2>3 DEF TypeOK
<1>7. ShapeInState(s)'
  <2>1. CASE state[s] = "READY"
    <3>1. OnlyAck(s)'
      BY <1>1, <1>3, <1>4, <2>1, SendAcknowledgeShape
    <3> QED BY <1>1, <2>1, <3>1 DEF ShapeInState
  <2>2. CASE state[s] # "READY"
    <3>1. MessageThenAck(s)'
      BY <1>1, <1>3, <1>4, <2>2, SendAcknowledgeShape
    <3> QED BY <1>1, <2>2, <3>1 DEF ShapeInState, OpenStates
  <2> QED BY <2>1, <2>2
<1>8. ListShape'
  BY <1>1, <1>7, SendMessageNowFrame, OtherSideUnchanged
<1> QED BY <1>6, <1>8

-----------------------------------------------------------------------------
(* The theorems. *)

LEMMA NextIInv == IInv /\ [Next]_vars => IInv'
<1> SUFFICES ASSUME IInv, [Next]_vars PROVE IInv'
  OBVIOUS
<1>1. ASSUME NEW s \in Sides, ClientSendsRequest(s) PROVE IInv'
  BY <1>1, ClientSendsRequestStep
<1>2. ASSUME NEW s \in Sides, HandshakeResend(s) PROVE IInv'
  BY <1>2, TransportStep
<1>3. ASSUME NEW s \in Sides, HandshakeTimeout(s) PROVE IInv'
  BY <1>3, TransportStep
<1>4. ASSUME NEW s \in Sides, NEW elapsed \in BOOLEAN, Handle(s, elapsed)
      PROVE  IInv'
  BY <1>4, HandleStep
<1>5. ASSUME NEW s \in Sides, NEW type \in Kinds, NEW elapsed \in BOOLEAN,
             SendMessage(s, type, elapsed)
      PROVE  IInv'
  BY <1>5, SendMessageStep
<1>6. ASSUME NEW s \in Sides, TryReceive(s) PROVE IInv'
  BY <1>6, TransportStep
<1>7. ASSUME NEW s \in Sides, Return(s) PROVE IInv'
  BY <1>7, TransportStep, ClientReceivesResponseStep, ServerReceivesRequestStep,
     ServerReceivesAcknowledgeStep, ReceiveAcknowledgeStep, ReceiveOtherStep
     DEF Return
<1>8. ASSUME NEW s \in Sides, DamageFrame(s) PROVE IInv'
  BY <1>8, TransportStep
<1>9. CASE UNCHANGED vars
  <2>1. TypeOK'
    BY <1>9 DEF IInv, TypeOK, vars
  <2> QED BY <1>9, <2>1, AllUnchanged DEF IInv, vars
<1> QED
  BY <1>1, <1>2, <1>3, <1>4, <1>5, <1>6, <1>7, <1>8, <1>9 DEF Next

LEMMA IInvImpliesOneOutstanding == IInv => OneOutstanding
<1> SUFFICES ASSUME IInv, NEW s \in Sides
             PROVE  LET list == unacknowledged_sent_message[s] IN
                    /\ \A i, j \in 1 .. Len(list) :
                         IsAck(list[i]) = IsAck(list[j]) => i = j
                    /\ state[s] = "READY" =>
                         \A i \in 1 .. Len(list) : IsAck(list[i])
                    /\ state[s] \in {"WAITING_FOR_ACKNOWLEDGE",
                                   "WAITING_FOR_CONNECTION_RESET_ACKNOWLEDGE"}
                        => \E i \in 1 .. Len(list) :
                             /\ ~IsAck(list[i])
                             /\ list[i].seq = last_send_sequence[s]
  BY DEF OneOutstanding
<1>1. state[s] \in ConnectionState /\ ShapeInState(s)
  BY DEF IInv, TypeOK, ListShape
<1>2. CASE EmptyList(s)
  BY <1>1, <1>2 DEF EmptyList, ShapeInState, OnlyMessage, AckThenMessage,
                    MessageThenAck
<1>3. CASE OnlyMessage(s)
  BY <1>1, <1>3 DEF ShapeInState, EmptyList, OnlyAck, OnlyMessage, Awaited,
                    LatestAck
<1>4. CASE OnlyAck(s)
  BY <1>1, <1>4 DEF ShapeInState, OnlyAck, OnlyMessage, AckThenMessage,
                    MessageThenAck, LatestAck, Awaited
<1>5. CASE AckThenMessage(s)
  BY <1>1, <1>5 DEF ShapeInState, EmptyList, OnlyAck, AckThenMessage, Awaited
<1>6. CASE MessageThenAck(s)
  BY <1>1, <1>6 DEF ShapeInState, EmptyList, OnlyAck, MessageThenAck, Awaited,
                    LatestAck
<1> QED
  BY <1>1, <1>2, <1>3, <1>4, <1>5, <1>6 DEF ShapeInState, ConnectionState

\* Every variable of both connections keeps its type - sequence numbers stay
\* within sequence_t in particular - for every modulus and every bound.
THEOREM TypeCorrect == Spec => []TypeOK
<1>1. IInv => TypeOK
  BY DEF IInv
<1> QED BY <1>1, InitIInv, NextIInv, PTL DEF Spec

\* A connection never has more than one message and one acknowledge that may
\* have to be resent, has no message left in READY, and still has the message
\* it waits for in the list whenever it waits.
THEOREM OutstandingBounded == Spec => []OneOutstanding
  BY InitIInv, NextIInv, IInvImpliesOneOutstanding, PTL DEF Spec

-----------------------------------------------------------------------------
(***************************************************************************)
(* The two sides.  No variable says which frames of a side's list the      *)
(* other side's ReceiveMessage has already handled: the side learns it     *)
(* only from an acknowledge.  LinkInv supplies it: read[s] counts the      *)
(* frames at the front of the list of s that have left the peer's receive  *)
(* queue.  The rest of the list is on the peer's receive queue, in order,  *)
(* or not accepted yet.                                                    *)
(***************************************************************************)

Waiting == {"WAITING_FOR_ACKNOWLEDGE",
            "WAITING_FOR_CONNECTION_RESET_ACKNOWLEDGE"}

-----------------------------------------------------------------------------
(* The parts of the invariant. *)

\* The sequence of the next frame the peer has to accept.
Following(first, last) == IF last = NoSequence THEN first ELSE NextSequence(last)

\* "n" frames of the list of unacknowledged frames have been handled by the
\* peer and those after them are on its receive queue; the first of the
\* others follows the last one the peer has accepted, and so on up to the
\* sequence counter.
Accounted(first, list, queue, last, counter, n) ==
  LET got == n + Len(queue) IN
  /\ got <= Len(list) /\ Len(list) <= 2
  /\ \A k \in 1 .. Len(queue) : queue[k] = list[n + k]
  /\ \A k \in 1 .. got : list[k].seq <= last
  /\ got < Len(list) => list[got + 1].seq = Following(first, last)
  /\ \A k \in got + 1 .. Len(list) - 1 :
       list[k + 1].seq = NextSequence(list[k].seq)
  /\ counter = IF got = Len(list) THEN Following(first, last)
               ELSE NextSequence(list[Len(list)].seq)
  /\ last = NoSequence => Len(list) <= 1

Flow(s, n) ==
  Accounted(FirstSequence(s), unacknowledged_sent_message[s],
            receive_message_queue[Peer(s)],
            last_received_sequence_counter[Peer(s)], sequence_counter[s], n)

\* A frame on the stream to the peer is damaged, a NACK, one the peer has
\* accepted already, or one of the list.
Known(frame, list, last) ==
  \/ frame.type \in {"DAMAGED", "NOT_ACKNOWLEDGE"}
  \/ frame.seq <= last
  \/ \E k \in 1 .. Len(list) : list[k] = frame

Streamed(s) ==
  \A i \in 1 .. Len(stream[Peer(s)]) :
    Known(stream[Peer(s)][i], unacknowledged_sent_message[s],
          last_received_sequence_counter[Peer(s)])

\* An acknowledge the peer has not handled yet answers the message the peer
\* is waiting for, which s has handled ("m" frames of the peer's list).
Answers(s, n, m) ==
  \A k \in 1 .. Len(unacknowledged_sent_message[s]) :
    LET ack == unacknowledged_sent_message[s][k] IN
    IsAck(ack) /\ k > n =>
      /\ state[Peer(s)] \in Waiting \cup {"SERVER_CONNECTION_RESPONSE_SENT"}
      /\ ack.acknowledged = last_send_sequence[Peer(s)]
      /\ \E j \in 1 .. Len(unacknowledged_sent_message[Peer(s)]) :
           j <= m /\ ~IsAck(unacknowledged_sent_message[Peer(s)][j])

\* The messages that have left the send queue.
Left(s) == sent[s] - Len(send_message_queue[s])

\* The message s waits for has not been handled by the peer.
Pending(s, n) ==
  /\ state[s] \in Waiting
  /\ \E k \in 1 .. Len(unacknowledged_sent_message[s]) :
       k > n /\ ~IsAck(unacknowledged_sent_message[s][k])

\* The messages of s are numbered in the order of the SendMessage calls, and
\* the peer's owner has got all that left the queue but the pending one.
InOrder(s, n) ==
  /\ Left(s) \in Nat
  /\ \A k \in 1 .. Len(send_message_queue[s]) :
       send_message_queue[s][k].payload = Left(s) + k
  /\ state[s] \in Waiting =>
       \A k \in 1 .. Len(unacknowledged_sent_message[s]) :
         ~IsAck(unacknowledged_sent_message[s][k]) =>
           unacknowledged_sent_message[s][k].payload = Left(s)
  /\ Pending(s, n) =>
       Left(s) > 0 /\ delivered[Peer(s)] = [i \in 1 .. Left(s) - 1 |-> i]
  /\ ~Pending(s, n) => delivered[Peer(s)] = [i \in 1 .. Left(s) |-> i]

\* How far the handshake has come: the states the two sides are in together,
\* and which of the three frames have been handled.
Handshake(read) ==
  LET client == unacknowledged_sent_message["client"]
      server == unacknowledged_sent_message["server"]
  IN
  /\ state["client"] \notin {"SERVER_WAITING_FOR_FIRST",
                             "SERVER_CONNECTION_RESPONSE_SENT"}
  /\ state["server"] \notin {"CLIENT_CONNECTION_START",
                             "CLIENT_CONNECTION_REQUEST_SENT"}
  /\ state["client"] = "CLIENT_CONNECTION_START" =>
       state["server"] = "SERVER_WAITING_FOR_FIRST"
  /\ state["client"] = "CLIENT_CONNECTION_REQUEST_SENT" =>
       /\ state["server"] \in {"SERVER_WAITING_FOR_FIRST",
                               "SERVER_CONNECTION_RESPONSE_SENT"}
       /\ client[1].type = "CONNECTION_REQUEST"
  /\ state["server"] = "SERVER_WAITING_FOR_FIRST" =>
       /\ state["client"] \in {"CLIENT_CONNECTION_START",
                               "CLIENT_CONNECTION_REQUEST_SENT"}
       /\ read["client"] = 0
  /\ state["server"] = "SERVER_CONNECTION_RESPONSE_SENT" =>
       /\ server[1].type = "CONNECTION_RESPONSE"
       /\ \/ /\ state["client"] = "CLIENT_CONNECTION_REQUEST_SENT"
             /\ read["client"] = 1 /\ read["server"] = 0
          \/ /\ state["client"] \in OpenStates \cup {"CLOSED"}
             /\ read["client"] = 0 /\ read["server"] = 1
             /\ Len(client) > 0 /\ IsAck(client[1])
  /\ state["server"] # "SERVER_WAITING_FOR_FIRST" =>
       last_received_sequence_counter["server"] # NoSequence
  /\ state["client"] \in OpenStates \cup {"CLOSED"} =>
       last_received_sequence_counter["client"] # NoSequence

SideInv(s, n, m) ==
  Flow(s, n) /\ Streamed(s) /\ Answers(s, n, m) /\ InOrder(s, n)

LinkParts(read) ==
  /\ \A s \in Sides : SideInv(s, read[s], read[Peer(s)])
  /\ Handshake(read)

LinkRest ==
  /\ NoProtocolException
  /\ \E read \in [Sides -> 0 .. 2] : LinkParts(read)

LinkInv == IInv /\ LinkRest

-----------------------------------------------------------------------------
(* Sequences. *)

LEMMA TailFacts ==
  ASSUME NEW S, NEW q \in Seq(S), q # <<>>
  PROVE  /\ Tail(q) \in Seq(S) /\ Len(q) > 0 /\ Len(q) \in Nat
         /\ Len(Tail(q)) = Len(q) - 1 /\ Head(q) = q[1] /\ Head(q) \in S
         /\ \A k \in 1 .. Len(Tail(q)) : Tail(q)[k] = q[k + 1]
  OBVIOUS

LEMMA AppendFacts ==
  ASSUME NEW S, NEW q \in Seq(S), NEW e \in S
  PROVE  /\ Append(q, e) \in Seq(S) /\ Len(q) \in Nat
         /\ Len(Append(q, e)) = Len(q) + 1
         /\ \A k \in 1 .. Len(q) : Append(q, e)[k] = q[k]
         /\ Append(q, e)[Len(q) + 1] = e
  OBVIOUS

LEMMA ConcatFacts ==
  ASSUME NEW q \in Seq(Frame), NEW r \in Seq(Frame)
  PROVE  \A i \in 1 .. Len(q \o r) :
           \/ \E j \in 1 .. Len(q) : (q \o r)[i] = q[j]
           \/ \E j \in 1 .. Len(r) : (q \o r)[i] = r[j]
<1> SUFFICES ASSUME NEW i \in 1 .. Len(q \o r)
             PROVE  \/ \E j \in 1 .. Len(q) : (q \o r)[i] = q[j]
                    \/ \E j \in 1 .. Len(r) : (q \o r)[i] = r[j]
  OBVIOUS
<1>1. /\ Len(q \o r) = Len(q) + Len(r) /\ Len(q) \in Nat /\ Len(r) \in Nat
      /\ (q \o r)[i] = IF i <= Len(q) THEN q[i] ELSE r[i - Len(q)]
  BY ConcatProperties
<1>2. CASE i <= Len(q)
  BY <1>1, <1>2
<1>3. CASE i > Len(q)
  <2>1. i - Len(q) \in 1 .. Len(r)
    BY <1>1, <1>3
  <2> QED BY <1>1, <1>3, <2>1
<1> QED BY <1>1, <1>2, <1>3

-----------------------------------------------------------------------------
(* What a step does to the frames accounted for. *)

\* ReceiveMessage takes the oldest accepted frame: the next one of the list.
LEMMA AccountedPop ==
  ASSUME NEW list \in Seq(Frame), NEW queue \in Seq(Frame), NEW first, NEW last,
         NEW counter, NEW n \in 0 .. 2, queue # <<>>,
         Accounted(first, list, queue, last, counter, n)
  PROVE  /\ Accounted(first, list, Tail(queue), last, counter, n + 1)
         /\ n + 1 \in 1 .. Len(list)
         /\ Head(queue) = list[n + 1]
         /\ n + 1 \in 0 .. 2
<1>1. /\ Len(queue) > 0 /\ Len(queue) \in Nat
      /\ Len(Tail(queue)) = Len(queue) - 1 /\ Head(queue) = queue[1]
      /\ \A k \in 1 .. Len(Tail(queue)) : Tail(queue)[k] = queue[k + 1]
  BY TailFacts
<1>2. (n + 1) + Len(Tail(queue)) = n + Len(queue) /\ Len(list) \in Nat
  BY <1>1
<1>3. \A k \in 1 .. Len(Tail(queue)) : Tail(queue)[k] = list[(n + 1) + k]
  <2> SUFFICES ASSUME NEW k \in 1 .. Len(Tail(queue))
               PROVE  Tail(queue)[k] = list[(n + 1) + k]
    OBVIOUS
  <2>1. Tail(queue)[k] = queue[k + 1] /\ k + 1 \in 1 .. Len(queue)
    BY <1>1
  <2>2. queue[k + 1] = list[n + (k + 1)]
    BY <2>1 DEF Accounted
  <2>3. n + (k + 1) = (n + 1) + k
    OBVIOUS
  <2> QED BY <2>1, <2>2, <2>3
<1>4. Accounted(first, list, Tail(queue), last, counter, n + 1)
  BY <1>2, <1>3 DEF Accounted
<1>5. queue[1] = list[n + 1]
  BY <1>1 DEF Accounted
<1> QED BY <1>1, <1>2, <1>4, <1>5 DEF Accounted

\* TryReceive accepts the frame that follows: it is the next one of the list,
\* even where the sequence wraps, because InSequence does not.
LEMMA AccountedAccept ==
  ASSUME NEW list \in Seq(Frame), NEW queue \in Seq(Frame),
         NEW first \in Sequence, NEW last \in Sequence \cup {NoSequence},
         NEW counter, NEW n \in 0 .. 2, NEW frame \in Frame,
         Accounted(first, list, queue, last, counter, n),
         last = NoSequence \/ frame.seq = last + 1,
         frame.seq <= last \/ \E k \in 1 .. Len(list) : list[k] = frame
  PROVE  Accounted(first, list, Append(queue, frame), frame.seq, counter, n)
<1> DEFINE got == n + Len(queue)
<1>1. /\ Len(queue) \in Nat /\ Len(list) \in Nat
      /\ Len(Append(queue, frame)) = Len(queue) + 1
      /\ \A k \in 1 .. Len(queue) : Append(queue, frame)[k] = queue[k]
      /\ Append(queue, frame)[Len(queue) + 1] = frame
  BY AppendFacts
<1>2. /\ frame.seq \in Sequence
      /\ \A k \in 1 .. Len(list) : list[k].seq \in Sequence
  <2>1. \A k \in 1 .. Len(list) : list[k] \in Frame
    OBVIOUS
  <2>2. \A f \in Frame : f.seq \in Sequence
    BY DEF Frame
  <2> QED BY <2>1, <2>2
<1>3. /\ \A x \in Sequence : x \in Nat /\ x < SequenceModulus
      /\ NoSequence = -1 /\ SequenceModulus \in Nat /\ SequenceModulus > 1
  BY SequenceAssumption DEF Sequence, NoSequence
<1>4. frame.seq > last
  BY <1>2, <1>3
<1>5. PICK j \in 1 .. Len(list) : list[j] = frame
  BY <1>2, <1>3, <1>4
<1>6. got \in Nat /\ got <= Len(list) /\ Len(list) <= 2
  BY <1>1 DEF Accounted
<1>7. j > got
  BY <1>2, <1>3, <1>4, <1>5, <1>6 DEF Accounted
<1>8. j = got + 1
  <2> SUFFICES ASSUME j # got + 1 PROVE FALSE
    OBVIOUS
  <2>1. got = 0 /\ j = 2 /\ Len(list) = 2
    <3>1. \A g, h, l \in Nat : /\ g < h /\ h <= l /\ l <= 2 /\ h # g + 1
                               => g = 0 /\ h = 2 /\ l = 2
      OBVIOUS
    <3>2. j \in Nat /\ j <= Len(list)
      BY <1>1
    <3> HIDE DEF got
    <3> QED BY <3>1, <3>2, <1>1, <1>6, <1>7
  <2>2. /\ last # NoSequence
        /\ list[1].seq = NextSequence(last)
        /\ list[2].seq = NextSequence(list[1].seq)
    BY <2>1, <1>1, <1>6 DEF Accounted, Following
  <2>3. last \in Nat /\ last < SequenceModulus /\ list[2].seq = last + 1
    BY <2>1, <2>2, <1>3, <1>5
  <2>4. last + 1 < SequenceModulus
    BY <2>1, <2>3, <1>2, <1>3
  <2>5. list[1].seq = last + 1
    BY <2>2, <2>3, <2>4, <1>3 DEF NextSequence
  <2> QED BY <2>2, <2>3, <2>4, <2>5, <1>3 DEF NextSequence
<1>9. \A k \in 1 .. Len(Append(queue, frame)) :
        Append(queue, frame)[k] = list[n + k]
  BY <1>1, <1>5, <1>6, <1>8 DEF Accounted
<1>10. \A k \in 1 .. got + 1 : list[k].seq <= frame.seq
  <2> SUFFICES ASSUME NEW k \in 1 .. got + 1 PROVE list[k].seq <= frame.seq
    OBVIOUS
  <2>1. CASE k = got + 1
    BY <2>1, <1>2, <1>3, <1>5, <1>6, <1>8
  <2>2. CASE k \in 1 .. got
    <3>1. list[k].seq <= last /\ list[k].seq \in Sequence
      BY <2>2, <1>2, <1>6 DEF Accounted
    <3> QED BY <3>1, <1>2, <1>3, <1>4
  <2> QED BY <2>1, <2>2, <1>6
<1>11. Following(first, frame.seq) = NextSequence(frame.seq)
  BY <1>2, <1>3 DEF Following
<1>12. got + 1 < Len(list) => list[got + 2].seq = NextSequence(frame.seq)
  BY <1>5, <1>6, <1>8 DEF Accounted
<1>13. counter = IF got + 1 = Len(list) THEN NextSequence(frame.seq)
                 ELSE NextSequence(list[Len(list)].seq)
  BY <1>5, <1>6, <1>8 DEF Accounted
<1>14. n + Len(Append(queue, frame)) = got + 1 /\ (got + 1) + 1 = got + 2
  BY <1>1, <1>6
<1>15. frame.seq # NoSequence
  BY <1>2, <1>3
<1>16. \A k \in (got + 1) + 1 .. Len(list) - 1 :
         list[k + 1].seq = NextSequence(list[k].seq)
  BY <1>6
<1>17. got + 1 <= Len(list)
  BY <1>8
<1> HIDE DEF got
<1> QED
  BY <1>6, <1>9, <1>10, <1>11, <1>12, <1>13, <1>14, <1>15, <1>16, <1>17
     DEF Accounted

\* SendMessageNow appends a frame with the counter as its sequence.
LEMMA AccountedSend ==
  ASSUME NEW list \in Seq(Frame), NEW queue \in Seq(Frame),
         NEW first \in Sequence, NEW last \in Sequence \cup {NoSequence},
         NEW counter, NEW n \in 0 .. 2, NEW frame \in Frame,
         Accounted(first, list, queue, last, counter, n),
         frame.seq = counter, Len(list) <= 1,
         last # NoSequence \/ list = <<>>
  PROVE  Accounted(first, Append(list, frame), queue, last,
                   NextSequence(counter), n)
<1> DEFINE got == n + Len(queue)
           longer == Append(list, frame)
<1>1. /\ Len(queue) \in Nat /\ Len(list) \in Nat
      /\ Len(longer) = Len(list) + 1
      /\ \A k \in 1 .. Len(list) : longer[k] = list[k]
      /\ longer[Len(list) + 1] = frame
  BY AppendFacts
<1>2. got \in Nat /\ got <= Len(list)
  BY <1>1 DEF Accounted
<1> HIDE DEF longer
<1>3. \A k \in 1 .. Len(queue) : queue[k] = longer[n + k]
  BY <1>1, <1>2 DEF Accounted
<1>4. \A k \in 1 .. got : longer[k].seq <= last
  BY <1>1, <1>2 DEF Accounted
<1>5. longer[got + 1].seq = Following(first, last)
  BY <1>1, <1>2 DEF Accounted
<1>6. \A k \in got + 1 .. Len(longer) - 1 :
        longer[k + 1].seq = NextSequence(longer[k].seq)
  <2> SUFFICES ASSUME NEW k \in got + 1 .. Len(longer) - 1
               PROVE  longer[k + 1].seq = NextSequence(longer[k].seq)
    OBVIOUS
  <2>1. k = 1 /\ got = 0 /\ Len(list) = 1
    <3>1. \A g, l \in Nat : \A h \in g + 1 .. l : l <= 1 =>
            h = 1 /\ g = 0 /\ l = 1
      OBVIOUS
    <3>2. Len(longer) - 1 = Len(list)
      BY <1>1
    <3> HIDE DEF got
    <3> QED BY <3>1, <3>2, <1>1, <1>2
  <2> QED BY <2>1, <1>1 DEF Accounted
<1>7. last = NoSequence => Len(longer) <= 1
  BY <1>1
<1> QED
  BY <1>1, <1>2, <1>3, <1>4, <1>5, <1>6, <1>7 DEF Accounted, longer

\* The list without frames the peer has handled, and without any frame once
\* the peer has handled them all.
LEMMA AccountedDropFirst ==
  ASSUME NEW x \in Frame, NEW y \in Frame, NEW queue \in Seq(Frame),
         NEW first, NEW last, NEW counter, NEW n \in 1 .. 2,
         Accounted(first, <<x, y>>, queue, last, counter, n)
  PROVE  Accounted(first, <<y>>, queue, last, counter, n - 1)
<1>1. /\ Len(<<x, y>>) = 2 /\ <<x, y>>[1] = x /\ <<x, y>>[2] = y
      /\ Len(<<y>>) = 1 /\ <<y>>[1] = y /\ Len(queue) \in Nat
  OBVIOUS
<1> DEFINE list == <<x, y>>
           rest == <<y>>
<1>2. /\ Len(list) = 2 /\ list[1] = x /\ list[2] = y
      /\ Len(rest) = 1 /\ rest[1] = y /\ Len(queue) \in Nat
      /\ Accounted(first, list, queue, last, counter, n)
  BY <1>1
<1> HIDE DEF list, rest
<1>3. (n - 1) + Len(queue) <= Len(rest) /\ Len(rest) <= 2
  BY <1>2 DEF Accounted
<1>4. \A k \in 1 .. Len(queue) : queue[k] = rest[(n - 1) + k]
  <2> SUFFICES ASSUME NEW k \in 1 .. Len(queue)
               PROVE  queue[k] = rest[(n - 1) + k]
    OBVIOUS
  <2>1. n + k = 2 /\ (n - 1) + k = 1
    BY <1>2 DEF Accounted
  <2> QED BY <2>1, <1>2 DEF Accounted
<1>5. \A k \in 1 .. (n - 1) + Len(queue) : rest[k].seq <= last
  BY <1>2, <1>3 DEF Accounted
<1>6. (n - 1) + Len(queue) < Len(rest) =>
        /\ rest[(n - 1) + Len(queue) + 1].seq = Following(first, last)
        /\ n + Len(queue) = 1
  BY <1>2, <1>3 DEF Accounted
<1>7. counter = IF (n - 1) + Len(queue) = Len(rest)
                THEN Following(first, last)
                ELSE NextSequence(rest[Len(rest)].seq)
  BY <1>2, <1>3 DEF Accounted
<1> QED
  <2>1. Accounted(first, rest, queue, last, counter, n - 1)
    BY <1>2, <1>3, <1>4, <1>5, <1>6, <1>7 DEF Accounted
  <2> QED BY <2>1 DEF rest

LEMMA AccountedDropSecond ==
  ASSUME NEW x \in Frame, NEW y \in Frame, NEW queue \in Seq(Frame),
         NEW first, NEW last, NEW counter,
         Accounted(first, <<x, y>>, queue, last, counter, 2)
  PROVE  Accounted(first, <<x>>, queue, last, counter, 1)
<1> DEFINE list == <<x, y>>
           rest == <<x>>
<1>1. /\ Len(list) = 2 /\ list[1] = x /\ list[2] = y
      /\ Len(rest) = 1 /\ rest[1] = x /\ Len(queue) \in Nat
      /\ Accounted(first, list, queue, last, counter, 2)
  OBVIOUS
<1> HIDE DEF list, rest
<1>2. Len(queue) = 0
  BY <1>1 DEF Accounted
<1>3. Accounted(first, rest, queue, last, counter, 1)
  BY <1>1, <1>2 DEF Accounted
<1> QED BY <1>3 DEF rest

LEMMA AccountedClear ==
  ASSUME NEW list \in Seq(Frame), NEW queue \in Seq(Frame), NEW first,
         NEW last, NEW counter, Len(list) \in 0 .. 2,
         Accounted(first, list, queue, last, counter, Len(list))
  PROVE  Accounted(first, <<>>, queue, last, counter, 0)
<1>1. Len(queue) \in Nat /\ Len(<<>>) = 0
  OBVIOUS
<1>2. Len(queue) = 0 /\ counter = Following(first, last)
  BY <1>1 DEF Accounted
<1> DEFINE none == <<>>
<1>3. Len(none) = 0
  OBVIOUS
<1> HIDE DEF none
<1>4. Accounted(first, none, queue, last, counter, 0)
  BY <1>2, <1>3 DEF Accounted
<1> QED BY <1>4 DEF none

-----------------------------------------------------------------------------
(* The list in the states in which frames are taken from it. *)

\* The list, the receive queue and the counters of a side, with their types.
LEMMA FlowTypes ==
  ASSUME IInv, NEW s \in Sides
  PROVE  /\ Peer(s) \in Sides /\ Peer(s) # s /\ Peer(Peer(s)) = s
         /\ unacknowledged_sent_message[s] \in Seq(Frame)
         /\ Len(unacknowledged_sent_message[s]) \in 0 .. 2
         /\ receive_message_queue[s] \in Seq(Frame)
         /\ stream[s] \in Seq(Frame)
         /\ send_message_queue[s] \in Seq(Queued)
         /\ sent[s] \in Nat
         /\ state[s] \in ConnectionState
         /\ FirstSequence(s) \in Sequence
         /\ sequence_counter[s] \in Sequence
         /\ last_send_sequence[s] \in Sequence
         /\ last_received_sequence_counter[s] \in Sequence \cup {NoSequence}
<1>1. TypeOK /\ ShapeInState(s) /\ state[s] \in ConnectionState
  BY DEF IInv, ListShape, TypeOK
<1>2. Len(unacknowledged_sent_message[s]) \in 0 .. 2
  <2>1. EmptyList(s) \/ OnlyMessage(s) \/ OnlyAck(s) \/ AckThenMessage(s)
          \/ MessageThenAck(s)
    BY <1>1 DEF ShapeInState, ConnectionState
  <2>2. EmptyList(s) => Len(unacknowledged_sent_message[s]) = 0
    BY DEF EmptyList
  <2>3. OnlyMessage(s) \/ OnlyAck(s)
          => Len(unacknowledged_sent_message[s]) = 1
    BY DEF OnlyMessage, OnlyAck
  <2>4. AckThenMessage(s) \/ MessageThenAck(s)
          => Len(unacknowledged_sent_message[s]) = 2
    BY DEF AckThenMessage, MessageThenAck
  <2> QED BY <2>1, <2>2, <2>3, <2>4
<1>3. Peer(s) \in Sides /\ Peer(s) # s /\ Peer(Peer(s)) = s
  BY DEF Sides, Peer
<1>4. FirstSequence(s) \in Sequence
  BY SequenceAssumption DEF FirstSequence, Sequence
<1> QED BY <1>1, <1>2, <1>3, <1>4 DEF TypeOK

\* "Dropping" the list to "rest" leaves the frames accounted for, and drops
\* only frames the peer has accepted.
Dropped(s, rest, n, m) ==
  /\ rest \in Seq(Frame) /\ Len(rest) \in 0 .. 1 /\ m \in 0 .. 2
  /\ Accounted(FirstSequence(s), rest, receive_message_queue[Peer(s)],
               last_received_sequence_counter[Peer(s)], sequence_counter[s], m)
  /\ \A k \in 1 .. Len(unacknowledged_sent_message[s]) :
       \/ /\ k <= n
          /\ unacknowledged_sent_message[s][k].seq
               <= last_received_sequence_counter[Peer(s)]
       \/ Len(rest) = 1 /\ unacknowledged_sent_message[s][k] = rest[1]
  /\ Len(rest) = 1 =>
       \E k \in 1 .. Len(unacknowledged_sent_message[s]) :
         /\ unacknowledged_sent_message[s][k] = rest[1]
         /\ (k > n) <=> (1 > m)

LEMMA HandledAccepted ==
  ASSUME NEW list \in Seq(Frame), NEW queue \in Seq(Frame), NEW first, NEW last,
         NEW counter, NEW n \in 0 .. 2, NEW k \in 1 .. Len(list), k <= n,
         Accounted(first, list, queue, last, counter, n)
  PROVE  list[k].seq <= last
<1>1. Len(queue) \in Nat
  OBVIOUS
<1> QED BY <1>1 DEF Accounted

\* remove_if(type == ACKNOWLEDGE), when the peer has handled all of them.
LEMMA ForgetAcks ==
  ASSUME IInv, NEW s \in Sides, NEW n \in 0 .. 2, state[s] \in OpenStates,
         Flow(s, n),
         \A k \in 1 .. Len(unacknowledged_sent_message[s]) :
           IsAck(unacknowledged_sent_message[s][k]) => k <= n
  PROVE  \E m \in 0 .. 2 :
           /\ Dropped(s, WithoutAcks(unacknowledged_sent_message[s]), n, m)
           /\ \A k \in 1 .. Len(unacknowledged_sent_message[s]) :
                ~IsAck(unacknowledged_sent_message[s][k]) =>
                  /\ WithoutAcks(unacknowledged_sent_message[s]) =
                       <<unacknowledged_sent_message[s][k]>>
                  /\ (k > n) <=> (1 > m)
           /\ (\A k \in 1 .. Len(unacknowledged_sent_message[s]) :
                 IsAck(unacknowledged_sent_message[s][k]))
              => WithoutAcks(unacknowledged_sent_message[s]) = <<>>
<1> DEFINE list == unacknowledged_sent_message[s]
           queue == receive_message_queue[Peer(s)]
           last == last_received_sequence_counter[Peer(s)]
           first == FirstSequence(s)
           counter == sequence_counter[s]
           rest == WithoutAcks(list)
           Goal(m) ==
             /\ Dropped(s, rest, n, m)
             /\ \A k \in 1 .. Len(list) :
                  ~IsAck(list[k]) =>
                    rest = <<list[k]>> /\ ((k > n) <=> (1 > m))
             /\ (\A k \in 1 .. Len(list) : IsAck(list[k])) => rest = <<>>
<1> SUFFICES \E m \in 0 .. 2 : Goal(m)
  OBVIOUS
<1>1. /\ queue \in Seq(Frame) /\ list \in Seq(Frame)
      /\ Accounted(first, list, queue, last, counter, n)
      /\ \A k \in 1 .. Len(list) : IsAck(list[k]) => k <= n
      /\ n <= Len(list) /\ n + Len(queue) <= Len(list)
  BY FlowTypes DEF Flow, Accounted
<1>2. EmptyList(s) \/ OnlyMessage(s) \/ OnlyAck(s) \/ AckThenMessage(s)
        \/ MessageThenAck(s)
  BY DEF IInv, ListShape, ShapeInState, OpenStates
<1>3. CASE EmptyList(s)
  <2>1. list = <<>> /\ rest = <<>> /\ Len(list) = 0 /\ n = 0
    BY <1>1, <1>3, WithoutAcksEmpty DEF EmptyList
  <2>2. Len(rest) = 0 /\ rest \in Seq(Frame)
    <3> HIDE DEF rest
    <3> QED BY <2>1
  <2>3. Dropped(s, rest, n, 0)
    <3> HIDE DEF rest
    <3> QED BY <1>1, <2>1, <2>2 DEF Dropped
  <2> QED BY <2>1, <2>3
<1>4. CASE OnlyAck(s)
  <2>1. PICK a \in Frame : list = <<a>> /\ IsAck(a)
    BY <1>4 DEF OnlyAck, LatestAck
  <2>2. Len(list) = 1 /\ list[1] = a /\ n = 1 /\ rest = <<>>
    BY <1>1, <2>1, WithoutAcksOne
  <2>3. Accounted(first, <<>>, queue, last, counter, 0)
    BY <1>1, <2>2, AccountedClear
  <2>4. Dropped(s, rest, n, 0)
    BY <1>1, <2>2, <2>3, HandledAccepted DEF Dropped
  <2> QED BY <2>1, <2>2, <2>4
<1>5. CASE OnlyMessage(s)
  <2>1. PICK x \in Frame : list = <<x>> /\ ~IsAck(x)
    BY <1>5 DEF OnlyMessage, Awaited
  <2>2. Len(list) = 1 /\ list[1] = x /\ rest = <<x>>
    BY <2>1, WithoutAcksOne
  <2>3. Len(rest) = 1 /\ rest[1] = x /\ rest \in Seq(Frame) /\ rest = list
    <3> HIDE DEF rest
    <3> QED BY <2>1, <2>2
  <2>4. Dropped(s, rest, n, n)
    <3> HIDE DEF rest
    <3> QED BY <1>1, <2>2, <2>3 DEF Dropped
  <2> QED BY <2>1, <2>2, <2>4
<1>6. CASE AckThenMessage(s)
  <2>1. PICK a \in Frame, x \in Frame : list = <<a, x>> /\ IsAck(a) /\ ~IsAck(x)
    BY <1>6 DEF AckThenMessage, Awaited
  <2>2. /\ Len(list) = 2 /\ list[1] = a /\ list[2] = x /\ rest = <<x>>
        /\ Len(<<x>>) = 1 /\ <<x>>[1] = x /\ <<x>> \in Seq(Frame)
    <3>1. rest = <<x>>
      BY <2>1, WithoutAcksTwo
    <3> HIDE DEF rest
    <3> QED BY <2>1, <3>1
  <2>3. n \in 1 .. 2
    BY <1>1, <2>1, <2>2
  <2>4. Accounted(first, <<x>>, queue, last, counter, n - 1)
    BY <1>1, <2>1, <2>3, AccountedDropFirst
  <2>5. list[1].seq <= last
    BY <1>1, <2>2, <2>3, HandledAccepted
  <2>6. Dropped(s, rest, n, n - 1)
    BY <2>2, <2>3, <2>4, <2>5 DEF Dropped
  <2> QED BY <2>1, <2>2, <2>3, <2>6
<1>7. CASE MessageThenAck(s)
  <2>1. PICK a \in Frame, x \in Frame : list = <<x, a>> /\ IsAck(a) /\ ~IsAck(x)
    BY <1>7 DEF MessageThenAck, Awaited, LatestAck
  <2>2. /\ Len(list) = 2 /\ list[1] = x /\ list[2] = a /\ rest = <<x>>
        /\ Len(<<x>>) = 1 /\ <<x>>[1] = x /\ <<x>> \in Seq(Frame)
    <3>1. rest = <<x>>
      BY <2>1, WithoutAcksTwo
    <3> HIDE DEF rest
    <3> QED BY <2>1, <3>1
  <2>3. n = 2
    BY <1>1, <2>1, <2>2
  <2>4. Accounted(first, <<x>>, queue, last, counter, 1)
    BY <1>1, <2>1, <2>3, AccountedDropSecond
  <2>5. list[2].seq <= last
    BY <1>1, <2>2, <2>3, HandledAccepted
  <2>6. Dropped(s, rest, n, 1)
    BY <2>2, <2>3, <2>4, <2>5 DEF Dropped
  <2> QED BY <2>1, <2>2, <2>3, <2>6
<1> QED BY <1>2, <1>3, <1>4, <1>5, <1>6, <1>7

\* erase(begin, ++find(seq)), when the peer has handled the message.
LEMMA DropAcknowledged ==
  ASSUME IInv, NEW s \in Sides, NEW n \in 0 .. 2, state[s] \in Waiting,
         Flow(s, n),
         NEW j \in 1 .. Len(unacknowledged_sent_message[s]), j <= n,
         ~IsAck(unacknowledged_sent_message[s][j])
  PROVE  LET rest == AfterAcknowledged(unacknowledged_sent_message[s],
                                       last_send_sequence[s])
         IN \E m \in 0 .. 2 :
              /\ Dropped(s, rest, n, m)
              /\ \A k \in 1 .. Len(rest) : IsAck(rest[k])
<1> DEFINE list == unacknowledged_sent_message[s]
           queue == receive_message_queue[Peer(s)]
           last == last_received_sequence_counter[Peer(s)]
           first == FirstSequence(s)
           counter == sequence_counter[s]
           rest == AfterAcknowledged(list, last_send_sequence[s])
<1> SUFFICES \E m \in 0 .. 2 : Dropped(s, rest, n, m) /\
                               \A k \in 1 .. Len(rest) : IsAck(rest[k])
  OBVIOUS
<1>1. /\ queue \in Seq(Frame) /\ list \in Seq(Frame)
      /\ Accounted(first, list, queue, last, counter, n)
      /\ n <= Len(list) /\ n + Len(queue) <= Len(list)
  BY FlowTypes DEF Flow, Accounted
<1>2. OnlyMessage(s) \/ AckThenMessage(s) \/ MessageThenAck(s)
  BY DEF IInv, ListShape, ShapeInState, Waiting
<1>3. CASE OnlyMessage(s)
  <2>1. PICK x \in Frame : list = <<x>> /\ x.seq = last_send_sequence[s]
    BY <1>3 DEF OnlyMessage, Awaited
  <2>2. Len(list) = 1 /\ list[1] = x /\ n = 1 /\ rest = <<>>
    BY <1>1, <2>1, AfterAcknowledgedOne
  <2>3. Accounted(first, <<>>, queue, last, counter, 0)
    BY <1>1, <2>2, AccountedClear
  <2>4. Dropped(s, rest, n, 0)
    BY <1>1, <2>2, <2>3, HandledAccepted DEF Dropped
  <2> QED BY <2>2, <2>4
<1>4. CASE AckThenMessage(s)
  <2>1. PICK a \in Frame, x \in Frame :
          /\ list = <<a, x>> /\ IsAck(a) /\ x.seq = last_send_sequence[s]
          /\ x.seq = NextSequence(a.seq)
    BY <1>4 DEF AckThenMessage, Awaited
  <2>2. a.seq # x.seq
    BY <2>1, NextSequenceType DEF Frame
  <2>3. Len(list) = 2 /\ list[1] = a /\ list[2] = x /\ n = 2 /\ rest = <<>>
    BY <1>1, <2>1, <2>2, AfterAcknowledgedSecond
  <2>4. Accounted(first, <<>>, queue, last, counter, 0)
    BY <1>1, <2>3, AccountedClear
  <2>5. Dropped(s, rest, n, 0)
    BY <1>1, <2>3, <2>4, HandledAccepted DEF Dropped
  <2> QED BY <2>3, <2>5
<1>5. CASE MessageThenAck(s)
  <2>1. PICK a \in Frame, x \in Frame :
          /\ list = <<x, a>> /\ IsAck(a) /\ x.seq = last_send_sequence[s]
    BY <1>5 DEF MessageThenAck, Awaited, LatestAck
  <2>2. /\ Len(list) = 2 /\ list[1] = x /\ list[2] = a /\ rest = <<a>>
        /\ Len(<<a>>) = 1 /\ <<a>>[1] = a /\ <<a>> \in Seq(Frame)
    BY <2>1, AfterAcknowledgedFirst
  <2>3. n \in 1 .. 2
    BY <2>2
  <2>4. Accounted(first, <<a>>, queue, last, counter, n - 1)
    BY <1>1, <2>1, <2>3, AccountedDropFirst
  <2>5. list[1].seq <= last
    BY <1>1, <2>2, <2>3, HandledAccepted
  <2>6. Dropped(s, rest, n, n - 1)
    BY <2>2, <2>3, <2>4, <2>5 DEF Dropped
  <2> QED BY <2>1, <2>2, <2>3, <2>6
<1> QED BY <1>2, <1>3, <1>4, <1>5

-----------------------------------------------------------------------------
(* Steps that only move frames. *)

LEMMA FlowUnchanged ==
  ASSUME NEW s \in Sides, NEW n \in 0 .. 2, Flow(s, n),
         unacknowledged_sent_message'[s] = unacknowledged_sent_message[s],
         receive_message_queue'[Peer(s)] = receive_message_queue[Peer(s)],
         last_received_sequence_counter'[Peer(s)] =
           last_received_sequence_counter[Peer(s)],
         sequence_counter'[s] = sequence_counter[s]
  PROVE  Flow(s, n)'
  BY DEF Flow

LEMMA InOrderUnchanged ==
  ASSUME NEW s \in Sides, NEW n \in 0 .. 2, InOrder(s, n),
         state'[s] = state[s],
         unacknowledged_sent_message'[s] = unacknowledged_sent_message[s],
         send_message_queue'[s] = send_message_queue[s],
         sent'[s] = sent[s],
         delivered'[Peer(s)] = delivered[Peer(s)]
  PROVE  InOrder(s, n)'
  BY DEF InOrder, Left, Pending

LEMMA AnswersUnchanged ==
  ASSUME NEW s \in Sides, NEW n \in 0 .. 2, NEW m \in 0 .. 2, Answers(s, n, m),
         state'[Peer(s)] = state[Peer(s)],
         last_send_sequence'[Peer(s)] = last_send_sequence[Peer(s)],
         unacknowledged_sent_message'[s] = unacknowledged_sent_message[s],
         unacknowledged_sent_message'[Peer(s)] =
           unacknowledged_sent_message[Peer(s)]
  PROVE  Answers(s, n, m)'
  BY DEF Answers

\* What comes onto the stream is a NACK, damage or a repetition.
LEMMA StreamedStep ==
  ASSUME IInv, IInv', NEW s \in Sides, Streamed(s),
         unacknowledged_sent_message'[s] = unacknowledged_sent_message[s],
         last_received_sequence_counter'[Peer(s)] >=
           last_received_sequence_counter[Peer(s)],
         \A i \in 1 .. Len(stream'[Peer(s)]) :
           \/ \E j \in 1 .. Len(stream[Peer(s)]) :
                stream'[Peer(s)][i] = stream[Peer(s)][j]
           \/ stream'[Peer(s)][i].type \in {"DAMAGED", "NOT_ACKNOWLEDGE"}
           \/ \E k \in 1 .. Len(unacknowledged_sent_message[s]) :
                unacknowledged_sent_message[s][k] = stream'[Peer(s)][i]
  PROVE  Streamed(s)'
<1> DEFINE p == Peer(s)
           list == unacknowledged_sent_message[s]
<1>1. /\ p \in Sides /\ stream[p] \in Seq(Frame)
      /\ last_received_sequence_counter[p] \in Int
  BY FlowTypes DEF Sequence, NoSequence
<1>2. last_received_sequence_counter'[p] \in Int
  BY <1>1 DEF IInv, TypeOK, Sequence, NoSequence
<1>3. \A j \in 1 .. Len(stream[p]) : stream[p][j].seq \in Int
  <2>1. \A j \in 1 .. Len(stream[p]) : stream[p][j] \in Frame
    BY <1>1
  <2>2. \A f \in Frame : f.seq \in Int
    BY SequenceAssumption DEF Frame, Sequence
  <2> QED BY <2>1, <2>2
<1> SUFFICES ASSUME NEW i \in 1 .. Len(stream'[p])
             PROVE  Known(stream'[p][i], list,
                          last_received_sequence_counter'[p])
  BY DEF Streamed, Known
<1>4. ASSUME NEW j \in 1 .. Len(stream[p]), stream'[p][i] = stream[p][j]
      PROVE  Known(stream'[p][i], list, last_received_sequence_counter'[p])
  <2>1. Known(stream[p][j], list, last_received_sequence_counter[p])
    BY <1>4 DEF Streamed
  <2>2. stream[p][j].seq <= last_received_sequence_counter[p] =>
          stream[p][j].seq <= last_received_sequence_counter'[p]
    BY <1>1, <1>2, <1>3
  <2> QED BY <1>4, <2>1, <2>2 DEF Known
<1> QED BY <1>4 DEF Known

LEMMA StreamedUnchanged ==
  ASSUME IInv, NEW s \in Sides, Streamed(s),
         unacknowledged_sent_message'[s] = unacknowledged_sent_message[s],
         last_received_sequence_counter'[Peer(s)] =
           last_received_sequence_counter[Peer(s)],
         stream'[Peer(s)] = stream[Peer(s)]
  PROVE  Streamed(s)'
  BY DEF Streamed, Known

\* A side accepts more, never less.
LEMMA HandshakeUnchanged ==
  ASSUME NEW read \in [Sides -> 0 .. 2], Handshake(read),
         UNCHANGED <<state, unacknowledged_sent_message>>,
         \A t \in Sides : last_received_sequence_counter[t] # NoSequence =>
                          last_received_sequence_counter'[t] # NoSequence
  PROVE  Handshake(read)'
  BY DEF Handshake, Sides

LEMMA PartsUnchanged ==
  ASSUME NEW read \in [Sides -> 0 .. 2], LinkParts(read),
         UNCHANGED <<state, last_send_sequence, unacknowledged_sent_message>>,
         \A t \in Sides : last_received_sequence_counter[t] # NoSequence =>
                          last_received_sequence_counter'[t] # NoSequence,
         \A t \in Sides :
           Flow(t, read[t])' /\ Streamed(t)' /\ InOrder(t, read[t])'
  PROVE  LinkParts(read)'
<1>1. Handshake(read)'
  BY HandshakeUnchanged DEF LinkParts
<1>2. ASSUME NEW t \in Sides PROVE Answers(t, read[t], read[Peer(t)])'
  BY AnswersUnchanged, PeerType DEF LinkParts, SideInv
<1> QED BY <1>1, <1>2 DEF LinkParts, SideInv

\* TryReceive without an accepted frame, resends, damage, and the send queue
\* growing: nothing but the streams and the queue changes.
LEMMA StreamStep ==
  ASSUME IInv, IInv', LinkRest, exception' = exception,
         UNCHANGED <<state, sequence_counter, last_send_sequence,
                     last_received_sequence_counter,
                     unacknowledged_sent_message, receive_message_queue,
                     delivered>>,
         \A t \in Sides, n \in 0 .. 2 : InOrder(t, n) => InOrder(t, n)',
         \A t \in Sides : \A i \in 1 .. Len(stream'[t]) :
           \/ \E j \in 1 .. Len(stream[t]) : stream'[t][i] = stream[t][j]
           \/ stream'[t][i].type \in {"DAMAGED", "NOT_ACKNOWLEDGE"}
           \/ \E k \in 1 .. Len(unacknowledged_sent_message[Peer(t)]) :
                unacknowledged_sent_message[Peer(t)][k] = stream'[t][i]
  PROVE  LinkRest'
<1>1. PICK read \in [Sides -> 0 .. 2] : LinkParts(read)
  BY DEF LinkRest
<1>2. ASSUME NEW t \in Sides
      PROVE  Flow(t, read[t])' /\ Streamed(t)' /\ InOrder(t, read[t])'
  <2>1. SideInv(t, read[t], read[Peer(t)]) /\ read[t] \in 0 .. 2
    BY <1>1 DEF LinkParts
  <2>2. Flow(t, read[t])'
    BY <2>1, FlowUnchanged DEF SideInv
  <2>3. InOrder(t, read[t])'
    BY <2>1 DEF SideInv
  <2>4. /\ Peer(t) \in Sides /\ Peer(Peer(t)) = t
        /\ last_received_sequence_counter[Peer(t)] \in Int
    BY FlowTypes DEF Sequence, NoSequence
  <2>5. last_received_sequence_counter'[Peer(t)] >=
          last_received_sequence_counter[Peer(t)]
    BY <2>4
  <2>6. Streamed(t)'
    BY <2>1, <2>4, <2>5, StreamedStep DEF SideInv
  <2> QED BY <2>2, <2>3, <2>6
<1>3. LinkParts(read)'
  BY <1>1, <1>2, PartsUnchanged
<1>4. NoProtocolException'
  BY DEF LinkRest, NoProtocolException
<1> QED BY <1>3, <1>4 DEF LinkRest

\* The frames on a stream after its head has been read, and after frames
\* have been written to it.
LEMMA TailElements ==
  ASSUME NEW q \in Seq(Frame), q # <<>>
  PROVE  \A i \in 1 .. Len(Tail(q)) : \E j \in 1 .. Len(q) : Tail(q)[i] = q[j]
<1> SUFFICES ASSUME NEW i \in 1 .. Len(Tail(q))
             PROVE  \E j \in 1 .. Len(q) : Tail(q)[i] = q[j]
  OBVIOUS
<1>1. Tail(q)[i] = q[i + 1] /\ i + 1 \in 1 .. Len(q)
  BY TailFacts
<1> QED BY <1>1

LEMMA AppendElements ==
  ASSUME NEW q \in Seq(Frame), NEW f \in Frame
  PROVE  \A i \in 1 .. Len(Append(q, f)) :
           (\E j \in 1 .. Len(q) : Append(q, f)[i] = q[j]) \/ Append(q, f)[i] = f
<1> SUFFICES ASSUME NEW i \in 1 .. Len(Append(q, f))
             PROVE  \/ \E j \in 1 .. Len(q) : Append(q, f)[i] = q[j]
                    \/ Append(q, f)[i] = f
  OBVIOUS
<1>1. i \in 1 .. Len(q) \/ i = Len(q) + 1
  BY AppendFacts
<1> QED BY <1>1, AppendFacts

LEMMA StreamMoves ==
  ASSUME IInv, IInv', LinkRest, NEW s \in Sides,
         \/ TryReceiveDamaged(s) \/ TryReceiveNack(s) \/ HandshakeResend(s)
         \/ HandshakeTimeout(s) \/ DamageFrame(s) \/ ReceiveNothing(s)
  PROVE  LinkRest'
<1> DEFINE p == Peer(s)
           Kept(t) ==
             \A i \in 1 .. Len(stream'[t]) :
               \/ \E j \in 1 .. Len(stream[t]) : stream'[t][i] = stream[t][j]
               \/ stream'[t][i].type \in {"DAMAGED", "NOT_ACKNOWLEDGE"}
               \/ \E k \in 1 .. Len(unacknowledged_sent_message[Peer(t)]) :
                    unacknowledged_sent_message[Peer(t)][k] = stream'[t][i]
<1>1. /\ p \in Sides /\ p # s /\ Peer(p) = s
      /\ stream[s] \in Seq(Frame) /\ stream[p] \in Seq(Frame)
      /\ unacknowledged_sent_message[s] \in Seq(Frame)
      /\ stream \in [Sides -> Seq(Frame)]
      /\ \A t \in Sides : t = s \/ t = p
      /\ Sides = {s, p}
  BY FlowTypes DEF IInv, TypeOK, Sides, Peer
<1>2. Nack \in Frame /\ Nack.type = "NOT_ACKNOWLEDGE"
  BY SequenceAssumption DEF Nack, Frame, Sequence, MessageType
<1>3. /\ UNCHANGED <<state, sequence_counter, last_send_sequence,
                     last_received_sequence_counter,
                     unacknowledged_sent_message, receive_message_queue,
                     delivered, send_message_queue, sent>>
      /\ exception' = exception \/ HandshakeTimeout(s)
  BY DEF TryReceiveDamaged, TryReceiveNack, HandshakeResend, HandshakeTimeout,
         DamageFrame, ReceiveNothing
<1>4. \A t \in Sides, n \in 0 .. 2 : InOrder(t, n) => InOrder(t, n)'
  BY <1>3, InOrderUnchanged
<1>5. ASSUME stream'[p] = stream[p] \o unacknowledged_sent_message[s]
      PROVE  Kept(p)
  <2>1. \A i \in 1 .. Len(stream[p] \o unacknowledged_sent_message[s]) :
          \/ \E j \in 1 .. Len(stream[p]) :
               (stream[p] \o unacknowledged_sent_message[s])[i] = stream[p][j]
          \/ \E j \in 1 .. Len(unacknowledged_sent_message[s]) :
               (stream[p] \o unacknowledged_sent_message[s])[i]
                 = unacknowledged_sent_message[s][j]
    BY <1>1, ConcatFacts
  <2> HIDE DEF p
  <2> QED BY <1>1, <1>5, <2>1
<1>6. ASSUME stream'[s] = Tail(stream[s]), stream[s] # <<>>
      PROVE  Kept(s)
  BY <1>1, <1>6, TailElements
<1>7. Kept(s) /\ Kept(p)
  <2>1. CASE TryReceiveDamaged(s)
    <3>1. /\ stream[s] # <<>> /\ stream'[s] = Tail(stream[s])
          /\ stream'[p] = Append(stream[p], Nack)
      BY <1>1, <2>1 DEF TryReceiveDamaged
    <3>2. Kept(p)
      BY <1>1, <1>2, <3>1, AppendElements
    <3> QED BY <1>6, <3>1, <3>2
  <2>2. CASE TryReceiveNack(s)
    <3>1. /\ stream[s] # <<>> /\ stream'[s] = Tail(stream[s])
          /\ stream'[p] = stream[p] \o unacknowledged_sent_message[s]
      BY <1>1, <2>2 DEF TryReceiveNack
    <3> QED BY <1>1, <1>5, <1>6, <3>1
  <2>3. CASE HandshakeResend(s)
    <3>1. /\ stream'[s] = stream[s]
          /\ stream'[p] = stream[p] \o unacknowledged_sent_message[s]
      BY <1>1, <2>3 DEF HandshakeResend
    <3> QED BY <1>1, <1>5, <3>1
  <2>4. CASE HandshakeTimeout(s) \/ ReceiveNothing(s)
    BY <2>4 DEF HandshakeTimeout, ReceiveNothing
  <2>5. CASE DamageFrame(s)
    <3>1. PICK failures \in 0 .. 2 :
            stream' = [stream EXCEPT
                         ![s] = [i \in 1 .. failures |-> Damaged] \o Tail(@)]
      BY <2>5 DEF DamageFrame
    <3>2. stream[s] # <<>>
      BY <2>5 DEF DamageFrame
    <3> DEFINE noise == [i \in 1 .. failures |-> Damaged]
    <3>3. Damaged \in Frame /\ Damaged.type = "DAMAGED"
      BY SequenceAssumption DEF Damaged, Frame, Sequence, MessageType
    <3>4. noise \in Seq(Frame) /\ Len(noise) = failures
      BY <3>3
    <3>5. Tail(stream[s]) \in Seq(Frame)
      BY <1>1, <3>2
    <3>6. stream'[s] = noise \o Tail(stream[s]) /\ stream'[p] = stream[p]
      BY <1>1, <3>1
    <3>7. \A j \in 1 .. Len(noise) : noise[j].type = "DAMAGED"
      BY <3>3, <3>4
    <3> HIDE DEF noise
    <3>8. Kept(s)
      <4> SUFFICES ASSUME NEW i \in 1 .. Len(stream'[s])
                   PROVE \/ \E j \in 1 .. Len(stream[s]) :
                              stream'[s][i] = stream[s][j]
                         \/ stream'[s][i].type \in {"DAMAGED", "NOT_ACKNOWLEDGE"}
        OBVIOUS
      <4>1. \/ \E j \in 1 .. Len(noise) : stream'[s][i] = noise[j]
            \/ \E j \in 1 .. Len(Tail(stream[s])) :
                 stream'[s][i] = Tail(stream[s])[j]
        <5>1. \A k \in 1 .. Len(noise \o Tail(stream[s])) :
                \/ \E j \in 1 .. Len(noise) :
                     (noise \o Tail(stream[s]))[k] = noise[j]
                \/ \E j \in 1 .. Len(Tail(stream[s])) :
                     (noise \o Tail(stream[s]))[k] = Tail(stream[s])[j]
          BY <3>4, <3>5, ConcatFacts
        <5> QED BY <3>6, <5>1
      <4> QED BY <4>1, <3>2, <3>7, <1>1, TailElements
    <3> QED BY <3>6, <3>8
  <2> QED BY <2>1, <2>2, <2>3, <2>4, <2>5
<1>8. CASE exception' = exception
  BY <1>1, <1>3, <1>4, <1>7, <1>8, StreamStep
<1>9. CASE HandshakeTimeout(s)
  <2>1. PICK read \in [Sides -> 0 .. 2] : LinkParts(read)
    BY DEF LinkRest
  <2>2. UNCHANGED <<state, sequence_counter, last_send_sequence,
                    last_received_sequence_counter,
                    unacknowledged_sent_message, receive_message_queue,
                    delivered, send_message_queue, sent, stream>>
    BY <1>9 DEF HandshakeTimeout
  <2>3. LinkParts(read)'
    <3>1. ASSUME NEW t \in Sides
          PROVE  Flow(t, read[t])' /\ Streamed(t)' /\ InOrder(t, read[t])'
      <4>1. SideInv(t, read[t], read[Peer(t)]) /\ read[t] \in 0 .. 2
        BY <2>1 DEF LinkParts
      <4> QED BY <2>2, <4>1, FlowUnchanged, StreamedUnchanged, InOrderUnchanged
              DEF SideInv
    <3> QED BY <2>1, <2>2, <3>1, PartsUnchanged
  <2>4. NoProtocolException'
    BY <1>9 DEF HandshakeTimeout, LinkRest, NoProtocolException, IInv, TypeOK
  <2> QED BY <2>3, <2>4 DEF LinkRest
<1> QED BY <1>3, <1>8, <1>9

\* TryReceive takes a frame that is not damaged and not a NACK.
LEMMA FrameReceived ==
  ASSUME IInv, IInv', LinkRest, NEW s \in Sides, TryReceiveMessage(s)
  PROVE  LinkRest'
<1> DEFINE p == Peer(s)
           frame == Head(stream[s])
<1>1. PICK read \in [Sides -> 0 .. 2] : LinkParts(read)
  BY DEF LinkRest
<1>2. /\ p \in Sides /\ p # s /\ Peer(p) = s
      /\ \A t \in Sides : t = s \/ t = p
      /\ stream[s] \in Seq(Frame) /\ stream[s] # <<>>
      /\ stream \in [Sides -> Seq(Frame)]
      /\ receive_message_queue \in [Sides -> Seq(Frame)]
      /\ last_received_sequence_counter \in
           [Sides -> Sequence \cup {NoSequence}]
  BY FlowTypes DEF TryReceiveMessage, IInv, TypeOK, Sides, Peer
<1>3. frame \in Frame /\ frame = stream[s][1] /\ 1 \in 1 .. Len(stream[s])
  BY <1>2, TailFacts
<1>4. frame.seq \in Sequence
  BY <1>3 DEF Frame
<1>5. Flow(p, read[p]) /\ Streamed(p) /\ read[p] \in 0 .. 2
  BY <1>1, <1>2 DEF LinkParts, SideInv
<1>6. /\ UNCHANGED <<state, sequence_counter, last_send_sequence,
                     unacknowledged_sent_message, send_message_queue,
                     exception, sent, delivered>>
      /\ stream' = [stream EXCEPT ![s] = Tail(@)]
      /\ frame.type \notin {"DAMAGED", "NOT_ACKNOWLEDGE"}
      /\ \/ /\ InSequence(s, frame)
            /\ last_received_sequence_counter' =
                 [last_received_sequence_counter EXCEPT ![s] = frame.seq]
            /\ receive_message_queue' =
                 [receive_message_queue EXCEPT ![s] = Append(@, frame)]
         \/ UNCHANGED <<last_received_sequence_counter, receive_message_queue>>
  BY DEF TryReceiveMessage
<1>7. /\ last_received_sequence_counter'[p] = last_received_sequence_counter[p]
      /\ receive_message_queue'[p] = receive_message_queue[p]
      /\ stream'[p] = stream[p] /\ stream'[s] = Tail(stream[s])
  BY <1>2, <1>6
<1>8. /\ last_received_sequence_counter'[s] >= last_received_sequence_counter[s]
      /\ last_received_sequence_counter'[s] = NoSequence =>
           last_received_sequence_counter[s] = NoSequence
  <2>1. /\ \A x \in Sequence : x \in Nat
        /\ NoSequence = -1
    BY SequenceAssumption DEF Sequence, NoSequence
  <2>2. \A x \in Sequence \cup {NoSequence} : x \in Int /\ x >= -1
    BY <2>1
  <2> QED BY <1>2, <1>4, <1>6, <2>1, <2>2 DEF InSequence
<1>9. Flow(p, read[p])'
  <2>1. CASE UNCHANGED <<last_received_sequence_counter, receive_message_queue>>
    BY <1>2, <1>5, <1>6, <2>1, FlowUnchanged
  <2>2. CASE /\ InSequence(s, frame)
             /\ last_received_sequence_counter' =
                  [last_received_sequence_counter EXCEPT ![s] = frame.seq]
             /\ receive_message_queue' =
                  [receive_message_queue EXCEPT ![s] = Append(@, frame)]
    <3>1. Known(frame, unacknowledged_sent_message[p],
                last_received_sequence_counter[s])
      BY <1>2, <1>3, <1>5 DEF Streamed
    <3>2. \/ frame.seq <= last_received_sequence_counter[s]
          \/ \E k \in 1 .. Len(unacknowledged_sent_message[p]) :
               unacknowledged_sent_message[p][k] = frame
      BY <1>6, <3>1 DEF Known
    <3>3. \/ last_received_sequence_counter[s] = NoSequence
          \/ frame.seq = last_received_sequence_counter[s] + 1
      BY <2>2 DEF InSequence
    <3>4. /\ unacknowledged_sent_message[p] \in Seq(Frame)
          /\ receive_message_queue[s] \in Seq(Frame)
          /\ FirstSequence(p) \in Sequence
          /\ last_received_sequence_counter[s] \in Sequence \cup {NoSequence}
      BY <1>2, FlowTypes
    <3>5. Accounted(FirstSequence(p), unacknowledged_sent_message[p],
                    receive_message_queue[s],
                    last_received_sequence_counter[s], sequence_counter[p],
                    read[p])
      BY <1>2, <1>5 DEF Flow
    <3> HIDE DEF frame
    <3>6. Accounted(FirstSequence(p), unacknowledged_sent_message[p],
                    Append(receive_message_queue[s], frame), frame.seq,
                    sequence_counter[p], read[p])
      BY <1>3, <1>5, <3>2, <3>3, <3>4, <3>5, AccountedAccept
    <3>7. /\ receive_message_queue'[s] = Append(receive_message_queue[s], frame)
          /\ last_received_sequence_counter'[s] = frame.seq
      BY <1>2, <2>2
    <3> QED BY <1>2, <1>6, <3>6, <3>7 DEF Flow
  <2> QED BY <1>6, <2>1, <2>2
<1>10. Streamed(p)'
  <2>1. \A i \in 1 .. Len(stream'[s]) :
          \E j \in 1 .. Len(stream[s]) : stream'[s][i] = stream[s][j]
    <3>1. \A i \in 1 .. Len(Tail(stream[s])) :
            \E j \in 1 .. Len(stream[s]) : Tail(stream[s])[i] = stream[s][j]
      BY <1>2, TailElements
    <3> QED BY <1>7, <3>1
  <2>2. unacknowledged_sent_message'[p] = unacknowledged_sent_message[p]
    BY <1>6
  <2>3. Peer(p) = s /\ p \in Sides /\ Streamed(p)
    BY <1>2, <1>5
  <2>4. last_received_sequence_counter'[Peer(p)] >=
          last_received_sequence_counter[Peer(p)]
    BY <1>8, <2>3
  <2>5. \A i \in 1 .. Len(stream'[Peer(p)]) :
          \E j \in 1 .. Len(stream[Peer(p)]) :
            stream'[Peer(p)][i] = stream[Peer(p)][j]
    BY <2>1, <2>3
  <2> HIDE DEF p, frame
  <2> QED BY <2>2, <2>3, <2>4, <2>5, StreamedStep
<1>11. Flow(s, read[s])' /\ Streamed(s)'
  <2>1. SideInv(s, read[s], read[p]) /\ read[s] \in 0 .. 2
    BY <1>1 DEF LinkParts
  <2> QED BY <1>6, <1>7, <2>1, FlowUnchanged, StreamedUnchanged DEF SideInv
<1>12. ASSUME NEW t \in Sides PROVE InOrder(t, read[t])'
  <2>1. SideInv(t, read[t], read[Peer(t)]) /\ read[t] \in 0 .. 2
    BY <1>1 DEF LinkParts
  <2> QED BY <1>6, <2>1, InOrderUnchanged DEF SideInv
<1>13. LinkParts(read)'
  <2>1. \A t \in Sides : last_received_sequence_counter[t] # NoSequence =>
                         last_received_sequence_counter'[t] # NoSequence
    BY <1>2, <1>7, <1>8
  <2>2. \A t \in Sides :
          Flow(t, read[t])' /\ Streamed(t)' /\ InOrder(t, read[t])'
    BY <1>2, <1>9, <1>10, <1>11, <1>12
  <2> HIDE DEF p, frame
  <2> QED BY <1>1, <1>6, <2>1, <2>2, PartsUnchanged
<1>14. NoProtocolException'
  BY <1>6 DEF LinkRest, NoProtocolException
<1> QED BY <1>13, <1>14 DEF LinkRest

-----------------------------------------------------------------------------
(* What sending and returning a frame do. *)

LEMMA SendFlow ==
  ASSUME IInv, NEW s \in Sides, NEW n \in 0 .. 2, NEW frame \in Frame,
         NEW resent \in Seq(Frame), NEW kept \in Seq(Frame),
         frame.seq = sequence_counter[s], Len(kept) <= 1,
         Accounted(FirstSequence(s), kept, receive_message_queue[Peer(s)],
                   last_received_sequence_counter[Peer(s)],
                   sequence_counter[s], n),
         \/ last_received_sequence_counter[Peer(s)] # NoSequence
         \/ kept = <<>>,
         SendMessageNow(s, frame, resent, kept),
         receive_message_queue'[Peer(s)] = receive_message_queue[Peer(s)],
         last_received_sequence_counter'[Peer(s)] =
           last_received_sequence_counter[Peer(s)]
  PROVE  Flow(s, n)'
<1>1. /\ unacknowledged_sent_message'[s] = Append(kept, frame)
      /\ sequence_counter'[s] = NextSequence(sequence_counter[s])
  BY DEF SendMessageNow, IInv, TypeOK
<1>2. /\ Peer(s) \in Sides /\ receive_message_queue[Peer(s)] \in Seq(Frame)
      /\ FirstSequence(s) \in Sequence
      /\ last_received_sequence_counter[Peer(s)]
           \in Sequence \cup {NoSequence}
  BY FlowTypes
<1>3. Accounted(FirstSequence(s), Append(kept, frame),
                receive_message_queue[Peer(s)],
                last_received_sequence_counter[Peer(s)],
                NextSequence(sequence_counter[s]), n)
  BY <1>2, AccountedSend
<1> QED BY <1>1, <1>3 DEF Flow

LEMMA SendFlowEmpty ==
  ASSUME IInv, NEW s \in Sides, NEW n \in 0 .. 2, NEW frame \in Frame,
         frame.seq = sequence_counter[s],
         Accounted(FirstSequence(s), <<>>, receive_message_queue[Peer(s)],
                   last_received_sequence_counter[Peer(s)],
                   sequence_counter[s], n),
         SendMessageNow(s, frame, <<>>, <<>>),
         receive_message_queue'[Peer(s)] = receive_message_queue[Peer(s)],
         last_received_sequence_counter'[Peer(s)] =
           last_received_sequence_counter[Peer(s)]
  PROVE  Flow(s, n)'
<1> DEFINE none == <<>>
<1>1. none \in Seq(Frame) /\ Len(none) <= 1 /\ none = <<>>
  OBVIOUS
<1>2. /\ SendMessageNow(s, frame, none, none)
      /\ Accounted(FirstSequence(s), none, receive_message_queue[Peer(s)],
                   last_received_sequence_counter[Peer(s)],
                   sequence_counter[s], n)
  OBVIOUS
<1> HIDE DEF none
<1> QED BY <1>1, <1>2, SendFlow

\* SendMessageNow as seen from the stream: the frames that are not on the
\* list any more have been accepted.
LEMMA SendStreamed ==
  ASSUME IInv, NEW s \in Sides, Streamed(s), NEW frame \in Frame,
         NEW resent \in Seq(Frame), NEW kept \in Seq(Frame),
         resent = <<>> \/ resent = unacknowledged_sent_message[s],
         \A k \in 1 .. Len(unacknowledged_sent_message[s]) :
           \/ unacknowledged_sent_message[s][k].seq
                <= last_received_sequence_counter[Peer(s)]
           \/ \E h \in 1 .. Len(kept) :
                kept[h] = unacknowledged_sent_message[s][k],
         SendMessageNow(s, frame, resent, kept),
         last_received_sequence_counter'[Peer(s)] =
           last_received_sequence_counter[Peer(s)]
  PROVE  Streamed(s)'
<1> DEFINE p == Peer(s)
           list == unacknowledged_sent_message[s]
           last == last_received_sequence_counter[p]
           longer == Append(kept, frame)
           before == stream[p] \o resent
<1>1. p \in Sides /\ p # s /\ stream[p] \in Seq(Frame) /\ list \in Seq(Frame)
  BY FlowTypes
<1>2. /\ unacknowledged_sent_message'[s] = longer
      /\ stream'[p] = Append(before, frame)
  <2>1. before \in Seq(Frame)
    BY <1>1
  <2>2. before \o <<frame>> = Append(before, frame)
    BY <2>1, AppendIsConcat
  <2> QED BY <1>1, <2>2 DEF SendMessageNow, IInv, TypeOK
<1>3. /\ \A k \in 1 .. Len(kept) : longer[k] = kept[k]
      /\ longer[Len(kept) + 1] = frame
      /\ Len(longer) = Len(kept) + 1 /\ Len(kept) \in Nat
  BY AppendFacts
<1>4. \A x : Known(x, list, last) => Known(x, longer, last)
  <2> SUFFICES ASSUME NEW x, Known(x, list, last)
               PROVE  Known(x, longer, last)
    OBVIOUS
  <2>1. ASSUME NEW k \in 1 .. Len(list), list[k] = x
        PROVE  x.seq <= last \/ \E h \in 1 .. Len(longer) : longer[h] = x
    <3>1. CASE \E h \in 1 .. Len(kept) : kept[h] = list[k]
      BY <1>3, <2>1, <3>1
    <3> QED BY <2>1, <3>1
  <2> HIDE DEF list, last, longer
  <2> QED BY <2>1 DEF Known
<1>5. Known(frame, longer, last)
  <2> HIDE DEF longer
  <2> QED BY <1>3 DEF Known
<1>6. \A i \in 1 .. Len(stream[p]) : Known(stream[p][i], longer, last)
  BY <1>4 DEF Streamed
<1>7. \A i \in 1 .. Len(resent) : Known(resent[i], longer, last)
  <2>1. \A i \in 1 .. Len(list) : Known(list[i], list, last)
    BY DEF Known
  <2>2. CASE resent = <<>>
    BY <2>2
  <2>3. CASE resent = list
    <3> HIDE DEF list, longer, last
    <3> QED BY <2>1, <2>3, <1>4
  <2> QED BY <2>2, <2>3
<1>8. before \in Seq(Frame)
  BY <1>1
<1>9. \A i \in 1 .. Len(before) : Known(before[i], longer, last)
  <2> SUFFICES ASSUME NEW i \in 1 .. Len(before)
               PROVE  Known(before[i], longer, last)
    OBVIOUS
  <2>1. \/ \E j \in 1 .. Len(stream[p]) : before[i] = stream[p][j]
        \/ \E j \in 1 .. Len(resent) : before[i] = resent[j]
    BY <1>1, ConcatFacts
  <2> HIDE DEF before, longer, last, p
  <2> QED BY <2>1, <1>6, <1>7
<1> HIDE DEF before, longer
<1>10. \A i \in 1 .. Len(Append(before, frame)) :
         Known(Append(before, frame)[i], longer, last)
  <2> SUFFICES ASSUME NEW i \in 1 .. Len(Append(before, frame))
               PROVE  Known(Append(before, frame)[i], longer, last)
    OBVIOUS
  <2>1. \/ \E j \in 1 .. Len(before) : Append(before, frame)[i] = before[j]
        \/ Append(before, frame)[i] = frame
    BY <1>8, AppendElements
  <2> HIDE DEF last
  <2> QED BY <2>1, <1>5, <1>9
<1> QED BY <1>2, <1>10 DEF Streamed

\* The frame ReceiveMessage returns is the next one of the peer's list.
LEMMA Popped ==
  ASSUME IInv, NEW s \in Sides, NEW read \in [Sides -> 0 .. 2],
         LinkParts(read), PopReceived(s)
  PROVE  /\ read[Peer(s)] + 1 \in 0 .. 2
         /\ read[Peer(s)] + 1
              \in 1 .. Len(unacknowledged_sent_message[Peer(s)])
         /\ Received(s) =
              unacknowledged_sent_message[Peer(s)][read[Peer(s)] + 1]
         /\ Accounted(FirstSequence(Peer(s)),
                      unacknowledged_sent_message[Peer(s)],
                      receive_message_queue'[s],
                      last_received_sequence_counter[s],
                      sequence_counter[Peer(s)], read[Peer(s)] + 1)
         /\ last_received_sequence_counter[s] # NoSequence
         /\ receive_message_queue'[Peer(s)] = receive_message_queue[Peer(s)]
         /\ Received(s) \in Frame
<1> DEFINE p == Peer(s)
           list == unacknowledged_sent_message[p]
           queue == receive_message_queue[s]
           n == read[p]
<1>1. /\ p \in Sides /\ p # s /\ Peer(p) = s /\ list \in Seq(Frame)
      /\ queue \in Seq(Frame) /\ queue # <<>> /\ n \in 0 .. 2
  BY FlowTypes DEF PopReceived
<1>2. /\ receive_message_queue'[s] = Tail(queue)
      /\ receive_message_queue'[p] = receive_message_queue[p]
  BY <1>1 DEF PopReceived, IInv, TypeOK
<1>3. Accounted(FirstSequence(p), list, queue,
                last_received_sequence_counter[s], sequence_counter[p], n)
  <2>1. Flow(p, n)
    BY <1>1 DEF LinkParts, SideInv
  <2> QED BY <1>1, <2>1 DEF Flow
<1>4. /\ Accounted(FirstSequence(p), list, Tail(queue),
                   last_received_sequence_counter[s], sequence_counter[p],
                   n + 1)
      /\ n + 1 \in 1 .. Len(list)
      /\ Head(queue) = list[n + 1]
      /\ n + 1 \in 0 .. 2
  <2> HIDE DEF list, queue, n, p
  <2> QED BY <1>1, <1>3, AccountedPop
<1>5. last_received_sequence_counter[s] # NoSequence
  <2>1. Tail(queue) \in Seq(Frame)
    BY <1>1
  <2>2. list[n + 1].seq <= last_received_sequence_counter[s]
    <3>1. n + 1 <= n + 1 /\ n + 1 \in 1 .. (n + 1) + Len(Tail(queue))
      BY <1>1, <2>1
    <3> HIDE DEF list, queue, n, p
    <3> QED BY <1>4, <3>1 DEF Accounted
  <2>3. list[n + 1].seq \in Nat
    <3>1. list[n + 1] \in Frame
      BY <1>1, <1>4
    <3>2. \A f \in Frame : f.seq \in Nat
      BY SequenceAssumption DEF Frame, Sequence
    <3> QED BY <3>1, <3>2
  <2> QED BY <2>2, <2>3 DEF NoSequence
<1>6. list[n + 1] \in Frame
  BY <1>1, <1>4
<1> QED BY <1>2, <1>4, <1>5, <1>6 DEF Received

\* A list has one acknowledge and one message at most.
LEMMA OnlyOne ==
  ASSUME IInv, NEW s \in Sides,
         NEW i \in 1 .. Len(unacknowledged_sent_message[s]),
         NEW j \in 1 .. Len(unacknowledged_sent_message[s]),
         IsAck(unacknowledged_sent_message[s][i])
           <=> IsAck(unacknowledged_sent_message[s][j])
  PROVE  i = j
<1>1. OneOutstanding
  BY IInvImpliesOneOutstanding
<1>2. IsAck(unacknowledged_sent_message[s][i])
        = IsAck(unacknowledged_sent_message[s][j])
  BY DEF IsAck
<1> QED BY <1>1, <1>2 DEF OneOutstanding

\* The messages keep their order when what is pending stays pending.
LEMMA InOrderKept ==
  ASSUME NEW s \in Sides, NEW n \in 0 .. 2, NEW m \in 0 .. 2, InOrder(s, n),
         state'[s] \in Waiting =>
           \A k \in 1 .. Len(unacknowledged_sent_message'[s]) :
             ~IsAck(unacknowledged_sent_message'[s][k]) =>
               unacknowledged_sent_message'[s][k].payload = Left(s),
         send_message_queue'[s] = send_message_queue[s],
         sent'[s] = sent[s],
         delivered'[Peer(s)] = delivered[Peer(s)],
         Pending(s, m)' <=> Pending(s, n)
  PROVE  InOrder(s, m)'
<1>1. Left(s)' = Left(s)
  BY DEF Left
<1> QED BY <1>1 DEF InOrder

LEMMA Conclude ==
  ASSUME NEW s \in Sides, NEW read \in [Sides -> 0 .. 2],
         SideInv(s, read[s], read[Peer(s)])',
         SideInv(Peer(s), read[Peer(s)], read[s])',
         Handshake(read)', NoProtocolException'
  PROVE  LinkRest'
<1>1. /\ Peer(Peer(s)) = s
      /\ \A t \in Sides : t = s \/ t = Peer(s)
  BY DEF Sides, Peer
<1>2. \A t \in Sides : SideInv(t, read[t], read[Peer(t)])'
  BY <1>1
<1> QED BY <1>2 DEF LinkRest, LinkParts

-----------------------------------------------------------------------------
(* Handle and SendMessage. *)

\* "queue" is the send queue, with the message SendMessage has just added.
QueueInOrder(s, queue) ==
  /\ sent'[s] - Len(queue) = Left(s)
  /\ \A k \in 1 .. Len(queue) : queue[k].payload = Left(s) + k
  /\ \A t \in Sides \ {s} : sent'[t] = sent[t]

LEMMA HandleIdleLink ==
  ASSUME IInv, IInv', LinkRest, NEW s \in Sides, NEW queue \in Seq(Queued),
         NEW elapsed \in BOOLEAN, HandleQueue(s, queue, elapsed),
         ~MaySendNext(s, queue), QueueInOrder(s, queue)
  PROVE  LinkRest'
<1> DEFINE p == Peer(s)
           resent == IF elapsed THEN unacknowledged_sent_message[s] ELSE <<>>
<1>1. /\ p \in Sides /\ p # s /\ Peer(p) = s
      /\ \A t \in Sides : t = s \/ t = p
      /\ stream[p] \in Seq(Frame)
      /\ unacknowledged_sent_message[s] \in Seq(Frame)
  BY FlowTypes DEF Sides, Peer
<1>2. /\ stream' = [stream EXCEPT ![p] = @ \o resent]
      /\ send_message_queue' = [send_message_queue EXCEPT ![s] = queue]
      /\ UNCHANGED <<state, sequence_counter, last_send_sequence,
                     unacknowledged_sent_message,
                     last_received_sequence_counter, receive_message_queue,
                     exception, delivered>>
  BY DEF HandleQueue
<1>3. /\ stream'[p] = stream[p] \o resent /\ stream'[s] = stream[s]
      /\ send_message_queue'[s] = queue
      /\ send_message_queue'[p] = send_message_queue[p]
      /\ sent'[p] = sent[p]
  BY <1>1, <1>2 DEF IInv, TypeOK, QueueInOrder
<1>4. \A t \in Sides, n \in 0 .. 2 : InOrder(t, n) => InOrder(t, n)'
  <2> SUFFICES ASSUME NEW t \in Sides, NEW n \in 0 .. 2, InOrder(t, n)
               PROVE  InOrder(t, n)'
    OBVIOUS
  <2>1. CASE t = p
    BY <1>1, <1>2, <1>3, <2>1, InOrderUnchanged
  <2>2. CASE t = s
    <3>1. /\ Left(s)' = Left(s)
          /\ \A k \in 1 .. Len(queue) : queue[k].payload = Left(s) + k
      BY <1>3 DEF QueueInOrder, Left
    <3>2. Pending(s, n)' = Pending(s, n)
      BY <1>2 DEF Pending
    <3> QED BY <1>1, <1>2, <1>3, <2>2, <3>1, <3>2 DEF InOrder
  <2> QED BY <1>1, <2>1, <2>2
<1>5. \A i \in 1 .. Len(stream'[p]) :
        \/ \E j \in 1 .. Len(stream[p]) : stream'[p][i] = stream[p][j]
        \/ \E k \in 1 .. Len(unacknowledged_sent_message[s]) :
             unacknowledged_sent_message[s][k] = stream'[p][i]
  <2>1. resent \in Seq(Frame)
    BY <1>1
  <2>2. \A j \in 1 .. Len(resent) :
          \E k \in 1 .. Len(unacknowledged_sent_message[s]) :
            unacknowledged_sent_message[s][k] = resent[j]
    OBVIOUS
  <2>3. \A i \in 1 .. Len(stream[p] \o resent) :
          \/ \E j \in 1 .. Len(stream[p]) :
               (stream[p] \o resent)[i] = stream[p][j]
          \/ \E j \in 1 .. Len(resent) : (stream[p] \o resent)[i] = resent[j]
    <3> HIDE DEF resent
    <3> QED BY <1>1, <2>1, ConcatFacts
  <2> HIDE DEF resent, p
  <2> QED BY <1>3, <2>2, <2>3
<1>6. \A t \in Sides : \A i \in 1 .. Len(stream'[t]) :
        \/ \E j \in 1 .. Len(stream[t]) : stream'[t][i] = stream[t][j]
        \/ stream'[t][i].type \in {"DAMAGED", "NOT_ACKNOWLEDGE"}
        \/ \E k \in 1 .. Len(unacknowledged_sent_message[Peer(t)]) :
             unacknowledged_sent_message[Peer(t)][k] = stream'[t][i]
  <2> SUFFICES ASSUME NEW t \in Sides, NEW i \in 1 .. Len(stream'[t])
               PROVE
        \/ \E j \in 1 .. Len(stream[t]) : stream'[t][i] = stream[t][j]
        \/ \E k \in 1 .. Len(unacknowledged_sent_message[Peer(t)]) :
             unacknowledged_sent_message[Peer(t)][k] = stream'[t][i]
    OBVIOUS
  <2>1. CASE t = s
    BY <1>3, <2>1
  <2>2. CASE t = p
    <3> HIDE DEF p
    <3> QED BY <1>1, <1>5, <2>2
  <2> QED BY <1>1, <2>1, <2>2
<1> QED BY <1>2, <1>4, <1>6, StreamStep

LEMMA HandleSendLink ==
  ASSUME IInv, IInv', LinkRest, NEW s \in Sides, NEW queue \in Seq(Queued),
         NEW elapsed \in BOOLEAN, HandleQueue(s, queue, elapsed),
         MaySendNext(s, queue), QueueInOrder(s, queue)
  PROVE  LinkRest'
<1> DEFINE p == Peer(s)
           list == unacknowledged_sent_message[s]
           resent == IF elapsed THEN list ELSE <<>>
           frame == Stamped(s, Head(queue).type, 0, Head(queue).payload)
<1>1. /\ p \in Sides /\ p # s /\ Peer(p) = s
      /\ \A t \in Sides : t = s \/ t = p
      /\ list \in Seq(Frame) /\ Len(list) \in Nat /\ resent \in Seq(Frame)
  BY FlowTypes DEF Sides, Peer
<1>2. PICK read \in [Sides -> 0 .. 2] : LinkParts(read)
  BY DEF LinkRest
<1>3. /\ SideInv(s, read[s], read[p]) /\ SideInv(p, read[p], read[s])
      /\ read[s] \in 0 .. 2 /\ read[p] \in 0 .. 2 /\ Handshake(read)
  BY <1>1, <1>2 DEF LinkParts
<1>4. /\ SendMessageNow(s, frame, resent, list)
      /\ send_message_queue' = [send_message_queue EXCEPT ![s] = Tail(queue)]
      /\ state' = [state EXCEPT ![s] = AwaitingState(Head(queue).type)]
      /\ UNCHANGED <<last_received_sequence_counter, receive_message_queue,
                     exception, delivered>>
      /\ state[s] = "READY" /\ queue # <<>>
  BY DEF HandleQueue, MaySendNext
<1>5. /\ Head(queue) \in Queued /\ Len(queue) > 0
      /\ Len(queue) \in Nat /\ Head(queue) = queue[1]
      /\ Len(Tail(queue)) = Len(queue) - 1
      /\ \A k \in 1 .. Len(Tail(queue)) : Tail(queue)[k] = queue[k + 1]
  BY <1>4, TailFacts
<1>6. /\ frame \in Frame /\ ~IsAck(frame)
      /\ frame.seq = sequence_counter[s] /\ frame.payload = Head(queue).payload
  <2>1. /\ Head(queue).type \in MessageType /\ Head(queue).payload \in Nat
        /\ Head(queue).type # "ACKNOWLEDGE"
    BY <1>5, KindsAssumption DEF Queued, MessageType
  <2>2. 0 \in Sequence
    BY SequenceAssumption DEF Sequence
  <2> QED BY <2>1, <2>2, StampedType DEF IsAck, Stamped, IInv
<1> HIDE DEF frame
<1>7. /\ unacknowledged_sent_message'[s] = Append(list, frame)
      /\ unacknowledged_sent_message'[p] = unacknowledged_sent_message[p]
      /\ last_send_sequence'[p] = last_send_sequence[p]
      /\ sequence_counter'[p] = sequence_counter[p]
      /\ stream'[s] = stream[s]
      /\ state'[s] \in Waiting /\ state'[p] = state[p]
      /\ send_message_queue'[s] = Tail(queue)
      /\ send_message_queue'[p] = send_message_queue[p]
      /\ sent'[p] = sent[p]
  BY <1>1, <1>4 DEF SendMessageNow, IInv, TypeOK, QueueInOrder, AwaitingState,
                    Waiting
<1>8. /\ Len(list) <= 1
      /\ \A k \in 1 .. Len(list) : IsAck(list[k])
  <2>1. EmptyList(s) \/ OnlyAck(s)
    BY <1>4 DEF IInv, ListShape, ShapeInState
  <2>2. CASE EmptyList(s)
    BY <2>2 DEF EmptyList
  <2>3. CASE OnlyAck(s)
    <3>1. PICK a \in Frame : list = <<a>> /\ IsAck(a)
      BY <2>3 DEF OnlyAck, LatestAck
    <3>2. Len(list) = 1 /\ list[1] = a
      BY <3>1
    <3> HIDE DEF list
    <3> QED BY <3>1, <3>2
  <2> QED BY <2>1, <2>2, <2>3
<1>9. last_received_sequence_counter[p] # NoSequence
  <2>1. s = "client" => state["server"] # "SERVER_WAITING_FOR_FIRST"
    BY <1>3, <1>4 DEF Handshake
  <2>2. s = "server" => state["client"] \in OpenStates \cup {"CLOSED"}
    <3>1. state["client"] \in ConnectionState
      BY FlowTypes DEF Sides
    <3> QED BY <1>3, <1>4, <3>1 DEF Handshake, ConnectionState, OpenStates
  <2> QED BY <1>3, <2>1, <2>2 DEF Handshake, Sides, Peer
<1>10. /\ \A k \in 1 .. Len(list) : Append(list, frame)[k] = list[k]
       /\ Append(list, frame)[Len(list) + 1] = frame
       /\ Len(Append(list, frame)) = Len(list) + 1
  BY <1>1, <1>6, AppendFacts
<1>11. Flow(s, read[s])'
  <2>1. Accounted(FirstSequence(s), list, receive_message_queue[p],
                  last_received_sequence_counter[p], sequence_counter[s],
                  read[s])
    BY <1>3 DEF SideInv, Flow
  <2> HIDE DEF resent
  <2> QED BY <1>1, <1>3, <1>4, <1>6, <1>8, <1>9, <2>1, SendFlow
<1>12. Streamed(s)'
  <2>1. Streamed(s)
    BY <1>3 DEF SideInv
  <2> QED BY <1>1, <1>4, <1>6, <2>1, SendStreamed
<1>13. Answers(s, read[s], read[p])'
  <2> SUFFICES ASSUME NEW k \in 1 .. Len(Append(list, frame)),
                      IsAck(Append(list, frame)[k]), k > read[s]
               PROVE
        /\ state[p] \in Waiting \cup {"SERVER_CONNECTION_RESPONSE_SENT"}
        /\ Append(list, frame)[k].acknowledged = last_send_sequence[p]
        /\ \E j \in 1 .. Len(unacknowledged_sent_message[p]) :
             j <= read[p] /\ ~IsAck(unacknowledged_sent_message[p][j])
    <3> HIDE DEF list
    <3> QED BY <1>7 DEF Answers
  <2>1. k \in 1 .. Len(list) /\ Append(list, frame)[k] = list[k]
    BY <1>1, <1>6, <1>10
  <2> QED BY <1>3, <2>1 DEF SideInv, Answers
<1>14. InOrder(s, read[s])'
  <2>1. /\ Left(s) \in Nat /\ ~Pending(s, read[s])
        /\ delivered[p] = [i \in 1 .. Left(s) |-> i]
    BY <1>3, <1>4 DEF SideInv, InOrder, Pending, Waiting
  <2>2. Left(s)' = Left(s) + 1
    <3>1. sent'[s] - Len(queue) = Left(s) /\ sent'[s] \in Nat
      BY DEF QueueInOrder, IInv, TypeOK
    <3>2. Left(s)' = sent'[s] - Len(Tail(queue))
      BY <1>7 DEF Left
    <3> QED BY <1>5, <2>1, <3>1, <3>2
  <2>3. \A k \in 1 .. Len(Tail(queue)) :
          Tail(queue)[k].payload = (Left(s) + 1) + k
    <3> SUFFICES ASSUME NEW k \in 1 .. Len(Tail(queue))
                 PROVE  Tail(queue)[k].payload = (Left(s) + 1) + k
      OBVIOUS
    <3>1. Tail(queue)[k] = queue[k + 1] /\ k + 1 \in 1 .. Len(queue)
      BY <1>5
    <3>2. queue[k + 1].payload = Left(s) + (k + 1)
      BY <3>1 DEF QueueInOrder
    <3> QED BY <2>1, <3>1, <3>2
  <2>4. frame.payload = Left(s) + 1
    BY <1>5, <1>6 DEF QueueInOrder
  <2>5. \A k \in 1 .. Len(Append(list, frame)) :
          ~IsAck(Append(list, frame)[k]) =>
            Append(list, frame)[k].payload = Left(s) + 1
    BY <1>1, <1>8, <1>10, <2>4
  <2>6. Pending(s, read[s])'
    <3>1. read[s] <= Len(list)
      <4>1. Len(receive_message_queue[p]) \in Nat
        BY FlowTypes, <1>1
      <4> QED BY <1>1, <1>3, <4>1 DEF SideInv, Flow, Accounted
    <3>2. Len(list) + 1 \in 1 .. Len(Append(list, frame))
      BY <1>1, <1>10
    <3> HIDE DEF list
    <3> QED BY <1>1, <1>3, <1>6, <1>7, <1>10, <3>1, <3>2 DEF Pending
  <2>7. delivered'[p] = [i \in 1 .. (Left(s) + 1) - 1 |-> i]
    BY <1>4, <2>1
  <2>8. Left(s)' \in Nat /\ Left(s)' > 0
    BY <2>1, <2>2
  <2>9. delivered'[Peer(s)] = [i \in 1 .. Left(s)' - 1 |-> i]
    BY <2>2, <2>7
  <2>10. \A k \in 1 .. Len(send_message_queue'[s]) :
           send_message_queue'[s][k].payload = Left(s)' + k
    BY <1>7, <2>2, <2>3
  <2>11. \A k \in 1 .. Len(unacknowledged_sent_message'[s]) :
           ~IsAck(unacknowledged_sent_message'[s][k]) =>
             unacknowledged_sent_message'[s][k].payload = Left(s)'
    BY <1>7, <2>2, <2>5
  <2> QED BY <2>6, <2>8, <2>9, <2>10, <2>11 DEF InOrder
<1>15. Flow(p, read[p])' /\ Streamed(p)' /\ InOrder(p, read[p])'
  <2>1. Flow(p, read[p]) /\ Streamed(p) /\ InOrder(p, read[p])
    BY <1>3 DEF SideInv
  <2>2. Flow(p, read[p])'
    BY <1>1, <1>3, <1>4, <1>7, <2>1, FlowUnchanged
  <2>3. Streamed(p)'
    BY <1>1, <1>3, <1>4, <1>7, <2>1, StreamedUnchanged
  <2>4. InOrder(p, read[p])'
    BY <1>1, <1>3, <1>4, <1>7, <2>1, InOrderUnchanged
  <2> QED BY <2>2, <2>3, <2>4
<1>16. Answers(p, read[p], read[s])'
  <2>1. \A k \in 1 .. Len(unacknowledged_sent_message[p]) :
          ~(IsAck(unacknowledged_sent_message[p][k]) /\ k > read[p])
    BY <1>1, <1>3, <1>4 DEF SideInv, Answers, Waiting
  <2> QED BY <1>7, <2>1 DEF Answers
<1>17. Handshake(read)'
  <2>1. Len(list) > 0 => /\ Append(list, frame)[1] = list[1]
                         /\ Len(Append(list, frame)) > 0
    BY <1>1, <1>10
  <2>2. state'[s] \in OpenStates
    BY <1>7 DEF Waiting, OpenStates
  <2>3. CASE s = "client"
    <3>1. p = "server"
      BY <2>3 DEF Peer
    <3> QED BY <1>3, <1>4, <1>7, <2>1, <2>2, <2>3, <3>1
            DEF Handshake, OpenStates
  <2>4. CASE s = "server"
    <3>1. p = "client"
      BY <2>4 DEF Peer
    <3> QED BY <1>3, <1>4, <1>7, <2>1, <2>2, <2>4, <3>1
            DEF Handshake, OpenStates
  <2> QED BY <2>3, <2>4 DEF Sides
<1>18. NoProtocolException'
  BY <1>4 DEF LinkRest, NoProtocolException
<1>19. SideInv(s, read[s], read[p])' /\ SideInv(p, read[p], read[s])'
  BY <1>11, <1>12, <1>13, <1>14, <1>15, <1>16 DEF SideInv
<1> QED BY <1>17, <1>18, <1>19, Conclude

LEMMA HandleLink ==
  ASSUME IInv, IInv', LinkRest, NEW s \in Sides, NEW elapsed \in BOOLEAN,
         Handle(s, elapsed)
  PROVE  LinkRest'
<1>1. PICK read \in [Sides -> 0 .. 2] : LinkParts(read)
  BY DEF LinkRest
<1>2. InOrder(s, read[s]) /\ send_message_queue[s] \in Seq(Queued)
  BY <1>1, FlowTypes DEF LinkParts, SideInv
<1>3. QueueInOrder(s, send_message_queue[s])
  BY <1>2 DEF Handle, QueueInOrder, InOrder, Left
<1> QED BY <1>2, <1>3, HandleIdleLink, HandleSendLink DEF Handle

LEMMA SendMessageLink ==
  ASSUME IInv, IInv', LinkRest, NEW s \in Sides, NEW type \in Kinds,
         NEW elapsed \in BOOLEAN, SendMessage(s, type, elapsed)
  PROVE  LinkRest'
<1> DEFINE message == [type |-> type, payload |-> sent[s] + 1]
           queue == Append(send_message_queue[s], message)
<1>1. PICK read \in [Sides -> 0 .. 2] : LinkParts(read)
  BY DEF LinkRest
<1>2. /\ InOrder(s, read[s]) /\ send_message_queue[s] \in Seq(Queued)
      /\ sent[s] \in Nat /\ sent \in [Sides -> Nat]
  BY <1>1, FlowTypes DEF LinkParts, SideInv, IInv, TypeOK
<1>3. message \in Queued /\ message.payload = sent[s] + 1
  BY <1>2 DEF Queued
<1> HIDE DEF message
<1>4. /\ queue \in Seq(Queued) /\ Len(send_message_queue[s]) \in Nat
      /\ Len(queue) = Len(send_message_queue[s]) + 1
      /\ \A k \in 1 .. Len(send_message_queue[s]) :
           queue[k] = send_message_queue[s][k]
      /\ queue[Len(send_message_queue[s]) + 1] = message
  BY <1>2, <1>3, AppendFacts
<1>5. sent' = [sent EXCEPT ![s] = @ + 1] /\ HandleQueue(s, queue, elapsed)
  BY DEF SendMessage, message
<1> HIDE DEF queue
<1>6. QueueInOrder(s, queue)
  <2>1. sent'[s] - Len(queue) = Left(s)
    BY <1>2, <1>4, <1>5 DEF Left
  <2>2. \A k \in 1 .. Len(queue) : queue[k].payload = Left(s) + k
    <3> SUFFICES ASSUME NEW k \in 1 .. Len(queue)
                 PROVE  queue[k].payload = Left(s) + k
      OBVIOUS
    <3>1. CASE k \in 1 .. Len(send_message_queue[s])
      BY <1>2, <1>4, <3>1 DEF InOrder
    <3>2. CASE k = Len(send_message_queue[s]) + 1
      BY <1>2, <1>3, <1>4, <3>2 DEF Left
    <3> QED BY <1>4, <3>1, <3>2
  <2>3. \A t \in Sides \ {s} : sent'[t] = sent[t]
    BY <1>2, <1>5
  <2> QED BY <2>1, <2>2, <2>3 DEF QueueInOrder
<1> QED BY <1>4, <1>5, <1>6, HandleIdleLink, HandleSendLink

-----------------------------------------------------------------------------
(* The handshake. *)

\* What SendMessageNow changes and leaves alone.
LEMMA SendEffects ==
  ASSUME IInv, NEW s \in Sides, NEW frame, NEW resent, NEW kept,
         SendMessageNow(s, frame, resent, kept)
  PROVE  /\ unacknowledged_sent_message'[s] = Append(kept, frame)
         /\ unacknowledged_sent_message'[Peer(s)] =
              unacknowledged_sent_message[Peer(s)]
         /\ last_send_sequence'[Peer(s)] = last_send_sequence[Peer(s)]
         /\ IsAck(frame) => last_send_sequence' = last_send_sequence
         /\ sequence_counter'[Peer(s)] = sequence_counter[Peer(s)]
         /\ stream'[s] = stream[s]
<1>1. Peer(s) \in Sides /\ Peer(s) # s
  BY FlowTypes
<1> QED BY <1>1 DEF SendMessageNow, IInv, TypeOK

LEMMA OneFrame ==
  ASSUME NEW f \in Frame
  PROVE  /\ Append(<<>>, f) \in Seq(Frame) /\ Len(Append(<<>>, f)) = 1
         /\ Append(<<>>, f)[1] = f
  OBVIOUS

LEMMA ClientSendsRequestLink ==
  ASSUME IInv, IInv', LinkRest, NEW s \in Sides, ClientSendsRequest(s)
  PROVE  LinkRest'
<1> DEFINE p == Peer(s)
           frame == Stamped(s, "CONNECTION_REQUEST", 0, 0)
<1>1. PICK read \in [Sides -> 0 .. 2] : LinkParts(read)
  BY DEF LinkRest
<1>2. /\ state[s] = "CLIENT_CONNECTION_START"
      /\ SendMessageNow(s, frame, <<>>, unacknowledged_sent_message[s])
      /\ state' = [state EXCEPT ![s] = "CLIENT_CONNECTION_REQUEST_SENT"]
      /\ UNCHANGED <<last_received_sequence_counter, send_message_queue,
                     receive_message_queue, exception, sent, delivered>>
  BY DEF ClientSendsRequest
<1>3. s = "client" /\ p = "server" /\ p \in Sides /\ Peer(p) = s
  BY <1>1, <1>2 DEF LinkParts, Handshake, Sides, Peer
<1>4. /\ SideInv(s, read[s], read[p]) /\ SideInv(p, read[p], read[s])
      /\ read[s] \in 0 .. 2 /\ read[p] \in 0 .. 2 /\ Handshake(read)
  BY <1>1, <1>3 DEF LinkParts
<1>5. frame \in Frame /\ ~IsAck(frame) /\ frame.seq = sequence_counter[s]
        /\ frame.type = "CONNECTION_REQUEST"
  BY StampedType, SequenceAssumption DEF Sequence, MessageType, IsAck, IInv
<1> HIDE DEF frame
<1>6. /\ state[p] = "SERVER_WAITING_FOR_FIRST"
      /\ unacknowledged_sent_message[s] = <<>>
      /\ unacknowledged_sent_message[p] = <<>>
  <2>1. state[p] = "SERVER_WAITING_FOR_FIRST"
    BY <1>2, <1>3, <1>4 DEF Handshake
  <2> QED BY <1>2, <1>3, <2>1 DEF IInv, ListShape, ShapeInState, EmptyList
<1>7. /\ unacknowledged_sent_message'[s] = Append(<<>>, frame)
      /\ unacknowledged_sent_message'[p] = <<>>
      /\ sequence_counter'[p] = sequence_counter[p]
      /\ stream'[s] = stream[s]
      /\ state'[s] = "CLIENT_CONNECTION_REQUEST_SENT" /\ state'[p] = state[p]
  BY <1>2, <1>3, <1>6, SendEffects DEF IInv, TypeOK, Sides
<1>8. /\ Append(<<>>, frame) \in Seq(Frame) /\ Len(Append(<<>>, frame)) = 1
      /\ Append(<<>>, frame)[1] = frame
  BY <1>5, OneFrame
<1>9. Flow(s, read[s])' /\ Streamed(s)'
  <2>1. Accounted(FirstSequence(s), <<>>, receive_message_queue[p],
                  last_received_sequence_counter[p], sequence_counter[s],
                  read[s]) /\ Streamed(s)
    BY <1>4, <1>6 DEF SideInv, Flow
  <2>2. <<>> \in Seq(Frame) /\ Len(<<>>) = 0
    OBVIOUS
  <2>3. SendMessageNow(s, frame, <<>>, <<>>)
    BY <1>2, <1>6
  <2>4. Flow(s, read[s])'
    BY <1>2, <1>4, <1>5, <2>1, <2>3, SendFlowEmpty
  <2>5. Streamed(s)'
    BY <1>2, <1>5, <1>6, <2>1, <2>2, <2>3, SendStreamed
  <2> QED BY <2>4, <2>5
<1>10. Flow(p, read[p])' /\ Streamed(p)' /\ InOrder(p, read[p])'
  <2>1. Flow(p, read[p]) /\ Streamed(p) /\ InOrder(p, read[p])
    BY <1>4 DEF SideInv
  <2>2. Flow(p, read[p])'
    BY <1>2, <1>3, <1>4, <1>6, <1>7, <2>1, FlowUnchanged
  <2>3. Streamed(p)'
    BY <1>2, <1>3, <1>4, <1>6, <1>7, <2>1, StreamedUnchanged
  <2>4. InOrder(p, read[p])'
    BY <1>2, <1>3, <1>4, <1>6, <1>7, <2>1, InOrderUnchanged
  <2> QED BY <2>2, <2>3, <2>4
<1>11. Answers(s, read[s], read[p])' /\ Answers(p, read[p], read[s])'
  <2>1. \A k \in 1 .. Len(unacknowledged_sent_message'[s]) :
          ~IsAck(unacknowledged_sent_message'[s][k])
    BY <1>5, <1>7, <1>8
  <2>2. Len(unacknowledged_sent_message'[p]) = 0
    BY <1>7
  <2> QED BY <1>3, <2>1, <2>2 DEF Answers
<1>12. InOrder(s, read[s])'
  <2>1. InOrder(s, read[s]) /\ ~Pending(s, read[s])
    BY <1>2, <1>4 DEF SideInv, Pending, Waiting
  <2>2. ~Pending(s, read[s])' /\ Left(s)' = Left(s) /\ state'[s] \notin Waiting
    BY <1>2, <1>7 DEF Pending, Waiting, Left
  <2> QED BY <1>2, <2>1, <2>2 DEF InOrder
<1>13. Handshake(read)'
  <2>1. read[s] = 0
    BY <1>3, <1>4, <1>6 DEF Handshake
  <2> QED BY <1>2, <1>3, <1>4, <1>5, <1>6, <1>7, <1>8, <2>1
          DEF Handshake, OpenStates
<1>14. NoProtocolException'
  BY <1>2 DEF LinkRest, NoProtocolException
<1> QED BY <1>9, <1>10, <1>11, <1>12, <1>13, <1>14, Conclude DEF SideInv

LEMMA ServerReceivesRequestLink ==
  ASSUME IInv, IInv', LinkRest, NEW s \in Sides, ServerReceivesRequest(s)
  PROVE  LinkRest'
<1> DEFINE p == Peer(s)
           frame == Stamped(s, "CONNECTION_RESPONSE", 0, 0)
<1>1. PICK read \in [Sides -> 0 .. 2] : LinkParts(read)
  BY DEF LinkRest
<1>2. state[s] = "SERVER_WAITING_FOR_FIRST" /\ PopReceived(s)
  BY DEF ServerReceivesRequest
<1>3. /\ s = "server" /\ p = "client" /\ p \in Sides /\ Peer(p) = s
      /\ p # s /\ Sides = {s, p}
  BY <1>1, <1>2 DEF LinkParts, Handshake, Sides, Peer
<1>4. /\ SideInv(s, read[s], read[p]) /\ SideInv(p, read[p], read[s])
      /\ read[s] \in 0 .. 2 /\ read[p] \in 0 .. 2 /\ Handshake(read)
  BY <1>1, <1>3 DEF LinkParts
<1>5. /\ read[p] + 1 \in 1 .. Len(unacknowledged_sent_message[p])
      /\ Received(s) = unacknowledged_sent_message[p][read[p] + 1]
      /\ Accounted(FirstSequence(p), unacknowledged_sent_message[p],
                   receive_message_queue'[s],
                   last_received_sequence_counter[s], sequence_counter[p],
                   read[p] + 1)
      /\ last_received_sequence_counter[s] # NoSequence
      /\ receive_message_queue'[p] = receive_message_queue[p]
  BY <1>1, <1>2, <1>3, Popped
<1>6. /\ state[p] = "CLIENT_CONNECTION_REQUEST_SENT" /\ read[p] = 0
      /\ Received(s).type = "CONNECTION_REQUEST"
      /\ unacknowledged_sent_message[s] = <<>>
      /\ Len(unacknowledged_sent_message[p]) = 1
      /\ ~IsAck(unacknowledged_sent_message[p][1])
  <2>1. /\ read[p] = 0
        /\ state[p] \in {"CLIENT_CONNECTION_START",
                         "CLIENT_CONNECTION_REQUEST_SENT"}
    BY <1>2, <1>3, <1>4 DEF Handshake
  <2>2. ShapeInState(p) /\ ShapeInState(s)
    BY <1>3 DEF IInv, ListShape
  <2>3. state[p] # "CLIENT_CONNECTION_START"
    <3> SUFFICES ASSUME state[p] = "CLIENT_CONNECTION_START" PROVE FALSE
      OBVIOUS
    <3>1. unacknowledged_sent_message[p] = <<>>
      BY <2>2 DEF ShapeInState, EmptyList
    <3> QED BY <1>5, <2>1, <3>1
  <2>4. OnlyMessage(p) /\ EmptyList(s)
    BY <1>2, <2>1, <2>2, <2>3 DEF ShapeInState
  <2>5. PICK m \in Frame : unacknowledged_sent_message[p] = <<m>> /\ ~IsAck(m)
    BY <2>4 DEF OnlyMessage, Awaited
  <2>6. unacknowledged_sent_message[p][1].type = "CONNECTION_REQUEST"
    BY <1>3, <1>4, <2>1, <2>3 DEF Handshake
  <2>7. Received(s) = unacknowledged_sent_message[p][1]
    BY <1>5, <2>1
  <2> QED BY <2>1, <2>3, <2>4, <2>5, <2>6, <2>7 DEF EmptyList
<1>7. /\ SendMessageNow(s, frame, <<>>, <<>>)
      /\ state' = [state EXCEPT ![s] = "SERVER_CONNECTION_RESPONSE_SENT"]
      /\ UNCHANGED <<exception, delivered, last_received_sequence_counter,
                     send_message_queue, sent>>
  BY <1>6 DEF ServerReceivesRequest
<1>8. frame \in Frame /\ ~IsAck(frame) /\ frame.seq = sequence_counter[s]
        /\ frame.type = "CONNECTION_RESPONSE"
  <2>1. 0 \in Sequence /\ "CONNECTION_RESPONSE" \in MessageType
    BY SequenceAssumption DEF Sequence, MessageType
  <2> QED BY <2>1, StampedType DEF IsAck, IInv
<1> HIDE DEF frame
<1>9. /\ unacknowledged_sent_message'[s] = Append(<<>>, frame)
      /\ unacknowledged_sent_message'[p] = unacknowledged_sent_message[p]
      /\ sequence_counter'[p] = sequence_counter[p]
      /\ stream'[s] = stream[s]
      /\ state'[s] = "SERVER_CONNECTION_RESPONSE_SENT" /\ state'[p] = state[p]
  <2>1. state'[s] = "SERVER_CONNECTION_RESPONSE_SENT" /\ state'[p] = state[p]
    BY <1>3, <1>7 DEF IInv, TypeOK
  <2> QED BY <1>7, <2>1, SendEffects
<1>10. /\ Append(<<>>, frame) \in Seq(Frame) /\ Len(Append(<<>>, frame)) = 1
       /\ Append(<<>>, frame)[1] = frame
  BY <1>8, OneFrame
<1> DEFINE next == [t \in Sides |-> IF t = s THEN 0 ELSE 1]
<1>11. next \in [Sides -> 0 .. 2] /\ next[s] = 0 /\ next[p] = 1
  BY <1>3
<1> HIDE DEF next
<1>12. Flow(s, 0)' /\ Streamed(s)'
  <2>1. Accounted(FirstSequence(s), <<>>, receive_message_queue[p],
                  last_received_sequence_counter[p], sequence_counter[s],
                  read[s]) /\ Streamed(s)
    BY <1>4, <1>6 DEF SideInv, Flow
  <2>2. <<>> \in Seq(Frame) /\ Len(<<>>) = 0
    OBVIOUS
  <2>3. read[s] = 0
    <3>1. Len(receive_message_queue[p]) \in Nat
      BY FlowTypes, <1>3
    <3> QED BY <1>4, <2>1, <2>2, <3>1 DEF Accounted
  <2>4. Flow(s, read[s])'
    BY <1>4, <1>5, <1>7, <1>8, <2>1, SendFlowEmpty
  <2>5. Streamed(s)'
    BY <1>6, <1>7, <1>8, <2>1, <2>2, SendStreamed
  <2> QED BY <2>3, <2>4, <2>5
<1>13. Flow(p, 1)' /\ Streamed(p)'
  <2>1. Streamed(p)
    BY <1>4 DEF SideInv
  <2>2. Flow(p, 1)'
    BY <1>3, <1>5, <1>6, <1>7, <1>9 DEF Flow
  <2>3. Streamed(p)'
    BY <1>3, <1>7, <1>9, <2>1, StreamedUnchanged
  <2> QED BY <2>2, <2>3
<1>14. Answers(s, 0, 1)' /\ Answers(p, 1, 0)'
  <2>1. \A k \in 1 .. Len(unacknowledged_sent_message'[s]) :
          ~IsAck(unacknowledged_sent_message'[s][k])
    BY <1>8, <1>9, <1>10
  <2>2. \A k \in 1 .. Len(unacknowledged_sent_message'[p]) :
          ~IsAck(unacknowledged_sent_message'[p][k])
    BY <1>6, <1>9
  <2> QED BY <2>1, <2>2 DEF Answers
<1>15. InOrder(s, 0)' /\ InOrder(p, 1)'
  <2>1. /\ InOrder(s, read[s]) /\ ~Pending(s, read[s]) /\ ~Pending(s, 0)'
        /\ InOrder(p, read[p]) /\ ~Pending(p, read[p]) /\ ~Pending(p, 1)'
        /\ state'[s] \notin Waiting /\ state'[p] \notin Waiting
    BY <1>2, <1>4, <1>6, <1>9 DEF SideInv, Pending, Waiting
  <2>2. Left(s)' = Left(s) /\ Left(p)' = Left(p)
    BY <1>7 DEF Left
  <2> QED BY <1>3, <1>7, <2>1, <2>2 DEF InOrder
<1>16. Handshake(next)'
  BY <1>3, <1>4, <1>5, <1>6, <1>7, <1>8, <1>9, <1>10, <1>11
     DEF Handshake, OpenStates
<1>17. NoProtocolException'
  BY <1>7 DEF LinkRest, NoProtocolException
<1>18. SideInv(s, next[s], next[p])' /\ SideInv(p, next[p], next[s])'
  BY <1>11, <1>12, <1>13, <1>14, <1>15 DEF SideInv
<1> QED BY <1>11, <1>16, <1>17, <1>18, Conclude

LEMMA ClientReceivesResponseLink ==
  ASSUME IInv, IInv', LinkRest, NEW s \in Sides, ClientReceivesResponse(s)
  PROVE  LinkRest'
<1> DEFINE p == Peer(s)
           frame == Stamped(s, "ACKNOWLEDGE", Received(s).seq, 0)
<1>1. PICK read \in [Sides -> 0 .. 2] : LinkParts(read)
  BY DEF LinkRest
<1>2. state[s] = "CLIENT_CONNECTION_REQUEST_SENT" /\ PopReceived(s)
  BY DEF ClientReceivesResponse
<1>3. /\ s = "client" /\ p = "server" /\ p \in Sides /\ Peer(p) = s
      /\ p # s /\ Sides = {s, p}
  BY <1>1, <1>2 DEF LinkParts, Handshake, Sides, Peer
<1>4. /\ SideInv(s, read[s], read[p]) /\ SideInv(p, read[p], read[s])
      /\ read[s] \in 0 .. 2 /\ read[p] \in 0 .. 2 /\ Handshake(read)
  BY <1>1, <1>3 DEF LinkParts
<1>5. /\ read[p] + 1 \in 1 .. Len(unacknowledged_sent_message[p])
      /\ Received(s) = unacknowledged_sent_message[p][read[p] + 1]
      /\ Accounted(FirstSequence(p), unacknowledged_sent_message[p],
                   receive_message_queue'[s],
                   last_received_sequence_counter[s], sequence_counter[p],
                   read[p] + 1)
      /\ last_received_sequence_counter[s] # NoSequence
      /\ receive_message_queue'[p] = receive_message_queue[p]
      /\ Received(s) \in Frame
  BY <1>1, <1>2, <1>3, Popped
<1>6. /\ state[p] = "SERVER_CONNECTION_RESPONSE_SENT"
      /\ read[p] = 0 /\ read[s] = 1
      /\ Received(s) = unacknowledged_sent_message[p][1]
      /\ Received(s).type = "CONNECTION_RESPONSE"
      /\ Received(s).seq = last_send_sequence[p]
      /\ Len(unacknowledged_sent_message[p]) = 1
      /\ Len(unacknowledged_sent_message[s]) = 1
      /\ ~IsAck(unacknowledged_sent_message[p][1])
  <2>1. state[p] \in {"SERVER_WAITING_FOR_FIRST",
                      "SERVER_CONNECTION_RESPONSE_SENT"}
    BY <1>2, <1>3, <1>4 DEF Handshake
  <2>2. ShapeInState(p) /\ ShapeInState(s)
    BY <1>3 DEF IInv, ListShape
  <2>3. state[p] # "SERVER_WAITING_FOR_FIRST"
    <3> SUFFICES ASSUME state[p] = "SERVER_WAITING_FOR_FIRST" PROVE FALSE
      OBVIOUS
    <3>1. unacknowledged_sent_message[p] = <<>>
      BY <2>2 DEF ShapeInState, EmptyList
    <3> QED BY <1>4, <1>5, <3>1
  <2>4. OnlyMessage(p) /\ OnlyMessage(s)
    BY <1>2, <2>1, <2>2, <2>3 DEF ShapeInState
  <2>5. PICK m \in Frame : /\ unacknowledged_sent_message[p] = <<m>>
                           /\ ~IsAck(m) /\ m.seq = last_send_sequence[p]
    BY <2>4 DEF OnlyMessage, Awaited
  <2>6. Len(unacknowledged_sent_message[s]) = 1
    BY <2>4 DEF OnlyMessage
  <2>7. /\ unacknowledged_sent_message[p][1].type = "CONNECTION_RESPONSE"
        /\ read[s] = 1 /\ read[p] = 0
    BY <1>2, <1>3, <1>4, <2>1, <2>3 DEF Handshake, OpenStates
  <2>8. Received(s) = unacknowledged_sent_message[p][1]
    BY <1>5, <2>7
  <2> QED BY <2>1, <2>3, <2>5, <2>6, <2>7, <2>8
<1>7. /\ SendMessageNow(s, frame, <<>>, <<>>)
      /\ state' = [state EXCEPT ![s] = "READY"]
      /\ UNCHANGED <<exception, delivered, last_received_sequence_counter,
                     send_message_queue, sent>>
  BY <1>6 DEF ClientReceivesResponse
<1>8. /\ frame \in Frame /\ IsAck(frame) /\ frame.seq = sequence_counter[s]
      /\ frame.acknowledged = last_send_sequence[p]
  <2>1. Received(s).seq \in Sequence /\ "ACKNOWLEDGE" \in MessageType
    BY <1>5 DEF Frame, MessageType
  <2>2. frame.acknowledged = Received(s).seq
    BY DEF Stamped
  <2>3. frame \in Frame /\ frame.seq = sequence_counter[s]
          /\ frame.type = "ACKNOWLEDGE"
    BY <2>1, StampedType DEF IInv
  <2> QED BY <1>6, <2>2, <2>3 DEF IsAck
<1> HIDE DEF frame
<1>9. /\ unacknowledged_sent_message'[s] = Append(<<>>, frame)
      /\ unacknowledged_sent_message'[p] = unacknowledged_sent_message[p]
      /\ sequence_counter'[p] = sequence_counter[p]
      /\ last_send_sequence' = last_send_sequence
      /\ stream'[s] = stream[s]
      /\ state'[s] = "READY" /\ state'[p] = state[p]
  <2>1. state'[s] = "READY" /\ state'[p] = state[p]
    BY <1>3, <1>7 DEF IInv, TypeOK
  <2> QED BY <1>7, <1>8, <2>1, SendEffects
<1>10. /\ Append(<<>>, frame) \in Seq(Frame) /\ Len(Append(<<>>, frame)) = 1
       /\ Append(<<>>, frame)[1] = frame
  BY <1>8, OneFrame
<1> DEFINE next == [t \in Sides |-> IF t = s THEN 0 ELSE 1]
<1>11. next \in [Sides -> 0 .. 2] /\ next[s] = 0 /\ next[p] = 1
  BY <1>3
<1> HIDE DEF next
<1>12. Flow(s, 0)' /\ Streamed(s)'
  <2>1. Accounted(FirstSequence(s), unacknowledged_sent_message[s],
                  receive_message_queue[p],
                  last_received_sequence_counter[p], sequence_counter[s], 1)
          /\ Streamed(s)
    BY <1>4, <1>6 DEF SideInv, Flow
  <2>2. /\ unacknowledged_sent_message[s] \in Seq(Frame)
        /\ receive_message_queue[p] \in Seq(Frame)
    BY FlowTypes, <1>3
  <2>3. Accounted(FirstSequence(s), <<>>, receive_message_queue[p],
                  last_received_sequence_counter[p], sequence_counter[s], 0)
    BY <1>6, <2>1, <2>2, AccountedClear
  <2>4. Flow(s, 0)'
    BY <1>5, <1>7, <1>8, <2>3, SendFlowEmpty
  <2>5. \A k \in 1 .. Len(unacknowledged_sent_message[s]) :
          unacknowledged_sent_message[s][k].seq
            <= last_received_sequence_counter[p]
    BY <1>6, <2>1, <2>2, HandledAccepted
  <2>6. <<>> \in Seq(Frame)
    OBVIOUS
  <2>7. Streamed(s)'
    BY <1>7, <1>8, <2>1, <2>5, <2>6, SendStreamed
  <2> QED BY <2>4, <2>7
<1>13. Flow(p, 1)' /\ Streamed(p)'
  <2>1. Streamed(p)
    BY <1>4 DEF SideInv
  <2>2. Flow(p, 1)'
    BY <1>3, <1>5, <1>6, <1>7, <1>9 DEF Flow
  <2>3. Streamed(p)'
    BY <1>3, <1>7, <1>9, <2>1, StreamedUnchanged
  <2> QED BY <2>2, <2>3
<1>14. Answers(s, 0, 1)' /\ Answers(p, 1, 0)'
  <2>1. \A k \in 1 .. Len(unacknowledged_sent_message'[s]) :
          unacknowledged_sent_message'[s][k].acknowledged
            = last_send_sequence'[p]
    BY <1>8, <1>9, <1>10
  <2>2. \A k \in 1 .. Len(unacknowledged_sent_message'[p]) :
          ~IsAck(unacknowledged_sent_message'[p][k])
    BY <1>6, <1>9
  <2>3. \E j \in 1 .. Len(unacknowledged_sent_message'[p]) :
          j <= 1 /\ ~IsAck(unacknowledged_sent_message'[p][j])
    BY <1>6, <1>9
  <2> QED BY <1>6, <1>9, <2>1, <2>2, <2>3 DEF Answers
<1>15. InOrder(s, 0)' /\ InOrder(p, 1)'
  <2>1. /\ InOrder(s, read[s]) /\ ~Pending(s, read[s]) /\ ~Pending(s, 0)'
        /\ InOrder(p, read[p]) /\ ~Pending(p, read[p]) /\ ~Pending(p, 1)'
        /\ state'[s] \notin Waiting /\ state'[p] \notin Waiting
    BY <1>2, <1>4, <1>6, <1>9 DEF SideInv, Pending, Waiting
  <2>2. Left(s)' = Left(s) /\ Left(p)' = Left(p)
    BY <1>7 DEF Left
  <2> QED BY <1>3, <1>7, <2>1, <2>2 DEF InOrder
<1>16. Handshake(next)'
  BY <1>3, <1>4, <1>5, <1>6, <1>7, <1>8, <1>9, <1>10, <1>11
     DEF Handshake, OpenStates
<1>17. NoProtocolException'
  BY <1>7 DEF LinkRest, NoProtocolException
<1>18. SideInv(s, next[s], next[p])' /\ SideInv(p, next[p], next[s])'
  BY <1>11, <1>12, <1>13, <1>14, <1>15 DEF SideInv
<1> QED BY <1>11, <1>16, <1>17, <1>18, Conclude

LEMMA ServerReceivesAcknowledgeLink ==
  ASSUME IInv, IInv', LinkRest, NEW s \in Sides, ServerReceivesAcknowledge(s)
  PROVE  LinkRest'
<1> DEFINE p == Peer(s)
<1>1. PICK read \in [Sides -> 0 .. 2] : LinkParts(read)
  BY DEF LinkRest
<1>2. state[s] = "SERVER_CONNECTION_RESPONSE_SENT" /\ PopReceived(s)
  BY DEF ServerReceivesAcknowledge
<1>3. /\ s = "server" /\ p = "client" /\ p \in Sides /\ Peer(p) = s
      /\ p # s /\ Sides = {s, p}
  BY <1>1, <1>2 DEF LinkParts, Handshake, Sides, Peer
<1>4. /\ SideInv(s, read[s], read[p]) /\ SideInv(p, read[p], read[s])
      /\ read[s] \in 0 .. 2 /\ read[p] \in 0 .. 2 /\ Handshake(read)
  BY <1>1, <1>3 DEF LinkParts
<1>5. /\ read[p] + 1 \in 1 .. Len(unacknowledged_sent_message[p])
      /\ Received(s) = unacknowledged_sent_message[p][read[p] + 1]
      /\ Accounted(FirstSequence(p), unacknowledged_sent_message[p],
                   receive_message_queue'[s],
                   last_received_sequence_counter[s], sequence_counter[p],
                   read[p] + 1)
      /\ last_received_sequence_counter[s] # NoSequence
      /\ receive_message_queue'[p] = receive_message_queue[p]
  BY <1>1, <1>2, <1>3, Popped
<1>6. /\ state[p] \in OpenStates \cup {"CLOSED"}
      /\ read[p] = 0 /\ read[s] = 1
      /\ IsAck(unacknowledged_sent_message[p][1])
      /\ Received(s) = unacknowledged_sent_message[p][1]
      /\ Len(unacknowledged_sent_message[s]) = 1
  <2>1. ShapeInState(p) /\ ShapeInState(s)
    BY <1>3 DEF IInv, ListShape
  <2>2. OnlyMessage(s)
    BY <1>2, <2>1 DEF ShapeInState
  <2>3. Len(unacknowledged_sent_message[s]) = 1
    BY <2>2 DEF OnlyMessage
  <2>4. ~ (state[p] = "CLIENT_CONNECTION_REQUEST_SENT" /\ read[p] = 1)
    <3> SUFFICES ASSUME state[p] = "CLIENT_CONNECTION_REQUEST_SENT",
                        read[p] = 1
                 PROVE  FALSE
      OBVIOUS
    <3>1. Len(unacknowledged_sent_message[p]) = 1
      BY <2>1 DEF ShapeInState, OnlyMessage
    <3> QED BY <1>5, <3>1
  <2>5. /\ state[p] \in OpenStates \cup {"CLOSED"}
        /\ read[p] = 0 /\ read[s] = 1
        /\ IsAck(unacknowledged_sent_message[p][1])
    BY <1>2, <1>3, <1>4, <2>4 DEF Handshake
  <2> QED BY <1>5, <2>3, <2>5
<1>7. Received(s).acknowledged = last_send_sequence[s]
  <2>1. Answers(p, read[p], read[s]) /\ 1 \in 1 .. Len(unacknowledged_sent_message[p])
          /\ 1 > read[p]
    BY <1>4, <1>5, <1>6 DEF SideInv
  <2> QED BY <1>3, <1>6, <2>1 DEF Answers
<1>8. /\ unacknowledged_sent_message' =
           [unacknowledged_sent_message EXCEPT ![s] = <<>>]
      /\ state' = [state EXCEPT ![s] = "READY"]
      /\ UNCHANGED <<sequence_counter, last_send_sequence, stream, exception,
                     delivered, last_received_sequence_counter,
                     send_message_queue, sent>>
  BY <1>6, <1>7 DEF ServerReceivesAcknowledge
<1>9. /\ unacknowledged_sent_message'[s] = <<>>
      /\ unacknowledged_sent_message'[p] = unacknowledged_sent_message[p]
      /\ state'[s] = "READY" /\ state'[p] = state[p]
  BY <1>3, <1>8 DEF IInv, TypeOK
<1> DEFINE next == [t \in Sides |-> IF t = s THEN 0 ELSE 1]
<1>10. next \in [Sides -> 0 .. 2] /\ next[s] = 0 /\ next[p] = 1
  BY <1>3
<1> HIDE DEF next
<1>11. Flow(s, 0)' /\ Streamed(s)'
  <2>1. Accounted(FirstSequence(s), unacknowledged_sent_message[s],
                  receive_message_queue[p],
                  last_received_sequence_counter[p], sequence_counter[s], 1)
          /\ Streamed(s)
    BY <1>4, <1>6 DEF SideInv, Flow
  <2>2. /\ unacknowledged_sent_message[s] \in Seq(Frame)
        /\ receive_message_queue[p] \in Seq(Frame)
    BY FlowTypes, <1>3
  <2>3. Accounted(FirstSequence(s), <<>>, receive_message_queue[p],
                  last_received_sequence_counter[p], sequence_counter[s], 0)
    BY <1>6, <2>1, <2>2, AccountedClear
  <2>4. Flow(s, 0)'
    BY <1>5, <1>8, <1>9, <2>3 DEF Flow
  <2>5. \A k \in 1 .. Len(unacknowledged_sent_message[s]) :
          unacknowledged_sent_message[s][k].seq
            <= last_received_sequence_counter[p]
    BY <1>6, <2>1, <2>2, HandledAccepted
  <2>6. Streamed(s)'
    BY <1>8, <1>9, <2>1, <2>5 DEF Streamed, Known
  <2> QED BY <2>4, <2>6
<1>12. Flow(p, 1)' /\ Streamed(p)'
  <2>1. Streamed(p)
    BY <1>4 DEF SideInv
  <2>2. Flow(p, 1)'
    BY <1>3, <1>5, <1>6, <1>8, <1>9 DEF Flow
  <2>3. Streamed(p)'
    BY <1>3, <1>8, <1>9, <2>1, StreamedUnchanged
  <2> QED BY <2>2, <2>3
<1>13. Answers(s, 0, 1)' /\ Answers(p, 1, 0)'
  <2>1. Len(unacknowledged_sent_message'[s]) = 0
    BY <1>9
  <2>2. \A k \in 1 .. Len(unacknowledged_sent_message[p]) :
          k > 1 => ~IsAck(unacknowledged_sent_message[p][k])
    <3>1. 1 \in 1 .. Len(unacknowledged_sent_message[p])
      BY <1>5, <1>6
    <3> QED BY <1>3, <1>6, <3>1, OnlyOne
  <2> QED BY <1>9, <2>1, <2>2 DEF Answers
<1>14. InOrder(s, 0)' /\ InOrder(p, 1)'
  <2>1. InOrder(s, read[s]) /\ InOrder(p, 0)
    BY <1>4, <1>6 DEF SideInv
  <2>2. /\ ~Pending(s, read[s]) /\ ~Pending(s, 0)'
        /\ state'[s] \notin Waiting
    BY <1>2, <1>9 DEF Pending, Waiting
  <2>3. Left(s)' = Left(s) /\ Left(p)' = Left(p)
    BY <1>8 DEF Left
  <2>4. InOrder(s, 0)'
    BY <1>3, <1>8, <2>1, <2>2, <2>3 DEF InOrder
  <2>5. Pending(p, 1)' <=> Pending(p, 0)
    <3>1. \A k \in 1 .. Len(unacknowledged_sent_message[p]) :
            ~IsAck(unacknowledged_sent_message[p][k]) => (k > 0 <=> k > 1)
      BY <1>6
    <3> QED BY <1>9, <3>1 DEF Pending
  <2>6. InOrder(p, 1)'
    <3>1. state'[p] \in Waiting =>
            \A k \in 1 .. Len(unacknowledged_sent_message'[p]) :
              ~IsAck(unacknowledged_sent_message'[p][k]) =>
                unacknowledged_sent_message'[p][k].payload = Left(p)
      BY <1>9, <2>1 DEF InOrder
    <3> QED BY <1>3, <1>8, <1>9, <2>1, <2>5, <3>1, InOrderKept
  <2> QED BY <2>4, <2>6
<1>15. Handshake(next)'
  BY <1>3, <1>4, <1>6, <1>8, <1>9, <1>10 DEF Handshake, OpenStates
<1>16. NoProtocolException'
  BY <1>8 DEF LinkRest, NoProtocolException
<1>17. SideInv(s, next[s], next[p])' /\ SideInv(p, next[p], next[s])'
  BY <1>10, <1>11, <1>12, <1>13, <1>14 DEF SideInv
<1> QED BY <1>10, <1>15, <1>16, <1>17, Conclude

-----------------------------------------------------------------------------
(* ReceiveMessage on an established connection. *)

\* While one side is open, the other has accepted a frame of it, and no frame
\* of the handshake is left to handle.
LEMMA OpenSide ==
  ASSUME IInv, NEW s \in Sides, NEW read \in [Sides -> 0 .. 2],
         Handshake(read), state[s] \in OpenStates,
         read[Peer(s)] + 1
           \in 1 .. Len(unacknowledged_sent_message[Peer(s)])
  PROVE  /\ state[Peer(s)] \in OpenStates \cup {"CLOSED"}
         /\ last_received_sequence_counter[Peer(s)] # NoSequence
<1>1. state["client"] \in ConnectionState /\ state["server"] \in ConnectionState
  BY FlowTypes DEF Sides
<1>2. CASE s = "client"
  <2>1. Peer(s) = "server" /\ state["server"] # "SERVER_WAITING_FOR_FIRST"
    BY <1>2 DEF Handshake, Peer, OpenStates
  <2>2. state["server"] # "SERVER_CONNECTION_RESPONSE_SENT"
    <3> SUFFICES ASSUME state["server"] = "SERVER_CONNECTION_RESPONSE_SENT"
                 PROVE  FALSE
      OBVIOUS
    <3>1. read["server"] = 1
      BY <1>2 DEF Handshake, OpenStates
    <3>2. OnlyMessage("server")
      BY DEF IInv, ListShape, ShapeInState, Sides
    <3>3. Len(unacknowledged_sent_message["server"]) = 1
      BY <3>2 DEF OnlyMessage
    <3> QED BY <2>1, <3>1, <3>3
  <2> QED BY <1>1, <2>1, <2>2 DEF Handshake, ConnectionState, OpenStates
<1>3. CASE s = "server"
  <2>1. Peer(s) = "client"
    BY <1>3 DEF Peer
  <2>2. state["client"] \in OpenStates \cup {"CLOSED"}
    BY <1>1, <1>3 DEF Handshake, ConnectionState, OpenStates
  <2> QED BY <2>1, <2>2 DEF Handshake
<1> QED BY <1>2, <1>3 DEF Sides

\* Once both sides are established nothing is left of the handshake.
LEMMA EstablishedHandshake ==
  ASSUME NEW s \in Sides, NEW read \in [Sides -> 0 .. 2],
         NEW next \in [Sides -> 0 .. 2], Handshake(read),
         state'[s] \in OpenStates \cup {"CLOSED"},
         state'[Peer(s)] \in OpenStates \cup {"CLOSED"},
         state[s] \in OpenStates,
         state[Peer(s)] \in OpenStates \cup {"CLOSED"},
         UNCHANGED last_received_sequence_counter
  PROVE  Handshake(next)'
<1>1. CASE s = "client"
  <2>1. Peer(s) = "server"
    BY <1>1 DEF Peer
  <2> QED BY <1>1, <2>1 DEF Handshake, OpenStates
<1>2. CASE s = "server"
  <2>1. Peer(s) = "client"
    BY <1>2 DEF Peer
  <2> QED BY <1>2, <2>1 DEF Handshake, OpenStates
<1> QED BY <1>1, <1>2 DEF Sides

LEMMA ReceiveAcknowledgeLink ==
  ASSUME IInv, IInv', LinkRest, NEW s \in Sides, ReceiveAcknowledge(s)
  PROVE  LinkRest'
<1> DEFINE p == Peer(s)
           list == unacknowledged_sent_message[s]
           rest == AfterAcknowledged(list, last_send_sequence[s])
<1>1. PICK read \in [Sides -> 0 .. 2] : LinkParts(read)
  BY DEF LinkRest
<1>2. state[s] \in OpenStates /\ PopReceived(s) /\ IsAck(Received(s))
  BY DEF ReceiveAcknowledge
<1>3. p \in Sides /\ Peer(p) = s /\ p # s /\ \A t \in Sides : t = s \/ t = p
  BY DEF Sides, Peer
<1>4. /\ SideInv(s, read[s], read[p]) /\ SideInv(p, read[p], read[s])
      /\ read[s] \in 0 .. 2 /\ read[p] \in 0 .. 2 /\ Handshake(read)
  BY <1>1, <1>3 DEF LinkParts
<1>5. /\ read[p] + 1 \in 1 .. Len(unacknowledged_sent_message[p])
      /\ read[p] + 1 \in 0 .. 2
      /\ Received(s) = unacknowledged_sent_message[p][read[p] + 1]
      /\ Accounted(FirstSequence(p), unacknowledged_sent_message[p],
                   receive_message_queue'[s],
                   last_received_sequence_counter[s], sequence_counter[p],
                   read[p] + 1)
      /\ receive_message_queue'[p] = receive_message_queue[p]
  BY <1>1, <1>2, <1>3, Popped
<1>6. /\ state[s] \in Waiting
      /\ Received(s).acknowledged = last_send_sequence[s]
      /\ \E j \in 1 .. Len(list) : j <= read[s] /\ ~IsAck(list[j])
  <2>1. read[p] + 1 > read[p]
    BY <1>4
  <2>2. Answers(p, read[p], read[s])
    BY <1>4 DEF SideInv
  <2>3. /\ state[s] \in Waiting \cup {"SERVER_CONNECTION_RESPONSE_SENT"}
        /\ Received(s).acknowledged = last_send_sequence[s]
        /\ \E j \in 1 .. Len(list) : j <= read[s] /\ ~IsAck(list[j])
    BY <1>2, <1>3, <1>5, <2>1, <2>2 DEF Answers
  <2> QED BY <1>2, <2>3 DEF OpenStates
<1>7. /\ unacknowledged_sent_message' =
           [unacknowledged_sent_message EXCEPT ![s] = rest]
      /\ state' = [state EXCEPT ![s] =
                     IF @ = "WAITING_FOR_CONNECTION_RESET_ACKNOWLEDGE"
                     THEN "CLOSED" ELSE "READY"]
      /\ UNCHANGED <<sequence_counter, last_send_sequence, stream, exception,
                     delivered, last_received_sequence_counter,
                     send_message_queue, sent>>
  <2>1. AckExpected(s, Received(s))
    BY <1>6 DEF AckExpected, Waiting
  <2> QED BY <1>6, <2>1 DEF ReceiveAcknowledge, AfterAck
<1>8. PICK j \in 1 .. Len(list) : j <= read[s] /\ ~IsAck(list[j])
  BY <1>6
<1>9. PICK m \in 0 .. 2 : /\ Dropped(s, rest, read[s], m)
                          /\ \A k \in 1 .. Len(rest) : IsAck(rest[k])
  <2>1. Flow(s, read[s])
    BY <1>4 DEF SideInv
  <2> QED BY <1>4, <1>6, <1>8, <2>1, DropAcknowledged
<1> HIDE DEF rest
<1>10. /\ unacknowledged_sent_message'[s] = rest
       /\ unacknowledged_sent_message'[p] = unacknowledged_sent_message[p]
       /\ state'[s] \in {"READY", "CLOSED"} /\ state'[p] = state[p]
  BY <1>3, <1>7 DEF IInv, TypeOK
<1> DEFINE next == [t \in Sides |-> IF t = s THEN m ELSE read[p] + 1]
<1>11. next \in [Sides -> 0 .. 2] /\ next[s] = m /\ next[p] = read[p] + 1
  BY <1>3, <1>5
<1> HIDE DEF next
<1>12. Flow(s, m)' /\ Streamed(s)'
  <2>1. Flow(s, m)'
    BY <1>5, <1>7, <1>9, <1>10 DEF Flow, Dropped
  <2>2. Streamed(s)
    BY <1>4 DEF SideInv
  <2>3. \A k \in 1 .. Len(list) :
          \/ list[k].seq <= last_received_sequence_counter[p]
          \/ \E h \in 1 .. Len(rest) : rest[h] = list[k]
    BY <1>9 DEF Dropped
  <2>4. \A x : Known(x, list, last_received_sequence_counter[p]) =>
               Known(x, rest, last_received_sequence_counter[p])
    <3> HIDE DEF list, p
    <3> QED BY <2>3 DEF Known
  <2>5. Streamed(s)'
    BY <1>7, <1>10, <2>2, <2>4 DEF Streamed
  <2> QED BY <2>1, <2>5
<1>13. Flow(p, read[p] + 1)' /\ Streamed(p)'
  <2>1. Streamed(p)
    BY <1>4 DEF SideInv
  <2>2. Flow(p, read[p] + 1)'
    BY <1>3, <1>5, <1>7, <1>10 DEF Flow
  <2>3. Streamed(p)'
    BY <1>3, <1>7, <1>10, <2>1, StreamedUnchanged
  <2> QED BY <2>2, <2>3
<1>14. Answers(s, m, read[p] + 1)'
  <2> SUFFICES ASSUME NEW k \in 1 .. Len(rest), IsAck(rest[k]), k > m
               PROVE
        /\ state[p] \in Waiting \cup {"SERVER_CONNECTION_RESPONSE_SENT"}
        /\ rest[k].acknowledged = last_send_sequence[p]
        /\ \E h \in 1 .. Len(unacknowledged_sent_message[p]) :
             /\ h <= read[p] + 1
             /\ ~IsAck(unacknowledged_sent_message[p][h])
    BY <1>7, <1>10 DEF Answers
  <2>1. Len(rest) = 1 /\ k = 1
    BY <1>9 DEF Dropped
  <2>2. PICK h \in 1 .. Len(list) : list[h] = rest[1] /\ h > read[s]
    BY <1>9, <2>1 DEF Dropped
  <2>3. /\ state[p] \in Waiting \cup {"SERVER_CONNECTION_RESPONSE_SENT"}
        /\ rest[k].acknowledged = last_send_sequence[p]
        /\ \E i \in 1 .. Len(unacknowledged_sent_message[p]) :
             i <= read[p] /\ ~IsAck(unacknowledged_sent_message[p][i])
    BY <1>4, <2>1, <2>2 DEF SideInv, Answers
  <2>4. \A i \in 1 .. Len(unacknowledged_sent_message[p]) :
          i <= read[p] => i <= read[p] + 1
    BY <1>4
  <2> QED BY <2>3, <2>4
<1>15. Answers(p, read[p] + 1, m)'
  <2>1. \A k \in 1 .. Len(unacknowledged_sent_message[p]) :
          k > read[p] + 1 => ~IsAck(unacknowledged_sent_message[p][k])
    BY <1>2, <1>3, <1>5, OnlyOne
  <2> QED BY <1>10, <2>1 DEF Answers
<1>16. InOrder(s, m)'
  <2>1. ~Pending(s, read[s])
    <3>1. \A k \in 1 .. Len(list) : k > read[s] => IsAck(list[k])
      <4> SUFFICES ASSUME NEW k \in 1 .. Len(list), k > read[s], ~IsAck(list[k])
                   PROVE  FALSE
        OBVIOUS
      <4>1. k = j
        BY <1>8, OnlyOne
      <4> QED BY <1>4, <1>8, <4>1
    <3> QED BY <3>1 DEF Pending
  <2>2. ~Pending(s, m)' /\ state'[s] \notin Waiting
    BY <1>10 DEF Pending, Waiting
  <2>3. InOrder(s, read[s])
    BY <1>4 DEF SideInv
  <2> QED BY <1>4, <1>7, <2>1, <2>2, <2>3, InOrderKept
<1>17. InOrder(p, read[p] + 1)'
  <2>1. InOrder(p, read[p])
    BY <1>4 DEF SideInv
  <2>2. Pending(p, read[p] + 1)' <=> Pending(p, read[p])
    <3>1. \A k \in 1 .. Len(unacknowledged_sent_message[p]) :
            ~IsAck(unacknowledged_sent_message[p][k]) =>
              (k > read[p] <=> k > read[p] + 1)
      <4> SUFFICES ASSUME NEW k \in 1 .. Len(unacknowledged_sent_message[p]),
                          ~IsAck(unacknowledged_sent_message[p][k])
                   PROVE  k > read[p] <=> k > read[p] + 1
        OBVIOUS
      <4>1. k # read[p] + 1
        BY <1>2, <1>5
      <4> QED BY <1>4, <4>1
    <3> QED BY <1>10, <3>1 DEF Pending
  <2>3. state'[p] \in Waiting =>
          \A k \in 1 .. Len(unacknowledged_sent_message'[p]) :
            ~IsAck(unacknowledged_sent_message'[p][k]) =>
              unacknowledged_sent_message'[p][k].payload = Left(p)
    BY <1>10, <2>1 DEF InOrder
  <2> QED BY <1>3, <1>4, <1>5, <1>7, <2>1, <2>2, <2>3, InOrderKept
<1>18. Handshake(next)'
  <2>1. state[p] \in OpenStates \cup {"CLOSED"}
    BY <1>2, <1>4, <1>5, OpenSide
  <2>2. state'[s] \in OpenStates \cup {"CLOSED"} /\ state'[p] = state[p]
    BY <1>10 DEF OpenStates
  <2> QED BY <1>2, <1>4, <1>7, <1>11, <2>1, <2>2, EstablishedHandshake
<1>19. NoProtocolException'
  BY <1>7 DEF LinkRest, NoProtocolException
<1>20. SideInv(s, next[s], next[p])' /\ SideInv(p, next[p], next[s])'
  BY <1>11, <1>12, <1>13, <1>14, <1>15, <1>16, <1>17 DEF SideInv
<1> QED BY <1>11, <1>18, <1>19, <1>20, Conclude

\* What an open side returns to its owner is the message the peer waits for.
LEMMA ReturnedMessage ==
  ASSUME IInv, NEW s \in Sides, NEW read \in [Sides -> 0 .. 2],
         LinkParts(read), state[s] \in OpenStates, PopReceived(s),
         ~IsAck(Received(s))
  PROVE  /\ state[Peer(s)] \in Waiting
         /\ Received(s).seq = last_send_sequence[Peer(s)]
         /\ Received(s).payload = Left(Peer(s))
         /\ Left(Peer(s)) \in Nat /\ Left(Peer(s)) > 0
         /\ delivered[s] = [i \in 1 .. Left(Peer(s)) - 1 |-> i]
<1> DEFINE p == Peer(s)
           other == unacknowledged_sent_message[p]
<1>2. ~IsAck(Received(s))
  OBVIOUS
<1>3. p \in Sides /\ Peer(p) = s
  BY FlowTypes
<1>4. SideInv(p, read[p], read[s]) /\ read[p] \in 0 .. 2 /\ Handshake(read)
  BY <1>3 DEF LinkParts
<1>5. read[p] + 1 \in 1 .. Len(other) /\ Received(s) = other[read[p] + 1]
  BY Popped
<1>6. state[p] \in OpenStates \cup {"CLOSED"}
  BY <1>4, <1>5, OpenSide
<1>11. ShapeInState(p)
  BY <1>3 DEF IInv, ListShape
<1>12. state[p] \in Waiting
  <2>1. ~(EmptyList(p) \/ OnlyAck(p))
    <3>1. ~EmptyList(p)
      BY <1>5 DEF EmptyList
    <3>2. ASSUME OnlyAck(p) PROVE FALSE
      <4>1. PICK a \in Frame : other = <<a>> /\ IsAck(a)
        BY <3>2 DEF OnlyAck, LatestAck
      <4>2. Len(other) = 1 /\ other[1] = a
        BY <4>1
      <4> HIDE DEF other
      <4> QED BY <1>2, <1>5, <4>1, <4>2
    <3> QED BY <3>1, <3>2
  <2> QED BY <1>6, <1>11, <2>1 DEF ShapeInState, OpenStates, Waiting
<1>13. \A k \in 1 .. Len(other) :
        ~IsAck(other[k]) => other[k].seq = last_send_sequence[p]
  <2>1. OnlyMessage(p) \/ AckThenMessage(p) \/ MessageThenAck(p)
    BY <1>11, <1>12 DEF ShapeInState, Waiting
  <2>2. CASE OnlyMessage(p)
    <3>1. PICK x \in Frame : other = <<x>> /\ x.seq = last_send_sequence[p]
      BY <2>2 DEF OnlyMessage, Awaited
    <3>2. Len(other) = 1 /\ other[1] = x
      BY <3>1
    <3> HIDE DEF other
    <3> QED BY <3>1, <3>2
  <2>3. CASE AckThenMessage(p)
    <3>1. PICK a \in Frame, x \in Frame :
            other = <<a, x>> /\ IsAck(a) /\ x.seq = last_send_sequence[p]
      BY <2>3 DEF AckThenMessage, Awaited
    <3>2. Len(other) = 2 /\ other[1] = a /\ other[2] = x
      BY <3>1
    <3> HIDE DEF other
    <3> QED BY <3>1, <3>2
  <2>4. CASE MessageThenAck(p)
    <3>1. PICK a \in Frame, x \in Frame :
            other = <<x, a>> /\ IsAck(a) /\ x.seq = last_send_sequence[p]
      BY <2>4 DEF MessageThenAck, Awaited, LatestAck
    <3>2. Len(other) = 2 /\ other[1] = x /\ other[2] = a
      BY <3>1
    <3> HIDE DEF other
    <3> QED BY <3>1, <3>2
  <2> QED BY <2>1, <2>2, <2>3, <2>4
<1>14. InOrder(p, read[p])
  BY <1>4 DEF SideInv
<1>15. Received(s).payload = Left(p)
  BY <1>2, <1>5, <1>12, <1>14 DEF InOrder
<1>16. Pending(p, read[p])
  <2>1. read[p] + 1 > read[p]
    BY <1>4
  <2> QED BY <1>2, <1>5, <1>12, <2>1 DEF Pending
<1>17. /\ Left(p) \in Nat /\ Left(p) > 0
       /\ delivered[s] = [i \in 1 .. Left(p) - 1 |-> i]
  BY <1>3, <1>14, <1>16 DEF InOrder
<1> QED BY <1>2, <1>5, <1>12, <1>13, <1>15, <1>17

LEMMA ReceiveOtherLink ==
  ASSUME IInv, IInv', LinkRest, NEW s \in Sides, ReceiveOther(s)
  PROVE  LinkRest'
<1> DEFINE p == Peer(s)
           list == unacknowledged_sent_message[s]
           other == unacknowledged_sent_message[p]
           kept == WithoutAcks(list)
           frame == Stamped(s, "ACKNOWLEDGE", Received(s).seq, 0)
<1>1. PICK read \in [Sides -> 0 .. 2] : LinkParts(read)
  BY DEF LinkRest
<1>2. /\ state[s] \in OpenStates /\ PopReceived(s) /\ ~IsAck(Received(s))
      /\ SendMessageNow(s, frame, <<>>, kept)
      /\ delivered' = [delivered EXCEPT ![s] = Append(@, Received(s).payload)]
      /\ UNCHANGED <<state, last_received_sequence_counter,
                     send_message_queue, exception, sent>>
  BY DEF ReceiveOther
<1>3. /\ p \in Sides /\ Peer(p) = s /\ p # s /\ \A t \in Sides : t = s \/ t = p
      /\ list \in Seq(Frame) /\ other \in Seq(Frame)
  BY FlowTypes DEF Sides, Peer
<1>4. /\ SideInv(s, read[s], read[p]) /\ SideInv(p, read[p], read[s])
      /\ read[s] \in 0 .. 2 /\ read[p] \in 0 .. 2 /\ Handshake(read)
  BY <1>1, <1>3 DEF LinkParts
<1>5. /\ read[p] + 1 \in 1 .. Len(other)
      /\ read[p] + 1 \in 0 .. 2
      /\ Received(s) = other[read[p] + 1] /\ Received(s) \in Frame
      /\ Accounted(FirstSequence(p), other, receive_message_queue'[s],
                   last_received_sequence_counter[s], sequence_counter[p],
                   read[p] + 1)
      /\ receive_message_queue'[p] = receive_message_queue[p]
  BY <1>1, <1>2, <1>3, Popped
<1>6. /\ state[p] \in OpenStates \cup {"CLOSED"}
      /\ last_received_sequence_counter[p] # NoSequence
  BY <1>2, <1>4, <1>5, OpenSide
\* What is returned is the message the peer waits for.
<1>7. /\ state[p] \in Waiting
      /\ Received(s).seq = last_send_sequence[p]
      /\ Received(s).payload = Left(p)
  BY <1>1, <1>2, ReturnedMessage
\* So the peer has handled every acknowledge of s.
<1>8. \A k \in 1 .. Len(list) : IsAck(list[k]) => k <= read[s]
  <2> SUFFICES ASSUME NEW k \in 1 .. Len(list), IsAck(list[k]), ~(k <= read[s])
               PROVE  FALSE
    OBVIOUS
  <2>1. k > read[s]
    BY <1>4
  <2>2. PICK j \in 1 .. Len(other) : j <= read[p] /\ ~IsAck(other[j])
    BY <1>4, <2>1 DEF SideInv, Answers
  <2>3. j = read[p] + 1
    BY <1>2, <1>3, <1>5, <2>2, OnlyOne
  <2> QED BY <1>4, <2>2, <2>3
<1>9. PICK m \in 0 .. 2 :
        /\ Dropped(s, kept, read[s], m)
        /\ \A k \in 1 .. Len(list) :
             ~IsAck(list[k]) => kept = <<list[k]>> /\ ((k > read[s]) <=> (1 > m))
        /\ (\A k \in 1 .. Len(list) : IsAck(list[k])) => kept = <<>>
  <2>1. Flow(s, read[s])
    BY <1>4 DEF SideInv
  <2> QED BY <1>2, <1>4, <1>8, <2>1, ForgetAcks
<1>10. /\ frame \in Frame /\ IsAck(frame) /\ frame.seq = sequence_counter[s]
       /\ frame.acknowledged = last_send_sequence[p]
  <2>1. Received(s).seq \in Sequence /\ "ACKNOWLEDGE" \in MessageType
    BY <1>5 DEF Frame, MessageType
  <2>2. frame.acknowledged = Received(s).seq
    BY DEF Stamped
  <2>3. frame \in Frame /\ frame.seq = sequence_counter[s]
          /\ frame.type = "ACKNOWLEDGE"
    BY <2>1, StampedType DEF IInv
  <2> QED BY <1>7, <2>2, <2>3 DEF IsAck
<1> HIDE DEF frame, kept
<1> DEFINE longer == Append(kept, frame)
<1>11. /\ unacknowledged_sent_message'[s] = longer
       /\ unacknowledged_sent_message'[p] = other
       /\ sequence_counter'[p] = sequence_counter[p]
       /\ last_send_sequence' = last_send_sequence
       /\ stream'[s] = stream[s]
  BY <1>2, <1>10, SendEffects
<1>12. /\ kept \in Seq(Frame) /\ Len(kept) \in 0 .. 1
       /\ Len(longer) = Len(kept) + 1 /\ longer[Len(kept) + 1] = frame
       /\ \A k \in 1 .. Len(kept) : longer[k] = kept[k]
  <2>1. kept \in Seq(Frame) /\ Len(kept) \in 0 .. 1
    BY <1>9 DEF Dropped
  <2> QED BY <1>10, <2>1, AppendFacts
<1> HIDE DEF longer
\* The message s waits for, when there is one, is the first of the new list.
<1>13. \A k \in 1 .. Len(longer) : ~IsAck(longer[k]) =>
         /\ k = 1
         /\ \E j \in 1 .. Len(list) :
              longer[1] = list[j] /\ ~IsAck(list[j]) /\ (j > read[s] <=> 1 > m)
  <2> SUFFICES ASSUME NEW k \in 1 .. Len(longer), ~IsAck(longer[k])
               PROVE
         /\ k = 1
         /\ \E j \in 1 .. Len(list) :
              longer[1] = list[j] /\ ~IsAck(list[j]) /\ (j > read[s] <=> 1 > m)
    OBVIOUS
  <2>1. k \in 1 .. Len(kept)
    BY <1>10, <1>12
  <2>2. k = 1 /\ Len(kept) = 1 /\ longer[1] = kept[1]
    BY <1>12, <2>1
  <2>3. PICK j \in 1 .. Len(list) :
          list[j] = kept[1] /\ (j > read[s] <=> 1 > m)
    BY <1>9, <2>2 DEF Dropped
  <2> QED BY <2>2, <2>3
<1>14. \A j \in 1 .. Len(list) : ~IsAck(list[j]) =>
         /\ 1 \in 1 .. Len(longer) /\ longer[1] = list[j]
         /\ j > read[s] <=> 1 > m
  <2> SUFFICES ASSUME NEW j \in 1 .. Len(list), ~IsAck(list[j])
               PROVE  /\ 1 \in 1 .. Len(longer) /\ longer[1] = list[j]
                      /\ j > read[s] <=> 1 > m
    OBVIOUS
  <2>1. kept = <<list[j]>> /\ (j > read[s] <=> 1 > m)
    BY <1>9
  <2>2. Len(kept) = 1 /\ kept[1] = list[j]
    <3> HIDE DEF list
    <3> QED BY <2>1
  <2> QED BY <1>12, <2>1, <2>2
<1> DEFINE next == [t \in Sides |-> IF t = s THEN m ELSE read[p] + 1]
<1>15. next \in [Sides -> 0 .. 2] /\ next[s] = m /\ next[p] = read[p] + 1
  BY <1>3, <1>5
<1> HIDE DEF next
<1>16. Flow(s, m)' /\ Streamed(s)'
  <2>1. Accounted(FirstSequence(s), kept, receive_message_queue[p],
                  last_received_sequence_counter[p], sequence_counter[s], m)
    BY <1>9 DEF Dropped
  <2>2. <<>> \in Seq(Frame) /\ Len(kept) <= 1
    BY <1>12
  <2>3. Flow(s, m)'
    BY <1>2, <1>5, <1>6, <1>10, <1>12, <2>1, <2>2, SendFlow
  <2>4. \A k \in 1 .. Len(list) :
          \/ list[k].seq <= last_received_sequence_counter[p]
          \/ \E h \in 1 .. Len(kept) : kept[h] = list[k]
    BY <1>9 DEF Dropped
  <2>5. Streamed(s)
    BY <1>4 DEF SideInv
  <2>6. Streamed(s)'
    BY <1>2, <1>10, <1>12, <2>2, <2>4, <2>5, SendStreamed
  <2> QED BY <2>3, <2>6
<1>17. Flow(p, read[p] + 1)' /\ Streamed(p)'
  <2>1. Streamed(p)
    BY <1>4 DEF SideInv
  <2>2. Flow(p, read[p] + 1)'
    BY <1>2, <1>3, <1>5, <1>11 DEF Flow
  <2>3. Streamed(p)'
    BY <1>2, <1>3, <1>11, <2>1, StreamedUnchanged
  <2> QED BY <2>2, <2>3
<1>18. Answers(s, m, read[p] + 1)'
  <2> SUFFICES ASSUME NEW k \in 1 .. Len(longer), IsAck(longer[k])
               PROVE
        /\ state[p] \in Waiting \cup {"SERVER_CONNECTION_RESPONSE_SENT"}
        /\ longer[k].acknowledged = last_send_sequence[p]
        /\ \E h \in 1 .. Len(other) : h <= read[p] + 1 /\ ~IsAck(other[h])
    BY <1>2, <1>11 DEF Answers
  <2>1. longer[k] = frame
    <3> SUFFICES ASSUME k \in 1 .. Len(kept) PROVE FALSE
      BY <1>12
    <3>1. Len(kept) = 1 /\ k = 1 /\ IsAck(kept[1])
      BY <1>12
    <3>2. PICK j \in 1 .. Len(list) : list[j] = kept[1]
      BY <1>9, <3>1 DEF Dropped
    <3>3. \A i \in 1 .. Len(list) : IsAck(list[i])
      <4> SUFFICES ASSUME NEW i \in 1 .. Len(list), ~IsAck(list[i])
                   PROVE  FALSE
        OBVIOUS
      <4>1. longer[1] = list[i]
        BY <1>14
      <4> QED BY <1>12, <3>1, <4>1
    <3>4. kept = <<>>
      BY <1>9, <3>3
    <3> QED BY <3>1, <3>4
  <2>2. ~IsAck(other[read[p] + 1])
    BY <1>2, <1>5
  <2>3. read[p] + 1 <= read[p] + 1
    BY <1>5
  <2> QED BY <1>5, <1>7, <1>10, <2>1, <2>2, <2>3
<1>19. Answers(p, read[p] + 1, m)'
  <2> SUFFICES ASSUME NEW k \in 1 .. Len(other), IsAck(other[k]),
                      k > read[p] + 1
               PROVE
        /\ state[s] \in Waiting \cup {"SERVER_CONNECTION_RESPONSE_SENT"}
        /\ other[k].acknowledged = last_send_sequence[s]
        /\ \E h \in 1 .. Len(longer) : h <= m /\ ~IsAck(longer[h])
    BY <1>2, <1>3, <1>11 DEF Answers
  <2>1. k > read[p]
    BY <1>4
  <2>2. /\ state[s] \in Waiting \cup {"SERVER_CONNECTION_RESPONSE_SENT"}
        /\ other[k].acknowledged = last_send_sequence[s]
        /\ \E j \in 1 .. Len(list) : j <= read[s] /\ ~IsAck(list[j])
    BY <1>3, <1>4, <2>1 DEF SideInv, Answers
  <2>3. PICK j \in 1 .. Len(list) : j <= read[s] /\ ~IsAck(list[j])
    BY <2>2
  <2>4. /\ 1 \in 1 .. Len(longer) /\ longer[1] = list[j]
        /\ j > read[s] <=> 1 > m
    BY <1>14, <2>3
  <2>5. 1 <= m
    BY <1>4, <2>3, <2>4
  <2> QED BY <2>2, <2>3, <2>4, <2>5
<1>20. InOrder(s, m)'
  <2>1. InOrder(s, read[s])
    BY <1>4 DEF SideInv
  <2>2. Pending(s, m)' <=> Pending(s, read[s])
    <3>1. Pending(s, read[s]) => Pending(s, m)'
      BY <1>2, <1>11, <1>14 DEF Pending
    <3>2. Pending(s, m)' => Pending(s, read[s])
      <4> SUFFICES ASSUME NEW k \in 1 .. Len(longer), k > m, ~IsAck(longer[k]),
                          state[s] \in Waiting
                   PROVE  Pending(s, read[s])
        BY <1>2, <1>11 DEF Pending
      <4>1. PICK j \in 1 .. Len(list) :
              ~IsAck(list[j]) /\ (j > read[s] <=> 1 > m)
        BY <1>13
      <4>2. k = 1
        BY <1>13
      <4> QED BY <4>1, <4>2 DEF Pending
    <3> QED BY <3>1, <3>2
  <2>3. state'[s] \in Waiting =>
          \A k \in 1 .. Len(unacknowledged_sent_message'[s]) :
            ~IsAck(unacknowledged_sent_message'[s][k]) =>
              unacknowledged_sent_message'[s][k].payload = Left(s)
    <3> SUFFICES ASSUME state[s] \in Waiting, NEW k \in 1 .. Len(longer),
                        ~IsAck(longer[k])
                 PROVE  longer[k].payload = Left(s)
      BY <1>2, <1>11
    <3>1. PICK j \in 1 .. Len(list) : longer[1] = list[j] /\ ~IsAck(list[j])
      BY <1>13
    <3>2. k = 1
      BY <1>13
    <3> QED BY <2>1, <3>1, <3>2 DEF InOrder
  <2>4. delivered'[p] = delivered[p]
    BY <1>2, <1>3 DEF IInv, TypeOK
  <2> QED BY <1>2, <1>4, <2>1, <2>2, <2>3, <2>4, InOrderKept
<1>21. InOrder(p, read[p] + 1)'
  <2>1. InOrder(p, read[p])
    BY <1>4 DEF SideInv
  <2>3. /\ Left(p) \in Nat /\ Left(p) > 0
        /\ delivered[s] = [i \in 1 .. Left(p) - 1 |-> i]
    BY <1>1, <1>2, ReturnedMessage
  <2>4. ~Pending(p, read[p] + 1)'
    <3> SUFFICES ASSUME NEW k \in 1 .. Len(other), k > read[p] + 1,
                        ~IsAck(other[k])
                 PROVE  FALSE
      BY <1>11 DEF Pending
    <3>1. k = read[p] + 1
      BY <1>2, <1>3, <1>5, OnlyOne
    <3> QED BY <1>4, <3>1
  <2>5. delivered'[s] = [i \in 1 .. Left(p) |-> i]
    <3>1. delivered'[s] = Append(delivered[s], Left(p))
      BY <1>2, <1>7 DEF IInv, TypeOK
    <3> DEFINE before == [i \in 1 .. Left(p) - 1 |-> i]
               after == [i \in 1 .. Left(p) |-> i]
    <3>2. before \in Seq(Nat) /\ Len(before) = Left(p) - 1
      BY <2>3
    <3>3. after \in Seq(Nat) /\ Len(after) = Left(p)
      BY <2>3
    <3>4. /\ Append(before, Left(p)) \in Seq(Nat)
          /\ Len(Append(before, Left(p))) = Left(p)
          /\ \A i \in 1 .. Left(p) - 1 : Append(before, Left(p))[i] = before[i]
          /\ Append(before, Left(p))[Left(p)] = Left(p)
      <4> HIDE DEF before
      <4>1. (Left(p) - 1) + 1 = Left(p)
        BY <2>3
      <4> QED BY <2>3, <3>2, <4>1, AppendFacts
    <3>5. \A i \in 1 .. Left(p) : Append(before, Left(p))[i] = after[i]
      <4> SUFFICES ASSUME NEW i \in 1 .. Left(p)
                   PROVE  Append(before, Left(p))[i] = i
        OBVIOUS
      <4>1. CASE i = Left(p)
        <5> HIDE DEF before
        <5> QED BY <3>4, <4>1
      <4>2. CASE i # Left(p)
        <5>1. i \in 1 .. Left(p) - 1
          BY <2>3, <4>2
        <5>2. before[i] = i
          BY <5>1
        <5> HIDE DEF before
        <5> QED BY <3>4, <5>1, <5>2
      <4> QED BY <4>1, <4>2
    <3>6. Append(before, Left(p)) = after
      <4> HIDE DEF before, after
      <4> QED BY <3>3, <3>4, <3>5, SeqEqual
    <3> QED BY <2>3, <3>1, <3>6
  <2>6. Left(p)' = Left(p)
    BY <1>2 DEF Left
  <2>7. /\ send_message_queue' = send_message_queue /\ state' = state
        /\ unacknowledged_sent_message'[p] = unacknowledged_sent_message[p]
    BY <1>2, <1>11
  <2> QED BY <1>3, <2>1, <2>3, <2>4, <2>5, <2>6, <2>7 DEF InOrder
<1>22. Handshake(next)'
  BY <1>2, <1>4, <1>6, <1>15, EstablishedHandshake
<1>23. NoProtocolException'
  BY <1>2 DEF LinkRest, NoProtocolException
<1>24. SideInv(s, next[s], next[p])' /\ SideInv(p, next[p], next[s])'
  BY <1>15, <1>16, <1>17, <1>18, <1>19, <1>20, <1>21 DEF SideInv
<1> QED BY <1>15, <1>22, <1>23, <1>24, Conclude

-----------------------------------------------------------------------------
(* The theorems. *)

LEMMA InitLink == Init => IInv /\ LinkRest
<1> SUFFICES ASSUME Init PROVE IInv /\ LinkRest
  OBVIOUS
<1>1. IInv
  BY InitIInv
<1> DEFINE read == [s \in Sides |-> 0]
<1>2. /\ read \in [Sides -> 0 .. 2] /\ \A s \in Sides : read[s] = 0
      /\ \A s \in Sides : Peer(s) \in Sides
  BY PeerType
<1> HIDE DEF read
<1>3. ASSUME NEW s \in Sides PROVE SideInv(s, 0, 0)
  <2>1. /\ unacknowledged_sent_message[s] = <<>>
        /\ receive_message_queue[Peer(s)] = <<>>
        /\ send_message_queue[s] = <<>> /\ stream[Peer(s)] = <<>>
        /\ last_received_sequence_counter[Peer(s)] = NoSequence
        /\ sequence_counter[s] = FirstSequence(s)
        /\ sent[s] = 0 /\ delivered[Peer(s)] = <<>>
        /\ state[s] \notin Waiting
    BY <1>2 DEF Init, FirstSequence, Waiting, Sides
  <2>2. Len(<<>>) = 0
    OBVIOUS
  <2>3. Flow(s, 0)
    BY <2>1, <2>2 DEF Flow, Accounted, Following
  <2>4. Streamed(s) /\ Answers(s, 0, 0)
    BY <2>1, <2>2 DEF Streamed, Answers
  <2>5. InOrder(s, 0)
    <3>1. ~Pending(s, 0)
      BY <2>1 DEF Pending
    <3>3. Left(s) = 0
      <4>1. sent[s] = 0 /\ Len(send_message_queue[s]) = 0
        BY <2>1, <2>2
      <4> QED BY <4>1 DEF Left
    <3>2. [i \in 1 .. 0 |-> i] = <<>>
      OBVIOUS
    <3> QED BY <2>1, <2>2, <3>1, <3>2, <3>3 DEF InOrder
  <2> QED BY <2>3, <2>4, <2>5 DEF SideInv
<1>4. Handshake(read)
  BY <1>2 DEF Init, Handshake, Sides, OpenStates
<1>5. NoProtocolException
  BY DEF Init, NoProtocolException
<1>6. LinkParts(read)
  BY <1>2, <1>3, <1>4 DEF LinkParts
<1> QED BY <1>1, <1>2, <1>5, <1>6 DEF LinkRest

LEMMA NextLink == LinkInv /\ [Next]_vars => LinkInv'
<1> SUFFICES ASSUME IInv, LinkRest, [Next]_vars PROVE IInv' /\ LinkRest'
  BY DEF LinkInv, LinkRest
<1> IInv'
  BY NextIInv
<1>1. ASSUME NEW s \in Sides, ClientSendsRequest(s) PROVE LinkRest'
  BY <1>1, ClientSendsRequestLink
<1>2. ASSUME NEW s \in Sides,
             HandshakeResend(s) \/ HandshakeTimeout(s) \/ DamageFrame(s)
      PROVE  LinkRest'
  BY <1>2, StreamMoves
<1>3. ASSUME NEW s \in Sides, NEW elapsed \in BOOLEAN, Handle(s, elapsed)
      PROVE  LinkRest'
  BY <1>3, HandleLink
<1>4. ASSUME NEW s \in Sides, NEW type \in Kinds, NEW elapsed \in BOOLEAN,
             SendMessage(s, type, elapsed)
      PROVE  LinkRest'
  BY <1>4, SendMessageLink
<1>5. ASSUME NEW s \in Sides, TryReceive(s) PROVE LinkRest'
  BY <1>5, StreamMoves, FrameReceived DEF TryReceive
<1>6. ASSUME NEW s \in Sides, Return(s) PROVE LinkRest'
  BY <1>6, StreamMoves, ClientReceivesResponseLink, ServerReceivesRequestLink,
     ServerReceivesAcknowledgeLink, ReceiveAcknowledgeLink, ReceiveOtherLink
     DEF Return
<1>7. CASE UNCHANGED vars
  <2>1. PICK read \in [Sides -> 0 .. 2] : LinkParts(read)
    BY DEF LinkRest
  <2>2. ASSUME NEW t \in Sides
        PROVE  Flow(t, read[t])' /\ Streamed(t)' /\ InOrder(t, read[t])'
    <3>1. SideInv(t, read[t], read[Peer(t)]) /\ read[t] \in 0 .. 2
      BY <2>1 DEF LinkParts
    <3> QED BY <1>7, <3>1, FlowUnchanged, StreamedUnchanged, InOrderUnchanged
            DEF SideInv, vars
  <2>3. LinkParts(read)'
    BY <1>7, <2>1, <2>2, PartsUnchanged DEF vars
  <2>4. NoProtocolException'
    BY <1>7 DEF LinkRest, NoProtocolException, vars
  <2> QED BY <2>3, <2>4 DEF LinkRest
<1> QED BY <1>1, <1>2, <1>3, <1>4, <1>5, <1>6, <1>7 DEF Next

LEMMA LinkInvariant == Spec => []LinkInv
<1>1. Init => LinkInv
  BY InitLink DEF LinkInv, LinkRest
<1> QED BY <1>1, NextLink, PTL DEF Spec

\* However frames are damaged, dropped or repeated, neither connection ever
\* throws ConnectionCreationFailed or BadAcknowledgeException because of what
\* the other one sent, for every sequence the two start with and across the
\* wrap of sequence_t.
THEOREM NoProtocolError == Spec => []NoProtocolException
<1>1. LinkInv => NoProtocolException
  BY DEF LinkInv, LinkRest
<1> QED BY <1>1, LinkInvariant, PTL

\* The server is established only when the client is, and the client only
\* when the server has answered.
THEOREM SidesAgree == Spec => []HandshakeAgreement
<1>1. LinkInv => HandshakeAgreement
  <2> SUFFICES ASSUME LinkInv PROVE HandshakeAgreement
    OBVIOUS
  <2>1. PICK read \in [Sides -> 0 .. 2] : LinkParts(read)
    BY DEF LinkInv, LinkRest
  <2>2. state["client"] \in ConnectionState
    BY FlowTypes DEF LinkInv, LinkRest, Sides
  <2> QED BY <2>1, <2>2
          DEF LinkParts, Handshake, HandshakeAgreement, OpenStates,
              ConnectionState
<1> QED BY <1>1, LinkInvariant, PTL

\* The queue of accepted frames never holds more than a message and an
\* acknowledge, however often the frames are resent.
THEOREM QueueBounded == Spec => []ReceiveQueueBounded
<1>1. LinkInv => ReceiveQueueBounded
  <2> SUFFICES ASSUME LinkInv, NEW s \in Sides
               PROVE  Len(receive_message_queue[s]) <= 2
    BY DEF ReceiveQueueBounded
  <2>1. PICK read \in [Sides -> 0 .. 2] : LinkParts(read)
    BY DEF LinkInv, LinkRest
  <2>2. /\ Peer(s) \in Sides /\ Peer(Peer(s)) = s
        /\ receive_message_queue[s] \in Seq(Frame)
        /\ Len(unacknowledged_sent_message[Peer(s)]) \in 0 .. 2
    BY FlowTypes DEF LinkInv, LinkRest
  <2>3. Flow(Peer(s), read[Peer(s)]) /\ read[Peer(s)] \in 0 .. 2
    BY <2>1, <2>2 DEF LinkParts, SideInv
  <2> QED BY <2>2, <2>3 DEF Flow, Accounted
<1> QED BY <1>1, LinkInvariant, PTL

LEMMA LinkDelivers == LinkInv => ReadyMeansDelivered
<1> SUFFICES ASSUME LinkInv, NEW s \in Sides, state[s] \in {"READY", "CLOSED"}
             PROVE  delivered[Peer(s)] =
                      [n \in 1 .. sent[s] - Len(send_message_queue[s]) |-> n]
  BY DEF ReadyMeansDelivered
<1>1. PICK read \in [Sides -> 0 .. 2] : LinkParts(read)
  BY DEF LinkInv, LinkRest
<1>2. InOrder(s, read[s]) /\ ~Pending(s, read[s])
  BY <1>1 DEF LinkParts, SideInv, Pending, Waiting
<1> QED BY <1>2 DEF InOrder, Left

\* A connection that is READY or CLOSED has had everything that left its send
\* queue returned to the other side's owner, each message once and in order.
THEOREM DeliveredWhenReady == Spec => []ReadyMeansDelivered
  BY LinkDelivers, LinkInvariant, PTL

\* A sequence given out so far belongs to a frame the peer has accepted or to
\* one on the list.
LEMMA AccountedLost ==
  ASSUME NEW list \in Seq(Frame), NEW queue \in Seq(Frame),
         NEW first \in Sequence, NEW last \in Sequence \cup {NoSequence},
         NEW counter \in Sequence, NEW n \in 0 .. 2,
         Accounted(first, list, queue, last, counter, n),
         NEW seq \in first .. counter - 1
  PROVE  \/ seq <= last
         \/ \E i \in 1 .. Len(list) : list[i].seq = seq
<1> DEFINE got == n + Len(queue)
<1>1. /\ got \in Nat /\ Len(list) \in Nat /\ got <= Len(list) /\ Len(list) <= 2
  <2>1. Len(queue) \in Nat /\ Len(list) \in Nat
    OBVIOUS
  <2> QED BY <2>1 DEF Accounted
<1>2. /\ \A x \in Sequence : x \in Nat /\ x < SequenceModulus
      /\ NoSequence = -1 /\ SequenceModulus \in Nat /\ SequenceModulus > 1
      /\ seq \in Nat /\ first <= seq /\ seq < counter
  BY SequenceAssumption DEF Sequence, NoSequence
<1>3. \A k \in 1 .. Len(list) : list[k].seq \in Sequence
  <2>1. \A k \in 1 .. Len(list) : list[k] \in Frame
    OBVIOUS
  <2>2. \A f \in Frame : f.seq \in Sequence
    BY DEF Frame
  <2> QED BY <2>1, <2>2
<1>4. \A x, y \in Sequence : x = NextSequence(y) =>
        x = 0 \/ (x = y + 1 /\ y + 1 < SequenceModulus)
  BY <1>2 DEF NextSequence
<1>5. \A y \in Sequence : NextSequence(y) \in Sequence
  BY NextSequenceType
<1>6. Following(first, last) \in Sequence
  BY <1>5 DEF Following
\* Below the sequence that follows, everything has been accepted, or nothing
\* has been sent.
<1>7. seq < Following(first, last) => seq <= last
  <2>1. CASE last = NoSequence
    BY <1>2, <2>1 DEF Following
  <2>2. CASE last # NoSequence
    <3>1. last \in Sequence /\ Following(first, last) = NextSequence(last)
      BY <2>2 DEF Following
    <3>2. Following(first, last) = 0 \/ Following(first, last) = last + 1
      BY <1>4, <1>6, <3>1
    <3>3. last \in Nat
      BY <1>2, <3>1
    <3> QED BY <1>2, <3>2, <3>3
  <2> QED BY <2>1, <2>2
<1>8. CASE got = Len(list)
  <2>1. counter = Following(first, last)
    BY <1>8 DEF Accounted
  <2> QED BY <1>2, <1>7, <2>1
<1>9. CASE got + 1 = Len(list)
  <2>1. /\ list[Len(list)].seq = Following(first, last)
        /\ counter = NextSequence(list[Len(list)].seq)
        /\ Len(list) \in 1 .. Len(list)
    BY <1>1, <1>9 DEF Accounted
  <2>2. counter = 0 \/ counter = list[Len(list)].seq + 1
    BY <1>3, <1>4, <2>1
  <2>3. list[Len(list)].seq \in Nat
    BY <1>2, <1>3, <2>1
  <2>4. seq < list[Len(list)].seq \/ seq = list[Len(list)].seq
    BY <1>2, <2>2, <2>3
  <2> QED BY <1>7, <2>1, <2>4
<1>10. CASE got + 2 = Len(list)
  <2>1. got = 0 /\ Len(list) = 2
    BY <1>1, <1>10
  <2>2. /\ list[1].seq = Following(first, last)
        /\ list[2].seq = NextSequence(list[1].seq)
        /\ counter = NextSequence(list[2].seq)
    BY <2>1 DEF Accounted
  <2>3. list[1].seq \in Sequence /\ list[2].seq \in Sequence
    BY <1>3, <2>1
  <2>4. /\ counter = 0 \/ counter = list[2].seq + 1
        /\ list[2].seq = 0 \/ list[2].seq = list[1].seq + 1
    BY <1>4, <2>2, <2>3
  <2>5. list[1].seq \in Nat /\ list[2].seq \in Nat
    BY <1>2, <2>3
  <2>6. seq = list[2].seq \/ seq = list[1].seq \/ seq < list[1].seq
    <3>1. \A a, b, c, x \in Nat :
            /\ x < c /\ (c = 0 \/ c = b + 1) /\ (b = 0 \/ b = a + 1)
            => x = b \/ x = a \/ x < a
      OBVIOUS
    <3>2. counter \in Nat /\ seq \in Nat /\ seq < counter
      BY <1>2
    <3> QED BY <2>4, <2>5, <3>1, <3>2
  <2> QED BY <1>7, <2>1, <2>2, <2>6
<1> HIDE DEF got
<1>11. got = Len(list) \/ got + 1 = Len(list) \/ got + 2 = Len(list)
  BY <1>1
<1> QED BY <1>8, <1>9, <1>10, <1>11 DEF got

\* Nothing a side has sent and the other has not accepted is ever dropped from
\* the list of frames that are resent.
THEOREM NothingIsLost == Spec => []NothingLost
<1>1. LinkInv => NothingLost
  <2> SUFFICES ASSUME LinkInv, NEW s \in Sides,
                      NEW seq \in FirstSequence(s) .. sequence_counter[s] - 1
               PROVE
        \/ seq <= last_received_sequence_counter[Peer(s)]
        \/ \E i \in 1 .. Len(unacknowledged_sent_message[s]) :
             unacknowledged_sent_message[s][i].seq = seq
    BY DEF NothingLost
  <2>1. PICK read \in [Sides -> 0 .. 2] : LinkParts(read)
    BY DEF LinkInv, LinkRest
  <2>2. Flow(s, read[s]) /\ read[s] \in 0 .. 2
    BY <2>1 DEF LinkParts, SideInv
  <2>3. IInv /\ Peer(s) \in Sides
    BY FlowTypes DEF LinkInv, LinkRest
  <2>4. /\ unacknowledged_sent_message[s] \in Seq(Frame)
        /\ receive_message_queue[Peer(s)] \in Seq(Frame)
        /\ FirstSequence(s) \in Sequence
        /\ sequence_counter[s] \in Sequence
        /\ last_received_sequence_counter[Peer(s)]
             \in Sequence \cup {NoSequence}
    BY <2>3, FlowTypes
  <2>5. Accounted(FirstSequence(s), unacknowledged_sent_message[s],
                  receive_message_queue[Peer(s)],
                  last_received_sequence_counter[Peer(s)],
                  sequence_counter[s], read[s])
    BY <2>2 DEF Flow
  <2> DEFINE list == unacknowledged_sent_message[s]
             queue == receive_message_queue[Peer(s)]
             last == last_received_sequence_counter[Peer(s)]
             first == FirstSequence(s)
             counter == sequence_counter[s]
             n == read[s]
  <2>6. /\ list \in Seq(Frame) /\ queue \in Seq(Frame) /\ first \in Sequence
        /\ counter \in Sequence /\ last \in Sequence \cup {NoSequence}
        /\ n \in 0 .. 2 /\ Accounted(first, list, queue, last, counter, n)
        /\ seq \in first .. counter - 1
    BY <2>2, <2>4, <2>5
  <2>7. seq <= last \/ \E i \in 1 .. Len(list) : list[i].seq = seq
    <3> HIDE DEF list, queue, last, first, counter, n
    <3> QED BY <2>6, AccountedLost
  <2> QED BY <2>7
<1> QED BY <1>1, LinkInvariant, PTL

-----------------------------------------------------------------------------
(* A connection implements a reliable link. *)

Unmoved == UNCHANGED <<Established, sent, delivered>>

LEMMA LinkStep ==
  ASSUME LinkInv, [Next]_vars
  PROVE  [Link!Next]_<<Established, sent, delivered>>
<1> IInv
  BY DEF LinkInv, LinkRest
<1>1. PICK read \in [Sides -> 0 .. 2] : LinkParts(read)
  BY DEF LinkInv, LinkRest
<1>2. \A s \in Sides : Peer(s) \in Sides /\ Peer(s) # s
  BY FlowTypes
<1>3. ASSUME NEW s \in Sides,
             \/ ClientSendsRequest(s) \/ ServerReceivesRequest(s)
             \/ ReceiveAcknowledge(s) \/ HandshakeResend(s)
             \/ HandshakeTimeout(s) \/ TryReceive(s) \/ ReceiveNothing(s)
             \/ DamageFrame(s)
      PROVE  Unmoved
  <2>1. sent' = sent /\ delivered' = delivered
    BY <1>3 DEF ClientSendsRequest, ServerReceivesRequest, ReceiveAcknowledge,
                HandshakeResend, HandshakeTimeout, TryReceive,
                TryReceiveDamaged, TryReceiveNack, TryReceiveMessage,
                ReceiveNothing, DamageFrame, Throw
  <2>2. \A t \in Sides : state'[t] \in OpenStates \cup {"CLOSED"}
                           <=> state[t] \in OpenStates \cup {"CLOSED"}
    <3>1. CASE ClientSendsRequest(s)
      BY <3>1 DEF ClientSendsRequest, IInv, TypeOK, OpenStates
    <3>2. CASE ServerReceivesRequest(s)
      BY <3>2 DEF ServerReceivesRequest, Throw, IInv, TypeOK, OpenStates
    <3>3. CASE ReceiveAcknowledge(s)
      BY <3>3 DEF ReceiveAcknowledge, Throw, IInv, TypeOK, OpenStates
    <3>4. CASE state' = state
      BY <3>4
    <3> QED BY <1>3, <3>1, <3>2, <3>3, <3>4
            DEF HandshakeResend, HandshakeTimeout, TryReceive,
                TryReceiveDamaged, TryReceiveNack, TryReceiveMessage,
                ReceiveNothing, DamageFrame
  <2>3. Established' = Established
    BY <2>2 DEF Established
  <2> QED BY <2>1, <2>3 DEF Unmoved
<1>4. ASSUME NEW s \in Sides, ClientReceivesResponse(s)
      PROVE  Unmoved \/ Link!Open(s)
  <2>1. CASE state' = state
    BY <1>4, <2>1 DEF Unmoved, Established, ClientReceivesResponse, Throw
  <2>2. CASE state' = [state EXCEPT ![s] = "READY"] /\ delivered' = delivered
    <3>1. /\ s \notin Established /\ Established' = Established \cup {s}
          /\ UNCHANGED <<sent, delivered>>
      BY <1>4, <2>2
         DEF Established, ClientReceivesResponse, IInv, TypeOK, OpenStates
    <3> QED BY <3>1 DEF Link!Open
  <2> QED BY <1>4, <2>1, <2>2 DEF ClientReceivesResponse, Throw
<1>5. ASSUME NEW s \in Sides, ServerReceivesAcknowledge(s)
      PROVE  Unmoved \/ Link!Open(s)
  <2>1. CASE state' = state
    BY <1>5, <2>1 DEF Unmoved, Established, ServerReceivesAcknowledge, Throw
  <2>2. CASE state' = [state EXCEPT ![s] = "READY"] /\ delivered' = delivered
    <3>1. /\ s \notin Established /\ Established' = Established \cup {s}
          /\ UNCHANGED <<sent, delivered>>
      BY <1>5, <2>2
         DEF Established, ServerReceivesAcknowledge, IInv, TypeOK, OpenStates
    <3> QED BY <3>1 DEF Link!Open
  <2> QED BY <1>5, <2>1, <2>2 DEF ServerReceivesAcknowledge, Throw
<1>6. ASSUME NEW s \in Sides, NEW queue, NEW elapsed \in BOOLEAN,
             HandleQueue(s, queue, elapsed)
      PROVE  Established' = Established /\ delivered' = delivered
  <2>1. delivered' = delivered
    BY <1>6 DEF HandleQueue
  <2>2. \/ state' = state
        \/ /\ state[s] = "READY"
           /\ state' = [state EXCEPT ![s] = AwaitingState(Head(queue).type)]
    BY <1>6 DEF HandleQueue, MaySendNext
  <2>3. Established' = Established
    BY <2>2 DEF Established, AwaitingState, IInv, TypeOK, OpenStates
  <2> QED BY <2>1, <2>3
<1>7. ASSUME NEW s \in Sides, NEW elapsed \in BOOLEAN, Handle(s, elapsed)
      PROVE  Unmoved
  BY <1>6, <1>7 DEF Handle, Unmoved
<1>8. ASSUME NEW s \in Sides, NEW type \in Kinds, NEW elapsed \in BOOLEAN,
             SendMessage(s, type, elapsed)
      PROVE  Link!Send(s)
  <2>1. s \in Established /\ sent' = [sent EXCEPT ![s] = @ + 1]
    BY <1>8 DEF SendMessage, Established, OpenStates
  <2>2. Established' = Established /\ delivered' = delivered
    BY <1>6, <1>8 DEF SendMessage
  <2> QED BY <2>1, <2>2 DEF Link!Send
<1>9. ASSUME NEW s \in Sides, ReceiveOther(s) PROVE Link!Deliver(s)
  <2>1. /\ state[s] \in OpenStates /\ PopReceived(s) /\ ~IsAck(Received(s))
        /\ delivered' = [delivered EXCEPT ![s] = Append(@, Received(s).payload)]
        /\ UNCHANGED <<state, sent>>
    BY <1>9 DEF ReceiveOther
  <2>2. /\ state[Peer(s)] \in Waiting
        /\ Received(s).payload = Left(Peer(s))
        /\ Left(Peer(s)) \in Nat /\ Left(Peer(s)) > 0
        /\ delivered[s] = [i \in 1 .. Left(Peer(s)) - 1 |-> i]
    BY <1>1, <2>1, ReturnedMessage
  <2>3. Established = Sides /\ Established' = Established
    <3>1. \A t \in Sides : t = s \/ t = Peer(s)
      BY DEF Sides, Peer
    <3> QED BY <2>1, <2>2, <3>1 DEF Established, Waiting, OpenStates
  <2>4. Len(delivered[s]) = Left(Peer(s)) - 1
    BY <2>2
  <2>5. Len(delivered[s]) < sent[Peer(s)]
    <3>1. /\ sent[Peer(s)] \in Nat
          /\ Len(send_message_queue[Peer(s)]) \in Nat
      <4>1. /\ sent[Peer(s)] \in Nat
            /\ send_message_queue[Peer(s)] \in Seq(Queued)
        BY <1>2, FlowTypes
      <4> QED BY <4>1
    <3> QED BY <2>2, <2>4, <3>1 DEF Left
  <2>6. Received(s).payload = Len(delivered[s]) + 1
    BY <2>2, <2>4
  <2>7. delivered' = [delivered EXCEPT ![s] = Append(@, Len(@) + 1)]
    BY <2>1, <2>6
  <2> QED BY <2>1, <2>3, <2>5, <2>7 DEF Link!Deliver
<1>10. CASE UNCHANGED vars
  BY <1>10 DEF vars, Established
<1> QED
  <2>1. ASSUME NEW s \in Sides, Return(s)
        PROVE  Unmoved \/ Link!Open(s) \/ Link!Deliver(s)
    BY <1>3, <1>4, <1>5, <1>9, <2>1 DEF Return
  <2>2. CASE Next
    <3>1. Unmoved \/ \E s \in Sides : Link!Open(s) \/ Link!Send(s)
                                        \/ Link!Deliver(s)
      BY <1>3, <1>7, <1>8, <2>1, <2>2 DEF Next
    <3> QED BY <3>1 DEF Link!Next, Unmoved
  <2> QED BY <1>10, <2>2

\* The connection layer is a reliable link: over streams that damage frames,
\* every message is returned once and in order, and only between ends that
\* both are established.
THEOREM ConnectionIsReliableLink == Spec => ImplementsLink
<1>1. Init => Link!Init
  BY DEF Init, Link!Init, Established, Sides, OpenStates
<1>2. LinkInv /\ [Next]_vars => [Link!Next]_<<Established, sent, delivered>>
  BY LinkStep
<1>3. LinkInv /\ [Next]_vars => [Link!Next]_(Link!linkVars)
  BY <1>2 DEF Link!linkVars
<1> QED BY <1>1, <1>3, LinkInvariant, PTL DEF Spec, ImplementsLink, Link!Spec
=============================================================================
