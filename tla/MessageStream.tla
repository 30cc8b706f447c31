--------------------------- MODULE MessageStream ---------------------------
(***************************************************************************)
(* One direction of a link below the connection: MessageOutputStream and   *)
(* MessageCoder::Encode, the outgoing ConnectionSimulatorFlaky and the     *)
(* socket, MessageInputStream and MessageCoder::Decode.  This is what      *)
(* Connection relies on when it says that a frame arrives as it was sent   *)
(* or as an InvalidMessageException.                                       *)
(*                                                                         *)
(* The decoder takes one byte per step, since bytes arrive between any two *)
(* of its reads and a read that finds nothing goes on with a zero.         *)
(*                                                                         *)
(* The checksum is ideal: its four bytes are one element of the stream     *)
(* that knows the bytes it covers, so a CRC-32 that fits other bytes by    *)
(* chance (2^-32) does not happen.  Read as a plain byte it is ordinary.   *)
(***************************************************************************)
EXTENDS Integers, SequencesExt

CONSTANTS
  ByteModulus,       \* 256
  Flag, Escape, EndMarker,  \* 0x86, 0x87, 0x88
  SequenceLength,    \* sizeof(sequence_t), 2
  LengthLength,      \* sizeof(payload_length_t), 2
  ErrorOffsets,      \* what an error adds to a byte: 15 in the simulator
  FirstErrors,       \* first_error, -1 for a line without errors
  ErrorIntervals, ErrorLengths,
  Payloads,          \* the payloads of messages, without those of 2^16 bytes
  FirstSequence,     \* the sequence of the first message
  SocketCapacity,    \* bytes the socket holds for a receiver that is busy
  MaxReceive,        \* bytes one recv returns at most: 1024
  MaxFrames,         \* bound: messages sent
  MaxShortReads      \* bound: reads within a frame whose rest is on its way

ASSUME ByteAssumption ==
  /\ ByteModulus \in Nat
  /\ {Flag, Escape, EndMarker} \subseteq 7 .. ByteModulus - 1
  /\ Flag # Escape /\ Flag # EndMarker /\ Escape # EndMarker
  /\ SequenceLength \in Nat \ {0} /\ LengthLength \in Nat \ {0}

\* What a field of w bytes can hold is less than this.
Power[w \in Nat] == IF w = 0 THEN 1 ELSE ByteModulus * Power[w - 1]

\* A sequence and the length of a payload fit their fields: payloads of 2^16
\* bytes are left out, and the sequences do not wrap within MaxFrames.
ASSUME MessageAssumption ==
  /\ FirstSequence \in Nat
  /\ FirstSequence + MaxFrames <= Power[SequenceLength]
  /\ \A p \in Payloads : /\ p \in Seq(0 .. ByteModulus - 1)
                         /\ Len(p) < Power[LengthLength]

ASSUME LineAssumption ==
  /\ SocketCapacity \in Nat /\ MaxReceive \in Nat \ {0} /\ MaxFrames \in Nat
  /\ MaxShortReads \in Nat
  /\ FirstErrors \subseteq Nat \cup {-1}
  /\ ErrorIntervals \subseteq (Nat \ {0}) \cup {-1}
  /\ ErrorLengths \subseteq Nat \ {0} /\ ErrorOffsets \subseteq Nat

VARIABLES
  parameters,     \* of the simulator
  next_error, current_error_length,
  wire,           \* what the socket holds, oldest first
  receive_deque,  \* what ReadToDeque has fetched
  decoder,        \* how far ReceiveMessage is
  sent, returned, \* messages
  reports,        \* exceptions thrown over the bytes of each frame
  hits,           \* bytes of each frame damaged or not yet there, up to 2
  cut,            \* frames whose end the socket did not take
  shortReads      \* counted for the bound

streamVars == <<parameters, next_error, current_error_length, wire,
                receive_deque, decoder, sent, returned, reports, hits, cut,
                shortReads>>

-----------------------------------------------------------------------------
(* Messages and bytes. *)

PAYLOAD == 2
ACKNOWLEDGE == 3
HIGHEST_ELEMENT == 6   \* CONNECTION_RESET

\* 5 stands for the five types without a body.
Messages(seq) ==
       { [type |-> 5, sequence |-> seq, body |-> <<>>] }
  \cup { [type |-> ACKNOWLEDGE, sequence |-> seq, body |-> <<Flag>>] }
  \cup { [type |-> PAYLOAD, sequence |-> seq, body |-> p] : p \in Payloads }

LeastOf(a, b) == IF a < b THEN a ELSE b

\* Bytes of a number, most significant first.
BigEndian(n, width) ==
  [i \in 1 .. width |-> (n \div Power[width - i]) % ByteModulus]

\* Mutant: the flag is not escaped.
WriteOnlyEscape(out, b) ==
  out \o IF b = Escape THEN <<Escape, b>> ELSE <<b>>

\* The bytes written so far and the next.
WriteEscaped(out, b) ==
  out \o IF b \in {Escape, Flag} THEN <<Escape, b>> ELSE <<b>>

Escaped(bytes) == FoldLeft(WriteEscaped, <<>>, bytes)

\* What the checksum covers: all between the flags.
Covered(m) ==
  <<m.type>> \o Escaped(BigEndian(m.sequence, SequenceLength)
    \o CASE m.type = ACKNOWLEDGE -> BigEndian(m.body[1], SequenceLength)
         [] m.type = PAYLOAD -> BigEndian(Len(m.body), LengthLength) \o m.body
         [] OTHER -> <<>>)

\* The elements of frame k, each with its place in it.  One that is no
\* checksum has crc <<>>.
Encode(m, k) ==
  LET covered == Covered(m)
      bytes == <<Flag>> \o covered \o <<FoldLeft(+, 0, covered) % 7, Flag, EndMarker>>
  IN [i \in DOMAIN bytes |->
        [byte |-> bytes[i], frame |-> k, place |-> i,
         crc |-> IF i = Len(covered) + 2 THEN covered ELSE <<>>]]

-----------------------------------------------------------------------------
(* ConnectionSimulatorFlaky::Filter over the bytes of a frame. *)

Simulator == [next_error |-> next_error, length |-> current_error_length]

FilterNext(sim) ==
  CASE sim.next_error = -1 -> sim
    [] sim.next_error = 0 ->
         IF sim.length + 1 >= parameters.error_length
         THEN [next_error |->
                 parameters.error_interval - parameters.error_length,
               length |-> 0]
         ELSE [sim EXCEPT !.length = @ + 1]
    [] OTHER -> [sim EXCEPT !.next_error = @ - 1]

Filter(sim, element) ==
  IF sim.next_error = 0
  THEN [element EXCEPT !.byte = (@ + parameters.offset) % ByteModulus,
                       !.crc = <<>>]
  ELSE element

\* The state of the simulator before each of the bytes, and after them all.
Filtering(n) ==
  LET sim[i \in 0 .. n] == IF i = 0 THEN Simulator
                           ELSE FilterNext(sim[i - 1])
  IN sim

-----------------------------------------------------------------------------
(* MessageCoder::Decode: the decoder after one byte. *)

Skip == [at |-> "skip", left |-> 0, value |-> 0, escaped |-> FALSE,
         type |-> 0, sequence |-> 0, body |-> <<>>, covered |-> <<>>,
         frame |-> 1]
Start == [Skip EXCEPT !.at = "type", !.left = 1]
Thrown == [Skip EXCEPT !.at = "invalid"]

Enter(d, field, width) == [d EXCEPT !.at = field, !.left = width, !.value = 0]

\* Mutant: any type is accepted, also the end marker.
AfterAnyType(d) ==
  Enter([d EXCEPT !.type = d.value], "sequence", SequenceLength)

\* Mutant: a type that is not known is passed over without an exception.
AfterTypeQuietly(d) ==
  IF d.value > HIGHEST_ELEMENT THEN Skip
  ELSE Enter([d EXCEPT !.type = d.value], "sequence", SequenceLength)

AfterType(d) ==
  IF d.value > HIGHEST_ELEMENT THEN Thrown
  ELSE Enter([d EXCEPT !.type = d.value], "sequence", SequenceLength)

\* A field is complete: what follows it.
AfterField(d) ==
  CASE d.at = "type" -> AfterType(d)
    [] d.at = "sequence" ->
         LET e == [d EXCEPT !.sequence = d.value]
         IN CASE d.type = ACKNOWLEDGE ->
                   Enter(e, "acknowledged", SequenceLength)
              [] d.type = PAYLOAD -> Enter(e, "length", LengthLength)
              [] OTHER -> Enter(e, "crc", 1)
    [] d.at = "acknowledged" -> Enter([d EXCEPT !.body = <<d.value>>], "crc", 1)
    [] d.at = "length" /\ d.value > 0 -> Enter(d, "payload", d.value)
    [] OTHER -> Enter(d, "crc", 1)

\* ReadFromStreamWithCRC and the loop over the payload: one unescaped byte.
InField(d, b) ==
  LET e == [d EXCEPT !.left = @ - 1, !.escaped = FALSE,
                     !.value = IF d.at = "payload" THEN 0
                               ELSE ByteModulus * @ + b,
                     !.body = IF d.at = "payload" THEN Append(@, b) ELSE @,
                     !.covered = Append(@, b)]
  IN IF e.left = 0 THEN AfterField(e) ELSE e

\* Mutant: the checksum is not compared.
CheckCrcAlways(d, element) == [d EXCEPT !.at = "end", !.escaped = FALSE]

CheckCrc(d, element) ==
  IF element.crc = d.covered
  THEN [d EXCEPT !.at = "end", !.escaped = FALSE] ELSE Thrown

DecodeByte(d, element) ==
  LET b == element.byte IN
  CASE d.at = "end" -> IF b = Flag THEN [d EXCEPT !.at = "marker"] ELSE Thrown
    [] d.at = "marker" ->
         IF b = EndMarker THEN [d EXCEPT !.at = "message"] ELSE Thrown
    [] OTHER ->
         IF ~d.escaped /\ b = Escape
         THEN [d EXCEPT !.escaped = TRUE,
                        !.covered = IF d.at = "crc" THEN @ ELSE Append(@, b)]
         ELSE IF ~(d.escaped <=> b \in {Escape, Flag}) THEN Thrown
         ELSE IF d.at = "crc" THEN CheckCrc(d, element)
         ELSE InField(d, b)

-----------------------------------------------------------------------------
StreamInit ==
  /\ parameters \in [first_error : FirstErrors, offset : ErrorOffsets,
                     error_interval : ErrorIntervals,
                     error_length : ErrorLengths]
  /\ next_error = parameters.first_error
  /\ current_error_length = 0
  /\ wire = <<>> /\ receive_deque = <<>>
  /\ decoder = Skip
  /\ sent = <<>> /\ returned = <<>>
  /\ reports = [k \in 1 .. MaxFrames |-> 0]
  /\ hits = [k \in 1 .. MaxFrames |-> 0]
  /\ cut = {}
  /\ shortReads = 0

\* MessageOutputStream::SendMessage.  The value send() returns is not looked
\* at: what the socket has no room for is lost.
SendMessage(m) ==
  LET k == Len(sent) + 1
      frame == Encode(m, k)
      sim == Filtering(Len(frame))
      room == SocketCapacity - Len(wire)
      taken == IF Len(frame) <= room THEN Len(frame) ELSE room
      damaged == {i \in DOMAIN frame : sim[i - 1].next_error = 0}
  IN /\ sent' = Append(sent, m)
     /\ wire' = wire \o [i \in 1 .. taken |-> Filter(sim[i - 1], frame[i])]
     /\ next_error' = sim[Len(frame)].next_error
     /\ current_error_length' = sim[Len(frame)].length
     /\ hits' = [hits EXCEPT ![k] = LeastOf(Cardinality(damaged), 2)]
     /\ cut' = IF taken < Len(frame) THEN cut \cup {k} ELSE cut
     /\ UNCHANGED <<parameters, receive_deque, decoder, returned, reports,
                   shortReads>>

Sends ==
  /\ Len(sent) < MaxFrames
  /\ \E m \in Messages(FirstSequence + Len(sent)) : SendMessage(m)

\* What ReceiveMessage does with the byte it has read.
Receive(element) ==
  LET d == IF decoder.at = "skip"
           THEN IF element.byte = Flag THEN Start ELSE Skip
           ELSE DecodeByte(decoder, element)
  IN /\ decoder' = IF d.at \in {"invalid", "message"} THEN Skip
                   ELSE [d EXCEPT !.frame = element.frame]
     /\ reports' = IF d.at = "invalid"
                   THEN [reports EXCEPT ![element.frame] = @ + 1] ELSE reports
     /\ returned' = IF d.at = "message"
                    THEN Append(returned, [type |-> d.type, body |-> d.body,
                                           sequence |-> d.sequence])
                    ELSE returned
     /\ UNCHANGED <<parameters, next_error, current_error_length, sent, cut>>

\* SocketByteStream::Read of one byte, from the deque
ReadsDeque ==
  /\ receive_deque # <<>>
  /\ receive_deque' = Tail(receive_deque)
  /\ Receive(Head(receive_deque))
  /\ UNCHANGED <<wire, hits, shortReads>>

\* or after a recv, which returns as much as has arrived.
ReadsSocket ==
  /\ receive_deque = <<>> /\ wire # <<>>
  /\ \E n \in 1 .. MaxReceive :
       /\ n <= Len(wire)
       /\ receive_deque' = SubSeq(wire, 2, n)
       /\ wire' = SubSeq(wire, n + 1, Len(wire))
  /\ Receive(Head(wire))
  /\ UNCHANGED <<hits, shortReads>>

\* Nothing has arrived.  Between frames ReceiveMessage returns no message and
\* nothing changes; within one, Decode goes on with what its byte holds: the
\* zero it is initialised with, or the escape that was read into it.
ReadsNothing ==
  /\ receive_deque = <<>> /\ decoder.at # "skip"
  /\ \/ wire = <<>> /\ UNCHANGED shortReads
     \/ shortReads < MaxShortReads /\ shortReads' = shortReads + 1
  /\ Receive([byte |-> IF decoder.escaped THEN Escape ELSE 0, crc |-> <<>>,
              frame |-> decoder.frame, place |-> 0])
  /\ hits' = [hits EXCEPT ![decoder.frame] = 1 + (IF @ = 0 THEN 0 ELSE 1)]
  /\ UNCHANGED <<wire, receive_deque>>

StreamNext == Sends \/ ReadsDeque \/ ReadsSocket \/ ReadsNothing

StreamSpec == StreamInit /\ [][StreamNext]_streamVars

-----------------------------------------------------------------------------
(* Properties. *)

\* All that was sent has been read, and ReceiveMessage is between frames.
Drained == wire = <<>> /\ receive_deque = <<>> /\ decoder.at = "skip"

Lost(k) == sent[k] \notin ToSet(returned)

\* Whatever happens to the bytes, ReceiveMessage returns only messages that
\* were sent, in the order they were sent and each at most once.
OnlySentMessages ==
  /\ ToSet(returned) \subseteq ToSet(sent)
  /\ \A i, j \in DOMAIN returned :
       i < j => returned[i].sequence < returned[j].sequence

\* The decoder may still be within a frame when frame k is over: one up to k
\* was cut or hit twice, and none after it arrived whole.
MayRunOn(k) ==
  \E j \in 1 .. k : /\ j \in cut \/ hits[j] > 1
                   /\ \A i \in j .. k : i \in cut \/ hits[i] > 0

\* What goes wrong in a frame costs that frame alone: the decoder finds the
\* next start.  The frame after it is lost only if the decoder runs into it.
LossIsLocal ==
  Drained => \A k \in DOMAIN sent :
    Lost(k) => hits[k] > 0 \/ k \in cut \/ MayRunOn(k - 1)

\* A lost message is reported: an exception is thrown over bytes of its frame,
\* upon which the connection asks for a resend.  Only a frame with two errors
\* (both its flags), one the socket did not take, or one with an error into
\* which the decoder ran from such a frame can go unnoticed.
LossIsReported ==
  Drained => \A k \in DOMAIN sent :
    Lost(k) => reports[k] > 0 \/ MayRunOn(k)

\* A frame that arrives whole is not reported, whatever bytes it is made of
\* and however it is split on the way, unless the decoder runs into it.
NoFalseReports ==
  \A k \in DOMAIN reports :
    reports[k] > 0 => hits[k] > 0 \/ k \in cut \/ MayRunOn(k - 1)
=============================================================================
