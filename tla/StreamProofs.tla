---------------------------- MODULE StreamProofs ----------------------------
(***************************************************************************)
(* What one direction of a link promises the connection, for every number  *)
(* of messages, every way in which the simulator damages their bytes, any  *)
(* room in the socket and any split of the bytes over the reads: no other  *)
(* messages come out, and in no other order; a loss stays where it is and  *)
(* is reported; nothing is reported without cause.                         *)
(*                                                                         *)
(* The decoder alone does not know where it is on the line: a flag that    *)
(* was damaged lets it run on through the frames that follow.  StreamInv   *)
(* relates it to the elements that are still to come.                      *)
(***************************************************************************)
EXTENDS MessageCoderProofs

-----------------------------------------------------------------------------
(* The inductive invariant. *)

AllMessages == UNION {Messages(q) : q \in 0 .. Power[SequenceLength] - 1}

\* All messages are those of some sequence.
LEMMA AllKnown ==
  ASSUME NEW m
  PROVE  m \in AllMessages <=> Known(m)
BY DEF AllMessages, Known

\* What is on its way: the decoder takes it from the front.
Line == receive_deque \o wire

Length(k) == Len(Covered(sent[k])) + 4

Damaged(e) == e # Encode(sent[e.frame], e.frame)[e.place]

StreamTypeOK ==
  /\ parameters.offset \in Nat
  /\ receive_deque \in Seq(Elements) /\ wire \in Seq(Elements)
  /\ Len(wire) <= SocketCapacity
  /\ sent \in Seq(AllMessages) /\ Len(sent) <= MaxFrames
  /\ \A k \in 1 .. Len(sent) : sent[k].sequence = FirstSequence + k - 1
  /\ returned \in Seq(AllMessages)
  /\ Valid(decoder)
  /\ reports \in [1 .. MaxFrames -> Nat]
  /\ hits \in [1 .. MaxFrames -> 0 .. 2]
  /\ cut \subseteq 1 .. Len(sent)

\* An element that was sent, damaged or not.
Genuine(e) ==
  /\ e.frame \in 1 .. Len(sent) /\ e.place \in 1 .. Length(e.frame)
  /\ e.crc # <<>> \/ hits[e.frame] = 0 => ~Damaged(e)

\* The last element of its frame on the line.
Ends(e) == e.frame \in cut \/ e.place = Length(e.frame)

Follows(e, f) ==
  \/ f.frame = e.frame /\ f.place = e.place + 1
  \/ /\ Ends(e) /\ f.frame > e.frame /\ f.place = 1
     /\ e.frame + 1 .. f.frame - 1 \subseteq cut

Before(e, f) ==
  e.frame < f.frame \/ (e.frame = f.frame /\ e.place < f.place)

\* The line holds what is left of the frames, in their order.
LineInv ==
  /\ \A i \in 1 .. Len(Line) : Genuine(Line[i])
  /\ \A i \in 1 .. Len(Line) - 1 : Follows(Line[i], Line[i + 1])
  /\ \A i, j \in 1 .. Len(Line) : i < j => Before(Line[i], Line[j])
  /\ \A i, j \in 1 .. Len(Line) :
       /\ Line[i].frame = Line[j].frame /\ hits[Line[i].frame] = 1
       /\ Damaged(Line[i]) /\ Damaged(Line[j])
       => i = j
  /\ Line # <<>> =>
       /\ Ends(Line[Len(Line)])
       /\ Line[Len(Line)].frame + 1 .. Len(sent) \subseteq cut

\* Messages come out in the order of their sequences.
OrderInv ==
  /\ \A i \in 1 .. Len(returned) :
       /\ \E k \in 1 .. Len(sent) : returned[i] = sent[k]
       /\ \A j \in 1 .. Len(returned) :
            i < j => returned[i].sequence < returned[j].sequence
       /\ \A j \in 1 .. Len(Line) : Line[j].crc # <<>> =>
            returned[i].sequence < FirstSequence + Line[j].frame - 1
  /\ decoder.at \in {"end", "marker"} =>
       /\ \E k \in 1 .. Len(sent) : Has(decoder, sent[k])
       /\ \A i \in 1 .. Len(returned) : returned[i].sequence < decoder.sequence
       /\ \A j \in 1 .. Len(Line) : Line[j].crc # <<>> =>
            decoder.sequence < FirstSequence + Line[j].frame - 1
  /\ decoder.at = "end" => Has(decoder, sent[decoder.frame])

\* Within which frame the decoder is.
FrameInv ==
  decoder.at # "skip" =>
    /\ decoder.frame \in 1 .. Len(sent)
    /\ Line = <<>> => /\ decoder.frame + 1 .. Len(sent) \subseteq cut
                      /\ MayRunOn(decoder.frame)
    /\ Line # <<>> =>
         \/ Line[1].place > 1 /\ decoder.frame = Line[1].frame
         \/ /\ Line[1].place = 1 /\ decoder.frame < Line[1].frame
            /\ decoder.frame + 1 .. Line[1].frame - 1 \subseteq cut
            /\ MayRunOn(decoder.frame)

DamageAhead(c) ==
  \E i \in 1 .. Len(Line) : Line[i].frame = c /\ Damaged(Line[i])

\* Within a frame of which the decoder comes out: once the damage is behind,
\* its end brings the decoder out; before, all has been read as it was sent.
WithinInv ==
  Line # <<>> =>
    LET c == Line[1].frame
        q == Line[1].place
    IN q > 1 /\ ~MayRunOn(c) =>
         /\ ~DamageAhead(c) =>
              /\ q = Length(c) - 1 => BeforeFlag(decoder)
              /\ q = Length(c) => BeforeMarker(decoder, sent[c], reports[c] > 0)
         /\ ~MayRunOn(c - 1) /\ (hits[c] = 0 \/ DamageAhead(c)) =>
              Exact(decoder, sent[c], q - 1) /\ reports[c] = 0

Unread(c) == \E i \in 1 .. Len(Line) : Line[i].frame = c

\* A frame that has been read.
ReadInv ==
  \A c \in 1 .. Len(sent) : ~MayRunOn(c) /\ ~Unread(c) =>
    /\ (\E i \in 1 .. Len(returned) : returned[i] = sent[c]) \/ reports[c] > 0
    /\ hits[c] = 0 /\ ~MayRunOn(c - 1) => reports[c] = 0

\* A frame of which nothing has been read.
UnreadInv ==
  \A c \in 1 .. MaxFrames :
    \/ c > Len(sent)
    \/ /\ Line # <<>>
       /\ Line[1].frame < c \/ (Line[1].frame = c /\ Line[1].place = 1)
    =>
      reports[c] = 0

StreamInv == /\ StreamTypeOK /\ LineInv /\ OrderInv /\ FrameInv /\ WithinInv
             /\ ReadInv /\ UnreadInv

-----------------------------------------------------------------------------
(* Frames into which the decoder may run. *)

RunsOn(h, c, k) ==
  \E j \in 1 .. k : /\ j \in c \/ h[j] > 1
                    /\ \A i \in j .. k : i \in c \/ h[i] > 0

\* MayRunOn in terms of hits and cut alone, also in the next state.
LEMMA RunsOnIs ==
  ASSUME NEW k
  PROVE  (MayRunOn(k) <=> RunsOn(hits, cut, k))
         /\ (MayRunOn(k)' <=> RunsOn(hits', cut', k))
BY DEF MayRunOn, RunsOn

\* What frame k does to a decoder that runs on.
LEMMA RunsOnFacts ==
  ASSUME NEW n \in Nat, NEW h \in [1 .. n -> 0 .. 2], NEW c, NEW k \in 1 .. n
  PROVE  /\ k \in c \/ h[k] > 1 => RunsOn(h, c, k)
         /\ RunsOn(h, c, k) => k \in c \/ h[k] > 0
         /\ RunsOn(h, c, k - 1) /\ (k \in c \/ h[k] > 0) => RunsOn(h, c, k)
         /\ RunsOn(h, c, k) /\ k \notin c /\ h[k] < 2 => RunsOn(h, c, k - 1)
<1>1. ASSUME k \in c \/ h[k] > 1
      PROVE  RunsOn(h, c, k)
  <2>1. \A i \in k .. k : i \in c \/ h[i] > 0
    BY <1>1
  <2>2. k \in 1 .. k
    OBVIOUS
  <2> QED
    BY <1>1, <2>1, <2>2 DEF RunsOn
<1>2. ASSUME RunsOn(h, c, k)
      PROVE  k \in c \/ h[k] > 0
  <2>1. PICK j \in 1 .. k : \A i \in j .. k : i \in c \/ h[i] > 0
    BY <1>2 DEF RunsOn
  <2>2. k \in j .. k
    OBVIOUS
  <2> QED
    BY <2>1, <2>2
<1>3. ASSUME RunsOn(h, c, k - 1), k \in c \/ h[k] > 0
      PROVE  RunsOn(h, c, k)
  <2>1. PICK j \in 1 .. k - 1 : /\ j \in c \/ h[j] > 1
                                /\ \A i \in j .. k - 1 : i \in c \/ h[i] > 0
    BY <1>3 DEF RunsOn
  <2>2. j \in 1 .. k
    OBVIOUS
  <2>3. \A i \in j .. k : i \in j .. k - 1 \/ i = k
    OBVIOUS
  <2>4. \A i \in j .. k : i \in c \/ h[i] > 0
    BY <1>3, <2>1, <2>3
  <2> QED
    BY <2>1, <2>2, <2>4 DEF RunsOn
<1>4. ASSUME RunsOn(h, c, k), k \notin c, h[k] < 2
      PROVE  RunsOn(h, c, k - 1)
  <2>1. PICK j \in 1 .. k : /\ j \in c \/ h[j] > 1
                            /\ \A i \in j .. k : i \in c \/ h[i] > 0
    BY <1>4 DEF RunsOn
  <2>2. j # k
    BY <1>4, <2>1
  <2>3. j \in 1 .. k - 1 /\ \A i \in j .. k - 1 : i \in j .. k
    BY <2>2
  <2> QED
    BY <2>1, <2>3 DEF RunsOn
<1> QED
  BY <1>1, <1>2, <1>3, <1>4

\* Frames that were cut lie between.
LEMMA RunsOnOver ==
  ASSUME NEW h, NEW c, NEW a \in Nat, NEW b \in Nat,
         RunsOn(h, c, a), a <= b, a + 1 .. b \subseteq c
  PROVE  RunsOn(h, c, b)
<1>1. PICK j \in 1 .. a : /\ j \in c \/ h[j] > 1
                          /\ \A i \in j .. a : i \in c \/ h[i] > 0
  BY DEF RunsOn
<1>2. \A i \in j .. b : i \in j .. a \/ i \in a + 1 .. b
  OBVIOUS
<1>3. j \in 1 .. b
  OBVIOUS
<1>4. \A i \in j .. b : i \in c \/ h[i] > 0
  BY <1>1, <1>2
<1> QED
  BY <1>1, <1>3, <1>4 DEF RunsOn

\* More hits and more cuts.
LEMMA RunsOnMore ==
  ASSUME NEW h, NEW c, NEW g, NEW d, NEW k \in Int,
         \A i \in 1 .. k : /\ i \in c => i \in d
                           /\ h[i] > 0 => g[i] > 0
                           /\ h[i] > 1 => g[i] > 1,
         RunsOn(h, c, k)
  PROVE  RunsOn(g, d, k)
<1>1. PICK j \in 1 .. k : /\ j \in c \/ h[j] > 1
                          /\ \A i \in j .. k : i \in c \/ h[i] > 0
  BY DEF RunsOn
<1>2. \A i \in j .. k : i \in 1 .. k
  OBVIOUS
<1>3. \A i \in j .. k : i \in d \/ g[i] > 0
  BY <1>1, <1>2
<1>4. j \in d \/ g[j] > 1
  BY <1>1
<1> QED
  BY <1>3, <1>4 DEF RunsOn

-----------------------------------------------------------------------------
(* The steps. *)

Decoded(d) == [type |-> d.type, body |-> d.body, sequence |-> d.sequence]

\* Receive in terms of After and Then.
LEMMA ReceiveIs ==
  ASSUME NEW e, Receive(e)
  PROVE  /\ decoder' = Then(decoder, e)
         /\ reports' = IF After(decoder, e).at = "invalid"
                       THEN [reports EXCEPT ![e.frame] = @ + 1] ELSE reports
         /\ returned' = IF After(decoder, e).at = "message"
                        THEN Append(returned, Decoded(After(decoder, e)))
                        ELSE returned
         /\ UNCHANGED <<parameters, sent, cut>>
<1>1. After(decoder, e) = IF decoder.at = "skip"
                          THEN IF e.byte = Flag THEN Start ELSE Skip
                          ELSE DecodeByte(decoder, e)
  BY DEF After
<1>2. Receive(e) <=>
      LET d == After(decoder, e) IN
       /\ decoder' = IF d.at \in {"invalid", "message"} THEN Skip
                     ELSE [d EXCEPT !.frame = e.frame]
       /\ reports' = IF d.at = "invalid"
                     THEN [reports EXCEPT ![e.frame] = @ + 1] ELSE reports
       /\ returned' = IF d.at = "message"
                      THEN Append(returned, [type |-> d.type, body |-> d.body,
                                             sequence |-> d.sequence])
                      ELSE returned
       /\ UNCHANGED <<parameters, next_error, current_error_length, sent, cut>>
  BY <1>1, Zenon DEF Receive
<1> QED
  BY <1>2 DEF Then, Decoded

\* A byte is read: what is left of the line.
Takes(e) ==
  /\ Line # <<>> /\ e = Line[1] /\ Receive(e) /\ UNCHANGED hits
  /\ receive_deque' \in Seq(Elements) /\ wire' \in Seq(Elements)
  /\ Len(wire') <= SocketCapacity
  /\ Line \in Seq(Elements)
  /\ Line' \in Seq(Elements) /\ Len(Line') = Len(Line) - 1
  /\ \A i \in 1 .. Len(Line') : Line'[i] = Line[i + 1]

\* A byte from the deque is the first on the line.
LEMMA TakesDeque ==
  ASSUME StreamTypeOK, ReadsDeque
  PROVE  \E e : Takes(e)
<1> DEFINE d == receive_deque
           t == Tail(d)
           l == d \o wire
           r == t \o wire
<1>1. d \in Seq(Elements) /\ d # <<>> /\ wire \in Seq(Elements) /\ wire' = wire
      /\ Len(wire) <= SocketCapacity
  BY DEF StreamTypeOK, ReadsDeque
<1>2. /\ Head(d) = d[1] /\ d[1] \in Elements /\ t \in Seq(Elements)
      /\ Len(t) = Len(d) - 1 /\ d = <<d[1]>> \o t
  BY <1>1, JoinedEnds
<1>3. receive_deque' = t /\ Receive(d[1]) /\ UNCHANGED hits
  BY <1>2 DEF ReadsDeque
<1>4. Line = l /\ Line' = r
  BY <1>1, <1>3 DEF Line
<1> DEFINE x == <<d[1]>>
<1>5. x \in Seq(Elements) /\ Len(x) = 1 /\ x[1] = d[1]
  BY <1>2
<1>6. l = x \o r
  <2> HIDE DEF x, t
  <2>1. d = x \o t
    BY <1>2 DEF x
  <2> DEFINE w == wire
  <2>2. w \in Seq(Elements)
    BY <1>1
  <2> HIDE DEF d, w
  <2>3. (x \o t) \o w = x \o (t \o w)
    BY <1>2, <1>5, <2>2, ConcatAssociative
  <2> QED
    BY <2>1, <2>3 DEF w
<1>7. r \in Seq(Elements)
  <2> HIDE DEF t
  <2> QED
    BY <1>1, <1>2, ConcatProperties
<1> HIDE DEF x, l, r
<1>8. /\ l \in Seq(Elements) /\ Len(l) = 1 + Len(r)
      /\ \A i \in 1 .. 1 + Len(r) : l[i] = IF i <= 1 THEN x[i] ELSE r[i - 1]
  BY <1>5, <1>6, <1>7, ConcatProperties
<1>9. Len(r) \in Nat
  BY <1>7
<1>10. l[1] = d[1] /\ l # <<>> /\ Len(r) = Len(l) - 1
  <2>1. 1 \in 1 .. 1 + Len(r)
    BY <1>9
  <2> QED
    BY <1>5, <1>8, <1>9, <2>1
<1>11. \A i \in 1 .. Len(r) : r[i] = l[i + 1]
  <2>1. \A i \in 1 .. Len(r) : i + 1 \in 1 .. 1 + Len(r) /\ ~(i + 1 <= 1) /\ (i + 1) - 1 = i
    BY <1>9
  <2> QED
    BY <1>8, <2>1
<1>12. Takes(d[1])
  <2>1. t = receive_deque'
    BY <1>3
  <2>2. receive_deque' \in Seq(Elements) /\ wire' \in Seq(Elements)
        /\ Len(wire') <= SocketCapacity
    BY <1>1, <1>2, <2>1
  <2> HIDE DEF d, t
  <2> QED
    BY <1>3, <1>4, <1>7, <1>8, <1>10, <1>11, <2>2 DEF Takes
<1> QED
  BY <1>12

\* So is the first byte of a recv; the rest stays on the line.
LEMMA TakesSocket ==
  ASSUME StreamTypeOK, ReadsSocket
  PROVE  \E e : Takes(e)
<1>1. receive_deque = <<>> /\ wire \in Seq(Elements) /\ wire # <<>>
      /\ Len(wire) <= SocketCapacity /\ Receive(Head(wire)) /\ UNCHANGED hits
  BY DEF StreamTypeOK, ReadsSocket
<1>2. PICK n \in 1 .. MaxReceive :
        /\ n <= Len(wire)
        /\ receive_deque' = SubSeq(wire, 2, n)
        /\ wire' = SubSeq(wire, n + 1, Len(wire))
  BY DEF ReadsSocket
<1> DEFINE w == wire
           l == Len(w)
           a == SubSeq(w, 2, n)
           b == SubSeq(w, n + 1, l)
           r == a \o b
<1>3. l \in Nat \ {0} /\ n \in 1 .. l /\ Head(w) = w[1]
  <2>1. MaxReceive \in Nat /\ l \in Nat
    BY <1>1, LineAssumption
  <2>2. Head(w) = w[1] /\ l # 0
    BY <1>1, JoinedEnds
  <2> QED
    BY <1>2, <2>1, <2>2
<1>4. Line = w
  <2> HIDE DEF w
  <2> QED
    BY <1>1, ConcatEmptySeq DEF Line, w
<1> HIDE DEF w, l
<1>5. /\ w \in Seq(Elements) /\ Len(w) = l
      /\ \A i \in 1 .. l : w[i] \in Elements
  BY <1>1, <1>3 DEF w, l
<1>6. /\ a \in Seq(Elements) /\ Len(a) = n - 1
      /\ \A i \in 1 .. n - 1 : a[i] = w[i + 1]
  <2>1. \A k \in 2 .. n : w[k] \in Elements
    <3>1. \A k \in 2 .. n : k \in 1 .. l
      BY <1>3
    <3> QED
      BY <1>5, <3>1
  <2>2. /\ a \in Seq(Elements) /\ Len(a) = IF 2 <= n THEN n - 2 + 1 ELSE 0
        /\ \A k \in 1 .. n - 2 + 1 : a[k] = w[2 + k - 1]
    BY <1>3, <2>1, SubSeqProperties
  <2> HIDE DEF a
  <2>3. Len(a) = n - 1
    BY <1>3, <2>2
  <2>4. \A k \in 1 .. n - 1 : k \in 1 .. n - 2 + 1 /\ 2 + k - 1 = k + 1
    BY <1>3
  <2> QED
    BY <2>2, <2>3, <2>4
<1>7. /\ b \in Seq(Elements) /\ Len(b) = l - n
      /\ \A i \in 1 .. l - n : b[i] = w[n + i]
  <2>1. \A k \in n + 1 .. l : w[k] \in Elements
    <3>1. \A k \in n + 1 .. l : k \in 1 .. l
      BY <1>3
    <3> QED
      BY <1>5, <3>1
  <2>2. /\ b \in Seq(Elements) /\ Len(b) = IF n + 1 <= l THEN l - (n + 1) + 1 ELSE 0
        /\ \A k \in 1 .. l - (n + 1) + 1 : b[k] = w[(n + 1) + k - 1]
    <3>1. n + 1 \in Int /\ l \in Int
      BY <1>3
    <3> QED
      BY <2>1, <3>1, SubSeqProperties
  <2> HIDE DEF b
  <2>3. Len(b) = l - n
    BY <1>3, <2>2
  <2>4. \A k \in 1 .. l - n : k \in 1 .. l - (n + 1) + 1 /\ (n + 1) + k - 1 = n + k
    BY <1>3
  <2> QED
    BY <2>2, <2>3, <2>4
<1>8. Line' = r /\ receive_deque' = a /\ wire' = b
  BY <1>2 DEF Line, w, l
<1> HIDE DEF a, b
<1>9. /\ r \in Seq(Elements) /\ Len(r) = l - 1
      /\ \A i \in 1 .. l - 1 : r[i] = w[i + 1]
  <2> DEFINE la == Len(a)
             lb == Len(b)
  <2>1. /\ r \in Seq(Elements) /\ Len(r) = la + lb
        /\ \A i \in 1 .. la + lb : r[i] = IF i <= la THEN a[i] ELSE b[i - la]
    BY <1>6, <1>7, ConcatProperties
  <2>2. la = n - 1 /\ lb = l - n /\ la + lb = l - 1
    BY <1>3, <1>6, <1>7
  <2> HIDE DEF la, lb, r
  <2>3. ASSUME NEW i \in 1 .. l - 1
        PROVE  r[i] = w[i + 1]
    <3>1. r[i] = IF i <= la THEN a[i] ELSE b[i - la]
      BY <2>1, <2>2
    <3>2. CASE i <= la
      <4>1. i \in 1 .. n - 1
        BY <1>3, <2>2, <3>2
      <4> QED
        BY <1>6, <3>1, <3>2, <4>1
    <3>3. CASE ~(i <= la)
      <4>1. i - la \in 1 .. l - n /\ n + (i - la) = i + 1
        BY <1>3, <2>2, <3>3
      <4>2. b[i - la] = w[n + (i - la)]
        BY <1>7, <4>1
      <4> QED
        BY <3>1, <3>3, <4>1, <4>2
    <3> QED
      BY <3>2, <3>3
  <2> QED
    BY <2>1, <2>2, <2>3
<1>10. Receive(w[1]) /\ UNCHANGED hits /\ w # <<>> /\ l <= SocketCapacity
       /\ SocketCapacity \in Nat
  BY <1>1, <1>3, LineAssumption DEF w, l
<1>11. Len(b) <= SocketCapacity
  BY <1>3, <1>7, <1>10
<1> HIDE DEF r
<1>12. Takes(w[1])
  BY <1>4, <1>5, <1>6, <1>7, <1>8, <1>9, <1>10, <1>11 DEF Takes
<1> QED
  BY <1>12

-----------------------------------------------------------------------------
(* A byte of the line is read. *)

\* Facts of a state that the steps below use.
LEMMA SentIs ==
  ASSUME StreamTypeOK, NEW k \in 1 .. Len(sent)
  PROVE  /\ Known(sent[k]) /\ sent[k].sequence = FirstSequence + k - 1
         /\ Covered(sent[k]) \in Seq(Bytes) /\ Len(Covered(sent[k])) \in Nat \ {0}
         /\ Length(k) = Len(Covered(sent[k])) + 4 /\ Length(k) \in Nat
         /\ k \in 1 .. MaxFrames /\ k \in Nat
<1>1. sent[k] \in AllMessages /\ Len(sent) <= MaxFrames /\ Len(sent) \in Nat
  BY DEF StreamTypeOK
<1>2. Known(sent[k])
  BY <1>1, AllKnown
<1>3. Covered(sent[k]) \in Seq(Bytes) /\ Len(Covered(sent[k])) \in Nat \ {0}
  BY <1>2, CoveredLength
<1>4. Length(k) = Len(Covered(sent[k])) + 4
  BY DEF Length
<1> DEFINE n == Len(Covered(sent[k]))
<1>5. n + 4 \in Nat
  <2> HIDE DEF n
  <2>1. n \in Nat
    BY <1>3 DEF n
  <2> QED
    BY <2>1
<1>6. k \in 1 .. MaxFrames /\ k \in Nat
  BY <1>1, LineAssumption
<1> QED
  BY <1>2, <1>3, <1>4, <1>5, <1>6 DEF StreamTypeOK

\* The elements of frame k as they were sent.
LEMMA OriginalIs ==
  ASSUME StreamTypeOK, NEW k \in 1 .. Len(sent), NEW p \in 1 .. Length(k)
  PROVE  LET e == Encode(sent[k], k)[p]
         IN /\ e \in Elements /\ e.frame = k /\ e.place = p
            /\ e.crc = IF p = Length(k) - 2 THEN Covered(sent[k]) ELSE <<>>
            /\ p = 1 => e.byte = Flag
            /\ p = Length(k) - 2 => e.byte \in 0 .. 6
            /\ p = Length(k) - 1 => e.byte = Flag
            /\ p = Length(k) => e.byte = EndMarker
<1> DEFINE m == sent[k]
           n == Len(Covered(m))
           f == Encode(m, k)
<1>1. Known(m) /\ n \in Nat /\ Length(k) = n + 4 /\ k \in Nat
  BY SentIs
<1> HIDE DEF m
<1>2. /\ f \in Seq(Elements) /\ Len(f) = n + 4
      /\ \A i \in 1 .. n + 4 :
           /\ f[i].frame = k /\ f[i].place = i
           /\ f[i].crc = IF i = n + 2 THEN Covered(m) ELSE <<>>
      /\ f[1].byte = Flag /\ f[n + 2].byte \in 0 .. 6
      /\ f[n + 3].byte = Flag /\ f[n + 4].byte = EndMarker
  <2>1. Known(m) /\ k \in Nat
    BY <1>1
  <2>2. /\ f \in Seq(Elements) /\ Len(f) = n + 4
        /\ \A i \in 1 .. n + 4 :
             /\ f[i].frame = k /\ f[i].place = i
             /\ f[i].crc = IF i = n + 2 THEN Covered(m) ELSE <<>>
             /\ i \in 2 .. n + 1 => f[i].byte = Covered(m)[i - 1]
        /\ f[1].byte = Flag /\ f[n + 2].byte \in 0 .. 6
        /\ f[n + 3].byte = Flag /\ f[n + 4].byte = EndMarker
    BY <2>1, EncodeIs, Zenon
  <2> HIDE DEF n, f
  <2> QED
    BY <2>2, Zenon
<1> HIDE DEF n, f
<1>3. p \in 1 .. n + 4 /\ Length(k) - 2 = n + 2 /\ Length(k) - 1 = n + 3
  BY <1>1
<1>4. f[p] \in Elements
  BY <1>2, <1>3
<1> QED
  BY <1>1, <1>2, <1>3, <1>4 DEF f, m

\* The first element of the line, and the one that follows it.
LEMMA FirstIs ==
  ASSUME StreamTypeOK, LineInv, NEW e, Takes(e)
  PROVE  /\ e \in Elements /\ e.frame \in 1 .. Len(sent) /\ e.place \in 1 .. Length(e.frame)
         /\ ~Damaged(e) => e = Encode(sent[e.frame], e.frame)[e.place]
         /\ e.crc # <<>> \/ hits[e.frame] = 0 => ~Damaged(e)
         /\ Line' # <<>> => /\ Follows(e, Line'[1])
                            /\ Line'[1].frame \in 1 .. Len(sent)
                            /\ Line'[1].place \in 1 .. Length(Line'[1].frame)
         /\ Line' = <<>> => Ends(e) /\ e.frame + 1 .. Len(sent) \subseteq cut
         /\ \A i \in 1 .. Len(Line') : Before(e, Line'[i])
         /\ Len(Line') \in Nat
<1>1. /\ Line \in Seq(Elements) /\ Line # <<>> /\ e = Line[1]
      /\ Line' \in Seq(Elements) /\ Len(Line') = Len(Line) - 1
      /\ \A i \in 1 .. Len(Line') : Line'[i] = Line[i + 1]
  BY DEF Takes
<1> DEFINE L == Line
           R == Line'
           l == Len(L)
<1>2. l \in Nat \ {0} /\ 1 \in 1 .. l /\ Len(R) = l - 1 /\ Len(R) \in Nat
  <2>1. l # 0 /\ l \in Nat
    <3> HIDE DEF L
    <3>1. L \in Seq(Elements) /\ L # <<>>
      BY <1>1 DEF L
    <3> QED
      BY <3>1
  <2> QED
    BY <1>1, <2>1
<1>3. e \in Elements
  BY <1>1, <1>2
<1>4. Genuine(e)
  BY <1>1, <1>2 DEF LineInv
<1>5. ASSUME R # <<>>
      PROVE  Follows(e, R[1]) /\ Genuine(R[1])
  <2>1. Len(R) # 0
    <3> HIDE DEF R
    <3>1. R \in Seq(Elements)
      BY <1>1 DEF R
    <3> QED
      BY <1>5, <3>1
  <2>2. 1 \in 1 .. l - 1 /\ 1 \in 1 .. Len(R) /\ 1 + 1 \in 1 .. l
    BY <1>2, <2>1
  <2>3. R[1] = L[1 + 1]
    BY <1>1, <2>2
  <2>4. Follows(L[1], L[1 + 1])
    BY <2>2 DEF LineInv
  <2>5. Genuine(L[1 + 1])
    BY <2>2 DEF LineInv
  <2> QED
    BY <1>1, <2>3, <2>4, <2>5
<1>6. ASSUME R = <<>>
      PROVE  Ends(e) /\ e.frame + 1 .. Len(sent) \subseteq cut
  <2>1. l = 1
    <3>1. Len(R) = 0
      BY <1>6
    <3> QED
      BY <1>2, <3>1
  <2> QED
    BY <1>1, <2>1 DEF LineInv
<1>7. ASSUME NEW i \in 1 .. Len(R)
      PROVE  Before(e, R[i])
  <2>1. i + 1 \in 1 .. l /\ 1 < i + 1
    BY <1>2
  <2> QED
    BY <1>1, <1>2, <2>1 DEF LineInv
<1> HIDE DEF R, L
<1> QED
  BY <1>2, <1>3, <1>4, <1>5, <1>6, <1>7 DEF Genuine, Damaged, R

\* The frame in which the decoder is stays the same, or a new one begins.
LEMMA NextIs ==
  ASSUME StreamTypeOK, LineInv, NEW e, Takes(e), Line' # <<>>
  PROVE  \/ Line'[1].frame = e.frame /\ Line'[1].place = e.place + 1
         \/ /\ Line'[1].frame > e.frame /\ Line'[1].place = 1 /\ Ends(e)
            /\ e.frame + 1 .. Line'[1].frame - 1 \subseteq cut
BY FirstIs DEF Follows

\* The rest of the line is as it was.
LEMMA RestIsLine ==
  ASSUME StreamTypeOK, LineInv, NEW e, Takes(e)
  PROVE  LineInv'
<1> DEFINE L == Line
           R == Line'
           l == Len(L)
<1>1. /\ L \in Seq(Elements) /\ L # <<>> /\ R \in Seq(Elements) /\ Len(R) = l - 1
      /\ \A i \in 1 .. Len(R) : R[i] = L[i + 1]
      /\ hits' = hits
  BY DEF Takes
<1>2. sent' = sent /\ cut' = cut
  <2>1. Receive(e)
    BY DEF Takes
  <2> QED
    BY <2>1, ReceiveIs
<1>3. l \in Nat \ {0}
  <2> HIDE DEF L
  <2> QED
    BY <1>1
<1>4. \A i \in 1 .. Len(R) : i + 1 \in 1 .. l
  BY <1>1, <1>3
<1>5. ASSUME NEW i \in 1 .. Len(R)
      PROVE  /\ Genuine(Line[i])'
             /\ Damaged(Line[i])' <=> Damaged(R[i])
             /\ Ends(Line[i])' <=> Ends(R[i])
  <2>1. Genuine(R[i])
    BY <1>1, <1>4 DEF LineInv
  <2> QED
    BY <1>1, <1>2, <2>1 DEF Genuine, Damaged, Ends, Length
<1>6. ASSUME NEW i \in 1 .. Len(R) - 1
      PROVE  Follows(Line[i], Line[i + 1])'
  <2>1. i \in 1 .. Len(R) /\ i + 1 \in 1 .. Len(R) /\ i + 1 \in 1 .. l - 1
    BY <1>1, <1>3
  <2>2. Follows(L[i + 1], L[(i + 1) + 1])
    BY <2>1 DEF LineInv
  <2>3. R[i] = L[i + 1] /\ R[i + 1] = L[(i + 1) + 1]
    BY <1>1, <2>1
  <2>4. Follows(R[i], R[i + 1])
    BY <2>2, <2>3
  <2> QED
    BY <1>2, <1>5, <2>1, <2>4 DEF Follows
<1>7. ASSUME NEW i \in 1 .. Len(R), NEW j \in 1 .. Len(R), i < j
      PROVE  Before(R[i], R[j])
  <2>1. i + 1 < j + 1
    BY <1>7
  <2> QED
    BY <1>1, <1>4, <2>1 DEF LineInv
<1>8. ASSUME NEW i \in 1 .. Len(R), NEW j \in 1 .. Len(R),
             R[i].frame = R[j].frame, hits[R[i].frame] = 1,
             Damaged(R[i]), Damaged(R[j])
      PROVE  i = j
  <2>1. i + 1 = j + 1
    BY <1>1, <1>4, <1>8 DEF LineInv
  <2> QED
    BY <2>1
<1>9. ASSUME R # <<>>
      PROVE  /\ Ends(R[Len(R)])
             /\ R[Len(R)].frame + 1 .. Len(sent) \subseteq cut
  <2>1. Len(R) \in 1 .. Len(R) /\ Len(R) + 1 = l
    <3>1. Len(R) # 0 /\ Len(R) \in Nat
      <4> HIDE DEF R
      <4> QED
        BY <1>1, <1>9
    <3> QED
      BY <1>1, <1>3, <3>1
  <2>2. R[Len(R)] = L[l]
    BY <1>1, <2>1
  <2> QED
    BY <1>1, <2>2 DEF LineInv
<1>10. \A i \in 1 .. Len(Line') : Genuine(Line[i])'
  BY <1>5
<1>11. \A i \in 1 .. Len(Line') - 1 : Follows(Line[i], Line[i + 1])'
  BY <1>6
<1>12. \A i, j \in 1 .. Len(Line') : i < j => Before(Line[i], Line[j])'
  BY <1>7 DEF Before
<1>13. \A i, j \in 1 .. Len(Line') :
         /\ Line'[i].frame = Line'[j].frame /\ hits'[Line'[i].frame] = 1
         /\ Damaged(Line[i])' /\ Damaged(Line[j])'
         => i = j
  BY <1>1, <1>5, <1>8
<1>14. Line' # <<>> => /\ Ends(Line[Len(Line)])'
                       /\ Line'[Len(Line')].frame + 1 .. Len(sent') \subseteq cut'
  <2>1. ASSUME R # <<>>
        PROVE  Len(R) \in 1 .. Len(R)
    <3>1. Len(R) # 0 /\ Len(R) \in Nat
      <4> HIDE DEF R
      <4> QED
        BY <1>1, <2>1
    <3> QED
      BY <3>1
  <2> QED
    BY <1>2, <1>5, <1>9, <2>1
<1> HIDE DEF L
<1> QED
  BY <1>10, <1>11, <1>12, <1>13, <1>14 DEF LineInv

\* What the line still holds of a frame.
LEMMA AheadIs ==
  ASSUME StreamTypeOK, LineInv, NEW e, Takes(e)
  PROVE  /\ \A k : DamageAhead(k)' => DamageAhead(k)
         /\ \A k : Unread(k) <=> k = e.frame \/ Unread(k)'
         /\ DamageAhead(e.frame) <=> Damaged(e) \/ DamageAhead(e.frame)'
         /\ hits[e.frame] < 2 /\ DamageAhead(e.frame)' => ~Damaged(e)
         /\ DamageAhead(e.frame) => hits[e.frame] # 0
<1> DEFINE L == Line
           R == Line'
           l == Len(L)
<1>1. /\ L \in Seq(Elements) /\ L # <<>> /\ R \in Seq(Elements) /\ Len(R) = l - 1
      /\ \A i \in 1 .. Len(R) : R[i] = L[i + 1]
      /\ e = L[1]
  BY DEF Takes
<1>2. sent' = sent
  <2>1. Receive(e)
    BY DEF Takes
  <2> QED
    BY <2>1, ReceiveIs
<1>3. l \in Nat \ {0}
  <2> HIDE DEF L
  <2> QED
    BY <1>1
<1>4. /\ \A i \in 1 .. Len(R) : i + 1 \in 1 .. l
      /\ \A i \in 1 .. l : i = 1 \/ i - 1 \in 1 .. Len(R)
      /\ 1 \in 1 .. l
  BY <1>1, <1>3
<1>5. ASSUME NEW i \in 1 .. l, i # 1
      PROVE  i - 1 \in 1 .. Len(R) /\ R[i - 1] = L[i]
  <2>1. i - 1 \in 1 .. Len(R) /\ (i - 1) + 1 = i
    BY <1>4, <1>5
  <2> QED
    BY <1>1, <2>1
<1>6. ASSUME NEW k
      PROVE  /\ DamageAhead(k)' <=> \E i \in 1 .. Len(R) : R[i].frame = k /\ Damaged(R[i])
             /\ Unread(k)' <=> \E i \in 1 .. Len(R) : R[i].frame = k
  BY <1>2 DEF DamageAhead, Unread, Damaged
<1>7. ASSUME NEW k, DamageAhead(k)'
      PROVE  DamageAhead(k)
  <2>1. PICK i \in 1 .. Len(R) : R[i].frame = k /\ Damaged(R[i])
    BY <1>6, <1>7
  <2>2. i + 1 \in 1 .. l /\ R[i] = L[i + 1]
    BY <1>1, <1>4
  <2> HIDE DEF R
  <2>3. L[i + 1].frame = k /\ Damaged(L[i + 1])
    BY <2>1, <2>2
  <2> QED
    BY <2>2, <2>3 DEF DamageAhead
<1>8. ASSUME NEW k
      PROVE  Unread(k) <=> k = e.frame \/ Unread(k)'
  <2>1. ASSUME Unread(k)
        PROVE  k = e.frame \/ Unread(k)'
    <3>1. PICK i \in 1 .. l : L[i].frame = k
      BY <2>1 DEF Unread
    <3>2. CASE i = 1
      BY <1>1, <3>1, <3>2
    <3>3. CASE i # 1
      BY <1>5, <1>6, <3>1, <3>3
    <3> QED
      BY <3>2, <3>3
  <2>2. ASSUME k = e.frame
        PROVE  Unread(k)
    BY <1>1, <1>4, <2>2 DEF Unread
  <2>3. ASSUME Unread(k)'
        PROVE  Unread(k)
    <3>1. PICK i \in 1 .. Len(R) : R[i].frame = k
      BY <1>6, <2>3
    <3>2. i + 1 \in 1 .. l /\ R[i] = L[i + 1]
      BY <1>1, <1>4
    <3> QED
      BY <3>1, <3>2 DEF Unread
  <2> QED
    BY <2>1, <2>2, <2>3
<1>9. ASSUME DamageAhead(e.frame)
      PROVE  Damaged(e) \/ DamageAhead(e.frame)'
  <2>1. PICK i \in 1 .. l : L[i].frame = e.frame /\ Damaged(L[i])
    BY <1>9 DEF DamageAhead
  <2>2. CASE i = 1
    BY <1>1, <2>1, <2>2
  <2>3. CASE i # 1
    <3>1. i - 1 \in 1 .. Len(R) /\ R[i - 1] = L[i]
      BY <1>5, <2>3
    <3> HIDE DEF R, L
    <3>2. R[i - 1].frame = e.frame /\ Damaged(R[i - 1])
      BY <2>1, <3>1
    <3> QED
      BY <1>6, <3>1, <3>2
  <2> QED
    BY <2>2, <2>3
<1>10. ASSUME Damaged(e)
       PROVE  DamageAhead(e.frame)
  BY <1>1, <1>4, <1>10 DEF DamageAhead
<1>11. ASSUME hits[e.frame] < 2, DamageAhead(e.frame)'
       PROVE  ~Damaged(e)
  <2>1. PICK i \in 1 .. Len(R) : R[i].frame = e.frame /\ Damaged(R[i])
    BY <1>6, <1>11
  <2>2. i + 1 \in 1 .. l /\ R[i] = L[i + 1] /\ i + 1 # 1
    BY <1>1, <1>4
  <2>3. Genuine(L[i + 1]) /\ Genuine(L[1])
    BY <1>4, <2>2 DEF LineInv
  <2> HIDE DEF R, L
  <2>4. L[i + 1].frame = e.frame /\ Damaged(L[i + 1])
    BY <2>1, <2>2
  <2>5. hits[e.frame] = 1
    <3>1. hits[e.frame] # 0
      BY <2>3, <2>4 DEF Genuine
    <3>2. e.frame \in 1 .. MaxFrames
      BY <1>1, <2>3, SentIs DEF Genuine
    <3>3. hits[e.frame] \in 0 .. 2
      BY <3>2 DEF StreamTypeOK
    <3> QED
      BY <1>11, <3>1, <3>3
  <2>6. ~Damaged(L[1])
    <3>1. \A j, k \in 1 .. l :
            /\ L[j].frame = L[k].frame /\ hits[L[j].frame] = 1
            /\ Damaged(L[j]) /\ Damaged(L[k])
            => j = k
      BY DEF LineInv, L
    <3> QED
      BY <1>1, <1>4, <2>2, <2>4, <2>5, <3>1
  <2> QED
    BY <1>1, <2>6
<1>12. ASSUME DamageAhead(e.frame)
       PROVE  hits[e.frame] # 0
  <2>1. PICK i \in 1 .. l : L[i].frame = e.frame /\ Damaged(L[i])
    BY <1>12 DEF DamageAhead
  <2>2. Genuine(L[i])
    BY DEF LineInv
  <2> HIDE DEF L
  <2> QED
    BY <2>1, <2>2 DEF Genuine
<1> HIDE DEF L, R
<1>13. DamageAhead(e.frame)' => DamageAhead(e.frame)
  BY <1>7
<1>14. \A k : DamageAhead(k)' => DamageAhead(k)
  BY <1>7
<1>15. \A k : Unread(k) <=> k = e.frame \/ Unread(k)'
  BY <1>8
<1> QED
  BY <1>9, <1>10, <1>11, <1>12, <1>13, <1>14, <1>15

\* Before a frame the decoder is between frames unless it ran on.
LEMMA Between ==
  ASSUME StreamTypeOK, LineInv, FrameInv, UnreadInv, NEW e, Takes(e), e.place = 1
  PROVE  /\ reports[e.frame] = 0
         /\ ~MayRunOn(e.frame - 1) => decoder.at = "skip"
<1>1. Line # <<>> /\ e = Line[1] /\ e.frame \in 1 .. Len(sent)
  BY FirstIs DEF Takes
<1>2. e.frame \in 1 .. MaxFrames /\ e.frame \in Nat
  BY <1>1, SentIs
<1>3. reports[e.frame] = 0
  BY <1>1, <1>2 DEF UnreadInv
<1>4. ASSUME decoder.at # "skip"
      PROVE  MayRunOn(e.frame - 1)
  <2> DEFINE f == decoder.frame
             b == e.frame - 1
  <2>1. /\ f \in 1 .. Len(sent) /\ f < e.frame /\ f + 1 .. b \subseteq cut
        /\ MayRunOn(f)
    BY <1>1, <1>4 DEF FrameInv
  <2>2. f \in Nat /\ b \in Nat /\ f <= b
    BY <1>2, <2>1
  <2> HIDE DEF f, b
  <2>3. RunsOn(hits, cut, f)
    BY <2>1, RunsOnIs
  <2>4. RunsOn(hits, cut, b)
    BY <2>1, <2>2, <2>3, RunsOnOver
  <2> QED
    BY <2>4, RunsOnIs DEF b
<1> QED
  BY <1>3, <1>4

\* All of a frame up to here is as it was sent.
LEMMA StaysExact ==
  ASSUME StreamInv, NEW e, Takes(e), ~Damaged(e), e.place < Length(e.frame),
         ~MayRunOn(e.frame), ~MayRunOn(e.frame - 1),
         hits[e.frame] = 0 \/ DamageAhead(e.frame)
  PROVE  /\ Exact(Then(decoder, e), sent[e.frame], e.place)
         /\ After(decoder, e).at \notin {"invalid", "message"}
         /\ reports[e.frame] = 0
<1> DEFINE c == e.frame
           p == e.place
           m == sent[c]
           n == Len(Covered(m))
<1>1. /\ StreamTypeOK /\ LineInv /\ FrameInv /\ WithinInv /\ UnreadInv
      /\ Valid(decoder)
  BY DEF StreamInv, StreamTypeOK
<1>2. /\ c \in 1 .. Len(sent) /\ p \in 1 .. Length(c) /\ e = Encode(m, c)[p]
      /\ Line # <<>> /\ e = Line[1]
  BY <1>1, FirstIs DEF Takes
<1>3. Known(m) /\ n \in Nat \ {0} /\ Length(c) = n + 4 /\ c \in Nat
  BY <1>1, <1>2, SentIs
<1> HIDE DEF n
<1>4. CASE p = 1
  <2>1. decoder.at = "skip" /\ reports[c] = 0
    BY <1>1, <1>4, Between
  <2>2. After(decoder, e) = Start /\ Exact(Then(decoder, e), m, 1)
    <3> HIDE DEF m, c, p
    <3> QED
      BY <1>1, <1>2, <1>3, <1>4, <2>1, ExactStarts
  <2>3. After(decoder, e).at \notin {"invalid", "message"}
    BY <2>2, StartIs
  <2> QED
    BY <1>4, <2>1, <2>2, <2>3
<1>5. CASE p # 1
  <2> DEFINE q == p - 1
  <2>1. p > 1 /\ q \in 1 .. n + 2 /\ q + 1 = p
    BY <1>2, <1>3, <1>5
  <2>2. Exact(decoder, m, q) /\ reports[c] = 0
    BY <1>1, <1>2, <2>1 DEF WithinInv
  <2> HIDE DEF m, c, p, q
  <2>3. /\ After(decoder, e).at \notin {"invalid", "message"}
        /\ Exact(Then(decoder, e), m, q + 1)
    <3>1. e = Encode(m, c)[q + 1]
      BY <1>2, <2>1
    <3> QED
      BY <1>1, <1>3, <2>1, <2>2, <3>1, ExactStep DEF n
  <2> QED
    BY <2>1, <2>2, <2>3 DEF m, c, p
<1> QED
  BY <1>4, <1>5

\* At its last element the decoder leaves a frame on which it does not run on.
LEMMA ComesOut ==
  ASSUME StreamInv, NEW e, Takes(e), ~MayRunOn(e.frame), Ends(e)
  PROVE  /\ e.place = Length(e.frame)
         /\ \/ /\ decoder.at = "skip" /\ After(decoder, e) = Skip
               /\ reports[e.frame] > 0
            \/ After(decoder, e) = Thrown
            \/ /\ decoder.at = "marker" /\ Has(decoder, sent[e.frame])
               /\ After(decoder, e) = [decoder EXCEPT !.at = "message"]
         /\ ~MayRunOn(e.frame - 1) /\ hits[e.frame] = 0 =>
              reports[e.frame] = 0 /\ decoder.at = "marker"
              /\ After(decoder, e) = [decoder EXCEPT !.at = "message"]
<1> DEFINE c == e.frame
           m == sent[c]
           n == Len(Covered(m))
           d == decoder
<1>1. /\ StreamTypeOK /\ LineInv /\ FrameInv /\ WithinInv /\ UnreadInv
      /\ Valid(d)
  BY DEF StreamInv, StreamTypeOK
<1>2. /\ c \in 1 .. Len(sent) /\ e.place \in 1 .. Length(c) /\ e \in Elements
      /\ ~Damaged(e) => e = Encode(m, c)[e.place]
      /\ hits[c] = 0 => ~Damaged(e)
      /\ Line # <<>> /\ e = Line[1]
  BY <1>1, FirstIs DEF Takes
<1>3. /\ Known(m) /\ n \in Nat \ {0} /\ Length(c) = n + 4 /\ c \in Nat
      /\ c \in 1 .. MaxFrames
  BY <1>1, <1>2, SentIs
<1>4. c \notin cut /\ hits[c] < 2 /\ hits[c] \in 0 .. 2
  <2>1. hits \in [1 .. MaxFrames -> 0 .. 2] /\ MaxFrames \in Nat
    BY <1>1, LineAssumption DEF StreamTypeOK
  <2>2. hits[c] \in 0 .. 2
    BY <1>3, <2>1
  <2>3. c \notin cut /\ ~(hits[c] > 1)
    BY <1>3, <2>1, RunsOnIs, RunsOnFacts
  <2> QED
    BY <2>2, <2>3
<1>5. e.place = Length(c) /\ Length(c) > 1 /\ (n + 4) - 1 = n + 3
  BY <1>3, <1>4 DEF Ends
<1>6. e.byte \in Bytes /\ e.frame \in Nat
  BY <1>2, <1>3 DEF Elements
<1>7. WithinInv => /\ ~DamageAhead(c) => BeforeMarker(d, m, reports[c] > 0)
                   /\ ~MayRunOn(c - 1) /\ (hits[c] = 0 \/ DamageAhead(c)) =>
                        Exact(d, m, Length(c) - 1) /\ reports[c] = 0
  BY <1>2, <1>5 DEF WithinInv
<1>8. ~MayRunOn(c - 1) /\ (hits[c] = 0 \/ DamageAhead(c)) =>
        d.at = "marker" /\ Has(d, m) /\ reports[c] = 0
  <2>1. Length(c) - 1 = n + 3
    BY <1>3
  <2> QED
    BY <1>1, <1>7, <2>1 DEF Exact
<1>9. ~Damaged(e) => e.byte = EndMarker
  BY <1>1, <1>2, <1>5, OriginalIs
<1>10. ~Damaged(e) => ~DamageAhead(c)
  <2>1. ~DamageAhead(c)'
    <3>1. ~Unread(c)'
      <4>1. SUFFICES ASSUME NEW i \in 1 .. Len(Line'), Line'[i].frame = c
                     PROVE  FALSE
        BY DEF Unread
      <4>2. Line' # <<>>
        <5>1. Len(Line') # 0
          BY <4>1
        <5> QED
          BY <5>1
      <4>3. Before(e, Line'[i])
        BY <1>1, FirstIs
      <4>4. Line'[i].place > Length(c)
        BY <1>5, <4>1, <4>3, <1>3 DEF Before
      <4>5. LineInv'
        BY <1>1, RestIsLine
      <4>6. Line'[i].place <= Length(c)'
        <5>1. Genuine(Line[i])'
          BY <4>5 DEF LineInv
        <5> QED
          BY <4>1, <5>1 DEF Genuine
      <4>7. Length(c)' = Length(c)
        <5>1. sent' = sent
          BY ReceiveIs DEF Takes
        <5> QED
          BY <5>1 DEF Length
      <4>8. Line'[i].place \in Nat
        <5> DEFINE R == Line'
        <5>1. R \in Seq(Elements)
          BY DEF Takes
        <5> HIDE DEF R
        <5>2. \A k \in 1 .. Len(R) : R[k] \in Elements
          BY <5>1
        <5> QED
          BY <5>2 DEF R, Elements
      <4> QED
        BY <1>3, <4>4, <4>6, <4>7, <4>8
    <3> QED
      BY <3>1 DEF DamageAhead, Unread
  <2> QED
    BY <1>1, <2>1, AheadIs
<1>11. ASSUME Damaged(e)
       PROVE  d.at = "marker" /\ Has(d, m)
  <2>1. DamageAhead(c) /\ hits[c] # 0
    BY <1>1, <1>2, <1>11, AheadIs
  <2>2. ~MayRunOn(c - 1)
    <3>1. hits \in [1 .. MaxFrames -> 0 .. 2] /\ MaxFrames \in Nat
      BY <1>1, LineAssumption DEF StreamTypeOK
    <3>2. hits[c] > 0
      BY <1>4, <2>1
    <3>3. RunsOn(hits, cut, c - 1) => RunsOn(hits, cut, c)
      BY <1>3, <3>1, <3>2, RunsOnFacts
    <3> QED
      BY <3>3, RunsOnIs
  <2> QED
    BY <1>8, <2>1, <2>2
<1>12. \/ d.at = "skip" /\ After(d, e) = Skip /\ reports[c] > 0
       \/ After(d, e) = Thrown
       \/ d.at = "marker" /\ Has(d, m) /\ After(d, e) = [d EXCEPT !.at = "message"]
  <2>1. CASE Damaged(e)
    BY <1>11, <2>1, MarkerDamaged
  <2>2. CASE ~Damaged(e)
    <3> DEFINE x == reports[c] > 0
    <3>1. BeforeMarker(d, m, x) /\ e.byte = EndMarker
      BY <1>1, <1>7, <1>9, <1>10, <2>2
    <3> HIDE DEF x
    <3>2. \/ d.at = "skip" /\ x /\ After(d, e) = Skip
          \/ After(d, e) = Thrown
          \/ d.at = "marker" /\ Has(d, m) /\ After(d, e) = [d EXCEPT !.at = "message"]
      BY <1>1, <1>6, <3>1, MarkerPassed
    <3> QED
      BY <3>2 DEF x
  <2> QED
    BY <2>1, <2>2
<1>13. ASSUME ~MayRunOn(c - 1), hits[c] = 0
       PROVE  /\ reports[c] = 0 /\ d.at = "marker"
              /\ After(d, e) = [d EXCEPT !.at = "message"]
  <2>1. d.at = "marker" /\ reports[c] = 0 /\ e.byte = EndMarker
    BY <1>2, <1>8, <1>9, <1>13
  <2> QED
    BY <2>1 DEF After, DecodeByte
<1> QED
  BY <1>5, <1>12, <1>13

\* A message that has been decoded as it was sent.
LEMMA DecodedIs ==
  ASSUME NEW d \in Decoders, NEW m, Known(m), Has(d, m)
  PROVE  Decoded([d EXCEPT !.at = "message"]) = m
<1>1. /\ [d EXCEPT !.at = "message"].type = d.type
      /\ [d EXCEPT !.at = "message"].sequence = d.sequence
      /\ [d EXCEPT !.at = "message"].body = d.body
  BY DEF Decoders
<1>2. m = [type |-> m.type, body |-> m.body, sequence |-> m.sequence]
  BY KnownIs
<1> QED
  BY <1>1, <1>2 DEF Decoded, Has

\* What a byte of the line changes.
LEMMA TakeIs ==
  ASSUME StreamTypeOK, LineInv, NEW e, Takes(e)
  PROVE  /\ decoder' = Then(decoder, e) /\ Valid(decoder')
         /\ sent' = sent /\ cut' = cut /\ hits' = hits /\ parameters' = parameters
         /\ reports' \in [1 .. MaxFrames -> Nat]
         /\ \A k \in 1 .. MaxFrames : k # e.frame => reports'[k] = reports[k]
         /\ reports'[e.frame] = IF After(decoder, e).at = "invalid"
                                THEN reports[e.frame] + 1 ELSE reports[e.frame]
         /\ e.frame \in 1 .. MaxFrames /\ reports[e.frame] \in Nat
         /\ \A k : (MayRunOn(k)' <=> MayRunOn(k)) /\ Length(k)' = Length(k)
<1>1. Receive(e) /\ hits' = hits
  BY DEF Takes
<1>2. /\ decoder' = Then(decoder, e)
      /\ reports' = IF After(decoder, e).at = "invalid"
                    THEN [reports EXCEPT ![e.frame] = @ + 1] ELSE reports
      /\ UNCHANGED <<parameters, sent, cut>>
  BY <1>1, ReceiveIs
<1>3. e \in Elements /\ e.frame \in 1 .. Len(sent)
  BY FirstIs
<1>4. e.byte \in Bytes /\ e.frame \in Nat /\ e.frame \in 1 .. MaxFrames
  BY <1>3, SentIs DEF Elements
<1>5. Valid(decoder')
  BY <1>2, <1>4, ThenIs DEF StreamTypeOK
<1>6. reports \in [1 .. MaxFrames -> Nat]
  BY DEF StreamTypeOK
<1> DEFINE inv == After(decoder, e).at = "invalid"
           f == e.frame
<1> HIDE DEF inv, f
<1>7. /\ reports' \in [1 .. MaxFrames -> Nat]
      /\ \A k \in 1 .. MaxFrames : k # f => reports'[k] = reports[k]
      /\ reports'[f] = IF inv THEN reports[f] + 1 ELSE reports[f]
      /\ f \in 1 .. MaxFrames /\ reports[f] \in Nat
  <2>1. reports' = IF inv THEN [reports EXCEPT ![f] = @ + 1] ELSE reports
    BY <1>2 DEF inv, f
  <2>2. f \in 1 .. MaxFrames /\ reports[f] \in Nat /\ reports[f] + 1 \in Nat
    BY <1>4, <1>6 DEF f
  <2>3. CASE inv
    BY <1>6, <2>1, <2>2, <2>3
  <2>4. CASE ~inv
    BY <1>6, <2>1, <2>2, <2>4
  <2> QED
    BY <2>3, <2>4
<1>8. ASSUME NEW k
      PROVE  (MayRunOn(k)' <=> MayRunOn(k)) /\ Length(k)' = Length(k)
  <2>1. MayRunOn(k)' <=> RunsOn(hits, cut, k)
    BY <1>1, <1>2, RunsOnIs
  <2> QED
    BY <1>2, <2>1, RunsOnIs DEF Length
<1> QED
  BY <1>1, <1>2, <1>5, <1>7, <1>8 DEF inv, f

\* The decoder is within the frame whose rest comes next, or ran on.
LEMMA TakeKeepsFrame ==
  ASSUME StreamInv, NEW e, Takes(e)
  PROVE  FrameInv'
<1>1. StreamTypeOK /\ LineInv
  BY DEF StreamInv
<1>2. SUFFICES ASSUME decoder'.at # "skip"
               PROVE  /\ decoder'.frame \in 1 .. Len(sent')
                      /\ Line' = <<>> => /\ decoder'.frame + 1 .. Len(sent') \subseteq cut'
                                         /\ MayRunOn(decoder.frame)'
                      /\ Line' # <<>> =>
                           \/ Line'[1].place > 1 /\ decoder'.frame = Line'[1].frame
                           \/ /\ Line'[1].place = 1 /\ decoder'.frame < Line'[1].frame
                              /\ decoder'.frame + 1 .. Line'[1].frame - 1 \subseteq cut'
                              /\ MayRunOn(decoder.frame)'
  BY DEF FrameInv
<1>3. e \in Elements /\ e.frame \in 1 .. Len(sent) /\ e.place \in 1 .. Length(e.frame)
  BY <1>1, FirstIs
<1>4. e.byte \in Bytes /\ e.frame \in Nat /\ e.place \in Nat
  BY <1>3 DEF Elements
<1>5. decoder' = Then(decoder, e) /\ sent' = sent /\ cut' = cut
      /\ hits' = hits
  BY <1>1, TakeIs
<1>6. After(decoder, e).at \notin {"invalid", "message"} /\ decoder'.frame = e.frame
      /\ After(decoder, e).at # "skip"
  <2>1. Valid(decoder)
    BY <1>1 DEF StreamTypeOK
  <2>2. /\ After(decoder, e).at \in {"invalid", "message"} => Then(decoder, e) = Skip
        /\ After(decoder, e).at \notin {"invalid", "message"} =>
              /\ Then(decoder, e).frame = e.frame
              /\ Then(decoder, e).at = After(decoder, e).at
    BY <1>4, <2>1, ThenIs
  <2> QED
    BY <1>2, <1>5, <2>2, SkipIs
<1>7. ASSUME Ends(e)
      PROVE  MayRunOn(e.frame)
  <2>1. SUFFICES ASSUME ~MayRunOn(e.frame)
                 PROVE  FALSE
    OBVIOUS
  <2>2. \/ After(decoder, e) = Skip
        \/ After(decoder, e) = Thrown
        \/ After(decoder, e) = [decoder EXCEPT !.at = "message"]
    BY <1>7, <2>1, ComesOut
  <2>3. decoder \in Decoders
    BY <1>1 DEF StreamTypeOK, Valid
  <2>4. [decoder EXCEPT !.at = "message"].at = "message"
    BY <2>3 DEF Decoders
  <2> QED
    BY <1>6, <2>2, <2>4, SkipIs
<1>8. MayRunOn(decoder.frame)' <=> MayRunOn(e.frame)
  BY <1>5, <1>6 DEF MayRunOn
<1>9. CASE Line' = <<>>
  BY <1>8, <1>1, <1>3, <1>5, <1>6, <1>7, <1>9, FirstIs
<1>10. CASE Line' # <<>>
  <2>1. CASE Line'[1].frame = e.frame /\ Line'[1].place = e.place + 1
    <3>1. Line'[1].place > 1
      BY <1>3, <2>1
    <3> QED
      BY <1>3, <1>5, <1>6, <1>10, <2>1, <3>1
  <2>2. CASE /\ Line'[1].frame > e.frame /\ Line'[1].place = 1 /\ Ends(e)
             /\ e.frame + 1 .. Line'[1].frame - 1 \subseteq cut
    <3>1. e.frame < Line'[1].frame
      <4>1. Line'[1].frame \in 1 .. Len(sent)
        BY <1>1, <1>10, FirstIs
      <4> DEFINE x == Line'[1].frame
      <4>2. x \in 1 .. Len(sent) /\ x > e.frame
        BY <2>2, <4>1
      <4> HIDE DEF x
      <4>3. e.frame < x
        BY <1>4, <4>2
      <4> QED
        BY <4>3 DEF x
    <3> QED
      BY <1>3, <1>5, <1>6, <1>7, <1>10, <1>8, <2>2, <3>1
  <2> QED
    BY <1>1, <1>10, <2>1, <2>2, NextIs
<1> QED
  BY <1>9, <1>10

\* Nothing is reported over a frame before its first byte.
LEMMA TakeKeepsUnread ==
  ASSUME StreamInv, NEW e, Takes(e)
  PROVE  UnreadInv'
<1>1. StreamTypeOK /\ LineInv
  BY DEF StreamInv
<1>2. SUFFICES ASSUME NEW c \in 1 .. MaxFrames,
                      \/ c > Len(sent')
                      \/ /\ Line' # <<>>
                         /\ Line'[1].frame < c \/ (Line'[1].frame = c /\ Line'[1].place = 1)
               PROVE  reports'[c] = 0
  BY DEF UnreadInv
<1>3. /\ e.frame \in 1 .. Len(sent) /\ e.frame \in Nat
      /\ Line # <<>> /\ e = Line[1] /\ e.place \in Nat /\ Len(sent) \in Nat
      /\ 1 <= e.place
  <2>1. e \in Elements /\ e.frame \in 1 .. Len(sent) /\ 1 <= e.place
    <3>1. e \in Elements /\ e.frame \in 1 .. Len(sent) /\ e.place \in 1 .. Length(e.frame)
      BY <1>1, FirstIs
    <3> QED
      BY <3>1
  <2>2. Len(sent) \in Nat
    <3>1. sent \in Seq(AllMessages)
      BY <1>1 DEF StreamTypeOK
    <3> QED
      BY <3>1
  <2> QED
    BY <2>1, <2>2 DEF Takes, Elements
<1>4. sent' = sent /\ \A k \in 1 .. MaxFrames : k # e.frame => reports'[k] = reports[k]
  BY <1>1, TakeIs
<1>5. e.frame < c
  <2>1. CASE c > Len(sent')
    BY <1>3, <1>4, <2>1
  <2>2. CASE ~(c > Len(sent'))
    <3>1. /\ Line' # <<>>
          /\ Line'[1].frame < c \/ (Line'[1].frame = c /\ Line'[1].place = 1)
      BY <1>2, <2>2
    <3> DEFINE x == Line'[1].frame
               y == Line'[1].place
    <3>2. x \in 1 .. Len(sent)
      BY <1>1, <3>1, FirstIs
    <3>3. (x = e.frame /\ y = e.place + 1) \/ x > e.frame
      BY <1>1, <3>1, NextIs
    <3>4. x < c \/ (x = c /\ y = 1)
      BY <3>1
    <3> HIDE DEF x, y
    <3> QED
      BY <1>3, <3>2, <3>3, <3>4
  <2> QED
    BY <2>1, <2>2
<1>6. reports[c] = 0
  BY <1>3, <1>5 DEF StreamInv, UnreadInv
<1> QED
  BY <1>3, <1>4, <1>5, <1>6

\* A frame whose last byte is read is returned or reported.
LEMMA TakeKeepsRead ==
  ASSUME StreamInv, NEW e, Takes(e)
  PROVE  ReadInv'
<1>1. StreamTypeOK /\ LineInv /\ decoder \in Decoders /\ returned \in Seq(AllMessages)
  BY DEF StreamInv, StreamTypeOK, Valid
<1>2. /\ sent' = sent /\ hits' = hits /\ cut' = cut
      /\ \A k \in 1 .. MaxFrames : k # e.frame => reports'[k] = reports[k]
      /\ reports'[e.frame] = IF After(decoder, e).at = "invalid"
                             THEN reports[e.frame] + 1 ELSE reports[e.frame]
      /\ reports[e.frame] \in Nat
  BY <1>1, TakeIs
<1>3. SUFFICES ASSUME NEW c \in 1 .. Len(sent), ~MayRunOn(c), ~Unread(c)'
               PROVE  /\ \/ \E i \in 1 .. Len(returned') : returned'[i] = sent[c]
                         \/ reports'[c] > 0
                      /\ hits[c] = 0 /\ ~MayRunOn(c - 1) => reports'[c] = 0
  <2>1. \A k : MayRunOn(k)' <=> MayRunOn(k)
    BY <1>2 DEF MayRunOn
  <2> QED
    BY <1>2, <2>1 DEF ReadInv
<1>4. Known(sent[c]) /\ c \in 1 .. MaxFrames
  BY <1>1, SentIs
<1>5. returned' = IF After(decoder, e).at = "message"
                  THEN Append(returned, Decoded(After(decoder, e))) ELSE returned
  BY ReceiveIs DEF Takes
<1>6. CASE c # e.frame
  <2>1. ~Unread(c)
    BY <1>1, <1>3, <1>6, AheadIs
  <2>2. /\ (\E i \in 1 .. Len(returned) : returned[i] = sent[c]) \/ reports[c] > 0
        /\ hits[c] = 0 /\ ~MayRunOn(c - 1) => reports[c] = 0
    BY <1>3, <2>1 DEF StreamInv, ReadInv
  <2>3. reports'[c] = reports[c]
    BY <1>2, <1>4, <1>6
  <2>4. ASSUME NEW i \in 1 .. Len(returned), returned[i] = sent[c]
        PROVE  i \in 1 .. Len(returned') /\ returned'[i] = sent[c]
    <3> DEFINE x == Decoded(After(decoder, e))
    <3> HIDE DEF x
    <3>1. returned' = Append(returned, x) \/ returned' = returned
      BY <1>5 DEF x
    <3> QED
      BY <1>1, <2>4, <3>1
  <2> QED
    BY <2>2, <2>3, <2>4
<1>7. CASE c = e.frame
  <2>1. Ends(e)
    <3>1. CASE Line' = <<>>
      BY <1>1, <3>1, FirstIs
    <3>2. CASE Line' # <<>>
      <4>1. Line'[1].frame # e.frame
        <5>1. 1 \in 1 .. Len(Line')
          <6>1. Line' \in Seq(Elements)
            BY DEF Takes
          <6> DEFINE R == Line'
          <6> HIDE DEF R
          <6>2. R \in Seq(Elements) /\ R # <<>>
            BY <3>2, <6>1 DEF R
          <6>3. 1 \in 1 .. Len(R)
            BY <6>2
          <6> QED
            BY <6>3 DEF R
        <5> QED
          BY <1>3, <1>7, <5>1 DEF Unread
      <4> QED
        BY <1>1, <3>2, <4>1, NextIs
    <3> QED
      BY <3>1, <3>2
  <2>2. /\ \/ /\ decoder.at = "skip" /\ After(decoder, e) = Skip
              /\ reports[e.frame] > 0
           \/ After(decoder, e) = Thrown
           \/ /\ decoder.at = "marker" /\ Has(decoder, sent[e.frame])
              /\ After(decoder, e) = [decoder EXCEPT !.at = "message"]
        /\ ~MayRunOn(e.frame - 1) /\ hits[e.frame] = 0 =>
             reports[e.frame] = 0 /\ decoder.at = "marker"
             /\ After(decoder, e) = [decoder EXCEPT !.at = "message"]
    BY <1>3, <1>7, <2>1, ComesOut
  <2>3. [decoder EXCEPT !.at = "message"].at = "message"
    BY <1>1 DEF Decoders
  <2>4. CASE After(decoder, e) = Skip /\ reports[c] > 0
    <3>1. After(decoder, e).at = "skip"
      BY <2>4, SkipIs
    <3>2. reports'[c] = reports[c]
      BY <1>2, <1>7, <3>1
    <3> QED
      BY <1>7, <2>2, <2>4, <3>2
  <2>5. CASE After(decoder, e) = Thrown
    <3>1. After(decoder, e).at = "invalid"
      BY <2>5, SkipIs
    <3>2. reports'[c] > 0
      BY <1>2, <1>7, <3>1
    <3>3. ~(~MayRunOn(c - 1) /\ hits[c] = 0)
      BY <1>7, <2>2, <2>3, <3>1
    <3> QED
      BY <3>2, <3>3
  <2>6. CASE /\ Has(decoder, sent[c])
             /\ After(decoder, e) = [decoder EXCEPT !.at = "message"]
    <3>1. After(decoder, e).at = "message"
      BY <2>3, <2>6
    <3>2. Decoded(After(decoder, e)) = sent[c]
      BY <1>1, <1>4, <2>6, DecodedIs
    <3>3. returned' = Append(returned, sent[c])
      BY <1>5, <3>1, <3>2
    <3>4. \E i \in 1 .. Len(returned') : returned'[i] = sent[c]
      <4>1. Len(returned) + 1 \in 1 .. Len(returned')
            /\ returned'[Len(returned) + 1] = sent[c]
        BY <1>1, <3>3
      <4> QED
        BY <4>1
    <3>5. reports'[c] = reports[c]
      BY <1>2, <1>7, <3>1
    <3> QED
      BY <1>7, <2>2, <3>4, <3>5
  <2> QED
    BY <1>7, <2>2, <2>4, <2>5, <2>6
<1> QED
  BY <1>6, <1>7

\* A frame that is not damaged yet is decoded exactly, and its end found.
LEMMA TakeKeepsWithin ==
  ASSUME StreamInv, NEW e, Takes(e)
  PROVE  WithinInv'
<1> DEFINE c == e.frame
           p == e.place
           m == sent[c]
           n == Len(Covered(m))
           d == decoder
           r == decoder'
<1>1. StreamTypeOK /\ LineInv /\ WithinInv /\ FrameInv /\ OrderInv /\ Valid(d)
  BY DEF StreamInv, StreamTypeOK
<1>2. /\ r = Then(d, e)
      /\ sent' = sent /\ cut' = cut /\ hits' = hits
      /\ reports'[c] = IF After(d, e).at = "invalid" THEN reports[c] + 1 ELSE reports[c]
      /\ reports[c] \in Nat
      /\ \A k : (MayRunOn(k)' <=> MayRunOn(k)) /\ Length(k)' = Length(k)
  BY <1>1, TakeIs
<1>3. /\ e \in Elements /\ c \in 1 .. Len(sent) /\ p \in 1 .. Length(c)
      /\ ~Damaged(e) => e = Encode(m, c)[p]
      /\ hits[c] = 0 => ~Damaged(e)
      /\ e.crc # <<>> => ~Damaged(e)
      /\ Line # <<>> /\ e = Line[1]
  BY <1>1, FirstIs DEF Takes
<1>4. /\ Known(m) /\ n \in Nat \ {0} /\ Length(c) = n + 4 /\ c \in Nat
      /\ c \in 1 .. MaxFrames
  BY <1>1, <1>3, SentIs
<1>5. e.byte \in Bytes /\ e.frame \in Nat /\ e.place \in Nat
  BY <1>3 DEF Elements
<1>6. SUFFICES ASSUME Line' # <<>>, Line'[1].place > 1, ~MayRunOn(Line[1].frame)'
               PROVE  /\ ~DamageAhead(Line[1].frame)' =>
                           /\ Line'[1].place = Length(Line[1].frame)' - 1 => BeforeFlag(r)
                           /\ Line'[1].place = Length(Line[1].frame)' =>
                                BeforeMarker(r, sent'[Line'[1].frame],
                                             reports'[Line'[1].frame] > 0)
                      /\ (/\ ~MayRunOn(Line[1].frame - 1)'
                          /\ hits'[Line'[1].frame] = 0 \/ DamageAhead(Line[1].frame)') =>
                           /\ Exact(r, sent'[Line'[1].frame], Line'[1].place - 1)
                           /\ reports'[Line'[1].frame] = 0
  BY DEF WithinInv
<1>7. Line'[1].frame = c /\ Line'[1].place = p + 1
  BY <1>1, <1>6, NextIs
<1>8. /\ MayRunOn(Line[1].frame)' <=> MayRunOn(c)
      /\ MayRunOn(Line[1].frame - 1)' <=> MayRunOn(c - 1)
      /\ Length(Line[1].frame)' = Length(c)
      /\ DamageAhead(Line[1].frame)' <=> DamageAhead(c)'
      /\ (p + 1) - 1 = p
  <2>1. MayRunOn(Line[1].frame)' <=> MayRunOn(c)
    BY <1>2, <1>7 DEF MayRunOn
  <2>2. MayRunOn(Line[1].frame - 1)' <=> MayRunOn(c - 1)
    BY <1>2, <1>7 DEF MayRunOn
  <2>3. Length(Line[1].frame)' = Length(c)
    BY <1>2, <1>7 DEF Length
  <2>4. DamageAhead(Line[1].frame)' <=> DamageAhead(c)'
    BY <1>7 DEF DamageAhead
  <2>5. (p + 1) - 1 = p
    BY <1>5
  <2> QED
    BY <2>1, <2>2, <2>3, <2>4, <2>5
<1>9. Line' # <<>> /\ Line'[1].frame = c /\ Line'[1].place = p + 1 /\ ~MayRunOn(c)
  BY <1>6, <1>7, <1>8
<1>10. p + 1 <= Length(c) /\ p \in Nat
  <2>1. Line'[1].place \in 1 .. Length(Line'[1].frame)
    BY <1>1, <1>9, FirstIs
  <2>2. p + 1 \in 1 .. n + 4
    BY <1>4, <1>9, <2>1
  <2> QED
    BY <1>4, <1>5, <2>2
<1>11. hits[c] < 2 /\ hits[c] \in 0 .. 2 /\ c \notin cut
       /\ (hits[c] # 0 => ~MayRunOn(c - 1))
  <2>1. hits \in [1 .. MaxFrames -> 0 .. 2] /\ MaxFrames \in Nat
    BY <1>1, LineAssumption DEF StreamTypeOK
  <2>2. hits[c] \in 0 .. 2
    BY <1>4, <2>1
  <2>3. c \notin cut /\ ~(hits[c] > 1)
        /\ (RunsOn(hits, cut, c - 1) /\ (c \in cut \/ hits[c] > 0) => RunsOn(hits, cut, c))
    BY <1>4, <1>9, <2>1, RunsOnIs, RunsOnFacts
  <2> QED
    BY <1>9, <2>2, <2>3, RunsOnIs
<1>12. ASSUME ~MayRunOn(c - 1), hits[c] = 0 \/ DamageAhead(c)'
       PROVE  Exact(r, m, p) /\ reports'[c] = 0
  <2>1. ~Damaged(e) /\ (hits[c] = 0 \/ DamageAhead(c))
    BY <1>1, <1>3, <1>11, <1>12, AheadIs
  <2>2. e.place < Length(e.frame)
    BY <1>4, <1>10
  <2>3. Exact(Then(d, e), m, p) /\ After(d, e).at \notin {"invalid", "message"}
        /\ reports[c] = 0
    BY <1>9, <1>12, <2>1, <2>2, StaysExact
  <2> QED
    BY <1>2, <2>3
<1>13. ASSUME Damaged(e), p > 1
       PROVE  Exact(d, m, p - 1)
  <2>1. DamageAhead(c) /\ ~MayRunOn(c - 1)
    BY <1>1, <1>3, <1>11, <1>13, AheadIs
  <2> QED
    BY <1>1, <1>3, <1>9, <1>13, <2>1 DEF WithinInv
<1>14. ASSUME p + 1 = Length(c) - 1
       PROVE  BeforeFlag(r)
  <2>1. p = n + 2 /\ p > 1 /\ p - 1 = n + 1 /\ p = Length(c) - 2
    BY <1>4, <1>5, <1>14
  <2>2. CASE Damaged(e)
    <3>1. Exact(d, m, n + 1) /\ e.crc = <<>>
      BY <1>3, <1>13, <2>1, <2>2
    <3> QED
      BY <1>1, <1>2, <1>4, <1>5, <3>1, ChecksumDamaged
  <2>3. CASE ~Damaged(e)
    <3>1. e.byte \in 0 .. 6
      BY <1>1, <1>3, <2>1, <2>3, OriginalIs
    <3> QED
      BY <1>1, <1>2, <1>5, <3>1, ChecksumPassed
  <2> QED
    BY <2>2, <2>3
<1>15. ASSUME p + 1 = Length(c), ~DamageAhead(c)'
       PROVE  BeforeMarker(r, m, reports'[c] > 0)
  <2>1. p = n + 3 /\ p > 1 /\ p - 1 = n + 2 /\ p = Length(c) - 1
    BY <1>4, <1>5, <1>15
  <2>2. ASSUME After(d, e) = Thrown
        PROVE  r.at = "skip" /\ reports'[c] > 0
    <3>1. After(d, e).at = "invalid"
      BY <2>2, SkipIs
    <3>2. r = Skip
      BY <1>1, <1>2, <1>5, <3>1, ThenIs
    <3> QED
      BY <1>2, <3>1, <3>2, SkipIs
  <2>3. CASE Damaged(e)
    <3>1. Exact(d, m, n + 2)
      BY <1>13, <2>1, <2>3
    <3>2. d.at = "end" /\ Has(d, m)
      BY <3>1 DEF Exact
    <3>3. After(d, e) = Thrown \/ (r.at = "marker" /\ Has(r, d))
      BY <1>1, <1>2, <1>5, <3>2, FlagDamaged
    <3>4. CASE After(d, e) = Thrown
      BY <2>2, <3>4 DEF BeforeMarker
    <3>5. CASE r.at = "marker" /\ Has(r, d)
      BY <3>2, <3>5 DEF BeforeMarker, Has
    <3> QED
      BY <3>3, <3>4, <3>5
  <2>4. CASE ~Damaged(e)
    <3>1. e.byte = Flag /\ e.crc = <<>>
      <4>1. p # Length(c) - 2
        BY <1>4, <2>1
      <4> QED
        BY <1>1, <1>3, <2>1, <2>4, <4>1, OriginalIs
    <3>2. BeforeFlag(d)
      <4>1. ~DamageAhead(c)
        BY <1>1, <1>15, <2>4, AheadIs
      <4> QED
        BY <1>1, <1>3, <1>9, <2>1, <4>1 DEF WithinInv
    <3>3. \/ After(d, e) = Thrown
          \/ r.at = "type" /\ ~r.escaped
          \/ d.at = "end" /\ r.at = "marker" /\ Has(r, d)
      BY <1>1, <1>2, <1>5, <3>1, <3>2, FlagPassed
    <3>4. CASE After(d, e) = Thrown
      BY <2>2, <3>4 DEF BeforeMarker
    <3>5. CASE r.at = "type" /\ ~r.escaped
      BY <3>5 DEF BeforeMarker
    <3>6. CASE d.at = "end" /\ r.at = "marker" /\ Has(r, d)
      <4>1. d.frame = c
        <5>1. e.place > 1
          BY <2>1
        <5> QED
          BY <1>1, <1>3, <3>6, <5>1 DEF FrameInv
      <4>2. Has(d, m)
        BY <1>1, <3>6, <4>1 DEF OrderInv
      <4> QED
        BY <3>6, <4>2 DEF BeforeMarker, Has
    <3> QED
      BY <3>3, <3>4, <3>5, <3>6
  <2> QED
    BY <2>3, <2>4
<1> HIDE DEF m, r
<1> QED
  BY <1>2, <1>12, <1>14, <1>15, <1>7, <1>8 DEF m

\* A checksum that is one is where it was sent.
LEMMA ChecksumIs ==
  ASSUME StreamTypeOK, NEW x, Genuine(x), x.crc # <<>>
  PROVE  x.place = Length(x.frame) - 2 /\ x.crc = Covered(sent[x.frame])
<1>1. /\ x.frame \in 1 .. Len(sent) /\ x.place \in 1 .. Length(x.frame)
      /\ x = Encode(sent[x.frame], x.frame)[x.place]
  BY DEF Genuine, Damaged
<1>2. x.crc = IF x.place = Length(x.frame) - 2 THEN Covered(sent[x.frame]) ELSE <<>>
  BY <1>1, OriginalIs
<1> QED
  BY <1>2

\* A message that comes out was sent after all that came out before.
LEMMA TakeKeepsOrder ==
  ASSUME StreamInv, NEW e, Takes(e)
  PROVE  OrderInv'
<1> DEFINE c == e.frame
           d == decoder
           r == decoder'
           a == After(d, e)
           out == a.at = "message"
<1>1. /\ StreamTypeOK /\ LineInv /\ OrderInv /\ FrameInv /\ Valid(d) /\ d \in Decoders
      /\ returned \in Seq(AllMessages) /\ sent \in Seq(AllMessages)
  BY DEF StreamInv, StreamTypeOK, Valid
<1>2. r = Then(d, e) /\ sent' = sent
  BY <1>1, TakeIs
<1>3. /\ e \in Elements /\ c \in 1 .. Len(sent) /\ Genuine(e) /\ Line # <<>> /\ e = Line[1]
  <2>1. Line # <<>> /\ e = Line[1]
    BY DEF Takes
  <2> QED
    BY <1>1, <2>1, FirstIs DEF Genuine
<1>4. /\ Known(sent[c]) /\ sent[c].sequence = FirstSequence + c - 1 /\ c \in Nat
      /\ FirstSequence \in Nat
  BY <1>1, <1>3, SentIs, MessageAssumption
<1>5. e.byte \in Bytes /\ e.frame \in Nat
  BY <1>3 DEF Elements
<1>6. returned' = IF out THEN Append(returned, Decoded(a)) ELSE returned
  BY ReceiveIs DEF Takes
<1> DEFINE L == Line
           R == Line'
           l == Len(L)
<1>7. /\ L \in Seq(Elements) /\ R \in Seq(Elements) /\ Len(R) = l - 1 /\ l \in Nat \ {0}
      /\ \A j \in 1 .. Len(R) : R[j] = L[j + 1] /\ j + 1 \in 1 .. l
      /\ 1 \in 1 .. l /\ L[1] = e
  <2>1. /\ L \in Seq(Elements) /\ L # <<>> /\ R \in Seq(Elements) /\ Len(R) = l - 1
        /\ \A j \in 1 .. Len(R) : R[j] = L[j + 1]
    BY DEF Takes
  <2>2. l \in Nat \ {0}
    <3> HIDE DEF L
    <3> QED
      BY <2>1
  <2> HIDE DEF L, R
  <2>3. \A j \in 1 .. Len(R) : j + 1 \in 1 .. l
    BY <2>1, <2>2
  <2>4. 1 \in 1 .. l
    BY <2>2
  <2> QED
    BY <1>3, <2>1, <2>2, <2>3, <2>4 DEF L
<1>8. ASSUME NEW j \in 1 .. Len(R), R[j].crc # <<>>
      PROVE  /\ R[j].frame \in Nat
             /\ e.crc # <<>> => c < R[j].frame
  <2>1. Genuine(R[j])
    BY <1>1, <1>7 DEF LineInv
  <2>2. R[j].frame \in 1 .. Len(sent)
    BY <2>1 DEF Genuine
  <2>3. ASSUME e.crc # <<>>
        PROVE  c < R[j].frame
    <3>1. Before(e, R[j])
      BY <1>1, FirstIs
    <3>2. e.place = Length(c) - 2 /\ R[j].place = Length(R[j].frame) - 2
      BY <1>1, <1>3, <1>8, <2>1, <2>3, ChecksumIs
    <3>3. Length(c) \in Nat
      BY <1>1, <1>3, SentIs
    <3> QED
      BY <3>1, <3>2, <3>3 DEF Before
  <2> QED
    BY <2>2, <2>3
<1>9. \A i \in 1 .. Len(returned) :
        /\ \E k \in 1 .. Len(sent) : returned[i] = sent[k]
        /\ \A j \in 1 .. Len(returned) :
             i < j => returned[i].sequence < returned[j].sequence
        /\ \A j \in 1 .. Len(R) : R[j].crc # <<>> =>
             returned[i].sequence < FirstSequence + R[j].frame - 1
        /\ returned[i].sequence \in Nat
        /\ e.crc # <<>> => returned[i].sequence < sent[c].sequence
  <2> SUFFICES ASSUME NEW i \in 1 .. Len(returned)
               PROVE  /\ \E k \in 1 .. Len(sent) : returned[i] = sent[k]
                      /\ \A j \in 1 .. Len(returned) :
                           i < j => returned[i].sequence < returned[j].sequence
                      /\ \A j \in 1 .. Len(R) : R[j].crc # <<>> =>
                           returned[i].sequence < FirstSequence + R[j].frame - 1
                      /\ returned[i].sequence \in Nat
                      /\ e.crc # <<>> => returned[i].sequence < sent[c].sequence
    OBVIOUS
  <2>1. /\ \E k \in 1 .. Len(sent) : returned[i] = sent[k]
        /\ \A j \in 1 .. Len(returned) :
             i < j => returned[i].sequence < returned[j].sequence
        /\ \A j \in 1 .. l : L[j].crc # <<>> =>
             returned[i].sequence < FirstSequence + L[j].frame - 1
    BY <1>1 DEF OrderInv, L, l
  <2>2. returned[i].sequence \in Nat
    <3>1. PICK k \in 1 .. Len(sent) : returned[i] = sent[k]
      BY <2>1
    <3>2. sent[k].sequence = FirstSequence + k - 1 /\ k \in 1 .. Len(sent)
      BY <1>1, SentIs
    <3> QED
      BY <1>4, <3>1, <3>2
  <2> HIDE DEF L, R
  <2> QED
    BY <1>4, <1>7, <2>1, <2>2
<1>10. /\ a.at \in {"invalid", "message"} => r = Skip
       /\ a.at \notin {"invalid", "message"} =>
             /\ r.frame = c /\ r.at = a.at /\ r.type = a.type
             /\ r.sequence = a.sequence /\ r.body = a.body
  BY <1>1, <1>2, <1>5, ThenIs
<1>11. \/ a.at \notin {"end", "marker", "message"}
       \/ /\ Within(d) /\ e.crc = d.covered /\ e.crc # <<>>
          /\ a = [d EXCEPT !.at = "end", !.escaped = FALSE]
       \/ d.at = "end" /\ a = [d EXCEPT !.at = "marker"]
       \/ d.at = "marker" /\ a = [d EXCEPT !.at = "message"]
  <2>1. ASSUME Within(a)
        PROVE  a.at \notin {"end", "marker", "message"}
    BY <2>1 DEF Within, Fields
  <2> HIDE DEF a
  <2> QED
    BY <1>1, <1>5, <2>1, SkipIs, StartIs, AfterIs, Zenon DEF a
<1>12. SUFFICES
         /\ \A i \in 1 .. Len(returned') :
              /\ \E k \in 1 .. Len(sent) : returned'[i] = sent[k]
              /\ \A j \in 1 .. Len(returned') :
                   i < j => returned'[i].sequence < returned'[j].sequence
              /\ \A j \in 1 .. Len(R) : R[j].crc # <<>> =>
                   returned'[i].sequence < FirstSequence + R[j].frame - 1
         /\ r.at \in {"end", "marker"} =>
              /\ \E k \in 1 .. Len(sent) : Has(r, sent[k])
              /\ \A i \in 1 .. Len(returned') : returned'[i].sequence < r.sequence
              /\ \A j \in 1 .. Len(R) : R[j].crc # <<>> =>
                   r.sequence < FirstSequence + R[j].frame - 1
         /\ r.at = "end" => Has(r, sent[r.frame])
  BY <1>2 DEF OrderInv, Has
<1>13. CASE a.at \notin {"end", "marker", "message"}
  <2>1. r.at \notin {"end", "marker"} /\ returned' = returned
    BY <1>6, <1>10, <1>13, SkipIs
  <2> HIDE DEF a, r, R
  <2> QED
    BY <1>9, <2>1
<1>14. CASE /\ Within(d) /\ e.crc = d.covered /\ e.crc # <<>>
            /\ a = [d EXCEPT !.at = "end", !.escaped = FALSE]
  <2>1. /\ a.at = "end" /\ a.type = d.type /\ a.sequence = d.sequence /\ a.body = d.body
    BY <1>1, <1>14 DEF Decoders
  <2>2. e.crc = Covered(sent[c])
    BY <1>1, <1>3, <1>14, ChecksumIs
  <2>3. Has(d, sent[c])
    <3> DEFINE m == sent[c]
    <3>1. Known(m) /\ Within(d) /\ d.covered = Covered(m)
      BY <1>4, <1>14, <2>2
    <3> HIDE DEF m, d
    <3>2. d.type = m.type /\ d.sequence = m.sequence /\ d.body = m.body
      BY <3>1, DecodeWhole
    <3> QED
      BY <3>2 DEF Has, m
  <2>4. r.at = "end" /\ r.frame = c /\ Has(r, sent[c]) /\ returned' = returned
    BY <1>6, <1>10, <2>1, <2>3 DEF Has
  <2>5. r.sequence = FirstSequence + c - 1 /\ r.sequence = sent[c].sequence
    BY <1>4, <2>4 DEF Has
  <2>6. ASSUME NEW j \in 1 .. Len(R), R[j].crc # <<>>
        PROVE  r.sequence < FirstSequence + R[j].frame - 1
    <3> DEFINE f == R[j].frame
    <3>1. f \in Nat /\ c < f
      BY <1>8, <1>14, <2>6
    <3> HIDE DEF f
    <3>2. FirstSequence + c - 1 < FirstSequence + f - 1
      BY <1>4, <3>1
    <3> QED
      BY <2>5, <3>2 DEF f
  <2> HIDE DEF a, r, R, c
  <2> QED
    BY <1>3, <1>9, <1>14, <2>4, <2>5, <2>6
<1>15. CASE d.at = "end" /\ a = [d EXCEPT !.at = "marker"]
  <2>1. /\ a.at = "marker" /\ a.type = d.type /\ a.sequence = d.sequence /\ a.body = d.body
    BY <1>1, <1>15 DEF Decoders
  <2>2. r.at = "marker" /\ r.sequence = d.sequence /\ returned' = returned
        /\ \A m : Has(r, m) <=> Has(d, m)
    BY <1>6, <1>10, <2>1 DEF Has
  <2>3. /\ \E k \in 1 .. Len(sent) : Has(d, sent[k])
        /\ \A i \in 1 .. Len(returned) : returned[i].sequence < d.sequence
        /\ \A j \in 1 .. l : L[j].crc # <<>> =>
             d.sequence < FirstSequence + L[j].frame - 1
    BY <1>1, <1>15 DEF OrderInv
  <2> HIDE DEF a, r, R, L, d
  <2> QED
    BY <1>7, <1>9, <2>2, <2>3
<1>16. CASE d.at = "marker" /\ a = [d EXCEPT !.at = "message"]
  <2>1. a.at = "message"
    BY <1>1, <1>16 DEF Decoders
  <2>2. r.at \notin {"end", "marker"}
    BY <1>10, <2>1, SkipIs
  <2>3. /\ \E k \in 1 .. Len(sent) : Has(d, sent[k])
        /\ \A i \in 1 .. Len(returned) : returned[i].sequence < d.sequence
        /\ \A j \in 1 .. l : L[j].crc # <<>> =>
             d.sequence < FirstSequence + L[j].frame - 1
    BY <1>1, <1>16 DEF OrderInv
  <2>4. PICK k \in 1 .. Len(sent) : Has(d, sent[k])
    BY <2>3
  <2>5. Known(sent[k]) /\ sent[k] \in AllMessages
    BY <1>1, SentIs, AllKnown
  <2>6. Decoded(a) = sent[k]
    BY <1>1, <1>16, <2>4, <2>5, DecodedIs
  <2>7. sent[k].sequence = d.sequence
    BY <2>4 DEF Has
  <2> DEFINE m == sent[k]
             v == returned'
             u == Len(returned)
  <2>8. v = Append(returned, m)
    BY <1>6, <2>1, <2>6
  <2>9. m \in AllMessages /\ u \in Nat
    BY <1>1, <2>5
  <2> HIDE DEF v, m
  <2>10. /\ Len(v) = u + 1 /\ v[u + 1] = m /\ \A i \in 1 .. u : v[i] = returned[i]
    BY <1>1, <2>8, <2>9, AppendProperties
  <2> HIDE DEF u
  <2>11. \A i \in 1 .. u + 1 : i \in 1 .. u \/ i = u + 1
    BY <2>9
  <2>12. \A i \in 1 .. u + 1 : \E n \in 1 .. Len(sent) : v[i] = sent[n]
    BY <1>9, <2>10, <2>11 DEF m, u
  <2>13. ASSUME NEW i \in 1 .. u + 1, NEW j \in 1 .. u + 1, i < j
         PROVE  v[i].sequence < v[j].sequence
    <3>1. i \in 1 .. u
      BY <2>9, <2>13
    <3>2. CASE j \in 1 .. u
      BY <1>9, <2>10, <2>13, <3>1, <3>2 DEF u
    <3>3. CASE j = u + 1
      BY <2>3, <2>7, <2>10, <3>1, <3>3 DEF u, m
    <3> QED
      BY <2>11, <3>2, <3>3
  <2>14. ASSUME NEW i \in 1 .. u + 1, NEW j \in 1 .. Len(R), R[j].crc # <<>>
         PROVE  v[i].sequence < FirstSequence + R[j].frame - 1
    <3>1. CASE i \in 1 .. u
      BY <1>9, <2>10, <2>14, <3>1 DEF u
    <3>2. CASE i = u + 1
      <4>1. R[j] = L[j + 1] /\ j + 1 \in 1 .. l
        BY <1>7
      <4> HIDE DEF R, L
      <4> QED
        BY <2>3, <2>7, <2>10, <2>14, <3>2, <4>1 DEF m
    <3> QED
      BY <2>11, <3>1, <3>2
  <2> HIDE DEF r, R
  <2> QED
    BY <2>2, <2>10, <2>12, <2>13, <2>14 DEF v
<1> QED
  BY <1>11, <1>13, <1>14, <1>15, <1>16

\* A read keeps the types.
LEMMA TakeKeepsTypes ==
  ASSUME StreamInv, NEW e, Takes(e)
  PROVE  StreamTypeOK'
<1>1. StreamTypeOK /\ LineInv
  BY DEF StreamInv
<1>2. OrderInv'
  BY TakeKeepsOrder
<1>3. /\ receive_deque' \in Seq(Elements) /\ wire' \in Seq(Elements)
      /\ Len(wire') <= SocketCapacity /\ UNCHANGED hits
  BY DEF Takes
<1>4. /\ Valid(decoder') /\ sent' = sent /\ cut' = cut /\ parameters' = parameters
      /\ reports' \in [1 .. MaxFrames -> Nat]
  BY <1>1, TakeIs
<1>5. returned' \in Seq(AllMessages)
  <2>1. returned' = IF After(decoder, e).at = "message"
                    THEN Append(returned, Decoded(After(decoder, e))) ELSE returned
    BY ReceiveIs DEF Takes
  <2>2. returned \in Seq(AllMessages) /\ sent \in Seq(AllMessages)
    BY <1>1 DEF StreamTypeOK
  <2> DEFINE x == Decoded(After(decoder, e))
             out == After(decoder, e).at = "message"
  <2> HIDE DEF x, out
  <2>3. CASE ~out
    BY <2>1, <2>2, <2>3 DEF out
  <2>4. CASE out
    <3>1. returned' = Append(returned, x)
      BY <2>1, <2>4 DEF x, out
    <3> DEFINE u == Len(returned)
    <3>2. u \in Nat /\ Len(returned') = u + 1 /\ returned'[u + 1] = x
      BY <2>2, <3>1, AppendProperties
    <3>3. u + 1 \in 1 .. u + 1
      <4> HIDE DEF u
      <4> QED
        BY <3>2
    <3>4. \E k \in 1 .. Len(sent') : returned'[u + 1] = sent'[k]
      BY <1>2, <3>2, <3>3 DEF OrderInv
    <3>5. x \in AllMessages
      BY <1>4, <2>2, <3>2, <3>4
    <3> QED
      BY <2>2, <3>1, <3>5
  <2> QED
    BY <2>3, <2>4
<1> QED
  BY <1>1, <1>3, <1>4, <1>5 DEF StreamTypeOK

\* A byte of the line that is read keeps the invariant.
LEMMA TakeKeeps ==
  ASSUME StreamInv, NEW e, Takes(e)
  PROVE  StreamInv'
<1>1. StreamTypeOK /\ LineInv
  BY DEF StreamInv
<1> QED
  BY <1>1, TakeKeepsTypes, RestIsLine, TakeKeepsOrder, TakeKeepsFrame,
     TakeKeepsWithin, TakeKeepsRead, TakeKeepsUnread DEF StreamInv

-----------------------------------------------------------------------------
(* A read that finds nothing. *)

Nothing == [byte |-> IF decoder.escaped THEN Escape ELSE 0, crc |-> <<>>,
            frame |-> decoder.frame, place |-> 0]

\* A read that finds nothing never completes a message.
LEMMA NothingIs ==
  ASSUME StreamInv, ReadsNothing
  PROVE  /\ decoder.at # "skip" /\ decoder.frame \in 1 .. Len(sent)
         /\ decoder.frame \in 1 .. MaxFrames
         /\ decoder' = Then(decoder, Nothing) /\ Valid(decoder')
         /\ After(decoder, Nothing).at = "invalid" \/ Within(decoder')
         /\ decoder.at \in {"end", "marker"} => After(decoder, Nothing).at = "invalid"
         /\ After(decoder, Nothing).at = "invalid" => decoder' = Skip
         /\ decoder'.at # "skip" => decoder'.frame = decoder.frame
         /\ reports' = IF After(decoder, Nothing).at = "invalid"
                       THEN [reports EXCEPT ![decoder.frame] = @ + 1] ELSE reports
         /\ returned' = returned
         /\ hits' = [hits EXCEPT ![decoder.frame] = 1 + (IF @ = 0 THEN 0 ELSE 1)]
         /\ UNCHANGED <<parameters, sent, cut, wire, receive_deque>>
<1> DEFINE d == decoder
           e == Nothing
           a == After(d, e)
<1>1. /\ StreamTypeOK /\ FrameInv /\ Valid(d) /\ d \in Decoders
  BY DEF StreamInv, StreamTypeOK, Valid
<1>2. /\ d.at # "skip" /\ Receive(e)
      /\ hits' = [hits EXCEPT ![d.frame] = 1 + (IF @ = 0 THEN 0 ELSE 1)]
      /\ UNCHANGED <<wire, receive_deque>>
  BY DEF ReadsNothing, Nothing
<1>3. d.frame \in 1 .. Len(sent) /\ d.frame \in 1 .. MaxFrames /\ d.frame \in Nat
  <2>1. d.frame \in 1 .. Len(sent)
    BY <1>1, <1>2 DEF FrameInv
  <2> QED
    BY <1>1, <2>1, SentIs
<1>4. /\ e.byte \in Bytes /\ e.byte \notin {Flag, EndMarker} /\ e.crc = <<>>
      /\ e.frame = d.frame
  BY ByteAssumption DEF Nothing, Bytes
<1> HIDE DEF e
<1>5. a = Thrown \/ Within(a)
  <2>1. ~(e.crc # <<>>)
    BY <1>4
  <2> HIDE DEF a
  <2> QED
    BY <1>1, <1>2, <1>4, <2>1, AfterIs, Zenon DEF a
<1>6. Within(a) => a.at \notin {"invalid", "message", "skip"}
  BY DEF Within, Fields
<1>7. /\ decoder' = Then(d, e)
      /\ reports' = IF a.at = "invalid"
                    THEN [reports EXCEPT ![e.frame] = @ + 1] ELSE reports
      /\ returned' = IF a.at = "message" THEN Append(returned, Decoded(a)) ELSE returned
      /\ UNCHANGED <<parameters, sent, cut>>
  BY <1>2, ReceiveIs
<1>8. /\ Valid(decoder')
      /\ a.at \in {"invalid", "message"} => decoder' = Skip
      /\ a.at \notin {"invalid", "message"} =>
           decoder'.frame = d.frame /\ decoder'.at = a.at
           /\ (Within(a) => Within(decoder'))
  <2> HIDE DEF d
  <2>1. d.frame \in Nat
    BY <1>3
  <2> QED
    BY <1>1, <1>4, <1>7, <2>1, ThenIs
<1>9. d.at \in {"end", "marker"} => a.at = "invalid"
  <2>1. d.at \in {"end", "marker"} => a = Thrown
    BY <1>4 DEF After, DecodeByte
  <2> QED
    BY <2>1, SkipIs
<1> HIDE DEF a
<1>10. a.at # "message" /\ (a.at = "invalid" \/ Within(decoder'))
  BY <1>5, <1>6, <1>8, SkipIs
<1>11. decoder'.at # "skip" => decoder'.frame = d.frame
  BY <1>8, SkipIs
<1> QED
  BY <1>2, <1>3, <1>4, <1>7, <1>8, <1>9, <1>10, <1>11 DEF a, e

\* It counts as a hit in the frame, which can only add to it.
LEMMA NothingHits ==
  ASSUME StreamInv, ReadsNothing
  PROVE  /\ hits' \in [1 .. MaxFrames -> 0 .. 2]
         /\ hits'[decoder.frame] > 0
         /\ hits'[decoder.frame] < 2 => hits[decoder.frame] = 0
         /\ \A k \in 1 .. MaxFrames : /\ k # decoder.frame => hits'[k] = hits[k]
                                      /\ hits[k] > 0 => hits'[k] > 0
                                      /\ hits[k] > 1 => hits'[k] > 1
         /\ \A k \in 1 .. MaxFrames : MayRunOn(k) => MayRunOn(k)'
         /\ \A k \in 1 .. MaxFrames : MayRunOn(k - 1) => MayRunOn(k - 1)'
         /\ reports' \in [1 .. MaxFrames -> Nat]
         /\ \A k \in 1 .. MaxFrames : /\ k # decoder.frame => reports'[k] = reports[k]
                                      /\ reports[k] > 0 => reports'[k] > 0
         /\ After(decoder, Nothing).at = "invalid" => reports'[decoder.frame] > 0
<1> DEFINE f == decoder.frame
           inv == After(decoder, Nothing).at = "invalid"
<1>1. /\ hits \in [1 .. MaxFrames -> 0 .. 2] /\ reports \in [1 .. MaxFrames -> Nat]
      /\ MaxFrames \in Nat
  BY LineAssumption DEF StreamInv, StreamTypeOK
<1>2. /\ f \in 1 .. MaxFrames
      /\ hits' = [hits EXCEPT ![f] = 1 + (IF @ = 0 THEN 0 ELSE 1)]
      /\ reports' = IF inv THEN [reports EXCEPT ![f] = @ + 1] ELSE reports
      /\ cut' = cut
  BY NothingIs
<1> HIDE DEF f, inv
<1> DEFINE x == 1 + (IF hits[f] = 0 THEN 0 ELSE 1)
<1>3. x \in 1 .. 2 /\ hits[f] \in 0 .. 2 /\ (x < 2 => hits[f] = 0)
      /\ (hits[f] > 1 => x > 1)
  BY <1>1, <1>2
<1>4. hits' = [hits EXCEPT ![f] = x]
  BY <1>2
<1> HIDE DEF x
<1>5. /\ hits' \in [1 .. MaxFrames -> 0 .. 2] /\ hits'[f] = x
      /\ \A k \in 1 .. MaxFrames : k # f => hits'[k] = hits[k]
  <2>1. x \in 0 .. 2
    BY <1>3
  <2> QED
    BY <1>1, <1>2, <1>4, <2>1
<1>6. \A k \in 1 .. MaxFrames : /\ hits[k] > 0 => hits'[k] > 0
                                /\ hits[k] > 1 => hits'[k] > 1
  <2> TAKE k \in 1 .. MaxFrames
  <2>1. CASE k = f
    BY <1>3, <1>5, <2>1
  <2>2. CASE k # f
    BY <1>5, <2>2
  <2> QED
    BY <2>1, <2>2
<1>7. ASSUME NEW k \in 0 .. MaxFrames, MayRunOn(k)
      PROVE  MayRunOn(k)'
  <2>1. RunsOn(hits, cut, k) /\ k \in Int
    BY <1>7, RunsOnIs
  <2>2. \A i \in 1 .. k : /\ i \in cut => i \in cut'
                          /\ hits[i] > 0 => hits'[i] > 0
                          /\ hits[i] > 1 => hits'[i] > 1
    <3>1. \A i \in 1 .. k : i \in 1 .. MaxFrames
      BY <1>1
    <3> QED
      BY <1>2, <1>6, <3>1
  <2>3. RunsOn(hits', cut', k)
    BY <2>1, <2>2, RunsOnMore
  <2> QED
    BY <2>3, RunsOnIs
<1>8. \A k \in 1 .. MaxFrames : k \in 0 .. MaxFrames /\ k - 1 \in 0 .. MaxFrames
  BY <1>1
<1>9. /\ reports' \in [1 .. MaxFrames -> Nat]
      /\ \A k \in 1 .. MaxFrames : /\ k # f => reports'[k] = reports[k]
                                   /\ reports[k] > 0 => reports'[k] > 0
      /\ inv => reports'[f] > 0
  <2>1. CASE ~inv
    BY <1>1, <1>2, <2>1
  <2>2. CASE inv
    <3>1. reports' = [reports EXCEPT ![f] = reports[f] + 1] /\ reports[f] \in Nat
      BY <1>1, <1>2, <2>2
    <3> QED
      BY <1>1, <1>2, <3>1
  <2> QED
    BY <2>1, <2>2
<1> QED
  BY <1>3, <1>5, <1>6, <1>7, <1>8, <1>9 DEF f, inv

\* It keeps the invariant.
LEMMA NothingKeeps ==
  ASSUME StreamInv, ReadsNothing
  PROVE  StreamInv'
<1>1. PICK f : f = decoder.frame
  OBVIOUS
<1>2. /\ StreamTypeOK /\ LineInv /\ OrderInv /\ FrameInv /\ WithinInv /\ ReadInv
      /\ UnreadInv
  BY DEF StreamInv
<1>3. /\ decoder.at # "skip" /\ f \in 1 .. Len(sent) /\ f \in 1 .. MaxFrames
      /\ Valid(decoder')
      /\ After(decoder, Nothing).at = "invalid" \/ Within(decoder')
      /\ decoder.at \in {"end", "marker"} => After(decoder, Nothing).at = "invalid"
      /\ After(decoder, Nothing).at = "invalid" => decoder' = Skip
      /\ decoder'.at # "skip" => decoder'.frame = f
      /\ returned' = returned
      /\ UNCHANGED <<parameters, sent, cut, wire, receive_deque>>
  BY <1>1, NothingIs
<1>4. /\ hits' \in [1 .. MaxFrames -> 0 .. 2]
      /\ hits'[f] > 0 /\ (hits'[f] < 2 => hits[f] = 0)
      /\ \A k \in 1 .. MaxFrames : /\ k # f => hits'[k] = hits[k]
                                   /\ hits[k] > 0 => hits'[k] > 0
                                   /\ hits[k] > 1 => hits'[k] > 1
      /\ \A k \in 1 .. MaxFrames : MayRunOn(k) => MayRunOn(k)'
      /\ \A k \in 1 .. MaxFrames : MayRunOn(k - 1) => MayRunOn(k - 1)'
      /\ reports' \in [1 .. MaxFrames -> Nat]
      /\ \A k \in 1 .. MaxFrames : /\ k # f => reports'[k] = reports[k]
                                   /\ reports[k] > 0 => reports'[k] > 0
      /\ After(decoder, Nothing).at = "invalid" => reports'[f] > 0
  BY <1>1, NothingHits
<1>5. /\ Line' = Line /\ sent' = sent /\ cut' = cut
      /\ \A k : Length(k)' = Length(k)
      /\ \A k : DamageAhead(k)' <=> DamageAhead(k)
      /\ \A k : Unread(k)' <=> Unread(k)
  <2>1. Line' = Line
    BY <1>3 DEF Line
  <2> QED
    BY <1>3, <2>1 DEF Length, DamageAhead, Unread, Damaged
<1>6. \A k \in 1 .. Len(sent) : k \in 1 .. MaxFrames
  BY <1>2, SentIs
<1>7. MaxFrames \in Nat /\ \A k \in 1 .. MaxFrames : hits[k] \in 0 .. 2 /\ hits'[k] \in 0 .. 2
  <2>1. hits \in [1 .. MaxFrames -> 0 .. 2]
    BY <1>2 DEF StreamTypeOK
  <2> QED
    BY <1>4, <2>1, LineAssumption
<1>8. StreamTypeOK'
  BY <1>2, <1>3, <1>4 DEF StreamTypeOK
<1>9. LineInv'
  <2>1. ASSUME NEW i \in 1 .. Len(Line)
        PROVE  Genuine(Line[i])' /\ (Damaged(Line[i])' <=> Damaged(Line[i]))
               /\ (Ends(Line[i])' <=> Ends(Line[i]))
               /\ (hits'[Line[i].frame] = 1 =>
                     hits[Line[i].frame] = 1 \/ ~Damaged(Line[i]))
    <3> DEFINE x == Line[i]
               k == x.frame
    <3>1. Genuine(x)
      BY <1>2 DEF LineInv
    <3>2. k \in 1 .. MaxFrames
      BY <1>6, <3>1 DEF Genuine
    <3>3. Damaged(Line[i])' <=> Damaged(x)
      BY <1>5 DEF Damaged
    <3>4. Ends(Line[i])' <=> Ends(x)
      BY <1>5 DEF Ends, Length
    <3>5. (hits'[k] = 0 => hits[k] = 0)
          /\ (hits'[k] = 1 => hits[k] = 1 \/ hits[k] = 0)
      <4> HIDE DEF k
      <4>1. hits[k] \in 0 .. 2 /\ hits'[k] \in 0 .. 2
        BY <1>7, <3>2
      <4> QED
        BY <1>4, <3>2, <4>1
    <3>6. hits'[k] = 1 => hits[k] = 1 \/ ~Damaged(x)
      BY <3>1, <3>5 DEF Genuine
    <3>7. Genuine(Line[i])'
      <4>1. x.crc # <<>> \/ hits'[k] = 0 => ~Damaged(x)
        BY <3>1, <3>5 DEF Genuine
      <4>2. x.frame \in 1 .. Len(sent) /\ x.place \in 1 .. Length(x.frame)
        BY <3>1 DEF Genuine
      <4> QED
        BY <1>5, <3>3, <4>1, <4>2 DEF Genuine, Length
    <3> QED
      BY <3>3, <3>4, <3>6, <3>7
  <2> DEFINE L == Line
             l == Len(L)
  <2>2. /\ \A i \in 1 .. l : Genuine(Line[i])'
        /\ \A i, j \in 1 .. l :
            /\ L[i].frame = L[j].frame /\ hits'[L[i].frame] = 1
            /\ Damaged(Line[i])' /\ Damaged(Line[j])'
            => i = j
    <3>1. \A i, j \in 1 .. l :
            /\ L[i].frame = L[j].frame /\ hits[L[i].frame] = 1
            /\ Damaged(L[i]) /\ Damaged(L[j])
            => i = j
      BY <1>2 DEF LineInv
    <3>2. \A i \in 1 .. l : Genuine(Line[i])'
      BY <2>1
    <3>3. ASSUME NEW i \in 1 .. l, NEW j \in 1 .. l,
                 L[i].frame = L[j].frame, hits'[L[i].frame] = 1,
                 Damaged(Line[i])', Damaged(Line[j])'
          PROVE  i = j
      <4>1. Damaged(L[i]) /\ Damaged(L[j]) /\ hits[L[i].frame] = 1
        BY <2>1, <3>3
      <4> QED
        BY <3>1, <3>3, <4>1
    <3> QED
      BY <3>2, <3>3
  <2>3. \A i \in 1 .. l - 1 : Follows(Line[i], Line[i + 1])'
    <3> SUFFICES ASSUME NEW i \in 1 .. l - 1
                 PROVE  Follows(Line[i], Line[i + 1])'
      OBVIOUS
    <3>1. Follows(Line[i], Line[i + 1])
      BY <1>2 DEF LineInv
    <3> QED
      BY <1>5, <3>1 DEF Follows, Ends, Length
  <2>4. \A i, j \in 1 .. l : i < j => Before(Line[i], Line[j])'
    BY <1>2, <1>5 DEF LineInv, Before
  <2>5. L # <<>> => /\ Ends(Line[Len(Line)])'
                    /\ L[l].frame + 1 .. Len(sent') \subseteq cut'
    BY <1>2, <1>5 DEF LineInv, Ends, Length
  <2>6. Line' = L
    BY <1>5
  <2> HIDE DEF L
  <2> QED
    BY <2>2, <2>3, <2>4, <2>5, <2>6 DEF LineInv
<1>10. decoder'.at \notin {"end", "marker"}
  BY <1>3, SkipIs DEF Within, Fields
<1>11. OrderInv'
  BY <1>2, <1>3, <1>5, <1>10 DEF OrderInv
<1>12. FrameInv'
  <2>1. SUFFICES ASSUME decoder'.at # "skip"
                 PROVE  /\ decoder'.frame \in 1 .. Len(sent')
                        /\ Line' = <<>> => /\ decoder'.frame + 1 .. Len(sent') \subseteq cut'
                                           /\ MayRunOn(decoder.frame)'
                        /\ Line' # <<>> =>
                             \/ Line'[1].place > 1 /\ decoder'.frame = Line'[1].frame
                             \/ /\ Line'[1].place = 1 /\ decoder'.frame < Line'[1].frame
                                /\ decoder'.frame + 1 .. Line'[1].frame - 1 \subseteq cut'
                                /\ MayRunOn(decoder.frame)'
    BY DEF FrameInv
  <2>2. decoder'.frame = f
    BY <1>3, <2>1
  <2>3. MayRunOn(f)' <=> MayRunOn(decoder.frame)'
    BY <1>1, <2>2 DEF MayRunOn
  <2>4. MayRunOn(f) => MayRunOn(f)'
    BY <1>3, <1>4
  <2> QED
    BY <1>1, <1>2, <1>3, <1>5, <2>2, <2>3, <2>4 DEF FrameInv
<1>13. WithinInv'
  <2>1. SUFFICES ASSUME Line # <<>>, Line[1].place > 1, ~MayRunOn(Line[1].frame)'
                 PROVE  LET c == Line[1].frame
                            q == Line[1].place
                        IN /\ ~DamageAhead(c) =>
                                /\ q = Length(c) - 1 => BeforeFlag(decoder')
                                /\ q = Length(c) =>
                                     BeforeMarker(decoder', sent[c], reports'[c] > 0)
                           /\ ~MayRunOn(Line[1].frame - 1)'
                              /\ (hits'[c] = 0 \/ DamageAhead(c)) =>
                                Exact(decoder', sent[c], q - 1) /\ reports'[c] = 0
    <3>1. Length(Line[1].frame)' = Length(Line[1].frame)
      BY <1>5 DEF Length
    <3>2. DamageAhead(Line[1].frame)' <=> DamageAhead(Line[1].frame)
      BY <1>5 DEF DamageAhead, Damaged
    <3> QED
      BY <1>5, <3>1, <3>2 DEF WithinInv
  <2>2. Line[1].frame = f
    BY <1>1, <1>2, <1>3, <2>1 DEF FrameInv
  <2>3. hits' \in [1 .. MaxFrames -> 0 .. 2] /\ MaxFrames \in Nat /\ f \in 1 .. MaxFrames
    BY <1>3, <1>4, <1>7
  <2>4. ~MayRunOn(f)' /\ (MayRunOn(Line[1].frame - 1)' <=> MayRunOn(f - 1)')
    <3>1. Line'[1].frame = f
      BY <1>5, <2>2
    <3> QED
      BY <2>1, <3>1 DEF MayRunOn
  <2>5. hits'[f] < 2 /\ ~MayRunOn(f - 1)' /\ hits[f] = 0
    <3>1. /\ f \in cut' \/ hits'[f] > 1 => RunsOn(hits', cut', f)
          /\ RunsOn(hits', cut', f - 1) /\ (f \in cut' \/ hits'[f] > 0)
               => RunsOn(hits', cut', f)
      BY <2>3, RunsOnFacts
    <3>2. ~RunsOn(hits', cut', f) /\ (RunsOn(hits', cut', f - 1) <=> MayRunOn(f - 1)')
      BY <2>4, RunsOnIs
    <3>3. ~(hits'[f] > 1) /\ hits'[f] \in 0 .. 2
      BY <2>3, <3>1, <3>2
    <3>4. hits'[f] < 2
      BY <3>3
    <3> QED
      BY <1>4, <3>1, <3>2, <3>4
  <2>6. ~MayRunOn(f - 1) /\ ~MayRunOn(f)
    BY <1>3, <1>4, <2>4, <2>5
  <2>7. Exact(decoder, sent[f], Line[1].place - 1) /\ reports[f] = 0
    BY <1>2, <2>1, <2>2, <2>5, <2>6 DEF WithinInv
  <2>8. ~DamageAhead(f)
    <3>1. SUFFICES ASSUME NEW i \in 1 .. Len(Line), Line[i].frame = f, Damaged(Line[i])
                   PROVE  FALSE
      BY DEF DamageAhead
    <3>2. Genuine(Line[i])
      BY <1>2 DEF LineInv
    <3> QED
      BY <2>5, <3>1, <3>2 DEF Genuine
  <2> DEFINE n == Len(Covered(sent[f]))
             q == Line[1].place
  <2>9. n \in Nat /\ Length(f) = n + 4
    BY <1>2, <1>3, SentIs
  <2>10. ASSUME q = Length(f) - 1
         PROVE  BeforeFlag(decoder')
    <3>1. q - 1 = n + 2
      <4> HIDE DEF n
      <4> QED
        BY <2>9, <2>10
    <3>2. decoder.at = "end"
      BY <2>7, <3>1 DEF Exact
    <3> QED
      BY <1>3, <3>2, SkipIs DEF BeforeFlag
  <2>11. ASSUME q = Length(f)
         PROVE  BeforeMarker(decoder', sent[f], reports'[f] > 0)
    <3>1. q - 1 = n + 3
      <4> HIDE DEF n
      <4> QED
        BY <2>9, <2>11
    <3>2. decoder.at = "marker"
      BY <2>7, <3>1 DEF Exact
    <3> QED
      BY <1>3, <1>4, <3>2, SkipIs DEF BeforeMarker
  <2>12. hits'[f] # 0
    BY <1>4, <1>7, <1>3
  <2> QED
    BY <2>2, <2>8, <2>10, <2>11, <2>12
<1>14. ReadInv'
  <2>1. SUFFICES ASSUME NEW c \in 1 .. Len(sent), ~MayRunOn(c)', ~Unread(c)
                 PROVE  /\ \/ \E i \in 1 .. Len(returned) : returned[i] = sent[c]
                           \/ reports'[c] > 0
                        /\ hits'[c] = 0 /\ ~MayRunOn(c - 1)' => reports'[c] = 0
    BY <1>3, <1>5 DEF ReadInv
  <2>2. c \in 1 .. MaxFrames
    BY <1>6
  <2>3. ~MayRunOn(c)
    BY <1>4, <2>1, <2>2
  <2>4. /\ (\E i \in 1 .. Len(returned) : returned[i] = sent[c]) \/ reports[c] > 0
        /\ hits[c] = 0 /\ ~MayRunOn(c - 1) => reports[c] = 0
    BY <1>2, <2>1, <2>3 DEF ReadInv
  <2>5. ASSUME hits'[c] = 0, ~MayRunOn(c - 1)'
        PROVE  reports'[c] = 0
    <3>1. c # f
      BY <1>4, <2>5
    <3>2. hits[c] = 0 /\ ~MayRunOn(c - 1) /\ reports'[c] = reports[c]
      BY <1>4, <2>2, <2>5, <3>1
    <3> QED
      BY <2>4, <3>2
  <2> QED
    BY <1>4, <2>2, <2>4, <2>5
<1>15. UnreadInv'
  <2>1. SUFFICES ASSUME NEW c \in 1 .. MaxFrames,
                        \/ c > Len(sent)
                        \/ /\ Line # <<>>
                           /\ Line[1].frame < c \/ (Line[1].frame = c /\ Line[1].place = 1)
                 PROVE  reports'[c] = 0
    BY <1>5 DEF UnreadInv
  <2>2. c # f
    <3>1. CASE c > Len(sent)
      <4>1. Len(sent) \in Nat
        <5>1. sent \in Seq(AllMessages)
          BY <1>2 DEF StreamTypeOK
        <5> QED
          BY <5>1
      <4> QED
        BY <1>3, <3>1, <4>1
    <3>2. CASE Line # <<>> /\ Line[1].frame < c
      <4>1. f = Line[1].frame \/ f < Line[1].frame
        BY <1>1, <1>2, <1>3, <3>2 DEF FrameInv
      <4>2. Line[1].frame \in 1 .. Len(sent)
        <5>1. 1 \in 1 .. Len(Line)
          <6>1. Line \in Seq(Elements)
            <7>1. receive_deque \in Seq(Elements) /\ wire \in Seq(Elements)
              BY <1>2 DEF StreamTypeOK
            <7> QED
              BY <7>1, Joined DEF Line
          <6> DEFINE L == Line
          <6>2. L \in Seq(Elements) /\ L # <<>>
            BY <3>2, <6>1
          <6> HIDE DEF L
          <6>3. 1 \in 1 .. Len(L)
            BY <6>2
          <6> QED
            BY <6>3 DEF L
        <5> QED
          BY <1>2, <5>1 DEF LineInv, Genuine
      <4> DEFINE x == Line[1].frame
      <4>3. x \in 1 .. Len(sent) /\ (f = x \/ f < x) /\ x < c
        BY <3>2, <4>1, <4>2
      <4> HIDE DEF x
      <4> QED
        BY <1>3, <4>3
    <3>3. CASE Line # <<>> /\ Line[1].frame = c /\ Line[1].place = 1
      <4>1. f < Line[1].frame
        BY <1>1, <1>2, <1>3, <3>3 DEF FrameInv
      <4> QED
        BY <3>3, <4>1
    <3> QED
      BY <2>1, <3>1, <3>2, <3>3
  <2>3. reports[c] = 0
    BY <1>2, <2>1 DEF UnreadInv
  <2> QED
    BY <1>4, <2>2, <2>3
<1> QED
  BY <1>8, <1>9, <1>11, <1>12, <1>13, <1>14, <1>15 DEF StreamInv

-----------------------------------------------------------------------------
(* A message is sent. *)

\* Frame k of message m is on the line, as far as the socket took it: g.
Adds(m, k, g) ==
  /\ k = Len(sent) + 1 /\ k \in 1 .. MaxFrames
  /\ Known(m) /\ m.sequence = FirstSequence + k - 1
  /\ sent' = Append(sent, m)
  /\ g \in Seq(Elements) /\ Len(g) <= Len(Covered(m)) + 4
  /\ Line \in Seq(Elements) /\ Line' = Line \o g
  /\ wire' \in Seq(Elements) /\ Len(wire') <= SocketCapacity
  /\ \A i \in 1 .. Len(g) :
       /\ g[i].frame = k /\ g[i].place = i
       /\ g[i] = Encode(m, k)[i] \/ (g[i].crc = <<>> /\ hits'[k] # 0)
       /\ \A j \in 1 .. Len(g) :
            /\ g[i] # Encode(m, k)[i] /\ g[j] # Encode(m, k)[j]
            /\ hits'[k] = 1
            => i = j
  /\ hits' \in [1 .. MaxFrames -> 0 .. 2]
  /\ \A c \in 1 .. MaxFrames : c # k => hits'[c] = hits[c]
  /\ cut' = IF Len(g) < Len(Covered(m)) + 4 THEN cut \cup {k} ELSE cut
  /\ UNCHANGED <<parameters, receive_deque, decoder, returned, reports>>

\* The simulator damages an element or leaves it alone.
LEMMA FilterIs ==
  ASSUME NEW sim, NEW e \in Elements, parameters.offset \in Nat
  PROVE  /\ Filter(sim, e) \in Elements
         /\ Filter(sim, e).frame = e.frame /\ Filter(sim, e).place = e.place
         /\ sim.next_error # 0 => Filter(sim, e) = e
         /\ sim.next_error = 0 => Filter(sim, e).crc = <<>>
<1>1. ByteModulus \in Nat \ {0} /\ e.byte \in Nat
  BY ByteAssumption DEF Elements, Bytes
<1>2. (e.byte + parameters.offset) % ByteModulus \in Bytes
  <2> DEFINE b == e.byte + parameters.offset
  <2>1. b \in Nat
    BY <1>1
  <2> HIDE DEF b
  <2>2. b % ByteModulus \in 0 .. ByteModulus - 1
    BY <1>1, <2>1
  <2> QED
    BY <2>2 DEF Bytes, b
<1>3. <<>> \in Seq(Bytes)
  OBVIOUS
<1> DEFINE r == [e EXCEPT !.byte = (@ + parameters.offset) % ByteModulus,
                          !.crc = <<>>]
<1>4. /\ r \in Elements /\ r.frame = e.frame /\ r.place = e.place /\ r.crc = <<>>
  BY <1>2, <1>3 DEF Elements
<1>5. Filter(sim, e) = IF sim.next_error = 0 THEN r ELSE e
  BY DEF Filter
<1> HIDE DEF r
<1> QED
  BY <1>4, <1>5

\* SendMessage adds a frame behind the line.
LEMMA SendsAdds ==
  ASSUME StreamTypeOK, Sends
  PROVE  \E m, k, g : Adds(m, k, g)
<1>1. PICK m \in Messages(FirstSequence + Len(sent)) : SendMessage(m)
  BY DEF Sends
<1> DEFINE k == Len(sent) + 1
           f == Encode(m, k)
           sim == Filtering(Len(f))
           room == SocketCapacity - Len(wire)
           taken == IF Len(f) <= room THEN Len(f) ELSE room
           damaged == {i \in DOMAIN f : sim[i - 1].next_error = 0}
           g == [i \in 1 .. taken |-> Filter(sim[i - 1], f[i])]
           n == Len(Covered(m))
<1>2. /\ sent' = Append(sent, m)
      /\ wire' = wire \o g
      /\ hits' = [hits EXCEPT ![k] = LeastOf(Cardinality(damaged), 2)]
      /\ cut' = IF taken < Len(f) THEN cut \cup {k} ELSE cut
      /\ UNCHANGED <<parameters, receive_deque, decoder, returned, reports>>
  BY <1>1, Zenon DEF SendMessage
<1>3. k \in 1 .. MaxFrames /\ Len(sent) \in Nat
  <2>1. Len(sent) < MaxFrames /\ sent \in Seq(AllMessages)
    BY DEF Sends, StreamTypeOK
  <2> DEFINE ls == Len(sent)
  <2>2. ls \in Nat /\ ls < MaxFrames
    BY <2>1
  <2> HIDE DEF ls
  <2>3. ls + 1 \in 1 .. MaxFrames
    BY <2>2, LineAssumption
  <2> QED
    BY <2>2, <2>3 DEF ls
<1>4. Known(m) /\ m.sequence = FirstSequence + k - 1
  <2> DEFINE q == FirstSequence + Len(sent)
  <2>1. q \in 0 .. Power[SequenceLength] - 1
    <3>1. Power[SequenceLength] \in Nat
      BY ByteAssumption, PowerIs
    <3> DEFINE p == Power[SequenceLength]
               ls == Len(sent)
    <3>2. p \in Nat /\ FirstSequence + MaxFrames <= p /\ ls \in Nat
          /\ ls + 1 \in 1 .. MaxFrames /\ MaxFrames \in Nat /\ FirstSequence \in Nat
      BY <1>3, <3>1, MessageAssumption, LineAssumption
    <3> HIDE DEF p, ls
    <3>3. FirstSequence + ls \in 0 .. p - 1
      BY <3>2
    <3> QED
      BY <3>3 DEF p, ls
  <2>2. m.sequence = q
    BY DEF Messages
  <2>3. q = FirstSequence + k - 1
    <3> DEFINE ls == Len(sent)
    <3>1. ls \in Nat /\ FirstSequence \in Nat
      BY <1>3, MessageAssumption
    <3> HIDE DEF ls
    <3>2. FirstSequence + ls = FirstSequence + (ls + 1) - 1
      BY <3>1
    <3> QED
      BY <3>2 DEF ls
  <2> HIDE DEF q
  <2> QED
    BY <2>1, <2>2, <2>3 DEF Known, q
<1>5. /\ f \in Seq(Elements) /\ Len(f) = n + 4 /\ n \in Nat
      /\ \A p \in 1 .. n + 4 : f[p].frame = k /\ f[p].place = p
  <2> HIDE DEF k, f, n
  <2>1. k \in Nat
    BY <1>3
  <2> QED
    BY <1>4, <2>1, EncodeIs, CoveredLength DEF f, n
<1> HIDE DEF k, f, n
<1>6. taken \in 0 .. n + 4 /\ taken <= room /\ Len(wire) \in Nat
  <2>1. wire \in Seq(Elements) /\ Len(wire) <= SocketCapacity
    BY DEF StreamTypeOK
  <2> DEFINE lw == Len(wire)
  <2>2. lw \in Nat /\ lw <= SocketCapacity /\ SocketCapacity \in Nat
    BY <2>1, LineAssumption
  <2> HIDE DEF lw
  <2>3. SocketCapacity - lw \in Nat
    BY <2>2
  <2> DEFINE r == SocketCapacity - lw
             t == IF n + 4 <= r THEN n + 4 ELSE r
  <2>4. r \in Nat
    BY <2>3
  <2> HIDE DEF r
  <2>5. t \in 0 .. n + 4 /\ t <= r
    BY <1>5, <2>4
  <2> QED
    BY <1>5, <2>2, <2>5 DEF t, r, lw
<1>7. DOMAIN f = 1 .. n + 4 /\ \A i \in 1 .. n + 4 : f[i] \in Elements
  BY <1>5
<1>8. parameters.offset \in Nat /\ hits \in [1 .. MaxFrames -> 0 .. 2]
  BY DEF StreamTypeOK
<1>9. Len(wire) + taken <= SocketCapacity
  <2> DEFINE lw == Len(wire)
  <2>1. lw \in Nat /\ taken \in Nat /\ taken <= SocketCapacity - lw /\ SocketCapacity \in Nat
    BY <1>5, <1>6, LineAssumption
  <2> HIDE DEF lw, taken
  <2>2. lw + taken <= SocketCapacity
    BY <2>1
  <2> QED
    BY <2>2 DEF lw
<1> HIDE DEF sim, taken
<1>10. ASSUME NEW i \in 1 .. taken
       PROVE  /\ g[i] \in Elements /\ g[i].frame = k /\ g[i].place = i
              /\ i \notin damaged => g[i] = f[i]
              /\ i \in damaged => g[i].crc = <<>>
  <2>1. i \in 1 .. n + 4
    BY <1>5, <1>6
  <2>2. f[i] \in Elements /\ f[i].frame = k /\ f[i].place = i
    BY <1>5, <1>7, <2>1
  <2>3. g[i] = Filter(sim[i - 1], f[i])
    OBVIOUS
  <2>4. i \in damaged <=> sim[i - 1].next_error = 0
    BY <1>7, <2>1
  <2> HIDE DEF g, damaged
  <2> QED
    BY <1>8, <2>2, <2>3, <2>4, FilterIs
<1>11. g \in Seq(Elements) /\ Len(g) = taken
  <2>1. g \in [1 .. taken -> Elements] /\ taken \in Nat
    BY <1>5, <1>6, <1>10
  <2> HIDE DEF g
  <2> QED
    BY <2>1
<1> HIDE DEF g
<1>12. Line \in Seq(Elements) /\ Line' = Line \o g /\ wire' \in Seq(Elements)
       /\ Len(wire') <= SocketCapacity
  <2> DEFINE w == wire
             d == receive_deque
  <2>1. w \in Seq(Elements) /\ d \in Seq(Elements)
    BY DEF StreamTypeOK
  <2>2. Line = d \o w /\ Line' = d \o (w \o g) /\ wire' = w \o g
        /\ Len(w) + taken <= SocketCapacity
    BY <1>2, <1>9 DEF Line
  <2> HIDE DEF w, d
  <2>3. (d \o w) \o g = d \o (w \o g)
    <3>1. g \in Seq(Elements)
      BY <1>11
    <3> QED
      BY <2>1, <3>1, ConcatAssociative
  <2>4. w \o g \in Seq(Elements) /\ Len(w \o g) = Len(w) + Len(g)
        /\ d \o w \in Seq(Elements)
    BY <1>11, <2>1, ConcatProperties
  <2> QED
    BY <1>11, <2>2, <2>3, <2>4
<1> DEFINE v == LeastOf(Cardinality(damaged), 2)
<1>13. /\ v \in 0 .. 2
       /\ v = 0 => damaged = {}
       /\ v = 1 => \A i, j \in damaged : i = j
  <2>1. IsFiniteSet(damaged) /\ Cardinality(damaged) \in Nat
    <3>1. IsFiniteSet(1 .. n + 4)
      BY <1>5, FS_Interval
    <3>2. damaged \subseteq 1 .. n + 4
      BY <1>7
    <3> HIDE DEF damaged
    <3> QED
      BY <3>1, <3>2, FS_Subset, FS_CardinalityType
  <2> HIDE DEF damaged
  <2>2. Cardinality(damaged) = 0 => damaged = {}
    BY <2>1, FS_EmptySet
  <2>3. Cardinality(damaged) = 1 => \E x : damaged = {x}
    BY <2>1, FS_Singleton
  <2> DEFINE c == Cardinality(damaged)
  <2>4. c \in Nat
    BY <2>1
  <2>5. v = IF c < 2 THEN c ELSE 2
    BY DEF LeastOf
  <2> HIDE DEF c, v
  <2>6. v \in 0 .. 2 /\ (v = 0 => c = 0) /\ (v = 1 => c = 1)
    BY <2>4, <2>5
  <2> QED
    BY <2>2, <2>3, <2>6 DEF c
<1> HIDE DEF damaged
<1>14. hits' = [hits EXCEPT ![k] = v]
  BY <1>2
<1> HIDE DEF v
<1>15. /\ hits' \in [1 .. MaxFrames -> 0 .. 2] /\ hits'[k] = v
       /\ \A c \in 1 .. MaxFrames : c # k => hits'[c] = hits[c]
  <2>1. k \in 1 .. MaxFrames
    BY <1>3 DEF k
  <2> QED
    BY <1>8, <1>13, <1>14, <2>1
<1>16. \A i \in 1 .. Len(g) :
         /\ g[i].frame = k /\ g[i].place = i
         /\ g[i] = Encode(m, k)[i] \/ (g[i].crc = <<>> /\ hits'[k] # 0)
         /\ \A j \in 1 .. Len(g) :
              /\ g[i] # Encode(m, k)[i] /\ g[j] # Encode(m, k)[j]
              /\ hits'[k] = 1
              => i = j
  <2>1. f = Encode(m, k)
    BY DEF f
  <2>2. \A i \in 1 .. taken : g[i] # f[i] => i \in damaged
    BY <1>10
  <2>3. \A i \in 1 .. taken : /\ g[i].frame = k /\ g[i].place = i
                              /\ g[i] = f[i] \/ (g[i].crc = <<>> /\ hits'[k] # 0)
    BY <1>10, <1>13, <1>15
  <2>4. \A i, j \in 1 .. taken : g[i] # f[i] /\ g[j] # f[j] /\ hits'[k] = 1 => i = j
    BY <1>13, <1>15, <2>2
  <2> QED
    BY <1>11, <2>1, <2>3, <2>4
<1>17. Adds(m, k, g)
  <2>1. k = Len(sent) + 1 /\ k \in 1 .. MaxFrames
    BY <1>3 DEF k
  <2>2. Len(g) <= Len(Covered(m)) + 4
        /\ cut' = IF Len(g) < Len(Covered(m)) + 4 THEN cut \cup {k} ELSE cut
    <3>1. taken <= n + 4
      BY <1>5, <1>6
    <3> QED
      BY <1>2, <1>5, <1>11, <3>1 DEF n
  <2>3. sent' = Append(sent, m)
        /\ UNCHANGED <<parameters, receive_deque, decoder, returned, reports>>
    BY <1>2
  <2> QED
    BY <1>4, <1>11, <1>12, <1>15, <1>16, <2>1, <2>2, <2>3 DEF Adds
<1> QED
  BY <1>17

\* What a frame that is sent leaves as it was, and what it adds.
LEMMA AddsIs ==
  ASSUME StreamTypeOK, LineInv, NEW m, NEW k, NEW g, Adds(m, k, g)
  PROVE  /\ k \in 1 .. MaxFrames /\ Len(sent) = k - 1 /\ Len(sent') = k
         /\ sent' \in Seq(AllMessages) /\ sent'[k] = m
         /\ \A c \in 1 .. Len(sent) :
              /\ c \in 1 .. k - 1 /\ c \in 1 .. Len(sent') /\ c \in 1 .. MaxFrames
              /\ sent'[c] = sent[c]
              /\ Length(c)' = Length(c) /\ hits'[c] = hits[c]
              /\ c \in cut' <=> c \in cut
         /\ \A c \in 0 .. Len(sent) : MayRunOn(c)' <=> MayRunOn(c)
         /\ Length(k)' = Len(Covered(m)) + 4 /\ Length(k)' \in Nat
         /\ cut \subseteq cut' /\ cut' \subseteq 1 .. k
         /\ k \in cut' <=> Len(g) # Length(k)'
<1>1. /\ k = Len(sent) + 1 /\ k \in 1 .. MaxFrames /\ Known(m)
      /\ sent' = Append(sent, m)
      /\ hits' \in [1 .. MaxFrames -> 0 .. 2]
      /\ \A c \in 1 .. MaxFrames : c # k => hits'[c] = hits[c]
      /\ cut' = IF Len(g) < Len(Covered(m)) + 4 THEN cut \cup {k} ELSE cut
      /\ g \in Seq(Elements) /\ Len(g) <= Len(Covered(m)) + 4
  BY DEF Adds
<1>2. sent \in Seq(AllMessages) /\ cut \subseteq 1 .. Len(sent) /\ MaxFrames \in Nat
  BY LineAssumption DEF StreamTypeOK
<1> DEFINE s == sent
           ls == Len(s)
           n == Len(Covered(m))
<1>3. ls \in Nat /\ n \in Nat /\ m \in AllMessages
  BY <1>1, <1>2, CoveredLength, AllKnown
<1>4. /\ Append(s, m) \in Seq(AllMessages) /\ Len(Append(s, m)) = ls + 1
      /\ \A c \in 1 .. ls : Append(s, m)[c] = s[c]
      /\ Append(s, m)[ls + 1] = m
  BY <1>2, <1>3, AppendProperties
<1>5. /\ sent' \in Seq(AllMessages) /\ Len(sent') = k /\ sent'[k] = m /\ k = ls + 1
      /\ \A c \in 1 .. ls : sent'[c] = s[c]
  BY <1>1, <1>4
<1> HIDE DEF ls
<1>6. \A c \in 1 .. ls : c \in 1 .. k - 1 /\ c \in 1 .. k /\ c \in 1 .. MaxFrames /\ c # k
  BY <1>1, <1>2, <1>3, <1>5
<1>7. \A c \in 1 .. ls : Length(c)' = Length(c)
  BY <1>5 DEF Length
<1>8. cut \subseteq 1 .. ls
  BY <1>2 DEF ls
<1>9. \A c \in 1 .. ls : hits'[c] = hits[c] /\ (c \in cut' <=> c \in cut)
  BY <1>1, <1>6
<1>10. ASSUME NEW c \in 0 .. ls
       PROVE  MayRunOn(c)' <=> MayRunOn(c)
  <2>1. c \in Int /\ \A i \in 1 .. c : i \in 1 .. ls
    BY <1>3
  <2>2. \A i \in 1 .. c : /\ i \in cut => i \in cut'
                          /\ hits[i] > 0 => hits'[i] > 0
                          /\ hits[i] > 1 => hits'[i] > 1
    BY <1>9, <2>1
  <2>3. \A i \in 1 .. c : /\ i \in cut' => i \in cut
                          /\ hits'[i] > 0 => hits[i] > 0
                          /\ hits'[i] > 1 => hits[i] > 1
    BY <1>9, <2>1
  <2>4. RunsOn(hits, cut, c) => RunsOn(hits', cut', c)
    BY <2>1, <2>2, RunsOnMore
  <2>5. RunsOn(hits', cut', c) => RunsOn(hits, cut, c)
    BY <2>1, <2>3, RunsOnMore
  <2> QED
    BY <2>4, <2>5, RunsOnIs
<1>11. Length(k)' = n + 4 /\ n + 4 \in Nat
  <2>1. Length(k)' = Len(Covered(sent'[k])) + 4
    BY DEF Length
  <2> QED
    BY <1>3, <1>5, <2>1
<1>12. cut \subseteq cut' /\ cut' \subseteq 1 .. k /\ (k \in cut' <=> Len(g) # n + 4)
  <2> DEFINE lg == Len(g)
  <2>1. lg \in Nat /\ lg <= n + 4 /\ k \notin cut
    BY <1>1, <1>3, <1>5, <1>8
  <2> HIDE DEF n, lg
  <2>2. lg < n + 4 <=> lg # n + 4
    BY <1>3, <2>1
  <2>3. cut' = IF lg < n + 4 THEN cut \cup {k} ELSE cut
    BY <1>1 DEF lg, n
  <2>4. k \in 1 .. k /\ \A c \in 1 .. ls : c \in 1 .. k
    BY <1>1, <1>6
  <2> QED
    BY <1>8, <2>1, <2>2, <2>3, <2>4 DEF lg
<1>13. ls = k - 1
  BY <1>3, <1>5
<1> QED
  BY <1>1, <1>5, <1>6, <1>7, <1>9, <1>10, <1>11, <1>12, <1>13 DEF ls, n

\* The line: what was on it, and the new frame behind it.
LEMMA AddsLine ==
  ASSUME StreamTypeOK, LineInv, NEW m, NEW k, NEW g, Adds(m, k, g)
  PROVE  /\ Len(Line) \in Nat /\ Len(g) \in Nat
         /\ Len(Line') = Len(Line) + Len(g) /\ Line' \in Seq(Elements)
         /\ \A i \in 1 .. Len(Line) :
              /\ i \in 1 .. Len(Line')
              /\ Line'[i] = Line[i] /\ Line[i].frame \in 1 .. Len(sent)
              /\ Genuine(Line[i])'
              /\ Damaged(Line[i])' <=> Damaged(Line[i])
              /\ Ends(Line[i])' <=> Ends(Line[i])
         /\ \A i \in 1 .. Len(g) :
              /\ Len(Line) + i \in 1 .. Len(Line')
              /\ Line'[Len(Line) + i].frame = k
              /\ Line'[Len(Line) + i].place = i
         /\ \A i \in 1 .. Len(Line') :
              i \in 1 .. Len(Line) \/ i - Len(Line) \in 1 .. Len(g)
         /\ \A i \in 1 .. Len(Line') : i \notin 1 .. Len(Line) =>
              /\ Line'[i].frame = k /\ Line'[i].place = i - Len(Line)
              /\ Genuine(Line[i])'
              /\ \A j \in 1 .. Len(Line') :
                   /\ j \notin 1 .. Len(Line) /\ hits'[k] = 1
                   /\ Damaged(Line[i])' /\ Damaged(Line[j])'
                   => i = j
<1> DEFINE L == Line
           l == Len(L)
           lg == Len(g)
           R == L \o g
<1>1. L \in Seq(Elements) /\ g \in Seq(Elements) /\ Line' = R
  BY DEF Adds
<1>2. /\ R \in Seq(Elements) /\ Len(R) = l + lg
      /\ \A i \in 1 .. l + lg : R[i] = IF i <= l THEN L[i] ELSE g[i - l]
  BY <1>1, ConcatProperties
<1>3. l \in Nat /\ lg \in Nat
  BY <1>1
<1> HIDE DEF R, l, lg
<1>4. \A i \in 1 .. l : i \in 1 .. l + lg /\ R[i] = L[i]
  BY <1>2, <1>3
<1>5. \A i \in 1 .. l + lg : i \in 1 .. l \/ i - l \in 1 .. lg
  BY <1>3
<1>6. \A i \in 1 .. l + lg : i \notin 1 .. l => R[i] = g[i - l] /\ i - l \in 1 .. lg
  BY <1>2, <1>3
<1>7. \A i \in 1 .. lg : l + i \in 1 .. l + lg /\ R[l + i] = g[i]
  <2>1. \A i \in 1 .. lg : l + i \in 1 .. l + lg /\ ~(l + i <= l) /\ (l + i) - l = i
    BY <1>3
  <2> QED
    BY <1>2, <2>1
<1>8. \A i \in 1 .. lg :
        /\ g[i].frame = k /\ g[i].place = i
        /\ g[i] = Encode(m, k)[i] \/ (g[i].crc = <<>> /\ hits'[k] # 0)
        /\ \A j \in 1 .. lg :
             /\ g[i] # Encode(m, k)[i] /\ g[j] # Encode(m, k)[j]
             /\ hits'[k] = 1
             => i = j
  BY DEF Adds, lg
<1>9. ASSUME NEW i \in 1 .. l
      PROVE  /\ Line'[i] = L[i] /\ L[i].frame \in 1 .. Len(sent)
             /\ Genuine(Line[i])'
             /\ Damaged(Line[i])' <=> Damaged(Line[i])
             /\ Ends(Line[i])' <=> Ends(Line[i])
  <2>1. PICK x : x = Line[i]
    OBVIOUS
  <2>2. Genuine(x)
    BY <2>1 DEF LineInv, l
  <2>3. Line'[i] = x
    BY <1>1, <1>4, <2>1
  <2>4. x.frame \in 1 .. Len(sent) /\ x.place \in 1 .. Length(x.frame)
    BY <2>2 DEF Genuine
  <2>5. /\ x.frame \in 1 .. Len(sent') /\ sent'[x.frame] = sent[x.frame]
        /\ Length(x.frame)' = Length(x.frame) /\ hits'[x.frame] = hits[x.frame]
        /\ x.frame \in cut' <=> x.frame \in cut
    BY <2>4, AddsIs
  <2>6. Damaged(Line[i])' <=> Damaged(x)
    BY <2>1, <2>3, <2>5 DEF Damaged
  <2>7. Ends(Line[i])' <=> Ends(x)
    BY <2>1, <2>3, <2>5 DEF Ends, Length
  <2>8. Genuine(Line[i])'
    BY <2>2, <2>3, <2>4, <2>5, <2>6 DEF Genuine, Length
  <2> QED
    BY <2>1, <2>3, <2>4, <2>6, <2>7, <2>8
<1>10. ASSUME NEW i \in 1 .. l + lg, i \notin 1 .. l
       PROVE  /\ Line'[i].frame = k /\ Line'[i].place = i - l
              /\ Genuine(Line[i])'
              /\ Damaged(Line[i])' <=> g[i - l] # Encode(m, k)[i - l]
  <2> DEFINE y == g[i - l]
  <2>1. Line'[i] = y /\ i - l \in 1 .. lg
    BY <1>1, <1>6, <1>10
  <2>2. /\ y.frame = k /\ y.place = i - l
        /\ y = Encode(m, k)[i - l] \/ (y.crc = <<>> /\ hits'[k] # 0)
    BY <1>8, <2>1
  <2>3. k \in 1 .. Len(sent') /\ sent'[k] = m /\ Length(k)' = Len(Covered(m)) + 4
        /\ lg <= Len(Covered(m)) + 4 /\ Len(Covered(m)) + 4 \in Nat
    <3>1. /\ k \in 1 .. MaxFrames /\ Len(sent') = k /\ sent'[k] = m
          /\ Length(k)' = Len(Covered(m)) + 4 /\ Length(k)' \in Nat
      BY AddsIs
    <3>2. lg <= Len(Covered(m)) + 4
      BY DEF Adds, lg
    <3>3. k \in 1 .. k
      BY <3>1
    <3> QED
      BY <3>1, <3>2, <3>3
  <2>4. Damaged(Line[i])' <=> y # Encode(m, k)[i - l]
    BY <2>1, <2>2, <2>3 DEF Damaged
  <2>5. i - l \in 1 .. Length(k)'
    <3> DEFINE n == Len(Covered(m)) + 4
    <3> HIDE DEF n
    <3>1. i - l \in 1 .. n
      BY <1>3, <2>1, <2>3 DEF n
    <3> QED
      BY <2>3, <3>1 DEF n
  <2>6. Genuine(Line[i])'
    <3>1. /\ Line'[i].frame \in 1 .. Len(sent')
          /\ Line'[i].place \in 1 .. Length(Line[i].frame)'
      BY <2>1, <2>2, <2>3, <2>5 DEF Length
    <3>2. Line'[i].crc # <<>> \/ hits'[Line'[i].frame] = 0 => ~Damaged(Line[i])'
      BY <2>1, <2>2, <2>4
    <3> QED
      BY <3>1, <3>2 DEF Genuine
  <2> QED
    BY <2>1, <2>2, <2>4, <2>6
<1>11. ASSUME NEW i \in 1 .. l + lg, i \notin 1 .. l,
              NEW j \in 1 .. l + lg, j \notin 1 .. l, hits'[k] = 1,
              Damaged(Line[i])', Damaged(Line[j])'
       PROVE  i = j
  <2>1. i - l \in 1 .. lg /\ j - l \in 1 .. lg
    BY <1>6, <1>11
  <2>2. i - l = j - l
    BY <1>8, <1>10, <1>11, <2>1
  <2> QED
    BY <1>3, <2>2
<1>12. Len(Line') = l + lg /\ Line' \in Seq(Elements)
  BY <1>1, <1>2
<1>13. \A i \in 1 .. lg : l + i \in 1 .. l + lg
                          /\ Line'[l + i].frame = k /\ Line'[l + i].place = i
  BY <1>1, <1>7, <1>8
<1> QED
  BY <1>3, <1>4, <1>5, <1>9, <1>10, <1>11, <1>12, <1>13 DEF l, lg, L

\* Frames stay on the line in the order in which they were sent.
LEMMA AddsKeepsLine ==
  ASSUME StreamTypeOK, LineInv, NEW m, NEW k, NEW g, Adds(m, k, g)
  PROVE  LineInv'
<1>1. PICK L : L = Line
  OBVIOUS
<1>2. PICK l : l = Len(Line)
  OBVIOUS
<1>3. PICK R : R = Line'
  OBVIOUS
<1>4. PICK r : r = Len(Line')
  OBVIOUS
<1>5. PICK lg : lg = Len(g)
  OBVIOUS
<1>6. /\ l \in Nat /\ lg \in Nat /\ r = l + lg
      /\ \A i \in 1 .. l : /\ i \in 1 .. r
                           /\ R[i] = L[i] /\ L[i].frame \in 1 .. Len(sent)
      /\ \A i \in 1 .. lg : l + i \in 1 .. r /\ R[l + i].frame = k /\ R[l + i].place = i
      /\ \A i \in 1 .. r : i \in 1 .. l \/ i - l \in 1 .. lg
      /\ \A i \in 1 .. r : i \notin 1 .. l => R[i].frame = k /\ R[i].place = i - l
  BY <1>1, <1>2, <1>3, <1>4, <1>5, AddsLine
<1>7. /\ k \in Nat /\ Len(sent') = k /\ cut \subseteq cut' /\ k \in 1 .. k
      /\ \A c \in 1 .. Len(sent) : c \in 1 .. k - 1 /\ hits'[c] = hits[c] /\ c < k
      /\ Len(sent) = k - 1
      /\ k \in cut' <=> lg # Length(k)'
  <2>1. /\ k \in 1 .. MaxFrames /\ Len(sent') = k /\ cut \subseteq cut'
        /\ \A c \in 1 .. Len(sent) : c \in 1 .. k - 1 /\ hits'[c] = hits[c]
        /\ Len(sent) = k - 1
        /\ k \in cut' <=> lg # Length(k)'
    BY <1>5, AddsIs
  <2>2. \A c \in 1 .. k - 1 : c < k
    BY <2>1
  <2>3. k \in Nat /\ k \in 1 .. k
    BY <2>1
  <2> QED
    BY <2>1, <2>2, <2>3
<1>8. /\ \A i \in 1 .. l - 1 : Follows(Line[i], Line[i + 1])
      /\ \A i, j \in 1 .. l : i < j => Before(L[i], L[j])
      /\ \A i, j \in 1 .. l :
           /\ L[i].frame = L[j].frame /\ hits[L[i].frame] = 1
           /\ Damaged(L[i]) /\ Damaged(L[j])
           => i = j
      /\ l # 0 => Ends(L[l]) /\ L[l].frame + 1 .. Len(sent) \subseteq cut
  <2>1. L \in Seq(Elements)
    BY <1>1 DEF Adds
  <2>2. l # 0 => L # <<>>
    BY <1>1, <1>2, <2>1
  <2> QED
    BY <1>1, <1>2, <2>2 DEF LineInv
<1>9. \A i \in 1 .. r : Genuine(Line[i])'
  BY <1>2, <1>4, AddsLine
<1>10. ASSUME NEW i \in 1 .. r - 1
       PROVE  Follows(Line[i], Line[i + 1])'
  <2>1. i \in 1 .. r /\ i + 1 \in 1 .. r /\ (i \in 1 .. l - 1 \/ i = l \/ i \notin 1 .. l)
    BY <1>6
  <2>2. CASE i \in 1 .. l - 1
    <3>1. i \in 1 .. l /\ i + 1 \in 1 .. l
      BY <1>6, <2>2
    <3>2. R[i] = L[i] /\ R[i + 1] = L[i + 1] /\ L[i].frame \in 1 .. Len(sent)
      BY <1>6, <3>1
    <3>3. Follows(L[i], L[i + 1])
      BY <1>1, <1>8, <2>2
    <3>4. Ends(Line[i])' <=> Ends(Line[i])
      BY <1>2, <3>1, AddsLine
    <3> QED
      BY <1>1, <1>3, <1>7, <3>2, <3>3, <3>4 DEF Follows
  <2>3. CASE i = l
    <3>1. i \in 1 .. l /\ i + 1 \notin 1 .. l /\ i + 1 - l = 1 /\ l # 0
      BY <1>6, <2>3
    <3>2. R[i] = L[i] /\ L[i].frame \in 1 .. Len(sent) /\ R[i + 1].frame = k
          /\ R[i + 1].place = 1
      BY <1>6, <2>1, <3>1
    <3>3. Ends(L[i]) /\ L[i].frame + 1 .. k - 1 \subseteq cut
      BY <1>7, <1>8, <2>3, <3>1
    <3>4. Ends(Line[i])' <=> Ends(Line[i])
      BY <1>2, <3>1, AddsLine
    <3>5. k > L[i].frame
      <4> DEFINE x == L[i].frame
      <4>1. x \in 1 .. k - 1
        BY <1>7, <3>2
      <4> HIDE DEF x
      <4>2. k > x
        BY <1>7, <4>1
      <4> QED
        BY <4>2 DEF x
    <3> QED
      BY <1>1, <1>3, <1>7, <3>2, <3>3, <3>4, <3>5 DEF Follows
  <2>4. CASE i \notin 1 .. l
    <3>1. i + 1 \notin 1 .. l /\ (i + 1) - l = (i - l) + 1
      BY <1>6, <2>4
    <3>2. R[i].frame = k /\ R[i].place = i - l /\ R[i + 1].frame = k
          /\ R[i + 1].place = (i - l) + 1
      BY <1>6, <2>1, <2>4, <3>1
    <3> QED
      BY <1>3, <3>2 DEF Follows
  <2> QED
    BY <2>1, <2>2, <2>3, <2>4
<1>11. ASSUME NEW i \in 1 .. r, NEW j \in 1 .. r, i < j
       PROVE  Before(R[i], R[j])
  <2>1. CASE i \in 1 .. l /\ j \in 1 .. l
    BY <1>6, <1>8, <1>11, <2>1
  <2>2. CASE i \in 1 .. l /\ j \notin 1 .. l
    BY <1>6, <1>7, <2>2 DEF Before
  <2>3. CASE i \notin 1 .. l /\ j \in 1 .. l
    BY <1>6, <1>11, <2>3
  <2>4. CASE i \notin 1 .. l /\ j \notin 1 .. l
    <3>1. R[i].frame = R[j].frame /\ R[i].place = i - l /\ R[j].place = j - l
      BY <1>6, <2>4
    <3>2. i - l < j - l
      BY <1>6, <1>11
    <3> QED
      BY <3>1, <3>2 DEF Before
  <2> QED
    BY <2>1, <2>2, <2>3, <2>4
<1>12. ASSUME NEW i \in 1 .. r, NEW j \in 1 .. r,
              R[i].frame = R[j].frame, hits'[R[i].frame] = 1,
              Damaged(Line[i])', Damaged(Line[j])'
       PROVE  i = j
  <2>1. CASE i \in 1 .. l /\ j \in 1 .. l
    <3>1. R[i] = L[i] /\ R[j] = L[j] /\ hits'[L[i].frame] = hits[L[i].frame]
      BY <1>6, <1>7, <2>1
    <3>2. Damaged(L[i]) /\ Damaged(L[j])
      <4>1. (Damaged(Line[i])' <=> Damaged(Line[i])) /\ (Damaged(Line[j])' <=> Damaged(Line[j]))
        BY <1>2, <2>1, AddsLine
      <4> QED
        BY <1>1, <1>12, <4>1
    <3> QED
      BY <1>8, <1>12, <2>1, <3>1, <3>2
  <2>2. CASE i \in 1 .. l /\ j \notin 1 .. l
    BY <1>6, <1>7, <1>12, <2>2
  <2>3. CASE i \notin 1 .. l /\ j \in 1 .. l
    BY <1>6, <1>7, <1>12, <2>3
  <2>4. CASE i \notin 1 .. l /\ j \notin 1 .. l
    <3>1. hits'[k] = 1
      BY <1>6, <1>12, <2>4
    <3> QED
      BY <1>2, <1>4, <1>12, <2>4, <3>1, AddsLine
  <2> QED
    BY <2>1, <2>2, <2>3, <2>4
<1>13. ASSUME R # <<>>
       PROVE  Ends(Line[Len(Line)])' /\ R[r].frame + 1 .. Len(sent') \subseteq cut'
  <2>1. CASE lg = 0
    <3>1. l # 0
      <4>1. r # 0
        <5>1. R \in Seq(Elements)
          BY <1>3, AddsLine
        <5> QED
          BY <1>3, <1>4, <1>13, <5>1
      <4> QED
        BY <1>6, <2>1, <4>1
    <3>2. r = l /\ l \in 1 .. l
      BY <1>6, <2>1, <3>1
    <3>3. R[r] = L[l] /\ L[l].frame \in 1 .. Len(sent) /\ Ends(L[l])
          /\ L[l].frame + 1 .. k - 1 \subseteq cut
      BY <1>6, <1>7, <1>8, <3>1, <3>2
    <3>4. Ends(Line[l])' <=> Ends(Line[l])
      BY <1>2, <3>2, AddsLine
    <3>5. k \in cut'
      <4>1. Length(k)' = Len(Covered(m)) + 4 /\ Known(m)
        <5>1. Length(k)' = Len(Covered(m)) + 4
          BY AddsIs
        <5>2. Known(m)
          BY DEF Adds
        <5> QED
          BY <5>1, <5>2
      <4> DEFINE n == Len(Covered(m))
      <4>2. n \in Nat
        BY <4>1, CoveredLength
      <4> HIDE DEF n
      <4>3. n + 4 # 0
        BY <4>2
      <4> QED
        BY <1>7, <2>1, <4>1, <4>3 DEF n
    <3>6. L[l].frame + 1 .. k \subseteq cut'
      <4> DEFINE x == L[l].frame
      <4>1. x \in 1 .. k - 1
        BY <1>7, <3>3
      <4>2. x + 1 .. k - 1 \subseteq cut
        BY <3>3
      <4> HIDE DEF x
      <4>3. \A c \in x + 1 .. k : c \in x + 1 .. k - 1 \/ c = k
        BY <1>7, <4>1
      <4>4. x + 1 .. k \subseteq cut'
        BY <1>7, <3>5, <4>2, <4>3
      <4> QED
        BY <4>4 DEF x
    <3>7. Ends(Line[Len(Line)])'
      <4>1. Ends(Line[l])'
        BY <1>1, <3>3, <3>4
      <4> QED
        BY <1>4, <3>2, <4>1 DEF Ends, Length
    <3> QED
      BY <1>7, <3>3, <3>6, <3>7
  <2>2. CASE lg # 0
    <3>1. lg \in 1 .. lg /\ l + lg = r
      BY <1>6, <2>2
    <3>2. R[r].frame = k /\ R[r].place = lg
      BY <1>6, <3>1
    <3>3. Line'[Len(Line')].frame = k /\ Line'[Len(Line')].place = lg
      BY <1>3, <1>4, <3>2
    <3>4. Ends(Line[Len(Line)])'
      BY <1>7, <3>3 DEF Ends, Length
    <3>5. k + 1 .. k = {}
      BY <1>7
    <3> QED
      BY <1>7, <3>2, <3>4, <3>5
  <2> QED
    BY <2>1, <2>2
<1>14. \A i \in 1 .. Len(Line') : Genuine(Line[i])'
  BY <1>4, <1>9
<1>15. \A i \in 1 .. Len(Line') - 1 : Follows(Line[i], Line[i + 1])'
  BY <1>4, <1>10
<1>16. \A i, j \in 1 .. Len(Line') : i < j => Before(Line[i], Line[j])'
  BY <1>3, <1>4, <1>11 DEF Before
<1>17. \A i, j \in 1 .. Len(Line') :
         /\ Line'[i].frame = Line'[j].frame /\ hits'[Line'[i].frame] = 1
         /\ Damaged(Line[i])' /\ Damaged(Line[j])'
         => i = j
  BY <1>3, <1>4, <1>12
<1>18. Line' # <<>> => /\ Ends(Line[Len(Line)])'
                       /\ Line'[Len(Line')].frame + 1 .. Len(sent') \subseteq cut'
  BY <1>3, <1>4, <1>13
<1> QED
  BY <1>14, <1>15, <1>16, <1>17, <1>18 DEF LineInv

\* Sending keeps the invariant: what is on the line hides the new frame.
LEMMA AddsKeeps ==
  ASSUME StreamInv, NEW m, NEW k, NEW g, Adds(m, k, g)
  PROVE  StreamInv'
<1>1. /\ StreamTypeOK /\ LineInv /\ OrderInv /\ FrameInv /\ WithinInv /\ ReadInv
      /\ UnreadInv
  BY DEF StreamInv
<1>2. /\ Known(m) /\ m.sequence = FirstSequence + k - 1
      /\ wire' \in Seq(Elements) /\ Len(wire') <= SocketCapacity
      /\ hits' \in [1 .. MaxFrames -> 0 .. 2]
      /\ UNCHANGED <<parameters, receive_deque, decoder, returned, reports>>
  BY DEF Adds
<1>3. PICK L : L = Line
  OBVIOUS
<1>4. PICK R : R = Line'
  OBVIOUS
<1>5. PICK l : l = Len(Line)
  OBVIOUS
<1>6. PICK r : r = Len(Line')
  OBVIOUS
<1>7. PICK lg : lg = Len(g)
  OBVIOUS
<1>8. /\ k \in 1 .. MaxFrames /\ Len(sent) = k - 1 /\ Len(sent') = k
      /\ sent' \in Seq(AllMessages) /\ sent'[k] = m
      /\ \A c \in 1 .. k - 1 : /\ sent'[c] = sent[c] /\ Length(c)' = Length(c)
                               /\ hits'[c] = hits[c] /\ (c \in cut' <=> c \in cut)
      /\ \A c \in 0 .. k - 1 : MayRunOn(c)' <=> MayRunOn(c)
      /\ cut \subseteq cut' /\ cut' \subseteq 1 .. k
      /\ k \in cut' <=> lg # Length(k)'
  <2>1. Len(sent) = k - 1
    BY <1>1, AddsIs
  <2> QED
    BY <1>1, <1>7, <2>1, AddsIs
<1>9. /\ l \in Nat /\ lg \in Nat /\ r = l + lg /\ L \in Seq(Elements) /\ R \in Seq(Elements)
      /\ \A i \in 1 .. l : /\ i \in 1 .. r
                           /\ R[i] = L[i] /\ L[i].frame \in 1 .. k - 1
                           /\ Damaged(Line[i])' <=> Damaged(L[i])
      /\ \A i \in 1 .. lg : l + i \in 1 .. r /\ R[l + i].frame = k /\ R[l + i].place = i
      /\ \A i \in 1 .. r : i \notin 1 .. l => R[i].frame = k /\ R[i].place = i - l
  <2>1. L \in Seq(Elements)
    BY <1>3 DEF Adds
  <2> QED
    BY <1>1, <1>3, <1>4, <1>5, <1>6, <1>7, <1>8, <2>1, AddsLine
<1>10. /\ k \in Nat /\ k \in 1 .. k /\ MaxFrames \in Nat
       /\ \A c \in 1 .. k - 1 : c \in 1 .. k /\ c \in 0 .. k - 1 /\ c - 1 \in 0 .. k - 1
                                /\ c < k /\ c \in 1 .. MaxFrames
       /\ \A c \in 1 .. k : c \in 1 .. k - 1 \/ c = k
  BY <1>8, LineAssumption
<1>11. /\ L # <<>> => l # 0 /\ 1 \in 1 .. l /\ R # <<>>
       /\ L = <<>> => l = 0
       /\ R = <<>> => L = <<>> /\ lg = 0
       /\ R # <<>> /\ L = <<>> => 1 \in 1 .. r /\ 1 \notin 1 .. l /\ 1 - l = 1
  <2>1. l = Len(L) /\ r = Len(R)
    BY <1>3, <1>4, <1>5, <1>6
  <2>2. /\ L # <<>> => l # 0
        /\ L = <<>> => l = 0
        /\ R # <<>> => r # 0
        /\ R = <<>> => r = 0
    BY <1>9, <2>1
  <2> QED
    BY <1>9, <2>2
<1>12. StreamTypeOK'
  <2>1. \A c \in 1 .. Len(sent') : sent'[c].sequence = FirstSequence + c - 1
    <3>1. \A c \in 1 .. k - 1 : sent[c].sequence = FirstSequence + c - 1
      BY <1>1, <1>8 DEF StreamTypeOK
    <3> QED
      BY <1>2, <1>8, <1>10, <3>1
  <2>2. Len(sent') <= MaxFrames
    BY <1>8, <1>10
  <2> QED
    BY <1>1, <1>2, <1>8, <2>1, <2>2 DEF StreamTypeOK
<1>13. LineInv'
  BY <1>1, AddsKeepsLine
<1>14. ASSUME NEW c \in 1 .. k - 1
       PROVE  sent[c].sequence < FirstSequence + k - 1
  <2>1. sent[c].sequence = FirstSequence + c - 1
    BY <1>1, <1>8, <1>14 DEF StreamTypeOK
  <2>2. FirstSequence + c - 1 < FirstSequence + k - 1
    BY <1>8, <1>10, MessageAssumption
  <2> QED
    BY <2>1, <2>2
<1>15. OrderInv'
  <2>1. ASSUME NEW i \in 1 .. Len(returned)
        PROVE  /\ \E c \in 1 .. Len(sent') : returned[i] = sent'[c]
               /\ \A j \in 1 .. Len(returned) :
                    i < j => returned[i].sequence < returned[j].sequence
               /\ \A j \in 1 .. r : R[j].crc # <<>> =>
                    returned[i].sequence < FirstSequence + R[j].frame - 1
    <3>1. PICK c \in 1 .. k - 1 : returned[i] = sent[c]
      BY <1>1, <1>8 DEF OrderInv
    <3>2. /\ \A j \in 1 .. Len(returned) :
               i < j => returned[i].sequence < returned[j].sequence
          /\ \A j \in 1 .. l : L[j].crc # <<>> =>
               returned[i].sequence < FirstSequence + L[j].frame - 1
      BY <1>1, <1>3, <1>5 DEF OrderInv
    <3>3. c \in 1 .. Len(sent') /\ returned[i] = sent'[c]
      BY <1>8, <1>10, <3>1
    <3>4. returned[i].sequence < FirstSequence + k - 1
      BY <1>14, <3>1
    <3>5. \A j \in 1 .. r : R[j].crc # <<>> =>
            returned[i].sequence < FirstSequence + R[j].frame - 1
      BY <1>9, <3>2, <3>4
    <3> QED
      BY <3>2, <3>3, <3>5
  <2>2. ASSUME decoder.at \in {"end", "marker"}
        PROVE  /\ \E c \in 1 .. Len(sent') : Has(decoder, sent'[c])
               /\ \A i \in 1 .. Len(returned) : returned[i].sequence < decoder.sequence
               /\ \A j \in 1 .. r : R[j].crc # <<>> =>
                    decoder.sequence < FirstSequence + R[j].frame - 1
    <3>1. PICK c \in 1 .. k - 1 : Has(decoder, sent[c])
      BY <1>1, <1>8, <2>2 DEF OrderInv
    <3>2. /\ \A i \in 1 .. Len(returned) : returned[i].sequence < decoder.sequence
          /\ \A j \in 1 .. l : L[j].crc # <<>> =>
               decoder.sequence < FirstSequence + L[j].frame - 1
      BY <1>1, <1>3, <1>5, <2>2 DEF OrderInv
    <3>3. c \in 1 .. Len(sent') /\ Has(decoder, sent'[c])
      BY <1>8, <1>10, <3>1
    <3>4. decoder.sequence < FirstSequence + k - 1
      BY <1>14, <3>1 DEF Has
    <3>5. \A j \in 1 .. r : R[j].crc # <<>> =>
            decoder.sequence < FirstSequence + R[j].frame - 1
      BY <1>9, <3>2, <3>4
    <3> QED
      BY <3>2, <3>3, <3>5
  <2>3. ASSUME decoder.at = "end"
        PROVE  Has(decoder, sent'[decoder.frame])
    <3>1. Has(decoder, sent[decoder.frame])
      BY <1>1, <2>3 DEF OrderInv
    <3>2. decoder.frame \in 1 .. k - 1
      BY <1>1, <1>8, <2>3 DEF FrameInv
    <3> QED
      BY <1>8, <3>1, <3>2
  <2> QED
    BY <1>2, <1>4, <1>6, <2>1, <2>2, <2>3 DEF OrderInv
<1>16. FrameInv'
  <2>1. PICK f : f = decoder.frame
    OBVIOUS
  <2>2. SUFFICES ASSUME decoder.at # "skip"
                 PROVE  /\ f \in 1 .. k
                        /\ R = <<>> => f + 1 .. k \subseteq cut' /\ MayRunOn(f)'
                        /\ R # <<>> =>
                             \/ R[1].place > 1 /\ f = R[1].frame
                             \/ /\ R[1].place = 1 /\ f < R[1].frame
                                /\ f + 1 .. R[1].frame - 1 \subseteq cut'
                                /\ MayRunOn(f)'
    <3>1. MayRunOn(decoder.frame)' <=> MayRunOn(f)'
      BY <1>2, <2>1 DEF MayRunOn
    <3> QED
      BY <1>2, <1>4, <1>8, <2>1, <3>1 DEF FrameInv
  <2>3. /\ f \in 1 .. k - 1
        /\ L = <<>> => f + 1 .. k - 1 \subseteq cut /\ MayRunOn(f)
        /\ L # <<>> =>
             \/ L[1].place > 1 /\ f = L[1].frame
             \/ /\ L[1].place = 1 /\ f < L[1].frame
                /\ f + 1 .. L[1].frame - 1 \subseteq cut
                /\ MayRunOn(f)
    BY <1>1, <1>3, <1>8, <2>1, <2>2 DEF FrameInv
  <2>4. f \in 1 .. k /\ (MayRunOn(f)' <=> MayRunOn(f)) /\ f < k
    BY <1>8, <1>10, <2>3
  <2>5. CASE L # <<>>
    BY <1>8, <1>9, <1>11, <2>3, <2>4, <2>5
  <2>6. CASE L = <<>> /\ R # <<>>
    <3>1. R[1].frame = k /\ R[1].place = 1
      BY <1>9, <1>11, <2>6
    <3> QED
      BY <1>8, <2>3, <2>4, <2>6, <3>1
  <2>7. CASE R = <<>>
    <3>1. L = <<>> /\ lg = 0
      BY <1>11, <2>7
    <3>2. k \in cut'
      <4>1. Length(k)' = Len(Covered(m)) + 4
        BY <1>1, AddsIs
      <4> DEFINE n == Len(Covered(m))
      <4>2. n \in Nat
        BY <1>2, CoveredLength
      <4> HIDE DEF n
      <4>3. n + 4 # 0
        BY <4>2
      <4> QED
        BY <1>8, <3>1, <4>1, <4>3 DEF n
    <3>3. f + 1 .. k \subseteq cut'
      <4>1. \A c \in f + 1 .. k : c \in f + 1 .. k - 1 \/ c = k
        BY <1>10, <2>4
      <4> QED
        BY <1>8, <2>3, <3>1, <3>2, <4>1
    <3> QED
      BY <2>3, <2>4, <2>7, <3>1, <3>3
  <2> QED
    BY <2>5, <2>6, <2>7
<1>17. ASSUME NEW c \in 1 .. k - 1
       PROVE  /\ DamageAhead(c)' <=> DamageAhead(c)
              /\ Unread(c)' <=> Unread(c)
  <2>1. DamageAhead(c)' <=> \E i \in 1 .. r : R[i].frame = c /\ Damaged(Line[i])'
    BY <1>4, <1>6 DEF DamageAhead
  <2>2. DamageAhead(c) <=> \E i \in 1 .. l : L[i].frame = c /\ Damaged(L[i])
    BY <1>3, <1>5 DEF DamageAhead
  <2>3. Unread(c)' <=> \E i \in 1 .. r : R[i].frame = c
    BY <1>4, <1>6 DEF Unread
  <2>4. Unread(c) <=> \E i \in 1 .. l : L[i].frame = c
    BY <1>3, <1>5 DEF Unread
  <2>5. c # k
    BY <1>10
  <2>6. \A i \in 1 .. r : R[i].frame = c => i \in 1 .. l
    BY <1>9, <2>5
  <2> QED
    BY <1>9, <2>1, <2>2, <2>3, <2>4, <2>6
<1>18. WithinInv'
  <2>1. SUFFICES ASSUME R # <<>>, R[1].place > 1
                 PROVE  WithinInv'
    <3>1. R = <<>> \/ ~(R[1].place > 1) => WithinInv'
      BY <1>4 DEF WithinInv
    <3> QED
      BY <3>1
  <2>2. L # <<>>
    <3>1. L = <<>> => R[1].place = 1
      BY <1>9, <1>11, <2>1
    <3> QED
      BY <2>1, <3>1
  <2>3. PICK c : c = L[1].frame
    OBVIOUS
  <2>4. R[1] = L[1] /\ c \in 1 .. k - 1 /\ Line' # <<>> /\ Line'[1] = L[1]
    BY <1>4, <1>9, <1>11, <2>2, <2>3
  <2>5. /\ sent'[c] = sent[c] /\ Length(c)' = Length(c) /\ hits'[c] = hits[c]
        /\ MayRunOn(c)' <=> MayRunOn(c)
        /\ MayRunOn(c - 1)' <=> MayRunOn(c - 1)
        /\ DamageAhead(c)' <=> DamageAhead(c)
        /\ reports' = reports /\ decoder' = decoder
    BY <1>2, <1>8, <1>10, <1>17, <2>4
  <2>6. LET q == L[1].place
        IN q > 1 /\ ~MayRunOn(c) =>
             /\ ~DamageAhead(c) =>
                  /\ q = Length(c) - 1 => BeforeFlag(decoder)
                  /\ q = Length(c) => BeforeMarker(decoder, sent[c], reports[c] > 0)
             /\ ~MayRunOn(c - 1) /\ (hits[c] = 0 \/ DamageAhead(c)) =>
                  Exact(decoder, sent[c], q - 1) /\ reports[c] = 0
    BY <1>1, <1>3, <2>2, <2>3 DEF WithinInv
  <2>7. LET q == L[1].place
        IN q > 1 /\ ~MayRunOn(c)' =>
             /\ ~DamageAhead(c)' =>
                  /\ q = Length(c)' - 1 => BeforeFlag(decoder')
                  /\ q = Length(c)' => BeforeMarker(decoder', sent'[c], reports'[c] > 0)
             /\ ~MayRunOn(c - 1)' /\ (hits'[c] = 0 \/ DamageAhead(c)') =>
                  Exact(decoder', sent'[c], q - 1) /\ reports'[c] = 0
    BY <2>5, <2>6
  <2>8. /\ MayRunOn(Line[1].frame)' <=> MayRunOn(c)'
        /\ MayRunOn(Line[1].frame - 1)' <=> MayRunOn(c - 1)'
        /\ DamageAhead(Line[1].frame)' <=> DamageAhead(c)'
        /\ Length(Line[1].frame)' = Length(c)'
        /\ Line'[1].frame = c
    <3>1. Line'[1].frame = c
      BY <2>3, <2>4
    <3> QED
      BY <3>1 DEF MayRunOn, DamageAhead, Length
  <2> QED
    BY <2>4, <2>7, <2>8 DEF WithinInv
<1>19. ReadInv'
  <2>1. SUFFICES ASSUME NEW c \in 1 .. k, ~MayRunOn(c)', ~Unread(c)'
                 PROVE  /\ (\E i \in 1 .. Len(returned) : returned[i] = sent'[c])
                           \/ reports[c] > 0
                        /\ hits'[c] = 0 /\ ~MayRunOn(c - 1)' => reports[c] = 0
    BY <1>2, <1>8 DEF ReadInv
  <2>2. CASE c \in 1 .. k - 1
    <3>1. ~MayRunOn(c) /\ ~Unread(c) /\ c \in 1 .. Len(sent)
          /\ (MayRunOn(c - 1)' <=> MayRunOn(c - 1))
          /\ sent'[c] = sent[c] /\ hits'[c] = hits[c]
      BY <1>8, <1>10, <1>17, <2>1, <2>2
    <3> QED
      BY <1>1, <3>1 DEF ReadInv
  <2>3. CASE c = k
    <3>1. k \in cut' => RunsOn(hits', cut', k)
      BY <1>2, <1>8, <1>10, RunsOnFacts
    <3>2. lg = Length(k)'
      BY <1>8, <2>1, <2>3, <3>1, RunsOnIs
    <3>3. lg # 0
      <4>1. Length(k)' = Len(Covered(m)) + 4
        BY <1>1, AddsIs
      <4> DEFINE n == Len(Covered(m))
      <4>2. n \in Nat
        BY <1>2, CoveredLength
      <4> HIDE DEF n
      <4>3. n + 4 # 0
        BY <4>2
      <4> QED
        BY <3>2, <4>1, <4>3 DEF n
    <3>4. 1 \in 1 .. lg
      BY <1>9, <3>3
    <3>5. l + 1 \in 1 .. r /\ R[l + 1].frame = k
      BY <1>9, <3>4
    <3> QED
      BY <1>4, <1>6, <2>1, <2>3, <3>5 DEF Unread
  <2> QED
    BY <1>10, <2>2, <2>3
<1>20. UnreadInv'
  <2>1. SUFFICES ASSUME NEW c \in 1 .. MaxFrames,
                        \/ c > k
                        \/ /\ R # <<>>
                           /\ R[1].frame < c \/ (R[1].frame = c /\ R[1].place = 1)
                 PROVE  reports[c] = 0
    BY <1>2, <1>4, <1>8 DEF UnreadInv
  <2>2. CASE c > k - 1
    BY <1>1, <1>8, <2>2 DEF UnreadInv
  <2>3. CASE ~(c > k - 1)
    <3>1. ~(c > k) /\ c < k /\ c # k /\ ~(k < c)
      BY <1>10, <2>3
    <3>2. R # <<>> /\ L # <<>>
      BY <1>9, <1>11, <2>1, <3>1
    <3>3. R[1] = L[1]
      BY <1>9, <1>11, <3>2
    <3> QED
      BY <1>1, <1>3, <2>1, <3>1, <3>2, <3>3 DEF UnreadInv
  <2> QED
    BY <2>2, <2>3
<1> QED
  BY <1>12, <1>13, <1>15, <1>16, <1>18, <1>19, <1>20 DEF StreamInv

-----------------------------------------------------------------------------
(* The invariant holds throughout. *)

\* A step that changes nothing keeps the invariant.
LEMMA StutterKeeps ==
  ASSUME StreamInv, UNCHANGED streamVars
  PROVE  StreamInv'
<1>1. /\ UNCHANGED <<parameters, wire, receive_deque, decoder, sent, returned>>
      /\ UNCHANGED <<reports, hits, cut>>
  BY DEF streamVars
<1>2. Line' = Line
  BY <1>1 DEF Line
<1>3. StreamTypeOK'
  BY <1>1 DEF StreamInv, StreamTypeOK
<1>4. LineInv'
  BY <1>1, <1>2 DEF StreamInv, LineInv, Genuine, Damaged, Follows, Ends, Length, Before
<1>5. OrderInv'
  BY <1>1, <1>2 DEF StreamInv, OrderInv
<1>6. FrameInv'
  BY <1>1, <1>2 DEF StreamInv, FrameInv, MayRunOn
<1>7. WithinInv'
  BY <1>1, <1>2 DEF StreamInv, WithinInv, MayRunOn, DamageAhead, Damaged, Length
<1>8. ReadInv'
  BY <1>1, <1>2 DEF StreamInv, ReadInv, MayRunOn, Unread
<1>9. UnreadInv'
  BY <1>1, <1>2 DEF StreamInv, UnreadInv
<1> QED
  BY <1>3, <1>4, <1>5, <1>6, <1>7, <1>8, <1>9 DEF StreamInv

\* The invariant holds on an empty line.
LEMMA InitHolds ==
  ASSUME StreamInit
  PROVE  StreamInv
<1>1. /\ wire = <<>> /\ receive_deque = <<>> /\ decoder = Skip
      /\ sent = <<>> /\ returned = <<>> /\ cut = {}
      /\ reports = [k \in 1 .. MaxFrames |-> 0]
      /\ hits = [k \in 1 .. MaxFrames |-> 0]
  BY DEF StreamInit
<1>2. Line = <<>>
  <2>1. <<>> \in Seq(Elements)
    OBVIOUS
  <2> QED
    BY <1>1, <2>1, ConcatEmptySeq DEF Line
<1>3. Len(sent) = 0 /\ Len(Line) = 0 /\ Len(returned) = 0 /\ 1 .. 0 = {}
      /\ 1 .. 0 - 1 = {}
  BY <1>1, <1>2
<1>4. StreamTypeOK
  <2>1. parameters.offset \in Nat
    BY LineAssumption DEF StreamInit
  <2>2. \A S : <<>> \in Seq(S)
    OBVIOUS
  <2>3. Len(wire) <= SocketCapacity /\ Len(sent) <= MaxFrames
    BY <1>1, LineAssumption
  <2>4. reports \in [1 .. MaxFrames -> Nat] /\ hits \in [1 .. MaxFrames -> 0 .. 2]
    BY <1>1
  <2> QED
    BY <1>1, <1>3, <2>1, <2>2, <2>3, <2>4, SkipIs DEF StreamTypeOK
<1>5. LineInv
  BY <1>2, <1>3 DEF LineInv
<1>6. OrderInv
  BY <1>1, <1>3, SkipIs DEF OrderInv
<1>7. FrameInv
  BY <1>1, SkipIs DEF FrameInv
<1>8. WithinInv
  BY <1>2 DEF WithinInv
<1>9. ReadInv
  BY <1>3 DEF ReadInv
<1>10. UnreadInv
  BY <1>1 DEF UnreadInv
<1> QED
  BY <1>4, <1>5, <1>6, <1>7, <1>8, <1>9, <1>10 DEF StreamInv

\* On every line, with every message and every error, the decoder is where the
\* frames that were sent allow it to be.
THEOREM StreamInvariant == StreamSpec => []StreamInv
<1>1. StreamInit => StreamInv
  BY InitHolds
<1>2. StreamInv /\ [StreamNext]_streamVars => StreamInv'
  <2> SUFFICES ASSUME StreamInv, [StreamNext]_streamVars
               PROVE  StreamInv'
    OBVIOUS
  <2>1. StreamTypeOK
    BY DEF StreamInv
  <2>2. CASE Sends
    BY <2>1, <2>2, SendsAdds, AddsKeeps
  <2>3. CASE ReadsDeque
    BY <2>1, <2>3, TakesDeque, TakeKeeps
  <2>4. CASE ReadsSocket
    BY <2>1, <2>4, TakesSocket, TakeKeeps
  <2>5. CASE ReadsNothing
    BY <2>5, NothingKeeps
  <2>6. CASE UNCHANGED streamVars
    BY <2>6, StutterKeeps
  <2> QED
    BY <2>2, <2>3, <2>4, <2>5, <2>6 DEF StreamNext
<1> QED
  BY <1>1, <1>2, PTL DEF StreamSpec

\* ReceiveMessage returns only messages that were sent, in their order and
\* each at most once, whatever happens to the bytes.
THEOREM OnlySent == StreamSpec => []OnlySentMessages
<1>1. StreamInv => OnlySentMessages
  <2> SUFFICES ASSUME StreamInv
               PROVE  OnlySentMessages
    OBVIOUS
  <2>1. OrderInv /\ sent \in Seq(AllMessages) /\ returned \in Seq(AllMessages)
    BY DEF StreamInv, StreamTypeOK
  <2>2. DOMAIN sent = 1 .. Len(sent) /\ DOMAIN returned = 1 .. Len(returned)
    BY <2>1
  <2>3. ToSet(returned) \subseteq ToSet(sent)
    BY <2>1, <2>2 DEF OrderInv, ToSet
  <2>4. \A i, j \in DOMAIN returned : i < j => returned[i].sequence < returned[j].sequence
    BY <2>1, <2>2 DEF OrderInv
  <2> QED
    BY <2>3, <2>4 DEF OnlySentMessages
<1> QED
  BY <1>1, StreamInvariant, PTL

\* Nothing is left on a line that is drained.
LEMMA DrainedIs ==
  ASSUME StreamInv, Drained, NEW k \in DOMAIN sent
  PROVE  /\ k \in 1 .. Len(sent) /\ k \in 1 .. MaxFrames /\ ~Unread(k)
         /\ Lost(k) /\ ~MayRunOn(k) => reports[k] > 0
         /\ Lost(k) /\ ~MayRunOn(k) /\ hits[k] = 0 => MayRunOn(k - 1)
<1>1. StreamTypeOK /\ ReadInv
  BY DEF StreamInv
<1>2. sent \in Seq(AllMessages) /\ returned \in Seq(AllMessages)
  BY <1>1 DEF StreamTypeOK
<1>3. k \in 1 .. Len(sent) /\ DOMAIN returned = 1 .. Len(returned)
  BY <1>2
<1>4. k \in 1 .. MaxFrames
  BY <1>1, <1>3, SentIs
<1>5. Line = <<>>
  <2>1. <<>> \in Seq(Elements)
    OBVIOUS
  <2> QED
    BY <2>1, ConcatEmptySeq DEF Line, Drained
<1>6. ~Unread(k)
  BY <1>5 DEF Unread
<1>7. Lost(k) => ~\E i \in 1 .. Len(returned) : returned[i] = sent[k]
  BY <1>3 DEF Lost, ToSet
<1>8. reports[k] \in Nat
  BY <1>1, <1>4 DEF StreamTypeOK
<1> QED
  BY <1>1, <1>3, <1>4, <1>6, <1>7, <1>8 DEF ReadInv

\* A frame without a hit is run into only from the one before.
LEMMA RunsInto ==
  ASSUME StreamTypeOK, NEW k \in 1 .. MaxFrames, ~(hits[k] > 0), k \notin cut,
         ~MayRunOn(k - 1)
  PROVE  ~MayRunOn(k) /\ hits[k] = 0
<1>1. hits \in [1 .. MaxFrames -> 0 .. 2] /\ MaxFrames \in Nat
  BY LineAssumption DEF StreamTypeOK
<1>2. RunsOn(hits, cut, k) => k \in cut \/ hits[k] > 0
  BY <1>1, RunsOnFacts
<1>3. hits[k] = 0
  BY <1>1
<1> QED
  BY <1>2, <1>3, RunsOnIs

\* What goes wrong in a frame costs that frame alone, unless the decoder runs
\* on from it into the next.
THEOREM LossStaysLocal == StreamSpec => []LossIsLocal
<1>1. StreamInv => LossIsLocal
  <2> SUFFICES ASSUME StreamInv, Drained, NEW k \in DOMAIN sent, Lost(k),
                      ~(hits[k] > 0), k \notin cut, ~MayRunOn(k - 1)
               PROVE  FALSE
    BY DEF LossIsLocal
  <2>1. k \in 1 .. MaxFrames /\ StreamTypeOK
    BY DrainedIs DEF StreamInv
  <2>2. ~MayRunOn(k) /\ hits[k] = 0
    BY <2>1, RunsInto
  <2> QED
    BY <2>2, DrainedIs
<1> QED
  BY <1>1, StreamInvariant, PTL

\* An exception is thrown over the frame of every message that is lost, unless
\* the decoder may run on from it.
THEOREM LossReported == StreamSpec => []LossIsReported
<1>1. StreamInv => LossIsReported
  BY DrainedIs DEF LossIsReported
<1> QED
  BY <1>1, StreamInvariant, PTL

\* No exception is thrown over a frame that arrives whole, unless the decoder
\* runs into it.
THEOREM FalseReportsNone == StreamSpec => []NoFalseReports
<1>1. StreamInv => NoFalseReports
  <2> SUFFICES ASSUME StreamInv, NEW k \in DOMAIN reports, reports[k] > 0,
                      ~(hits[k] > 0), k \notin cut, ~MayRunOn(k - 1)
               PROVE  FALSE
    BY DEF NoFalseReports
  <2>1. StreamTypeOK /\ LineInv /\ WithinInv /\ ReadInv /\ UnreadInv
    BY DEF StreamInv
  <2>2. k \in 1 .. MaxFrames /\ reports[k] # 0 /\ MaxFrames \in Nat
    BY <2>1, LineAssumption DEF StreamTypeOK
  <2>3. ~MayRunOn(k) /\ hits[k] = 0
    BY <2>1, <2>2, RunsInto
  <2>4. k \in 1 .. Len(sent)
    <3>1. ~(k > Len(sent))
      BY <2>1, <2>2 DEF UnreadInv
    <3>2. Len(sent) \in Nat
      <4>1. sent \in Seq(AllMessages)
        BY <2>1 DEF StreamTypeOK
      <4> QED
        BY <4>1
    <3> QED
      BY <2>2, <3>1, <3>2
  <2>5. PICK i \in 1 .. Len(Line) : Line[i].frame = k
    BY <2>1, <2>2, <2>3, <2>4 DEF ReadInv, Unread
  <2>6. Line # <<>> /\ 1 \in 1 .. Len(Line) /\ (i = 1 \/ 1 < i)
    <3>1. Line \in Seq(Elements)
      <4>1. receive_deque \in Seq(Elements) /\ wire \in Seq(Elements)
        BY <2>1 DEF StreamTypeOK
      <4> QED
        BY <4>1, ConcatProperties DEF Line
    <3> DEFINE L == Line
    <3>2. L \in Seq(Elements) /\ i \in 1 .. Len(L)
      BY <2>5, <3>1
    <3> HIDE DEF L
    <3>3. L # <<>> /\ 1 \in 1 .. Len(L) /\ (i = 1 \/ 1 < i)
      BY <3>2
    <3> QED
      BY <3>3 DEF L
  <2>7. Line[1].frame < k \/ Line[1].frame = k
    BY <2>1, <2>5, <2>6 DEF LineInv, Before
  <2>8. Line[1].frame = k /\ Line[1].place # 1
    BY <2>1, <2>2, <2>6, <2>7 DEF UnreadInv
  <2>9. Line[1].place > 1
    <3>1. Line[1].place \in 1 .. Length(Line[1].frame)
      BY <2>1, <2>6 DEF LineInv, Genuine
    <3> DEFINE p == Line[1].place
    <3>2. p \in Nat /\ p >= 1 /\ p # 1
      BY <2>8, <3>1
    <3> HIDE DEF p
    <3>3. p > 1
      BY <3>2
    <3> QED
      BY <3>3 DEF p
  <2> QED
    BY <2>1, <2>2, <2>3, <2>6, <2>8, <2>9 DEF WithinInv
<1> QED
  BY <1>1, StreamInvariant, PTL
=============================================================================
