------------------------- MODULE MessageCoderProofs -------------------------
(***************************************************************************)
(* What MessageCoder::Encode and MessageCoder::Decode are to each other,   *)
(* for every flag, escape and end marker, every width of the fields and    *)
(* every payload: no two messages are written alike, the decoder has at    *)
(* every byte parsed a beginning of what it has read and nothing else, it  *)
(* takes each element of a frame as it was meant, and it comes out of a    *)
(* frame that was damaged once.                                            *)
(***************************************************************************)
EXTENDS MessageStream, FoldLemmas, SequenceTheorems

Bytes == 0 .. ByteModulus - 1

-----------------------------------------------------------------------------
(* Sequences. *)

\* What two sequences are together.
LEMMA Joined ==
  ASSUME NEW S, NEW s \in Seq(S), NEW t \in Seq(S)
  PROVE  /\ s \o t \in Seq(S) /\ Len(s \o t) = Len(s) + Len(t)
         /\ \A i \in 1 .. Len(s) : (s \o t)[i] = s[i]
         /\ \A i \in 1 .. Len(t) : (s \o t)[Len(s) + i] = t[i]
         /\ s \o <<>> = s /\ <<>> \o s = s
         /\ s \o t = <<>> => s = <<>> /\ t = <<>>
  OBVIOUS

\* Sequences can be joined in either order.
LEMMA JoinedThree ==
  ASSUME NEW S, NEW s \in Seq(S), NEW t \in Seq(S), NEW z \in Seq(S)
  PROVE  (s \o t) \o z = s \o (t \o z)
  OBVIOUS

\* An element is appended by joining it.
LEMMA JoinedOne ==
  ASSUME NEW S, NEW s \in Seq(S), NEW t \in Seq(S), NEW b \in S
  PROVE  /\ Append(s, b) \in Seq(S) /\ Append(s, b) = s \o <<b>>
         /\ s \o Append(t, b) = Append(s \o t, b)
         /\ <<b>> \in Seq(S)
  OBVIOUS

\* What a sequence that is not empty is made of, from either end.
LEMMA JoinedEnds ==
  ASSUME NEW S, NEW s \in Seq(S), s # <<>>
  PROVE  /\ Head(s) = s[1] /\ s[1] \in S /\ Tail(s) \in Seq(S)
         /\ Len(Tail(s)) = Len(s) - 1 /\ s = <<s[1]>> \o Tail(s)
         /\ \A i \in 1 .. Len(s) - 1 : Tail(s)[i] = s[i + 1]
         /\ \E t \in Seq(S) : /\ Len(t) = Len(s) - 1 /\ s[Len(s)] \in S
                              /\ s = t \o <<s[Len(s)]>>
<1> DEFINE n == Len(s)
           t == SubSeq(s, 1, n - 1)
<1>1. n \in Nat \ {0} /\ 1 \in 1 .. n /\ n \in 1 .. n /\ 1 .. 1 \subseteq 1 .. n
  BY EmptySeq
<1>2. SubSeq(s, 1, n) = s
  BY SubSeqFull
<1>3. s = <<s[1]>> \o Tail(s)
  <2>1. SubSeq(s, 1, n) = <<s[1]>> \o SubSeq(s, 1 + 1, n)
    BY <1>1, SubSeqRecursiveFirst
  <2>2. Tail(s) = SubSeq(s, 1 + 1, n)
    BY TailIsSubSeq
  <2> QED
    BY <1>2, <2>1, <2>2
<1>4. s = t \o <<s[n]>>
  BY <1>1, <1>2, SubSeqRecursiveSecond
<1>5. t \in Seq(S) /\ Len(t) = n - 1
  <2>1. \A i \in 1 .. n - 1 : s[i] \in S
    BY <1>1
  <2>2. 1 \in Int /\ n - 1 \in Int
    BY <1>1
  <2>3. /\ SubSeq(s, 1, n - 1) \in Seq(S)
        /\ Len(SubSeq(s, 1, n - 1)) = IF 1 <= n - 1 THEN (n - 1) - 1 + 1 ELSE 0
    BY <2>1, <2>2, SubSeqProperties
  <2> HIDE DEF n
  <2>4. Len(SubSeq(s, 1, n - 1)) = n - 1
    BY <1>1, <2>3
  <2> QED
    BY <2>3, <2>4
<1>6. /\ Head(s) = s[1] /\ s[1] \in S /\ s[n] \in S /\ Tail(s) \in Seq(S)
      /\ Len(Tail(s)) = n - 1
      /\ \A i \in 1 .. n - 1 : Tail(s)[i] = s[i + 1]
  BY <1>1, HeadTailProperties
<1> HIDE DEF t
<1> QED
  BY <1>3, <1>4, <1>5, <1>6

\* Sequences that begin or end alike differ in the rest.
LEMMA JoinedSame ==
  ASSUME NEW S, NEW s \in Seq(S), NEW t \in Seq(S), NEW u \in Seq(S),
         NEW v \in Seq(S), s \o t = u \o v, Len(s) = Len(u)
  PROVE  s = u /\ t = v
<1> DEFINE a == s \o t
           b == u \o v
<1>1. /\ Len(a) = Len(s) + Len(t)
      /\ \A i \in 1 .. Len(s) + Len(t) :
           a[i] = IF i <= Len(s) THEN s[i] ELSE t[i - Len(s)]
  BY ConcatProperties
<1>2. /\ Len(b) = Len(u) + Len(v)
      /\ \A i \in 1 .. Len(u) + Len(v) :
           b[i] = IF i <= Len(u) THEN u[i] ELSE v[i - Len(u)]
  BY ConcatProperties
<1>3. a = b
  OBVIOUS
<1> HIDE DEF a, b
<1>4. /\ Len(s) \in Nat /\ Len(t) \in Nat /\ Len(v) \in Nat
      /\ Len(t) = Len(v)
  BY <1>3, <1>1, <1>2
<1>5. \A i \in 1 .. Len(s) : s[i] = u[i]
  BY <1>3, <1>1, <1>2, <1>4
<1>6. ASSUME NEW i \in 1 .. Len(t)
      PROVE  t[i] = v[i]
  <2>1. /\ Len(s) + i \in 1 .. Len(s) + Len(t) /\ ~(Len(s) + i <= Len(s))
        /\ (Len(s) + i) - Len(s) = i
    BY <1>4
  <2> QED
    BY <1>3, <1>1, <1>2, <1>4, <2>1
<1>7. s = u
  BY <1>5, SeqEqual
<1>8. t = v
  BY <1>4, <1>6, SeqEqual
<1> QED
  BY <1>7, <1>8

\* An interval from 1 without its last number.
LEMMA UpTo ==
  ASSUME NEW k \in Nat \ {0}
  PROVE  k \in 1 .. k /\ 1 .. k # {} /\ (1 .. k) \ {k} = 1 .. k - 1
<1>1. k \in 1 .. k
  OBVIOUS
<1>2. \A i : i \in (1 .. k) \ {k} <=> i \in 1 .. k - 1
  OBVIOUS
<1>3. (1 .. k) \ {k} = 1 .. k - 1
  BY <1>2
<1> QED
  BY <1>1, <1>3

-----------------------------------------------------------------------------
(* Numbers and their bytes. *)

IsPower(g, k) ==
  /\ g \in [0 .. k -> Nat \ {0}]
  /\ g[0] = 1 /\ \A i \in 1 .. k : g[i] = ByteModulus * g[i - 1]

\* A table of powers exists up to every number.
LEMMA PowersUpTo ==
  ASSUME NEW k \in Nat
  PROVE  \E g : IsPower(g, k)
<1> DEFINE T == {n \in Nat : \E g : IsPower(g, n)}
<1>1. 0 \in T
  <2> DEFINE g == [i \in 0 .. 0 |-> 1]
  <2>1. IsPower(g, 0)
    BY DEF IsPower
  <2> QED
    BY <2>1
<1>2. ASSUME NEW n \in T
      PROVE  n + 1 \in T
  <2>1. PICK g : IsPower(g, n)
    OBVIOUS
  <2> DEFINE h == [i \in 0 .. n + 1 |-> IF i = n + 1 THEN ByteModulus * g[n] ELSE g[i]]
  <2>2. ByteModulus \in Nat \ {0}
    BY ByteAssumption
  <2>3. g \in [0 .. n -> Nat \ {0}] /\ g[n] \in Nat \ {0}
    BY <2>1 DEF IsPower
  <2>4. ByteModulus * g[n] \in Nat \ {0}
    BY <2>2, <2>3
  <2>5. h \in [0 .. n + 1 -> Nat \ {0}]
    BY <2>3, <2>4
  <2>6. h[0] = 1
    BY <2>1 DEF IsPower
  <2>7. ASSUME NEW i \in 1 .. n + 1
        PROVE  h[i] = ByteModulus * h[i - 1]
    <3>1. CASE i = n + 1
      BY <3>1
    <3>2. CASE i # n + 1
      <4>1. i \in 1 .. n
        BY <3>2
      <4> QED
        BY <2>1, <4>1 DEF IsPower
    <3> QED
      BY <3>1, <3>2
  <2> HIDE DEF h
  <2>8. IsPower(h, n + 1)
    BY <2>5, <2>6, <2>7 DEF IsPower
  <2> QED
    BY <2>8
<1> HIDE DEF T
<1>3. T \subseteq Nat
  BY DEF T
<1>4. T = Nat
  BY <1>1, <1>2, <1>3, SetInduction
<1> QED
  BY <1>4 DEF T

\* Two tables of powers agree as far as both reach.
LEMMA PowersAgree ==
  ASSUME NEW k \in Nat, NEW n \in Nat, NEW g, NEW h,
         IsPower(g, k), IsPower(h, n)
  PROVE  \A i \in Nat : i <= k /\ i <= n => g[i] = h[i]
<1> DEFINE T == {i \in Nat : i <= k /\ i <= n => g[i] = h[i]}
<1>1. 0 \in T
  BY DEF IsPower
<1>2. ASSUME NEW i \in T
      PROVE  i + 1 \in T
  <2>1. SUFFICES ASSUME i + 1 <= k, i + 1 <= n
                 PROVE  g[i + 1] = h[i + 1]
    OBVIOUS
  <2>2. g[i] = h[i]
    BY <2>1
  <2>3. i + 1 \in 1 .. k /\ i + 1 \in 1 .. n /\ (i + 1) - 1 = i
    BY <2>1
  <2>4. g[i + 1] = ByteModulus * g[i] /\ h[i + 1] = ByteModulus * h[i]
    BY <2>3 DEF IsPower
  <2> QED
    BY <2>2, <2>4
<1> HIDE DEF T
<1>3. T = Nat
  <2>1. T \subseteq Nat
    BY DEF T
  <2> QED
    BY <1>1, <1>2, <2>1, SetInduction
<1> QED
  BY <1>3 DEF T

\* What Power is: its recursive definition has a solution.
LEMMA PowerIs ==
  /\ Power[0] = 1
  /\ \A w \in Nat : /\ Power[w] \in Nat \ {0}
                    /\ Power[w + 1] = ByteModulus * Power[w]
<1> DEFINE G(k) == CHOOSE g : IsPower(g, k)
           f == [k \in Nat |-> G(k)[k]]
           Step(p) == [w \in Nat |-> IF w = 0 THEN 1 ELSE ByteModulus * p[w - 1]]
<1>1. ASSUME NEW k \in Nat
      PROVE  IsPower(G(k), k)
  BY PowersUpTo, Zenon
<1> HIDE DEF G
<1>2. ASSUME NEW k \in Nat
      PROVE  f[k + 1] = ByteModulus * f[k]
  <2>1. IsPower(G(k), k) /\ IsPower(G(k + 1), k + 1)
    BY <1>1
  <2>2. G(k + 1)[k] = G(k)[k]
    <3>1. k + 1 \in Nat /\ k <= k /\ k <= k + 1
      OBVIOUS
    <3> QED
      BY <2>1, <3>1, PowersAgree
  <2>3. G(k + 1)[k + 1] = ByteModulus * G(k + 1)[k]
    <3>1. k + 1 \in 1 .. k + 1 /\ (k + 1) - 1 = k
      OBVIOUS
    <3> QED
      BY <2>1, <3>1 DEF IsPower
  <2> QED
    BY <2>2, <2>3
<1>3. f[0] = 1 /\ \A k \in Nat : f[k] \in Nat \ {0}
  BY <1>1 DEF IsPower
<1>4. f = Step(f)
  <2>1. ASSUME NEW w \in Nat, w # 0
        PROVE  f[w] = ByteModulus * f[w - 1]
    <3>1. w - 1 \in Nat /\ (w - 1) + 1 = w
      BY <2>1
    <3> QED
      BY <1>2, <3>1
  <2>2. DOMAIN f = Nat /\ f = [k \in Nat |-> f[k]]
    OBVIOUS
  <2> HIDE DEF f
  <2> QED
    BY <1>3, <2>1, <2>2
<1>5. Power = CHOOSE p : p = Step(p)
  BY DEF Power
<1>6. Power = Step(Power)
  <2> HIDE DEF Step, f
  <2> QED
    BY <1>4, <1>5, Zenon
<1>7. Power[0] = 1
  <2>1. 0 \in Nat
    OBVIOUS
  <2> HIDE DEF f
  <2> QED
    BY <1>6, <2>1
<1>8. \A w \in Nat : Power[w + 1] = ByteModulus * Power[w]
  <2>1. \A w \in Nat : w + 1 \in Nat /\ w + 1 # 0 /\ (w + 1) - 1 = w
    OBVIOUS
  <2> HIDE DEF f
  <2> QED
    BY <1>6, <2>1
<1>9. \A w \in Nat : Power[w] \in Nat \ {0}
  <2> DEFINE T == {w \in Nat : Power[w] \in Nat \ {0}}
  <2>1. 0 \in T /\ T \subseteq Nat
    BY <1>7
  <2>2. ASSUME NEW w \in T
        PROVE  w + 1 \in T
    <3>1. ByteModulus \in Nat \ {0}
      BY ByteAssumption
    <3> DEFINE p == Power[w]
    <3>2. p \in Nat \ {0} /\ Power[w + 1] = ByteModulus * p
      BY <1>8
    <3> HIDE DEF p
    <3>3. ByteModulus * p \in Nat \ {0}
      BY <3>1, <3>2
    <3> QED
      BY <3>2, <3>3
  <2> HIDE DEF T
  <2>3. T = Nat
    BY <2>1, <2>2, SetInduction
  <2> QED
    BY <2>3 DEF T
<1> QED
  BY <1>7, <1>8, <1>9

\* The quotient of a number by a product.
LEMMA DivideTwice ==
  ASSUME NEW n \in Nat, NEW a \in Nat \ {0}, NEW b \in Nat \ {0}
  PROVE  n \div (a * b) = (n \div a) \div b
<1> DEFINE q == n \div a
           r == n % a
           p == q \div b
           s == q % b
<1>1. q \in Nat /\ r \in 0 .. a - 1 /\ n = a * q + r
  OBVIOUS
<1> HIDE DEF q, r
<1>2. p \in Nat /\ s \in 0 .. b - 1 /\ q = b * p + s
  BY <1>1
<1> HIDE DEF p, s
<1> DEFINE t == a * s + r
           c == a * b
<1>3. n = c * p + t
  <2> DEFINE u == a * q
             v == a * s
             w == c * p
  <2>1. u = a * (b * p) + v
    BY <1>1, <1>2
  <2>2. a * (b * p) = w
    BY <1>2
  <2>3. u \in Int /\ v \in Int /\ w \in Int
    BY <1>1, <1>2
  <2>4. n = u + r /\ t = v + r
    BY <1>1
  <2> HIDE DEF u, v, w, t, c
  <2>5. n = w + t
    BY <1>1, <2>1, <2>2, <2>3, <2>4
  <2> QED
    BY <2>5 DEF w
<1>4. c \in Nat \ {0}
  OBVIOUS
<1>5. t \in 0 .. c - 1
  <2>1. s <= b - 1 /\ s \in Nat
    BY <1>2
  <2>2. a * s <= a * (b - 1)
    BY <2>1
  <2>3. a * (b - 1) = c - a
    OBVIOUS
  <2>4. a * s \in Nat
    BY <2>1
  <2> QED
    BY <1>1, <2>2, <2>3, <2>4
<1> HIDE DEF t, c
<1>6. n \div c = p
  BY <1>2, <1>3, <1>4, <1>5
<1> QED
  BY <1>6 DEF p, q, c

Holds(v, s) == v \in 0 .. Power[Len(s)] - 1 /\ BigEndian(v, Len(s)) = s

\* A number has as many bytes as it is written with.
LEMMA BigEndianType ==
  ASSUME NEW n \in Nat, NEW w \in Nat
  PROVE  /\ BigEndian(n, w) \in Seq(Bytes) /\ Len(BigEndian(n, w)) = w
         /\ \A i \in 1 .. w :
              BigEndian(n, w)[i] = (n \div Power[w - i]) % ByteModulus
<1>1. ASSUME NEW i \in 1 .. w
      PROVE  (n \div Power[w - i]) % ByteModulus \in Bytes
  <2>1. w - i \in Nat
    OBVIOUS
  <2>2. Power[w - i] \in Nat \ {0}
    BY <2>1, PowerIs
  <2> DEFINE q == n \div Power[w - i]
  <2>3. q \in Nat
    BY <2>2
  <2>4. ByteModulus \in Nat \ {0}
    BY ByteAssumption
  <2> HIDE DEF q
  <2>5. q % ByteModulus \in 0 .. ByteModulus - 1
    BY <2>3, <2>4
  <2> QED
    BY <2>5 DEF Bytes, q
<1> QED
  BY <1>1 DEF BigEndian

\* One more byte: the last is the remainder, the others are the quotient's.
LEMMA BigEndianNext ==
  ASSUME NEW n \in Nat, NEW w \in Nat
  PROVE  /\ n \div ByteModulus \in Nat
         /\ n % ByteModulus \in Bytes
         /\ BigEndian(n, w + 1)
              = Append(BigEndian(n \div ByteModulus, w), n % ByteModulus)
<1> DEFINE q == n \div ByteModulus
           r == n % ByteModulus
           s == BigEndian(n, w + 1)
           t == BigEndian(q, w)
<1>1. ByteModulus \in Nat \ {0}
  BY ByteAssumption
<1>2. q \in Nat /\ r \in Bytes
  BY <1>1 DEF Bytes
<1>3. s \in Seq(Bytes) /\ Len(s) = w + 1
  <2>1. w + 1 \in Nat
    OBVIOUS
  <2> QED
    BY <2>1, BigEndianType
<1>4. t \in Seq(Bytes) /\ Len(t) = w
  <2> HIDE DEF q
  <2> QED
    BY <1>2, BigEndianType
<1>5. ASSUME NEW i \in 1 .. w
      PROVE  s[i] = t[i]
  <2> DEFINE p == Power[w - i]
  <2>1. w - i \in Nat /\ (w - i) + 1 = (w + 1) - i /\ w + 1 \in Nat
        /\ i \in 1 .. w + 1
    OBVIOUS
  <2>2. p \in Nat \ {0} /\ Power[(w + 1) - i] = ByteModulus * p
    BY <2>1, PowerIs
  <2>3. s[i] = (n \div Power[(w + 1) - i]) % ByteModulus
    <3> HIDE DEF p
    <3> QED
      BY <2>1, BigEndianType
  <2>4. t[i] = (q \div p) % ByteModulus
    <3> HIDE DEF q
    <3> QED
      BY <1>2, BigEndianType
  <2>5. n \div (ByteModulus * p) = q \div p
    <3> HIDE DEF p
    <3> QED
      BY <1>1, <2>2, DivideTwice
  <2> HIDE DEF p, q, s, t
  <2> QED
    BY <2>2, <2>3, <2>4, <2>5
<1>6. s[w + 1] = r
  <2>1. w + 1 \in Nat /\ w + 1 \in 1 .. w + 1 /\ (w + 1) - (w + 1) = 0
    OBVIOUS
  <2>2. s[w + 1] = (n \div Power[(w + 1) - (w + 1)]) % ByteModulus
    BY <2>1, BigEndianType
  <2>3. n \div 1 = n
    OBVIOUS
  <2> HIDE DEF s
  <2> QED
    BY <2>1, <2>2, <2>3, PowerIs
<1> HIDE DEF s, t, q, r
<1>7. s = Append(t, r)
  BY <1>2, <1>3, <1>4, <1>5, <1>6
<1> QED
  BY <1>2, <1>7 DEF s, t, q, r

\* No byte holds the number 0.
LEMMA HoldsNothing == Holds(0, <<>>)
<1>1. BigEndian(0, 0) = <<>>
  <2>1. BigEndian(0, 0) \in Seq(Bytes) /\ Len(BigEndian(0, 0)) = 0
    BY BigEndianType
  <2> QED
    BY <2>1
<1>2. Len(<<>>) = 0
  OBVIOUS
<1> QED
  BY <1>1, <1>2, PowerIs DEF Holds

\* A number below the power has its quotient below the power before.
LEMMA QuotientFits ==
  ASSUME NEW n \in Nat, NEW p \in Nat \ {0}, NEW a \in Nat \ {0}, n < a * p
  PROVE  n \div a < p
<1> DEFINE q == n \div a
<1>1. q \in Nat /\ a * q <= n
  OBVIOUS
<1> HIDE DEF q
<1>2. ~(q >= p)
  <2>1. ASSUME q >= p
        PROVE  a * q >= a * p
    BY <1>1, <2>1
  <2> DEFINE u == a * q
             v == a * p
  <2>2. u \in Int /\ v \in Int /\ u <= n /\ n < v
    BY <1>1
  <2>3. q >= p => u >= v
    BY <2>1
  <2> HIDE DEF u, v
  <2> QED
    BY <2>2, <2>3
<1>3. q < p
  BY <1>1, <1>2
<1> QED
  BY <1>3 DEF q

\* What a field holds after one more byte: the loop of ReadFromStreamWithCRC.
LEMMA HoldsOneMore ==
  ASSUME NEW s \in Seq(Bytes), NEW v \in Nat, NEW b \in Bytes, Holds(v, s)
  PROVE  Holds(ByteModulus * v + b, Append(s, b))
<1> DEFINE w == Len(s)
           p == Power[w]
           m == ByteModulus
           n == m * v + b
<1>1. m \in Nat \ {0} /\ b \in 0 .. m - 1 /\ w \in Nat
  BY ByteAssumption DEF Bytes
<1>2. p \in Nat \ {0} /\ Power[w + 1] = m * p
  <2> HIDE DEF w, m
  <2> QED
    BY <1>1, PowerIs DEF m
<1>3. v <= p - 1 /\ BigEndian(v, w) = s
  BY DEF Holds
<1>4. n \in Nat /\ n \div m = v /\ n % m = b
  <2> HIDE DEF m
  <2> QED
    BY <1>1
<1>5. n < m * p
  <2> HIDE DEF m, p
  <2>1. m * v <= m * (p - 1)
    BY <1>1, <1>2, <1>3
  <2>2. m * (p - 1) = m * p - m
    BY <1>1, <1>2
  <2> DEFINE x == m * v
             y == m * p
  <2>3. x \in Int /\ y \in Int
    BY <1>1, <1>2
  <2>4. x <= y - m
    BY <2>1, <2>2
  <2>5. n = x + b
    OBVIOUS
  <2> HIDE DEF x, y, n
  <2>6. n < y
    BY <1>1, <2>3, <2>4, <2>5
  <2> QED
    BY <2>6 DEF y
<1>6. BigEndian(n, w + 1) = Append(BigEndian(n \div m, w), n % m)
  <2> HIDE DEF n, w
  <2> QED
    BY <1>1, <1>4, BigEndianNext DEF m
<1>7. Len(Append(s, b)) = w + 1
  OBVIOUS
<1> HIDE DEF n, m, p, w
<1>8. n \in 0 .. Power[w + 1] - 1
  <2> DEFINE u == m * p
  <2>1. u \in Int /\ n < u /\ Power[w + 1] = u
    BY <1>1, <1>2, <1>5
  <2> HIDE DEF u
  <2> QED
    BY <1>4, <2>1
<1>9. Holds(n, Append(s, b))
  BY <1>3, <1>4, <1>6, <1>7, <1>8 DEF Holds
<1> QED
  BY <1>9 DEF n, m

\* What was appended can be told from the sequence.
LEMMA AppendOne ==
  ASSUME NEW S, NEW s \in Seq(S), NEW t \in Seq(S), NEW x, NEW y,
         Append(s, x) = Append(t, y)
  PROVE  s = t /\ x = y
<1>1. Len(s) = Len(t)
  OBVIOUS
<1>2. x = Append(s, x)[Len(s) + 1] /\ y = Append(t, y)[Len(t) + 1]
  OBVIOUS
<1>3. \A i \in 1 .. Len(s) : s[i] = Append(s, x)[i] /\ t[i] = Append(t, y)[i]
  BY <1>1
<1> QED
  BY <1>1, <1>2, <1>3

\* A field holds one number.
LEMMA HoldsOne ==
  ASSUME NEW w \in Nat
  PROVE  \A u, v \in 0 .. Power[w] - 1 :
           BigEndian(u, w) = BigEndian(v, w) => u = v
<1> DEFINE P(k) == \A u, v \in 0 .. Power[k] - 1 :
                     BigEndian(u, k) = BigEndian(v, k) => u = v
           T == {k \in Nat : P(k)}
<1>1. P(0)
  BY PowerIs
<1>2. ASSUME NEW k \in Nat, P(k)
      PROVE  P(k + 1)
  <2>1. SUFFICES ASSUME NEW u \in 0 .. Power[k + 1] - 1,
                        NEW v \in 0 .. Power[k + 1] - 1,
                        BigEndian(u, k + 1) = BigEndian(v, k + 1)
                 PROVE  u = v
    OBVIOUS
  <2> DEFINE m == ByteModulus
             p == Power[k]
  <2>2. m \in Nat \ {0} /\ p \in Nat \ {0} /\ Power[k + 1] = m * p
    BY PowerIs, ByteAssumption
  <2>3. ASSUME NEW x \in 0 .. Power[k + 1] - 1
        PROVE  /\ x \in Nat /\ x \div m \in 0 .. p - 1 /\ x % m \in 0 .. m - 1
               /\ x = m * (x \div m) + (x % m)
               /\ BigEndian(x, k + 1) = Append(BigEndian(x \div m, k), x % m)
               /\ BigEndian(x \div m, k) \in Seq(Bytes)
    <3>1. x \in Nat
      BY <2>2
    <3>2. x < m * p
      <4> DEFINE y == m * p
      <4>1. y \in Int /\ x \in 0 .. y - 1
        BY <2>2
      <4> HIDE DEF y
      <4>2. x < y
        BY <4>1
      <4> QED
        BY <4>2 DEF y
    <3>3. x \div m < p
      BY <2>2, <3>1, <3>2, QuotientFits
    <3>4. /\ x \div m \in Nat /\ x % m \in 0 .. m - 1
          /\ x = m * (x \div m) + (x % m)
      <4> HIDE DEF m
      <4> QED
        BY <2>2, <3>1
    <3>5. BigEndian(x, k + 1) = Append(BigEndian(x \div m, k), x % m)
      BY <3>1, BigEndianNext
    <3>6. BigEndian(x \div m, k) \in Seq(Bytes)
      <4> HIDE DEF m
      <4> QED
        BY <3>4, BigEndianType
    <3> HIDE DEF m, p
    <3>7. x \div m \in 0 .. p - 1
      BY <2>2, <3>3, <3>4
    <3> QED
      BY <3>1, <3>4, <3>5, <3>6, <3>7
  <2> HIDE DEF m, p
  <2>4. /\ BigEndian(u \div m, k) = BigEndian(v \div m, k)
        /\ u % m = v % m
    <3> DEFINE s == BigEndian(u \div m, k)
               t == BigEndian(v \div m, k)
               x == u % m
               y == v % m
    <3>1. s \in Seq(Bytes) /\ t \in Seq(Bytes)
      BY <2>3
    <3>2. Append(s, x) = Append(t, y)
      BY <2>1, <2>3
    <3> HIDE DEF s, t, x, y
    <3>3. s = t /\ x = y
      BY <3>1, <3>2, AppendOne
    <3> QED
      BY <3>3 DEF s, t, x, y
  <2>5. u \div m = v \div m
    BY <1>2, <2>3, <2>4 DEF p
  <2> QED
    BY <2>3, <2>4, <2>5
<1> HIDE DEF P
<1>3. T = Nat
  <2>1. T \subseteq Nat /\ 0 \in T /\ \A k \in T : k + 1 \in T
    BY <1>1, <1>2
  <2> QED
    BY <2>1, SetInduction
<1> QED
  BY <1>3 DEF P

-----------------------------------------------------------------------------
(* Escapes. *)

\* What is written for one byte.
Word(b) == IF b \in {Escape, Flag} THEN <<Escape, b>> ELSE <<b>>

\* A byte is written as itself or behind an escape.
LEMMA WordType ==
  ASSUME NEW b \in Bytes
  PROVE  /\ Word(b) \in Seq(Bytes) /\ Len(Word(b)) \in 1 .. 2
         /\ b \in {Escape, Flag} => /\ Len(Word(b)) = 2 /\ Word(b)[1] = Escape
                                    /\ Word(b)[2] = b
         /\ b \notin {Escape, Flag} => Len(Word(b)) = 1 /\ Word(b)[1] = b
<1>1. Escape \in Bytes
  BY ByteAssumption DEF Bytes
<1> QED
  BY <1>1 DEF Word

\* What Escaped has written after each byte.
LEMMA EscapedSteps ==
  ASSUME NEW list \in Seq(Bytes)
  PROVE  \E h \in [0 .. Len(list) -> Seq(Bytes)] :
           /\ h[0] = <<>>
           /\ \A k \in 1 .. Len(list) : h[k] = h[k - 1] \o Word(list[k])
           /\ Escaped(list) = h[Len(list)]
<1> DEFINE n == Len(list)
           T == Seq(Bytes)
           Step(g, s) == IF s = {} THEN <<>>
                         ELSE WriteEscaped(g[s \ {Max(s)}], list[Max(s)])
           F == [x \in (1 .. n) \X T |-> WriteEscaped(x[2], list[x[1]])]
           iter == CHOOSE g : g = [s \in SUBSET (1 .. n) |-> Step(g, s)]
<1>1. Escaped(list) = iter[1 .. n]
  <2>1. DOMAIN list = 1 .. n
    OBVIOUS
  <2>2. FoldLeft(WriteEscaped, <<>>, list) =
          LET it == CHOOSE g : g = [s \in SUBSET DOMAIN list |-> Step(g, s)]
          IN it[DOMAIN list]
    BY DEF FoldLeft, MapThenFoldSet
  <2>3. FoldLeft(WriteEscaped, <<>>, list) = iter[1 .. n]
    BY <2>1, <2>2, Zenon
  <2> QED
    BY <2>3 DEF Escaped
<1>2. n \in Nat /\ <<>> \in T
  OBVIOUS
<1>3. \A q, b : WriteEscaped(q, b) = q \o Word(b)
  BY DEF WriteEscaped, Word
<1>4. F \in [(1 .. n) \X T -> T]
  <2>1. ASSUME NEW q \in T, NEW b \in Bytes
        PROVE  WriteEscaped(q, b) \in T
    <3>1. Word(b) \in Seq(Bytes)
      BY WordType
    <3>2. q \o Word(b) \in Seq(Bytes)
      BY <3>1
    <3> QED
      BY <1>3, <3>2
  <2>2. \A x \in (1 .. n) \X T : x[2] \in T /\ list[x[1]] \in Bytes
    OBVIOUS
  <2> HIDE DEF T
  <2> QED
    BY <2>1, <2>2
<1>5. \E g : IsFold(g, n, T, <<>>, F)
  <2> HIDE DEF F, n, T
  <2> QED
    BY <1>2, <1>4, FoldExists
<1>6. PICK g \in [SUBSET (1 .. n) -> T] : \A s \in SUBSET (1 .. n) :
        g[s] = IF s = {} THEN <<>> ELSE F[<<Max(s), g[s \ {Max(s)}]>>]
  BY <1>5, Zenon DEF IsFold
<1>7. ASSUME NEW s \in SUBSET (1 .. n)
      PROVE  g[s] = Step(g, s)
  <2>1. CASE s = {}
    BY <1>6, <2>1
  <2>2. CASE s # {}
    <3>1. Max(s) \in 1 .. n
      BY <1>2, <2>2, MaxOf
    <3>2. <<Max(s), g[s \ {Max(s)}]>> \in (1 .. n) \X T
      BY <1>6, <3>1
    <3> QED
      BY <1>6, <2>2, <3>2
  <2> QED
    BY <2>1, <2>2
<1>8. g = [s \in SUBSET (1 .. n) |-> Step(g, s)]
  <2> HIDE DEF Step
  <2> QED
    BY <1>6, <1>7
<1>9. iter = [s \in SUBSET (1 .. n) |-> Step(iter, s)]
  <2> HIDE DEF Step
  <2> QED
    BY <1>8, Zenon
<1> HIDE DEF iter
<1>10. \A s \in SUBSET (1 .. n) : iter[s] = Step(iter, s)
  <2> HIDE DEF Step
  <2> QED
    BY <1>9
<1> DEFINE h == [k \in 0 .. n |-> iter[1 .. k]]
<1>11. h[0] = <<>>
  <2>1. 1 .. 0 = {} /\ 0 \in 0 .. n
    BY <1>2
  <2> QED
    BY <1>10, <2>1
<1>12. ASSUME NEW k \in 1 .. n
       PROVE  h[k] = h[k - 1] \o Word(list[k])
  <2>1. /\ k \in Nat /\ k \in 1 .. k /\ k \in 0 .. n /\ k - 1 \in 0 .. n
        /\ 1 .. k \in SUBSET (1 .. n) /\ 1 .. k \in SUBSET (1 .. k)
        /\ 1 .. k # {} /\ (1 .. k) \ {k} = 1 .. k - 1
    <3>1. n \in Nat /\ k \in 1 .. n
      BY <1>2
    <3> HIDE DEF n
    <3>2. k \in Nat /\ k \in 1 .. k /\ k \in 0 .. n /\ k - 1 \in 0 .. n
      BY <3>1
    <3>3. 1 .. k \in SUBSET (1 .. n) /\ 1 .. k \in SUBSET (1 .. k)
      BY <3>1
    <3>4. 1 .. k # {} /\ (1 .. k) \ {k} = 1 .. k - 1
      <4>1. k \in Nat \ {0}
        BY <3>1
      <4> QED
        BY <4>1, UpTo
    <3> QED
      BY <3>2, <3>3, <3>4
  <2>2. Max(1 .. k) \in 1 .. k /\ k <= Max(1 .. k)
    BY <2>1, MaxOf
  <2>3. Max(1 .. k) = k
    BY <2>2
  <2>4. iter[1 .. k] = WriteEscaped(iter[1 .. k - 1], list[k])
    BY <1>10, <2>1, <2>3
  <2> QED
    BY <1>3, <2>1, <2>4
<1>13. \A k \in 0 .. n : h[k] \in T
  <2> DEFINE K == {k \in Nat : k <= n => h[k] \in T}
  <2>1. 0 \in K /\ K \subseteq Nat
    BY <1>2, <1>11
  <2>2. ASSUME NEW k \in K
        PROVE  k + 1 \in K
    <3>1. SUFFICES ASSUME k + 1 <= n
                   PROVE  h[k + 1] \in T
      OBVIOUS
    <3>2. k + 1 \in 1 .. n /\ (k + 1) - 1 = k /\ h[k] \in T
      BY <1>2, <3>1
    <3>3. h[k + 1] = h[k] \o Word(list[k + 1])
      <4> HIDE DEF h
      <4> QED
        BY <1>12, <3>2
    <3>4. list[k + 1] \in Bytes
      BY <3>2
    <3>5. Word(list[k + 1]) \in Seq(Bytes)
      BY <3>4, WordType
    <3> HIDE DEF h
    <3> QED
      BY <3>2, <3>3, <3>5
  <2> HIDE DEF K
  <2>3. K = Nat
    BY <2>1, <2>2, SetInduction
  <2> HIDE DEF h, n, T
  <2>4. \A k \in Nat : k <= n => h[k] \in T
    BY <2>3 DEF K
  <2> QED
    BY <1>2, <2>4
<1>14. h \in [0 .. n -> T] /\ Escaped(list) = h[n]
  BY <1>1, <1>2, <1>13
<1> HIDE DEF h
<1> QED
  BY <1>11, <1>12, <1>14

\* The steps of a list are those of the list and one byte more.
LEMMA EscapedNext ==
  ASSUME NEW s \in Seq(Bytes), NEW b \in Bytes
  PROVE  Escaped(Append(s, b)) = Escaped(s) \o Word(b)
<1> DEFINE n == Len(s)
           t == Append(s, b)
<1>1. n \in Nat /\ t \in Seq(Bytes) /\ Len(t) = n + 1 /\ t[n + 1] = b
      /\ \A i \in 1 .. n : t[i] = s[i]
  OBVIOUS
<1>2. PICK g \in [0 .. n -> Seq(Bytes)] :
        /\ g[0] = <<>> /\ Escaped(s) = g[n]
        /\ \A k \in 1 .. n : g[k] = g[k - 1] \o Word(s[k])
  BY EscapedSteps
<1>3. PICK h \in [0 .. n + 1 -> Seq(Bytes)] :
        /\ h[0] = <<>> /\ Escaped(t) = h[n + 1]
        /\ \A k \in 1 .. n + 1 : h[k] = h[k - 1] \o Word(t[k])
  <2> HIDE DEF t, n
  <2>1. PICK h \in [0 .. Len(t) -> Seq(Bytes)] :
          /\ h[0] = <<>> /\ Escaped(t) = h[Len(t)]
          /\ \A k \in 1 .. Len(t) : h[k] = h[k - 1] \o Word(t[k])
    BY <1>1, EscapedSteps
  <2> QED
    BY <1>1, <2>1
<1> HIDE DEF n, t
<1> DEFINE T == {k \in Nat : k <= n => g[k] = h[k]}
<1>4. 0 \in T /\ T \subseteq Nat
  BY <1>2, <1>3
<1>5. ASSUME NEW k \in T
      PROVE  k + 1 \in T
  <2>1. SUFFICES ASSUME k + 1 <= n
                 PROVE  g[k + 1] = h[k + 1]
    BY <1>4
  <2>2. k + 1 \in 1 .. n /\ k + 1 \in 1 .. n + 1 /\ (k + 1) - 1 = k /\ g[k] = h[k]
    BY <1>1, <1>4, <2>1
  <2>3. g[k + 1] = g[k] \o Word(s[k + 1]) /\ h[k + 1] = h[k] \o Word(t[k + 1])
    BY <1>2, <1>3, <2>2
  <2> QED
    BY <1>1, <2>2, <2>3
<1> HIDE DEF T
<1>6. T = Nat
  BY <1>4, <1>5, SetInduction
<1>7. g[n] = h[n]
  <2>1. n \in T /\ n <= n
    BY <1>1, <1>6
  <2> QED
    BY <2>1 DEF T
<1>8. h[n + 1] = h[n] \o Word(b)
  <2>1. n + 1 \in 1 .. n + 1 /\ (n + 1) - 1 = n
    BY <1>1
  <2> QED
    BY <1>1, <1>3, <2>1
<1> QED
  BY <1>2, <1>3, <1>7, <1>8 DEF t

\* Escaped writes bytes.
LEMMA EscapedType ==
  ASSUME NEW s \in Seq(Bytes)
  PROVE  Escaped(s) \in Seq(Bytes) /\ Escaped(<<>>) = <<>>
<1>1. ASSUME NEW t \in Seq(Bytes)
      PROVE  Escaped(t) \in Seq(Bytes) /\ (Len(t) = 0 => Escaped(t) = <<>>)
  <2>1. PICK h \in [0 .. Len(t) -> Seq(Bytes)] :
          h[0] = <<>> /\ Escaped(t) = h[Len(t)]
    BY EscapedSteps
  <2> QED
    BY <2>1
<1>2. <<>> \in Seq(Bytes) /\ Len(<<>>) = 0
  OBVIOUS
<1> QED
  BY <1>1, <1>2

\* Escaped of a single byte.
LEMMA EscapedOfOne ==
  ASSUME NEW b \in Bytes
  PROVE  Escaped(<<b>>) = Word(b)
<1>1. <<>> \in Seq(Bytes) /\ Append(<<>>, b) = <<b>>
  OBVIOUS
<1>2. Escaped(Append(<<>>, b)) = Escaped(<<>>) \o Word(b)
  BY <1>1, EscapedNext
<1>3. Escaped(<<>>) = <<>>
  BY <1>1, EscapedType
<1>4. <<>> \o Word(b) = Word(b)
  BY WordType, ConcatEmptySeq
<1> QED
  BY <1>1, <1>2, <1>3, <1>4

\* Parts are escaped on their own.
LEMMA EscapedTogether ==
  ASSUME NEW s \in Seq(Bytes), NEW t \in Seq(Bytes)
  PROVE  Escaped(s \o t) = Escaped(s) \o Escaped(t)
<1> DEFINE P(n) == \A u \in Seq(Bytes) :
                     Len(u) = n => Escaped(s \o u) = Escaped(s) \o Escaped(u)
           T == {n \in Nat : P(n)}
<1>1. P(0)
  <2>1. SUFFICES ASSUME NEW u \in Seq(Bytes), Len(u) = 0
                 PROVE  Escaped(s \o u) = Escaped(s) \o Escaped(u)
    OBVIOUS
  <2>2. u = <<>> /\ s \o u = s
    BY <2>1
  <2>3. Escaped(s) \in Seq(Bytes) /\ Escaped(u) = <<>>
    BY <2>2, EscapedType
  <2> QED
    BY <2>2, <2>3
<1>2. ASSUME NEW n \in Nat, P(n)
      PROVE  P(n + 1)
  <2>1. SUFFICES ASSUME NEW u \in Seq(Bytes), Len(u) = n + 1
                 PROVE  Escaped(s \o u) = Escaped(s) \o Escaped(u)
    OBVIOUS
  <2> DEFINE v == SubSeq(u, 1, n)
             b == u[n + 1]
  <2>2. v \in Seq(Bytes) /\ Len(v) = n /\ b \in Bytes /\ u = Append(v, b)
    BY <2>1
  <2> HIDE DEF v, b
  <2>3. s \o v \in Seq(Bytes) /\ s \o u = Append(s \o v, b)
    BY <2>2
  <2>4. Escaped(s \o u) = Escaped(s \o v) \o Word(b)
    BY <2>2, <2>3, EscapedNext
  <2>5. Escaped(u) = Escaped(v) \o Word(b)
    BY <2>2, EscapedNext
  <2>6. Escaped(s \o v) = Escaped(s) \o Escaped(v)
    BY <1>2, <2>2
  <2>7. /\ Escaped(s) \in Seq(Bytes) /\ Escaped(v) \in Seq(Bytes)
        /\ Word(b) \in Seq(Bytes)
    BY <2>2, EscapedType, WordType
  <2> QED
    BY <2>4, <2>5, <2>6, <2>7
<1> HIDE DEF P
<1>3. T = Nat
  <2>1. T \subseteq Nat /\ 0 \in T /\ \A n \in T : n + 1 \in T
    BY <1>1, <1>2
  <2> QED
    BY <2>1, SetInduction
<1>4. P(Len(t))
  <2>1. Len(t) \in Nat
    OBVIOUS
  <2> QED
    BY <1>3, <2>1
<1> QED
  BY <1>4 DEF P

\* No word is the beginning of another.
LEMMA WordsApart ==
  ASSUME NEW b \in Bytes, NEW c \in Bytes, NEW s \in Seq(Bytes),
         NEW t \in Seq(Bytes), Word(b) \o s = Word(c) \o t
  PROVE  b = c /\ s = t
<1> DEFINE u == Word(b)
           v == Word(c)
<1>1. /\ u \in Seq(Bytes) /\ Len(u) \in 1 .. 2
      /\ b \in {Escape, Flag} => Len(u) = 2 /\ u[1] = Escape /\ u[2] = b
      /\ b \notin {Escape, Flag} => Len(u) = 1 /\ u[1] = b
  BY WordType
<1>2. /\ v \in Seq(Bytes) /\ Len(v) \in 1 .. 2
      /\ c \in {Escape, Flag} => Len(v) = 2 /\ v[1] = Escape /\ v[2] = c
      /\ c \notin {Escape, Flag} => Len(v) = 1 /\ v[1] = c
  BY WordType
<1> HIDE DEF u, v
<1>3. u \o s = v \o t
  BY DEF u, v
<1>4. u[1] = v[1]
  <2>1. (u \o s)[1] = u[1] /\ (v \o t)[1] = v[1]
    BY <1>1, <1>2
  <2> QED
    BY <1>3, <2>1
<1>5. Len(u) = Len(v) /\ b = c
  <2>1. CASE b \in {Escape, Flag}
    <3>1. c \in {Escape, Flag}
      BY <1>1, <1>2, <1>4, <2>1
    <3>2. (u \o s)[2] = u[2] /\ (v \o t)[2] = v[2]
      BY <1>1, <1>2, <2>1, <3>1
    <3> QED
      BY <1>1, <1>2, <1>3, <2>1, <3>1, <3>2
  <2>2. CASE b \notin {Escape, Flag}
    BY <1>1, <1>2, <1>4, <2>2
  <2> QED
    BY <2>1, <2>2
<1>6. s = t
  BY <1>1, <1>2, <1>3, <1>5, JoinedSame
<1> QED
  BY <1>5, <1>6

\* What begins with the bytes written for s has s at its beginning.
LEMMA EscapedBegins ==
  ASSUME NEW s \in Seq(Bytes), NEW z \in Seq(Bytes), NEW w \in Seq(Bytes),
         Escaped(s) \o z = Escaped(w)
  PROVE  \E u \in Seq(Bytes) : w = s \o u /\ z = Escaped(u)
<1> DEFINE P(n) == \A q \in Seq(Bytes), v \in Seq(Bytes) :
                     Len(q) = n /\ Escaped(q) \o z = Escaped(v) =>
                       \E u \in Seq(Bytes) : v = q \o u /\ z = Escaped(u)
           T == {n \in Nat : P(n)}
<1>1. P(0)
  <2>1. SUFFICES ASSUME NEW q \in Seq(Bytes), NEW v \in Seq(Bytes),
                        Len(q) = 0, Escaped(q) \o z = Escaped(v)
                 PROVE  v = q \o v /\ z = Escaped(v)
    OBVIOUS
  <2>2. q = <<>>
    BY <2>1
  <2>3. Escaped(q) = <<>>
    BY <2>2, EscapedType
  <2> QED
    BY <2>1, <2>2, <2>3
<1>2. ASSUME NEW n \in Nat, P(n)
      PROVE  P(n + 1)
  <2>1. SUFFICES ASSUME NEW q \in Seq(Bytes), NEW v \in Seq(Bytes),
                        Len(q) = n + 1, Escaped(q) \o z = Escaped(v)
                 PROVE  \E u \in Seq(Bytes) : v = q \o u /\ z = Escaped(u)
    OBVIOUS
  <2> DEFINE b == q[1]
             r == Tail(q)
  <2>2. b \in Bytes /\ r \in Seq(Bytes) /\ Len(r) = n /\ q = <<b>> \o r
    BY <2>1
  <2> HIDE DEF b, r
  <2>3. ASSUME NEW c \in Bytes, NEW t \in Seq(Bytes)
        PROVE  Escaped(<<c>> \o t) = Word(c) \o Escaped(t)
    <3>1. <<c>> \in Seq(Bytes) /\ Escaped(<<c>>) = Word(c)
      BY EscapedOfOne
    <3>2. Escaped(<<c>> \o t) = Escaped(<<c>>) \o Escaped(t)
      BY <3>1, EscapedTogether
    <3> QED
      BY <3>1, <3>2
  <2>4. Word(b) \o (Escaped(r) \o z) = Escaped(v)
    <3>1. Word(b) \in Seq(Bytes) /\ Escaped(r) \in Seq(Bytes)
      BY <2>2, WordType, EscapedType
    <3>2. (Word(b) \o Escaped(r)) \o z = Word(b) \o (Escaped(r) \o z)
      BY <3>1
    <3>3. Escaped(q) = Word(b) \o Escaped(r)
      BY <2>2, <2>3
    <3> QED
      BY <2>1, <3>2, <3>3
  <2>5. v # <<>>
    <3>1. SUFFICES ASSUME v = <<>>
                   PROVE  FALSE
      OBVIOUS
    <3>2. Escaped(v) = <<>>
      BY <3>1, EscapedType
    <3>3. /\ Word(b) \in Seq(Bytes) /\ Len(Word(b)) >= 1
          /\ Escaped(r) \o z \in Seq(Bytes)
      BY <2>2, WordType, EscapedType
    <3> DEFINE x == Word(b)
               y == Escaped(r) \o z
    <3>4. x \o y = <<>>
      BY <2>4, <3>2
    <3> HIDE DEF x, y
    <3>5. Len(x \o y) >= 1
      BY <3>3 DEF x, y
    <3> QED
      BY <3>4, <3>5
  <2> DEFINE c == v[1]
             t == Tail(v)
  <2>6. c \in Bytes /\ t \in Seq(Bytes) /\ v = <<c>> \o t
    BY <2>5
  <2> HIDE DEF c, t
  <2>7. Word(b) \o (Escaped(r) \o z) = Word(c) \o Escaped(t)
    BY <2>3, <2>4, <2>6
  <2>8. b = c /\ Escaped(r) \o z = Escaped(t)
    <3>1. Escaped(r) \o z \in Seq(Bytes) /\ Escaped(t) \in Seq(Bytes)
      BY <2>2, <2>6, EscapedType
    <3> DEFINE x == Escaped(r) \o z
               y == Escaped(t)
    <3>2. x \in Seq(Bytes) /\ y \in Seq(Bytes) /\ Word(b) \o x = Word(c) \o y
      BY <2>7, <3>1
    <3> HIDE DEF x, y
    <3>3. b = c /\ x = y
      <4>1. b \in Bytes /\ c \in Bytes
        BY <2>2, <2>6
      <4> QED
        BY <3>2, <4>1, WordsApart, Zenon
    <3> QED
      BY <3>3 DEF x, y
  <2>9. PICK u \in Seq(Bytes) : t = r \o u /\ z = Escaped(u)
    BY <1>2, <2>2, <2>6, <2>8
  <2>10. v = q \o u
    BY <2>2, <2>6, <2>8, <2>9
  <2> QED
    BY <2>9, <2>10
<1> HIDE DEF P
<1>3. T = Nat
  <2>1. T \subseteq Nat /\ 0 \in T /\ \A n \in T : n + 1 \in T
    BY <1>1, <1>2
  <2> QED
    BY <2>1, SetInduction
<1>4. P(Len(s))
  <2>1. Len(s) \in Nat
    OBVIOUS
  <2> QED
    BY <1>3, <2>1
<1> QED
  BY <1>4 DEF P

\* No two sequences of bytes are escaped alike: what the decoder has unescaped
\* determines what Encode has escaped.
THEOREM EscapedOnce ==
  ASSUME NEW s \in Seq(Bytes), NEW t \in Seq(Bytes), Escaped(s) = Escaped(t)
  PROVE  s = t
<1>1. ASSUME NEW p \in Seq(Bytes), NEW q \in Seq(Bytes), Escaped(p) = Escaped(q)
      PROVE  \E u \in Seq(Bytes) : q = p \o u
  <2>1. <<>> \in Seq(Bytes) /\ Escaped(p) \in Seq(Bytes)
    BY EscapedType
  <2>2. Escaped(p) \o <<>> = Escaped(q)
    BY <1>1, <2>1
  <2> DEFINE z == <<>>
  <2>3. z \in Seq(Bytes) /\ Escaped(p) \o z = Escaped(q)
    BY <2>1, <2>2
  <2> HIDE DEF z
  <2>4. \E u \in Seq(Bytes) : q = p \o u /\ z = Escaped(u)
    BY <2>3, EscapedBegins
  <2> QED
    BY <2>4
<1>2. PICK u \in Seq(Bytes) : t = s \o u
  BY <1>1
<1>3. PICK v \in Seq(Bytes) : s = t \o v
  BY <1>1
<1>4. Len(t) = Len(s) + Len(u) /\ Len(s) = Len(t) + Len(v)
  BY <1>2, <1>3
<1>5. Len(u) = 0
  BY <1>4
<1> QED
  BY <1>2, <1>5

-----------------------------------------------------------------------------
(* What the decoder knows of the bytes it has read since the start of a     *)
(* frame: `raw' are those bytes without their escapes.                      *)

Fields == {"type", "sequence", "acknowledged", "length", "payload", "crc"}

Decoders ==
  [at : Fields \cup {"skip", "invalid", "end", "marker", "message"},
   left : Int, value : Nat, escaped : BOOLEAN, type : Nat, sequence : Nat,
   body : Seq(Nat), covered : Seq(Bytes), frame : Nat]

AtType(d, raw) == raw = <<>> /\ d.left = 1 /\ d.value = 0 /\ d.body = <<>>

AtSequence(d, raw) ==
  /\ Len(raw) \in 1 .. SequenceLength /\ raw[1] = d.type /\ d.body = <<>>
  /\ d.left = SequenceLength + 1 - Len(raw)
  /\ Holds(d.value, SubSeq(raw, 2, Len(raw)))

HasHead(d, raw) ==
  /\ Len(raw) > SequenceLength /\ raw[1] = d.type
  /\ Holds(d.sequence, SubSeq(raw, 2, SequenceLength + 1))

AtAcknowledged(d, raw) ==
  /\ HasHead(d, raw) /\ d.type = ACKNOWLEDGE
  /\ Len(raw) <= 2 * SequenceLength
  /\ d.left = 2 * SequenceLength + 1 - Len(raw)
  /\ Holds(d.value, SubSeq(raw, SequenceLength + 2, Len(raw)))

AtLength(d, raw) ==
  /\ HasHead(d, raw) /\ d.type = PAYLOAD /\ d.body = <<>>
  /\ Len(raw) <= SequenceLength + LengthLength
  /\ d.left = SequenceLength + LengthLength + 1 - Len(raw)
  /\ Holds(d.value, SubSeq(raw, SequenceLength + 2, Len(raw)))

\* A payload of which "left" bytes are missing.
HasPayload(d, raw, left) ==
  /\ HasHead(d, raw) /\ d.type = PAYLOAD
  /\ Len(raw) = SequenceLength + LengthLength + 1 + Len(d.body)
  /\ d.body = SubSeq(raw, SequenceLength + LengthLength + 2, Len(raw))
  /\ Holds(left + Len(d.body),
           SubSeq(raw, SequenceLength + 2, SequenceLength + LengthLength + 1))

HasAcknowledged(d, raw) ==
  /\ HasHead(d, raw) /\ d.type = ACKNOWLEDGE
  /\ Len(raw) = 2 * SequenceLength + 1
  /\ \E v : d.body = <<v>> /\ Holds(v, SubSeq(raw, SequenceLength + 2, Len(raw)))

HasNoBody(d, raw) ==
  /\ HasHead(d, raw) /\ d.type \notin {ACKNOWLEDGE, PAYLOAD}
  /\ Len(raw) = SequenceLength + 1 /\ d.body = <<>>

AtCrc(d, raw) ==
  HasAcknowledged(d, raw) \/ HasPayload(d, raw, 0) \/ HasNoBody(d, raw)

Reading(d, raw) ==
  /\ d.at = "type" => AtType(d, raw)
  /\ d.at = "sequence" => AtSequence(d, raw)
  /\ d.at = "acknowledged" => AtAcknowledged(d, raw)
  /\ d.at = "length" => AtLength(d, raw)
  /\ d.at = "payload" => HasPayload(d, raw, d.left) /\ d.left >= 1
  /\ d.at = "crc" => AtCrc(d, raw)

\* An escape is covered before the byte it announces; one in the checksum is
\* not covered.
Parse(d, raw) ==
  /\ Reading(d, raw)
  /\ d.covered = Escaped(raw) \o IF d.escaped /\ d.at # "crc" THEN <<Escape>>
                                 ELSE <<>>

\* Parts of a sequence to which a byte is appended.
LEMMA SubSeqAppend ==
  ASSUME NEW S, NEW s \in Seq(S), NEW b \in S
  PROVE  /\ \A i \in 1 .. Len(s) + 1 :
              /\ SubSeq(Append(s, b), i, Len(s) + 1)
                   = Append(SubSeq(s, i, Len(s)), b)
              /\ SubSeq(s, i, Len(s)) \in Seq(S)
              /\ Len(SubSeq(s, i, Len(s))) = Len(s) - i + 1
         /\ \A i \in 1 .. Len(s) : \A j \in 0 .. Len(s) :
              SubSeq(Append(s, b), i, j) = SubSeq(s, i, j)
<1> DEFINE n == Len(s)
           t == Append(s, b)
<1>1. n \in Nat /\ t \in Seq(S) /\ Len(t) = n + 1 /\ t[n + 1] = b
      /\ \A i \in 1 .. n : t[i] = s[i]
  BY AppendProperties
<1> HIDE DEF t
<1>2. ASSUME NEW i \in 1 .. n + 1
      PROVE  /\ SubSeq(t, i, n + 1) = Append(SubSeq(s, i, n), b)
             /\ SubSeq(s, i, n) \in Seq(S) /\ Len(SubSeq(s, i, n)) = n - i + 1
  <2> DEFINE u == SubSeq(s, i, n)
             v == SubSeq(t, i, n + 1)
  <2>1. \A k \in i .. n : s[k] \in S
    BY <1>1
  <2>2. \A k \in i .. n + 1 : t[k] \in S
    BY <1>1
  <2>3. i \in Int /\ n \in Int /\ n + 1 \in Int
    BY <1>1
  <2>4. /\ u \in Seq(S) /\ Len(u) = IF i <= n THEN n - i + 1 ELSE 0
        /\ \A k \in 1 .. n - i + 1 : u[k] = s[i + k - 1]
    BY <2>1, <2>3, SubSeqProperties
  <2>5. /\ v \in Seq(S) /\ Len(v) = IF i <= n + 1 THEN (n + 1) - i + 1 ELSE 0
        /\ \A k \in 1 .. (n + 1) - i + 1 : v[k] = t[i + k - 1]
    BY <2>2, <2>3, SubSeqProperties
  <2> HIDE DEF u, v, n
  <2>6. Len(u) = n - i + 1 /\ Len(v) = n - i + 2
    BY <1>1, <2>4, <2>5
  <2>7. /\ Append(u, b) \in Seq(S) /\ Len(Append(u, b)) = n - i + 2
        /\ Append(u, b)[n - i + 2] = b
        /\ \A k \in 1 .. n - i + 1 : Append(u, b)[k] = u[k]
    <3>1. Len(u) + 1 = n - i + 2
      BY <1>1, <2>6
    <3> QED
      BY <2>4, <2>6, <3>1, AppendProperties
  <2>8. ASSUME NEW k \in 1 .. n - i + 2
        PROVE  v[k] = Append(u, b)[k]
    <3>1. v[k] = t[i + k - 1]
      BY <1>1, <2>5
    <3>2. CASE k = n - i + 2
      <4>1. i + k - 1 = n + 1
        BY <1>1, <3>2
      <4> QED
        BY <1>1, <2>7, <3>1, <3>2, <4>1
    <3>3. CASE k # n - i + 2
      <4>1. k \in 1 .. n - i + 1 /\ i + k - 1 \in 1 .. n
        BY <1>1, <3>3
      <4> QED
        BY <1>1, <2>4, <2>7, <3>1, <4>1
    <3> QED
      BY <3>2, <3>3
  <2>9. v = Append(u, b)
    <3>1. Len(v) = Len(Append(u, b)) /\ \A k \in 1 .. Len(v) : v[k] = Append(u, b)[k]
      BY <2>6, <2>7, <2>8
    <3> QED
      BY <2>5, <2>7, <3>1, SeqEqual
  <2> QED
    BY <2>4, <2>6, <2>9 DEF u, v
<1>3. ASSUME NEW i \in 1 .. n, NEW j \in 0 .. n
      PROVE  SubSeq(t, i, j) = SubSeq(s, i, j)
  <2>1. \A k \in i .. j : k \in 1 .. n
    BY <1>1
  <2>2. \A k \in i .. j : s[k] \in S /\ t[k] = s[k]
    BY <1>1, <2>1
  <2>3. i \in Int /\ j \in Int
    BY <1>1
  <2> DEFINE u == SubSeq(s, i, j)
             v == SubSeq(t, i, j)
  <2>4. /\ u \in Seq(S) /\ Len(u) = IF i <= j THEN j - i + 1 ELSE 0
        /\ \A k \in 1 .. j - i + 1 : u[k] = s[i + k - 1]
    BY <2>2, <2>3, SubSeqProperties
  <2>5. \A k \in i .. j : t[k] \in S
    BY <2>2
  <2>6. /\ v \in Seq(S) /\ Len(v) = IF i <= j THEN j - i + 1 ELSE 0
        /\ \A k \in 1 .. j - i + 1 : v[k] = t[i + k - 1]
    BY <2>3, <2>5, SubSeqProperties
  <2> HIDE DEF u, v, n
  <2>7. Len(u) = Len(v) /\ \A k \in 1 .. Len(u) : k \in 1 .. j - i + 1
    BY <2>3, <2>4, <2>6
  <2>8. \A k \in 1 .. j - i + 1 : i + k - 1 \in i .. j
    BY <2>3
  <2>9. \A k \in 1 .. Len(u) : u[k] = v[k]
    BY <2>2, <2>4, <2>6, <2>7, <2>8
  <2>10. u = v
    BY <2>4, <2>6, <2>7, <2>9, SeqEqual
  <2> QED
    BY <2>10 DEF u, v
<1> QED
  BY <1>2, <1>3 DEF t

\* The decoder with one byte more, before AfterField.
Taken(d, b) ==
  [d EXCEPT !.left = @ - 1, !.escaped = FALSE,
            !.value = IF d.at = "payload" THEN 0 ELSE ByteModulus * @ + b,
            !.body = IF d.at = "payload" THEN Append(@, b) ELSE @,
            !.covered = Append(@, b)]

\* A value with one more byte is a number.
LEMMA NextValue ==
  ASSUME NEW v \in Nat, NEW b \in Bytes
  PROVE  ByteModulus * v + b \in Nat
<1> DEFINE x == ByteModulus * v
<1>1. x \in Nat /\ b \in Nat
  BY ByteAssumption DEF Bytes
<1> HIDE DEF x
<1>2. x + b \in Nat
  BY <1>1
<1> QED
  BY <1>2 DEF x

\* What InField does to each field of the decoder before the next one begins.
LEMMA TakenIs ==
  ASSUME NEW d \in Decoders, NEW b \in Bytes
  PROVE  /\ InField(d, b) = IF Taken(d, b).left = 0 THEN AfterField(Taken(d, b))
                                                    ELSE Taken(d, b)
         /\ Taken(d, b) \in Decoders
         /\ Taken(d, b).at = d.at /\ Taken(d, b).left = d.left - 1
         /\ Taken(d, b).escaped = FALSE
         /\ Taken(d, b).value = IF d.at = "payload" THEN 0
                                                    ELSE ByteModulus * d.value + b
         /\ Taken(d, b).body = IF d.at = "payload" THEN Append(d.body, b) ELSE d.body
         /\ Taken(d, b).covered = Append(d.covered, b)
         /\ Taken(d, b).type = d.type /\ Taken(d, b).sequence = d.sequence
         /\ Taken(d, b).frame = d.frame
<1> DEFINE l == d.left - 1
           v == IF d.at = "payload" THEN 0 ELSE ByteModulus * d.value + b
           y == IF d.at = "payload" THEN Append(d.body, b) ELSE d.body
           c == Append(d.covered, b)
           e == Taken(d, b)
<1>1. /\ d.left \in Int /\ d.value \in Nat /\ d.body \in Seq(Nat)
      /\ d.covered \in Seq(Bytes) /\ b \in Nat
  BY ByteAssumption DEF Decoders, Bytes
<1>2. l \in Int /\ c \in Seq(Bytes)
  BY <1>1
<1>3. v \in Nat
  <2> DEFINE x == ByteModulus * d.value + b
  <2>1. x \in Nat
    BY <1>1, NextValue
  <2> HIDE DEF x
  <2>2. v = IF d.at = "payload" THEN 0 ELSE x
    BY DEF x
  <2> QED
    BY <2>1, <2>2
<1>4. y \in Seq(Nat)
  BY <1>1
<1>5. e = [d EXCEPT !.left = l, !.escaped = FALSE, !.value = v, !.body = y,
                    !.covered = c]
  BY DEF Taken
<1>6. InField(d, b) = IF e.left = 0 THEN AfterField(e) ELSE e
  BY DEF InField, Taken
<1> HIDE DEF e
<1>7. /\ e \in Decoders
      /\ e.at = d.at /\ e.left = l /\ e.escaped = FALSE /\ e.value = v
      /\ e.body = y /\ e.covered = c /\ e.type = d.type
      /\ e.sequence = d.sequence /\ e.frame = d.frame
  <2> HIDE DEF l, v, y, c
  <2> QED
    BY <1>2, <1>3, <1>4, <1>5 DEF Decoders
<1> QED
  BY <1>6, <1>7 DEF e

\* What Enter leaves alone.
LEMMA EnterIs ==
  ASSUME NEW d \in Decoders, NEW f \in Fields, NEW w \in Int
  PROVE  /\ Enter(d, f, w) \in Decoders
         /\ Enter(d, f, w).at = f /\ Enter(d, f, w).left = w
         /\ Enter(d, f, w).value = 0 /\ Enter(d, f, w).escaped = d.escaped
         /\ Enter(d, f, w).type = d.type
         /\ Enter(d, f, w).sequence = d.sequence
         /\ Enter(d, f, w).body = d.body
         /\ Enter(d, f, w).covered = d.covered
         /\ Enter(d, f, w).frame = d.frame
  BY DEF Enter, Decoders

Stepped(r, raw, covered) ==
  /\ r \in Decoders /\ r.at \in Fields /\ ~r.escaped
  /\ r.covered = covered /\ Reading(r, raw)

\* The byte of the type.
LEMMA StepType ==
  ASSUME NEW d \in Decoders, NEW raw \in Seq(Bytes), NEW b \in Bytes,
         d.at = "type", AtType(d, raw)
  PROVE  IF b > HIGHEST_ELEMENT THEN InField(d, b) = Thrown
         ELSE Stepped(InField(d, b), Append(raw, b), Append(d.covered, b))
<1> DEFINE e == Taken(d, b)
           t == Append(raw, b)
<1>1. b \in Nat /\ ByteModulus \in Nat
  BY ByteAssumption DEF Bytes
<1>2. /\ e \in Decoders /\ e.at = "type" /\ e.left = 0 /\ e.value = b
      /\ e.body = <<>> /\ ~e.escaped /\ e.covered = Append(d.covered, b)
      /\ InField(d, b) = AfterField(e)
  <2>1. ByteModulus * 0 + b = b
    BY <1>1
  <2>2. d.left - 1 = 0 /\ d.value = 0 /\ d.body = <<>> /\ d.at # "payload"
    BY DEF AtType
  <2>3. /\ e \in Decoders /\ e.at = d.at /\ e.left = d.left - 1 /\ ~e.escaped
        /\ e.covered = Append(d.covered, b)
        /\ InField(d, b) = IF e.left = 0 THEN AfterField(e) ELSE e
    BY TakenIs
  <2>4. e.value = ByteModulus * d.value + b /\ e.body = d.body
    BY <2>2, TakenIs
  <2> HIDE DEF e
  <2> QED
    BY <2>1, <2>2, <2>3, <2>4
<1> HIDE DEF e
<1>3. AfterField(e) = AfterType(e)
  BY <1>2 DEF AfterField
<1>4. CASE b > HIGHEST_ELEMENT
  BY <1>2, <1>3, <1>4 DEF AfterType
<1>5. CASE ~(b > HIGHEST_ELEMENT)
  <2> DEFINE x == [e EXCEPT !.type = e.value]
             r == Enter(x, "sequence", SequenceLength)
  <2>1. /\ x \in Decoders /\ x.type = b /\ x.body = <<>> /\ ~x.escaped
        /\ x.covered = Append(d.covered, b)
    BY <1>1, <1>2 DEF Decoders
  <2>2. InField(d, b) = r
    BY <1>2, <1>3, <1>5 DEF AfterType
  <2> HIDE DEF x
  <2>3. SequenceLength \in Nat \ {0} /\ "sequence" \in Fields
    BY ByteAssumption DEF Fields
  <2>4. /\ r \in Decoders /\ r.at = "sequence" /\ r.left = SequenceLength
        /\ r.value = 0 /\ ~r.escaped /\ r.type = b /\ r.body = <<>>
        /\ r.covered = Append(d.covered, b)
    <3> DEFINE w == SequenceLength
               f == "sequence"
    <3>1. w \in Int /\ f \in Fields
      BY <2>3
    <3> HIDE DEF w, f
    <3>2. /\ Enter(x, f, w) \in Decoders /\ Enter(x, f, w).at = f
          /\ Enter(x, f, w).left = w /\ Enter(x, f, w).value = 0
          /\ Enter(x, f, w).escaped = x.escaped /\ Enter(x, f, w).type = x.type
          /\ Enter(x, f, w).body = x.body /\ Enter(x, f, w).covered = x.covered
      BY <2>1, <3>1, EnterIs
    <3> QED
      BY <2>1, <3>2 DEF w, f
  <2> HIDE DEF r
  <2>5. t = <<b>> /\ Len(t) = 1 /\ t[1] = b
    BY DEF AtType
  <2>6. SubSeq(t, 2, Len(t)) = <<>>
    BY <2>5, SubSeqEmpty
  <2>7. AtSequence(r, t)
    <3> HIDE DEF t
    <3>1. Len(t) \in 1 .. SequenceLength
      BY <2>3, <2>5
    <3>2. r.left = SequenceLength + 1 - Len(t)
      BY <2>3, <2>4, <2>5
    <3>3. Holds(r.value, SubSeq(t, 2, Len(t)))
      BY <2>4, <2>6, HoldsNothing
    <3> QED
      BY <2>4, <2>5, <3>1, <3>2, <3>3 DEF AtSequence
  <2> HIDE DEF t
  <2>8. Stepped(r, t, Append(d.covered, b))
    BY <2>3, <2>4, <2>7 DEF Stepped, Reading
  <2> QED
    BY <1>5, <2>2, <2>8 DEF t
<1> QED
  BY <1>4, <1>5

\* A number of which one byte more has been read.
LEMMA OneByteMore ==
  ASSUME NEW raw \in Seq(Bytes), NEW b \in Bytes, NEW v \in Nat,
         NEW i \in 1 .. Len(raw) + 1, Holds(v, SubSeq(raw, i, Len(raw)))
  PROVE  Holds(ByteModulus * v + b,
               SubSeq(Append(raw, b), i, Len(Append(raw, b))))
<1> DEFINE s == SubSeq(raw, i, Len(raw))
           u == SubSeq(Append(raw, b), i, Len(raw) + 1)
<1>1. u = Append(s, b) /\ s \in Seq(Bytes)
  BY SubSeqAppend
<1>2. Len(Append(raw, b)) = Len(raw) + 1
  BY AppendProperties
<1>3. Holds(v, s)
  OBVIOUS
<1> HIDE DEF s
<1>4. Holds(ByteModulus * v + b, Append(s, b))
  BY <1>1, <1>3, HoldsOneMore
<1> QED
  BY <1>1, <1>2, <1>4

\* The type and the sequence stay where they are.
LEMMA HeadKept ==
  ASSUME NEW d, NEW e, NEW raw \in Seq(Bytes), NEW b \in Bytes,
         HasHead(d, raw), e.type = d.type, e.sequence = d.sequence
  PROVE  HasHead(e, Append(raw, b))
<1>1. SequenceLength \in Nat \ {0} /\ Len(raw) \in Nat
  BY ByteAssumption
<1>2. Len(raw) > SequenceLength /\ raw[1] = d.type
      /\ Holds(d.sequence, SubSeq(raw, 2, SequenceLength + 1))
  BY DEF HasHead
<1>3. 1 \in 1 .. Len(raw) /\ 2 \in 1 .. Len(raw) /\ SequenceLength + 1 \in 0 .. Len(raw)
  BY <1>1, <1>2
<1> DEFINE t == Append(raw, b)
           f == SubSeq(raw, 2, SequenceLength + 1)
<1>4. Len(t) = Len(raw) + 1 /\ t[1] = raw[1]
  BY <1>3, AppendProperties
<1>5. SubSeq(t, 2, SequenceLength + 1) = f
  BY <1>3, SubSeqAppend
<1>6. Holds(d.sequence, f)
  BY <1>2
<1> HIDE DEF f, t
<1>7. /\ Len(t) > SequenceLength /\ t[1] = e.type
      /\ Holds(e.sequence, SubSeq(t, 2, SequenceLength + 1))
  <2>1. Len(t) > SequenceLength
    BY <1>1, <1>2, <1>4
  <2>2. t[1] = e.type
    BY <1>2, <1>4
  <2>3. Holds(e.sequence, SubSeq(t, 2, SequenceLength + 1))
    BY <1>5, <1>6
  <2> QED
    BY <2>1, <2>2, <2>3
<1> QED
  BY <1>7 DEF HasHead, t

\* A decoder that enters a field has taken the byte.
LEMMA EnterStepped ==
  ASSUME NEW d \in Decoders, NEW f \in Fields, NEW w \in Int, NEW raw,
         ~d.escaped, Reading(Enter(d, f, w), raw)
  PROVE  Stepped(Enter(d, f, w), raw, d.covered)
  BY EnterIs DEF Stepped

\* A byte of the sequence.
LEMMA StepSequence ==
  ASSUME NEW d \in Decoders, NEW raw \in Seq(Bytes), NEW b \in Bytes,
         d.at = "sequence", AtSequence(d, raw)
  PROVE  Stepped(InField(d, b), Append(raw, b), Append(d.covered, b))
<1> DEFINE e == Taken(d, b)
           t == Append(raw, b)
           w == SequenceLength
           c == Append(d.covered, b)
<1>1. /\ e \in Decoders /\ e.at = "sequence" /\ e.left = d.left - 1 /\ ~e.escaped
      /\ e.covered = c /\ e.type = d.type
      /\ InField(d, b) = IF e.left = 0 THEN AfterField(e) ELSE e
  BY TakenIs
<1>2. /\ e.value = ByteModulus * d.value + b /\ e.body = d.body
      /\ d.value \in Nat /\ e.value \in Nat
  <2>1. d.at # "payload"
    OBVIOUS
  <2> HIDE DEF e
  <2> QED
    BY <1>1, <2>1, TakenIs DEF e, Decoders
<1>3. /\ w \in Nat \ {0} /\ Len(raw) \in 1 .. w /\ raw[1] = d.type
      /\ d.body = <<>> /\ d.left = w + 1 - Len(raw)
      /\ Holds(d.value, SubSeq(raw, 2, Len(raw)))
  BY ByteAssumption DEF AtSequence
<1>4. Len(t) = Len(raw) + 1 /\ t[1] = raw[1] /\ t \in Seq(Bytes)
  BY <1>3, AppendProperties
<1>5. Holds(e.value, SubSeq(t, 2, Len(t)))
  <2>1. 2 \in 1 .. Len(raw) + 1
    BY <1>3
  <2> HIDE DEF e
  <2> QED
    BY <1>2, <1>3, <2>1, OneByteMore
<1> HIDE DEF e, t, w, c
<1>6. CASE e.left # 0
  <2>1. Len(t) \in 1 .. w /\ e.left = w + 1 - Len(t)
    BY <1>1, <1>3, <1>4, <1>6
  <2>2. AtSequence(e, t)
    BY <1>1, <1>2, <1>3, <1>4, <1>5, <2>1 DEF AtSequence, w
  <2>3. Stepped(e, t, c)
    BY <1>1, <2>2 DEF Stepped, Reading, Fields
  <2> QED
    BY <1>1, <1>6, <2>3 DEF t, c
<1>7. CASE e.left = 0
  <2> DEFINE x == [e EXCEPT !.sequence = e.value]
  <2>1. /\ x \in Decoders /\ x.sequence = e.value /\ x.type = d.type
        /\ x.body = <<>> /\ ~x.escaped /\ x.covered = c
    BY <1>1, <1>2, <1>3 DEF Decoders
  <2>2. Len(t) = w + 1
    BY <1>1, <1>3, <1>4, <1>7
  <2>3. InField(d, b) =
          CASE e.type = ACKNOWLEDGE -> Enter(x, "acknowledged", SequenceLength)
            [] e.type = PAYLOAD -> Enter(x, "length", LengthLength)
            [] OTHER -> Enter(x, "crc", 1)
    BY <1>1, <1>7 DEF AfterField
  <2> HIDE DEF x
  <2>4. SubSeq(t, w + 2, Len(t)) = <<>>
    <3>1. w + 2 \in Int /\ Len(t) \in Int /\ Len(t) < w + 2
      BY <1>3, <2>2
    <3> QED
      BY <3>1, SubSeqEmpty
  <2>5. ASSUME NEW r, r.type = x.type, r.sequence = x.sequence
        PROVE  HasHead(r, t)
    <3>1. Len(t) > SequenceLength
      BY <1>3, <2>2 DEF w
    <3>2. t[1] = r.type
      BY <1>3, <1>4, <2>1, <2>5
    <3>3. SequenceLength + 1 = Len(t)
      BY <2>2 DEF w
    <3>4. Holds(r.sequence, SubSeq(t, 2, SequenceLength + 1))
      BY <1>5, <2>1, <2>5, <3>3
    <3> QED
      BY <3>1, <3>2, <3>4 DEF HasHead
  <2> DEFINE l == LengthLength
  <2>6. l \in Nat \ {0}
    BY ByteAssumption
  <2> HIDE DEF l
  <2>7. CASE d.type = ACKNOWLEDGE
    <3> DEFINE f == "acknowledged"
               r == Enter(x, f, w)
    <3>1. f \in Fields /\ w \in Int
      BY <1>3 DEF Fields
    <3> HIDE DEF f
    <3>2. /\ r \in Decoders /\ r.at = f /\ r.left = w /\ r.value = 0
          /\ r.type = x.type /\ r.sequence = x.sequence
      BY <2>1, <3>1, EnterIs
    <3>3. InField(d, b) = r
      BY <1>1, <2>3, <2>7 DEF f, w, PAYLOAD, ACKNOWLEDGE
    <3>4. HasHead(r, t)
      <4> HIDE DEF r
      <4> QED
        BY <2>5, <3>2
    <3>5. AtAcknowledged(r, t)
      <4> HIDE DEF r
      <4>1. Len(t) <= 2 * w /\ r.left = 2 * w + 1 - Len(t)
        BY <1>3, <2>2, <3>2
      <4>2. Holds(r.value, SubSeq(t, SequenceLength + 2, Len(t)))
        BY <2>4, <3>2, HoldsNothing DEF w
      <4> QED
        BY <2>1, <2>7, <3>2, <3>4, <4>1, <4>2 DEF AtAcknowledged, w
    <3>6. Reading(r, t)
      BY <3>2, <3>5 DEF Reading, f
    <3> QED
      BY <2>1, <3>1, <3>3, <3>6, EnterStepped DEF t, c
  <2>8. CASE d.type = PAYLOAD
    <3> DEFINE f == "length"
               r == Enter(x, f, l)
    <3>1. f \in Fields /\ l \in Int
      BY <2>6 DEF Fields
    <3> HIDE DEF f
    <3>2. /\ r \in Decoders /\ r.at = f /\ r.left = l /\ r.value = 0
          /\ r.type = x.type /\ r.sequence = x.sequence /\ r.body = x.body
      BY <2>1, <3>1, EnterIs
    <3>3. InField(d, b) = r
      BY <1>1, <2>3, <2>8 DEF f, l, PAYLOAD, ACKNOWLEDGE
    <3>4. HasHead(r, t)
      <4> HIDE DEF r
      <4> QED
        BY <2>5, <3>2
    <3>5. AtLength(r, t)
      <4> HIDE DEF r
      <4>1. Len(t) <= w + l /\ r.left = w + l + 1 - Len(t)
        BY <1>3, <2>2, <2>6, <3>2
      <4>2. Holds(r.value, SubSeq(t, SequenceLength + 2, Len(t)))
        BY <2>4, <3>2, HoldsNothing DEF w
      <4> QED
        BY <2>1, <2>8, <3>2, <3>4, <4>1, <4>2 DEF AtLength, w, l
    <3>6. Reading(r, t)
      BY <3>2, <3>5 DEF Reading, f
    <3> QED
      BY <2>1, <3>1, <3>3, <3>6, EnterStepped DEF t, c
  <2>9. CASE d.type \notin {ACKNOWLEDGE, PAYLOAD}
    <3> DEFINE f == "crc"
               one == 1
               r == Enter(x, f, one)
    <3>1. f \in Fields /\ one \in Int
      BY DEF Fields
    <3> HIDE DEF f, one
    <3>2. /\ r \in Decoders /\ r.at = f
          /\ r.type = x.type /\ r.sequence = x.sequence /\ r.body = x.body
      BY <2>1, <3>1, EnterIs
    <3>3. InField(d, b) = r
      BY <1>1, <2>3, <2>9 DEF f, one
    <3>4. HasHead(r, t)
      <4> HIDE DEF r
      <4> QED
        BY <2>5, <3>2
    <3>5. HasNoBody(r, t)
      <4> HIDE DEF r
      <4> QED
        BY <2>1, <2>2, <2>9, <3>2, <3>4 DEF HasNoBody, w
    <3>6. Reading(r, t)
      BY <3>2, <3>5 DEF Reading, AtCrc, f
    <3> QED
      BY <2>1, <3>1, <3>3, <3>6, EnterStepped DEF t, c
  <2> QED
    BY <2>7, <2>8, <2>9
<1> QED
  BY <1>6, <1>7

\* A byte of the sequence that an ACKNOWLEDGE names.
LEMMA StepAcknowledged ==
  ASSUME NEW d \in Decoders, NEW raw \in Seq(Bytes), NEW b \in Bytes,
         d.at = "acknowledged", AtAcknowledged(d, raw)
  PROVE  Stepped(InField(d, b), Append(raw, b), Append(d.covered, b))
<1> DEFINE e == Taken(d, b)
           t == Append(raw, b)
           w == SequenceLength
           c == Append(d.covered, b)
<1>1. /\ e \in Decoders /\ e.at = "acknowledged" /\ e.left = d.left - 1
      /\ ~e.escaped /\ e.covered = c /\ e.type = d.type /\ e.sequence = d.sequence
      /\ InField(d, b) = IF e.left = 0 THEN AfterField(e) ELSE e
  BY TakenIs
<1>2. e.value = ByteModulus * d.value + b /\ d.value \in Nat /\ e.value \in Nat
  <2>1. d.at # "payload"
    OBVIOUS
  <2> HIDE DEF e
  <2> QED
    BY <1>1, <2>1, TakenIs DEF e, Decoders
<1>3. /\ w \in Nat \ {0} /\ Len(raw) \in Nat /\ Len(raw) > w
      /\ Len(raw) <= 2 * w /\ d.type = ACKNOWLEDGE
      /\ d.left = 2 * w + 1 - Len(raw) /\ HasHead(d, raw)
      /\ Holds(d.value, SubSeq(raw, w + 2, Len(raw)))
  BY ByteAssumption DEF AtAcknowledged, HasHead
<1>4. Len(t) = Len(raw) + 1 /\ t \in Seq(Bytes)
  BY <1>3, AppendProperties
<1>5. Holds(e.value, SubSeq(t, w + 2, Len(t)))
  <2>1. w + 2 \in 1 .. Len(raw) + 1
    BY <1>3
  <2> HIDE DEF e, w
  <2> QED
    BY <1>2, <1>3, <2>1, OneByteMore
<1> HIDE DEF e, t, w, c
<1>6. CASE e.left # 0
  <2>1. HasHead(e, t)
    BY <1>1, <1>3, HeadKept DEF t
  <2>2. Len(t) <= 2 * w /\ e.left = 2 * w + 1 - Len(t)
    BY <1>1, <1>3, <1>4, <1>6
  <2>3. AtAcknowledged(e, t)
    BY <1>1, <1>3, <1>5, <2>1, <2>2 DEF AtAcknowledged, w
  <2>4. Stepped(e, t, c)
    BY <1>1, <2>3 DEF Stepped, Reading, Fields
  <2> QED
    BY <1>1, <1>6, <2>4 DEF t, c
<1>7. CASE e.left = 0
  <2> DEFINE x == [e EXCEPT !.body = <<e.value>>]
             f == "crc"
             one == 1
             r == Enter(x, f, one)
  <2>1. /\ x \in Decoders /\ x.sequence = e.sequence /\ x.type = e.type
        /\ x.body = <<e.value>> /\ ~x.escaped /\ x.covered = c
    <3> DEFINE y == <<e.value>>
    <3>1. y \in Seq(Nat) /\ x = [e EXCEPT !.body = y]
      BY <1>2
    <3> HIDE DEF x, y
    <3>2. /\ x \in Decoders /\ x.sequence = e.sequence /\ x.type = e.type
          /\ x.body = y /\ ~x.escaped /\ x.covered = c
      BY <1>1, <3>1 DEF Decoders
    <3> QED
      BY <3>2 DEF y
  <2>2. InField(d, b) = r
    BY <1>1, <1>7 DEF AfterField
  <2>3. f \in Fields /\ one \in Int
    BY DEF Fields
  <2> HIDE DEF x, f, one
  <2>4. /\ r \in Decoders /\ r.at = f /\ r.body = x.body
        /\ r.type = x.type /\ r.sequence = x.sequence
    BY <2>1, <2>3, EnterIs
  <2>5. HasAcknowledged(r, t)
    <3> HIDE DEF r
    <3>1. HasHead(r, t)
      BY <1>1, <1>3, <2>1, <2>4, HeadKept DEF t
    <3>2. Len(t) = 2 * w + 1
      BY <1>1, <1>3, <1>4, <1>7
    <3>3. r.body = <<e.value>>
      BY <2>1, <2>4
    <3> QED
      BY <1>1, <1>3, <1>5, <2>1, <2>4, <3>1, <3>2, <3>3 DEF HasAcknowledged, w
  <2>6. Reading(r, t)
    BY <2>4, <2>5 DEF Reading, AtCrc, f
  <2> QED
    BY <2>1, <2>2, <2>3, <2>6, EnterStepped DEF t, c
<1> QED
  BY <1>6, <1>7

\* A byte of the length.
LEMMA StepLength ==
  ASSUME NEW d \in Decoders, NEW raw \in Seq(Bytes), NEW b \in Bytes,
         d.at = "length", AtLength(d, raw)
  PROVE  Stepped(InField(d, b), Append(raw, b), Append(d.covered, b))
<1> DEFINE e == Taken(d, b)
           t == Append(raw, b)
           w == SequenceLength
           l == LengthLength
           c == Append(d.covered, b)
<1>1. /\ e \in Decoders /\ e.at = "length" /\ e.left = d.left - 1
      /\ ~e.escaped /\ e.covered = c /\ e.type = d.type /\ e.sequence = d.sequence
      /\ InField(d, b) = IF e.left = 0 THEN AfterField(e) ELSE e
  BY TakenIs
<1>2. /\ e.value = ByteModulus * d.value + b /\ d.value \in Nat /\ e.value \in Nat
      /\ e.body = d.body
  <2>1. d.at # "payload"
    OBVIOUS
  <2> HIDE DEF e
  <2> QED
    BY <1>1, <2>1, TakenIs DEF e, Decoders
<1>3. /\ w \in Nat \ {0} /\ l \in Nat \ {0} /\ Len(raw) \in Nat /\ Len(raw) > w
      /\ Len(raw) <= w + l /\ d.type = PAYLOAD /\ d.body = <<>>
      /\ d.left = w + l + 1 - Len(raw) /\ HasHead(d, raw)
      /\ Holds(d.value, SubSeq(raw, w + 2, Len(raw)))
  BY ByteAssumption DEF AtLength, HasHead
<1>4. Len(t) = Len(raw) + 1 /\ t \in Seq(Bytes)
  BY <1>3, AppendProperties
<1>5. Holds(e.value, SubSeq(t, w + 2, Len(t)))
  <2>1. w + 2 \in 1 .. Len(raw) + 1
    BY <1>3
  <2> HIDE DEF e, w
  <2> QED
    BY <1>2, <1>3, <2>1, OneByteMore
<1> HIDE DEF e, t, w, l, c
<1>6. CASE e.left # 0
  <2>1. HasHead(e, t)
    BY <1>1, <1>3, HeadKept DEF t
  <2>2. Len(t) <= w + l /\ e.left = w + l + 1 - Len(t)
    BY <1>1, <1>3, <1>4, <1>6
  <2>3. AtLength(e, t)
    BY <1>1, <1>2, <1>3, <1>5, <2>1, <2>2 DEF AtLength, w, l
  <2>4. Stepped(e, t, c)
    BY <1>1, <2>3 DEF Stepped, Reading, Fields
  <2> QED
    BY <1>1, <1>6, <2>4 DEF t, c
<1>7. CASE e.left = 0
  <2>1. Len(t) = w + l + 1
    BY <1>1, <1>3, <1>4, <1>7
  <2>2. SubSeq(t, w + l + 2, Len(t)) = <<>>
    <3>1. w + l + 2 \in Int /\ Len(t) \in Int /\ Len(t) < w + l + 2
      BY <1>3, <2>1
    <3> QED
      BY <3>1, SubSeqEmpty
  <2>3. ASSUME NEW r, r.type = e.type, r.sequence = e.sequence, r.body = e.body
        PROVE  HasPayload(r, t, e.value)
    <3>1. HasHead(r, t)
      BY <1>1, <1>3, <2>3, HeadKept DEF t
    <3>2. r.body = <<>> /\ Len(r.body) = 0
      BY <1>2, <1>3, <2>3
    <3>3. Len(t) = w + l + 1 + Len(r.body)
      BY <1>3, <2>1, <3>2
    <3>4. r.body = SubSeq(t, w + l + 2, Len(t))
      BY <2>2, <3>2
    <3>5. e.value + Len(r.body) = e.value
      BY <1>2, <3>2
    <3>6. Holds(e.value + Len(r.body), SubSeq(t, w + 2, w + l + 1))
      BY <1>5, <2>1, <3>5
    <3> QED
      BY <1>1, <1>3, <2>3, <3>1, <3>3, <3>4, <3>6 DEF HasPayload, w, l
  <2>4. CASE e.value > 0
    <3> DEFINE f == "payload"
               v == e.value
               r == Enter(e, f, v)
    <3>1. f \in Fields /\ v \in Int
      BY <1>2 DEF Fields
    <3>2. InField(d, b) = r
      BY <1>1, <1>7, <2>4 DEF AfterField
    <3> HIDE DEF f, v
    <3>3. /\ r \in Decoders /\ r.at = f /\ r.body = e.body /\ r.left = v
          /\ r.type = e.type /\ r.sequence = e.sequence
      BY <1>1, <3>1, EnterIs
    <3>4. HasPayload(r, t, r.left) /\ r.left >= 1
      <4> HIDE DEF r
      <4>1. HasPayload(r, t, e.value)
        BY <2>3, <3>3
      <4>2. r.left = e.value
        BY <3>3 DEF v
      <4> QED
        BY <1>2, <2>4, <4>1, <4>2
    <3>5. Reading(r, t)
      BY <3>3, <3>4 DEF Reading, f
    <3> QED
      BY <1>1, <3>1, <3>2, <3>5, EnterStepped DEF t, c
  <2>5. CASE ~(e.value > 0)
    <3> DEFINE f == "crc"
               one == 1
               r == Enter(e, f, one)
    <3>1. f \in Fields /\ one \in Int
      BY DEF Fields
    <3>2. InField(d, b) = r
      BY <1>1, <1>7, <2>5 DEF AfterField
    <3> HIDE DEF f, one
    <3>3. /\ r \in Decoders /\ r.at = f /\ r.body = e.body
          /\ r.type = e.type /\ r.sequence = e.sequence
      BY <1>1, <3>1, EnterIs
    <3>4. HasPayload(r, t, 0)
      <4> HIDE DEF r
      <4>1. HasPayload(r, t, e.value)
        BY <2>3, <3>3
      <4>2. e.value = 0
        BY <1>2, <2>5
      <4> QED
        BY <4>1, <4>2
    <3>5. Reading(r, t)
      BY <3>3, <3>4 DEF Reading, AtCrc, f
    <3> QED
      BY <1>1, <3>1, <3>2, <3>5, EnterStepped DEF t, c
  <2> QED
    BY <2>4, <2>5
<1> QED
  BY <1>6, <1>7

\* A byte of the payload.
LEMMA StepPayload ==
  ASSUME NEW d \in Decoders, NEW raw \in Seq(Bytes), NEW b \in Bytes,
         d.at = "payload", HasPayload(d, raw, d.left), d.left >= 1
  PROVE  Stepped(InField(d, b), Append(raw, b), Append(d.covered, b))
<1> DEFINE e == Taken(d, b)
           t == Append(raw, b)
           w == SequenceLength
           l == LengthLength
           c == Append(d.covered, b)
           n == Len(raw)
           k == Len(d.body)
<1>1. /\ e \in Decoders /\ e.at = "payload" /\ e.left = d.left - 1
      /\ ~e.escaped /\ e.covered = c /\ e.type = d.type /\ e.sequence = d.sequence
      /\ InField(d, b) = IF e.left = 0 THEN AfterField(e) ELSE e
  BY TakenIs
<1>2. e.body = Append(d.body, b) /\ d.body \in Seq(Nat) /\ d.left \in Int
  <2> HIDE DEF e
  <2> QED
    BY <1>1, TakenIs DEF e, Decoders
<1>3. /\ w \in Nat \ {0} /\ l \in Nat \ {0} /\ n \in Nat
      /\ d.type = PAYLOAD /\ HasHead(d, raw)
      /\ n = w + l + 1 + k
      /\ d.body = SubSeq(raw, w + l + 2, n)
      /\ Holds(d.left + k, SubSeq(raw, w + 2, w + l + 1))
  <2>1. w \in Nat \ {0} /\ l \in Nat \ {0} /\ n \in Nat
    BY ByteAssumption
  <2>2. /\ d.type = PAYLOAD /\ HasHead(d, raw)
        /\ n = w + l + 1 + k
        /\ d.body = SubSeq(raw, w + l + 2, n)
        /\ Holds(d.left + k, SubSeq(raw, w + 2, w + l + 1))
    BY Zenon DEF HasPayload
  <2> QED
    BY <2>1, <2>2
<1>4. Len(t) = n + 1 /\ t \in Seq(Bytes)
  BY AppendProperties
<1>5. Len(e.body) = k + 1 /\ k \in Nat
  <2> HIDE DEF e
  <2> QED
    BY <1>2
<1> HIDE DEF k
<1>6. e.body = SubSeq(t, w + l + 2, Len(t))
  <2> HIDE DEF e, w, l, n
  <2>1. w + l + 2 \in 1 .. n + 1
    BY <1>3, <1>5
  <2> USE DEF n
  <2>2. SubSeq(t, w + l + 2, n + 1) = Append(SubSeq(raw, w + l + 2, n), b)
    BY <2>1, SubSeqAppend
  <2> QED
    BY <1>2, <1>3, <1>4, <2>2
<1>7. SubSeq(t, w + 2, w + l + 1) = SubSeq(raw, w + 2, w + l + 1)
  <2> HIDE DEF w, l, n
  <2>1. w + 2 \in 1 .. n /\ w + l + 1 \in 0 .. n
    BY <1>3, <1>5
  <2> USE DEF n
  <2> QED
    BY <2>1, SubSeqAppend
<1> HIDE DEF e, t, w, l, c, n
<1>8. ASSUME NEW r, r.type = e.type, r.sequence = e.sequence, r.body = e.body
      PROVE  HasPayload(r, t, e.left)
  <2>1. HasHead(r, t)
    BY <1>1, <1>3, <1>8, HeadKept DEF t
  <2>2. Len(t) = w + l + 1 + Len(r.body)
    <3>1. Len(r.body) = k + 1
      BY <1>5, <1>8
    <3> QED
      BY <1>3, <1>4, <1>5, <3>1
  <2>3. r.body = SubSeq(t, w + l + 2, Len(t))
    BY <1>6, <1>8
  <2>4. e.left + Len(r.body) = d.left + k
    <3>1. Len(r.body) = k + 1
      BY <1>5, <1>8
    <3>2. e.left = d.left - 1 /\ d.left \in Int /\ k \in Nat
      BY <1>1, <1>2, <1>5, Zenon
    <3> DEFINE z == d.left
    <3> HIDE DEF z
    <3>3. e.left = z - 1 /\ z \in Int /\ k \in Nat
      BY <3>2, Zenon DEF z
    <3>4. (z - 1) + (k + 1) = z + k
      BY <3>3
    <3> QED
      BY <3>1, <3>3, <3>4, Zenon DEF z
  <2>5. Holds(e.left + Len(r.body), SubSeq(t, w + 2, w + l + 1))
    <3>1. Holds(e.left + Len(r.body), SubSeq(raw, w + 2, w + l + 1))
      BY <1>3, <2>4, Zenon
    <3> QED
      BY <1>7, <3>1, Zenon
  <2>6. r.type = PAYLOAD
    BY <1>1, <1>3, <1>8, Zenon
  <2> QED
    BY <2>1, <2>2, <2>3, <2>5, <2>6, Zenon DEF HasPayload, w, l
<1>9. CASE e.left # 0
  <2>1. HasPayload(e, t, e.left)
    BY <1>8
  <2>2. e.left >= 1
    BY <1>1, <1>2, <1>9
  <2>3. Stepped(e, t, c)
    BY <1>1, <2>1, <2>2 DEF Stepped, Reading, Fields
  <2> QED
    BY <1>1, <1>9, <2>3 DEF t, c
<1>10. CASE e.left = 0
  <2> DEFINE f == "crc"
             one == 1
             r == Enter(e, f, one)
  <2>1. f \in Fields /\ one \in Int
    BY DEF Fields
  <2>2. InField(d, b) = r
    BY <1>1, <1>10 DEF AfterField
  <2> HIDE DEF f, one
  <2>3. /\ r \in Decoders /\ r.at = f /\ r.body = e.body
        /\ r.type = e.type /\ r.sequence = e.sequence
    BY <1>1, <2>1, EnterIs
  <2>4. HasPayload(r, t, 0)
    <3> HIDE DEF r
    <3> QED
      BY <1>8, <1>10, <2>3
  <2>5. Reading(r, t)
    BY <2>3, <2>4 DEF Reading, AtCrc, f
  <2> QED
    BY <1>1, <2>1, <2>2, <2>5, EnterStepped DEF t, c
<1> QED
  BY <1>9, <1>10

-----------------------------------------------------------------------------
(* Messages and the bytes they are sent as. *)

Known(m) == \E seq \in 0 .. Power[SequenceLength] - 1 : m \in Messages(seq)

\* What follows the type and the sequence.
Rest(m) ==
  CASE m.type = ACKNOWLEDGE -> BigEndian(m.body[1], SequenceLength)
    [] m.type = PAYLOAD -> BigEndian(Len(m.body), LengthLength) \o m.body
    [] OTHER -> <<>>

\* What the checksum covers, without the escapes.
Raw(m) == <<m.type>> \o (BigEndian(m.sequence, SequenceLength) \o Rest(m))

\* The messages that are sent.
LEMMA KnownIs ==
  ASSUME NEW m, Known(m)
  PROVE  /\ m.type \in {5, ACKNOWLEDGE, PAYLOAD}
         /\ m.sequence \in 0 .. Power[SequenceLength] - 1
         /\ m.type = ACKNOWLEDGE => m.body = <<Flag>>
         /\ m.type = PAYLOAD => m.body \in Payloads
         /\ m.type = 5 => m.body = <<>>
         /\ m = [type |-> m.type, body |-> m.body, sequence |-> m.sequence]
<1>1. PICK seq \in 0 .. Power[SequenceLength] - 1 : m \in Messages(seq)
  BY DEF Known
<1>2. CASE m = [type |-> 5, sequence |-> seq, body |-> <<>>]
  BY <1>2 DEF ACKNOWLEDGE, PAYLOAD
<1>3. CASE m = [type |-> ACKNOWLEDGE, sequence |-> seq, body |-> <<Flag>>]
  BY <1>3 DEF ACKNOWLEDGE, PAYLOAD
<1>4. CASE \E p \in Payloads : m = [type |-> PAYLOAD, sequence |-> seq, body |-> p]
  BY <1>4 DEF ACKNOWLEDGE, PAYLOAD
<1> QED
  BY <1>1, <1>2, <1>3, <1>4 DEF Messages

\* The flag fits the field of an acknowledged sequence.
LEMMA FlagFits == Flag \in 0 .. Power[SequenceLength] - 1
<1> DEFINE m == ByteModulus
           p == Power[SequenceLength - 1]
<1>1. SequenceLength - 1 \in Nat /\ (SequenceLength - 1) + 1 = SequenceLength
  BY ByteAssumption
<1>2. p \in Nat \ {0} /\ Power[SequenceLength] = m * p
  BY <1>1, PowerIs
<1>3. m \in Nat /\ Flag \in Nat /\ Flag < m
  BY ByteAssumption
<1> HIDE DEF m, p
<1>4. m * p >= m * 1
  BY <1>2, <1>3
<1> DEFINE x == m * p
<1>5. x \in Int /\ x >= m /\ Power[SequenceLength] = x
  BY <1>2, <1>3, <1>4
<1> HIDE DEF x
<1> QED
  BY <1>3, <1>5

\* What follows the head in each kind of message.
LEMMA RestIs ==
  ASSUME NEW m, Known(m)
  PROVE  /\ Rest(m) \in Seq(Bytes)
         /\ m.type = ACKNOWLEDGE => Rest(m) = BigEndian(Flag, SequenceLength)
         /\ m.type = PAYLOAD =>
              /\ Rest(m) = BigEndian(Len(m.body), LengthLength) \o m.body
              /\ Len(m.body) \in 0 .. Power[LengthLength] - 1
              /\ m.body \in Seq(Bytes)
         /\ m.type = 5 => Rest(m) = <<>>
<1>1. CASE m.type = ACKNOWLEDGE
  <2>1. m.body = <<Flag>> /\ m.body[1] = Flag
    BY <1>1, KnownIs
  <2>2. Rest(m) = BigEndian(Flag, SequenceLength)
    BY <1>1, <2>1 DEF Rest, PAYLOAD, ACKNOWLEDGE
  <2>3. Flag \in Nat /\ SequenceLength \in Nat
    BY ByteAssumption
  <2>4. Rest(m) \in Seq(Bytes)
    BY <2>2, <2>3, BigEndianType
  <2> QED
    BY <1>1, <2>2, <2>4 DEF ACKNOWLEDGE, PAYLOAD
<1>2. CASE m.type = PAYLOAD
  <2>1. m.body \in Seq(Bytes) /\ Len(m.body) < Power[LengthLength]
    BY <1>2, KnownIs, MessageAssumption DEF Bytes
  <2>2. Rest(m) = BigEndian(Len(m.body), LengthLength) \o m.body
    <3>1. m.type # ACKNOWLEDGE
      BY <1>2 DEF PAYLOAD, ACKNOWLEDGE
    <3> QED
      BY <1>2, <3>1, Zenon DEF Rest
  <2>3. Len(m.body) \in Nat /\ LengthLength \in Nat
    BY <2>1, ByteAssumption
  <2>4. BigEndian(Len(m.body), LengthLength) \in Seq(Bytes)
    BY <2>3, BigEndianType
  <2> DEFINE f == BigEndian(Len(m.body), LengthLength)
             y == m.body
  <2>5. f \in Seq(Bytes) /\ y \in Seq(Bytes) /\ Rest(m) = f \o y
    BY <2>1, <2>2, <2>4
  <2> HIDE DEF f, y
  <2>6. Rest(m) \in Seq(Bytes)
    BY <2>5
  <2>7. Power[LengthLength] \in Nat
    BY <2>3, PowerIs
  <2>8. Len(m.body) \in 0 .. Power[LengthLength] - 1
    BY <2>1, <2>3, <2>7
  <2> QED
    BY <1>2, <2>1, <2>2, <2>6, <2>8 DEF ACKNOWLEDGE, PAYLOAD
<1>3. CASE m.type = 5
  <2>1. Rest(m) = <<>>
    BY <1>3 DEF Rest, PAYLOAD, ACKNOWLEDGE
  <2> QED
    BY <1>3, <2>1 DEF ACKNOWLEDGE, PAYLOAD
<1> QED
  BY <1>1, <1>2, <1>3, KnownIs

\* Where the fields of a message lie.
LEMMA RawIs ==
  ASSUME NEW m, Known(m)
  PROVE  /\ Raw(m) \in Seq(Bytes) /\ Raw(m)[1] = m.type
         /\ Len(Raw(m)) = SequenceLength + 1 + Len(Rest(m))
         /\ SubSeq(Raw(m), 2, SequenceLength + 1)
              = BigEndian(m.sequence, SequenceLength)
         /\ m.type = ACKNOWLEDGE =>
              /\ Len(Raw(m)) = 2 * SequenceLength + 1
              /\ SubSeq(Raw(m), SequenceLength + 2, 2 * SequenceLength + 1)
                   = BigEndian(Flag, SequenceLength)
         /\ m.type = PAYLOAD =>
              /\ Len(Raw(m)) = SequenceLength + LengthLength + 1 + Len(m.body)
              /\ SubSeq(Raw(m), SequenceLength + 2, SequenceLength + LengthLength + 1)
                   = BigEndian(Len(m.body), LengthLength)
              /\ SubSeq(Raw(m), SequenceLength + LengthLength + 2, Len(Raw(m)))
                   = m.body
         /\ m.type = 5 => Len(Raw(m)) = SequenceLength + 1
<1> DEFINE w == SequenceLength
           l == LengthLength
           t == <<m.type>>
           s == BigEndian(m.sequence, w)
           f == BigEndian(Len(m.body), l)
           y == m.body
           q == Rest(m)
           R == Raw(m)
<1>1. w \in Nat \ {0} /\ l \in Nat \ {0}
  BY ByteAssumption
<1>2. m.type \in Bytes /\ m.sequence \in Nat
  <2>1. m.type \in 0 .. 5 /\ m.sequence \in 0 .. Power[SequenceLength] - 1
    BY KnownIs DEF ACKNOWLEDGE, PAYLOAD
  <2>2. Power[SequenceLength] \in Nat
    BY <1>1, PowerIs
  <2>3. ByteModulus \in Nat /\ ByteModulus > 6
    BY ByteAssumption
  <2> QED
    BY <2>1, <2>2, <2>3 DEF Bytes
<1>3. t \in Seq(Bytes) /\ Len(t) = 1 /\ t[1] = m.type
  BY <1>2
<1>4. s \in Seq(Bytes) /\ Len(s) = w
  <2>1. w \in Nat
    BY <1>1
  <2> HIDE DEF w
  <2> QED
    BY <1>2, <2>1, BigEndianType
<1>5. q \in Seq(Bytes)
  BY RestIs
<1>6. R = t \o (s \o q)
  BY DEF Raw
<1> HIDE DEF t, s, q, R
<1>7. s \o q \in Seq(Bytes) /\ Len(s \o q) = w + Len(q) /\ Len(q) \in Nat
  BY <1>4, <1>5
<1> DEFINE v == s \o q
<1> HIDE DEF v
<1>8. R = t \o v /\ v \in Seq(Bytes) /\ Len(v) = w + Len(q)
  BY <1>6, <1>7 DEF v
<1> HIDE DEF w
<1>9. R \in Seq(Bytes) /\ R[1] = m.type /\ Len(R) = w + 1 + Len(q)
  <2>1. R \in Seq(Bytes) /\ Len(R) = Len(t) + Len(v) /\ R[1] = t[1]
    <3>1. t \in Seq(Bytes) /\ v \in Seq(Bytes) /\ 1 \in 1 .. Len(t)
      BY <1>3, <1>8
    <3>2. /\ t \o v \in Seq(Bytes) /\ Len(t \o v) = Len(t) + Len(v)
          /\ \A i \in 1 .. Len(t) : (t \o v)[i] = t[i]
      BY <3>1, Joined
    <3>3. R = t \o v
      BY <1>8
    <3> QED
      BY <3>1, <3>2, <3>3, Zenon
  <2> QED
    BY <1>1, <1>3, <1>7, <1>8, <2>1
\* Between two places of what follows the type.
<1>10. ASSUME NEW i \in 1 .. Len(v), NEW j \in 1 .. Len(v)
       PROVE  SubSeq(R, i + 1, j + 1) = SubSeq(v, i, j)
  <2>1. i + 1 \in Len(t) + 1 .. Len(t) + Len(v) /\ j + 1 \in Len(t) + 1 .. Len(t) + Len(v)
    BY <1>3
  <2>2. SubSeq(t \o v, i + 1, j + 1) = SubSeq(v, (i + 1) - Len(t), (j + 1) - Len(t))
    BY <1>3, <1>8, <2>1, SubSeqOfConcat2
  <2>3. (i + 1) - Len(t) = i /\ (j + 1) - Len(t) = j
    BY <1>3
  <2> QED
    BY <1>8, <2>2, <2>3
<1>11. SubSeq(R, 2, w + 1) = s
  <2>1. 1 \in 1 .. Len(v) /\ w \in 1 .. Len(v) /\ 1 \in 1 .. Len(s) /\ w \in 1 .. Len(s)
    BY <1>1, <1>4, <1>7, <1>8
  <2>2. SubSeq(R, 2, w + 1) = SubSeq(v, 1, w)
    <3>1. 1 + 1 = 2
      OBVIOUS
    <3> QED
      BY <1>10, <2>1, <3>1
  <2>3. SubSeq(s \o q, 1, w) = SubSeq(s, 1, w)
    BY <1>4, <1>5, <2>1, SubSeqOfConcat1
  <2>4. SubSeq(s, 1, w) = s
    BY <1>4, SubSeqFull
  <2> QED
    BY <2>2, <2>3, <2>4 DEF v
\* Between two places of what follows the sequence.
<1>12. ASSUME NEW i \in 1 .. Len(q), NEW j \in 1 .. Len(q)
       PROVE  SubSeq(R, w + i + 1, w + j + 1) = SubSeq(q, i, j)
  <2>1. w + i \in Len(s) + 1 .. Len(s) + Len(q) /\ w + j \in Len(s) + 1 .. Len(s) + Len(q)
    BY <1>1, <1>4, <1>7
  <2>2. SubSeq(s \o q, w + i, w + j) = SubSeq(q, (w + i) - Len(s), (w + j) - Len(s))
    BY <1>4, <1>5, <2>1, SubSeqOfConcat2
  <2>3. (w + i) - Len(s) = i /\ (w + j) - Len(s) = j
    BY <1>1, <1>4
  <2>4. w + i \in 1 .. Len(v) /\ w + j \in 1 .. Len(v)
    BY <1>1, <1>7, <1>8
  <2>5. SubSeq(R, w + i + 1, w + j + 1) = SubSeq(v, w + i, w + j)
    BY <1>10, <2>4
  <2> QED
    BY <2>2, <2>3, <2>5 DEF v
<1>13. CASE m.type = ACKNOWLEDGE
  <2> DEFINE a == BigEndian(Flag, w)
  <2>1. q = a
    BY <1>13, RestIs DEF q, w
  <2>2. Flag \in Nat /\ w \in Nat
    BY <1>1, ByteAssumption
  <2>3. Len(a) = w /\ a \in Seq(Bytes)
    BY <2>2, BigEndianType
  <2> HIDE DEF a
  <2>4. Len(R) = 2 * w + 1
    BY <1>1, <1>9, <2>1, <2>3
  <2>5. SubSeq(R, w + 2, 2 * w + 1) = a
    <3>1. 1 \in 1 .. Len(q) /\ w \in 1 .. Len(q) /\ w + 1 + 1 = w + 2
          /\ w + w + 1 = 2 * w + 1
      BY <1>1, <2>1, <2>3
    <3>2. SubSeq(R, w + 1 + 1, w + w + 1) = SubSeq(q, 1, w)
      BY <1>12, <3>1
    <3>3. SubSeq(q, 1, w) = q
      BY <1>5, <2>1, <2>3, SubSeqFull
    <3> QED
      BY <2>1, <3>1, <3>2, <3>3
  <2> QED
    BY <1>9, <1>11, <1>13, <2>4, <2>5 DEF ACKNOWLEDGE, PAYLOAD, R, q, s, w, a
<1>14. CASE m.type = PAYLOAD
  <2>1. /\ q = f \o y /\ y \in Seq(Bytes)
    BY <1>14, RestIs DEF q
  <2>2. Len(y) \in Nat /\ l \in Nat
    BY <1>1, <2>1
  <2>3. Len(f) = l /\ f \in Seq(Bytes)
    <3> HIDE DEF y
    <3> QED
      BY <2>2, BigEndianType DEF y
  <2> HIDE DEF f, y, l
  <2>4. Len(q) = l + Len(y)
    <3>1. Len(f \o y) = Len(f) + Len(y)
      BY <2>1, <2>3, Joined
    <3> QED
      BY <2>1, <2>3, <3>1
  <2>5. Len(R) = w + l + 1 + Len(y)
    BY <1>1, <1>9, <2>2, <2>4
  <2>6. SubSeq(R, w + 2, w + l + 1) = f
    <3>1. 1 \in 1 .. Len(q) /\ l \in 1 .. Len(q) /\ w + 1 + 1 = w + 2
          /\ 1 \in 1 .. Len(f) /\ l \in 1 .. Len(f)
      BY <1>1, <2>2, <2>3, <2>4
    <3>2. SubSeq(R, w + 1 + 1, w + l + 1) = SubSeq(q, 1, l)
      BY <1>12, <3>1
    <3>3. SubSeq(f \o y, 1, l) = SubSeq(f, 1, l)
      BY <2>1, <2>3, <3>1, SubSeqOfConcat1
    <3>4. SubSeq(f, 1, l) = f
      BY <2>3, SubSeqFull
    <3> QED
      BY <2>1, <3>1, <3>2, <3>3, <3>4
  <2>7. SubSeq(R, w + l + 2, Len(R)) = y
    <3>1. CASE y = <<>>
      <4>1. w + l + 2 \in Int /\ Len(R) \in Int /\ Len(R) < w + l + 2
        BY <1>1, <1>9, <2>2, <2>5, <3>1
      <4> QED
        BY <3>1, <4>1, SubSeqEmpty
    <3>2. CASE y # <<>>
      <4> DEFINE k == Len(y)
      <4>1. k \in Nat \ {0} /\ k = Len(y)
        BY <2>1, <3>2, EmptySeq
      <4> HIDE DEF k
      <4>2. /\ l + 1 \in 1 .. Len(q) /\ l + k \in 1 .. Len(q)
            /\ w + (l + 1) + 1 = w + l + 2 /\ w + (l + k) + 1 = Len(R)
            /\ l + 1 \in Len(f) + 1 .. Len(f) + k /\ l + k \in Len(f) + 1 .. Len(f) + k
            /\ (l + 1) - Len(f) = 1 /\ (l + k) - Len(f) = k
        BY <1>1, <2>2, <2>3, <2>4, <2>5, <4>1
      <4>3. SubSeq(R, w + (l + 1) + 1, w + (l + k) + 1) = SubSeq(q, l + 1, l + k)
        BY <1>12, <4>2
      <4>4. SubSeq(f \o y, l + 1, l + k) = SubSeq(y, (l + 1) - Len(f), (l + k) - Len(f))
        <5>1. /\ l + 1 \in Len(f) + 1 .. Len(f) + Len(y)
              /\ l + k \in Len(f) + 1 .. Len(f) + Len(y)
          BY <4>1, <4>2
        <5> QED
          BY <2>1, <2>3, <5>1, SubSeqOfConcat2
      <4>5. SubSeq(y, 1, k) = y
        BY <2>1, <4>1, SubSeqFull
      <4> QED
        BY <2>1, <4>2, <4>3, <4>4, <4>5
    <3> QED
      BY <3>1, <3>2
  <2> QED
    BY <1>9, <1>11, <1>14, <2>5, <2>6, <2>7
    DEF ACKNOWLEDGE, PAYLOAD, R, q, s, w, l, f, y
<1>15. CASE m.type = 5
  <2>1. q = <<>> /\ Len(q) = 0
    <3>1. q = <<>>
      BY <1>15, RestIs DEF q
    <3> QED
      BY <3>1
  <2>2. Len(R) = w + 1
    BY <1>1, <1>9, <2>1
  <2> QED
    BY <1>9, <1>11, <1>15, <2>2 DEF ACKNOWLEDGE, PAYLOAD, R, q, s, w
<1> QED
  BY <1>13, <1>14, <1>15, KnownIs

\* The checksum covers the bytes as they are written.
LEMMA CoveredIs ==
  ASSUME NEW m, Known(m)
  PROVE  Covered(m) = Escaped(Raw(m)) /\ Covered(m) \in Seq(Bytes)
<1> DEFINE b == m.type
           u == BigEndian(m.sequence, SequenceLength)
           v == Rest(m)
           t == u \o v
<1>1. b \in Bytes /\ b \notin {Escape, Flag}
  <2>1. b \in 0 .. 5
    BY KnownIs DEF ACKNOWLEDGE, PAYLOAD
  <2>2. ByteModulus \in Nat /\ ByteModulus > 6 /\ Escape > 6 /\ Flag > 6
    BY ByteAssumption
  <2> QED
    BY <2>1, <2>2 DEF Bytes
<1>2. u \in Seq(Bytes)
  <2>1. m.sequence \in Nat /\ SequenceLength \in Nat
    <3>1. SequenceLength \in Nat
      BY ByteAssumption
    <3>2. Power[SequenceLength] \in Nat /\ m.sequence \in 0 .. Power[SequenceLength] - 1
      BY <3>1, PowerIs, KnownIs
    <3> QED
      BY <3>1, <3>2
  <2> QED
    BY <2>1, BigEndianType
<1>3. v \in Seq(Bytes)
  BY RestIs
<1> HIDE DEF u, v, b
<1>4. t \in Seq(Bytes)
  BY <1>2, <1>3
<1>5. Covered(m) = <<b>> \o Escaped(t)
  BY DEF Covered, Rest, b, u, v
<1> HIDE DEF t
<1>6. Raw(m) = <<b>> \o t
  BY DEF Raw, b, t, u, v
<1>7. Escaped(<<b>>) = <<b>>
  BY <1>1, EscapedOfOne DEF Word
<1>8. Escaped(<<b>> \o t) = Escaped(<<b>>) \o Escaped(t)
  <2>1. <<b>> \in Seq(Bytes)
    BY <1>1
  <2> QED
    BY <1>4, <2>1, EscapedTogether
<1>9. Covered(m) \in Seq(Bytes)
  <2>1. <<b>> \in Seq(Bytes) /\ Escaped(t) \in Seq(Bytes)
    BY <1>1, <1>4, EscapedType
  <2> QED
    BY <1>5, <2>1, ConcatProperties
<1> QED
  BY <1>5, <1>6, <1>7, <1>8, <1>9

\* A field of w bytes that holds v and one written for n.
LEMMA HoldsSame ==
  ASSUME NEW w \in Nat, NEW v, NEW n \in 0 .. Power[w] - 1, NEW s,
         Holds(v, s), s = BigEndian(n, w)
  PROVE  v = n
<1>1. Power[w] \in Nat /\ n \in Nat
  BY PowerIs
<1>2. Len(s) = w
  BY <1>1, BigEndianType
<1>3. v \in 0 .. Power[w] - 1 /\ BigEndian(v, w) = BigEndian(n, w)
  BY <1>2 DEF Holds
<1> QED
  BY <1>3, HoldsOne

\* A decoder that has read the beginning of a message waits for the checksum
\* exactly when it has read it all, and then it has decoded it.
LEMMA ReadSoFar ==
  ASSUME NEW m, Known(m), NEW d \in Decoders, NEW raw \in Seq(Bytes),
         NEW u \in Seq(Bytes), Raw(m) = raw \o u, d.at \in Fields,
         Reading(d, raw)
  PROVE  /\ d.at = "crc" <=> u = <<>>
         /\ u = <<>> => d.type = m.type /\ d.sequence = m.sequence /\ d.body = m.body
         /\ d.at = "type" => u # <<>> /\ u[1] = m.type
<1> DEFINE R == Raw(m)
           w == SequenceLength
           l == LengthLength
           n == Len(raw)
<1>1. w \in Nat \ {0} /\ l \in Nat \ {0} /\ n \in Nat
  BY ByteAssumption
<1>2. /\ R \in Seq(Bytes) /\ R[1] = m.type
      /\ Len(R) >= w + 1
      /\ SubSeq(R, 2, w + 1) = BigEndian(m.sequence, w)
      /\ m.type = ACKNOWLEDGE =>
           /\ Len(R) = 2 * w + 1
           /\ SubSeq(R, w + 2, 2 * w + 1) = BigEndian(Flag, w)
      /\ m.type = PAYLOAD =>
           /\ Len(R) = w + l + 1 + Len(m.body)
           /\ SubSeq(R, w + 2, w + l + 1) = BigEndian(Len(m.body), l)
           /\ SubSeq(R, w + l + 2, Len(R)) = m.body
      /\ m.type = 5 => Len(R) = w + 1
  <2>1. Len(Rest(m)) \in Nat /\ Len(R) = w + 1 + Len(Rest(m))
    <3>1. Rest(m) \in Seq(Bytes)
      BY RestIs
    <3>2. Len(Rest(m)) \in Nat
      BY <3>1
    <3>3. Len(R) = w + 1 + Len(Rest(m))
      BY RawIs
    <3> QED
      BY <3>2, <3>3
  <2>2. Len(R) >= w + 1
    BY <1>1, <2>1
  <2> HIDE DEF R
  <2> QED
    BY <2>2, RawIs DEF R
<1>3. R = raw \o u
  OBVIOUS
<1> HIDE DEF R, w, l, n
<1>4. Len(R) = n + Len(u) /\ Len(u) \in Nat
  <2>1. Len(raw \o u) = Len(raw) + Len(u)
    BY ConcatProperties
  <2> QED
    BY <1>3, <2>1 DEF n
<1>5. u = <<>> <=> Len(R) = n
  BY <1>1, <1>4
<1>6. ASSUME NEW i \in 1 .. n, NEW j \in 1 .. n
      PROVE  SubSeq(R, i, j) = SubSeq(raw, i, j)
  BY <1>3, SubSeqOfConcat1 DEF n
<1>7. n >= 1 => R[1] = raw[1]
  BY <1>3, ConcatProperties DEF n
<1>8. HasHead(d, raw) => d.type = m.type /\ d.sequence = m.sequence
  <2> SUFFICES ASSUME HasHead(d, raw)
               PROVE  d.type = m.type /\ d.sequence = m.sequence
    OBVIOUS
  <2>1. n > w /\ raw[1] = d.type /\ Holds(d.sequence, SubSeq(raw, 2, w + 1))
    BY DEF HasHead, n, w
  <2>2. SubSeq(R, 2, w + 1) = SubSeq(raw, 2, w + 1)
    <3>1. 2 \in 1 .. n /\ w + 1 \in 1 .. n
      BY <1>1, <2>1
    <3> QED
      BY <1>6, <3>1
  <2>3. m.sequence \in 0 .. Power[w] - 1
    BY KnownIs DEF w
  <2>4. d.sequence = m.sequence
    BY <1>1, <1>2, <2>1, <2>2, <2>3, HoldsSame
  <2> QED
    BY <1>1, <1>2, <1>7, <2>1, <2>4
<1>9. CASE d.at = "type"
  <2>1. raw = <<>>
    BY <1>9 DEF Reading, AtType
  <2>2. R = u
    BY <1>3, <2>1, ConcatEmptySeq
  <2>3. u # <<>>
    BY <1>1, <1>2, <2>2
  <2> QED
    BY <1>2, <1>9, <2>2, <2>3
<1>10. CASE d.at = "sequence"
  <2>1. n <= w
    BY <1>1, <1>10 DEF Reading, AtSequence, n, w
  <2>2. u # <<>>
    BY <1>1, <1>2, <1>5, <2>1
  <2> QED
    BY <1>10, <2>2
<1>11. CASE d.at = "acknowledged"
  <2>1. n <= 2 * w /\ d.type = ACKNOWLEDGE /\ HasHead(d, raw)
    BY <1>11 DEF Reading, AtAcknowledged, n, w
  <2>2. u # <<>>
    <3>1. m.type = ACKNOWLEDGE
      BY <1>8, <2>1
    <3>2. Len(R) = 2 * w + 1
      BY <1>2, <3>1
    <3>3. Len(R) # n
      BY <1>1, <2>1, <3>2
    <3> QED
      BY <1>5, <3>3
  <2> QED
    BY <1>11, <2>2
<1>12. CASE d.at = "length"
  <2>1. n <= w + l /\ d.type = PAYLOAD /\ HasHead(d, raw)
    BY <1>12 DEF Reading, AtLength, n, w, l
  <2>2. m.type = PAYLOAD
    BY <1>8, <2>1
  <2> DEFINE y == Len(m.body)
  <2>3. y \in Nat
    <3>1. m.body \in Seq(Bytes)
      BY <2>2, RestIs
    <3> QED
      BY <3>1
  <2>4. Len(R) = w + l + 1 + y
    BY <1>2, <2>2
  <2> HIDE DEF y
  <2>5. u # <<>>
    BY <1>1, <1>5, <2>1, <2>3, <2>4
  <2> QED
    BY <1>12, <2>5
<1>13. ASSUME NEW left \in Nat, HasPayload(d, raw, left)
       PROVE  /\ m.type = PAYLOAD /\ Len(R) = n + left
              /\ left = 0 => d.body = m.body
  <2> DEFINE k == Len(d.body)
  <2>1. /\ HasHead(d, raw) /\ d.type = PAYLOAD /\ n = w + l + 1 + k
        /\ d.body = SubSeq(raw, w + l + 2, n)
        /\ Holds(left + k, SubSeq(raw, w + 2, w + l + 1))
    BY <1>13, Zenon DEF HasPayload, n, w, l
  <2>2. k \in Nat
    BY DEF Decoders
  <2> HIDE DEF k
  <2>3. m.type = PAYLOAD
    BY <1>8, <2>1
  <2>4. /\ Len(m.body) \in 0 .. Power[l] - 1 /\ Len(m.body) \in Nat
    <3>1. m.body \in Seq(Bytes)
      BY <2>3, RestIs
    <3>2. Len(m.body) \in 0 .. Power[l] - 1
      BY <2>3, RestIs DEF l
    <3> QED
      BY <3>1, <3>2
  <2>5. SubSeq(R, w + 2, w + l + 1) = SubSeq(raw, w + 2, w + l + 1)
    <3>1. w + 2 \in 1 .. n /\ w + l + 1 \in 1 .. n
      BY <1>1, <2>1, <2>2
    <3> QED
      BY <1>6, <3>1
  <2> DEFINE f == SubSeq(raw, w + 2, w + l + 1)
             x == left + k
             y == Len(m.body)
  <2>6. Holds(x, f) /\ f = BigEndian(y, l)
    BY <1>2, <2>1, <2>3, <2>5
  <2> HIDE DEF f, x, y
  <2>7. x = y
    BY <1>1, <2>4, <2>6, HoldsSame DEF y
  <2>8. Len(R) = n + left
    <3>1. Len(R) = w + l + 1 + y
      BY <1>2, <2>3 DEF y
    <3>2. x = left + k
      BY DEF x
    <3> QED
      BY <1>1, <2>1, <2>2, <2>7, <3>1, <3>2
  <2>9. ASSUME left = 0
        PROVE  d.body = m.body
    <3>1. Len(R) = n /\ u = <<>>
      BY <1>1, <1>5, <2>8, <2>9
    <3>2. R = raw
      BY <1>3, <3>1, ConcatEmptySeq
    <3> QED
      BY <1>2, <2>1, <2>3, <3>1, <3>2
  <2> QED
    BY <2>3, <2>8, <2>9
<1>14. CASE d.at = "payload"
  <2>1. HasPayload(d, raw, d.left) /\ d.left >= 1 /\ d.left \in Int
    BY <1>14 DEF Reading, Decoders
  <2>2. d.left \in Nat
    BY <2>1
  <2>3. Len(R) = n + d.left
    BY <1>13, <2>1, <2>2
  <2>4. u # <<>>
    BY <1>1, <1>5, <2>1, <2>3
  <2> QED
    BY <1>14, <2>4
<1>15. CASE d.at = "crc"
  <2>1. CASE HasAcknowledged(d, raw)
    <3>1. HasHead(d, raw) /\ d.type = ACKNOWLEDGE /\ n = 2 * w + 1
      BY <2>1 DEF HasAcknowledged, n, w
    <3>2. PICK v : d.body = <<v>> /\ Holds(v, SubSeq(raw, w + 2, n))
      BY <2>1 DEF HasAcknowledged, n, w
    <3>3. m.type = ACKNOWLEDGE
      BY <1>8, <3>1
    <3>4. u = <<>>
      BY <1>2, <1>5, <3>1, <3>3
    <3>5. R = raw
      BY <1>3, <3>4, ConcatEmptySeq
    <3>6. v = Flag
      <4>1. Flag \in 0 .. Power[w] - 1
        BY FlagFits DEF w
      <4> DEFINE s == SubSeq(raw, w + 2, n)
      <4>2. Holds(v, s) /\ s = BigEndian(Flag, w)
        BY <1>2, <3>1, <3>2, <3>3, <3>5
      <4> HIDE DEF s
      <4> QED
        BY <1>1, <4>1, <4>2, HoldsSame
    <3>7. m.body = <<Flag>>
      BY <3>3, KnownIs
    <3> QED
      BY <1>8, <1>15, <3>1, <3>2, <3>4, <3>6, <3>7
  <2>2. CASE HasPayload(d, raw, 0)
    <3>1. m.type = PAYLOAD /\ Len(R) = n + 0 /\ d.body = m.body
      BY <1>13, <2>2
    <3>2. u = <<>>
      BY <1>1, <1>5, <3>1
    <3>3. HasHead(d, raw)
      BY <2>2 DEF HasPayload
    <3> QED
      BY <1>8, <1>15, <3>1, <3>2, <3>3
  <2>3. CASE HasNoBody(d, raw)
    <3>1. HasHead(d, raw) /\ d.type \notin {ACKNOWLEDGE, PAYLOAD}
          /\ n = w + 1 /\ d.body = <<>>
      BY <2>3 DEF HasNoBody, n, w
    <3>2. m.type = 5
      BY <1>8, <3>1, KnownIs
    <3>3. u = <<>>
      BY <1>2, <1>5, <3>1, <3>2
    <3>4. m.body = <<>>
      BY <3>2, KnownIs
    <3> QED
      BY <1>8, <1>15, <3>1, <3>3, <3>4
  <2> QED
    BY <1>15, <2>1, <2>2, <2>3 DEF Reading, AtCrc
<1> QED
  BY <1>9, <1>10, <1>11, <1>12, <1>14, <1>15 DEF Fields

-----------------------------------------------------------------------------
(* One byte within a frame. *)

Parsed(d) == \E raw \in Seq(Bytes) : Parse(d, raw)

\* What the decoder is within the fields of a frame.
Within(d) == d \in Decoders /\ d.at \in Fields /\ Parsed(d)

\* The cases of DecodeByte within the part that is escaped.
LEMMA DecodeByteIs ==
  ASSUME NEW d, NEW element, d.at # "end", d.at # "marker"
  PROVE  /\ ~d.escaped /\ element.byte = Escape =>
              DecodeByte(d, element) =
                [d EXCEPT !.escaped = TRUE,
                          !.covered = IF d.at = "crc" THEN @
                                      ELSE Append(@, element.byte)]
         /\ ~d.escaped /\ element.byte = Flag => DecodeByte(d, element) = Thrown
         /\ d.escaped /\ element.byte \notin {Escape, Flag} =>
              DecodeByte(d, element) = Thrown
         /\ (d.escaped <=> element.byte \in {Escape, Flag}) =>
              DecodeByte(d, element) = IF d.at = "crc" THEN CheckCrc(d, element)
                                       ELSE InField(d, element.byte)
<1> DEFINE x == [d EXCEPT !.escaped = TRUE,
                          !.covered = IF d.at = "crc" THEN @
                                      ELSE Append(@, element.byte)]
           u == CheckCrc(d, element)
           v == InField(d, element.byte)
           b == element.byte
<1>1. DecodeByte(d, element) =
        IF ~d.escaped /\ b = Escape THEN x
        ELSE IF ~(d.escaped <=> b \in {Escape, Flag}) THEN Thrown
        ELSE IF d.at = "crc" THEN u ELSE v
  BY DEF DecodeByte
<1>2. Flag # Escape
  BY ByteAssumption
<1> HIDE DEF x, u, v, b
<1>3. ~d.escaped /\ b = Escape => DecodeByte(d, element) = x
  BY <1>1
<1>4. ~d.escaped /\ b = Flag => DecodeByte(d, element) = Thrown
  BY <1>1, <1>2
<1>5. d.escaped /\ b \notin {Escape, Flag} => DecodeByte(d, element) = Thrown
  BY <1>1
<1>6. (d.escaped <=> b \in {Escape, Flag}) =>
        DecodeByte(d, element) = IF d.at = "crc" THEN u ELSE v
  BY <1>1
<1> QED
  BY <1>3, <1>4, <1>5, <1>6 DEF x, u, v, b

\* An escape leaves the decoder where it is.
LEMMA TakesEscape ==
  ASSUME NEW d, Within(d), NEW element, element.byte = Escape, ~d.escaped
  PROVE  /\ Within(DecodeByte(d, element)) /\ DecodeByte(d, element).at = d.at
         /\ DecodeByte(d, element).escaped
         /\ DecodeByte(d, element).covered =
              IF d.at = "crc" THEN d.covered ELSE Append(d.covered, Escape)
<1> DEFINE c == IF d.at = "crc" THEN d.covered ELSE Append(d.covered, Escape)
           r == DecodeByte(d, element)
<1>1. d \in Decoders /\ d.at \in Fields
  BY DEF Within
<1>2. PICK raw \in Seq(Bytes) : Parse(d, raw)
  BY DEF Within, Parsed
<1>3. d.at # "end" /\ d.at # "marker"
  BY <1>1 DEF Fields
<1>4. r = [d EXCEPT !.escaped = TRUE, !.covered = c]
  <2>1. r = [d EXCEPT !.escaped = TRUE,
                      !.covered = IF d.at = "crc" THEN @
                                  ELSE Append(@, element.byte)]
    BY <1>3, DecodeByteIs
  <2> HIDE DEF r
  <2>2. CASE d.at = "crc"
    BY <2>1, <2>2
  <2>3. CASE d.at # "crc"
    BY <2>1, <2>3
  <2> QED
    BY <2>2, <2>3
<1>5. Escape \in Bytes /\ d.covered \in Seq(Bytes)
  BY <1>1, ByteAssumption DEF Bytes, Decoders
<1>6. c \in Seq(Bytes)
  BY <1>5
<1> HIDE DEF c, r
<1>7. /\ r \in Decoders /\ r.at = d.at /\ r.escaped /\ r.covered = c
      /\ r.left = d.left /\ r.value = d.value /\ r.type = d.type
      /\ r.sequence = d.sequence /\ r.body = d.body
  BY <1>1, <1>4, <1>6 DEF Decoders
<1>8. Reading(r, raw)
  <2>1. Reading(d, raw)
    BY <1>2 DEF Parse
  <2>2. HasHead(d, raw) <=> HasHead(r, raw)
    BY <1>7 DEF HasHead
  <2> QED
    BY <1>7, <2>1, <2>2
    DEF Reading, AtType, AtSequence, AtAcknowledged, AtLength, HasPayload, AtCrc,
        HasAcknowledged, HasNoBody
<1>9. d.covered = Escaped(raw)
  <2>1. Escaped(raw) \in Seq(Bytes)
    BY EscapedType
  <2>2. d.covered = Escaped(raw) \o <<>>
    BY <1>2 DEF Parse
  <2> QED
    BY <2>1, <2>2, ConcatEmptySeq
<1>10. r.covered = Escaped(raw) \o IF r.escaped /\ r.at # "crc" THEN <<Escape>> ELSE <<>>
  <2>1. Escaped(raw) \in Seq(Bytes)
    BY EscapedType
  <2>2. CASE d.at = "crc"
    BY <1>7, <1>9, <2>1, <2>2, ConcatEmptySeq DEF c
  <2>3. CASE d.at # "crc"
    <3>1. Append(Escaped(raw), Escape) = Escaped(raw) \o <<Escape>>
      BY <1>5, <2>1, AppendIsConcat
    <3> QED
      BY <1>7, <1>9, <2>3, <3>1 DEF c
  <2> QED
    BY <2>2, <2>3
<1>11. Parse(r, raw)
  BY <1>8, <1>10 DEF Parse
<1> QED
  BY <1>1, <1>7, <1>11 DEF Within, Parsed, r, c

\* Short sequences.
LEMMA Appends ==
  ASSUME NEW a \in Bytes, NEW b \in Bytes
  PROVE  Append(<<a>>, b) = <<a, b>> /\ Append(<<>>, b) = <<b>> /\ <<b>> \in Seq(Bytes)
<1>1. Append(<<a>>, b) = <<a, b>>
  <2> DEFINE s == Append(<<a>>, b)
             t == <<a, b>>
  <2>1. t \in Seq(Bytes) /\ Len(t) = 2 /\ t[1] = a /\ t[2] = b
    OBVIOUS
  <2>2. <<a>> \in Seq(Bytes) /\ Len(<<a>>) = 1 /\ <<a>>[1] = a
    OBVIOUS
  <2>3. s \in Seq(Bytes) /\ Len(s) = 2 /\ s[2] = b /\ s[1] = a
    BY <2>2, AppendProperties
  <2> HIDE DEF s, t
  <2>4. \A i \in 1 .. Len(s) : s[i] = t[i]
    BY <2>1, <2>3
  <2>5. s = t
    BY <2>1, <2>3, <2>4, SeqEqual
  <2> QED
    BY <2>5 DEF s, t
<1>2. Append(<<>>, b) = <<b>>
  OBVIOUS
<1>3. <<b>> \in Seq(Bytes)
  OBVIOUS
<1> QED
  BY <1>1, <1>2, <1>3

\* A byte that may stand there leaves the decoder within a message.
LEMMA TakesByte ==
  ASSUME NEW d, Within(d), d.at # "crc", NEW element, element.byte \in Bytes,
         d.escaped <=> element.byte \in {Escape, Flag}
  PROVE  IF d.at = "type" /\ element.byte > HIGHEST_ELEMENT
         THEN DecodeByte(d, element) = Thrown
         ELSE /\ Within(DecodeByte(d, element)) /\ ~DecodeByte(d, element).escaped
              /\ DecodeByte(d, element).covered = Append(d.covered, element.byte)
<1> DEFINE b == element.byte
           r == InField(d, b)
<1>1. d \in Decoders /\ d.at \in Fields
  BY DEF Within
<1>2. PICK raw \in Seq(Bytes) : Parse(d, raw)
  BY DEF Within, Parsed
<1>3. d.at # "end" /\ d.at # "marker"
  BY <1>1 DEF Fields
<1>4. DecodeByte(d, element) = r
  BY <1>3, DecodeByteIs
<1>5. b \in Bytes /\ Reading(d, raw)
  BY <1>2 DEF Parse
<1> HIDE DEF b
<1> DEFINE t == Append(raw, b)
           c == Append(d.covered, b)
<1>6. CASE d.at = "type" /\ b > HIGHEST_ELEMENT
  <2>1. AtType(d, raw)
    BY <1>5, <1>6 DEF Reading
  <2>2. r = Thrown
    BY <1>1, <1>5, <1>6, <2>1, StepType
  <2> QED
    BY <1>4, <1>6, <2>2 DEF b
<1>7. CASE ~(d.at = "type" /\ b > HIGHEST_ELEMENT)
  <2>1. Stepped(r, t, c)
    <3>1. CASE d.at = "type"
      <4>1. AtType(d, raw) /\ ~(b > HIGHEST_ELEMENT)
        BY <1>5, <1>7, <3>1 DEF Reading
      <4> QED
        BY <1>1, <1>5, <3>1, <4>1, StepType
    <3>2. CASE d.at = "sequence"
      BY <1>1, <1>5, <3>2, StepSequence DEF Reading
    <3>3. CASE d.at = "acknowledged"
      BY <1>1, <1>5, <3>3, StepAcknowledged DEF Reading
    <3>4. CASE d.at = "length"
      BY <1>1, <1>5, <3>4, StepLength DEF Reading
    <3>5. CASE d.at = "payload"
      BY <1>1, <1>5, <3>5, StepPayload DEF Reading
    <3> QED
      BY <1>1, <3>1, <3>2, <3>3, <3>4, <3>5 DEF Fields
  <2> HIDE DEF r, t, c
  <2>2. r \in Decoders /\ r.at \in Fields /\ ~r.escaped /\ r.covered = c /\ Reading(r, t)
    BY <2>1 DEF Stepped
  <2>3. t \in Seq(Bytes) /\ Escaped(t) = Escaped(raw) \o Word(b)
    BY <1>5, EscapedNext DEF t
  <2> DEFINE e == Escaped(raw)
             n == IF d.escaped THEN <<Escape>> ELSE <<>>
  <2>4. e \in Seq(Bytes) /\ n \in Seq(Bytes) /\ d.covered = e \o n
    <3>1. Escape \in Bytes
      BY ByteAssumption DEF Bytes
    <3>2. n \in Seq(Bytes)
      BY <3>1
    <3>3. d.covered = e \o n
      BY <1>2 DEF Parse
    <3> QED
      BY <3>2, <3>3, EscapedType
  <2>5. Append(n, b) = Word(b) /\ <<b>> \in Seq(Bytes)
    <3>1. Append(<<Escape>>, b) = <<Escape, b>> /\ Append(<<>>, b) = <<b>>
          /\ <<b>> \in Seq(Bytes)
      <4>1. Escape \in Bytes
        BY ByteAssumption DEF Bytes
      <4> QED
        BY <1>5, <4>1, Appends
    <3>2. CASE b \in {Escape, Flag}
      <4>1. n = <<Escape>>
        BY <3>2 DEF b
      <4>2. Word(b) = <<Escape, b>>
        BY <3>2 DEF Word
      <4> HIDE DEF n
      <4> QED
        BY <3>1, <4>1, <4>2
    <3>3. CASE b \notin {Escape, Flag}
      <4>1. n = <<>>
        BY <3>3 DEF b
      <4>2. Word(b) = <<b>>
        BY <3>3 DEF Word
      <4> HIDE DEF n
      <4> QED
        BY <3>1, <4>1, <4>2
    <3> QED
      BY <3>2, <3>3
  <2> HIDE DEF e, n
  <2>6. c = e \o Append(n, b)
    <3>1. e \o Append(n, b) = Append(e \o n, b)
      BY <1>5, <2>4, JoinedOne
    <3> QED
      BY <2>4, <3>1 DEF c
  <2>7. r.covered = Escaped(t) \o <<>>
    <3>1. Escaped(t) \in Seq(Bytes)
      BY <2>3, EscapedType
    <3>2. r.covered = Escaped(t)
      BY <2>2, <2>3, <2>5, <2>6 DEF e
    <3> QED
      BY <3>1, <3>2, ConcatEmptySeq
  <2>8. Parse(r, t)
    BY <2>2, <2>7 DEF Parse
  <2>9. Within(r)
    BY <2>2, <2>3, <2>8 DEF Within, Parsed
  <2> QED
    BY <1>4, <1>7, <2>2, <2>9 DEF b, c, r
<1> QED
  BY <1>6, <1>7

\* What a byte does to a decoder that waits for one of a field.
LEMMA Decodes ==
  ASSUME NEW d, Within(d), NEW element, element.byte \in Bytes
  PROVE  \/ DecodeByte(d, element) = Thrown
         \/ /\ d.at = "crc" /\ element.crc = d.covered
            /\ DecodeByte(d, element) = [d EXCEPT !.at = "end", !.escaped = FALSE]
         \/ /\ Within(DecodeByte(d, element))
            /\ d.at = "crc" => /\ DecodeByte(d, element).at = "crc"
                               /\ DecodeByte(d, element).escaped
<1>1. d.at # "end" /\ d.at # "marker" /\ d.at \in Fields
  BY DEF Within, Fields
<1>2. CASE ~d.escaped /\ element.byte = Escape
  <2>1. CASE d.at = "crc"
    BY <1>2, <2>1, TakesEscape
  <2>2. CASE d.at # "crc"
    BY <1>2, <2>2, TakesEscape
  <2> QED
    BY <2>1, <2>2
<1>3. CASE ~d.escaped /\ element.byte = Flag
  BY <1>1, <1>3, DecodeByteIs
<1>4. CASE d.escaped /\ element.byte \notin {Escape, Flag}
  BY <1>1, <1>4, DecodeByteIs
<1>5. CASE d.escaped <=> element.byte \in {Escape, Flag}
  <2>1. CASE d.at = "crc"
    <3>1. DecodeByte(d, element) = CheckCrc(d, element)
      BY <1>1, <1>5, <2>1, DecodeByteIs
    <3> QED
      BY <2>1, <3>1 DEF CheckCrc
  <2>2. CASE d.at # "crc"
    BY <1>5, <2>2, TakesByte
  <2> QED
    BY <2>1, <2>2
<1> QED
  BY <1>2, <1>3, <1>4, <1>5

\* What is left of the bytes of a message after those a decoder has read.
LEMMA WhatIsLeft ==
  ASSUME NEW m, Known(m), NEW d \in Decoders, d.at \in Fields,
         NEW raw \in Seq(Bytes), Parse(d, raw), NEW z \in Seq(Bytes),
         Covered(m) = d.covered \o z
  PROVE  \E u \in Seq(Bytes) :
           /\ Raw(m) = raw \o u
           /\ ~(d.escaped /\ d.at # "crc") => z = Escaped(u)
           /\ d.escaped /\ d.at # "crc" =>
                u # <<>> /\ u[1] \in {Escape, Flag} /\ z # <<>> /\ z[1] = u[1]
<1> DEFINE e == Escaped(raw)
           R == Raw(m)
<1>1. e \in Seq(Bytes) /\ R \in Seq(Bytes) /\ Covered(m) = Escaped(R)
  BY EscapedType, RawIs, CoveredIs
<1> HIDE DEF R
<1>2. CASE ~(d.escaped /\ d.at # "crc")
  <2>1. d.covered = e
    <3>1. d.covered = e \o <<>>
      BY <1>2 DEF Parse
    <3> HIDE DEF e
    <3> QED
      BY <1>1, <3>1, ConcatEmptySeq
  <2>2. \E u \in Seq(Bytes) : R = raw \o u /\ z = Escaped(u)
    <3>1. Escaped(raw) \o z = Escaped(R)
      BY <1>1, <2>1
    <3> QED
      BY <1>1, <3>1, EscapedBegins
  <2> QED
    BY <1>2, <2>2 DEF R
<1>3. CASE d.escaped /\ d.at # "crc"
  <2> DEFINE x == <<Escape>>
             y == x \o z
  <2>1. x \in Seq(Bytes) /\ Len(x) = 1 /\ x[1] = Escape
    BY ByteAssumption DEF Bytes
  <2>2. d.covered = e \o x
    BY <1>3 DEF Parse
  <2> HIDE DEF x
  <2>3. y \in Seq(Bytes) /\ y[1] = Escape /\ y # <<>> /\ Len(y) = 1 + Len(z)
    <3>1. Len(y) = 1 + Len(z) /\ y \in Seq(Bytes)
      BY <2>1, ConcatProperties
    <3>2. 1 \in 1 .. Len(x)
      BY <2>1
    <3>3. y[1] = x[1]
      BY <2>1, <3>2, Joined
    <3>4. Len(z) \in Nat
      OBVIOUS
    <3>5. y # <<>>
      <4> HIDE DEF y
      <4> QED
        BY <3>1, <3>4
    <3> QED
      BY <2>1, <3>1, <3>3, <3>5
  <2>4. e \o y = Escaped(R)
    <3>1. (e \o x) \o z = e \o (x \o z)
      BY <1>1, <2>1, ConcatAssociative
    <3> QED
      BY <1>1, <2>2, <3>1
  <2> HIDE DEF y
  <2>5. PICK u \in Seq(Bytes) : R = raw \o u /\ y = Escaped(u)
    BY <1>1, <2>3, <2>4, EscapedBegins
  <2>6. u # <<>>
    <3>1. SUFFICES ASSUME u = <<>>
                   PROVE  FALSE
      OBVIOUS
    <3>2. Escaped(u) = <<>>
      BY <3>1, EscapedType
    <3> QED
      BY <2>3, <2>5, <3>2
  <2> DEFINE b == u[1]
             t == Tail(u)
  <2>7. b \in Bytes /\ t \in Seq(Bytes) /\ u = <<b>> \o t
    BY <2>6, JoinedEnds
  <2> HIDE DEF b, t
  <2>8. y = Word(b) \o Escaped(t)
    <3>1. Escaped(<<b>>) = Word(b)
      BY <2>7, EscapedOfOne
    <3>2. <<b>> \in Seq(Bytes)
      BY <2>7
    <3> QED
      BY <2>5, <2>7, <3>1, <3>2, EscapedTogether
  <2> DEFINE v == Word(b)
  <2>9. /\ v \in Seq(Bytes) /\ Len(v) \in 1 .. 2
        /\ b \in {Escape, Flag} => Len(v) = 2 /\ v[1] = Escape /\ v[2] = b
        /\ b \notin {Escape, Flag} => Len(v) = 1 /\ v[1] = b
    BY <2>7, WordType
  <2>10. Escaped(t) \in Seq(Bytes)
    BY <2>7, EscapedType
  <2> HIDE DEF v
  <2>11. y[1] = v[1] /\ Len(y) = Len(v) + Len(Escaped(t)) /\ Len(Escaped(t)) \in Nat
         /\ \A i \in 1 .. Len(v) : y[i] = v[i]
    <3>1. 1 \in 1 .. Len(v)
      BY <2>9
    <3> QED
      BY <2>8, <2>9, <2>10, <3>1, Joined DEF v
  <2>12. b \in {Escape, Flag}
    BY <2>3, <2>9, <2>11
  <2>13. y[2] = b /\ Len(z) >= 1
    <3>1. Len(v) = 2 /\ v[2] = b /\ 2 \in 1 .. Len(v)
      BY <2>9, <2>12
    <3>2. y[2] = b
      BY <2>11, <3>1
    <3>3. Len(z) \in Nat
      OBVIOUS
    <3>4. Len(z) >= 1
      BY <2>3, <2>11, <3>1, <3>3
    <3> QED
      BY <3>2, <3>4
  <2>14. z # <<>> /\ z[1] = b
    <3>1. z # <<>>
      BY <2>13
    <3>2. 1 \in 1 .. Len(z) /\ Len(x) + 1 = 2
      BY <2>1, <2>13
    <3>3. (x \o z)[Len(x) + 1] = z[1]
      <4> DEFINE k == Len(x)
                 l == Len(z)
      <4>1. \A i \in 1 .. k + l : (x \o z)[i] = IF i <= k THEN x[i] ELSE z[i - k]
        BY <2>1, ConcatProperties
      <4>2. k = 1 /\ l \in Nat /\ l >= 1
        BY <2>1, <2>13
      <4> HIDE DEF k, l
      <4>3. k + 1 \in 1 .. k + l /\ ~(k + 1 <= k) /\ (k + 1) - k = 1
        BY <4>2
      <4>4. (x \o z)[k + 1] = z[1]
        BY <4>1, <4>3
      <4> QED
        BY <4>4 DEF k
    <3> QED
      BY <2>13, <3>1, <3>2, <3>3 DEF y
  <2> QED
    BY <1>3, <2>5, <2>6, <2>12, <2>14 DEF R, b
<1> QED
  BY <1>2, <1>3

-----------------------------------------------------------------------------
(* The bytes of a frame. *)

Elements == [byte : Bytes, frame : Nat, place : Nat, crc : Seq(Bytes)]

\* Nothing is escaped as nothing.
LEMMA EscapedNothing == <<>> \in Seq(Bytes) /\ Escaped(<<>>) = <<>>
<1>1. <<>> \in Seq(Bytes)
  OBVIOUS
<1> QED
  BY <1>1, EscapedType

\* The checksum of every message covers something.
LEMMA CoveredLength ==
  ASSUME NEW m, Known(m)
  PROVE  /\ Covered(m) \in Seq(Bytes) /\ Len(Covered(m)) \in Nat \ {0}
         /\ Covered(m) # <<>>
<1>1. Covered(m) = Escaped(Raw(m)) /\ Covered(m) \in Seq(Bytes)
  BY CoveredIs
<1>2. Raw(m) \in Seq(Bytes) /\ Len(Raw(m)) # 0
  <2>1. /\ Raw(m) \in Seq(Bytes) /\ Len(Raw(m)) = SequenceLength + 1 + Len(Rest(m))
        /\ Rest(m) \in Seq(Bytes)
    BY RawIs, RestIs
  <2>2. Len(Rest(m)) \in Nat /\ SequenceLength \in Nat
    BY <2>1, ByteAssumption
  <2> QED
    BY <2>1, <2>2
<1>3. Covered(m) # <<>>
  <2>1. SUFFICES ASSUME Covered(m) = <<>>
                 PROVE  FALSE
    OBVIOUS
  <2>2. <<>> \in Seq(Bytes) /\ Escaped(<<>>) = <<>>
    BY EscapedNothing
  <2>3. Raw(m) = <<>>
    BY <1>1, <1>2, <2>1, <2>2, EscapedOnce
  <2> QED
    BY <1>2, <2>3
<1> QED
  BY <1>1, <1>3

\* The elements of a frame: the flag, what the checksum covers, the checksum,
\* the flag and the end marker.
LEMMA EncodeIs ==
  ASSUME NEW m, Known(m), NEW k \in Nat
  PROVE  LET n == Len(Covered(m))
             e == Encode(m, k)
         IN /\ e \in Seq(Elements) /\ Len(e) = n + 4
            /\ \A p \in 1 .. n + 4 :
                 /\ e[p].frame = k /\ e[p].place = p
                 /\ e[p].crc = IF p = n + 2 THEN Covered(m) ELSE <<>>
                 /\ p \in 2 .. n + 1 => e[p].byte = Covered(m)[p - 1]
            /\ e[1].byte = Flag /\ e[n + 2].byte \in 0 .. 6
            /\ e[n + 3].byte = Flag /\ e[n + 4].byte = EndMarker
<1> DEFINE s == Covered(m)
           n == Len(s)
           sum == FoldLeft(+, 0, s)
           c == sum % 7
           e == Encode(m, k)
           x == <<Flag>>
           y == <<c, Flag, EndMarker>>
           b == x \o s \o y
<1>1. s \in Seq(Bytes) /\ n \in Nat
  BY CoveredLength
<1>2. c \in 0 .. 6
  <2>1. s \in Seq(Nat)
    <3> HIDE DEF s
    <3> QED
      BY <1>1, ByteAssumption DEF Bytes
  <2>2. sum \in Nat
    BY <2>1, SumIsNatural
  <2> HIDE DEF sum
  <2> QED
    BY <2>2
<1>3. /\ 7 <= ByteModulus /\ ByteModulus \in Nat
      /\ Flag \in Bytes /\ Escape \in Bytes /\ EndMarker \in Bytes
  BY ByteAssumption DEF Bytes
<1>4. e = [i \in DOMAIN b |->
             [byte |-> b[i], frame |-> k, place |-> i,
              crc |-> IF i = n + 2 THEN s ELSE <<>>]]
  BY DEF Encode
<1> HIDE DEF e, c, s
<1>5. c \in Bytes
  BY <1>2, <1>3 DEF Bytes
<1>6. x \in Seq(Bytes) /\ Len(x) = 1 /\ x[1] = Flag
  BY <1>3
<1>7. y \in Seq(Bytes) /\ Len(y) = 3 /\ y[1] = c /\ y[2] = Flag /\ y[3] = EndMarker
  BY <1>3, <1>5
<1> HIDE DEF x, y, n
<1> DEFINE a == x \o s
<1>8. /\ a \in Seq(Bytes) /\ Len(a) = 1 + n
      /\ \A i \in 1 .. 1 + n : a[i] = IF i <= 1 THEN x[i] ELSE s[i - 1]
  BY <1>1, <1>6, ConcatProperties DEF n
<1>9. b = a \o y
  OBVIOUS
<1> HIDE DEF a, b
<1>10. /\ b \in Seq(Bytes) /\ Len(b) = (1 + n) + 3
       /\ \A i \in 1 .. (1 + n) + 3 : b[i] = IF i <= 1 + n THEN a[i] ELSE y[i - (1 + n)]
  <2> DEFINE la == Len(a)
             ly == Len(y)
  <2>1. /\ a \o y \in Seq(Bytes) /\ Len(a \o y) = la + ly
        /\ \A i \in 1 .. la + ly : (a \o y)[i] = IF i <= la THEN a[i] ELSE y[i - la]
    BY <1>7, <1>8, ConcatProperties
  <2>2. la = 1 + n /\ ly = 3
    BY <1>7, <1>8
  <2> HIDE DEF la, ly
  <2> QED
    BY <1>9, <2>1, <2>2
<1>11. DOMAIN b = 1 .. n + 4
  <2>1. DOMAIN b = 1 .. Len(b)
    BY <1>10
  <2> QED
    BY <1>1, <1>10, <2>1
<1>12. ASSUME NEW p \in 1 .. n + 4
       PROVE  /\ b[p] \in Bytes
              /\ e[p] = [byte |-> b[p], frame |-> k, place |-> p,
                         crc |-> IF p = n + 2 THEN s ELSE <<>>]
  <2>1. b[p] \in Bytes
    <3>1. p \in 1 .. Len(b)
      BY <1>1, <1>10
    <3> QED
      BY <1>10, <3>1
  <2> QED
    BY <1>4, <1>11, <2>1
<1>13. ASSUME NEW p \in 1 .. n + 4
       PROVE  /\ e[p] \in Elements
              /\ e[p].frame = k /\ e[p].place = p
              /\ e[p].crc = IF p = n + 2 THEN s ELSE <<>>
              /\ e[p].byte = b[p]
  <2> DEFINE q == e[p]
             v == b[p]
             w == IF p = n + 2 THEN s ELSE <<>>
  <2>1. p \in Nat /\ <<>> \in Seq(Bytes)
    OBVIOUS
  <2>2. w \in Seq(Bytes)
    BY <1>1, <2>1
  <2>3. q = [byte |-> v, frame |-> k, place |-> p, crc |-> w] /\ v \in Bytes
    BY <1>12
  <2> HIDE DEF q, v, w
  <2>4. /\ q \in Elements
        /\ q.frame = k /\ q.place = p /\ q.crc = w /\ q.byte = v
    BY <2>1, <2>2, <2>3 DEF Elements
  <2> QED
    BY <2>4 DEF q, v, w
<1>14. e \in Seq(Elements) /\ Len(e) = n + 4
  <2>1. e = [p \in 1 .. n + 4 |-> e[p]]
    BY <1>4, <1>11
  <2> DEFINE j == n + 4
  <2>2. j \in Nat
    BY <1>1
  <2>3. e = [p \in 1 .. j |-> e[p]] /\ \A p \in 1 .. j : e[p] \in Elements
    BY <1>13, <2>1, Zenon DEF j
  <2> HIDE DEF j, e, Elements
  <2>4. e \in [1 .. j -> Elements]
    BY <2>3, Zenon
  <2>5. e \in Seq(Elements) /\ Len(e) = j
    BY <2>2, <2>4
  <2> QED
    BY <2>5 DEF j
<1>15. ASSUME NEW p \in 2 .. n + 1
       PROVE  b[p] = s[p - 1]
  <2>1. p \in 1 .. (1 + n) + 3 /\ p <= 1 + n /\ p \in 1 .. 1 + n /\ ~(p <= 1)
    BY <1>1
  <2> QED
    BY <1>8, <1>10, <2>1
<1>16. b[1] = Flag
  <2>1. 1 \in 1 .. (1 + n) + 3 /\ 1 <= 1 + n /\ 1 \in 1 .. 1 + n
    BY <1>1
  <2>2. b[1] = a[1]
    BY <1>10, <2>1
  <2>3. a[1] = x[1]
    BY <1>8, <2>1
  <2> QED
    BY <1>6, <2>2, <2>3
<1>17. b[n + 2] = c /\ b[n + 3] = Flag /\ b[n + 4] = EndMarker
  <2>1. /\ n + 2 \in 1 .. (1 + n) + 3 /\ ~(n + 2 <= 1 + n) /\ (n + 2) - (1 + n) = 1
        /\ n + 3 \in 1 .. (1 + n) + 3 /\ ~(n + 3 <= 1 + n) /\ (n + 3) - (1 + n) = 2
        /\ n + 4 \in 1 .. (1 + n) + 3 /\ ~(n + 4 <= 1 + n) /\ (n + 4) - (1 + n) = 3
    BY <1>1
  <2> QED
    BY <1>7, <1>10, <2>1
<1>18. \A p \in 1 .. n + 4 :
         /\ e[p].frame = k /\ e[p].place = p
         /\ e[p].crc = IF p = n + 2 THEN s ELSE <<>>
         /\ p \in 2 .. n + 1 => e[p].byte = s[p - 1]
  BY <1>13, <1>15
<1>19. /\ e[1].byte = Flag /\ e[n + 2].byte \in 0 .. 6
       /\ e[n + 3].byte = Flag /\ e[n + 4].byte = EndMarker
  <2>1. 1 \in 1 .. n + 4 /\ n + 2 \in 1 .. n + 4 /\ n + 3 \in 1 .. n + 4
        /\ n + 4 \in 1 .. n + 4
    BY <1>1
  <2> QED
    BY <1>2, <1>13, <1>16, <1>17, <2>1
<1> QED
  BY <1>14, <1>18, <1>19 DEF e, s, n

\* The frame of the last byte is of no account to what has been read.
LEMMA WithinFrame ==
  ASSUME NEW d, Within(d), NEW f \in Nat
  PROVE  Within([d EXCEPT !.frame = f])
<1> DEFINE r == [d EXCEPT !.frame = f]
<1>1. PICK raw \in Seq(Bytes) : Parse(d, raw)
  BY DEF Within, Parsed
<1>2. d \in Decoders /\ d.at \in Fields
  BY DEF Within
<1>3. /\ r \in Decoders /\ r.at = d.at /\ r.left = d.left /\ r.value = d.value
      /\ r.escaped = d.escaped /\ r.type = d.type /\ r.sequence = d.sequence
      /\ r.body = d.body /\ r.covered = d.covered
  BY <1>2 DEF Decoders
<1> HIDE DEF r
<1>4. Reading(r, raw)
  <2>1. Reading(d, raw)
    BY <1>1 DEF Parse
  <2>2. HasHead(d, raw) <=> HasHead(r, raw)
    BY <1>3 DEF HasHead
  <2> QED
    BY <1>3, <2>1, <2>2
    DEF Reading, AtType, AtSequence, AtAcknowledged, AtLength, HasPayload, AtCrc,
        HasAcknowledged, HasNoBody
<1>5. Parse(r, raw)
  BY <1>1, <1>3, <1>4 DEF Parse
<1> QED
  BY <1>2, <1>3, <1>5 DEF Within, Parsed, r

\* At the checksum something has been covered.
LEMMA CoversSome ==
  ASSUME NEW d, Within(d), d.at = "crc"
  PROVE  d.covered # <<>>
<1>1. PICK raw \in Seq(Bytes) : Parse(d, raw)
  BY DEF Within, Parsed
<1>2. Len(raw) # 0
  <2>1. HasHead(d, raw)
    BY <1>1 DEF Parse, Reading, AtCrc, HasAcknowledged, HasPayload, HasNoBody
  <2>2. Len(raw) > SequenceLength /\ SequenceLength \in Nat /\ Len(raw) \in Nat
    BY <2>1, ByteAssumption DEF HasHead
  <2> QED
    BY <2>2
<1>3. d.covered = Escaped(raw)
  <2>1. d.covered = Escaped(raw) \o <<>> /\ Escaped(raw) \in Seq(Bytes)
    BY <1>1, EscapedType DEF Parse
  <2> QED
    BY <2>1, ConcatEmptySeq
<1>4. SUFFICES ASSUME d.covered = <<>>
               PROVE  FALSE
  OBVIOUS
<1>5. raw = <<>>
  <2>1. Escaped(<<>>) = <<>> /\ <<>> \in Seq(Bytes)
    BY EscapedNothing
  <2> QED
    BY <1>3, <1>4, <2>1, EscapedOnce
<1> QED
  BY <1>2, <1>5

\* A decoder that has read what the checksum of a message covers has decoded it.
LEMMA DecodeWhole ==
  ASSUME NEW m, Known(m), NEW d, Within(d), d.covered = Covered(m)
  PROVE  /\ d.at = "crc"
         /\ d.type = m.type /\ d.sequence = m.sequence /\ d.body = m.body
<1>1. d \in Decoders /\ d.at \in Fields
  BY DEF Within
<1>2. PICK raw \in Seq(Bytes) : Parse(d, raw)
  BY DEF Within, Parsed
<1>3. <<>> \in Seq(Bytes) /\ Covered(m) = d.covered \o <<>>
  <2>1. Covered(m) \in Seq(Bytes)
    BY CoveredIs
  <2> QED
    BY <2>1, ConcatEmptySeq
<1>4. PICK u \in Seq(Bytes) :
        /\ Raw(m) = raw \o u
        /\ ~(d.escaped /\ d.at # "crc") => <<>> = Escaped(u)
        /\ ~(d.escaped /\ d.at # "crc")
  <2> DEFINE z == <<>>
  <2>1. z \in Seq(Bytes) /\ Covered(m) = d.covered \o z
    BY <1>3
  <2>2. z = <<>>
    OBVIOUS
  <2> HIDE DEF z
  <2>3. \E u \in Seq(Bytes) :
           /\ Raw(m) = raw \o u
           /\ ~(d.escaped /\ d.at # "crc") => z = Escaped(u)
           /\ d.escaped /\ d.at # "crc" =>
                u # <<>> /\ u[1] \in {Escape, Flag} /\ z # <<>> /\ z[1] = u[1]
    BY <1>1, <1>2, <2>1, WhatIsLeft
  <2> QED
    BY <2>2, <2>3
<1>5. u = <<>>
  <2>1. Escaped(<<>>) = <<>> /\ <<>> \in Seq(Bytes)
    BY EscapedNothing
  <2> QED
    BY <1>4, <2>1, EscapedOnce
<1>6. Reading(d, raw)
  BY <1>2 DEF Parse
<1> QED
  BY <1>1, <1>4, <1>5, <1>6, ReadSoFar

\* The next byte of a message is taken as it was meant.
LEMMA DecodeExact ==
  ASSUME NEW m, Known(m), NEW d, Within(d), ~(d.at = "crc" /\ d.escaped),
         NEW z \in Seq(Bytes), z # <<>>, Covered(m) = d.covered \o z,
         NEW element, element.byte = z[1]
  PROVE  /\ Within(DecodeByte(d, element))
         /\ ~(DecodeByte(d, element).at = "crc" /\ DecodeByte(d, element).escaped)
         /\ DecodeByte(d, element).covered = Append(d.covered, z[1])
<1>1. d \in Decoders /\ d.at \in Fields
  BY DEF Within
<1>2. PICK raw \in Seq(Bytes) : Parse(d, raw)
  BY DEF Within, Parsed
<1>3. PICK u \in Seq(Bytes) :
           /\ Raw(m) = raw \o u
           /\ ~(d.escaped /\ d.at # "crc") => z = Escaped(u)
           /\ d.escaped /\ d.at # "crc" =>
                u # <<>> /\ u[1] \in {Escape, Flag} /\ z # <<>> /\ z[1] = u[1]
  BY <1>1, <1>2, WhatIsLeft
<1>4. Reading(d, raw)
  BY <1>2 DEF Parse
<1>5. u # <<>>
  <2>1. CASE d.escaped /\ d.at # "crc"
    BY <1>3, <2>1
  <2>2. CASE ~(d.escaped /\ d.at # "crc")
    <3>1. z = Escaped(u) /\ Escaped(<<>>) = <<>>
      BY <1>3, <2>2, EscapedType
    <3> QED
      BY <3>1
  <2> QED
    BY <2>1, <2>2
<1>6. d.at # "crc" /\ (d.at = "type" => u[1] = m.type)
  BY <1>1, <1>3, <1>4, <1>5, ReadSoFar
<1> DEFINE b == u[1]
<1>7. z[1] \in Bytes /\ u[1] \in Bytes
  <2>1. z # <<>> /\ u # <<>>
    BY <1>5
  <2> QED
    BY <2>1, JoinedEnds
<1>8. CASE d.escaped
  <2>1. z[1] = u[1] /\ u[1] \in {Escape, Flag}
    BY <1>3, <1>6, <1>8
  <2>2. ~(d.at = "type" /\ z[1] > HIGHEST_ELEMENT)
    <3>1. CASE d.at = "type"
      <4>1. u[1] \in {5, ACKNOWLEDGE, PAYLOAD}
        BY <1>6, <3>1, KnownIs
      <4> QED
        BY <2>1, <4>1 DEF ACKNOWLEDGE, PAYLOAD, HIGHEST_ELEMENT
    <3>2. CASE d.at # "type"
      BY <3>2
    <3> QED
      BY <3>1, <3>2
  <2>3. d.escaped <=> element.byte \in {Escape, Flag}
    BY <1>8, <2>1
  <2> QED
    BY <1>6, <1>7, <2>2, <2>3, TakesByte
<1>9. CASE ~d.escaped
  <2> DEFINE v == Word(u[1])
             t == Tail(u)
  <2>1. t \in Seq(Bytes) /\ u = <<u[1]>> \o t /\ <<u[1]>> \in Seq(Bytes)
    <3>1. <<u[1]>> \in Seq(Bytes)
      BY <1>7
    <3> QED
      BY <1>5, <3>1, JoinedEnds
  <2>2. /\ v \in Seq(Bytes) /\ Len(v) \in 1 .. 2
        /\ u[1] \in {Escape, Flag} => v[1] = Escape
        /\ u[1] \notin {Escape, Flag} => v[1] = u[1]
    BY <1>7, WordType
  <2>3. z = v \o Escaped(t)
    <3>1. Escaped(<<u[1]>>) = v
      BY <1>7, EscapedOfOne
    <3>2. z = Escaped(u)
      BY <1>3, <1>9
    <3> HIDE DEF v, t
    <3>3. Escaped(<<u[1]>> \o t) = Escaped(<<u[1]>>) \o Escaped(t)
      BY <2>1, EscapedTogether
    <3> QED
      BY <2>1, <3>1, <3>2, <3>3
  <2>4. z[1] = v[1]
    <3>1. Escaped(t) \in Seq(Bytes)
      BY <2>1, EscapedType
    <3> HIDE DEF v, t
    <3>2. 1 \in 1 .. Len(v)
      BY <2>2
    <3> QED
      BY <2>2, <2>3, <3>1, <3>2, Joined
  <2> HIDE DEF v, t
  <2>5. CASE u[1] \in {Escape, Flag}
    <3>1. element.byte = Escape /\ z[1] = Escape
      BY <2>2, <2>4, <2>5
    <3> QED
      BY <1>6, <1>9, <3>1, TakesEscape
  <2>6. CASE u[1] \notin {Escape, Flag}
    <3>1. element.byte = u[1] /\ z[1] = u[1]
      BY <2>2, <2>4, <2>6
    <3>2. ~(d.at = "type" /\ z[1] > HIGHEST_ELEMENT)
      <4>1. CASE d.at = "type"
        <5>1. u[1] \in {5, ACKNOWLEDGE, PAYLOAD}
          BY <1>6, <4>1, KnownIs
        <5> QED
          BY <3>1, <5>1 DEF ACKNOWLEDGE, PAYLOAD, HIGHEST_ELEMENT
      <4>2. CASE d.at # "type"
        BY <4>2
      <4> QED
        BY <4>1, <4>2
    <3>3. d.escaped <=> element.byte \in {Escape, Flag}
      BY <1>9, <2>6, <3>1
    <3> QED
      BY <1>6, <1>7, <3>1, <3>2, <3>3, TakesByte
  <2> QED
    BY <2>5, <2>6
<1> QED
  BY <1>8, <1>9

-----------------------------------------------------------------------------
(* One byte for ReceiveMessage. *)

After(d, e) ==
  IF d.at = "skip" THEN IF e.byte = Flag THEN Start ELSE Skip
  ELSE DecodeByte(d, e)

Then(d, e) ==
  IF After(d, e).at \in {"invalid", "message"} THEN Skip
  ELSE [After(d, e) EXCEPT !.frame = e.frame]

\* What a decoder can be.
Valid(d) ==
  /\ d \in Decoders
  /\ Within(d) \/ (d.at \in {"skip", "end", "marker"} /\ ~d.escaped)

\* The message has been decoded.
Has(d, m) == d.type = m.type /\ d.sequence = m.sequence /\ d.body = m.body

\* Between frames, and after an exception.
LEMMA SkipIs ==
  /\ Skip \in Decoders /\ Skip.at = "skip" /\ ~Skip.escaped
  /\ Thrown.at = "invalid" /\ Valid(Skip)
<1>1. 0 \in Int /\ 0 \in Nat /\ 1 \in Nat /\ FALSE \in BOOLEAN
      /\ <<>> \in Seq(Nat) /\ <<>> \in Seq(Bytes)
  OBVIOUS
<1>2. Skip \in Decoders /\ Skip.at = "skip" /\ ~Skip.escaped /\ Thrown.at = "invalid"
  BY <1>1 DEF Skip, Thrown, Decoders
<1> QED
  BY <1>2 DEF Valid

\* After the flag that starts a frame.
LEMMA StartIs ==
  /\ Within(Start) /\ Start.at = "type" /\ ~Start.escaped /\ Start.covered = <<>>
<1>1. 0 \in Int /\ 1 \in Int /\ 0 \in Nat /\ 1 \in Nat /\ FALSE \in BOOLEAN
      /\ <<>> \in Seq(Nat) /\ <<>> \in Seq(Bytes)
  OBVIOUS
<1>2. /\ Start \in Decoders /\ Start.at = "type" /\ ~Start.escaped
      /\ Start.covered = <<>> /\ Start.left = 1 /\ Start.value = 0
      /\ Start.body = <<>>
  BY <1>1 DEF Start, Skip, Decoders, Fields
<1>3. Reading(Start, <<>>)
  BY <1>2 DEF Reading, AtType
<1>4. Start.covered = Escaped(<<>>) \o <<>>
  <2>1. <<>> \o <<>> = <<>>
    BY <1>1, ConcatEmptySeq
  <2> QED
    BY <1>2, <2>1, EscapedNothing
<1>5. Parse(Start, <<>>)
  BY <1>2, <1>3, <1>4 DEF Parse
<1>6. Parsed(Start)
  BY <1>1, <1>5 DEF Parsed
<1> QED
  BY <1>2, <1>6 DEF Within, Fields

\* What a byte does, whatever it is.
LEMMA AfterIs ==
  ASSUME NEW d, Valid(d), NEW e, e.byte \in Bytes
  PROVE  \/ After(d, e) = Thrown
         \/ d.at = "skip" /\ e.byte # Flag /\ After(d, e) = Skip
         \/ d.at = "skip" /\ e.byte = Flag /\ After(d, e) = Start
         \/ Within(d) /\ Within(After(d, e))
         \/ /\ Within(d) /\ d.at = "crc" /\ e.crc = d.covered /\ e.crc # <<>>
            /\ After(d, e) = [d EXCEPT !.at = "end", !.escaped = FALSE]
         \/ /\ d.at = "end" /\ e.byte = Flag
            /\ After(d, e) = [d EXCEPT !.at = "marker"]
         \/ /\ d.at = "marker" /\ e.byte = EndMarker
            /\ After(d, e) = [d EXCEPT !.at = "message"]
<1>1. CASE d.at = "skip"
  BY <1>1 DEF After
<1>2. CASE d.at # "skip" /\ Within(d)
  <2>1. After(d, e) = DecodeByte(d, e)
    BY <1>2 DEF After
  <2>2. \/ DecodeByte(d, e) = Thrown
        \/ /\ d.at = "crc" /\ e.crc = d.covered
           /\ DecodeByte(d, e) = [d EXCEPT !.at = "end", !.escaped = FALSE]
        \/ Within(DecodeByte(d, e))
    BY <1>2, Decodes
  <2>3. d.at = "crc" => d.covered # <<>>
    BY <1>2, CoversSome
  <2> DEFINE r == DecodeByte(d, e)
  <2> HIDE DEF r
  <2> QED
    BY <1>2, <2>1, <2>2, <2>3, Zenon DEF r
<1>3. CASE d.at = "end"
  BY <1>3 DEF After, DecodeByte
<1>4. CASE d.at = "marker"
  BY <1>4 DEF After, DecodeByte
<1> QED
  BY <1>1, <1>2, <1>3, <1>4 DEF Valid

\* What ReceiveMessage keeps of a byte.
LEMMA ThenIs ==
  ASSUME NEW d, Valid(d), NEW e, e.byte \in Bytes, e.frame \in Nat
  PROVE  /\ Valid(Then(d, e))
         /\ After(d, e).at \in {"invalid", "message"} => Then(d, e) = Skip
         /\ After(d, e).at \notin {"invalid", "message"} =>
              /\ Then(d, e).frame = e.frame /\ Then(d, e).at = After(d, e).at
              /\ Then(d, e).escaped = After(d, e).escaped
              /\ Then(d, e).covered = After(d, e).covered
              /\ Then(d, e).type = After(d, e).type
              /\ Then(d, e).sequence = After(d, e).sequence
              /\ Then(d, e).body = After(d, e).body
              /\ Within(After(d, e)) => Within(Then(d, e))
<1> DEFINE a == After(d, e)
           r == Then(d, e)
<1>1. a.at \in {"invalid", "message"} => r = Skip
  BY DEF Then
<1>2. ASSUME a.at \notin {"invalid", "message"}
      PROVE  a \in Decoders /\ (Within(a) \/ (a.at \in {"skip", "end", "marker"} /\ ~a.escaped))
  <2>1. a # Thrown
    BY <1>2, SkipIs
  <2>2. d \in Decoders
    BY DEF Valid
  <2>3. CASE a = Skip
    BY <2>3, SkipIs
  <2>4. CASE a = Start
    BY <2>4, StartIs DEF Within
  <2>5. CASE Within(a)
    BY <2>5 DEF Within
  <2>6. CASE a = [d EXCEPT !.at = "end", !.escaped = FALSE]
    BY <2>2, <2>6 DEF Decoders
  <2>7. CASE a = [d EXCEPT !.at = "marker"] /\ d.at = "end"
    <3>1. ~d.escaped
      BY <2>7 DEF Valid, Within, Fields
    <3>2. a \in Decoders /\ a.at = "marker" /\ a.escaped = d.escaped
      BY <2>2, <2>7 DEF Decoders
    <3> QED
      BY <3>1, <3>2
  <2>8. CASE a = [d EXCEPT !.at = "message"]
    <3>1. a.at = "message"
      BY <2>2, <2>8 DEF Decoders
    <3> QED
      BY <1>2, <3>1
  <2> HIDE DEF a
  <2> QED
    BY <2>1, <2>3, <2>4, <2>5, <2>6, <2>7, <2>8, AfterIs DEF a
<1>3. ASSUME a.at \notin {"invalid", "message"}
      PROVE  /\ r.frame = e.frame /\ r.at = a.at /\ r.escaped = a.escaped
             /\ r.covered = a.covered /\ r.type = a.type
             /\ r.sequence = a.sequence /\ r.body = a.body
             /\ r \in Decoders
             /\ Within(a) => Within(r)
  <2>1. r = [a EXCEPT !.frame = e.frame]
    BY <1>3 DEF Then
  <2>2. a \in Decoders
    BY <1>2, <1>3
  <2>3. Within(a) => Within(r)
    BY <2>1, WithinFrame
  <2> HIDE DEF a, r
  <2>4. /\ r.frame = e.frame /\ r.at = a.at /\ r.escaped = a.escaped
        /\ r.covered = a.covered /\ r.type = a.type
        /\ r.sequence = a.sequence /\ r.body = a.body
        /\ r \in Decoders
    BY <2>1, <2>2 DEF Decoders
  <2> QED
    BY <2>3, <2>4
<1>4. Valid(r)
  <2>1. CASE a.at \in {"invalid", "message"}
    BY <1>1, <2>1, SkipIs
  <2>2. CASE a.at \notin {"invalid", "message"}
    BY <1>2, <1>3, <2>2 DEF Valid
  <2> QED
    BY <2>1, <2>2
<1> HIDE DEF a, r
<1> QED
  BY <1>1, <1>3, <1>4 DEF a, r

-----------------------------------------------------------------------------
(* A frame that arrives whole, byte by byte. *)

\* The decoder has read the first p elements of the frame as they were sent.
Exact(d, m, p) ==
  LET n == Len(Covered(m))
  IN /\ p \in 1 .. n + 1 =>
          /\ Within(d) /\ ~(d.at = "crc" /\ d.escaped)
          /\ \E z \in Seq(Bytes) : /\ Covered(m) = d.covered \o z
                                   /\ Len(z) = n + 1 - p
     /\ p = n + 2 => d.at = "end" /\ Has(d, m)
     /\ p = n + 3 => d.at = "marker" /\ Has(d, m)

\* The first flag of a frame starts it.
LEMMA ExactStarts ==
  ASSUME NEW m, Known(m), NEW k \in Nat, NEW d, Valid(d), d.at = "skip",
         NEW e, e = Encode(m, k)[1]
  PROVE  After(d, e) = Start /\ Exact(Then(d, e), m, 1)
<1> DEFINE s == Covered(m)
           n == Len(s)
           r == Then(d, e)
<1>1. s \in Seq(Bytes) /\ n \in Nat \ {0}
  BY CoveredLength
<1>2. e.byte = Flag /\ e.frame \in Nat /\ e.byte \in Bytes
  <2>1. 1 \in 1 .. n + 4
    BY <1>1
  <2>2. e.byte = Flag /\ e.frame = k
    BY <2>1, EncodeIs
  <2> QED
    BY <2>2, ByteAssumption DEF Bytes
<1>3. After(d, e) = Start
  BY <1>2 DEF After
<1>4. Within(r) /\ r.at = "type" /\ r.covered = <<>>
  <2>1. Start.at \notin {"invalid", "message"}
    BY StartIs
  <2> QED
    BY <1>2, <1>3, <2>1, ThenIs, StartIs
<1>5. s = <<>> \o s /\ Len(s) = n + 1 - 1
  BY <1>1, ConcatEmptySeq
<1> HIDE DEF s, n, r
<1>6. /\ \E z \in Seq(Bytes) : s = r.covered \o z /\ Len(z) = n + 1 - 1
      /\ 1 # n + 2 /\ 1 # n + 3
  BY <1>1, <1>4, <1>5
<1>7. Exact(r, m, 1)
  BY <1>4, <1>6 DEF Exact, s, n
<1> QED
  BY <1>3, <1>7 DEF r

\* Every further element of a frame is taken as it was meant.
LEMMA ExactStep ==
  ASSUME NEW m, Known(m), NEW k \in Nat, NEW d, Valid(d),
         NEW p \in 1 .. Len(Covered(m)) + 2, Exact(d, m, p),
         NEW e, e = Encode(m, k)[p + 1]
  PROVE  After(d, e).at \notin {"invalid", "message"} /\ Exact(Then(d, e), m, p + 1)
<1> DEFINE s == Covered(m)
           n == Len(s)
           r == Then(d, e)
           a == After(d, e)
<1>1. s \in Seq(Bytes) /\ n \in Nat \ {0}
  BY CoveredLength
<1>2. /\ e.frame = k /\ e.place = p + 1
      /\ e.crc = IF p + 1 = n + 2 THEN s ELSE <<>>
      /\ p <= n => e.byte = s[p]
      /\ p = n + 1 => e.byte \in 0 .. 6
      /\ p = n + 2 => e.byte = Flag
  <2>1. /\ p + 1 \in 1 .. n + 4 /\ (p + 1) - 1 = p
        /\ p <= n => p + 1 \in 2 .. n + 1
        /\ p = n + 1 => p + 1 = n + 2
        /\ p = n + 2 => p + 1 = n + 3
    BY <1>1
  <2> HIDE DEF n, s
  <2>2. /\ \A i \in 1 .. n + 4 :
                 /\ Encode(m, k)[i].frame = k /\ Encode(m, k)[i].place = i
                 /\ Encode(m, k)[i].crc = IF i = n + 2 THEN s ELSE <<>>
                 /\ i \in 2 .. n + 1 => Encode(m, k)[i].byte = s[i - 1]
        /\ Encode(m, k)[n + 2].byte \in 0 .. 6
        /\ Encode(m, k)[n + 3].byte = Flag
    BY EncodeIs DEF n, s
  <2> QED
    BY <2>1, <2>2
<1>3. p \in 1 .. n + 2
  OBVIOUS
<1>4. /\ 7 <= ByteModulus /\ ByteModulus \in Nat /\ Flag \in Bytes
      /\ Flag \notin 0 .. 6 /\ Escape \notin 0 .. 6
  BY ByteAssumption DEF Bytes
<1>5. p \in 1 .. n + 1 =>
        /\ Within(d) /\ ~(d.at = "crc" /\ d.escaped)
        /\ \E z \in Seq(Bytes) : s = d.covered \o z /\ Len(z) = n + 1 - p
  BY DEF Exact
<1>6. p = n + 2 => d.at = "end" /\ Has(d, m)
  BY DEF Exact
<1>7. d \in Decoders
  BY DEF Valid
<1> HIDE DEF s, n, r, a
<1>8. CASE p <= n
  <2>1. p \in 1 .. n + 1
    BY <1>1, <1>3, <1>8
  <2>2. PICK z \in Seq(Bytes) : s = d.covered \o z /\ Len(z) = n + 1 - p
    BY <1>5, <2>1
  <2>3. z # <<>> /\ d.covered \in Seq(Bytes)
    <3>1. Len(z) # 0
      BY <1>1, <1>3, <1>8, <2>2
    <3> QED
      BY <1>7, <3>1 DEF Decoders
  <2>4. z[1] = s[p] /\ z[1] \in Bytes
    <3> DEFINE l == Len(d.covered)
    <3>1. /\ l \in Nat /\ Len(s) = l + Len(z)
          /\ \A i \in 1 .. l + Len(z) : s[i] = IF i <= l THEN d.covered[i] ELSE z[i - l]
      BY <2>2, <2>3, ConcatProperties
    <3>2. l = p - 1
      BY <1>1, <1>3, <2>2, <3>1 DEF n
    <3> HIDE DEF l
    <3>3. p \in 1 .. l + Len(z) /\ ~(p <= l) /\ p - l = 1
      BY <1>1, <1>3, <1>8, <2>2, <3>2
    <3>4. s[p] = z[1]
      BY <3>1, <3>3
    <3> QED
      BY <2>3, <3>4, JoinedEnds
  <2>5. /\ Within(DecodeByte(d, e))
        /\ ~(DecodeByte(d, e).at = "crc" /\ DecodeByte(d, e).escaped)
        /\ DecodeByte(d, e).covered = Append(d.covered, z[1])
    <3>1. e.byte = z[1]
      BY <1>2, <1>8, <2>4
    <3> QED
      BY <1>5, <2>1, <2>2, <2>3, <3>1, DecodeExact DEF s
  <2>6. a = DecodeByte(d, e)
    <3>1. d.at # "skip"
      BY <1>5, <2>1 DEF Within, Fields
    <3> QED
      BY <3>1 DEF After, a
  <2>7. a.at \notin {"invalid", "message"} /\ Within(a)
    BY <2>5, <2>6 DEF Within, Fields
  <2>8. /\ r.at = a.at /\ r.escaped = a.escaped /\ r.covered = a.covered
        /\ Within(r)
    <3>1. e.byte \in Bytes /\ e.frame \in Nat
      BY <1>2, <1>8, <2>4
    <3> QED
      BY <2>7, <3>1, ThenIs DEF a, r
  <2> DEFINE t == Tail(z)
  <2>9. t \in Seq(Bytes) /\ Len(t) = Len(z) - 1 /\ z = <<z[1]>> \o t
    BY <2>3, JoinedEnds
  <2> HIDE DEF t
  <2>10. s = Append(d.covered, z[1]) \o t
    <3> DEFINE x == <<z[1]>>
    <3>1. Append(d.covered, z[1]) = d.covered \o x /\ x \in Seq(Bytes)
      BY <2>3, <2>4, JoinedOne
    <3>2. (d.covered \o x) \o t = d.covered \o (x \o t)
      <4> DEFINE c == d.covered
      <4>1. c \in Seq(Bytes) /\ x \in Seq(Bytes) /\ t \in Seq(Bytes)
        BY <2>3, <2>9, <3>1
      <4> HIDE DEF x, c
      <4>2. (c \o x) \o t = c \o (x \o t)
        BY <4>1, ConcatAssociative
      <4> QED
        BY <4>2 DEF c
    <3>3. z = x \o t
      BY <2>9
    <3> HIDE DEF x
    <3> QED
      BY <2>2, <3>1, <3>2, <3>3
  <2>11. /\ s = r.covered \o t /\ Len(t) = n + 1 - (p + 1)
         /\ p + 1 # n + 2 /\ p + 1 # n + 3
    <3>1. s = r.covered \o t
      BY <2>5, <2>6, <2>8, <2>10
    <3>2. Len(t) = n + 1 - (p + 1) /\ p + 1 # n + 2 /\ p + 1 # n + 3
      BY <1>1, <1>3, <1>8, <2>2, <2>9
    <3> QED
      BY <3>1, <3>2
  <2>12. ~(r.at = "crc" /\ r.escaped)
    BY <2>5, <2>6, <2>8
  <2>13. Exact(r, m, p + 1)
    BY <2>8, <2>9, <2>11, <2>12 DEF Exact, s, n
  <2> QED
    BY <2>7, <2>13 DEF a, r
<1>9. CASE p = n + 1
  <2>1. p \in 1 .. n + 1
    BY <1>1, <1>3, <1>9
  <2>2. PICK z \in Seq(Bytes) : s = d.covered \o z /\ Len(z) = 0
    <3>1. n + 1 - p = 0
      BY <1>1, <1>9
    <3> QED
      BY <1>5, <2>1, <3>1
  <2>3. d.covered = s
    <3>1. z = <<>> /\ d.covered \in Seq(Bytes)
      BY <1>7, <2>2 DEF Decoders
    <3> QED
      BY <2>2, <3>1, ConcatEmptySeq
  <2>4. d.at = "crc" /\ ~d.escaped /\ Has(d, m)
    <3>1. Within(d) /\ ~(d.at = "crc" /\ d.escaped)
      BY <1>5, <2>1
    <3>2. d.at = "crc" /\ Has(d, m)
      BY <2>3, <3>1, DecodeWhole DEF Has, s
    <3> QED
      BY <3>1, <3>2
  <2>5. e.byte \in 0 .. 6 /\ e.byte \notin {Escape, Flag} /\ e.byte \in Bytes
        /\ e.crc = s /\ p + 1 = n + 2
    <3>1. p + 1 = n + 2
      BY <1>1, <1>9
    <3>2. e.byte \in 0 .. 6 /\ e.crc = s
      BY <1>2, <1>9, <3>1
    <3>3. e.byte \notin {Escape, Flag}
      BY <1>4, <3>2
    <3>4. e.byte \in Bytes
      BY <1>4, <3>2 DEF Bytes
    <3> QED
      BY <3>1, <3>2, <3>3, <3>4
  <2>6. a = [d EXCEPT !.at = "end", !.escaped = FALSE]
    <3>1. a = DecodeByte(d, e)
      BY <2>4 DEF After, a
    <3>2. DecodeByte(d, e) = CheckCrc(d, e)
      BY <2>4, <2>5, DecodeByteIs
    <3> QED
      BY <2>3, <2>5, <3>1, <3>2 DEF CheckCrc
  <2>7. a.at = "end" /\ Has(a, m)
    BY <1>7, <2>4, <2>6 DEF Has, Decoders
  <2>8. r.at = "end" /\ Has(r, m)
    <3>1. e.frame \in Nat /\ a.at \notin {"invalid", "message"}
      BY <1>2, <2>7
    <3> QED
      BY <2>5, <2>7, <3>1, ThenIs DEF a, r, Has
  <2>9. p + 1 \notin 1 .. n + 1 /\ p + 1 # n + 3
    BY <1>1, <2>5
  <2>10. Exact(r, m, p + 1)
    BY <2>8, <2>9 DEF Exact, s, n
  <2> QED
    BY <2>7, <2>10 DEF a, r
<1>10. CASE p = n + 2
  <2>1. d.at = "end" /\ Has(d, m) /\ e.byte = Flag
    BY <1>2, <1>6, <1>10
  <2>2. a = [d EXCEPT !.at = "marker"]
    BY <2>1 DEF After, DecodeByte, a
  <2>3. a.at = "marker" /\ Has(a, m)
    BY <1>7, <2>1, <2>2 DEF Has, Decoders
  <2>4. r.at = "marker" /\ Has(r, m)
    <3>1. e.byte \in Bytes /\ e.frame \in Nat /\ a.at \notin {"invalid", "message"}
      BY <1>2, <1>4, <2>1, <2>3
    <3> QED
      BY <2>3, <3>1, ThenIs DEF a, r, Has
  <2>5. p + 1 \notin 1 .. n + 1 /\ p + 1 # n + 2
    BY <1>1, <1>10
  <2>6. Exact(r, m, p + 1)
    BY <2>4, <2>5 DEF Exact, s, n
  <2> QED
    BY <2>3, <2>6 DEF a, r
<1>11. p <= n \/ p = n + 1 \/ p = n + 2
  BY <1>1, <1>3
<1> QED
  BY <1>8, <1>9, <1>10, <1>11

-----------------------------------------------------------------------------
(* The end of a frame: wherever the decoder is when it comes to the         *)
(* checksum, the flag and the end marker bring it out of the frame.         *)

BeforeFlag(d) == d.at # "marker" /\ (d.escaped => d.at = "crc")

BeforeMarker(d, m, reported) ==
  \/ d.at = "skip" /\ reported
  \/ d.at = "type" /\ ~d.escaped
  \/ d.at = "marker" /\ Has(d, m)

\* The checksum, read as one or as an ordinary byte.
LEMMA ChecksumPassed ==
  ASSUME NEW d, Valid(d), NEW e, e.byte \in 0 .. 6, e.frame \in Nat
  PROVE  BeforeFlag(Then(d, e))
<1> DEFINE a == After(d, e)
           r == Then(d, e)
<1>1. e.byte \in Bytes /\ e.byte \notin {Escape, Flag, EndMarker}
  BY ByteAssumption DEF Bytes
<1>2. Skip.at = "skip" /\ ~Skip.escaped /\ Thrown.at = "invalid"
  BY SkipIs
<1>3. CASE a.at \in {"invalid", "message"}
  BY <1>1, <1>2, <1>3, ThenIs DEF BeforeFlag
<1>4. CASE a.at \notin {"invalid", "message"}
  <2>1. r.at = a.at /\ r.escaped = a.escaped
    BY <1>1, <1>4, ThenIs
  <2>2. a.at # "marker" /\ ~a.escaped
    <3>1. CASE d.at = "skip"
      BY <1>1, <1>2, <3>1 DEF After
    <3>2. CASE Within(d)
      <4>1. d.at \in Fields /\ d.at \notin {"skip", "end", "marker"}
        BY <3>2 DEF Within, Fields
      <4>2. a = DecodeByte(d, e)
        BY <4>1 DEF After
      <4>3. ~d.escaped
        <5>1. SUFFICES ASSUME d.escaped
                       PROVE  FALSE
          OBVIOUS
        <5>2. DecodeByte(d, e) = Thrown
          BY <1>1, <4>1, <5>1, DecodeByteIs
        <5> QED
          BY <1>2, <1>4, <4>2, <5>2
      <4>4. CASE d.at = "crc"
        <5>1. DecodeByte(d, e) = CheckCrc(d, e)
          BY <1>1, <4>1, <4>3, <4>4, DecodeByteIs
        <5>2. d \in Decoders
          BY DEF Valid
        <5> QED
          BY <1>2, <1>4, <4>2, <5>1, <5>2 DEF CheckCrc, Decoders
      <4>5. CASE d.at # "crc"
        <5>1. DecodeByte(d, e) # Thrown
          BY <1>2, <1>4, <4>2
        <5>2. Within(DecodeByte(d, e)) /\ ~DecodeByte(d, e).escaped
          BY <1>1, <3>2, <4>3, <4>5, <5>1, TakesByte
        <5> QED
          BY <4>2, <5>2 DEF Within, Fields
      <4> QED
        BY <4>4, <4>5
    <3>3. CASE d.at \in {"end", "marker"}
      <4>1. a = Thrown
        BY <1>1, <3>3 DEF After, DecodeByte
      <4> QED
        BY <1>2, <1>4, <4>1
    <3> QED
      BY <3>1, <3>2, <3>3 DEF Valid
  <2> QED
    BY <2>1, <2>2 DEF BeforeFlag
<1> QED
  BY <1>3, <1>4

\* A checksum that was damaged fits nothing.
LEMMA ChecksumDamaged ==
  ASSUME NEW m, Known(m), NEW d, Valid(d), Exact(d, m, Len(Covered(m)) + 1),
         NEW e, e.byte \in Bytes, e.crc = <<>>, e.frame \in Nat
  PROVE  BeforeFlag(Then(d, e))
<1> DEFINE a == After(d, e)
           r == Then(d, e)
           s == Covered(m)
           n == Len(s)
<1>1. s \in Seq(Bytes) /\ n \in Nat \ {0}
  BY CoveredLength
<1>2. Skip.at = "skip" /\ ~Skip.escaped /\ Thrown.at = "invalid"
  BY SkipIs
<1>3. d.at = "crc" /\ ~d.escaped /\ Within(d) /\ d \in Decoders
  <2> HIDE DEF n
  <2>1. n + 1 \in 1 .. n + 1 /\ (n + 1) - (n + 1) = 0
    BY <1>1
  <2>2. /\ Within(d) /\ ~(d.at = "crc" /\ d.escaped)
        /\ \E z \in Seq(Bytes) : s = d.covered \o z /\ Len(z) = (n + 1) - (n + 1)
    BY <2>1 DEF Exact, n
  <2>3. PICK z \in Seq(Bytes) : s = d.covered \o z /\ Len(z) = 0
    BY <2>1, <2>2
  <2>4. d.covered = s
    <3>1. z = <<>> /\ d.covered \in Seq(Bytes)
      BY <2>2, <2>3 DEF Within, Decoders
    <3> QED
      BY <2>3, <3>1, ConcatEmptySeq
  <2>5. d.at = "crc"
    BY <2>2, <2>4, DecodeWhole
  <2> QED
    BY <2>2, <2>5 DEF Within
<1>4. CASE a.at \in {"invalid", "message"}
  BY <1>2, <1>4, ThenIs DEF BeforeFlag
<1>5. CASE a.at \notin {"invalid", "message"}
  <2>1. r.at = a.at /\ r.escaped = a.escaped
    BY <1>5, ThenIs
  <2>2. a.at = "crc"
    <3>1. a = DecodeByte(d, e)
      BY <1>3 DEF After
    <3>2. a # Thrown
      BY <1>2, <1>5
    <3>3. d.covered # <<>>
      BY <1>3, CoversSome
    <3> HIDE DEF a
    <3> QED
      BY <1>3, <3>1, <3>2, <3>3, Decodes
  <2> QED
    BY <2>1, <2>2 DEF BeforeFlag
<1> QED
  BY <1>4, <1>5

\* A flag begins a frame, is the one expected, or is thrown over.
LEMMA FlagPassed ==
  ASSUME NEW d, Valid(d), BeforeFlag(d), NEW e, e.byte = Flag, e.crc = <<>>,
         e.frame \in Nat
  PROVE  \/ After(d, e) = Thrown
         \/ /\ After(d, e).at = "type"
            /\ Then(d, e).at = "type" /\ ~Then(d, e).escaped
         \/ /\ After(d, e).at = "marker"
            /\ d.at = "end" /\ Then(d, e).at = "marker" /\ Has(Then(d, e), d)
<1> DEFINE a == After(d, e)
           r == Then(d, e)
<1>1. e.byte \in Bytes
  BY ByteAssumption DEF Bytes
<1>2. Skip.at = "skip" /\ ~Skip.escaped /\ Thrown.at = "invalid"
  BY SkipIs
<1>3. CASE d.at = "skip"
  <2>1. a = Start
    BY <1>3 DEF After
  <2> QED
    BY <1>1, <2>1, StartIs, ThenIs
<1>4. CASE Within(d)
  <2>1. d.at \in Fields /\ d.at \notin {"skip", "end", "marker"}
    BY <1>4 DEF Within, Fields
  <2>2. a = DecodeByte(d, e)
    BY <2>1 DEF After
  <2>3. CASE ~d.escaped
    <3>1. DecodeByte(d, e) = Thrown
      BY <2>1, <2>3, DecodeByteIs
    <3> QED
      BY <2>2, <3>1
  <2>4. CASE d.escaped
    <3>1. d.at = "crc"
      BY <2>4 DEF BeforeFlag
    <3>2. DecodeByte(d, e) = CheckCrc(d, e)
      BY <2>1, <2>4, <3>1, DecodeByteIs
    <3>3. d.covered # <<>>
      BY <1>4, <3>1, CoversSome
    <3> QED
      BY <2>2, <3>2, <3>3 DEF CheckCrc
  <2> QED
    BY <2>3, <2>4
<1>5. CASE d.at = "end"
  <2>1. a = [d EXCEPT !.at = "marker"] /\ d \in Decoders
    BY <1>5 DEF After, DecodeByte, Valid
  <2>2. a.at = "marker" /\ Has(a, d)
    BY <2>1 DEF Has, Decoders
  <2>3. r.at = "marker" /\ Has(r, d)
    BY <1>1, <2>2, ThenIs DEF Has
  <2> QED
    BY <1>5, <2>2, <2>3
<1> QED
  BY <1>3, <1>4, <1>5 DEF Valid, BeforeFlag

\* After a message that fits its checksum any byte but the flag is thrown over.
LEMMA FlagDamaged ==
  ASSUME NEW d, Valid(d), d.at = "end", NEW e, e.byte \in Bytes, e.frame \in Nat
  PROVE  \/ After(d, e) = Thrown
         \/ /\ After(d, e).at = "marker"
            /\ Then(d, e).at = "marker" /\ Has(Then(d, e), d)
<1> DEFINE a == After(d, e)
           r == Then(d, e)
<1>1. CASE e.byte = Flag
  <2>1. a = [d EXCEPT !.at = "marker"] /\ d \in Decoders
    BY <1>1 DEF After, DecodeByte, Valid
  <2>2. a.at = "marker" /\ Has(a, d)
    BY <2>1 DEF Has, Decoders
  <2>3. r.at = "marker" /\ Has(r, d)
    BY <2>2, ThenIs DEF Has
  <2> QED
    BY <2>2, <2>3
<1>2. CASE e.byte # Flag
  BY <1>2 DEF After, DecodeByte
<1> QED
  BY <1>1, <1>2

\* The end marker.
LEMMA MarkerPassed ==
  ASSUME NEW d, Valid(d), NEW m, NEW reported, BeforeMarker(d, m, reported),
         NEW e, e.byte = EndMarker, e.frame \in Nat
  PROVE  \/ d.at = "skip" /\ reported /\ After(d, e) = Skip
         \/ After(d, e) = Thrown
         \/ /\ d.at = "marker" /\ Has(d, m)
            /\ After(d, e) = [d EXCEPT !.at = "message"]
<1>1. e.byte \in Bytes /\ EndMarker # Flag /\ EndMarker # Escape
      /\ EndMarker > HIGHEST_ELEMENT
  BY ByteAssumption DEF Bytes, HIGHEST_ELEMENT
<1>2. CASE d.at = "skip" /\ reported
  BY <1>1, <1>2 DEF After
<1>3. CASE d.at = "type" /\ ~d.escaped
  <2>1. Within(d)
    BY <1>3 DEF Valid
  <2>2. After(d, e) = DecodeByte(d, e)
    BY <1>3 DEF After
  <2>3. DecodeByte(d, e) = Thrown
    BY <1>1, <1>3, <2>1, TakesByte
  <2> QED
    BY <2>2, <2>3
<1>4. CASE d.at = "marker" /\ Has(d, m)
  BY <1>4 DEF After, DecodeByte
<1> QED
  BY <1>2, <1>3, <1>4 DEF BeforeMarker

\* Whatever stands for the end marker ends the frame.
LEMMA MarkerDamaged ==
  ASSUME NEW d, d.at = "marker", NEW e
  PROVE  \/ After(d, e) = Thrown
         \/ After(d, e) = [d EXCEPT !.at = "message"]
BY DEF After, DecodeByte
=============================================================================
