------------------------- MODULE HidExchange_proofs -------------------------
(***************************************************************************)
(* Proofs about HidExchange, for packets of any length, APDUs and answers  *)
(* of any lengths and any number of exchanges: types, that the application *)
(* sees whole APDUs, that an undisturbed exchange returns its own answer,  *)
(* and that the framing implements Exchange. All rest on one inductive     *)
(* invariant: the packets on the way to the host are the rest of one       *)
(* answer and then whole answers, in the order of their exchanges.         *)
(***************************************************************************)
EXTENDS HidExchange, SequenceTheorems, TLAPS

Kinds == {"len", "request", "data", "status"}
Byte == (Kinds \cup {"pad"}) \X Nat \X Nat
Chunk == [seq : Nat, data : Seq(Byte)]
Packet == [seq : Nat, data : [1..Payload -> Byte]]

\* Bytes that belong to exchange x; cleared bytes belong to none.
OfExchange(x) == {<<k, x, v>> : k \in Kinds, v \in Nat}

\* Chunk k of message m, counted from 0, and the packet that carries it.
Part(d, k, m) ==
    /\ k \in Nat /\ k * Payload < Len(m)
    /\ d \in Seq(Byte) /\ Len(d) = Least(Payload, Len(m) - k * Payload)
    /\ \A j \in 1..Len(d) : d[j] = m[k * Payload + j]
Full(d, k, m) ==
    /\ k \in Nat /\ k * Payload < Len(m)
    /\ d \in [1..Payload -> Byte]
    /\ \A j \in 1..Payload :
          d[j] = IF k * Payload + j <= Len(m) THEN m[k * Payload + j] ELSE Pad

\* Nothing of message m is left after chunk k.
IsLast(k, m) == Len(m) <= k * Payload + Payload

-----------------------------------------------------------------------------
(* Bytes and sequences. *)

LEMMA FunctionIsSeq ==
    ASSUME NEW S, NEW len \in Nat, NEW f \in [1..len -> S]
    PROVE  f \in Seq(S) /\ Len(f) = len /\ DOMAIN f = 1..len
OBVIOUS

LEMMA SequenceFacts ==
    ASSUME NEW S, NEW s \in Seq(S), NEW t \in Seq(S)
    PROVE  /\ Len(s) \in Nat /\ DOMAIN s = 1..Len(s)
           /\ \A i \in 1..Len(s) : s[i] \in S
           /\ s \o t \in Seq(S) /\ Len(s \o t) = Len(s) + Len(t)
           /\ \A i \in 1..(Len(s) + Len(t)) :
                 (s \o t)[i] = IF i <= Len(s) THEN s[i] ELSE t[i - Len(s)]
           /\ \A x \in ToSet(s) : \E i \in 1..Len(s) : x = s[i]
BY DEF ToSet

LEMMA SubSeqFacts ==
    ASSUME NEW S, NEW s \in Seq(S), NEW a \in Nat \ {0}, NEW b \in Nat,
           a <= b + 1, b <= Len(s)
    PROVE  /\ SubSeq(s, a, b) \in Seq(S) /\ Len(SubSeq(s, a, b)) = b - a + 1
           /\ \A i \in 1..(b - a + 1) : SubSeq(s, a, b)[i] = s[a + i - 1]
OBVIOUS

LEMMA TailFacts ==
    ASSUME NEW S, NEW s \in Seq(S), s # <<>>
    PROVE  /\ Head(s) = s[1] /\ s[1] \in S /\ 1 \in DOMAIN s
           /\ Tail(s) \in Seq(S) /\ Len(Tail(s)) = Len(s) - 1 /\ Len(s) \in Nat \ {0}
           /\ \A i \in 1..(Len(s) - 1) : Tail(s)[i] = s[i + 1]
OBVIOUS

LEMMA OfExchangeFacts ==
    ASSUME NEW x \in Nat
    PROVE  /\ OfExchange(x) \subseteq Byte
           /\ \A b \in OfExchange(x) : b[2] = x /\ b # Pad
           /\ Pad \in Byte
BY DEF OfExchange, Byte, Kinds, Pad

\* A length of sixteen bits is what its two bytes say.
LEMMA SizeBytes ==
    \A s \in Nat : /\ ((s \div 256) * 256) + (s % 256) = s
                   /\ s \div 256 \in Nat /\ s % 256 \in Nat
OBVIOUS

LEMMA MaxLengthFacts == MaxLength \in Nat /\ MaxLength >= 2
BY DEF MaxLength

LEMMA RequestFacts ==
    ASSUME NEW x \in Nat, NEW size \in RequestSizes
    PROVE  /\ Request(x, size) \in Seq(OfExchange(x)) /\ Len(Request(x, size)) = size
           /\ size \in 1..MaxLength
           /\ Request(x, size) # <<>> /\ Request(x, size)[1][2] = x
<1>1. size \in 1..MaxLength /\ size \in Nat \ {0}
  BY ConstantsAssumption, MaxLengthFacts
<1>2. \A i \in 1..size : <<"request", x, i>> \in OfExchange(x)
  BY <1>1 DEF OfExchange, Kinds
<1>3. Request(x, size) \in [1..size -> OfExchange(x)]
  BY <1>2 DEF Request
<1>4. Request(x, size)[1][2] = x
  BY <1>1 DEF Request
<1> QED BY <1>1, <1>3, <1>4, FunctionIsSeq

LEMMA ReplyFacts ==
    ASSUME NEW r \in Replies
    PROVE  r[1] \in 2..MaxLength /\ r[2] \in {Accepted, Denied}
<1>1. CASE r \in ReplySizes \X {Accepted}
  BY <1>1, ConstantsAssumption
<1>2. CASE r = <<2, Denied>>
  BY <1>2, MaxLengthFacts
<1> QED BY <1>1, <1>2 DEF Replies

LEMMA AnswerFacts ==
    ASSUME NEW x \in Nat, NEW size \in 2..MaxLength, NEW sw \in {Accepted, Denied}
    PROVE  Answer(x, size, sw) \in Seq(OfExchange(x)) /\ Len(Answer(x, size, sw)) = size
<1> DEFINE B(i) == IF i <= size - 2 THEN <<"data", x, i>>
                   ELSE <<"status", x, sw[i - size + 2]>>
<1>0. size \in Nat /\ size >= 2
  BY MaxLengthFacts
<1>1. ASSUME NEW i \in 1..size PROVE B(i) \in OfExchange(x)
  <2> USE <1>0
  <2>1. CASE i <= size - 2
    BY <2>1 DEF OfExchange, Kinds
  <2>2. CASE ~(i <= size - 2)
    <3>1. i - size + 2 \in {1, 2}
      BY <2>2
    <3>2. sw[i - size + 2] \in Nat
      BY <3>1 DEF Accepted, Denied
    <3> QED BY <2>2, <3>2 DEF OfExchange, Kinds
  <2> QED BY <2>1, <2>2
<1>2. Answer(x, size, sw) = [i \in 1..size |-> B(i)]
  BY DEF Answer
<1> HIDE DEF B
<1> QED BY <1>0, <1>1, <1>2, FunctionIsSeq

\* A message is its length and its bytes.
LEMMA MessageFacts ==
    ASSUME NEW x \in Nat, NEW s \in Seq(OfExchange(x)), Len(s) >= 1, Len(s) <= MaxLength
    PROVE  /\ WithLength(x, s) \in Seq(OfExchange(x)) /\ Len(WithLength(x, s)) = Len(s) + 2
           /\ Length(WithLength(x, s)) = Len(s)
           /\ \A i \in 1..Len(s) : WithLength(x, s)[i + 2] = s[i]
<1> DEFINE hi == Len(s) \div 256
           lo == Len(s) % 256
           h == << <<"len", x, hi>>, <<"len", x, lo>> >>
<1>1. hi \in Nat /\ lo \in Nat /\ hi * 256 + lo = Len(s)
  BY SizeBytes
<1>2. WithLength(x, s) = h \o s
  BY DEF WithLength
<1> HIDE DEF hi, lo
<1>3. h[1] \in OfExchange(x) /\ h[2] \in OfExchange(x)
  BY <1>1 DEF OfExchange, Kinds
<1>4. h \in Seq(OfExchange(x)) /\ Len(h) = 2
  BY <1>3
<1>5. h[1][3] * 256 + h[2][3] = Len(s)
  BY <1>1
<1> HIDE DEF h
<1>8. /\ h \o s \in Seq(OfExchange(x)) /\ Len(h \o s) = Len(s) + 2
      /\ \A i \in 1..(Len(s) + 2) : (h \o s)[i] = IF i <= 2 THEN h[i] ELSE s[i - 2]
      /\ Len(s) \in Nat
  <2>1. /\ Len(s) \in Nat /\ h \o s \in Seq(OfExchange(x))
        /\ Len(h \o s) = Len(h) + Len(s)
        /\ \A i \in 1..(Len(h) + Len(s)) :
              (h \o s)[i] = IF i <= Len(h) THEN h[i] ELSE s[i - Len(h)]
    BY <1>4, SequenceFacts
  <2>2. 2 + Len(s) = Len(s) + 2
    BY <2>1
  <2> QED BY <1>4, <2>1, <2>2
<1>6. WithLength(x, s)[1] = h[1] /\ WithLength(x, s)[2] = h[2]
  BY <1>2, <1>8
<1>7. Length(WithLength(x, s)) = Len(s)
  BY <1>5, <1>6 DEF Length
<1>9. \A i \in 1..Len(s) : i + 2 \in 1..(Len(s) + 2) /\ (h \o s)[i + 2] = s[i]
  BY <1>8
<1> QED BY <1>2, <1>7, <1>8, <1>9

-----------------------------------------------------------------------------
(* Chunks and packets. *)

LEMMA Multiples ==
    /\ \A a, b, p \in Nat : a <= b => a * p <= b * p
    /\ \A a, b, p \in Nat : a < b => a * p + p <= b * p
    /\ \A a, p \in Nat : a * p \in Nat /\ (a + 1) * p = a * p + p
    /\ \A p \in Nat : 0 * p = 0 /\ 1 * p = p
OBVIOUS

\* The number of chunks: enough of them, and the last is not empty.
LEMMA ChunkCount ==
    ASSUME NEW len \in Nat \ {0}
    PROVE  LET q == (len + Payload - 1) \div Payload
           IN  q \in Nat \ {0} /\ q * Payload >= len /\ (q - 1) * Payload < len
BY ConstantsAssumption

\* Chunks cuts a message into its parts, up to the last.
LEMMA ChunksFacts ==
    ASSUME NEW m \in Seq(Byte), m # <<>>
    PROVE  /\ Chunks(m) \in Seq(Chunk) /\ Len(Chunks(m)) \in Nat \ {0}
           /\ \A i \in 1..Len(Chunks(m)) :
                 Chunks(m)[i].seq = i - 1 /\ Part(Chunks(m)[i].data, i - 1, m)
           /\ IsLast(Len(Chunks(m)) - 1, m)
<1> DEFINE q == (Len(m) + Payload - 1) \div Payload
           end(i) == IF i * Payload <= Len(m) THEN i * Payload ELSE Len(m)
           c(i) == [seq |-> i - 1, data |-> SubSeq(m, (i - 1) * Payload + 1, end(i))]
<1>1. Len(m) \in Nat \ {0} /\ Payload \in Nat \ {0, 1}
  BY ConstantsAssumption
<1>2. q \in Nat \ {0} /\ q * Payload >= Len(m) /\ (q - 1) * Payload < Len(m)
  BY <1>1, ChunkCount
<1>3. Chunks(m) = [i \in 1..q |-> c(i)]
  BY DEF Chunks
<1> HIDE DEF q
<1>4. ASSUME NEW i \in 1..q
      PROVE  c(i) \in Chunk /\ c(i).seq = i - 1 /\ Part(c(i).data, i - 1, m)
  <2>1. PICK a \in Nat : a = (i - 1) * Payload
    BY <1>1, Multiples
  <2>2. i - 1 \in Nat /\ a < Len(m) /\ i * Payload = a + Payload
    <3>1. i - 1 \in Nat /\ i - 1 <= q - 1 /\ q - 1 \in Nat
      BY <1>2
    <3>2. (i - 1) * Payload <= (q - 1) * Payload
      BY <1>1, <3>1, Multiples
    <3>3. i * Payload = a + Payload
      BY <1>1, <2>1, <3>1, Multiples
    <3> QED BY <1>1, <1>2, <2>1, <3>1, <3>2, <3>3
  <2>3. /\ end(i) = IF a + Payload <= Len(m) THEN a + Payload ELSE Len(m)
        /\ end(i) \in Nat /\ end(i) <= Len(m) /\ a + 1 <= end(i) + 1
    BY <1>1, <2>2
  <2> HIDE DEF end
  <2>4. PICK d : d = SubSeq(m, a + 1, end(i))
    OBVIOUS
  <2>5. /\ d \in Seq(Byte) /\ Len(d) = end(i) - a
        /\ \A j \in 1..(end(i) - a) : d[j] = m[a + j]
    <3>1. PICK e \in Nat : e = end(i) /\ e <= Len(m) /\ a + 1 <= e + 1
      BY <2>3
    <3>2. /\ a + 1 \in Nat \ {0} /\ e - (a + 1) + 1 = e - a
          /\ \A j \in 1..(e - a) : (a + 1) + j - 1 = a + j
      OBVIOUS
    <3>3. /\ SubSeq(m, a + 1, e) \in Seq(Byte)
          /\ Len(SubSeq(m, a + 1, e)) = e - (a + 1) + 1
          /\ \A j \in 1..(e - (a + 1) + 1) : SubSeq(m, a + 1, e)[j] = m[(a + 1) + j - 1]
      BY <3>1, <3>2, SubSeqFacts
    <3> QED BY <2>4, <3>1, <3>2, <3>3
  <2>6. Len(d) = Least(Payload, Len(m) - a)
    <3>1. PICK l \in Nat : l = Len(m)
      BY <1>1
    <3> QED BY <1>1, <2>3, <2>5, <3>1 DEF Least
  <2>7. c(i) = [seq |-> i - 1, data |-> d]
    BY <2>1, <2>4
  <2>8. Part(d, i - 1, m)
    BY <2>1, <2>2, <2>5, <2>6 DEF Part
  <2> QED BY <2>2, <2>5, <2>7, <2>8 DEF Chunk
<1> HIDE DEF c
<1>5. Chunks(m) \in Seq(Chunk) /\ Len(Chunks(m)) = q
  BY <1>2, <1>3, <1>4, FunctionIsSeq
<1>6. IsLast(q - 1, m)
  <2>1. q * Payload = (q - 1) * Payload + Payload
    BY <1>1, <1>2, Multiples
  <2> QED BY <1>2, <2>1 DEF IsLast
<1> QED BY <1>2, <1>3, <1>4, <1>5, <1>6

PacketsOf(m) == [i \in DOMAIN Chunks(m) |-> FullPacket(Chunks(m)[i])]

\* The device sends the parts of an answer in full packets.
LEMMA PacketsFacts ==
    ASSUME NEW m \in Seq(Byte), m # <<>>
    PROVE  /\ PacketsOf(m) \in Seq(Packet) /\ Len(PacketsOf(m)) \in Nat \ {0}
           /\ \A i \in 1..Len(PacketsOf(m)) :
                 PacketsOf(m)[i].seq = i - 1 /\ Full(PacketsOf(m)[i].data, i - 1, m)
           /\ IsLast(Len(PacketsOf(m)) - 1, m)
<1> DEFINE c == Chunks(m)
<1>1. /\ c \in Seq(Chunk) /\ Len(c) \in Nat \ {0} /\ DOMAIN c = 1..Len(c)
      /\ \A i \in 1..Len(c) : c[i] \in Chunk /\ c[i].seq = i - 1 /\ Part(c[i].data, i - 1, m)
      /\ IsLast(Len(c) - 1, m)
  BY ChunksFacts, SequenceFacts
<1> HIDE DEF c
<1>2. PacketsOf(m) = [i \in 1..Len(c) |-> FullPacket(c[i])]
  BY <1>1 DEF PacketsOf, c
<1>3. ASSUME NEW i \in 1..Len(c)
      PROVE  /\ FullPacket(c[i]) \in Packet /\ FullPacket(c[i]).seq = i - 1
             /\ Full(FullPacket(c[i]).data, i - 1, m)
  <2>1. PICK p \in Chunk : p = c[i] /\ p.seq = i - 1 /\ Part(p.data, i - 1, m)
    BY <1>1
  <2>2. PICK f : f = [j \in 1..Payload |-> IF j <= Len(p.data) THEN p.data[j] ELSE Pad]
    OBVIOUS
  <2>3. FullPacket(p) = [seq |-> p.seq, data |-> f]
    <3>1. PICK sq, dt : p = [seq |-> sq, data |-> dt]
      BY DEF Chunk
    <3>2. p.seq = sq /\ p.data = dt
      BY <3>1
    <3>3. FullPacket(p) = [p EXCEPT !.data = f]
      BY <2>2 DEF FullPacket
    <3>4. [p EXCEPT !.data = f] = [seq |-> sq, data |-> f]
      BY <3>1
    <3> QED BY <3>2, <3>3, <3>4
  <2>4. p.data \in Seq(Byte) /\ Pad \in Byte
    BY OfExchangeFacts DEF Chunk
  <2>5. f \in [1..Payload -> Byte]
    BY <2>2, <2>4
  <2>6. PICK a \in Nat : a = (i - 1) * Payload /\ a < Len(m) /\ i - 1 \in Nat
    BY <2>1, ConstantsAssumption, Multiples DEF Part
  <2>7. \A j \in 1..Payload : f[j] = IF a + j <= Len(m) THEN m[a + j] ELSE Pad
    <3> SUFFICES ASSUME NEW j \in 1..Payload
                 PROVE  f[j] = IF a + j <= Len(m) THEN m[a + j] ELSE Pad
      OBVIOUS
    <3>1. Len(p.data) = IF Payload <= Len(m) - a THEN Payload ELSE Len(m) - a
      BY <2>1, <2>6 DEF Part, Least
    <3>2. \A l \in 1..Len(p.data) : p.data[l] = m[a + l]
      BY <2>1, <2>6 DEF Part
    <3>3. Payload \in Nat /\ Len(m) \in Nat
      BY ConstantsAssumption
    <3>4. j <= Len(p.data) <=> a + j <= Len(m)
      BY <2>6, <3>1, <3>3
    <3> QED BY <2>2, <3>2, <3>4, <2>4, <3>3, <3>1
  <2>8. Full(f, i - 1, m)
    BY <2>5, <2>6, <2>7 DEF Full
  <2> QED BY <2>1, <2>3, <2>5, <2>6, <2>8 DEF Packet
<1>4. PacketsOf(m) \in Seq(Packet) /\ Len(PacketsOf(m)) = Len(c)
  BY <1>1, <1>2, <1>3, FunctionIsSeq
<1> QED BY <1>1, <1>2, <1>3, <1>4

-----------------------------------------------------------------------------
(* The inductive invariant.                                                *)

\* The exchange the bytes of a packet of an answer belong to, and that answer
\* when the answers were those of ans.
From(d) == d[1][2]
Message(x, r) == WithLength(x, Answer(x, r[1], r[2]))
MessageOf(ans, d) == Message(From(d), ans[From(d)])

\* What comes behind chunk k of a message of exchange x: the next chunk, or the
\* first one of the answer to a later exchange.
Follows(k, x, m, p) ==
    IF IsLast(k, m) THEN From(p.data) > x /\ p.seq = 0
                    ELSE From(p.data) = x /\ p.seq = k + 1

\* Packets of the answers to exchanges up to top, none missing but at the front.
Stream(s, ans, top) ==
    /\ s \in Seq(Packet)
    /\ \A i \in 1..Len(s) : /\ From(s[i].data) \in 1..top
                            /\ Full(s[i].data, s[i].seq, MessageOf(ans, s[i].data))
    /\ \A i \in 1..(Len(s) - 1) :
          Follows(s[i].seq, From(s[i].data), MessageOf(ans, s[i].data), s[i + 1])
    /\ s # <<>> => IsLast(s[Len(s)].seq, MessageOf(ans, s[Len(s)].data))

\* The last exchange whose request was sent.
Sent == IF phase = "write" THEN n - 1 ELSE n

HostInv ==
    /\ n \in 0..MaxExchanges /\ newest \in 0..Sent /\ calm \in BOOLEAN
    /\ phase \in {"idle", "write", "length", "payload"}
    /\ hfSeq \in Nat /\ hfPos \in 0..Payload
    /\ hfBuf = <<>> \/ hfBuf \in [1..Payload -> Byte]
    /\ want \in Nat /\ got \in Seq(Byte) /\ device \in Seq(Byte)
    /\ result \in [ok : BOOLEAN, of : Nat, bytes : Seq(Byte), cut : Seq(Byte)]
    /\ result.ok => Len(result.cut) = 2
    /\ phase # "payload" => got = <<>>
    /\ phase \in {"idle", "write"} => want = 0
    /\ phase = "length" => want = 2 /\ hfSeq = 0
    /\ phase = "write" => hfSeq = 0
    /\ phase # "write" => out = <<>>
    /\ phase # "idle" => n > 0 /\ result = NoResult

\* The chunks not written yet are the rest of the request, and the device has
\* what was written before them. What it has at the first chunk does not matter.
WriteInv ==
    phase = "write" =>
        \E size \in RequestSizes :
            LET m == WithLength(n, Request(n, size))
                done == out[1].seq
            IN  /\ out \in Seq(Chunk) /\ out # <<>>
                /\ \A i \in 1..Len(out) :
                      out[i].seq = done + i - 1 /\ Part(out[i].data, out[i].seq, m)
                /\ IsLast(out[Len(out)].seq, m)
                /\ done > 0 => /\ Len(device) = done * Payload
                               /\ \A j \in 1..Len(device) : device[j] = m[j]

\* The application works on the request of an exchange newer than all answers.
AskInv ==
    asked # <<>> =>
        \E x \in (newest + 1)..Sent, size \in RequestSizes :
            /\ asked = Request(x, size)
            /\ \A i \in 1..Len(in) : From(in[i].data) < x
            /\ phase = "payload" => From(hfBuf) < x

\* What was read is the beginning of an answer newer than those returned, and
\* what is on the way is its rest.
ReadInv(ans) ==
    phase = "payload" =>
        LET x == From(hfBuf)
            m == MessageOf(ans, hfBuf)
        IN  /\ hfSeq > 0 /\ x \in (newest + 1)..n
            /\ Full(hfBuf, hfSeq - 1, m)
            /\ want = Len(m) - 2 /\ Len(got) < want
            /\ Len(got) + 2 = (hfSeq - 1) * Payload + hfPos
            /\ \A j \in 1..Len(got) : got[j] = m[j + 2]
            /\ in = <<>> => IsLast(hfSeq - 1, m)
            /\ in # <<>> => Follows(hfSeq - 1, x, m, in[1])

\* No answer on the way was returned before; a rest may be of the newest one.
OrderInv ==
    phase # "payload" /\ in # <<>> =>
        /\ newest <= From(in[1].data)
        /\ in[1].seq = 0 => newest < From(in[1].data)

\* Undisturbed, there is the current exchange and nothing else.
CalmInv ==
    calm =>
        /\ phase \in {"idle", "write"} => in = <<>> /\ asked = <<>>
        /\ phase = "idle" /\ n > 0 =>
              result.ok /\ result.of = n /\ IsAnswer(n, result.bytes \o result.cut)
        /\ phase = "length" =>
              \/ in = <<>> /\ asked # <<>> /\ asked[1][2] = n
              \/ in # <<>> /\ asked = <<>> /\ in[1].seq = 0
        /\ phase = "payload" => asked = <<>> /\ From(hfBuf) = n
        /\ \A i \in 1..Len(in) : From(in[i].data) = n

AnswerInv == \E ans \in [1..MaxExchanges -> Replies] : Stream(in, ans, Sent) /\ ReadInv(ans)

Inv == HostInv /\ WriteInv /\ AskInv /\ OrderInv /\ CalmInv /\ AnswerInv

-----------------------------------------------------------------------------
(* Packets on the way.                                                     *)

LEMMA MessageIs ==
    ASSUME NEW x \in Nat, NEW r \in Replies
    PROVE  /\ Message(x, r) \in Seq(OfExchange(x)) /\ Message(x, r) \in Seq(Byte)
           /\ Len(Message(x, r)) = r[1] + 2 /\ Length(Message(x, r)) = r[1]
           /\ r[1] \in Nat /\ r[1] >= 2
           /\ Answer(x, r[1], r[2]) \in Seq(OfExchange(x)) /\ Len(Answer(x, r[1], r[2])) = r[1]
           /\ \A i \in 1..r[1] : Message(x, r)[i + 2] = Answer(x, r[1], r[2])[i]
<1>1. PICK size, sw : size = r[1] /\ sw = r[2]
  OBVIOUS
<1>2. size \in 2..MaxLength /\ sw \in {Accepted, Denied}
  BY <1>1, ReplyFacts
<1>3. size \in Nat /\ size >= 2 /\ size <= MaxLength /\ size >= 1
  BY <1>2, MaxLengthFacts
<1>4. PICK a : a = Answer(x, size, sw)
  OBVIOUS
<1>5. a \in Seq(OfExchange(x)) /\ Len(a) = size
  BY <1>2, <1>4, AnswerFacts
<1>6. /\ WithLength(x, a) \in Seq(OfExchange(x)) /\ Len(WithLength(x, a)) = Len(a) + 2
      /\ Length(WithLength(x, a)) = Len(a)
      /\ \A i \in 1..Len(a) : WithLength(x, a)[i + 2] = a[i]
  BY <1>3, <1>5, MessageFacts
<1>7. Message(x, r) = WithLength(x, a)
  BY <1>1, <1>4 DEF Message
<1>8. WithLength(x, a) \in Seq(Byte)
  BY <1>6, OfExchangeFacts
<1> QED BY <1>1, <1>3, <1>4, <1>5, <1>6, <1>7, <1>8

\* The first byte of a packet says which exchange it answers.
LEMMA FullFrom ==
    ASSUME NEW x \in Nat, NEW m \in Seq(OfExchange(x)), NEW d, NEW k, Full(d, k, m)
    PROVE  From(d) = x
<1>1. PICK a \in Nat : a = k * Payload /\ a < Len(m)
  BY ConstantsAssumption, Multiples DEF Full
<1>2. 1 \in 1..Payload /\ a + 1 <= Len(m) /\ a + 1 \in 1..Len(m)
  BY <1>1, ConstantsAssumption
<1>3. d[1] = m[a + 1]
  BY <1>1, <1>2 DEF Full
<1>4. m[a + 1] \in OfExchange(x)
  BY <1>2
<1> QED BY <1>3, <1>4, OfExchangeFacts DEF From

\* Without its first packet a stream is a stream, and its head said what follows.
LEMMA StreamTail ==
    ASSUME NEW s, NEW ans, NEW top \in Nat, Stream(s, ans, top), s # <<>>
    PROVE  /\ Stream(Tail(s), ans, top)
           /\ s[1] \in Packet /\ From(s[1].data) \in 1..top
           /\ Full(s[1].data, s[1].seq, MessageOf(ans, s[1].data))
           /\ Tail(s) = <<>> => IsLast(s[1].seq, MessageOf(ans, s[1].data))
           /\ Tail(s) # <<>> => Follows(s[1].seq, From(s[1].data),
                                        MessageOf(ans, s[1].data), Tail(s)[1])
           /\ \A i \in 1..Len(Tail(s)) : Tail(s)[i] = s[i + 1] /\ i + 1 \in 1..Len(s)
<1>1. s \in Seq(Packet)
  BY DEF Stream
<1>2. PICK t : t = Tail(s)
  OBVIOUS
<1>3. /\ s[1] \in Packet /\ Len(s) \in Nat \ {0} /\ t \in Seq(Packet) /\ Len(t) = Len(s) - 1
      /\ \A i \in 1..(Len(s) - 1) : t[i] = s[i + 1]
  BY <1>1, <1>2, TailFacts
<1>11. (t # <<>> => Len(t) >= 1) /\ (t = <<>> => Len(s) = 1)
  BY <1>3
<1>4. \A i \in 1..Len(t) : t[i] = s[i + 1] /\ i + 1 \in 1..Len(s)
  BY <1>3
<1>5. \A i \in 1..Len(t) : /\ From(t[i].data) \in 1..top
                           /\ Full(t[i].data, t[i].seq, MessageOf(ans, t[i].data))
  BY <1>4 DEF Stream
<1>6. \A i \in 1..(Len(t) - 1) :
          Follows(t[i].seq, From(t[i].data), MessageOf(ans, t[i].data), t[i + 1])
  <2> SUFFICES ASSUME NEW i \in 1..(Len(t) - 1)
               PROVE  Follows(t[i].seq, From(t[i].data), MessageOf(ans, t[i].data), t[i + 1])
    OBVIOUS
  <2>1. /\ i \in 1..Len(t) /\ i + 1 \in 1..Len(t) /\ i + 1 \in 1..(Len(s) - 1)
    BY <1>3
  <2>2. t[i] = s[i + 1] /\ t[i + 1] = s[(i + 1) + 1]
    BY <1>4, <2>1
  <2> QED BY <2>1, <2>2 DEF Stream
<1>7. t # <<>> => t[Len(t)] = s[Len(s)]
  BY <1>3, <1>11
<1>8. t # <<>> => IsLast(t[Len(t)].seq, MessageOf(ans, t[Len(t)].data))
  BY <1>7 DEF Stream
<1>9. Stream(t, ans, top)
  BY <1>3, <1>5, <1>6, <1>8 DEF Stream
<1>10. t # <<>> => 1 \in 1..(Len(s) - 1) /\ t[1] = s[1 + 1]
  BY <1>3, <1>11
<1> QED BY <1>2, <1>3, <1>4, <1>9, <1>10, <1>11 DEF Stream

LEMMA StreamMore ==
    ASSUME NEW s, NEW ans, NEW top \in Nat, NEW more \in Nat, top <= more, Stream(s, ans, top)
    PROVE  Stream(s, ans, more)
BY DEF Stream

LEMMA StreamEmpty == ASSUME NEW ans, NEW top PROVE Stream(<<>>, ans, top)
BY DEF Stream

\* The packets of an answer are a stream, and so they are behind older ones.
Grown(s, top, x, new, all) ==
    /\ new \in [1..MaxExchanges -> Replies]
    /\ Stream(all, new, top) /\ all # <<>>
    /\ s # <<>> => all[1] = s[1]
    /\ s = <<>> => From(all[1].data) = x /\ all[1].seq = 0
    /\ \A i \in 1..Len(all) : From(all[i].data) = x \/ (i \in 1..Len(s) /\ all[i] = s[i])

LEMMA StreamAppend ==
    ASSUME NEW s, NEW ans \in [1..MaxExchanges -> Replies], NEW top \in Nat,
           top <= MaxExchanges, Stream(s, ans, top),
           NEW x \in 1..top, NEW r \in Replies,
           \A i \in 1..Len(s) : From(s[i].data) < x
    PROVE  Grown(s, top, x, [ans EXCEPT ![x] = r], s \o PacketsOf(Message(x, r)))
<1> DEFINE new == [ans EXCEPT ![x] = r]
           m == Message(x, r)
           p == PacketsOf(m)
           all == s \o p
<1>1. x \in Nat /\ x \in 1..MaxExchanges /\ MaxExchanges \in Nat
  BY ConstantsAssumption
<1>2. /\ new \in [1..MaxExchanges -> Replies] /\ new[x] = r
      /\ \A y \in 1..MaxExchanges : y # x => new[y] = ans[y]
  BY <1>1
<1> HIDE DEF new, m
<1>3. m \in Seq(OfExchange(x)) /\ m \in Seq(Byte) /\ m # <<>>
  <2>1. m \in Seq(OfExchange(x)) /\ m \in Seq(Byte) /\ Len(m) = r[1] + 2
        /\ r[1] \in Nat
    BY <1>1, MessageIs DEF m
  <2> QED BY <2>1
<1>4. /\ p \in Seq(Packet) /\ Len(p) \in Nat \ {0}
      /\ \A i \in 1..Len(p) : p[i].seq = i - 1 /\ Full(p[i].data, i - 1, m)
      /\ IsLast(Len(p) - 1, m)
  BY <1>3, PacketsFacts
<1> HIDE DEF p
<1>5. \A i \in 1..Len(p) : From(p[i].data) = x
  BY <1>1, <1>3, <1>4, FullFrom
<1>6. \A i \in 1..Len(p) : MessageOf(new, p[i].data) = m
  BY <1>2, <1>5 DEF MessageOf, m
<1>7. s \in Seq(Packet) /\ Len(s) \in Nat
  BY DEF Stream
<1>8. /\ all \in Seq(Packet) /\ Len(all) = Len(s) + Len(p)
      /\ \A i \in 1..Len(s) : all[i] = s[i] /\ i \in 1..Len(all)
      /\ \A i \in 1..Len(p) : all[i + Len(s)] = p[i]
  <2>1. \A i \in 1..(Len(s) + Len(p)) : all[i] = IF i <= Len(s) THEN s[i] ELSE p[i - Len(s)]
    BY <1>4, <1>7, SequenceFacts
  <2>2. all \in Seq(Packet) /\ Len(all) = Len(s) + Len(p)
    BY <1>4, <1>7, SequenceFacts
  <2>3. \A i \in 1..Len(s) : i \in 1..(Len(s) + Len(p)) /\ i <= Len(s)
    BY <1>4, <1>7
  <2>4. \A i \in 1..Len(p) : /\ i + Len(s) \in 1..(Len(s) + Len(p))
                             /\ ~(i + Len(s) <= Len(s)) /\ (i + Len(s)) - Len(s) = i
    BY <1>4, <1>7
  <2> QED BY <2>1, <2>2, <2>3, <2>4
<1> HIDE DEF all
<1>9. \A i \in 1..Len(all) :
         \/ i \in 1..Len(s) /\ all[i] = s[i]
         \/ \E j \in 1..Len(p) : i = j + Len(s) /\ all[i] = p[j]
  <2> SUFFICES ASSUME NEW i \in 1..Len(all), i \notin 1..Len(s)
               PROVE  \E j \in 1..Len(p) : i = j + Len(s) /\ all[i] = p[j]
    BY <1>8
  <2>1. i - Len(s) \in 1..Len(p) /\ i = (i - Len(s)) + Len(s)
    BY <1>4, <1>7, <1>8
  <2> QED BY <1>8, <2>1
<1>10. \A i \in 1..Len(s) : /\ From(s[i].data) \in 1..MaxExchanges
                            /\ MessageOf(new, s[i].data) = MessageOf(ans, s[i].data)
  <2> SUFFICES ASSUME NEW i \in 1..Len(s)
               PROVE  /\ From(s[i].data) \in 1..MaxExchanges
                      /\ MessageOf(new, s[i].data) = MessageOf(ans, s[i].data)
    OBVIOUS
  <2>1. PICK y \in 1..top : y = From(s[i].data) /\ y < x
    BY DEF Stream
  <2>2. y \in 1..MaxExchanges /\ y # x
    BY <1>1, <2>1
  <2> QED BY <1>2, <2>1, <2>2 DEF MessageOf
<1>11. \A i \in 1..Len(all) : /\ From(all[i].data) \in 1..top
                              /\ Full(all[i].data, all[i].seq, MessageOf(new, all[i].data))
  <2> SUFFICES ASSUME NEW i \in 1..Len(all)
               PROVE  /\ From(all[i].data) \in 1..top
                      /\ Full(all[i].data, all[i].seq, MessageOf(new, all[i].data))
    OBVIOUS
  <2>1. CASE i \in 1..Len(s) /\ all[i] = s[i]
    <3>1. /\ From(s[i].data) \in 1..top
          /\ Full(s[i].data, s[i].seq, MessageOf(ans, s[i].data))
      BY <2>1 DEF Stream
    <3> QED BY <1>10, <2>1, <3>1
  <2>2. ASSUME NEW j \in 1..Len(p), all[i] = p[j]
        PROVE  /\ From(all[i].data) \in 1..top
               /\ Full(all[i].data, all[i].seq, MessageOf(new, all[i].data))
    BY <1>4, <1>5, <1>6, <2>2
  <2> QED BY <1>9, <2>1, <2>2
<1>12. ASSUME NEW i \in 1..(Len(all) - 1)
       PROVE  Follows(all[i].seq, From(all[i].data), MessageOf(new, all[i].data), all[i + 1])
  <2>1. CASE i + 1 <= Len(s)
    <3>1. i \in 1..(Len(s) - 1) /\ i \in 1..Len(s) /\ i + 1 \in 1..Len(s)
      BY <1>7, <2>1, <1>8, <1>4
    <3>2. all[i] = s[i] /\ all[i + 1] = s[i + 1]
      BY <1>8, <3>1
    <3>3. Follows(s[i].seq, From(s[i].data), MessageOf(ans, s[i].data), s[i + 1])
      BY <3>1 DEF Stream
    <3> QED BY <1>10, <3>1, <3>2, <3>3
  <2>2. CASE i = Len(s)
    <3>1. /\ Len(s) \in 1..Len(s) /\ 1 \in 1..Len(p) /\ s # <<>> /\ i + 1 = 1 + Len(s)
      BY <1>4, <1>7, <1>8, <2>2
    <3>2. all[i] = s[i] /\ all[i + 1] = p[1]
      BY <1>8, <2>2, <3>1
    <3>3. IsLast(s[i].seq, MessageOf(new, s[i].data))
      BY <1>10, <2>2, <3>1 DEF Stream
    <3>4. From(p[1].data) = x /\ p[1].seq = 0 /\ From(s[i].data) < x
      BY <1>4, <1>5, <2>2, <3>1
    <3>5. From(s[i].data) \in Nat
      BY <1>10, <2>2, <3>1, <1>1
    <3> QED BY <3>2, <3>3, <3>4, <3>5, <1>1 DEF Follows
  <2>3. CASE i > Len(s)
    <3>1. PICK j \in Nat : j = i - Len(s)
      BY <1>7, <2>3, <1>8, <1>4
    <3>2. /\ j \in 1..Len(p) /\ j + 1 \in 1..Len(p)
          /\ i = j + Len(s) /\ i + 1 = (j + 1) + Len(s)
      BY <1>4, <1>7, <1>8, <2>3, <3>1
    <3>3. all[i] = p[j] /\ all[i + 1] = p[j + 1]
      BY <1>8, <3>2
    <3>4. ~IsLast(j - 1, m)
      <4>1. Full(p[j + 1].data, j, m)
        BY <1>4, <3>2
      <4>2. (j - 1) * Payload + Payload = j * Payload
        <5>1. j - 1 \in Nat /\ (j - 1) + 1 = j
          BY <3>2
        <5> QED BY <5>1, ConstantsAssumption, Multiples
      <4>3. j * Payload \in Nat /\ Len(m) \in Nat
        BY <1>3, <3>1, ConstantsAssumption, Multiples
      <4> QED BY <4>1, <4>2, <4>3 DEF Full, IsLast
    <3>5. p[j].seq = j - 1 /\ p[j + 1].seq = (j - 1) + 1
      BY <1>4, <3>2
    <3> QED BY <1>5, <1>6, <3>2, <3>3, <3>4, <3>5 DEF Follows
  <2> QED BY <1>4, <1>7, <1>8, <2>1, <2>2, <2>3
<1>13. all # <<>> /\ IsLast(all[Len(all)].seq, MessageOf(new, all[Len(all)].data))
  <2>1. Len(p) \in 1..Len(p) /\ Len(all) = Len(p) + Len(s) /\ Len(all) # 0
    BY <1>4, <1>7, <1>8
  <2>2. all[Len(all)] = p[Len(p)] /\ p[Len(p)].seq = Len(p) - 1
    BY <1>4, <1>8, <2>1
  <2> QED BY <1>4, <1>6, <1>8, <2>1, <2>2
<1>14. Stream(all, new, top)
  BY <1>8, <1>11, <1>12, <1>13 DEF Stream
<1>15. s # <<>> => all[1] = s[1]
  BY <1>7, <1>8
<1>16. s = <<>> => From(all[1].data) = x /\ all[1].seq = 0
  <2>1. s = <<>> => 1 \in 1..Len(p) /\ 1 + Len(s) = 1
    BY <1>4
  <2> QED BY <1>4, <1>5, <1>8, <2>1
<1>17. \A i \in 1..Len(all) : From(all[i].data) = x \/ (i \in 1..Len(s) /\ all[i] = s[i])
  BY <1>5, <1>9
<1>18. Grown(s, top, x, new, all)
  BY <1>2, <1>13, <1>14, <1>15, <1>16, <1>17 DEF Grown
<1> QED BY <1>18 DEF new, all, p, m

-----------------------------------------------------------------------------
(* Requests on their way to the device.                                    *)

LEMMA RequestMessage ==
    ASSUME NEW x \in Nat, NEW size \in RequestSizes, NEW m, m = WithLength(x, Request(x, size))
    PROVE  /\ m \in Seq(Byte) /\ m # <<>> /\ Len(m) = size + 2 /\ Length(m) = size
           /\ size \in Nat \ {0}
           /\ Request(x, size) \in Seq(Byte) /\ Len(Request(x, size)) = size
           /\ \A i \in 1..size : m[i + 2] = Request(x, size)[i]
<1>1. PICK r : r = Request(x, size)
  OBVIOUS
<1>2. r \in Seq(OfExchange(x)) /\ Len(r) = size /\ size \in 1..MaxLength
  BY <1>1, RequestFacts
<1>3. size \in Nat \ {0} /\ size <= MaxLength /\ Len(r) >= 1 /\ Len(r) <= MaxLength
  BY <1>2, MaxLengthFacts
<1>4. /\ WithLength(x, r) \in Seq(OfExchange(x)) /\ Len(WithLength(x, r)) = Len(r) + 2
      /\ Length(WithLength(x, r)) = Len(r)
      /\ \A i \in 1..Len(r) : WithLength(x, r)[i + 2] = r[i]
  BY <1>2, <1>3, MessageFacts
<1>5. m \in Seq(Byte) /\ r \in Seq(Byte)
  BY <1>1, <1>2, <1>4, OfExchangeFacts
<1>6. m # <<>>
  BY <1>1, <1>2, <1>3, <1>4
<1> QED BY <1>1, <1>2, <1>3, <1>4, <1>5, <1>6

LEMMA WithoutLength ==
    ASSUME NEW bytes \in Seq(Byte), NEW r \in Seq(Byte), Len(bytes) = 2 + Len(r),
           \A i \in 1..Len(r) : bytes[i + 2] = r[i]
    PROVE  SubSeq(bytes, 3, 2 + Len(r)) = r
<1>1. PICK t : t = SubSeq(bytes, 3, 2 + Len(r))
  OBVIOUS
<1>2. t \in Seq(Byte) /\ Len(t) = Len(r) /\ \A i \in 1..Len(r) : t[i] = bytes[i + 2]
  BY <1>1
<1> QED BY <1>1, <1>2, SeqEqual

\* The device has dev, takes chunk k and then has these bytes.
Taken(m, dev, k, d, bytes) ==
    /\ dev \in Seq(Byte) /\ Part(d, k, m)
    /\ k > 0 => Len(dev) = k * Payload /\ \A j \in 1..Len(dev) : dev[j] = m[j]
    /\ bytes = IF k = 0 THEN d ELSE dev \o d

\* What the device has of a request after one more chunk: a beginning of it,
\* and the whole, recognised as such, after the last.
LEMMA TakeFacts ==
    ASSUME NEW x \in Nat, NEW size \in RequestSizes,
           NEW m, m = WithLength(x, Request(x, size)),
           NEW dev, NEW k, NEW d, NEW bytes, Taken(m, dev, k, d, bytes)
    PROVE  /\ bytes \in Seq(Byte) /\ Len(bytes) >= 2 /\ Length(bytes) = size
           /\ \A j \in 1..Len(bytes) : bytes[j] = m[j]
           /\ IsLast(k, m) =>
                 Len(bytes) = 2 + size /\ SubSeq(bytes, 3, 2 + size) = Request(x, size)
           /\ ~IsLast(k, m) => Len(bytes) = (k + 1) * Payload /\ Len(bytes) < 2 + size
<1>1. /\ m \in Seq(Byte) /\ Len(m) = size + 2 /\ Length(m) = size /\ size \in Nat \ {0}
      /\ Request(x, size) \in Seq(Byte) /\ Len(Request(x, size)) = size
      /\ \A i \in 1..size : m[i + 2] = Request(x, size)[i]
  BY RequestMessage
<1> USE DEF Taken
<1>2. Payload \in Nat /\ Payload >= 2
  BY ConstantsAssumption
<1>3. PICK a \in Nat : /\ a = k * Payload /\ a < Len(m) /\ k \in Nat
                       /\ (k + 1) * Payload = a + Payload /\ (k = 0 => a = 0)
  BY <1>2, Multiples DEF Part
<1>4. /\ d \in Seq(Byte) /\ Len(d) = IF Payload <= Len(m) - a THEN Payload ELSE Len(m) - a
      /\ \A j \in 1..Len(d) : d[j] = m[a + j]
  BY <1>3 DEF Part, Least
<1>5. PICK w \in Nat : /\ w = Len(d) /\ a + w <= size + 2 /\ a + w >= 2 /\ w >= 1
                       /\ (IsLast(k, m) => a + w = 2 + size)
                       /\ (~IsLast(k, m) => a + w = (k + 1) * Payload /\ a + w < 2 + size)
  <2>1. Len(d) \in Nat /\ (IsLast(k, m) <=> size + 2 <= a + Payload)
    BY <1>1, <1>3, <1>4 DEF IsLast
  <2>2. PICK b \in Nat : b = (k + 1) * Payload /\ b = a + Payload
    BY <1>2, <1>3
  <2>3. PICK w \in Nat : w = Len(d)
    BY <2>1
  <2>4. /\ a < size + 2 /\ w = IF Payload <= size + 2 - a THEN Payload ELSE size + 2 - a
    BY <1>1, <1>3, <1>4, <2>3
  <2>5. /\ a + w <= size + 2 /\ a + w >= 2 /\ w >= 1
        /\ (IsLast(k, m) => a + w = 2 + size)
        /\ (~IsLast(k, m) => a + w = b /\ a + w < 2 + size)
    BY <1>1, <1>2, <2>1, <2>2, <2>4
  <2> QED BY <2>2, <2>3, <2>5
<1>6. /\ bytes \in Seq(Byte) /\ Len(bytes) = a + w
      /\ \A j \in 1..(a + w) : bytes[j] = m[j]
  <2>1. CASE k = 0
    BY <1>3, <1>4, <1>5, <2>1
  <2>2. CASE k # 0
    <3>1. /\ bytes = dev \o d /\ Len(dev) = a
          /\ \A j \in 1..a : dev[j] = m[j]
      BY <1>3, <2>2
    <3>2. /\ dev \o d \in Seq(Byte) /\ Len(dev \o d) = Len(dev) + Len(d)
          /\ \A j \in 1..(Len(dev) + Len(d)) :
                (dev \o d)[j] = IF j <= Len(dev) THEN dev[j] ELSE d[j - Len(dev)]
      BY <1>4, SequenceFacts
    <3>3. /\ bytes \in Seq(Byte) /\ Len(bytes) = a + w
          /\ \A j \in 1..(a + w) : bytes[j] = IF j <= a THEN dev[j] ELSE d[j - a]
      BY <1>5, <3>1, <3>2
    <3>4. \A j \in 1..(a + w) :
             (j <= a => j \in 1..a) /\ (~(j <= a) => j - a \in 1..w /\ a + (j - a) = j)
      BY <1>3, <1>5
    <3>5. \A i \in 1..w : d[i] = m[a + i]
      BY <1>4, <1>5
    <3> QED BY <3>1, <3>3, <3>4, <3>5
  <2> QED BY <2>1, <2>2
<1>7. Length(bytes) = size
  <2>1. bytes[1] = m[1] /\ bytes[2] = m[2]
    BY <1>5, <1>6
  <2> QED BY <1>1, <2>1 DEF Length
<1>8. ASSUME IsLast(k, m) PROVE SubSeq(bytes, 3, 2 + size) = Request(x, size)
  <2>1. Len(bytes) = 2 + size
    BY <1>5, <1>6, <1>8
  <2>2. PICK r \in Seq(Byte) : r = Request(x, size)
    BY <1>1
  <2>3. \A i \in 1..Len(r) : i + 2 \in 1..(a + w) /\ m[i + 2] = r[i] /\ bytes[i + 2] = r[i]
    BY <1>1, <1>5, <1>6, <1>8, <2>2
  <2>4. SubSeq(bytes, 3, 2 + Len(r)) = r
    BY <1>1, <1>6, <2>1, <2>2, <2>3, WithoutLength
  <2> QED BY <1>1, <2>2, <2>4
<1> QED BY <1>5, <1>6, <1>7, <1>8

-----------------------------------------------------------------------------
(* The invariant holds initially and at the start of an exchange.          *)

LEMMA EmptyIsSeq == \A S : <<>> \in Seq(S) /\ Len(<<>>) = 0
OBVIOUS

LEMMA NoResultFacts ==
    /\ NoResult \in [ok : BOOLEAN, of : Nat, bytes : Seq(Byte), cut : Seq(Byte)]
    /\ NoResult.ok = FALSE
    /\ \A x \in Nat : /\ Failure(x) \in [ok : BOOLEAN, of : Nat, bytes : Seq(Byte), cut : Seq(Byte)]
                      /\ Failure(x).ok = FALSE /\ (x # 0 => Failure(x) # NoResult)
BY EmptyIsSeq DEF NoResult, Failure, Result

LEMMA SomeAnswers == \E ans : ans \in [1..MaxExchanges -> Replies]
<1>1. [x \in 1..MaxExchanges |-> <<2, Denied>>] \in [1..MaxExchanges -> Replies]
  BY DEF Replies
<1> QED BY <1>1

LEMMA InitInv == ASSUME Init PROVE Inv
<1>1. HostInv
  BY NoResultFacts, EmptyIsSeq, ConstantsAssumption DEF Init, HostInv, Sent
<1>2. WriteInv /\ AskInv /\ OrderInv /\ CalmInv
  BY EmptyIsSeq DEF Init, WriteInv, AskInv, OrderInv, CalmInv
<1>3. AnswerInv
  BY SomeAnswers, StreamEmpty DEF Init, AnswerInv, ReadInv
<1> QED BY <1>1, <1>2, <1>3 DEF Inv

LEMMA StartInv == ASSUME Inv, NEW size \in RequestSizes, StartExchange(size) PROVE Inv'
<1>1. /\ phase = "idle" /\ n < MaxExchanges /\ n' = n + 1 /\ phase' = "write"
      /\ out' = Chunks(WithLength(n', Request(n', size)))
      /\ hfSeq' = 0 /\ want' = 0 /\ got' = <<>> /\ result' = NoResult
      /\ UNCHANGED <<hfPos, hfBuf, in, device, asked, calm, newest>>
  BY DEF StartExchange
<1>2. HostInv /\ n \in Nat /\ n' \in Nat
  BY ConstantsAssumption, <1>1 DEF Inv, HostInv
<1>3. Sent' = Sent /\ Sent = n
  BY <1>1, <1>2 DEF Sent
<1>4. HostInv'
  BY <1>1, <1>2, <1>3, NoResultFacts, EmptyIsSeq, ConstantsAssumption DEF HostInv
<1>5. WriteInv'
  <2>1. PICK x, m : x = n' /\ m = WithLength(x, Request(x, size))
    OBVIOUS
  <2>2. x \in Nat /\ m \in Seq(Byte) /\ m # <<>>
    BY <1>2, <2>1, RequestMessage
  <2>3. /\ Chunks(m) \in Seq(Chunk) /\ Len(Chunks(m)) \in Nat \ {0}
        /\ \A i \in 1..Len(Chunks(m)) :
              Chunks(m)[i].seq = i - 1 /\ Part(Chunks(m)[i].data, i - 1, m)
        /\ IsLast(Len(Chunks(m)) - 1, m)
    BY <2>2, ChunksFacts
  <2>4. out' = Chunks(m)
    BY <1>1, <2>1
  <2>5. PICK c : c = out'
    OBVIOUS
  <2>6. /\ c \in Seq(Chunk) /\ c # <<>> /\ 1 \in 1..Len(c) /\ Len(c) \in 1..Len(c) /\ Len(c) \in Nat
        /\ \A i \in 1..Len(c) : c[i].seq = i - 1 /\ Part(c[i].data, c[i].seq, m)
        /\ IsLast(c[Len(c)].seq, m)
    BY <2>3, <2>4, <2>5
  <2>7. c[1].seq = 0 /\ \A i \in 1..Len(c) : c[i].seq = c[1].seq + i - 1
    BY <2>6
  <2> QED BY <2>1, <2>5, <2>6, <2>7 DEF WriteInv
<1>6. AskInv'
  BY <1>1, <1>3 DEF Inv, AskInv
<1>7. OrderInv' /\ CalmInv'
  <2>1. OrderInv'
    BY <1>1 DEF Inv, OrderInv
  <2>2. CalmInv'
    BY <1>1, EmptyIsSeq DEF Inv, CalmInv
  <2> QED BY <2>1, <2>2
<1>8. AnswerInv'
  BY <1>1, <1>3 DEF Inv, AnswerInv, ReadInv
<1> QED BY <1>4, <1>5, <1>6, <1>7, <1>8 DEF Inv

-----------------------------------------------------------------------------
(* A chunk reaches the device.                                             *)

\* One more chunk of the request is with the device, and it was not the last.
LEMMA MiddleChunk ==
    ASSUME Inv, WriteChunk, NEW size \in RequestSizes,
           NEW m, m = WithLength(n, Request(n, size)), NEW c, c = out,
           c \in Seq(Chunk), c # <<>>,
           \A i \in 1..Len(c) : c[i].seq = c[1].seq + i - 1 /\ Part(c[i].data, c[i].seq, m),
           IsLast(c[Len(c)].seq, m),
           NEW bytes \in Seq(Byte), device' = bytes, asked' = asked,
           ~IsLast(c[1].seq, m), Len(bytes) = (c[1].seq + 1) * Payload,
           \A j \in 1..Len(bytes) : bytes[j] = m[j]
    PROVE  Inv'
<1>1. /\ phase = "write" /\ out' = Tail(c)
      /\ UNCHANGED <<n, framer, got, result, in, calm, newest>>
  BY DEF WriteChunk
<1>2. PICK t : t = Tail(c)
  OBVIOUS
<1>3. /\ t \in Seq(Chunk) /\ Len(t) = Len(c) - 1 /\ Len(c) \in Nat \ {0}
      /\ \A i \in 1..(Len(c) - 1) : t[i] = c[i + 1]
  BY <1>2, TailFacts
<1>4. Len(c) >= 2 /\ t # <<>> /\ Len(t) \in Nat
  BY <1>3
<1>5. phase' = phase /\ want' = want
  BY <1>1, <1>2, <1>4 DEF WriteChunk
<1>6. c[1].seq \in Nat /\ t[1].seq = c[1].seq + 1
  <2>1. 1 \in 1..Len(c) /\ 1 + 1 \in 1..Len(c) /\ t[1] = c[1 + 1]
    BY <1>3, <1>4
  <2>2. c[1].seq \in Nat
    BY <2>1 DEF Part
  <2>3. c[1 + 1].seq = c[1].seq + (1 + 1) - 1
    BY <2>1
  <2> QED BY <2>1, <2>2, <2>3
<1>7. \A i \in 1..Len(t) : t[i].seq = t[1].seq + i - 1 /\ Part(t[i].data, t[i].seq, m)
  <2> SUFFICES ASSUME NEW i \in 1..Len(t)
               PROVE  t[i].seq = t[1].seq + i - 1 /\ Part(t[i].data, t[i].seq, m)
    OBVIOUS
  <2>1. i + 1 \in 1..Len(c) /\ t[i] = c[i + 1]
    BY <1>3
  <2>2. t[i].seq = c[1].seq + (i + 1) - 1 /\ Part(t[i].data, t[i].seq, m)
    BY <2>1
  <2>3. PICK a \in Nat : a = c[1].seq
    BY <1>6
  <2>4. a + (i + 1) - 1 = (a + 1) + i - 1
    BY <1>4
  <2> QED BY <1>6, <2>2, <2>3, <2>4
<1>8. IsLast(t[Len(t)].seq, m)
  <2>1. t[Len(t)] = c[Len(c)]
    BY <1>3, <1>4
  <2> QED BY <2>1
<1>9. HostInv' /\ Sent' = Sent
  <2>1. HostInv
    BY DEF Inv
  <2>2. Sent' = Sent
    BY <1>1, <1>5 DEF Sent
  <2> QED BY <1>1, <1>5, <2>1, <2>2 DEF HostInv, framer
<1>10. WriteInv'
  <2>1. /\ out' = t /\ n' = n /\ device' = bytes
        /\ Len(bytes) = t[1].seq * Payload
    BY <1>1, <1>2, <1>6
  <2>3. PICK x : x = n'
    OBVIOUS
  <2>4. m = WithLength(x, Request(x, size))
    BY <2>1, <2>3
  <2> QED BY <1>3, <1>4, <1>7, <1>8, <2>1, <2>3, <2>4 DEF WriteInv
<1>11. AskInv' /\ OrderInv' /\ CalmInv' /\ AnswerInv'
  <2>1. /\ UNCHANGED <<n, phase, result, in, calm, newest, asked, want, got, hfBuf, hfSeq, hfPos>>
        /\ Sent' = Sent /\ phase = "write"
    BY <1>1, <1>5, <1>9 DEF framer
  <2>2. AskInv'
    BY <2>1 DEF Inv, AskInv
  <2>3. OrderInv' /\ CalmInv'
    BY <2>1 DEF Inv, OrderInv, CalmInv
  <2>4. AnswerInv'
    BY <2>1 DEF Inv, AnswerInv, ReadInv
  <2> QED BY <2>2, <2>3, <2>4
<1> QED BY <1>9, <1>10, <1>11 DEF Inv

\* The last chunk completes the request, which is newer than all answers.
LEMMA LastChunk ==
    ASSUME Inv, WriteChunk, NEW size \in RequestSizes,
           out' = <<>>, device' = <<>>, asked' = Request(n, size)
    PROVE  Inv'
<1>1. /\ phase = "write" /\ phase' = "length" /\ want' = 2
      /\ UNCHANGED <<n, framer, got, result, in, calm, newest>>
  BY DEF WriteChunk
<1>2. HostInv /\ n \in Nat /\ n > 0
  BY <1>1, ConstantsAssumption DEF Inv, HostInv
<1>3. Sent = n - 1 /\ Sent' = n /\ newest \in 0..(n - 1)
  BY <1>1, <1>2 DEF Sent, HostInv
<1>4. HostInv'
  BY <1>1, <1>2, <1>3, EmptyIsSeq DEF HostInv, framer
<1>5. PICK ans \in [1..MaxExchanges -> Replies] : Stream(in, ans, n - 1)
  BY <1>3 DEF Inv, AnswerInv
<1>6. asked' # <<>> /\ asked'[1][2] = n
  BY <1>2, RequestFacts
<1>7. AskInv'
  <2>1. n \in (newest + 1)..n /\ \A i \in 1..Len(in) : From(in[i].data) < n
    BY <1>2, <1>3, <1>5 DEF Stream
  <2> QED BY <1>1, <1>3, <2>1 DEF AskInv
<1>8. WriteInv' /\ OrderInv'
  BY <1>1 DEF Inv, WriteInv, OrderInv
<1>9. CalmInv'
  BY <1>1, <1>6, EmptyIsSeq DEF Inv, CalmInv
<1>10. AnswerInv'
  <2>1. Stream(in, ans, n)
    BY <1>2, <1>5, StreamMore
  <2> QED BY <1>1, <1>3, <2>1 DEF AnswerInv, ReadInv
<1> QED BY <1>4, <1>7, <1>8, <1>9, <1>10 DEF Inv

LEMMA WriteStep == ASSUME Inv, WriteChunk PROVE Inv'
<1>1. phase = "write" /\ DeviceTake(Head(out)) /\ out' = Tail(out)
  BY DEF WriteChunk
<1>2. HostInv /\ WriteInv /\ n \in Nat /\ device \in Seq(Byte)
  BY ConstantsAssumption DEF Inv, HostInv
<1>3. PICK c : c = out
  OBVIOUS
<1>4. PICK size, m :
         /\ size \in RequestSizes /\ m = WithLength(n, Request(n, size))
         /\ c \in Seq(Chunk) /\ c # <<>>
         /\ \A i \in 1..Len(c) : c[i].seq = c[1].seq + i - 1 /\ Part(c[i].data, c[i].seq, m)
         /\ IsLast(c[Len(c)].seq, m)
         /\ c[1].seq > 0 => /\ Len(device) = c[1].seq * Payload
                            /\ \A j \in 1..Len(device) : device[j] = m[j]
  BY <1>1, <1>2, <1>3 DEF WriteInv
<1>5. /\ Len(c) \in Nat \ {0} /\ Head(c) = c[1] /\ 1 \in 1..Len(c)
      /\ Len(Tail(c)) = Len(c) - 1
  BY <1>4, TailFacts
<1>6. PICK k, d : k = c[1].seq /\ d = c[1].data /\ Part(d, k, m) /\ k \in Nat
  BY <1>4, <1>5 DEF Part
<1>7. PICK bytes : bytes = IF k = 0 THEN d ELSE device \o d
  OBVIOUS
<1>8. k > 0 => Len(device) = k * Payload /\ \A j \in 1..Len(device) : device[j] = m[j]
  BY <1>4, <1>6
<1>9. /\ bytes \in Seq(Byte) /\ Len(bytes) >= 2 /\ Length(bytes) = size
      /\ \A j \in 1..Len(bytes) : bytes[j] = m[j]
      /\ IsLast(k, m) =>
            Len(bytes) = 2 + size /\ SubSeq(bytes, 3, 2 + size) = Request(n, size)
      /\ ~IsLast(k, m) => Len(bytes) = (k + 1) * Payload /\ Len(bytes) < 2 + size
  <2>1. PICK x \in Nat, dev \in Seq(Byte) : x = n /\ dev = device
    BY <1>2
  <2>2. m = WithLength(x, Request(x, size)) /\ size \in RequestSizes
    BY <1>4, <2>1
  <2>3. k > 0 => Len(dev) = k * Payload /\ \A j \in 1..Len(dev) : dev[j] = m[j]
    BY <1>8, <2>1
  <2>4. Taken(m, dev, k, d, bytes)
    BY <1>6, <1>7, <2>1, <2>3 DEF Taken
  <2>5. /\ bytes \in Seq(Byte) /\ Len(bytes) >= 2 /\ Length(bytes) = size
        /\ \A j \in 1..Len(bytes) : bytes[j] = m[j]
        /\ IsLast(k, m) =>
              Len(bytes) = 2 + size /\ SubSeq(bytes, 3, 2 + size) = Request(x, size)
        /\ ~IsLast(k, m) => Len(bytes) = (k + 1) * Payload /\ Len(bytes) < 2 + size
    BY <2>2, <2>4, TakeFacts
  <2> QED BY <2>1, <2>5
<1>10. IF Len(bytes) >= 2 /\ Len(bytes) >= 2 + size
       THEN device' = <<>> /\ asked' = SubSeq(bytes, 3, 2 + size)
       ELSE device' = bytes /\ asked' = asked
  BY <1>1, <1>3, <1>5, <1>6, <1>7, <1>9 DEF DeviceTake
<1>11. size \in Nat /\ Len(bytes) \in Nat
  BY <1>2, <1>4, <1>9, RequestMessage
<1>12. CASE IsLast(k, m)
  <2>1. device' = <<>> /\ asked' = Request(n, size)
    <3>1. Len(bytes) >= 2 /\ Len(bytes) >= 2 + size
      BY <1>9, <1>11, <1>12
    <3> QED BY <1>9, <1>10, <1>12, <3>1
  <2>2. Len(c) = 1
    <3> SUFFICES ASSUME Len(c) >= 2 PROVE FALSE
      BY <1>5
    <3>1. 2 \in 1..Len(c) /\ c[2].seq = k + 2 - 1
      BY <1>4, <1>5, <1>6
    <3>2. k + 2 - 1 = k + 1
      BY <1>6
    <3>3. (k + 1) * Payload < Len(m)
      BY <1>4, <3>1, <3>2 DEF Part
    <3>4. (k + 1) * Payload = k * Payload + Payload /\ k * Payload \in Nat
      BY <1>6, ConstantsAssumption, Multiples
    <3>5. Len(m) \in Nat
      BY <1>2, <1>4, RequestMessage
    <3> QED BY <1>12, <3>3, <3>4, <3>5, ConstantsAssumption DEF IsLast
  <2>3. out' = <<>>
    <3>1. Tail(c) \in Seq(Chunk) /\ Len(Tail(c)) = 0
      BY <1>4, <1>5, <2>2
    <3> QED BY <1>1, <1>3, <3>1
  <2> QED BY <1>4, <2>1, <2>3, LastChunk
<1>13. CASE ~IsLast(k, m)
  <2>1. device' = bytes /\ asked' = asked
    BY <1>9, <1>10, <1>11, <1>13
  <2>2. Len(c) # 1
    BY <1>4, <1>6, <1>13
  <2> QED BY <1>3, <1>4, <1>6, <1>9, <1>13, <2>1, MiddleChunk
<1> QED BY <1>12, <1>13

-----------------------------------------------------------------------------
(* The host reads.                                                         *)

Results == [ok : BOOLEAN, of : Nat, bytes : Seq(Byte), cut : Seq(Byte)]

\* Cutting the status word off a response loses nothing of it.
LEMMA FinishFacts ==
    ASSUME NEW resp \in Seq(Byte), Len(resp) >= 2, n \in Nat, Finish(resp)
    PROVE  /\ phase' = "idle" /\ want' = 0 /\ got' = <<>>
           /\ result' \in Results /\ result'.ok /\ result'.of = n /\ Len(result'.cut) = 2
           /\ result'.bytes \o result'.cut = resp
<1>1. PICK size \in Nat : size = Len(resp) /\ size >= 2
  OBVIOUS
<1>2. PICK a, b : a = SubSeq(resp, 1, size - 2) /\ b = SubSeq(resp, size - 1, size)
  OBVIOUS
<1>3. /\ a \in Seq(Byte) /\ Len(a) = size - 2 /\ \A i \in 1..(size - 2) : a[i] = resp[i]
  BY <1>1, <1>2
<1>4. /\ b \in Seq(Byte) /\ Len(b) = 2 /\ b[1] = resp[size - 1] /\ b[2] = resp[size]
  <2>1. PICK e \in Nat \ {0} : e = size - 1 /\ size = e + 1
    BY <1>1
  <2>2. /\ SubSeq(resp, e, e + 1) \in Seq(Byte)
        /\ Len(SubSeq(resp, e, e + 1)) = (e + 1) - e + 1
        /\ \A i \in 1..((e + 1) - e + 1) : SubSeq(resp, e, e + 1)[i] = resp[e + i - 1]
    BY <1>1, <2>1, SubSeqFacts
  <2>3. b = SubSeq(resp, e, e + 1)
    BY <1>2, <2>1
  <2>4. (e + 1) - e + 1 = 2 /\ e + 1 - 1 = e /\ e + 2 - 1 = e + 1
    OBVIOUS
  <2>5. b \in Seq(Byte) /\ Len(b) = 2 /\ \A i \in 1..2 : b[i] = resp[e + i - 1]
    BY <2>2, <2>3, <2>4
  <2>6. b[1] = resp[e] /\ b[2] = resp[e + 1]
    BY <2>4, <2>5
  <2>7. size - 1 = e /\ size = e + 1
    BY <2>1
  <2>8. b[1] = resp[size - 1]
    BY <2>6, <2>7
  <2>9. b[2] = resp[size]
    BY <2>6, <2>7
  <2> QED BY <2>5, <2>8, <2>9
<1>5. phase' = "idle" /\ want' = 0 /\ got' = <<>> /\ result' = Result(TRUE, n, a, b)
  <2>1. Len(resp) - 2 = size - 2 /\ Len(resp) - 1 = size - 1 /\ ~(Len(resp) < 2)
    BY <1>1
  <2>2. /\ phase' = "idle" /\ want' = 0 /\ got' = <<>>
        /\ result' = Result(TRUE, n, SubSeq(resp, 1, Len(resp) - 2),
                            SubSeq(resp, Len(resp) - 1, Len(resp)))
    BY <2>1 DEF Finish
  <2> QED BY <1>1, <1>2, <2>1, <2>2
<1>6. a \o b = resp
  <2>1. PICK t : t = a \o b
    OBVIOUS
  <2>2. /\ t \in Seq(Byte) /\ Len(t) = size
        /\ \A i \in 1..size : t[i] = IF i <= size - 2 THEN a[i] ELSE b[i - (size - 2)]
    <3>1. /\ a \o b \in Seq(Byte) /\ Len(a \o b) = Len(a) + Len(b)
          /\ \A i \in 1..(Len(a) + Len(b)) :
                (a \o b)[i] = IF i <= Len(a) THEN a[i] ELSE b[i - Len(a)]
      BY <1>3, <1>4, SequenceFacts
    <3>2. (size - 2) + 2 = size
      BY <1>1
    <3> QED BY <1>3, <1>4, <2>1, <3>1, <3>2
  <2>3. ASSUME NEW i \in 1..size PROVE t[i] = resp[i]
    <3>1. CASE i <= size - 2
      BY <1>1, <1>3, <2>2, <3>1
    <3>2. CASE i = size - 1
      <4>1. i - (size - 2) = 1 /\ ~(i <= size - 2)
        BY <1>1, <3>2
      <4> QED BY <1>4, <2>2, <3>2, <4>1
    <3>3. CASE i = size
      <4>1. i - (size - 2) = 2 /\ ~(i <= size - 2)
        BY <1>1, <3>3
      <4> QED BY <1>4, <2>2, <3>3, <4>1
    <3> QED BY <1>1, <3>1, <3>2, <3>3
  <2> QED BY <1>1, <2>1, <2>2, <2>3, SeqEqual
<1> QED BY <1>3, <1>4, <1>5, <1>6 DEF Result, Results

\* Whose bytes a result holds.
LEMMA SourcesFacts ==
    ASSUME NEW x \in Nat, NEW res \in Results,
           res.bytes \o res.cut \in Seq(OfExchange(x) \cup {Pad})
    PROVE  /\ Sources(res) \in {{}, {x}}
           /\ res.bytes \o res.cut \in Seq(OfExchange(x)) /\ Len(res.bytes \o res.cut) > 0
                 => Sources(res) = {x}
<1>1. PICK s : s = res.bytes \o res.cut
  OBVIOUS
<1>2. Sources(res) = {b[2] : b \in ToSet(s) \ {Pad}}
  BY <1>1 DEF Sources
<1>3. \A b \in ToSet(s) : b \in OfExchange(x) \cup {Pad}
  <2>1. PICK T : T = OfExchange(x) \cup {Pad} /\ s \in Seq(T)
    BY <1>1
  <2>2. \A b \in ToSet(s) : b \in T
    BY <2>1 DEF ToSet
  <2> QED BY <2>1, <2>2
<1>4. \A b \in ToSet(s) \ {Pad} : b[2] = x
  BY <1>3, OfExchangeFacts
<1>5. Sources(res) \subseteq {x}
  BY <1>2, <1>4
<1>6. ASSUME s \in Seq(OfExchange(x)), Len(s) > 0 PROVE x \in Sources(res)
  <2>1. s[1] \in OfExchange(x) /\ s[1] \in ToSet(s)
    BY <1>6 DEF ToSet
  <2> QED BY <1>2, <2>1, OfExchangeFacts
<1> QED BY <1>1, <1>5, <1>6

\* The exchange ends with the answer r to exchange x.
Returned(x, r) ==
    /\ phase' = "idle" /\ want' = 0 /\ got' = <<>> /\ newest' = x
    /\ result' \in Results /\ result'.ok /\ result'.of = n /\ Len(result'.cut) = 2
    /\ result'.bytes \o result'.cut = Answer(x, r[1], r[2])
    /\ Sources(result') = {x}

\* More bytes of the answer, but not all.
Continued(m, k) ==
    /\ UNCHANGED <<phase, want, result, newest>>
    /\ got' \in Seq(Byte) /\ Len(got') = Len(got) + k /\ Len(got') < want
    /\ \A j \in 1..Len(got') : got'[j] = m[j + 2]

\* The next bytes of the answer: it is complete, or goes on.
NextBytes(bytes, m) ==
    /\ bytes \in Seq(Byte) /\ Len(got) + Len(bytes) <= want
    /\ \A j \in 1..Len(bytes) : bytes[j] = m[Len(got) + j + 2]

LEMMA FillFacts ==
    ASSUME HostInv, phase = "payload", NEW x \in Nat, NEW r \in Replies,
           NEW m, m = Message(x, r), want = Len(m) - 2, Len(got) < want,
           \A j \in 1..Len(got) : got[j] = m[j + 2],
           NEW bytes, NextBytes(bytes, m), Fill(bytes), Note
    PROVE  \/ Len(got) + Len(bytes) < want /\ Continued(m, Len(bytes))
           \/ Len(got) + Len(bytes) = want /\ Returned(x, r)
<1>1. /\ Len(m) = r[1] + 2 /\ r[1] \in Nat /\ r[1] >= 2
      /\ Answer(x, r[1], r[2]) \in Seq(OfExchange(x)) /\ Len(Answer(x, r[1], r[2])) = r[1]
      /\ \A i \in 1..r[1] : m[i + 2] = Answer(x, r[1], r[2])[i]
  <2>1. /\ Len(Message(x, r)) = r[1] + 2 /\ r[1] \in Nat /\ r[1] >= 2
        /\ Answer(x, r[1], r[2]) \in Seq(OfExchange(x)) /\ Len(Answer(x, r[1], r[2])) = r[1]
        /\ \A i \in 1..r[1] : Message(x, r)[i + 2] = Answer(x, r[1], r[2])[i]
    BY ONLY MessageIs, x \in Nat, r \in Replies
  <2>2. PICK a : a = Answer(x, r[1], r[2])
    OBVIOUS
  <2>3. Len(m) = r[1] + 2
    BY <2>1
  <2>4. ASSUME NEW i \in 1..r[1] PROVE m[i + 2] = a[i]
    <3>1. Message(x, r)[i + 2] = Answer(x, r[1], r[2])[i]
      BY <2>1
    <3> QED BY <2>2, <3>1, Zenon
  <2>5. \A i \in 1..r[1] : m[i + 2] = Answer(x, r[1], r[2])[i]
    BY <2>2, <2>4
  <2>6. r[1] \in Nat /\ r[1] >= 2
    BY <2>1
  <2>7. Answer(x, r[1], r[2]) \in Seq(OfExchange(x)) /\ Len(Answer(x, r[1], r[2])) = r[1]
    BY <2>1
  <2> QED BY <2>3, <2>5, <2>6, <2>7
<1>2. n \in Nat /\ got \in Seq(Byte) /\ Len(got) \in Nat /\ want = r[1]
  <2>1. n \in Nat /\ got \in Seq(Byte)
    BY ConstantsAssumption DEF HostInv
  <2>2. (r[1] + 2) - 2 = r[1]
    BY <1>1
  <2> QED BY <1>1, <2>1, <2>2
<1>3. /\ bytes \in Seq(Byte) /\ Len(bytes) \in Nat /\ Len(got) + Len(bytes) <= want
      /\ \A j \in 1..Len(bytes) : bytes[j] = m[Len(got) + j + 2]
  BY DEF NextBytes
<1>4. PICK now : now = got \o bytes
  OBVIOUS
<1>5. /\ now \in Seq(Byte) /\ Len(now) = Len(got) + Len(bytes)
      /\ \A i \in 1..(Len(got) + Len(bytes)) :
            now[i] = IF i <= Len(got) THEN got[i] ELSE bytes[i - Len(got)]
  BY <1>2, <1>3, <1>4, SequenceFacts
<1>6. \A i \in 1..Len(now) : now[i] = m[i + 2]
  <2> SUFFICES ASSUME NEW i \in 1..Len(now) PROVE now[i] = m[i + 2]
    OBVIOUS
  <2>1. CASE i <= Len(got)
    BY <1>2, <1>5, <2>1
  <2>2. CASE ~(i <= Len(got))
    <3>1. i - Len(got) \in 1..Len(bytes) /\ Len(got) + (i - Len(got)) + 2 = i + 2
      BY <1>2, <1>3, <1>5, <2>2
    <3> QED BY <1>3, <1>5, <2>2, <3>1
  <2> QED BY <2>1, <2>2
<1>7. CASE Len(now) < want
  <2>1. got' = now /\ UNCHANGED <<phase, want, result>>
    BY <1>4, <1>7 DEF Fill
  <2>2. newest' = newest
    BY <2>1 DEF Note
  <2> QED BY <1>5, <1>6, <1>7, <2>1, <2>2 DEF Continued
<1>8. CASE ~(Len(now) < want)
  <2>1. Len(now) = want /\ Len(now) = r[1]
    BY <1>1, <1>2, <1>3, <1>5, <1>8
  <2>2. now = Answer(x, r[1], r[2])
    <3>1. PICK a : a = Answer(x, r[1], r[2])
      OBVIOUS
    <3>2. a \in Seq(Byte) /\ Len(a) = Len(now) /\ \A i \in 1..Len(now) : now[i] = a[i]
      BY <1>1, <1>6, <2>1, <3>1, OfExchangeFacts
    <3> QED BY <1>5, <3>1, <3>2, SeqEqual
  <2>3. Finish(now)
    BY <1>4, <1>8 DEF Fill
  <2>4. /\ phase' = "idle" /\ want' = 0 /\ got' = <<>>
        /\ result' \in Results /\ result'.ok /\ result'.of = n /\ Len(result'.cut) = 2
        /\ result'.bytes \o result'.cut = now
    BY <1>1, <1>2, <1>5, <2>1, <2>3, FinishFacts
  <2>5. Sources(result') = {x}
    <3>1. PICK res \in Results : res = result'
      BY <2>4
    <3>2. now \in Seq(OfExchange(x)) /\ Len(now) > 0 /\ now \in Seq(OfExchange(x) \cup {Pad})
      BY <1>1, <2>1, <2>2
    <3>3. Sources(res) = {x}
      BY <2>4, <3>1, <3>2, SourcesFacts
    <3> QED BY <3>1, <3>3
  <2>6. newest' = x
    <3>1. Source(result') = x
      BY <2>5 DEF Source
    <3> QED BY <2>4, <2>5, <3>1 DEF Note
  <2> QED BY <1>5, <2>1, <2>2, <2>4, <2>5, <2>6 DEF Returned
<1> QED BY <1>5, <1>7, <1>8
\* How a step of the host leaves the exchange: it goes on, or ends with an error,
\* with an answer newer than all before it, or with cleared bytes.
Ends ==
    \/ phase' # "idle" /\ UNCHANGED <<result, newest>>
    \/ phase' = "idle" /\ result' = Failure(n) /\ newest' = newest
    \/ /\ phase' = "idle" /\ result'.ok
       /\ \/ Sources(result') = {} /\ newest' = newest
          \/ \E x \in (newest + 1)..n : Sources(result') = {x} /\ newest' = x

\* What a read of the payload leaves in the framer and on the way: the packet in
\* the buffer is of the same answer, and what comes is what follows it.
PayloadRead(ans) ==
    /\ phase = "payload" /\ UNCHANGED <<n, out, device, asked, calm>>
    /\ hfSeq' \in Nat \ {0} /\ hfPos' \in 0..Payload /\ hfBuf' \in [1..Payload -> Byte]
    /\ From(hfBuf') = From(hfBuf)
    /\ Full(hfBuf', hfSeq' - 1, MessageOf(ans, hfBuf))
    /\ Stream(in', ans, n)
    /\ \A i \in 1..Len(in') : \E j \in 1..Len(in) : in'[i] = in[j]
    /\ in' = <<>> => IsLast(hfSeq' - 1, MessageOf(ans, hfBuf))
    /\ in' # <<>> => Follows(hfSeq' - 1, From(hfBuf), MessageOf(ans, hfBuf), in'[1])

LEMMA PayloadStep ==
    ASSUME Inv, NEW ans \in [1..MaxExchanges -> Replies], ReadInv(ans), PayloadRead(ans),
           NEW bytes, NextBytes(bytes, MessageOf(ans, hfBuf)), Fill(bytes), Note,
           Len(got) + Len(bytes) + 2 = (hfSeq' - 1) * Payload + hfPos'
    PROVE  Inv' /\ Ends
<1>1. /\ phase = "payload" /\ UNCHANGED <<n, out, device, asked, calm>>
      /\ hfSeq' \in Nat \ {0} /\ hfPos' \in 0..Payload /\ hfBuf' \in [1..Payload -> Byte]
      /\ \A i \in 1..Len(in') : \E j \in 1..Len(in) : in'[i] = in[j]
      /\ Stream(in', ans, n)
  BY DEF PayloadRead
<1>2. /\ HostInv /\ n \in 0..MaxExchanges /\ n \in Nat /\ Sent = n /\ newest \in 0..n
      /\ MaxExchanges \in Nat
  BY <1>1, ConstantsAssumption DEF Inv, HostInv, Sent
<1>3. PICK x, m : x = From(hfBuf) /\ m = MessageOf(ans, hfBuf)
  OBVIOUS
<1>4. /\ x \in (newest + 1)..n /\ want = Len(m) - 2 /\ Len(got) < want
      /\ \A j \in 1..Len(got) : got[j] = m[j + 2]
  BY <1>1, <1>3 DEF ReadInv
<1>5. x \in 1..n /\ x \in Nat /\ x \in 1..MaxExchanges
  BY <1>2, <1>4
<1>6. PICK r \in Replies : r = ans[x]
  BY <1>5
<1>7. m = Message(x, r)
  BY <1>3, <1>6 DEF MessageOf
<1>8. /\ From(hfBuf') = x /\ Full(hfBuf', hfSeq' - 1, m)
      /\ in' = <<>> => IsLast(hfSeq' - 1, m)
      /\ in' # <<>> => Follows(hfSeq' - 1, x, m, in'[1])
      /\ NextBytes(bytes, m)
  BY <1>3 DEF PayloadRead
<1>9. \/ Len(got) + Len(bytes) < want /\ Continued(m, Len(bytes))
      \/ Len(got) + Len(bytes) = want /\ Returned(x, r)
  BY <1>1, <1>2, <1>4, <1>5, <1>7, <1>8, FillFacts
<1>10. (MessageOf(ans, hfBuf))' = m
  <2>1. From(hfBuf)' = x
    BY <1>8 DEF From
  <2> QED BY <1>3, <1>6, <1>7, <2>1 DEF MessageOf
<1>11. ASSUME asked # <<>>
       PROVE  \E y \in (x + 1)..n, size \in RequestSizes :
                 asked = Request(y, size) /\ \A i \in 1..Len(in') : From(in'[i].data) < y
  <2>1. PICK y \in (newest + 1)..n, size \in RequestSizes :
           /\ asked = Request(y, size) /\ From(hfBuf) < y
           /\ \A i \in 1..Len(in) : From(in[i].data) < y
    BY <1>1, <1>2, <1>11 DEF Inv, AskInv
  <2>2. \A i \in 1..Len(in') : From(in'[i].data) < y
    BY <1>1, <2>1
  <2>3. y \in (x + 1)..n
    BY <1>2, <1>3, <1>5, <2>1
  <2> QED BY <2>1, <2>2, <2>3
<1>12. calm => asked = <<>> /\ x = n /\ \A i \in 1..Len(in') : From(in'[i].data) = n
  BY <1>1, <1>3 DEF Inv, CalmInv
<1>13. ASSUME Continued(m, Len(bytes)) PROVE Inv'
  <2>1. /\ UNCHANGED <<phase, want, result, newest>>
        /\ got' \in Seq(Byte) /\ Len(got') = Len(got) + Len(bytes) /\ Len(got') < want
        /\ \A j \in 1..Len(got') : got'[j] = m[j + 2]
    BY <1>13 DEF Continued
  <2>2. Sent' = n
    BY <1>1, <2>1 DEF Sent
  <2>3. HostInv'
    BY <1>1, <1>2, <2>1, <2>2 DEF HostInv
  <2>4. WriteInv' /\ OrderInv'
    BY <1>1, <2>1 DEF WriteInv, OrderInv
  <2>5. AskInv'
    <3> SUFFICES ASSUME asked' # <<>>
                 PROVE  \E y \in (newest' + 1)..Sent', size \in RequestSizes :
                           /\ asked' = Request(y, size)
                           /\ \A i \in 1..Len(in') : From(in'[i].data) < y
                           /\ phase' = "payload" => From(hfBuf') < y
      BY DEF AskInv, From
    <3>1. PICK y \in (x + 1)..n, size \in RequestSizes :
             asked = Request(y, size) /\ \A i \in 1..Len(in') : From(in'[i].data) < y
      BY <1>1, <1>11
    <3>2. y \in (newest' + 1)..Sent' /\ x < y
      BY <1>2, <1>4, <1>5, <2>1, <2>2, <3>1
    <3> QED BY <1>1, <1>8, <3>1, <3>2
  <2>6. CalmInv'
    <3> SUFFICES ASSUME calm'
                 PROVE  /\ asked' = <<>> /\ From(hfBuf') = n'
                        /\ \A i \in 1..Len(in') : From(in'[i].data) = n'
      BY <1>1, <2>1 DEF CalmInv, From
    <3> QED BY <1>1, <1>8, <1>12
  <2>7. ReadInv(ans)'
    <3>1. /\ Len(got') + 2 = (hfSeq' - 1) * Payload + hfPos'
          /\ hfSeq' > 0 /\ x \in (newest' + 1)..n' /\ want' = Len(m) - 2
      BY <1>1, <1>4, <2>1
    <3>2. From(hfBuf)' = x
      BY <1>8 DEF From
    <3>3. From(hfBuf)' = From(hfBuf')
      BY DEF From
    <3> QED BY <1>8, <1>10, <2>1, <3>1, <3>2 DEF ReadInv, Full, IsLast, Follows, From
  <2> QED BY <1>1, <2>2, <2>3, <2>4, <2>5, <2>6, <2>7 DEF Inv, AnswerInv, Stream, Follows, Full, IsLast, From, MessageOf, Message
<1>14. ASSUME Len(got) + Len(bytes) = want, Returned(x, r) PROVE Inv'
  <2>1. /\ phase' = "idle" /\ want' = 0 /\ got' = <<>> /\ newest' = x
        /\ result' \in Results /\ result'.ok /\ result'.of = n /\ Len(result'.cut) = 2
        /\ result'.bytes \o result'.cut = Answer(x, r[1], r[2])
    BY <1>14 DEF Returned
  <2>2. Sent' = n
    BY <1>1, <2>1 DEF Sent
  <2>30. hfSeq' \in Nat \ {0}
    BY <1>1, Zenon
  <2>31. \A q \in Nat \ {0} : \E k \in Nat : k = q - 1
    OBVIOUS
  <2>3. PICK k \in Nat : k = hfSeq' - 1
    BY <2>30, <2>31, Zenon
  <2>11. IsLast(k, m)
    <3>1. PICK a \in Nat : a = k * Payload
      BY ConstantsAssumption, Multiples
    <3>2. Len(m) \in Nat
      BY <1>5, <1>7, MessageIs
    <3>3. PICK g \in Nat : g = Len(got) + Len(bytes) /\ g = want /\ g + 2 = a + hfPos'
      BY <1>2, <1>14, <2>3, <3>1 DEF HostInv
    <3>9. PICK size \in Nat : size = Payload
      BY ConstantsAssumption
    <3>4. PICK h \in Nat : h = hfPos' /\ h <= size
      BY <1>1, <3>9
    <3>5. PICK lm \in Nat : lm = Len(m)
      BY <3>2
    <3>6. g + 2 = a + h /\ g = lm - 2
      BY <1>4, <3>3, <3>4, <3>5
    <3>7. \A b, c, d, e, f \in Nat : b + 2 = c + d /\ b = e - 2 /\ d <= f => e <= c + f
      OBVIOUS
    <3>8. lm <= a + size
      BY <3>4, <3>6, <3>7
    <3> QED BY <3>1, <3>5, <3>8, <3>9 DEF IsLast
  <2>4. in' # <<>> => From(in'[1].data) > x /\ in'[1].seq = 0
    <3>1. in' # <<>> => Follows(k, x, m, in'[1])
      BY <1>8, <2>3, Zenon
    <3> QED BY <2>11, <3>1 DEF Follows
  <2>5. HostInv'
    BY <1>1, <1>2, <1>5, <2>1, <2>2, EmptyIsSeq DEF HostInv, Results
  <2>6. WriteInv'
    BY <2>1 DEF WriteInv
  <2>7. AskInv'
    BY <1>1, <1>11, <2>1, <2>2 DEF AskInv, From
  <2>8. OrderInv'
    <3> SUFFICES ASSUME in' # <<>>
                 PROVE  /\ newest' <= From(in'[1].data)
                        /\ in'[1].seq = 0 => newest' < From(in'[1].data)
      BY DEF OrderInv, From
    <3>1. PICK y : y = From(in'[1].data)
      OBVIOUS
    <3>2. y \in 1..n
      BY <3>1, <1>1, TailFacts DEF Stream
    <3> QED BY <1>2, <1>5, <2>1, <2>4, <3>1, <3>2
  <2>9. CalmInv'
    <3> SUFFICES ASSUME calm' PROVE CalmInv'
      BY DEF CalmInv
    <3>1. asked' = <<>> /\ x = n'
      BY <1>1, <1>12
    <3>2. in' = <<>>
      <4>1. in' # <<>> => 1 \in 1..Len(in')
        BY <1>1, TailFacts DEF Stream
      <4> QED BY <1>1, <1>2, <1>12, <2>4, <4>1
    <3>3. IsAnswer(n', result'.bytes \o result'.cut)
      BY <1>6, <2>1, <3>1 DEF IsAnswer
    <3>4. \A i \in 1..Len(in') : FALSE
      BY <3>2, EmptyIsSeq
    <3> QED BY <1>1, <2>1, <3>1, <3>2, <3>3, <3>4 DEF CalmInv, IsAnswer
  <2>10. ReadInv(ans)'
    BY <2>1 DEF ReadInv
  <2> QED BY <1>1, <2>2, <2>5, <2>6, <2>7, <2>8, <2>9, <2>10 DEF Inv, AnswerInv, Stream, Follows, Full, IsLast, From, MessageOf, Message
<1>15. Ends
  <2>1. CASE Continued(m, Len(bytes))
    BY <1>1, <2>1 DEF Ends, Continued
  <2>2. CASE Returned(x, r)
    BY <1>4, <2>2 DEF Ends, Returned
  <2> QED BY <1>9, <2>1, <2>2
<1> QED BY <1>9, <1>13, <1>14, <1>15

\* The bytes a read takes from chunk k of a message are the next ones.
LEMMA BytesOfChunk ==
    ASSUME NEW m \in Seq(Byte), NEW k, NEW d, Full(d, k, m),
           NEW pos \in Nat, NEW take \in Nat, pos + take <= Payload,
           want \in Nat, Len(got) \in Nat, want = Len(m) - 2,
           Len(got) + 2 = k * Payload + pos, Len(got) + take <= want
    PROVE  /\ NextBytes(SubSeq(d, pos + 1, pos + take), m)
           /\ Len(SubSeq(d, pos + 1, pos + take)) = take
<1>1. PICK p \in Nat : p = Payload /\ p >= 2
  BY ConstantsAssumption
<1>2. PICK a \in Nat : a = k * p
  BY <1>1, Multiples DEF Full
<1>3. PICK g \in Nat : g = Len(got) /\ g + 2 = a + pos /\ g + take <= want
  BY <1>1, <1>2
<1>4. Len(m) \in Nat /\ want + 2 = Len(m)
  OBVIOUS
<1>5. /\ d \in [1..p -> Byte]
      /\ \A j \in 1..p : d[j] = IF a + j <= Len(m) THEN m[a + j] ELSE Pad
  BY <1>1, <1>2 DEF Full
<1>6. d \in Seq(Byte) /\ Len(d) = p
  BY <1>1, <1>5, FunctionIsSeq
<1>7. PICK s : s = SubSeq(d, pos + 1, pos + take)
  OBVIOUS
<1>8. /\ s \in Seq(Byte) /\ Len(s) = take
      /\ \A j \in 1..take : s[j] = d[pos + j]
  <2>1. PICK b \in Nat \ {0}, e \in Nat : b = pos + 1 /\ e = pos + take
    OBVIOUS
  <2>2. /\ b <= e + 1 /\ e <= Len(d) /\ e - b + 1 = take
        /\ \A j \in 1..take : b + j - 1 = pos + j
    BY <1>1, <1>6, <2>1
  <2>3. /\ SubSeq(d, b, e) \in Seq(Byte) /\ Len(SubSeq(d, b, e)) = e - b + 1
        /\ \A j \in 1..(e - b + 1) : SubSeq(d, b, e)[j] = d[b + j - 1]
    BY <1>6, <2>2, SubSeqFacts
  <2>4. s = SubSeq(d, b, e)
    BY <1>7, <2>1
  <2> QED BY <2>2, <2>3, <2>4
<1>9. ASSUME NEW j \in 1..take PROVE s[j] = m[Len(got) + j + 2]
  <2>1. pos + j \in 1..p
    BY <1>1
  <2>2. a + (pos + j) = g + j + 2 /\ a + (pos + j) <= Len(m)
    BY <1>3, <1>4
  <2>3. d[pos + j] = m[a + (pos + j)]
    BY <1>5, <2>1, <2>2
  <2> QED BY <1>3, <1>8, <2>2, <2>3
<1> QED BY <1>3, <1>7, <1>8, <1>9 DEF NextBytes

LEMMA DrainStep == ASSUME Inv, Drain PROVE Inv' /\ Ends
<1>1. PICK take : take = Least(Missing, Payload - hfPos)
  OBVIOUS
<1>2. /\ Reading /\ hfSeq > 0 /\ hfPos # Payload
      /\ Fill(SubSeq(hfBuf, hfPos + 1, hfPos + take)) /\ hfPos' = hfPos + take /\ Note
      /\ UNCHANGED <<n, out, hfSeq, hfBuf, in, device, asked, calm>>
  BY <1>1 DEF Drain
<1>3. HostInv /\ n \in Nat /\ n \in 0..MaxExchanges
  BY ConstantsAssumption DEF Inv, HostInv
<1>4. phase = "payload"
  BY <1>2, <1>3 DEF HostInv, Reading
<1>5. Sent = n /\ hfPos \in 0..Payload /\ want \in Nat /\ got \in Seq(Byte)
      /\ Len(got) \in Nat /\ hfSeq \in Nat \ {0}
  BY <1>2, <1>3, <1>4 DEF Sent, HostInv
<1>6. PICK ans \in [1..MaxExchanges -> Replies] : Stream(in, ans, n) /\ ReadInv(ans)
  BY <1>5 DEF Inv, AnswerInv
<1>7. PICK m : m = MessageOf(ans, hfBuf)
  OBVIOUS
<1>8. /\ From(hfBuf) \in (newest + 1)..n /\ Full(hfBuf, hfSeq - 1, m)
      /\ want = Len(m) - 2 /\ Len(got) < want
      /\ Len(got) + 2 = (hfSeq - 1) * Payload + hfPos
      /\ (in = <<>> => IsLast(hfSeq - 1, m))
      /\ (in # <<>> => Follows(hfSeq - 1, From(hfBuf), m, in[1]))
  BY <1>4, <1>6, <1>7 DEF ReadInv
<1>9. m \in Seq(Byte)
  <2>1. PICK x : x = From(hfBuf)
    OBVIOUS
  <2>4. newest \in Nat
    BY <1>3, <1>5 DEF HostInv
  <2>2. x \in Nat /\ x \in 1..MaxExchanges
    BY <1>3, <1>8, <2>1, <2>4, ConstantsAssumption
  <2>3. PICK r \in Replies : r = ans[x]
    BY <2>2
  <2> QED BY <1>7, <2>1, <2>2, <2>3, MessageIs DEF MessageOf
<1>10. /\ take \in Nat /\ take <= want - Len(got) /\ hfPos + take <= Payload
  BY <1>1, <1>5, <1>8, ConstantsAssumption DEF Missing, Least
<1>11. PICK k \in Nat, pos \in Nat : k = hfSeq - 1 /\ pos = hfPos
  BY <1>5
<1>12. PICK bytes : bytes = SubSeq(hfBuf, hfPos + 1, hfPos + take)
  OBVIOUS
<1>13. NextBytes(bytes, m) /\ Len(bytes) = take
  <2>1. Len(got) + take <= want /\ Len(got) + 2 = k * Payload + pos /\ pos + take <= Payload
    BY <1>5, <1>8, <1>10, <1>11
  <2>2. PICK d : d = hfBuf /\ Full(d, k, m)
    BY <1>8, <1>11
  <2>3. /\ NextBytes(SubSeq(d, pos + 1, pos + take), m)
        /\ Len(SubSeq(d, pos + 1, pos + take)) = take
    BY <1>5, <1>8, <1>9, <1>10, <2>1, <2>2, BytesOfChunk
  <2> QED BY <1>11, <1>12, <2>2, <2>3
<1>14. PayloadRead(ans)
  <2>1. hfPos' \in 0..Payload
    BY <1>2, <1>5, <1>10, ConstantsAssumption
  <2>2. hfBuf' \in [1..Payload -> Byte]
    BY <1>2, <1>8 DEF Full
  <2> QED BY <1>2, <1>4, <1>5, <1>6, <1>7, <1>8, <2>1, <2>2 DEF PayloadRead
<1>15. Len(got) + Len(bytes) + 2 = (hfSeq' - 1) * Payload + hfPos'
  <2>1. PICK a \in Nat : a = (hfSeq - 1) * Payload
    BY <1>5, ConstantsAssumption, Multiples
  <2>2. (hfSeq' - 1) * Payload = a /\ hfPos' = hfPos + take
    BY <1>2, <2>1
  <2>3. Len(got) + 2 = a + hfPos /\ hfPos \in Nat
    BY <1>5, <1>8, <2>1
  <2> QED BY <1>5, <1>10, <1>13, <2>1, <2>2, <2>3
<1> QED BY <1>2, <1>6, <1>7, <1>12, <1>13, <1>14, <1>15, PayloadStep

\* The next packet while the payload is read: it is the next of the answer, and
\* there is one, as the buffer is not full yet.
LEMMA ReadPayload == ASSUME Inv, ReadPacket, phase = "payload" PROVE Inv' /\ Ends
<1>1. /\ ~(hfSeq > 0 /\ hfPos # Payload) /\ in # <<>> /\ in' = Tail(in)
      /\ hfBuf' = Head(in).data /\ Note
      /\ UNCHANGED <<n, out, device, asked, calm>>
  BY DEF ReadPacket
<1>2. HostInv /\ n \in Nat /\ n \in 0..MaxExchanges
  BY ConstantsAssumption DEF Inv, HostInv
<1>3. /\ Sent = n /\ hfPos \in 0..Payload /\ want \in Nat /\ got \in Seq(Byte)
      /\ Len(got) \in Nat /\ hfSeq \in Nat /\ newest \in 0..n /\ newest \in Nat
  BY <1>2 DEF Sent, HostInv
<1>4. PICK ans \in [1..MaxExchanges -> Replies] : Stream(in, ans, n) /\ ReadInv(ans)
  BY <1>3 DEF Inv, AnswerInv
<1>5. PICK m, x : m = MessageOf(ans, hfBuf) /\ x = From(hfBuf)
  OBVIOUS
<1>6. /\ x \in (newest + 1)..n /\ Full(hfBuf, hfSeq - 1, m) /\ hfSeq > 0
      /\ want = Len(m) - 2 /\ Len(got) < want
      /\ Len(got) + 2 = (hfSeq - 1) * Payload + hfPos
      /\ Follows(hfSeq - 1, x, m, in[1])
  BY <1>1, <1>4, <1>5 DEF ReadInv
<1>7. hfPos = Payload
  BY <1>1, <1>6
<1>8. m \in Seq(Byte) /\ x \in Nat
  <2>1. x \in Nat /\ x \in 1..MaxExchanges
    BY <1>2, <1>3, <1>6, ConstantsAssumption
  <2>2. PICK r \in Replies : r = ans[x]
    BY <2>1
  <2> QED BY <1>5, <2>1, <2>2, MessageIs DEF MessageOf
<1>9. PICK k \in Nat : k = hfSeq - 1 /\ hfSeq = k + 1
  BY <1>3, <1>6
<1>10. PICK p \in Nat : p = Payload /\ p >= 2
  BY ConstantsAssumption
<1>11. PICK a \in Nat : a = (k + 1) * p /\ a = k * p + p /\ Len(got) + 2 = a
  BY <1>3, <1>6, <1>7, <1>9, <1>10, Multiples
<1>12. ~IsLast(k, m)
  <2>1. Len(m) \in Nat /\ Len(got) + 2 < Len(m)
    BY <1>3, <1>6, <1>8
  <2>2. k * Payload + Payload = a
    BY <1>10, <1>11
  <2> QED BY <1>11, <2>1, <2>2, <1>3 DEF IsLast
<1>13. From(in[1].data) = x /\ in[1].seq = hfSeq
  <2>1. Follows(k, x, m, in[1])
    BY <1>6, <1>9
  <2> QED BY <1>9, <1>12, <2>1 DEF Follows
<1>14. PICK s : s = in
  OBVIOUS
<1>15. /\ Stream(Tail(s), ans, n) /\ s[1] \in Packet
       /\ Full(s[1].data, s[1].seq, MessageOf(ans, s[1].data))
       /\ Tail(s) = <<>> => IsLast(s[1].seq, MessageOf(ans, s[1].data))
       /\ Tail(s) # <<>> => Follows(s[1].seq, From(s[1].data),
                                    MessageOf(ans, s[1].data), Tail(s)[1])
       /\ \A i \in 1..Len(Tail(s)) : Tail(s)[i] = s[i + 1] /\ i + 1 \in 1..Len(s)
  BY <1>1, <1>2, <1>4, <1>14, StreamTail
<1>16. Head(s) = s[1] /\ Head(s).seq = hfSeq
  BY <1>1, <1>4, <1>13, <1>14, TailFacts DEF Stream
<1>17. MessageOf(ans, s[1].data) = m
  BY <1>5, <1>13, <1>14 DEF MessageOf
<1>18. PICK d : d = s[1].data /\ d = hfBuf' /\ Full(d, k + 1, m) /\ From(d) = x
                /\ d \in [1..Payload -> Byte]
  BY <1>1, <1>9, <1>13, <1>14, <1>15, <1>16, <1>17 DEF Packet
<1>19. PICK take : take = Least(Missing, Payload)
  OBVIOUS
<1>20. /\ Fill(SubSeq(d, 1, take)) /\ hfSeq' = hfSeq + 1 /\ hfPos' = take
  BY <1>14, <1>16, <1>18, <1>19 DEF ReadPacket
<1>21. take \in Nat /\ take <= want - Len(got) /\ take <= p
  BY <1>3, <1>6, <1>10, <1>19 DEF Missing, Least
<1>22. PICK bytes : bytes = SubSeq(d, 1, take)
  OBVIOUS
<1>23. NextBytes(bytes, m) /\ Len(bytes) = take
  <2>1. PICK c \in Nat, pos \in Nat : c = k + 1 /\ pos = 0
    OBVIOUS
  <2>2. /\ Len(got) + take <= want /\ Len(got) + 2 = c * Payload + pos
        /\ pos + take <= Payload /\ Full(d, c, m)
    BY <1>3, <1>10, <1>11, <1>18, <1>21, <2>1
  <2>3. /\ NextBytes(SubSeq(d, pos + 1, pos + take), m)
        /\ Len(SubSeq(d, pos + 1, pos + take)) = take
    BY <1>3, <1>6, <1>8, <1>21, <2>2, BytesOfChunk
  <2>4. pos + 1 = 1 /\ pos + take = take
    BY <1>21, <2>1
  <2> QED BY <1>22, <2>3, <2>4
<1>24. PayloadRead(ans)
  <2>1. hfPos' \in 0..Payload /\ hfSeq' \in Nat \ {0}
    BY <1>3, <1>10, <1>20, <1>21
  <2>2. hfSeq' - 1 = k + 1 /\ hfSeq = k + 1
    BY <1>9, <1>20
  <2>3. From(hfBuf') = From(hfBuf) /\ Full(hfBuf', hfSeq' - 1, MessageOf(ans, hfBuf))
    BY <1>5, <1>18, <2>2
  <2>4. in' = Tail(s) /\ s[1].seq = k + 1 /\ From(s[1].data) = x
    BY <1>1, <1>13, <1>14, <2>2
  <2>5. Stream(in', ans, n) /\ \A i \in 1..Len(in') : \E j \in 1..Len(in) : in'[i] = in[j]
    BY <1>14, <1>15, <2>4
  <2>6. in' = <<>> => IsLast(hfSeq' - 1, MessageOf(ans, hfBuf))
    BY <1>5, <1>15, <1>17, <2>2, <2>4
  <2>7. in' # <<>> => Follows(hfSeq' - 1, From(hfBuf), MessageOf(ans, hfBuf), in'[1])
    BY <1>5, <1>15, <1>17, <2>2, <2>4
  <2> QED BY <1>1, <1>18, <2>1, <2>3, <2>5, <2>6, <2>7 DEF PayloadRead
<1>25. Len(got) + Len(bytes) + 2 = (hfSeq' - 1) * Payload + hfPos'
  <2>1. hfSeq' - 1 = k + 1
    BY <1>9, <1>20
  <2>2. (hfSeq' - 1) * Payload = a
    BY <1>10, <1>11, <2>1
  <2> QED BY <1>3, <1>11, <1>20, <1>21, <1>23, <2>2
<1> QED BY <1>1, <1>4, <1>5, <1>20, <1>22, <1>23, <1>24, <1>25, PayloadStep

LEMMA NoSources == \A x : Sources(Failure(x)) = {}
<1>1. <<>> \o <<>> = <<>> /\ ToSet(<<>>) = {}
  BY DEF ToSet
<1> QED BY <1>1 DEF Sources, Failure, Result

\* The exchange ends with an error: what is on the way and what the application
\* works on only shrank, and nothing was returned.
Failed ==
    /\ phase # "idle" /\ phase' = "idle"
    /\ out' = <<>> /\ want' = 0 /\ got' = <<>>
    /\ result' \in {Failure(n), NoResult} /\ UNCHANGED <<n, newest>>
    /\ calm' \in BOOLEAN /\ ~calm'
    /\ hfSeq' \in Nat /\ hfPos' \in 0..Payload
    /\ hfBuf' = <<>> \/ hfBuf' \in [1..Payload -> Byte]
    /\ device' \in Seq(Byte) /\ asked' \in {asked, <<>>}
    /\ in' \in {in, Tail(in), <<>>} /\ (in = <<>> => in' \in {in, <<>>})

LEMMA FailedInv == ASSUME Inv, Failed PROVE Inv'
<1>1. /\ HostInv /\ n \in Nat /\ newest \in 0..n /\ newest \in Nat /\ n > 0
      /\ Sent \in {n, n - 1} /\ Sent \in Nat
  <2>1. HostInv /\ n \in Nat /\ newest \in 0..Sent /\ n > 0
    BY ConstantsAssumption DEF Inv, HostInv, Failed
  <2>2. Sent = n \/ Sent = n - 1
    BY DEF Sent
  <2> QED BY <2>1, <2>2
<1>2. Sent' = n
  BY DEF Failed, Sent
<1>3. HostInv'
  BY <1>1, <1>2, NoResultFacts, EmptyIsSeq DEF HostInv, Failed
<1>4. WriteInv' /\ CalmInv'
  BY DEF WriteInv, CalmInv, Failed
<1>5. PICK ans \in [1..MaxExchanges -> Replies] : Stream(in, ans, Sent) /\ ReadInv(ans)
  BY DEF Inv, AnswerInv
<1>6. Stream(in, ans, n)
  BY <1>1, <1>5, StreamMore
<1>7. PICK s : s = in
  OBVIOUS
<1>8. \A i \in 1..Len(s) : From(s[i].data) \in 1..n
  BY <1>6, <1>7 DEF Stream
<1>9. s # <<>> =>
         /\ Stream(Tail(s), ans, n) /\ s[1].seq \in Nat /\ 1 \in 1..Len(s)
         /\ Tail(s) # <<>> => Follows(s[1].seq, From(s[1].data),
                                      MessageOf(ans, s[1].data), Tail(s)[1])
         /\ \A i \in 1..Len(Tail(s)) : Tail(s)[i] = s[i + 1] /\ i + 1 \in 1..Len(s)
  <2>1. s # <<>> => 1 \in 1..Len(s)
    BY <1>6, <1>7, TailFacts DEF Stream
  <2>2. s # <<>> => s[1].seq \in Nat
    BY <1>6, <1>7, <2>1 DEF Stream, Full
  <2> QED BY <1>1, <1>6, <1>7, <2>1, <2>2, StreamTail
<1>10. Stream(in', ans, n)
  BY <1>6, <1>7, <1>9, StreamEmpty DEF Failed
<1>11. \A i \in 1..Len(in') : \E j \in 1..Len(in) : in'[i] = in[j]
  <2>1. CASE in' = in
    BY <2>1
  <2>2. CASE in' = <<>>
    BY <2>2, EmptyIsSeq
  <2>3. CASE s # <<>> /\ in' = Tail(s)
    BY <1>7, <1>9, <2>3
  <2> QED BY <1>7, <2>1, <2>2, <2>3 DEF Failed
<1>12. AskInv'
  <2> SUFFICES ASSUME asked' # <<>>
               PROVE  \E y \in (newest' + 1)..Sent', size \in RequestSizes :
                         asked' = Request(y, size)
                         /\ \A i \in 1..Len(in') : From(in'[i].data) < y
    BY DEF AskInv, From, Failed
  <2>1. asked' = asked
    BY DEF Failed
  <2>2. PICK y \in (newest + 1)..Sent, size \in RequestSizes :
           asked = Request(y, size) /\ \A i \in 1..Len(in) : From(in[i].data) < y
    BY <2>1 DEF Inv, AskInv
  <2>3. newest' = newest /\ y \in (newest + 1)..n
    BY <1>1, <2>2 DEF Failed
  <2> QED BY <1>2, <1>11, <2>1, <2>2, <2>3
<1>13. OrderInv'
  <2> SUFFICES ASSUME in' # <<>>
               PROVE  /\ newest <= From(in'[1].data)
                      /\ in'[1].seq = 0 => newest < From(in'[1].data)
    BY DEF OrderInv, From, Failed
  <2>1. s # <<>> /\ in' \in {s, Tail(s)}
    BY <1>7 DEF Failed
  <2>2. PICK x \in 1..n : x = From(s[1].data) /\ newest <= x /\ (s[1].seq = 0 => newest < x)
    <3>1. CASE phase = "payload"
      <4>1. From(hfBuf) \in (newest + 1)..n
        BY <1>5, <3>1 DEF ReadInv
      <4>2. From(hfBuf) <= From(s[1].data)
        BY <1>1, <1>5, <1>7, <1>8, <1>9, <2>1, <3>1, <4>1 DEF ReadInv, Follows
      <4> QED BY <1>1, <1>8, <1>9, <2>1, <4>1, <4>2
    <3>2. CASE phase # "payload"
      BY <1>7, <1>8, <1>9, <2>1, <3>2 DEF Inv, OrderInv
    <3> QED BY <3>1, <3>2
  <2>3. CASE in' = s
    BY <2>2, <2>3
  <2>4. CASE in' = Tail(s)
    <3>1. PICK t, y : t = Tail(s) /\ y = From(t[1].data)
      OBVIOUS
    <3>2. IF IsLast(s[1].seq, MessageOf(ans, s[1].data))
          THEN y > x /\ t[1].seq = 0 ELSE y = x /\ t[1].seq = s[1].seq + 1
      BY <1>9, <2>1, <2>2, <2>4, <3>1 DEF Follows
    <3>3. y \in 1..n
      <4>1. t # <<>> /\ Stream(t, ans, n)
        BY <1>9, <2>1, <2>4, <3>1
      <4>2. 1 \in 1..Len(t)
        BY <4>1, TailFacts DEF Stream
      <4> QED BY <3>1, <4>1, <4>2 DEF Stream
    <3>4. y > x \/ (y = x /\ t[1].seq # 0)
      <4>1. PICK k \in Nat : k = s[1].seq /\ k + 1 # 0
        BY <1>9, <2>1
      <4> QED BY <3>2, <4>1
    <3>5. newest <= y /\ (t[1].seq = 0 => newest < y)
      BY <1>1, <2>2, <3>3, <3>4
    <3> QED BY <2>4, <3>1, <3>5
  <2> QED BY <2>1, <2>3, <2>4
<1>14. AnswerInv'
  <2>1. ReadInv(ans)'
    BY DEF ReadInv, Failed
  <2> QED BY <1>2, <1>10, <2>1 DEF AnswerInv, Stream, Follows, Full, IsLast, From, MessageOf, Message
<1> QED BY <1>3, <1>4, <1>12, <1>13, <1>14 DEF Inv

\* The first packet gives the length of the answer; one that is not the first
\* of an answer is an error, and was left by a process that died.
LEMMA ReadLength == ASSUME Inv, ReadPacket, phase = "length" PROVE Inv' /\ Ends
<1>1. /\ in # <<>> /\ in' = Tail(in) /\ hfBuf' = Head(in).data /\ Note
      /\ UNCHANGED <<n, out, device, asked, calm>>
  BY DEF ReadPacket
<1>2. /\ HostInv /\ n \in Nat /\ n \in 0..MaxExchanges /\ Sent = n /\ newest \in 0..n
      /\ newest \in Nat
  BY ConstantsAssumption DEF Inv, HostInv, Sent
<1>3. /\ hfSeq = 0 /\ want = 2 /\ got = <<>> /\ hfPos \in 0..Payload /\ out = <<>>
      /\ device \in Seq(Byte) /\ calm \in BOOLEAN /\ n > 0
  BY <1>2 DEF HostInv
<1>4. PICK ans \in [1..MaxExchanges -> Replies] : Stream(in, ans, n)
  BY <1>2 DEF Inv, AnswerInv
<1>5. PICK s : s = in
  OBVIOUS
<1>6. /\ Stream(Tail(s), ans, n) /\ s[1] \in Packet /\ From(s[1].data) \in 1..n
      /\ Full(s[1].data, s[1].seq, MessageOf(ans, s[1].data))
      /\ Tail(s) = <<>> => IsLast(s[1].seq, MessageOf(ans, s[1].data))
      /\ Tail(s) # <<>> => Follows(s[1].seq, From(s[1].data),
                                   MessageOf(ans, s[1].data), Tail(s)[1])
      /\ \A i \in 1..Len(Tail(s)) : Tail(s)[i] = s[i + 1] /\ i + 1 \in 1..Len(s)
  BY <1>1, <1>2, <1>4, <1>5, StreamTail
<1>7. Head(s) = s[1] /\ 1 \in 1..Len(s)
  BY <1>1, <1>4, <1>5, TailFacts DEF Stream
<1>8. PICK x, d, m, seq : /\ x = From(d) /\ d = s[1].data /\ m = MessageOf(ans, d)
                          /\ seq = s[1].seq
  OBVIOUS
<1>9. /\ x \in 1..n /\ x \in Nat /\ Full(d, seq, m) /\ d = hfBuf' /\ d \in [1..Payload -> Byte]
      /\ newest <= x /\ (seq = 0 => newest < x)
  <2>1. x \in 1..n /\ x \in Nat /\ Full(d, seq, m) /\ d = hfBuf'
    BY <1>1, <1>2, <1>5, <1>6, <1>7, <1>8
  <2>2. newest <= x /\ (seq = 0 => newest < x)
    BY <1>1, <1>5, <1>8 DEF Inv, OrderInv
  <2> QED BY <2>1, <2>2 DEF Full
<1>10. CASE seq # 0
  <2>1. ReadFails /\ UNCHANGED <<hfSeq, hfPos>>
    BY <1>3, <1>5, <1>7, <1>8, <1>10 DEF ReadPacket
  <2>2. result' = Failure(n) /\ phase' = "idle" /\ want' = 0 /\ got' = <<>>
    BY <2>1 DEF ReadFails
  <2>3. newest' = newest
    <3>1. Sources(result') = {}
      BY <2>2, NoSources
    <3> QED BY <1>1, <3>1 DEF Note
  <2>4. ~calm
    BY <1>1, <1>5, <1>8, <1>10 DEF Inv, CalmInv
  <2>5. Failed
    BY <1>1, <1>3, <1>9, <2>1, <2>2, <2>3, <2>4 DEF Failed
  <2>6. Ends
    BY <2>2, <2>3 DEF Ends
  <2> QED BY <2>5, <2>6, FailedInv
<1>11. CASE seq = 0
  <2>1. PICK p \in Nat : p = Payload /\ p >= 2
    BY ConstantsAssumption
  <2>2. PICK r \in Replies : r = ans[x]
    <3>1. x \in 1..MaxExchanges
      BY <1>2, <1>9, ConstantsAssumption
    <3> QED BY <3>1
  <2>3. /\ m \in Seq(Byte) /\ Len(m) = r[1] + 2 /\ Length(m) = r[1]
        /\ r[1] \in Nat /\ r[1] >= 2
    BY <1>8, <1>9, <2>2, MessageIs DEF MessageOf
  <2>4. Least(Missing, Payload) = 2 /\ Head(in).seq = hfSeq
    <3>1. Missing = 2
      BY <1>3, EmptyIsSeq DEF Missing
    <3> QED BY <1>3, <1>5, <1>7, <1>8, <1>11, <2>1, <3>1 DEF Least
  <2>5. Fill(SubSeq(d, 1, 2)) /\ hfSeq' = 1 /\ hfPos' = 2
    BY <1>3, <1>5, <1>7, <1>8, <2>4 DEF ReadPacket
  <2>6. PICK b : b = SubSeq(d, 1, 2)
    OBVIOUS
  <2>7. b \in Seq(Byte) /\ Len(b) = 2 /\ b[1] = m[1] /\ b[2] = m[2]
    <3>1. /\ d \in [1..p -> Byte]
          /\ \A j \in 1..p : d[j] = IF 0 * p + j <= Len(m) THEN m[0 * p + j] ELSE Pad
      BY <1>9, <1>11, <2>1 DEF Full
    <3>2. d \in Seq(Byte) /\ Len(d) = p
      BY <2>1, <3>1, FunctionIsSeq
    <3>3. b \in Seq(Byte) /\ Len(b) = 2 /\ b[1] = d[1] /\ b[2] = d[2]
      BY <2>1, <2>6, <3>2
    <3>4. /\ 0 * p + 1 = 1 /\ 0 * p + 2 = 2 /\ 1 \in 1..p /\ 2 \in 1..p
          /\ 1 <= Len(m) /\ 2 <= Len(m)
      BY <2>1, <2>3
    <3>5. d[1] = m[1] /\ d[2] = m[2]
      BY <3>1, <3>4
    <3> QED BY <3>3, <3>5
  <2>8. <<>> \o b = b /\ Length(b) = r[1] /\ r[1] # 0 /\ ~(Len(b) < 2)
    BY <2>3, <2>7 DEF Length
  <2>9. phase' = "payload" /\ want' = r[1] /\ got' = <<>> /\ UNCHANGED result
    BY <1>3, <2>5, <2>6, <2>8 DEF Fill
  <2>10. newest' = newest /\ Sent' = n
    BY <1>1, <1>2, <2>9 DEF Note, Sent
  <2>11. From(hfBuf') = x /\ From(hfBuf)' = x /\ (MessageOf(ans, hfBuf))' = m
    <3>1. From(hfBuf)' = From(hfBuf')
      BY DEF From
    <3> QED BY <1>8, <1>9, <2>2, <3>1 DEF MessageOf
  <2>12. HostInv'
    BY <1>1, <1>2, <1>3, <1>9, <2>1, <2>3, <2>5, <2>9, <2>10, EmptyIsSeq DEF HostInv
  <2>13. WriteInv' /\ OrderInv'
    BY <2>9 DEF WriteInv, OrderInv
  <2>14. \A i \in 1..Len(in') : \E j \in 1..Len(in) : in'[i] = in[j]
    BY <1>1, <1>5, <1>6
  <2>15. AskInv'
    <3> SUFFICES ASSUME asked # <<>>
                 PROVE  \E y \in (newest + 1)..n, size \in RequestSizes :
                           /\ asked = Request(y, size) /\ x < y
                           /\ \A i \in 1..Len(in') : From(in'[i].data) < y
      BY <1>1, <2>10, <2>11 DEF AskInv, From
    <3>1. PICK y \in (newest + 1)..n, size \in RequestSizes :
             asked = Request(y, size) /\ \A i \in 1..Len(in) : From(in[i].data) < y
      BY <1>2 DEF Inv, AskInv
    <3>2. x < y
      BY <1>5, <1>7, <1>8, <3>1
    <3> QED BY <2>14, <3>1, <3>2
  <2>16. CalmInv'
    <3> SUFFICES ASSUME calm
                 PROVE  /\ asked = <<>> /\ x = n
                        /\ \A i \in 1..Len(in') : From(in'[i].data) = n
      BY <1>1, <2>9, <2>11 DEF CalmInv, From
    <3>1. asked = <<>> /\ \A i \in 1..Len(in) : From(in[i].data) = n
      BY <1>1 DEF Inv, CalmInv
    <3> QED BY <1>5, <1>7, <1>8, <2>14, <3>1
  <2>17. ReadInv(ans)'
    <3>1. /\ hfSeq' - 1 = 0 /\ hfSeq' > 0 /\ (hfSeq' - 1) * Payload + hfPos' = 2
      BY <2>1, <2>5
    <3>2. x \in (newest' + 1)..n' /\ want' = Len(m) - 2 /\ Len(got') = 0 /\ Len(got') < want'
      BY <1>1, <1>2, <1>9, <1>11, <2>3, <2>9, <2>10, EmptyIsSeq
    <3>3. Len(got') + 2 = (hfSeq' - 1) * Payload + hfPos'
      BY <3>1, <3>2
    <3>4. Full(hfBuf', hfSeq' - 1, m)
      BY <1>9, <1>11, <3>1
    <3>5. /\ in' = <<>> => IsLast(hfSeq' - 1, m)
          /\ in' # <<>> => Follows(hfSeq' - 1, x, m, in'[1])
      BY <1>1, <1>5, <1>6, <1>8, <1>11, <3>1
    <3>6. \A j \in 1..Len(got') : got'[j] = m[j + 2]
      BY <3>2
    <3> QED BY <2>11, <3>1, <3>2, <3>3, <3>4, <3>5, <3>6 DEF ReadInv, Full, IsLast, Follows, From
  <2>18. Stream(in', ans, Sent')
    BY <1>1, <1>5, <1>6, <2>10
  <2>19. Ends
    BY <2>9, <2>10 DEF Ends
  <2> QED BY <2>12, <2>13, <2>15, <2>16, <2>17, <2>18, <2>19 DEF Inv, AnswerInv, Stream, Follows, Full, IsLast, From, MessageOf, Message
<1> QED BY <1>10, <1>11

LEMMA ReadStep == ASSUME Inv, ReadPacket PROVE Inv' /\ Ends
<1>1. phase = "length" \/ phase = "payload"
  BY DEF ReadPacket, Reading
<1> QED BY <1>1, ReadLength, ReadPayload

-----------------------------------------------------------------------------
(* The device answers, the cable is pulled, the process dies.              *)

\* The answer is to a newer exchange than all packets on the way.
LEMMA AnswerStep == ASSUME Inv, NEW r \in Replies, DeviceAnswer(r[1], r[2]) PROVE Inv'
<1>1. PICK x : x = asked[1][2]
  OBVIOUS
<1>2. /\ asked # <<>> /\ in' = in \o PacketsOf(Message(x, r)) /\ asked' = <<>>
      /\ UNCHANGED <<n, phase, out, hfSeq, hfPos, hfBuf, want, got, result>>
      /\ UNCHANGED <<device, calm, newest>>
  BY <1>1 DEF DeviceAnswer, PacketsOf, Message, host, framer
<1>3. HostInv /\ n \in Nat /\ n \in 0..MaxExchanges
  BY ConstantsAssumption DEF Inv, HostInv
<1>4. PICK top \in Nat : /\ top = Sent /\ Sent' = top /\ top <= MaxExchanges /\ top <= n
                         /\ newest \in 0..top /\ newest \in Nat
  <2>1. Sent = n \/ (Sent = n - 1 /\ n > 0)
    BY <1>3 DEF Sent, HostInv
  <2>2. newest \in 0..Sent /\ Sent' = Sent
    BY <1>2, <1>3 DEF HostInv, Sent
  <2> QED BY <1>3, <2>1, <2>2, ConstantsAssumption
<1>5. PICK y \in (newest + 1)..top, size \in RequestSizes :
         /\ asked = Request(y, size)
         /\ \A i \in 1..Len(in) : From(in[i].data) < y
         /\ phase = "payload" => From(hfBuf) < y
  BY <1>2, <1>4 DEF Inv, AskInv
<1>6. y = x /\ y \in Nat /\ x \in 1..top /\ newest < x
  <2>1. y \in Nat /\ y \in 1..top /\ newest < y
    BY <1>4, <1>5
  <2>2. Request(y, size)[1][2] = y
    BY <2>1, <1>5, RequestFacts
  <2> QED BY <1>1, <1>5, <2>1, <2>2
<1>7. PICK ans \in [1..MaxExchanges -> Replies] : Stream(in, ans, top) /\ ReadInv(ans)
  BY <1>4 DEF Inv, AnswerInv
<1>8. PICK s : s = in
  OBVIOUS
<1>9. PICK new, all :
         /\ new = [ans EXCEPT ![x] = r] /\ all = s \o PacketsOf(Message(x, r))
         /\ new \in [1..MaxExchanges -> Replies]
         /\ Stream(all, new, top) /\ all # <<>>
         /\ s # <<>> => all[1] = s[1]
         /\ s = <<>> => From(all[1].data) = x /\ all[1].seq = 0
         /\ \A i \in 1..Len(all) : From(all[i].data) = x \/ (i \in 1..Len(s) /\ all[i] = s[i])
  <2>1. \A i \in 1..Len(s) : From(s[i].data) < x
    BY <1>5, <1>6, <1>8
  <2>2. PICK new, all : new = [ans EXCEPT ![x] = r] /\ all = s \o PacketsOf(Message(x, r))
    OBVIOUS
  <2>3. Stream(s, ans, top)
    BY <1>7, <1>8
  <2>4. Grown(s, top, x, [ans EXCEPT ![x] = r], s \o PacketsOf(Message(x, r)))
    BY <1>4, <1>6, <2>1, <2>3, StreamAppend
  <2>5. Grown(s, top, x, new, all)
    BY <2>2, <2>4
  <2> QED BY <2>2, <2>5 DEF Grown
<1>10. in' = all
  BY <1>2, <1>8, <1>9
<1>11. HostInv' /\ WriteInv' /\ AskInv'
  <2>1. HostInv'
    BY <1>2, <1>3, <1>4 DEF HostInv
  <2>2. WriteInv' /\ AskInv'
    BY <1>2 DEF Inv, WriteInv, AskInv
  <2> QED BY <2>1, <2>2
<1>12. OrderInv'
  <2> SUFFICES ASSUME phase # "payload"
               PROVE  /\ newest <= From(all[1].data)
                      /\ all[1].seq = 0 => newest < From(all[1].data)
    BY <1>2, <1>10 DEF OrderInv, From
  <2>1. CASE s = <<>>
    BY <1>4, <1>6, <1>9, <2>1
  <2>2. CASE s # <<>>
    BY <1>8, <1>9, <2>2 DEF Inv, OrderInv
  <2> QED BY <2>1, <2>2
<1>13. CalmInv'
  <2> SUFFICES ASSUME calm
               PROVE  /\ phase = "length" /\ all[1].seq = 0
                      /\ \A i \in 1..Len(all) : From(all[i].data) = n
    BY <1>2, <1>9, <1>10 DEF CalmInv, From
  <2>1. phase = "length" /\ in = <<>> /\ x = n
    BY <1>1, <1>2, <1>3 DEF Inv, CalmInv, HostInv
  <2> QED BY <1>8, <1>9, <2>1, EmptyIsSeq
<1>14. ReadInv(new)'
  <2> SUFFICES ASSUME phase = "payload" PROVE ReadInv(new)'
    BY <1>2 DEF ReadInv
  <2>1. PICK b, m, z : b = hfBuf /\ m = MessageOf(ans, b) /\ z = From(b)
    OBVIOUS
  <2>2. /\ hfSeq > 0 /\ z \in (newest + 1)..n /\ Full(b, hfSeq - 1, m)
        /\ want = Len(m) - 2 /\ Len(got) < want
        /\ Len(got) + 2 = (hfSeq - 1) * Payload + hfPos
        /\ \A j \in 1..Len(got) : got[j] = m[j + 2]
        /\ in = <<>> => IsLast(hfSeq - 1, m)
        /\ in # <<>> => Follows(hfSeq - 1, z, m, in[1])
    BY <1>7, <2>1 DEF ReadInv
  <2>3. z < x /\ z \in 1..MaxExchanges
    BY <1>3, <1>4, <1>5, <1>6, <2>1, <2>2, ConstantsAssumption
  <2>4. MessageOf(new, b) = m
    BY <1>6, <1>9, <2>1, <2>3 DEF MessageOf
  <2>5. all # <<>> /\ Follows(hfSeq - 1, z, m, all[1])
    <3>1. CASE s = <<>>
      BY <1>6, <1>8, <1>9, <2>2, <2>3, <3>1 DEF Follows
    <3>2. CASE s # <<>>
      BY <1>8, <1>9, <2>2, <3>2
    <3> QED BY <1>9, <3>1, <3>2
  <2>6. b = hfBuf' /\ From(hfBuf)' = z /\ (MessageOf(new, hfBuf))' = m
    BY <1>2, <1>9, <2>1, <2>4 DEF From, MessageOf
  <2> QED BY <1>2, <1>10, <2>2, <2>5, <2>6 DEF ReadInv, Full, IsLast, Follows, From
<1>15. Stream(in', new, Sent')
  BY <1>4, <1>9, <1>10
<1> QED BY <1>9, <1>11, <1>12, <1>13, <1>14, <1>15 DEF Inv, AnswerInv, Stream, Follows, Full, IsLast, From, MessageOf, Message

\* A cable pulled while the payload is read: the answer ends in cleared bytes.
LEMMA UnplugPayload ==
    ASSUME Inv, Unplug, phase = "payload"
    PROVE  /\ phase' = "idle" /\ want' = 0 /\ got' = <<>> /\ UNCHANGED out
           /\ result' \in Results /\ Len(result'.cut) = 2 /\ newest' \in newest..n /\ Ends
<1>1. Finish(got \o [i \in 1..(want - Len(got)) |-> Pad]) /\ Note /\ UNCHANGED out
  BY DEF Unplug, ReadFails
<1>2. HostInv /\ n \in Nat /\ n \in 0..MaxExchanges /\ Sent = n /\ newest \in 0..n
      /\ newest \in Nat /\ got \in Seq(Byte) /\ Len(got) \in Nat
  BY ConstantsAssumption DEF Inv, HostInv, Sent
<1>3. PICK ans \in [1..MaxExchanges -> Replies] : ReadInv(ans)
  BY DEF Inv, AnswerInv
<1>4. PICK m, x : m = MessageOf(ans, hfBuf) /\ x = From(hfBuf)
  OBVIOUS
<1>5. /\ x \in (newest + 1)..n /\ want = Len(m) - 2 /\ Len(got) < want
      /\ \A j \in 1..Len(got) : got[j] = m[j + 2]
  BY <1>3, <1>4 DEF ReadInv
<1>6. x \in Nat /\ x \in 1..MaxExchanges
  BY <1>2, <1>5, ConstantsAssumption
<1>7. PICK r \in Replies : r = ans[x] /\ m = Message(x, r)
  BY <1>4, <1>6 DEF MessageOf
<1>8. m \in Seq(OfExchange(x)) /\ Len(m) = r[1] + 2 /\ r[1] \in Nat /\ r[1] >= 2
  BY <1>6, <1>7, MessageIs
<1>9. PICK pads : pads = [i \in 1..(want - Len(got)) |-> Pad]
  OBVIOUS
<1>10. want = r[1] /\ want - Len(got) \in Nat
  BY <1>2, <1>5, <1>8
<1>11. PICK T : T = OfExchange(x) \cup {Pad}
  OBVIOUS
<1>12. T \subseteq Byte
  BY <1>6, <1>11, OfExchangeFacts
<1>13. got \in Seq(T)
  <2>1. \A j \in 1..Len(got) : got[j] \in T
    <3> SUFFICES ASSUME NEW j \in 1..Len(got) PROVE got[j] \in T
      OBVIOUS
    <3>1. j + 2 \in 1..Len(m)
      BY <1>2, <1>5, <1>8
    <3>2. m[j + 2] \in OfExchange(x)
      BY <1>8, <3>1
    <3> QED BY <1>5, <1>11, <3>2
  <2>2. DOMAIN got = 1..Len(got) /\ got = [j \in 1..Len(got) |-> got[j]]
    BY <1>2
  <2> QED BY <1>2, <2>1, <2>2, FunctionIsSeq
<1>14. pads \in Seq(T) /\ Len(pads) = want - Len(got)
  <2>1. pads \in [1..(want - Len(got)) -> T]
    BY <1>9, <1>11
  <2> QED BY <1>10, <2>1, FunctionIsSeq
<1>15. PICK resp : resp = got \o pads
  OBVIOUS
<1>16. resp \in Seq(T) /\ Len(resp) = want /\ Len(resp) >= 2
  <2>1. got \o pads \in Seq(T) /\ Len(got \o pads) = Len(got) + Len(pads)
    BY <1>13, <1>14, SequenceFacts
  <2>2. PICK g \in Nat, l \in Nat : g = Len(got) /\ l = Len(pads)
    BY <1>2, <1>10, <1>14
  <2> QED BY <1>2, <1>8, <1>10, <1>14, <1>15, <2>1, <2>2
<1>17. resp \in Seq(Byte)
  BY <1>12, <1>16
<1>18. /\ phase' = "idle" /\ want' = 0 /\ got' = <<>>
       /\ result' \in Results /\ result'.ok /\ Len(result'.cut) = 2
       /\ result'.bytes \o result'.cut = resp
  BY <1>1, <1>2, <1>9, <1>15, <1>16, <1>17, FinishFacts
<1>19. Sources(result') \in {{}, {x}}
  <2>1. PICK res \in Results : res = result'
    BY <1>18
  <2>2. res.bytes \o res.cut \in Seq(OfExchange(x) \cup {Pad})
    BY <1>11, <1>16, <1>18, <2>1
  <2> QED BY <1>6, <2>1, <2>2, SourcesFacts
<1>20. CASE Sources(result') = {}
  <2>1. newest' = newest
    BY <1>1, <1>20 DEF Note
  <2> QED BY <1>1, <1>2, <1>18, <1>20, <2>1 DEF Ends
<1>21. CASE Sources(result') = {x}
  <2>1. newest' = x
    <3>1. newest' = Source(result') /\ Source(result') \in Sources(result')
      BY <1>1, <1>18, <1>21 DEF Note, Source
    <3> QED BY <1>21, <3>1
  <2>2. newest' \in newest..n
    BY <1>2, <1>5, <2>1
  <2> QED BY <1>1, <1>5, <1>18, <1>21, <2>1, <2>2 DEF Ends
<1> QED BY <1>19, <1>20, <1>21

LEMMA UnplugStep ==
    ASSUME Inv, Unplug
    PROVE  /\ Inv' /\ n' = n
           /\ \/ phase = "idle" /\ UNCHANGED <<phase, result, newest>>
              \/ phase # "idle" /\ phase' = "idle" /\ Ends
<1>1. /\ in' = <<>> /\ device' = <<>> /\ asked' = <<>> /\ calm' = FALSE /\ Note
      /\ UNCHANGED <<n, hfSeq, hfPos, hfBuf>>
  BY DEF Unplug, framer
<1>2. HostInv /\ n \in Nat /\ n \in 0..MaxExchanges /\ newest \in Nat
  <2>1. HostInv
    BY DEF Inv
  <2>2. n \in Nat /\ newest \in 0..Sent
    BY <2>1, ConstantsAssumption DEF HostInv
  <2> QED BY <2>1, <2>2 DEF HostInv
<1>3. PICK ans \in [1..MaxExchanges -> Replies] : TRUE
  BY SomeAnswers
<1>4. CASE phase = "idle"
  <2>1. UNCHANGED <<phase, out, want, got, result>>
    BY <1>4 DEF Unplug, Reading
  <2>2. newest' = newest /\ Sent' = n /\ Sent = n
    BY <1>1, <1>4, <2>1 DEF Note, Sent
  <2>3. HostInv'
    BY <1>1, <1>2, <2>1, <2>2, EmptyIsSeq DEF HostInv
  <2>4. WriteInv' /\ AskInv' /\ OrderInv' /\ CalmInv'
    BY <1>1, <1>4, <2>1 DEF WriteInv, AskInv, OrderInv, CalmInv
  <2>5. Stream(in', ans, Sent') /\ ReadInv(ans)'
    BY <1>1, <1>4, <2>1, StreamEmpty DEF ReadInv
  <2> QED BY <1>1, <1>3, <1>4, <2>1, <2>2, <2>3, <2>4, <2>5 DEF Inv, AnswerInv, Stream, Follows, Full, IsLast, From, MessageOf, Message
<1>5. CASE phase = "write" \/ phase = "length"
  <2>1. /\ phase' = "idle" /\ result' = Failure(n) /\ out' = <<>>
        /\ want' \in {want, 0} /\ (phase = "write" => want' = want)
        /\ (phase = "length" => want' = 0) /\ got' = <<>>
    BY <1>2, <1>5 DEF Unplug, Reading, ReadFails, HostInv
  <2>2. newest' = newest
    <3>1. Sources(result') = {}
      BY <2>1, NoSources
    <3> QED BY <1>1, <3>1 DEF Note
  <2>3. Failed
    <3>1. want' = 0
      BY <1>2, <1>5, <2>1 DEF HostInv
    <3>2. /\ hfSeq' \in Nat /\ hfPos' \in 0..Payload
          /\ hfBuf' = <<>> \/ hfBuf' \in [1..Payload -> Byte]
      BY <1>1, <1>2 DEF HostInv
    <3> QED BY <1>1, <1>5, <2>1, <2>2, <3>1, <3>2, EmptyIsSeq DEF Failed
  <2>4. Ends
    BY <2>1, <2>2 DEF Ends
  <2> QED BY <1>1, <1>5, <2>1, <2>3, <2>4, FailedInv
<1>6. CASE phase = "payload"
  <2>1. /\ phase' = "idle" /\ want' = 0 /\ got' = <<>> /\ UNCHANGED out
        /\ result' \in Results /\ Len(result'.cut) = 2 /\ newest' \in newest..n /\ Ends
    BY <1>6, UnplugPayload
  <2>2. Sent' = n
    BY <1>1, <2>1 DEF Sent
  <2>3. HostInv'
    <3>1. newest' \in 0..n
      BY <1>2, <2>1
    <3> QED BY <1>1, <1>2, <1>6, <2>1, <2>2, <3>1, EmptyIsSeq DEF HostInv, Results
  <2>4. WriteInv' /\ AskInv' /\ OrderInv' /\ CalmInv'
    BY <1>1, <2>1 DEF WriteInv, AskInv, OrderInv, CalmInv
  <2>5. Stream(in', ans, Sent') /\ ReadInv(ans)'
    BY <1>1, <2>1, StreamEmpty DEF ReadInv
  <2> QED BY <1>1, <1>3, <1>6, <2>1, <2>3, <2>4, <2>5 DEF Inv, AnswerInv, Stream, Follows, Full, IsLast, From, MessageOf, Message
<1> QED BY <1>2, <1>4, <1>5, <1>6 DEF HostInv

LEMMA DieStep == ASSUME Inv, Die PROVE Inv'
<1>1. /\ phase # "idle" /\ phase' = "idle" /\ out' = <<>> /\ want' = 0 /\ got' = <<>>
      /\ result' = NoResult /\ in' \in {in, <<>>} /\ calm' = FALSE
      /\ UNCHANGED <<n, hfSeq, hfPos, hfBuf, device, asked, newest>>
  BY DEF Die, framer
<1>2. /\ hfSeq' \in Nat /\ hfPos' \in 0..Payload /\ device' \in Seq(Byte)
      /\ hfBuf' = <<>> \/ hfBuf' \in [1..Payload -> Byte]
  BY <1>1 DEF Inv, HostInv
<1>3. Failed
  BY <1>1, <1>2 DEF Failed
<1> QED BY <1>3, FailedInv

LEMMA NextInv == ASSUME Inv, [Next]_vars PROVE Inv'
<1>1. CASE \E size \in RequestSizes : StartExchange(size)
  BY <1>1, StartInv
<1>2. CASE WriteChunk
  BY <1>2, WriteStep
<1>3. CASE Drain
  BY <1>3, DrainStep
<1>4. CASE ReadPacket
  BY <1>4, ReadStep
<1>5. CASE Respond
  <2>1. PICK r \in Replies : DeviceAnswer(r[1], r[2])
    BY <1>5 DEF Respond
  <2> QED BY <2>1, AnswerStep
<1>6. CASE Unplug
  BY <1>6, UnplugStep
<1>7. CASE Die
  BY <1>7, DieStep
<1>8. CASE UNCHANGED vars
  <2>1. /\ UNCHANGED <<n, phase, out, hfSeq, hfPos, hfBuf, want, got, result>>
        /\ UNCHANGED <<in, device, asked, calm, newest>>
    BY <1>8 DEF vars, host, framer
  <2>2. HostInv' /\ Sent' = Sent
    BY <2>1 DEF Inv, HostInv, Sent
  <2>3. WriteInv' /\ AskInv' /\ OrderInv' /\ CalmInv'
    BY <2>1, <2>2 DEF Inv, WriteInv, AskInv, OrderInv, CalmInv
  <2>4. AnswerInv'
    BY <2>1, <2>2 DEF Inv, AnswerInv, ReadInv
  <2> QED BY <2>2, <2>3, <2>4 DEF Inv
<1> QED BY <1>1, <1>2, <1>3, <1>4, <1>5, <1>6, <1>7, <1>8 DEF Next, HostStep

-----------------------------------------------------------------------------
(* What the runs check, for every value of the constants.                  *)

\* The packets on the way are the rest of one answer and whole answers behind
\* it, newer ones behind older ones, all newer than those that were returned.
THEOREM StreamOfAnswers == Spec => []Inv
<1>1. Init => Inv
  BY InitInv
<1>2. Inv /\ [Next]_vars => Inv'
  BY NextInv
<1> QED BY <1>1, <1>2, PTL DEF Spec

LEMMA InvType == ASSUME Inv PROVE TypeOK
<1>1. HostInv /\ n \in 0..MaxExchanges /\ n \in Nat
  BY ConstantsAssumption DEF Inv, HostInv
<1>2. newest \in 0..n
  <2>1. Sent \in Nat /\ Sent <= n
    BY <1>1 DEF Sent, HostInv
  <2> QED BY <1>1, <2>1 DEF HostInv
<1>3. Len(hfBuf) \in {0, Payload}
  <2>1. CASE hfBuf = <<>>
    BY <2>1
  <2>2. CASE hfBuf \in [1..Payload -> Byte]
    <3>1. Payload \in Nat
      BY ConstantsAssumption
    <3> QED BY <2>2, <3>1, FunctionIsSeq
  <2> QED BY <1>1, <2>1, <2>2 DEF HostInv
<1>4. Len(got) <= want
  <2>1. CASE phase = "payload"
    BY <1>1, <2>1 DEF Inv, AnswerInv, ReadInv, HostInv
  <2>2. CASE phase # "payload"
    BY <1>1, <2>2, EmptyIsSeq DEF HostInv
  <2> QED BY <2>1, <2>2
<1>5. \A p \in ToSet(in) : Len(p.data) = Payload
  <2> SUFFICES ASSUME NEW p \in ToSet(in) PROVE Len(p.data) = Payload
    OBVIOUS
  <2>1. in \in Seq(Packet)
    BY DEF Inv, AnswerInv, Stream
  <2>2. p \in Packet
    BY <2>1, SequenceFacts
  <2>3. p.data \in [1..Payload -> Byte] /\ Payload \in Nat
    BY <2>2, ConstantsAssumption DEF Packet
  <2> QED BY <2>3, FunctionIsSeq
<1>6. \A p \in ToSet(out) : Len(p.data) \in 1..Payload
  <2>1. CASE phase = "write"
    <3>1. PICK size, m :
             /\ size \in RequestSizes /\ m = WithLength(n, Request(n, size))
             /\ out \in Seq(Chunk) /\ \A i \in 1..Len(out) : Part(out[i].data, out[i].seq, m)
      BY <2>1 DEF Inv, WriteInv
    <3> SUFFICES ASSUME NEW p \in ToSet(out) PROVE Len(p.data) \in 1..Payload
      OBVIOUS
    <3>2. PICK i \in 1..Len(out) : p = out[i]
      BY <3>1, SequenceFacts
    <3>3. PICK d, k : d = p.data /\ Part(d, k, m)
      BY <3>1, <3>2
    <3>4. m \in Seq(Byte)
      BY <1>1, <3>1, RequestMessage
    <3>5. PICK a \in Nat : a = k * Payload /\ a < Len(m)
      BY <3>3, ConstantsAssumption, Multiples DEF Part
    <3> QED BY <3>3, <3>4, <3>5, ConstantsAssumption DEF Part, Least
  <2>2. CASE phase # "write"
    BY <1>1, <2>2 DEF HostInv, ToSet
  <2> QED BY <2>1, <2>2
<1> QED BY <1>1, <1>2, <1>3, <1>4, <1>5, <1>6 DEF TypeOK, HostInv

\* The framer's buffer, position and sequence number stay what Read assumes.
THEOREM TypeCorrect == Spec => []TypeOK
BY StreamOfAnswers, InvType, PTL

LEMMA InvRequest == ASSUME Inv PROVE RequestArrivesWhole
<1> SUFFICES ASSUME asked # <<>>
             PROVE  \E size \in RequestSizes : asked = Request(asked[1][2], size)
  BY DEF RequestArrivesWhole
<1>1. PICK x \in (newest + 1)..Sent, size \in RequestSizes : asked = Request(x, size)
  BY DEF Inv, AskInv
<1>2. x \in Nat
  BY ConstantsAssumption DEF Inv, HostInv, Sent
<1>3. Request(x, size)[1][2] = x
  BY <1>2, RequestFacts
<1> QED BY <1>1, <1>3

\* The application sees whole APDUs only, for every length and packet size,
\* also behind the chunks of a process that died.
THEOREM RequestsWhole == Spec => []RequestArrivesWhole
BY StreamOfAnswers, InvRequest, PTL

\* An undisturbed exchange returns the answer to its own command, byte for byte.
THEOREM AnswerReturned == Spec => []ExchangeReturnsAnswer
<1>1. Inv => ExchangeReturnsAnswer
  BY DEF Inv, CalmInv, ExchangeReturnsAnswer
<1> QED BY <1>1, StreamOfAnswers, PTL

-----------------------------------------------------------------------------
(* The framing implements Exchange.                                        *)

LEMMA OutcomeFacts ==
    /\ result' = NoResult => Outcome' = OneExchange!Pending
    /\ ~result'.ok /\ result' # NoResult => Outcome' = OneExchange!Outcome("error", 0)
    /\ result'.ok /\ Sources(result') = {} => Outcome' = OneExchange!Outcome("cleared", 0)
    /\ \A x : result'.ok /\ Sources(result') = {x} => Outcome' = OneExchange!Outcome("answer", x)
<1>1. \A r : r.ok => r # NoResult
  BY NoResultFacts
<1>2. \A x : Sources(result') = {x} => Source(result') = x
  BY DEF Source
<1> QED BY <1>1, <1>2 DEF Outcome, Ended, OneExchange!Pending, OneExchange!Outcome

\* A step of the host that ends the exchange is a step of Exchange.
LEMMA EndsMaps ==
    ASSUME Ends, phase # "idle", n' = n, n \in Nat, n # 0
    PROVE  [OneExchange!Begin \/ OneExchange!Return \/ OneExchange!Fail]_(OneExchange!vars)
<1>1. CASE phase' # "idle" /\ UNCHANGED <<result, newest>>
  BY <1>1 DEF OneExchange!vars, Outcome
<1>2. CASE phase' = "idle" /\ result' = Failure(n) /\ newest' = newest
  <2>1. Outcome' = OneExchange!Outcome("error", 0)
    BY <1>2, NoResultFacts, OutcomeFacts
  <2>2. OneExchange!Fail
    BY <1>2, <2>1 DEF OneExchange!Fail, OneExchange!End
  <2> QED BY <2>2
<1>3. CASE phase' = "idle" /\ result'.ok /\ Sources(result') = {} /\ newest' = newest
  <2>1. OneExchange!Fail
    BY <1>3, OutcomeFacts DEF OneExchange!Fail, OneExchange!End
  <2> QED BY <2>1
<1>4. CASE /\ phase' = "idle" /\ result'.ok
           /\ \E x \in (newest + 1)..n : Sources(result') = {x} /\ newest' = x
  <2>1. OneExchange!Return
    BY <1>4, OutcomeFacts DEF OneExchange!Return, OneExchange!End
  <2> QED BY <2>1
<1> QED BY <1>1, <1>2, <1>3, <1>4 DEF Ends

LEMMA StutterMaps ==
    ASSUME UNCHANGED <<n, result, newest>>, (phase' = "idle") <=> (phase = "idle")
    PROVE  UNCHANGED OneExchange!vars
BY DEF OneExchange!vars, Outcome

\* Every exchange ends once, no answer is put together from two, each is
\* returned once and in order, whatever dead processes left on the cable and
\* wherever packets cut them.
THEOREM Refinement == Spec => ImplementsExchange
<1>1. Init => OneExchange!Init
  BY DEF Init, OneExchange!Init, OneExchange!Pending, OneExchange!Outcome, Outcome, Ended
<1>2. ASSUME Inv, [Next]_vars
      PROVE  [OneExchange!Begin \/ OneExchange!Return \/ OneExchange!Fail]_(OneExchange!vars)
  <2>0. n \in Nat /\ (phase # "idle" => n # 0)
    BY <1>2, ConstantsAssumption DEF Inv, HostInv
  <2>1. ASSUME NEW size \in RequestSizes, StartExchange(size) PROVE OneExchange!Begin
    <3>1. phase = "idle" /\ n' = n + 1 /\ phase' = "write" /\ result' = NoResult /\ newest' = newest
      BY <2>1 DEF StartExchange
    <3> QED BY <3>1, OutcomeFacts DEF OneExchange!Begin
  <2>2. CASE WriteChunk
    <3>1. UNCHANGED <<n, result, newest>> /\ phase = "write" /\ phase' \in {phase, "length"}
      BY <2>2 DEF WriteChunk
    <3> QED BY <3>1, StutterMaps
  <2>3. CASE Drain
    <3>1. Ends /\ n' = n /\ phase # "idle"
      BY <1>2, <2>3, DrainStep DEF Drain, Reading
    <3> QED BY <2>0, <3>1, EndsMaps
  <2>4. CASE ReadPacket
    <3>1. Ends /\ n' = n /\ phase # "idle"
      BY <1>2, <2>4, ReadStep DEF ReadPacket, Reading
    <3> QED BY <2>0, <3>1, EndsMaps
  <2>5. CASE Respond
    <3>1. UNCHANGED <<n, result, newest, phase>>
      BY <2>5 DEF Respond, DeviceAnswer, host
    <3> QED BY <3>1, StutterMaps
  <2>6. CASE Unplug
    <3>1. /\ n' = n
          /\ \/ phase = "idle" /\ UNCHANGED <<phase, result, newest>>
             \/ phase # "idle" /\ phase' = "idle" /\ Ends
      BY <1>2, <2>6, UnplugStep
    <3> QED BY <2>0, <3>1, EndsMaps, StutterMaps
  <2>7. CASE Die
    <3>1. phase # "idle" /\ phase' = "idle" /\ result' = NoResult /\ UNCHANGED <<n, newest>>
      BY <2>7 DEF Die
    <3>2. OneExchange!Fail
      BY <3>1, OutcomeFacts DEF OneExchange!Fail, OneExchange!End
    <3> QED BY <3>2
  <2>8. CASE UNCHANGED vars
    BY <2>8, StutterMaps DEF vars, host
  <2> QED BY <1>2, <2>1, <2>2, <2>3, <2>4, <2>5, <2>6, <2>7, <2>8 DEF Next, HostStep
<1> QED BY <1>1, <1>2, StreamOfAnswers, PTL DEF Spec, ImplementsExchange, OneExchange!Spec

=============================================================================
