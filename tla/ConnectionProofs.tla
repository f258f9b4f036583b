-------------------------- MODULE ConnectionProofs --------------------------
(***************************************************************************)
(* Proofs about Connection, for any packets, bodies and bytes.             *)
(*                                                                         *)
(* OneWriteWhileSending says too little to go on by itself: that a failed  *)
(* write leaves the queue closed for good, and that the packet at the head *)
(* of the queue was written or is in the write going on, are WriteInv.     *)
(*                                                                         *)
(* SinglePacketsDelivered needs the stream: StreamIInv says that the bytes *)
(* the reader has taken, the bytes it holds and those under way are, one   *)
(* after the other, the packets written.                                   *)
(***************************************************************************)
EXTENDS Connection, SequenceLemmas

\* One write while the queue is not empty, none after a failure, and the write
\* that goes on has the head of the queue.
WriteInv ==
  /\ ~failed => Len(ops) = IF queue = <<>> THEN 0 ELSE 1
  /\ failed => ops = <<>> /\ queue # <<>>
  /\ ops # <<>> => queue[1] \in ToSet(written) \cup ToSet(ops[1])

\* The queue is what is left of the packets sent, and what has left it was written.
QueueInv ==
  /\ IsInjective(sent)
  /\ Len(sent) = popped + Len(queue)
  /\ \A k \in 1 .. Len(queue) : queue[k] = sent[popped + k]
  /\ \A k \in 1 .. popped : sent[k] \in ToSet(written)

\* A stream buffer holds its packet, or is consumed.
LeftInv == \A p \in Packet : left[p] \in {Body[p], <<>>}

IInv == TypeOK /\ WriteInv /\ QueueInv /\ LeftInv

------------------------------------------------------------------------------
(* Numbers in memory.                                                      *)

LEMMA Numbers ==
  /\ Base \in Nat /\ Base > 1
  /\ Base * Base \in Nat /\ Base * Base >= 2 * Base
  /\ Flag \in Nat /\ Flag > 0 /\ Base \div 2 <= Flag /\ Base \div 2 < Base
<1>1. Base \in Nat /\ Base > 1
  BY ConnectionAssumption
<1>2. Base * Base \in Nat /\ Base * Base >= 2 * Base
  BY <1>1
<1>3. Flag \in Nat /\ Flag > 0
  BY <1>1, <1>2 DEF Flag
<1>4. Base \div 2 <= Flag /\ Base \div 2 < Base
  BY <1>1, <1>2 DEF Flag
<1> QED BY <1>1, <1>2, <1>3, <1>4

LEMMA SmallWord ==
  ASSUME NEW n \in Nat, n < Base
  PROVE  n \in Word
<1> DEFINE square == Base * Base
<1>1. square \in Nat /\ square >= 2 * Base /\ Base \in Nat
  BY Numbers
<1> HIDE DEF square
<1>2. n \in 0 .. square - 1
  BY <1>1
<1> QED BY <1>2 DEF Word, square

\* A word is two bytes.
LEMMA LittleBytes ==
  ASSUME NEW w \in Word
  PROVE  ToLittle(w) \in Seq(Byte)
<1>1. w % Base \in Byte
  BY Numbers DEF Word, Byte
<1>2. w \div Base \in Byte
  <2>1. w \in Nat /\ w < Base * Base
    BY Numbers DEF Word
  <2>2. w \div Base \in Nat /\ Base * (w \div Base) <= w
    BY <2>1, Numbers
  <2>3. ASSUME w \div Base >= Base PROVE FALSE
    <3>1. Base * (w \div Base) >= Base * Base
      BY <2>2, <2>3, Numbers
    <3> QED BY <2>1, <2>2, <3>1, Numbers
  <2> QED BY <2>2, <2>3, Numbers DEF Byte
<1> QED BY <1>1, <1>2 DEF ToLittle

LEMMA LittleWord ==
  ASSUME NEW a \in Byte, NEW b \in Byte
  PROVE  a + Base * b \in Word
<1>1. a \in Nat /\ b \in Nat /\ a <= Base - 1 /\ b <= Base - 1
  BY Numbers DEF Byte
<1>2. Base * b <= Base * (Base - 1) /\ Base * b \in Nat
  BY <1>1, Numbers
<1>3. Base * (Base - 1) = Base * Base - Base
  BY Numbers
<1> QED BY <1>1, <1>2, <1>3, Numbers DEF Word

\* What is left of a word when only its flag is kept.
LEMMA FlagWord ==
  ASSUME NEW n \in Nat
  PROVE  ((n % (Base * Base)) \div Flag) * Flag \in Word
<1> DEFINE m == n % (Base * Base)
<1>1. m \in Nat /\ m < Base * Base
  BY Numbers
<1> HIDE DEF m
<1>2. m \div Flag \in Nat /\ Flag * (m \div Flag) <= m
  BY <1>1, Numbers
<1>3. (m \div Flag) * Flag = Flag * (m \div Flag) /\ (m \div Flag) * Flag \in Nat
  BY <1>2, Numbers
<1> QED BY <1>1, <1>2, <1>3, Numbers DEF Word, m

\* The bytes of the packets of a queue can be counted.
LEMMA TotalSizeNat ==
  ASSUME NEW q \in Seq(Packet), NEW c \in [Packet -> Seq(Byte)],
         \A p \in Packet : Len(c[p]) < Base
  PROVE  TotalSize(q, c) \in Nat
<1> DEFINE bytes == UNION {{i} \X (1 .. Len(c[q[i]])) : i \in DOMAIN q}
<1>1. IsFiniteSet((1 .. Len(q)) \X (1 .. Base))
  <2>1. 1 \in Int /\ Len(q) \in Int /\ Base \in Int
    BY Numbers
  <2>2. IsFiniteSet(1 .. Len(q)) /\ IsFiniteSet(1 .. Base)
    BY <2>1, FS_Interval
  <2> QED BY <2>2, FS_Product
<1>2. bytes \subseteq (1 .. Len(q)) \X (1 .. Base)
  <2>1. ASSUME NEW i \in DOMAIN q, NEW x \in {i} \X (1 .. Len(c[q[i]]))
        PROVE  x \in (1 .. Len(q)) \X (1 .. Base)
    <3>1. i \in 1 .. Len(q) /\ q[i] \in Packet /\ Len(c[q[i]]) < Base /\ Len(c[q[i]]) \in Nat
      OBVIOUS
    <3>2. 1 .. Len(c[q[i]]) \subseteq 1 .. Base
      BY <3>1, Numbers
    <3> QED BY <2>1, <3>1, <3>2
  <2> QED BY <2>1
<1>3. IsFiniteSet(bytes)
  BY <1>1, <1>2, FS_Subset
<1> QED BY <1>3, FS_CardinalityType DEF TotalSize

------------------------------------------------------------------------------
(* Sequences.                                                              *)

\* Packets that are sent once are no more than there are.
LEMMA SentBounded ==
  ASSUME NEW s \in Seq(Packet), IsInjective(s)
  PROVE  Len(s) < Base \div 2
<1>1. s \in [1 .. Len(s) -> Packet] /\ Len(s) \in Nat
  OBVIOUS
<1>2. s \in Injection(1 .. Len(s), Packet)
  BY <1>1 DEF IsInjective, Injection
<1>3. Cardinality(1 .. Len(s)) <= Cardinality(Packet)
  BY <1>2, ConnectionAssumption, FS_Injection DEF ExistsInjection
<1>4. Cardinality(1 .. Len(s)) = Len(s)
  <2>1. 1 \in Int /\ Len(s) \in Int /\ (1 > Len(s) => Len(s) = 0)
    BY <1>1
  <2>2. Cardinality(1 .. Len(s)) = IF 1 > Len(s) THEN 0 ELSE Len(s) - 1 + 1
    BY <2>1, FS_Interval
  <2> QED BY <1>1, <2>1, <2>2
<1>5. Cardinality(Packet) \in Nat
  BY ConnectionAssumption, FS_CardinalityType
<1> QED BY <1>1, <1>3, <1>4, <1>5, Numbers, ConnectionAssumption

------------------------------------------------------------------------------
(* _postWrite starts one write if there is something to write, and the     *)
(* head of the queue is in it.                                             *)

LEMMA PostWriteStarts ==
  ASSUME NEW q \in Seq(Packet), NEW c \in [Packet -> Seq(Byte)],
         \A p \in Packet : Len(c[p]) < Base \div 2,
         Len(q) < Base \div 2, TypeOK, PostWrite(q, c, <<>>)
  PROVE  /\ Len(ops') = IF q = <<>> THEN 0 ELSE 1
         /\ q # <<>> => q[1] \in ToSet(ops'[1])
         /\ ops' \in Seq(Seq(Buffer))
         /\ sendSize' \in Word /\ sendHead' \in Seq(Byte) /\ multi' \in BOOLEAN
<1>1. CASE q = <<>> /\ ops' = <<>> /\ UNCHANGED <<sendSize, sendHead, multi>>
  BY <1>1 DEF TypeOK
<1>2. CASE /\ Len(q) = 1
           /\ sendSize' = Len(c[q[1]])
           /\ ops' = Append(<<>>, <<"size">> \o q)
           /\ UNCHANGED <<sendHead, multi>>
  <2> DEFINE op == <<"size">> \o q
  <2>1. q \in Seq(Buffer) /\ <<"size">> \in Seq(Buffer)
    BY DEF Buffer
  <2>2. op \in Seq(Buffer) /\ Len(op) = 2 /\ op[2] = q[1]
    <3>1. Len(<<"size">>) = 1 /\ Len(q) = 1
      BY <1>2
    <3>2. /\ op \in Seq(Buffer) /\ Len(op) = Len(<<"size">>) + Len(q)
          /\ \A i \in 1 .. Len(<<"size">>) + Len(q) :
                op[i] = IF i <= Len(<<"size">>) THEN <<"size">>[i] ELSE q[i - Len(<<"size">>)]
      BY <2>1, ConcatProperties
    <3>3. 2 \in 1 .. 1 + 1 /\ ~(2 <= 1) /\ 2 - 1 = 1
      OBVIOUS
    <3> QED BY <3>1, <3>2, <3>3
  <2>3. ops' = <<op>>
    BY <1>2
  <2> HIDE DEF op
  <2>4. q[1] \in ToSet(op)
    <3>1. 2 \in 1 .. Len(op)
      BY <2>2
    <3>2. op[2] \in ToSet(op)
      BY <2>2, <3>1, ToSetAt
    <3> QED BY <2>2, <3>2
  <2>5. q[1] \in Packet /\ Len(c[q[1]]) \in Nat /\ Len(c[q[1]]) < Base
    BY <1>2, Numbers
  <2>6. sendSize' \in Word
    BY <1>2, <2>5, SmallWord
  <2>7. Len(ops') = 1 /\ ops'[1] = op /\ ops' \in Seq(Seq(Buffer)) /\ q # <<>>
    BY <1>2, <2>2, <2>3
  <2> QED BY <1>2, <2>4, <2>6, <2>7 DEF TypeOK
<1>3. CASE /\ Len(q) > 1
           /\ sendHead' = <<Len(q)>> \o [i \in DOMAIN q |-> Len(c[q[i]])]
           /\ sendSize' = (((TotalSize(q, c) + Len(q) + 2) % (Base * Base)) \div Flag) * Flag
           /\ ops' = Append(<<>>, <<"size", HeadBuffer>> \o q)
           /\ multi' = TRUE
  <2> DEFINE op == <<"size", HeadBuffer>> \o q
  <2>1. q \in Seq(Buffer) /\ <<"size", HeadBuffer>> \in Seq(Buffer)
    BY DEF Buffer, HeadBuffer
  <2>2. op \in Seq(Buffer) /\ Len(op) = Len(q) + 2 /\ op[3] = q[1]
    <3>1. Len(<<"size", HeadBuffer>>) = 2
      OBVIOUS
    <3> QED BY <1>3, <2>1, <3>1, ConcatProperties
  <2>3. ops' = <<op>>
    BY <1>3
  <2> HIDE DEF op
  <2>4. q[1] \in ToSet(op)
    BY <1>3, <2>2, ToSetAt
  <2>5. TotalSize(q, c) + Len(q) + 2 \in Nat
    <3>1. \A p \in Packet : Len(c[p]) < Base
      BY Numbers
    <3> QED BY <3>1, TotalSizeNat
  <2>6. sendSize' \in Word
    BY <1>3, <2>5, FlagWord
  <2>7. sendHead' \in Seq(Byte)
    <3>1. \A i \in DOMAIN q : Len(c[q[i]]) \in Byte
      BY Numbers DEF Byte
    <3>2. [i \in DOMAIN q |-> Len(c[q[i]])] \in Seq(Byte)
      <4> DEFINE len(i) == Len(c[q[i]])
      <4>1. \A i \in DOMAIN q : len(i) \in Byte
        BY <3>1
      <4>2. DOMAIN q = 1 .. Len(q) /\ Len(q) \in Nat
        BY <2>1
      <4> HIDE DEF len
      <4>3. [i \in DOMAIN q |-> len(i)] \in Seq(Byte)
        BY ONLY <4>1, <4>2
      <4> QED BY <4>3 DEF len
    <3>3. Len(q) \in Byte
      BY Numbers DEF Byte
    <3> QED BY <1>3, <3>2, <3>3
  <2>8. Len(ops') = 1 /\ ops'[1] = op /\ ops' \in Seq(Seq(Buffer)) /\ q # <<>>
    <3>1. q # <<>>
      BY <1>3
    <3> QED BY <2>2, <2>3, <3>1
  <2> QED BY <1>3, <2>4, <2>6, <2>7, <2>8
<1> QED BY <1>1, <1>2, <1>3 DEF PostWrite

------------------------------------------------------------------------------
(* IInv is an invariant.                                                   *)

LEMMA InitIInv == Init => IInv
<1> SUFFICES ASSUME Init PROVE IInv
  OBVIOUS
<1>1. TypeOK
  <2>1. 0 \in Word
    BY Numbers, SmallWord
  <2>2. left \in [Packet -> Seq(Byte)]
    BY ConnectionAssumption DEF Init
  <2>3. \A S : <<>> \in Seq(S)
    OBVIOUS
  <2> QED BY <2>1, <2>2, <2>3 DEF Init, TypeOK
<1>2. WriteInv
  BY DEF Init, WriteInv
<1>3. QueueInv
  BY ToSetEmpty DEF Init, QueueInv
<1>4. LeftInv
  BY DEF Init, LeftInv
<1> QED BY <1>1, <1>2, <1>3, <1>4 DEF IInv

\* A write is the only one, and the connection has not failed.
LEMMA OneWrite ==
  ASSUME IInv, NEW i \in DOMAIN ops
  PROVE  /\ i = 1 /\ ops = <<ops[1]>> /\ ~failed /\ queue # <<>>
         /\ ops[1] \in Seq(Buffer)
         /\ RemoveAt(ops, i) = <<>>
<1>1. ops \in Seq(Seq(Buffer)) /\ i \in 1 .. Len(ops) /\ ops # <<>>
  BY DEF IInv, TypeOK
<1>2. ~failed /\ queue # <<>> /\ Len(ops) = 1
  BY <1>1 DEF IInv, WriteInv
<1>3. i = 1 /\ ops = <<ops[1]>> /\ ops[1] \in Seq(Buffer)
  BY <1>1, <1>2
<1>4. RemoveAt(ops, 1) = <<>>
  BY <1>1, <1>2 DEF RemoveAt
<1> QED BY <1>2, <1>3, <1>4

LEMMA Sizes ==
  ASSUME TypeOK, QueueInv, LeftInv
  PROVE  /\ left \in [Packet -> Seq(Byte)]
         /\ \A p \in Packet : Len(left[p]) < Base \div 2
         /\ Len(queue) < Base \div 2
<1>1. \A p \in Packet : Len(left[p]) < Base \div 2
  BY ConnectionAssumption, Numbers DEF LeftInv
<1>2. Len(queue) <= Len(sent) /\ Len(queue) \in Nat /\ Len(sent) \in Nat
  BY DEF TypeOK, QueueInv
<1>3. Len(sent) < Base \div 2
  BY SentBounded DEF TypeOK, QueueInv
<1> QED BY <1>1, <1>2, <1>3, Numbers DEF TypeOK

\* send()
LEMMA SendKeepsIInv ==
  ASSUME IInv, NEW p \in Packet, Send(p)
  PROVE  IInv'
<1> USE DEF IInv
<1>1. /\ p \notin ToSet(sent)
      /\ queue' = Append(queue, p) /\ sent' = Append(sent, p)
      /\ UNCHANGED <<left, popped, failed, wire, written, receiver>>
  BY DEF Send
<1>2. /\ queue' \in Seq(Packet) /\ sent' \in Seq(Packet) /\ queue' # <<>>
      /\ Len(queue') = Len(queue) + 1 /\ Len(sent') = Len(sent) + 1
      /\ \A k \in 1 .. Len(queue) : queue'[k] = queue[k]
      /\ \A k \in 1 .. Len(sent) : sent'[k] = sent[k]
      /\ queue'[Len(queue) + 1] = p /\ sent'[Len(sent) + 1] = p
      /\ Len(queue) \in Nat /\ Len(sent) \in Nat /\ popped \in Nat
  <2>1. queue \in Seq(Packet) /\ sent \in Seq(Packet) /\ popped \in Nat
    BY DEF TypeOK
  <2> QED BY <1>1, <2>1, AppendProperties, LenProperties
<1>3. QueueInv'
  <2>1. IsInjective(sent')
    BY <1>1, InjectiveAppend DEF TypeOK, QueueInv
  <2>2. Len(sent') = popped' + Len(queue')
    BY <1>1, <1>2 DEF QueueInv
  <2>3. ASSUME NEW k \in 1 .. Len(queue')
        PROVE  queue'[k] = sent'[popped + k]
    <3>1. CASE k <= Len(queue)
      <4>1. k \in 1 .. Len(queue) /\ popped + k \in 1 .. Len(sent)
        BY <1>2, <3>1 DEF QueueInv
      <4>2. queue[k] = sent[popped + k]
        BY <4>1 DEF QueueInv
      <4>3. queue'[k] = queue[k] /\ sent'[popped + k] = sent[popped + k]
        BY <1>2, <4>1
      <4> QED BY <4>2, <4>3
    <3>2. CASE k = Len(queue) + 1
      BY <1>2, <3>2 DEF QueueInv
    <3> QED BY <1>2, <3>1, <3>2
  <2>4. ASSUME NEW k \in 1 .. popped
        PROVE  sent'[k] \in ToSet(written')
    <3>1. k \in 1 .. Len(sent)
      BY <1>2 DEF QueueInv
    <3> QED BY <1>1, <1>2, <3>1 DEF QueueInv
  <2> QED BY <1>1, <2>1, <2>2, <2>3, <2>4 DEF QueueInv
<1>4. LeftInv'
  BY <1>1 DEF LeftInv
<1>5. CASE queue = <<>> /\ PostWrite(queue', left, ops)
  <2>1. ~failed /\ ops = <<>>
    BY <1>5 DEF WriteInv, TypeOK
  <2>2. Len(queue') < Base \div 2
    <3>1. Len(sent') = popped + Len(queue') /\ IsInjective(sent')
      BY <1>1, <1>3 DEF QueueInv
    <3>2. Len(sent') < Base \div 2
      BY <1>2, <3>1, SentBounded
    <3>3. Len(queue') \in Nat /\ Len(queue') <= Len(sent')
      BY <1>2, <3>1
    <3> QED BY <3>2, <3>3, Numbers
  <2>3. /\ Len(ops') = 1 /\ queue'[1] \in ToSet(ops'[1])
        /\ ops' \in Seq(Seq(Buffer))
        /\ sendSize' \in Word /\ sendHead' \in Seq(Byte) /\ multi' \in BOOLEAN
    BY <1>2, <1>5, <2>1, <2>2, Sizes, PostWriteStarts
  <2>4. TypeOK'
    BY <1>1, <1>2, <2>3 DEF TypeOK, receiver
  <2>5. WriteInv'
    BY <1>1, <1>2, <2>1, <2>3 DEF WriteInv
  <2> QED BY <1>3, <1>4, <2>4, <2>5
<1>6. CASE queue # <<>> /\ UNCHANGED <<sendSize, sendHead, ops, multi>>
  <2>1. TypeOK'
    BY <1>1, <1>2, <1>6 DEF TypeOK, receiver
  <2>2. 1 \in 1 .. Len(queue)
    BY <1>2, <1>6 DEF TypeOK
  <2>3. WriteInv'
    BY <1>1, <1>2, <1>6, <2>2 DEF WriteInv
  <2> QED BY <1>3, <1>4, <2>1, <2>3
<1> QED BY <1>5, <1>6 DEF Send

\* The socket takes a buffer.
LEMMA TransmitKeepsIInv ==
  ASSUME IInv, NEW i \in DOMAIN ops, Transmit(i)
  PROVE  IInv'
<1> USE DEF IInv
<1> DEFINE buf == Head(ops[1])
<1>1. i = 1 /\ ops = <<ops[1]>> /\ ~failed /\ queue # <<>> /\ ops[1] \in Seq(Buffer)
  BY OneWrite
<1>2. /\ ops[1] # <<>>
      /\ wire' = wire \o Bytes(buf)
      /\ written' = IF buf \in Packet THEN Append(written, buf) ELSE written
      /\ ops' = [ops EXCEPT ![1] = Tail(@)]
      /\ UNCHANGED <<queue, left, sendSize, sendHead, sent, popped, multi, failed, receiver>>
  BY <1>1 DEF Transmit
<1>3. /\ buf \in Buffer /\ Tail(ops[1]) \in Seq(Buffer)
      /\ ToSet(ops[1]) = ToSet(Tail(ops[1])) \cup {buf}
  BY <1>1, <1>2, ToSetTail
<1>4. Len(ops') = 1 /\ ops'[1] = Tail(ops[1]) /\ ops' \in Seq(Seq(Buffer))
  <2>1. ops' = <<Tail(ops[1])>>
    BY <1>1, <1>2
  <2> QED BY <1>3, <2>1
<1>5. ToSet(written') = ToSet(written) \cup ({buf} \cap Packet)
  <2> HIDE DEF buf
  <2>1. written \in Seq(Packet)
    BY DEF TypeOK
  <2>2. CASE buf \in Packet
    <3>1. ToSet(Append(written, buf)) = ToSet(written) \cup {buf}
      BY <2>1, <2>2, ToSetAppend
    <3> QED BY <1>2, <2>2, <3>1
  <2>3. CASE buf \notin Packet
    BY <1>2, <2>3
  <2> QED BY <2>2, <2>3
<1>6. Bytes(buf) \in Seq(Byte)
  BY <1>3, LittleBytes, ConnectionAssumption DEF Bytes, Buffer, TypeOK
<1>7. TypeOK'
  <2>1. wire' \in Seq(Byte)
    BY <1>2, <1>6 DEF TypeOK
  <2>2. written' \in Seq(Packet)
    BY <1>2 DEF TypeOK
  <2> QED BY <1>2, <1>4, <2>1, <2>2 DEF TypeOK, receiver
<1>8. WriteInv'
  <2>1. queue[1] \in Packet
    BY <1>1 DEF TypeOK
  <2>2. queue[1] \in ToSet(written') \cup ToSet(ops'[1])
    BY <1>1, <1>3, <1>4, <1>5, <2>1 DEF WriteInv
  <2> QED BY <1>1, <1>2, <1>4, <2>2 DEF WriteInv
<1>9. QueueInv' /\ LeftInv'
  BY <1>2, <1>5 DEF QueueInv, LeftInv
<1> QED BY <1>7, <1>8, <1>9

\* _handleSend of a write that succeeded.
LEMMA HandleSendKeepsIInv ==
  ASSUME IInv, NEW i \in DOMAIN ops, HandleSend(i)
  PROVE  IInv'
<1> USE DEF IInv
<1> DEFINE done == {queue[k] : k \in 1 .. PacketNum}
<1>1. i = 1 /\ ops = <<ops[1]>> /\ ~failed /\ queue # <<>> /\ RemoveAt(ops, i) = <<>>
  BY OneWrite
<1>2. /\ ops[1] = <<>>
      /\ left' = [p \in Packet |-> IF p \in done THEN <<>> ELSE left[p]]
      /\ queue' = SubSeq(queue, 2, Len(queue))
      /\ popped' = popped + 1
      /\ PostWrite(queue', left', <<>>)
      /\ UNCHANGED <<sent, failed, wire, written, receiver>>
  BY <1>1 DEF HandleSend, PacketNum
<1>3. /\ queue' \in Seq(Packet) /\ Len(queue') = Len(queue) - 1
      /\ \A k \in 1 .. Len(queue) - 1 : queue'[k] = queue[k + 1]
      /\ Len(queue) \in Nat /\ Len(queue) > 0 /\ popped \in Nat
  <2>1. queue \in Seq(Packet) /\ popped \in Nat
    BY DEF TypeOK
  <2>2. Len(queue) \in Nat /\ Len(queue) > 0
    BY <1>1, <2>1
  <2>3. \A k \in 2 .. Len(queue) : queue[k] \in Packet
    BY <2>1
  <2>4. /\ queue' \in Seq(Packet)
        /\ Len(queue') = IF 2 <= Len(queue) THEN Len(queue) - 2 + 1 ELSE 0
        /\ \A k \in 1 .. Len(queue) - 2 + 1 : queue'[k] = queue[2 + k - 1]
    BY <1>2, <2>2, <2>3, SubSeqProperties
  <2>5. Len(queue') = Len(queue) - 1
    <3> DEFINE n == Len(queue)
               m == Len(queue')
    <3>1. n \in Nat /\ n > 0 /\ m = IF 2 <= n THEN n - 2 + 1 ELSE 0
      BY <2>2, <2>4
    <3> HIDE DEF n, m
    <3>2. m = n - 1
      BY <3>1
    <3> QED BY <3>2 DEF n, m
  <2>6. ASSUME NEW k \in 1 .. Len(queue) - 1 PROVE queue'[k] = queue[k + 1]
    <3>1. k \in 1 .. Len(queue) - 2 + 1 /\ 2 + k - 1 = k + 1
      BY <2>2
    <3> QED BY <2>4, <3>1
  <2> QED BY <2>1, <2>2, <2>4, <2>5, <2>6
<1>4. queue[1] \in ToSet(written)
  <2>1. ToSet(ops[1]) = {}
    BY <1>2, ToSetEmpty
  <2>2. ops # <<>>
    BY <1>1
  <2> QED BY <2>1, <2>2 DEF WriteInv
<1>0. popped' = popped + 1 /\ UNCHANGED <<sent, written>>
  BY <1>2
<1>5. QueueInv'
  <2>1. Len(sent) = popped' + Len(queue')
    BY <1>0, <1>3 DEF QueueInv
  <2>2. ASSUME NEW k \in 1 .. Len(queue')
        PROVE  queue'[k] = sent[popped' + k]
    <3>1. k + 1 \in 1 .. Len(queue) /\ popped' + k = popped + (k + 1)
      BY <1>0, <1>3
    <3> QED BY <1>3, <3>1 DEF QueueInv
  <2>3. ASSUME NEW k \in 1 .. popped'
        PROVE  sent[k] \in ToSet(written)
    <3>1. CASE k \in 1 .. popped
      BY <3>1 DEF QueueInv
    <3>2. CASE k = popped + 1
      <4>1. queue[1] = sent[popped + 1]
        <5>1. 1 \in 1 .. Len(queue)
          BY <1>3
        <5> QED BY <5>1 DEF QueueInv
      <4> QED BY <1>4, <3>2, <4>1
    <3> QED BY <1>0, <1>3, <3>1, <3>2
  <2> QED BY <1>0, <2>1, <2>2, <2>3 DEF QueueInv
<1>6. LeftInv'
  BY <1>2 DEF LeftInv
<1>7. left' \in [Packet -> Seq(Byte)] /\ \A p \in Packet : Len(left'[p]) < Base \div 2
  <2>1. left' \in [Packet -> Seq(Byte)]
    BY <1>2 DEF TypeOK
  <2>2. \A p \in Packet : Len(left'[p]) < Base \div 2
    BY <1>6, ConnectionAssumption, Numbers DEF LeftInv
  <2> QED BY <2>1, <2>2
<1>8. Len(queue') < Base \div 2
  BY <1>3, Sizes, Numbers
<1>9. /\ Len(ops') = IF queue' = <<>> THEN 0 ELSE 1
      /\ queue' # <<>> => queue'[1] \in ToSet(ops'[1])
      /\ ops' \in Seq(Seq(Buffer))
      /\ sendSize' \in Word /\ sendHead' \in Seq(Byte) /\ multi' \in BOOLEAN
  BY <1>2, <1>3, <1>7, <1>8, PostWriteStarts
<1>10. TypeOK'
  <2>1. popped' \in Nat /\ UNCHANGED <<sent, failed, wire, written, reading, readSize, readBuf>>
    BY <1>2, <1>3 DEF receiver
  <2> HIDE DEF IInv
  <2>2. TypeOK
    BY DEF IInv
  <2> QED BY <1>3, <1>7, <1>9, <2>1, <2>2 DEF TypeOK
<1>11. WriteInv'
  BY <1>1, <1>2, <1>9 DEF WriteInv
<1> QED BY <1>5, <1>6, <1>10, <1>11

\* _handleSend of a write that failed.
LEMMA HandleSendErrorKeepsIInv ==
  ASSUME IInv, NEW i \in DOMAIN ops, HandleSendError(i)
  PROVE  IInv'
<1> USE DEF IInv
<1>1. queue # <<>> /\ RemoveAt(ops, i) = <<>>
  BY OneWrite
<1>2. /\ ops' = <<>> /\ failed' = TRUE
      /\ UNCHANGED <<queue, left, sendSize, sendHead, sent, popped, multi, wire, written, receiver>>
  BY <1>1 DEF HandleSendError
<1>3. TypeOK'
  BY <1>2 DEF TypeOK, receiver
<1>4. WriteInv' /\ QueueInv' /\ LeftInv'
  BY <1>1, <1>2 DEF WriteInv, QueueInv, LeftInv
<1> QED BY <1>3, <1>4

\* The read loop at the other end.
LEMMA ReceiverKeepsIInv ==
  ASSUME IInv, ReadPackageSize \/ ReadPackage \/ ReadError
  PROVE  IInv'
<1> USE DEF IInv
<1>1. UNCHANGED <<sender, written>>
  BY DEF ReadPackageSize, ReadPackage, ReadError
<1>2. WriteInv' /\ QueueInv' /\ LeftInv'
  BY <1>1 DEF sender, WriteInv, QueueInv, LeftInv
<1>3. \A n \in Nat : SubSeq(wire, n + 1, Len(wire)) \in Seq(Byte)
  BY DEF TypeOK
<1>4. CASE ReadPackageSize
  <2>1. wire[1] \in Byte /\ wire[2] \in Byte
    BY <1>4 DEF ReadPackageSize, TypeOK
  <2>2. FromLittle(wire) \in Word
    BY <2>1, LittleWord DEF FromLittle
  <2>3. wire' \in Seq(Byte)
    BY <1>3, <1>4 DEF ReadPackageSize, Drop
  <2> QED BY <1>1, <1>2, <1>4, <2>2, <2>3 DEF ReadPackageSize, TypeOK, sender
<1>5. CASE ReadPackage
  <2> DEFINE size == readSize % Flag
  <2>1. size \in Nat
    BY Numbers DEF TypeOK, Word
  <2> HIDE DEF size
  <2>2. /\ Len(wire) >= size
        /\ wire' = SubSeq(wire, size + 1, Len(wire))
        /\ readBuf' = readBuf \o SubSeq(wire, 1, size)
        /\ reading' = "size"
        /\ UNCHANGED readSize
    BY <1>5 DEF ReadPackage, Drop, size
  <2>3. SubSeq(wire, 1, size) \in Seq(Byte)
    BY <2>1, <2>2 DEF TypeOK
  <2>4. wire' \in Seq(Byte) /\ readBuf' \in Seq(Byte)
    BY <1>3, <2>1, <2>2, <2>3 DEF TypeOK
  <2> QED BY <1>1, <1>2, <2>2, <2>4 DEF TypeOK, sender
<1>6. CASE ReadError
  BY <1>1, <1>2, <1>6 DEF ReadError, TypeOK, sender
<1> QED BY <1>4, <1>5, <1>6

LEMMA NextIInv == IInv /\ [Next]_vars => IInv'
<1> SUFFICES ASSUME IInv, [Next]_vars PROVE IInv'
  OBVIOUS
<1>1. CASE UNCHANGED vars
  BY <1>1 DEF IInv, vars, sender, receiver, TypeOK, WriteInv, QueueInv, LeftInv
<1> QED BY <1>1, SendKeepsIInv, TransmitKeepsIInv, HandleSendKeepsIInv, HandleSendErrorKeepsIInv,
          ReceiverKeepsIInv DEF Next, Write, Read

LEMMA Invariance == Spec => []IInv
BY InitIInv, NextIInv, PTL DEF Spec

\* TypeOK: the variables keep their types; the words that _postWrite computes
\* and those the reader takes from the stream fit a uint32_t.
THEOREM ConnectionTypeCorrect == Spec => []TypeOK
BY Invariance, PTL DEF IInv

\* OneWriteWhileSending: until a write fails, send() and _handleSend keep one
\* write going exactly while the queue has a packet.
THEOREM OneWriteAtATime == Spec => []OneWriteWhileSending
<1>1. IInv => OneWriteWhileSending
  BY DEF IInv, WriteInv, OneWriteWhileSending
<1> QED BY <1>1, Invariance, PTL

\* NothingSkipped: packets leave the queue in the order of send(), and none
\* before the socket has taken its bytes.
THEOREM QueueInOrder == Spec => []NothingSkipped
<1>1. ASSUME IInv PROVE NothingSkipped
  <2>1. /\ sent \in Seq(Packet) /\ queue \in Seq(Packet) /\ popped \in Nat
        /\ Len(sent) = popped + Len(queue) /\ Len(queue) \in Nat
        /\ \A k \in 1 .. Len(queue) : queue[k] = sent[popped + k]
    <3>1. sent \in Seq(Packet) /\ queue \in Seq(Packet) /\ popped \in Nat
      BY <1>1 DEF IInv, TypeOK
    <3>2. /\ Len(sent) = popped + Len(queue)
          /\ \A k \in 1 .. Len(queue) : queue[k] = sent[popped + k]
      BY <1>1 DEF IInv, QueueInv
    <3>3. Len(queue) \in Nat
      BY <3>1
    <3> QED BY <3>1, <3>2, <3>3
  <2> DEFINE old == SubSeq(sent, 1, popped)
             both == old \o queue
  <2>2. /\ old \in Seq(Packet) /\ Len(old) = popped
        /\ \A k \in 1 .. popped : old[k] = sent[k]
    BY <2>1
  <2> HIDE DEF old
  <2>3. /\ both \in Seq(Packet) /\ Len(both) = popped + Len(queue)
        /\ \A k \in 1 .. popped + Len(queue) :
              both[k] = IF k <= popped THEN old[k] ELSE queue[k - popped]
    BY <2>1, <2>2, ConcatProperties
  <2> HIDE DEF both
  <2>4. ASSUME NEW k \in 1 .. Len(sent) PROVE sent[k] = both[k]
    <3>1. CASE k <= popped
      BY <2>1, <2>2, <2>3, <3>1
    <3>2. CASE ~(k <= popped)
      <4>1. k - popped \in 1 .. Len(queue) /\ popped + (k - popped) = k
        BY <2>1, <3>2
      <4> QED BY <2>1, <2>3, <3>2, <4>1
    <3> QED BY <3>1, <3>2
  <2>5. sent = both
    BY <2>1, <2>3, <2>4, SeqEqual
  <2> QED BY <1>1, <2>5 DEF both, old, NothingSkipped, IInv, QueueInv
<1> QED BY <1>1, Invariance, PTL

------------------------------------------------------------------------------
(* What a step may do to the memory of a write, and after a failure.       *)

LEMMA StepKeepsBuffers ==
  ASSUME IInv, Next
  PROVE  \A b \in Referred \cap Referred' : Bytes(b)' = Bytes(b)
<1>1. UNCHANGED <<sendSize, sendHead, left>> => \A b : Bytes(b)' = Bytes(b)
  BY DEF Bytes, ToLittle
<1>2. ASSUME ops = <<>> \/ ops = << <<>> >> PROVE Referred = {}
  BY <1>2, ToSetEmpty DEF Referred
<1>3. ASSUME NEW p \in Packet, Send(p)
      PROVE  Referred = {} \/ UNCHANGED <<sendSize, sendHead, left>>
  <2>1. CASE queue = <<>>
    <3>1. ops = <<>>
      BY <2>1 DEF IInv, TypeOK, WriteInv
    <3> QED BY <1>2, <3>1
  <2>2. CASE queue # <<>>
    BY <1>3, <2>2 DEF Send
  <2> QED BY <2>1, <2>2
<1>4. ASSUME NEW i \in DOMAIN ops, Transmit(i) \/ HandleSendError(i)
      PROVE  UNCHANGED <<sendSize, sendHead, left>>
  BY <1>4 DEF Transmit, HandleSendError
<1>5. ASSUME NEW i \in DOMAIN ops, HandleSend(i) PROVE Referred = {}
  <2>1. ops = <<ops[1]>> /\ i = 1
    BY OneWrite
  <2>2. ops[1] = <<>>
    BY <1>5, <2>1 DEF HandleSend
  <2> QED BY <1>2, <2>1, <2>2
<1>6. ReadPackageSize \/ ReadPackage \/ ReadError => UNCHANGED <<sendSize, sendHead, left>>
  BY DEF ReadPackageSize, ReadPackage, ReadError, sender
<1> QED BY <1>1, <1>3, <1>4, <1>5, <1>6 DEF Next, Write, Read

LEMMA StepAfterFailure ==
  ASSUME IInv, Next, failed
  PROVE  written' = written /\ Len(wire') <= Len(wire)
<1>1. ops = <<>> /\ queue # <<>> /\ wire \in Seq(Byte)
  BY DEF IInv, WriteInv, TypeOK
<1>2. ASSUME NEW p \in Packet, Send(p) PROVE UNCHANGED <<wire, written>>
  BY <1>2 DEF Send
<1>3. ASSUME NEW n \in Nat, Len(wire) >= n, Drop(n) PROVE Len(wire') <= Len(wire)
  BY <1>1, <1>3 DEF Drop
<1>4. CASE ReadPackageSize
  BY <1>3, <1>4 DEF ReadPackageSize
<1>5. CASE ReadPackage
  <2>1. readSize % Flag \in Nat
    BY Numbers DEF IInv, TypeOK, Word
  <2> QED BY <1>3, <1>5, <2>1 DEF ReadPackage
<1>6. CASE ReadError
  BY <1>1, <1>6 DEF ReadError
<1> QED BY <1>1, <1>2, <1>4, <1>5, <1>6 DEF Next, Write, Read

\* WritesStable: the memory that a gathered write refers to stays as it was
\* until the socket has taken it, and no byte follows a write that failed.
THEOREM WritesAreStable == Spec => WritesStable
<1>1. IInv /\ [Next]_vars => [\A b \in Referred \cap Referred' : Bytes(b)' = Bytes(b)]_vars
  BY StepKeepsBuffers
<1>2. IInv /\ [Next]_vars => [failed => written' = written /\ Len(wire') <= Len(wire)]_vars
  BY StepAfterFailure
<1>3. Spec => BuffersStable
  BY <1>1, Invariance, PTL DEF Spec, BuffersStable
<1>4. Spec => NothingAfterFailure
  BY <1>2, Invariance, PTL DEF Spec, NothingAfterFailure
<1> QED BY <1>3, <1>4 DEF WritesStable

------------------------------------------------------------------------------
(* The stream.  While every write carries one packet, the bytes of packet  *)
(* m are pieces 2 * m - 1, its size, and 2 * m, its body; the reader has   *)
(* taken some first pieces, the next ones are on the wire, and those that  *)
(* follow are in the write going on and in the queue.                      *)

Piece(s, j) ==
  IF j % 2 = 1 THEN ToLittle(Len(Body[s[(j + 1) \div 2]])) ELSE Body[s[j \div 2]]

\* The k pieces after piece r.
Slices(s, r, k) == [i \in 1 .. k |-> Piece(s, r + i)]
Stream(s, r, k) == FlattenSeq(Slices(s, r, k))

BodiesOf(s, n) == [k \in 1 .. n |-> Body[s[k]]]
Bodies(s, n) == FlattenSeq(BodiesOf(s, n))

\* A packet that has not left the queue is as it was given to send().
KeptInv ==
  \A p \in Packet : (\A k \in 1 .. popped : sent[k] # p) => left[p] = Body[p]

\* What is left to write of a write of one packet.
SingleInv ==
  ~multi /\ ops # <<>> =>
    \/ ops[1] = <<"size", queue[1]>> /\ sendSize = Len(Body[queue[1]])
    \/ ops[1] = <<queue[1]>>
    \/ ops[1] = <<>>

\* The pieces written, and those read by a reader that has n packets.
Done == 2 * popped + IF ops = <<>> THEN 0 ELSE 2 - Len(ops[1])
Taken(n) == IF reading = "package" THEN 2 * n + 1 ELSE 2 * n

\* k pieces are on the wire.  The reader asks for no body of a packet that has
\* none, so it may be past such a body before that is "written".
InFlight(n, k) ==
  /\ Taken(n) + k <= 2 * Len(sent)
  /\ wire = Stream(sent, Taken(n), k)
  /\ reading = "package" => readSize > 0 /\ readSize = Len(Body[sent[n + 1]])
  /\ \/ failed
     \/ Taken(n) + k = Done
     \/ k = 0 /\ Taken(n) = Done + 1 /\ reading = "size" /\ Body[sent[n]] = <<>>

StreamInv ==
  ~multi => \E n \in 0 .. Len(sent) :
              /\ readBuf = Bodies(sent, n)
              /\ reading # "stopped" => \E k \in 0 .. 2 * Len(sent) : InFlight(n, k)

LEMMA PieceIs ==
  ASSUME NEW s, NEW n \in Nat
  PROVE  /\ Piece(s, 2 * n + 1) = ToLittle(Len(Body[s[n + 1]]))
         /\ Piece(s, 2 * n + 2) = Body[s[n + 1]]
<1>1. (2 * n + 1) % 2 = 1 /\ (2 * n + 2) \div 2 = n + 1
  OBVIOUS
<1>2. (2 * n + 2) % 2 = 0 /\ (2 * n + 1) + 1 = 2 * n + 2
  OBVIOUS
<1> QED BY <1>1, <1>2 DEF Piece

LEMMA BodyType ==
  ASSUME NEW p \in Packet
  PROVE  /\ Body[p] \in Seq(Byte) /\ Len(Body[p]) \in Nat /\ Len(Body[p]) < Flag
         /\ Len(Body[p]) \in Word /\ ToLittle(Len(Body[p])) \in Seq(Byte)
<1>1. Body[p] \in Seq(Byte) /\ Len(Body[p]) < Base \div 2
  BY ConnectionAssumption
<1>2. Len(Body[p]) \in Nat /\ Len(Body[p]) < Flag /\ Len(Body[p]) < Base
  <2>1. Len(Body[p]) \in Nat
    BY <1>1
  <2> QED BY <1>1, <2>1, Numbers
<1>3. Len(Body[p]) \in Word
  BY <1>2, SmallWord
<1> QED BY <1>1, <1>2, <1>3, LittleBytes

LEMMA PieceType ==
  ASSUME NEW s \in Seq(Packet), NEW j \in 1 .. 2 * Len(s)
  PROVE  Piece(s, j) \in Seq(Byte)
<1>1. \E n \in Nat : n + 1 \in 1 .. Len(s) /\ (j = 2 * n + 1 \/ j = 2 * n + 2)
  <2> DEFINE n == (j - 1) \div 2
             l == Len(s)
  <2>1. l \in Nat
    OBVIOUS
  <2>2. n \in Nat /\ 2 * n <= j - 1 /\ j - 1 <= 2 * n + 1
    OBVIOUS
  <2> HIDE DEF n, l
  <2>3. j \in 1 .. 2 * l
    BY DEF l
  <2>4. n + 1 \in 1 .. l /\ (j = 2 * n + 1 \/ j = 2 * n + 2)
    BY <2>1, <2>2, <2>3
  <2> QED BY <2>2, <2>4 DEF l
<1>2. PICK n \in Nat : n + 1 \in 1 .. Len(s) /\ (j = 2 * n + 1 \/ j = 2 * n + 2)
  BY <1>1
<1>3. s[n + 1] \in Packet
  BY <1>2
<1> QED BY <1>2, <1>3, PieceIs, BodyType

LEMMA PiecesType ==
  ASSUME NEW s \in Seq(Packet), NEW r \in Nat, NEW k \in Nat, r + k <= 2 * Len(s)
  PROVE  /\ Slices(s, r, k) \in Seq(Seq(Byte)) /\ Len(Slices(s, r, k)) = k
         /\ \A i \in 1 .. k : Slices(s, r, k)[i] = Piece(s, r + i)
         /\ Stream(s, r, k) \in Seq(Byte)
<1>1. \A i \in 1 .. k : Piece(s, r + i) \in Seq(Byte)
  <2> SUFFICES ASSUME NEW i \in 1 .. k PROVE Piece(s, r + i) \in Seq(Byte)
    OBVIOUS
  <2>1. r + i \in 1 .. 2 * Len(s)
    OBVIOUS
  <2> QED BY <2>1, PieceType
<1>2. Slices(s, r, k) \in [1 .. k -> Seq(Byte)]
  BY <1>1 DEF Slices
<1>3. Slices(s, r, k) \in Seq(Seq(Byte)) /\ Len(Slices(s, r, k)) = k
  BY <1>2
<1>4. \A i \in 1 .. k : Slices(s, r, k)[i] = Piece(s, r + i)
  BY DEF Slices
<1> QED BY <1>3, <1>4, FlattenType DEF Stream

LEMMA StreamNone == \A s, r : Stream(s, r, 0) = <<>>
<1>1. \A s, r : Slices(s, r, 0) = <<>>
  BY DEF Slices
<1> QED BY <1>1, FlattenEmpty DEF Stream

\* One more piece.
LEMMA StreamNext ==
  ASSUME NEW s \in Seq(Packet), NEW r \in Nat, NEW k \in Nat, r + k + 1 <= 2 * Len(s)
  PROVE  Stream(s, r, k + 1) = Stream(s, r, k) \o Piece(s, r + k + 1)
<1> DEFINE more == Slices(s, r, k + 1)
           q == Slices(s, r, k)
           x == Piece(s, r + k + 1)
<1>0. r + (k + 1) <= 2 * Len(s) /\ r + k <= 2 * Len(s) /\ r + (k + 1) = r + k + 1 /\ k + 1 \in Nat
  OBVIOUS
<1>1. /\ q \in Seq(Seq(Byte)) /\ Len(q) = k /\ \A i \in 1 .. k : q[i] = Piece(s, r + i)
  BY <1>0, PiecesType
<1>2. /\ more \in Seq(Seq(Byte)) /\ Len(more) = k + 1
      /\ \A i \in 1 .. k + 1 : more[i] = Piece(s, r + i)
  BY <1>0, PiecesType
<1>3. x \in Seq(Byte)
  <2>1. k + 1 \in 1 .. k + 1
    OBVIOUS
  <2>2. more[k + 1] = x /\ more[k + 1] \in Seq(Byte)
    BY <1>0, <1>2, <2>1
  <2> QED BY <2>2
<1> HIDE DEF more, q, x
<1>4. more = Append(q, x)
  <2>1. /\ Append(q, x) \in Seq(Seq(Byte)) /\ Len(Append(q, x)) = k + 1
        /\ \A i \in 1 .. k : Append(q, x)[i] = q[i]
        /\ Append(q, x)[k + 1] = x
    BY <1>1, <1>3, AppendProperties
  <2>2. ASSUME NEW i \in 1 .. k + 1 PROVE more[i] = Append(q, x)[i]
    <3>1. CASE i \in 1 .. k
      BY <1>1, <1>2, <2>1, <3>1
    <3>2. CASE i = k + 1
      BY <1>0, <1>2, <2>1, <3>2 DEF x
    <3>3. i \in 1 .. k \/ i = k + 1
      OBVIOUS
    <3> QED BY <3>1, <3>2, <3>3
  <2> QED BY <1>2, <2>1, <2>2, SeqEqual
<1>5. FlattenSeq(Append(q, x)) = FlattenSeq(q) \o x
  BY <1>1, <1>3, FlattenAppend
<1> QED BY <1>4, <1>5 DEF Stream, more, q, x

\* One less, at the front.
LEMMA StreamFirst ==
  ASSUME NEW s \in Seq(Packet), NEW r \in Nat, NEW k \in Nat, k > 0, r + k <= 2 * Len(s)
  PROVE  Stream(s, r, k) = Piece(s, r + 1) \o Stream(s, r + 1, k - 1)
<1> DEFINE all == Slices(s, r, k)
           q == Slices(s, r + 1, k - 1)
           x == Piece(s, r + 1)
<1>0. (r + 1) + (k - 1) <= 2 * Len(s) /\ r + 1 \in Nat /\ k - 1 \in Nat
  OBVIOUS
<1>1. /\ q \in Seq(Seq(Byte)) /\ Len(q) = k - 1
      /\ \A i \in 1 .. k - 1 : q[i] = Piece(s, (r + 1) + i)
  BY <1>0, PiecesType
<1>2. /\ all \in Seq(Seq(Byte)) /\ Len(all) = k /\ \A i \in 1 .. k : all[i] = Piece(s, r + i)
  BY PiecesType
<1>3. x \in Seq(Byte)
  <2>1. r + 1 \in 1 .. 2 * Len(s)
    OBVIOUS
  <2> QED BY <2>1, PieceType
<1> HIDE DEF all, q, x
<1>4. all = <<x>> \o q
  <2>1. /\ <<x>> \o q \in Seq(Seq(Byte)) /\ Len(<<x>> \o q) = 1 + (k - 1)
        /\ (<<x>> \o q)[1] = x
        /\ \A i \in 2 .. k : (<<x>> \o q)[i] = q[i - 1]
    BY <1>1, <1>3
  <2> DEFINE both == <<x>> \o q
  <2> HIDE DEF both
  <2>2. ASSUME NEW i \in 1 .. k PROVE all[i] = both[i]
    <3>1. CASE i = 1
      BY <1>2, <2>1, <3>1 DEF x, both
    <3>2. CASE i # 1
      <4>1. i \in 2 .. k /\ i - 1 \in 1 .. k - 1 /\ (r + 1) + (i - 1) = r + i
        BY <3>2
      <4>2. all[i] = Piece(s, r + i)
        BY <1>2
      <4>3. q[i - 1] = Piece(s, (r + 1) + (i - 1))
        BY <1>1, <4>1
      <4> QED BY <2>1, <4>1, <4>2, <4>3 DEF both
    <3> QED BY <3>1, <3>2
  <2>3. both \in Seq(Seq(Byte)) /\ Len(both) = k
    BY <2>1 DEF both
  <2> QED BY <1>2, <2>2, <2>3, SeqEqual DEF both
<1>5. FlattenSeq(<<x>> \o q) = x \o FlattenSeq(q)
  BY <1>1, <1>3, FlattenCons
<1> QED BY <1>4, <1>5 DEF Stream, all, q, x

\* The bodies, one more; and neither changes with what is sent later.
LEMMA BodiesNext ==
  ASSUME NEW s \in Seq(Packet), NEW n \in Nat, n + 1 <= Len(s)
  PROVE  Bodies(s, n + 1) = Bodies(s, n) \o Body[s[n + 1]]
<1> DEFINE more == BodiesOf(s, n + 1)
           q == BodiesOf(s, n)
           x == Body[s[n + 1]]
<1>1. \A k \in 1 .. n + 1 : Body[s[k]] \in Seq(Byte)
  <2>1. \A k \in 1 .. n + 1 : s[k] \in Packet
    OBVIOUS
  <2> QED BY <2>1, BodyType
<1>2. \A k \in 1 .. n : Body[s[k]] \in Seq(Byte)
  BY <1>1
<1>3. /\ q \in [1 .. n -> Seq(Byte)] /\ more \in [1 .. n + 1 -> Seq(Byte)]
      /\ \A k \in 1 .. n : q[k] = Body[s[k]]
      /\ \A k \in 1 .. n + 1 : more[k] = Body[s[k]]
  BY <1>1, <1>2 DEF BodiesOf
<1>4. x \in Seq(Byte)
  <2>1. n + 1 \in 1 .. n + 1
    OBVIOUS
  <2> QED BY <1>1, <2>1
<1>5. q \in Seq(Seq(Byte)) /\ Len(q) = n /\ more \in Seq(Seq(Byte)) /\ Len(more) = n + 1
  <2> HIDE DEF more, q
  <2>1. n + 1 \in Nat
    OBVIOUS
  <2> QED BY <1>3, <2>1
<1> HIDE DEF more, q, x
<1>6. more = Append(q, x)
  <2>1. /\ Append(q, x) \in Seq(Seq(Byte)) /\ Len(Append(q, x)) = n + 1
        /\ \A i \in 1 .. n : Append(q, x)[i] = q[i]
        /\ Append(q, x)[n + 1] = x
    BY <1>4, <1>5, AppendProperties
  <2>2. ASSUME NEW i \in 1 .. n + 1 PROVE more[i] = Append(q, x)[i]
    <3>1. CASE i \in 1 .. n
      BY <1>3, <2>1, <3>1
    <3>2. CASE i = n + 1
      BY <1>3, <2>1, <2>2, <3>2 DEF x
    <3>3. i \in 1 .. n \/ i = n + 1
      OBVIOUS
    <3> QED BY <3>1, <3>2, <3>3
  <2> QED BY <1>5, <2>1, <2>2, SeqEqual
<1>7. FlattenSeq(Append(q, x)) = FlattenSeq(q) \o x
  BY <1>4, <1>5, FlattenAppend
<1> QED BY <1>6, <1>7 DEF Bodies, more, q, x

LEMMA StreamStays ==
  ASSUME NEW s \in Seq(Packet), NEW p \in Packet
  PROVE  /\ \A n \in Nat : n <= Len(s) => Bodies(Append(s, p), n) = Bodies(s, n)
         /\ \A r, k \in Nat : r + k <= 2 * Len(s) => Stream(Append(s, p), r, k) = Stream(s, r, k)
<1> DEFINE t == Append(s, p)
<1>1. \A i \in 1 .. Len(s) : t[i] = s[i]
  OBVIOUS
<1> HIDE DEF t
<1>2. ASSUME NEW n \in Nat, n <= Len(s) PROVE Bodies(t, n) = Bodies(s, n)
  <2>1. \A k \in 1 .. n : t[k] = s[k]
    BY <1>1, <1>2
  <2> QED BY <2>1 DEF Bodies, BodiesOf
<1>3. ASSUME NEW j \in 1 .. 2 * Len(s) PROVE Piece(t, j) = Piece(s, j)
  <2> DEFINE l == Len(s)
  <2>1. l \in Nat /\ j \in 1 .. 2 * l
    OBVIOUS
  <2> HIDE DEF l
  <2>2. j % 2 = 1 => (j + 1) \div 2 \in 1 .. l
    BY <2>1
  <2>3. j % 2 # 1 => j \div 2 \in 1 .. l
    BY <2>1
  <2> QED BY <1>1, <2>2, <2>3 DEF Piece, l
<1>4. ASSUME NEW r \in Nat, NEW k \in Nat, r + k <= 2 * Len(s) PROVE Stream(t, r, k) = Stream(s, r, k)
  <2>1. ASSUME NEW i \in 1 .. k PROVE Piece(t, r + i) = Piece(s, r + i)
    <3>1. r + i \in 1 .. 2 * Len(s)
      BY <1>4
    <3> QED BY <1>3, <3>1
  <2>2. Slices(t, r, k) = Slices(s, r, k)
    BY <2>1 DEF Slices
  <2> QED BY <2>2 DEF Stream
<1> QED BY <1>2, <1>4 DEF t


StreamIInv == IInv /\ KeptInv /\ SingleInv /\ StreamInv

LEMMA InitStream == Init => StreamIInv
<1> SUFFICES ASSUME Init PROVE StreamIInv
  OBVIOUS
<1>1. KeptInv /\ SingleInv
  BY DEF Init, KeptInv, SingleInv
<1>2. StreamInv
  <2>1. BodiesOf(sent, 0) = <<>>
    BY DEF BodiesOf
  <2>2. readBuf = Bodies(sent, 0)
    BY <2>1, FlattenEmpty DEF Init, Bodies
  <2>3. Len(sent) = 0 /\ Taken(0) = 0 /\ Done = 0
    BY DEF Init, Taken, Done
  <2>4. InFlight(0, 0)
    BY <2>3, StreamNone DEF Init, InFlight
  <2>5. 0 \in 0 .. Len(sent) /\ 0 \in 0 .. 2 * Len(sent)
    BY <2>3
  <2> QED BY <2>2, <2>4, <2>5 DEF StreamInv
<1> QED BY <1>1, <1>2, InitIInv DEF StreamIInv

\* Queue q holds what follows the first n packets of s, and c has their bodies.
HoldsRest(q, s, n, c) ==
  /\ q \in Seq(Packet) /\ s \in Seq(Packet) /\ n \in Nat
  /\ IsInjective(s) /\ Len(s) = n + Len(q)
  /\ \A k \in 1 .. Len(q) : q[k] = s[n + k]
  /\ \A p \in Packet : (\A k \in 1 .. n : s[k] # p) => c[p] = Body[p]

LEMMA HeadOfQueue ==
  ASSUME NEW q, NEW s, NEW n, NEW c, HoldsRest(q, s, n, c), q # <<>>
  PROVE  /\ q[1] \in Packet /\ q[1] = s[n + 1] /\ n + 1 <= Len(s)
         /\ c[q[1]] = Body[q[1]]
<1> USE DEF HoldsRest
<1>1. Len(q) \in Nat /\ Len(q) > 0
  OBVIOUS
<1>2. 1 \in 1 .. Len(q) /\ n + 1 <= Len(s)
  BY <1>1
<1>3. q[1] \in Packet /\ q[1] = s[n + 1]
  BY <1>2
<1>4. ASSUME NEW k \in 1 .. n PROVE s[k] # q[1]
  <2>1. k \in DOMAIN s /\ n + 1 \in DOMAIN s /\ k # n + 1
    BY <1>2
  <2> QED BY <1>3, <2>1 DEF IsInjective
<1> QED BY <1>2, <1>3, <1>4

LEMMA HeadKept ==
  ASSUME IInv, KeptInv, queue # <<>>
  PROVE  /\ queue[1] \in Packet /\ queue[1] = sent[popped + 1]
         /\ popped \in Nat /\ popped + 1 <= Len(sent)
         /\ left[queue[1]] = Body[queue[1]]
<1>1. HoldsRest(queue, sent, popped, left)
  BY DEF IInv, TypeOK, QueueInv, KeptInv, HoldsRest
<1>2. popped \in Nat
  BY DEF IInv, TypeOK
<1> QED BY <1>1, <1>2, HeadOfQueue

\* What a write of one packet makes of the queue and of the size word.
LEMMA PostWriteSingle ==
  ASSUME NEW q \in Seq(Packet), NEW c, PostWrite(q, c, <<>>), ~multi'
  PROVE  /\ ~multi
         /\ \/ q = <<>> /\ ops' = <<>>
            \/ /\ q # <<>> /\ Len(ops'[1]) = 2 /\ ops' # <<>>
               /\ ops'[1] = <<"size", q[1]>> /\ sendSize' = Len(c[q[1]])
<1>1. CASE q = <<>> /\ ops' = <<>> /\ UNCHANGED multi
  BY <1>1
<1>2. CASE Len(q) = 1 /\ sendSize' = Len(c[q[1]]) /\ ops' = Append(<<>>, <<"size">> \o q) /\ UNCHANGED multi
  <2> DEFINE op == <<"size">> \o q
             two == <<"size", q[1]>>
  <2>1. q \in Seq(Buffer) /\ <<"size">> \in Seq(Buffer) /\ q[1] \in Buffer /\ "size" \in Buffer
    BY <1>2 DEF Buffer
  <2>2. Len(<<"size">>) = 1 /\ <<"size">>[1] = "size" /\ Len(q) = 1
    BY <1>2
  <2>3. /\ op \in Seq(Buffer) /\ Len(op) = Len(<<"size">>) + Len(q)
        /\ \A i \in 1 .. Len(<<"size">>) + Len(q) :
              op[i] = IF i <= Len(<<"size">>) THEN <<"size">>[i] ELSE q[i - Len(<<"size">>)]
    BY <2>1, ConcatProperties
  <2>4. two \in Seq(Buffer) /\ Len(two) = 2 /\ two[1] = "size" /\ two[2] = q[1]
    BY <2>1
  <2> HIDE DEF op, two
  <2>5. Len(op) = 2 /\ op[1] = "size" /\ op[2] = q[1]
    <3>1. 1 \in 1 .. 2 /\ 2 \in 1 .. 2 /\ ~(2 <= 1) /\ 2 - 1 = 1 /\ 1 + 1 = 2
      OBVIOUS
    <3> QED BY <2>2, <2>3, <3>1
  <2>6. op = two
    <3>1. \A i \in 1 .. 2 : op[i] = two[i]
      BY <2>4, <2>5
    <3> QED BY <2>3, <2>4, <2>5, <3>1, SeqEqual
  <2>7. ops' = <<two>> /\ q # <<>>
    BY <1>2, <2>6 DEF op
  <2>8. ops'[1] = two /\ ops' # <<>>
    BY <2>7
  <2>9. ops'[1] = <<"size", q[1]>>
    BY <2>8 DEF two
  <2> QED BY <1>2, <2>4, <2>7, <2>8, <2>9
<1> QED BY <1>1, <1>2 DEF PostWrite

\* A write that begins has nothing done yet.
LEMMA DoneBegun ==
  ASSUME popped \in Nat, ops = <<>> \/ Len(ops[1]) = 2
  PROVE  Done = 2 * popped
<1>1. CASE ops = <<>>
  BY <1>1 DEF Done
<1>2. CASE ops # <<>>
  <2>1. Len(ops[1]) = 2
    BY <1>2
  <2> QED BY <1>2, <2>1 DEF Done
<1> QED BY <1>1, <1>2


\* What a write of one packet has done.
LEMMA DoneType ==
  ASSUME IInv, SingleInv, ~multi
  PROVE  Done \in Nat /\ Done <= 2 * Len(sent)
<1>1. popped \in Nat /\ popped <= Len(sent) /\ Len(sent) \in Nat
  BY DEF IInv, TypeOK, QueueInv
<1>2. CASE ops = <<>>
  BY <1>1, <1>2 DEF Done
<1>3. CASE ops # <<>>
  <2>1. Len(ops[1]) = 2 \/ Len(ops[1]) = 1 \/ Len(ops[1]) = 0
    <3>1. \A x, y : Len(<<x, y>>) = 2 /\ Len(<<x>>) = 1
      OBVIOUS
    <3>2. Len(<<>>) = 0
      OBVIOUS
    <3>3. ops[1] = <<"size", queue[1]>> \/ ops[1] = <<queue[1]>> \/ ops[1] = <<>>
      BY <1>3 DEF SingleInv
    <3> QED BY <3>1, <3>2, <3>3
  <2>2. popped + 1 <= Len(sent)
    <3>1. 1 \in DOMAIN ops
      BY <1>3 DEF IInv, TypeOK
    <3>2. queue # <<>>
      BY <3>1, OneWrite
    <3>3. Len(queue) \in Nat /\ Len(queue) > 0
      BY <3>2 DEF IInv, TypeOK
    <3> QED BY <1>1, <3>3 DEF IInv, QueueInv
  <2> DEFINE o == Len(ops[1])
  <2>3. Done = 2 * popped + (2 - o)
    BY <1>3 DEF Done
  <2> HIDE DEF o
  <2>4. o = 2 \/ o = 1 \/ o = 0
    BY <2>1 DEF o
  <2>5. Done = 2 * popped \/ Done = 2 * popped + 1 \/ Done = 2 * popped + 2
    BY <1>1, <2>3, <2>4
  <2> QED BY <1>1, <2>2, <2>5
<1> QED BY <1>2, <1>3

\* Steps that leave the wire and the reader alone, and count no piece.
LEMMA SenderKeepsStream ==
  ASSUME IInv, SingleInv, StreamInv, ~multi,
         sent' = sent \/ \E p \in Packet : sent' = Append(sent, p),
         UNCHANGED <<wire, receiver>>,
         failed' \/ (failed' = failed /\ Done' = Done)
  PROVE  StreamInv'
<1>1. PICK n \in 0 .. Len(sent) :
        /\ readBuf = Bodies(sent, n)
        /\ reading # "stopped" => \E k \in 0 .. 2 * Len(sent) : InFlight(n, k)
  BY DEF StreamInv
<1>2. UNCHANGED <<wire, reading, readSize, readBuf>>
  BY DEF receiver
<1>3. sent \in Seq(Packet) /\ Len(sent) \in Nat /\ n \in Nat
  BY DEF IInv, TypeOK
<1>4. /\ Len(sent') \in Nat /\ Len(sent) <= Len(sent')
      /\ \A i \in 1 .. Len(sent) : sent'[i] = sent[i]
      /\ \A r, k \in Nat : r + k <= 2 * Len(sent) => Stream(sent', r, k) = Stream(sent, r, k)
      /\ Bodies(sent', n) = Bodies(sent, n)
  <2>1. CASE sent' = sent
    BY <1>3, <2>1
  <2>2. CASE \E p \in Packet : sent' = Append(sent, p)
    <3>1. PICK p \in Packet : sent' = Append(sent, p)
      BY <2>2
    <3>2. Len(sent') = Len(sent) + 1 /\ \A i \in 1 .. Len(sent) : sent'[i] = sent[i]
      BY <1>3, <3>1
    <3> QED BY <1>3, <3>1, <3>2, StreamStays
  <2> QED BY <2>1, <2>2
<1>5. Taken(n)' = Taken(n) /\ Taken(n) \in Nat
  BY <1>2, <1>3 DEF Taken
<1>6. ASSUME NEW k \in 0 .. 2 * Len(sent), InFlight(n, k) PROVE InFlight(n, k)'
  <2>1. k \in Nat /\ Taken(n) + k <= 2 * Len(sent) /\ wire = Stream(sent, Taken(n), k)
    BY <1>3, <1>6 DEF InFlight
  <2>2. Taken(n) + k <= 2 * Len(sent') /\ wire = Stream(sent', Taken(n), k)
    BY <1>3, <1>4, <1>5, <2>1
  <2>3. reading = "package" => readSize > 0 /\ readSize = Len(Body[sent'[n + 1]])
    <3> SUFFICES ASSUME reading = "package" PROVE n + 1 \in 1 .. Len(sent)
      BY <1>4, <1>6 DEF InFlight
    <3>1. Taken(n) = 2 * n + 1
      BY DEF Taken
    <3> QED BY <1>3, <2>1, <3>1
  <2>4. \/ failed
        \/ Taken(n) + k = Done
        \/ k = 0 /\ Taken(n) = Done + 1 /\ reading = "size" /\ Body[sent[n]] = <<>>
    BY <1>6 DEF InFlight
  <2>5. ASSUME k = 0, Taken(n) = Done + 1, reading = "size", ~failed, Done \in Nat
        PROVE  sent'[n] = sent[n]
    <3>1. Taken(n) = 2 * n
      BY <2>5 DEF Taken
    <3>2. n \in 1 .. Len(sent)
      BY <1>3, <2>5, <3>1
    <3> QED BY <1>4, <3>2
  <2>6. Done \in Nat
    BY DoneType
  <2> QED BY <1>2, <1>5, <2>2, <2>3, <2>4, <2>5, <2>6 DEF InFlight
<1>7. \A k \in 0 .. 2 * Len(sent) : k \in 0 .. 2 * Len(sent')
  BY <1>3, <1>4
<1>8. n \in 0 .. Len(sent')
  BY <1>3, <1>4
<1> QED BY <1>1, <1>2, <1>4, <1>6, <1>7, <1>8 DEF StreamInv

\* send()
LEMMA SendKeepsStream ==
  ASSUME StreamIInv, NEW p \in Packet, Send(p)
  PROVE  KeptInv' /\ SingleInv' /\ StreamInv'
<1> USE DEF StreamIInv
<1>1. /\ queue' = Append(queue, p) /\ sent' = Append(sent, p)
      /\ UNCHANGED <<left, popped, failed, wire, receiver>>
  BY DEF Send
<1>2. /\ queue \in Seq(Packet) /\ sent \in Seq(Packet) /\ popped \in Nat
      /\ popped <= Len(sent) /\ Len(sent) \in Nat
  BY DEF IInv, TypeOK, QueueInv
<1>3. \A k \in 1 .. Len(sent) : sent'[k] = sent[k]
  BY <1>1, <1>2
<1>4. KeptInv'
  <2>1. \A k \in 1 .. popped : sent'[k] = sent[k]
    BY <1>2, <1>3
  <2> QED BY <1>1, <2>1 DEF KeptInv
<1>5. CASE queue = <<>> /\ PostWrite(queue', left, ops)
  <2>1. ~failed /\ ops = <<>>
    BY <1>5 DEF IInv, WriteInv, TypeOK
  <2>2. queue' \in Seq(Packet) /\ queue' # <<>> /\ Len(queue') = 1 /\ queue'[1] = p
    BY <1>1, <1>2, <1>5
  <2>3. left[p] = Body[p]
    <3>1. \A k \in 1 .. popped : sent[k] # p
      <4>1. p \notin ToSet(sent)
        BY DEF Send
      <4>2. \A k \in 1 .. popped : sent[k] \in ToSet(sent)
        BY <1>2, ToSetAt
      <4> QED BY <4>1, <4>2
    <3> QED BY <3>1 DEF KeptInv
  <2>4. ~multi' => /\ ~multi /\ Len(ops'[1]) = 2 /\ ops' # <<>>
                   /\ ops'[1] = <<"size", queue'[1]>> /\ sendSize' = Len(left[queue'[1]])
    BY <1>5, <2>1, <2>2, PostWriteSingle
  <2>5. SingleInv'
    BY <2>2, <2>3, <2>4 DEF SingleInv
  <2>6. ~multi' => ~multi /\ Done' = Done
    <3>1. Done = 2 * popped
      BY <1>2, <2>1, DoneBegun
    <3>2. ASSUME ~multi' PROVE Done' = 2 * popped'
      <4>1. Len(ops'[1]) = 2 /\ ops' # <<>> /\ popped' \in Nat
        BY <1>1, <1>2, <2>4, <3>2
      <4> QED BY <4>1 DEF Done
    <3> QED BY <1>1, <2>4, <3>1, <3>2
  <2>7. StreamInv'
    <3>1. CASE multi'
      BY <3>1 DEF StreamInv
    <3>2. CASE ~multi'
      BY <1>1, <2>6, <3>2, SenderKeepsStream
    <3> QED BY <3>1, <3>2
  <2> QED BY <1>4, <2>5, <2>7
<1>6. CASE queue # <<>> /\ UNCHANGED <<sendSize, sendHead, ops, multi>>
  <2>1. queue'[1] = queue[1]
    <3>1. 1 \in 1 .. Len(queue)
      BY <1>2, <1>6
    <3> QED BY <1>1, <1>2, <3>1
  <2>2. SingleInv'
    BY <1>6, <2>1 DEF SingleInv
  <2>3. Done' = Done
    BY <1>1, <1>6 DEF Done
  <2>4. StreamInv'
    <3>1. CASE multi'
      BY <3>1 DEF StreamInv
    <3>2. CASE ~multi'
      BY <1>1, <1>6, <2>3, <3>2, SenderKeepsStream
    <3> QED BY <3>1, <3>2
  <2> QED BY <1>4, <2>2, <2>4
<1> QED BY <1>5, <1>6 DEF Send


\* _handleSend of a write that succeeded.
LEMMA HandleSendKeepsStream ==
  ASSUME StreamIInv, NEW i \in DOMAIN ops, HandleSend(i)
  PROVE  KeptInv' /\ SingleInv' /\ StreamInv'
<1> USE DEF StreamIInv
<1> DEFINE done == {queue[k] : k \in 1 .. PacketNum}
<1>1. i = 1 /\ ops = <<ops[1]>> /\ ~failed /\ queue # <<>> /\ RemoveAt(ops, i) = <<>> /\ ops # <<>>
  BY OneWrite
<1>2. /\ ops[1] = <<>>
      /\ left' = [p \in Packet |-> IF p \in done THEN <<>> ELSE left[p]]
      /\ queue' = SubSeq(queue, 2, Len(queue))
      /\ popped' = popped + 1
      /\ PostWrite(queue', left', <<>>)
      /\ UNCHANGED <<sent, failed, wire, written, receiver>>
  BY <1>1 DEF HandleSend, PacketNum
<1>3. popped \in Nat /\ queue[1] = sent[popped + 1]
  BY <1>1, HeadKept
<1>4. done = {queue[1]}
  BY DEF PacketNum
<1>5. KeptInv'
  <2> SUFFICES ASSUME NEW p \in Packet, \A k \in 1 .. popped + 1 : sent[k] # p
               PROVE  left'[p] = Body[p]
    BY <1>2 DEF KeptInv
  <2>1. p # queue[1] /\ \A k \in 1 .. popped : sent[k] # p
    BY <1>3
  <2>2. left[p] = Body[p]
    BY <2>1 DEF KeptInv
  <2> QED BY <1>2, <1>4, <2>1, <2>2
<1>6. queue' \in Seq(Packet)
  BY <1>2 DEF IInv, TypeOK
<1>7. IInv'
  BY HandleSendKeepsIInv
<1>8. ASSUME ~multi'
      PROVE  /\ ~multi
             /\ \/ ops' = <<>>
                \/ /\ queue' # <<>> /\ Len(ops'[1]) = 2 /\ ops' # <<>>
                   /\ ops'[1] = <<"size", queue'[1]>> /\ sendSize' = Len(left'[queue'[1]])
  BY <1>2, <1>6, <1>8, PostWriteSingle
<1>9. SingleInv'
  <2>1. queue' # <<>> => left'[queue'[1]] = Body[queue'[1]]
    <3>1. HoldsRest(queue', sent', popped', left')
      BY <1>5, <1>7 DEF IInv, TypeOK, QueueInv, KeptInv, HoldsRest
    <3> QED BY <3>1, HeadOfQueue
  <2> QED BY <1>8, <2>1 DEF SingleInv
<1>10. StreamInv'
  <2>1. CASE multi'
    BY <2>1 DEF StreamInv
  <2>2. CASE ~multi'
    <3>1. Done = 2 * popped + (2 - Len(<<>>))
      BY <1>1, <1>2 DEF Done
    <3>2. Done' = 2 * popped'
      <4>1. popped' \in Nat
        BY <1>2, <1>3
      <4>2. CASE ops' = <<>>
        BY <4>1, <4>2 DEF Done
      <4>3. CASE ops' # <<>>
        <5>1. Done' = 2 * popped' + (2 - Len(ops'[1]))
          BY <4>3 DEF Done
        <5>2. Len(ops'[1]) = 2
          BY <1>8, <2>2, <4>3
        <5> QED BY <4>1, <5>1, <5>2
      <4> QED BY <4>2, <4>3
    <3>3. Done' = Done
      BY <1>2, <1>3, <3>1, <3>2
    <3> QED BY <1>2, <1>8, <2>2, <3>3, SenderKeepsStream
  <2> QED BY <2>1, <2>2
<1> QED BY <1>5, <1>9, <1>10

\* _handleSend of a write that failed: the wire may end in the middle of a
\* package, and nothing follows.
LEMMA HandleSendErrorKeepsStream ==
  ASSUME StreamIInv, NEW i \in DOMAIN ops, HandleSendError(i)
  PROVE  KeptInv' /\ SingleInv' /\ StreamInv'
<1> USE DEF StreamIInv
<1>1. RemoveAt(ops, i) = <<>>
  BY OneWrite
<1>2. /\ ops' = <<>> /\ failed' = TRUE
      /\ UNCHANGED <<queue, left, sent, popped, multi, wire, receiver>>
  BY <1>1 DEF HandleSendError
<1>3. KeptInv' /\ SingleInv'
  BY <1>2 DEF KeptInv, SingleInv
<1>4. CASE multi
  <2>1. multi'
    BY <1>2, <1>4
  <2> QED BY <1>3, <2>1 DEF StreamInv
<1>5. CASE ~multi
  <2>1. failed' /\ sent' = sent
    BY <1>2
  <2> QED BY <1>2, <1>3, <1>5, <2>1, SenderKeepsStream
<1> QED BY <1>3, <1>4, <1>5

\* The socket takes a buffer: the next piece is on the wire.
LEMMA TransmitKeepsStream ==
  ASSUME StreamIInv, NEW i \in DOMAIN ops, Transmit(i)
  PROVE  KeptInv' /\ SingleInv' /\ StreamInv'
<1> USE DEF StreamIInv
<1> DEFINE buf == Head(ops[1])
<1>1. i = 1 /\ ops = <<ops[1]>> /\ ops # <<>> /\ ~failed /\ queue # <<>> /\ ops[1] \in Seq(Buffer)
  BY OneWrite
<1>2. /\ ops[1] # <<>>
      /\ wire' = wire \o Bytes(buf)
      /\ ops' = [ops EXCEPT ![1] = Tail(@)]
      /\ UNCHANGED <<queue, left, sendSize, sendHead, sent, popped, multi, failed, receiver>>
  BY <1>1 DEF Transmit
<1>3. ops' = <<Tail(ops[1])>> /\ ops' # <<>> /\ ops'[1] = Tail(ops[1])
  BY <1>1, <1>2
<1>4. /\ queue[1] \in Packet /\ queue[1] = sent[popped + 1]
      /\ popped \in Nat /\ popped + 1 <= Len(sent)
      /\ left[queue[1]] = Body[queue[1]]
  BY <1>1, HeadKept
<1>5. KeptInv'
  BY <1>2 DEF KeptInv
<1>6. CASE multi
  <2>1. multi'
    BY <1>2, <1>6
  <2> QED BY <1>5, <2>1 DEF SingleInv, StreamInv
<1>7. CASE ~multi
  <2>1. /\ queue[1] # "size" /\ queue[1] # "head"
        /\ Bytes("size") = ToLittle(sendSize) /\ Bytes(queue[1]) = Body[queue[1]]
    <3>1. queue[1] # "size" /\ queue[1] # "head"
      BY <1>4, ConnectionAssumption
    <3> QED BY <1>4, <3>1 DEF Bytes
  <2>2. /\ Done \in Nat /\ Done + 1 <= 2 * Len(sent) /\ Done' = Done + 1
        /\ Bytes(buf) = Piece(sent, Done + 1)
        /\ SingleInv'
        /\ Done = 2 * popped \/ (Done = 2 * popped + 1 /\ Bytes(buf) = Body[sent[popped + 1]])
    <3>1. Done = 2 * popped + (2 - Len(ops[1])) /\ Done' = 2 * popped + (2 - Len(ops'[1]))
      BY <1>1, <1>2, <1>3 DEF Done
    <3>2. CASE ops[1] = <<"size", queue[1]>> /\ sendSize = Len(Body[queue[1]])
      <4>1. buf = "size" /\ Len(ops[1]) = 2 /\ ops'[1] = <<queue[1]>> /\ Len(ops'[1]) = 1
        BY <1>3, <3>2
      <4>2. Done = 2 * popped /\ Done' = 2 * popped + 1
        BY <1>4, <3>1, <4>1
      <4>3. Bytes(buf) = Piece(sent, Done + 1)
        BY <1>4, <2>1, <3>2, <4>1, <4>2, PieceIs
      <4>4. SingleInv'
        BY <1>2, <1>3, <4>1 DEF SingleInv
      <4>5. Done \in Nat /\ Done + 1 <= 2 * Len(sent) /\ Done' = Done + 1
        BY <1>4, <4>2
      <4> QED BY <4>2, <4>3, <4>4, <4>5
    <3>3. CASE ops[1] = <<queue[1]>>
      <4>1. buf = queue[1] /\ Len(ops[1]) = 1 /\ ops'[1] = <<>> /\ Len(ops'[1]) = 0
        BY <1>3, <3>3
      <4>2. Done = 2 * popped + 1 /\ Done' = 2 * popped + 2
        BY <1>4, <3>1, <4>1
      <4>3. Bytes(buf) = Piece(sent, Done + 1) /\ Bytes(buf) = Body[sent[popped + 1]]
        <5>1. Done + 1 = 2 * popped + 2
          BY <1>4, <4>2
        <5>2. Piece(sent, 2 * popped + 2) = Body[sent[popped + 1]]
          BY <1>4, PieceIs
        <5> QED BY <1>4, <2>1, <4>1, <5>1, <5>2
      <4>4. SingleInv'
        BY <1>2, <1>3, <4>1 DEF SingleInv
      <4>5. Done \in Nat /\ Done + 1 <= 2 * Len(sent) /\ Done' = Done + 1
        BY <1>4, <4>2
      <4> QED BY <4>2, <4>3, <4>4, <4>5
    <3> QED BY <1>1, <1>2, <1>7, <3>2, <3>3 DEF SingleInv
  <2>3. PICK n \in 0 .. Len(sent) :
          /\ readBuf = Bodies(sent, n)
          /\ reading # "stopped" => \E k \in 0 .. 2 * Len(sent) : InFlight(n, k)
    BY <1>7 DEF StreamInv
  <2>4. sent \in Seq(Packet) /\ Len(sent) \in Nat /\ n \in Nat
    BY DEF IInv, TypeOK
  <2>5. UNCHANGED <<reading, readSize, readBuf, sent, failed>>
    BY <1>2 DEF receiver
  <2>6. Taken(n)' = Taken(n) /\ Taken(n) \in Nat
    BY <2>4, <2>5 DEF Taken
  <2>7. ASSUME NEW k \in 0 .. 2 * Len(sent), InFlight(n, k)
        PROVE  \E m \in 0 .. 2 * Len(sent) : InFlight(n, m)'
    <3>1. k \in Nat /\ Taken(n) + k <= 2 * Len(sent) /\ wire = Stream(sent, Taken(n), k)
      BY <2>4, <2>7 DEF InFlight
    <3>2. CASE Taken(n) + k = Done
      <4>1. wire' = Stream(sent, Taken(n), k + 1)
        <5>1. Taken(n) + k + 1 <= 2 * Len(sent)
          BY <2>2, <3>2
        <5>2. Stream(sent, Taken(n), k + 1) = Stream(sent, Taken(n), k) \o Piece(sent, Taken(n) + k + 1)
          BY <2>4, <2>6, <3>1, <5>1, StreamNext
        <5> QED BY <1>2, <2>2, <3>1, <3>2, <5>2
      <4>2. Taken(n) + (k + 1) = Done' /\ Taken(n) + (k + 1) <= 2 * Len(sent)
        BY <2>2, <2>4, <2>6, <3>1, <3>2
      <4>3. InFlight(n, k + 1)'
        BY <2>5, <2>6, <2>7, <4>1, <4>2 DEF InFlight
      <4>4. k + 1 \in 0 .. 2 * Len(sent)
        BY <2>4, <2>6, <3>1, <4>2
      <4> QED BY <4>3, <4>4
    <3>3. CASE k = 0 /\ Taken(n) = Done + 1 /\ reading = "size" /\ Body[sent[n]] = <<>>
      <4>1. Taken(n) = 2 * n
        BY <3>3 DEF Taken
      <4>2. Done = 2 * popped + 1 /\ n = popped + 1
        BY <1>4, <2>2, <2>4, <3>3, <4>1
      <4>3. Bytes(buf) = <<>>
        BY <1>4, <2>2, <3>3, <4>2
      <4>4. wire' = wire
        BY <1>2, <4>3, ConcatEmptySeq DEF IInv, TypeOK
      <4>5. InFlight(n, k)'
        BY <2>2, <2>5, <2>6, <2>7, <3>1, <3>3, <4>4 DEF InFlight
      <4> QED BY <4>5
    <3> QED BY <1>1, <2>7, <3>2, <3>3 DEF InFlight
  <2>8. StreamInv'
    BY <2>3, <2>5, <2>7 DEF StreamInv
  <2> QED BY <1>5, <2>2, <2>8
<1> QED BY <1>6, <1>7


LEMMA SmallRest ==
  ASSUME NEW n \in Nat, n < Flag
  PROVE  n % Flag = n
<1> DEFINE f == Flag
<1>1. f \in Nat /\ f > 0 /\ n < f
  BY Numbers
<1> HIDE DEF f
<1>2. n % f = n
  BY <1>1
<1> QED BY <1>2 DEF f

\* The word that ToLittle lays out is read as the number it was.
LEMMA LittleRound ==
  ASSUME NEW w \in Word, NEW t \in Seq(Byte)
  PROVE  /\ FromLittle(ToLittle(w) \o t) = w
         /\ Len(ToLittle(w) \o t) >= 2
         /\ SubSeq(ToLittle(w) \o t, 3, Len(ToLittle(w) \o t)) = t
<1> DEFINE b == ToLittle(w)
           l == b \o t
<1>1. b \in Seq(Byte) /\ Len(b) = 2 /\ b[1] = w % Base /\ b[2] = w \div Base
  BY LittleBytes DEF ToLittle
<1>2. (w % Base) + Base * (w \div Base) = w
  <2>1. w \in Nat
    BY Numbers DEF Word
  <2> QED BY <2>1, Numbers
<1> HIDE DEF b
<1>3. /\ l \in Seq(Byte) /\ Len(l) = 2 + Len(t) /\ Len(t) \in Nat
      /\ l[1] = b[1] /\ l[2] = b[2]
      /\ \A i \in 1 .. Len(t) : l[i + 2] = t[i]
  <2>1. /\ l \in Seq(Byte) /\ Len(l) = Len(b) + Len(t) /\ Len(t) \in Nat
        /\ \A i \in 1 .. Len(b) + Len(t) : l[i] = IF i <= Len(b) THEN b[i] ELSE t[i - Len(b)]
    <3>1. b \in Seq(Byte)
      BY <1>1
    <3> QED BY <3>1, ConcatProperties
  <2> HIDE DEF l
  <2>2. l[1] = b[1] /\ l[2] = b[2]
    BY <1>1, <2>1
  <2>3. ASSUME NEW i \in 1 .. Len(t) PROVE l[i + 2] = t[i]
    <3>1. i + 2 \in 1 .. 2 + Len(t) /\ ~(i + 2 <= 2) /\ (i + 2) - 2 = i
      BY <2>1
    <3> QED BY <1>1, <2>1, <3>1
  <2> QED BY <1>1, <2>1, <2>2, <2>3
<1> HIDE DEF l
<1>4. FromLittle(l) = w
  BY <1>1, <1>2, <1>3 DEF FromLittle
<1>5. SubSeq(l, 3, Len(l)) = t
  <2> DEFINE u == SubSeq(l, 3, Len(l))
  <2>1. u \in Seq(Byte) /\ Len(u) = Len(t) /\ \A i \in 1 .. Len(t) : u[i] = l[i + 2]
    BY <1>3
  <2> HIDE DEF u
  <2>2. \A i \in 1 .. Len(t) : u[i] = t[i]
    BY <1>3, <2>1
  <2>3. u = t
    BY <2>1, <2>2, SeqEqual
  <2> QED BY <2>3 DEF u
<1> QED BY <1>3, <1>4, <1>5 DEF l, b

LEMMA CutFront ==
  ASSUME NEW a \in Seq(Byte), NEW t \in Seq(Byte)
  PROVE  /\ Len(a \o t) >= Len(a)
         /\ SubSeq(a \o t, 1, Len(a)) = a
         /\ SubSeq(a \o t, Len(a) + 1, Len(a \o t)) = t
<1> DEFINE l == a \o t
           n == Len(a)
<1>1. /\ n \in Nat /\ l \in Seq(Byte) /\ Len(l) = n + Len(t) /\ Len(t) \in Nat
      /\ \A i \in 1 .. n : l[i] = a[i]
      /\ \A i \in 1 .. Len(t) : l[i + n] = t[i]
  OBVIOUS
<1> HIDE DEF l
<1>2. SubSeq(l, 1, n) = a
  <2> DEFINE u == SubSeq(l, 1, n)
  <2>1. u \in Seq(Byte) /\ Len(u) = n /\ \A i \in 1 .. n : u[i] = l[i]
    BY <1>1
  <2> HIDE DEF u
  <2>2. \A i \in 1 .. n : u[i] = a[i]
    BY <1>1, <2>1
  <2>3. u = a
    BY <2>1, <2>2, SeqEqual
  <2> QED BY <2>3 DEF u
<1>3. SubSeq(l, n + 1, Len(l)) = t
  <2> DEFINE u == SubSeq(l, n + 1, Len(l))
  <2>1. u \in Seq(Byte) /\ Len(u) = Len(t) /\ \A i \in 1 .. Len(t) : u[i] = l[i + n]
    BY <1>1
  <2> HIDE DEF u
  <2>2. \A i \in 1 .. Len(t) : u[i] = t[i]
    BY <1>1, <2>1
  <2>3. u = t
    BY <2>1, <2>2, SeqEqual
  <2> QED BY <2>3 DEF u
<1> QED BY <1>1, <1>2, <1>3 DEF l


\* _listen and _handleReadPackageSize: the piece read is a size; a body of no
\* bytes is not asked for, and counts as taken with it.
LEMMA ReadSizeKeepsStream ==
  ASSUME StreamIInv, ReadPackageSize, ~multi
  PROVE  StreamInv'
<1> USE DEF StreamIInv
<1>1. /\ reading = "size" /\ Len(wire) >= 2
      /\ wire' = SubSeq(wire, 3, Len(wire))
      /\ readSize' = FromLittle(wire)
      /\ reading' = IF readSize' % Flag > 0 THEN "package" ELSE "size"
      /\ UNCHANGED <<sender, readBuf>>
  BY DEF ReadPackageSize, Drop
<1>2. PICK n \in 0 .. Len(sent) :
        /\ readBuf = Bodies(sent, n)
        /\ \E k \in 0 .. 2 * Len(sent) : InFlight(n, k)
  BY <1>1 DEF StreamInv
<1>3. PICK k \in 0 .. 2 * Len(sent) : InFlight(n, k)
  BY <1>2
<1>4. /\ sent \in Seq(Packet) /\ Len(sent) \in Nat /\ n \in Nat /\ k \in Nat
  BY DEF IInv, TypeOK
<1>5. Taken(n) = 2 * n
  BY <1>1 DEF Taken
<1>6. UNCHANGED <<sent, failed>> /\ Done' = Done
  <2>1. UNCHANGED <<sent, failed, popped, ops>>
    BY <1>1 DEF sender
  <2> QED BY <2>1 DEF Done
<1>7. /\ 2 * n + k <= 2 * Len(sent)
      /\ wire = Stream(sent, 2 * n, k)
      /\ failed \/ 2 * n + k = Done \/ k = 0
  BY <1>3, <1>5 DEF InFlight
<1>8. k > 0
  <2>1. Len(<<>>) = 0
    OBVIOUS
  <2>2. CASE k = 0
    BY <1>1, <1>7, <2>1, <2>2, StreamNone
  <2> QED BY <1>4, <2>2
<1> DEFINE p == sent[n + 1]
           rest == Stream(sent, 2 * n + 1, k - 1)
<1>9. p \in Packet /\ n + 1 <= Len(sent)
  <2>1. n + 1 <= Len(sent)
    BY <1>4, <1>7, <1>8
  <2> QED BY <1>4, <2>1
<1>10. wire = ToLittle(Len(Body[p])) \o rest /\ rest \in Seq(Byte)
  <2>1. Piece(sent, 2 * n + 1) = ToLittle(Len(Body[p]))
    BY <1>4, PieceIs
  <2>2. Stream(sent, 2 * n, k) = Piece(sent, 2 * n + 1) \o rest
    <3>1. 2 * n \in Nat
      BY <1>4
    <3> QED BY <1>4, <1>7, <1>8, <3>1, StreamFirst
  <2>3. rest \in Seq(Byte)
    <3>1. 2 * n + 1 \in Nat /\ k - 1 \in Nat /\ (2 * n + 1) + (k - 1) <= 2 * Len(sent)
      BY <1>4, <1>7, <1>8
    <3> QED BY <1>4, <3>1, PiecesType
  <2> QED BY <1>7, <2>1, <2>2, <2>3
<1> HIDE DEF p, rest
<1>11. Len(Body[p]) \in Word /\ Len(Body[p]) \in Nat /\ Len(Body[p]) < Flag /\ Body[p] \in Seq(Byte)
  BY <1>9, BodyType
<1>12. readSize' = Len(Body[p]) /\ wire' = rest
  BY <1>1, <1>10, <1>11, LittleRound
<1>13. readSize' % Flag = readSize'
  BY <1>11, <1>12, SmallRest
<1>14. CASE readSize' > 0
  <2>1. reading' = "package"
    BY <1>1, <1>13, <1>14
  <2>2. Taken(n)' = 2 * n + 1
    BY <2>1 DEF Taken
  <2>3. InFlight(n, k - 1)'
    <3>1. /\ (2 * n + 1) + (k - 1) <= 2 * Len(sent)
          /\ failed \/ (2 * n + 1) + (k - 1) = Done
      BY <1>4, <1>7, <1>8
    <3>2. readSize' = Len(Body[sent[n + 1]]) /\ wire' = Stream(sent, 2 * n + 1, k - 1)
      BY <1>12 DEF p, rest
    <3> QED BY <1>6, <1>14, <2>1, <2>2, <3>1, <3>2 DEF InFlight
  <2>4. k - 1 \in 0 .. 2 * Len(sent)
    BY <1>4, <1>7, <1>8
  <2> QED BY <1>1, <1>2, <1>6, <2>3, <2>4 DEF StreamInv
<1>15. CASE readSize' = 0
  <2>1. reading' = "size"
    <3>1. ~(readSize' % Flag > 0)
      BY <1>13, <1>15
    <3> QED BY <1>1, <3>1
  <2>2. Taken(n + 1)' = 2 * n + 2
    BY <1>4, <2>1 DEF Taken
  <2>3. Body[p] = <<>>
    <3>1. Len(Body[p]) = 0
      BY <1>12, <1>15
    <3> QED BY <1>11, <3>1, EmptySeq
  <2>4. readBuf' = Bodies(sent, n + 1)
    <3>1. Bodies(sent, n + 1) = Bodies(sent, n) \o <<>>
      BY <1>4, <1>9, <2>3, BodiesNext DEF p
    <3>2. readBuf \in Seq(Byte)
      BY DEF IInv, TypeOK
    <3> QED BY <1>1, <1>2, <3>1, <3>2, ConcatEmptySeq
  <2>5. CASE k = 1
    <3>1. wire' = Stream(sent, 2 * n + 2, 0)
      BY <1>12, <2>5, StreamNone DEF rest
    <3>2. (2 * n + 2) + 0 <= 2 * Len(sent)
      BY <1>4, <1>9
    <3>3. failed \/ 2 * n + 2 = Done + 1
      BY <1>4, <1>7, <2>5
    <3>4. Body[sent[n + 1]] = <<>>
      BY <2>3 DEF p
    <3>5. InFlight(n + 1, 0)'
      BY <1>6, <2>1, <2>2, <3>1, <3>2, <3>3, <3>4 DEF InFlight
    <3>6. 0 \in 0 .. 2 * Len(sent) /\ n + 1 \in 0 .. Len(sent)
      BY <1>4, <1>9
    <3> QED BY <1>6, <2>4, <3>5, <3>6 DEF StreamInv
  <2>6. CASE k # 1
    <3>0. k - 2 \in Nat /\ k - 1 > 0 /\ (k - 1) - 1 = k - 2
      BY <1>4, <1>8, <2>6
    <3>1. wire' = Stream(sent, 2 * n + 2, k - 2)
      <4>1. rest = Piece(sent, 2 * n + 2) \o Stream(sent, 2 * n + 2, k - 2)
        <5>1. /\ 2 * n + 1 \in Nat /\ k - 1 \in Nat /\ (2 * n + 1) + 1 = 2 * n + 2
              /\ (2 * n + 1) + (k - 1) <= 2 * Len(sent)
          BY <1>4, <1>7, <1>8
        <5>2. Stream(sent, 2 * n + 1, k - 1)
                = Piece(sent, (2 * n + 1) + 1) \o Stream(sent, (2 * n + 1) + 1, (k - 1) - 1)
          BY <1>4, <3>0, <5>1, StreamFirst
        <5> QED BY <3>0, <5>1, <5>2 DEF rest
      <4>2. Piece(sent, 2 * n + 2) = <<>>
        BY <1>4, <2>3, PieceIs DEF p
      <4>3. Stream(sent, 2 * n + 2, k - 2) \in Seq(Byte)
        <5>1. 2 * n + 2 \in Nat /\ (2 * n + 2) + (k - 2) <= 2 * Len(sent)
          BY <1>4, <1>7, <3>0
        <5> QED BY <1>4, <3>0, <5>1, PiecesType
      <4> QED BY <1>12, <4>1, <4>2, <4>3, ConcatEmptySeq
    <3>2. /\ (2 * n + 2) + (k - 2) <= 2 * Len(sent)
          /\ failed \/ (2 * n + 2) + (k - 2) = Done
      BY <1>4, <1>7, <1>8
    <3>3. InFlight(n + 1, k - 2)'
      BY <1>6, <2>1, <2>2, <3>1, <3>2 DEF InFlight
    <3>4. k - 2 \in 0 .. 2 * Len(sent) /\ n + 1 \in 0 .. Len(sent)
      BY <1>4, <1>9, <3>0, <3>2
    <3> QED BY <1>6, <2>4, <3>3, <3>4 DEF StreamInv
  <2> QED BY <2>5, <2>6
<1>16. readSize' \in Nat
  BY <1>11, <1>12
<1> QED BY <1>14, <1>15, <1>16

\* _handleReadPackage: the piece read is the body of the next packet.
LEMMA ReadPackageKeepsStream ==
  ASSUME StreamIInv, ReadPackage, ~multi
  PROVE  StreamInv'
<1> USE DEF StreamIInv
<1> DEFINE size == readSize % Flag
<1>1. /\ reading = "package" /\ Len(wire) >= size
      /\ wire' = SubSeq(wire, size + 1, Len(wire))
      /\ readBuf' = readBuf \o SubSeq(wire, 1, size)
      /\ reading' = "size"
      /\ UNCHANGED <<sender, readSize>>
  BY DEF ReadPackage, Drop
<1>2. PICK n \in 0 .. Len(sent) :
        /\ readBuf = Bodies(sent, n)
        /\ \E k \in 0 .. 2 * Len(sent) : InFlight(n, k)
  BY <1>1 DEF StreamInv
<1>3. PICK k \in 0 .. 2 * Len(sent) : InFlight(n, k)
  BY <1>2
<1>4. sent \in Seq(Packet) /\ Len(sent) \in Nat /\ n \in Nat /\ k \in Nat
  BY DEF IInv, TypeOK
<1>5. Taken(n) = 2 * n + 1
  BY <1>1 DEF Taken
<1>6. UNCHANGED <<sent, failed>> /\ Done' = Done
  <2>1. UNCHANGED <<sent, failed, popped, ops>>
    BY <1>1 DEF sender
  <2> QED BY <2>1 DEF Done
<1> DEFINE p == sent[n + 1]
           rest == Stream(sent, 2 * n + 2, k - 1)
<1>7. /\ (2 * n + 1) + k <= 2 * Len(sent)
      /\ wire = Stream(sent, 2 * n + 1, k)
      /\ failed \/ (2 * n + 1) + k = Done
      /\ readSize > 0 /\ readSize = Len(Body[p])
  <2>1. reading # "size"
    BY <1>1
  <2> QED BY <1>1, <1>3, <1>5, <2>1 DEF InFlight
<1>8. p \in Packet /\ n + 1 <= Len(sent)
  <2>1. n + 1 <= Len(sent)
    BY <1>4, <1>7
  <2> QED BY <1>4, <2>1
<1>9. Len(Body[p]) \in Nat /\ Len(Body[p]) < Flag /\ Body[p] \in Seq(Byte)
  BY <1>8, BodyType
<1>10. size = Len(Body[p])
  BY <1>7, <1>9, SmallRest
<1>11. k > 0
  <2>1. Len(<<>>) = 0
    OBVIOUS
  <2>2. CASE k = 0
    BY <1>1, <1>7, <1>9, <1>10, <2>1, <2>2, StreamNone
  <2> QED BY <1>4, <2>2
<1>12. /\ 2 * n + 1 \in Nat /\ 2 * n + 2 \in Nat /\ k - 1 \in Nat /\ (2 * n + 1) + 1 = 2 * n + 2
       /\ (2 * n + 2) + (k - 1) <= 2 * Len(sent)
  BY <1>4, <1>7, <1>11
<1>13. wire = Body[p] \o rest /\ rest \in Seq(Byte)
  <2>1. Piece(sent, 2 * n + 2) = Body[p]
    BY <1>4, PieceIs
  <2>2. Stream(sent, 2 * n + 1, k) = Piece(sent, (2 * n + 1) + 1) \o Stream(sent, (2 * n + 1) + 1, k - 1)
    BY <1>4, <1>7, <1>11, <1>12, StreamFirst
  <2>3. rest \in Seq(Byte)
    BY <1>4, <1>12, PiecesType
  <2> QED BY <1>7, <1>12, <2>1, <2>2, <2>3
<1> HIDE DEF size, p, rest
<1>14. SubSeq(wire, 1, size) = Body[p] /\ wire' = rest
  BY <1>1, <1>9, <1>10, <1>13, CutFront
<1>15. readBuf' = Bodies(sent, n + 1)
  BY <1>1, <1>2, <1>4, <1>8, <1>14, BodiesNext DEF p
<1>16. Taken(n + 1)' = 2 * n + 2
  BY <1>1, <1>4 DEF Taken
<1>17. InFlight(n + 1, k - 1)'
  <2>1. failed \/ (2 * n + 2) + (k - 1) = Done
    BY <1>4, <1>7
  <2>2. wire' = Stream(sent, 2 * n + 2, k - 1)
    BY <1>14 DEF rest
  <2>3. reading' # "package"
    BY <1>1
  <2> QED BY <1>6, <1>12, <1>16, <2>1, <2>2, <2>3 DEF InFlight
<1>18. k - 1 \in 0 .. 2 * Len(sent) /\ n + 1 \in 0 .. Len(sent)
  BY <1>4, <1>8, <1>12
<1> QED BY <1>6, <1>15, <1>17, <1>18 DEF StreamInv

LEMMA ReceiverKeepsStream ==
  ASSUME StreamIInv, ReadPackageSize \/ ReadPackage \/ ReadError
  PROVE  KeptInv' /\ SingleInv' /\ StreamInv'
<1> USE DEF StreamIInv
<1>1. UNCHANGED <<queue, left, sendSize, ops, sent, popped, multi, failed>>
  BY DEF ReadPackageSize, ReadPackage, ReadError, sender
<1>2. KeptInv' /\ SingleInv'
  BY <1>1 DEF KeptInv, SingleInv
<1>3. CASE multi
  <2>1. multi'
    BY <1>1, <1>3
  <2> QED BY <1>2, <2>1 DEF StreamInv
<1>4. CASE ~multi
  <2>1. CASE ReadError
    <3>1. reading' = "stopped" /\ UNCHANGED readBuf
      BY <2>1 DEF ReadError
    <3>2. StreamInv'
      BY <1>1, <1>4, <3>1 DEF StreamInv
    <3> QED BY <1>2, <3>2
  <2> QED BY <1>2, <1>4, <2>1, ReadSizeKeepsStream, ReadPackageKeepsStream
<1> QED BY <1>3, <1>4

LEMMA NextStream == StreamIInv /\ [Next]_vars => StreamIInv'
<1> SUFFICES ASSUME StreamIInv, [Next]_vars PROVE StreamIInv'
  OBVIOUS
<1>1. IInv'
  BY NextIInv DEF StreamIInv
<1>2. KeptInv' /\ SingleInv' /\ StreamInv'
  <2>1. CASE UNCHANGED vars
    <3>1. UNCHANGED <<queue, left, sendSize, ops, sent, popped, multi, failed, wire, reading, readSize, readBuf>>
      BY <2>1 DEF vars, sender, receiver
    <3>2. KeptInv' /\ SingleInv'
      BY <3>1 DEF StreamIInv, KeptInv, SingleInv
    <3>3. StreamInv'
      BY <3>1 DEF StreamIInv, StreamInv, InFlight, Taken, Done
    <3> QED BY <3>2, <3>3
  <2>2. CASE Next
    BY <2>2, SendKeepsStream, TransmitKeepsStream, HandleSendKeepsStream,
       HandleSendErrorKeepsStream, ReceiverKeepsStream DEF Next, Write, Read
  <2> QED BY <2>1, <2>2
<1> QED BY <1>1, <1>2 DEF StreamIInv

\* SinglePacketsDelivered: as long as no write gathered several packets, what
\* the reader has put together is the bodies of the packets sent, whole and in
\* order, up to some packet: whatever the sizes, wherever a write failed.
THEOREM PacketsAreDelivered == Spec => []SinglePacketsDelivered
<1>1. StreamIInv => SinglePacketsDelivered
  BY DEF StreamIInv, StreamInv, Bodies, BodiesOf, SinglePacketsDelivered
<1>2. Spec => []StreamIInv
  BY InitStream, NextStream, PTL DEF Spec
<1> QED BY <1>1, <1>2, PTL
==============================================================================
