---------------------------- MODULE SessionProofs ----------------------------
(***************************************************************************)
(* Proofs about the sessions: RpcSession (old/session.hpp), for any calls  *)
(* and any number of operation ids, and Datagram (session.hpp).            *)
(*                                                                         *)
(* Of RpcSession three invariants, each inductive with those before it:    *)
(* TypeOK; OrderInv, that the packages on their way hold the calls between *)
(* those the peer took and those issued, in order, until the peer loses    *)
(* its place; and IdInv, that _waitMap has the call of every packet whose  *)
(* answer may still come, while nothing disturbs the session.  The last    *)
(* needs that the program has no more calls outstanding than there are     *)
(* ids.                                                                    *)
(***************************************************************************)
EXTENDS RpcSession, MCDatagram, SequenceLemmas

\* The calls whose packets are in requests and package, in the order issued:
\* package k of requests begins behind call number start[k], and _package behind
\* the last of these numbers.
Ordered(start) ==
  /\ start \in [1 .. Len(requests) + 1 -> Nat]
  /\ start[1] = Len(handled)
  /\ \A k, l \in 1 .. Len(requests) + 1 : k <= l => start[k] <= start[l]
  /\ \A k \in 1 .. Len(requests) :
       /\ start[k + 1] = start[k] + Len(requests[k])
       /\ \A i \in 1 .. Len(requests[k]) : requests[k][i].call = issued[start[k] + i]
  /\ Len(issued) = start[Len(requests) + 1] + Len(package)
  /\ \A i \in 1 .. Len(package) : package[i].call = issued[start[Len(requests) + 1] + i]

\* The peer takes the calls one behind the other, and has left nothing.
Placed ==
  /\ IsInjective(issued)
  /\ \A i \in 1 .. Len(handled) : i <= Len(issued) /\ handled[i] = issued[i]
  /\ \E start \in [1 .. Len(requests) + 1 -> Nat] : Ordered(start)
  /\ Left = {}

\* It does, until it loses its place: in mixed writes, or where it left something.
OrderInv ==
  /\ "requests" \notin misread => Placed
  /\ "requests" \in misread \ mixed => \E j \in 1 .. Len(handled) : handled[j] \in Left
  /\ InvokedInOrder

------------------------------------------------------------------------------
(* Operators.                                                              *)

\* ReadPrefix ends before the first packet that is not read.
LEMMA ReadPrefixIs ==
  ASSUME NEW s \in Seq(BOOLEAN)
  PROVE  /\ ReadPrefix(s) \in 0 .. Len(s)
         /\ \A i \in 1 .. ReadPrefix(s) : s[i] = TRUE
         /\ ReadPrefix(s) < Len(s) => s[ReadPrefix(s) + 1] = FALSE
<1> DEFINE T == {n \in 0 .. Len(s) : n < Len(s) => ~s[n + 1]}
<1>1. T \in SUBSET Nat /\ T # {}
  <2>1. Len(s) \in Nat /\ Len(s) \in T
    OBVIOUS
  <2> QED BY <2>1
<1>2. PICK n \in T : \A m \in T : n <= m
  <2> HIDE DEF T
  <2> QED BY <1>1, LeastNumber
<1>3. ASSUME NEW i \in 1 .. n PROVE s[i]
  <2>1. i - 1 \notin T
    <3>1. n \in Nat
      BY <1>2
    <3> HIDE DEF T
    <3> QED BY <1>2, <3>1
  <2>2. i - 1 \in 0 .. Len(s) /\ i - 1 < Len(s) /\ (i - 1) + 1 = i
    BY <1>2
  <2> QED BY <2>1, <2>2
<1>4. \E m \in 0 .. Len(s) : /\ \A i \in 1 .. m : s[i]
                             /\ m < Len(s) => ~s[m + 1]
  BY <1>2, <1>3
<1> DEFINE r == ReadPrefix(s)
<1>5. /\ r \in 0 .. Len(s)
      /\ \A i \in 1 .. r : s[i]
      /\ r < Len(s) => ~s[r + 1]
  BY <1>4 DEF ReadPrefix
<1> HIDE DEF r
<1>6. \A i \in 1 .. r : s[i] = TRUE
  BY <1>5
<1>7. r < Len(s) => s[r + 1] = FALSE
  BY <1>5
<1> QED BY <1>5, <1>6, <1>7 DEF r

\* get_free_operation_id returns a free id when there is one.
LEMMA FreeOidIs ==
  /\ FreeOid \in Oid
  /\ \A o \in Oid : waitMap[o] = None => waitMap[FreeOid] = None
<1> DEFINE free == {o \in Oid : waitMap[o] = None}
<1>1. CASE free = {}
  BY <1>1, RpcSessionAssumption DEF FreeOid, Oid
<1>2. CASE free # {}
  <2>1. PICK o \in free : \A p \in free : o <= p
    <3>1. free \in SUBSET Nat
      BY DEF Oid
    <3> HIDE DEF free
    <3> QED BY <1>2, <3>1, LeastNumber
  <2>2. FreeOid \in free
    BY <1>2, <2>1 DEF FreeOid
  <2> QED BY <2>2
<1> QED BY <1>1, <1>2

\* A write leaves the reader where it was, or mixes.
LEMMA WriteMixes ==
  ASSUME TypeOK, NEW s \in Stream, NEW q, NEW l \in SUBSET Stream, misread \subseteq l,
         Write(s, q, l)
  PROVE  /\ \E m \in SUBSET {s} : mixed' = mixed \cup m /\ misread' = l \cup m
         /\ misread' \in SUBSET Stream /\ mixed' \subseteq misread'
<1>1. PICK m \in SUBSET {s} : mixed' = mixed \cup m /\ misread' = l \cup m
  <2>1. PICK m \in {{}} \cup (IF q = <<>> THEN {} ELSE {{s}}) :
           mixed' = mixed \cup m /\ misread' = l \cup m
    BY DEF Write
  <2>2. m \in SUBSET {s}
    BY <2>1
  <2> QED BY <2>1, <2>2
<1>2. mixed \subseteq misread
  BY DEF TypeOK
<1> QED BY <1>1, <1>2

------------------------------------------------------------------------------
(* TypeOK is an invariant.                                                 *)

LEMMA InitTypeOK == Init => TypeOK
<1> SUFFICES ASSUME Init PROVE TypeOK
  OBVIOUS
<1>1. \A S : <<>> \in Seq(S)
  OBVIOUS
<1>2. 0 \in 0 .. MaxGarbage
  BY RpcSessionAssumption
<1>3. waitMap \in [Oid -> Call \cup {None}] /\ answer \in [Call -> Call \cup {None}]
  BY DEF Init
<1>4. promise \in [Call -> {"none", "pending", "set", "broken"}]
  BY DEF Init
<1> QED BY <1>1, <1>2, <1>3, <1>4 DEF Init, TypeOK

\* How many packets of package p the peer takes, when it reads n to their end.
Through(p, n) == IF n < Len(p) THEN n + 1 ELSE n

LEMMA FirstRequest ==
  ASSUME TypeOK, HandleRequests
  PROVE  Head(requests) = requests[1]
<1>1. requests \in Seq(Seq(Packet))
  BY DEF TypeOK
<1>2. requests # <<>>
  BY DEF HandleRequests
<1> QED BY <1>1, <1>2, HeadAt

\* The peer takes package p, n packets of it to their end.  What it answers has a
\* place for each of these.
Takes(p, n) ==
  LET replies == [i \in 1 .. n |-> AnswerTo(p, i)]
      taken == [i \in 1 .. Through(p, n) |-> p[i].call]
  IN  /\ p \in Seq(Packet) /\ Tail(requests) \in Seq(Seq(Packet))
      /\ replies \in Seq(Packet \cup {None})
      /\ Through(p, n) \in 0 .. Len(p) /\ taken \in Seq(Call)
      /\ requests' = Tail(requests)
      /\ handled' = handled \o taken
      /\ skipped' = skipped \cup {c \in {p[i].call : i \in 1 .. Through(p, n)} : ~Invokes(c)}
      /\ \A i \in 1 .. n : Invokes(p[i].call) \/ p[i].call \in Bare
      /\ n < Len(p) => ~Invokes(p[n + 1].call) /\ p[n + 1].call \notin Bare
      /\ \E m \in SUBSET {"responses"} :
           /\ mixed' = mixed \cup m
           /\ misread' = (misread \cup (IF n < Len(p) THEN {"requests"} ELSE {})) \cup m
      /\ misread' \in SUBSET Stream /\ mixed' \subseteq misread'
      /\ \/ responses' = Append(responses, replies)
         \/ responses' = responses
      /\ "requests" \notin misread /\ requests # <<>> /\ ~lost
      /\ UNCHANGED <<calls, lost, bound, garbage, overtaken>>

LEMMA Replies ==
  ASSUME TypeOK, HandleRequests
  PROVE  \E n \in 0 .. Len(Head(requests)) : Takes(Head(requests), n)
<1> DEFINE p == Head(requests)
           isRead == [i \in DOMAIN p |-> Invokes(p[i].call) \/ p[i].call \in Bare]
           n == ReadPrefix(isRead)
           t == Through(p, n)
           replies == [i \in 1 .. n |-> AnswerTo(p, i)]
           taken == [i \in 1 .. t |-> p[i].call]
           lost1 == misread \cup (IF n < Len(p) THEN {"requests"} ELSE {})
<1>1. /\ requests # <<>> /\ "requests" \notin misread /\ ~lost
      /\ requests' = Tail(requests)
      /\ handled' = handled \o taken
      /\ skipped' = skipped \cup {c \in {p[i].call : i \in 1 .. t} : ~Invokes(c)}
      /\ \/ responses' = Append(responses, replies)
         \/ responses' = responses
      /\ \/ Write("responses", responses, lost1)
         \/ misread' = lost1 /\ mixed' = mixed
      /\ UNCHANGED <<calls, lost, bound, garbage, overtaken>>
  BY DEF HandleRequests, Through
<1>2. p \in Seq(Packet) /\ Tail(requests) \in Seq(Seq(Packet))
  <2>1. requests \in Seq(Seq(Packet))
    BY DEF TypeOK
  <2> QED BY <1>1, <2>1, HeadTailProperties
<1>3. DOMAIN p = 1 .. Len(p) /\ Len(p) \in Nat
  BY <1>2
<1>4. isRead \in Seq(BOOLEAN) /\ Len(isRead) = Len(p)
  <2>1. \A c : (Invokes(c) \/ c \in Bare) \in BOOLEAN
    OBVIOUS
  <2>2. isRead \in [1 .. Len(p) -> BOOLEAN]
    BY <1>3, <2>1
  <2> HIDE DEF isRead
  <2> QED BY <1>3, <2>2
<1>5. /\ n \in 0 .. Len(p)
      /\ \A i \in 1 .. n : isRead[i] = TRUE
      /\ n < Len(p) => isRead[n + 1] = FALSE
  <2> HIDE DEF isRead
  <2> QED BY <1>4, ReadPrefixIs
<1>6. /\ \A i \in 1 .. n : Invokes(p[i].call) \/ p[i].call \in Bare
      /\ n < Len(p) => ~Invokes(p[n + 1].call) /\ p[n + 1].call \notin Bare
  <2> HIDE DEF n
  <2>1. \A i \in 1 .. Len(p) : isRead[i] = (Invokes(p[i].call) \/ p[i].call \in Bare)
    BY <1>3
  <2> HIDE DEF isRead
  <2>2. \A i \in 1 .. n : i \in 1 .. Len(p)
    BY <1>3, <1>5
  <2>3. n < Len(p) => n + 1 \in 1 .. Len(p)
    BY <1>3, <1>5
  <2>4. \A i \in 1 .. n : Invokes(p[i].call) \/ p[i].call \in Bare
    BY <1>5, <2>1, <2>2
  <2>5. n < Len(p) => ~(Invokes(p[n + 1].call) \/ p[n + 1].call \in Bare)
    BY <1>5, <2>1, <2>3
  <2> QED BY <2>4, <2>5
<1> HIDE DEF n
<1>7. t \in 0 .. Len(p)
  BY <1>3, <1>5 DEF Through
<1>8. replies \in Seq(Packet \cup {None})
  <2>1. \A i \in 1 .. n : p[i] \in Packet
    BY <1>2, <1>5
  <2> QED BY <1>5, <2>1 DEF AnswerTo
<1>9. taken \in Seq(Call)
  <2>1. \A i \in 1 .. t : p[i] \in Packet
    BY <1>2, <1>7
  <2> QED BY <1>7, <2>1 DEF Packet
<1>10. /\ \E m \in SUBSET {"responses"} : mixed' = mixed \cup m /\ misread' = lost1 \cup m
       /\ misread' \in SUBSET Stream /\ mixed' \subseteq misread'
  <2>1. lost1 \in SUBSET Stream /\ misread \subseteq lost1 /\ "responses" \in Stream
    BY DEF TypeOK, Stream
  <2>2. CASE Write("responses", responses, lost1)
    <3> HIDE DEF lost1
    <3> QED BY <2>1, <2>2, WriteMixes
  <2>3. CASE misread' = lost1 /\ mixed' = mixed
    <3>1. mixed' = mixed \cup {} /\ misread' = lost1 \cup {}
      BY <2>3
    <3>2. mixed \subseteq misread
      BY DEF TypeOK
    <3> QED BY <2>1, <2>3, <3>1, <3>2
  <2> QED BY <1>1, <2>2, <2>3
<1>11. Takes(p, n)
  BY <1>1, <1>2, <1>6, <1>7, <1>8, <1>9, <1>10 DEF Takes
<1> QED BY <1>5, <1>11

\* The packets of the first package of responses that _response takes, when it
\* takes n, and those among them that set the promise of a call.
Taken(n) == {i \in 1 .. n : Head(responses)[i] # None}
SetBy(n, c) == {i \in Taken(n) : Found(Head(responses), i) = c}

LEMMA Taking ==
  ASSUME TypeOK, HandleResponses
  PROVE  \E n \in 0 .. Len(Head(responses)) :
           LET p == Head(responses)
           IN  /\ responses # <<>> /\ ~lost /\ "responses" \notin misread
               /\ p \in Seq(Packet \cup {None}) /\ Tail(responses) \in Seq(Seq(Packet \cup {None}))
               /\ responses' = Tail(responses)
               /\ \A i \in Taken(n) : p[i] \in Packet /\ Found(p, i) # None
               /\ n < Len(p) => p[n + 1] # None /\ Found(p, n + 1) = None
               /\ misread' = misread \cup (IF n < Len(p) THEN {"responses"} ELSE {})
               /\ overtaken' = (overtaken \/ (n < Len(p) /\ p[n + 1] \in between))
               /\ waitMap' = [o \in Oid |-> IF \E i \in Taken(n) : p[i].oid = o THEN None
                                            ELSE waitMap[o]]
               /\ promise' = [c \in Call |-> IF SetBy(n, c) # {} THEN "set" ELSE promise[c]]
               /\ answer' = [c \in Call |-> IF SetBy(n, c) # {}
                                            THEN p[CHOOSE i \in SetBy(n, c) : TRUE].call
                                            ELSE answer[c]]
               /\ UNCHANGED <<package, batch, between, issued, doubled, peer, socket, requests,
                              garbage>>
<1> DEFINE p == Head(responses)
           isRead == [i \in DOMAIN p |-> p[i] # None => Found(p, i) # None]
           n == ReadPrefix(isRead)
<1>1. /\ responses # <<>> /\ ~lost /\ "responses" \notin misread
      /\ responses' = Tail(responses)
      /\ misread' = misread \cup (IF n < Len(p) THEN {"responses"} ELSE {})
      /\ overtaken' = (overtaken \/ (n < Len(p) /\ p[n + 1] \in between))
      /\ waitMap' = [o \in Oid |-> IF \E i \in Taken(n) : p[i].oid = o THEN None ELSE waitMap[o]]
      /\ promise' = [c \in Call |-> IF SetBy(n, c) # {} THEN "set" ELSE promise[c]]
      /\ answer' = [c \in Call |-> IF SetBy(n, c) # {}
                                   THEN p[CHOOSE i \in SetBy(n, c) : TRUE].call
                                   ELSE answer[c]]
      /\ UNCHANGED <<package, batch, between, issued, doubled, peer, socket, requests, garbage>>
  BY DEF HandleResponses, Taken, SetBy
<1>2. p \in Seq(Packet \cup {None}) /\ Tail(responses) \in Seq(Seq(Packet \cup {None}))
  BY <1>1 DEF TypeOK
<1>3. isRead \in Seq(BOOLEAN) /\ Len(isRead) = Len(p)
  <2>1. DOMAIN p = 1 .. Len(p) /\ Len(p) \in Nat
    BY <1>2
  <2>0. \A i : (p[i] # None => Found(p, i) # None) \in BOOLEAN
    OBVIOUS
  <2>2. isRead \in [1 .. Len(p) -> BOOLEAN]
    BY <2>0, <2>1
  <2> HIDE DEF isRead
  <2> QED BY <2>1, <2>2
<1>4. /\ n \in 0 .. Len(p) /\ \A i \in 1 .. n : isRead[i] = TRUE
      /\ n < Len(p) => isRead[n + 1] = FALSE
  <2> HIDE DEF isRead
  <2> QED BY <1>3, ReadPrefixIs
<1> HIDE DEF n
<1>5. ASSUME NEW i \in Taken(n) PROVE p[i] \in Packet /\ Found(p, i) # None
  <2>1. i \in 1 .. Len(p) /\ i \in 1 .. n /\ p[i] # None /\ DOMAIN p = 1 .. Len(p)
    BY <1>2, <1>4 DEF Taken
  <2>2. isRead[i] = TRUE
    BY <1>4, <2>1
  <2>3. isRead[i] = (p[i] # None => Found(p, i) # None)
    BY <2>1
  <2>4. p[i] \in Packet
    BY <1>2, <2>1
  <2> QED BY <2>1, <2>2, <2>3, <2>4
<1>6. n < Len(p) => p[n + 1] # None /\ Found(p, n + 1) = None
  <2> SUFFICES ASSUME n < Len(p) PROVE p[n + 1] # None /\ Found(p, n + 1) = None
    OBVIOUS
  <2>1. n + 1 \in 1 .. Len(p) /\ DOMAIN p = 1 .. Len(p)
    BY <1>2, <1>4
  <2>2. isRead[n + 1] = FALSE
    BY <1>4
  <2>3. isRead[n + 1] = (p[n + 1] # None => Found(p, n + 1) # None)
    BY <2>1
  <2> QED BY <2>2, <2>3
<1> QED BY <1>1, <1>2, <1>4, <1>5, <1>6

LEMMA SendTypeOK ==
  ASSUME TypeOK, NEW c \in Call, Send(c)
  PROVE  TypeOK'
<1> DEFINE x == [call |-> c, oid |-> FreeOid]
           p == Append(package, x)
<1>1. x \in Packet /\ FreeOid \in Oid
  BY FreeOidIs DEF Packet
<1>2. p \in Seq(Packet) /\ <<>> \in Seq(Packet)
  BY <1>1 DEF TypeOK
<1>3. between' \subseteq [call : Call \ Void, oid : Oid]
  <2>1. c \notin Void => x \in [call : Call \ Void, oid : Oid]
    BY <1>1
  <2>2. between' = IF c \in Void THEN between ELSE between \cup {x}
    BY DEF Send
  <2> HIDE DEF x
  <2> QED BY <2>1, <2>2 DEF TypeOK
<1>4. issued' \in Seq(Call)
  BY DEF Send, TypeOK
<1>5. doubled' \in BOOLEAN
  BY DEF Send
<1>6. \/ package' = p /\ UNCHANGED <<requests, mixed, misread>>
      \/ package' = <<>> /\ requests' = Append(requests, p) /\ Write("requests", requests, misread)
  BY DEF Send, EndSend
<1> HIDE DEF x, p
<1>7. package' \in Seq(Packet) /\ requests' \in Seq(Seq(Packet))
  <2>1. requests \in Seq(Seq(Packet))
    BY DEF TypeOK
  <2>2. Append(requests, p) \in Seq(Seq(Packet))
    BY <1>2, <2>1, AppendProperties
  <2> QED BY <1>2, <1>6, <2>1, <2>2
<1>8. misread' \subseteq Stream /\ mixed' \subseteq misread'
  <2>1. misread \in SUBSET Stream /\ "requests" \in Stream /\ mixed \subseteq misread
    BY DEF TypeOK, Stream
  <2>2. CASE Write("requests", requests, misread)
    BY <2>1, <2>2, WriteMixes
  <2> QED BY <1>6, <2>1, <2>2
<1>9. UNCHANGED <<waitMap, batch, promise, answer, responses, lost, garbage, overtaken, bound,
                  handled, skipped>>
  BY DEF Send, peer
<1> QED BY <1>3, <1>4, <1>5, <1>7, <1>8, <1>9 DEF TypeOK

LEMMA NextTypeOK == TypeOK /\ [Next]_vars => TypeOK'
<1> SUFFICES ASSUME TypeOK, [Next]_vars PROVE TypeOK'
  OBVIOUS
<1>1. ASSUME NEW x \in between, Wait(x) PROVE TypeOK'
  <2>1. x.call \in Call \ Void /\ x.oid \in Oid
    BY DEF TypeOK
  <2>2. waitMap' \in [Oid -> Call \cup {None}]
    BY <1>1, <2>1 DEF Wait, TypeOK
  <2>3. promise' \in [Call -> {"none", "pending", "set", "broken"}]
    BY <1>1, <2>1 DEF Wait, TypeOK
  <2>4. between' \subseteq [call : Call \ Void, oid : Oid]
    BY <1>1 DEF Wait, TypeOK
  <2>5. UNCHANGED <<package, batch, answer, issued, doubled, peer, socket, requests, responses,
                    misread, garbage, overtaken>>
    BY <1>1 DEF Wait
  <2> QED BY <2>2, <2>3, <2>4, <2>5 DEF TypeOK, peer, socket
<1>2. ASSUME BeginBatch \/ Bind \/ Lose PROVE TypeOK'
  BY <1>2 DEF BeginBatch, Bind, Lose, TypeOK, peer, calls, socket
<1>3. ASSUME EndBatch PROVE TypeOK'
  <2>1. <<>> \in Seq(Packet) /\ Append(requests, package) \in Seq(Seq(Packet))
    BY DEF TypeOK
  <2>2. misread' \subseteq Stream /\ mixed' \subseteq misread'
    <3>1. misread \in SUBSET Stream /\ "requests" \in Stream
      BY DEF TypeOK, Stream
    <3>2. Write("requests", requests, misread)
      BY <1>3 DEF EndBatch, EndSend
    <3> QED BY <3>1, <3>2, WriteMixes
  <2>3. /\ requests' = Append(requests, package) /\ package' = <<>> /\ batch' = FALSE
        /\ UNCHANGED <<waitMap, between, promise, answer, issued, doubled, peer, lost, responses,
                       garbage, overtaken>>
    BY <1>3 DEF EndBatch, EndSend
  <2> QED BY <2>1, <2>2, <2>3 DEF TypeOK, peer
<1>4. ASSUME HandleRequests PROVE TypeOK'
  <2> DEFINE p == Head(requests)
             replies(n) == [i \in 1 .. n |-> AnswerTo(p, i)]
             taken(n) == [i \in 1 .. Through(p, n) |-> p[i].call]
             new(n) == {c \in {p[i].call : i \in 1 .. Through(p, n)} : ~Invokes(c)}
  <2>0. PICK n \in 0 .. Len(p) : Takes(p, n)
    BY <1>4, Replies
  <2>1. /\ p \in Seq(Packet) /\ Tail(requests) \in Seq(Seq(Packet))
        /\ replies(n) \in Seq(Packet \cup {None})
        /\ Through(p, n) \in 0 .. Len(p) /\ taken(n) \in Seq(Call)
        /\ requests' = Tail(requests)
        /\ handled' = handled \o taken(n)
        /\ skipped' = skipped \cup new(n)
        /\ misread' \in SUBSET Stream /\ mixed' \subseteq misread'
        /\ \/ responses' = Append(responses, replies(n))
           \/ responses' = responses
        /\ UNCHANGED <<calls, lost, bound, garbage, overtaken>>
    BY <2>0 DEF Takes
  <2>2. new(n) \subseteq Call
    <3>1. \A i \in 1 .. Through(p, n) : p[i] \in Packet
      BY <2>1
    <3> HIDE DEF p
    <3> QED BY <3>1 DEF Packet
  <2> HIDE DEF replies, taken, p, new
  <2>3. handled' \in Seq(Call)
    BY <2>1 DEF TypeOK
  <2>4. responses' \in Seq(Seq(Packet \cup {None}))
    <3>1. responses \in Seq(Seq(Packet \cup {None}))
      BY DEF TypeOK
    <3>2. Append(responses, replies(n)) \in Seq(Seq(Packet \cup {None}))
      BY <2>1, <3>1, AppendProperties
    <3> QED BY <2>1, <3>1, <3>2
  <2>5. skipped' \subseteq Call
    BY <2>1, <2>2 DEF TypeOK
  <2> QED BY <2>1, <2>3, <2>4, <2>5 DEF TypeOK, calls
<1>5. ASSUME HandleResponses PROVE TypeOK'
  <2> DEFINE p == Head(responses)
  <2>1. PICK n \in 0 .. Len(p) :
           /\ Tail(responses) \in Seq(Seq(Packet \cup {None}))
           /\ responses' = Tail(responses)
           /\ \A i \in Taken(n) : p[i] \in Packet
           /\ misread' = misread \cup (IF n < Len(p) THEN {"responses"} ELSE {})
           /\ overtaken' = (overtaken \/ (n < Len(p) /\ p[n + 1] \in between))
           /\ waitMap' = [o \in Oid |-> IF \E i \in Taken(n) : p[i].oid = o THEN None
                                        ELSE waitMap[o]]
           /\ promise' = [c \in Call |-> IF SetBy(n, c) # {} THEN "set" ELSE promise[c]]
           /\ answer' = [c \in Call |-> IF SetBy(n, c) # {}
                                        THEN p[CHOOSE i \in SetBy(n, c) : TRUE].call
                                        ELSE answer[c]]
           /\ UNCHANGED <<package, batch, between, issued, doubled, peer, socket, requests, garbage>>
    BY <1>5, Taking
  <2> HIDE DEF p
  <2>2. waitMap' \in [Oid -> Call \cup {None}]
    BY <2>1 DEF TypeOK
  <2>3. promise' \in [Call -> {"none", "pending", "set", "broken"}]
    BY <2>1 DEF TypeOK
  <2>4. answer' \in [Call -> Call \cup {None}]
    <3>1. ASSUME NEW c \in Call, SetBy(n, c) # {}
          PROVE  p[CHOOSE i \in SetBy(n, c) : TRUE].call \in Call
      BY <2>1, <3>1 DEF SetBy, Packet
    <3> QED BY <2>1, <3>1 DEF TypeOK
  <2>5. misread' \subseteq Stream /\ mixed' \subseteq misread' /\ overtaken' \in BOOLEAN
    BY <2>1 DEF TypeOK, Stream, socket
  <2> QED BY <2>1, <2>2, <2>3, <2>4, <2>5 DEF TypeOK, peer, socket
<1>6. ASSUME ReadGarbage PROVE TypeOK'
  <2>1. garbage' \in 0 .. MaxGarbage
    <3>1. garbage \in 0 .. MaxGarbage /\ garbage < MaxGarbage /\ garbage' = garbage + 1
      BY <1>6 DEF ReadGarbage, TypeOK
    <3> QED BY <3>1, RpcSessionAssumption
  <2>2. ASSUME NEW x \in Stray PROVE x \in Packet /\ x.call \in Call /\ x.oid \in Oid
    BY RpcSessionAssumption DEF Packet, Oid
  <2>3. CASE GarbageRequest
    <3>1. PICK x \in Stray :
             /\ handled' = Append(handled, x.call)
             /\ \/ UNCHANGED <<responses, mixed, misread>>
                \/ responses' = Append(responses, <<x>>) /\ Write("responses", responses, misread)
      BY <2>3 DEF GarbageRequest
    <3>2. handled' \in Seq(Call)
      BY <2>2, <3>1 DEF TypeOK
    <3>3. responses' \in Seq(Seq(Packet \cup {None}))
      <4>1. responses \in Seq(Seq(Packet \cup {None})) /\ <<x>> \in Seq(Packet \cup {None})
        BY <2>2 DEF TypeOK
      <4>2. Append(responses, <<x>>) \in Seq(Seq(Packet \cup {None}))
        BY <4>1, AppendProperties
      <4> QED BY <3>1, <4>1, <4>2
    <3>4. misread' \subseteq Stream /\ mixed' \subseteq misread'
      <4>1. misread \in SUBSET Stream /\ "responses" \in Stream /\ mixed \subseteq misread
        BY DEF TypeOK, Stream
      <4>2. CASE Write("responses", responses, misread)
        BY <4>1, <4>2, WriteMixes
      <4> QED BY <3>1, <4>1, <4>2
    <3>5. UNCHANGED <<calls, requests, lost, bound, skipped, overtaken>>
      BY <2>3 DEF GarbageRequest
    <3> QED BY <2>1, <3>2, <3>3, <3>4, <3>5 DEF TypeOK, calls
  <2>4. CASE GarbageResponse
    <3>1. PICK x \in Stray :
             /\ waitMap[x.oid] # None
             /\ waitMap' = [waitMap EXCEPT ![x.oid] = None]
             /\ promise' = [promise EXCEPT ![waitMap[x.oid]] = "set"]
             /\ answer' = [answer EXCEPT ![waitMap[x.oid]] = x.call]
      BY <2>4 DEF GarbageResponse
    <3>2. waitMap' \in [Oid -> Call \cup {None}]
      BY <2>2, <3>1 DEF TypeOK
    <3>3. promise' \in [Call -> {"none", "pending", "set", "broken"}]
      BY <3>1 DEF TypeOK
    <3>4. answer' \in [Call -> Call \cup {None}]
      BY <2>2, <3>1 DEF TypeOK
    <3>5. UNCHANGED <<package, batch, between, issued, doubled, peer, socket, requests, responses,
                      misread, overtaken>>
      BY <2>4 DEF GarbageResponse
    <3> QED BY <2>1, <3>2, <3>3, <3>4, <3>5 DEF TypeOK, peer, socket
  <2> QED BY <1>6, <2>3, <2>4 DEF ReadGarbage
<1>7. CASE UNCHANGED vars
  BY <1>7 DEF TypeOK, vars, calls, peer, socket
<1> QED BY <1>1, <1>2, <1>3, <1>4, <1>5, <1>6, <1>7, SendTypeOK DEF Next, Io

\* TypeOK: the operation id of every packet fits operation_id_type, what wraps
\* to 0 included, and what is waited for is never a call that returns nothing.
THEOREM SessionTypeCorrect == Spec => []TypeOK
BY InitTypeOK, NextTypeOK, PTL DEF Spec

------------------------------------------------------------------------------
(* OrderInv is an invariant.                                               *)

\* Package p, all that is not on its way yet, is sent.
LEMMA EndSendOrdered ==
  ASSUME TypeOK, NEW start \in [1 .. Len(requests) + 1 -> Nat], Ordered(start),
         NEW p \in Seq(Packet), requests' = Append(requests, p), package' = <<>>,
         UNCHANGED handled,
         issued' \in Seq(Call), Len(issued') = start[Len(requests) + 1] + Len(p),
         \A i \in 1 .. Len(issued) : issued'[i] = issued[i],
         \A i \in 1 .. Len(p) : p[i].call = issued'[start[Len(requests) + 1] + i]
  PROVE  \E s \in [1 .. Len(requests') + 1 -> Nat] : Ordered(s)'
<1> DEFINE m == Len(requests)
<1>1. /\ m \in Nat /\ Len(requests') = m + 1 /\ requests'[m + 1] = p
      /\ \A k \in 1 .. m : requests'[k] = requests[k]
      /\ Len(package') = 0 /\ Len(issued) \in Nat /\ Len(issued') \in Nat /\ Len(p) \in Nat
      /\ \A k \in 1 .. m : Len(requests[k]) \in Nat
  <2>1. requests \in Seq(Seq(Packet)) /\ issued \in Seq(Call)
    BY DEF TypeOK
  <2> QED BY <2>1, AppendProperties
<1>2. /\ \A k \in 1 .. m + 1 : start[k] \in Nat
      /\ start[1] = Len(handled)
      /\ \A k, l \in 1 .. m + 1 : k <= l => start[k] <= start[l]
      /\ \A k \in 1 .. m : start[k + 1] = start[k] + Len(requests[k])
      /\ \A k \in 1 .. m : \A i \in 1 .. Len(requests[k]) :
            requests[k][i].call = issued[start[k] + i]
      /\ start[m + 1] <= Len(issued)
  <2>1. Len(issued) = start[m + 1] + Len(package) /\ Len(package) \in Nat
    BY DEF Ordered, TypeOK
  <2>2. \A k \in 1 .. m + 1 : start[k] \in Nat
    OBVIOUS
  <2>3. start[m + 1] <= Len(issued)
    <3>1. m + 1 \in 1 .. m + 1
      BY <1>1
    <3> QED BY <1>1, <2>1, <2>2, <3>1
  <2> QED BY <2>2, <2>3 DEF Ordered
<1>3. PICK s \in [1 .. m + 2 -> Nat] :
         /\ \A k \in 1 .. m + 1 : s[k] = start[k]
         /\ s[m + 2] = Len(issued')
  <2> WITNESS [k \in 1 .. m + 2 |-> IF k <= m + 1 THEN start[k] ELSE Len(issued')]
                \in [1 .. m + 2 -> Nat]
  <2> QED BY <1>1, <1>2
<1> HIDE DEF m
<1>4. s[1] = Len(handled)
  BY <1>1, <1>2, <1>3
<1>5. ASSUME NEW k \in 1 .. m + 2, NEW l \in 1 .. m + 2, k <= l PROVE s[k] <= s[l]
  <2>1. CASE l <= m + 1
    <3>1. k \in 1 .. m + 1 /\ l \in 1 .. m + 1
      BY <1>1, <1>5, <2>1
    <3> QED BY <1>2, <1>3, <1>5, <3>1
  <2>2. CASE k <= m + 1 /\ l = m + 2
    <3>1. k \in 1 .. m + 1 /\ m + 1 \in 1 .. m + 1
      BY <1>1, <2>2
    <3>2. start[k] <= start[m + 1] /\ start[k] \in Nat /\ start[m + 1] \in Nat
      BY <1>2, <2>2, <3>1
    <3>3. Len(issued') = start[m + 1] + Len(p) /\ Len(p) \in Nat
      BY <1>1 DEF m
    <3>4. s[k] = start[k] /\ s[l] = Len(issued')
      BY <1>3, <2>2, <3>1
    <3> QED BY <3>2, <3>3, <3>4
  <2>3. CASE k = m + 2 /\ l = m + 2
    BY <1>1, <1>3, <2>3
  <2> QED BY <1>1, <1>5, <2>1, <2>2, <2>3
<1>6. ASSUME NEW k \in 1 .. m + 1
      PROVE  /\ s[k + 1] = s[k] + Len(requests'[k])
             /\ \A i \in 1 .. Len(requests'[k]) : requests'[k][i].call = issued'[s[k] + i]
  <2>1. CASE k <= m
    <3>1. k \in 1 .. m /\ start[k + 1] <= start[m + 1] /\ start[k] \in Nat
      <4>1. k \in 1 .. m + 1 /\ k + 1 \in 1 .. m + 1 /\ m + 1 \in 1 .. m + 1 /\ k + 1 <= m + 1
        BY <1>1, <2>1
      <4> QED BY <1>2, <4>1, <2>1
    <3>2. s[k] = start[k] /\ s[k + 1] = start[k + 1] /\ requests'[k] = requests[k]
      BY <1>1, <1>3, <3>1
    <3>3. ASSUME NEW i \in 1 .. Len(requests[k])
          PROVE  requests[k][i].call = issued'[start[k] + i]
      <4>1. start[k] + i \in 1 .. Len(issued)
        <5>1. start[k + 1] = start[k] + Len(requests[k]) /\ Len(requests[k]) \in Nat
          BY <1>1, <1>2, <3>1
        <5>2. start[m + 1] <= Len(issued) /\ start[m + 1] \in Nat /\ Len(issued) \in Nat
          <6>1. m + 1 \in 1 .. m + 1
            BY <1>1
          <6> QED BY <1>1, <1>2, <6>1
        <5> DEFINE a == start[k]
                   n == Len(requests[k])
        <5>3. a \in Nat /\ n \in Nat /\ i \in 1 .. n /\ a + n <= Len(issued)
          <6>1. k \in 1 .. m + 1 /\ k + 1 \in 1 .. m + 1
            BY <1>1, <3>1
          <6>2. a \in Nat /\ start[k + 1] \in Nat /\ start[k + 1] <= start[m + 1]
            <7>1. k + 1 <= m + 1 /\ m + 1 \in 1 .. m + 1
              BY ONLY <1>1, <6>1
            <7>2. \A k1 \in 1 .. m + 1 : start[k1] \in Nat
              BY <1>2
            <7>3. \A k1, l1 \in 1 .. m + 1 : k1 <= l1 => start[k1] <= start[l1]
              BY <1>2
            <7> QED BY ONLY <6>1, <7>1, <7>2, <7>3
          <6>3. start[k + 1] = a + n /\ n \in Nat /\ i \in 1 .. n
            BY <5>1
          <6> HIDE DEF a, n
          <6> QED BY ONLY <5>2, <6>2, <6>3
        <5> HIDE DEF a, n
        <5>4. a + i \in 1 .. Len(issued)
          BY ONLY <5>2, <5>3
        <5> QED BY <5>4 DEF a
      <4> QED BY <1>2, <3>1, <4>1
    <3> QED BY <1>2, <3>1, <3>2, <3>3
  <2>2. CASE k = m + 1
    <3>1. s[k] = start[m + 1] /\ s[k + 1] = Len(issued') /\ requests'[k] = p
      <4>1. m + 1 \in 1 .. m + 1 /\ k + 1 = m + 2
        BY <1>1, <2>2
      <4> QED BY <1>1, <1>3, <2>2, <4>1
    <3>2. /\ Len(issued') = start[m + 1] + Len(p)
          /\ \A i \in 1 .. Len(p) : p[i].call = issued'[start[m + 1] + i]
      BY DEF m
    <3> QED BY <3>1, <3>2
  <2>3. k <= m \/ k = m + 1
    BY <1>1
  <2> QED BY <2>1, <2>2, <2>3
<1>7. Len(requests') + 1 = m + 2
  BY <1>1
<1>8. Len(issued') = s[m + 2] + Len(package')
  BY <1>1, <1>3
<1>9. Ordered(s)'
  <2>1. s \in [1 .. Len(requests') + 1 -> Nat]
    BY <1>7
  <2>2. s[1] = Len(handled')
    BY <1>4
  <2>3. \A k, l \in 1 .. Len(requests') + 1 : k <= l => s[k] <= s[l]
    BY <1>5, <1>7
  <2>4. \A k \in 1 .. Len(requests') :
           /\ s[k + 1] = s[k] + Len(requests'[k])
           /\ \A i \in 1 .. Len(requests'[k]) : requests'[k][i].call = issued'[s[k] + i]
    <3>1. 1 .. Len(requests') = 1 .. m + 1
      BY <1>1
    <3> QED BY <1>6, <3>1
  <2>5. /\ Len(issued') = s[Len(requests') + 1] + Len(package')
        /\ \A i \in 1 .. Len(package') : package'[i].call = issued'[s[Len(requests') + 1] + i]
    BY <1>1, <1>7, <1>8
  <2> QED BY <2>1, <2>2, <2>3, <2>4, <2>5 DEF Ordered
<1> QED BY <1>7, <1>9

LEMMA SendKeepsPlaced ==
  ASSUME TypeOK, Placed, NEW c \in Call, Send(c)
  PROVE  Placed'
<1> DEFINE x == [call |-> c, oid |-> FreeOid]
           p == Append(package, x)
<1>1. PICK start \in [1 .. Len(requests) + 1 -> Nat] : Ordered(start)
  BY DEF Placed
<1>2. /\ issued' = Append(issued, c) /\ c \notin ToSet(issued)
      /\ UNCHANGED <<handled, skipped>>
      /\ \/ package' = p /\ requests' = requests
         \/ package' = <<>> /\ requests' = Append(requests, p)
  BY DEF Send, EndSend, peer
<1>3. /\ issued' \in Seq(Call) /\ Len(issued') = Len(issued) + 1 /\ Len(issued) \in Nat
      /\ issued'[Len(issued) + 1] = c /\ \A i \in 1 .. Len(issued) : issued'[i] = issued[i]
  <2>1. issued \in Seq(Call)
    BY DEF TypeOK
  <2> QED BY <1>2, <2>1, AppendProperties
<1>4. x \in Packet /\ x.call = c
  BY FreeOidIs DEF Packet
<1> HIDE DEF x
<1>5. /\ p \in Seq(Packet) /\ Len(p) = Len(package) + 1 /\ Len(package) \in Nat
      /\ p[Len(package) + 1] = x /\ \A i \in 1 .. Len(package) : p[i] = package[i]
  <2>1. package \in Seq(Packet)
    BY DEF TypeOK
  <2> QED BY <1>4, <2>1, AppendProperties
<1>6. IsInjective(issued')
  BY <1>2, InjectiveAppend DEF TypeOK, Placed
<1>7. \A i \in 1 .. Len(handled') : i <= Len(issued') /\ handled'[i] = issued'[i]
  <2>1. Len(handled) \in Nat
    BY DEF TypeOK
  <2> QED BY <1>2, <1>3, <2>1 DEF Placed
<1> HIDE DEF p
<1> DEFINE last == start[Len(requests) + 1]
<1>8. /\ last \in Nat
      /\ Len(issued) = last + Len(package)
      /\ \A i \in 1 .. Len(package) : package[i].call = issued[last + i]
  <2>1. Len(requests) \in Nat /\ Len(requests) + 1 \in 1 .. Len(requests) + 1
    BY DEF TypeOK
  <2> QED BY <1>1, <2>1 DEF Ordered
<1>9. /\ Len(issued') = last + Len(p)
      /\ \A i \in 1 .. Len(p) : p[i].call = issued'[last + i]
  <2> HIDE DEF last
  <2>1. Len(issued') = last + Len(p)
    BY <1>3, <1>5, <1>8
  <2>2. ASSUME NEW i \in 1 .. Len(p) PROVE p[i].call = issued'[last + i]
    <3>1. CASE i <= Len(package)
      <4>1. i \in 1 .. Len(package) /\ last + i \in 1 .. Len(issued)
        BY <1>5, <1>8, <3>1
      <4> QED BY <1>3, <1>5, <1>8, <4>1
    <3>2. CASE i = Len(package) + 1
      <4>1. last + i = Len(issued) + 1
        BY <1>5, <1>8, <3>2
      <4> QED BY <1>3, <1>4, <1>5, <3>2, <4>1
    <3> QED BY <1>5, <3>1, <3>2
  <2> QED BY <2>1, <2>2
<1>10. \E s \in [1 .. Len(requests') + 1 -> Nat] : Ordered(s)'
  <2>1. CASE package' = p /\ requests' = requests
    <3>1. ASSUME NEW k \in 1 .. Len(requests), NEW i \in 1 .. Len(requests[k])
          PROVE  requests[k][i].call = issued'[start[k] + i]
      <4>1. /\ requests[k][i].call = issued[start[k] + i]
            /\ start[k + 1] = start[k] + Len(requests[k])
            /\ start[k + 1] <= last /\ start[k] \in Nat /\ start[k + 1] \in Nat
            /\ Len(requests[k]) \in Nat
        <5>1. Len(requests) \in Nat /\ Len(requests[k]) \in Nat /\ k + 1 \in 1 .. Len(requests) + 1
              /\ k \in 1 .. Len(requests) + 1 /\ Len(requests) + 1 \in 1 .. Len(requests) + 1
              /\ k + 1 <= Len(requests) + 1
          BY DEF TypeOK
        <5> QED BY <1>1, <5>1 DEF Ordered
      <4> DEFINE a == start[k]
                 b == start[k + 1]
                 l == Len(requests[k])
      <4>2. a \in Nat /\ b \in Nat /\ l \in Nat /\ b = a + l /\ b <= last /\ i \in 1 .. l
        BY <4>1
      <4> HIDE DEF last, a, b, l
      <4>3. a + i \in 1 .. Len(issued)
        <5>1. last <= Len(issued) /\ last \in Nat /\ Len(issued) \in Nat
          BY <1>8, <1>5
        <5> QED BY ONLY <4>2, <5>1
      <4> QED BY <1>3, <4>1, <4>3 DEF a
    <3>2. Ordered(start)'
      BY <1>1, <1>2, <1>9, <2>1, <3>1 DEF Ordered
    <3> QED BY <2>1, <3>2
  <2>2. CASE package' = <<>> /\ requests' = Append(requests, p)
    BY <1>1, <1>2, <1>3, <1>5, <1>9, <2>2, EndSendOrdered
  <2> QED BY <1>2, <2>1, <2>2
<1> QED BY <1>2, <1>6, <1>7, <1>10 DEF Placed, Left

LEMMA EndBatchKeepsPlaced ==
  ASSUME TypeOK, Placed, EndBatch
  PROVE  Placed'
<1>1. PICK start \in [1 .. Len(requests) + 1 -> Nat] : Ordered(start)
  BY DEF Placed
<1>2. /\ requests' = Append(requests, package) /\ package' = <<>>
      /\ UNCHANGED <<handled, skipped, issued>>
  BY DEF EndBatch, EndSend, peer
<1>3. package \in Seq(Packet) /\ issued \in Seq(Call)
  BY DEF TypeOK
<1>4. \E s \in [1 .. Len(requests') + 1 -> Nat] : Ordered(s)'
  <2>1. /\ Len(issued) = start[Len(requests) + 1] + Len(package)
        /\ \A i \in 1 .. Len(package) : package[i].call = issued[start[Len(requests) + 1] + i]
    BY <1>1 DEF Ordered
  <2> QED BY <1>1, <1>2, <1>3, <2>1, EndSendOrdered
<1> QED BY <1>2, <1>4 DEF Placed, Left

\* The peer takes the first package: all of it, or up to where it leaves something.
LEMMA HandleRequestsKeepsOrder ==
  ASSUME TypeOK, Placed, HandleRequests
  PROVE  /\ \A i \in 1 .. Len(handled') : i <= Len(issued') /\ handled'[i] = issued'[i]
         /\ "requests" \notin misread' => Placed'
         /\ "requests" \in misread' => \E j \in 1 .. Len(handled') : handled'[j] \in Left'
<1> DEFINE p == requests[1]
           m == Len(requests)
           base == Len(handled)
<1>1. PICK start \in [1 .. Len(requests) + 1 -> Nat] : Ordered(start)
  BY DEF Placed
<1>0. PICK n \in 0 .. Len(p) : Takes(p, n)
  <2>1. Head(requests) = requests[1]
    BY FirstRequest
  <2> QED BY <2>1, Replies
<1> DEFINE t == Through(p, n)
           taken == [i \in 1 .. t |-> p[i].call]
           new == {c \in {p[i].call : i \in 1 .. t} : ~Invokes(c)}
<1>2. /\ p \in Seq(Packet)
      /\ requests' = Tail(requests)
      /\ t \in 0 .. Len(p)
      /\ taken \in Seq(Call)
      /\ handled' = handled \o taken
      /\ skipped' = skipped \cup new
      /\ \A i \in 1 .. n : Invokes(p[i].call) \/ p[i].call \in Bare
      /\ n < Len(p) => ~Invokes(p[n + 1].call) /\ p[n + 1].call \notin Bare
      /\ \E m1 \in SUBSET {"responses"} :
           misread' = (misread \cup (IF n < Len(p) THEN {"requests"} ELSE {})) \cup m1
      /\ "requests" \notin misread /\ requests # <<>>
      /\ UNCHANGED <<issued, package>>
  BY <1>0 DEF Takes, calls
<1>3. /\ m \in Nat /\ m >= 1 /\ Len(requests') + 1 = m
      /\ \A k \in 1 .. m - 1 : requests'[k] = requests[k + 1]
      /\ base \in Nat /\ Len(issued) \in Nat /\ Len(package) \in Nat /\ n \in Nat
      /\ Len(p) \in Nat /\ n <= Len(p) /\ t \in Nat /\ t <= Len(p)
  <2>1. requests \in Seq(Seq(Packet)) /\ handled \in Seq(Call) /\ issued \in Seq(Call)
        /\ package \in Seq(Packet) /\ p \in Seq(Packet) /\ base \in Nat
    BY <1>2 DEF TypeOK
  <2>2. m \in Nat /\ m >= 1 /\ Len(requests') + 1 = m
        /\ \A k \in 1 .. m - 1 : requests'[k] = requests[k + 1]
    BY <1>2, <2>1
  <2> QED BY <1>2, <2>1, <2>2
<1>4. /\ \A k \in 1 .. m + 1 : start[k] \in Nat
      /\ start[1] = base
      /\ \A k, l \in 1 .. m + 1 : k <= l => start[k] <= start[l]
      /\ \A k \in 1 .. m : start[k + 1] = start[k] + Len(requests[k])
      /\ \A k \in 1 .. m : \A i \in 1 .. Len(requests[k]) :
            requests[k][i].call = issued[start[k] + i]
      /\ Len(issued) = start[m + 1] + Len(package)
      /\ \A i \in 1 .. Len(package) : package[i].call = issued[start[m + 1] + i]
  BY <1>1, <1>2 DEF Ordered
<1>5. /\ start[2] = base + Len(p)
      /\ \A i \in 1 .. Len(p) : p[i].call = issued[base + i]
      /\ start[2] <= Len(issued)
  <2>1. 1 \in 1 .. m /\ 2 \in 1 .. m + 1 /\ m + 1 \in 1 .. m + 1 /\ 2 <= m + 1
    BY <1>3
  <2>2. start[2] = base + Len(p) /\ \A i \in 1 .. Len(p) : p[i].call = issued[base + i]
    <3>1. /\ start[1 + 1] = start[1] + Len(requests[1])
          /\ \A i \in 1 .. Len(requests[1]) : requests[1][i].call = issued[start[1] + i]
      BY <1>4, <2>1
    <3>2. 1 + 1 = 2
      OBVIOUS
    <3> QED BY <1>4, <3>1, <3>2
  <2>3. start[2] <= start[m + 1] /\ start[m + 1] \in Nat
    BY <1>4, <2>1
  <2>4. start[m + 1] <= Len(issued)
    <3>1. Len(issued) = start[m + 1] + Len(package) /\ Len(package) \in Nat
      BY <1>3, <1>4
    <3> QED BY ONLY <2>3, <3>1
  <2>5. start[2] \in Nat
    BY <1>4, <2>1
  <2>6. start[2] <= Len(issued)
    BY ONLY <1>3, <2>3, <2>4, <2>5
  <2> QED BY <2>2, <2>6
<1>6. PICK s \in [1 .. m -> Nat] : \A k \in 1 .. m : s[k] = start[k + 1]
  <2> WITNESS [k \in 1 .. m |-> start[k + 1]] \in [1 .. m -> Nat]
  <2> QED BY <1>3, <1>4
<1>7. /\ Len(handled') = base + t
      /\ \A i \in 1 .. base : handled'[i] = handled[i]
      /\ \A i \in 1 .. t : handled'[base + i] = p[i].call
  <2>1. taken \in Seq(Call) /\ Len(taken) = t /\ handled \in Seq(Call)
    BY <1>2, <1>3 DEF TypeOK
  <2>2. \A i \in 1 .. t : taken[i] = p[i].call
    OBVIOUS
  <2> HIDE DEF taken
  <2>3. /\ Len(handled \o taken) = base + t
        /\ \A i \in 1 .. base + t :
              (handled \o taken)[i] = IF i <= base THEN handled[i] ELSE taken[i - base]
    BY <2>1, ConcatProperties
  <2>4. ASSUME NEW i \in 1 .. t PROVE (handled \o taken)[base + i] = taken[i]
    <3>1. base + i \in 1 .. base + t /\ ~(base + i <= base) /\ (base + i) - base = i
      BY <1>3
    <3> QED BY <2>3, <3>1
  <2>5. handled' = handled \o taken
    BY <1>2 DEF taken
  <2> QED BY <1>3, <2>2, <2>3, <2>4, <2>5
<1> HIDE DEF p, m, base, t, taken, new
<1>8. ASSUME NEW i \in 1 .. Len(handled')
      PROVE  i <= Len(issued) /\ handled'[i] = issued[i]
  <2>1. CASE i <= base
    <3>1. i \in 1 .. Len(handled)
      BY <1>3, <2>1 DEF base
    <3> QED BY <1>7, <3>1 DEF Placed, base
  <2>2. CASE i > base
    <3>1. i - base \in 1 .. t /\ i - base \in 1 .. Len(p) /\ base + (i - base) = i
      BY <1>3, <1>7, <2>2
    <3>2. handled'[i] = p[i - base].call /\ p[i - base].call = issued[i]
      BY <1>5, <1>7, <3>1
    <3>3. i <= Len(issued)
      BY <1>3, <1>5, <1>7
    <3> QED BY <3>2, <3>3
  <2> QED BY <1>3, <1>7, <2>1, <2>2
<1>9. ASSUME "requests" \notin misread' PROVE Placed'
  <2>0. n = Len(p) /\ t = n
    <3>1. ~(n < Len(p))
      BY <1>2, <1>9
    <3> QED BY <1>3, <3>1 DEF Through, t
  <2>9. Ordered(s)'
    <3>1. s \in [1 .. Len(requests') + 1 -> Nat]
      BY <1>3
    <3>2. s[1] = Len(handled')
      <4>1. s[1] = start[2]
        BY <1>3, <1>6
      <4> QED BY <1>5, <1>7, <2>0, <4>1
    <3>3. ASSUME NEW k \in 1 .. m, NEW l \in 1 .. m, k <= l PROVE s[k] <= s[l]
      <4>1. k + 1 \in 1 .. m + 1 /\ l + 1 \in 1 .. m + 1 /\ k + 1 <= l + 1
        BY <1>3, <3>3
      <4> QED BY <1>4, <1>6, <4>1
    <3>4. ASSUME NEW k \in 1 .. Len(requests')
          PROVE  /\ s[k + 1] = s[k] + Len(requests'[k])
                 /\ \A i \in 1 .. Len(requests'[k]) : requests'[k][i].call = issued'[s[k] + i]
      <4>1. k \in 1 .. m - 1 /\ k + 1 \in 1 .. m /\ k \in 1 .. m
        BY <1>3
      <4>2. requests'[k] = requests[k + 1] /\ s[k] = start[k + 1] /\ s[k + 1] = start[(k + 1) + 1]
        BY <1>3, <1>6, <4>1
      <4>3. /\ start[(k + 1) + 1] = start[k + 1] + Len(requests[k + 1])
            /\ \A i \in 1 .. Len(requests[k + 1]) : requests[k + 1][i].call = issued[start[k + 1] + i]
        BY <1>4, <4>1
      <4>4. issued' = issued
        BY <1>2
      <4> QED BY ONLY <4>2, <4>3, <4>4
    <3>5. /\ Len(issued') = s[Len(requests') + 1] + Len(package')
          /\ \A i \in 1 .. Len(package') : package'[i].call = issued'[s[Len(requests') + 1] + i]
      <4>1. s[m] = start[m + 1]
        BY <1>3, <1>6
      <4> QED BY <1>2, <1>3, <1>4, <4>1
    <3> QED BY <1>3, <3>1, <3>2, <3>3, <3>4, <3>5 DEF Ordered
  <2>10. \E u \in [1 .. Len(requests') + 1 -> Nat] : Ordered(u)'
    BY <1>3, <2>9
  <2>11. Left' = {}
    <3>1. new \subseteq Bare
      <4>1. \A i \in 1 .. t : Invokes(p[i].call) \/ p[i].call \in Bare
        BY <1>2, <2>0
      <4> QED BY <4>1 DEF new
    <3>2. skipped' = skipped \cup new /\ skipped \subseteq Bare
      BY <1>2 DEF Placed, Left, new, t
    <3> QED BY <3>1, <3>2 DEF Left
  <2>12. IsInjective(issued')
    BY <1>2 DEF Placed
  <2> QED BY <1>2, <1>8, <2>10, <2>11, <2>12 DEF Placed
<1>10. ASSUME "requests" \in misread' PROVE \E j \in 1 .. Len(handled') : handled'[j] \in Left'
  <2>1. n < Len(p)
    BY <1>2, <1>10
  <2>2. t = n + 1 /\ t \in 1 .. t
    BY <1>3, <2>1 DEF Through, t
  <2>3. p[t].call \in skipped' /\ p[t].call \notin Bare
    <3>1. ~Invokes(p[t].call) /\ p[t].call \notin Bare
      BY <1>2, <2>1, <2>2
    <3>2. skipped' = skipped \cup new
      BY <1>2 DEF new, t
    <3> QED BY <2>2, <3>1, <3>2 DEF new
  <2>4. handled'[base + t] = p[t].call /\ base + t \in 1 .. Len(handled')
    BY <1>3, <1>7, <2>2
  <2> QED BY <2>3, <2>4 DEF Left
<1> QED BY <1>2, <1>8, <1>9, <1>10

LEMMA InitOrder == Init => OrderInv
<1> SUFFICES ASSUME Init PROVE OrderInv
  OBVIOUS
<1>1. PICK s \in [1 .. 1 -> Nat] : s[1] = 0
  <2> WITNESS [k \in 1 .. 1 |-> 0] \in [1 .. 1 -> Nat]
  <2> QED OBVIOUS
<1>2. /\ requests = <<>> /\ issued = <<>> /\ handled = <<>> /\ package = <<>>
      /\ Len(<<>>) = 0 /\ 1 .. 0 = {} /\ 1 .. 0 + 1 = 1 .. 1
      /\ misread = {} /\ skipped = {} /\ DOMAIN <<>> = {}
  BY DEF Init
<1>3. Ordered(s)
  BY <1>1, <1>2 DEF Ordered
<1>4. Placed
  BY <1>2, <1>3, ToSetEmpty DEF Placed, Left
<1>5. InvokedInOrder
  BY <1>2 DEF InvokedInOrder
<1> QED BY <1>2, <1>4, <1>5 DEF OrderInv

\* While the peer takes nothing, calls may be issued and writes be mixed.
LEMMA NothingTaken ==
  ASSUME TypeOK, OrderInv, TypeOK', UNCHANGED <<handled, skipped>>,
         Len(issued) <= Len(issued'), \A i \in 1 .. Len(issued) : issued'[i] = issued[i],
         "requests" \in misread => "requests" \in misread',
         "requests" \in mixed => "requests" \in mixed',
         "requests" \in misread' => "requests" \in misread \/ "requests" \in mixed',
         "requests" \notin misread' => Placed'
  PROVE  OrderInv'
<1>1. "requests" \in misread' \ mixed' => \E j \in 1 .. Len(handled') : handled'[j] \in Left'
  BY DEF OrderInv, Left
<1>2. InvokedInOrder'
  <2> SUFFICES ASSUME "requests" \notin mixed', NEW i \in DOMAIN handled,
                      \A j \in 1 .. i - 1 : handled[j] \notin Left
               PROVE  i \in DOMAIN issued' /\ handled[i] = issued'[i]
    BY DEF InvokedInOrder, Left
  <2>1. i \in DOMAIN issued /\ handled[i] = issued[i]
    BY DEF OrderInv, InvokedInOrder
  <2>2. /\ DOMAIN issued = 1 .. Len(issued) /\ DOMAIN issued' = 1 .. Len(issued')
        /\ Len(issued) \in Nat /\ Len(issued') \in Nat
    <3>1. issued \in Seq(Call) /\ issued' \in Seq(Call)
      BY DEF TypeOK
    <3> QED BY <3>1
  <2> QED BY <2>1, <2>2
<1> QED BY <1>1, <1>2 DEF OrderInv

\* Mixing marks the stream.
LEMMA RequestsMixed ==
  ASSUME TypeOK, Write("requests", requests, misread)
  PROVE  /\ misread \subseteq misread' /\ mixed \subseteq mixed'
         /\ misread' \subseteq misread \cup mixed'
<1>1. PICK m \in SUBSET {"requests"} : mixed' = mixed \cup m /\ misread' = misread \cup m
  <2>1. misread \in SUBSET Stream /\ "requests" \in Stream
    BY DEF TypeOK, Stream
  <2> QED BY <2>1, WriteMixes
<1> QED BY <1>1

LEMMA NextOrder == TypeOK /\ OrderInv /\ [Next]_vars => OrderInv'
<1> SUFFICES ASSUME TypeOK, OrderInv, [Next]_vars PROVE OrderInv'
  OBVIOUS
<1>t. TypeOK' /\ issued \in Seq(Call) /\ handled \in Seq(Call) /\ handled' \in Seq(Call)
      /\ issued' \in Seq(Call)
  BY NextTypeOK DEF TypeOK
<1>1. ASSUME UNCHANGED <<issued, handled, skipped, requests, package, mixed>>,
             "requests" \in misread <=> "requests" \in misread'
      PROVE  OrderInv'
  <2>1. Placed => Placed'
    BY <1>1 DEF Placed, Ordered, Left
  <2>2. InvokedInOrder'
    BY <1>1 DEF OrderInv, InvokedInOrder, Left
  <2> QED BY <1>1, <2>1, <2>2 DEF OrderInv, Left
<1>2. ASSUME NEW x \in between, Wait(x) PROVE OrderInv'
  BY <1>1, <1>2 DEF Wait, peer, socket
<1>3. CASE BeginBatch \/ Bind \/ Lose
  BY <1>1, <1>3 DEF BeginBatch, Bind, Lose, calls, peer, socket
<1>4. CASE HandleResponses
  <2>1. /\ UNCHANGED <<issued, handled, skipped, requests, package, mixed>>
        /\ \E n : misread' = misread \cup (IF n THEN {"responses"} ELSE {})
    BY <1>4, Taking DEF peer, socket
  <2> QED BY <1>1, <2>1
<1>5. ASSUME NEW c \in Call, Send(c) PROVE OrderInv'
  <2>1. /\ UNCHANGED <<handled, skipped>> /\ issued' = Append(issued, c)
        /\ \/ UNCHANGED <<mixed, misread>>
           \/ Write("requests", requests, misread)
    BY <1>5 DEF Send, EndSend, peer
  <2>2. Len(issued) <= Len(issued') /\ \A i \in 1 .. Len(issued) : issued'[i] = issued[i]
    BY <1>t, <2>1, AppendProperties
  <2>3. /\ misread \subseteq misread' /\ mixed \subseteq mixed'
        /\ misread' \subseteq misread \cup mixed'
    BY <2>1, RequestsMixed
  <2>4. "requests" \notin misread' => Placed'
    BY <1>5, <2>3, SendKeepsPlaced DEF OrderInv
  <2> QED BY <1>t, <2>1, <2>2, <2>3, <2>4, NothingTaken
<1>6. CASE EndBatch
  <2>1. UNCHANGED <<handled, skipped, issued>> /\ Write("requests", requests, misread)
    BY <1>6 DEF EndBatch, EndSend, peer
  <2>2. Len(issued) <= Len(issued') /\ \A i \in 1 .. Len(issued) : issued'[i] = issued[i]
    BY <1>t, <2>1
  <2>3. /\ misread \subseteq misread' /\ mixed \subseteq mixed'
        /\ misread' \subseteq misread \cup mixed'
    BY <2>1, RequestsMixed
  <2>4. "requests" \notin misread' => Placed'
    BY <1>6, <2>3, EndBatchKeepsPlaced DEF OrderInv
  <2> QED BY <1>t, <2>1, <2>2, <2>3, <2>4, NothingTaken
<1>7. CASE HandleRequests
  <2>1. Placed
    BY <1>7 DEF HandleRequests, OrderInv
  <2>2. /\ \A i \in 1 .. Len(handled') : i <= Len(issued') /\ handled'[i] = issued'[i]
        /\ "requests" \notin misread' => Placed'
        /\ "requests" \in misread' => \E j \in 1 .. Len(handled') : handled'[j] \in Left'
    BY <1>7, <2>1, HandleRequestsKeepsOrder
  <2>3. InvokedInOrder'
    <3>1. DOMAIN handled' = 1 .. Len(handled') /\ DOMAIN issued' = 1 .. Len(issued')
          /\ Len(handled') \in Nat /\ Len(issued') \in Nat
      BY <1>t
    <3>2. \A i \in DOMAIN handled' : i \in DOMAIN issued' /\ handled'[i] = issued'[i]
      BY <2>2, <3>1
    <3> QED BY <3>2 DEF InvokedInOrder
  <2> QED BY <2>2, <2>3 DEF OrderInv
<1>8. CASE ReadGarbage
  <2>1. CASE GarbageResponse
    BY <1>1, <2>1 DEF GarbageResponse, peer, socket
  <2>2. CASE GarbageRequest
    <3>1. PICK x \in Stray :
             /\ handled' = Append(handled, x.call)
             /\ \/ UNCHANGED <<mixed, misread>>
                \/ Write("responses", responses, misread)
      BY <2>2 DEF GarbageRequest
    <3>2. /\ "requests" \in misread
          /\ UNCHANGED <<issued, skipped>>
      BY <2>2 DEF GarbageRequest, calls
    <3>3. /\ Len(handled') = Len(handled) + 1 /\ Len(handled) \in Nat
          /\ \A i \in 1 .. Len(handled) : handled'[i] = handled[i]
      <4>1. x.call \in Call
        BY RpcSessionAssumption
      <4> QED BY <1>t, <3>1, <4>1, AppendProperties
    <3>4. \E m \in SUBSET {"responses"} : mixed' = mixed \cup m /\ misread' = misread \cup m
      <4>1. misread \in SUBSET Stream /\ "responses" \in Stream
        BY DEF TypeOK, Stream
      <4>2. CASE UNCHANGED <<mixed, misread>>
        <5>1. mixed' = mixed \cup {} /\ misread' = misread \cup {}
          BY <4>2
        <5> QED BY <5>1
      <4>3. CASE Write("responses", responses, misread)
        BY <4>1, <4>3, WriteMixes
      <4> QED BY <3>1, <4>2, <4>3
    <3>5. ("requests" \in mixed' <=> "requests" \in mixed) /\ "requests" \in misread'
      BY <3>2, <3>4
    <3>6. ASSUME "requests" \notin mixed
          PROVE  \E j \in 1 .. Len(handled) : handled'[j] \in Left'
      <4>1. PICK j \in 1 .. Len(handled) : handled[j] \in Left
        BY <3>2, <3>6 DEF OrderInv
      <4> QED BY <3>2, <3>3, <4>1 DEF Left
    <3>7. InvokedInOrder'
      <4> SUFFICES ASSUME "requests" \notin mixed, NEW i \in DOMAIN handled',
                          \A j \in 1 .. i - 1 : handled'[j] \notin Left'
                   PROVE  i \in DOMAIN issued' /\ handled'[i] = issued'[i]
        BY <3>5 DEF InvokedInOrder
      <4>1. DOMAIN handled = 1 .. Len(handled) /\ DOMAIN handled' = 1 .. Len(handled')
        BY <1>t
      <4>2. PICK j \in 1 .. Len(handled) : handled'[j] \in Left'
        BY <3>6
      <4>3. i \in 1 .. Len(handled)
        BY <3>3, <4>1, <4>2
      <4>4. \A k \in 1 .. i - 1 : handled[k] \notin Left
        <5> SUFFICES ASSUME NEW k \in 1 .. i - 1 PROVE handled[k] \notin Left
          OBVIOUS
        <5>1. k \in 1 .. Len(handled)
          BY <3>3, <4>3
        <5> QED BY <3>2, <3>3, <5>1 DEF Left
      <4> QED BY <3>2, <3>3, <4>1, <4>3, <4>4 DEF OrderInv, InvokedInOrder
    <3>8. "requests" \in misread' \ mixed' => \E j \in 1 .. Len(handled') : handled'[j] \in Left'
      BY <3>3, <3>5, <3>6
    <3> QED BY <3>5, <3>7, <3>8 DEF OrderInv
  <2> QED BY <1>8, <2>1, <2>2 DEF ReadGarbage
<1>9. CASE UNCHANGED vars
  BY <1>1, <1>9 DEF vars, calls, peer, socket
<1> QED BY <1>2, <1>3, <1>4, <1>5, <1>6, <1>7, <1>8, <1>9 DEF Next, Io

LEMMA OrderInvariance == Spec => [](TypeOK /\ OrderInv)
BY InitTypeOK, NextTypeOK, InitOrder, NextOrder, PTL DEF Spec

\* InvokedInOrder: unless two writes of requests were mixed, the peer takes the
\* calls in the order of request(), each once, one by one or in batches, up to and
\* with the first whose arguments it leaves in its buffer; what it takes behind
\* that one is not spoken of.
THEOREM CallsInOrder == Spec => []InvokedInOrder
<1>1. OrderInv => InvokedInOrder
  BY DEF OrderInv
<1> QED BY <1>1, OrderInvariance, PTL

------------------------------------------------------------------------------
(* What the ids of packets stand for.                                      *)

\* Packages of responses have calls that were taken, each in one place.
AnswersInv ==
  /\ \A k \in 1 .. Len(responses) : \A i \in 1 .. Len(responses[k]) :
       responses[k][i] # None => responses[k][i].call \in ToSet(handled) \ Void
  /\ \A k, l \in 1 .. Len(responses) :
       \A i \in 1 .. Len(responses[k]), j \in 1 .. Len(responses[l]) :
         /\ responses[k][i] # None /\ responses[l][j] # None
         /\ responses[k][i].call = responses[l][j].call
         => k = l /\ i = j

LEMMA AnswersStay ==
  ASSUME AnswersInv, responses' = responses, ToSet(handled) \subseteq ToSet(handled')
  PROVE  AnswersInv'
<1> DEFINE Called(r, S) ==
             \A k \in 1 .. Len(r) : \A i \in 1 .. Len(r[k]) : r[k][i] # None => r[k][i].call \in S \ Void
           Apart(r) ==
             \A k, l \in 1 .. Len(r) :
               \A i \in 1 .. Len(r[k]), j \in 1 .. Len(r[l]) :
                 /\ r[k][i] # None /\ r[l][j] # None
                 /\ r[k][i].call = r[l][j].call
                 => k = l /\ i = j
<1>1. Called(responses, ToSet(handled')) /\ Apart(responses)
  <2>1. Apart(responses)
    BY DEF AnswersInv
  <2>2. ASSUME NEW k \in 1 .. Len(responses), NEW i \in 1 .. Len(responses[k]), responses[k][i] # None
        PROVE  responses[k][i].call \in ToSet(handled') \ Void
    BY <2>2 DEF AnswersInv
  <2> QED BY <2>1, <2>2
<1>2. Called(responses', ToSet(handled')) /\ Apart(responses') => AnswersInv'
  BY DEF AnswersInv
<1> HIDE DEF Called, Apart
<1>3. Called(responses', ToSet(handled')) /\ Apart(responses')
  BY <1>1
<1> QED BY <1>2, <1>3

\* The id of a packet that is to be answered is the id its call is waited for
\* with, or will be as soon as the program waits.
Expected(x) == waitMap[x.oid] = x.call \/ x \in between

WaitInv ==
  /\ \A x \in Travelling : x.call \notin Void => Expected(x)
  /\ \A x \in between : /\ waitMap[x.oid] = None
                       /\ promise[x.call] = "none"
                       /\ x.call \in ToSet(issued)
  /\ \A x, y \in between : x = y
  /\ \A c \in Call : c \notin ToSet(issued) => promise[c] = "none"
  /\ \A c \in Call : promise[c] = "pending" <=> \E o \in Oid : waitMap[o] = c
  /\ \A o, q \in Oid : waitMap[o] = waitMap[q] /\ waitMap[o] # None => o = q

IdInv == AnswersInv /\ WaitInv /\ OwnAnswer /\ NoBrokenPromise

Undisturbed == misread = {} /\ ~doubled

\* A reader loses its place for one of four reasons.
CauseInv == misread # {} => mixed # {} \/ Left # {} \/ overtaken \/ doubled

IInv == TypeOK /\ OrderInv /\ CauseInv /\ (Undisturbed => IdInv)

\* What is there to rely on while nothing disturbs the session.
Calm == TypeOK /\ Placed /\ IdInv

\* Travelling, of packages in given places.
InFlight(r, s, p) == (UNION {ToSet(q) : q \in ToSet(r) \cup ToSet(s) \cup {p}}) \ {None}

Among(r, x) == \E k \in 1 .. Len(r) : \E i \in 1 .. Len(r[k]) : r[k][i] = x
In(p, x) == \E i \in 1 .. Len(p) : p[i] = x

LEMMA InFlightIs ==
  ASSUME NEW r \in Seq(Seq(Packet)), NEW s \in Seq(Seq(Packet \cup {None})), NEW p \in Seq(Packet)
  PROVE  /\ \A x \in InFlight(r, s, p) : x \in Packet /\ (Among(r, x) \/ Among(s, x) \/ In(p, x))
         /\ \A x : x # None /\ (Among(r, x) \/ Among(s, x) \/ In(p, x)) => x \in InFlight(r, s, p)
<1>1. ASSUME NEW S, NEW q \in Seq(S), NEW x
      PROVE  x \in ToSet(q) <=> In(q, x)
  BY DEF ToSet, In
<1>2. ASSUME NEW S, NEW q \in Seq(Seq(S)), NEW x
      PROVE  (\E y \in ToSet(q) : x \in ToSet(y)) <=> Among(q, x)
  <2>1. \A k \in 1 .. Len(q) : q[k] \in Seq(S)
    OBVIOUS
  <2>2. \A y : y \in ToSet(q) <=> \E k \in 1 .. Len(q) : y = q[k]
    BY DEF ToSet
  <2>3. \A k \in 1 .. Len(q) : x \in ToSet(q[k]) <=> \E i \in 1 .. Len(q[k]) : q[k][i] = x
    BY <2>1, <1>1 DEF In
  <2> QED BY <2>2, <2>3 DEF Among
<1>3. \A x : x \in InFlight(r, s, p) <=>
               /\ x # None
               /\ \/ \E y \in ToSet(r) : x \in ToSet(y)
                  \/ \E y \in ToSet(s) : x \in ToSet(y)
                  \/ x \in ToSet(p)
  BY DEF InFlight
<1>4. \A x : x \in InFlight(r, s, p) <=> x # None /\ (Among(r, x) \/ Among(s, x) \/ In(p, x))
  BY <1>1, <1>2, <1>3
<1>5. ASSUME NEW x \in InFlight(r, s, p) PROVE x \in Packet
  <2>1. CASE Among(r, x)
    BY <2>1 DEF Among
  <2>2. CASE Among(s, x)
    BY <1>4, <2>2 DEF Among
  <2>3. CASE In(p, x)
    BY <2>3 DEF In
  <2> QED BY <1>4, <2>1, <2>2, <2>3
<1> QED BY <1>4, <1>5

LEMMA AmongAppend ==
  ASSUME NEW S, NEW r \in Seq(Seq(S)), NEW p \in Seq(S), NEW x, Among(Append(r, p), x)
  PROVE  Among(r, x) \/ In(p, x)
<1> DEFINE t == Append(r, p)
<1>1. Len(t) = Len(r) + 1 /\ t[Len(r) + 1] = p /\ Len(r) \in Nat /\ \A k \in 1 .. Len(r) : t[k] = r[k]
  BY AppendProperties
<1>2. PICK k \in 1 .. Len(t) : \E i \in 1 .. Len(t[k]) : t[k][i] = x
  BY DEF Among
<1> HIDE DEF t
<1>3. CASE k \in 1 .. Len(r)
  <2>1. t[k] = r[k]
    BY <1>1, <1>3
  <2>2. \E i \in 1 .. Len(r[k]) : r[k][i] = x
    BY <1>2, <2>1
  <2> QED BY <1>3, <2>2 DEF Among
<1>4. CASE k = Len(r) + 1
  <2>1. t[k] = p
    BY <1>1, <1>4
  <2> QED BY <1>2, <2>1 DEF In
<1>5. k \in 1 .. Len(r) \/ k = Len(r) + 1
  BY <1>1
<1> QED BY <1>3, <1>4, <1>5

LEMMA AmongTail ==
  ASSUME NEW S, NEW r \in Seq(S), r # <<>>, NEW x, Among(Tail(r), x)
  PROVE  \E k \in 2 .. Len(r) : \E i \in 1 .. Len(r[k]) : r[k][i] = x
<1> DEFINE t == Tail(r)
<1>1. /\ Len(t) = Len(r) - 1 /\ Len(r) \in Nat
      /\ \A k \in 1 .. Len(r) - 1 : t[k] = r[k + 1]
  OBVIOUS
<1>2. PICK k \in 1 .. Len(t) : \E i \in 1 .. Len(t[k]) : t[k][i] = x
  BY DEF Among
<1> HIDE DEF t
<1>3. k + 1 \in 2 .. Len(r) /\ t[k] = r[k + 1]
  BY <1>1
<1> QED BY <1>2, <1>3

\* A call on its way to the peer was not taken yet.
LEMMA NotTaken ==
  ASSUME TypeOK, Placed
  PROVE  /\ \A k \in 1 .. Len(requests) : \A i \in 1 .. Len(requests[k]) :
               requests[k][i].call \notin ToSet(handled)
         /\ \A i \in 1 .. Len(package) : package[i].call \notin ToSet(handled)
         /\ requests # <<>> =>
              \A i, j \in 1 .. Len(requests[1]) : requests[1][i].call = requests[1][j].call => i = j
<1> DEFINE m == Len(requests)
<1>1. PICK start \in [1 .. m + 1 -> Nat] : Ordered(start)
  BY DEF Placed
<1>2. /\ m \in Nat /\ Len(issued) \in Nat /\ Len(handled) \in Nat /\ Len(package) \in Nat
      /\ \A k \in 1 .. m : Len(requests[k]) \in Nat
      /\ issued \in Seq(Call) /\ handled \in Seq(Call)
  BY DEF TypeOK
<1>3. /\ \A k \in 1 .. m + 1 : start[k] \in Nat
      /\ start[1] = Len(handled)
      /\ \A k, l \in 1 .. m + 1 : k <= l => start[k] <= start[l]
      /\ \A k \in 1 .. m : start[k + 1] = start[k] + Len(requests[k])
      /\ \A k \in 1 .. m : \A i \in 1 .. Len(requests[k]) :
            requests[k][i].call = issued[start[k] + i]
      /\ Len(issued) = start[m + 1] + Len(package)
      /\ \A i \in 1 .. Len(package) : package[i].call = issued[start[m + 1] + i]
  BY <1>1 DEF Ordered
<1> HIDE DEF m
<1>4. \A k \in 1 .. m + 1 : start[k] >= Len(handled) /\ start[k] <= start[m + 1]
  <2> SUFFICES ASSUME NEW k \in 1 .. m + 1
               PROVE  start[k] >= Len(handled) /\ start[k] <= start[m + 1]
    OBVIOUS
  <2>1. 1 \in 1 .. m + 1 /\ m + 1 \in 1 .. m + 1 /\ 1 <= k /\ k <= m + 1
    BY <1>2
  <2>2. start[1] <= start[k] /\ start[k] <= start[m + 1] /\ start[1] \in Nat /\ start[k] \in Nat
    BY <1>3, <2>1
  <2> QED BY <1>2, <1>3, <2>2
<1>5. ASSUME NEW n \in 1 .. Len(issued), n > Len(handled) PROVE issued[n] \notin ToSet(handled)
  <2> SUFFICES ASSUME issued[n] \in ToSet(handled) PROVE FALSE
    OBVIOUS
  <2>1. PICK i \in 1 .. Len(handled) : handled[i] = issued[n]
    BY <1>2, ToSetAt
  <2>2. i \in 1 .. Len(issued) /\ issued[i] = issued[n] /\ i # n
    BY <1>2, <1>5, <2>1 DEF Placed
  <2>3. DOMAIN issued = 1 .. Len(issued)
    BY <1>2
  <2> QED BY <2>2, <2>3 DEF Placed, IsInjective
<1>6. ASSUME NEW k \in 1 .. m, NEW i \in 1 .. Len(requests[k])
      PROVE  start[k] + i \in 1 .. Len(issued) /\ start[k] + i > Len(handled)
  <2> DEFINE a == start[k]
             b == start[m + 1]
             n == Len(requests[k])
  <2>1. k \in 1 .. m + 1 /\ k + 1 \in 1 .. m + 1 /\ m + 1 \in 1 .. m + 1
    BY <1>2
  <2>2. a \in Nat /\ b \in Nat /\ n \in Nat /\ a >= Len(handled) /\ a + n <= b /\ b <= Len(issued)
    <3>1. start[k + 1] = a + n /\ start[k + 1] <= b
      BY <1>3, <1>4, <2>1
    <3>2. a \in Nat /\ b \in Nat /\ n \in Nat /\ a >= Len(handled)
      BY <1>2, <1>3, <1>4, <2>1
    <3>3. b <= Len(issued)
      BY <1>2, <1>3, <3>2
    <3> QED BY <3>1, <3>2, <3>3
  <2> HIDE DEF a, b
  <2>3. a + i \in 1 .. Len(issued) /\ a + i > Len(handled)
    BY <1>2, <2>2
  <2> QED BY <2>3 DEF a
<1>7. ASSUME NEW k \in 1 .. m, NEW i \in 1 .. Len(requests[k])
      PROVE  requests[k][i].call \notin ToSet(handled)
  BY <1>3, <1>5, <1>6
<1>8. ASSUME NEW i \in 1 .. Len(package) PROVE package[i].call \notin ToSet(handled)
  <2> DEFINE b == start[m + 1]
  <2>1. b \in Nat /\ b >= Len(handled) /\ Len(issued) = b + Len(package)
        /\ package[i].call = issued[b + i]
    <3>1. m + 1 \in 1 .. m + 1
      BY <1>2
    <3> QED BY <1>3, <1>4, <3>1
  <2> HIDE DEF b
  <2>2. b + i \in 1 .. Len(issued) /\ b + i > Len(handled)
    BY <1>2, <2>1
  <2> QED BY <1>5, <2>1, <2>2
<1>9. ASSUME m >= 1, NEW i \in 1 .. Len(requests[1]), NEW j \in 1 .. Len(requests[1]),
             requests[1][i].call = requests[1][j].call
      PROVE  i = j
  <2>1. 1 \in 1 .. m /\ start[1] \in Nat /\ DOMAIN issued = 1 .. Len(issued)
    <3>1. 1 \in 1 .. m /\ 1 \in 1 .. m + 1
      BY <1>2, <1>9
    <3>2. DOMAIN issued = 1 .. Len(issued)
      BY <1>2
    <3> QED BY <1>3, <3>1, <3>2
  <2>2. issued[start[1] + i] = issued[start[1] + j]
    BY <1>3, <1>9, <2>1
  <2>3. start[1] + i = start[1] + j
    BY <1>6, <2>1, <2>2 DEF Placed, IsInjective
  <2> QED BY <2>1, <2>3
<1>10. requests # <<>> => m >= 1
  BY <1>2 DEF m, TypeOK
<1> QED BY <1>7, <1>8, <1>9, <1>10 DEF m

------------------------------------------------------------------------------
(* IdInv is an invariant, while nothing disturbs the session and the       *)
(* program has no more calls outstanding than there are operation ids.     *)

\* With fewer calls waiting than there are ids, one is free.
LEMMA SomeOidFree ==
  ASSUME MaxWaiting <= OidCount, TypeOK, WaitInv, Cardinality(Waiting) < MaxWaiting
  PROVE  \E o \in Oid : waitMap[o] = None
<1> SUFFICES ASSUME \A o \in Oid : waitMap[o] # None PROVE FALSE
  OBVIOUS
<1> DEFINE holders == {waitMap[o] : o \in Oid}
<1>1. IsFiniteSet(Oid) /\ Cardinality(Oid) = OidCount /\ OidCount \in Nat
  <2>1. OidCount \in Nat /\ OidCount > 0
    BY RpcSessionAssumption
  <2>2. 0 \in Int /\ OidCount - 1 \in Int /\ ~(0 > OidCount - 1)
    BY <2>1
  <2> QED BY <2>1, <2>2, FS_Interval DEF Oid
<1>2. Waiting \subseteq holders
  BY DEF Waiting, WaitInv
<1>3. IsFiniteSet(holders)
  <2>1. waitMap \in Surjection(Oid, holders)
    BY DEF TypeOK, Surjection
  <2> HIDE DEF holders
  <2> QED BY <1>1, <2>1, FS_Surjection
<1>4. IsFiniteSet(Waiting)
  BY <1>2, <1>3, FS_Subset
<1>5. waitMap \in Injection(Oid, Waiting)
  <2>1. \A o \in Oid : waitMap[o] \in Call
    BY DEF TypeOK
  <2>2. \A o \in Oid : waitMap[o] \in Waiting
    BY <2>1 DEF WaitInv, Waiting
  <2>3. waitMap \in [Oid -> Waiting]
    BY <2>2 DEF TypeOK
  <2>4. \A o, q \in Oid : waitMap[o] = waitMap[q] => o = q
    BY DEF WaitInv
  <2> QED BY <2>3, <2>4 DEF Injection, IsInjective
<1>6. Cardinality(Oid) <= Cardinality(Waiting)
  BY <1>4, <1>5, FS_Injection DEF ExistsInjection
<1>7. Cardinality(Waiting) \in Nat
  BY <1>4, FS_CardinalityType
<1> QED BY <1>1, <1>6, <1>7, RpcSessionAssumption

LEMMA InitIds == Init => IdInv
<1> SUFFICES ASSUME Init PROVE IdInv
  OBVIOUS
<1>1. requests = <<>> /\ responses = <<>> /\ package = <<>>
  BY DEF Init
<1>2. AnswersInv
  BY <1>1 DEF AnswersInv
<1>3. Travelling = {}
  BY <1>1, ToSetEmpty DEF Travelling
<1>4. \A o \in Oid : waitMap[o] = None
  BY DEF Init
<1>5. WaitInv
  <2>1. \A c \in Call : promise[c] = "none"
    BY DEF Init
  <2>2. ASSUME NEW o \in Oid, NEW q \in Oid, waitMap[o] # None PROVE FALSE
    BY <1>4, <2>2
  <2>3. \A c \in Call : c # None
    BY RpcSessionAssumption
  <2>4. between = {}
    BY DEF Init
  <2> QED BY <1>3, <1>4, <2>1, <2>2, <2>3, <2>4 DEF WaitInv
<1>6. OwnAnswer /\ NoBrokenPromise
  BY DEF Init, OwnAnswer, NoBrokenPromise
<1> QED BY <1>2, <1>5, <1>6 DEF IdInv

LEMMA SendKeepsIds ==
  ASSUME MaxWaiting <= OidCount, Calm, NEW c \in Call, Send(c), ~doubled'
  PROVE  IdInv'
<1> USE DEF Calm, IdInv
<1> DEFINE x == [call |-> c, oid |-> FreeOid]
           p == Append(package, x)
<1>1. /\ c \in Void \/ (between = {} /\ Cardinality(Waiting) < MaxWaiting)
      /\ c \notin ToSet(issued)
      /\ issued' = Append(issued, c)
      /\ \/ package' = p /\ requests' = requests
         \/ package' = <<>> /\ requests' = Append(requests, p)
      /\ between' = IF c \in Void THEN between ELSE between \cup {x}
      /\ UNCHANGED <<waitMap, promise, answer, responses, handled>>
  <2>1. /\ c \in Void \/ Cardinality(Outstanding) < MaxWaiting
        /\ c \in Void \/ between = {}
    BY DEF Send
  <2>2. between = {} => Outstanding = Waiting
    BY DEF Outstanding
  <2>3. c \in Void \/ (between = {} /\ Cardinality(Waiting) < MaxWaiting)
    BY ONLY <2>1, <2>2
  <2>4. /\ c \notin ToSet(issued)
        /\ issued' = Append(issued, c)
        /\ between' = IF c \in Void THEN between ELSE between \cup {x}
        /\ UNCHANGED <<waitMap, promise, answer, responses, handled>>
    BY ONLY Send(c) DEF Send, peer
  <2>5. \/ package' = p /\ requests' = requests
        \/ package' = <<>> /\ requests' = Append(requests, p)
    BY ONLY Send(c) DEF Send, EndSend
  <2> QED BY ONLY <2>3, <2>4, <2>5
<1>2. x \in Packet /\ x.call = c /\ x.oid = FreeOid
  BY FreeOidIs DEF Packet
<1> HIDE DEF x
<1>3. /\ requests \in Seq(Seq(Packet)) /\ responses \in Seq(Seq(Packet \cup {None}))
      /\ package \in Seq(Packet) /\ p \in Seq(Packet)
      /\ requests' \in Seq(Seq(Packet)) /\ package' \in Seq(Packet)
      /\ FreeOid \in Oid
  BY <1>2, SendTypeOK, FreeOidIs DEF TypeOK
<1>4. ASSUME NEW y, In(p, y) PROVE In(package, y) \/ y = x
  BY <1>2, <1>3, <1>4, AppendProperties DEF In
<1> HIDE DEF p
<1>5. ASSUME NEW y \in Travelling' PROVE y \in Travelling \/ y = x
  <2>1. y \in InFlight(requests', responses, package')
    BY <1>1, <1>5 DEF Travelling, InFlight
  <2>2. /\ y \in Packet /\ y # None
        /\ Among(requests', y) \/ Among(responses, y) \/ In(package', y)
    <3>1. y # None
      BY <2>1 DEF InFlight
    <3> QED BY <1>3, <2>1, <3>1, InFlightIs
  <2>3. Among(requests', y) => Among(requests, y) \/ In(package, y) \/ y = x
    BY <1>1, <1>3, <1>4, AmongAppend
  <2>4. In(package', y) => In(package, y) \/ y = x
    <3>1. ~In(<<>>, y)
      BY DEF In
    <3> QED BY <1>1, <1>4, <3>1
  <2>5. y = x \/ y \in InFlight(requests, responses, package)
    BY <1>3, <2>2, <2>3, <2>4, InFlightIs
  <2> QED BY <2>5 DEF Travelling, InFlight
<1>6. /\ c \in Void => between' = between
      /\ c \notin Void => between' = {x} /\ waitMap[FreeOid] = None
  <2>1. c \notin Void => \E o \in Oid : waitMap[o] = None
    BY <1>1, SomeOidFree
  <2> QED BY <1>1, <2>1, FreeOidIs
<1>7. ToSet(issued') = ToSet(issued) \cup {c}
  BY <1>1, ToSetAppend DEF TypeOK
<1>8. promise[c] = "none"
  BY <1>1 DEF WaitInv
<1>9. WaitInv'
  <2>1. ASSUME NEW y \in Travelling', y.call \notin Void PROVE Expected(y)'
    <3>1. CASE y \in Travelling
      <4>1. y.call \in Call
        <5>1. y \in InFlight(requests, responses, package)
          BY <3>1 DEF Travelling, InFlight
        <5> QED BY <1>3, <5>1, InFlightIs DEF Packet
      <4>2. waitMap[y.oid] = y.call \/ y \in between
        BY <1>1, <2>1, <3>1, <4>1 DEF WaitInv, Expected
      <4>3. between \subseteq between'
        BY <1>1
      <4> QED BY <1>1, <4>2, <4>3 DEF Expected
    <3>2. CASE y = x
      BY <1>1, <1>2, <1>6, <2>1, <3>2 DEF Expected
    <3> QED BY <1>5, <2>1, <3>1, <3>2
  <2>2. ASSUME NEW y \in between'
        PROVE  waitMap[y.oid] = None /\ promise[y.call] = "none" /\ y.call \in ToSet(issued')
    <3>1. CASE y \in between
      BY <1>7, <3>1 DEF WaitInv
    <3>2. CASE y = x /\ c \notin Void
      BY <1>2, <1>6, <1>7, <1>8, <3>2
    <3> QED BY <1>1, <3>1, <3>2
  <2>4. \A y, z \in between' : y = z
    BY <1>6 DEF WaitInv
  <2>3. \A d \in Call : d \notin ToSet(issued') => promise[d] = "none"
    BY <1>7 DEF WaitInv
  <2> QED BY <1>1, <2>1, <2>2, <2>3, <2>4 DEF WaitInv
<1>10. AnswersInv'
  <2>1. responses' = responses /\ handled' = handled /\ AnswersInv
    BY <1>1
  <2> QED BY <2>1, AnswersStay
<1>11. OwnAnswer' /\ NoBrokenPromise'
  <2>1. answer' = answer /\ promise' = promise /\ OwnAnswer /\ NoBrokenPromise
    BY <1>1
  <2> QED BY <2>1 DEF OwnAnswer, NoBrokenPromise
<1> QED BY <1>9, <1>10, <1>11

LEMMA WaitKeepsIds ==
  ASSUME Calm, NEW x \in between, Wait(x)
  PROVE  IdInv'
<1> USE DEF Calm, IdInv
<1>1. /\ x.call \in Call /\ x.oid \in Oid /\ waitMap[x.oid] = None
      /\ promise[x.call] = "none" /\ x.call \in ToSet(issued)
      /\ \A y \in between : y = x
  <2>1. x \in [call : Call \ Void, oid : Oid]
    BY DEF TypeOK
  <2> QED BY <2>1 DEF WaitInv
<1>2. /\ waitMap' = [waitMap EXCEPT ![x.oid] = x.call]
      /\ promise' = [promise EXCEPT ![x.call] = "pending"]
      /\ between' = {}
      /\ UNCHANGED <<package, answer, issued, requests, responses, handled>>
  BY <1>1 DEF Wait, peer
<1>3. /\ \A o \in Oid : waitMap'[o] = IF o = x.oid THEN x.call ELSE waitMap[o]
      /\ \A c \in Call : promise'[c] = IF c = x.call THEN "pending" ELSE promise[c]
  BY <1>1, <1>2 DEF TypeOK
<1>4. \A o \in Oid : waitMap[o] # x.call
  BY <1>1 DEF WaitInv
<1>5. WaitInv'
  <2>1. ASSUME NEW y \in Travelling', y.call \notin Void PROVE Expected(y)'
    <3>1. y \in Travelling /\ Expected(y)
      BY <1>2, <2>1 DEF Travelling, WaitInv
    <3>2. y.oid \in Oid /\ y.call \in Call
      <4>1. y \in InFlight(requests, responses, package)
        BY <3>1 DEF Travelling, InFlight
      <4>2. y \in Packet
        BY <4>1, InFlightIs DEF TypeOK
      <4> QED BY <4>2 DEF Packet
    <3>3. waitMap'[y.oid] = y.call
      BY <1>1, <1>3, <3>1, <3>2, RpcSessionAssumption DEF Expected
    <3> QED BY <3>3 DEF Expected
  <2>2. \A c \in Call : c \notin ToSet(issued) => promise'[c] = "none"
    BY <1>1, <1>3 DEF WaitInv
  <2>3. ASSUME NEW c \in Call
        PROVE  promise'[c] = "pending" <=> \E o \in Oid : waitMap'[o] = c
    <3>1. CASE c = x.call
      BY <1>1, <1>3, <3>1
    <3>2. CASE c # x.call
      <4>1. promise[c] = "pending" <=> \E o \in Oid : waitMap[o] = c
        BY DEF WaitInv
      <4>2. c # None
        BY RpcSessionAssumption
      <4> QED BY <1>1, <1>3, <3>2, <4>1, <4>2
    <3> QED BY <3>1, <3>2
  <2>4. ASSUME NEW o \in Oid, NEW q \in Oid, waitMap'[o] = waitMap'[q], waitMap'[o] # None
        PROVE  o = q
    BY <1>1, <1>3, <1>4, <2>4 DEF WaitInv
  <2> QED BY <1>2, <2>1, <2>2, <2>3, <2>4 DEF WaitInv
<1>6. AnswersInv'
  BY <1>2 DEF AnswersInv
<1>7. OwnAnswer' /\ NoBrokenPromise'
  BY <1>2, <1>3 DEF OwnAnswer, NoBrokenPromise
<1> QED BY <1>5, <1>6, <1>7

LEMMA MoveKeepsWait ==
  ASSUME WaitInv, Travelling' \subseteq Travelling,
         UNCHANGED <<waitMap, between, promise, issued>>
  PROVE  WaitInv'
BY DEF WaitInv, Expected

LEMMA EndBatchKeepsIds ==
  ASSUME Calm, EndBatch
  PROVE  IdInv'
<1> USE DEF Calm, IdInv
<1>1. /\ requests' = Append(requests, package) /\ package' = <<>>
      /\ UNCHANGED <<waitMap, between, promise, answer, issued, responses, handled>>
  BY DEF EndBatch, EndSend, peer
<1>2. /\ requests \in Seq(Seq(Packet)) /\ responses \in Seq(Seq(Packet \cup {None}))
      /\ package \in Seq(Packet) /\ <<>> \in Seq(Packet) /\ requests' \in Seq(Seq(Packet))
  <2>1. requests \in Seq(Seq(Packet)) /\ package \in Seq(Packet)
    BY DEF TypeOK
  <2> QED BY <1>1, <2>1, AppendProperties DEF TypeOK
<1>3. ASSUME NEW y \in Travelling' PROVE y \in Travelling
  <2>1. y \in InFlight(requests', responses, <<>>)
    BY <1>1, <1>3 DEF Travelling, InFlight
  <2>2. y # None
    BY <2>1 DEF InFlight
  <2>3. ~In(<<>>, y)
    BY DEF In
  <2>4. Among(requests', y) \/ Among(responses, y)
    BY <1>2, <2>1, <2>3, InFlightIs
  <2>5. Among(requests', y) => Among(requests, y) \/ In(package, y)
    BY <1>1, <1>2, AmongAppend
  <2>6. y \in InFlight(requests, responses, package)
    BY <1>2, <2>2, <2>4, <2>5, InFlightIs
  <2> QED BY <2>6 DEF Travelling, InFlight
<1>4. WaitInv'
  BY <1>1, <1>3, MoveKeepsWait
<1>5. AnswersInv'
  <2>1. responses' = responses /\ handled' = handled /\ AnswersInv
    BY <1>1
  <2> QED BY <2>1, AnswersStay
<1>6. OwnAnswer' /\ NoBrokenPromise'
  BY <1>1 DEF OwnAnswer, NoBrokenPromise
<1> QED BY <1>4, <1>5, <1>6

LEMMA HandleRequestsKeepsIds ==
  ASSUME Calm, HandleRequests, misread' = {}
  PROVE  IdInv'
<1> USE DEF Calm, IdInv
<1> DEFINE p == requests[1]
           m == Len(responses)
<1>0. PICK n \in 0 .. Len(p) : Takes(p, n)
  <2>1. Head(requests) = requests[1]
    BY FirstRequest
  <2> QED BY <2>1, Replies
<1> DEFINE replies == [i \in 1 .. n |-> AnswerTo(p, i)]
           taken == [i \in 1 .. n |-> p[i].call]
<1>1. /\ p \in Seq(Packet)
      /\ replies \in Seq(Packet \cup {None})
      /\ taken \in Seq(Call)
      /\ requests' = Tail(requests) /\ requests # <<>>
      /\ handled' = handled \o taken
      /\ \/ responses' = Append(responses, replies)
         \/ responses' = responses
      /\ UNCHANGED <<waitMap, between, promise, answer, issued, package>>
  <2>1. Through(p, n) = n
    <3>1. ~(n < Len(p))
      BY <1>0 DEF Takes
    <3> QED BY <3>1 DEF Through
  <2> QED BY <1>0, <2>1 DEF Takes, calls
<1>2. /\ replies \in Seq(Packet \cup {None}) /\ Len(replies) = n
      /\ \A i \in 1 .. n : replies[i] # None => replies[i] = p[i] /\ p[i].call \notin Void
      /\ taken \in Seq(Call) /\ Len(taken) = n /\ \A i \in 1 .. n : taken[i] = p[i].call
      /\ n \in Nat /\ n <= Len(p) /\ Len(p) \in Nat
  BY <1>1 DEF AnswerTo
<1>3. /\ requests \in Seq(Seq(Packet)) /\ responses \in Seq(Seq(Packet \cup {None}))
      /\ package \in Seq(Packet) /\ requests' \in Seq(Seq(Packet))
      /\ m \in Nat /\ 1 \in 1 .. Len(requests) /\ handled \in Seq(Call)
  BY <1>1 DEF TypeOK
<1>4. \/ responses' = Append(responses, replies)
      \/ responses' = responses
  BY <1>1
<1>5. handled' = handled \o taken
  BY <1>1
<1> HIDE DEF replies, taken
<1>6. /\ ToSet(handled) \subseteq ToSet(handled')
      /\ \A i \in 1 .. n : p[i].call \in ToSet(handled')
  <2> DEFINE b == Len(handled)
  <2>1. /\ handled' \in Seq(Call) /\ Len(handled') = b + n /\ b \in Nat
        /\ \A i \in 1 .. b + n : handled'[i] = IF i <= b THEN handled[i] ELSE taken[i - b]
    BY <1>2, <1>3, <1>5, ConcatProperties
  <2>2. \A i \in 1 .. b + n : handled'[i] \in ToSet(handled')
    BY <2>1, ToSetAt
  <2>3. ASSUME NEW c \in ToSet(handled) PROVE c \in ToSet(handled')
    <3>1. PICK i \in 1 .. b : handled[i] = c
      BY <1>3, ToSetAt
    <3>2. i \in 1 .. b + n /\ i <= b
      BY <1>2, <2>1
    <3> QED BY <2>1, <2>2, <3>1, <3>2
  <2>4. ASSUME NEW i \in 1 .. n PROVE p[i].call \in ToSet(handled')
    <3>1. b + i \in 1 .. b + n /\ ~(b + i <= b) /\ (b + i) - b = i
      BY <1>2, <2>1
    <3> QED BY <1>2, <2>1, <2>2, <3>1
  <2> QED BY <2>3, <2>4
<1>7. ASSUME NEW y \in Travelling' PROVE y \in Travelling
  <2>1. responses' \in Seq(Seq(Packet \cup {None}))
    <3>1. Append(responses, replies) \in Seq(Seq(Packet \cup {None}))
      BY <1>2, <1>3, AppendProperties
    <3> QED BY <1>3, <1>4, <3>1
  <2>2. y \in InFlight(requests', responses', package)
    BY <1>1, <1>7 DEF Travelling, InFlight
  <2>3. y # None
    BY <2>2 DEF InFlight
  <2>4. Among(requests', y) \/ Among(responses', y) \/ In(package, y)
    BY <1>3, <2>1, <2>2, InFlightIs
  <2>5. Among(requests', y) => Among(requests, y)
    <3> SUFFICES ASSUME Among(requests', y) PROVE Among(requests, y)
      OBVIOUS
    <3>1. \E k \in 2 .. Len(requests) : \E i \in 1 .. Len(requests[k]) : requests[k][i] = y
      BY <1>1, <1>3, AmongTail
    <3> QED BY <3>1 DEF Among
  <2>6. Among(responses', y) => Among(responses, y) \/ Among(requests, y)
    <3>1. In(replies, y) => Among(requests, y)
      <4> SUFFICES ASSUME In(replies, y) PROVE Among(requests, y)
        OBVIOUS
      <4>1. PICK i \in 1 .. n : replies[i] = y
        BY <1>2 DEF In
      <4>2. y = p[i] /\ i \in 1 .. Len(p)
        BY <1>2, <2>3, <4>1
      <4> QED BY <1>3, <4>2 DEF Among
    <3>2. Among(responses', y) => Among(responses, y) \/ In(replies, y)
      BY <1>2, <1>3, <1>4, AmongAppend
    <3> QED BY <3>1, <3>2
  <2>7. y \in InFlight(requests, responses, package)
    BY <1>3, <2>3, <2>4, <2>5, <2>6, InFlightIs
  <2> QED BY <2>7 DEF Travelling, InFlight
<1>8. WaitInv'
  BY <1>1, <1>7, MoveKeepsWait
<1>9. AnswersInv'
  <2>1. CASE responses' = responses
    BY <1>6, <2>1, AnswersStay
  <2>2. CASE responses' = Append(responses, replies)
    <3>1. /\ Len(responses') = m + 1 /\ responses'[m + 1] = replies
          /\ \A k \in 1 .. m : responses'[k] = responses[k]
      BY <1>2, <1>3, <2>2, AppendProperties
    <3>2. ASSUME NEW k \in 1 .. m, NEW i \in 1 .. Len(responses'[k]), responses'[k][i] # None
          PROVE  responses'[k][i].call \in ToSet(handled) \ Void
      BY <3>1, <3>2 DEF AnswersInv
    <3>3. ASSUME NEW i \in 1 .. n, replies[i] # None
          PROVE  /\ replies[i].call \notin ToSet(handled)
                 /\ replies[i].call \in ToSet(handled') \ Void
      <4>1. replies[i] = p[i] /\ p[i].call \notin Void /\ i \in 1 .. Len(p)
        BY <1>2, <3>3
      <4> QED BY <1>3, <1>6, <4>1, NotTaken
    <3>4. ASSUME NEW k \in 1 .. Len(responses'), NEW i \in 1 .. Len(responses'[k]),
                 responses'[k][i] # None
          PROVE  responses'[k][i].call \in ToSet(handled') \ Void
      <4>1. CASE k \in 1 .. m
        BY <1>6, <3>2, <3>4, <4>1
      <4>2. CASE k = m + 1
        BY <1>2, <3>1, <3>3, <3>4, <4>2
      <4> QED BY <1>3, <3>1, <4>1, <4>2
    <3>5. ASSUME NEW k \in 1 .. Len(responses'), NEW l \in 1 .. Len(responses'),
                 NEW i \in 1 .. Len(responses'[k]), NEW j \in 1 .. Len(responses'[l]),
                 responses'[k][i] # None, responses'[l][j] # None,
                 responses'[k][i].call = responses'[l][j].call
          PROVE  k = l /\ i = j
      <4>1. CASE k \in 1 .. m /\ l \in 1 .. m
        <5>1. responses'[k] = responses[k] /\ responses'[l] = responses[l]
          BY <3>1, <4>1
        <5> HIDE DEF m, replies, taken, p
        <5>2. /\ i \in 1 .. Len(responses[k]) /\ j \in 1 .. Len(responses[l])
              /\ responses[k][i] # None /\ responses[l][j] # None
              /\ responses[k][i].call = responses[l][j].call
          BY <3>5, <5>1
        <5> QED BY <4>1, <5>2 DEF AnswersInv, m
      <4>2. CASE k = m + 1 /\ l \in 1 .. m
        BY <1>2, <3>1, <3>2, <3>3, <3>5, <4>2
      <4>3. CASE k \in 1 .. m /\ l = m + 1
        BY <1>2, <3>1, <3>2, <3>3, <3>5, <4>3
      <4>4. CASE k = m + 1 /\ l = m + 1
        <5>1. /\ i \in 1 .. Len(p) /\ j \in 1 .. Len(p) /\ p[i].call = p[j].call
          BY <1>2, <3>1, <3>5, <4>4
        <5>2. i = j
          BY <1>1, <5>1, NotTaken
        <5> QED BY <4>4, <5>2
      <4>5. (k \in 1 .. m \/ k = m + 1) /\ (l \in 1 .. m \/ l = m + 1)
        <5>1. Len(responses') = m + 1 /\ m \in Nat
          BY <1>3, <3>1
        <5> HIDE DEF m
        <5> QED BY ONLY <5>1, k \in 1 .. Len(responses'), l \in 1 .. Len(responses')
      <4> QED BY <4>1, <4>2, <4>3, <4>4, <4>5
    <3>6. \A k \in 1 .. Len(responses') : \A i \in 1 .. Len(responses'[k]) :
            responses'[k][i] # None => responses'[k][i].call \in ToSet(handled') \ Void
      BY ONLY <3>4
    <3>7. \A k, l \in 1 .. Len(responses') :
            \A i \in 1 .. Len(responses'[k]), j \in 1 .. Len(responses'[l]) :
              /\ responses'[k][i] # None /\ responses'[l][j] # None
              /\ responses'[k][i].call = responses'[l][j].call
              => k = l /\ i = j
      BY ONLY <3>5
    <3> QED BY ONLY <3>6, <3>7 DEF AnswersInv
  <2> QED BY <1>4, <2>1, <2>2
<1>10. OwnAnswer' /\ NoBrokenPromise'
  BY <1>1 DEF OwnAnswer, NoBrokenPromise
<1> QED BY <1>8, <1>9, <1>10

\* What _response takes off the map is what the id was written for.
LEMMA TakenIsOwn ==
  ASSUME Calm, responses # <<>>, NEW n \in 0 .. Len(Head(responses)), NEW i \in Taken(n),
         Found(Head(responses), i) # None
  PROVE  LET t == Head(responses)[i]
         IN  /\ t \in Packet /\ t.call \notin Void /\ t.call \in ToSet(handled)
             /\ i \in 1 .. Len(responses[1]) /\ t = responses[1][i]
             /\ waitMap[t.oid] = t.call
             /\ Found(Head(responses), i) = t.call
<1> USE DEF Calm, IdInv
<1> DEFINE p == responses[1]
           t == p[i]
<1>1. /\ responses \in Seq(Seq(Packet \cup {None})) /\ 1 \in 1 .. Len(responses)
      /\ Head(responses) = p /\ p \in Seq(Packet \cup {None})
  BY DEF TypeOK
<1>2. i \in 1 .. Len(p) /\ t # None
  BY <1>1 DEF Taken
<1>3. t \in Packet
  BY <1>1, <1>2
<1>4. t.call \in ToSet(handled) \ Void
  BY <1>1, <1>2 DEF AnswersInv
<1>5. t \in Travelling
  <2>1. Among(responses, t)
    BY <1>1, <1>2 DEF Among
  <2>2. t \in InFlight(requests, responses, package)
    BY <1>2, <2>1, InFlightIs DEF TypeOK
  <2> QED BY <2>2 DEF Travelling, InFlight
<1>6. Expected(t)
  BY <1>4, <1>5 DEF WaitInv
<1>7. Found(p, i) # None => Found(p, i) = waitMap[t.oid]
  BY DEF Found
<1>8. t.call # None
  BY <1>3, RpcSessionAssumption DEF Packet
<1>9. waitMap[t.oid] = t.call
  BY <1>1, <1>6, <1>7, <1>8 DEF Expected, WaitInv
<1> QED BY <1>1, <1>2, <1>3, <1>4, <1>7, <1>9

LEMMA HandleResponsesKeepsIds ==
  ASSUME Calm, HandleResponses
  PROVE  IdInv'
<1> USE DEF Calm, IdInv
<1> DEFINE p == Head(responses)
<1>1. PICK n \in 0 .. Len(p) :
         /\ responses # <<>>
         /\ p \in Seq(Packet \cup {None}) /\ Tail(responses) \in Seq(Seq(Packet \cup {None}))
         /\ responses' = Tail(responses)
         /\ \A i \in Taken(n) : p[i] \in Packet /\ Found(p, i) # None
         /\ waitMap' = [o \in Oid |-> IF \E i \in Taken(n) : p[i].oid = o THEN None
                                      ELSE waitMap[o]]
         /\ promise' = [c \in Call |-> IF SetBy(n, c) # {} THEN "set" ELSE promise[c]]
         /\ answer' = [c \in Call |-> IF SetBy(n, c) # {}
                                      THEN p[CHOOSE i \in SetBy(n, c) : TRUE].call
                                      ELSE answer[c]]
         /\ UNCHANGED <<package, between, issued, requests, handled>>
  BY Taking DEF peer
<1>2. ASSUME NEW i \in Taken(n)
      PROVE  /\ p[i] \in Packet /\ p[i].call \notin Void /\ p[i].call \in ToSet(handled)
             /\ i \in 1 .. Len(responses[1]) /\ p[i] = responses[1][i]
             /\ waitMap[p[i].oid] = p[i].call
             /\ Found(p, i) = p[i].call
             /\ p[i].oid \in Oid /\ p[i].call \in Call
  <2>1. /\ p[i] \in Packet /\ p[i].call \notin Void /\ p[i].call \in ToSet(handled)
        /\ i \in 1 .. Len(responses[1]) /\ p[i] = responses[1][i]
        /\ waitMap[p[i].oid] = p[i].call
        /\ Found(p, i) = p[i].call
    BY <1>1, TakenIsOwn
  <2> QED BY <2>1 DEF Packet
<1>3. responses \in Seq(Seq(Packet \cup {None})) /\ requests \in Seq(Seq(Packet))
      /\ package \in Seq(Packet) /\ responses # <<>> /\ Tail(responses) \in Seq(Seq(Packet \cup {None}))
  BY <1>1 DEF TypeOK
<1> HIDE DEF p
<1>4. \A o \in Oid : waitMap'[o] = IF \E i \in Taken(n) : p[i].oid = o THEN None ELSE waitMap[o]
  BY <1>1
<1>5. \A c \in Call : promise'[c] = IF SetBy(n, c) # {} THEN "set" ELSE promise[c]
  BY <1>1
<1>6. \A c \in Call : \A i \in SetBy(n, c) :
         i \in Taken(n) /\ p[i].call = c /\ waitMap[p[i].oid] = c /\ p[i].oid \in Oid
  BY <1>2 DEF SetBy, p
<1>7. \A i \in Taken(n) : i \in SetBy(n, p[i].call)
  BY <1>2 DEF SetBy, p
<1>8. \A c \in Call : SetBy(n, c) # {} => promise[c] = "pending"
  <2> SUFFICES ASSUME NEW c \in Call, NEW i \in SetBy(n, c) PROVE promise[c] = "pending"
    OBVIOUS
  <2>1. p[i].oid \in Oid /\ waitMap[p[i].oid] = c
    BY <1>6
  <2> QED BY <2>1 DEF WaitInv
\* Other packets on their way have other calls.
<1>9. ASSUME NEW y \in Travelling'
      PROVE  /\ y \in Travelling /\ y \in Packet
             /\ \A i \in Taken(n) : y.call # p[i].call
  <2>1. y \in InFlight(requests, Tail(responses), package)
    BY <1>1, <1>9 DEF Travelling, InFlight
  <2>2. y # None
    BY <2>1 DEF InFlight
  <2>3. y \in Packet /\ (Among(requests, y) \/ Among(Tail(responses), y) \/ In(package, y))
    BY <1>3, <2>1, InFlightIs
  <2>4. CASE Among(Tail(responses), y)
    <3>1. PICK k \in 2 .. Len(responses) : \E j \in 1 .. Len(responses[k]) : responses[k][j] = y
      BY <1>3, <2>4, AmongTail
    <3>2. PICK j \in 1 .. Len(responses[k]) : responses[k][j] = y
      BY <3>1
    <3>3. k \in 1 .. Len(responses) /\ 1 \in 1 .. Len(responses) /\ k # 1
      BY <1>3
    <3>4. ASSUME NEW i \in Taken(n), y.call = p[i].call PROVE FALSE
      <4>1. i \in 1 .. Len(responses[1]) /\ responses[1][i] = p[i] /\ p[i] \in Packet
        BY <1>2
      <4>2. responses[1][i] # None
        <5>1. p[i] # None
          BY <3>4 DEF Taken, p
        <5> QED BY <4>1, <5>1
      <4> QED BY <2>2, <3>2, <3>3, <3>4, <4>1, <4>2 DEF AnswersInv
    <3>5. Among(responses, y)
      BY <3>2, <3>3 DEF Among
    <3>6. y \in InFlight(requests, responses, package)
      BY <1>3, <2>2, <3>5, InFlightIs
    <3> QED BY <2>3, <3>4, <3>6 DEF Travelling, InFlight
  <2>5. CASE Among(requests, y) \/ In(package, y)
    <3>1. y \in InFlight(requests, responses, package)
      BY <1>3, <2>2, <2>5, InFlightIs
    <3>2. y.call \notin ToSet(handled)
      BY <2>5, NotTaken DEF Among, In
    <3> QED BY <1>2, <2>3, <3>1, <3>2 DEF Travelling, InFlight
  <2> QED BY <2>3, <2>4, <2>5
<1>10. ASSUME NEW y \in Travelling', y.call \notin Void PROVE Expected(y)'
  <2>1. Expected(y) /\ y.oid \in Oid /\ y.call \in Call
    BY <1>9, <1>10 DEF WaitInv, Packet
  <2>2. CASE waitMap[y.oid] = y.call
    <3>1. ~\E i \in Taken(n) : p[i].oid = y.oid
      BY <1>2, <1>9, <2>2
    <3> QED BY <1>4, <2>1, <2>2, <3>1 DEF Expected
  <2>3. CASE y \in between
    BY <1>1, <2>3 DEF Expected
  <2> QED BY <2>1, <2>2, <2>3 DEF Expected
<1>11. ASSUME NEW c \in Call
       PROVE  promise'[c] = "pending" <=> \E o \in Oid : waitMap'[o] = c
  <2>1. promise[c] = "pending" <=> \E o \in Oid : waitMap[o] = c
    BY DEF WaitInv
  <2>2. c # None
    BY RpcSessionAssumption
  <2>3. CASE SetBy(n, c) = {}
    <3>1. promise'[c] = promise[c]
      BY <1>5, <2>3
    <3>2. \A o \in Oid : waitMap[o] = c => ~\E i \in Taken(n) : p[i].oid = o
      BY <1>2, <1>7, <2>3
    <3> QED BY <1>4, <2>1, <2>2, <3>1, <3>2
  <2>4. CASE SetBy(n, c) # {}
    <3>1. PICK i \in SetBy(n, c) : TRUE
      BY <2>4
    <3>2. i \in Taken(n) /\ waitMap[p[i].oid] = c /\ p[i].oid \in Oid
      BY <1>6
    <3>3. ASSUME NEW o \in Oid, waitMap'[o] = c PROVE FALSE
      <4>1. waitMap[o] = c /\ o # p[i].oid
        BY <1>4, <2>2, <3>2, <3>3
      <4> QED BY <2>2, <3>2, <4>1 DEF WaitInv
    <3>4. promise'[c] = "set"
      BY <1>5, <2>4
    <3> QED BY <3>3, <3>4
  <2> QED BY <2>3, <2>4
<1>12. WaitInv'
  <2>1. ASSUME NEW x \in between
        PROVE  waitMap'[x.oid] = None /\ promise'[x.call] = "none" /\ x.call \in ToSet(issued)
    <3>0. x \in [call : Call \ Void, oid : Oid]
      BY DEF TypeOK
    <3>1. /\ waitMap[x.oid] = None /\ promise[x.call] = "none" /\ x.call \in ToSet(issued)
          /\ x.call \in Call /\ x.oid \in Oid
      BY <3>0 DEF WaitInv
    <3>2. SetBy(n, x.call) = {}
      BY <1>8, <3>1
    <3> QED BY <1>4, <1>5, <3>1, <3>2
  <2>2. ASSUME NEW c \in Call, c \notin ToSet(issued) PROVE promise'[c] = "none"
    <3>1. promise[c] = "none"
      BY <2>2 DEF WaitInv
    <3>2. SetBy(n, c) = {}
      BY <1>8, <3>1
    <3> QED BY <1>5, <3>1, <3>2
  <2>3. ASSUME NEW o \in Oid, NEW q \in Oid, waitMap'[o] = waitMap'[q], waitMap'[o] # None
        PROVE  o = q
    <3>1. waitMap[o] = waitMap[q] /\ waitMap[o] # None
      BY <1>4, <2>3
    <3> QED BY <3>1 DEF WaitInv
  <2>4. UNCHANGED <<between, issued>> /\ \A x, y \in between : x = y
    BY <1>1 DEF WaitInv
  <2> QED BY <1>10, <1>11, <2>1, <2>2, <2>3, <2>4 DEF WaitInv
<1>13. AnswersInv'
  <2>1. /\ responses' = Tail(responses) /\ handled' = handled /\ AnswersInv
        /\ Len(responses') = Len(responses) - 1 /\ Len(responses) \in Nat
        /\ \A k \in 1 .. Len(responses) - 1 : responses'[k] = responses[k + 1]
    BY <1>1, <1>3
  <2>2. \A k \in 1 .. Len(responses') :
           k + 1 \in 1 .. Len(responses) /\ responses'[k] = responses[k + 1]
    BY <2>1
  <2>3. ASSUME NEW k \in 1 .. Len(responses'), NEW i \in 1 .. Len(responses'[k]),
               responses'[k][i] # None
        PROVE  responses'[k][i].call \in ToSet(handled) \ Void
    BY <2>1, <2>2, <2>3 DEF AnswersInv
  <2>4. ASSUME NEW k \in 1 .. Len(responses'), NEW l \in 1 .. Len(responses'),
               NEW i \in 1 .. Len(responses'[k]), NEW j \in 1 .. Len(responses'[l]),
               responses'[k][i] # None, responses'[l][j] # None,
               responses'[k][i].call = responses'[l][j].call
        PROVE  k = l /\ i = j
    <3>1. k + 1 = l + 1 /\ i = j
      BY <2>1, <2>2, <2>4 DEF AnswersInv
    <3> QED BY <2>1, <3>1
  <2>5. \A k \in 1 .. Len(responses') : \A i \in 1 .. Len(responses'[k]) :
           responses'[k][i] # None => responses'[k][i].call \in ToSet(handled') \ Void
    BY <2>1, <2>3
  <2>6. \A k, l \in 1 .. Len(responses') :
           \A i \in 1 .. Len(responses'[k]), j \in 1 .. Len(responses'[l]) :
             /\ responses'[k][i] # None /\ responses'[l][j] # None
             /\ responses'[k][i].call = responses'[l][j].call
             => k = l /\ i = j
    BY <2>4
  <2> HIDE DEF Calm, IdInv
  <2> QED BY <2>5, <2>6 DEF AnswersInv
<1>14. OwnAnswer' /\ NoBrokenPromise'
  <2>1. ASSUME NEW c \in Call PROVE answer'[c] \in {None, c}
    <3>1. CASE SetBy(n, c) = {}
      BY <1>1, <3>1 DEF OwnAnswer
    <3>2. CASE SetBy(n, c) # {}
      <4> DEFINE i == CHOOSE i \in SetBy(n, c) : TRUE
      <4>1. i \in SetBy(n, c)
        BY <3>2
      <4>2. answer'[c] = p[i].call
        BY <1>1, <3>2
      <4> QED BY <1>6, <4>1, <4>2
    <3> QED BY <3>1, <3>2
  <2>2. ASSUME NEW c \in Call PROVE promise'[c] # "broken"
    BY <1>5 DEF NoBrokenPromise
  <2> QED BY <2>1, <2>2 DEF OwnAnswer, NoBrokenPromise
<1> QED BY <1>12, <1>13, <1>14

\* A response that finds nobody, while nothing disturbs the session, came before
\* the wait() of its call.
LEMMA NobodyWaits ==
  ASSUME Calm, HandleResponses, misread = {}, misread' # {}
  PROVE  overtaken'
<1> USE DEF Calm, IdInv
<1> DEFINE p == Head(responses)
<1>1. PICK n \in 0 .. Len(p) :
         /\ responses # <<>>
         /\ p \in Seq(Packet \cup {None})
         /\ \A i \in Taken(n) : p[i] \in Packet /\ Found(p, i) # None
         /\ n < Len(p) => p[n + 1] # None /\ Found(p, n + 1) = None
         /\ misread' = misread \cup (IF n < Len(p) THEN {"responses"} ELSE {})
         /\ overtaken' = (overtaken \/ (n < Len(p) /\ p[n + 1] \in between))
  BY Taking
<1>2. n < Len(p)
  BY <1>1
<1>3. /\ responses \in Seq(Seq(Packet \cup {None})) /\ 1 \in 1 .. Len(responses)
      /\ p = responses[1] /\ n \in Nat /\ Len(p) \in Nat
  BY <1>1 DEF TypeOK
<1> DEFINE x == p[n + 1]
<1>4. n + 1 \in 1 .. Len(p) /\ x # None /\ x \in Packet
  BY <1>1, <1>2, <1>3
<1>5. x.call \notin Void /\ x.call # None
  <2>1. x.call \notin Void
    BY <1>3, <1>4 DEF AnswersInv
  <2> QED BY <1>4, <2>1, RpcSessionAssumption DEF Packet
<1>6. Expected(x)
  <2>1. Among(responses, x)
    BY <1>3, <1>4 DEF Among
  <2>2. x \in InFlight(requests, responses, package)
    BY <1>4, <2>1, InFlightIs DEF TypeOK
  <2>3. x \in Travelling
    BY <2>2 DEF Travelling, InFlight
  <2> QED BY <1>5, <2>3 DEF WaitInv
<1>7. waitMap[x.oid] # x.call
  <2> SUFFICES ASSUME waitMap[x.oid] = x.call PROVE FALSE
    OBVIOUS
  <2>1. PICK j \in 1 .. (n + 1) - 1 : p[j] # None /\ p[j].oid = x.oid
    BY <1>1, <1>2, <1>5 DEF Found
  <2>2. j \in Taken(n) /\ j # n + 1
    BY <1>3, <2>1 DEF Taken
  <2>3. /\ j \in 1 .. Len(responses[1]) /\ p[j] = responses[1][j]
        /\ waitMap[p[j].oid] = p[j].call
    BY <1>1, <2>2, TakenIsOwn
  <2>4. p[j].call = x.call
    BY <2>1, <2>3
  <2>5. /\ x = responses[1][n + 1] /\ n + 1 \in 1 .. Len(responses[1]) /\ x # None
        /\ responses[1][j] # None /\ responses[1][j].call = x.call
    BY ONLY <1>3, <1>4, <2>1, <2>3, <2>4
  <2>6. \A k, l \in 1 .. Len(responses[1]) :
          /\ responses[1][k] # None /\ responses[1][l] # None
          /\ responses[1][k].call = responses[1][l].call
          => k = l
    BY ONLY AnswersInv, <1>3 DEF AnswersInv
  <2>7. j = n + 1
    BY ONLY <2>3, <2>5, <2>6
  <2> QED BY <2>2, <2>7
<1>8. x \in between
  BY <1>6, <1>7 DEF Expected
<1> QED BY <1>1, <1>2, <1>8

\* What disturbs the session is not undone.
LEMMA NothingUndone ==
  TypeOK /\ [Next]_vars =>
    /\ misread \subseteq misread' /\ mixed \subseteq mixed' /\ Left \subseteq Left'
    /\ doubled => doubled'
    /\ overtaken => overtaken'
<1> SUFFICES ASSUME TypeOK, [Next]_vars
             PROVE  /\ misread \subseteq misread' /\ mixed \subseteq mixed' /\ Left \subseteq Left'
                    /\ doubled => doubled'
                    /\ overtaken => overtaken'
  OBVIOUS
<1>1. CASE UNCHANGED <<misread, mixed, skipped, overtaken>> /\ (doubled => doubled')
  BY <1>1 DEF Left
<1>2. ASSUME NEW x \in between, Wait(x) PROVE UNCHANGED <<misread, mixed, skipped, overtaken, doubled>>
  BY <1>2 DEF Wait, peer, socket
<1>3. ASSUME BeginBatch \/ Bind \/ Lose PROVE UNCHANGED <<misread, mixed, skipped, overtaken, doubled>>
  BY <1>3 DEF BeginBatch, Bind, Lose, calls, peer, socket
<1>4. CASE HandleResponses
  <2>1. /\ UNCHANGED <<mixed, skipped, doubled>> /\ misread \subseteq misread'
        /\ overtaken => overtaken'
    BY <1>4 DEF HandleResponses, peer, socket
  <2> QED BY <2>1 DEF Left
<1>5. ASSUME NEW c \in Call, Send(c)
      PROVE  /\ misread \subseteq misread' /\ mixed \subseteq mixed' /\ UNCHANGED <<skipped, overtaken>>
             /\ doubled => doubled'
  <2>1. /\ UNCHANGED <<mixed, misread>> \/ Write("requests", requests, misread)
        /\ UNCHANGED <<skipped, overtaken>> /\ (doubled => doubled')
    BY <1>5 DEF Send, EndSend, peer
  <2> QED BY <2>1, RequestsMixed
<1>6. CASE EndBatch
  <2>1. Write("requests", requests, misread) /\ UNCHANGED <<skipped, overtaken, doubled>>
    BY <1>6 DEF EndBatch, EndSend, peer
  <2> QED BY <2>1, RequestsMixed DEF Left
<1>7. CASE HandleRequests
  <2> DEFINE p == Head(requests)
  <2>1. PICK n \in 0 .. Len(p) : Takes(p, n)
    BY <1>7, Replies
  <2> HIDE DEF p
  <2>2. /\ misread \subseteq misread' /\ mixed \subseteq mixed' /\ skipped \subseteq skipped'
        /\ UNCHANGED <<doubled, overtaken>>
    BY <2>1 DEF Takes, calls
  <2> QED BY <2>2 DEF Left
<1>8. CASE ReadGarbage
  <2>1. CASE GarbageResponse
    BY <2>1 DEF GarbageResponse, peer, socket, Left
  <2>2. CASE GarbageRequest
    <3>1. /\ UNCHANGED <<mixed, misread>> \/ Write("responses", responses, misread)
          /\ UNCHANGED <<skipped, doubled, overtaken>>
      BY <2>2 DEF GarbageRequest, calls
    <3>2. misread \in SUBSET Stream /\ "responses" \in Stream
      BY DEF TypeOK, Stream
    <3>3. misread \subseteq misread' /\ mixed \subseteq mixed'
      <4>1. CASE UNCHANGED <<mixed, misread>>
        BY <4>1
      <4>2. CASE Write("responses", responses, misread)
        BY <3>2, <4>2, WriteMixes
      <4> QED BY <3>1, <4>1, <4>2
    <3> QED BY <3>1, <3>3 DEF Left
  <2> QED BY <1>8, <2>1, <2>2 DEF ReadGarbage
<1>9. CASE UNCHANGED vars
  BY <1>9 DEF vars, calls, peer, socket, Left
<1> QED BY <1>1, <1>2, <1>3, <1>4, <1>5, <1>6, <1>7, <1>8, <1>9 DEF Next, Io, Left

LEMMA NextCause == IInv /\ [Next]_vars => CauseInv'
<1> SUFFICES ASSUME IInv, [Next]_vars, misread' # {}
             PROVE  mixed' # {} \/ Left' # {} \/ overtaken' \/ doubled'
  BY DEF CauseInv
<1>1. /\ misread \subseteq misread' /\ mixed \subseteq mixed' /\ Left \subseteq Left'
      /\ doubled => doubled'
      /\ overtaken => overtaken'
  BY NothingUndone DEF IInv
<1>2. CASE misread # {} \/ doubled
  BY <1>1, <1>2 DEF IInv, CauseInv
<1>3. CASE misread = {} /\ ~doubled
  <2>1. Calm
    BY <1>3 DEF IInv, Calm, Undisturbed, OrderInv
  <2>2. ASSUME misread' = misread PROVE FALSE
    BY <1>3, <2>2
  <2>3. ASSUME Write("requests", requests, misread) PROVE mixed' # {}
    BY <1>3, <2>3, RequestsMixed DEF IInv
  <2>4. ASSUME NEW c \in Call, Send(c) PROVE mixed' # {}
    BY <2>2, <2>3, <2>4 DEF Send, EndSend
  <2>5. CASE EndBatch
    BY <2>3, <2>5 DEF EndBatch, EndSend
  <2>6. ASSUME NEW x \in between, Wait(x) PROVE FALSE
    BY <2>2, <2>6 DEF Wait
  <2>7. CASE BeginBatch \/ Bind \/ Lose \/ UNCHANGED vars
    BY <2>2, <2>7 DEF BeginBatch, Bind, Lose, vars
  <2>8. CASE HandleResponses
    BY <1>3, <2>1, <2>8, NobodyWaits
  <2>9. CASE HandleRequests
    <3>1. "requests" \in misread' => Left' # {}
      BY <2>1, <2>9, HandleRequestsKeepsOrder DEF Calm
    <3>2. "requests" \notin misread' => mixed' # {}
      <4> DEFINE p == Head(requests)
      <4>1. PICK n \in 0 .. Len(p) : Takes(p, n)
        BY <2>1, <2>9, Replies DEF Calm
      <4> HIDE DEF p
      <4>2. PICK m \in SUBSET {"responses"} :
               /\ mixed' = mixed \cup m
               /\ misread' = (misread \cup (IF n < Len(p) THEN {"requests"} ELSE {})) \cup m
        BY <4>1 DEF Takes
      <4> QED BY <1>3, <4>2
    <3> QED BY <3>1, <3>2
  <2>10. CASE ReadGarbage
    BY <1>3, <2>10 DEF ReadGarbage, GarbageRequest, GarbageResponse
  <2> QED BY <2>4, <2>5, <2>6, <2>7, <2>8, <2>9, <2>10 DEF Next, Io
<1> QED BY <1>2, <1>3

LEMMA NextIds == MaxWaiting <= OidCount /\ IInv /\ [Next]_vars => (Undisturbed => IdInv)'
<1> SUFFICES ASSUME MaxWaiting <= OidCount, IInv, [Next]_vars, Undisturbed' PROVE IdInv'
  OBVIOUS
<1>0. misread = {} /\ ~doubled /\ misread' = {} /\ ~doubled' /\ Calm
  <2>1. misread \subseteq misread' /\ (doubled => doubled') /\ misread' = {} /\ ~doubled'
    BY NothingUndone DEF IInv, Undisturbed
  <2>2. misread = {} /\ ~doubled
    BY <2>1
  <2> QED BY <2>1, <2>2 DEF IInv, Calm, Undisturbed, OrderInv
<1>1. ASSUME UNCHANGED <<waitMap, between, promise, answer, issued, package, requests,
                         responses, handled>>
      PROVE  IdInv'
  <2>1. IdInv /\ UNCHANGED <<waitMap, between, promise, answer, issued, package>>
    BY <1>0, <1>1 DEF Calm
  <2>2. AnswersInv'
    <3>1. AnswersInv /\ responses' = responses /\ handled' = handled
      BY <1>1, <2>1 DEF IdInv
    <3> QED BY <3>1, AnswersStay
  <2>3. WaitInv'
    BY <1>1, <2>1 DEF IdInv, WaitInv, Expected, Travelling
  <2>4. OwnAnswer' /\ NoBrokenPromise'
    BY <2>1 DEF IdInv, OwnAnswer, NoBrokenPromise
  <2> QED BY <2>2, <2>3, <2>4 DEF IdInv
<1>2. CASE BeginBatch
  BY <1>1, <1>2 DEF BeginBatch, peer
<1>3. CASE Bind \/ Lose
  BY <1>1, <1>3 DEF Bind, Lose, peer, calls
<1>4. CASE UNCHANGED vars
  BY <1>1, <1>4 DEF vars, peer, calls
<1>5. ~ReadGarbage
  BY <1>0 DEF ReadGarbage, GarbageRequest, GarbageResponse
<1> QED BY <1>0, <1>2, <1>3, <1>4, <1>5, SendKeepsIds, WaitKeepsIds, EndBatchKeepsIds,
          HandleRequestsKeepsIds, HandleResponsesKeepsIds DEF Next, Io

LEMMA Invariance == ASSUME MaxWaiting <= OidCount PROVE Spec => []IInv
<1>1. Init => IInv
  <2>1. Init => CauseInv
    BY DEF Init, CauseInv
  <2> QED BY <2>1, InitTypeOK, InitOrder, InitIds DEF IInv
<1>2. IInv /\ [Next]_vars => IInv'
  <2>1. IInv /\ [Next]_vars => TypeOK' /\ OrderInv'
    BY NextTypeOK, NextOrder DEF IInv
  <2> QED BY <2>1, NextCause, NextIds DEF IInv
<1> QED BY <1>1, <1>2, PTL DEF Spec

\* IdsApart: two calls whose answers may still come have different ids, if the
\* program has no more calls outstanding at once than there are ids, waits for one
\* call before it sends the next, and no reader has lost its place.
THEOREM IdsStayApart == ASSUME MaxWaiting <= OidCount PROVE Spec => []IdsApart
<1>1. ASSUME IInv PROVE IdsApart
  <2> SUFFICES ASSUME Undisturbed, NEW x \in Travelling, NEW y \in Travelling,
                      x # y, x.call \notin Void, y.call \notin Void, x.oid = y.oid
               PROVE  FALSE
    BY DEF IdsApart, Undisturbed
  <2>1. Expected(x) /\ Expected(y)
    BY <1>1 DEF IInv, IdInv, WaitInv
  <2>2. x \in Packet /\ y \in Packet
    <3>1. \A z \in InFlight(requests, responses, package) : z \in Packet
      BY <1>1, InFlightIs DEF IInv, TypeOK
    <3> QED BY <3>1 DEF Travelling, InFlight
  <2>3. x.call # None /\ y.call # None /\ x.call # y.call
    BY <2>2, RpcSessionAssumption DEF Packet
  <2>4. /\ \A z \in between : waitMap[z.oid] = None
        /\ \A z, w \in between : z = w
    BY <1>1 DEF IInv, IdInv, WaitInv
  <2> QED BY <2>1, <2>3, <2>4 DEF Expected
<1> QED BY <1>1, Invariance, PTL

\* AnswersRight: under the same condition the promise of a call gets the call's own
\* result, and no promise is broken because its id is taken; and a reader loses
\* its place for the four reasons only that it names.
THEOREM AnswersAreRight == ASSUME MaxWaiting <= OidCount PROVE Spec => []AnswersRight
<1>1. IInv => AnswersRight
  BY DEF IInv, IdInv, CauseInv, Undisturbed, AnswersRight
<1> QED BY <1>1, Invariance, PTL

------------------------------------------------------------------------------
(* Datagram.  It has at most one wait or handler of its timer.  So each    *)
(* time the timer expires or is cancelled one handler is put into the      *)
(* strand, and each send starts a wait only where a handler of one was     *)
(* taken out.  Nothing depends on the bound on how often it expires.       *)

Handlers == {"sent", "expired", "aborted"}

\* Before the session calls send() nothing goes on.
NotStarted == ~started => sending = 0 /\ waiting = 0 /\ strand = <<>>

DatagramInv == DG!TypeOK /\ NotStarted /\ DG!RetryCycle

LEMMA NumberIsCount == \A h : DG!Number(h) = Count(strand, h)
BY DEF DG!Number, DG!Cardinality, Cardinality, Count, At

LEMMA NumberType ==
  ASSUME DG!TypeOK
  PROVE  \A h : DG!Number(h) \in Nat
BY NumberIsCount, CountType DEF DG!TypeOK

\* A sequence of as many handlers as there are waits, when there is at most one.
LEMMA HandlersOfWaits ==
  ASSUME NEW s \in Seq(Handlers), NEW h \in Handlers, waiting \in {0, 1}
  PROVE  s \o [i \in 1 .. waiting |-> h] = IF waiting = 1 THEN Append(s, h) ELSE s
<1>1. CASE waiting = 0
  <2>1. [i \in 1 .. waiting |-> h] = <<>>
    BY <1>1
  <2> QED BY <1>1, <2>1
<1>2. CASE waiting = 1
  <2> DEFINE t == [i \in 1 .. waiting |-> h]
  <2>1. t \in Seq(Handlers) /\ Len(t) = 1 /\ t[1] = h
    BY <1>2
  <2> HIDE DEF t
  <2>2. s \o t = Append(s, h)
    <3>1. Len(s \o t) = Len(s) + 1 /\ s \o t \in Seq(Handlers)
          /\ \A i \in 1 .. Len(s) + 1 : (s \o t)[i] = IF i <= Len(s) THEN s[i] ELSE t[i - Len(s)]
      <4>1. /\ s \o t \in Seq(Handlers) /\ Len(s \o t) = Len(s) + Len(t)
            /\ \A i \in 1 .. Len(s) + Len(t) : (s \o t)[i] = IF i <= Len(s) THEN s[i] ELSE t[i - Len(s)]
        BY <2>1, ConcatProperties
      <4> QED BY <2>1, <4>1
    <3>2. Len(Append(s, h)) = Len(s) + 1 /\ Append(s, h) \in Seq(Handlers)
          /\ \A i \in 1 .. Len(s) : Append(s, h)[i] = s[i]
          /\ Append(s, h)[Len(s) + 1] = h
      BY AppendProperties
    <3>3. (s \o t)[Len(s) + 1] = h /\ \A i \in 1 .. Len(s) : (s \o t)[i] = s[i]
      BY <2>1, <3>1
    <3>4. \A i \in 1 .. Len(s \o t) : (s \o t)[i] = Append(s, h)[i]
      BY <3>1, <3>2, <3>3
    <3> QED BY <3>1, <3>2, <3>4, SeqEqual
  <2> QED BY <1>2, <2>2 DEF t
<1> QED BY <1>1, <1>2

\* The strand of a handler that was taken out of it.
LEMMA TakenOut ==
  ASSUME DG!TypeOK, strand # <<>>
  PROVE  /\ Tail(strand) \in Seq(Handlers) /\ Head(strand) \in Handlers
         /\ \A h : DG!Number(h) = Count(Tail(strand), h) + IF Head(strand) = h THEN 1 ELSE 0
         /\ \A h : Count(Tail(strand), h) \in Nat
<1>1. strand \in Seq(Handlers)
  BY DEF DG!TypeOK, Handlers
<1>2. Tail(strand) \in Seq(Handlers) /\ Head(strand) \in Handlers
  BY <1>1
<1> QED BY <1>1, <1>2, CountTail, CountType, NumberIsCount

LEMMA InitDatagramInv == ASSUME DG!DatagramAssumption PROVE DG!Init => DatagramInv
<1> SUFFICES ASSUME DG!Init PROVE DatagramInv
  OBVIOUS
<1>1. \A h : DG!Number(h) = 0
  BY NumberIsCount, CountEmpty DEF DG!Init
<1>2. DG!TypeOK /\ NotStarted
  <2>1. strand \in Seq({"sent", "expired", "aborted"})
    BY DEF DG!Init
  <2>2. started = FALSE /\ sending = 0 /\ waiting = 0 /\ strand = <<>> /\ expired \in 0 .. MaxExpired
    BY DG!DatagramAssumption DEF DG!Init, DG!DatagramAssumption
  <2> QED BY <2>1, <2>2 DEF DG!TypeOK, NotStarted
<1> QED BY <1>1, <1>2 DEF DG!Init, DatagramInv, DG!RetryCycle, DG!OneTimer, DG!QuietTimer

LEMMA FirstSendKeepsRetry ==
  ASSUME DatagramInv, DG!FirstSend
  PROVE  DatagramInv'
<1> USE DEF DatagramInv
<1>1. /\ sending = 0 /\ waiting = 0 /\ strand = <<>>
      /\ started' = TRUE /\ sending' = 1 /\ waiting' = 1 /\ strand' = <<>> /\ expired' = expired
  BY DEF DG!FirstSend, DG!Send, NotStarted
<1>2. \A h : DG!Number(h)' = 0
  BY <1>1, CountEmpty DEF DG!Number, DG!Cardinality, Cardinality, Count, At
<1>3. DG!TypeOK' /\ NotStarted'
  BY <1>1 DEF DG!TypeOK, NotStarted
<1> QED BY <1>1, <1>2, <1>3 DEF DG!RetryCycle, DG!OneTimer, DG!QuietTimer

LEMMA SentKeepsRetry ==
  ASSUME DatagramInv, DG!Sent
  PROVE  DatagramInv'
<1> USE DEF DatagramInv
<1>1. /\ sending > 0 /\ sending' = sending - 1 /\ strand' = Append(strand, "sent")
      /\ UNCHANGED <<started, waiting, expired>>
  BY DEF DG!Sent
<1>2. \A h : DG!Number(h)' = DG!Number(h) + IF h = "sent" THEN 1 ELSE 0
  <2> TAKE h
  <2>1. strand \in Seq(Handlers) /\ "sent" \in Handlers
    BY DEF DG!TypeOK, Handlers
  <2>2. Count(Append(strand, "sent"), h) = Count(strand, h) + IF "sent" = h THEN 1 ELSE 0
    BY <2>1, CountAppend
  <2>3. DG!Number(h)' = Count(strand', h)
    BY DEF DG!Number, DG!Cardinality, Cardinality, Count, At
  <2> QED BY <1>1, <2>2, <2>3, NumberIsCount
<1>3. DG!TypeOK'
  BY <1>1 DEF DG!TypeOK
<1>4. NotStarted'
  BY <1>1 DEF NotStarted
<1>5. DG!OneTimer'
  <2>1. DG!Number("expired")' = DG!Number("expired") /\ DG!Number("aborted")' = DG!Number("aborted")
    BY <1>2, NumberType
  <2> QED BY <1>1, <2>1 DEF DG!RetryCycle, DG!OneTimer
<1>6. DG!QuietTimer'
  <2>1. DG!Number("sent")' = DG!Number("sent") + 1 /\ DG!Number("sent") \in Nat
    BY <1>2, NumberType
  <2> QED BY <1>1, <2>1 DEF DG!TypeOK, DG!QuietTimer
<1> QED BY <1>3, <1>4, <1>5, <1>6 DEF DG!RetryCycle

LEMMA WaitsBound ==
  ASSUME DG!TypeOK, DG!OneTimer
  PROVE  waiting \in {0, 1} /\ (waiting = 1 => DG!Number("expired") = 0 /\ DG!Number("aborted") = 0)
BY NumberType DEF DG!TypeOK, DG!OneTimer

LEMMA ExpireKeepsRetry ==
  ASSUME DG!DatagramAssumption, DatagramInv, DG!Expire
  PROVE  DatagramInv'
<1> USE DEF DatagramInv
<1>1. /\ waiting > 0 /\ expired < MaxExpired /\ expired' = expired + 1 /\ waiting' = 0
      /\ strand' = strand \o [i \in 1 .. waiting |-> "expired"]
      /\ UNCHANGED <<started, sending>>
  BY DEF DG!Expire
<1>2. waiting = 1 /\ DG!Number("expired") = 0 /\ DG!Number("aborted") = 0
  BY <1>1, WaitsBound DEF DG!RetryCycle
<1>3. strand \in Seq(Handlers) /\ "expired" \in Handlers
  BY DEF DG!TypeOK, Handlers
<1>4. strand' = Append(strand, "expired")
  BY <1>1, <1>2, <1>3, HandlersOfWaits
<1>5. \A h : DG!Number(h)' = DG!Number(h) + IF "expired" = h THEN 1 ELSE 0
  <2> TAKE h
  <2>1. Count(Append(strand, "expired"), h) = Count(strand, h) + IF "expired" = h THEN 1 ELSE 0
    BY <1>3, CountAppend
  <2>2. DG!Number(h)' = Count(strand', h)
    BY DEF DG!Number, DG!Cardinality, Cardinality, Count, At
  <2> QED BY <1>4, <2>1, <2>2, NumberIsCount
<1>6. DG!TypeOK'
  <2>1. strand' \in Seq({"sent", "expired", "aborted"})
    BY <1>3, <1>4 DEF Handlers
  <2>2. expired' \in 0 .. MaxExpired
    BY <1>1, DG!DatagramAssumption DEF DG!TypeOK, DG!DatagramAssumption
  <2> QED BY <1>1, <2>1, <2>2 DEF DG!TypeOK
<1>7. NotStarted'
  BY <1>1, <1>2 DEF NotStarted
<1>8. DG!Number("expired")' = 1 /\ DG!Number("aborted")' = 0
  BY <1>2, <1>5
<1> QED BY <1>1, <1>6, <1>7, <1>8 DEF DG!RetryCycle, DG!OneTimer, DG!QuietTimer

LEMMA HandleSendKeepsRetry ==
  ASSUME DatagramInv, DG!HandleSend
  PROVE  DatagramInv'
<1> USE DEF DatagramInv
<1>1. /\ strand # <<>> /\ Head(strand) = "sent" /\ waiting' = 0
      /\ strand' = Tail(strand) \o [i \in 1 .. waiting |-> "aborted"]
      /\ UNCHANGED <<started, sending, expired>>
  BY DEF DG!HandleSend, DG!Cancel
<1> DEFINE t == Tail(strand)
<1>2. /\ t \in Seq(Handlers) /\ "aborted" \in Handlers
      /\ DG!Number("expired") = Count(t, "expired") /\ DG!Number("aborted") = Count(t, "aborted")
      /\ Count(t, "expired") \in Nat /\ Count(t, "aborted") \in Nat
  BY <1>1, TakenOut DEF Handlers
<1> HIDE DEF t
<1>3. waiting \in {0, 1} /\ (waiting = 1 => DG!Number("expired") = 0 /\ DG!Number("aborted") = 0)
  BY WaitsBound DEF DG!RetryCycle
<1>4. strand' = IF waiting = 1 THEN Append(t, "aborted") ELSE t
  BY <1>1, <1>2, <1>3, HandlersOfWaits DEF t
<1>5. strand' \in Seq(Handlers)
  BY <1>2, <1>3, <1>4
<1>6. DG!TypeOK'
  BY <1>1, <1>5 DEF DG!TypeOK, Handlers
<1>7. NotStarted'
  BY <1>1 DEF NotStarted
<1>8. \A h : DG!Number(h)' = Count(strand', h)
  BY DEF DG!Number, DG!Cardinality, Cardinality, Count, At
<1>9. DG!Number("expired")' + DG!Number("aborted")' <= 1
  <2>1. CASE waiting = 1
    <3>1. /\ Count(Append(t, "aborted"), "expired") = Count(t, "expired")
          /\ Count(Append(t, "aborted"), "aborted") = Count(t, "aborted") + 1
      BY <1>2, CountAppend
    <3> QED BY <1>2, <1>3, <1>4, <1>8, <2>1, <3>1
  <2>2. CASE waiting = 0
    <3>1. DG!Number("expired") + DG!Number("aborted") <= 1
      BY <1>2, <2>2 DEF DG!RetryCycle, DG!OneTimer
    <3> QED BY <1>2, <1>4, <1>8, <2>2, <3>1
  <2> QED BY <1>3, <2>1, <2>2
<1>10. DG!Number("expired")' \in Nat /\ DG!Number("aborted")' \in Nat
  BY <1>5, <1>8, CountType
<1> QED BY <1>1, <1>6, <1>7, <1>9, <1>10 DEF DG!RetryCycle, DG!OneTimer, DG!QuietTimer

LEMMA HandleTimeOutKeepsRetry ==
  ASSUME DatagramInv, DG!HandleTimeOut
  PROVE  DatagramInv'
<1> USE DEF DatagramInv
<1>1. strand # <<>> /\ strand' = Tail(strand) /\ UNCHANGED <<started, expired>>
      /\ \/ Head(strand) = "aborted" /\ UNCHANGED <<sending, waiting>>
         \/ Head(strand) = "expired" /\ sending' = sending + 1 /\ waiting' = waiting + 1
  BY DEF DG!HandleTimeOut, DG!Send
<1>2. /\ Tail(strand) \in Seq(Handlers)
      /\ \A h : DG!Number(h) = Count(Tail(strand), h) + IF Head(strand) = h THEN 1 ELSE 0
      /\ \A h : Count(Tail(strand), h) \in Nat
  BY <1>1, TakenOut
<1>3. \A h : DG!Number(h)' = Count(Tail(strand), h)
  BY <1>1 DEF DG!Number, DG!Cardinality, Cardinality, Count, At
<1>4. DG!TypeOK'
  BY <1>1, <1>2 DEF DG!TypeOK, Handlers
<1>5. NotStarted'
  BY <1>1 DEF NotStarted
<1> DEFINE e == DG!Number("expired")'
           a == DG!Number("aborted")'
           s == DG!Number("sent")'
<1>6. e \in Nat /\ a \in Nat /\ s \in Nat
  BY <1>2, <1>3
<1>7. CASE Head(strand) = "aborted"
  <2>1. DG!Number("expired") = e /\ DG!Number("aborted") = a + 1 /\ DG!Number("sent") = s
    BY <1>2, <1>3, <1>7
  <2>2. UNCHANGED <<sending, waiting>>
    BY <1>1, <1>7
  <2> HIDE DEF e, a, s
  <2>3. waiting + e + a <= 1 /\ (waiting > 0 => sending + s > 0)
    BY <1>6, <2>1 DEF DG!TypeOK, DG!RetryCycle, DG!OneTimer, DG!QuietTimer
  <2> QED BY <1>4, <1>5, <2>2, <2>3 DEF e, a, s, DG!RetryCycle, DG!OneTimer, DG!QuietTimer
<1>8. CASE Head(strand) = "expired"
  <2>1. DG!Number("expired") = e + 1 /\ DG!Number("aborted") = a
    BY <1>2, <1>3, <1>8
  <2>2. sending' = sending + 1 /\ waiting' = waiting + 1
    BY <1>1, <1>8
  <2> HIDE DEF e, a, s
  <2>3. (waiting + 1) + e + a <= 1 /\ (sending + 1) + s > 0
    BY <1>6, <2>1 DEF DG!TypeOK, DG!RetryCycle, DG!OneTimer
  <2> QED BY <1>4, <1>5, <2>2, <2>3 DEF e, a, s, DG!RetryCycle, DG!OneTimer, DG!QuietTimer
<1> QED BY <1>1, <1>7, <1>8

LEMMA NextDatagramInv ==
  ASSUME DG!DatagramAssumption
  PROVE  DatagramInv /\ [DG!Next]_(DG!vars) => DatagramInv'
<1> SUFFICES ASSUME DatagramInv, [DG!Next]_(DG!vars) PROVE DatagramInv'
  OBVIOUS
<1>1. CASE DG!FirstSend
  BY <1>1, FirstSendKeepsRetry
<1>2. CASE DG!Sent
  BY <1>2, SentKeepsRetry
<1>3. CASE DG!Expire
  BY <1>3, ExpireKeepsRetry
<1>4. CASE DG!HandleSend
  BY <1>4, HandleSendKeepsRetry
<1>5. CASE DG!HandleTimeOut
  BY <1>5, HandleTimeOutKeepsRetry
<1>6. CASE UNCHANGED DG!vars
  BY <1>6 DEF DG!vars, DatagramInv, DG!TypeOK, NotStarted, DG!RetryCycle, DG!OneTimer, DG!QuietTimer, DG!Number
<1> QED BY <1>1, <1>2, <1>3, <1>4, <1>5, <1>6 DEF DG!Next, DG!Handle

LEMMA DatagramInvariance == ASSUME DG!DatagramAssumption PROVE DG!Spec => []DatagramInv
<1> QED BY InitDatagramInv, NextDatagramInv, PTL DEF DG!Spec

\* The strand holds handlers of sends and of waits, and the timer does not expire
\* more often than the bound allows.
THEOREM DatagramTypeCorrect == DatagramSpec => []DatagramTypeOK
<1>1. DatagramInv => DatagramTypeOK
  BY DEF DatagramInv, DatagramTypeOK
<1> QED BY <1>1, MaxExpiredAssumption, DatagramInvariance, PTL DEF DatagramSpec

\* However often the timer expires and in whatever order the answers come, a
\* datagram has one cycle of sending again, which runs only while the handler of a
\* send is to come: a late answer cannot start a second one.
THEOREM OneRetryCycle == DatagramSpec => []RetryCycle
<1>1. DatagramInv => RetryCycle
  BY DEF DatagramInv, RetryCycle
<1> QED BY <1>1, MaxExpiredAssumption, DatagramInvariance, PTL DEF DatagramSpec
==============================================================================
