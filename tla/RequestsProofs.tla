--------------------------- MODULE RequestsProofs ---------------------------
(***************************************************************************)
(* Proofs about Requests, for queues of any size, any number of messages   *)
(* and any rows of requests in them: the way of a message to               *)
(* tcp_handle_task, and, on top of it, that of a request to dht11_task and *)
(* of its answer.                                                          *)
(***************************************************************************)
EXTENDS Requests, WellFoundedInduction, TLAPS

-----------------------------------------------------------------------------
(* Types.                                                                  *)

RecvType ==
    /\ tcp_handle_event \in Seq(HandleBuffer)
    /\ recv_msg \in [Peer -> HandleBuffer \union {None}]
    /\ \A p \in Peer : MidPair(p) => recv_msg[p].part = "msg" /\ recv_msg[p].from = p
    /\ received \in Nat
    /\ pc \in {"auth", "msg"} /\ waiting \in BOOLEAN
    /\ got \in HandleBuffer \union {None}
    /\ auth_msg \in HandleBuffer \union {None}
    /\ taken \in Seq([auth : HandleBuffer, msg : HandleBuffer \union {None}, torn : BOOLEAN])
    /\ torn \in BOOLEAN
    /\ pc = "msg" <=> auth_msg # None
    /\ Waits => tcp_handle_event = <<>>

LEMMA NoneIsNoBuffer == None \notin HandleBuffer
  BY DEF None, HandleBuffer

LEMMA NewBuffers ==
  ASSUME NEW n \in Nat, NEW p \in Peer, NEW text \in Text
  PROVE  /\ Name(n, p) \in HandleBuffer /\ Message(n, p, text) \in HandleBuffer
         /\ Name(n, p).part = "auth" /\ Name(n, p).of = n /\ Name(n, p).from = p
         /\ Message(n, p, text).part = "msg" /\ Message(n, p, text).of = n
         /\ Message(n, p, text).from = p
  BY DEF Name, Message, HandleBuffer

LEMMA InitRecvType == Init => RecvType
  <1> SUFFICES ASSUME Init PROVE RecvType
    OBVIOUS
  <1>1. /\ <<>> \in Seq(HandleBuffer)
        /\ <<>> \in Seq([auth : HandleBuffer, msg : HandleBuffer \union {None}, torn : BOOLEAN])
    OBVIOUS
  <1>2. QED  BY <1>1 DEF Init, RecvPathInit, RecvType, MidPair, Waits

(* OSQPost keeps the types.                                                *)
LEMMA PostType ==
  ASSUME RecvType, NEW b \in HandleBuffer, PostPart(b), UNCHANGED waiting
  PROVE  /\ tcp_handle_event' \in Seq(HandleBuffer)
         /\ got' \in HandleBuffer \union {None}
         /\ Waits' => tcp_handle_event' = <<>>
  BY NoneIsNoBuffer DEF PostPart, RecvType, Waits, Full

LEMMA TornType == ASSUME NEW e \in BOOLEAN, TornIf(e) PROVE torn' \in BOOLEAN
  BY DEF TornIf

LEMMA StepRecvType ==
  ASSUME RecvType, [Next]_vars
  PROVE  RecvType'
  <1> USE NoneIsNoBuffer
  <1>1. ASSUME NEW p \in Peer, NEW text \in Text, Receive(p, text)
        PROVE  RecvType'
    <2>1. /\ Name(received + 1, p) \in HandleBuffer
          /\ Message(received + 1, p, text) \in HandleBuffer
          /\ Message(received + 1, p, text).part = "msg"
          /\ Message(received + 1, p, text).from = p
      BY NewBuffers DEF RecvType
    <2>2. PostPart(Name(received + 1, p)) /\ UNCHANGED handleVars
      BY <1>1 DEF Receive
    <2>3. /\ tcp_handle_event' \in Seq(HandleBuffer)
          /\ got' \in HandleBuffer \union {None}
          /\ Waits' => tcp_handle_event' = <<>>
      BY <2>1, <2>2, PostType DEF handleVars
    <2>4. torn' \in BOOLEAN
      BY <1>1, TornType DEF Receive
    <2>5. /\ recv_msg' \in [Peer -> HandleBuffer \union {None}]
          /\ \A q \in Peer : MidPair(q)' =>
                recv_msg'[q].part = "msg" /\ recv_msg'[q].from = q
      BY <1>1, <2>1 DEF Receive, RecvType, MidPair
    <2>6. QED  BY <1>1, <2>2, <2>3, <2>4, <2>5 DEF Receive, RecvType, handleVars
  <1>2. ASSUME NEW p \in Peer, PostText(p)
        PROVE  RecvType'
    <2>1. recv_msg[p] \in HandleBuffer
      BY <1>2 DEF PostText, MidPair, RecvType
    <2>2. PostPart(recv_msg[p]) /\ UNCHANGED handleVars
      BY <1>2 DEF PostText
    <2>3. /\ tcp_handle_event' \in Seq(HandleBuffer)
          /\ got' \in HandleBuffer \union {None}
          /\ Waits' => tcp_handle_event' = <<>>
      BY <2>1, <2>2, PostType DEF handleVars
    <2>4. torn' \in BOOLEAN
      BY <1>2, TornType DEF PostText, Full
    <2>5. /\ recv_msg' \in [Peer -> HandleBuffer \union {None}]
          /\ \A q \in Peer : MidPair(q)' =>
                recv_msg'[q].part = "msg" /\ recv_msg'[q].from = q
      BY <1>2 DEF PostText, RecvType, MidPair
    <2>6. QED  BY <1>2, <2>2, <2>3, <2>4, <2>5 DEF PostText, RecvType, handleVars
  <1>3. CASE Pend
    <2>1. CASE tcp_handle_event = <<>>
      BY <1>3, <2>1 DEF Pend, RecvType, Waits, MidPair
    <2>2. CASE tcp_handle_event # <<>>
      <3>1. /\ Head(tcp_handle_event) \in HandleBuffer
            /\ Tail(tcp_handle_event) \in Seq(HandleBuffer)
        BY <2>2 DEF RecvType
      <3>2. QED  BY <1>3, <2>2, <3>1 DEF Pend, RecvType, Waits, MidPair
    <2>3. QED  BY <2>1, <2>2
  <1>4. CASE TakeAuth
    BY <1>4 DEF TakeAuth, RecvType, Waits, MidPair
  <1>5. ASSUME NEW m \in HandleBuffer \union {None}, pc = "msg", Take(m), TornIf(FALSE)
        PROVE  RecvType'
    <2>1. auth_msg \in HandleBuffer
      BY <1>5 DEF RecvType
    <2>2. taken' \in Seq([auth : HandleBuffer, msg : HandleBuffer \union {None}, torn : BOOLEAN])
      BY <1>5, <2>1 DEF Take, RecvType
    <2>3. torn' \in BOOLEAN
      BY <1>5, TornType
    <2>4. QED  BY <1>5, <2>2, <2>3 DEF Take, RecvType, Waits, MidPair
  <1>6. CASE TakeMsg
    BY <1>6, <1>5 DEF TakeMsg, RecvType
  <1>7. CASE Timeout
    BY <1>7, <1>5 DEF Timeout, RecvType
  <1>8. CASE UNCHANGED recvPathVars
    BY <1>8 DEF recvPathVars, handleVars, RecvType, Waits, MidPair
  <1>9. QED
    BY <1>1, <1>2, <1>3, <1>4, <1>6, <1>7, <1>8 DEF Next, RecvPathStep, vars

-----------------------------------------------------------------------------
(* The buffers between the receive tasks and what is taken, oldest first.  *)

Kept(b) == IF b = None THEN <<>> ELSE <<b>>
Stream == (Kept(auth_msg) \o Kept(got)) \o tcp_handle_event

LEMMA KeptType ==
  ASSUME NEW b \in HandleBuffer \union {None}
  PROVE  Kept(b) \in Seq(HandleBuffer)
  BY DEF Kept

LEMMA StreamType == RecvType => Stream \in Seq(HandleBuffer)
  <1> SUFFICES ASSUME RecvType PROVE Stream \in Seq(HandleBuffer)
    OBVIOUS
  <1>1. Kept(auth_msg) \in Seq(HandleBuffer) /\ Kept(got) \in Seq(HandleBuffer)
    BY KeptType DEF RecvType
  <1>2. QED  BY <1>1 DEF Stream, RecvType

LEMMA SeqEqual ==
  ASSUME NEW S, NEW s \in Seq(S), NEW t \in Seq(S), Len(s) = Len(t),
         \A i \in 1 .. Len(s) : s[i] = t[i]
  PROVE  s = t
  OBVIOUS

(* OSQPost lengthens the stream, unless the queue is full.                 *)
LEMMA StreamPost ==
  ASSUME RecvType, NEW b \in HandleBuffer, PostPart(b), UNCHANGED <<waiting, auth_msg>>
  PROVE  /\ Full => Stream' = Stream /\ Full'
         /\ ~Full => Stream' = Append(Stream, b)
  <1>0. Kept(auth_msg) \in Seq(HandleBuffer) /\ Kept(got) \in Seq(HandleBuffer)
    BY KeptType DEF RecvType
  <1>1. CASE Full
    BY <1>1 DEF Full, PostPart, Stream, Waits, Kept
  <1>2. CASE ~Full /\ Waits
    <2>1. /\ tcp_handle_event = <<>> /\ tcp_handle_event' = <<>>
          /\ Kept(got) = <<>> /\ Kept(got)' = <<b>>
      BY <1>2, NoneIsNoBuffer DEF PostPart, RecvType, Waits, Kept
    <2> DEFINE A == Kept(auth_msg)
    <2>2. Kept(auth_msg)' = A
      BY DEF Kept
    <2>3. Stream = (A \o <<>>) \o <<>> /\ Stream' = (A \o <<b>>) \o <<>>
      BY <2>1, <2>2 DEF Stream
    <2>4. A \in Seq(HandleBuffer)
      BY <1>0
    <2> HIDE DEF A
    <2>5. (A \o <<>>) \o <<>> = A /\ (A \o <<b>>) \o <<>> = Append(A, b)
      BY <2>4
    <2>6. QED  BY <1>2, <2>3, <2>5
  <1>3. CASE ~Full /\ ~Waits
    <2> DEFINE A == Kept(auth_msg) \o Kept(got)
    <2>1. A \in Seq(HandleBuffer) /\ tcp_handle_event \in Seq(HandleBuffer)
      BY <1>0 DEF RecvType
    <2>2. A \o Append(tcp_handle_event, b) = Append(A \o tcp_handle_event, b)
      BY <2>1
    <2>3. Stream' = A \o Append(tcp_handle_event, b)
      BY <1>3 DEF PostPart, Stream, Kept
    <2>4. Stream = A \o tcp_handle_event
      BY DEF Stream
    <2>5. QED  BY <1>3, <2>2, <2>3, <2>4
  <1>4. QED  BY <1>1, <1>2, <1>3

LEMMA StreamPend ==
  ASSUME RecvType, Pend
  PROVE  Stream' = Stream
  <1>1. CASE tcp_handle_event = <<>>
    BY <1>1 DEF Pend, Stream, Kept
  <1>2. CASE tcp_handle_event # <<>>
    <2>1. Kept(auth_msg) \in Seq(HandleBuffer) /\ Kept(got) = <<>>
      BY <1>2, KeptType DEF Pend, RecvType, Kept
    <2>2. /\ Kept(got)' = <<Head(tcp_handle_event)>> /\ Kept(auth_msg)' = Kept(auth_msg)
          /\ tcp_handle_event' = Tail(tcp_handle_event)
      BY <1>2, NoneIsNoBuffer DEF Pend, RecvType, Kept
    <2> DEFINE A == Kept(auth_msg)
               q == tcp_handle_event
    <2>3. A \in Seq(HandleBuffer) /\ q \in Seq(HandleBuffer) /\ q # <<>>
      BY <1>2, <2>1 DEF RecvType
    <2>4. Stream = (A \o <<>>) \o q /\ Stream' = (A \o <<Head(q)>>) \o Tail(q)
      BY <2>1, <2>2 DEF Stream
    <2> HIDE DEF A, q
    <2>5. (A \o <<Head(q)>>) \o Tail(q) = (A \o <<>>) \o q
      BY <2>3
    <2>6. QED  BY <2>4, <2>5
  <1>3. QED  BY <1>1, <1>2

LEMMA StreamTakeAuth ==
  ASSUME RecvType, TakeAuth
  PROVE  Stream' = Stream
  <1>1. Kept(auth_msg) = <<>> /\ Kept(got)' = <<>> /\ Kept(auth_msg)' = Kept(got)
    BY DEF TakeAuth, RecvType, Kept
  <1>2. Kept(got) \in Seq(HandleBuffer)
    BY KeptType DEF RecvType
  <1>3. <<>> \o Kept(got) = Kept(got) \o <<>>
    BY <1>2
  <1>4. QED  BY <1>1, <1>3 DEF Stream, TakeAuth

LEMMA Concatenated ==
  ASSUME NEW t \in Seq(HandleBuffer), NEW q \in Seq(HandleBuffer)
  PROVE  /\ t \o q \in Seq(HandleBuffer)
         /\ Len(t \o q) = Len(t) + Len(q)
         /\ \A i \in 1 .. Len(t) : (t \o q)[i] = t[i]
         /\ \A i \in 1 .. Len(q) : q[i] = (t \o q)[i + Len(t)]
  <1>1. t \o q \in Seq(HandleBuffer) /\ Len(t \o q) = Len(t) + Len(q)
    OBVIOUS
  <1>2. \A i \in 1 .. Len(t) : (t \o q)[i] = t[i]
    OBVIOUS
  <1>3. \A i \in 1 .. Len(q) : q[i] = (t \o q)[i + Len(t)]
    OBVIOUS
  <1>4. QED  BY <1>1, <1>2, <1>3

(* What is taken leaves the stream at its beginning.                       *)
LEMMA StreamTake ==
  ASSUME RecvType, NEW m, pc = "msg", Take(m)
  PROVE  /\ got # None => /\ Len(Stream) >= 2 /\ Stream[1] = auth_msg /\ Stream[2] = got
                          /\ Len(Stream') = Len(Stream) - 2
                          /\ \A i \in 1 .. Len(Stream') : Stream'[i] = Stream[i + 2]
                          /\ Stream' \in Seq(HandleBuffer)
         /\ Waits => Stream = <<auth_msg>> /\ Stream' = <<>>
  <1> DEFINE q == tcp_handle_event
  <1>1. q \in Seq(HandleBuffer) /\ auth_msg \in HandleBuffer
    BY DEF RecvType
  <1>2. Kept(auth_msg) = <<auth_msg>> /\ Kept(auth_msg)' = <<>> /\ Kept(got)' = <<>>
        /\ tcp_handle_event' = tcp_handle_event
    BY <1>1, NoneIsNoBuffer DEF Take, Kept
  <1>3. Stream' = (<<>> \o <<>>) \o q
    BY <1>2 DEF Stream
  <1>4. ASSUME got # None
        PROVE  /\ Len(Stream) >= 2 /\ Stream[1] = auth_msg /\ Stream[2] = got
               /\ Len(Stream') = Len(Stream) - 2
               /\ \A i \in 1 .. Len(Stream') : Stream'[i] = Stream[i + 2]
               /\ Stream' \in Seq(HandleBuffer)
    <2>1. Stream = (<<auth_msg>> \o <<got>>) \o q /\ got \in HandleBuffer
      BY <1>2, <1>4 DEF Stream, Kept, RecvType
    <2>2. Stream' = q
      <3>1. (<<>> \o <<>>) \o q = q
        BY <1>1
      <3>2. QED  BY <1>3, <3>1
    <2> HIDE DEF q
    <2>3. /\ Len(Stream) = Len(q) + 2 /\ Stream[1] = auth_msg /\ Stream[2] = got
          /\ \A i \in 1 .. Len(q) : q[i] = Stream[i + 2]
      <3> DEFINE t == <<auth_msg>> \o <<got>>
      <3>1. t \in Seq(HandleBuffer) /\ Len(t) = 2 /\ t[1] = auth_msg /\ t[2] = got
        <4>1. <<auth_msg>> \in Seq(HandleBuffer) /\ <<got>> \in Seq(HandleBuffer)
          BY <1>1, <2>1
        <4>2. QED  BY <4>1
      <3>2. q \in Seq(HandleBuffer) /\ Stream = t \o q
        BY <1>1, <2>1
      <3> HIDE DEF t
      <3>3. QED  BY <3>1, <3>2, Concatenated
    <2>4. Len(q) \in Nat
      BY <1>1
    <2>5. QED  BY <1>1, <2>2, <2>3, <2>4
  <1>5. ASSUME Waits
        PROVE  Stream = <<auth_msg>> /\ Stream' = <<>>
    <2>1. q = <<>> /\ Kept(got) = <<>>
      BY <1>5 DEF Waits, RecvType, Kept
    <2>2. QED  BY <1>2, <1>3, <2>1 DEF Stream
  <1>6. QED  BY <1>4, <1>5

-----------------------------------------------------------------------------
(* A text is of the name before it.                                        *)

(* A name and a text behind it are of one message.                         *)
Matches(a, b) ==
    a.part = "auth" /\ b.part = "msg" => a.of = b.of /\ a.from = b.from
Chained(s) == \A i \in 1 .. Len(s) - 1 : Matches(s[i], s[i + 1])

(* The texts of a peer are older than n: in a stream, among those taken.   *)
Below(s, p, n) ==
    \A i \in 1 .. Len(s) : s[i].part = "msg" /\ s[i].from = p => s[i].of < n
TakenBelow(t, p, n) ==
    \A j \in 1 .. Len(t) : t[j].msg.part = "msg" /\ t[j].msg.from = p => t[j].msg.of < n
InOrder(s) ==
    \A i, j \in 1 .. Len(s) :
        i < j /\ s[i].part = "msg" /\ s[j].part = "msg" /\ s[i].from = s[j].from
            => s[i].of < s[j].of

(* Names and texts take turns, a name first.                               *)
Alternates(s) ==
    /\ s # <<>> => s[1].part = "auth"
    /\ \A i \in 1 .. Len(s) - 1 : s[i].part = "auth" <=> s[i + 1].part = "msg"
EndsInName(s) == s # <<>> /\ s[Len(s)].part = "auth"

(* A text comes behind its name, unless there is no room or a task above   *)
(* its own is between its two posts.                                       *)
ChainInv ==
    /\ Chained(Stream)
    /\ \A p \in Peer : MidPair(p) /\ RecvRuns(p) =>
          Full \/ Stream = <<>> \/ Matches(Stream[Len(Stream)], recv_msg[p])

(* The texts of a peer are in the order they came: those taken, those in   *)
(* the stream, the one to be posted, those still to come.                  *)
OrderInv ==
    /\ InOrder(Stream)
    /\ \A i \in 1 .. Len(Stream) :
          Stream[i].part = "msg" => TakenBelow(taken, Stream[i].from, Stream[i].of)
    /\ \A p \in Peer : Below(Stream, p, received + 1) /\ TakenBelow(taken, p, received + 1)
    /\ \A p \in Peer : MidPair(p) =>
          /\ recv_msg[p].of <= received
          /\ Below(Stream, p, recv_msg[p].of) /\ TakenBelow(taken, p, recv_msg[p].of)

(* While nothing may have been parted, the stream is names with their      *)
(* texts, but for the text that a task is about to post.                   *)
WholeInv == ~torn =>
    /\ Alternates(Stream)
    /\ EndsInName(Stream) <=> \E p \in Peer : MidPair(p)
    /\ \A p, q \in Peer : MidPair(p) /\ MidPair(q) => p = q

(* The same of what was taken.                                             *)
TakenInv ==
    \A i \in 1 .. Len(taken) :
        /\ Carried(taken[i]) => /\ taken[i].auth.of = taken[i].msg.of
                                /\ taken[i].auth.from = taken[i].msg.from
        /\ ~taken[i].torn => Carried(taken[i])
        /\ \A j \in 1 .. i - 1 :
              taken[i].msg.part = "msg" /\ taken[j].msg.part = "msg"
              /\ taken[j].msg.from = taken[i].msg.from
                  => taken[j].msg.of < taken[i].msg.of

PairInv == RecvType /\ ChainInv /\ OrderInv /\ WholeInv /\ TakenInv

(* What is put at the end.                                                 *)
LEMMA AfterAppend ==
  ASSUME NEW s \in Seq(HandleBuffer), NEW b \in HandleBuffer
  PROVE  LET t == Append(s, b)
         IN  /\ Chained(s) /\ (s = <<>> \/ Matches(s[Len(s)], b)) => Chained(t)
             /\ InOrder(s) /\ (b.part = "msg" => Below(s, b.from, b.of)) => InOrder(t)
             /\ \A p \in Peer, n \in Nat :
                   Below(s, p, n) /\ (b.part = "msg" /\ b.from = p => b.of < n)
                       => Below(t, p, n)
             /\ Alternates(s) /\ (EndsInName(s) <=> b.part = "msg") => Alternates(t)
             /\ EndsInName(t) <=> b.part = "auth"
  <1> DEFINE t == Append(s, b)
  <1>1. /\ t \in Seq(HandleBuffer) /\ Len(t) = Len(s) + 1 /\ t[Len(s) + 1] = b
        /\ Len(s) \in Nat
    OBVIOUS
  <1>2. \A i \in 1 .. Len(s) : t[i] = s[i]
    OBVIOUS
  <1>3. \A i \in 1 .. Len(s) : s[i] \in HandleBuffer
    OBVIOUS
  <1>4. s = <<>> <=> Len(s) = 0
    OBVIOUS
  <1>0. t # <<>>
    BY <1>1
  <1> HIDE DEF t
  <1>5. ASSUME Chained(s), s = <<>> \/ Matches(s[Len(s)], b)
        PROVE  Chained(t)
    <2> SUFFICES ASSUME NEW i \in 1 .. Len(s) PROVE Matches(t[i], t[i + 1])
      BY <1>1 DEF Chained
    <2>1. CASE i < Len(s)
      BY <1>1, <1>2, <1>5, <2>1 DEF Chained
    <2>2. CASE i = Len(s)
      BY <1>1, <1>2, <1>4, <1>5, <2>2
    <2>3. QED  BY <1>1, <2>1, <2>2
  <1>6. ASSUME InOrder(s), b.part = "msg" => Below(s, b.from, b.of)
        PROVE  InOrder(t)
    BY <1>1, <1>2, <1>6 DEF InOrder, Below
  <1>7. ASSUME NEW p \in Peer, NEW n \in Nat, Below(s, p, n),
               b.part = "msg" /\ b.from = p => b.of < n
        PROVE  Below(t, p, n)
    BY <1>1, <1>2, <1>7 DEF Below
  <1>8. ASSUME Alternates(s), EndsInName(s) <=> b.part = "msg"
        PROVE  Alternates(t)
    <2>1. b.part \in {"auth", "msg"}
      BY DEF HandleBuffer
    <2>2. t[1].part = "auth"
      <3>1. CASE s = <<>>
        BY <1>1, <1>4, <1>8, <2>1, <3>1 DEF EndsInName
      <3>2. CASE s # <<>>
        BY <1>1, <1>2, <1>4, <1>8, <3>2 DEF Alternates
      <3>3. QED  BY <3>1, <3>2
    <2>3. ASSUME NEW i \in 1 .. Len(s)
          PROVE  t[i].part = "auth" <=> t[i + 1].part = "msg"
      <3>1. CASE i < Len(s)
        BY <1>1, <1>2, <1>8, <3>1 DEF Alternates
      <3>2. CASE i = Len(s)
        BY <1>1, <1>2, <1>4, <1>8, <3>2 DEF EndsInName
      <3>3. QED  BY <1>1, <3>1, <3>2
    <2>4. QED  BY <1>1, <2>2, <2>3 DEF Alternates
  <1>9. EndsInName(t) <=> b.part = "auth"
    BY <1>0, <1>1 DEF EndsInName
  <1>10. QED  BY <1>5, <1>6, <1>7, <1>8, <1>9 DEF t

(* What is left when the first two are taken.                              *)
LEMMA AfterTake ==
  ASSUME NEW s \in Seq(HandleBuffer), NEW t \in Seq(HandleBuffer), Len(s) >= 2,
         Len(t) = Len(s) - 2, \A i \in 1 .. Len(t) : t[i] = s[i + 2]
  PROVE  /\ Chained(s) => Chained(t)
         /\ InOrder(s) => InOrder(t)
         /\ \A p \in Peer, n \in Nat : Below(s, p, n) => Below(t, p, n)
         /\ Alternates(s) => /\ s[1].part = "auth" /\ s[2].part = "msg"
                             /\ Alternates(t) /\ (EndsInName(t) <=> EndsInName(s))
  <1>1. /\ Len(s) \in Nat /\ Len(t) \in Nat /\ s # <<>>
        /\ t = <<>> <=> Len(t) = 0
    OBVIOUS
  <1>2. \A i \in 1 .. Len(s) : s[i].part \in {"auth", "msg"}
    <2>1. \A i \in 1 .. Len(s) : s[i] \in HandleBuffer
      OBVIOUS
    <2>2. \A b \in HandleBuffer : b.part \in {"auth", "msg"}
      BY DEF HandleBuffer
    <2>3. QED  BY <2>1, <2>2
  <1>3. Chained(s) => Chained(t)
    <2> SUFFICES ASSUME Chained(s), NEW i \in 1 .. Len(t) - 1
                 PROVE  Matches(t[i], t[i + 1])
      BY DEF Chained
    <2>1. /\ i \in 1 .. Len(t) /\ i + 1 \in 1 .. Len(t)
          /\ i + 2 \in 1 .. Len(s) - 1 /\ (i + 1) + 2 = (i + 2) + 1
      BY <1>1
    <2>2. t[i] = s[i + 2] /\ t[i + 1] = s[(i + 1) + 2]
      BY <2>1
    <2>3. Matches(s[i + 2], s[(i + 2) + 1])
      BY <2>1 DEF Chained
    <2>4. QED  BY <2>1, <2>2, <2>3
  <1>4. InOrder(s) => InOrder(t)
    <2> SUFFICES ASSUME InOrder(s), NEW i \in 1 .. Len(t), NEW j \in 1 .. Len(t),
                        i < j, t[i].part = "msg", t[j].part = "msg",
                        t[i].from = t[j].from
                 PROVE  t[i].of < t[j].of
      BY DEF InOrder
    <2>1. t[i] = s[i + 2] /\ t[j] = s[j + 2]
      OBVIOUS
    <2>2. i + 2 < j + 2 /\ i + 2 \in 1 .. Len(s) /\ j + 2 \in 1 .. Len(s)
      BY <1>1, SMTT(30)
    <2>3. QED  BY <2>1, <2>2 DEF InOrder
  <1>5. ASSUME NEW p \in Peer, NEW n \in Nat, Below(s, p, n)
        PROVE  Below(t, p, n)
    <2> SUFFICES ASSUME NEW i \in 1 .. Len(t), t[i].part = "msg", t[i].from = p
                 PROVE  t[i].of < n
      BY DEF Below
    <2>1. t[i] = s[i + 2] /\ i + 2 \in 1 .. Len(s)
      BY <1>1
    <2>2. QED  BY <1>5, <2>1 DEF Below
  <1>6. ASSUME Alternates(s)
        PROVE  /\ s[1].part = "auth" /\ s[2].part = "msg"
               /\ Alternates(t) /\ (EndsInName(t) <=> EndsInName(s))
    <2>1. s[1].part = "auth" /\ s[2].part = "msg"
      BY <1>1, <1>6 DEF Alternates
    <2>2. t # <<>> => t[1].part = "auth"
      <3> SUFFICES ASSUME t # <<>> PROVE t[1].part = "auth"
        OBVIOUS
      <3>1. t[1] = s[3] /\ 2 \in 1 .. Len(s) - 1 /\ 3 \in 1 .. Len(s)
        BY <1>1
      <3>2. s[2].part = "auth" <=> s[2 + 1].part = "msg"
        BY <1>6, <3>1 DEF Alternates
      <3>3. QED  BY <1>2, <2>1, <3>1, <3>2
    <2>3. ASSUME NEW i \in 1 .. Len(t) - 1
          PROVE  t[i].part = "auth" <=> t[i + 1].part = "msg"
      <3>1. i \in 1 .. Len(t) /\ i + 1 \in 1 .. Len(t) /\ i + 2 \in 1 .. Len(s) - 1
            /\ (i + 2) + 1 = (i + 1) + 2
        BY <1>1
      <3>2. t[i] = s[i + 2] /\ t[i + 1] = s[(i + 1) + 2]
        BY <3>1
      <3>3. s[i + 2].part = "auth" <=> s[(i + 2) + 1].part = "msg"
        BY <1>6, <3>1 DEF Alternates
      <3>4. QED  BY <3>1, <3>2, <3>3
    <2>4. EndsInName(t) <=> EndsInName(s)
      <3>1. CASE t = <<>>
        <4>1. Len(t) = 0
          BY <1>1, <3>1
        <4>2. Len(s) = 2
          BY <1>1, <4>1
        <4>3. QED  BY <2>1, <3>1, <4>2 DEF EndsInName
      <3>2. CASE t # <<>>
        <4>1. t[Len(t)] = s[Len(s)]
          BY <1>1, <3>2
        <4>2. QED  BY <1>1, <3>2, <4>1 DEF EndsInName
      <3>3. QED  BY <3>1, <3>2
    <2>5. QED  BY <2>1, <2>2, <2>3, <2>4 DEF Alternates
  <1>7. QED  BY <1>3, <1>4, <1>5, <1>6

LEMMA BelowMore ==
  ASSUME RecvType, NEW s \in Seq(HandleBuffer), NEW p, NEW m \in Nat, NEW n \in Nat, m <= n
  PROVE  /\ Below(s, p, m) => Below(s, p, n)
         /\ TakenBelow(taken, p, m) => TakenBelow(taken, p, n)
  <1>1. \A i \in 1 .. Len(s) : s[i].of \in Nat
    <2>1. \A i \in 1 .. Len(s) : s[i] \in HandleBuffer
      OBVIOUS
    <2>2. QED  BY <2>1 DEF HandleBuffer
  <1>2. \A j \in 1 .. Len(taken) : taken[j].msg.of \in Nat
    <2> DEFINE T == [auth : HandleBuffer, msg : HandleBuffer \union {None}, torn : BOOLEAN]
    <2>1. taken \in Seq(T)
      BY DEF RecvType
    <2>2. \A t \in T : t.msg.of \in Nat
      BY DEF HandleBuffer, None
    <2> HIDE DEF T
    <2>3. \A j \in 1 .. Len(taken) : taken[j] \in T
      BY <2>1
    <2>4. QED  BY <2>2, <2>3
  <1>3. QED  BY <1>1, <1>2 DEF Below, TakenBelow

(* The name is posted: it goes to the end or nowhere, and whoever is       *)
(* between its posts has to wait.                                          *)
LEMMA ReceivePairInv ==
  ASSUME PairInv, NEW p \in Peer, NEW text \in Text, Receive(p, text)
  PROVE  ChainInv' /\ OrderInv' /\ WholeInv' /\ TakenInv'
  <1> DEFINE n == received + 1
             b == Name(n, p)
  <1>1. RecvType /\ Stream \in Seq(HandleBuffer)
    BY StreamType DEF PairInv
  <1>2. /\ n \in Nat /\ b \in HandleBuffer /\ b.part = "auth"
        /\ b.of = n /\ b.from = p
        /\ Message(n, p, text).of = n /\ Message(n, p, text).from = p
        /\ Message(n, p, text) # None
    <2>1. n \in Nat
      BY <1>1 DEF RecvType
    <2>2. QED  BY <2>1, NewBuffers, NoneIsNoBuffer
  <1>3. /\ PostPart(b) /\ UNCHANGED <<waiting, auth_msg, taken>> /\ received' = n
        /\ recv_msg' = [recv_msg EXCEPT ![p] = Message(n, p, text)]
        /\ RecvRuns(p) /\ ~MidPair(p)
        /\ TornIf(Full \/ \E q \in Peer : MidPair(q))
    BY DEF Receive, handleVars
  <1>4. /\ Full => Stream' = Stream /\ Full'
        /\ ~Full => Stream' = Append(Stream, b)
    <2> HIDE DEF b
    <2>1. QED  BY <1>1, <1>2, <1>3, StreamPost
  <1>5. /\ MidPair(p)' /\ recv_msg'[p] = Message(n, p, text)
        /\ \A q \in Peer : q # p => recv_msg'[q] = recv_msg[q]
        /\ \A q \in Peer : q # p => (MidPair(q)' <=> MidPair(q))
    BY <1>1, <1>2, <1>3 DEF RecvType, MidPair
  <1>6. \A q \in Peer : q # p /\ MidPair(q) => ~RecvRuns(q)'
    BY <1>3, <1>5 DEF RecvRuns, RecvPrio, Peer
  <1>7. Stream' \in Seq(HandleBuffer)
    BY <1>1, <1>2, <1>4
  <1>8. ~Full => Stream' # <<>> /\ Stream'[Len(Stream')] = b
    BY <1>1, <1>2, <1>4
  <1> HIDE DEF n, b
  <1>9. ChainInv'
    <2>1. Chained(Stream')
      <3>1. Stream = <<>> \/ Matches(Stream[Len(Stream)], b)
        BY <1>2 DEF Matches
      <3>2. QED  BY <1>1, <1>2, <1>4, <3>1, AfterAppend DEF PairInv, ChainInv
    <2>2. ~Full => Matches(Stream'[Len(Stream')], recv_msg'[p])
      BY <1>2, <1>5, <1>8 DEF Matches
    <2>3. QED  BY <1>4, <1>5, <1>6, <2>1, <2>2 DEF ChainInv
  <1>10. OrderInv'
    <2>1. InOrder(Stream')
      BY <1>1, <1>2, <1>4, AfterAppend DEF PairInv, OrderInv
    <2>2. \A q \in Peer, m \in Nat : Below(Stream, q, m) => Below(Stream', q, m)
      BY <1>1, <1>2, <1>4, AfterAppend
    <2>3. taken' = taken
      BY <1>3
    <2>4. \A q \in Peer : Below(Stream, q, n) /\ TakenBelow(taken, q, n)
      BY DEF PairInv, OrderInv, n
    <2>5. ASSUME NEW i \in 1 .. Len(Stream'), Stream'[i].part = "msg"
          PROVE  TakenBelow(taken', Stream'[i].from, Stream'[i].of)
      <3>1. i \in 1 .. Len(Stream) /\ Stream'[i] = Stream[i]
        BY <1>1, <1>2, <1>4, <2>5
      <3>2. QED  BY <1>3, <2>5, <3>1 DEF PairInv, OrderInv, TakenBelow
    <2>6. ASSUME NEW q \in Peer
          PROVE  Below(Stream', q, received' + 1) /\ TakenBelow(taken', q, received' + 1)
      <3>1. received' + 1 \in Nat /\ n <= received' + 1
        BY <1>2, <1>3
      <3>2. Below(Stream', q, n) /\ TakenBelow(taken, q, n)
        BY <1>2, <2>2, <2>4
      <3>3. Below(Stream', q, received' + 1) /\ TakenBelow(taken, q, received' + 1)
        BY <1>1, <1>2, <1>7, <3>1, <3>2, BelowMore
      <3>4. QED  BY <2>3, <3>1, <3>3
    <2>7. ASSUME NEW q \in Peer, MidPair(q)'
          PROVE  /\ recv_msg'[q].of <= received'
                 /\ Below(Stream', q, recv_msg'[q].of) /\ TakenBelow(taken', q, recv_msg'[q].of)
      <3>1. CASE q = p
        BY <1>2, <1>3, <1>5, <2>2, <2>3, <2>4, <3>1
      <3>2. CASE q # p
        <4>1. recv_msg[q].of \in Nat /\ received \in Nat
          BY <1>1 DEF RecvType, HandleBuffer, None
        <4>2. /\ recv_msg[q].of <= received
              /\ Below(Stream, q, recv_msg[q].of) /\ TakenBelow(taken, q, recv_msg[q].of)
          BY <1>5, <2>7, <3>2 DEF PairInv, OrderInv
        <4>3. received <= received'
          BY <1>3, <4>1 DEF n
        <4>4. QED  BY <1>3, <1>2, <1>5, <2>2, <2>3, <3>2, <4>1, <4>2, <4>3
      <3>3. QED  BY <3>1, <3>2
    <2>8. QED  BY <2>1, <2>5, <2>6, <2>7 DEF OrderInv
  <1>11. WholeInv'
    <2> SUFFICES ASSUME ~torn'
                 PROVE  /\ Alternates(Stream')
                        /\ EndsInName(Stream') <=> \E q \in Peer : MidPair(q)'
                        /\ \A q, r \in Peer : MidPair(q)' /\ MidPair(r)' => q = r
      BY DEF WholeInv
    <2>1. ~torn /\ ~Full /\ \A q \in Peer : ~MidPair(q)
      BY <1>3, <1>5 DEF TornIf, Quiet
    <2>2. Alternates(Stream) /\ ~EndsInName(Stream)
      BY <2>1 DEF PairInv, WholeInv
    <2>3. Alternates(Stream') /\ EndsInName(Stream')
      BY <1>1, <1>2, <1>4, <2>1, <2>2, AfterAppend
    <2>4. QED  BY <1>5, <2>1, <2>3
  <1>12. TakenInv'
    BY <1>3 DEF PairInv, TakenInv
  <1>13. QED  BY <1>9, <1>10, <1>11, <1>12

(* The text is posted: it goes behind its name, or nowhere.                *)
LEMMA PostTextPairInv ==
  ASSUME PairInv, NEW p \in Peer, PostText(p)
  PROVE  ChainInv' /\ OrderInv' /\ WholeInv' /\ TakenInv'
  <1> DEFINE b == recv_msg[p]
  <1>1. RecvType /\ Stream \in Seq(HandleBuffer)
    BY StreamType DEF PairInv
  <1>2. /\ b \in HandleBuffer /\ b.part = "msg" /\ b.from = p /\ b.of \in Nat
        /\ RecvRuns(p) /\ MidPair(p)
    BY <1>1 DEF PostText, RecvType, MidPair, HandleBuffer
  <1>3. /\ PostPart(b) /\ UNCHANGED <<waiting, auth_msg, taken, received, pc>>
        /\ recv_msg' = [recv_msg EXCEPT ![p] = None]
        /\ TornIf(Full)
    BY DEF PostText, handleVars
  <1>4. /\ Full => Stream' = Stream /\ Full'
        /\ ~Full => Stream' = Append(Stream, b)
    <2> HIDE DEF b
    <2>1. QED  BY <1>1, <1>2, <1>3, StreamPost
  <1>5. /\ ~MidPair(p)'
        /\ \A q \in Peer : q # p => recv_msg'[q] = recv_msg[q]
        /\ \A q \in Peer : q # p => (MidPair(q)' <=> MidPair(q))
    BY <1>1, <1>3 DEF RecvType, MidPair
  <1>7. Stream' \in Seq(HandleBuffer)
    BY <1>1, <1>2, <1>4
  <1>8. ~Full => Stream' # <<>> /\ Stream'[Len(Stream')] = b
    BY <1>1, <1>2, <1>4
  <1>6. /\ Full \/ Stream = <<>> \/ Matches(Stream[Len(Stream)], b)
        /\ Below(Stream, p, b.of) /\ TakenBelow(taken, p, b.of) /\ b.of <= received
    BY <1>2 DEF PairInv, ChainInv, OrderInv
  <1> HIDE DEF b
  <1>9. ChainInv'
    <2>1. Chained(Stream')
      BY <1>1, <1>2, <1>4, <1>6, AfterAppend DEF PairInv, ChainInv
    <2>2. \A q \in Peer : ~Full => Matches(Stream'[Len(Stream')], recv_msg'[q])
      BY <1>2, <1>8 DEF Matches
    <2>3. QED  BY <1>4, <2>1, <2>2 DEF ChainInv
  <1>10. OrderInv'
    <2>1. InOrder(Stream')
      BY <1>1, <1>2, <1>4, <1>6, AfterAppend DEF PairInv, OrderInv
    <2>2. \A q \in Peer, m \in Nat :
             Below(Stream, q, m) /\ (q = p => b.of < m) => Below(Stream', q, m)
      BY <1>1, <1>2, <1>4, AfterAppend
    <2>3. taken' = taken /\ received' = received /\ received \in Nat
      BY <1>1, <1>3 DEF RecvType
    <2>5. ASSUME NEW i \in 1 .. Len(Stream'), Stream'[i].part = "msg"
          PROVE  TakenBelow(taken', Stream'[i].from, Stream'[i].of)
      <3>1. CASE i \in 1 .. Len(Stream) /\ Stream'[i] = Stream[i]
        BY <2>3, <2>5, <3>1 DEF PairInv, OrderInv
      <3>2. CASE Stream'[i] = b
        BY <1>2, <1>6, <2>3, <3>2
      <3>3. QED  BY <1>1, <1>2, <1>4, <3>1, <3>2
    <2>6. ASSUME NEW q \in Peer
          PROVE  Below(Stream', q, received' + 1) /\ TakenBelow(taken', q, received' + 1)
      <3>1. received + 1 \in Nat /\ b.of < received + 1
        BY <1>2, <1>6, <2>3
      <3>2. Below(Stream, q, received + 1) /\ TakenBelow(taken, q, received + 1)
        BY DEF PairInv, OrderInv
      <3>3. QED  BY <2>2, <2>3, <3>1, <3>2
    <2>7. ASSUME NEW q \in Peer, MidPair(q)'
          PROVE  /\ recv_msg'[q].of <= received'
                 /\ Below(Stream', q, recv_msg'[q].of)
                 /\ TakenBelow(taken', q, recv_msg'[q].of)
      <3>1. q # p /\ recv_msg'[q] = recv_msg[q] /\ MidPair(q)
        BY <1>5, <2>7
      <3>2. recv_msg[q].of \in Nat
        BY <1>1 DEF RecvType, HandleBuffer, None
      <3>3. /\ recv_msg[q].of <= received
            /\ Below(Stream, q, recv_msg[q].of) /\ TakenBelow(taken, q, recv_msg[q].of)
        BY <3>1 DEF PairInv, OrderInv
      <3>4. QED  BY <2>2, <2>3, <3>1, <3>2, <3>3
    <2>8. QED  BY <2>1, <2>5, <2>6, <2>7 DEF OrderInv
  <1>11. WholeInv'
    <2> SUFFICES ASSUME ~torn'
                 PROVE  /\ Alternates(Stream')
                        /\ EndsInName(Stream') <=> \E q \in Peer : MidPair(q)'
                        /\ \A q, r \in Peer : MidPair(q)' /\ MidPair(r)' => q = r
      BY DEF WholeInv
    <2>1. CASE Quiet'
      <3>1. tcp_handle_event' = <<>> /\ Kept(got)' = <<>> /\ Kept(auth_msg)' = <<>>
        BY <1>1, <1>3, <2>1 DEF Quiet, Kept, RecvType
      <3>2. Stream' = <<>>
        BY <3>1 DEF Stream
      <3>3. QED  BY <2>1, <3>2 DEF Quiet, Alternates, EndsInName
    <2>2. CASE ~torn /\ ~Full
      <3>1. /\ Alternates(Stream) /\ EndsInName(Stream)
            /\ \A q \in Peer : ~MidPair(q)'
        BY <1>2, <1>5, <2>2 DEF PairInv, WholeInv
      <3>2. Alternates(Stream') /\ ~EndsInName(Stream')
        BY <1>1, <1>2, <1>4, <2>2, <3>1, AfterAppend
      <3>3. QED  BY <3>1, <3>2
    <2>3. QED  BY <1>3, <2>1, <2>2 DEF TornIf
  <1>12. TakenInv'
    BY <1>3 DEF PairInv, TakenInv
  <1>13. QED  BY <1>9, <1>10, <1>11, <1>12

LEMMA HandleAlone == HandleRuns => \A p \in Peer : ~MidPair(p)
  BY DEF HandleRuns, HandlePrio, RecvPrio, Peer

(* A pend takes the oldest buffer into a pointer: nothing moves.           *)
LEMMA SamePairInv ==
  ASSUME PairInv, Pend \/ TakeAuth \/ UNCHANGED recvPathVars
  PROVE  ChainInv' /\ OrderInv' /\ WholeInv' /\ TakenInv'
  <1>1. RecvType
    BY DEF PairInv
  <1>2. /\ Stream' = Stream /\ UNCHANGED <<recv_msg, received, taken, torn>>
        /\ (\A p \in Peer : ~MidPair(p)) \/ UNCHANGED <<tcp_handle_event, waiting, got>>
    <2>1. CASE Pend
      BY <1>1, <2>1, StreamPend, HandleAlone DEF Pend
    <2>2. CASE TakeAuth
      BY <1>1, <2>2, StreamTakeAuth, HandleAlone DEF TakeAuth
    <2>3. CASE UNCHANGED recvPathVars
      BY <2>3 DEF recvPathVars, handleVars, Stream, Kept
    <2>4. QED  BY <2>1, <2>2, <2>3
  <1>3. ChainInv'
    BY <1>2 DEF PairInv, ChainInv, MidPair, RecvRuns, Full, Waits
  <1>4. OrderInv'
    BY <1>2 DEF PairInv, OrderInv, MidPair
  <1>5. WholeInv'
    BY <1>2 DEF PairInv, WholeInv, MidPair
  <1>6. TakenInv'
    BY <1>2 DEF PairInv, TakenInv
  <1>7. QED  BY <1>3, <1>4, <1>5, <1>6

(* The oldest two are taken, or a name that nothing follows.               *)
LEMMA TakePairInv ==
  ASSUME PairInv, TakeMsg \/ Timeout
  PROVE  ChainInv' /\ OrderInv' /\ WholeInv' /\ TakenInv'
  <1> DEFINE m == IF TakeMsg THEN got ELSE None
             new == [auth |-> auth_msg, msg |-> m, torn |-> torn]
  <1>1. RecvType /\ Stream \in Seq(HandleBuffer)
    BY StreamType DEF PairInv
  <1>2. /\ pc = "msg" /\ Take(m) /\ TornIf(FALSE)
        /\ \A p \in Peer : ~MidPair(p)
        /\ \/ got # None /\ m = got
           \/ Waits /\ m = None
    BY HandleAlone DEF TakeMsg, Timeout, Waits
  <1>3. UNCHANGED <<recv_msg, received>> /\ taken' = Append(taken, new)
    BY <1>2 DEF Take
  <1> HIDE DEF m
  <1>4. /\ got # None => /\ Len(Stream) >= 2 /\ Stream[1] = auth_msg /\ Stream[2] = got
                         /\ Len(Stream') = Len(Stream) - 2
                         /\ \A i \in 1 .. Len(Stream') : Stream'[i] = Stream[i + 2]
                         /\ Stream' \in Seq(HandleBuffer)
        /\ Waits => Stream = <<auth_msg>> /\ Stream' = <<>>
    BY <1>1, <1>2, StreamTake
  <1>5. \A p \in Peer : ~MidPair(p)'
    BY <1>2, <1>3 DEF MidPair
  <1>6. /\ Stream' \in Seq(HandleBuffer)
        /\ Chained(Stream') /\ InOrder(Stream')
        /\ \A q \in Peer, k \in Nat : Below(Stream, q, k) => Below(Stream', q, k)
    <2>1. CASE got # None
      BY <1>1, <1>4, <2>1, AfterTake DEF PairInv, ChainInv, OrderInv
    <2>2. CASE Stream' = <<>>
      BY <2>2 DEF Chained, InOrder, Below
    <2>3. QED  BY <1>2, <1>4, <2>1, <2>2
  <1>7. ChainInv'
    BY <1>5, <1>6 DEF ChainInv
  <1>8. /\ taken \in Seq([auth : HandleBuffer, msg : HandleBuffer \union {None}, torn : BOOLEAN])
        /\ Len(taken) \in Nat /\ Len(taken') = Len(taken) + 1
        /\ taken'[Len(taken) + 1] = new
        /\ \A j \in 1 .. Len(taken) : taken'[j] = taken[j]
    BY <1>1, <1>3 DEF RecvType
  <1>9. CASE got # None
    <2>1. /\ got \in HandleBuffer /\ auth_msg \in HandleBuffer /\ got.of \in Nat
          /\ got.from \in Peer /\ got.part \in {"auth", "msg"}
          /\ m = got /\ received \in Nat
      BY <1>1, <1>2, <1>9 DEF RecvType, HandleBuffer, Waits
    <2>2. \A q \in Peer, k \in Nat :
             /\ TakenBelow(taken, q, k)
             /\ got.part = "msg" /\ got.from = q => got.of < k
             => TakenBelow(taken', q, k)
      BY <1>8, <2>1 DEF TakenBelow
    <2>3. Matches(auth_msg, got)
      <3>1. Matches(Stream[1], Stream[1 + 1])
        BY <1>1, <1>4, <1>9 DEF PairInv, ChainInv, Chained
      <3>2. QED  BY <1>4, <1>9, <3>1
    <2>4. got.part = "msg" => TakenBelow(taken, got.from, got.of)
      <3>1. Stream[2].part = "msg" => TakenBelow(taken, Stream[2].from, Stream[2].of)
        BY <1>1, <1>4, <1>9 DEF PairInv, OrderInv
      <3>2. QED  BY <1>4, <1>9, <3>1
    <2>5. OrderInv'
      <3>1. ASSUME NEW i \in 1 .. Len(Stream'), Stream'[i].part = "msg"
            PROVE  TakenBelow(taken', Stream'[i].from, Stream'[i].of)
        <4>1. /\ Stream'[i] = Stream[i + 2] /\ i + 2 \in 1 .. Len(Stream)
              /\ 2 \in 1 .. Len(Stream) /\ 2 < i + 2 /\ Stream[2] = got
          BY <1>1, <1>4, <1>9
        <4>2. Stream[i + 2] \in HandleBuffer
          BY <1>1, <4>1
        <4>3. Stream[i + 2].from \in Peer /\ Stream[i + 2].of \in Nat
          BY <4>2 DEF HandleBuffer
        <4>4. TakenBelow(taken, Stream[i + 2].from, Stream[i + 2].of)
          BY <3>1, <4>1 DEF PairInv, OrderInv
        <4>5. got.part = "msg" /\ got.from = Stream[i + 2].from => got.of < Stream[i + 2].of
          BY <3>1, <4>1 DEF PairInv, OrderInv, InOrder
        <4>6. QED  BY <2>2, <4>1, <4>3, <4>4, <4>5
      <3>2. ASSUME NEW q \in Peer
            PROVE  Below(Stream', q, received' + 1) /\ TakenBelow(taken', q, received' + 1)
        <4>1. Below(Stream, q, received + 1) /\ TakenBelow(taken, q, received + 1)
          BY DEF PairInv, OrderInv
        <4>2. got.part = "msg" /\ got.from = q => got.of < received + 1
          BY <1>1, <1>4, <1>9, <4>1 DEF Below
        <4>3. received + 1 \in Nat /\ received' = received
          BY <1>3, <2>1
        <4>4. QED  BY <1>6, <2>2, <4>1, <4>2, <4>3
      <3>3. QED  BY <1>5, <1>6, <3>1, <3>2 DEF OrderInv
    <2>6. WholeInv'
      <3> SUFFICES ASSUME ~torn'
                   PROVE  /\ Alternates(Stream')
                          /\ EndsInName(Stream') <=> \E q \in Peer : MidPair(q)'
                          /\ \A q, r \in Peer : MidPair(q)' /\ MidPair(r)' => q = r
        BY DEF WholeInv
      <3>1. CASE Quiet'
        <4>1. tcp_handle_event' = <<>> /\ Kept(got)' = <<>> /\ Kept(auth_msg)' = <<>>
          BY <1>2, <3>1 DEF Quiet, Kept, Take
        <4>2. Stream' = <<>>
          BY <4>1 DEF Stream
        <4>3. QED  BY <1>5, <4>2 DEF Alternates, EndsInName
      <3>2. CASE ~torn
        <4>1. Alternates(Stream) /\ ~EndsInName(Stream)
          BY <1>2, <3>2 DEF PairInv, WholeInv
        <4>2. Alternates(Stream') /\ ~EndsInName(Stream')
          BY <1>1, <1>4, <1>9, <4>1, AfterTake
        <4>3. QED  BY <1>5, <4>2
      <3>3. QED  BY <1>2, <3>1, <3>2 DEF TornIf
    <2>7. ~torn => auth_msg.part = "auth" /\ got.part = "msg"
      <3>1. ~torn => Alternates(Stream)
        BY DEF PairInv, WholeInv
      <3>2. QED  BY <1>1, <1>4, <1>9, <3>1, AfterTake
    <2>8. TakenInv'
      <3>1. /\ new.auth = auth_msg /\ new.msg = got /\ new.torn = torn
        BY <2>1
      <3>2. ASSUME NEW i \in 1 .. Len(taken'), i # Len(taken) + 1
            PROVE  i \in 1 .. Len(taken) /\ \A j \in 1 .. i : taken'[j] = taken[j]
        BY <1>8, <3>2
      <3>3. QED
        BY <1>8, <2>3, <2>4, <2>7, <3>1, <3>2
        DEF PairInv, TakenInv, TakenBelow, Carried, Matches
    <2>9. QED  BY <1>7, <2>5, <2>6, <2>8
  <1>10. CASE Waits
    <2>1. m = None /\ Stream = <<auth_msg>> /\ Stream' = <<>>
      BY <1>2, <1>4, <1>10 DEF Waits
    <2>2. torn
      <3>1. auth_msg \in HandleBuffer
        BY <1>1, <1>2 DEF RecvType
      <3>2. ~torn => ~EndsInName(Stream) /\ Alternates(Stream)
        BY <1>2 DEF PairInv, WholeInv
      <3>3. Len(Stream) = 1 /\ Stream[1] = auth_msg /\ Stream # <<>>
        BY <1>1, <2>1
      <3>4. QED  BY <3>2, <3>3 DEF EndsInName, Alternates
    <2>3. \A q \in Peer, k \in Nat : TakenBelow(taken, q, k) => TakenBelow(taken', q, k)
      <3>1. new.msg.part = "none"
        BY <2>1 DEF None
      <3>2. QED  BY <1>8, <3>1 DEF TakenBelow
    <2>4. OrderInv'
      <3>1. received \in Nat
        BY <1>1 DEF RecvType
      <3>2. \A q \in Peer : TakenBelow(taken', q, received' + 1)
        BY <1>3, <2>3, <3>1 DEF PairInv, OrderInv
      <3>3. QED  BY <1>5, <2>1, <3>2 DEF OrderInv, InOrder, Below
    <2>5. WholeInv'
      BY <1>5, <2>1 DEF WholeInv, Alternates, EndsInName
    <2>6. TakenInv'
      <3>1. /\ new.msg.part = "none" /\ new.torn
        BY <2>1, <2>2 DEF None
      <3>2. ASSUME NEW i \in 1 .. Len(taken'), i # Len(taken) + 1
            PROVE  i \in 1 .. Len(taken) /\ \A j \in 1 .. i : taken'[j] = taken[j]
        BY <1>8, <3>2
      <3>3. QED
        BY <1>8, <3>1, <3>2 DEF PairInv, TakenInv, Carried
    <2>7. QED  BY <1>7, <2>4, <2>5, <2>6
  <1>11. QED  BY <1>2, <1>9, <1>10

LEMMA InitPairInv == Init => PairInv
  <1> SUFFICES ASSUME Init PROVE PairInv
    OBVIOUS
  <1>1. RecvType
    BY InitRecvType
  <1>2. Kept(auth_msg) = <<>> /\ Kept(got) = <<>> /\ tcp_handle_event = <<>>
        /\ taken = <<>> /\ \A p \in Peer : ~MidPair(p)
    BY DEF Init, RecvPathInit, Kept, MidPair
  <1>3. Stream = <<>>
    BY <1>2 DEF Stream
  <1>4. ChainInv /\ OrderInv /\ WholeInv /\ TakenInv
    BY <1>2, <1>3 DEF ChainInv, OrderInv, WholeInv, TakenInv, Chained, InOrder,
                      Alternates, EndsInName, Below, TakenBelow
  <1>5. QED  BY <1>1, <1>4 DEF PairInv

LEMMA StepPairInv == PairInv /\ [Next]_vars => PairInv'
  <1> SUFFICES ASSUME PairInv, [Next]_vars PROVE PairInv'
    OBVIOUS
  <1>1. RecvType'
    BY StepRecvType DEF PairInv
  <1>2. ChainInv' /\ OrderInv' /\ WholeInv' /\ TakenInv'
    <2>1. ASSUME NEW p \in Peer, NEW text \in Text, Receive(p, text)
          PROVE  ChainInv' /\ OrderInv' /\ WholeInv' /\ TakenInv'
      BY <2>1, ReceivePairInv
    <2>2. ASSUME NEW p \in Peer, PostText(p)
          PROVE  ChainInv' /\ OrderInv' /\ WholeInv' /\ TakenInv'
      BY <2>2, PostTextPairInv
    <2>3. CASE Pend \/ TakeAuth \/ UNCHANGED recvPathVars
      BY <2>3, SamePairInv
    <2>4. CASE TakeMsg \/ Timeout
      BY <2>4, TakePairInv
    <2>5. QED  BY <2>1, <2>2, <2>3, <2>4 DEF Next, RecvPathStep, vars
  <1>3. QED  BY <1>1, <1>2 DEF PairInv

(* The two properties of the way of a message, for queues of any size and  *)
(* any number of messages.                                                 *)
THEOREM PairsAlways == Spec => []PairInv
  <1>1. QED  BY InitPairInv, StepPairInv, PTL DEF Spec

(* A text is carried out as one of the peer that sent it, once and in the  *)
(* order of the texts of that peer, whatever tcp_handle_event refused.     *)
THEOREM HandledAsOwnHolds == Spec => []HandledAsOwn
  <1>1. PairInv => HandledAsOwn
    BY DEF PairInv, TakenInv, HandledAsOwn, Carried
  <1>2. QED  BY PairsAlways, <1>1, PTL

(* What is taken before a refusal or a preemption has parted a name and    *)
(* its text is one message.                                                *)
THEOREM PairsKeptHolds == Spec => []PairsKept
  <1>1. PairInv => PairsKept
    BY DEF PairInv, TakenInv, PairsKept
  <1>2. QED  BY PairsAlways, <1>1, PTL

-----------------------------------------------------------------------------
(* The parts between tcp_handle_task and dht11_task's pointers.            *)
PartBuffer == [part : {"auth", "msg1", "msg2"}, of : 1 .. Len(requests)]
InHand(b) == IF b = NoPart THEN <<>> ELSE <<b>>
Coming == InHand(dgot) \o dht11_event

DhtType ==
    /\ requests \in Seq([peer : Peer, sender : Peer, kind : Kind, id : STRING])
    /\ \A i \in 1 .. Len(requests) : requests[i].peer = requests[i].sender
    /\ dht11_event \in Seq(PartBuffer) /\ dgot \in PartBuffer \union {NoPart}
    /\ Len(dht11_event) <= DHT11SIZE
    /\ dwaiting \in BOOLEAN /\ (DhtWaits => dht11_event = <<>>)
    /\ msg \in PartBuffer \union {NoPart}
    /\ msg1 \in PartBuffer \union {NoPart}
    /\ msg2 \in PartBuffer \union {NoPart}
    /\ \/ dpc = "msg" /\ msg = NoPart /\ msg1 = NoPart
       \/ dpc = "msg1" /\ msg # NoPart /\ msg1 = NoPart
       \/ dpc = "msg2" /\ msg # NoPart /\ msg1 # NoPart
       \/ /\ dpc \in {"read", "free"} /\ dgot = NoPart /\ ~dwaiting
          /\ msg # NoPart /\ msg1 # NoPart /\ msg2 # NoPart

(* A part and the next one are of one request.                             *)
Follows(a, b) ==
    <<a.part, b.part>> \in {<<"auth", "msg1">>, <<"msg1", "msg2">>} => a.of = b.of
Linked(s) == \A i \in 1 .. Len(s) - 1 : Follows(s[i], s[i + 1])
Rising(s) ==
    \A i, j \in 1 .. Len(s) :
        i < j /\ s[i].part = "auth" /\ s[j].part = "auth" => s[i].of < s[j].of

LinkInv ==
    /\ Linked(Coming) /\ Rising(Coming)
    /\ dpc \in {"msg2", "read", "free"} => Follows(msg, msg1)
    /\ dpc \in {"read", "free"} => Follows(msg1, msg2)
    /\ Coming # <<>> => /\ dpc = "msg1" => Follows(msg, Coming[1])
                        /\ dpc = "msg2" => Follows(msg1, Coming[1])

(* What is answered is older than what may be answered yet.                *)
Answered(n) == \E j \in 1 .. Len(answers) : answers[j].of[1] >= n
FreshInv ==
    /\ \A i \in 1 .. Len(Coming) : Coming[i].part = "auth" =>
          /\ ~Answered(Coming[i].of)
          /\ msg.part = "auth" => msg.of < Coming[i].of
    /\ dpc # "free" /\ msg.part = "auth" => ~Answered(msg.of)

AnswerInv ==
    /\ AnswersAsker
    /\ answers \in Seq([to : Peer, kind : Kind, of : Seq(Nat)])
    /\ \A i \in 1 .. Len(answers) : answers[i].of[1] \in 1 .. Len(requests)

AskInv == DhtType /\ LinkInv /\ FreshInv /\ AnswerInv

-----------------------------------------------------------------------------
(* The buffers.                                                            *)

LEMMA NoPartIsNone ==
  /\ NoPart \notin PartBuffer /\ NoPart.part = "none"
  /\ \A b \in PartBuffer : b.part \in {"auth", "msg1", "msg2"} /\ b.of \in 1 .. Len(requests)
  BY DEF NoPart, PartBuffer

LEMMA ComingType == DhtType => Coming \in Seq(PartBuffer)
  <1> SUFFICES ASSUME DhtType PROVE Coming \in Seq(PartBuffer)
    OBVIOUS
  <1>1. InHand(dgot) \in Seq(PartBuffer)
    BY DEF InHand, DhtType
  <1>2. QED  BY <1>1 DEF Coming, DhtType

LEMMA InitDht == Init => AskInv
  <1> SUFFICES ASSUME Init PROVE AskInv
    OBVIOUS
  <1>1. /\ dht11_event = <<>> /\ requests = <<>> /\ answers = <<>> /\ dwaiting = FALSE
        /\ dgot = NoPart /\ dpc = "msg" /\ msg = NoPart /\ msg1 = NoPart /\ msg2 = NoPart
    BY DEF Init, Dht11Init
  <1>2. Coming = <<>>
    BY <1>1 DEF Coming, InHand
  <1>3. DhtType
    <2>1. Len(dht11_event) <= DHT11SIZE
      BY <1>1, DhtSizeAssumption
    <2>2. /\ <<>> \in Seq([peer : Peer, sender : Peer, kind : Kind, id : STRING])
          /\ <<>> \in Seq(PartBuffer) /\ Len(<<>>) = 0
      OBVIOUS
    <2>3. /\ requests \in Seq([peer : Peer, sender : Peer, kind : Kind, id : STRING])
          /\ dht11_event \in Seq(PartBuffer) /\ Len(requests) = 0
      BY <1>1, <2>2
    <2>4. \A i \in 1 .. Len(requests) : requests[i].peer = requests[i].sender
      BY <2>3
    <2>5. QED  BY <1>1, <2>1, <2>3, <2>4 DEF DhtType, DhtWaits
  <1>4. LinkInv /\ FreshInv /\ AnswerInv
    BY <1>1, <1>2 DEF LinkInv, FreshInv, AnswerInv, Linked, Rising, AnswersAsker,
                      Answered, NoPart
  <1>5. QED  BY <1>3, <1>4 DEF AskInv

(* OSQPend takes a part in hand: the parts that come are the same.         *)
LEMMA PendComing ==
  ASSUME DhtType, DhtPend
  PROVE  DhtType' /\ Coming' = Coming
  <1>1. CASE dht11_event = <<>>
    BY <1>1 DEF DhtPend, DhtType, DhtWaits, Coming, InHand, PartBuffer, pointers
  <1>2. CASE dht11_event # <<>>
    <2>1. /\ dht11_event \in Seq(PartBuffer)
          /\ Head(dht11_event) \in PartBuffer /\ Tail(dht11_event) \in Seq(PartBuffer)
          /\ Len(Tail(dht11_event)) = Len(dht11_event) - 1
      BY <1>2 DEF DhtType
    <2>2. /\ dgot = NoPart /\ dgot' = Head(dht11_event) /\ dht11_event' = Tail(dht11_event)
          /\ UNCHANGED <<dwaiting, dpc, msg, msg1, msg2, requests>> /\ ~dwaiting
          /\ dpc \in {"msg", "msg1", "msg2"}
      BY <1>2 DEF DhtPend, pointers
    <2>3. Coming' = Coming
      <3>1. Coming = <<>> \o dht11_event /\ Coming' = <<Head(dht11_event)>> \o Tail(dht11_event)
        BY <2>1, <2>2, NoPartIsNone DEF Coming, InHand
      <3>2. QED  BY <1>2, <2>1, <3>1
    <2>4. PartBuffer' = PartBuffer
      BY <2>2 DEF PartBuffer
    <2>5. Len(dht11_event') <= DHT11SIZE
      <3>1. Len(dht11_event) \in Nat /\ Len(dht11_event) <= DHT11SIZE
        BY <2>1 DEF DhtType
      <3>2. QED  BY <2>1, <2>2, <3>1, DhtSizeAssumption
    <2>6. DhtType'
      BY <2>1, <2>2, <2>4, <2>5, NoPartIsNone DEF DhtType, DhtWaits
    <2>7. QED  BY <2>3, <2>6
  <1>3. QED  BY <1>1, <1>2

(* The pend returns: the first of them goes into a pointer.                *)
LEMMA TakeComing ==
  ASSUME DhtType, DhtTake
  PROVE  /\ DhtType'
         /\ Len(Coming) >= 1 /\ Coming[1] = dgot /\ Len(Coming') = Len(Coming) - 1
         /\ \A i \in 1 .. Len(Coming') : Coming'[i] = Coming[i + 1]
  <1>1. /\ dgot \in PartBuffer /\ dht11_event \in Seq(PartBuffer)
        /\ dgot' = NoPart /\ dwaiting' = FALSE /\ UNCHANGED <<dht11_event, requests>>
    BY DEF DhtTake, DhtType
  <1>2. PartBuffer' = PartBuffer
    BY <1>1 DEF PartBuffer
  <1>3. DhtType'
    <2>1. \/ dpc' = "msg1" /\ msg' # NoPart /\ msg1' = NoPart
          \/ dpc' = "msg2" /\ msg' # NoPart /\ msg1' # NoPart
          \/ dpc' = "read" /\ msg' # NoPart /\ msg1' # NoPart /\ msg2' # NoPart
      BY <1>1, NoPartIsNone DEF DhtTake, DhtType
    <2>2. /\ msg' \in PartBuffer \union {NoPart}
          /\ msg1' \in PartBuffer \union {NoPart}
          /\ msg2' \in PartBuffer \union {NoPart}
      BY <1>1 DEF DhtTake, DhtType
    <2>3. QED  BY <1>1, <1>2, <2>1, <2>2 DEF DhtType, DhtWaits, DhtTake
  <1>4. Coming = <<dgot>> \o dht11_event /\ Coming' = <<>> \o dht11_event
    BY <1>1, NoPartIsNone DEF Coming, InHand
  <1>5. <<dgot>> \in Seq(PartBuffer) /\ Len(<<dgot>>) = 1 /\ <<dgot>>[1] = dgot
    BY <1>1
  <1>6. /\ Len(Coming) = 1 + Len(dht11_event) /\ Coming[1] = dgot
        /\ \A i \in 1 .. Len(dht11_event) : dht11_event[i] = Coming[i + 1]
        /\ Coming' = dht11_event /\ Len(dht11_event) \in Nat
    BY <1>1, <1>4, <1>5
  <1>7. QED  BY <1>3, <1>6

-----------------------------------------------------------------------------
(* dht11_task.                                                             *)

LEMMA PendAskInv == ASSUME AskInv, DhtPend PROVE AskInv'
  <1>1. /\ DhtType' /\ Coming' = Coming
        /\ UNCHANGED <<dpc, msg, msg1, msg2, requests, answers>>
    BY PendComing DEF AskInv, DhtPend, pointers
  <1>2. LinkInv'
    BY <1>1 DEF AskInv, LinkInv
  <1>3. FreshInv'
    BY <1>1 DEF AskInv, FreshInv, Answered
  <1>4. AnswerInv'
    BY <1>1 DEF AskInv, AnswerInv, AnswersAsker
  <1>5. QED  BY <1>1, <1>2, <1>3, <1>4 DEF AskInv

LEMMA TakeAskInv == ASSUME AskInv, DhtTake PROVE AskInv'
  <1>1. /\ DhtType /\ LinkInv /\ FreshInv /\ AnswerInv
        /\ Coming \in Seq(PartBuffer)
    BY ComingType DEF AskInv
  <1>2. /\ DhtType'
        /\ Len(Coming) >= 1 /\ Coming[1] = dgot /\ Len(Coming') = Len(Coming) - 1
        /\ \A i \in 1 .. Len(Coming') : Coming'[i] = Coming[i + 1]
        /\ UNCHANGED <<requests, answers>>
    BY <1>1, TakeComing DEF DhtTake
  <1>3. /\ Len(Coming) \in Nat /\ Coming # <<>>
        /\ \A i \in 1 .. Len(Coming) : Coming[i] \in PartBuffer
    BY <1>1, <1>2
  <1>4. Coming' \in Seq(PartBuffer)
    <2>1. Coming' = dht11_event
      <3>1. dgot' = NoPart /\ dht11_event' = dht11_event /\ dht11_event \in Seq(PartBuffer)
        BY <1>1 DEF DhtTake, DhtType
      <3>2. Coming' = <<>> \o dht11_event
        BY <3>1 DEF Coming, InHand
      <3>3. QED  BY <3>1, <3>2
    <2>2. QED  BY <1>1, <2>1 DEF DhtType
  <1>5. Linked(Coming') /\ Rising(Coming')
    <2>1. ASSUME NEW i \in 1 .. Len(Coming') - 1
          PROVE  Follows(Coming'[i], Coming'[i + 1])
      <3>1. /\ i \in 1 .. Len(Coming') /\ i + 1 \in 1 .. Len(Coming')
            /\ i + 1 \in 1 .. Len(Coming) - 1
        BY <1>2, <1>3
      <3>2. Coming'[i] = Coming[i + 1] /\ Coming'[i + 1] = Coming[(i + 1) + 1]
        BY <1>2, <3>1
      <3>3. QED  BY <1>1, <3>1, <3>2 DEF LinkInv, Linked
    <2>2. ASSUME NEW i \in 1 .. Len(Coming'), NEW j \in 1 .. Len(Coming'), i < j,
                 Coming'[i].part = "auth", Coming'[j].part = "auth"
          PROVE  Coming'[i].of < Coming'[j].of
      <3>1. /\ i + 1 \in 1 .. Len(Coming) /\ j + 1 \in 1 .. Len(Coming) /\ i + 1 < j + 1
        <4>1. Len(Coming') = Len(Coming) - 1 /\ Len(Coming) \in Nat
          BY <1>2, <1>3
        <4>2. QED  BY <2>2, <4>1
      <3>2. Coming'[i] = Coming[i + 1] /\ Coming'[j] = Coming[j + 1]
        BY <1>2
      <3>3. QED  BY <1>1, <2>2, <3>1, <3>2 DEF LinkInv, Rising
    <2>3. QED  BY <2>1, <2>2 DEF Linked, Rising
  <1>6. Coming' # <<>> => Follows(dgot, Coming'[1])
    <2> SUFFICES ASSUME Coming' # <<>> PROVE Follows(dgot, Coming'[1])
      OBVIOUS
    <2>1. 1 \in 1 .. Len(Coming') /\ 1 \in 1 .. Len(Coming) - 1
      BY <1>2, <1>3, <1>4
    <2>2. Follows(Coming[1], Coming[1 + 1])
      BY <1>1, <2>1 DEF LinkInv, Linked
    <2>3. QED  BY <1>2, <2>1, <2>2
  <1>7. \/ dpc = "msg" /\ dpc' = "msg1" /\ msg' = dgot /\ UNCHANGED <<msg1, msg2>>
        \/ dpc = "msg1" /\ dpc' = "msg2" /\ msg1' = dgot /\ UNCHANGED <<msg, msg2>>
        \/ dpc = "msg2" /\ dpc' = "read" /\ msg2' = dgot /\ UNCHANGED <<msg, msg1>>
    BY DEF DhtTake
  <1>8. LinkInv'
    <2>1. \/ dpc' = "msg1" /\ msg' = dgot
          \/ dpc' = "msg2" /\ msg1' = dgot /\ msg' = msg /\ Follows(msg, dgot)
          \/ /\ dpc' = "read" /\ msg2' = dgot /\ UNCHANGED <<msg, msg1>>
             /\ Follows(msg, msg1) /\ Follows(msg1, dgot)
      BY <1>1, <1>2, <1>3, <1>7 DEF LinkInv
    <2>2. QED  BY <1>5, <1>6, <2>1 DEF LinkInv
  <1>9. FreshInv'
    <2>1. \A n : Answered(n)' <=> Answered(n)
      BY <1>2 DEF Answered
    <2>2. ASSUME NEW i \in 1 .. Len(Coming'), Coming'[i].part = "auth"
          PROVE  /\ i + 1 \in 1 .. Len(Coming) /\ Coming'[i] = Coming[i + 1] /\ 1 < i + 1
                 /\ 1 \in 1 .. Len(Coming)
                 /\ Coming[i + 1].part = "auth"
      BY <1>2, <1>3, <2>2
    <2>3. ASSUME NEW i \in 1 .. Len(Coming'), Coming'[i].part = "auth"
          PROVE  /\ ~(\E j \in 1 .. Len(answers') : answers'[j].of[1] >= Coming'[i].of)
                 /\ msg'.part = "auth" => msg'.of < Coming'[i].of
      <3>1. ~Answered(Coming[i + 1].of) /\ (msg.part = "auth" => msg.of < Coming[i + 1].of)
        BY <1>1, <2>2, <2>3 DEF FreshInv
      <3>2. dgot.part = "auth" => dgot.of < Coming[i + 1].of
        BY <1>1, <1>2, <2>2, <2>3 DEF LinkInv, Rising
      <3>3. QED  BY <1>2, <1>7, <2>2, <2>3, <3>1, <3>2 DEF Answered
    <2>4. ASSUME msg'.part = "auth"
          PROVE  ~(\E j \in 1 .. Len(answers') : answers'[j].of[1] >= msg'.of)
      <3>1. dgot.part = "auth" => ~Answered(dgot.of)
        BY <1>1, <1>2, <1>3 DEF FreshInv
      <3>2. dpc # "free" /\ msg.part = "auth" => ~Answered(msg.of)
        BY <1>1 DEF FreshInv
      <3>3. QED  BY <1>2, <1>7, <2>4, <3>1, <3>2 DEF Answered
    <2>5. QED  BY <2>3, <2>4 DEF FreshInv, Answered
  <1>10. AnswerInv'
    BY <1>1, <1>2 DEF AnswerInv, AnswersAsker
  <1>11. QED  BY <1>2, <1>8, <1>9, <1>10 DEF AskInv

(* The pointers are dropped: when a part does not come, when the sensor    *)
(* does not answer, when the three are freed.                              *)
LEMMA DropAskInv == ASSUME AskInv, DhtTimeout \/ NoReading \/ DhtFree PROVE AskInv'
  <1>1. /\ dpc' = "msg" /\ msg' = NoPart /\ msg1' = NoPart /\ msg2' \in {msg2, NoPart}
        /\ UNCHANGED <<dht11_event, dgot, requests, answers>>
        /\ dwaiting' \in {dwaiting, FALSE}
        /\ (dwaiting' = dwaiting \/ dht11_event = <<>>)
    BY DEF DhtTimeout, NoReading, DhtFree, AskInv, DhtType
  <1>2. Coming' = Coming /\ PartBuffer' = PartBuffer
    BY <1>1 DEF Coming, InHand, PartBuffer
  <1>3. DhtType'
    <2>1. DhtWaits' => dht11_event' = <<>>
      BY <1>1 DEF AskInv, DhtType, DhtWaits
    <2>2. DhtType
      BY DEF AskInv
    <2>3. QED  BY <1>1, <1>2, <2>1, <2>2 DEF DhtType
  <1>4. LinkInv'
    BY <1>1, <1>2 DEF AskInv, LinkInv
  <1>5. FreshInv'
    BY <1>1, <1>2, NoPartIsNone DEF AskInv, FreshInv, Answered
  <1>6. AnswerInv'
    BY <1>1 DEF AskInv, AnswerInv, AnswersAsker
  <1>7. QED  BY <1>3, <1>4, <1>5, <1>6 DEF AskInv

LEMMA NotForMeAskInv == ASSUME AskInv, NotForMe PROVE AskInv'
  <1>1. /\ dpc = "read" /\ dpc' = "free"
        /\ UNCHANGED <<dht11_event, dgot, dwaiting, msg, msg1, msg2, requests, answers>>
    BY DEF NotForMe, pointers
  <1>2. Coming' = Coming /\ PartBuffer' = PartBuffer
    BY <1>1 DEF Coming, InHand, PartBuffer
  <1>3. DhtType'
    <2>1. DhtType /\ dgot = NoPart /\ ~dwaiting
          /\ msg # NoPart /\ msg1 # NoPart /\ msg2 # NoPart
      BY <1>1 DEF AskInv, DhtType
    <2>2. QED  BY <1>1, <1>2, <2>1 DEF DhtType, DhtWaits
  <1>4. LinkInv'
    BY <1>1, <1>2 DEF AskInv, LinkInv
  <1>5. FreshInv'
    BY <1>1, <1>2 DEF AskInv, FreshInv, Answered
  <1>6. AnswerInv'
    BY <1>1 DEF AskInv, AnswerInv, AnswersAsker
  <1>7. QED  BY <1>3, <1>4, <1>5, <1>6 DEF AskInv

(* The three parts compared are of one request, the newest answered.       *)
LEMMA AnswerAskInv ==
  ASSUME AskInv, NEW accepted \in SUBSET {"tag", "answer"}, Answer(accepted)
  PROVE  AskInv'
  <1> DEFINE r == msg.of
             a == [to |-> requests[msg.of].peer, kind |-> requests[msg1.of].kind,
                   of |-> <<msg.of, msg1.of, msg2.of>>]
  <1>1. /\ dpc = "read" /\ dpc' = "free" /\ ForMe
        /\ UNCHANGED <<dht11_event, dgot, dwaiting, msg, msg1, msg2, requests>>
        /\ answers' = answers \/ answers' = Append(answers, a)
    BY DEF Answer, pointers
  <1>2. Coming' = Coming /\ PartBuffer' = PartBuffer
    BY <1>1 DEF Coming, InHand, PartBuffer
  <1>3. DhtType'
    BY <1>1, <1>2 DEF AskInv, DhtType, DhtWaits
  <1>4. LinkInv'
    BY <1>1, <1>2 DEF AskInv, LinkInv
  <1>5. /\ DhtType /\ LinkInv /\ FreshInv /\ AnswerInv
        /\ answers \in Seq([to : Peer, kind : Kind, of : Seq(Nat)])
    BY DEF AskInv, AnswerInv
  <1>6. /\ r \in 1 .. Len(requests) /\ Len(requests) \in Nat
        /\ msg.part = "auth" /\ msg1.of = r /\ msg2.of = r
    <2>1. msg.part = "auth" /\ msg1.part = "msg1" /\ msg2.part = "msg2"
      BY <1>1 DEF ForMe, IsAuth, IsKind, IsHere
    <2>2. Follows(msg, msg1) /\ Follows(msg1, msg2)
      BY <1>1, <1>5 DEF LinkInv
    <2>3. msg \in PartBuffer /\ requests \in Seq([peer : Peer, sender : Peer, kind : Kind, id : STRING])
      BY <1>5, <2>1, NoPartIsNone DEF DhtType
    <2>4. QED  BY <2>1, <2>2, <2>3, NoPartIsNone DEF Follows
  <1>7. /\ requests[r] \in [peer : Peer, sender : Peer, kind : Kind, id : STRING]
        /\ requests[r].peer = requests[r].sender
    <2> DEFINE R == [peer : Peer, sender : Peer, kind : Kind, id : STRING]
    <2>1. requests \in Seq(R) /\ \A i \in 1 .. Len(requests) : requests[i].peer = requests[i].sender
      BY <1>5 DEF DhtType
    <2> HIDE DEF R
    <2>2. requests[r] \in R
      BY <1>6, <2>1
    <2>3. QED  BY <1>6, <2>1, <2>2 DEF R
  <1>8. a = [to |-> requests[r].peer, kind |-> requests[r].kind, of |-> <<r, r, r>>]
    BY <1>6
  <1>9. /\ a \in [to : Peer, kind : Kind, of : Seq(Nat)]
        /\ a.to = requests[r].sender /\ a.kind = requests[r].kind
        /\ a.of = <<r, r, r>> /\ a.of[1] = r
    <2>1. <<r, r, r>> \in Seq(Nat)
      BY <1>6
    <2>2. QED  BY <1>7, <1>8, <2>1
  <1> HIDE DEF a
  <1>10. CASE answers' = answers
    <2>1. FreshInv'
      BY <1>1, <1>2, <1>5, <1>10 DEF FreshInv, Answered
    <2>2. AnswerInv'
      BY <1>1, <1>5, <1>10 DEF AnswerInv, AnswersAsker
    <2>3. QED  BY <1>3, <1>4, <2>1, <2>2 DEF AskInv
  <1>11. CASE answers' = Append(answers, a)
    <2>1. /\ Len(answers) \in Nat /\ Len(answers') = Len(answers) + 1
          /\ answers'[Len(answers) + 1] = a
          /\ \A j \in 1 .. Len(answers) : answers'[j] = answers[j]
          /\ answers' \in Seq([to : Peer, kind : Kind, of : Seq(Nat)])
      BY <1>5, <1>9, <1>11
    <2>2. \A j \in 1 .. Len(answers) : answers[j].of[1] \in 1 .. Len(requests)
      BY <1>5 DEF AnswerInv
    <2>3. \A j \in 1 .. Len(answers) : answers[j].of[1] < r
      <3>1. ~Answered(r)
        BY <1>1, <1>5, <1>6 DEF FreshInv
      <3>2. QED  BY <1>6, <2>2, <3>1 DEF Answered
    <2>4. FreshInv'
      <3>1. ASSUME NEW i \in 1 .. Len(Coming), Coming[i].part = "auth"
            PROVE  /\ ~(\E j \in 1 .. Len(answers') : answers'[j].of[1] >= Coming[i].of)
                   /\ msg.of < Coming[i].of
        <4>1. Coming[i].of \in Nat
          <5>1. Coming[i] \in PartBuffer
            BY <1>5, ComingType
          <5>2. QED  BY <1>6, <5>1, NoPartIsNone
        <4>2. ~Answered(Coming[i].of) /\ r < Coming[i].of
          BY <1>5, <1>6, <3>1 DEF FreshInv
        <4>3. ASSUME NEW j \in 1 .. Len(answers')
              PROVE  ~(answers'[j].of[1] >= Coming[i].of)
          <5>1. CASE j = Len(answers) + 1
            BY <1>6, <1>9, <2>1, <4>1, <4>2, <5>1, SMTT(30)
          <5>2. CASE j # Len(answers) + 1
            <6>1. j \in 1 .. Len(answers)
              BY <2>1, <5>2
            <6>2. answers'[j] = answers[j]
              BY <2>1, <6>1
            <6>3. QED  BY <4>2, <6>1, <6>2 DEF Answered
          <5>3. QED  BY <5>1, <5>2
        <4>4. QED  BY <4>2, <4>3
      <3>2. QED  BY <1>1, <1>2, <3>1 DEF FreshInv, Answered
    <2>5. AnswerInv'
      <3>1. ASSUME NEW i \in 1 .. Len(answers')
            PROVE  /\ answers'[i].of[1] \in 1 .. Len(requests)
                   /\ LET q == answers'[i].of[1]
                      IN  /\ answers'[i].of = <<q, q, q>>
                          /\ answers'[i].to = requests[q].sender
                          /\ answers'[i].kind = requests[q].kind
                          /\ \A j \in 1 .. i - 1 : answers'[j].of[1] < q
        <4>1. CASE i = Len(answers) + 1
          <5>1. answers'[i] = a
            BY <2>1, <4>1
          <5>2. \A j \in 1 .. i - 1 : answers'[j].of[1] < r
            <6>1. \A j \in 1 .. i - 1 : j \in 1 .. Len(answers)
              BY <2>1, <4>1
            <6>2. QED  BY <2>1, <2>3, <6>1
          <5>3. QED  BY <1>6, <1>9, <5>1, <5>2
        <4>2. CASE i # Len(answers) + 1
          <5>1. i \in 1 .. Len(answers) /\ \A j \in 1 .. i : answers'[j] = answers[j]
            BY <2>1, <4>2
          <5>2. LET q == answers[i].of[1]
                IN  /\ answers[i].of = <<q, q, q>>
                    /\ answers[i].to = requests[q].sender
                    /\ answers[i].kind = requests[q].kind
                    /\ \A j \in 1 .. i - 1 : answers[j].of[1] < q
            BY <1>5, <5>1 DEF AnswerInv, AnswersAsker
          <5>3. \A j \in 1 .. i - 1 : answers'[j] = answers[j]
            BY <2>1, <5>1
          <5>4. answers'[i] = answers[i]
            BY <2>1, <5>1
          <5>5. QED  BY <2>2, <5>1, <5>2, <5>3, <5>4
        <4>3. QED  BY <4>1, <4>2
      <3>2. QED  BY <1>1, <2>1, <3>1 DEF AnswerInv, AnswersAsker
    <2>6. QED  BY <1>3, <1>4, <2>4, <2>5 DEF AskInv
  <1>12. QED  BY <1>1, <1>10, <1>11

-----------------------------------------------------------------------------
(* tcp_handle_task.                                                        *)

Row == [kind : Kind, id : STRING]

LEMMA MinOfTwo ==
  ASSUME NEW a \in Nat, NEW b \in Nat
  PROVE  Min({a, b}) \in Nat /\ Min({a, b}) <= a /\ Min({a, b}) <= b
  <1>1. CASE a <= b
    BY <1>1 DEF Min
  <1>2. CASE b < a
    BY <1>2 DEF Min
  <1>3. QED  BY <1>1, <1>2

(* What a queue has room for is a beginning of what is posted.             *)
LEMMA QueuedPrefix ==
  ASSUME NEW S, NEW s \in Seq(S), Room \in Nat
  PROVE  /\ Queued(s) \in Seq(S) /\ Len(Queued(s)) <= Room /\ Len(Queued(s)) <= Len(s)
         /\ \A i \in 1 .. Len(Queued(s)) : Queued(s)[i] = s[i]
  <1> DEFINE k == Min({Len(s), Room})
  <1>1. k \in Nat /\ k <= Len(s) /\ k <= Room /\ Len(s) \in Nat
    BY MinOfTwo
  <1>2. Queued(s) = SubSeq(s, 1, k)
    BY DEF Queued
  <1> HIDE DEF k
  <1>3. /\ SubSeq(s, 1, k) \in Seq(S) /\ Len(SubSeq(s, 1, k)) = k
        /\ \A i \in 1 .. k : SubSeq(s, 1, k)[i] = s[i]
    BY <1>1
  <1>4. QED  BY <1>1, <1>2, <1>3

(* The parts of a row of requests: three of each, one request after the    *)
(* other.                                                                  *)
LEMMA PartsFacts ==
  ASSUME NEW n \in Nat, NEW many \in Nat
  PROVE  LET ps == Parts(n, many)
             B == [part : {"auth", "msg1", "msg2"}, of : 1 .. n + many]
         IN  /\ ps \in Seq(B) /\ Len(ps) = 3 * many
             /\ many # 0 => ps # <<>> /\ ps[1].part = "auth"
             /\ \A i \in 1 .. 3 * many : ps[i].of > n
             /\ Linked(ps) /\ Rising(ps)
  <1> DEFINE ps == Parts(n, many)
             B == [part : {"auth", "msg1", "msg2"}, of : 1 .. n + many]
  <1>1. \A i \in 1 .. 3 * many :
           /\ (i - 1) % 3 \in 0 .. 2 /\ (i - 1) \div 3 \in 0 .. many - 1
           /\ i - 1 = 3 * ((i - 1) \div 3) + ((i - 1) % 3)
    OBVIOUS
  <1>2. Part[1] = "auth" /\ Part[2] = "msg1" /\ Part[3] = "msg2"
    BY DEF Part
  <1>3. \A i \in 1 .. 3 * many :
           ps[i] = [part |-> Part[((i - 1) % 3) + 1], of |-> n + 1 + ((i - 1) \div 3)]
    BY DEF Parts
  <1> DEFINE turn(i) == (i - 1) % 3
             ask(i) == (i - 1) \div 3
  <1>4. \A i \in 1 .. 3 * many :
           /\ turn(i) \in 0 .. 2 /\ ask(i) \in 0 .. many - 1
           /\ i - 1 = 3 * ask(i) + turn(i)
           /\ ps[i] = [part |-> Part[turn(i) + 1], of |-> (n + 1) + ask(i)]
    BY <1>1, <1>3
  <1> HIDE DEF ps, turn, ask
  <1>5. \A i \in 1 .. 3 * many :
           /\ ps[i].part = Part[turn(i) + 1] /\ ps[i].of = (n + 1) + ask(i)
           /\ ps[i].part = "auth" <=> turn(i) = 0
           /\ ps[i].part = "msg1" <=> turn(i) = 1
           /\ ps[i].part = "msg2" <=> turn(i) = 2
           /\ ps[i].of > n /\ ps[i] \in B
    <2> SUFFICES ASSUME NEW i \in 1 .. 3 * many
                 PROVE  /\ ps[i].part = Part[turn(i) + 1] /\ ps[i].of = (n + 1) + ask(i)
                        /\ ps[i].part = "auth" <=> turn(i) = 0
                        /\ ps[i].part = "msg1" <=> turn(i) = 1
                        /\ ps[i].part = "msg2" <=> turn(i) = 2
                        /\ ps[i].of > n /\ ps[i] \in B
      OBVIOUS
    <2>1. /\ turn(i) \in 0 .. 2 /\ ask(i) \in 0 .. many - 1
          /\ ps[i].part = Part[turn(i) + 1] /\ ps[i].of = (n + 1) + ask(i)
          /\ ps[i] = [part |-> Part[turn(i) + 1], of |-> (n + 1) + ask(i)]
      BY <1>4
    <2>2. (n + 1) + ask(i) \in 1 .. n + many /\ (n + 1) + ask(i) > n
      BY <2>1
    <2>3. \/ turn(i) = 0 /\ ps[i].part = "auth"
          \/ turn(i) = 1 /\ ps[i].part = "msg1"
          \/ turn(i) = 2 /\ ps[i].part = "msg2"
      BY <1>2, <2>1
    <2>4. QED  BY <2>1, <2>2, <2>3
  <1>6. ps \in Seq(B) /\ Len(ps) = 3 * many
    <2>1. ps \in [1 .. 3 * many -> B]
      BY <1>5 DEF ps, Parts
    <2>2. 3 * many \in Nat
      OBVIOUS
    <2> HIDE DEF B
    <2>3. QED  BY <2>1, <2>2
  <1>7. many # 0 => ps # <<>> /\ ps[1].part = "auth"
    <2> SUFFICES ASSUME many # 0 PROVE ps # <<>> /\ ps[1].part = "auth"
      OBVIOUS
    <2>1. 1 \in 1 .. 3 * many
      OBVIOUS
    <2>2. turn(1) \in 0 .. 2 /\ ask(1) \in 0 .. many - 1 /\ 1 - 1 = 3 * ask(1) + turn(1)
      BY <1>4, <2>1
    <2>3. turn(1) = 0
      BY <2>2
    <2>4. QED  BY <1>5, <1>6, <2>1, <2>3
  <1>8. Linked(ps)
    <2> SUFFICES ASSUME NEW i \in 1 .. 3 * many - 1
                 PROVE  Follows(ps[i], ps[i + 1])
      BY <1>6 DEF Linked
    <2>1. i \in 1 .. 3 * many /\ i + 1 \in 1 .. 3 * many
      OBVIOUS
    <2>2. /\ turn(i) \in 0 .. 2 /\ ask(i) \in 0 .. many - 1 /\ i - 1 = 3 * ask(i) + turn(i)
          /\ turn(i + 1) \in 0 .. 2 /\ ask(i + 1) \in 0 .. many - 1
          /\ (i + 1) - 1 = 3 * ask(i + 1) + turn(i + 1)
      BY <1>4, <2>1
    <2>3. turn(i + 1) = turn(i) + 1 => ask(i) = ask(i + 1)
      BY <2>2
    <2>4. QED  BY <1>5, <2>1, <2>2, <2>3 DEF Follows
  <1>9. Rising(ps)
    <2> SUFFICES ASSUME NEW i \in 1 .. 3 * many, NEW j \in 1 .. 3 * many, i < j,
                        turn(i) = 0, turn(j) = 0
                 PROVE  ps[i].of < ps[j].of
      BY <1>5, <1>6 DEF Rising
    <2>1. /\ i - 1 = 3 * ask(i) + turn(i) /\ j - 1 = 3 * ask(j) + turn(j)
          /\ ask(i) \in 0 .. many - 1 /\ ask(j) \in 0 .. many - 1
          /\ turn(i) = 0 /\ turn(j) = 0
      BY <1>4
    <2>2. ask(i) < ask(j)
      BY <2>1
    <2>3. QED  BY <1>5, <2>1, <2>2
  <1>10. QED  BY <1>5, <1>6, <1>7, <1>8, <1>9 DEF ps

(* The three posts of every request of a row: what comes is longer by a    *)
(* beginning of their parts.                                               *)
LEMMA AskComing ==
  ASSUME DhtType, NEW peer \in Peer, NEW row \in Seq(Row), Ask(peer, peer, row)
  PROVE  LET ps == Parts(Len(requests), Len(row))
         IN  /\ DhtType'
             /\ Len(requests') = Len(requests) + Len(row)
             /\ \A i \in 1 .. Len(requests) : requests'[i] = requests[i]
             /\ Len(Coming') - Len(Coming) \in 0 .. Len(ps)
             /\ \A i \in 1 .. Len(Coming) : Coming'[i] = Coming[i]
             /\ \A i \in 1 .. Len(Coming') - Len(Coming) : ps[i] = Coming'[Len(Coming) + i]
  <1> DEFINE ps == Parts(Len(requests), Len(row))
             hand == DhtWaits /\ row # <<>>
             rest == IF hand THEN Tail(ps) ELSE ps
             new == [k \in 1 .. Len(row) |->
                        [peer |-> peer, sender |-> peer, kind |-> row[k].kind,
                         id |-> row[k].id]]
             R == [peer : Peer, sender : Peer, kind : Kind, id : STRING]
             B == [part : {"auth", "msg1", "msg2"}, of : 1 .. Len(requests) + Len(row)]
             q == Queued(rest)
  <1>1. /\ requests' = requests \o new
        /\ dgot' = IF hand THEN Head(ps) ELSE dgot
        /\ dht11_event' = dht11_event \o q
        /\ UNCHANGED <<dpc, dwaiting, msg, msg1, msg2>>
    BY DEF Ask, pointers
  <1>2. requests \in Seq(R) /\ Len(requests) \in Nat /\ Len(row) \in Nat
    BY DEF DhtType
  <1>3. /\ new \in Seq(R) /\ Len(new) = Len(row)
        /\ \A k \in 1 .. Len(row) : new[k].peer = new[k].sender
    <2>1. \A k \in 1 .. Len(row) : row[k] \in Row
      OBVIOUS
    <2>2. \A k \in 1 .. Len(row) : row[k].kind \in Kind /\ row[k].id \in STRING
      BY <2>1 DEF Row
    <2>3. \A k \in 1 .. Len(row) : new[k] \in R /\ new[k].peer = new[k].sender
      BY <2>2
    <2>4. new \in [1 .. Len(row) -> R]
      BY <2>3
    <2> HIDE DEF R, new
    <2>5. QED  BY <1>2, <2>3, <2>4
  <1>4. /\ requests' \in Seq(R) /\ Len(requests') = Len(requests) + Len(row)
        /\ \A i \in 1 .. Len(requests) : requests'[i] = requests[i]
        /\ \A i \in 1 .. Len(requests') : requests'[i].peer = requests'[i].sender
    <2> HIDE DEF R, new
    <2>1. /\ requests' \in Seq(R) /\ Len(requests') = Len(requests) + Len(row)
          /\ \A i \in 1 .. Len(requests) : requests'[i] = requests[i]
      <3>1. requests' = requests \o new /\ new \in Seq(R) /\ requests \in Seq(R)
        BY <1>1, <1>2, <1>3
      <3>2. requests \o new \in Seq(R) /\ Len(requests \o new) = Len(requests) + Len(new)
        BY <3>1
      <3>3. \A i \in 1 .. Len(requests) : (requests \o new)[i] = requests[i]
        BY <3>1
      <3>4. QED  BY <1>3, <3>1, <3>2, <3>3
    <2>2. \A i \in 1 .. Len(requests') :
             i \notin 1 .. Len(requests) =>
                /\ i - Len(requests) \in 1 .. Len(row)
                /\ requests'[i] = new[i - Len(requests)]
      BY <1>1, <1>2, <1>3, <2>1
    <2>3. \A i \in 1 .. Len(requests) : requests[i].peer = requests[i].sender
      BY DEF DhtType
    <2>4. QED  BY <1>3, <2>1, <2>2, <2>3
  <1>5. PartBuffer' = B /\ PartBuffer \subseteq B
    BY <1>2, <1>4 DEF PartBuffer
  <1>6. /\ ps \in Seq(B) /\ Len(ps) = 3 * Len(row)
        /\ Len(row) # 0 => ps # <<>>
        /\ row # <<>> => Len(row) # 0
    <2>1. row # <<>> => Len(row) # 0
      OBVIOUS
    <2>2. /\ ps \in Seq(B) /\ Len(ps) = 3 * Len(row)
          /\ Len(row) # 0 => ps # <<>>
      BY <1>2, PartsFacts
    <2>3. QED  BY <2>1, <2>2
  <1> HIDE DEF ps, B, R, new
  <1>7. hand => /\ Head(ps) \in B /\ Head(ps) = ps[1] /\ Tail(ps) \in Seq(B)
                /\ Len(Tail(ps)) = Len(ps) - 1 /\ Len(ps) >= 1
                /\ \A i \in 1 .. Len(Tail(ps)) : Tail(ps)[i] = ps[i + 1]
    BY <1>6
  <1>8. rest \in Seq(B)
    BY <1>6, <1>7
  <1>9. /\ dht11_event \in Seq(B) /\ Len(dht11_event) \in Nat
        /\ Len(dht11_event) <= DHT11SIZE /\ Room \in Nat
        /\ Room = DHT11SIZE - Len(dht11_event)
    <2>1. dht11_event \in Seq(PartBuffer) /\ Len(dht11_event) <= DHT11SIZE
      BY DEF DhtType
    <2>2. QED  BY <1>5, <2>1, DhtSizeAssumption DEF Room
  <1> HIDE DEF rest
  <1>10. /\ q \in Seq(B) /\ Len(q) <= Room /\ Len(q) <= Len(rest) /\ Len(q) \in Nat
         /\ \A i \in 1 .. Len(q) : q[i] = rest[i]
    BY <1>8, <1>9, QueuedPrefix
  <1> HIDE DEF q
  <1>11. /\ dht11_event' \in Seq(B) /\ Len(dht11_event') <= DHT11SIZE
    <2>1. dht11_event \o q \in Seq(B) /\ Len(dht11_event \o q) = Len(dht11_event) + Len(q)
      BY <1>9, <1>10
    <2>2. Len(dht11_event) + Len(q) <= DHT11SIZE
      BY <1>9, <1>10, DhtSizeAssumption
    <2>3. QED  BY <1>1, <2>1, <2>2
  <1>12. DhtType'
    <2>1. dgot' \in B \union {NoPart} /\ (dgot' # dgot => hand)
      BY <1>1, <1>5, <1>7 DEF DhtType
    <2>2. DhtWaits' => dht11_event' = <<>>
      <3> SUFFICES ASSUME DhtWaits' PROVE dht11_event' = <<>>
        OBVIOUS
      <3>1. NoPart \notin B
        BY DEF NoPart, B
      <3>2. DhtWaits /\ ~hand
        BY <1>1, <1>7, <3>1 DEF DhtWaits
      <3>3. row = <<>> /\ dht11_event = <<>> /\ rest = ps
        BY <3>2 DEF DhtType, rest
      <3>4. Len(q) = 0
        BY <1>6, <1>10, <3>3
      <3>5. q = <<>>
        BY <1>10, <3>4
      <3>6. QED  BY <1>1, <3>3, <3>5
    <2>3. dwaiting' \in BOOLEAN
      BY <1>1 DEF DhtType
    <2>4. /\ msg' \in B \union {NoPart} /\ msg1' \in B \union {NoPart}
          /\ msg2' \in B \union {NoPart}
      BY <1>1, <1>5 DEF DhtType
    <2>5. \/ dpc' = "msg" /\ msg' = NoPart /\ msg1' = NoPart
          \/ dpc' = "msg1" /\ msg' # NoPart /\ msg1' = NoPart
          \/ dpc' = "msg2" /\ msg' # NoPart /\ msg1' # NoPart
          \/ /\ dpc' \in {"read", "free"} /\ dgot' = NoPart /\ ~dwaiting'
             /\ msg' # NoPart /\ msg1' # NoPart /\ msg2' # NoPart
      BY <1>1 DEF DhtType, DhtWaits
    <2>6. QED  BY <1>4, <1>5, <1>11, <2>1, <2>2, <2>3, <2>4, <2>5 DEF DhtType, R
  <1>13. CASE hand
    <2>1. Coming = <<>> /\ InHand(dgot') = <<ps[1]>> /\ dht11_event' = <<>> \o q
      <3>1. dgot = NoPart /\ dht11_event = <<>>
        BY <1>13 DEF DhtWaits, DhtType
      <3>2. dgot' = ps[1] /\ ps[1] # NoPart
        <4>1. NoPart \notin B
          BY DEF NoPart, B
        <4>2. QED  BY <1>1, <1>7, <1>13, <4>1
      <3>3. QED  BY <1>1, <3>1, <3>2 DEF Coming, InHand
    <2>2. /\ Coming' = <<ps[1]>> \o q
          /\ <<ps[1]>> \in Seq(B) /\ Len(<<ps[1]>>) = 1 /\ <<ps[1]>>[1] = ps[1]
      BY <1>7, <1>10, <1>13, <2>1 DEF Coming, InHand
    <2>3. /\ Len(Coming') = 1 + Len(q) /\ Coming'[1] = ps[1]
          /\ \A i \in 1 .. Len(q) : q[i] = Coming'[i + 1]
      BY <1>10, <2>2
    <2>4. rest = Tail(ps)
      BY <1>13 DEF rest
    <2>5. Len(q) <= Len(ps) - 1 /\ Len(Coming) = 0
      BY <1>7, <1>10, <1>13, <2>1, <2>4
    <2>6. ASSUME NEW i \in 1 .. Len(Coming')
          PROVE  ps[i] = Coming'[i]
      <3>1. CASE i = 1
        BY <2>3, <3>1
      <3>2. CASE i # 1
        <4>1. i - 1 \in 1 .. Len(q) /\ i - 1 \in 1 .. Len(Tail(ps)) /\ (i - 1) + 1 = i
          BY <1>7, <1>10, <1>13, <2>3, <2>5, <3>2
        <4>2. q[i - 1] = Coming'[i] /\ q[i - 1] = Tail(ps)[i - 1] /\ Tail(ps)[i - 1] = ps[i]
          BY <1>7, <1>10, <1>13, <2>3, <2>4, <4>1
        <4>3. QED  BY <4>2
      <3>3. QED  BY <3>1, <3>2
    <2>7. QED  BY <1>4, <1>6, <1>10, <1>12, <2>3, <2>5, <2>6 DEF ps
  <1>14. CASE ~hand
    <2> DEFINE d == InHand(dgot)
    <2>1. d \in Seq(B) /\ dgot' = dgot
      BY <1>1, <1>5, <1>14 DEF InHand, DhtType
    <2>2. Coming = d \o dht11_event /\ Coming' = d \o (dht11_event \o q)
      BY <1>1, <2>1 DEF Coming, InHand
    <2> HIDE DEF d
    <2>3. d \o (dht11_event \o q) = (d \o dht11_event) \o q
      BY <1>9, <1>10, <2>1, SMTT(30)
    <2>4. Coming \in Seq(B) /\ Coming' = Coming \o q
      BY <1>9, <2>1, <2>2, <2>3
    <2>5. /\ Len(Coming') = Len(Coming) + Len(q) /\ Len(Coming) \in Nat
          /\ \A i \in 1 .. Len(Coming) : Coming'[i] = Coming[i]
          /\ \A i \in 1 .. Len(q) : q[i] = Coming'[Len(Coming) + i]
      BY <1>10, <2>4
    <2>6. rest = ps
      BY <1>14 DEF rest
    <2>7. QED  BY <1>4, <1>6, <1>10, <1>12, <2>5, <2>6 DEF ps
  <1>15. QED  BY <1>13, <1>14

LEMMA AskAskInv ==
  ASSUME AskInv, NEW peer \in Peer, NEW row \in Seq(Row), Ask(peer, peer, row)
  PROVE  AskInv'
  <1> DEFINE ps == Parts(Len(requests), Len(row))
             B == [part : {"auth", "msg1", "msg2"}, of : 1 .. Len(requests) + Len(row)]
             c == Len(Coming)
             k == Len(Coming') - Len(Coming)
  <1>1. /\ DhtType /\ LinkInv /\ FreshInv /\ AnswerInv
        /\ Coming \in Seq(PartBuffer) /\ c \in Nat
        /\ requests \in Seq([peer : Peer, sender : Peer, kind : Kind, id : STRING])
        /\ Len(requests) \in Nat /\ Len(row) \in Nat
    BY ComingType DEF AskInv, DhtType
  <1>2. /\ DhtType' /\ Len(requests') = Len(requests) + Len(row)
        /\ \A i \in 1 .. Len(requests) : requests'[i] = requests[i]
        /\ k \in 0 .. Len(ps)
        /\ \A i \in 1 .. c : Coming'[i] = Coming[i]
        /\ \A i \in 1 .. k : ps[i] = Coming'[c + i]
    BY <1>1, AskComing
  <1>3. UNCHANGED <<dpc, msg, msg1, msg2, answers>>
    BY DEF Ask, pointers
  <1>4. /\ ps \in Seq(B) /\ Len(ps) = 3 * Len(row)
        /\ Len(row) # 0 => ps[1].part = "auth"
        /\ \A i \in 1 .. 3 * Len(row) : ps[i].of > Len(requests)
        /\ Linked(ps) /\ Rising(ps)
    BY <1>1, PartsFacts
  <1> HIDE DEF ps, B
  <1>5. \A i \in 1 .. c : Coming[i] \in PartBuffer
    BY <1>1
  <1>6. \A i \in 1 .. k : i \in 1 .. Len(ps) /\ ps[i] \in B
    BY <1>2, <1>4
  <1>7. \A i \in 1 .. Len(Coming') : i \notin 1 .. c =>
           i - c \in 1 .. k /\ Coming'[i] = ps[i - c]
    <2> SUFFICES ASSUME NEW i \in 1 .. Len(Coming'), i \notin 1 .. c
                 PROVE  i - c \in 1 .. k /\ Coming'[i] = ps[i - c]
      OBVIOUS
    <2>1. i - c \in 1 .. k /\ c + (i - c) = i
      BY <1>1, <1>2
    <2>2. ps[i - c] = Coming'[c + (i - c)]
      BY <1>2, <2>1
    <2>3. QED  BY <2>1, <2>2
  <1>8. \A i \in 1 .. Len(Coming') : i \notin 1 .. c =>
            Coming'[i].of > Len(requests) /\ Coming'[i].of \in Nat
    <2>1. \A i \in 1 .. k : ps[i].of > Len(requests)
      BY <1>4, <1>6
    <2>2. \A b \in B : b.of \in Nat
      BY <1>1 DEF B
    <2>3. \A i \in 1 .. k : ps[i].of \in Nat
      BY <1>6, <2>2
    <2>4. QED  BY <1>7, <2>1, <2>3
  <1>9. ASSUME k >= 1
        PROVE  ps[1].part = "auth" /\ ps[1] = Coming'[c + 1]
    BY <1>2, <1>4, <1>9
  <1>10. Linked(Coming')
    <2> SUFFICES ASSUME NEW i \in 1 .. Len(Coming') - 1
                 PROVE  Follows(Coming'[i], Coming'[i + 1])
      BY DEF Linked
    <2>1. CASE i + 1 <= c
      BY <1>1, <1>2, <2>1 DEF LinkInv, Linked
    <2>2. CASE i = c
      <3>1. k >= 1
        BY <1>1, <1>2, <2>2
      <3>2. Coming'[i + 1].part = "auth"
        BY <1>9, <2>2, <3>1
      <3>3. QED  BY <3>2 DEF Follows
    <2>3. CASE i > c
      <3>1. /\ i - c \in 1 .. k /\ Coming'[i] = ps[i - c]
            /\ (i + 1) - c \in 1 .. k /\ Coming'[i + 1] = ps[(i + 1) - c]
        BY <1>1, <1>2, <1>7, <2>3
      <3>2. (i + 1) - c = (i - c) + 1 /\ i - c \in 1 .. Len(ps) - 1
        BY <1>1, <1>2, <1>4, <3>1
      <3>3. QED  BY <1>4, <3>1, <3>2 DEF Linked
    <2>4. QED  BY <1>1, <2>1, <2>2, <2>3
  <1>11. Rising(Coming')
    <2> SUFFICES ASSUME NEW i \in 1 .. Len(Coming'), NEW j \in 1 .. Len(Coming'), i < j,
                        Coming'[i].part = "auth", Coming'[j].part = "auth"
                 PROVE  Coming'[i].of < Coming'[j].of
      BY DEF Rising
    <2>1. CASE j <= c
      BY <1>1, <1>2, <2>1 DEF LinkInv, Rising
    <2>2. CASE i <= c /\ j > c
      <3>1. Coming'[i].of \in 1 .. Len(requests)
        BY <1>1, <1>2, <1>5, <2>2, NoPartIsNone
      <3>2. Coming'[j].of > Len(requests) /\ Coming'[j].of \in Nat
        BY <1>8, <2>2
      <3>3. QED  BY <1>1, <3>1, <3>2
    <2>3. CASE i > c
      <3>1. /\ i - c \in 1 .. Len(ps) /\ Coming'[i] = ps[i - c]
            /\ j - c \in 1 .. Len(ps) /\ Coming'[j] = ps[j - c] /\ i - c < j - c
        BY <1>1, <1>6, <1>7, <2>3, SMTT(30)
      <3>2. QED  BY <1>4, <3>1 DEF Rising
    <2>4. QED  BY <1>1, <2>1, <2>2, <2>3
  <1>12. LinkInv'
    <2>1. Coming' # <<>> => Coming'[1].part = "auth" \/ (Coming # <<>> /\ Coming'[1] = Coming[1])
      <3>1. CASE c >= 1
        BY <1>1, <1>2, <3>1
      <3>2. CASE c = 0 /\ k >= 1
        BY <1>9, <3>2
      <3>3. CASE c = 0 /\ k = 0
        <4>1. Coming' \in Seq(PartBuffer')
          <5>1. DhtType' => Coming' \in Seq(PartBuffer')
            <6>1. InHand(dgot') \in Seq(PartBuffer') \/ ~DhtType'
              BY DEF InHand, DhtType
            <6>2. QED  BY <6>1 DEF Coming, InHand, DhtType
          <5>2. QED  BY <1>2, <5>1
        <4>2. Len(Coming') = 0
          BY <1>1, <3>3, <4>1
        <4>3. QED  BY <4>1, <4>2
      <3>4. QED  BY <1>1, <1>2, <3>1, <3>2, <3>3
    <2>2. \A a : \A b : b.part = "auth" => Follows(a, b)
      BY DEF Follows
    <2>3. QED  BY <1>1, <1>3, <1>10, <1>11, <2>1, <2>2 DEF LinkInv
  <1>13. FreshInv'
    <2>1. \A j \in 1 .. Len(answers) : answers[j].of[1] \in 1 .. Len(requests)
      BY <1>1 DEF AnswerInv
    <2>2. msg.part = "auth" => msg.of \in 1 .. Len(requests)
      BY <1>1, NoPartIsNone DEF DhtType
    <2>3. ASSUME NEW i \in 1 .. Len(Coming'), Coming'[i].part = "auth"
          PROVE  /\ ~Answered(Coming'[i].of)
                 /\ msg.part = "auth" => msg.of < Coming'[i].of
      <3>1. CASE i <= c
        BY <1>1, <1>2, <2>3, <3>1 DEF FreshInv
      <3>2. CASE i > c
        <4>1. Coming'[i].of > Len(requests) /\ Coming'[i].of \in Nat
          BY <1>8, <3>2
        <4>2. QED  BY <1>1, <2>1, <2>2, <4>1 DEF Answered
      <3>3. QED  BY <1>1, <3>1, <3>2
    <2>4. QED  BY <1>1, <1>3, <2>3 DEF FreshInv, Answered
  <1>14. AnswerInv'
    <2>1. \A i \in 1 .. Len(answers) :
             /\ answers[i].of[1] \in 1 .. Len(requests)
             /\ requests'[answers[i].of[1]] = requests[answers[i].of[1]]
      BY <1>1, <1>2 DEF AnswerInv
    <2>2. \A i \in 1 .. Len(answers) : answers[i].of[1] \in 1 .. Len(requests')
      BY <1>1, <1>2, <2>1
    <2>3. QED  BY <1>1, <1>3, <2>1, <2>2 DEF AnswerInv, AnswersAsker
  <1>15. QED  BY <1>2, <1>12, <1>13, <1>14 DEF AskInv

LEMMA SameAskInv == ASSUME AskInv, UNCHANGED dht11Vars PROVE AskInv'
  <1>1. UNCHANGED <<dht11_event, dpc, dwaiting, dgot, msg, msg1, msg2, requests, answers>>
    BY DEF dht11Vars, pointers
  <1>2. Coming' = Coming /\ PartBuffer' = PartBuffer
    BY <1>1 DEF Coming, InHand, PartBuffer
  <1>3. DhtType'
    BY <1>1, <1>2 DEF AskInv, DhtType, DhtWaits
  <1>4. LinkInv'
    BY <1>1, <1>2 DEF AskInv, LinkInv
  <1>5. FreshInv'
    BY <1>1, <1>2 DEF AskInv, FreshInv, Answered
  <1>6. AnswerInv'
    BY <1>1 DEF AskInv, AnswerInv, AnswersAsker
  <1>7. QED  BY <1>3, <1>4, <1>5, <1>6 DEF AskInv

(* What tcp_handle_task takes for a name and a text names the peer that    *)
(* sent the text: the row is asked for that peer.                          *)
LEMMA CarriedOutRow ==
  ASSUME PairInv, TakeMsg, CarryOut
  PROVE  \/ UNCHANGED dht11Vars
         \/ \E peer \in Peer, row \in Seq(Row) : Ask(peer, peer, row)
  <1>1. CASE auth_msg.part = "auth" /\ got.part = "msg"
    <2>1. /\ RecvType /\ pc = "msg" /\ got # None /\ Take(got)
          /\ Stream \in Seq(HandleBuffer)
      BY StreamType DEF PairInv, TakeMsg
    <2>2. /\ Len(Stream) >= 2 /\ Stream[1] = auth_msg /\ Stream[2] = got
          /\ Len(Stream) \in Nat
      BY <2>1, StreamTake
    <2>3. Matches(Stream[1], Stream[1 + 1])
      BY <2>2 DEF PairInv, ChainInv, Chained
    <2>4. auth_msg.from = got.from
      BY <1>1, <2>2, <2>3 DEF Matches
    <2>5. got \in HandleBuffer
      BY <2>1 DEF RecvType
    <2>6. got.from \in Peer /\ got.says \in Text
      BY <1>1, <2>5 DEF HandleBuffer
    <2>7. got.says \in Seq(Row)
      BY <2>6, TextAssumption DEF Row
    <2>8. Ask(got.from, got.from, got.says)
      BY <1>1, <2>4 DEF CarryOut
    <2>9. QED  BY <2>6, <2>7, <2>8
  <1>2. CASE UNCHANGED dht11Vars
    BY <1>2
  <1>3. QED  BY <1>1, <1>2 DEF CarryOut

LEMMA CarryOutAskInv ==
  ASSUME PairInv, AskInv, TakeMsg, CarryOut
  PROVE  AskInv'
  BY CarriedOutRow, AskAskInv, SameAskInv

LEMMA StepAskInv == PairInv /\ AskInv /\ [Next]_vars => AskInv'
  <1> SUFFICES ASSUME PairInv, AskInv, [Next]_vars PROVE AskInv'
    OBVIOUS
  <1>1. CASE UNCHANGED dht11Vars
    BY <1>1, SameAskInv
  <1>2. CASE TakeMsg /\ CarryOut
    BY <1>2, CarryOutAskInv
  <1>3. CASE DhtTask
    <2>1. CASE DhtPend
      BY <2>1, PendAskInv
    <2>2. CASE DhtTake
      BY <2>2, TakeAskInv
    <2>3. CASE DhtTimeout \/ NoReading \/ DhtFree
      BY <2>3, DropAskInv
    <2>4. CASE NotForMe
      BY <2>4, NotForMeAskInv
    <2>5. ASSUME NEW accepted \in SUBSET {"tag", "answer"}, Answer(accepted)
          PROVE  AskInv'
      BY <2>5, AnswerAskInv
    <2>6. QED  BY <1>3, <2>1, <2>2, <2>3, <2>4, <2>5 DEF DhtTask
  <1>4. QED  BY <1>1, <1>2, <1>3 DEF Next, vars

(* An answer goes to the peer that sent the message its request was in,    *)
(* its three parts are of one request, no request is answered twice, and   *)
(* they are answered in order: for queues of any size, any messages.       *)
THEOREM AnswersAskerHolds == Spec => []AnswersAsker
  <1>1. PairInv /\ AskInv /\ [Next]_vars => PairInv' /\ AskInv'
    BY StepPairInv, StepAskInv
  <1>2. Init => PairInv /\ AskInv
    BY InitPairInv, InitDht
  <1>3. AskInv => AnswersAsker
    BY DEF AskInv, AnswerInv
  <1>4. QED  BY <1>1, <1>2, <1>3, PTL DEF Spec

-----------------------------------------------------------------------------
(* The blocks of a sequence of parts.  Weight is a recursive function: that *)
(* it is the sum it is meant to be is shown with a set of numbers that has *)
(* 0 and with each number the next.                                        *)

(* A set of numbers that is not empty has a least one.                     *)
LEMMA LeastNumber ==
  ASSUME NEW T \in SUBSET Nat, T # {}
  PROVE  \E x \in T : \A y \in T : ~(y < x)
  <1> DEFINE R == OpToRel(<, Nat)
  <1>1. IsWellFoundedOn(R, Nat)
    BY NatLessThanWellFounded, Zenon
  <1>2. \A a, b \in Nat : a < b => <<a, b>> \in R
    BY Zenon DEF OpToRel
  <1> HIDE DEF R
  <1>3. PICK x \in T : \A y \in T : ~(<<y, x>> \in R)
    BY <1>1, WFMin, Zenon
  <1>4. QED  BY <1>2, <1>3

(* Induction up to a number.                                               *)
LEMMA UptoInduction ==
  ASSUME NEW m \in Nat, NEW S, 0 \in S,
         \A k \in 0 .. m - 1 : k \in S => k + 1 \in S
  PROVE  0 .. m \subseteq S
  <1> SUFFICES ASSUME (0 .. m) \ S # {} PROVE FALSE
    OBVIOUS
  <1> DEFINE T == (0 .. m) \ S
  <1>0. T \in SUBSET Nat /\ T # {}
    OBVIOUS
  <1> HIDE DEF T
  <1>1. PICK x \in T : \A y \in T : ~(y < x)
    BY <1>0, LeastNumber
  <1> USE DEF T
  <1>2. x # 0 /\ x \in Nat /\ x <= m
    OBVIOUS
  <1>3. x - 1 \in 0 .. m - 1 /\ x - 1 < x /\ (x - 1) + 1 = x
    BY <1>2
  <1>4. x - 1 \in S
    BY <1>1, <1>3
  <1>5. QED  BY <1>1, <1>3, <1>4

(* f[k] is the number of blocks of the first k parts of s.                 *)
Counts(f, s) ==
    /\ f \in [0 .. Len(s) -> Nat] /\ f[0] = 0
    /\ \A k \in 1 .. Len(s) : f[k] = f[k - 1] + Blocks(s[k].part)

LEMMA BlocksNat == \A part : Blocks(part) \in Nat
  BY DEF Blocks

LEMMA CountsUnique ==
  ASSUME NEW S, NEW s \in Seq(S), NEW f, NEW g, Counts(f, s), Counts(g, s)
  PROVE  f = g
  <1> DEFINE E == {k \in 0 .. Len(s) : f[k] = g[k]}
             m == Len(s)
  <1>1. m \in Nat /\ f \in [0 .. m -> Nat] /\ g \in [0 .. m -> Nat] /\ 0 \in E
    BY DEF Counts
  <1>2. ASSUME NEW k \in 0 .. m - 1, k \in E
        PROVE  k + 1 \in E
    <2>1. k + 1 \in 1 .. m /\ (k + 1) - 1 = k /\ k + 1 \in 0 .. m
      BY <1>1
    <2>2. f[k + 1] = f[k] + Blocks(s[k + 1].part) /\ g[k + 1] = g[k] + Blocks(s[k + 1].part)
      BY <2>1 DEF Counts
    <2>3. QED  BY <1>2, <2>1, <2>2
  <1>3. \A k \in 0 .. m - 1 : k \in E => k + 1 \in E
    BY <1>2
  <1> HIDE DEF E
  <1>4. 0 .. m \subseteq E
    BY <1>1, <1>3, UptoInduction
  <1>5. \A k \in 0 .. m : f[k] = g[k]
    BY <1>4 DEF E
  <1>6. QED  BY <1>1, <1>5

LEMMA CountsExist ==
  ASSUME NEW S, NEW s \in Seq(S)
  PROVE  \E f : Counts(f, s)
  <1> DEFINE m == Len(s)
             upto(k) == [0 .. k -> Nat]
             E == {k \in 0 .. m : \E f \in [0 .. k -> Nat] : 
                      /\ f[0] = 0
                      /\ \A i \in 1 .. k : f[i] = f[i - 1] + Blocks(s[i].part)}
  <1>1. m \in Nat
    OBVIOUS
  <1>2. 0 \in E
    <2> DEFINE f == [k \in 0 .. 0 |-> 0]
    <2>1. f \in [0 .. 0 -> Nat] /\ f[0] = 0 /\ 0 \in 0 .. m
      BY <1>1
    <2> HIDE DEF f
    <2>2. \A i \in 1 .. 0 : f[i] = f[i - 1] + Blocks(s[i].part)
      OBVIOUS
    <2>3. QED  BY <2>1, <2>2
  <1>3. ASSUME NEW k \in 0 .. m - 1, k \in E
        PROVE  k + 1 \in E
    <2>1. PICK f \in [0 .. k -> Nat] :
             /\ f[0] = 0
             /\ \A i \in 1 .. k : f[i] = f[i - 1] + Blocks(s[i].part)
      BY <1>3
    <2> DEFINE g == [i \in 0 .. k + 1 |->
                       IF i <= k THEN f[i] ELSE f[k] + Blocks(s[k + 1].part)]
    <2>2. k \in Nat /\ k + 1 \in 0 .. m
      BY <1>1
    <2>3. \A i \in 0 .. k : g[i] = f[i]
      BY <2>2
    <2>4. g[k + 1] = f[k] + Blocks(s[k + 1].part)
      BY <2>2
    <2>5. g \in [0 .. k + 1 -> Nat]
      BY <2>1, <2>2, BlocksNat
    <2> HIDE DEF g
    <2>6. g[0] = 0
      BY <2>1, <2>2, <2>3
    <2>7. ASSUME NEW i \in 1 .. k + 1
          PROVE  g[i] = g[i - 1] + Blocks(s[i].part)
      <3>1. CASE i <= k
        <4>1. i \in 0 .. k /\ i - 1 \in 0 .. k /\ i \in 1 .. k
          BY <2>2, <3>1
        <4>2. QED  BY <2>1, <2>3, <4>1
      <3>2. CASE i = k + 1
        <4>1. k \in 0 .. k /\ i - 1 = k
          BY <2>2, <3>2
        <4>2. QED  BY <2>3, <2>4, <3>2, <4>1
      <3>3. QED  BY <2>2, <3>1, <3>2
    <2>8. QED  BY <2>2, <2>5, <2>6, <2>7
  <1>4. \A k \in 0 .. m - 1 : k \in E => k + 1 \in E
    BY <1>3
  <1> HIDE DEF E
  <1>5. m \in E
    <2>1. 0 .. m \subseteq E
      BY <1>1, <1>2, <1>4, UptoInduction
    <2>2. QED  BY <1>1, <2>1
  <1>6. QED  BY <1>5 DEF E, Counts

(* Weight is the last of them.                                             *)
LEMMA WeightCounts ==
  ASSUME NEW S, NEW s \in Seq(S), NEW f, Counts(f, s)
  PROVE  Weight(s) = f[Len(s)]
  <1> DEFINE F(g) == [k \in 0 .. Len(s) |-> IF k = 0 THEN 0 ELSE g[k - 1] + Blocks(s[k].part)]
             upto == CHOOSE g : g = F(g)
  <1>1. Len(s) \in Nat
    OBVIOUS
  <1>2. f = F(f)
    BY <1>1 DEF Counts
  <1>3. upto = F(upto)
    BY <1>2
  <1>4. Weight(s) = upto[Len(s)]
    BY DEF Weight
  <1> HIDE DEF upto
  <1>5. upto \in [0 .. Len(s) -> Nat] /\ Counts(upto, s)
    <2> DEFINE E == {k \in 0 .. Len(s) : upto[k] = f[k]}
               m == Len(s)
    <2>1. 0 \in E
      BY <1>1, <1>3 DEF Counts
    <2>2. ASSUME NEW k \in 0 .. m - 1, k \in E PROVE k + 1 \in E
      <3>1. k + 1 \in 0 .. m /\ k + 1 \in 1 .. m /\ k + 1 # 0 /\ (k + 1) - 1 = k
        BY <1>1
      <3>2. upto[k + 1] = upto[k] + Blocks(s[k + 1].part)
        BY <1>3, <3>1
      <3>3. f[k + 1] = f[k] + Blocks(s[k + 1].part)
        BY <3>1 DEF Counts
      <3>4. QED  BY <2>2, <3>1, <3>2, <3>3
    <2>3. \A k \in 0 .. m - 1 : k \in E => k + 1 \in E
      BY <2>2
    <2> HIDE DEF E
    <2>4. 0 .. m \subseteq E
      BY <1>1, <2>1, <2>3, UptoInduction
    <2>5. \A k \in 0 .. m : upto[k] = f[k]
      BY <2>4 DEF E
    <2>6. upto = [k \in 0 .. m |-> upto[k]] /\ f = [k \in 0 .. m |-> f[k]]
      BY <1>3 DEF Counts
    <2>7. upto = f
      BY <2>5, <2>6
    <2>8. QED  BY <2>7 DEF Counts
  <1>6. upto = f
    BY <1>5, CountsUnique
  <1>7. QED  BY <1>4, <1>6

LEMMA WeightJoined ==
  ASSUME NEW S, NEW s \in Seq(S), NEW t \in Seq(S)
  PROVE  /\ Weight(s) \in Nat /\ Weight(t) \in Nat
         /\ Weight(s \o t) = Weight(s) + Weight(t)
  <1>1. PICK f : Counts(f, s)
    BY CountsExist
  <1>2. PICK g : Counts(g, t)
    BY CountsExist
  <1> DEFINE m == Len(s)
             n == Len(t)
             both == s \o t
             h == [k \in 0 .. m + n |-> IF k <= m THEN f[k] ELSE f[m] + g[k - m]]
  <1>3. /\ m \in Nat /\ n \in Nat /\ both \in Seq(S) /\ Len(both) = m + n
        /\ \A k \in 1 .. m : both[k] = s[k]
        /\ \A k \in m + 1 .. m + n : both[k] = t[k - m]
    OBVIOUS
  <1>4. /\ f \in [0 .. m -> Nat] /\ f[0] = 0
        /\ \A k \in 1 .. m : f[k] = f[k - 1] + Blocks(s[k].part)
        /\ g \in [0 .. n -> Nat] /\ g[0] = 0
        /\ \A k \in 1 .. n : g[k] = g[k - 1] + Blocks(t[k].part)
    BY <1>1, <1>2 DEF Counts
  <1>5. /\ h \in [0 .. m + n -> Nat]
        /\ \A k \in 0 .. m : h[k] = f[k]
        /\ \A k \in m .. m + n : h[k] = f[m] + g[k - m]
    <2>1. \A k \in 0 .. m : h[k] = f[k]
      BY <1>3
    <2>2. ASSUME NEW k \in m .. m + n
          PROVE  h[k] = f[m] + g[k - m]
      <3>1. CASE k = m
        BY <1>3, <1>4, <2>1, <3>1
      <3>2. CASE k > m
        BY <1>3, <3>2
      <3>3. QED  BY <1>3, <3>1, <3>2
    <2>3. ASSUME NEW k \in 0 .. m + n
          PROVE  h[k] \in Nat
      <3>1. CASE k <= m
        BY <1>3, <1>4, <2>1, <3>1
      <3>2. CASE k > m
        <4>1. k - m \in 0 .. n /\ m \in 0 .. m /\ k \in m .. m + n
          BY <1>3, <3>2
        <4>2. f[m] \in Nat /\ g[k - m] \in Nat
          BY <1>4, <4>1
        <4>3. h[k] = f[m] + g[k - m]
          BY <2>2, <4>1
        <4> HIDE DEF h, m
        <4>4. QED  BY <4>2, <4>3
      <3>3. QED  BY <1>3, <3>1, <3>2
    <2>4. QED  BY <2>1, <2>2, <2>3
  <1> HIDE DEF m, n, both, h
  <1>6. \A k \in 1 .. m + n : h[k] = h[k - 1] + Blocks(both[k].part)
    <2> SUFFICES ASSUME NEW k \in 1 .. m + n
                 PROVE  h[k] = h[k - 1] + Blocks(both[k].part)
      OBVIOUS
    <2>1. CASE k <= m
      <3>1. k \in 0 .. m /\ k - 1 \in 0 .. m /\ k \in 1 .. m
        BY <1>3, <2>1
      <3>2. QED  BY <1>3, <1>4, <1>5, <3>1
    <2>2. CASE k > m
      <3>1. /\ k \in m .. m + n /\ k - 1 \in m .. m + n /\ k \in m + 1 .. m + n
            /\ k - m \in 1 .. n /\ (k - 1) - m = (k - m) - 1
            /\ m \in 0 .. m /\ k - m \in 0 .. n /\ (k - m) - 1 \in 0 .. n
        BY <1>3, <2>2
      <3>2. h[k] = f[m] + g[k - m] /\ h[k - 1] = f[m] + g[(k - m) - 1]
        BY <1>5, <3>1
      <3>3. g[k - m] = g[(k - m) - 1] + Blocks(both[k].part)
        BY <1>3, <1>4, <3>1
      <3>4. f[m] \in Nat /\ g[(k - m) - 1] \in Nat /\ Blocks(both[k].part) \in Nat
        BY <1>4, <3>1, BlocksNat
      <3>5. QED  BY <3>2, <3>3, <3>4
    <2>3. QED  BY <1>3, <2>1, <2>2
  <1>7. Counts(h, both)
    <2>1. h[0] = 0
      BY <1>3, <1>4, <1>5
    <2>2. QED  BY <1>3, <1>5, <1>6, <2>1 DEF Counts
  <1>8. Weight(both) = h[m + n] /\ Weight(s) = f[m] /\ Weight(t) = g[n]
    BY <1>1, <1>2, <1>3, <1>7, WeightCounts DEF m, n
  <1>9. h[m + n] = f[m] + g[n] /\ f[m] \in Nat /\ g[n] \in Nat
    BY <1>3, <1>4, <1>5
  <1>10. QED  BY <1>8, <1>9 DEF both

LEMMA WeightFew ==
  /\ Weight(<<>>) = 0
  /\ \A a : Weight(<<a>>) = Blocks(a.part)
  /\ \A a, b, c, d : Weight(<<a, b, c, d>>) =
        Blocks(a.part) + Blocks(b.part) + Blocks(c.part) + Blocks(d.part)
  <1>1. ASSUME NEW a PROVE Weight(<<>>) = 0 /\ Weight(<<a>>) = Blocks(a.part)
    <2> DEFINE f == [k \in 0 .. 0 |-> 0]
               g == [k \in 0 .. 1 |-> IF k = 0 THEN 0 ELSE Blocks(a.part)]
    <2>1. Counts(f, <<>>) /\ Counts(g, <<a>>)
      BY BlocksNat DEF Counts
    <2>2. <<>> \in Seq({a}) /\ <<a>> \in Seq({a}) /\ Len(<<>>) = 0 /\ Len(<<a>>) = 1
      OBVIOUS
    <2>3. f[0] = 0 /\ g[1] = Blocks(a.part)
      OBVIOUS
    <2> HIDE DEF f, g
    <2>4. QED  BY <2>1, <2>2, <2>3, WeightCounts
  <1>2. ASSUME NEW a, NEW b, NEW c, NEW d
        PROVE  Weight(<<a, b, c, d>>) =
                 Blocks(a.part) + Blocks(b.part) + Blocks(c.part) + Blocks(d.part)
    <2> DEFINE S == {a, b, c, d}
               s == <<a, b, c, d>>
               A == Blocks(a.part)
               B == Blocks(b.part)
               C == Blocks(c.part)
               D == Blocks(d.part)
               f == [k \in 0 .. 4 |-> IF k = 0 THEN 0 ELSE IF k = 1 THEN A
                                      ELSE IF k = 2 THEN A + B ELSE IF k = 3 THEN A + B + C
                                      ELSE A + B + C + D]
    <2>1. s \in Seq(S) /\ Len(s) = 4 /\ s[1] = a /\ s[2] = b /\ s[3] = c /\ s[4] = d
      OBVIOUS
    <2>2. A \in Nat /\ B \in Nat /\ C \in Nat /\ D \in Nat
      BY BlocksNat
    <2>3. /\ Blocks(s[1].part) = A /\ Blocks(s[2].part) = B
          /\ Blocks(s[3].part) = C /\ Blocks(s[4].part) = D
      BY <2>1
    <2> HIDE DEF A, B, C, D, S, s
    <2>4. /\ f \in [0 .. 4 -> Nat] /\ f[0] = 0 /\ f[1] = A /\ f[2] = A + B
          /\ f[3] = A + B + C /\ f[4] = A + B + C + D
      BY <2>2
    <2> HIDE DEF f
    <2>5. \A k \in 1 .. 4 : f[k] = f[k - 1] + Blocks(s[k].part)
      <3> SUFFICES ASSUME NEW k \in 1 .. 4
                   PROVE  f[k] = f[k - 1] + Blocks(s[k].part)
        OBVIOUS
      <3>1. k = 1 \/ k = 2 \/ k = 3 \/ k = 4
        OBVIOUS
      <3>2. QED  BY <2>2, <2>3, <2>4, <3>1
    <2>6. Counts(f, s)
      BY <2>1, <2>4, <2>5 DEF Counts
    <2>7. Weight(s) = A + B + C + D
      BY <2>1, <2>4, <2>6, WeightCounts
    <2>8. QED  BY <2>7 DEF s, A, B, C, D
  <1>3. QED  BY <1>1, <1>2

LEMMA WeightHead ==
  ASSUME NEW S, NEW s \in Seq(S), s # <<>>
  PROVE  /\ Tail(s) \in Seq(S) /\ Weight(Tail(s)) \in Nat
         /\ Weight(s) = Blocks(Head(s).part) + Weight(Tail(s))
  <1>1. /\ s = <<Head(s)>> \o Tail(s)
        /\ <<Head(s)>> \in Seq(S) /\ Tail(s) \in Seq(S)
    OBVIOUS
  <1>2. /\ Weight(s) = Weight(<<Head(s)>>) + Weight(Tail(s))
        /\ Weight(Tail(s)) \in Nat
    BY <1>1, WeightJoined
  <1>3. Weight(<<Head(s)>>) = Blocks(Head(s).part)
    BY WeightFew
  <1>4. QED  BY <1>1, <1>2, <1>3

LEMMA WeightParts ==
  ASSUME NEW n \in Nat, NEW many \in Nat
  PROVE  Weight(Parts(n, many)) = 4 * many
  <1> DEFINE ps == Parts(n, many)
             m == 3 * many
             f == [k \in 0 .. m |-> 4 * (k \div 3) + (k % 3)]
  <1>1. m \in Nat /\ f \in [0 .. m -> Nat] /\ f[0] = 0 /\ f[m] = 4 * many
    OBVIOUS
  <1>2. /\ ps \in Seq([part : {"auth", "msg1", "msg2"}, of : 1 .. n + many])
        /\ Len(ps) = m
    BY PartsFacts
  <1>3. \A k \in 1 .. m : ps[k].part = Part[((k - 1) % 3) + 1]
    BY DEF Parts
  <1> HIDE DEF ps
  <1>4. \A k \in 1 .. m : f[k] = f[k - 1] + Blocks(ps[k].part)
    <2> SUFFICES ASSUME NEW k \in 1 .. m PROVE f[k] = f[k - 1] + Blocks(ps[k].part)
      OBVIOUS
    <2>1. /\ f[k] = 4 * (k \div 3) + (k % 3)
          /\ f[k - 1] = 4 * ((k - 1) \div 3) + ((k - 1) % 3)
      OBVIOUS
    <2>2. \/ (k - 1) % 3 = 0 /\ k % 3 = 1 /\ k \div 3 = (k - 1) \div 3
          \/ (k - 1) % 3 = 1 /\ k % 3 = 2 /\ k \div 3 = (k - 1) \div 3
          \/ (k - 1) % 3 = 2 /\ k % 3 = 0 /\ k \div 3 = ((k - 1) \div 3) + 1
      OBVIOUS
    <2>3. Blocks("auth") = 1 /\ Blocks("msg1") = 1 /\ Blocks("msg2") = 2
      BY DEF Blocks
    <2>4. /\ (k - 1) % 3 = 0 => Blocks(ps[k].part) = 1
          /\ (k - 1) % 3 = 1 => Blocks(ps[k].part) = 1
          /\ (k - 1) % 3 = 2 => Blocks(ps[k].part) = 2
      BY <1>3, <2>3 DEF Part
    <2> DEFINE r == (k - 1) % 3
               q == (k - 1) \div 3
    <2>5. q \in Nat
      OBVIOUS
    <2>6. /\ f[k] = 4 * (k \div 3) + (k % 3) /\ f[k - 1] = 4 * q + r
          /\ \/ r = 0 /\ k % 3 = 1 /\ k \div 3 = q /\ Blocks(ps[k].part) = 1
             \/ r = 1 /\ k % 3 = 2 /\ k \div 3 = q /\ Blocks(ps[k].part) = 1
             \/ r = 2 /\ k % 3 = 0 /\ k \div 3 = q + 1 /\ Blocks(ps[k].part) = 2
      BY <2>1, <2>2, <2>4
    <2> HIDE DEF r, q, f
    <2>7. QED  BY <2>5, <2>6
  <1> HIDE DEF f, m
  <1>5. Counts(f, ps)
    BY <1>1, <1>2, <1>4 DEF Counts
  <1>6. QED  BY <1>1, <1>2, <1>5, WeightCounts DEF ps

-----------------------------------------------------------------------------
(* Where the blocks of the requests are.                                   *)

LostInv ==
    /\ OnlyTheseLost
    /\ dheld \in Int /\ refused \in Int /\ unread \in Nat
    /\ dpc \notin {"read", "free"} => msg2 = NoPart

LEMMA BlocksOf ==
  /\ Blocks("auth") = 1 /\ Blocks("msg1") = 1 /\ Blocks("msg2") = 2
  /\ Blocks(NoPart.part) = 0
  BY DEF Blocks, NoPart

LEMMA InitLost == Init => LostInv
  <1> SUFFICES ASSUME Init PROVE LostInv
    OBVIOUS
  <1>1. /\ dht11_event = <<>> /\ dpc = "msg" /\ dgot = NoPart
        /\ msg = NoPart /\ msg1 = NoPart /\ msg2 = NoPart
        /\ refused = 0 /\ unread = 0 /\ dheld = 0
    BY DEF Init, Dht11Init
  <1>2. Weight(dht11_event) = 0 /\ Weight(<<dgot, msg, msg1, msg2>>) = 0
    BY <1>1, WeightFew, BlocksOf
  <1>3. QED  BY <1>1, <1>2 DEF LostInv, OnlyTheseLost

(* What OnlyTheseLost says, pointer by pointer.                            *)
LEMMA LostParts ==
  OnlyTheseLost <=>
    dheld = Weight(dht11_event)
            + (Blocks(dgot.part) + Blocks(msg.part) + Blocks(msg1.part) + Blocks(msg2.part))
            + 4 * unread + refused
  BY WeightFew DEF OnlyTheseLost

LEMMA LostPartsNext ==
  OnlyTheseLost' <=>
    dheld' = Weight(dht11_event')
             + (Blocks(dgot'.part) + Blocks(msg'.part) + Blocks(msg1'.part)
                  + Blocks(msg2'.part))
             + 4 * unread' + refused'
  BY WeightFew DEF OnlyTheseLost

LEMMA QueueWeight == ASSUME DhtType PROVE Weight(dht11_event) \in Nat
  <1>1. dht11_event \in Seq(PartBuffer)
    BY DEF DhtType
  <1>2. QED  BY <1>1, WeightJoined

LEMMA PendLost == ASSUME DhtType, LostInv, DhtPend PROVE LostInv'
  <1>1. /\ dgot = NoPart
        /\ UNCHANGED <<dpc, msg, msg1, msg2, refused, unread, dheld>>
    BY DEF DhtPend, pointers
  <1>2. Weight(dht11_event) + Blocks(dgot.part)
          = Weight(dht11_event') + Blocks(dgot'.part)
    <2>1. CASE dht11_event = <<>>
      BY <2>1 DEF DhtPend
    <2>2. CASE dht11_event # <<>>
      <3>1. dht11_event \in Seq(PartBuffer)
        BY DEF DhtType
      <3>2. /\ Weight(dht11_event)
                 = Blocks(Head(dht11_event).part) + Weight(Tail(dht11_event))
            /\ Weight(Tail(dht11_event)) \in Nat
        BY <2>2, <3>1, WeightHead
      <3>3. dgot' = Head(dht11_event) /\ dht11_event' = Tail(dht11_event)
        BY <2>2 DEF DhtPend
      <3>4. QED  BY <1>1, <3>2, <3>3, BlocksOf, BlocksNat
    <2>3. QED  BY <2>1, <2>2
  <1>3. Weight(dht11_event) \in Nat /\ Weight(dht11_event') \in Nat
    <2>1. dht11_event \in Seq(PartBuffer) /\ dht11_event' \in Seq(PartBuffer)
      BY DEF DhtPend, DhtType
    <2>2. QED  BY <2>1, WeightJoined
  <1>4. OnlyTheseLost'
    BY <1>1, <1>2, <1>3, LostParts, LostPartsNext, BlocksNat DEF LostInv
  <1>5. QED  BY <1>1, <1>4 DEF LostInv

LEMMA TakeLost == ASSUME DhtType, LostInv, DhtTake PROVE LostInv'
  <1>1. /\ dgot' = NoPart /\ UNCHANGED <<dht11_event, refused, unread, dheld>>
        /\ \/ dpc = "msg" /\ msg' = dgot /\ dpc' = "msg1" /\ UNCHANGED <<msg1, msg2>>
           \/ dpc = "msg1" /\ msg1' = dgot /\ dpc' = "msg2" /\ UNCHANGED <<msg, msg2>>
           \/ dpc = "msg2" /\ msg2' = dgot /\ dpc' = "read" /\ UNCHANGED <<msg, msg1>>
    BY DEF DhtTake
  <1>2. /\ dpc = "msg" => msg = NoPart
        /\ dpc = "msg1" => msg1 = NoPart
        /\ dpc = "msg2" => msg2 = NoPart
    BY DEF DhtType, LostInv
  <1>3. Blocks(dgot.part) + Blocks(msg.part) + Blocks(msg1.part) + Blocks(msg2.part)
          = Blocks(dgot'.part) + Blocks(msg'.part) + Blocks(msg1'.part) + Blocks(msg2'.part)
    BY <1>1, <1>2, BlocksOf, BlocksNat
  <1>4. OnlyTheseLost'
    BY <1>1, <1>3, LostParts, LostPartsNext DEF LostInv
  <1>5. dpc' \notin {"read", "free"} => msg2' = NoPart
    BY <1>1 DEF LostInv
  <1>6. QED  BY <1>1, <1>4, <1>5 DEF LostInv

(* What is given up is freed: what came of a request the rest of which did *)
(* not, and what has been used.                                            *)
LEMMA FreeLost == ASSUME DhtType, LostInv, DhtTimeout \/ DhtFree PROVE LostInv'
  <1>1. /\ msg' = NoPart /\ msg1' = NoPart /\ msg2' = NoPart /\ dpc' = "msg"
        /\ UNCHANGED <<dht11_event, dgot, refused, unread>>
        /\ dheld' = dheld - (Blocks(msg.part) + Blocks(msg1.part) + Blocks(msg2.part))
    <2>1. CASE DhtTimeout
      <3>1. msg2 = NoPart
        BY <2>1 DEF DhtTimeout, LostInv
      <3>2. dheld \in Int /\ Blocks(msg2.part) = 0
        BY <3>1, BlocksOf DEF LostInv
      <3>3. QED  BY <2>1, <3>1, <3>2, BlocksNat DEF DhtTimeout
    <2>2. CASE DhtFree
      BY <2>2 DEF DhtFree
    <2>3. QED  BY <2>1, <2>2
  <1>2. dheld' \in Int
    BY <1>1, BlocksNat DEF LostInv
  <1>3. Weight(dht11_event) \in Nat
    BY QueueWeight
  <1>4. OnlyTheseLost'
    BY <1>1, <1>3, LostParts, LostPartsNext, BlocksOf, BlocksNat DEF LostInv
  <1>5. QED  BY <1>1, <1>2, <1>4 DEF LostInv

(* The four blocks of a request the sensor does not answer.                *)
LEMMA NoReadingLost == ASSUME DhtType, LostInv, NoReading PROVE LostInv'
  <1>1. /\ msg' = NoPart /\ msg1' = NoPart /\ msg2' = NoPart
        /\ unread' = unread + 1 /\ UNCHANGED <<dht11_event, dgot, refused, dheld>>
        /\ msg.part = "auth" /\ msg1.part = "msg1" /\ msg2.part = "msg2"
    BY DEF NoReading, ForMe, IsAuth, IsKind, IsHere
  <1>2. Weight(dht11_event) \in Nat
    BY QueueWeight
  <1>3. /\ Blocks(msg.part) = 1 /\ Blocks(msg1.part) = 1 /\ Blocks(msg2.part) = 2
        /\ Blocks(msg'.part) = 0 /\ Blocks(msg1'.part) = 0 /\ Blocks(msg2'.part) = 0
    BY <1>1, BlocksOf
  <1>4. OnlyTheseLost'
    BY <1>1, <1>2, <1>3, LostParts, LostPartsNext, BlocksNat DEF LostInv
  <1>5. QED  BY <1>1, <1>4 DEF LostInv

LEMMA AnswerLost ==
  ASSUME DhtType, LostInv, NEW accepted \in SUBSET {"tag", "answer"}, Answer(accepted)
  PROVE  LostInv'
  <1> DEFINE lost == (IF "tag" \in accepted THEN 0 ELSE Blocks("tag"))
                     + (IF "answer" \in accepted THEN 0 ELSE Blocks("answer"))
  <1>1. /\ refused' = refused + lost /\ dheld' = dheld + lost /\ dpc' = "free"
        /\ UNCHANGED <<dht11_event, dgot, msg, msg1, msg2, unread>>
    BY DEF Answer, pointers
  <1>2. lost \in Nat
    BY BlocksNat
  <1> HIDE DEF lost
  <1>3. Weight(dht11_event) \in Nat
    BY QueueWeight
  <1>4. OnlyTheseLost'
    BY <1>1, <1>2, <1>3, LostParts, LostPartsNext, BlocksNat DEF LostInv
  <1>5. QED  BY <1>1, <1>2, <1>4 DEF LostInv

(* Three posts for each request: what the queue takes and what it refuses  *)
(* are together the four blocks of each.                                   *)
LEMMA AskLost ==
  ASSUME DhtType, LostInv, NEW peer \in Peer, NEW row \in Seq(Row), Ask(peer, peer, row)
  PROVE  LostInv'
  <1> DEFINE n == Len(requests)
             many == Len(row)
             B == [part : {"auth", "msg1", "msg2"}, of : 1 .. n + many]
             ps == Parts(n, many)
             hand == DhtWaits /\ row # <<>>
             rest == IF hand THEN Tail(ps) ELSE ps
             handed == IF hand THEN Blocks(Head(ps).part) ELSE 0
  <1>1. /\ dgot' = (IF hand THEN Head(ps) ELSE dgot)
        /\ dht11_event' = dht11_event \o Queued(rest)
        /\ refused' = refused + Weight(rest) - Weight(Queued(rest))
        /\ dheld' = dheld + 4 * many
        /\ UNCHANGED <<dpc, msg, msg1, msg2, unread>>
    BY DEF Ask, pointers
  <1>2. n \in Nat /\ many \in Nat /\ (row # <<>> => many # 0)
    BY DEF DhtType
  <1>3. ps \in Seq(B) /\ (many # 0 => ps # <<>>)
    BY <1>2, PartsFacts
  <1>4. Weight(ps) = 4 * many
    BY <1>2, WeightParts
  <1> HIDE DEF ps
  <1>5. /\ rest \in Seq(B) /\ Weight(rest) \in Nat
        /\ 4 * many = Weight(rest) + handed /\ handed \in Nat
    <2>1. CASE hand
      <3>1. ps # <<>>
        BY <1>2, <1>3, <2>1
      <3>2. rest = Tail(ps) /\ handed = Blocks(Head(ps).part)
        BY <2>1
      <3>3. handed \in Nat
        BY <3>2, BlocksNat
      <3> HIDE DEF B, rest, handed
      <3>4. QED  BY <1>3, <1>4, <3>1, <3>2, <3>3, WeightHead
    <2>2. CASE ~hand
      BY <1>2, <1>3, <1>4, <2>2
    <2>3. QED  BY <2>1, <2>2
  <1>6. Room \in Nat
    BY DhtSizeAssumption DEF Room, DhtType
  <1> HIDE DEF rest, B
  <1>7. Queued(rest) \in Seq(B)
    BY <1>5, <1>6, QueuedPrefix
  <1>8. /\ Weight(dht11_event') = Weight(dht11_event) + Weight(Queued(rest))
        /\ Weight(dht11_event) \in Nat /\ Weight(Queued(rest)) \in Nat
    <2>1. dht11_event \in Seq(PartBuffer \union B) /\ Queued(rest) \in Seq(PartBuffer \union B)
      BY <1>7 DEF DhtType
    <2>2. QED  BY <1>1, <2>1, WeightJoined
  <1>9. Blocks(dgot'.part) = Blocks(dgot.part) + handed
    BY <1>1, BlocksOf, BlocksNat DEF DhtWaits
  <1> HIDE DEF hand, handed
  <1>10. 4 * many \in Nat
    BY <1>2
  <1> HIDE DEF many
  <1>11. OnlyTheseLost'
    <2>1. dheld = Weight(dht11_event)
                  + (Blocks(dgot.part) + Blocks(msg.part) + Blocks(msg1.part)
                       + Blocks(msg2.part))
                  + 4 * unread + refused
      BY LostParts DEF LostInv
    <2>2. /\ Blocks(dgot.part) \in Nat /\ Blocks(msg.part) \in Nat
          /\ Blocks(msg1.part) \in Nat /\ Blocks(msg2.part) \in Nat
      BY BlocksNat
    <2>3. dheld' = Weight(dht11_event')
                   + (Blocks(dgot'.part) + Blocks(msg.part) + Blocks(msg1.part)
                        + Blocks(msg2.part))
                   + 4 * unread + refused'
      <3> DEFINE W == Weight(dht11_event)
                 Q == Weight(Queued(rest))
                 R == Weight(rest)
                 G == Blocks(dgot.part)
                 P == Blocks(msg.part)
                 P1 == Blocks(msg1.part)
                 P2 == Blocks(msg2.part)
      <3>1. /\ dheld' = dheld + (R + handed) /\ refused' = refused + R - Q
            /\ Weight(dht11_event') = W + Q /\ Blocks(dgot'.part) = G + handed
        BY <1>1, <1>5, <1>8, <1>9
      <3>2. dheld = W + (G + P + P1 + P2) + 4 * unread + refused
        BY <2>1
      <3>3. /\ W \in Nat /\ Q \in Nat /\ R \in Nat /\ handed \in Nat
            /\ refused \in Int /\ unread \in Nat
        BY <1>5, <1>8 DEF LostInv
      <3>4. G \in Nat /\ P \in Nat /\ P1 \in Nat /\ P2 \in Nat
        BY <2>2
      <3> HIDE DEF W, Q, R, G, P, P1, P2
      <3>5. W + (G + P + P1 + P2) + 4 * unread + refused + (R + handed)
              = (W + Q) + ((G + handed) + P + P1 + P2) + 4 * unread + (refused + R - Q)
        BY <3>3, <3>4
      <3>6. dheld' = Weight(dht11_event') + (Blocks(dgot'.part) + P + P1 + P2)
                     + 4 * unread + refused'
        BY <3>1, <3>2, <3>5
      <3>7. QED  BY <3>6 DEF P, P1, P2
    <2>4. QED
      BY <1>1, <2>3, LostPartsNext
  <1>12. QED  BY <1>1, <1>5, <1>8, <1>10, <1>11 DEF LostInv

LEMMA StepLost == PairInv /\ AskInv /\ LostInv /\ [Next]_vars => LostInv'
  <1> SUFFICES ASSUME PairInv, AskInv, LostInv, [Next]_vars PROVE LostInv'
    OBVIOUS
  <1>1. DhtType
    BY DEF AskInv
  <1>2. CASE UNCHANGED dht11Vars
    BY <1>2 DEF dht11Vars, pointers, LostInv, OnlyTheseLost
  <1>3. CASE TakeMsg /\ CarryOut
    BY <1>1, <1>2, <1>3, CarriedOutRow, AskLost
  <1>4. CASE DhtTask
    <2>1. CASE NotForMe
      BY <2>1 DEF NotForMe, pointers, LostInv, OnlyTheseLost
    <2>2. ASSUME NEW accepted \in SUBSET {"tag", "answer"}, Answer(accepted)
          PROVE  LostInv'
      BY <1>1, <2>2, AnswerLost
    <2>3. QED
      BY <1>1, <1>4, <2>1, <2>2, PendLost, TakeLost, FreeLost, NoReadingLost DEF DhtTask
  <1>5. QED  BY <1>2, <1>3, <1>4 DEF Next, vars

(* Every block taken for a request is in the queue or in a pointer of      *)
(* dht11_task, but for those a queue had no room for and the four of each  *)
(* request the sensor did not answer.                                      *)
THEOREM OnlyTheseLostHolds == Spec => []OnlyTheseLost
  <1>1. PairInv /\ AskInv /\ LostInv /\ [Next]_vars => PairInv' /\ AskInv' /\ LostInv'
    BY StepPairInv, StepAskInv, StepLost
  <1>2. Init => PairInv /\ AskInv /\ LostInv
    BY InitPairInv, InitDht, InitLost
  <1>3. LostInv => OnlyTheseLost
    BY DEF LostInv
  <1>4. QED  BY <1>1, <1>2, <1>3, PTL DEF Spec

=============================================================================
