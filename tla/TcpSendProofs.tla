--------------------------- MODULE TcpSendProofs ---------------------------
(***************************************************************************)
(* Proofs about TcpSend, for any set of producers, any priorities and any  *)
(* size of the queue.                                                      *)
(***************************************************************************)
EXTENDS TcpSend, TLAPS, SequenceTheorems

(* A buffer is never the null pointer, and an addressee never None.        *)
LEMMA NullIsNoBuffer == Null \notin Buffer /\ None \notin Peer
  BY DEF Null, None, Buffer, Peer

(* What OSQPend takes out of a queue of buffers.                           *)
LEMMA HeadTail ==
  ASSUME NEW q \in Seq(Buffer), q # <<>>
  PROVE  Head(q) \in Buffer /\ Tail(q) \in Seq(Buffer)
  OBVIOUS

(* What OSQPost keeps: a buffer goes in, buffers stay.                     *)
LEMMA PostType ==
  ASSUME TypeOK, NEW b \in Buffer, Post(b)
  PROVE  /\ tcp_send_event' \in Seq(Buffer)
         /\ pc' \in {"link", "auth", "authWait", "msg", "msgWait", "dispatch",
                     "writing"}
         /\ auth_msg' \in BufferOrNull /\ msg' \in BufferOrNull
         /\ live' \subseteq Buffer /\ dropped' \subseteq Buffer
         /\ isConnected' \in BOOLEAN /\ isAccepted' \in BOOLEAN
         /\ wire' \in Seq([to : Peer, buf : Buffer, torn : BOOLEAN])
  <1>1. CASE Waiting /\ HandOver(b)
    BY <1>1 DEF TypeOK, Post, HandOver, BufferOrNull, linkVars
  <1>2. CASE ~Waiting /\ ~Full /\ Append1(b)
    BY <1>2 DEF TypeOK, Post, Append1, taskVars, linkVars
  <1>3. CASE Refused /\ Refuse(b)
    BY <1>3 DEF TypeOK, Post, Refuse, taskVars, linkVars
  <1>4. QED  BY <1>1, <1>2, <1>3 DEF Post, OSQPost

(* Dispatch and write hold a tag and a text: neither pointer is null.      *)
PointersSet ==
  /\ pc \in {"msg", "msgWait", "dispatch", "writing"} <=> auth_msg # Null
  /\ pc \in {"dispatch", "writing"} <=> msg # Null
  /\ pc = "writing" => IsTag(auth_msg)

(* The type invariant, strengthened with what the program counter of       *)
(* tcp_send_task says of its two pointers.                                 *)
TypeInv == TypeOK /\ PointersSet

LEMMA InitType == Init => TypeInv
  <1> SUFFICES ASSUME Init PROVE TypeOK /\ PointersSet
    BY DEF TypeInv
  <1>1. /\ <<>> \in Seq(Buffer)
        /\ <<>> \in Seq([to : Peer, buf : Buffer, torn : BOOLEAN])
    OBVIOUS
  <1>2. TypeOK
    BY <1>1 DEF Init, TypeOK, BufferOrNull
  <1>3. PointersSet
    BY DEF Init, PointersSet
  <1>4. QED  BY <1>2, <1>3

LEMMA StepType == TypeInv /\ [Next]_vars => TypeInv'
  <1> SUFFICES ASSUME TypeOK, PointersSet, [Next]_vars
               PROVE  TypeOK' /\ PointersSet'
    BY DEF TypeInv
  <1> USE NullIsNoBuffer
  <1>1. ASSUME NEW p \in Producer, NEW to \in Peer, PostAuth(p, to)
        PROVE  TypeOK' /\ PointersSet'
    <2> DEFINE b == [from |-> p, pair |-> begun[p] + 1, part |-> "auth",
                     to |-> to]
    <2>1. b \in Buffer /\ Post(b)
      BY <1>1 DEF PostAuth, TypeOK, Buffer
    <2> HIDE DEF b
    <2>2. TypeOK'
      <3>1. torn' \in BOOLEAN
        BY <1>1 DEF PostAuth, TornIf
      <3>2. half' \in [Producer -> Peer \union {None}]
        BY <1>1 DEF PostAuth, TypeOK
      <3>3. begun' \in [Producer -> Nat]
        BY <1>1 DEF PostAuth, TypeOK
      <3>4. QED  BY <2>1, <3>1, <3>2, <3>3, PostType DEF TypeOK
    <2>3. PointersSet'
      BY <2>1 DEF Post, OSQPost, HandOver, Append1, Refuse, taskVars,
                  PointersSet, IsTag
    <2>4. QED  BY <2>2, <2>3
  <1>2. ASSUME NEW p \in Producer, PostMsg(p)
        PROVE  TypeOK' /\ PointersSet'
    <2> DEFINE b == [from |-> p, pair |-> begun[p], part |-> "msg",
                     to |-> half[p]]
    <2>1. b \in Buffer /\ Post(b)
      BY <1>2 DEF PostMsg, TypeOK, Buffer, MidPair
    <2> HIDE DEF b
    <2>2. TypeOK'
      <3>1. torn' \in BOOLEAN
        BY <1>2 DEF PostMsg, TornIf
      <3>2. half' \in [Producer -> Peer \union {None}]
        BY <1>2 DEF PostMsg, TypeOK
      <3>3. begun' \in [Producer -> Nat]
        BY <1>2 DEF PostMsg, TypeOK
      <3>4. QED  BY <2>1, <3>1, <3>2, <3>3, PostType DEF TypeOK
    <2>3. PointersSet'
      BY <2>1 DEF Post, OSQPost, HandOver, Append1, Refuse, taskVars,
                  PointersSet, IsTag
    <2>4. QED  BY <2>2, <2>3
  <1>3. CASE LinkCheck
    BY <1>3 DEF LinkCheck, TypeOK, PointersSet, prodVars, linkVars, IsTag
  <1>4. CASE PendAuth
    <2>1. CASE tcp_send_event = <<>>
      BY <1>4, <2>1 DEF PendAuth, TypeOK, PointersSet, prodVars, linkVars, IsTag
    <2>2. CASE tcp_send_event # <<>>
      <3>1. /\ Head(tcp_send_event) \in Buffer
            /\ Tail(tcp_send_event) \in Seq(Buffer)
        BY <2>2, HeadTail DEF TypeOK
      <3>2. QED
        BY <1>4, <2>2, <3>1 DEF PendAuth, TypeOK, PointersSet, prodVars, linkVars,
                              IsTag, BufferOrNull
    <2>3. QED  BY <2>1, <2>2
  <1>5. CASE PendMsg
    <2>1. CASE tcp_send_event = <<>>
      BY <1>5, <2>1 DEF PendMsg, TypeOK, PointersSet, prodVars, linkVars, IsTag
    <2>2. CASE tcp_send_event # <<>>
      <3>1. /\ Head(tcp_send_event) \in Buffer
            /\ Tail(tcp_send_event) \in Seq(Buffer)
        BY <2>2, HeadTail DEF TypeOK
      <3>2. QED
        BY <1>5, <2>2, <3>1 DEF PendMsg, TypeOK, PointersSet, prodVars, linkVars,
                              IsTag, BufferOrNull
    <2>3. QED  BY <2>1, <2>2
  <1>6. CASE MsgTimeout
    BY <1>6 DEF MsgTimeout, TypeOK, PointersSet, prodVars, linkVars, IsTag,
                BufferOrNull, TornIf, LoopHead
  <1>7. CASE StartWrite
    BY <1>7 DEF StartWrite, TypeOK, PointersSet, prodVars, linkVars, IsTag,
                BufferOrNull, Buffer
  <1>8. CASE Discard
    BY <1>8 DEF Discard, FreeBoth, TypeOK, PointersSet, prodVars, linkVars, IsTag,
                BufferOrNull, TornIf, LoopHead
  <1>9. ASSUME NEW ok \in BOOLEAN, FinishWrite(ok)
        PROVE  TypeOK' /\ PointersSet'
    <2>1. isConnected' \in BOOLEAN /\ isAccepted' \in BOOLEAN /\ torn' \in BOOLEAN
      BY <1>9 DEF FinishWrite, TornIf
    <2>2. TypeOK'
      BY <1>9, <2>1 DEF FinishWrite, FreeBoth, TypeOK, prodVars, BufferOrNull,
                        LoopHead
    <2>3. PointersSet'
      BY <1>9 DEF FinishWrite, FreeBoth, PointersSet, LoopHead
    <2>4. QED  BY <2>2, <2>3
  <1>10. CASE LinkChange
    BY <1>10 DEF LinkChange, TypeOK, PointersSet, prodVars, taskVars, IsTag
  <1>11. CASE UNCHANGED vars
    BY <1>11 DEF vars, TypeOK, PointersSet, prodVars, taskVars, linkVars, IsTag
  <1>12. QED
    BY <1>1, <1>2, <1>3, <1>4, <1>5, <1>6, <1>7, <1>8, <1>9, <1>10, <1>11
       DEF Next, SendTask

(* The queue, the flags and the pointers of tcp_send_task always have      *)
(* their types.                                                            *)
THEOREM TypeCorrect == Spec => []TypeOK
  <1>1. TypeInv => TypeOK
    BY DEF TypeInv
  <1>2. QED  BY <1>1, InitType, StepType, PTL DEF Spec

-----------------------------------------------------------------------------
(* Messages and their peers.                                               *)

(* The text that belongs to a tag, and the tag p has posted last.          *)
TextOf(t) == [t EXCEPT !.part = "msg"]
TagOf(p) == [from |-> p, pair |-> begun[p], part |-> "auth", to |-> half[p]]

(* tcp_send_task holds a tag and has not taken its text.                   *)
Expecting == pc \in {"msg", "msgWait"}

(* The buffer posted last, if it is still on its way to a dispatch.        *)
Last == IF tcp_send_event # <<>> THEN tcp_send_event[Len(tcp_send_event)]
        ELSE IF Expecting THEN auth_msg ELSE Null

(* Tags and texts alternate along the queue, beginning with what           *)
(* tcp_send_task expects next, each text after its own tag; and a producer *)
(* is inside a pair exactly when the last buffer is its tag.               *)
Aligned ==
  /\ \A i \in 1..(Len(tcp_send_event) - 1) :
       IF IsTag(tcp_send_event[i])
         THEN tcp_send_event[i + 1] = TextOf(tcp_send_event[i])
         ELSE IsTag(tcp_send_event[i + 1])
  /\ Expecting =>
       /\ IsTag(auth_msg)
       /\ tcp_send_event # <<>> => tcp_send_event[1] = TextOf(auth_msg)
  /\ ~Expecting => (tcp_send_event # <<>> => IsTag(tcp_send_event[1]))
  /\ pc \in {"dispatch", "writing"} => IsTag(auth_msg) /\ msg = TextOf(auth_msg)
  /\ \A p \in Producer : MidPair(p) => Last = TagOf(p)
  /\ IsTag(Last) => \E p \in Producer : MidPair(p)

PairInv == TypeInv /\ NoLostWakeup /\ PairIntegrity /\ (~torn => Aligned)

LEMMA QuietAligned == TypeInv /\ Quiet => Aligned
  BY DEF TypeInv, PointersSet, Quiet, Aligned, Expecting, Last, MidPair, Null, IsTag, None

(* The queue is empty whenever tcp_send_task waits.                        *)
LEMMA WakeupStep == TypeInv /\ NoLostWakeup /\ [Next]_vars => NoLostWakeup'
  <1> SUFFICES ASSUME TypeOK, NoLostWakeup, [Next]_vars PROVE NoLostWakeup'
    BY DEF TypeInv
  <1> USE DEF NoLostWakeup, Waiting
  <1>1. ASSUME NEW b, Post(b) PROVE NoLostWakeup'
    <2>1. CASE Waiting /\ HandOver(b)
      BY <2>1 DEF HandOver
    <2>2. CASE ~Waiting /\ ~Full /\ Append1(b)
      BY <2>2, SizeAssumption DEF Append1, Full, taskVars, TypeOK
    <2>3. CASE Refused /\ Refuse(b)
      BY <2>3 DEF Refuse, Refused, taskVars
    <2>4. QED  BY <1>1, <2>1, <2>2, <2>3 DEF Post, OSQPost
  <1>2. ASSUME NEW p \in Producer, NEW to \in Peer, PostAuth(p, to)
        PROVE  NoLostWakeup'
    BY <1>1, <1>2 DEF PostAuth
  <1>3. ASSUME NEW p \in Producer, PostMsg(p) PROVE NoLostWakeup'
    BY <1>1, <1>3 DEF PostMsg
  <1>4. CASE LinkCheck  BY <1>4 DEF LinkCheck
  <1>5. CASE PendAuth
    <2>1. CASE tcp_send_event = <<>>
      BY <1>5, <2>1, SizeAssumption DEF PendAuth
    <2>2. CASE tcp_send_event # <<>>
      BY <1>5, <2>2, SizeAssumption DEF PendAuth, TypeOK
    <2>3. QED  BY <2>1, <2>2
  <1>6. CASE PendMsg
    <2>1. CASE tcp_send_event = <<>>
      BY <1>6, <2>1, SizeAssumption DEF PendMsg
    <2>2. CASE tcp_send_event # <<>>
      BY <1>6, <2>2, SizeAssumption DEF PendMsg, TypeOK
    <2>3. QED  BY <2>1, <2>2
  <1>7. CASE MsgTimeout  BY <1>7 DEF MsgTimeout, LoopHead
  <1>8. CASE StartWrite  BY <1>8 DEF StartWrite
  <1>9. CASE Discard  BY <1>9 DEF Discard, LoopHead
  <1>10. ASSUME NEW ok \in BOOLEAN, FinishWrite(ok) PROVE NoLostWakeup'
    BY <1>10 DEF FinishWrite, LoopHead
  <1>11. CASE LinkChange  BY <1>11 DEF LinkChange, taskVars
  <1>12. CASE UNCHANGED vars  BY <1>12 DEF vars, taskVars
  <1>13. QED
    BY <1>2, <1>3, <1>4, <1>5, <1>6, <1>7, <1>8, <1>9, <1>10, <1>11, <1>12
       DEF Next, SendTask

(* A tag posted while nobody is inside a pair, and not refused, keeps the  *)
(* stream aligned.                                                         *)
LEMMA AuthAligned ==
  ASSUME TypeInv, TypeOK', NoLostWakeup, Aligned,
         NEW p \in Producer, NEW to \in Peer, PostAuth(p, to),
         ~Refused, \A r \in Producer : ~MidPair(r)
  PROVE  Aligned'
  <1> DEFINE b == [from |-> p, pair |-> begun[p] + 1, part |-> "auth", to |-> to]
             q == tcp_send_event
  <1>1. b \in Buffer /\ IsTag(b) /\ Post(b) /\ q \in Seq(Buffer)
    BY DEF PostAuth, TypeInv, TypeOK, Buffer, IsTag
  <1>2. TagOf(p)' = b /\ \A r \in Producer : MidPair(r)' => r = p
    BY DEF PostAuth, TypeInv, TypeOK, TagOf, MidPair
  <1>3. MidPair(p)' /\ ~IsTag(Last)
    BY NullIsNoBuffer DEF PostAuth, TypeInv, TypeOK, MidPair, Aligned
  <1> HIDE DEF b
  <1>4. CASE Waiting /\ HandOver(b)
    <2>1. q = <<>> /\ q' = q /\ pc = "authWait" /\ auth_msg' = b /\ pc' = "msg"
      BY <1>3, <1>4 DEF NoLostWakeup, Waiting, HandOver, Last, Expecting, Aligned
    <2>2. Last' = b
      BY <2>1 DEF Last, Expecting
    <2>3. QED
      BY <1>1, <1>2, <1>3, <2>1, <2>2 DEF Aligned, Expecting
  <1>5. CASE ~Waiting /\ ~Full /\ Append1(b)
    <2>1. q' = Append(q, b) /\ UNCHANGED <<pc, auth_msg, msg>>
      BY <1>5 DEF Append1, taskVars
    <2>2. /\ q' # <<>> /\ Len(q') = Len(q) + 1 /\ q'[Len(q')] = b
          /\ \A i \in 1..Len(q) : q'[i] = q[i]
          /\ Len(q) \in Nat
      BY <1>1, <2>1
    <2>3. Last' = b
      BY <2>2 DEF Last
    <2>4. ~Expecting \/ q # <<>>
      BY <1>3 DEF Last, Aligned
    <2>5. q = <<>> => q'[1] = b
      BY <2>2
    <2>6. q # <<>> => ~IsTag(q[Len(q)]) /\ Len(q) > 0 /\ q'[1] = q[1]
      BY <1>1, <1>3, <2>2 DEF Last
    <2>7. ASSUME NEW i \in 1..(Len(q') - 1)
          PROVE  IF IsTag(q'[i]) THEN q'[i + 1] = TextOf(q'[i])
                                 ELSE IsTag(q'[i + 1])
      <3>1. CASE i = Len(q)
        BY <1>1, <2>2, <2>6, <3>1
      <3>2. CASE i # Len(q)
        <4>1. i \in 1..(Len(q) - 1) /\ i \in 1..Len(q) /\ i + 1 \in 1..Len(q)
          BY <2>2, <2>7, <3>2
        <4>2. q'[i] = q[i] /\ q'[i + 1] = q[i + 1]
          BY <2>2, <4>1
        <4>3. QED  BY <4>1, <4>2 DEF Aligned
      <3>3. QED  BY <3>1, <3>2
    <2>8. Expecting' = Expecting
      BY <2>1 DEF Expecting
    <2>9. QED
      BY <1>1, <1>2, <1>3, <2>1, <2>2, <2>3, <2>4, <2>5, <2>6, <2>7, <2>8
         DEF Aligned
  <1>6. QED  BY <1>1, <1>4, <1>5 DEF Post, OSQPost

(* So does the text that closes the pair.                                  *)
LEMMA TextAligned ==
  ASSUME TypeInv, TypeOK', NoLostWakeup, Aligned,
         NEW p \in Producer, PostMsg(p), ~Refused
  PROVE  Aligned'
  <1> DEFINE b == [from |-> p, pair |-> begun[p], part |-> "msg", to |-> half[p]]
             q == tcp_send_event
  <1>1. b \in Buffer /\ ~IsTag(b) /\ Post(b) /\ q \in Seq(Buffer)
    BY DEF PostMsg, TypeInv, TypeOK, Buffer, IsTag, MidPair
  <1>2. Last = TagOf(p) /\ b = TextOf(TagOf(p)) /\ IsTag(TagOf(p))
    BY DEF PostMsg, Aligned, TextOf, TagOf, IsTag
  <1>3. \A r \in Producer : ~MidPair(r)'
    <2> SUFFICES ASSUME NEW r \in Producer, MidPair(r)' PROVE FALSE
      OBVIOUS
    <2>1. r # p /\ MidPair(r)
      BY DEF PostMsg, MidPair, TypeInv, TypeOK
    <2>2. TagOf(r) = TagOf(p)
      BY <1>2, <2>1 DEF Aligned
    <2>3. QED  BY <2>1, <2>2 DEF TagOf
  <1> HIDE DEF b
  <1>4. CASE Waiting /\ HandOver(b)
    <2>1. /\ q = <<>> /\ q' = q /\ pc = "msgWait" /\ auth_msg = TagOf(p)
          /\ msg' = b /\ auth_msg' = auth_msg /\ pc' = "dispatch"
      BY <1>2, <1>4 DEF NoLostWakeup, Waiting, HandOver, Last, Expecting, IsTag, Null, None
    <2>2. Last' = Null /\ ~IsTag(Null) /\ ~Expecting'
      BY <2>1 DEF Last, Expecting, IsTag, Null, None
    <2>3. QED
      BY <1>1, <1>2, <1>3, <2>1, <2>2 DEF Aligned
  <1>5. CASE ~Waiting /\ ~Full /\ Append1(b)
    <2>1. q' = Append(q, b) /\ UNCHANGED <<pc, auth_msg, msg>>
      BY <1>5 DEF Append1, taskVars
    <2>2. /\ q' # <<>> /\ Len(q') = Len(q) + 1 /\ q'[Len(q')] = b
          /\ \A i \in 1..Len(q) : q'[i] = q[i]
          /\ Len(q) \in Nat
      BY <1>1, <2>1
    <2>3. Last' = b
      BY <2>2 DEF Last
    <2>4. q = <<>> => Expecting /\ auth_msg = TagOf(p) /\ q'[1] = b
      BY <1>2, <2>2 DEF Last, IsTag, Null, None
    <2>6. q # <<>> => q[Len(q)] = TagOf(p) /\ Len(q) > 0 /\ q'[1] = q[1]
      BY <1>1, <1>2, <2>2 DEF Last
    <2>7. ASSUME NEW i \in 1..(Len(q') - 1)
          PROVE  IF IsTag(q'[i]) THEN q'[i + 1] = TextOf(q'[i])
                                 ELSE IsTag(q'[i + 1])
      <3>1. CASE i = Len(q)
        BY <1>2, <2>2, <2>6, <3>1
      <3>2. CASE i # Len(q)
        <4>1. i \in 1..(Len(q) - 1) /\ i \in 1..Len(q) /\ i + 1 \in 1..Len(q)
          BY <2>2, <2>7, <3>2
        <4>2. q'[i] = q[i] /\ q'[i + 1] = q[i + 1]
          BY <2>2, <4>1
        <4>3. QED  BY <4>1, <4>2 DEF Aligned
      <3>3. QED  BY <3>1, <3>2
    <2>8. Expecting' = Expecting
      BY <2>1 DEF Expecting
    <2>9. QED
      BY <1>1, <1>2, <1>3, <2>1, <2>2, <2>3, <2>4, <2>6, <2>7, <2>8
         DEF Aligned
  <1>6. QED  BY <1>1, <1>4, <1>5 DEF Post, OSQPost

(* A step that takes from the queue keeps the stream aligned.              *)
LEMMA PendAuthAligned ==
  ASSUME TypeInv, Aligned, PendAuth
  PROVE  Aligned'
  <1> DEFINE q == tcp_send_event
  <1>1. q \in Seq(Buffer) /\ UNCHANGED <<half, begun>>
    BY DEF PendAuth, TypeInv, TypeOK, prodVars
  <1>2. \A p \in Producer : (MidPair(p) <=> MidPair(p)') /\ TagOf(p)' = TagOf(p)
    BY <1>1 DEF MidPair, TagOf
  <1>3. CASE q = <<>>
    <2>1. q' = q /\ pc' = "authWait" /\ Last' = Last /\ ~Expecting /\ ~Expecting'
      BY <1>3 DEF PendAuth, Last, Expecting
    <2>2. QED  BY <1>2, <1>3, <2>1 DEF Aligned
  <1>4. CASE q # <<>>
    <2>1. /\ auth_msg' = q[1] /\ q' = Tail(q) /\ pc' = "msg"
          /\ Expecting' /\ ~Expecting
      BY <1>1, <1>4 DEF PendAuth, Expecting
    <2>2. /\ Len(q) \in Nat /\ Len(q) > 0 /\ Len(q') = Len(q) - 1
          /\ \A i \in 1..Len(q') : q'[i] = q[i + 1]
      BY <1>1, <1>4, <2>1
    <2>3. Last' = Last
      <3>1. CASE q' = <<>>
        <4>1. Len(q') = 0
          BY <3>1
        <4>2. Len(q) = 1
          BY <2>2, <4>1
        <4>3. QED  BY <2>1, <1>4, <3>1, <4>2 DEF Last
      <3>2. CASE q' # <<>>
        <4>1. Len(q') \in 1..Len(q')
          BY <1>1, <2>1, <2>2, <3>2
        <4>2. QED  BY <2>2, <1>4, <3>2, <4>1 DEF Last
      <3>3. QED  BY <3>1, <3>2
    <2>4. IsTag(auth_msg')
      BY <1>4, <2>1 DEF Aligned
    <2>5. q' # <<>> => q'[1] = TextOf(auth_msg')
      <3> SUFFICES ASSUME q' # <<>> PROVE q'[1] = TextOf(auth_msg')
        OBVIOUS
      <3>1. 1 \in 1..(Len(q) - 1) /\ q'[1] = q[2]
        BY <1>1, <2>1, <2>2
      <3>2. QED  BY <2>1, <2>4, <3>1 DEF Aligned
    <2>6. ASSUME NEW i \in 1..(Len(q') - 1)
          PROVE  IF IsTag(q'[i]) THEN q'[i + 1] = TextOf(q'[i])
                                 ELSE IsTag(q'[i + 1])
      <3>1. /\ i + 1 \in 1..(Len(q) - 1) /\ i \in 1..Len(q') /\ i + 1 \in 1..Len(q')
        BY <2>2
      <3>2. q'[i] = q[i + 1] /\ q'[i + 1] = q[(i + 1) + 1]
        BY <2>2, <3>1
      <3>3. IF IsTag(q[i + 1]) THEN q[(i + 1) + 1] = TextOf(q[i + 1])
                               ELSE IsTag(q[(i + 1) + 1])
        BY <3>1 DEF Aligned
      <3>4. QED  BY <3>2, <3>3
    <2>7. QED
      BY <1>2, <2>1, <2>3, <2>4, <2>5, <2>6 DEF Aligned
  <1>5. QED  BY <1>3, <1>4

LEMMA PendMsgAligned ==
  ASSUME TypeInv, Aligned, PendMsg
  PROVE  Aligned'
  <1> DEFINE q == tcp_send_event
  <1>1. q \in Seq(Buffer) /\ UNCHANGED <<half, begun, auth_msg>> /\ Expecting
    BY DEF PendMsg, TypeInv, TypeOK, prodVars, Expecting
  <1>2. \A p \in Producer : (MidPair(p) <=> MidPair(p)') /\ TagOf(p)' = TagOf(p)
    BY <1>1 DEF MidPair, TagOf
  <1>3. CASE q = <<>>
    <2>1. q' = q /\ pc' = "msgWait" /\ Last' = Last /\ Expecting'
      BY <1>1, <1>3 DEF PendMsg, Last, Expecting
    <2>2. QED  BY <1>1, <1>2, <1>3, <2>1 DEF Aligned
  <1>4. CASE q # <<>>
    <2>1. /\ msg' = q[1] /\ q' = Tail(q) /\ pc' = "dispatch" /\ ~Expecting'
      BY <1>1, <1>4 DEF PendMsg, Expecting
    <2>2. /\ Len(q) \in Nat /\ Len(q) > 0 /\ Len(q') = Len(q) - 1
          /\ \A i \in 1..Len(q') : q'[i] = q[i + 1]
      BY <1>1, <1>4, <2>1
    <2>3. IsTag(auth_msg) /\ q[1] = TextOf(auth_msg) /\ ~IsTag(q[1])
      BY <1>1, <1>4, <2>2 DEF Aligned, TextOf, IsTag, TypeInv, TypeOK, Buffer, BufferOrNull, Null, None
    <2>4. CASE q' = <<>>
      <3>1. Last' = Null /\ ~IsTag(Null)
        BY <2>1, <2>4 DEF Last, IsTag, Null, None
      <3>2. Last = q[1]
        <4>1. Len(q') = 0
          BY <2>4
        <4>2. Len(q) = 1
          BY <2>2, <4>1
        <4>3. QED  BY <1>4, <4>2 DEF Last
      <3>3. \A p \in Producer : IsTag(TagOf(p))
        BY DEF TagOf, IsTag
      <3>4. \A p \in Producer : ~MidPair(p)
        BY <2>3, <3>2, <3>3 DEF Aligned
      <3>5. QED
        BY <1>1, <1>2, <2>1, <2>2, <2>3, <2>4, <3>1, <3>4 DEF Aligned
    <2>5. CASE q' # <<>>
      <3>1. /\ 1 \in 1..(Len(q) - 1) /\ q'[1] = q[2]
            /\ Len(q') \in 1..Len(q') /\ q'[Len(q')] = q[Len(q)]
        BY <1>1, <2>1, <2>2, <2>5
      <3>2. Last' = Last
        BY <1>4, <2>5, <3>1 DEF Last
      <3>3. IsTag(q'[1])
        BY <2>3, <3>1 DEF Aligned
      <3>4. ASSUME NEW i \in 1..(Len(q') - 1)
            PROVE  IF IsTag(q'[i]) THEN q'[i + 1] = TextOf(q'[i])
                                   ELSE IsTag(q'[i + 1])
        <4>1. /\ i + 1 \in 1..(Len(q) - 1) /\ i \in 1..Len(q')
              /\ i + 1 \in 1..Len(q')
          BY <2>2
        <4>2. q'[i] = q[i + 1] /\ q'[i + 1] = q[(i + 1) + 1]
          BY <2>2, <4>1
        <4>3. IF IsTag(q[i + 1]) THEN q[(i + 1) + 1] = TextOf(q[i + 1])
                                 ELSE IsTag(q[(i + 1) + 1])
          BY <4>1 DEF Aligned
        <4>4. QED  BY <4>2, <4>3
      <3>5. QED
        BY <1>1, <1>2, <2>1, <2>3, <3>2, <3>3, <3>4 DEF Aligned
    <2>6. QED  BY <2>4, <2>5
  <1>5. QED  BY <1>3, <1>4

(* The write log only grows, and by an entry that is right when the stream *)
(* is aligned.                                                             *)
LEMMA WriteRight ==
  ASSUME TypeInv, PairIntegrity, ~torn => Aligned, StartWrite
  PROVE  PairIntegrity'
  <1> DEFINE e == [to |-> auth_msg.to, buf |-> msg, torn |-> torn]
  <1>1. wire' = Append(wire, e) /\ pc = "dispatch"
        /\ wire \in Seq([to : Peer, buf : Buffer, torn : BOOLEAN])
    BY DEF StartWrite, TypeInv, TypeOK
  <1>2. ~e.torn => e.buf.part = "msg" /\ e.buf.to = e.to
    <2> SUFFICES ASSUME ~torn PROVE msg.part = "msg" /\ msg.to = auth_msg.to
      OBVIOUS
    <2>1. msg = TextOf(auth_msg) /\ auth_msg \in Buffer
      BY <1>1 DEF Aligned, TypeInv, TypeOK, PointersSet, BufferOrNull
    <2>2. QED  BY <2>1 DEF TextOf, Buffer
  <1> HIDE DEF e
  <1>3. /\ Len(wire') = Len(wire) + 1 /\ wire'[Len(wire')] = e /\ Len(wire) \in Nat
        /\ \A i \in 1..Len(wire) : wire'[i] = wire[i]
    BY <1>1
  <1>4. QED
    <2> SUFFICES ASSUME NEW i \in 1..Len(wire'), ~wire'[i].torn
                 PROVE  wire'[i].buf.part = "msg" /\ wire'[i].buf.to = wire'[i].to
      BY DEF PairIntegrity
    <2>1. CASE i = Len(wire')
      BY <1>2, <1>3, <2>1
    <2>2. CASE i # Len(wire')
      <3>1. i \in 1..Len(wire)
        BY <1>3, <2>2
      <3>2. QED  BY <1>3, <3>1 DEF PairIntegrity
    <2>3. QED  BY <2>1, <2>2

(* A step that leaves the queue, the producers and what tcp_send_task      *)
(* expects alone keeps the stream aligned.                                 *)
LEMMA SameAligned ==
  ASSUME Aligned, UNCHANGED <<tcp_send_event, half, begun, auth_msg, msg>>,
         Expecting' = Expecting,
         pc' \in {"dispatch", "writing"} => pc \in {"dispatch", "writing"}
  PROVE  Aligned'
  <1>1. \A p \in Producer : (MidPair(p) <=> MidPair(p)') /\ TagOf(p)' = TagOf(p)
    BY DEF MidPair, TagOf
  <1>2. Last' = Last
    BY DEF Last
  <1>3. QED  BY <1>1, <1>2 DEF Aligned

(* tcp_send_task lets go of both buffers after a dispatch.                 *)
LEMMA FreeAligned ==
  ASSUME Aligned, pc \in {"dispatch", "writing"}, UNCHANGED <<tcp_send_event, half, begun>>,
         pc' \in {"auth", "link"}
  PROVE  Aligned'
  <1>1. \A p \in Producer : (MidPair(p) <=> MidPair(p)') /\ TagOf(p)' = TagOf(p)
    BY DEF MidPair, TagOf
  <1>2. Last' = Last /\ ~Expecting /\ ~Expecting'
    BY DEF Last, Expecting
  <1>3. QED  BY <1>1, <1>2 DEF Aligned

LEMMA InitPair == Init => PairInv
  <1> SUFFICES ASSUME Init PROVE PairInv
    OBVIOUS
  <1>1. TypeInv
    BY InitType
  <1>2. NoLostWakeup /\ PairIntegrity
    BY SizeAssumption DEF Init, NoLostWakeup, PairIntegrity
  <1>3. Aligned
    BY <1>1, QuietAligned DEF Init, Quiet, MidPair
  <1>4. QED  BY <1>1, <1>2, <1>3 DEF PairInv

LEMMA PairStep == PairInv /\ [Next]_vars => PairInv'
  <1> SUFFICES ASSUME TypeInv, NoLostWakeup, PairIntegrity, ~torn => Aligned,
                      [Next]_vars
               PROVE  PairIntegrity' /\ (~torn' => Aligned')
    BY StepType, WakeupStep DEF PairInv
  <1>1. TypeInv' /\ TypeOK'
    BY StepType DEF TypeInv
  <1>2. Quiet' => Aligned'
    BY <1>1, QuietAligned, PTL
  <1>3. ASSUME NEW event, TornIf(event), ~torn', ~Quiet'
        PROVE  Aligned /\ ~event
    BY <1>3 DEF TornIf, TypeInv, TypeOK
  <1>4. ASSUME UNCHANGED wire PROVE PairIntegrity'
    BY <1>4 DEF PairIntegrity
  <1>5. ASSUME NEW p \in Producer, NEW to \in Peer, PostAuth(p, to)
        PROVE  PairIntegrity' /\ (~torn' => Aligned')
    <2>1. UNCHANGED wire
      BY <1>5 DEF PostAuth, Post
    <2>2. ASSUME ~torn', ~Quiet' PROVE Aligned'
      <3>1. Aligned /\ ~Refused /\ \A r \in Producer : ~MidPair(r)
        BY <1>3, <1>5, <2>2 DEF PostAuth
      <3>2. QED  BY <1>1, <1>5, <3>1, AuthAligned
    <2>3. QED  BY <1>2, <1>4, <2>1, <2>2
  <1>6. ASSUME NEW p \in Producer, PostMsg(p)
        PROVE  PairIntegrity' /\ (~torn' => Aligned')
    <2>1. UNCHANGED wire
      BY <1>6 DEF PostMsg, Post
    <2>2. ASSUME ~torn', ~Quiet' PROVE Aligned'
      <3>1. Aligned /\ ~Refused
        BY <1>3, <1>6, <2>2 DEF PostMsg
      <3>2. QED  BY <1>1, <1>6, <3>1, TextAligned
    <2>3. QED  BY <1>2, <1>4, <2>1, <2>2
  <1>7. CASE LinkCheck
    BY <1>4, <1>7, SameAligned DEF LinkCheck, prodVars, Expecting
  <1>8. CASE PendAuth
    BY <1>4, <1>8, PendAuthAligned DEF PendAuth
  <1>9. CASE PendMsg
    BY <1>4, <1>9, PendMsgAligned DEF PendMsg
  <1>10. CASE MsgTimeout
    (* Aligned at a wait for the text means a producer is inside its pair.  *)
    <2>1. ASSUME ~torn', ~Quiet' PROVE FALSE
      <3>1. Aligned /\ \A p \in Producer : ~MidPair(p)
        BY <1>3, <1>10, <2>1 DEF MsgTimeout
      <3>2. tcp_send_event = <<>> /\ Last = auth_msg /\ IsTag(auth_msg)
        BY <1>10, <3>1 DEF MsgTimeout, NoLostWakeup, Waiting, Last, Expecting, Aligned
      <3>3. QED  BY <3>1, <3>2 DEF Aligned
    <2>2. QED  BY <1>2, <1>4, <1>10, <2>1 DEF MsgTimeout
  <1>11. CASE StartWrite
    BY <1>11, WriteRight, SameAligned DEF StartWrite, prodVars, Expecting
  <1>12. CASE Discard
    <2>1. ASSUME ~torn', ~Quiet' PROVE Aligned'
      <3>1. Aligned
        BY <1>3, <1>12, <2>1 DEF Discard
      <3>2. QED
        BY <1>12, <3>1, FreeAligned DEF Discard, prodVars, LoopHead
    <2>2. QED  BY <1>2, <1>4, <1>12, <2>1 DEF Discard
  <1>13. ASSUME NEW ok \in BOOLEAN, FinishWrite(ok)
         PROVE  PairIntegrity' /\ (~torn' => Aligned')
    <2>1. ASSUME ~torn', ~Quiet' PROVE Aligned'
      <3>1. Aligned
        BY <1>3, <1>13, <2>1 DEF FinishWrite
      <3>2. QED
        BY <1>13, <3>1, FreeAligned DEF FinishWrite, prodVars, LoopHead
    <2>2. QED  BY <1>2, <1>4, <1>13, <2>1 DEF FinishWrite
  <1>14. CASE LinkChange
    BY <1>4, <1>14, SameAligned DEF LinkChange, prodVars, taskVars, Expecting
  <1>15. CASE UNCHANGED vars
    BY <1>4, <1>15, SameAligned DEF vars, prodVars, taskVars, Expecting
  <1>16. QED
    BY <1>5, <1>6, <1>7, <1>8, <1>9, <1>10, <1>11, <1>12, <1>13, <1>14, <1>15
       DEF Next, SendTask

(* For any producers and priorities and any size of the queue, a message   *)
(* written while the path is not torn is a text, and goes to its peer.     *)
THEOREM MessagesArePaired == Spec => []PairIntegrity
  <1>1. PairInv => PairIntegrity
    BY DEF PairInv
  <1>2. QED  BY InitPair, PairStep, <1>1, PTL DEF Spec

(* No message waits in the queue while tcp_send_task waits for one.        *)
THEOREM WakeupsKept == Spec => []NoLostWakeup
  <1>1. PairInv => NoLostWakeup
    BY DEF PairInv
  <1>2. QED  BY InitPair, PairStep, <1>1, PTL DEF Spec

-----------------------------------------------------------------------------
(* Ownership of the buffers.                                               *)

(* No live buffer is newer than what its producer has posted.              *)
Posted ==
  \A b \in live : /\ b.pair <= begun[b.from]
                  /\ MidPair(b.from) /\ b.pair = begun[b.from] => IsTag(b)

OwnerInv == TypeInv /\ OneOwner /\ Posted

Elems(q) == {q[i] : i \in 1..Len(q)}
Distinct(q) == \A i, j \in 1..Len(q) : q[i] = q[j] => i = j

LEMMA AppendElems ==
  ASSUME NEW q \in Seq(Buffer), NEW b \in Buffer, Distinct(q), b \notin Elems(q)
  PROVE  Elems(Append(q, b)) = Elems(q) \union {b} /\ Distinct(Append(q, b))
  <1> DEFINE r == Append(q, b)
  <1>1. /\ Len(r) = Len(q) + 1 /\ r[Len(r)] = b /\ Len(q) \in Nat
        /\ \A i \in 1..Len(q) : r[i] = q[i]
    OBVIOUS
  <1> HIDE DEF r
  <1>2. 1..Len(r) = 1..Len(q) \union {Len(r)}
    BY <1>1
  <1>3. Elems(r) = Elems(q) \union {b}
    BY <1>1, <1>2 DEF Elems
  <1>4. \A i \in 1..Len(q) : q[i] # b
    BY DEF Elems
  <1>5. Distinct(r)
    BY <1>1, <1>2, <1>4 DEF Distinct
  <1>6. QED  BY <1>3, <1>5 DEF r

LEMMA TailElems ==
  ASSUME NEW q \in Seq(Buffer), q # <<>>, Distinct(q)
  PROVE  /\ Elems(q) = Elems(Tail(q)) \union {Head(q)}
         /\ Head(q) \notin Elems(Tail(q)) /\ Distinct(Tail(q))
  <1> DEFINE r == Tail(q)
  <1>1. /\ Len(q) \in Nat /\ Len(q) > 0 /\ Len(r) = Len(q) - 1 /\ Head(q) = q[1]
        /\ \A i \in 1..Len(r) : r[i] = q[i + 1]
    OBVIOUS
  <1> HIDE DEF r
  <1>2. ASSUME NEW i \in 1..Len(q), i # 1
        PROVE  i - 1 \in 1..Len(r) /\ q[i] = r[i - 1]
    <2>1. i - 1 \in 1..Len(r) /\ (i - 1) + 1 = i
      BY <1>1, <1>2
    <2>2. r[i - 1] = q[(i - 1) + 1]
      BY <1>1, <2>1
    <2>3. QED  BY <2>1, <2>2
  <1>3. \A i \in 1..Len(r) : i + 1 \in 1..Len(q) /\ i + 1 # 1
    BY <1>1
  <1>4. Elems(q) \subseteq Elems(r) \union {Head(q)}
    BY <1>1, <1>2, SMTT(30) DEF Elems
  <1>5. Elems(r) \union {Head(q)} \subseteq Elems(q)
    BY <1>1, <1>3 DEF Elems
  <1>6. Head(q) \notin Elems(r)
    BY <1>1, <1>3 DEF Elems, Distinct
  <1>7. Distinct(r)
    <2> SUFFICES ASSUME NEW i \in 1..Len(r), NEW j \in 1..Len(r), r[i] = r[j]
                 PROVE  i = j
      BY DEF Distinct
    <2>1. i + 1 = j + 1
      BY <1>1, <1>3 DEF Distinct
    <2>2. QED  BY <2>1
  <1>8. QED  BY <1>4, <1>5, <1>6, <1>7 DEF r

(* The queue's part of OneOwner in the terms of these lemmas.              *)
Owned ==
  /\ live = Elems(tcp_send_event) \union Held \union dropped
  /\ Elems(tcp_send_event) \intersect Held = {}
  /\ dropped \intersect (Elems(tcp_send_event) \union Held) = {}
  /\ Distinct(tcp_send_event)
  /\ auth_msg = msg => auth_msg = Null

LEMMA OwnerForm == OneOwner <=> Owned
  BY DEF OneOwner, Queued, Elems, Distinct, Owned

(* A new buffer gets one owner.                                            *)
LEMMA PostOwner ==
  ASSUME TypeInv, OneOwner, NEW b \in Buffer, b \notin live, Post(b)
  PROVE  OneOwner'
  <1> DEFINE q == tcp_send_event
  <1>1. /\ live = Elems(q) \union Held \union dropped /\ Elems(q) \intersect Held = {}
        /\ dropped \intersect (Elems(q) \union Held) = {} /\ Distinct(q)
        /\ auth_msg = msg => auth_msg = Null
    BY OwnerForm DEF Owned
  <1>0. Owned' => OneOwner'
    BY OwnerForm, PTL
  <1>2. q \in Seq(Buffer) /\ b # Null /\ live' = live \union {b}
    BY NullIsNoBuffer DEF TypeInv, TypeOK, Post
  <1>3. CASE Waiting /\ HandOver(b)
    <2>1. Held' = Held \union {b} /\ q' = q /\ dropped' = dropped
      BY <1>2, <1>3 DEF HandOver, Held, TypeInv, PointersSet
    <2>2. auth_msg' = msg' => auth_msg' = Null
      BY <1>1, <1>2, <1>3 DEF HandOver, Held, TypeInv, PointersSet
    <2>3. QED  BY <1>1, <1>2, <2>1, <2>2, <1>0 DEF Owned
  <1>4. CASE ~Waiting /\ ~Full /\ Append1(b)
    <2>1. q' = Append(q, b) /\ Held' = Held /\ UNCHANGED <<auth_msg, msg, dropped>>
      BY <1>4 DEF Append1, taskVars, Held
    <2>2. Elems(q') = Elems(q) \union {b} /\ Distinct(q')
      BY <1>1, <1>2, <2>1, AppendElems
    <2>3. QED  BY <1>1, <1>2, <2>1, <2>2, <1>0 DEF Owned
  <1>5. CASE Refused /\ Refuse(b)
    <2>1. q' = q /\ Held' = Held /\ UNCHANGED <<auth_msg, msg>>
          /\ dropped' = dropped \union {b}
      BY <1>5 DEF Refuse, taskVars, Held
    <2>2. QED  BY <1>1, <1>2, <2>1, <1>0 DEF Owned
  <1>6. QED  BY <1>3, <1>4, <1>5 DEF Post, OSQPost

LEMMA InitOwner == Init => OwnerInv
  <1> SUFFICES ASSUME Init PROVE OwnerInv
    OBVIOUS
  <1>1. TypeInv
    BY InitType
  <1>2. OneOwner
    BY DEF Init, OneOwner, Queued, Held
  <1>3. Posted
    BY DEF Init, Posted
  <1>4. QED  BY <1>1, <1>2, <1>3 DEF OwnerInv

(* Taking a buffer out of the queue and holding it moves the ownership.    *)
LEMMA TakeOwner ==
  ASSUME TypeInv, Owned, tcp_send_event # <<>>, UNCHANGED <<live, dropped>>,
         tcp_send_event' = Tail(tcp_send_event),
         \/ auth_msg = Null /\ auth_msg' = Head(tcp_send_event) /\ msg' = msg
         \/ msg = Null /\ msg' = Head(tcp_send_event) /\ auth_msg' = auth_msg
  PROVE  Owned'
  <1> DEFINE q == tcp_send_event
             h == Head(q)
  <1>1. q \in Seq(Buffer) /\ h \in Buffer /\ h # Null
    BY HeadTail, NullIsNoBuffer DEF TypeInv, TypeOK
  <1>2. Elems(q) = Elems(q') \union {h} /\ h \notin Elems(q') /\ Distinct(q')
    BY <1>1, TailElems DEF Owned
  <1>3. Held' = Held \union {h} /\ h \notin Held
    BY <1>1, <1>2 DEF Held, Owned
  <1>4. auth_msg' = msg' => auth_msg' = Null
    BY <1>1, <1>3 DEF Held, Owned
  <1>5. QED  BY <1>2, <1>3, <1>4 DEF Owned

LEMMA OwnerStep == OwnerInv /\ [Next]_vars => OwnerInv'
  <1> SUFFICES ASSUME TypeInv, OneOwner, Posted, [Next]_vars
               PROVE  OneOwner' /\ Posted'
    BY StepType DEF OwnerInv
  <1>1. Owned /\ (Owned' => OneOwner')
    <2>1. Owned
      BY OwnerForm
    <2>2. Owned' => OneOwner'
      BY OwnerForm, PTL
    <2>3. QED  BY <2>1, <2>2
  <1>2. ASSUME UNCHANGED <<half, begun>>, live' \subseteq live PROVE Posted'
    BY <1>2 DEF Posted, MidPair
  <1>3. ASSUME NEW p \in Producer, NEW to \in Peer, PostAuth(p, to)
        PROVE  OneOwner' /\ Posted'
    <2> DEFINE b == [from |-> p, pair |-> begun[p] + 1, part |-> "auth", to |-> to]
    <2>1. b \in Buffer /\ Post(b) /\ b \notin live
      BY <1>3 DEF PostAuth, TypeInv, TypeOK, Buffer, Posted
    <2>2. Posted'
      <3> SUFFICES ASSUME NEW x \in live'
                   PROVE  /\ x.pair <= begun'[x.from]
                          /\ MidPair(x.from)' /\ x.pair = begun'[x.from] => IsTag(x)
        BY DEF Posted
      <3>1. CASE x = b
        BY <1>3, <3>1 DEF PostAuth, TypeInv, TypeOK, IsTag
      <3>2. CASE x # b
        <4>1. x \in live /\ x \in Buffer
          BY <2>1, <3>2 DEF Post, TypeInv, TypeOK
        <4>2. CASE x.from = p
          BY <1>3, <4>1, <4>2 DEF PostAuth, TypeInv, TypeOK, Posted, Buffer
        <4>3. CASE x.from # p
          BY <1>3, <4>1, <4>3 DEF PostAuth, TypeInv, TypeOK, Posted, Buffer, MidPair
        <4>4. QED  BY <4>2, <4>3
      <3>3. QED  BY <3>1, <3>2
    <2>3. QED  BY <2>1, <2>2, PostOwner
  <1>4. ASSUME NEW p \in Producer, PostMsg(p) PROVE OneOwner' /\ Posted'
    <2> DEFINE b == [from |-> p, pair |-> begun[p], part |-> "msg", to |-> half[p]]
    <2>1. b \in Buffer /\ Post(b) /\ b \notin live
      BY <1>4 DEF PostMsg, TypeInv, TypeOK, Buffer, Posted, MidPair, IsTag
    <2>2. Posted'
      <3> SUFFICES ASSUME NEW x \in live'
                   PROVE  /\ x.pair <= begun'[x.from]
                          /\ MidPair(x.from)' /\ x.pair = begun'[x.from] => IsTag(x)
        BY DEF Posted
      <3>1. CASE x = b
        BY <1>4, <3>1 DEF PostMsg, TypeInv, TypeOK, MidPair
      <3>2. CASE x # b
        <4>1. x \in live /\ x \in Buffer
          BY <2>1, <3>2 DEF Post, TypeInv, TypeOK
        <4>2. QED
          BY <1>4, <4>1 DEF PostMsg, TypeInv, TypeOK, Posted, Buffer, MidPair
      <3>3. QED  BY <3>1, <3>2
    <2>3. QED  BY <2>1, <2>2, PostOwner
  <1>5. ASSUME UNCHANGED <<tcp_send_event, half, begun, auth_msg, msg, live, dropped>>
        PROVE  OneOwner' /\ Posted'
    <2>1. Held' = Held
      BY <1>5 DEF Held
    <2>2. QED  BY <1>1, <1>2, <1>5, <2>1 DEF Owned
  <1>6. CASE LinkCheck  BY <1>5, <1>6 DEF LinkCheck, prodVars
  <1>7. CASE PendAuth
    <2>1. CASE tcp_send_event = <<>>
      BY <1>5, <1>7, <2>1 DEF PendAuth, prodVars
    <2>2. CASE tcp_send_event # <<>>
      <3>1. auth_msg = Null
        BY <1>7 DEF PendAuth, TypeInv, PointersSet
      <3>2. Owned'
        BY <1>1, <1>7, <2>2, <3>1, TakeOwner DEF PendAuth
      <3>3. QED  BY <1>1, <1>2, <1>7, <3>2 DEF PendAuth, prodVars
    <2>3. QED  BY <2>1, <2>2
  <1>8. CASE PendMsg
    <2>1. CASE tcp_send_event = <<>>
      BY <1>5, <1>8, <2>1 DEF PendMsg, prodVars
    <2>2. CASE tcp_send_event # <<>>
      <3>1. msg = Null
        BY <1>8 DEF PendMsg, TypeInv, PointersSet
      <3>2. Owned'
        BY <1>1, <1>8, <2>2, <3>1, TakeOwner DEF PendMsg
      <3>3. QED  BY <1>1, <1>2, <1>8, <3>2 DEF PendMsg, prodVars
    <2>3. QED  BY <2>1, <2>2
  <1>9. ASSUME UNCHANGED <<tcp_send_event, half, begun, dropped>>,
               live' = live \ Held, auth_msg' = Null, msg' = Null
        PROVE  OneOwner' /\ Posted'
    <2>1. Held' = {}
      BY <1>9 DEF Held
    <2>2. Owned'
      BY <1>1, <1>9, <2>1 DEF Owned
    <2>3. QED  BY <1>1, <1>2, <1>9, <2>2
  <1>10. Null \notin live
    BY NullIsNoBuffer DEF TypeInv, TypeOK
  <1>11. CASE MsgTimeout
    <2>1. msg = Null /\ live' = live \ Held
      BY <1>10, <1>11 DEF MsgTimeout, TypeInv, PointersSet, Held
    <2>2. QED  BY <1>9, <1>11, <2>1 DEF MsgTimeout, prodVars
  <1>12. CASE StartWrite  BY <1>5, <1>12 DEF StartWrite, prodVars
  <1>13. CASE Discard
    <2>1. live' = live \ Held
      BY <1>10, <1>13 DEF Discard, FreeBoth, Held
    <2>2. QED  BY <1>9, <1>13, <2>1 DEF Discard, FreeBoth, prodVars
  <1>14. ASSUME NEW ok \in BOOLEAN, FinishWrite(ok)
         PROVE  OneOwner' /\ Posted'
    <2>1. live' = live \ Held
      BY <1>10, <1>14 DEF FinishWrite, FreeBoth, Held
    <2>2. QED  BY <1>9, <1>14, <2>1 DEF FinishWrite, FreeBoth, prodVars
  <1>15. CASE LinkChange  BY <1>5, <1>15 DEF LinkChange, prodVars, taskVars
  <1>16. CASE UNCHANGED vars  BY <1>5, <1>16 DEF vars, prodVars, taskVars
  <1>17. QED
    BY <1>3, <1>4, <1>6, <1>7, <1>8, <1>11, <1>12, <1>13, <1>14, <1>15, <1>16
       DEF Next, SendTask

(* Every allocated buffer has exactly one owner, whatever the producers,   *)
(* their priorities and the size of the queue: the only buffers lost are   *)
(* those OSQPost refused, and none is used or freed after it was freed.    *)
THEOREM BuffersOwned == Spec => []OneOwner
  <1>1. OwnerInv => OneOwner
    BY DEF OwnerInv
  <1>2. QED  BY InitOwner, OwnerStep, <1>1, PTL DEF Spec

-----------------------------------------------------------------------------
(* The order of the texts.                                                 *)

(* What is queued, held as the text or written has been posted: no buffer  *)
(* to come precedes it.                                                    *)
Old(b) == /\ b.pair <= begun[b.from]
          /\ MidPair(b.from) /\ b.pair = begun[b.from] => IsTag(b)
Before(a, b) == a.from = b.from => Precedes(a, b)
AllOld ==
  /\ \A i \in 1..Len(tcp_send_event) : Old(tcp_send_event[i])
  /\ \A i \in 1..Len(wire) : Old(wire[i].buf)
  /\ msg # Null => Old(msg)

(* What was written, the text in hand and the queue, in this order, are    *)
(* each buffers of a producer in the order it posted them.                 *)
InLine ==
  /\ \A i, j \in 1..Len(tcp_send_event) :
        i < j => Before(tcp_send_event[i], tcp_send_event[j])
  /\ \A i \in 1..Len(wire), j \in 1..Len(tcp_send_event) :
        Before(wire[i].buf, tcp_send_event[j])
  /\ msg # Null => \A j \in 1..Len(tcp_send_event) : Before(msg, tcp_send_event[j])
  /\ pc = "dispatch" => \A i \in 1..Len(wire) : Before(wire[i].buf, msg)
OrderInv == TypeInv /\ NoLostWakeup /\ AllOld /\ InLine /\ InOrderOnce

LEMMA InitOrder == Init => OrderInv
  <1> SUFFICES ASSUME Init PROVE OrderInv
    OBVIOUS
  <1>1. TypeInv
    BY InitType
  <1>2. NoLostWakeup
    BY SizeAssumption DEF Init, NoLostWakeup, Waiting
  <1>3. AllOld /\ InLine /\ InOrderOnce
    BY DEF Init, AllOld, InLine, InOrderOnce
  <1>4. QED  BY <1>1, <1>2, <1>3 DEF OrderInv

(* A buffer that all before it precede comes last.                         *)
LEMMA PostInLine ==
  ASSUME TypeInv, NoLostWakeup, AllOld, InLine, NEW b \in Buffer, Post(b),
         \A x \in Buffer : Old(x) => Before(x, b) /\ Old(x)', Old(b)'
  PROVE  AllOld' /\ InLine'
  <1> DEFINE q == tcp_send_event
  <1>1. /\ q \in Seq(Buffer) /\ Len(q) \in Nat /\ wire' = wire
        /\ \A i \in 1..Len(q) : q[i] \in Buffer
        /\ \A i \in 1..Len(wire) : wire[i].buf \in Buffer
        /\ msg # Null => msg \in Buffer
    <2>1. q \in Seq(Buffer) /\ wire \in Seq([to : Peer, buf : Buffer, torn : BOOLEAN])
          /\ wire' = wire /\ msg \in BufferOrNull
      BY DEF TypeInv, TypeOK, Post
    <2>2. \A i \in 1..Len(wire) : wire[i].buf \in Buffer
      <3> DEFINE W == [to : Peer, buf : Buffer, torn : BOOLEAN]
      <3>1. \A e \in W : e.buf \in Buffer
        OBVIOUS
      <3>2. wire \in Seq(W)
        BY <2>1
      <3> HIDE DEF W
      <3>3. QED  BY <3>1, <3>2
    <2>3. Len(q) \in Nat /\ \A i \in 1..Len(q) : q[i] \in Buffer
      BY <2>1
    <2>4. QED  BY <2>1, <2>2, <2>3 DEF BufferOrNull
  <1>2. CASE Waiting /\ HandOver(b)
    <2>1. q = <<>> /\ q' = <<>>
      BY <1>2 DEF NoLostWakeup, HandOver
    <2>2. CASE pc = "authWait"
      <3>1. msg' = msg /\ pc' = "msg"
        BY <1>2, <2>2 DEF HandOver
      <3>2. QED  BY <1>1, <2>1, <3>1 DEF AllOld, InLine
    <2>3. CASE pc = "msgWait"
      <3>1. msg' = b /\ pc' = "dispatch"
        BY <1>2, <2>3 DEF HandOver
      <3>2. QED  BY <1>1, <2>1, <3>1 DEF AllOld, InLine
    <2>4. QED  BY <1>2, <2>2, <2>3 DEF Waiting
  <1>3. CASE ~Waiting /\ ~Full /\ Append1(b)
    <2>1. q' = Append(q, b) /\ UNCHANGED <<pc, msg>>
      BY <1>3 DEF Append1, taskVars
    <2>2. /\ Len(q') = Len(q) + 1 /\ q'[Len(q) + 1] = b
          /\ \A i \in 1..Len(q) : q'[i] = q[i]
          /\ \A i \in 1..Len(q') : i \in 1..Len(q) \/ i = Len(q) + 1
      BY <1>1, <2>1
    <2>3. AllOld'
      BY <1>1, <2>1, <2>2 DEF AllOld
    <2>4. \A i, j \in 1..Len(q') : i < j => Before(q'[i], q'[j])
      <3> SUFFICES ASSUME NEW i \in 1..Len(q'), NEW j \in 1..Len(q'), i < j
                   PROVE  Before(q'[i], q'[j])
        OBVIOUS
      <3>1. i \in 1..Len(q) /\ q'[i] = q[i]
        BY <1>1, <2>2
      <3>2. CASE j \in 1..Len(q)
        BY <2>2, <3>1, <3>2 DEF InLine
      <3>3. CASE j = Len(q) + 1
        BY <1>1, <2>2, <3>1, <3>3 DEF AllOld
      <3>4. QED  BY <2>2, <3>2, <3>3
    <2>5. \A i \in 1..Len(wire), j \in 1..Len(q') : Before(wire[i].buf, q'[j])
      BY <1>1, <2>2 DEF AllOld, InLine
    <2>6. msg # Null => \A j \in 1..Len(q') : Before(msg, q'[j])
      BY <1>1, <2>2 DEF AllOld, InLine
    <2>7. QED  BY <1>1, <2>1, <2>3, <2>4, <2>5, <2>6 DEF InLine
  <1>4. CASE Refused /\ Refuse(b)
    <2>1. q' = q /\ UNCHANGED <<pc, msg>>
      BY <1>4 DEF Refuse, taskVars
    <2>2. QED  BY <1>1, <2>1 DEF AllOld, InLine
  <1>5. QED  BY <1>2, <1>3, <1>4 DEF Post, OSQPost

LEMMA OrderStep == OrderInv /\ [Next]_vars => OrderInv'
  <1> SUFFICES ASSUME OrderInv, [Next]_vars PROVE AllOld' /\ InLine' /\ InOrderOnce'
    BY StepType, WakeupStep DEF OrderInv
  <1> USE DEF OrderInv
  <1> DEFINE q == tcp_send_event
  <1>1. ASSUME NEW p \in Producer, NEW to \in Peer, PostAuth(p, to)
        PROVE  AllOld' /\ InLine' /\ InOrderOnce'
    <2>0. PICK b \in Buffer :
              b = [from |-> p, pair |-> begun[p] + 1, part |-> "auth", to |-> to]
      <3>1. begun[p] + 1 \in Nat
        BY DEF TypeInv, TypeOK
      <3>2. [from |-> p, pair |-> begun[p] + 1, part |-> "auth", to |-> to] \in Buffer
        BY <3>1 DEF Buffer
      <3>3. QED  BY <3>2
    <2>1. Post(b) /\ wire' = wire
      BY <1>1, <2>0 DEF PostAuth, Post
    <2>2. Old(b)'
      BY <1>1, <2>0 DEF PostAuth, TypeInv, TypeOK, Old, IsTag
    <2>3. ASSUME NEW x \in Buffer, Old(x) PROVE Before(x, b) /\ Old(x)'
      <3>1. CASE x.from = p
        BY <1>1, <2>0, <2>3, <3>1 DEF PostAuth, TypeInv, TypeOK, Old, Before, Precedes, Buffer
      <3>2. CASE x.from # p
        BY <1>1, <2>0, <2>3, <3>2 DEF PostAuth, TypeInv, TypeOK, Old, Before, Buffer, MidPair
      <3>3. QED  BY <3>1, <3>2
    <2>4. AllOld' /\ InLine'
      BY <2>1, <2>2, <2>3, PostInLine
    <2>5. QED  BY <2>1, <2>4 DEF InOrderOnce
  <1>2. ASSUME NEW p \in Producer, PostMsg(p) PROVE AllOld' /\ InLine' /\ InOrderOnce'
    <2>0. PICK b \in Buffer :
              b = [from |-> p, pair |-> begun[p], part |-> "msg", to |-> half[p]]
      BY <1>2 DEF PostMsg, TypeInv, TypeOK, Buffer, MidPair
    <2>1. Post(b) /\ wire' = wire
      BY <1>2, <2>0 DEF PostMsg, Post
    <2>2. Old(b)'
      BY <1>2, <2>0 DEF PostMsg, TypeInv, TypeOK, Old, MidPair
    <2>3. ASSUME NEW x \in Buffer, Old(x) PROVE Before(x, b) /\ Old(x)'
      <3>1. CASE x.from = p
        BY <1>2, <2>0, <2>3, <3>1
           DEF PostMsg, TypeInv, TypeOK, Old, Before, Precedes, Buffer, MidPair, IsTag
      <3>2. CASE x.from # p
        BY <1>2, <2>0, <2>3, <3>2 DEF PostMsg, TypeInv, TypeOK, Old, Before, Buffer, MidPair
      <3>3. QED  BY <3>1, <3>2
    <2>4. AllOld' /\ InLine'
      BY <2>1, <2>2, <2>3, PostInLine
    <2>5. QED  BY <2>1, <2>4 DEF InOrderOnce
  <1>3. ASSUME UNCHANGED <<q, half, begun, wire>>, msg' \in {msg, Null}, pc' # "dispatch"
        PROVE  AllOld' /\ InLine' /\ InOrderOnce'
    BY <1>3 DEF AllOld, InLine, InOrderOnce, Old, MidPair
  <1>4. ASSUME q # <<>>, UNCHANGED <<half, begun, wire>>, q' = Tail(q)
        PROVE  /\ \A x : Old(x)' <=> Old(x)
               /\ \A i \in 1..Len(q') : Old(q'[i]) /\ Before(q[1], q'[i])
               /\ \A i, j \in 1..Len(q') : i < j => Before(q'[i], q'[j])
               /\ \A i \in 1..Len(wire), j \in 1..Len(q') : Before(wire[i].buf, q'[j])
               /\ \A i \in 1..Len(wire) : Old(wire[i].buf) /\ Before(wire[i].buf, q[1])
               /\ Old(q[1]) /\ q[1] = Head(q) /\ InOrderOnce'
    <2>1. /\ Len(q) \in Nat /\ 1 \in 1..Len(q) /\ Len(q') = Len(q) - 1 /\ q[1] = Head(q)
          /\ \A i \in 1..Len(q') : q'[i] = q[i + 1]
      BY <1>4 DEF TypeInv, TypeOK
    <2>2. \A i \in 1..Len(q') : i + 1 \in 1..Len(q) /\ 1 < i + 1
      BY <2>1
    <2>3. \A i, j \in 1..Len(q') : i < j => i + 1 < j + 1
      BY <2>1
    <2>4. \A x : Old(x)' <=> Old(x)
      BY <1>4 DEF Old, MidPair
    <2>5. \A i \in 1..Len(q') : Old(q'[i])
      BY <2>1, <2>2 DEF AllOld
    <2>6. \A i \in 1..Len(q') : Before(q[1], q'[i])
      BY <2>1, <2>2 DEF InLine
    <2>7. \A i, j \in 1..Len(q') : i < j => Before(q'[i], q'[j])
      BY <2>1, <2>2, <2>3 DEF InLine
    <2>8. \A i \in 1..Len(wire), j \in 1..Len(q') : Before(wire[i].buf, q'[j])
      BY <2>1, <2>2 DEF InLine
    <2>9. \A i \in 1..Len(wire) : Old(wire[i].buf) /\ Before(wire[i].buf, q[1])
      BY <2>1 DEF AllOld, InLine
    <2>10. QED
      BY <1>4, <2>1, <2>4, <2>5, <2>6, <2>7, <2>8, <2>9 DEF AllOld, InOrderOnce
  <1>5. CASE LinkCheck
    BY <1>3, <1>5 DEF LinkCheck, prodVars
  <1>6. CASE PendAuth
    <2>1. CASE q = <<>>
      BY <1>3, <1>6, <2>1 DEF PendAuth, prodVars
    <2>2. CASE q # <<>>
      <3>1. q' = Tail(q) /\ pc' = "msg" /\ msg = Null /\ msg' = Null
            /\ UNCHANGED <<half, begun, wire>>
        BY <1>6, <2>2 DEF PendAuth, prodVars, TypeInv, PointersSet
      <3>2. QED  BY <1>4, <2>2, <3>1 DEF AllOld, InLine
    <2>3. QED  BY <2>1, <2>2
  <1>7. CASE PendMsg
    <2>1. CASE q = <<>>
      BY <1>3, <1>7, <2>1 DEF PendMsg, prodVars
    <2>2. CASE q # <<>>
      <3>1. q' = Tail(q) /\ pc' = "dispatch" /\ msg' = Head(q)
            /\ UNCHANGED <<half, begun, wire>>
        BY <1>7, <2>2 DEF PendMsg, prodVars
      <3>2. QED  BY <1>4, <2>2, <3>1 DEF AllOld, InLine
    <2>3. QED  BY <2>1, <2>2
  <1>8. CASE MsgTimeout
    BY <1>3, <1>8 DEF MsgTimeout, LoopHead, prodVars
  <1>9. CASE StartWrite
    <2> DEFINE e == [to |-> auth_msg.to, buf |-> msg, torn |-> torn]
    <2>1. /\ pc = "dispatch" /\ pc' = "writing" /\ wire' = Append(wire, e)
          /\ msg # Null /\ UNCHANGED <<q, half, begun, msg>>
      BY <1>9 DEF StartWrite, prodVars, TypeInv, PointersSet
    <2>2. /\ Len(wire) \in Nat /\ Len(wire') = Len(wire) + 1
          /\ wire'[Len(wire) + 1].buf = msg
          /\ \A i \in 1..Len(wire) : wire'[i] = wire[i]
          /\ \A i \in 1..Len(wire') : i \in 1..Len(wire) \/ i = Len(wire) + 1
      BY <2>1 DEF TypeInv, TypeOK
    <2>3. \A x : Old(x)' <=> Old(x)
      BY <2>1 DEF Old, MidPair
    <2>4. AllOld'
      BY <2>1, <2>2, <2>3 DEF AllOld
    <2>5. InLine'
      BY <2>1, <2>2 DEF InLine
    <2>6. InOrderOnce'
      <3> SUFFICES ASSUME NEW i \in 1..Len(wire'), NEW j \in 1..Len(wire'), i < j
                   PROVE  Before(wire'[i].buf, wire'[j].buf)
        BY DEF InOrderOnce, Before
      <3>1. i \in 1..Len(wire) /\ wire'[i] = wire[i]
        BY <2>2
      <3>2. CASE j \in 1..Len(wire)
        BY <2>2, <3>1, <3>2 DEF InOrderOnce, Before
      <3>3. CASE j = Len(wire) + 1
        BY <2>1, <2>2, <3>1, <3>3 DEF InLine
      <3>4. QED  BY <2>2, <3>2, <3>3
    <2>7. QED  BY <2>4, <2>5, <2>6
  <1>10. CASE Discard
    BY <1>3, <1>10 DEF Discard, FreeBoth, LoopHead, prodVars
  <1>11. ASSUME NEW ok \in BOOLEAN, FinishWrite(ok)
         PROVE  AllOld' /\ InLine' /\ InOrderOnce'
    BY <1>3, <1>11 DEF FinishWrite, FreeBoth, LoopHead, prodVars
  <1>12. ASSUME UNCHANGED <<q, half, begun, wire, msg, pc>>
         PROVE  AllOld' /\ InLine' /\ InOrderOnce'
    BY <1>12 DEF AllOld, InLine, InOrderOnce, Old, MidPair
  <1>13. CASE LinkChange
    BY <1>12, <1>13 DEF LinkChange, prodVars, taskVars
  <1>14. CASE UNCHANGED vars
    BY <1>12, <1>14 DEF vars, prodVars, taskVars
  <1>15. QED
    BY <1>1, <1>2, <1>5, <1>6, <1>7, <1>8, <1>9, <1>10, <1>11, <1>13, <1>14
       DEF Next, SendTask

(* The texts of one producer are written in the order they were posted,    *)
(* each at most once, torn or not, for any producers, priorities and size  *)
(* of the queue.                                                           *)
THEOREM TextsInOrder == Spec => []InOrderOnce
  <1>1. OrderInv => InOrderOnce
    BY DEF OrderInv
  <1>2. QED  BY InitOrder, OrderStep, <1>1, PTL DEF Spec

=============================================================================
