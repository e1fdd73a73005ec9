---------------------------- MODULE InputProofs -----------------------------
(***************************************************************************)
(* Theorems about what comes in: lwIP's mailboxes and timers (Mbox), for   *)
(* mailboxes and pools of any size, any number of segments, any timers and *)
(* any clock; and the commands that tcp_handle_task reads in what they     *)
(* bring (Commands), for buffers and names of any length and any messages. *)
(***************************************************************************)
EXTENDS Mbox, Commands, FiniteSetTheorems, WellFoundedInduction, TLAPS

(* A set of numbers that is not empty has a least one.                     *)
LEMMA LeastNumber ==
  ASSUME NEW T \in SUBSET Nat, T # {}
  PROVE  \E x \in T : \A y \in T : ~(y < x)
  <1> DEFINE R == OpToRel(<, Nat)
  <1>1. IsWellFoundedOn(R, Nat)
    BY NatLessThanWellFounded, Zenon
  <1>2. \A a, b \in Nat : a < b => <<a, b>> \in R
    BY Zenon DEF OpToRel
  <1> HIDE DEF R
  <1>3. PICK x \in T : \A y \in T : ~(<<y, x>> \in R)
    BY <1>1, WFMin, Zenon
  <1>4. QED  BY <1>2, <1>3

(* Induction up to a number.                                               *)
LEMMA UptoInduction ==
  ASSUME NEW m \in Nat, NEW S, 0 \in S,
         \A k \in 0 .. m - 1 : k \in S => k + 1 \in S
  PROVE  0 .. m \subseteq S
  <1> SUFFICES ASSUME (0 .. m) \ S # {} PROVE FALSE
    OBVIOUS
  <1> DEFINE T == (0 .. m) \ S
  <1>0. T \in SUBSET Nat /\ T # {}
    OBVIOUS
  <1> HIDE DEF T
  <1>1. PICK x \in T : \A y \in T : ~(y < x)
    BY <1>0, LeastNumber
  <1> USE DEF T
  <1>2. x # 0 /\ x \in Nat /\ x <= m
    OBVIOUS
  <1>3. x - 1 \in 0 .. m - 1 /\ x - 1 < x /\ (x - 1) + 1 = x
    BY <1>2
  <1>4. x - 1 \in S
    BY <1>1, <1>3
  <1>5. QED  BY <1>1, <1>3, <1>4

LEMMA LeastIs ==
  ASSUME NEW T \in SUBSET Nat, T # {}
  PROVE  Min(T) \in T /\ Min(T) \in Nat /\ \A y \in T : Min(T) <= y
  <1>1. PICK x \in T : \A y \in T : ~(y < x)
    BY LeastNumber
  <1>2. x \in T /\ \A y \in T : x <= y
    BY <1>1
  <1>3. Min(T) = CHOOSE z \in T : \A y \in T : z <= y
    BY DEF Min
  <1>4. QED  BY <1>2, <1>3

-----------------------------------------------------------------------------
(* The inductive invariant.                                                *)

MboxType ==
    /\ mbox \in Seq(Nat) /\ recvmbox \in Seq(Nat) /\ read \in Seq(Nat)
    /\ \A k1 \in 1 .. Len(mbox) : mbox[k1] <= FIN
    /\ rcv_nxt \in 1 .. FIN + 1 /\ free \in Nat /\ buf \in 0 .. FIN
    /\ buf # 0 <=> apc \in {"do_recv", "return"}

(* What has been received, in order: read, in the task's hands, in the     *)
(* recvmbox.  The FIN may have been thrown away if it came with data.      *)
Held == IF buf = 0 THEN 0 ELSE 1
Kept == Len(read) + Held + Len(recvmbox)
Dropped == POOL = MBOXSIZE /\ together /\ rcv_nxt = FIN + 1 /\ Kept = Segments
InOrder ==
    /\ Kept = rcv_nxt - 1 \/ Dropped
    /\ \A k1 \in 1 .. Len(read) : read[k1] = k1
    /\ buf # 0 => buf = Len(read) + 1
    /\ \A k1 \in 1 .. Len(recvmbox) : recvmbox[k1] = Len(read) + Held + k1

(* The thread's mailbox holds the message of the task that waits for it,   *)
(* and no other.                                                           *)
OneMessage ==
    /\ apc = "do_recv" <=> \E k1 \in 1 .. Len(mbox) : mbox[k1] = RECVED
    /\ \A k1, j \in 1 .. Len(mbox) : mbox[k1] = RECVED /\ mbox[j] = RECVED => k1 = j

(* Each pbuf is in the pool, in the thread's mailbox, in the recvmbox or   *)
(* with the task: the message and the FIN have none.                       *)
Message == IF apc = "do_recv" THEN 1 ELSE 0
FinHere == IF Kept = FIN /\ Len(recvmbox) > 0 THEN 1 ELSE 0
WithTask == IF buf \in Data THEN 1 ELSE 0
Pbufs == free + (Len(mbox) - Message) + (Len(recvmbox) - FinHere) + WithTask = POOL

MboxInv == MboxType /\ InOrder /\ OneMessage /\ Pbufs

-----------------------------------------------------------------------------
(* Sequences of numbers.                                                   *)

LEMMA Appended ==
  ASSUME NEW seq \in Seq(Nat), NEW n \in Nat
  PROVE  /\ Append(seq, n) \in Seq(Nat) /\ Len(seq) \in Nat /\ Len(Append(seq, n)) = Len(seq) + 1
         /\ \A k1 \in 1 .. Len(seq) : Append(seq, n)[k1] = seq[k1]
         /\ Append(seq, n)[Len(seq) + 1] = n
  OBVIOUS

LEMMA Taken ==
  ASSUME NEW seq \in Seq(Nat), seq # <<>>
  PROVE  /\ Head(seq) \in Nat /\ Head(seq) = seq[1]
         /\ Len(seq) \in Nat /\ Len(seq) > 0
         /\ Tail(seq) \in Seq(Nat) /\ Len(Tail(seq)) = Len(seq) - 1
         /\ \A k1 \in 1 .. Len(seq) - 1 : Tail(seq)[k1] = seq[k1 + 1]
  OBVIOUS

LEMMA Joined ==
  ASSUME NEW seq \in Seq(Nat), NEW t \in Seq(Nat)
  PROVE  /\ seq \o t \in Seq(Nat) /\ Len(seq \o t) = Len(seq) + Len(t)
         /\ \A k1 \in 1 .. Len(seq) + Len(t) :
               (seq \o t)[k1] = IF k1 <= Len(seq) THEN seq[k1] ELSE t[k1 - Len(seq)]
  OBVIOUS

\* One more of what is numbered through.
LEMMA NextAppended ==
  ASSUME NEW seq \in Seq(Nat), NEW n \in Nat, \A k1 \in 1 .. Len(seq) : seq[k1] = n + k1
  PROVE  /\ Append(seq, n + Len(seq) + 1) \in Seq(Nat)
         /\ Len(Append(seq, n + Len(seq) + 1)) = Len(seq) + 1
         /\ \A k1 \in 1 .. Len(seq) + 1 : Append(seq, n + Len(seq) + 1)[k1] = n + k1
  <1> DEFINE m == n + Len(seq) + 1
  <1>1. m \in Nat /\ m = n + (Len(seq) + 1) /\ Len(seq) \in Nat
    OBVIOUS
  <1> HIDE DEF m
  <1>2. /\ Append(seq, m) \in Seq(Nat) /\ Len(Append(seq, m)) = Len(seq) + 1
        /\ \A k1 \in 1 .. Len(seq) : Append(seq, m)[k1] = seq[k1]
        /\ Append(seq, m)[Len(seq) + 1] = m
    BY <1>1, Appended
  <1>3. \A k1 \in 1 .. Len(seq) + 1 : k1 \in 1 .. Len(seq) \/ k1 = Len(seq) + 1
    BY <1>1
  <1>4. \A k1 \in 1 .. Len(seq) + 1 : Append(seq, m)[k1] = n + k1
    BY <1>1, <1>2, <1>3
  <1>5. QED  BY <1>2, <1>4 DEF m

LEMMA Sizes ==
  /\ Segments \in Nat /\ Segments > 0 /\ POOL \in Nat /\ MBOXSIZE \in Nat /\ POOL <= MBOXSIZE
  /\ FIN \in Nat /\ FIN = Segments + 1
  /\ \A n : n \in Data <=> n \in Int /\ 1 <= n /\ n < FIN
  BY MboxAssumption, PoolAssumption DEF Data, FIN

LEMMA InitMbox == Init => MboxInv
  <1> SUFFICES ASSUME Init PROVE MboxInv
    OBVIOUS
  <1>1. /\ mbox = <<>> /\ recvmbox = <<>> /\ rcv_nxt = 1 /\ free = POOL
        /\ apc = "delay" /\ buf = 0 /\ read = <<>>
    BY DEF Init
  <1>2. <<>> \in Seq(Nat) /\ Len(<<>>) = 0
    OBVIOUS
  <1>3. MboxType
    BY <1>1, <1>2, Sizes DEF MboxType
  <1>4. InOrder
    BY <1>1, <1>2 DEF InOrder, Held, Kept
  <1>5. OneMessage
    BY <1>1, <1>2 DEF OneMessage
  <1>6. Pbufs
    BY <1>1, <1>2, Sizes DEF Pbufs, Message, FinHere, WithTask, Kept, Held
  <1>7. QED  BY <1>3, <1>4, <1>5, <1>6 DEF MboxInv

(* What is taken from the thread's mailbox, and what stays.                *)
LEMMA TakeMessage ==
  ASSUME MboxInv, mbox # <<>>, mbox' = Tail(mbox)
  PROVE  /\ Head(mbox) \in 0 .. FIN
         /\ mbox' \in Seq(Nat) /\ Len(mbox) \in Nat /\ Len(mbox') = Len(mbox) - 1
         /\ \A k1 \in 1 .. Len(mbox') : mbox'[k1] <= FIN
         /\ Head(mbox) = RECVED => \A k1 \in 1 .. Len(mbox') : mbox'[k1] # RECVED
         /\ Head(mbox) # RECVED =>
               ((\E k1 \in 1 .. Len(mbox') : mbox'[k1] = RECVED) <=> apc = "do_recv")
         /\ \A k1, j \in 1 .. Len(mbox') : mbox'[k1] = RECVED /\ mbox'[j] = RECVED => k1 = j
  <1>1. /\ Head(mbox) \in Nat /\ Head(mbox) = mbox[1]
        /\ Len(mbox) \in Nat /\ Len(mbox) > 0
        /\ mbox' \in Seq(Nat) /\ Len(mbox') = Len(mbox) - 1
        /\ \A k1 \in 1 .. Len(mbox') : mbox'[k1] = mbox[k1 + 1]
    BY Taken DEF MboxInv, MboxType
  <1>2. \A k1 \in 1 .. Len(mbox') : k1 + 1 \in 1 .. Len(mbox) /\ k1 + 1 # 1
    BY <1>1
  <1>3. 1 \in 1 .. Len(mbox)
    BY <1>1
  <1>4. Head(mbox) \in 0 .. FIN /\ \A k1 \in 1 .. Len(mbox') : mbox'[k1] <= FIN
    BY <1>1, <1>2, <1>3, Sizes DEF MboxInv, MboxType
  <1>5. \A k1, j \in 1 .. Len(mbox') : mbox'[k1] = RECVED /\ mbox'[j] = RECVED => k1 = j
    <2> SUFFICES ASSUME NEW k1 \in 1 .. Len(mbox'), NEW j \in 1 .. Len(mbox'),
                        mbox'[k1] = RECVED, mbox'[j] = RECVED
                 PROVE  k1 = j
      OBVIOUS
    <2>1. k1 + 1 = j + 1
      BY <1>1, <1>2 DEF MboxInv, OneMessage
    <2>2. QED  BY <2>1
  <1>6. Head(mbox) = RECVED => \A k1 \in 1 .. Len(mbox') : mbox'[k1] # RECVED
    BY <1>1, <1>2, <1>3 DEF MboxInv, OneMessage
  <1>7. ASSUME Head(mbox) # RECVED
        PROVE  (\E k1 \in 1 .. Len(mbox') : mbox'[k1] = RECVED) <=> apc = "do_recv"
    <2>1. ASSUME NEW k1 \in 1 .. Len(mbox), mbox[k1] = RECVED
          PROVE  \E j \in 1 .. Len(mbox') : mbox'[j] = RECVED
      <3>1. k1 # 1
        BY <1>1, <1>7, <2>1
      <3>2. k1 - 1 \in 1 .. Len(mbox') /\ (k1 - 1) + 1 = k1
        BY <1>1, <3>1
      <3>3. mbox'[k1 - 1] = RECVED
        BY <1>1, <2>1, <3>2
      <3>4. QED  BY <3>2, <3>3
    <2>2. QED  BY <1>1, <1>2, <2>1 DEF MboxInv, OneMessage
  <1>8. QED  BY <1>1, <1>4, <1>5, <1>6, <1>7

(* What comes into it.                                                     *)
LEMMA PutMessage ==
  ASSUME MboxInv, NEW m \in 0 .. FIN, mbox' = Append(mbox, m)
  PROVE  /\ mbox' \in Seq(Nat) /\ Len(mbox) \in Nat /\ Len(mbox') = Len(mbox) + 1
         /\ \A k1 \in 1 .. Len(mbox') : mbox'[k1] <= FIN
         /\ (\E k1 \in 1 .. Len(mbox') : mbox'[k1] = RECVED) <=> m = RECVED \/ apc = "do_recv"
         /\ m # RECVED \/ apc # "do_recv" =>
               \A k1, j \in 1 .. Len(mbox') : mbox'[k1] = RECVED /\ mbox'[j] = RECVED => k1 = j
  <1>1. /\ mbox' \in Seq(Nat) /\ Len(mbox) \in Nat /\ Len(mbox') = Len(mbox) + 1
        /\ \A k1 \in 1 .. Len(mbox) : mbox'[k1] = mbox[k1]
        /\ mbox'[Len(mbox) + 1] = m
    BY Appended DEF MboxInv, MboxType
  <1>2. \A k1 \in 1 .. Len(mbox') : k1 \in 1 .. Len(mbox) \/ k1 = Len(mbox) + 1
    BY <1>1
  <1>3. /\ Len(mbox) + 1 \in 1 .. Len(mbox')
        /\ \A k1 \in 1 .. Len(mbox) : k1 \in 1 .. Len(mbox')
    BY <1>1
  <1>4. \A k1 \in 1 .. Len(mbox') : mbox'[k1] <= FIN
    BY <1>1, <1>2 DEF MboxInv, MboxType
  <1>5. (\E k1 \in 1 .. Len(mbox') : mbox'[k1] = RECVED) <=> m = RECVED \/ apc = "do_recv"
    BY <1>1, <1>2, <1>3 DEF MboxInv, OneMessage
  <1>6. ASSUME m # RECVED \/ apc # "do_recv"
        PROVE  \A k1, j \in 1 .. Len(mbox') : mbox'[k1] = RECVED /\ mbox'[j] = RECVED => k1 = j
    BY <1>1, <1>2, <1>6 DEF MboxInv, OneMessage
  <1>7. QED  BY <1>1, <1>4, <1>5, <1>6

(* There is room in the recvmbox for the next segment: its own pbuf is one *)
(* that no segment in there can have.                                      *)
LEMMA RoomForNext ==
  ASSUME MboxInv, mbox # <<>>, Head(mbox) = rcv_nxt
  PROVE  /\ rcv_nxt <= FIN /\ Kept = rcv_nxt - 1 /\ FinHere = 0
         /\ Valid(recvmbox)
         /\ POOL < MBOXSIZE => Len(recvmbox) + 1 < MBOXSIZE
  <1>1. /\ Head(mbox) # RECVED /\ rcv_nxt \in Nat
        /\ rcv_nxt <= FIN
    <2>1. Head(mbox) \in 0 .. FIN
      <3>1. /\ Head(mbox) \in Nat /\ Head(mbox) = mbox[1] /\ 1 \in 1 .. Len(mbox)
        BY Taken DEF MboxInv, MboxType
      <3>2. QED  BY <3>1, Sizes DEF MboxInv, MboxType
    <2>2. QED  BY <2>1, Sizes DEF MboxInv, MboxType, RECVED
  <1>2. Len(mbox) - Message >= 1
    <2>1. /\ Head(mbox) = mbox[1] /\ Len(mbox) \in Nat /\ Len(mbox) > 0
      BY Taken DEF MboxInv, MboxType
    <2>2. CASE apc = "do_recv"
      <3>1. PICK k1 \in 1 .. Len(mbox) : mbox[k1] = RECVED
        BY <2>2 DEF MboxInv, OneMessage
      <3>2. k1 # 1
        BY <1>1, <2>1, <3>1
      <3>3. QED  BY <2>1, <2>2, <3>2 DEF Message
    <2>3. CASE apc # "do_recv"
      BY <2>1, <2>3 DEF Message
    <2>4. QED  BY <2>2, <2>3
  <1>3. Kept = rcv_nxt - 1 /\ FinHere = 0
    <2>1. Kept = rcv_nxt - 1
      BY <1>1, Sizes DEF MboxInv, InOrder, Dropped
    <2>2. QED  BY <1>1, <2>1, Sizes DEF FinHere
  <1>4. /\ Len(recvmbox) \in Nat /\ free \in Nat /\ WithTask \in Nat /\ Len(mbox) \in Nat
        /\ Message \in Nat
    BY DEF MboxInv, MboxType, WithTask, Message
  <1>5. free + (Len(mbox) - Message) + Len(recvmbox) + WithTask = POOL
    BY <1>3, <1>4 DEF MboxInv, Pbufs
  <1>6. Len(recvmbox) < MBOXSIZE /\ (POOL < MBOXSIZE => Len(recvmbox) + 1 < MBOXSIZE)
    BY <1>2, <1>4, <1>5, Sizes
  <1>7. QED  BY <1>1, <1>3, <1>6 DEF Valid

LEMMA StepMbox == MboxInv /\ [Next]_vars => MboxInv'
  <1> SUFFICES ASSUME MboxInv, [Next]_vars PROVE MboxInv'
    OBVIOUS
  <1>0. /\ MboxType /\ InOrder /\ OneMessage /\ Pbufs
        /\ Len(mbox) \in Nat /\ Len(recvmbox) \in Nat /\ Len(read) \in Nat
    BY DEF MboxInv, MboxType
  <1>1. CASE /\ UNCHANGED <<mbox, recvmbox, together, rcv_nxt, free, buf, read>>
             /\ \/ {apc, apc'} \subseteq {"delay", "call", "fetch", "closed"}
                \/ UNCHANGED apc
    <2>1. MboxType' /\ InOrder'
      BY <1>0, <1>1 DEF MboxType, InOrder, Held, Kept, Dropped
    <2>2. OneMessage'
      BY <1>0, <1>1 DEF OneMessage
    <2>3. Pbufs'
      BY <1>0, <1>1 DEF Pbufs, Message, FinHere, WithTask, Kept, Held
    <2>4. QED  BY <2>1, <2>2, <2>3 DEF MboxInv
  <1>2. CASE FireDue \/ TimedOut \/ Sleep \/ Tick \/ Delay \/ Call \/ UNCHANGED vars
    BY <1>1, <1>2 DEF FireDue, TimedOut, Fire, Sleep, Tick, Delay, Call, vars, dataVars
  <1>3. CASE Fetch
    <2>1. /\ mbox # <<>> /\ mbox' = Tail(mbox) /\ UNCHANGED <<buf, read>> /\ Handle(Head(mbox))
      BY <1>3 DEF Fetch
    <2> DEFINE m == Head(mbox)
    <2>2. /\ m \in 0 .. FIN
          /\ mbox' \in Seq(Nat) /\ Len(mbox') = Len(mbox) - 1
          /\ \A k1 \in 1 .. Len(mbox') : mbox'[k1] <= FIN
          /\ m = RECVED => \A k1 \in 1 .. Len(mbox') : mbox'[k1] # RECVED
          /\ m # RECVED => ((\E k1 \in 1 .. Len(mbox') : mbox'[k1] = RECVED) <=> apc = "do_recv")
          /\ \A k1, j \in 1 .. Len(mbox') : mbox'[k1] = RECVED /\ mbox'[j] = RECVED => k1 = j
      BY <2>1, TakeMessage
    <2> HIDE DEF m
    <2>3. CASE /\ m = RECVED /\ apc = "do_recv" /\ apc' = "return"
               /\ UNCHANGED <<recvmbox, together, rcv_nxt, free>>
      <3>1. MboxType' /\ InOrder'
        BY <1>0, <2>1, <2>2, <2>3 DEF MboxType, InOrder, Held, Kept, Dropped
      <3>2. OneMessage'
        BY <2>2, <2>3 DEF OneMessage
      <3>3. Pbufs'
        BY <1>0, <2>1, <2>2, <2>3 DEF Pbufs, Message, FinHere, WithTask, Kept, Held, MboxType
      <3>4. QED  BY <3>1, <3>2, <3>3 DEF MboxInv
    <2>4. CASE m = rcv_nxt /\ Input(m) /\ UNCHANGED apc
      <3>1. /\ rcv_nxt <= FIN /\ Kept = rcv_nxt - 1 /\ FinHere = 0
            /\ Valid(recvmbox)
            /\ POOL < MBOXSIZE => Len(recvmbox) + 1 < MBOXSIZE
        BY <2>1, <2>4, RoomForNext DEF m
      <3>2. rcv_nxt \in Nat /\ rcv_nxt >= 1 /\ free \in Nat /\ m # RECVED
        BY <1>0, <2>4 DEF MboxType, RECVED
      <3>3. Held' = Held /\ Held \in Nat /\ Message' = Message /\ Message \in Nat
            /\ WithTask' = WithTask /\ WithTask \in Nat
        BY <2>1, <2>4 DEF Held, Message, WithTask
      <3> DEFINE n == Len(read) + Held
                 one == Append(recvmbox, rcv_nxt)
      <3>4. n \in Nat /\ n + Len(recvmbox) + 1 = rcv_nxt
            /\ \A k1 \in 1 .. Len(recvmbox) : recvmbox[k1] = n + k1
        BY <1>0, <3>1, <3>2, <3>3 DEF InOrder, Kept
      <3> HIDE DEF n
      <3>5. /\ one \in Seq(Nat) /\ Len(one) = Len(recvmbox) + 1
            /\ \A k1 \in 1 .. Len(one) : one[k1] = n + k1
        <4>1. one = Append(recvmbox, n + Len(recvmbox) + 1) /\ recvmbox \in Seq(Nat)
          BY <1>0, <3>4 DEF MboxType
        <4> HIDE DEF one
        <4>2. /\ Append(recvmbox, n + Len(recvmbox) + 1) \in Seq(Nat)
              /\ Len(Append(recvmbox, n + Len(recvmbox) + 1)) = Len(recvmbox) + 1
              /\ \A k1 \in 1 .. Len(recvmbox) + 1 :
                    Append(recvmbox, n + Len(recvmbox) + 1)[k1] = n + k1
          BY <3>4, <4>1, NextAppended
        <4>3. QED  BY <4>1, <4>2, Zenon
      <3> HIDE DEF one
      <3>6. /\ UNCHANGED together
            /\ free' = IF m \in Data THEN free ELSE free + 1
            /\ \/ rcv_nxt' = rcv_nxt + 1 /\ recvmbox' = one
               \/ /\ rcv_nxt = Segments /\ together /\ rcv_nxt' = FIN + 1
                  /\ recvmbox' = RecvTcp(one, FIN)
        BY <2>4, <3>1 DEF Input, RecvTcp, Free, one
      <3>7. free + (Len(mbox) - Message) + Len(recvmbox) + WithTask = POOL
        BY <1>0, <3>1, <3>2, <3>3 DEF Pbufs
      <3>8. OneMessage'
        BY <2>2, <2>4, <3>2 DEF OneMessage
      <3>9. CASE rcv_nxt' = rcv_nxt + 1 /\ recvmbox' = one
        <4>1. MboxType'
          BY <1>0, <2>1, <2>2, <2>4, <3>1, <3>2, <3>5, <3>6, <3>9, Sizes DEF MboxType
        <4>2. Kept' = rcv_nxt' - 1 /\ Kept' = rcv_nxt
          <5>1. Kept' = n + Len(one)
            BY <2>1, <3>3, <3>9 DEF Kept, n
          <5>2. QED  BY <1>0, <3>2, <3>4, <3>5, <3>9, <5>1
        <4>3. InOrder'
          BY <1>0, <2>1, <3>3, <3>5, <3>9, <4>2 DEF InOrder, n
        <4>4. FinHere' = IF rcv_nxt \in Data THEN 0 ELSE 1
          BY <1>0, <3>1, <3>2, <3>5, <3>9, <4>2, Sizes DEF FinHere
        <4>5. free' + (Len(mbox') - Message) + (Len(recvmbox') - FinHere') + WithTask = POOL
          <5>0. Len(recvmbox') = Len(recvmbox) + 1 /\ Len(mbox') = Len(mbox) - 1
            BY <2>2, <3>5, <3>9
          <5>1. CASE rcv_nxt \in Data
            <6>1. free' = free /\ FinHere' = 0
              BY <2>4, <3>6, <4>4, <5>1
            <6>2. QED  BY <1>0, <3>2, <3>3, <3>7, <5>0, <6>1
          <5>2. CASE rcv_nxt \notin Data
            <6>1. free' = free + 1 /\ FinHere' = 1
              BY <2>4, <3>6, <4>4, <5>2
            <6>2. QED  BY <1>0, <3>2, <3>3, <3>7, <5>0, <6>1
          <5>3. QED  BY <5>1, <5>2
        <4>6. Pbufs'
          BY <3>3, <4>5 DEF Pbufs
        <4>7. QED  BY <3>8, <4>1, <4>3, <4>6 DEF MboxInv
      <3>10. CASE /\ rcv_nxt = Segments /\ together /\ rcv_nxt' = FIN + 1
                  /\ recvmbox' = RecvTcp(one, FIN)
        <4>1. /\ free' = free /\ FIN = n + Len(one) + 1 /\ FIN \in Nat /\ FIN = Segments + 1
              /\ Len(one) \in Nat
          BY <1>0, <2>4, <3>2, <3>4, <3>5, <3>6, <3>10, Sizes
        <4>2. /\ \A k1 \in 1 .. Len(recvmbox') : recvmbox'[k1] = n + k1
              /\ recvmbox' \in Seq(Nat)
              /\ \/ Len(recvmbox') = Len(one) + 1
                 \/ Len(recvmbox') = Len(one) /\ POOL = MBOXSIZE
          <5>1. CASE Valid(one)
            <6>1. recvmbox' = Append(one, n + Len(one) + 1)
              BY <3>10, <4>1, <5>1 DEF RecvTcp
            <6>2. /\ recvmbox' \in Seq(Nat) /\ Len(recvmbox') = Len(one) + 1
                  /\ \A k1 \in 1 .. Len(one) + 1 : recvmbox'[k1] = n + k1
              BY <3>4, <3>5, <6>1, NextAppended
            <6>3. QED  BY <6>2
          <5>2. CASE ~Valid(one)
            <6>1. recvmbox' = one
              BY <3>10, <5>2 DEF RecvTcp
            <6>2. ~(Len(recvmbox) + 1 < MBOXSIZE)
              BY <3>5, <5>2 DEF Valid
            <6>3. POOL = MBOXSIZE
              BY <3>1, <6>2, Sizes
            <6>4. QED  BY <3>5, <6>1, <6>3
          <5>3. QED  BY <5>1, <5>2
        <4>3. Kept' = n + Len(recvmbox') /\ Len(recvmbox') \in Nat
          BY <2>1, <3>3, <4>1, <4>2 DEF Kept, n
        <4>4. \/ Kept' = FIN /\ Len(recvmbox') = Len(one) + 1
              \/ Kept' = Segments /\ Len(recvmbox') = Len(one) /\ POOL = MBOXSIZE
          BY <3>4, <4>1, <4>2, <4>3, Sizes
        <4>5. MboxType'
          BY <1>0, <2>1, <2>2, <2>4, <3>2, <3>10, <4>1, <4>2, Sizes, SMTT(30) DEF MboxType
        <4>6. InOrder'
          <5>1. Kept' = rcv_nxt' - 1 \/ Dropped'
            BY <3>6, <3>10, <4>1, <4>4 DEF Dropped
          <5>2. QED  BY <1>0, <2>1, <3>3, <4>2, <5>1 DEF InOrder, n
        <4>7. Len(recvmbox') - FinHere' = Len(one)
          <5>1. CASE Kept' = FIN /\ Len(recvmbox') = Len(one) + 1
            <6>1. FinHere' = 1
              BY <4>1, <5>1 DEF FinHere
            <6>2. QED  BY <4>1, <5>1, <6>1
          <5>2. CASE Kept' = Segments /\ Len(recvmbox') = Len(one)
            <6>1. FinHere' = 0
              BY <4>1, <5>2, Sizes DEF FinHere
            <6>2. QED  BY <4>1, <5>2, <6>1
          <5>3. QED  BY <4>4, <5>1, <5>2
        <4>8. free' + (Len(mbox') - Message) + (Len(recvmbox') - FinHere') + WithTask = POOL
          BY <1>0, <2>2, <3>2, <3>3, <3>5, <3>7, <4>1, <4>7
        <4>9. Pbufs'
          BY <3>3, <4>8 DEF Pbufs
        <4>10. QED  BY <3>8, <4>5, <4>6, <4>9 DEF MboxInv
      <3>11. QED  BY <3>6, <3>9, <3>10
    <2>5. CASE /\ m \notin {RECVED, rcv_nxt} /\ free' = free + 1
               /\ UNCHANGED <<recvmbox, together, rcv_nxt, apc>>
      <3>1. MboxType' /\ InOrder'
        BY <1>0, <2>1, <2>2, <2>5 DEF MboxType, InOrder, Held, Kept, Dropped
      <3>2. OneMessage'
        BY <2>2, <2>5 DEF OneMessage
      <3>3. Pbufs'
        BY <1>0, <2>1, <2>2, <2>5 DEF Pbufs, Message, FinHere, WithTask, Kept, Held, MboxType
      <3>4. QED  BY <3>1, <3>2, <3>3 DEF MboxInv
    <2>6. QED  BY <2>1, <2>3, <2>4, <2>5 DEF Handle, m
  <1>4. ASSUME NEW n \in 1 .. FIN, Arrive(n) PROVE MboxInv'
    <2>1. /\ free > 0 /\ free' = free - 1 /\ mbox' = Append(mbox, n)
          /\ UNCHANGED <<recvmbox, together, rcv_nxt, buf, read, apc>>
          /\ n \in 0 .. FIN /\ n # RECVED
      BY <1>4, Sizes DEF Arrive, RECVED
    <2>2. /\ mbox' \in Seq(Nat) /\ Len(mbox') = Len(mbox) + 1
          /\ \A k1 \in 1 .. Len(mbox') : mbox'[k1] <= FIN
          /\ (\E k1 \in 1 .. Len(mbox') : mbox'[k1] = RECVED) <=> apc = "do_recv"
          /\ \A k1, j \in 1 .. Len(mbox') : mbox'[k1] = RECVED /\ mbox'[j] = RECVED => k1 = j
      BY <2>1, PutMessage
    <2>3. MboxType' /\ InOrder'
      BY <1>0, <2>1, <2>2 DEF MboxType, InOrder, Held, Kept, Dropped
    <2>4. OneMessage'
      BY <2>1, <2>2 DEF OneMessage
    <2>5. Pbufs'
      BY <1>0, <2>1, <2>2 DEF Pbufs, Message, FinHere, WithTask, Kept, Held, MboxType
    <2>6. QED  BY <2>3, <2>4, <2>5 DEF MboxInv
  <1>5. CASE Recv
    <2>1. /\ apc = "fetch" /\ recvmbox # <<>> /\ buf' = Head(recvmbox) /\ recvmbox' = Tail(recvmbox)
          /\ UNCHANGED <<together, rcv_nxt, free, read>>
          /\ \/ apc' = "do_recv" /\ mbox' = Append(mbox, RECVED)
             \/ apc' = "return" /\ UNCHANGED mbox
      BY <1>5 DEF Recv
    <2>2. buf = 0 /\ Held = 0 /\ WithTask = 0 /\ Message = 0
      BY <1>0, <2>1, Sizes DEF MboxType, Held, WithTask, Message
    <2>3. /\ Head(recvmbox) = recvmbox[1] /\ Len(recvmbox) > 0
          /\ recvmbox' \in Seq(Nat) /\ Len(recvmbox') = Len(recvmbox) - 1
          /\ \A k1 \in 1 .. Len(recvmbox) - 1 : recvmbox'[k1] = recvmbox[k1 + 1]
      BY <1>0, <2>1, Taken DEF MboxType
    <2>4. /\ Kept = Len(read) + Len(recvmbox) /\ Kept \in Nat /\ Kept <= FIN
          /\ Kept = rcv_nxt - 1 \/ Dropped
          /\ \A k1 \in 1 .. Len(recvmbox) : recvmbox[k1] = Len(read) + k1
          /\ rcv_nxt \in Nat /\ rcv_nxt <= FIN + 1
      <3>1. Kept = Len(read) + Len(recvmbox) /\ Kept \in Nat
        BY <1>0, <2>2 DEF Kept
      <3>2. (Kept = rcv_nxt - 1 \/ Dropped) /\ rcv_nxt \in Nat /\ rcv_nxt <= FIN + 1
        BY <1>0, Sizes DEF InOrder, MboxType
      <3>3. Kept <= FIN
        BY <3>1, <3>2, Sizes DEF Dropped
      <3>4. \A k1 \in 1 .. Len(recvmbox) : recvmbox[k1] = Len(read) + k1
        BY <1>0, <2>2 DEF InOrder
      <3>5. QED  BY <3>1, <3>2, <3>3, <3>4
    <2>5. buf' = Len(read) + 1 /\ buf' # 0 /\ buf' \in 1 .. FIN
      <3>1. 1 \in 1 .. Len(recvmbox) /\ buf' = recvmbox[1]
        BY <1>0, <2>1, <2>3
      <3>2. buf' = Len(read) + 1
        BY <2>4, <3>1
      <3>3. Len(read) + 1 <= FIN /\ FIN \in Nat
        BY <1>0, <2>3, <2>4, Sizes
      <3>4. QED  BY <1>0, <3>2, <3>3
    <2>6. /\ mbox' \in Seq(Nat) /\ Len(mbox') \in Nat
          /\ \A k1 \in 1 .. Len(mbox') : mbox'[k1] <= FIN
          /\ Len(mbox') - Message' = Len(mbox) /\ Message' \in Nat
          /\ OneMessage'
      <3>1. CASE apc' = "do_recv" /\ mbox' = Append(mbox, RECVED)
        <4>1. RECVED \in 0 .. FIN
          BY Sizes DEF RECVED
        <4>2. /\ mbox' \in Seq(Nat) /\ Len(mbox') = Len(mbox) + 1
              /\ \A k1 \in 1 .. Len(mbox') : mbox'[k1] <= FIN
              /\ \E k1 \in 1 .. Len(mbox') : mbox'[k1] = RECVED
              /\ \A k1, j \in 1 .. Len(mbox') : mbox'[k1] = RECVED /\ mbox'[j] = RECVED => k1 = j
          BY <2>1, <3>1, <4>1, PutMessage
        <4>3. Message' = 1 /\ OneMessage'
          BY <3>1, <4>2 DEF Message, OneMessage
        <4>4. QED  BY <1>0, <4>2, <4>3
      <3>2. CASE apc' = "return" /\ UNCHANGED mbox
        <4>1. Message' = 0 /\ OneMessage'
          BY <1>0, <2>1, <3>2 DEF Message, OneMessage
        <4>2. QED  BY <1>0, <3>2, <4>1 DEF MboxType
      <3>3. QED  BY <2>1, <3>1, <3>2
    <2>7. MboxType'
      BY <1>0, <2>1, <2>3, <2>5, <2>6 DEF MboxType
    <2>8. InOrder'
      <3>1. Held' = 1
        BY <2>5 DEF Held
      <3>2. Kept' = Kept /\ (Kept' = rcv_nxt' - 1 \/ Dropped')
        <4>1. Kept' = Len(read) + 1 + Len(recvmbox')
          BY <2>1, <3>1 DEF Kept
        <4>2. Kept' = Kept
          BY <1>0, <2>3, <2>4, <4>1
        <4>3. QED  BY <2>1, <2>4, <4>2 DEF Dropped
      <3>3. \A k1 \in 1 .. Len(recvmbox') : recvmbox'[k1] = Len(read) + 1 + k1
        BY <1>0, <2>3, <2>4
      <3>4. QED  BY <1>0, <2>1, <2>5, <3>1, <3>2, <3>3 DEF InOrder
    <2>9. Pbufs'
      <3>1. /\ FinHere \in Nat /\ FinHere' \in Nat /\ WithTask' \in Nat
            /\ (Len(recvmbox') - FinHere') + WithTask' = Len(recvmbox) - FinHere
        <4>1. WithTask' = IF Len(read) + 1 < FIN THEN 1 ELSE 0
          BY <1>0, <2>5, Sizes DEF WithTask
        <4>2. FinHere = IF Kept = FIN THEN 1 ELSE 0
          BY <2>3 DEF FinHere
        <4>3. FinHere' = IF Kept = FIN /\ Len(recvmbox) - 1 > 0 THEN 1 ELSE 0
          <5>1. Kept' = Kept
            <6>1. Held' = 1
              BY <2>5 DEF Held
            <6>2. Kept' = Len(read) + 1 + Len(recvmbox')
              BY <2>1, <6>1 DEF Kept
            <6>3. QED  BY <1>0, <2>3, <2>4, <6>2
          <5>2. QED  BY <2>1, <2>3, <5>1 DEF FinHere
        <4>4. Len(read) + 1 <= FIN
          BY <1>0, <2>3, <2>4, Sizes
        <4>5. /\ Len(read) + Len(recvmbox) = Kept /\ Len(recvmbox) > 0
              /\ Kept \in Nat /\ Kept <= FIN
              /\ Len(recvmbox') = Len(recvmbox) - 1
          BY <2>3, <2>4
        <4>6. CASE Kept # FIN
          <5>1. WithTask' = 1 /\ FinHere = 0 /\ FinHere' = 0
            BY <1>0, <4>1, <4>2, <4>3, <4>5, <4>6, Sizes
          <5>2. QED  BY <1>0, <4>5, <5>1
        <4>7. CASE Kept = FIN /\ Len(recvmbox) = 1
          <5>1. WithTask' = 0 /\ FinHere = 1 /\ FinHere' = 0
            BY <1>0, <4>1, <4>2, <4>3, <4>5, <4>7, Sizes
          <5>2. QED  BY <1>0, <4>5, <4>7, <5>1
        <4>8. CASE Kept = FIN /\ Len(recvmbox) # 1
          <5>1. WithTask' = 1 /\ FinHere = 1 /\ FinHere' = 1
            BY <1>0, <4>1, <4>2, <4>3, <4>5, <4>8, Sizes
          <5>2. QED  BY <1>0, <4>5, <5>1
        <4>9. QED  BY <4>6, <4>7, <4>8
      <3>2. free + Len(mbox) + (Len(recvmbox) - FinHere) = POOL /\ free \in Nat
        BY <1>0, <2>2, <3>1 DEF Pbufs, MboxType
      <3>3. Len(recvmbox') \in Nat
        BY <2>3
      <3>4. free' + (Len(mbox') - Message') + (Len(recvmbox') - FinHere') + WithTask' = POOL
        <4>1. free' = free /\ Len(mbox') - Message' = Len(mbox)
          BY <2>1, <2>6
        <4>2. (Len(recvmbox') - FinHere') + WithTask' = Len(recvmbox) - FinHere
          BY <3>1
        <4>3. /\ {free, FinHere, FinHere', WithTask', Len(recvmbox), Len(recvmbox')} \subseteq Int
              /\ Len(mbox) \in Int /\ POOL \in Int
          BY <1>0, <3>1, <3>2, <3>3, Sizes
        <4> DEFINE a == Len(recvmbox') - FinHere'
                   b == WithTask'
                   c == Len(recvmbox) - FinHere
        <4>4. a + b = c /\ a \in Int /\ b \in Int /\ c \in Int
          BY <4>2, <4>3
        <4>5. free + Len(mbox) + c = POOL
          BY <3>2
        <4> HIDE DEF a, b, c
        <4>6. free + Len(mbox) + a + b = POOL
          BY <4>3, <4>4, <4>5
        <4>7. QED  BY <4>1, <4>6 DEF a, b
      <3>5. QED  BY <3>4 DEF Pbufs
    <2>10. QED  BY <2>6, <2>7, <2>8, <2>9 DEF MboxInv
  <1>6. CASE Return
    <2>1. /\ apc = "return" /\ read' = Append(read, buf) /\ buf' = 0 /\ free' = free + Freed(buf)
          /\ apc' \in {"closed", "call"} /\ UNCHANGED <<mbox, recvmbox, together, rcv_nxt>>
      BY <1>6 DEF Return
    <2>2. buf # 0 /\ buf = Len(read) + 1 /\ buf \in Nat
      BY <1>0, <2>1, Sizes DEF MboxType, InOrder
    <2>3. /\ read' \in Seq(Nat) /\ Len(read') = Len(read) + 1
          /\ \A k1 \in 1 .. Len(read) : read'[k1] = read[k1]
          /\ read'[Len(read) + 1] = buf
      BY <1>0, <2>1, <2>2, Appended DEF MboxType
    <2>4. Freed(buf) = WithTask /\ WithTask' = 0 /\ WithTask \in Nat
      BY <2>1, Sizes DEF Freed, WithTask
    <2>5. MboxType'
      BY <1>0, <2>1, <2>3, <2>4, Sizes DEF MboxType
    <2>6. InOrder'
      <3>1. Held = 1 /\ Held' = 0
        BY <2>1, <2>2 DEF Held
      <3>2. Kept' = Kept /\ (Kept' = rcv_nxt' - 1 \/ Dropped')
        <4>1. Kept' = Len(read') + Len(recvmbox) /\ Kept = Len(read) + 1 + Len(recvmbox)
          BY <1>0, <2>1, <2>3, <3>1 DEF Kept
        <4>2. Kept' = Kept
          BY <1>0, <2>3, <4>1
        <4>3. QED  BY <1>0, <2>1, <4>2 DEF InOrder, Dropped
      <3>3. \A k1 \in 1 .. Len(read') : read'[k1] = k1
        BY <1>0, <2>2, <2>3 DEF InOrder
      <3>4. \A k1 \in 1 .. Len(recvmbox) : recvmbox[k1] = Len(read') + k1
        BY <1>0, <2>3, <3>1 DEF InOrder
      <3>5. QED  BY <1>0, <2>1, <2>3, <3>1, <3>2, <3>3, <3>4 DEF InOrder
    <2>7. OneMessage'
      BY <1>0, <2>1 DEF OneMessage
    <2>8. Pbufs'
      <3>1. Message = 0 /\ Message' = 0 /\ FinHere' = FinHere /\ FinHere \in Nat
        <4>1. Held = 1 /\ Held' = 0
          BY <2>1, <2>2 DEF Held
        <4>2. Kept' = Kept
          BY <1>0, <2>1, <2>3, <4>1 DEF Kept
        <4>3. QED  BY <2>1, <4>2 DEF Message, FinHere
      <3>2. QED  BY <1>0, <2>1, <2>4, <3>1 DEF Pbufs, MboxType
    <2>9. QED  BY <2>5, <2>6, <2>7, <2>8 DEF MboxInv
  <1>7. QED  BY <1>2, <1>3, <1>4, <1>5, <1>6 DEF Next, Thread, Task

-----------------------------------------------------------------------------

(* Nothing that TCP has acknowledged is lost on its way to the task,       *)
(* whatever the traffic, as there are no more pbufs than a mailbox has     *)
(* entries; but if there are as many, a FIN that came with the data which  *)
(* took the last entry.                                                    *)
THEOREM NothingLostHolds == Spec => []NothingLost
  <1>1. MboxInv => NothingLost
    <2> SUFFICES ASSUME MboxInv PROVE NothingLost
      OBVIOUS
    <2>1. /\ read \in Seq(Nat) /\ recvmbox \in Seq(Nat) /\ buf \in Nat
          /\ Len(read) \in Nat /\ Len(recvmbox) \in Nat /\ rcv_nxt \in Nat /\ Held \in {0, 1}
      BY Sizes DEF MboxInv, MboxType, Held
    <2>2. /\ Kept = Len(read) + Held + Len(recvmbox)
          /\ Kept = rcv_nxt - 1 \/ Dropped
          /\ \A k1 \in 1 .. Len(read) : read[k1] = k1
          /\ buf # 0 => buf = Len(read) + 1
          /\ \A k1 \in 1 .. Len(recvmbox) : recvmbox[k1] = Len(read) + Held + k1
      BY DEF MboxInv, InOrder, Kept
    <2> DEFINE hand == IF buf = 0 THEN <<>> ELSE <<buf>>
               first == read \o hand
               all == first \o recvmbox
    <2>3. hand \in Seq(Nat) /\ Len(hand) = Held /\ \A k1 \in 1 .. Held : hand[k1] = Len(read) + k1
      BY <2>1, <2>2 DEF Held
    <2> HIDE DEF hand
    <2>4. /\ first \in Seq(Nat) /\ Len(first) = Len(read) + Held
          /\ \A k1 \in 1 .. Len(read) + Held :
                first[k1] = IF k1 <= Len(read) THEN read[k1] ELSE hand[k1 - Len(read)]
      BY <2>1, <2>3, Joined
    <2>5. \A k1 \in 1 .. Len(read) + Held : first[k1] = k1
      <3> SUFFICES ASSUME NEW k1 \in 1 .. Len(read) + Held PROVE first[k1] = k1
        OBVIOUS
      <3>1. CASE k1 <= Len(read)
        BY <2>1, <2>2, <2>4, <3>1
      <3>2. CASE ~(k1 <= Len(read))
        <4>1. k1 - Len(read) \in 1 .. Held /\ Len(read) + (k1 - Len(read)) = k1
          BY <2>1, <3>2
        <4>2. QED  BY <2>3, <2>4, <3>2, <4>1
      <3>3. QED  BY <3>1, <3>2
    <2> HIDE DEF first
    <2>6. /\ all \in Seq(Nat) /\ Len(all) = Kept
          /\ \A k1 \in 1 .. Kept :
                all[k1] = IF k1 <= Len(first) THEN first[k1] ELSE recvmbox[k1 - Len(first)]
      <3>1. /\ all \in Seq(Nat) /\ Len(all) = Len(first) + Len(recvmbox)
            /\ \A k1 \in 1 .. Len(first) + Len(recvmbox) :
                  all[k1] = IF k1 <= Len(first) THEN first[k1] ELSE recvmbox[k1 - Len(first)]
        BY <2>1, <2>4, Joined
      <3>2. Len(first) + Len(recvmbox) = Kept
        BY <2>2, <2>4
      <3>3. QED  BY <3>1, <3>2
    <2> HIDE DEF all
    <2>7. \A k1 \in 1 .. Kept : all[k1] = k1
      <3> SUFFICES ASSUME NEW k1 \in 1 .. Kept PROVE all[k1] = k1
        OBVIOUS
      <3>1. CASE k1 <= Len(first)
        BY <2>1, <2>4, <2>5, <2>6, <3>1, SMTT(30)
      <3>2. CASE ~(k1 <= Len(first))
        <4>1. k1 - Len(first) \in 1 .. Len(recvmbox)
              /\ Len(read) + Held + (k1 - Len(first)) = k1
          BY <2>1, <2>2, <2>4, <3>2
        <4>2. QED  BY <2>2, <2>6, <3>2, <4>1
      <3>3. QED  BY <3>1, <3>2
    <2>8. all = [n \in 1 .. Kept |-> n] /\ all = Stream
      <3>1. Kept \in Nat
        BY <2>1, <2>2
      <3>2. all = [n \in 1 .. Kept |-> n]
        BY <2>6, <2>7, <3>1
      <3>3. all = Stream
        BY DEF Stream, all, first, hand
      <3>4. QED  BY <3>2, <3>3
    <2>9. CASE Kept = rcv_nxt - 1
      BY <2>8, <2>9 DEF NothingLost
    <2>10. CASE Dropped
      <3>1. Stream = [n \in Data |-> n]
        BY <2>8, <2>10 DEF Dropped, Data
      <3>2. QED  BY <2>10, <3>1 DEF NothingLost, FinLost, Dropped
    <2>11. QED  BY <2>2, <2>9, <2>10
  <1>2. QED  BY <1>1, InitMbox, StepMbox, PTL DEF Spec

-----------------------------------------------------------------------------
(***************************************************************************)
(* The timers of Mbox.                                                     *)
(***************************************************************************)

(* The timers: each is in the list once, and is due, counted from the      *)
(* start of the wait, no sooner than is left of its time.                  *)
Entry == [timer : Timer, time : Nat]
Pairs(list) == {<<list[k].timer, Due(list, k)>> : k \in 1 .. Len(list)}
OneEach(list) == \A j, k \in 1 .. Len(list) : j # k => list[j].timer # list[k].timer

Ms(n) == n * MsPerTick

TimerType ==
    /\ next_timeout \in Seq(Entry) /\ next_timeout # <<>> /\ OneEach(next_timeout)
    /\ clock \in 0 .. CLOCK - 1 /\ t0 \in 0 .. CLOCK - 1 /\ left \in Nat
    /\ tpc \in {"fetch", "wait"}
    /\ age \in [Timer -> Nat] /\ slack \in [Timer -> Nat] /\ rushed \in [Timer -> BOOLEAN]

\* Ticks that have passed since the wait began.
Waited == IF tpc = "wait" THEN Ticks(First.time) - left ELSE 0
WaitInv == tpc = "wait" =>
    /\ left <= Ticks(First.time)
    /\ clock = t0 + Waited \/ clock = t0 + Waited - CLOCK

Timely(t, due) ==
    /\ due <= Period[t]
    /\ \/ rushed[t] \/ age[t] >= Period[t] \/ slack[t] >= Period[t]
       \/ Ms(age[t]) + slack[t] + due >= Period[t] + Ms(Waited)
DueInv == \A r \in Pairs(next_timeout) : Timely(r[1], r[2])

TimerInv == TimerType /\ WaitInv /\ DueInv

-----------------------------------------------------------------------------

LEMMA GreatestIs ==
  ASSUME NEW n \in Nat, NEW T \in SUBSET (0 .. n), T # {}
  PROVE  Max(T) \in T /\ \A y \in T : y <= Max(T)
  <1> DEFINE U == {n - x : x \in T}
  <1>1. U \in SUBSET Nat /\ U # {}
    <2>1. PICK x : x \in T
      OBVIOUS
    <2>2. n - x \in U
      BY <2>1
    <2>3. \A y \in T : n - y \in Nat
      OBVIOUS
    <2>4. QED  BY <2>2, <2>3
  <1>2. PICK z \in U : \A y \in U : ~(y < z)
    BY <1>1, LeastNumber
  <1>3. PICK x \in T : z = n - x
    BY <1>2
  <1>4. ASSUME NEW y \in T PROVE x >= y
    <2>1. n - y \in U
      OBVIOUS
    <2>2. ~(n - y < n - x)
      BY <1>2, <1>3, <2>1
    <2>3. QED  BY <2>2
  <1>5. Max(T) = CHOOSE m \in T : \A y \in T : m >= y
    BY DEF Max
  <1>6. Max(T) \in T /\ \A y \in T : Max(T) >= y
    BY <1>4, <1>5
  <1>7. QED  BY <1>6

LEMMA TwoNumbers ==
  ASSUME NEW a \in Int, NEW b \in Int
  PROVE  /\ Max({a, b}) = IF a >= b THEN a ELSE b
         /\ Min({a, b}) = IF a <= b THEN a ELSE b
  <1> DEFINE big == IF a >= b THEN a ELSE b
             small == IF a <= b THEN a ELSE b
  <1>1. /\ big \in {a, b} /\ \A y \in {a, b} : big >= y
        /\ \A x \in {a, b} : (\A y \in {a, b} : x >= y) => x = big
    OBVIOUS
  <1>2. /\ small \in {a, b} /\ \A y \in {a, b} : small <= y
        /\ \A x \in {a, b} : (\A y \in {a, b} : x <= y) => x = small
    OBVIOUS
  <1> HIDE DEF big, small
  <1>3. Max({a, b}) = big
    BY <1>1 DEF Max
  <1>4. Min({a, b}) = small
    BY <1>2 DEF Min
  <1>5. QED  BY <1>3, <1>4 DEF big, small

-----------------------------------------------------------------------------
(* Ticks and milliseconds.                                                 *)

LEMMA TimesAre ==
  /\ CLOCK \in Nat /\ MsPerTick \in Nat \ {0}
  /\ \A t \in Timer : Period[t] \in Nat \ {0} /\ Ms(CLOCK - 1) >= Period[t]
  BY MboxAssumption DEF Ms

LEMMA MsIs ==
  /\ \A n \in Nat : Ms(n) \in Nat /\ n <= Ms(n) /\ Ms(n + 1) = Ms(n) + MsPerTick
  /\ \A m, n \in Nat : m <= n => Ms(m) <= Ms(n)
  /\ Ms(0) = 0
  <1>1. MsPerTick \in Nat \ {0}
    BY TimesAre
  <1>2. \A n \in Nat : Ms(n) \in Nat
    BY <1>1 DEF Ms
  <1>3. \A n \in Nat : Ms(n + 1) = Ms(n) + MsPerTick
    BY <1>1 DEF Ms
  <1>4. \A n \in Nat : n <= Ms(n)
    BY <1>1 DEF Ms
  <1>5. \A m, n \in Nat : m <= n => Ms(m) <= Ms(n)
    <2> SUFFICES ASSUME NEW m \in Nat, NEW n \in Nat, m <= n PROVE Ms(m) <= Ms(n)
      OBVIOUS
    <2>1. PICK d \in Nat : n = m + d
      OBVIOUS
    <2>2. (m + d) * MsPerTick = m * MsPerTick + d * MsPerTick
      BY <1>1
    <2>3. d * MsPerTick \in Nat /\ m * MsPerTick \in Nat
      BY <1>1
    <2>4. QED  BY <2>1, <2>2, <2>3 DEF Ms
  <1>6. Ms(0) = 0
    BY <1>1 DEF Ms
  <1>7. QED  BY <1>2, <1>3, <1>4, <1>5, <1>6

LEMMA TicksIs ==
  ASSUME NEW ms \in Nat
  PROVE  /\ Ticks(ms) \in Nat \ {0}
         /\ ms >= MsPerTick => Ms(Ticks(ms)) <= ms
         /\ ms < MsPerTick => Ticks(ms) = 1
         /\ CLOCK >= 2 /\ ms <= Ms(CLOCK - 1) => Ticks(ms) <= CLOCK - 1
  <1>1. MsPerTick \in Nat \ {0} /\ CLOCK \in Nat
    BY TimesAre
  <1>2. CASE ms < MsPerTick
    BY <1>1, <1>2 DEF Ticks
  <1>3. CASE ms >= MsPerTick
    <2> DEFINE q == ms \div MsPerTick
               r == ms % MsPerTick
    <2>1. q \in Int /\ r \in 0 .. MsPerTick - 1 /\ ms = MsPerTick * q + r
      BY <1>1
    <2> HIDE DEF q, r
    <2>2. q >= 1
      <3> SUFFICES ASSUME q <= 0 PROVE FALSE
        BY <2>1
      <3>1. MsPerTick * q <= 0
        BY <1>1, <2>1
      <3>2. QED  BY <1>1, <1>3, <2>1, <3>1
    <2>3. Ms(q) <= ms /\ q \in Nat
      BY <1>1, <2>1, <2>2 DEF Ms
    <2>4. ASSUME ms <= Ms(CLOCK - 1), CLOCK >= 2
          PROVE  q <= CLOCK - 1
      <3> SUFFICES ASSUME q >= CLOCK PROVE FALSE
        BY <1>1, <2>3
      <3>1. Ms(CLOCK) <= Ms(q) /\ Ms((CLOCK - 1) + 1) = Ms(CLOCK - 1) + MsPerTick
        BY <1>1, <2>3, <2>4, MsIs
      <3>2. Ms(CLOCK - 1) \in Nat /\ Ms(q) \in Nat /\ (CLOCK - 1) + 1 = CLOCK
        BY <1>1, <2>3, <2>4, MsIs
      <3>3. Ms(CLOCK) = Ms(CLOCK - 1) + MsPerTick
        BY <3>1, <3>2
      <3>4. Ms(q) > ms
        <4>1. Ms(q) >= Ms(CLOCK - 1) + MsPerTick
          BY <3>1, <3>3
        <4> HIDE DEF Ms
        <4>2. QED  BY <1>1, <2>4, <3>2, <4>1
      <3>5. QED
        <4> HIDE DEF Ms
        <4>1. QED  BY <2>3, <3>2, <3>4
    <2>5. Ticks(ms) = q
      BY <1>1, <1>3 DEF Ticks, q
    <2>6. QED  BY <1>1, <1>3, <2>2, <2>3, <2>4, <2>5
  <1>4. QED  BY <1>1, <1>2, <1>3

LEMMA ClockTwo == CLOCK >= 2
  <1>1. PICK t : t \in Timer
    BY MboxAssumption
  <1>2. Ms(CLOCK - 1) >= 1 /\ CLOCK \in Nat \ {0}
    <2>1. CLOCK \in Nat \ {0}
      BY MboxAssumption
    <2>2. Period[t] \in Nat \ {0} /\ Ms(CLOCK - 1) >= Period[t]
      BY <1>1, TimesAre
    <2>3. Ms(CLOCK - 1) \in Nat
      BY <2>1, MsIs
    <2> HIDE DEF Ms
    <2>4. QED  BY <2>1, <2>2, <2>3
  <1>3. CLOCK = 1 => Ms(CLOCK - 1) = 0
    BY MsIs
  <1>4. QED  BY <1>2, <1>3

-----------------------------------------------------------------------------
(* When the timers of a list are due.                                      *)

DueOf(list) ==
    CHOOSE g : g = [x \in 0 .. Len(list) |-> IF x = 0 THEN 0 ELSE g[x - 1] + list[x].time]

LEMMA DueIs ==
  ASSUME NEW list, Len(list) \in Nat
  PROVE  /\ Due(list, 0) = 0
         /\ \A x \in 1 .. Len(list) : Due(list, x) = Due(list, x - 1) + list[x].time
  <1> DEFINE n == Len(list)
             g == DueOf(list)
             F(f, k) == [x \in 0 .. k |-> IF x = 0 THEN 0 ELSE f[x - 1] + list[x].time]
             E == {k \in 0 .. n : \E f : f = F(f, k)}
  <1>1. 0 \in E
    <2> DEFINE h == [x \in 0 .. 0 |-> 0]
    <2>1. h = F(h, 0)
      OBVIOUS
    <2>2. 0 \in 0 .. n
      OBVIOUS
    <2> HIDE DEF h, F
    <2>3. QED  BY <2>1, <2>2
  <1>2. ASSUME NEW k \in 0 .. n - 1, k \in E
        PROVE  k + 1 \in E
    <2>1. PICK f : f = F(f, k)
      BY <1>2
    <2> DEFINE h == [x \in 0 .. k + 1 |-> IF x <= k THEN f[x] ELSE f[k] + list[x].time]
    <2>2. k \in Nat /\ k + 1 \in 0 .. n
      OBVIOUS
    <2>3. ASSUME NEW x \in 0 .. k + 1
          PROVE  h[x] = F(h, k + 1)[x]
      <3> USE <2>2
      <3>1. CASE x <= k
        <4>1. x \in 0 .. k
          BY <3>1
        <4>2. h[x] = f[x]
          BY <3>1
        <4>3. f[x] = IF x = 0 THEN 0 ELSE f[x - 1] + list[x].time
          BY <2>1, <4>1
        <4>4. x # 0 => h[x - 1] = f[x - 1]
          BY <3>1
        <4>5. F(h, k + 1)[x] = IF x = 0 THEN 0 ELSE h[x - 1] + list[x].time
          OBVIOUS
        <4> HIDE DEF h, F
        <4>6. QED  BY <4>2, <4>3, <4>4, <4>5
      <3>2. CASE x = k + 1
        <4>1. x # 0 /\ x - 1 \in 0 .. k + 1 /\ x - 1 <= k /\ x - 1 = k
          BY <3>2
        <4>2. h[x - 1] = f[k]
          BY <4>1
        <4>3. h[x] = f[k] + list[x].time
          BY <3>2
        <4>4. F(h, k + 1)[x] = h[x - 1] + list[x].time
          BY <4>1
        <4> HIDE DEF h, F
        <4>5. QED  BY <4>2, <4>3, <4>4
      <3>3. QED  BY <3>1, <3>2
    <2>4. h = F(h, k + 1)
      <3> DEFINE f1 == F(h, k + 1)
      <3>1. h = [x \in 0 .. k + 1 |-> h[x]]
        OBVIOUS
      <3>2. f1 = [x \in 0 .. k + 1 |-> f1[x]]
        OBVIOUS
      <3>3. \A x \in 0 .. k + 1 : h[x] = f1[x]
        <4> HIDE DEF h
        <4>1. QED  BY <2>3 DEF f1
      <3> HIDE DEF h, f1
      <3>4. h = f1
        BY <3>1, <3>2, <3>3
      <3>5. QED  BY <3>4 DEF f1
    <2> HIDE DEF h, F
    <2>5. QED  BY <2>2, <2>4
  <1>3. \A k \in 0 .. n - 1 : k \in E => k + 1 \in E
    BY <1>2
  <1> HIDE DEF E
  <1>4. n \in E
    <2>1. 0 .. n \subseteq E
      BY <1>1, <1>3, UptoInduction
    <2>2. QED  BY <2>1
  <1>5. g = F(g, n)
    <2>1. PICK f : f = F(f, n)
      BY <1>4 DEF E
    <2>2. g = CHOOSE z : z = F(z, n)
      BY DEF DueOf
    <2> HIDE DEF F
    <2>3. QED  BY <2>1, <2>2
  <1>6. \A x \in 0 .. n : Due(list, x) = g[x]
    BY DEF Due, DueOf
  <1> HIDE DEF g
  <1>7. QED
    <2>1. g[0] = 0
      BY <1>5
    <2>2. \A x \in 1 .. n : g[x] = g[x - 1] + list[x].time
      BY <1>5
    <2>3. 0 \in 0 .. n /\ \A x \in 1 .. n : x \in 0 .. n /\ x - 1 \in 0 .. n
      OBVIOUS
    <2>4. QED  BY <1>6, <2>1, <2>2, <2>3

LEMMA EntriesAre ==
  ASSUME NEW list \in Seq(Entry)
  PROVE  /\ Len(list) \in Nat
         /\ \A k \in 1 .. Len(list) :
               list[k] \in Entry /\ list[k].timer \in Timer /\ list[k].time \in Nat
  <1>1. Len(list) \in Nat /\ \A k \in 1 .. Len(list) : list[k] \in Entry
    OBVIOUS
  <1>2. \A e \in Entry : e.timer \in Timer /\ e.time \in Nat
    BY DEF Entry
  <1>3. QED  BY <1>1, <1>2

LEMMA DueNat ==
  ASSUME NEW list \in Seq(Entry)
  PROVE  \A k \in 0 .. Len(list) : Due(list, k) \in Nat
  <1> DEFINE E == {k \in 0 .. Len(list) : Due(list, k) \in Nat}
  <1>1. Len(list) \in Nat /\ \A k \in 1 .. Len(list) : list[k].time \in Nat
    BY EntriesAre
  <1>2. /\ Due(list, 0) = 0
        /\ \A x \in 1 .. Len(list) : Due(list, x) = Due(list, x - 1) + list[x].time
    BY <1>1, DueIs
  <1>3. 0 \in E
    BY <1>1, <1>2
  <1>4. \A k \in 0 .. Len(list) - 1 : k \in E => k + 1 \in E
    <2> SUFFICES ASSUME NEW k \in 0 .. Len(list) - 1, k \in E PROVE k + 1 \in E
      OBVIOUS
    <2>1. k + 1 \in 1 .. Len(list) /\ (k + 1) - 1 = k /\ k + 1 \in 0 .. Len(list)
      BY <1>1
    <2>2. Due(list, k + 1) = Due(list, k) + list[k + 1].time
      BY <1>2, <2>1
    <2>3. Due(list, k) \in Nat /\ list[k + 1].time \in Nat
      BY <1>1, <2>1
    <2>4. QED  BY <2>1, <2>2, <2>3
  <1> HIDE DEF E
  <1>5. 0 .. Len(list) \subseteq E
    BY <1>1, <1>3, <1>4, UptoInduction
  <1>6. QED  BY <1>5 DEF E

(* Where two lists have the same times, what is due stays as far apart.    *)
SameTimes(a, b, p, q, m) == \A x \in 1 .. m : b[q + x].time = a[p + x].time
SameSpaces(a, b, p, q, m) ==
    \A x \in 0 .. m : Due(b, q + x) - Due(b, q) = Due(a, p + x) - Due(a, p)

LEMMA DueShifts ==
  ASSUME NEW a \in Seq(Entry), NEW b \in Seq(Entry), NEW p \in Nat, NEW q \in Nat,
         NEW m \in Nat, p + m <= Len(a), q + m <= Len(b),
         SameTimes(a, b, p, q, m)
  PROVE  SameSpaces(a, b, p, q, m)
  <1> DEFINE E == {x \in 0 .. m : Due(b, q + x) - Due(b, q) = Due(a, p + x) - Due(a, p)}
  <1>1. /\ Len(a) \in Nat /\ Len(b) \in Nat
        /\ \A x \in 1 .. Len(a) : a[x].time \in Nat
        /\ \A x \in 1 .. Len(b) : b[x].time \in Nat
    BY EntriesAre
  <1>2. /\ \A x \in 1 .. Len(a) : Due(a, x) = Due(a, x - 1) + a[x].time
        /\ \A x \in 1 .. Len(b) : Due(b, x) = Due(b, x - 1) + b[x].time
    BY <1>1, DueIs
  <1>3. /\ \A x \in 0 .. Len(a) : Due(a, x) \in Nat
        /\ \A x \in 0 .. Len(b) : Due(b, x) \in Nat
    BY DueNat
  <1>4. 0 \in E
    <2>1. p + 0 = p /\ q + 0 = q /\ p \in 0 .. Len(a) /\ q \in 0 .. Len(b)
      BY <1>1
    <2>2. Due(b, q) - Due(b, q) = 0 /\ Due(a, p) - Due(a, p) = 0
      BY <1>3, <2>1
    <2>3. QED  BY <2>1, <2>2
  <1>5. \A x \in 0 .. m - 1 : x \in E => x + 1 \in E
    <2> SUFFICES ASSUME NEW x \in 0 .. m - 1, x \in E PROVE x + 1 \in E
      OBVIOUS
    <2>1. /\ x + 1 \in 1 .. m /\ x + 1 \in 0 .. m
          /\ p + (x + 1) \in 1 .. Len(a) /\ (p + (x + 1)) - 1 = p + x
          /\ q + (x + 1) \in 1 .. Len(b) /\ (q + (x + 1)) - 1 = q + x
          /\ p \in 0 .. Len(a) /\ q \in 0 .. Len(b)
          /\ p + x \in 0 .. Len(a) /\ q + x \in 0 .. Len(b)
      BY <1>1
    <2>2. /\ Due(a, p + (x + 1)) = Due(a, p + x) + a[p + (x + 1)].time
          /\ Due(b, q + (x + 1)) = Due(b, q + x) + b[q + (x + 1)].time
      BY <1>2, <2>1
    <2>3. b[q + (x + 1)].time = a[p + (x + 1)].time /\ a[p + (x + 1)].time \in Nat
      BY <1>1, <2>1 DEF SameTimes
    <2>4. /\ Due(a, p + x) \in Nat /\ Due(b, q + x) \in Nat
          /\ Due(a, p) \in Nat /\ Due(b, q) \in Nat
      BY <1>3, <2>1
    <2>5. Due(b, q + x) - Due(b, q) = Due(a, p + x) - Due(a, p)
      OBVIOUS
    <2>6. Due(b, q + (x + 1)) - Due(b, q) = Due(a, p + (x + 1)) - Due(a, p)
      <3> DEFINE a0 == Due(a, p)
                 ax == Due(a, p + x)
                 b0 == Due(b, q)
                 bx == Due(b, q + x)
                 time == a[p + (x + 1)].time
      <3>1. /\ Due(a, p + (x + 1)) = ax + time /\ Due(b, q + (x + 1)) = bx + time
            /\ ax \in Nat /\ bx \in Nat /\ a0 \in Nat /\ b0 \in Nat /\ time \in Nat
            /\ bx - b0 = ax - a0
        BY <2>2, <2>3, <2>4, <2>5
      <3> HIDE DEF a0, ax, b0, bx, time
      <3>2. (bx + time) - b0 = (ax + time) - a0
        BY <3>1
      <3>3. QED  BY <3>1, <3>2 DEF a0, b0
    <2>7. QED  BY <2>1, <2>6
  <1> HIDE DEF E
  <1>6. 0 .. m \subseteq E
    BY <1>4, <1>5, UptoInduction
  <1>7. QED  BY <1>6 DEF E, SameSpaces

-----------------------------------------------------------------------------
(* sys_timeout.                                                            *)

LEMMA Inserted ==
  ASSUME NEW list \in Seq(Entry), NEW t \in Timer, NEW ms \in Nat
  PROVE  /\ Insert(list, t, ms) \in Seq(Entry)
         /\ Len(Insert(list, t, ms)) = Len(list) + 1
         /\ \E n \in 0 .. Len(list) :
              /\ Insert(list, t, ms)[n + 1].timer = t
              /\ Due(Insert(list, t, ms), n + 1) = ms
              /\ \A k \in 1 .. n : /\ Insert(list, t, ms)[k].timer = list[k].timer
                                   /\ Due(Insert(list, t, ms), k) = Due(list, k)
              /\ \A k \in n + 1 .. Len(list) :
                    /\ Insert(list, t, ms)[k + 1].timer = list[k].timer
                    /\ Due(Insert(list, t, ms), k + 1) = Due(list, k)
  <1> DEFINE T == {k \in 0 .. Len(list) : Due(list, k) <= ms}
             n == Max(T)
             time == ms - Due(list, n)
             new == Insert(list, t, ms)
             N == Len(list)
  <1>1. /\ N \in Nat
        /\ \A k \in 1 .. N : list[k] \in Entry /\ list[k].timer \in Timer /\ list[k].time \in Nat
    BY EntriesAre
  <1>2. /\ Due(list, 0) = 0
        /\ \A x \in 1 .. N : Due(list, x) = Due(list, x - 1) + list[x].time
    BY <1>1, DueIs
  <1>3. \A k \in 0 .. N : Due(list, k) \in Nat
    BY DueNat
  <1>4. n \in 0 .. N /\ Due(list, n) <= ms /\ \A k \in 0 .. N : Due(list, k) <= ms => k <= n
    <2>1. 0 \in T /\ T \in SUBSET (0 .. N)
      BY <1>1, <1>2
    <2> HIDE DEF T
    <2>2. n \in T /\ \A k \in T : k <= n
      BY <1>1, <2>1, GreatestIs
    <2> HIDE DEF n
    <2>3. QED  BY <2>2 DEF T
  <1>5. new = [k \in 1 .. N + 1 |->
                 IF k <= n THEN list[k]
                 ELSE IF k = n + 1 THEN [timer |-> t, time |-> time]
                 ELSE [list[k - 1] EXCEPT !.time = IF k = n + 2 THEN @ - time ELSE @]]
    BY DEF Insert
  <1> HIDE DEF new, n
  <1>6. time \in Nat
    BY <1>3, <1>4
  <1>7. n + 1 <= N => list[n + 1].time - time \in Nat /\ list[n + 1].time \in Nat
    <2> SUFFICES ASSUME n + 1 <= N
                 PROVE  list[n + 1].time - time \in Nat /\ list[n + 1].time \in Nat
      OBVIOUS
    <2>1. n + 1 \in 1 .. N /\ n + 1 \in 0 .. N /\ (n + 1) - 1 = n /\ ~(n + 1 <= n)
      BY <1>1, <1>4
    <2>2. ~(Due(list, n + 1) <= ms)
      BY <1>4, <2>1
    <2>3. Due(list, n + 1) = Due(list, n) + list[n + 1].time
      BY <1>2, <2>1
    <2>4. Due(list, n) \in Nat /\ Due(list, n + 1) \in Nat /\ list[n + 1].time \in Nat
      BY <1>1, <1>3, <1>4, <2>1
    <2>5. QED  BY <2>2, <2>3, <2>4
  <1> HIDE DEF time
  <1>8. \A k \in 1 .. n : k \in 1 .. N /\ k \in 1 .. N + 1 /\ new[k] = list[k]
    BY <1>1, <1>4, <1>5
  <1>9. n + 1 \in 1 .. N + 1 /\ new[n + 1] = [timer |-> t, time |-> time]
    BY <1>1, <1>4, <1>5
  <1>10. ASSUME NEW k \in n + 1 .. N
         PROVE  /\ k \in 1 .. N /\ k + 1 \in 1 .. N + 1
                /\ new[k + 1].timer = list[k].timer
                /\ new[k + 1].time = IF k = n + 1 THEN list[k].time - time ELSE list[k].time
                /\ new[k + 1] \in Entry
    <2>1. k \in 1 .. N /\ k + 1 \in 1 .. N + 1 /\ ~(k + 1 <= n) /\ k + 1 # n + 1
          /\ (k + 1) - 1 = k /\ (k + 1 = n + 2 <=> k = n + 1)
      BY <1>1, <1>4
    <2>2. new[k + 1] = [list[k] EXCEPT !.time = IF k = n + 1 THEN @ - time ELSE @]
      BY <1>5, <2>1
    <2>3. list[k] \in Entry
      BY <1>1, <2>1
    <2>4. /\ new[k + 1].timer = list[k].timer
          /\ new[k + 1].time = IF k = n + 1 THEN list[k].time - time ELSE list[k].time
      BY <2>2, <2>3 DEF Entry
    <2>5. new[k + 1].time \in Nat
      <3>1. list[k].time \in Nat
        BY <1>1, <2>1
      <3>2. k = n + 1 => list[k].time - time \in Nat
        BY <1>7, <2>1
      <3>3. QED  BY <2>4, <3>1, <3>2
    <2>6. \A c \in Nat : [list[k] EXCEPT !.time = c] \in Entry
      BY <2>3 DEF Entry
    <2>7. new[k + 1] = [list[k] EXCEPT !.time = new[k + 1].time]
      BY <2>2, <2>3, <2>4 DEF Entry
    <2>8. QED  BY <2>1, <2>4, <2>5, <2>6, <2>7
  <1>11. new \in Seq(Entry) /\ Len(new) = N + 1
    <2>1. ASSUME NEW k \in 1 .. N + 1
          PROVE  new[k] \in Entry
      <3>1. CASE k <= n
        BY <1>1, <1>8, <3>1
      <3>2. CASE k = n + 1
        BY <1>6, <1>9, <3>2 DEF Entry
      <3>3. CASE k > n + 1
        <4>1. k - 1 \in n + 1 .. N /\ (k - 1) + 1 = k
          BY <1>1, <1>4, <3>3
        <4>2. QED  BY <1>10, <4>1
      <3>4. QED  BY <1>4, <3>1, <3>2, <3>3
    <2>2. N + 1 \in Nat /\ new = [k \in 1 .. N + 1 |-> new[k]]
      BY <1>1, <1>5
    <2>3. new \in [1 .. N + 1 -> Entry]
      BY <2>1, <2>2
    <2>4. QED  BY <2>2, <2>3
  <1>12. \A k \in 1 .. n : new[k].timer = list[k].timer /\ Due(new, k) = Due(list, k)
    <2>1. n \in Nat /\ 0 + n <= Len(list) /\ 0 + n <= Len(new) /\ Len(new) \in Nat
      BY <1>1, <1>4, <1>11
    <2>2. \A x \in 1 .. n : new[0 + x].time = list[0 + x].time
      BY <1>8
    <2>3. \A x \in 0 .. n : Due(new, 0 + x) - Due(new, 0) = Due(list, 0 + x) - Due(list, 0)
      <3>1. SameTimes(list, new, 0, 0, n)
        BY <2>2 DEF SameTimes
      <3>2. SameSpaces(list, new, 0, 0, n)
        BY <1>11, <2>1, <3>1, DueShifts
      <3>3. QED  BY <3>2 DEF SameSpaces
    <2>4. Due(new, 0) = 0
      BY <2>1, DueIs
    <2>5. \A x \in 0 .. n : Due(new, x) \in Nat /\ Due(list, x) \in Nat /\ 0 + x = x
      BY <1>1, <1>3, <1>4, <1>11, DueNat
    <2>6. \A x \in 0 .. n : Due(new, x) = Due(list, x)
      BY <1>2, <2>3, <2>4, <2>5
    <2>7. QED  BY <1>8, <2>6
  <1>13. new[n + 1].timer = t /\ Due(new, n + 1) = ms
    <2>1. n \in 0 .. Len(new) /\ n + 1 \in 1 .. Len(new) /\ (n + 1) - 1 = n /\ Len(new) \in Nat
      BY <1>1, <1>4, <1>11
    <2>2. Due(new, n + 1) = Due(new, n) + time
      BY <1>9, <2>1, DueIs
    <2>3. Due(new, n) = Due(list, n)
      <3>1. CASE n = 0
        BY <1>2, <2>1, <3>1, DueIs
      <3>2. CASE n # 0
        BY <1>4, <1>12, <3>2
      <3>3. QED  BY <3>1, <3>2
    <2>4. Due(list, n) \in Nat
      BY <1>3, <1>4
    <2>5. Due(list, n) + (ms - Due(list, n)) = ms
      BY <2>4
    <2>6. QED  BY <1>9, <2>2, <2>3, <2>5 DEF time
  <1>14. ASSUME NEW k \in n + 1 .. N
         PROVE  Due(new, k + 1) = Due(list, k)
    <2>1. /\ n + 1 \in 1 .. N /\ n + 1 \in n + 1 .. N /\ (n + 1) - 1 = n
          /\ n + 2 \in 1 .. Len(new) /\ (n + 2) - 1 = n + 1 /\ (n + 1) + 1 = n + 2
          /\ Len(new) \in Nat /\ n + 1 \in 0 .. Len(new) /\ n \in 0 .. N /\ n + 1 \in 0 .. N
      BY <1>1, <1>4, <1>11
    <2>2. Due(new, n + 2) = Due(new, n + 1) + (list[n + 1].time - time)
      <3>1. new[n + 2].time = list[n + 1].time - time
        BY <1>10, <2>1
      <3>2. Due(new, n + 2) = Due(new, n + 1) + new[n + 2].time
        BY <2>1, DueIs
      <3>3. QED  BY <3>1, <3>2
    <2>3. Due(list, n + 1) = Due(list, n) + list[n + 1].time
      BY <1>2, <2>1
    <2>4. Due(list, n) \in Nat /\ list[n + 1].time \in Nat /\ Due(list, n + 1) \in Nat
      BY <1>1, <1>3, <2>1
    <2>5. Due(new, n + 2) = Due(list, n + 1)
      BY <1>13, <2>2, <2>3, <2>4 DEF time
    <2> DEFINE m == N - (n + 1)
    <2>6. m \in Nat /\ (n + 1) + m <= Len(list) /\ (n + 2) + m <= Len(new)
          /\ n + 1 \in Nat /\ n + 2 \in Nat
      BY <1>1, <1>4, <1>11, <2>1
    <2>7. ASSUME NEW x \in 1 .. m
          PROVE  new[(n + 2) + x].time = list[(n + 1) + x].time
      <3>1. n \in Nat /\ x \in Nat /\ x >= 1 /\ (n + 1) + x <= N
        BY <1>1, <1>4
      <3> DEFINE y == (n + 1) + x
      <3>2. y \in n + 1 .. N /\ y # n + 1
        BY <1>1, <3>1
      <3>3. y + 1 = (n + 2) + x
        BY <3>1
      <3> HIDE DEF y
      <3>4. new[y + 1].time = list[y].time
        BY <1>10, <3>2
      <3>5. QED  BY <3>3, <3>4 DEF y
    <2> HIDE DEF m
    <2>8. \A x \in 0 .. m :
             Due(new, (n + 2) + x) - Due(new, n + 2) = Due(list, (n + 1) + x) - Due(list, n + 1)
      <3>1. SameTimes(list, new, n + 1, n + 2, m)
        BY <2>7 DEF SameTimes
      <3>2. SameSpaces(list, new, n + 1, n + 2, m)
        BY <1>11, <2>6, <3>1, DueShifts
      <3>3. QED  BY <3>2 DEF SameSpaces
    <2>9. PICK x \in 0 .. m : k = (n + 1) + x
      <3>1. k - (n + 1) \in 0 .. m /\ k = (n + 1) + (k - (n + 1))
        BY <1>1, <1>4 DEF m
      <3>2. QED  BY <3>1
    <2>10. (n + 2) + x = k + 1 /\ k + 1 \in 0 .. Len(new) /\ k \in 0 .. N /\ n + 2 \in 0 .. Len(new)
      BY <1>1, <1>4, <1>11, <2>1, <2>9
    <2>11. Due(new, k + 1) - Due(new, n + 2) = Due(list, k) - Due(list, n + 1)
      BY <2>8, <2>9, <2>10
    <2>12. /\ Due(new, k + 1) \in Nat /\ Due(new, n + 2) \in Nat
           /\ Due(list, k) \in Nat /\ Due(list, n + 1) \in Nat
      BY <1>3, <1>11, <2>1, <2>10, DueNat
    <2>13. QED  BY <2>5, <2>11, <2>12
  <1>15. QED
    <2>1. \A k \in n + 1 .. N :
             new[k + 1].timer = list[k].timer /\ Due(new, k + 1) = Due(list, k)
      BY <1>10, <1>14
    <2>2. QED  BY <1>4, <1>11, <1>12, <1>13, <2>1 DEF new

-----------------------------------------------------------------------------
(* What the steps do to the list.                                          *)

LEMMA PairIs ==
  ASSUME NEW list \in Seq(Entry), NEW r \in Pairs(list)
  PROVE  \E k \in 1 .. Len(list) :
            r[1] = list[k].timer /\ r[2] = Due(list, k) /\ r[1] \in Timer /\ r[2] \in Nat
  <1>1. PICK k \in 1 .. Len(list) : r = <<list[k].timer, Due(list, k)>>
    BY DEF Pairs
  <1>2. r[1] = list[k].timer /\ r[2] = Due(list, k)
    BY <1>1
  <1>3. list[k].timer \in Timer /\ Len(list) \in Nat
    BY EntriesAre
  <1>4. Due(list, k) \in Nat
    BY <1>3, DueNat
  <1>5. QED  BY <1>2, <1>3, <1>4

\* A timer that is not in the list is set.
LEMMA TimerSet ==
  ASSUME NEW list \in Seq(Entry), NEW t \in Timer, NEW ms \in Nat, OneEach(list),
         \A k \in 1 .. Len(list) : list[k].timer # t
  PROVE  /\ Insert(list, t, ms) \in Seq(Entry) /\ Insert(list, t, ms) # <<>>
         /\ OneEach(Insert(list, t, ms))
         /\ \A r \in Pairs(Insert(list, t, ms)) : r \in Pairs(list) \/ r = <<t, ms>>
  <1> DEFINE new == Insert(list, t, ms)
             N == Len(list)
  <1>1. N \in Nat
    BY EntriesAre
  <1>2. new \in Seq(Entry) /\ Len(new) = N + 1
    BY Inserted, ZenonT(60)
  <1>3. PICK n \in 0 .. N :
           /\ new[n + 1].timer = t
           /\ Due(new, n + 1) = ms
           /\ \A k \in 1 .. n : new[k].timer = list[k].timer /\ Due(new, k) = Due(list, k)
           /\ \A k \in n + 1 .. N :
                 new[k + 1].timer = list[k].timer /\ Due(new, k + 1) = Due(list, k)
    BY Inserted, ZenonT(60)
  <1> HIDE DEF new
  \* Where an entry was before, if it was.
  <1> DEFINE Was(k) == IF k <= n THEN k ELSE k - 1
  <1>4. ASSUME NEW k \in 1 .. N + 1, k # n + 1
        PROVE  /\ Was(k) \in 1 .. N
               /\ new[k].timer = list[Was(k)].timer /\ Due(new, k) = Due(list, Was(k))
    <2>1. CASE k <= n
      BY <1>1, <1>3, <2>1
    <2>2. CASE k > n
      <3>1. k - 1 \in n + 1 .. N /\ (k - 1) + 1 = k /\ k - 1 \in 1 .. N /\ ~(k <= n)
        BY <1>1, <1>4, <2>2
      <3>2. new[(k - 1) + 1].timer = list[k - 1].timer /\ Due(new, (k - 1) + 1) = Due(list, k - 1)
        BY <1>3, <3>1
      <3>3. QED  BY <3>1, <3>2
    <2>3. QED  BY <2>1, <2>2
  <1>5. \A j, k \in 1 .. N + 1 : j # k /\ j # n + 1 /\ k # n + 1 => Was(j) # Was(k)
    BY <1>1
  <1> HIDE DEF Was
  <1>6. OneEach(new)
    <2> SUFFICES ASSUME NEW j \in 1 .. Len(new), NEW k \in 1 .. Len(new), j # k
                 PROVE  new[j].timer # new[k].timer
      BY DEF OneEach
    <2>1. j \in 1 .. N + 1 /\ k \in 1 .. N + 1
      BY <1>2
    <2>2. CASE j = n + 1
      <3>1. new[k].timer = list[Was(k)].timer /\ Was(k) \in 1 .. N
        BY <1>4, <2>1, <2>2
      <3>2. QED  BY <1>3, <2>2, <3>1
    <2>3. CASE k = n + 1
      <3>1. new[j].timer = list[Was(j)].timer /\ Was(j) \in 1 .. N
        BY <1>4, <2>1, <2>3
      <3>2. QED  BY <1>3, <2>3, <3>1
    <2>4. CASE j # n + 1 /\ k # n + 1
      <3>1. /\ new[j].timer = list[Was(j)].timer /\ Was(j) \in 1 .. N
            /\ new[k].timer = list[Was(k)].timer /\ Was(k) \in 1 .. N
        BY <1>4, <2>1, <2>4
      <3>2. Was(j) # Was(k)
        BY <1>5, <2>1, <2>4
      <3>3. QED  BY <3>1, <3>2 DEF OneEach
    <2>5. QED  BY <2>2, <2>3, <2>4
  <1>7. ASSUME NEW r \in Pairs(new)
        PROVE  r \in Pairs(list) \/ r = <<t, ms>>
    <2>1. PICK k \in 1 .. Len(new) : r = <<new[k].timer, Due(new, k)>>
      BY DEF Pairs
    <2>2. CASE k = n + 1
      BY <1>3, <2>1, <2>2
    <2>3. CASE k # n + 1
      <3>1. /\ Was(k) \in 1 .. N
            /\ new[k].timer = list[Was(k)].timer /\ Due(new, k) = Due(list, Was(k))
        BY <1>2, <1>4, <2>3
      <3>2. QED  BY <2>1, <3>1 DEF Pairs
    <2>4. QED  BY <2>2, <2>3
  <1>8. new # <<>>
    BY <1>1, <1>2
  <1>9. QED  BY <1>2, <1>6, <1>7, <1>8 DEF new

\* The first timer is taken off the list.
LEMMA FirstTaken ==
  ASSUME NEW list \in Seq(Entry), list # <<>>, OneEach(list)
  PROVE  /\ Tail(list) \in Seq(Entry) /\ OneEach(Tail(list))
         /\ \A k \in 1 .. Len(Tail(list)) : Tail(list)[k].timer # list[1].timer
         /\ \A r \in Pairs(Tail(list)) : /\ <<r[1], r[2] + list[1].time>> \in Pairs(list)
                                         /\ r[1] # list[1].timer
         /\ list[1].timer \in Timer /\ list[1].time \in Nat
         /\ <<list[1].timer, list[1].time>> \in Pairs(list)
  <1> DEFINE new == Tail(list)
             N == Len(list)
  <1>1. /\ N \in Nat /\ N > 0 /\ new \in Seq(Entry) /\ Len(new) = N - 1
        /\ \A k \in 1 .. N - 1 : new[k] = list[k + 1]
    BY EntriesAre
  <1> HIDE DEF new
  <1>2. 1 \in 1 .. N /\ \A k \in 1 .. N - 1 : k + 1 \in 1 .. N /\ k + 1 # 1
    BY <1>1
  <1>3. list[1].timer \in Timer /\ list[1].time \in Nat
    BY <1>2, EntriesAre
  <1>4. \A k \in 1 .. Len(new) : new[k].timer # list[1].timer
    <2> SUFFICES ASSUME NEW k \in 1 .. N - 1 PROVE new[k].timer # list[1].timer
      BY <1>1
    <2>1. list[k + 1].timer # list[1].timer
      BY <1>2 DEF OneEach
    <2>2. QED  BY <1>1, <2>1
  <1>5. OneEach(new)
    <2> SUFFICES ASSUME NEW j \in 1 .. N - 1, NEW k \in 1 .. N - 1, j # k
                 PROVE  new[j].timer # new[k].timer
      BY <1>1 DEF OneEach
    <2>1. j + 1 # k + 1
      BY <1>1
    <2>2. list[j + 1].timer # list[k + 1].timer
      BY <1>2, <2>1 DEF OneEach
    <2>3. QED  BY <1>1, <2>2
  <1>6. Due(list, 0) = 0 /\ Due(list, 1) = list[1].time
    <2>1. Due(list, 0) = 0 /\ Due(list, 1) = Due(list, 1 - 1) + list[1].time
      BY <1>1, <1>2, DueIs
    <2>2. QED  BY <1>3, <2>1
  <1>7. ASSUME NEW r \in Pairs(new)
        PROVE  <<r[1], r[2] + list[1].time>> \in Pairs(list) /\ r[1] # list[1].timer
    <2>1. PICK k \in 1 .. Len(new) : r[1] = new[k].timer /\ r[2] = Due(new, k)
      BY <1>1, PairIs
    <2>2. k \in 1 .. N - 1 /\ k \in 0 .. N - 1 /\ k + 1 \in 1 .. N /\ 1 + k = k + 1
      BY <1>1, <2>1
    <2>3. new[k] = list[k + 1]
      BY <1>1, <2>2
    <2>4. SameSpaces(list, new, 1, 0, N - 1)
      <3>1. \A x \in 1 .. N - 1 : 1 + x = x + 1 /\ 0 + x = x
        BY <1>1
      <3>2. SameTimes(list, new, 1, 0, N - 1)
        BY <1>1, <3>1 DEF SameTimes
      <3>3. N - 1 \in Nat /\ 1 + (N - 1) <= Len(list) /\ 0 + (N - 1) <= Len(new)
        BY <1>1
      <3>4. QED  BY <1>1, <3>2, <3>3, DueShifts
    <2>5. Due(new, 0 + k) - Due(new, 0) = Due(list, 1 + k) - Due(list, 1)
      BY <2>2, <2>4 DEF SameSpaces
    <2>6. Due(new, 0) = 0 /\ 0 + k = k
      BY <1>1, <2>2, DueIs
    <2>7. Due(new, k) \in Nat /\ Due(list, k + 1) \in Nat
      <3>1. k \in 0 .. Len(new) /\ k + 1 \in 0 .. Len(list)
        BY <1>1, <2>2
      <3>2. QED  BY <1>1, <3>1, DueNat
    <2>8. Due(list, k + 1) = Due(new, k) + list[1].time
      <3> DEFINE a == Due(new, k)
                 b == Due(list, k + 1)
                 c == list[1].time
      <3>1. a - 0 = b - c /\ a \in Nat /\ b \in Nat /\ c \in Nat
        BY <1>3, <1>6, <2>2, <2>5, <2>6, <2>7
      <3> HIDE DEF a, b, c
      <3>2. b = a + c
        BY <3>1
      <3>3. QED  BY <3>2 DEF a, b, c
    <2>9. <<list[k + 1].timer, Due(list, k + 1)>> \in Pairs(list)
      BY <2>2 DEF Pairs
    <2>10. QED  BY <1>1, <1>4, <2>1, <2>3, <2>8, <2>9
  <1>8. <<list[1].timer, list[1].time>> \in Pairs(list)
    BY <1>2, <1>6 DEF Pairs
  <1>9. QED  BY <1>1, <1>3, <1>4, <1>5, <1>7, <1>8 DEF new

\* What was waited, or what there is of it, is taken from the first timer.
LEMMA TimeTaken ==
  ASSUME NEW list \in Seq(Entry), list # <<>>, OneEach(list), NEW ms \in Nat,
         NEW new, new = [list EXCEPT ![1].time = Max({0, @ - ms})]
  PROVE  /\ new \in Seq(Entry) /\ new # <<>> /\ OneEach(new)
         /\ \A r \in Pairs(new) : \E d \in 0 .. ms : <<r[1], r[2] + d>> \in Pairs(list)
  <1> DEFINE N == Len(list)
             time == list[1].time
             rest == Max({0, time - ms})
  <1>1. N \in Nat /\ N > 0 /\ 1 \in 1 .. N /\ list[1] \in Entry /\ time \in Nat
    BY EntriesAre
  <1>2. rest \in Nat /\ rest <= time /\ time <= rest + ms
    <2> DEFINE c == time - ms
    <2>1. 0 \in Int /\ c \in Int
      BY <1>1
    <2>2. rest = Max({0, c})
      OBVIOUS
    <2> HIDE DEF c, rest
    <2>3. rest = IF 0 >= c THEN 0 ELSE c
      BY <2>1, <2>2, TwoNumbers
    <2>4. QED  BY <1>1, <2>3 DEF c
  <1> DEFINE e == [list[1] EXCEPT !.time = rest]
  <1>3. new = [list EXCEPT ![1] = e]
    OBVIOUS
  <1> HIDE DEF rest
  <1>4. e \in Entry /\ e.time = rest /\ e.timer = list[1].timer
    BY <1>1, <1>2 DEF Entry
  <1> HIDE DEF e
  <1>5. /\ new \in Seq(Entry) /\ Len(new) = N
        /\ \A k \in 1 .. N : k # 1 => new[k] = list[k]
        /\ new[1] = e
    <2>1. DOMAIN list = 1 .. N /\ \A k \in 1 .. N : list[k] \in Entry
      OBVIOUS
    <2>2. new = [k \in 1 .. N |-> IF k = 1 THEN e ELSE list[k]]
      BY <1>3, <2>1
    <2>3. new[1] = e /\ \A k \in 1 .. N : k # 1 => new[k] = list[k]
      BY <1>1, <2>2
    <2>4. new \in [1 .. N -> Entry]
      BY <1>4, <2>1, <2>2
    <2>5. new \in Seq(Entry) /\ Len(new) = N
      BY <1>1, <2>2, <2>4
    <2>6. QED  BY <2>3, <2>5
  <1>6. new[1].time = rest /\ new[1].timer = list[1].timer
    BY <1>4, <1>5
  <1>7. \A k \in 1 .. N : new[k].timer = list[k].timer
    BY <1>5, <1>6
  <1>8. OneEach(new) /\ new # <<>>
    BY <1>1, <1>5, <1>7 DEF OneEach
  <1>9. Due(list, 1) = time /\ Due(new, 1) = rest
    <2>1. /\ Due(list, 0) = 0 /\ Due(list, 1) = Due(list, 1 - 1) + list[1].time
          /\ Due(new, 0) = 0 /\ Due(new, 1) = Due(new, 1 - 1) + new[1].time
      BY <1>1, <1>5, DueIs
    <2>2. QED  BY <1>1, <1>2, <1>6, <2>1
  <1>10. ASSUME NEW r \in Pairs(new)
         PROVE  \E d \in 0 .. ms : <<r[1], r[2] + d>> \in Pairs(list)
    <2>1. PICK k \in 1 .. Len(new) : r[1] = new[k].timer /\ r[2] = Due(new, k)
      BY <1>5, PairIs
    <2>2. k \in 1 .. N /\ k - 1 \in 0 .. N - 1 /\ 1 + (k - 1) = k
      BY <1>1, <1>5, <2>1
    <2>3. SameSpaces(list, new, 1, 1, N - 1)
      <3>1. \A x \in 1 .. N - 1 : 1 + x \in 1 .. N /\ 1 + x # 1
        BY <1>1
      <3>2. SameTimes(list, new, 1, 1, N - 1)
        BY <1>5, <3>1 DEF SameTimes
      <3>3. N - 1 \in Nat /\ 1 + (N - 1) <= Len(list) /\ 1 + (N - 1) <= Len(new)
        BY <1>1, <1>5
      <3>4. QED  BY <1>5, <3>2, <3>3, DueShifts
    <2>4. Due(new, k) - Due(new, 1) = Due(list, k) - Due(list, 1)
      <3>1. Due(new, 1 + (k - 1)) - Due(new, 1) = Due(list, 1 + (k - 1)) - Due(list, 1)
        BY <2>2, <2>3 DEF SameSpaces
      <3>2. QED  BY <2>2, <3>1
    <2>5. Due(new, k) \in Nat /\ Due(list, k) \in Nat
      <3>1. k \in 0 .. Len(new) /\ k \in 0 .. Len(list)
        BY <1>1, <1>5, <2>2
      <3>2. QED  BY <1>5, <3>1, DueNat
    <2> DEFINE d == time - rest
               a == Due(new, k)
               b == Due(list, k)
    <2>6. d \in 0 .. ms
      BY <1>1, <1>2
    <2>7. a + d = b
      <3>1. a - rest = b - time /\ a \in Nat /\ b \in Nat /\ rest \in Nat /\ time \in Nat
        BY <1>1, <1>2, <1>9, <2>4, <2>5
      <3> HIDE DEF a, b, time
      <3>2. QED  BY <3>1
    <2>8. <<list[k].timer, Due(list, k)>> \in Pairs(list)
      BY <2>2 DEF Pairs
    <2>9. <<r[1], r[2] + d>> = <<list[k].timer, Due(list, k)>>
      BY <1>7, <2>1, <2>2, <2>7
    <2>10. QED  BY <2>6, <2>8, <2>9
  <1>11. QED  BY <1>5, <1>8, <1>10

-----------------------------------------------------------------------------
(* The beginning: the timers are set one after the other.                  *)

SetTimers(order) ==
    CHOOSE g : g = [x \in 0 .. Len(order) |->
                      IF x = 0 THEN <<>> ELSE Insert(g[x - 1], order[x], Period[order[x]])]

LEMMA TimersAre ==
  ASSUME NEW order, Len(order) \in Nat, NEW g, g = SetTimers(order)
  PROVE  /\ g[0] = <<>>
         /\ \A x \in 1 .. Len(order) : g[x] = Insert(g[x - 1], order[x], Period[order[x]])
  <1> DEFINE n == Len(order)
             F(f, k) == [x \in 0 .. k |->
                           IF x = 0 THEN <<>> ELSE Insert(f[x - 1], order[x], Period[order[x]])]
             E == {k \in 0 .. n : \E f : f = F(f, k)}
  <1>1. 0 \in E
    <2> DEFINE h == [x \in 0 .. 0 |-> <<>>]
    <2>1. h = F(h, 0)
      OBVIOUS
    <2>2. 0 \in 0 .. n
      OBVIOUS
    <2> HIDE DEF h, F
    <2>3. QED  BY <2>1, <2>2
  <1>2. ASSUME NEW k \in 0 .. n - 1, k \in E
        PROVE  k + 1 \in E
    <2>1. PICK f : f = F(f, k)
      BY <1>2
    <2> DEFINE last == Insert(f[k], order[k + 1], Period[order[k + 1]])
               h == [x \in 0 .. k + 1 |-> IF x <= k THEN f[x] ELSE last]
    <2>2. k \in Nat /\ k + 1 \in 0 .. n
      OBVIOUS
    <2>3. ASSUME NEW x \in 0 .. k + 1
          PROVE  h[x] = F(h, k + 1)[x]
      <3> USE <2>2
      <3>1. CASE x <= k
        <4>1. x \in 0 .. k
          BY <3>1
        <4>2. h[x] = f[x]
          BY <3>1
        <4>3. f[x] = IF x = 0 THEN <<>> ELSE Insert(f[x - 1], order[x], Period[order[x]])
          BY <2>1, <4>1
        <4>4. x # 0 => h[x - 1] = f[x - 1]
          BY <3>1
        <4>5. F(h, k + 1)[x] = IF x = 0 THEN <<>>
                               ELSE Insert(h[x - 1], order[x], Period[order[x]])
          OBVIOUS
        <4> HIDE DEF h, F
        <4>6. QED  BY <4>2, <4>3, <4>4, <4>5
      <3>2. CASE x = k + 1
        <4>1. x # 0 /\ x - 1 \in 0 .. k + 1 /\ x - 1 <= k /\ x - 1 = k
          BY <3>2
        <4>2. h[x - 1] = f[k]
          BY <4>1
        <4>3. h[x] = last
          BY <3>2
        <4>4. F(h, k + 1)[x] = Insert(h[x - 1], order[x], Period[order[x]])
          BY <4>1
        <4> HIDE DEF h, F
        <4>5. QED  BY <3>2, <4>2, <4>3, <4>4
      <3>3. QED  BY <3>1, <3>2
    <2> HIDE DEF last
    <2>4. h = F(h, k + 1)
      <3> DEFINE f1 == F(h, k + 1)
      <3>1. h = [x \in 0 .. k + 1 |-> h[x]]
        OBVIOUS
      <3>2. f1 = [x \in 0 .. k + 1 |-> f1[x]]
        OBVIOUS
      <3>3. \A x \in 0 .. k + 1 : h[x] = f1[x]
        <4> HIDE DEF h
        <4>1. QED  BY <2>3 DEF f1
      <3> HIDE DEF h, f1
      <3>4. h = f1
        BY <3>1, <3>2, <3>3
      <3>5. QED  BY <3>4 DEF f1
    <2> HIDE DEF h, F
    <2>5. QED  BY <2>2, <2>4
  <1>3. \A k \in 0 .. n - 1 : k \in E => k + 1 \in E
    BY <1>2
  <1> HIDE DEF E
  <1>4. n \in E
    <2>1. 0 .. n \subseteq E
      BY <1>1, <1>3, UptoInduction
    <2>2. QED  BY <2>1
  <1>5. g = F(g, n)
    <2>1. PICK f : f = F(f, n)
      BY <1>4 DEF E
    <2>2. g = CHOOSE z : z = F(z, n)
      BY DEF SetTimers
    <2> HIDE DEF F
    <2>3. QED  BY <2>1, <2>2
  <1>6. QED
    <2>1. 0 \in 0 .. n /\ \A x \in 1 .. n : x \in 0 .. n /\ x # 0
      OBVIOUS
    <2>2. QED  BY <1>5, <2>1

(* All timers are in the list, each due when its time is over.             *)
AtStart(list, timers) ==
    /\ list \in Seq(Entry) /\ OneEach(list)
    /\ \A k \in 1 .. Len(list) : list[k].timer \in timers
    /\ \A r \in Pairs(list) : r[1] \in Timer /\ r[2] = Period[r[1]]

LEMMA StartList ==
  ASSUME NEW order \in SetToSeqs(Timer)
  PROVE  AtStart(Timers(order), Timer) /\ Timers(order) # <<>>
  <1> DEFINE N == Cardinality(Timer)
             g == SetTimers(order)
             Before(x) == {order[y] : y \in 1 .. x}
             E == {x \in 0 .. N : AtStart(g[x], Before(x)) /\ (x # 0 => g[x] # <<>>)}
  <1>1. N \in Nat /\ N # 0
    BY MboxAssumption, FS_CardinalityType, FS_EmptySet
  <1>2. /\ order \in [1 .. N -> Timer]
        /\ \A y, z \in 1 .. N : y # z => order[y] # order[z]
    BY <1>1 DEF SetToSeqs
  <1>3. Len(order) = N
    BY <1>1, <1>2
  <1>4. Timers(order) = g[N]
    BY <1>3 DEF Timers, SetTimers
  <1>5. /\ g[0] = <<>>
        /\ \A x \in 1 .. N : g[x] = Insert(g[x - 1], order[x], Period[order[x]])
    BY <1>1, <1>3, TimersAre
  <1> HIDE DEF g
  <1>6. 0 \in E
    <2>1. <<>> \in Seq(Entry) /\ Len(<<>>) = 0
      OBVIOUS
    <2>2. AtStart(<<>>, Before(0))
      BY <2>1 DEF AtStart, OneEach, Pairs
    <2> HIDE DEF Before
    <2>3. QED  BY <1>1, <1>5, <2>2
  <1>7. ASSUME NEW x \in 0 .. N - 1, x \in E
        PROVE  x + 1 \in E
    <2> DEFINE t == order[x + 1]
               new == Insert(g[x], t, Period[t])
    <2>1. /\ x + 1 \in 1 .. N /\ (x + 1) - 1 = x /\ x + 1 \in 0 .. N
          /\ \A y \in 1 .. x : y \in 1 .. N /\ y # x + 1 /\ y \in 1 .. x + 1
          /\ x + 1 \in 1 .. x + 1
      BY <1>1
    <2>2. g[x + 1] = new
      BY <1>5, <2>1
    <2>3. t \in Timer /\ Period[t] \in Nat
      BY <1>2, <2>1, TimesAre
    <2>4. /\ g[x] \in Seq(Entry) /\ OneEach(g[x])
          /\ \A k \in 1 .. Len(g[x]) : g[x][k].timer \in Before(x)
          /\ \A r \in Pairs(g[x]) : r[1] \in Timer /\ r[2] = Period[r[1]]
      BY <1>7 DEF AtStart
    <2>5. t \notin Before(x) /\ t \in Before(x + 1) /\ Before(x) \subseteq Before(x + 1)
      BY <1>2, <2>1
    <2> HIDE DEF t, Before
    <2>6. /\ new \in Seq(Entry) /\ new # <<>> /\ OneEach(new)
          /\ \A r \in Pairs(new) : r \in Pairs(g[x]) \/ r = <<t, Period[t]>>
      <3>1. \A k \in 1 .. Len(g[x]) : g[x][k].timer # t
        BY <2>4, <2>5
      <3> DEFINE ms == Period[t]
                 list == g[x]
      <3>2. /\ list \in Seq(Entry) /\ OneEach(list) /\ t \in Timer /\ ms \in Nat
            /\ \A k \in 1 .. Len(list) : list[k].timer # t
        BY <2>3, <2>4, <3>1
      <3> HIDE DEF ms, list
      <3>3. /\ Insert(list, t, ms) \in Seq(Entry) /\ Insert(list, t, ms) # <<>>
            /\ OneEach(Insert(list, t, ms))
            /\ \A r \in Pairs(Insert(list, t, ms)) : r \in Pairs(list) \/ r = <<t, ms>>
        BY <3>2, TimerSet
      <3>4. QED  BY <3>3 DEF ms, list
    <2>7. \A k \in 1 .. Len(new) : new[k].timer \in Before(x + 1)
      <3> SUFFICES ASSUME NEW k \in 1 .. Len(new) PROVE new[k].timer \in Before(x + 1)
        OBVIOUS
      <3>1. <<new[k].timer, Due(new, k)>> \in Pairs(new)
        BY DEF Pairs
      <3>2. CASE <<new[k].timer, Due(new, k)>> \in Pairs(g[x])
        <4>1. PICK j \in 1 .. Len(g[x]) : new[k].timer = g[x][j].timer
          BY <2>4, <3>2, PairIs
        <4>2. QED  BY <2>4, <2>5, <4>1
      <3>3. CASE <<new[k].timer, Due(new, k)>> = <<t, Period[t]>>
        BY <2>5, <3>3
      <3>4. QED  BY <2>6, <3>1, <3>2, <3>3
    <2>8. \A r \in Pairs(new) : r[1] \in Timer /\ r[2] = Period[r[1]]
      BY <2>3, <2>4, <2>6
    <2>9. AtStart(new, Before(x + 1))
      BY <2>6, <2>7, <2>8 DEF AtStart
    <2> HIDE DEF new
    <2>10. QED  BY <2>1, <2>2, <2>6, <2>9
  <1>8. N \in E
    <2>1. \A x \in 0 .. N - 1 : x \in E => x + 1 \in E
      BY <1>7
    <2> HIDE DEF E
    <2>2. 0 .. N \subseteq E
      BY <1>1, <1>6, <2>1, UptoInduction
    <2>3. QED  BY <1>1, <2>2
  <1>9. Before(N) \subseteq Timer
    BY <1>2
  <1> HIDE DEF Before
  <1>10. QED  BY <1>1, <1>4, <1>8, <1>9 DEF AtStart

-----------------------------------------------------------------------------
(* The steps.                                                              *)

LEMMA InitTimers == Init => TimerInv
  <1> SUFFICES ASSUME Init PROVE TimerInv
    OBVIOUS
  <1>1. PICK order \in SetToSeqs(Timer) : next_timeout = Timers(order)
    BY DEF Init
  <1>2. AtStart(next_timeout, Timer) /\ next_timeout # <<>>
    BY <1>1, StartList
  <1>3. /\ clock = 0 /\ tpc = "fetch" /\ t0 = 0 /\ left = 0
        /\ age = [t \in Timer |-> 0] /\ slack = [t \in Timer |-> 0]
        /\ rushed = [t \in Timer |-> FALSE]
    BY DEF Init
  <1>4. TimerType
    BY <1>2, <1>3, TimesAre, ClockTwo DEF TimerType, AtStart
  <1>5. WaitInv
    BY <1>3 DEF WaitInv
  <1>6. DueInv
    <2> SUFFICES ASSUME NEW r \in Pairs(next_timeout) PROVE Timely(r[1], r[2])
      BY DEF DueInv
    <2>1. r[1] \in Timer /\ r[2] = Period[r[1]]
      BY <1>2 DEF AtStart
    <2>2. Waited = 0 /\ age[r[1]] = 0 /\ slack[r[1]] = 0
      BY <1>3, <2>1 DEF Waited
    <2>3. Period[r[1]] \in Nat /\ Ms(0) = 0
      BY <2>1, TimesAre, MsIs
    <2> HIDE DEF Ms
    <2>4. QED  BY <2>1, <2>2, <2>3 DEF Timely
  <1>7. QED  BY <1>4, <1>5, <1>6 DEF TimerInv

LEMMA UptoIs ==
  ASSUME NEW t \in Timer, NEW n \in Nat
  PROVE  Upto(t, n) = (IF n <= Period[t] THEN n ELSE Period[t]) /\ Upto(t, n) \in Nat
  <1> DEFINE p == Period[t]
  <1>1. p \in Int /\ n \in Int /\ p \in Nat
    BY TimesAre
  <1>2. Upto(t, n) = Min({n, p})
    BY DEF Upto
  <1> HIDE DEF p
  <1>3. Upto(t, n) = IF n <= p THEN n ELSE p
    BY <1>1, <1>2, TwoNumbers
  <1>4. Upto(t, n) \in Nat
    BY <1>1, <1>3
  <1>5. QED  BY <1>3, <1>4 DEF p

(* The first timer, and how long is waited for it.                         *)
LEMMA FirstIs ==
  ASSUME TimerInv
  PROVE  /\ First.timer \in Timer /\ First.time \in Nat
         /\ Timely(First.timer, First.time)
         /\ Ticks(First.time) \in 1 .. CLOCK - 1
         /\ Short \in Nat /\ Ms(Ticks(First.time)) + Short >= First.time
         /\ Ms(Ticks(First.time)) \in Nat
         /\ tpc = "wait" => Waited \in 0 .. CLOCK - 1
         /\ CLOCK \in Nat
  <1>1. next_timeout \in Seq(Entry) /\ next_timeout # <<>> /\ OneEach(next_timeout)
    BY DEF TimerInv, TimerType
  <1>2. /\ First.timer \in Timer /\ First.time \in Nat
        /\ <<First.timer, First.time>> \in Pairs(next_timeout)
    BY <1>1, FirstTaken DEF First
  <1>3. Timely(First.timer, First.time)
    BY <1>2 DEF TimerInv, DueInv
  <1> DEFINE ms == First.time
             n == Ticks(ms)
  <1>4. ms <= Ms(CLOCK - 1) /\ CLOCK >= 2 /\ CLOCK \in Nat /\ MsPerTick \in Nat \ {0}
    <2>1. ms <= Period[First.timer] /\ Period[First.timer] \in Nat
      BY <1>2, <1>3, TimesAre DEF Timely
    <2>2. Period[First.timer] <= Ms(CLOCK - 1)
      BY <1>2, TimesAre
    <2>3. CLOCK >= 2 /\ CLOCK \in Nat /\ MsPerTick \in Nat \ {0}
      BY ClockTwo, TimesAre
    <2>4. CLOCK - 1 \in Nat
      BY <2>3
    <2>5. Ms(CLOCK - 1) \in Nat
      BY <2>4, MsIs
    <2> HIDE DEF ms, Ms
    <2>6. ms <= Ms(CLOCK - 1)
      <3>1. ms \in Nat
        BY <1>2 DEF ms
      <3>2. QED  BY <2>1, <2>2, <2>5, <3>1
    <2>7. QED  BY <2>3, <2>6
  <1>5. /\ n \in Nat \ {0}
        /\ ms >= MsPerTick => Ms(n) <= ms
        /\ ms < MsPerTick => n = 1
        /\ n <= CLOCK - 1
    BY <1>2, <1>4, TicksIs
  <1>6. n \in 1 .. CLOCK - 1 /\ Ms(n) \in Nat
    BY <1>4, <1>5, MsIs
  <1>7. Short = IF 0 >= ms - Ms(n) THEN 0 ELSE ms - Ms(n)
    <2> DEFINE c == ms - Ms(n)
    <2>1. c \in Int /\ 0 \in Int
      BY <1>2, <1>6
    <2>2. Short = Max({0, c})
      BY DEF Short, Ms
    <2> HIDE DEF c
    <2>3. Short = IF 0 >= c THEN 0 ELSE c
      BY <2>1, <2>2, TwoNumbers
    <2>4. QED  BY <2>3 DEF c
  <1>8. Short \in Nat /\ Ms(n) + Short >= ms
    <2> DEFINE c == Ms(n)
    <2>1. c \in Nat /\ ms \in Nat /\ Short = IF 0 >= ms - c THEN 0 ELSE ms - c
      BY <1>2, <1>6, <1>7
    <2> HIDE DEF c, ms
    <2>2. Short \in Nat /\ c + Short >= ms
      BY <2>1
    <2>3. QED  BY <2>2 DEF c
  <1>9. tpc = "wait" => Waited \in 0 .. CLOCK - 1
    <2>1. tpc = "wait" => left <= n /\ left \in Nat /\ Waited = n - left
      BY DEF TimerInv, TimerType, WaitInv, Waited
    <2> HIDE DEF n
    <2>2. QED  BY <1>4, <1>6, <2>1
  <1>10. QED
    <2> HIDE DEF Ms
    <2>1. QED  BY <1>2, <1>3, <1>4, <1>6, <1>8, <1>9

(* A timer fires no sooner than it may.                                    *)
LEMMA FiresInTime ==
  ASSUME TimerInv, NEW t \in Timer, Fires(t), ~rushed[t]
  PROVE  InTime(t)
  <1> DEFINE a == Ms(age[t])
             b == slack[t]
             p == Period[t]
             ms == First.time
             w == Ms(Waited)
             c == IF tpc = "wait" THEN Short ELSE 0
  <1>1. /\ First.timer = t /\ Timely(t, ms) /\ ms \in Nat
        /\ Ms(Ticks(ms)) + Short >= ms /\ Short \in Nat /\ Ms(Ticks(ms)) \in Nat
    BY FirstIs DEF Fires
  <1>2. /\ age[t] \in Nat /\ b \in Nat /\ p \in Nat
    BY TimesAre DEF TimerInv, TimerType
  <1>3. a \in Nat /\ a >= age[t]
    BY <1>2, MsIs
  <1>4. c \in Nat /\ w + c >= ms /\ w \in Nat
    <2>1. CASE FireDue
      <3>1. tpc = "fetch" /\ ms = 0
        BY <2>1 DEF FireDue
      <3>2. c = 0 /\ Waited = 0
        BY <3>1 DEF Waited
      <3>3. QED  BY <3>1, <3>2, MsIs
    <2>2. CASE TimedOut
      <3>1. tpc = "wait" /\ left = 0
        BY <2>2 DEF TimedOut
      <3>2. Waited = Ticks(ms) - 0 /\ Ticks(ms) \in Nat /\ c = Short
        BY <3>1, FirstIs DEF Waited
      <3>3. Waited = Ticks(ms)
        BY <3>2
      <3> HIDE DEF Ms
      <3>4. QED  BY <1>1, <3>2, <3>3
    <2>3. QED  BY <2>1, <2>2 DEF Fires
  <1>5. age[t] >= p \/ b >= p \/ a + b + ms >= p + w
    BY <1>1 DEF Timely
  <1>6. age[t] * MsPerTick = a
    BY DEF Ms
  <1> HIDE DEF a, b, p, ms, w, c
  <1>7. a + b + c >= p
    BY <1>1, <1>2, <1>3, <1>4, <1>5
  <1>8. QED  BY <1>6, <1>7 DEF InTime, b, p, c

\* The first timer fires, after a wait that was too short by so many ms.
LEMMA FireKeeps ==
  ASSUME TimerInv, NEW short \in Nat, Fire(short), Ms(Waited) + short >= First.time
  PROVE  TimerInv'
  <1> DEFINE f == First.timer
             ms == First.time
             rest == Tail(next_timeout)
             w == Ms(Waited)
  <1>1. /\ next_timeout \in Seq(Entry) /\ next_timeout # <<>> /\ OneEach(next_timeout)
        /\ clock \in 0 .. CLOCK - 1 /\ t0 \in 0 .. CLOCK - 1 /\ left \in Nat
        /\ age \in [Timer -> Nat] /\ slack \in [Timer -> Nat] /\ rushed \in [Timer -> BOOLEAN]
    BY DEF TimerInv, TimerType
  <1>2. /\ next_timeout' = Insert(rest, f, Period[f])
        /\ age' = [age EXCEPT ![f] = 0]
        /\ slack' = [t \in Timer |-> IF t = f THEN 0 ELSE Upto(t, slack[t] + short)]
        /\ rushed' = [rushed EXCEPT ![f] = FALSE]
        /\ tpc' = "fetch" /\ UNCHANGED <<clock, t0, left>>
    BY DEF Fire
  <1>3. /\ rest \in Seq(Entry) /\ OneEach(rest)
        /\ \A k \in 1 .. Len(rest) : rest[k].timer # f
        /\ \A r \in Pairs(rest) : <<r[1], r[2] + ms>> \in Pairs(next_timeout) /\ r[1] # f
        /\ f \in Timer /\ ms \in Nat
    BY <1>1, FirstTaken DEF First
  <1>4. Period[f] \in Nat
    BY <1>3, TimesAre
  <1> HIDE DEF f, ms, rest, w
  <1>5. /\ next_timeout' \in Seq(Entry) /\ next_timeout' # <<>> /\ OneEach(next_timeout')
        /\ \A r \in Pairs(next_timeout') : r \in Pairs(rest) \/ r = <<f, Period[f]>>
    <2> DEFINE p == Period[f]
    <2>1. p \in Nat /\ next_timeout' = Insert(rest, f, p)
      BY <1>2, <1>4
    <2> HIDE DEF p
    <2>2. /\ Insert(rest, f, p) \in Seq(Entry) /\ Insert(rest, f, p) # <<>>
          /\ OneEach(Insert(rest, f, p))
          /\ \A r \in Pairs(Insert(rest, f, p)) : r \in Pairs(rest) \/ r = <<f, p>>
      BY <1>3, <2>1, TimerSet
    <2>3. QED  BY <2>1, <2>2 DEF p
  <1>6. age' \in [Timer -> Nat] /\ rushed' \in [Timer -> BOOLEAN]
    BY <1>1, <1>2, <1>3
  <1>7. slack' \in [Timer -> Nat]
    <2>1. \A t \in Timer : slack[t] + short \in Nat
      BY <1>1
    <2>2. \A t \in Timer : Upto(t, slack[t] + short) \in Nat
      BY <2>1, UptoIs
    <2>3. QED  BY <1>2, <2>2
  <1>8. TimerType'
    <2>1. tpc' \in {"fetch", "wait"}
      BY <1>2
    <2>2. /\ clock' \in 0 .. CLOCK - 1 /\ t0' \in 0 .. CLOCK - 1 /\ left' \in Nat
      BY <1>1, <1>2
    <2>3. OneEach(next_timeout)'
      BY <1>5 DEF OneEach
    <2>4. QED  BY <1>5, <1>6, <1>7, <2>1, <2>2, <2>3 DEF TimerType
  <1>9. WaitInv'
    BY <1>2 DEF WaitInv
  <1>10. Waited' = 0
    BY <1>2 DEF Waited
  <1>11. ASSUME NEW r \in Pairs(next_timeout')
         PROVE  Timely(r[1], r[2])'
    <2>1. CASE r = <<f, Period[f]>>
      <3>1. r[1] = f /\ r[2] = Period[f] /\ age'[f] = 0 /\ slack'[f] = 0
        BY <1>1, <1>2, <1>3, <2>1
      <3>2. Ms(0) = 0
        BY MsIs
      <3> HIDE DEF Ms
      <3>3. QED  BY <1>4, <1>10, <3>1, <3>2 DEF Timely
    <2>2. CASE r \in Pairs(rest)
      <3> DEFINE t == r[1]
                 due == r[2]
                 p == Period[t]
                 a == Ms(age[t])
                 b == slack[t]
                 b2 == slack'[t]
      <3>1. <<t, due + ms>> \in Pairs(next_timeout) /\ t # f
        BY <1>3, <2>2
      <3>2. t \in Timer /\ due \in Nat
        BY <1>3, <2>2, PairIs
      <3>3. Timely(t, due + ms)
        <4>1. Timely(<<t, due + ms>>[1], <<t, due + ms>>[2])
          BY <3>1 DEF TimerInv, DueInv
        <4>2. QED  BY <4>1
      <3>4. /\ due + ms <= p
            /\ rushed[t] \/ age[t] >= p \/ b >= p \/ a + b + (due + ms) >= p + w
        BY <3>3 DEF Timely, w
      <3>5. age'[t] = age[t] /\ rushed'[t] = rushed[t] /\ b2 = Upto(t, b + short)
        BY <1>1, <1>2, <3>1, <3>2
      <3>6. p \in Nat /\ b \in Nat /\ age[t] \in Nat /\ a \in Nat /\ Ms(0) = 0
        BY <1>1, <3>2, TimesAre, MsIs
      <3>7. b2 = (IF b + short <= p THEN b + short ELSE p)
        <4>1. b + short \in Nat
          BY <3>6
        <4>2. QED  BY <3>2, <3>5, <4>1, UptoIs
      <3>8. w + short >= ms /\ w \in Int
        <4>1. w + short >= ms
          BY DEF w, ms
        <4>2. Waited \in Nat
          BY FirstIs DEF Waited
        <4>3. QED  BY <4>1, <4>2, MsIs DEF w
      <3> HIDE DEF t, due, p, a, b, b2
      <3>9. due <= p /\ (rushed[t] \/ age[t] >= p \/ b2 >= p \/ a + b2 + due >= p)
        <4>1. due <= p
          BY <1>3, <3>2, <3>4, <3>6
        <4>2. b >= p => b2 >= p
          BY <3>6, <3>7
        <4>3. a + b + (due + ms) >= p + w => b2 >= p \/ a + b2 + due >= p
          <5>1. CASE b + short <= p
            <6>1. b2 = b + short
              BY <3>7, <5>1
            <6>2. QED  BY <1>3, <3>2, <3>6, <3>8, <6>1
          <5>2. CASE ~(b + short <= p)
            BY <3>6, <3>7, <5>2
          <5>3. QED  BY <5>1, <5>2
        <4>4. QED  BY <3>4, <4>1, <4>2, <4>3
      <3>10. /\ due <= Period[t]
             /\ \/ rushed'[t] \/ age'[t] >= Period[t] \/ slack'[t] >= Period[t]
                \/ Ms(age'[t]) + slack'[t] + due >= Period[t] + Ms(Waited')
        <4>1. p + 0 = p
          BY <3>6
        <4>2. QED  BY <1>10, <3>5, <3>6, <3>9, <4>1 DEF p, a, b2
      <3>11. QED  BY <3>10 DEF Timely, t, due, Ms
    <2>3. QED  BY <1>5, <2>1, <2>2
  <1>12. DueInv'
    <2>1. Pairs(next_timeout)' = Pairs(next_timeout')
      BY DEF Pairs, Due
    <2>2. QED  BY <1>11, <2>1 DEF DueInv
  <1>13. QED  BY <1>8, <1>9, <1>12 DEF TimerInv

LEMMA FireDueKeeps == TimerInv /\ FireDue => TimerInv'
  <1> SUFFICES ASSUME TimerInv, FireDue PROVE TimerInv'
    OBVIOUS
  <1>1. Fire(0) /\ First.time = 0 /\ tpc = "fetch"
    BY DEF FireDue
  <1>2. Waited = 0 /\ Ms(0) = 0
    BY <1>1, MsIs DEF Waited
  <1>3. Ms(Waited) + 0 >= First.time
    BY <1>1, <1>2
  <1>4. QED  BY <1>1, <1>3, FireKeeps

LEMMA TimedOutKeeps == TimerInv /\ TimedOut => TimerInv'
  <1> SUFFICES ASSUME TimerInv, TimedOut PROVE TimerInv'
    OBVIOUS
  <1>1. Fire(Short) /\ tpc = "wait" /\ left = 0
    BY DEF TimedOut
  <1>2. Waited = Ticks(First.time) - 0 /\ Ticks(First.time) \in Int
    BY <1>1, FirstIs DEF Waited
  <1>3. Waited = Ticks(First.time)
    BY <1>2
  <1>4. Short \in Nat /\ Ms(Waited) + Short >= First.time
    BY <1>3, FirstIs
  <1>5. QED  BY <1>1, <1>4, FireKeeps

LEMMA SleepKeeps == TimerInv /\ Sleep => TimerInv'
  <1> SUFFICES ASSUME TimerInv, Sleep PROVE TimerInv'
    OBVIOUS
  <1> DEFINE n == Ticks(First.time)
  <1>1. /\ tpc = "fetch" /\ tpc' = "wait" /\ t0' = clock /\ left' = n
        /\ UNCHANGED <<clock, next_timeout, age, slack, rushed>>
    BY DEF Sleep
  <1>2. n \in Nat /\ Ticks(First.time)' = n /\ n - n = 0
    <2>1. n \in 1 .. CLOCK - 1
      BY FirstIs
    <2>2. First' = First
      BY <1>1 DEF First
    <2>3. QED  BY <2>1, <2>2 DEF Ticks
  <1>3. Waited' = 0 /\ Waited = 0
    BY <1>1, <1>2 DEF Waited
  <1>4. TimerType'
    BY <1>1, <1>2 DEF TimerInv, TimerType, OneEach
  <1>5. WaitInv'
    <2>1. left' <= Ticks(First.time)'
      BY <1>1, <1>2
    <2>2. clock' = t0' + 0 /\ clock \in Int
      BY <1>1 DEF TimerInv, TimerType
    <2>3. QED  BY <1>3, <2>1, <2>2 DEF WaitInv
  <1>6. DueInv'
    <2>1. Pairs(next_timeout)' = Pairs(next_timeout)
      BY <1>1 DEF Pairs, Due
    <2>2. \A t, due : Timely(t, due)' <=> Timely(t, due)
      BY <1>1, <1>3 DEF Timely, Ms
    <2>3. QED  BY <2>1, <2>2 DEF DueInv, TimerInv
  <1>7. QED  BY <1>4, <1>5, <1>6 DEF TimerInv

LEMMA TickKeeps == TimerInv /\ Tick => TimerInv'
  <1> SUFFICES ASSUME TimerInv, Tick PROVE TimerInv'
    OBVIOUS
  <1> DEFINE n == Ticks(First.time)
  <1>1. /\ tpc = "wait" /\ left > 0 /\ clock' = (clock + 1) % CLOCK /\ left' = left - 1
        /\ age' = [t \in Timer |-> Upto(t, age[t] + 1)]
        /\ UNCHANGED <<next_timeout, tpc, t0, slack, rushed>>
    BY DEF Tick, ThreadWaits
  <1>2. /\ clock \in 0 .. CLOCK - 1 /\ t0 \in 0 .. CLOCK - 1 /\ left \in Nat
        /\ age \in [Timer -> Nat] /\ slack \in [Timer -> Nat]
    BY DEF TimerInv, TimerType
  <1>3. n \in 1 .. CLOCK - 1 /\ CLOCK \in Nat /\ Ticks(First.time)' = n
    <2>1. First' = First
      BY <1>1 DEF First
    <2>2. QED  BY <2>1, FirstIs DEF Ticks
  <1>4. /\ left <= n /\ Waited = n - left /\ Waited' = n - (left - 1)
        /\ clock = t0 + Waited \/ clock = t0 + Waited - CLOCK
    BY <1>1, <1>3 DEF TimerInv, WaitInv, Waited
  <1>5. clock' = IF clock = CLOCK - 1 THEN 0 ELSE clock + 1
    <2>1. clock + 1 \in 0 .. CLOCK /\ CLOCK > 0
      BY <1>2, <1>3
    <2>2. CASE clock = CLOCK - 1
      <3>1. clock + 1 = CLOCK /\ CLOCK % CLOCK = 0
        BY <1>3, <2>1, <2>2
      <3>2. QED  BY <1>1, <2>2, <3>1
    <2>3. CASE clock # CLOCK - 1
      <3>1. clock + 1 \in 0 .. CLOCK - 1
        BY <1>2, <1>3, <2>3
      <3>2. (clock + 1) % CLOCK = clock + 1
        BY <1>3, <3>1
      <3>3. QED  BY <1>1, <2>3, <3>2
    <2>4. QED  BY <2>2, <2>3
  <1> HIDE DEF n
  <1>6. Waited \in Nat /\ Waited' = Waited + 1
    BY <1>2, <1>3, <1>4
  <1>7. \A t \in Timer : /\ age'[t] = (IF age[t] + 1 <= Period[t] THEN age[t] + 1 ELSE Period[t])
                         /\ age'[t] \in Nat
    <2> SUFFICES ASSUME NEW t \in Timer
                 PROVE  /\ age'[t] = (IF age[t] + 1 <= Period[t] THEN age[t] + 1 ELSE Period[t])
                        /\ age'[t] \in Nat
      OBVIOUS
    <2> DEFINE x == age[t] + 1
    <2>1. x \in Nat /\ age'[t] = Upto(t, x)
      BY <1>1, <1>2
    <2> HIDE DEF x
    <2>2. Upto(t, x) = (IF x <= Period[t] THEN x ELSE Period[t]) /\ Upto(t, x) \in Nat
      BY <2>1, UptoIs
    <2>3. QED  BY <2>1, <2>2 DEF x
  <1>8. TimerType'
    <2>1. age' \in [Timer -> Nat]
      BY <1>1, <1>7
    <2>2. clock' \in 0 .. CLOCK - 1 /\ left' \in Nat /\ t0' \in 0 .. CLOCK - 1
      BY <1>1, <1>2, <1>3, <1>5
    <2>3. QED  BY <1>1, <2>1, <2>2 DEF TimerInv, TimerType, OneEach
  <1>9. WaitInv'
    <2>1. left' <= Ticks(First.time)'
      BY <1>1, <1>2, <1>3, <1>4
    <2>2. clock' = t0' + Waited' \/ clock' = t0' + Waited' - CLOCK
      <3>1. t0' = t0
        BY <1>1
      <3>2. CASE clock = CLOCK - 1
        <4>1. Waited <= CLOCK - 2
          BY <1>1, <1>2, <1>3, <1>4
        <4>2. clock = t0 + Waited
          BY <1>2, <1>3, <1>4, <1>6, <3>2, <4>1
        <4>3. QED  BY <1>2, <1>3, <1>5, <1>6, <3>1, <3>2, <4>2
      <3>3. CASE clock # CLOCK - 1
        BY <1>2, <1>3, <1>4, <1>5, <1>6, <3>1, <3>3
      <3>4. QED  BY <3>2, <3>3
    <2>3. QED  BY <2>1, <2>2 DEF WaitInv
  <1>10. ASSUME NEW r \in Pairs(next_timeout)
         PROVE  Timely(r[1], r[2])'
    <2> DEFINE t == r[1]
               due == r[2]
               p == Period[t]
               x == age[t]
               b == slack[t]
               w == Ms(Waited)
    <2>1. t \in Timer /\ due \in Nat
      <3>1. next_timeout \in Seq(Entry)
        BY DEF TimerInv, TimerType
      <3>2. QED  BY <3>1, PairIs
    <2>2. Timely(t, due)
      BY DEF TimerInv, DueInv
    <2>3. p \in Nat /\ x \in Nat /\ b \in Nat /\ w \in Nat /\ MsPerTick \in Nat
      BY <1>2, <1>6, <2>1, TimesAre, MsIs
    <2>4. due <= p /\ (rushed[t] \/ x >= p \/ b >= p \/ Ms(x) + b + due >= p + w)
      BY <2>2 DEF Timely
    <2>5. Ms(Waited') = w + MsPerTick /\ Ms(x + 1) = Ms(x) + MsPerTick /\ Ms(x) \in Nat
      BY <1>6, <2>3, MsIs
    <2>6. age'[t] = (IF x + 1 <= p THEN x + 1 ELSE p) /\ slack'[t] = b /\ rushed'[t] = rushed[t]
      BY <1>1, <1>7, <2>1
    <2> DEFINE m == Ms(x)
               y == age'[t]
    <2>7. y \in Nat /\ (x + 1 <= p => y = x + 1) /\ (~(x + 1 <= p) => y = p)
      BY <2>3, <2>6
    <2>8. CASE x + 1 <= p
      <3>1. Ms(y) = m + MsPerTick
        BY <2>5, <2>7, <2>8
      <3> DEFINE z == Ms(y)
                 later == Ms(Waited')
      <3>2. z = m + MsPerTick /\ later = w + MsPerTick /\ m \in Nat
        BY <2>5, <3>1
      <3>3. rushed[t] \/ b >= p \/ m + b + due >= p + w
        BY <2>3, <2>4, <2>8
      <3> HIDE DEF t, due, p, x, b, w, m, y, z, later
      <3>4. m + b + due >= p + w => z + b + due >= p + later
        BY <2>1, <2>3, <3>2
      <3>5. due <= p /\ (rushed[t] \/ b >= p \/ z + b + due >= p + later)
        BY <2>4, <3>3, <3>4
      <3>6. /\ due <= Period[t]
            /\ \/ rushed'[t] \/ age'[t] >= Period[t] \/ slack'[t] >= Period[t]
               \/ Ms(age'[t]) + slack'[t] + due >= Period[t] + Ms(Waited')
        BY <2>6, <3>5 DEF p, z, later, y
      <3>7. QED  BY <3>6 DEF Timely, t, due, Ms
    <2>9. CASE ~(x + 1 <= p)
      <3>1. y = p
        BY <2>7, <2>9
      <3> HIDE DEF t, due, p, x, b, w, m, y
      <3>2. y >= p
        BY <2>3, <3>1
      <3>3. due <= Period[t] /\ age'[t] >= Period[t]
        BY <2>4, <3>2 DEF p, y
      <3>4. QED  BY <3>3 DEF Timely, t, due
    <2>10. QED  BY <2>8, <2>9
  <1>11. DueInv'
    <2>1. Pairs(next_timeout)' = Pairs(next_timeout)
      BY <1>1 DEF Pairs, Due
    <2>2. QED  BY <1>10, <2>1 DEF DueInv
  <1>12. QED  BY <1>8, <1>9, <1>11 DEF TimerInv

\* What is left of a wait that ended early is waited for again.
LEMMA TakeTimeKeeps ==
  ASSUME TimerInv, NEW ms \in Nat, TakeTime(ms), tpc' = "fetch",
         t0' \in 0 .. CLOCK - 1, UNCHANGED <<clock, left, age>>,
         slack' \in [Timer -> Nat], rushed' \in [Timer -> BOOLEAN],
         \A t \in Timer :
            \/ rushed'[t]
            \/ /\ rushed'[t] = rushed[t]
               /\ ms <= Ms(Waited) + 1
               /\ slack'[t] = (IF slack[t] + 1 <= Period[t] THEN slack[t] + 1 ELSE Period[t])
  PROVE  TimerInv'
  <1>1. /\ next_timeout \in Seq(Entry) /\ next_timeout # <<>> /\ OneEach(next_timeout)
        /\ clock \in 0 .. CLOCK - 1 /\ left \in Nat
        /\ age \in [Timer -> Nat] /\ slack \in [Timer -> Nat]
    BY DEF TimerInv, TimerType
  <1>2. /\ next_timeout' \in Seq(Entry) /\ next_timeout' # <<>> /\ OneEach(next_timeout')
        /\ \A r \in Pairs(next_timeout') :
              \E d \in 0 .. ms : <<r[1], r[2] + d>> \in Pairs(next_timeout)
    <2> DEFINE new == next_timeout'
    <2>1. new = [next_timeout EXCEPT ![1].time = Max({0, @ - ms})]
      BY DEF TakeTime
    <2> HIDE DEF new
    <2>2. /\ new \in Seq(Entry) /\ new # <<>> /\ OneEach(new)
          /\ \A r \in Pairs(new) : \E d \in 0 .. ms : <<r[1], r[2] + d>> \in Pairs(next_timeout)
      BY <1>1, <2>1, TimeTaken
    <2>3. QED  BY <2>2 DEF new
  <1>3. TimerType'
    <2>1. OneEach(next_timeout)'
      BY <1>2 DEF OneEach
    <2>2. QED  BY <1>1, <1>2, <2>1 DEF TimerType
  <1>4. WaitInv' /\ Waited' = 0
    BY DEF WaitInv, Waited
  <1>5. ASSUME NEW r \in Pairs(next_timeout')
        PROVE  Timely(r[1], r[2])'
    <2> DEFINE t == r[1]
               due == r[2]
               p == Period[t]
               a == Ms(age[t])
               b == slack[t]
               b2 == slack'[t]
               w == Ms(Waited)
    <2>1. PICK d \in 0 .. ms : <<t, due + d>> \in Pairs(next_timeout)
      BY <1>2
    <2>2. t \in Timer /\ due \in Nat
      BY <1>2, PairIs
    <2>3. Timely(t, due + d)
      <3>1. Timely(<<t, due + d>>[1], <<t, due + d>>[2])
        BY <2>1 DEF TimerInv, DueInv
      <3>2. QED  BY <3>1
    <2>4. /\ due + d <= p
          /\ rushed[t] \/ age[t] >= p \/ b >= p \/ a + b + (due + d) >= p + w
      BY <2>3 DEF Timely
    <2>5. p \in Nat /\ b \in Nat /\ age[t] \in Nat /\ a \in Nat /\ w \in Nat /\ Ms(0) = 0
      <3>1. Waited \in Nat
        BY FirstIs DEF Waited
      <3>2. QED  BY <1>1, <2>2, <3>1, TimesAre, MsIs
    <2>6. \/ rushed'[t]
          \/ /\ rushed'[t] = rushed[t] /\ ms <= w + 1
             /\ b2 = (IF b + 1 <= p THEN b + 1 ELSE p)
      BY <2>2
    <2>7. age'[t] = age[t]
      OBVIOUS
    <2> HIDE DEF t, due, p, a, b, b2, w
    <2>8. due <= p
      BY <2>2, <2>4, <2>5
    <2>9. CASE rushed'[t]
      BY <2>8, <2>9 DEF Timely, t, due, p
    <2>10. CASE ~rushed'[t]
      <3>1. /\ ~rushed[t] /\ ms <= w + 1 /\ b2 = (IF b + 1 <= p THEN b + 1 ELSE p)
        BY <2>6, <2>10
      <3>2. age[t] >= p \/ b >= p \/ a + b + (due + d) >= p + w
        BY <2>4, <3>1
      <3>3. age[t] >= p \/ b2 >= p \/ a + b2 + due >= p
        BY <2>2, <2>5, <3>1, <3>2
      <3>4. p + 0 = p
        BY <2>5
      <3>5. \/ age'[t] >= Period[t] \/ slack'[t] >= Period[t]
            \/ Ms(age'[t]) + slack'[t] + due >= Period[t] + Ms(Waited')
        BY <1>4, <2>5, <2>7, <3>3, <3>4 DEF p, a, b2
      <3>6. QED  BY <2>8, <3>5 DEF Timely, t, due, p, Ms
    <2>11. QED  BY <2>9, <2>10
  <1>6. DueInv'
    <2>1. Pairs(next_timeout)' = Pairs(next_timeout')
      BY DEF Pairs, Due
    <2>2. QED  BY <1>5, <2>1 DEF DueInv
  <1>7. QED  BY <1>3, <1>4, <1>6 DEF TimerInv

LEMMA FetchKeeps == TimerInv /\ Fetch => TimerInv'
  <1> SUFFICES ASSUME TimerInv, Fetch PROVE TimerInv'
    OBVIOUS
  <1>1. /\ clock \in 0 .. CLOCK - 1 /\ t0 \in 0 .. CLOCK - 1 /\ left \in Nat
        /\ slack \in [Timer -> Nat] /\ rushed \in [Timer -> BOOLEAN]
        /\ CLOCK \in Nat /\ MsPerTick \in Nat
    BY TimesAre DEF TimerInv, TimerType
  <1>2. tpc' = "fetch" /\ UNCHANGED <<clock, left, age>>
    BY DEF Fetch
  <1>3. CASE /\ t0' = clock /\ TakeTime((CLOCK - 1) * MsPerTick + 1)
             /\ rushed' = [t \in Timer |-> TRUE] /\ UNCHANGED slack
    <2> DEFINE ms == (CLOCK - 1) * MsPerTick + 1
    <2>1. ms \in Nat
      <3>1. CLOCK - 1 \in Nat
        BY ClockTwo, <1>1
      <3>2. (CLOCK - 1) * MsPerTick \in Nat
        BY <1>1, <3>1
      <3>3. QED  BY <3>2
    <2>2. TakeTime(ms) /\ t0' \in 0 .. CLOCK - 1
      BY <1>1, <1>3
    <2>3. /\ slack' \in [Timer -> Nat] /\ rushed' \in [Timer -> BOOLEAN]
          /\ \A t \in Timer : rushed'[t]
      BY <1>1, <1>3
    <2> HIDE DEF ms
    <2>4. QED  BY <1>2, <2>1, <2>2, <2>3, TakeTimeKeeps
  <1>4. CASE /\ tpc = "wait" /\ left > 0 /\ UNCHANGED t0
             /\ TakeTime(Reported)
             /\ IF clock = t0
                  THEN rushed' = [t \in Timer |-> TRUE] /\ UNCHANGED slack
                  ELSE slack' = [t \in Timer |-> Upto(t, slack[t] + 1)] /\ UNCHANGED rushed
    <2>1. /\ Waited \in 0 .. CLOCK - 1
          /\ clock = t0 + Waited \/ clock = t0 + Waited - CLOCK
      BY <1>4, FirstIs DEF TimerInv, WaitInv
    <2>2. Elapsed \in Nat /\ (clock # t0 => Elapsed <= Waited)
      BY <1>1, <2>1 DEF Elapsed
    <2>3. Reported = Ms(Elapsed) + 1
      BY DEF Reported, Ms
    <2>4. Reported \in Nat /\ (clock # t0 => Reported <= Ms(Waited) + 1)
      <3>1. Ms(Elapsed) \in Nat /\ (clock # t0 => Ms(Elapsed) <= Ms(Waited)) /\ Ms(Waited) \in Nat
        BY <2>1, <2>2, MsIs
      <3> HIDE DEF Ms
      <3>2. QED  BY <2>3, <3>1
    <2>5. t0' \in 0 .. CLOCK - 1
      BY <1>1, <1>4
    <2>6. /\ slack' \in [Timer -> Nat] /\ rushed' \in [Timer -> BOOLEAN]
          /\ \A t \in Timer :
                \/ rushed'[t]
                \/ /\ rushed'[t] = rushed[t]
                   /\ Reported <= Ms(Waited) + 1
                   /\ slack'[t] = (IF slack[t] + 1 <= Period[t] THEN slack[t] + 1 ELSE Period[t])
      <3>1. CASE clock = t0
        BY <1>1, <1>4, <3>1
      <3>2. CASE clock # t0
        <4>1. \A t \in Timer : slack[t] + 1 \in Nat
          BY <1>1
        <4>2. \A t \in Timer :
                 /\ Upto(t, slack[t] + 1) = (IF slack[t] + 1 <= Period[t] THEN slack[t] + 1
                                             ELSE Period[t])
                 /\ Upto(t, slack[t] + 1) \in Nat
          BY <4>1, UptoIs
        <4>3. slack' = [t \in Timer |-> Upto(t, slack[t] + 1)] /\ rushed' = rushed
          BY <1>4, <3>2
        <4>4. slack' \in [Timer -> Nat] /\ \A t \in Timer : slack'[t] = Upto(t, slack[t] + 1)
          BY <4>2, <4>3
        <4>5. QED  BY <1>1, <2>4, <3>2, <4>2, <4>3, <4>4
      <3>3. QED  BY <3>1, <3>2
    <2> HIDE DEF Ms
    <2>7. TakeTime(Reported)
      BY <1>4
    <2>8. QED  BY <1>2, <2>4, <2>5, <2>6, <2>7, TakeTimeKeeps
  <1>5. QED  BY <1>3, <1>4 DEF Fetch

LEMMA NextTimers == TimerInv /\ [Next]_vars => TimerInv'
  <1> SUFFICES ASSUME TimerInv, [Next]_vars PROVE TimerInv'
    OBVIOUS
  <1>1. CASE Thread
    BY <1>1, FireDueKeeps, TimedOutKeeps, SleepKeeps, FetchKeeps DEF Thread
  <1>2. CASE Tick
    BY <1>2, TickKeeps
  <1>3. CASE UNCHANGED timerVars
    <2>1. UNCHANGED <<clock, next_timeout, tpc, t0, left, age, slack, rushed>>
      BY <1>3 DEF timerVars
    <2>2. TimerType'
      BY <2>1 DEF TimerInv, TimerType, OneEach
    <2>3. Waited' = Waited
      BY <2>1 DEF Waited, First, Ticks
    <2>4. WaitInv'
      BY <2>1, <2>3 DEF TimerInv, WaitInv, First, Ticks
    <2>5. DueInv'
      <3>1. Pairs(next_timeout)' = Pairs(next_timeout)
        BY <2>1 DEF Pairs, Due
      <3>2. \A t, due : Timely(t, due)' <=> Timely(t, due)
        BY <2>1, <2>3 DEF Timely, Ms
      <3>3. QED  BY <3>1, <3>2 DEF TimerInv, DueInv
    <2>6. QED  BY <2>2, <2>4, <2>5 DEF TimerInv
  <1>4. Task => UNCHANGED timerVars
    BY DEF Task, Delay, Call, Recv, Return
  <1>5. (\E n \in 1 .. FIN : Arrive(n)) => UNCHANGED timerVars
    BY DEF Arrive
  <1>6. UNCHANGED vars => UNCHANGED timerVars
    BY DEF vars
  <1>7. QED  BY <1>1, <1>2, <1>3, <1>4, <1>5, <1>6 DEF Next

LEMMA TimerInvHolds == Spec => []TimerInv
  <1>1. Init => TimerInv
    BY InitTimers
  <1>2. TimerInv /\ [Next]_vars => TimerInv'
    BY NextTimers
  <1>3. QED  BY <1>1, <1>2, PTL DEF Spec

(* lwIP's timers, for any timers and intervals the clock can measure, any  *)
(* traffic: one fires before its time only by the ms that the reports of   *)
(* what was waited and the rounding to ticks add up to, or after a message *)
(* was fetched in the tick in which it was asked for.                      *)
THEOREM NeverEarlyHolds == Spec => [][NeverEarly]_vars
  <1>1. TimerInv /\ [Next]_vars => [NeverEarly]_vars
    <2>1. ASSUME TimerInv
          PROVE  NeverEarly
      <3> SUFFICES ASSUME NEW t \in Timer, Fires(t) PROVE rushed[t] \/ InTime(t)
        BY DEF NeverEarly
      <3>1. QED  BY <2>1, FiresInTime
    <2>2. QED  BY <2>1
  <1>2. QED  BY <1>1, TimerInvHolds, PTL DEF Spec

-----------------------------------------------------------------------------
(***************************************************************************)
(* Commands.                                                               *)
(***************************************************************************)

(* What a buffer holds.                                                    *)
Character == STRING \cup {NUL, SEP, END}

(* The text that is read is one the buffer holds.                          *)
TextInv == text \in Seq(Character)
CommandsInv == TypeOK /\ TextInv

-----------------------------------------------------------------------------
(* Rows of characters put behind each other are a row of characters.       *)
Flattened(q) ==
    CHOOSE g : g = [x \in 1 .. Len(q) |-> IF x = 1 THEN q[x] ELSE g[x - 1] \o q[x]]

LEMMA FlattenedIs ==
  ASSUME NEW q, Len(q) \in Nat, NEW g, g = Flattened(q)
  PROVE  /\ \A x \in 1 .. Len(q) : x = 1 => g[x] = q[x]
         /\ \A x \in 1 .. Len(q) : x # 1 => g[x] = g[x - 1] \o q[x]
  <1> DEFINE n == Len(q)
             F(f, k) == [x \in 1 .. k |-> IF x = 1 THEN q[x] ELSE f[x - 1] \o q[x]]
             E == {k \in 0 .. n : \E f : f = F(f, k)}
  <1>1. 0 \in E
    <2> DEFINE h == [x \in 1 .. 0 |-> q[x]]
    <2>1. h = F(h, 0)
      OBVIOUS
    <2>2. 0 \in 0 .. n
      OBVIOUS
    <2> HIDE DEF h, F
    <2>3. QED  BY <2>1, <2>2
  <1>2. ASSUME NEW k \in 0 .. n - 1, k \in E
        PROVE  k + 1 \in E
    <2>1. PICK f : f = F(f, k)
      BY <1>2
    <2> DEFINE h == [x \in 1 .. k + 1 |->
                       IF x <= k THEN f[x] ELSE IF x = 1 THEN q[x] ELSE f[k] \o q[x]]
    <2>2. k \in Nat /\ k + 1 \in 0 .. n
      OBVIOUS
    <2>3. ASSUME NEW x \in 1 .. k + 1
          PROVE  h[x] = F(h, k + 1)[x]
      <3> USE <2>2
      <3>1. CASE x <= k
        <4>1. x \in 1 .. k
          BY <3>1
        <4>2. h[x] = f[x]
          BY <3>1
        <4>3. f[x] = IF x = 1 THEN q[x] ELSE f[x - 1] \o q[x]
          BY <2>1, <4>1
        <4>4. x # 1 => h[x - 1] = f[x - 1]
          BY <3>1
        <4>5. F(h, k + 1)[x] = IF x = 1 THEN q[x] ELSE h[x - 1] \o q[x]
          OBVIOUS
        <4> HIDE DEF h, F
        <4>6. QED  BY <4>2, <4>3, <4>4, <4>5
      <3>2. CASE x = k + 1
        <4>1. x # 1 => x - 1 \in 1 .. k + 1 /\ x - 1 <= k /\ x - 1 = k
          BY <3>2
        <4>2. x # 1 => h[x - 1] = f[k]
          BY <4>1
        <4>3. h[x] = IF x = 1 THEN q[x] ELSE f[k] \o q[x]
          BY <3>2
        <4>4. F(h, k + 1)[x] = IF x = 1 THEN q[x] ELSE h[x - 1] \o q[x]
          OBVIOUS
        <4> HIDE DEF h, F
        <4>5. QED  BY <4>2, <4>3, <4>4
      <3>3. QED  BY <3>1, <3>2
    <2>4. h = F(h, k + 1)
      <3> DEFINE f1 == F(h, k + 1)
      <3>1. h = [x \in 1 .. k + 1 |-> h[x]]
        OBVIOUS
      <3>2. f1 = [x \in 1 .. k + 1 |-> f1[x]]
        OBVIOUS
      <3>3. \A x \in 1 .. k + 1 : h[x] = f1[x]
        <4> HIDE DEF h
        <4>1. QED  BY <2>3 DEF f1
      <3> HIDE DEF h, f1
      <3>4. h = f1
        BY <3>1, <3>2, <3>3
      <3>5. QED  BY <3>4 DEF f1
    <2> HIDE DEF h, F
    <2>5. QED  BY <2>2, <2>4
  <1>3. \A k \in 0 .. n - 1 : k \in E => k + 1 \in E
    BY <1>2
  <1> HIDE DEF E
  <1>4. n \in E
    <2>1. 0 .. n \subseteq E
      BY <1>1, <1>3, UptoInduction
    <2>2. QED  BY <2>1
  <1>5. g = F(g, n)
    <2>1. PICK f : f = F(f, n)
      BY <1>4 DEF E
    <2>2. g = CHOOSE z : z = F(z, n)
      BY DEF Flattened
    <2> HIDE DEF F
    <2>3. QED  BY <2>1, <2>2
  <1>6. QED  BY <1>5

LEMMA TwoRows ==
  ASSUME NEW S, NEW q \in Seq(S), NEW r \in Seq(S)
  PROVE  q \o r \in Seq(S)
  OBVIOUS

LEMMA RowOfRows ==
  ASSUME NEW S, NEW q \in Seq(Seq(S))
  PROVE  FlattenSeq(q) \in Seq(S)
  <1>1. Len(q) \in Nat /\ \A x \in 1 .. Len(q) : q[x] \in Seq(S)
    OBVIOUS
  <1>2. CASE Len(q) = 0
    <2>1. q = <<>>
      BY <1>2
    <2>2. FlattenSeq(q) = q
      BY <1>2 DEF FlattenSeq
    <2>3. <<>> \in Seq(S)
      OBVIOUS
    <2>4. QED  BY <2>1, <2>2, <2>3
  <1>3. CASE Len(q) # 0
    <2> DEFINE g == Flattened(q)
               E == {k \in 0 .. Len(q) : k = 0 \/ g[k] \in Seq(S)}
    <2>1. FlattenSeq(q) = g[Len(q)]
      BY <1>3 DEF FlattenSeq, Flattened
    <2>2. /\ \A x \in 1 .. Len(q) : x = 1 => g[x] = q[x]
          /\ \A x \in 1 .. Len(q) : x # 1 => g[x] = g[x - 1] \o q[x]
      BY <1>1, FlattenedIs
    <2> HIDE DEF g
    <2>3. 0 \in E
      BY <1>1
    <2>4. ASSUME NEW k \in 0 .. Len(q) - 1, k \in E
          PROVE  k + 1 \in E
      <3>1. k + 1 \in 1 .. Len(q) /\ k + 1 \in 0 .. Len(q)
        BY <1>1
      <3>2. q[k + 1] \in Seq(S)
        BY <1>1, <3>1
      <3>3. CASE k = 0
        BY <2>2, <3>1, <3>2, <3>3
      <3>4. CASE k # 0
        <4>1. k + 1 # 1 /\ (k + 1) - 1 = k
          BY <1>1, <3>4
        <4>2. g[k + 1] = g[k] \o q[k + 1]
          BY <2>2, <3>1, <4>1
        <4>3. g[k] \in Seq(S)
          BY <2>4, <3>4
        <4>4. g[k + 1] \in Seq(S)
          BY <3>2, <4>2, <4>3, TwoRows
        <4>5. QED  BY <3>1, <4>4
      <3>5. QED  BY <3>3, <3>4
    <2>5. 0 .. Len(q) \subseteq E
      <3> HIDE DEF E
      <3>1. \A k \in 0 .. Len(q) - 1 : k \in E => k + 1 \in E
        BY <2>4
      <3>2. QED  BY <1>1, <2>3, <3>1, UptoInduction
    <2>6. Len(q) \in E
      <3>1. Len(q) \in 0 .. Len(q)
        BY <1>1
      <3> HIDE DEF E
      <3>2. QED  BY <2>5, <3>1
    <2>7. QED  BY <1>3, <2>1, <2>6
  <1>4. QED  BY <1>2, <1>3
LEMMA FlattenIs ==
  ASSUME NEW q, Len(q) # 0
  PROVE  FlattenSeq(q) = Flattened(q)[Len(q)]
  BY DEF FlattenSeq, Flattened

\* The first of some rows, put behind each other.
Part(q, k) == FlattenSeq(SubSeq(q, 1, k))

LEMMA PartsOf ==
  ASSUME NEW S, NEW q \in Seq(Seq(S))
  PROVE  /\ Part(q, 0) = <<>> /\ Part(q, Len(q)) = FlattenSeq(q)
         /\ \A k \in 1 .. Len(q) : Part(q, k) = Part(q, k - 1) \o q[k]
         /\ \A k \in 0 .. Len(q) : Part(q, k) \in Seq(S)
  <1>1. Len(q) \in Nat /\ \A x \in 1 .. Len(q) : q[x] \in Seq(S)
    OBVIOUS
  <1>2. \A k \in 0 .. Len(q) : /\ SubSeq(q, 1, k) \in Seq(Seq(S)) /\ Len(SubSeq(q, 1, k)) = k
                               /\ \A x \in 1 .. k : SubSeq(q, 1, k)[x] = q[x]
    OBVIOUS
  <1>3. \A k \in 0 .. Len(q) : Part(q, k) \in Seq(S)
    BY <1>2, RowOfRows DEF Part
  <1>4. SubSeq(q, 1, Len(q)) = q
    OBVIOUS
  <1>5. Part(q, 0) = <<>>
    <2>1. SubSeq(q, 1, 0) = <<>>
      OBVIOUS
    <2>2. QED  BY <1>1, <1>2, <2>1 DEF Part, FlattenSeq
  \* What is put together row by row does not depend on the rows to come.
  <1>6. ASSUME NEW k \in 1 .. Len(q)
        PROVE  Part(q, k) = Part(q, k - 1) \o q[k]
    <2> DEFINE a == SubSeq(q, 1, k)
               b == SubSeq(q, 1, k - 1)
               g == Flattened(a)
               h == Flattened(b)
    <2>1. k - 1 \in 0 .. Len(q) /\ k \in 0 .. Len(q) /\ k \in Nat
      BY <1>1
    <2>2. Len(a) = k /\ Len(b) = k - 1 /\ a \in Seq(Seq(S)) /\ b \in Seq(Seq(S))
      BY <1>2, <2>1
    <2>3. \A x \in 1 .. k - 1 : a[x] = q[x] /\ b[x] = q[x]
      BY <1>2, <2>1
    <2>4. a[k] = q[k]
      BY <1>2, <2>1
    <2>12. Part(q, k) = FlattenSeq(a) /\ Part(q, k - 1) = FlattenSeq(b)
      BY DEF Part
    <2>13. g = Flattened(a) /\ h = Flattened(b)
      OBVIOUS
    <2> HIDE DEF a, b, g, h
    <2>14. k \in Nat /\ k - 1 \in Nat /\ k # 0 /\ (k # 1 => k - 1 # 0)
      BY <2>1
    <2>5. Part(q, k) = g[k]
      BY <2>2, <2>12, <2>13, <2>14, FlattenIs
    <2>6. k # 1 => Part(q, k - 1) = h[k - 1]
      BY <2>2, <2>12, <2>13, <2>14, FlattenIs
    <2>7. /\ \A x \in 1 .. k : x = 1 => g[x] = a[x]
          /\ \A x \in 1 .. k : x # 1 => g[x] = g[x - 1] \o a[x]
      BY <2>2, <2>13, <2>14, FlattenedIs
    <2>8. /\ \A x \in 1 .. k - 1 : x = 1 => h[x] = b[x]
          /\ \A x \in 1 .. k - 1 : x # 1 => h[x] = h[x - 1] \o b[x]
      <3>1. Len(b) \in Nat
        BY <2>2, <2>14
      <3>2. /\ \A x \in 1 .. Len(b) : x = 1 => h[x] = b[x]
            /\ \A x \in 1 .. Len(b) : x # 1 => h[x] = h[x - 1] \o b[x]
        BY <2>13, <3>1, FlattenedIs
      <3>3. QED  BY <2>2, <3>2
    <2>9. CASE k = 1
      <3>1. g[k] = a[k]
        BY <2>1, <2>7, <2>9
      <3>2. Part(q, k - 1) = <<>>
        BY <1>5, <2>9
      <3>3. <<>> \o q[k] = q[k]
        BY <1>1
      <3>4. QED  BY <2>4, <2>5, <3>1, <3>2, <3>3
    <2>10. CASE k # 1
      <3> DEFINE E == {x \in 0 .. k - 1 : x = 0 \/ g[x] = h[x]}
      <3>1. 0 \in E
        BY <2>1
      <3>2. ASSUME NEW x \in 0 .. (k - 1) - 1, x \in E
            PROVE  x + 1 \in E
        <4>1. x + 1 \in 1 .. k - 1 /\ x + 1 \in 1 .. k /\ x + 1 \in 0 .. k - 1 /\ x \in Nat
          BY <2>1
        <4>2. a[x + 1] = b[x + 1]
          BY <2>3, <4>1
        <4>3. CASE x = 0
          <5>1. g[x + 1] = a[x + 1] /\ h[x + 1] = b[x + 1]
            BY <2>7, <2>8, <4>1, <4>3
          <5>2. QED  BY <4>1, <4>2, <5>1
        <4>4. CASE x # 0
          <5>1. x + 1 # 1 /\ (x + 1) - 1 = x
            BY <4>1, <4>4
          <5>2. g[x + 1] = g[x] \o a[x + 1] /\ h[x + 1] = h[x] \o b[x + 1]
            BY <2>7, <2>8, <4>1, <5>1
          <5>3. g[x] = h[x]
            BY <3>2, <4>4
          <5>4. QED  BY <4>1, <4>2, <5>2, <5>3
        <4>5. QED  BY <4>3, <4>4
      <3>3. 0 .. k - 1 \subseteq E
        <4>1. \A x \in 0 .. (k - 1) - 1 : x \in E => x + 1 \in E
          BY <3>2
        <4>2. k - 1 \in Nat
          BY <2>1, <2>10
        <4> HIDE DEF E
        <4>3. QED  BY <3>1, <4>1, <4>2, UptoInduction
      <3>4. k - 1 \in 0 .. k - 1 /\ k - 1 # 0
        BY <2>1, <2>10
      <3>5. g[k - 1] = h[k - 1]
        BY <3>3, <3>4
      <3>6. g[k] = g[k - 1] \o a[k]
        <4>1. k \in 1 .. k
          BY <2>14
        <4>2. QED  BY <2>7, <2>10, <4>1
      <3>7. QED  BY <2>4, <2>5, <2>6, <2>10, <3>5, <3>6
    <2>11. QED  BY <2>9, <2>10
  <1>7. QED  BY <1>3, <1>4, <1>5, <1>6 DEF Part

LEMMA InJoined ==
  ASSUME NEW S, NEW a \in Seq(S), NEW b \in Seq(S)
  PROVE  /\ Len(a \o b) = Len(a) + Len(b)
         /\ \A x \in 1 .. Len(a) : (a \o b)[x] = a[x]
         /\ \A x \in 1 .. Len(b) : (a \o b)[Len(a) + x] = b[x]
  OBVIOUS

\* Where each row is then found.
LEMMA PartsLie ==
  ASSUME NEW S, NEW q \in Seq(Seq(S)), NEW k \in 1 .. Len(q), NEW l \in 0 .. Len(q)
  PROVE  /\ Len(Part(q, k)) = Len(Part(q, k - 1)) + Len(q[k])
         /\ k <= l => /\ Len(Part(q, k)) <= Len(Part(q, l))
                      /\ \A x \in 1 .. Len(q[k]) :
                           Part(q, l)[Len(Part(q, k - 1)) + x] = q[k][x]
  <1> DEFINE P(j) == Part(q, j)
             at == Len(P(k - 1))
             Found(j) == /\ Len(P(k)) <= Len(P(j))
                         /\ \A x \in 1 .. Len(q[k]) : P(j)[at + x] = q[k][x]
             E == {j \in 0 .. Len(q) : j < k \/ Found(j)}
  <1>1. /\ \A j \in 1 .. Len(q) : P(j) = P(j - 1) \o q[j]
        /\ \A j \in 0 .. Len(q) : P(j) \in Seq(S)
    BY PartsOf
  <1>2. Len(q) \in Nat /\ \A j \in 1 .. Len(q) : q[j] \in Seq(S) /\ j - 1 \in 0 .. Len(q)
    OBVIOUS
  <1> HIDE DEF P
  <1>3. /\ Len(P(k)) = at + Len(q[k])
        /\ \A x \in 1 .. Len(q[k]) : P(k)[at + x] = q[k][x]
    <2>1. P(k - 1) \in Seq(S) /\ q[k] \in Seq(S) /\ P(k) = P(k - 1) \o q[k]
      BY <1>1, <1>2
    <2>2. QED  BY <2>1, InJoined
  <1>4. at \in Nat /\ Len(q[k]) \in Nat /\ Len(P(k)) \in Nat
    <2>1. P(k - 1) \in Seq(S) /\ q[k] \in Seq(S)
      BY <1>1, <1>2
    <2>2. P(k) \in Seq(S)
      BY <1>1, <1>2
    <2>3. QED  BY <2>1, <2>2
  <1>5. k \in E /\ 0 \in E
    <2>1. k \in 0 .. Len(q) /\ 0 \in 0 .. Len(q) /\ 0 < k
      BY <1>2
    <2>2. Found(k)
      BY <1>3, <1>4
    <2> HIDE DEF Found
    <2>3. QED  BY <2>1, <2>2
  <1>6. ASSUME NEW j \in 0 .. Len(q) - 1, j \in E
        PROVE  j + 1 \in E
    <2>1. j + 1 \in 1 .. Len(q) /\ j + 1 \in 0 .. Len(q) /\ j \in 0 .. Len(q)
      BY <1>2
    <2>2. CASE j + 1 < k
      BY <2>1, <2>2
    <2>3. CASE j + 1 = k
      BY <1>5, <2>3
    <2>4. CASE j >= k
      <3>1. Found(j)
        BY <1>2, <1>6, <2>4
      <3>2. P(j + 1) = P(j) \o q[j + 1] /\ P(j) \in Seq(S) /\ q[j + 1] \in Seq(S)
        <4>1. (j + 1) - 1 = j
          BY <1>2
        <4>2. QED  BY <1>1, <1>2, <2>1, <4>1
      <3>3. /\ Len(P(j + 1)) = Len(P(j)) + Len(q[j + 1])
            /\ \A x \in 1 .. Len(P(j)) : P(j + 1)[x] = P(j)[x]
        BY <3>2, InJoined
      <3>4. Len(P(j)) \in Nat /\ Len(q[j + 1]) \in Nat
        BY <3>2
      <3>5. Found(j + 1)
        <4>1. \A x \in 1 .. Len(q[k]) : at + x \in 1 .. Len(P(j))
          <5> DEFINE a == at
                     n == Len(q[k])
                     b == Len(P(j))
          <5>1. a \in Nat /\ n \in Nat /\ b \in Nat /\ a + n <= b
            BY <1>3, <1>4, <3>1, <3>4
          <5> HIDE DEF a, n, b
          <5>2. \A x \in 1 .. n : a + x \in 1 .. b
            BY <5>1
          <5>3. QED  BY <5>2 DEF a, n, b
        <4>2. Len(P(k)) <= Len(P(j + 1))
          BY <1>4, <3>1, <3>3, <3>4, SMTT(30)
        <4>3. QED  BY <3>1, <3>3, <4>1, <4>2
      <3>6. QED  BY <2>1, <3>5
    <2>5. QED  BY <1>2, <2>1, <2>2, <2>3, <2>4
  <1>7. 0 .. Len(q) \subseteq E
    <2>1. \A j \in 0 .. Len(q) - 1 : j \in E => j + 1 \in E
      BY <1>6
    <2> HIDE DEF E
    <2>2. QED  BY <1>2, <1>5, <2>1, UptoInduction
  <1>8. l \in E
    BY <1>7
  <1>9. k <= l => Found(l)
    BY <1>2, <1>8
  <1>10. QED  BY <1>3, <1>9 DEF P

-----------------------------------------------------------------------------
(* What an item puts where.                                                *)

\* An item as it is sent, behind others or the first of a message.
Sent(p, item) ==
    /\ item \in Item
    /\ \A j \in DOMAIN item.fields :
         /\ Plain(item.fields[j])
         /\ item.fields[j] = <<>> => j = 1 \/ item.fields[j - 1] # <<>>
    /\ Plain(item.tail)
    /\ Ordered(p, item) => Complete(p, item.fields)

\* The characters of its first j fields.
Chars(item, j) == Len(Part(Closed(item.fields), j))
\* Those before END.
Body(item) == Chars(item, Len(item.fields)) + Len(item.tail)

LEMMA ClosedRows ==
  ASSUME NEW p, NEW item, Sent(p, item)
  PROVE  /\ Closed(item.fields) \in Seq(Seq(Character \ {NUL, END}))
         /\ Len(Closed(item.fields)) = Len(item.fields) /\ Len(item.fields) \in Nat
         /\ \A j \in 1 .. Len(item.fields) :
              /\ Closed(item.fields)[j] = item.fields[j] \o <<SEP>>
              /\ item.fields[j] \in Seq(Character \ {NUL, END})
              /\ item.fields[j] \in Seq(Character \ {NUL, SEP, END})
         /\ item.fields \in Seq(Seq(STRING))
         /\ item.tail \in Seq(Character \ {NUL, SEP, END})
         /\ item.tail \in Seq(Character \ {NUL, END})
         /\ item.end \in {<<>>, <<END>>}
  <1> DEFINE f == item.fields
             T == Character \ {NUL, END}
  <1>1. f \in Seq(Seq(STRING)) /\ item.tail \in Seq(STRING) /\ item.end \in {<<>>, <<END>>}
    BY DEF Sent, Item
  <1>2. \A w : Plain(w) => w \in Seq(T) /\ w \in Seq(Character \ {NUL, SEP, END})
    <2> SUFFICES ASSUME NEW w, Plain(w)
                 PROVE  w \in Seq(T) /\ w \in Seq(Character \ {NUL, SEP, END})
      OBVIOUS
    <2>1. w \in Seq(STRING) /\ \A x \in 1 .. Len(w) : w[x] \in Character \ {NUL, SEP, END}
      BY DEF Plain, Character
    <2>2. QED  BY <2>1
  <1>3. Len(f) \in Nat /\ DOMAIN f = 1 .. Len(f)
    BY <1>1
  <1>4. \A j \in 1 .. Len(f) : f[j] \in Seq(T) /\ f[j] \in Seq(Character \ {NUL, SEP, END})
    BY <1>2, <1>3 DEF Sent
  <1>5. <<SEP>> \in Seq(T)
    <2>1. SEP \in T
      BY DEF Character, NUL, SEP, END
    <2> HIDE DEF T
    <2>2. QED  BY <2>1
  <1>6. \A j \in 1 .. Len(f) : f[j] \o <<SEP>> \in Seq(T)
    BY <1>4, <1>5
  <1>7. Closed(f) = [n \in 1 .. Len(f) |-> f[n] \o <<SEP>>]
    BY <1>3 DEF Closed
  <1>8. Closed(f) \in Seq(Seq(T)) /\ Len(Closed(f)) = Len(f)
    <2> DEFINE g == [n \in 1 .. Len(f) |-> f[n] \o <<SEP>>]
    <2> HIDE DEF T
    <2>1. g \in Seq(Seq(T)) /\ Len(g) = Len(f)
      BY <1>3, <1>6
    <2>2. QED  BY <1>7, <2>1
  <1>9. \A j \in 1 .. Len(f) : Closed(f)[j] = f[j] \o <<SEP>>
    BY <1>7
  <1>10. item.tail \in Seq(T) /\ item.tail \in Seq(Character \ {NUL, SEP, END})
    BY <1>2 DEF Sent
  <1>11. QED  BY <1>1, <1>3, <1>4, <1>8, <1>9, <1>10

LEMMA EndsAre ==
  ASSUME NEW e \in {<<>>, <<END>>}
  PROVE  /\ e \in Seq(Character) /\ Len(e) \in {0, 1}
         /\ Len(e) = 1 <=> e = <<END>>
  <1>1. END \in Character
    BY DEF Character
  <1>2. CASE e = <<>>
    BY <1>2
  <1>3. CASE e = <<END>>
    BY <1>1, <1>3
  <1>4. QED  BY <1>2, <1>3

LEMMA WiderRow ==
  ASSUME NEW R, NEW S \in SUBSET R, NEW q \in Seq(S)
  PROVE  q \in Seq(R)
  OBVIOUS

LEMMA TextIsSeq ==
  ASSUME NEW p, NEW item, Sent(p, item)
  PROVE  Text(item) \in Seq(Character)
  <1> DEFINE T == Character \ {NUL, END}
             c == FlattenSeq(Closed(item.fields))
  <1>1. c \in Seq(T) /\ item.tail \in Seq(T) /\ item.end \in {<<>>, <<END>>}
    BY ClosedRows, RowOfRows
  <1>2. c \in Seq(Character) /\ item.tail \in Seq(Character) /\ item.end \in Seq(Character)
    <2>1. T \in SUBSET Character
      OBVIOUS
    <2> HIDE DEF T, c
    <2>2. QED  BY <1>1, <2>1, EndsAre, WiderRow
  <1> HIDE DEF c
  <1>3. c \o item.tail \o item.end \in Seq(Character)
    BY <1>2, TwoRows
  <1>4. QED  BY <1>3 DEF Text, c

LEMMA FieldsLie ==
  ASSUME NEW p, NEW item, Sent(p, item)
  PROVE  /\ Chars(item, 0) = 0
         /\ \A j \in 0 .. Len(item.fields) :
              /\ Chars(item, j) \in Nat
              /\ Chars(item, j) <= Chars(item, Len(item.fields))
         /\ \A j \in 1 .. Len(item.fields) :
              /\ Chars(item, j) = Chars(item, j - 1) + Len(item.fields[j]) + 1
              /\ \A x \in 1 .. Len(item.fields[j]) :
                   Text(item)[Chars(item, j - 1) + x] = item.fields[j][x]
              /\ Text(item)[Chars(item, j)] = SEP
  <1> DEFINE f == item.fields
             T == Character \ {NUL, END}
             q == Closed(f)
             c == FlattenSeq(q)
             U(j) == Len(Part(q, j))
  <1>1. q \in Seq(Seq(T)) /\ Len(q) = Len(f) /\ Len(f) \in Nat
    BY ClosedRows
  <1>2. \A j \in 1 .. Len(f) : q[j] = f[j] \o <<SEP>> /\ f[j] \in Seq(T)
    BY ClosedRows
  <1>3. \A j \in 1 .. Len(f) : /\ Len(f[j]) \in Nat /\ Len(q[j]) = Len(f[j]) + 1
                               /\ \A x \in 1 .. Len(f[j]) : q[j][x] = f[j][x]
                               /\ q[j][Len(f[j]) + 1] = SEP
    BY <1>2 DEF NUL, SEP, END
  <1> HIDE DEF q, T
  <1>4. /\ Part(q, 0) = <<>> /\ Part(q, Len(f)) = c
        /\ \A j \in 0 .. Len(f) : Part(q, j) \in Seq(T)
    BY <1>1, PartsOf
  <1>5. U(0) = 0 /\ \A j \in 0 .. Len(f) : U(j) \in Nat
    BY <1>4
  <1>6. \A j \in 1 .. Len(f) :
          /\ U(j) = U(j - 1) + Len(q[j]) /\ U(j) <= U(Len(f))
          /\ \A x \in 1 .. Len(q[j]) : c[U(j - 1) + x] = q[j][x]
    <2> SUFFICES ASSUME NEW j \in 1 .. Len(f)
                 PROVE  /\ U(j) = U(j - 1) + Len(q[j]) /\ U(j) <= U(Len(f))
                        /\ \A x \in 1 .. Len(q[j]) : c[U(j - 1) + x] = q[j][x]
      OBVIOUS
    <2>1. j \in 1 .. Len(q) /\ Len(f) \in 0 .. Len(q) /\ j <= Len(f)
      BY <1>1
    <2>2. /\ Len(Part(q, j)) = Len(Part(q, j - 1)) + Len(q[j])
          /\ Len(Part(q, j)) <= Len(Part(q, Len(f)))
          /\ \A x \in 1 .. Len(q[j]) : Part(q, Len(f))[Len(Part(q, j - 1)) + x] = q[j][x]
      BY <1>1, <2>1, PartsLie
    <2> HIDE DEF c
    <2>3. QED  BY <1>4, <2>2
  <1>7. /\ item.tail \in Seq(T) /\ item.end \in Seq(Character) /\ c \in Seq(T)
    <2>1. item.tail \in Seq(T) /\ item.end \in {<<>>, <<END>>}
      BY ClosedRows DEF T
    <2>2. Len(f) \in 0 .. Len(f)
      BY <1>1
    <2> HIDE DEF c
    <2>3. QED  BY <1>4, <2>1, <2>2, EndsAre
  <1>8. Text(item) = c \o item.tail \o item.end
    BY DEF Text, q
  <1>9. \A x \in 1 .. Len(c) : Text(item)[x] = c[x]
    <2>1. c \in Seq(Character) /\ item.tail \in Seq(Character)
      BY <1>7 DEF T
    <2> HIDE DEF c
    <2>2. c \o item.tail \in Seq(Character)
      BY <2>1, TwoRows
    <2>3. /\ Len(c \o item.tail) = Len(c) + Len(item.tail)
          /\ \A x \in 1 .. Len(c) : (c \o item.tail)[x] = c[x]
      BY <2>1, InJoined
    <2>4. \A x \in 1 .. Len(c \o item.tail) :
            ((c \o item.tail) \o item.end)[x] = (c \o item.tail)[x]
      BY <1>7, <2>2, InJoined
    <2>5. Len(c) \in Nat /\ Len(item.tail) \in Nat
      BY <2>1
    <2>6. \A x \in 1 .. Len(c) : x \in 1 .. Len(c \o item.tail)
      BY <2>3, <2>5
    <2>7. QED  BY <1>8, <2>3, <2>4, <2>6
  <1>10. Len(c) = U(Len(f))
    BY <1>4
  <1> HIDE DEF U, c
  <1>11. \A j \in 1 .. Len(f) : \A x \in 1 .. Len(q[j]) :
            U(j - 1) + x \in 1 .. Len(c) /\ Text(item)[U(j - 1) + x] = q[j][x]
    <2> SUFFICES ASSUME NEW j \in 1 .. Len(f), NEW x \in 1 .. Len(q[j])
                 PROVE  U(j - 1) + x \in 1 .. Len(c) /\ Text(item)[U(j - 1) + x] = q[j][x]
      OBVIOUS
    <2>1. j - 1 \in 0 .. Len(f) /\ j \in 0 .. Len(f) /\ Len(f) \in 0 .. Len(f)
      BY <1>1
    <2>2. U(j - 1) \in Nat /\ U(j) \in Nat /\ U(Len(f)) \in Nat /\ Len(q[j]) \in Nat
      BY <1>3, <1>5, <2>1
    <2>3. U(j - 1) + x \in 1 .. Len(c)
      BY <1>6, <1>10, <2>2
    <2>4. QED  BY <1>6, <1>9, <2>3
  <1>12. ASSUME NEW j \in 1 .. Len(f)
         PROVE  /\ U(j) = U(j - 1) + Len(f[j]) + 1
                /\ \A x \in 1 .. Len(f[j]) : Text(item)[U(j - 1) + x] = f[j][x]
                /\ Text(item)[U(j)] = SEP
    <2>1. j - 1 \in 0 .. Len(f)
      BY <1>1
    <2>2. U(j - 1) \in Nat /\ Len(f[j]) \in Nat /\ Len(q[j]) = Len(f[j]) + 1
      BY <1>3, <1>5, <2>1
    <2>3. U(j) = U(j - 1) + Len(f[j]) + 1 /\ U(j) = U(j - 1) + (Len(f[j]) + 1)
      BY <1>6, <2>2
    <2>4. Len(f[j]) + 1 \in 1 .. Len(q[j]) /\ 1 .. Len(f[j]) \subseteq 1 .. Len(q[j])
      BY <2>2
    <2>5. /\ \A x \in 1 .. Len(f[j]) : q[j][x] = f[j][x]
          /\ q[j][Len(f[j]) + 1] = SEP
      BY <1>3
    <2>6. \A x \in 1 .. Len(q[j]) : Text(item)[U(j - 1) + x] = q[j][x]
      BY <1>11
    <2>7. QED  BY <2>3, <2>4, <2>5, <2>6
  <1>13. \A j \in 0 .. Len(f) : U(j) <= U(Len(f))
    <2>1. U(Len(f)) >= 0
      BY <1>1, <1>5
    <2>2. \A j \in 0 .. Len(f) : j = 0 \/ j \in 1 .. Len(f)
      BY <1>1
    <2>3. QED  BY <1>5, <1>6, <2>1, <2>2
  <1>14. \A j : Chars(item, j) = U(j)
    BY DEF Chars, U, q
  <1>15. QED  BY <1>5, <1>12, <1>13, <1>14

LEMMA OneMore ==
  ASSUME NEW a \in Nat, NEW e \in {0, 1}
  PROVE  /\ \A x \in 1 .. a + e : x \notin 1 .. a => x = a + 1 /\ e = 1
         /\ a + e \in Nat /\ a + e >= a /\ (e = 1 => a + e = a + 1 /\ a + e # 0)
  OBVIOUS

LEMMA TailLies ==
  ASSUME NEW p, NEW item, Sent(p, item)
  PROVE  /\ Body(item) \in Nat /\ Len(item.tail) \in Nat
         /\ Body(item) = Chars(item, Len(item.fields)) + Len(item.tail)
         /\ Text(item) \in Seq(Character) /\ Len(Text(item)) = Body(item) + Len(item.end)
         /\ \A x \in 1 .. Len(item.tail) :
              Text(item)[Chars(item, Len(item.fields)) + x] = item.tail[x]
         /\ item.end = <<END>> => Text(item)[Body(item) + 1] = END
         /\ \A x \in 1 .. Body(item) : Text(item)[x] \notin {NUL, END}
         /\ item.fields = <<>> => \A x \in 1 .. Len(Text(item)) : Text(item)[x] \notin {NUL, SEP}
  <1> DEFINE f == item.fields
             T == Character \ {NUL, END}
             q == Closed(f)
             c == FlattenSeq(q)
             d == c \o item.tail
  <1>1. q \in Seq(Seq(T)) /\ Len(q) = Len(f) /\ Len(f) \in Nat
    BY ClosedRows
  <1>2. /\ item.tail \in Seq(T) /\ item.tail \in Seq(Character \ {NUL, SEP, END})
        /\ item.end \in {<<>>, <<END>>}
    BY ClosedRows
  <1>3. T \in SUBSET Character /\ \A x \in T : x \notin {NUL, END}
    OBVIOUS
  <1>4. Text(item) = d \o item.end
    BY DEF Text
  <1> HIDE DEF T, q
  <1>5. c \in Seq(T) /\ Part(q, Len(f)) = c /\ Part(q, 0) = <<>>
    BY <1>1, RowOfRows, PartsOf
  <1>6. Chars(item, Len(f)) = Len(c)
    BY <1>5 DEF Chars, q
  <1> HIDE DEF c
  <1>7. /\ d \in Seq(T) /\ Len(d) = Len(c) + Len(item.tail)
        /\ \A x \in 1 .. Len(item.tail) : d[Len(c) + x] = item.tail[x]
    BY <1>2, <1>5, TwoRows, InJoined
  <1>8. Body(item) = Len(d) /\ Body(item) \in Nat /\ Len(item.tail) \in Nat /\ Len(c) \in Nat
    BY <1>2, <1>5, <1>6, <1>7 DEF Body
  <1> HIDE DEF d
  <1>9. d \in Seq(Character) /\ item.end \in Seq(Character)
    BY <1>2, <1>3, <1>7, WiderRow, EndsAre
  <1>10. /\ Len(Text(item)) = Len(d) + Len(item.end)
         /\ \A x \in 1 .. Len(d) : Text(item)[x] = d[x]
         /\ \A x \in 1 .. Len(item.end) : Text(item)[Len(d) + x] = item.end[x]
         /\ Text(item) \in Seq(Character)
    BY <1>4, <1>9, InJoined, TwoRows
  <1>11. item.end = <<END>> => Text(item)[Body(item) + 1] = END
    <2>1. item.end = <<END>> => 1 \in 1 .. Len(item.end) /\ item.end[1] = END
      OBVIOUS
    <2>2. QED  BY <1>8, <1>10, <2>1
  <1>12. \A x \in 1 .. Body(item) : Text(item)[x] \notin {NUL, END}
    <2>1. \A x \in 1 .. Len(d) : d[x] \in T
      BY <1>7
    <2>2. QED  BY <1>3, <1>8, <1>10, <2>1
  <1>13. \A x \in 1 .. Len(item.tail) : Text(item)[Len(c) + x] = item.tail[x]
    <2>1. \A x \in 1 .. Len(item.tail) : Len(c) + x \in 1 .. Len(d)
      BY <1>7, <1>8
    <2>2. QED  BY <1>7, <1>10, <2>1
  <1>14. ASSUME f = <<>>, NEW x \in 1 .. Len(Text(item))
         PROVE  Text(item)[x] \notin {NUL, SEP}
    <2>1. Len(f) = 0
      BY <1>14
    <2>2. Len(c) = 0
      BY <1>5, <2>1
    <2>3. Len(d) = Len(item.tail)
      BY <1>7, <1>8, <2>2
    <2>4. Len(item.end) \in {0, 1} /\ (Len(item.end) = 1 => item.end = <<END>>)
      BY <1>2, EndsAre
    <2>5. CASE x \in 1 .. Len(item.tail)
      <3>1. Text(item)[x] = item.tail[x]
        <4>1. Len(c) + x = x
          BY <2>2, <2>5
        <4>2. QED  BY <1>13, <2>5, <4>1
      <3>2. item.tail[x] \in Character \ {NUL, SEP, END}
        BY <1>2, <2>5
      <3>3. QED  BY <3>1, <3>2
    <2>6. CASE x \notin 1 .. Len(item.tail)
      <3>1. x \in 1 .. Len(item.tail) + Len(item.end)
        BY <1>10, <2>3
      <3>2. Len(item.tail) \in Nat
        BY <1>8
      <3>3. x = Len(item.tail) + 1 /\ Len(item.end) = 1
        BY <2>4, <2>6, <3>1, <3>2, OneMore
      <3>4. x = Body(item) + 1 /\ item.end = <<END>>
        BY <1>8, <2>3, <2>4, <3>3
      <3>5. QED  BY <1>11, <3>4 DEF NUL, SEP, END
    <2>7. QED  BY <2>5, <2>6
  <1>15. Body(item) = Chars(item, Len(f)) + Len(item.tail)
    BY DEF Body
  <1>16. /\ Text(item) \in Seq(Character) /\ Len(Text(item)) = Body(item) + Len(item.end)
         /\ \A x \in 1 .. Len(item.tail) : Text(item)[Chars(item, Len(f)) + x] = item.tail[x]
    BY <1>6, <1>8, <1>10, <1>13
  <1>17. QED  BY <1>8, <1>11, <1>12, <1>14, <1>15, <1>16

\* The buffer holds the item, from o on.
Holds(item, o) ==
    /\ o \in Nat /\ o + Len(Text(item)) <= Len(text)
    /\ \A x \in 1 .. Len(Text(item)) : text[o + x] = Text(item)[x]

LEMMA ItemAt ==
  ASSUME TextInv, NEW p, NEW item, Sent(p, item), NEW o, Holds(item, o)
  PROVE  /\ \A j \in 1 .. Len(item.fields) :
              /\ \A x \in 0 .. Len(item.fields[j]) - 1 :
                   At(o + Chars(item, j - 1) + x) = item.fields[j][x + 1]
              /\ At(o + Chars(item, j) - 1) = SEP
         /\ \A x \in 0 .. Len(item.tail) - 1 :
              At(o + Chars(item, Len(item.fields)) + x) = item.tail[x + 1]
         /\ item.end = <<END>> =>
              /\ At(o + Body(item)) = END /\ o + Body(item) < Len(text)
              /\ Len(Text(item)) = Body(item) + 1
         /\ \A k \in o .. o + Body(item) - 1 : At(k) \notin {NUL, END}
         /\ item.fields = <<>> =>
              \A k \in o .. o + Len(Text(item)) - 1 : At(k) \notin {NUL, SEP}
  <1> DEFINE f == item.fields
             U(j) == Chars(item, j)
             n == Len(Text(item))
             t == Len(item.tail)
             b == Body(item)
  <1>1. o \in Nat /\ o + n <= Len(text) /\ \A x \in 1 .. n : text[o + x] = Text(item)[x]
    BY DEF Holds
  <1>2. Len(text) \in Nat
    BY DEF TextInv
  <1>3. /\ b \in Nat /\ t \in Nat /\ b = U(Len(f)) + t /\ n = b + Len(item.end)
        /\ Text(item) \in Seq(Character)
        /\ \A x \in 1 .. t : Text(item)[U(Len(f)) + x] = item.tail[x]
        /\ item.end = <<END>> => Text(item)[b + 1] = END
        /\ \A x \in 1 .. b : Text(item)[x] \notin {NUL, END}
        /\ f = <<>> => \A x \in 1 .. n : Text(item)[x] \notin {NUL, SEP}
    BY TailLies
  <1>4. n \in Nat /\ n >= b /\ (item.end = <<END>> => n = b + 1)
    <2>1. item.end \in {<<>>, <<END>>}
      BY ClosedRows
    <2>2. Len(item.end) \in {0, 1} /\ (item.end = <<END>> => Len(item.end) = 1)
      BY <2>1, EndsAre
    <2>3. b \in Nat /\ n = b + Len(item.end)
      BY <1>3
    <2> HIDE DEF n, b
    <2>4. QED  BY <2>2, <2>3, OneMore
  <1>5. /\ U(0) = 0
        /\ \A j \in 0 .. Len(f) : U(j) \in Nat /\ U(j) <= U(Len(f))
        /\ \A j \in 1 .. Len(f) : /\ U(j) = U(j - 1) + Len(f[j]) + 1
                                  /\ \A x \in 1 .. Len(f[j]) : Text(item)[U(j - 1) + x] = f[j][x]
                                  /\ Text(item)[U(j)] = SEP
    BY FieldsLie
  <1>6. Len(f) \in Nat /\ \A j \in 1 .. Len(f) : Len(f[j]) \in Nat
    BY ClosedRows
  <1> HIDE DEF U, n, t, b
  <1>7. \A k \in 0 .. n - 1 : At(o + k) = Text(item)[k + 1]
    <2> SUFFICES ASSUME NEW k \in 0 .. n - 1 PROVE At(o + k) = Text(item)[k + 1]
      OBVIOUS
    <2>1. o + k < Len(text) /\ k + 1 \in 1 .. n /\ (o + k) + 1 = o + (k + 1)
      BY <1>1, <1>2, <1>4
    <2>2. At(o + k) = text[(o + k) + 1]
      BY <2>1 DEF At
    <2>3. QED  BY <1>1, <2>1, <2>2
  <1>8. ASSUME NEW j \in 1 .. Len(f)
        PROVE  /\ \A x \in 0 .. Len(f[j]) - 1 : At(o + U(j - 1) + x) = f[j][x + 1]
               /\ At(o + U(j) - 1) = SEP
    <2>1. j - 1 \in 0 .. Len(f) /\ j \in 0 .. Len(f) /\ Len(f) \in 0 .. Len(f)
      BY <1>6
    <2>2. /\ U(j - 1) \in Nat /\ U(j) \in Nat /\ Len(f[j]) \in Nat
          /\ U(j) = U(j - 1) + Len(f[j]) + 1 /\ U(j) <= n
      <3>1. U(j) <= U(Len(f)) /\ U(Len(f)) \in Nat /\ U(j) \in Nat /\ U(j - 1) \in Nat
        BY <1>5, <2>1
      <3>2. U(Len(f)) <= n
        BY <1>3, <1>4, <3>1
      <3>3. QED  BY <1>4, <1>5, <1>6, <3>1, <3>2
    <2>3. ASSUME NEW x \in 0 .. Len(f[j]) - 1
          PROVE  At(o + U(j - 1) + x) = f[j][x + 1]
      <3>1. U(j - 1) + x \in 0 .. n - 1 /\ x + 1 \in 1 .. Len(f[j])
        <4> DEFINE c == U(j - 1)
                   d == U(j)
                   l == Len(f[j])
        <4>1. /\ c \in Nat /\ d \in Nat /\ l \in Nat /\ n \in Nat /\ d = c + l + 1 /\ d <= n
              /\ x \in 0 .. l - 1
          BY <1>4, <2>2
        <4> HIDE DEF c, d, l
        <4>2. c + x \in 0 .. n - 1 /\ x + 1 \in 1 .. l
          BY <4>1
        <4>3. QED  BY <4>2 DEF c, l
      <3>2. o + U(j - 1) + x = o + (U(j - 1) + x) /\ (U(j - 1) + x) + 1 = U(j - 1) + (x + 1)
        <4> DEFINE c == U(j - 1)
        <4>1. o \in Int /\ c \in Int /\ x \in Int
          BY <1>1, <2>2
        <4> HIDE DEF c
        <4>2. o + c + x = o + (c + x) /\ (c + x) + 1 = c + (x + 1)
          BY <4>1
        <4>3. QED  BY <4>2 DEF c
      <3>3. At(o + (U(j - 1) + x)) = Text(item)[(U(j - 1) + x) + 1]
        BY <1>7, <3>1
      <3>4. Text(item)[U(j - 1) + (x + 1)] = f[j][x + 1]
        BY <1>5, <3>1
      <3>5. QED  BY <3>2, <3>3, <3>4
    <2>4. At(o + U(j) - 1) = SEP
      <3>1. U(j) - 1 \in 0 .. n - 1 /\ (U(j) - 1) + 1 = U(j) /\ o + U(j) - 1 = o + (U(j) - 1)
        <4> DEFINE d == U(j)
                   c == U(j - 1)
                   l == Len(f[j])
        <4>1. /\ c \in Nat /\ d \in Nat /\ l \in Nat /\ d = c + l + 1 /\ d <= n
              /\ n \in Nat /\ o \in Nat
          BY <1>1, <1>4, <2>2
        <4> HIDE DEF c, d, l
        <4>2. d - 1 \in 0 .. n - 1 /\ (d - 1) + 1 = d /\ o + d - 1 = o + (d - 1)
          BY <4>1
        <4>3. QED  BY <4>2 DEF d
      <3>2. QED  BY <1>5, <1>7, <3>1
    <2>5. QED  BY <2>3, <2>4
  <1>9. ASSUME NEW x \in 0 .. t - 1
        PROVE  At(o + U(Len(f)) + x) = item.tail[x + 1]
    <2>1. U(Len(f)) \in Nat
      BY <1>5, <1>6
    <2>2. /\ U(Len(f)) + x \in 0 .. n - 1 /\ x + 1 \in 1 .. t
          /\ o + U(Len(f)) + x = o + (U(Len(f)) + x) /\ (U(Len(f)) + x) + 1 = U(Len(f)) + (x + 1)
      <3>1. o \in Int /\ U(Len(f)) \in Nat /\ x \in 0 .. t - 1 /\ t \in Nat
        BY <1>1, <1>3, <2>1
      <3>2. n \in Nat /\ U(Len(f)) + t <= n
        BY <1>3, <1>4
      <3>3. QED  BY <3>1, <3>2
    <2>3. QED  BY <1>3, <1>7, <2>2
  <1>10. ASSUME item.end = <<END>>
         PROVE  At(o + b) = END /\ o + b < Len(text) /\ n = b + 1
    <2>1. b \in 0 .. n - 1 /\ o + b < Len(text) /\ n = b + 1
      BY <1>1, <1>2, <1>3, <1>4, <1>10
    <2>2. QED  BY <1>3, <1>7, <1>10, <2>1
  <1>11. ASSUME NEW k \in o .. o + b - 1
         PROVE  At(k) \notin {NUL, END}
    <2>1. k - o \in 0 .. n - 1 /\ (k - o) + 1 \in 1 .. b /\ o + (k - o) = k
      <3>1. o \in Nat /\ b \in Nat /\ n \in Nat /\ b <= n /\ k \in o .. o + b - 1
        BY <1>1, <1>3, <1>4
      <3>2. QED  BY <3>1
    <2>2. At(o + (k - o)) = Text(item)[(k - o) + 1]
      BY <1>7, <2>1
    <2>3. QED  BY <1>3, <2>1, <2>2
  <1>12. ASSUME f = <<>>, NEW k \in o .. o + n - 1
         PROVE  At(k) \notin {NUL, SEP}
    <2>1. k - o \in 0 .. n - 1 /\ (k - o) + 1 \in 1 .. n /\ o + (k - o) = k
      <3>1. o \in Nat /\ n \in Nat /\ k \in o .. o + n - 1
        BY <1>1, <1>4
      <3>2. QED  BY <3>1
    <2>2. At(o + (k - o)) = Text(item)[(k - o) + 1]
      BY <1>7, <2>1
    <2>3. QED  BY <1>3, <1>12, <2>1, <2>2
  <1>13. QED  BY <1>8, <1>9, <1>10, <1>11, <1>12 DEF U, n, t, b

-----------------------------------------------------------------------------
(* The cursor.                                                             *)

LEMMA SizesNat == TCP_RX_BUFSIZE \in Nat \ {0} /\ ACCOUNT_MAX \in Nat \ {0}
  BY SizeAssumption

\* What is read as a character is one that was received.
LEMMA Received ==
  ASSUME CommandsInv, NEW k \in Nat
  PROVE  /\ Len(text) \in Nat /\ Len(text) <= TCP_RX_BUFSIZE
         /\ At(k) # NUL => k < Len(text)
         /\ k >= Len(text) => At(k) = NUL
  BY SizesNat DEF CommandsInv, TypeOK, TextInv, At

\* A name ends in the buffer, or where it begins.
LEMMA NameEnds ==
  ASSUME CommandsInv, NEW k \in 0 .. TCP_RX_BUFSIZE + 1
  PROVE  /\ NameEnd(k) \in Nat /\ NameEnd(k) >= k
         /\ k <= TCP_RX_BUFSIZE => NameEnd(k) <= TCP_RX_BUFSIZE
         /\ k > TCP_RX_BUFSIZE => NameEnd(k) = k
  <1> DEFINE N == {n \in k .. k + ACCOUNT_MAX + 1 :
                     \/ At(n) \in {NUL, SEP} \/ n >= TCP_RX_BUFSIZE
                     \/ n = k + ACCOUNT_MAX + 1}
  <1>1. NameEnd(k) = Min(N)
    BY DEF NameEnd
  <1>2. N \in SUBSET Nat /\ k + ACCOUNT_MAX + 1 \in N
    BY SizesNat
  <1>3. \A n \in N : n >= k
    BY SizesNat
  <1>4. CASE k <= TCP_RX_BUFSIZE
    <2>1. \/ TCP_RX_BUFSIZE \in N
          \/ k + ACCOUNT_MAX + 1 <= TCP_RX_BUFSIZE
      BY <1>4, SizesNat
    <2> HIDE DEF N
    <2>2. Min(N) \in N /\ Min(N) \in Nat /\ \A n \in N : Min(N) <= n
      BY <1>2, LeastIs
    <2>3. QED  BY <1>1, <1>2, <1>3, <1>4, <2>1, <2>2, SizesNat
  <1>5. CASE k > TCP_RX_BUFSIZE
    <2>1. k \in N
      BY <1>5, SizesNat
    <2> HIDE DEF N
    <2>2. Min(N) \in N /\ Min(N) \in Nat /\ \A n \in N : Min(N) <= n
      BY <1>2, LeastIs
    <2>3. QED  BY <1>1, <1>2, <1>3, <1>5, <2>1, <2>2, SizesNat
  <1>6. QED  BY <1>4, <1>5, SizesNat

\* The search for END stops at the end of the buffer, or where it begins.
LEMMA SkipsTo ==
  ASSUME CommandsInv, NEW k \in 0 .. TCP_RX_BUFSIZE + 1, Skip(k)
  PROVE  i' \in k + 1 .. TCP_RX_BUFSIZE + 2
  <1> DEFINE N == {n \in k .. Max({k, TCP_RX_BUFSIZE}) :
                     At(n) \in {NUL, END} \/ n >= TCP_RX_BUFSIZE}
             top == Max({k, TCP_RX_BUFSIZE})
  <1>1. i' = Min(N) + 1
    BY DEF Skip
  <1>2. top = IF k >= TCP_RX_BUFSIZE THEN k ELSE TCP_RX_BUFSIZE
    <2> DEFINE big == IF k >= TCP_RX_BUFSIZE THEN k ELSE TCP_RX_BUFSIZE
    <2>1. big \in {k, TCP_RX_BUFSIZE} /\ \A y \in {k, TCP_RX_BUFSIZE} : big >= y
      BY SizesNat
    <2>2. \A x \in {k, TCP_RX_BUFSIZE} :
             (\A y \in {k, TCP_RX_BUFSIZE} : x >= y) => x = big
      BY SizesNat
    <2> HIDE DEF big
    <2>3. top = big
      BY <2>1, <2>2 DEF Max
    <2>4. QED  BY <2>3 DEF big
  <1>3. N \in SUBSET Nat /\ \A n \in N : n >= k
    BY <1>2, SizesNat
  <1>4. top \in N /\ top <= TCP_RX_BUFSIZE + 1
    BY <1>2, SizesNat
  <1> HIDE DEF N, top
  <1>5. Min(N) \in N /\ Min(N) \in Nat /\ \A n \in N : Min(N) <= n
    BY <1>3, <1>4, LeastIs
  <1>6. QED  BY <1>1, <1>2, <1>3, <1>4, <1>5, SizesNat

\* Where a turn finds what it reads.
LEMMA Places ==
  ASSUME CommandsInv, Reading
  PROVE  /\ i \in 0 .. TCP_RX_BUFSIZE - 1
         /\ Field(i) => i + 2 <= Len(text) /\ s \in i + 3 .. TCP_RX_BUFSIZE + 1
         /\ Field(i) /\ Field(s) => s + 2 <= Len(text) /\ v = s + 2
         /\ Len(text) \in Nat /\ Len(text) <= TCP_RX_BUFSIZE
  <1>1. i \in 0 .. TCP_RX_BUFSIZE - 1
    BY SizesNat DEF CommandsInv, TypeOK, Reading
  <1>2. Len(text) \in Nat /\ Len(text) <= TCP_RX_BUFSIZE
    BY <1>1, Received
  <1>3. \A k \in Nat : Field(k) => k + 2 <= Len(text)
    <2> SUFFICES ASSUME NEW k \in Nat, Field(k) PROVE k + 2 <= Len(text)
      OBVIOUS
    <2>1. At(k + 1) = SEP
      BY DEF Field
    <2>2. At(k + 1) # NUL
      BY <2>1 DEF SEP, NUL
    <2>3. k + 1 < Len(text)
      BY <2>2, Received
    <2>4. QED  BY <1>2, <2>3
  <1>4. Field(i) => i + 2 <= Len(text) /\ s \in i + 3 .. TCP_RX_BUFSIZE + 1
    <2> SUFFICES ASSUME Field(i) PROVE i + 2 <= Len(text) /\ s \in i + 3 .. TCP_RX_BUFSIZE + 1
      OBVIOUS
    <2>1. i + 2 <= Len(text)
      BY <1>1, <1>3
    <2>2. i + 2 \in 0 .. TCP_RX_BUFSIZE
      BY <1>1, <1>2, <2>1, SizesNat
    <2>3. NameEnd(i + 2) \in Nat /\ NameEnd(i + 2) >= i + 2 /\ NameEnd(i + 2) <= TCP_RX_BUFSIZE
      BY <2>2, NameEnds, SizesNat
    <2>4. QED  BY <1>1, <2>1, <2>3, SizesNat DEF s
  <1>5. Field(i) /\ Field(s) => s + 2 <= Len(text) /\ v = s + 2
    BY <1>1, <1>3, <1>4, SizesNat DEF v
  <1>6. QED  BY <1>1, <1>2, <1>4, <1>5

-----------------------------------------------------------------------------
(* What a turn finds in an item.                                           *)

\* The item is in the buffer from o on, and ends there.
Placed(item, o) ==
    /\ Sent(peer, item) /\ Holds(item, o) /\ item.end = <<END>>
    /\ At(o + Body(item) + 1) # SEP

\* Where its fields are, and where its END is.
LEMMA PlacesIn ==
  ASSUME CommandsInv, NEW item, NEW o, Placed(item, o)
  PROVE  /\ o \in Nat /\ Body(item) \in Nat /\ Len(item.fields) \in Nat
         /\ Chars(item, 0) = 0
         /\ \A j \in 0 .. Len(item.fields) :
              Chars(item, j) \in Nat /\ Chars(item, j) <= Body(item)
         /\ \A j \in 1 .. Len(item.fields) :
              /\ Len(item.fields[j]) \in Nat
              /\ Chars(item, j) = Chars(item, j - 1) + Len(item.fields[j]) + 1
         /\ Len(item.tail) \in Nat
         /\ Body(item) = Chars(item, Len(item.fields)) + Len(item.tail)
         /\ o + Body(item) < TCP_RX_BUFSIZE
         /\ o + Body(item) < Len(text)
         /\ Len(Text(item)) = Body(item) + 1
  <1>1. o \in Nat /\ Sent(peer, item) /\ Holds(item, o) /\ item.end = <<END>>
    BY DEF Placed, Holds
  <1>2. TextInv /\ Len(text) \in Nat /\ Len(text) <= TCP_RX_BUFSIZE
    BY DEF CommandsInv, TextInv, TypeOK
  <1>3. /\ Body(item) \in Nat /\ Len(item.tail) \in Nat
        /\ Body(item) = Chars(item, Len(item.fields)) + Len(item.tail)
    BY <1>1, TailLies
  <1>4. o + Body(item) < Len(text) /\ Len(Text(item)) = Body(item) + 1
    BY <1>1, <1>2, ItemAt
  <1>5. Len(item.fields) \in Nat /\ \A j \in 1 .. Len(item.fields) : Len(item.fields[j]) \in Nat
    BY <1>1, ClosedRows
  <1>6. /\ Chars(item, 0) = 0
        /\ \A j \in 0 .. Len(item.fields) :
             Chars(item, j) \in Nat /\ Chars(item, j) <= Chars(item, Len(item.fields))
        /\ \A j \in 1 .. Len(item.fields) :
             Chars(item, j) = Chars(item, j - 1) + Len(item.fields[j]) + 1
    BY <1>1, FieldsLie
  <1>7. \A j \in 0 .. Len(item.fields) :
             Chars(item, j) \in Nat /\ Chars(item, j) <= Body(item)
    <2>1. Len(item.fields) \in 0 .. Len(item.fields)
      BY <1>5
    <2>2. Chars(item, Len(item.fields)) \in Nat
      BY <1>6, <2>1
    <2>3. Chars(item, Len(item.fields)) <= Body(item)
      BY <1>3, <2>2
    <2>4. QED  BY <1>3, <1>6, <2>2, <2>3
  <1>8. o + Body(item) < TCP_RX_BUFSIZE
    BY <1>1, <1>2, <1>3, <1>4, SizesNat
  <1>9. QED  BY <1>1, <1>3, <1>4, <1>5, <1>6, <1>7, <1>8

\* The search for END from k on finds the item's.
LEMMA SkipsItem ==
  ASSUME CommandsInv, NEW item, NEW o, Placed(item, o),
         NEW k \in o .. o + Body(item), Skip(k)
  PROVE  i' = o + Body(item) + 1 /\ acts' = acts
  <1> DEFINE N == {n \in k .. Max({k, TCP_RX_BUFSIZE}) :
                     At(n) \in {NUL, END} \/ n >= TCP_RX_BUFSIZE}
             e == o + Body(item)
  <1>1. i' = Min(N) + 1 /\ acts' = acts
    BY DEF Skip
  <1>2. /\ o \in Nat /\ Body(item) \in Nat /\ e < TCP_RX_BUFSIZE /\ e \in Nat
    BY PlacesIn
  <1>3. At(e) = END /\ \A n \in o .. e - 1 : At(n) \notin {NUL, END}
    <2>1. TextInv /\ Sent(peer, item) /\ Holds(item, o) /\ item.end = <<END>>
      BY DEF Placed, CommandsInv
    <2>2. /\ At(o + Body(item)) = END
          /\ \A n \in o .. o + Body(item) - 1 : At(n) \notin {NUL, END}
      BY <2>1, ItemAt
    <2>3. e - 1 = o + Body(item) - 1
      BY <1>2
    <2>4. QED  BY <2>2, <2>3
  <1>4. Max({k, TCP_RX_BUFSIZE}) = TCP_RX_BUFSIZE
    <2>1. \A x \in {k, TCP_RX_BUFSIZE} : TCP_RX_BUFSIZE >= x
      BY <1>2, SizesNat
    <2>2. \A x \in {k, TCP_RX_BUFSIZE} :
             (\A y \in {k, TCP_RX_BUFSIZE} : x >= y) => x = TCP_RX_BUFSIZE
      BY <1>2, SizesNat
    <2>3. QED  BY <2>1, <2>2 DEF Max
  <1> HIDE DEF e
  <1>5. k \in o .. e
    BY DEF e
  <1>6. N \in SUBSET Nat /\ e \in N /\ \A n \in N : n >= e
    <2>1. N \in SUBSET Nat
      BY <1>2, <1>5
    <2>2. e \in k .. TCP_RX_BUFSIZE
      BY <1>2, <1>5, SizesNat
    <2>3. e \in N
      BY <1>3, <1>4, <2>2
    <2>4. ASSUME NEW n \in N PROVE n >= e
      <3>1. n \in k .. TCP_RX_BUFSIZE /\ (At(n) \in {NUL, END} \/ n >= TCP_RX_BUFSIZE)
        BY <1>4
      <3>2. CASE n < e
        <4>1. n \in o .. e - 1 /\ ~(n >= TCP_RX_BUFSIZE)
          BY <1>2, <1>5, <3>1, <3>2, SizesNat
        <4>2. QED  BY <1>3, <3>1, <4>1
      <3>3. QED  BY <1>2, <1>5, <3>1, <3>2, SizesNat
    <2>5. QED  BY <2>1, <2>3, <2>4
  <1> HIDE DEF N
  <1>7. Min(N) \in N /\ Min(N) \in Nat /\ \A y \in N : Min(N) <= y
    BY <1>6, LeastIs
  <1>8. Min(N) = e
    BY <1>2, <1>6, <1>7
  <1>9. QED  BY <1>1, <1>8 DEF e

LEMMA NoneOneMore ==
  ASSUME NEW n \in Nat
  PROVE  n = 0 \/ n = 1 \/ n > 1
  OBVIOUS

\* The last character of a field is before a separator; no field behind the
\* first one is empty.
LEMMA FieldAt ==
  ASSUME CommandsInv, NEW item, NEW o, Placed(item, o), NEW t \in 0 .. Len(item.fields)
  PROVE  /\ Field(o + Chars(item, t)) <=> t < Len(item.fields) /\ One(item.fields[t + 1])
         /\ At(o + Chars(item, t) + 1) = SEP =>
              t < Len(item.fields) /\ (t > 0 => One(item.fields[t + 1]))
         /\ t < Len(item.fields) /\ One(item.fields[t + 1]) =>
              At(o + Chars(item, t)) = item.fields[t + 1][1]
         /\ At(o + Chars(item, t)) # NUL
         /\ At(o + Chars(item, t)) = END => t = Len(item.fields) /\ item.tail = <<>>
  <1> DEFINE f == item.fields
             J == Len(f)
             U(j) == Chars(item, j)
             b == Body(item)
  <1>1. /\ o \in Nat /\ b \in Nat /\ J \in Nat
        /\ \A j \in 0 .. J : U(j) \in Nat /\ U(j) <= b
        /\ \A j \in 1 .. J : Len(f[j]) \in Nat /\ U(j) = U(j - 1) + Len(f[j]) + 1
        /\ b = U(J) + Len(item.tail) /\ Len(item.tail) \in Nat
    BY PlacesIn
  <1>2. /\ \A j \in 1 .. J :
             /\ \A x \in 0 .. Len(f[j]) - 1 : At(o + U(j - 1) + x) = f[j][x + 1]
             /\ At(o + U(j) - 1) = SEP
        /\ \A x \in 0 .. Len(item.tail) - 1 : At(o + U(J) + x) = item.tail[x + 1]
        /\ At(o + b) = END
        /\ \A k \in o .. o + b - 1 : At(k) \notin {NUL, END}
    <2>1. TextInv /\ Sent(peer, item) /\ Holds(item, o) /\ item.end = <<END>>
      BY DEF Placed, CommandsInv
    <2>2. QED  BY <2>1, ItemAt
  <1>3. At(o + b + 1) # SEP
    BY DEF Placed
  <1>4. /\ \A j \in 1 .. J : f[j] \in Seq(Character \ {NUL, SEP, END})
        /\ item.tail \in Seq(Character \ {NUL, SEP, END})
    BY ClosedRows DEF Placed
  <1>5. /\ \A j \in 1 .. J : \A x \in 1 .. Len(f[j]) : f[j][x] \notin {NUL, SEP, END}
        /\ \A x \in 1 .. Len(item.tail) : item.tail[x] \notin {NUL, SEP, END}
    BY <1>4
  <1>6. \A j \in 2 .. J : Len(f[j]) > 0 \/ Len(f[j - 1]) > 0
    <2> SUFFICES ASSUME NEW j \in 2 .. J PROVE Len(f[j]) > 0 \/ Len(f[j - 1]) > 0
      OBVIOUS
    <2>1. /\ j \in 1 .. J /\ j - 1 \in 1 .. J /\ j # 1 /\ f \in Seq(Seq(STRING))
          /\ DOMAIN f = 1 .. J
      <3>1. f \in Seq(Seq(STRING))
        BY ClosedRows DEF Placed
      <3>2. J \in Nat
        BY <1>1
      <3> HIDE DEF J
      <3>3. j \in 1 .. J /\ j - 1 \in 1 .. J /\ j # 1
        BY <3>2
      <3> HIDE DEF f
      <3>4. DOMAIN f = 1 .. J
        BY <3>1 DEF J
      <3>5. QED  BY <3>1, <3>3, <3>4
    <2>2. f[j] # <<>> \/ f[j - 1] # <<>>
      BY <2>1 DEF Placed, Sent
    <2>3. /\ f[j] \in Seq(Character \ {NUL, SEP, END})
          /\ f[j - 1] \in Seq(Character \ {NUL, SEP, END})
      BY <1>4, <2>1
    <2>4. QED  BY <2>2, <2>3
  <1>7. NUL # SEP /\ NUL # END /\ SEP # END
    BY DEF NUL, SEP, END
  <1> HIDE DEF f, J, U, b
  <1>8. t \in 0 .. J
    BY DEF J, f
  \* What stands where a field does not go on.
  <1>9. ASSUME NEW j \in 1 .. J
        PROVE  /\ \A x \in 0 .. Len(f[j]) - 1 : At(o + U(j - 1) + x) \notin {NUL, SEP, END}
               /\ At(o + U(j - 1) + Len(f[j])) = SEP
    <2>1. j - 1 \in 0 .. J /\ j \in 0 .. J
      BY <1>1
    <2>2. /\ U(j - 1) \in Nat /\ Len(f[j]) \in Nat /\ U(j) = U(j - 1) + Len(f[j]) + 1
      BY <1>1, <2>1
    <2>3. o + U(j) - 1 = o + U(j - 1) + Len(f[j])
      BY <1>1, <2>2
    <2>4. ASSUME NEW x \in 0 .. Len(f[j]) - 1
          PROVE  At(o + U(j - 1) + x) \notin {NUL, SEP, END}
      <3>1. x + 1 \in 1 .. Len(f[j])
        BY <2>2
      <3>2. QED  BY <1>2, <1>5, <3>1
    <2>5. QED  BY <1>2, <2>3, <2>4
  <1>10. /\ \A x \in 0 .. Len(item.tail) - 1 : At(o + U(J) + x) \notin {NUL, SEP, END}
         /\ At(o + U(J) + Len(item.tail)) = END
    <2>1. \A x \in 0 .. Len(item.tail) - 1 : x + 1 \in 1 .. Len(item.tail)
      BY <1>1
    <2>2. J \in 0 .. J
      BY <1>1
    <2>3. U(J) \in Nat
      BY <1>1, <2>2
    <2>4. o + U(J) + Len(item.tail) = o + b
      BY <1>1, <2>3
    <2>5. QED  BY <1>2, <1>5, <2>1, <2>4
  <1>11. U(t) \in Nat /\ U(t) <= b /\ o + U(t) + 0 = o + U(t)
    BY <1>1, <1>8
  \* At the end of the fields.
  <1>12. CASE t = J
    <2>1. At(o + U(t)) \notin {NUL, SEP}
      <3>1. CASE Len(item.tail) = 0
        <4>1. o + U(t) + Len(item.tail) = o + U(t)
          BY <1>1, <1>11, <3>1
        <4>2. QED  BY <1>7, <1>10, <1>12, <4>1
      <3>2. CASE Len(item.tail) > 0
        <4>1. 0 \in 0 .. Len(item.tail) - 1
          BY <1>1, <3>2
        <4>2. QED  BY <1>10, <1>11, <1>12, <4>1
      <3>3. QED  BY <1>1, <3>1, <3>2
    <2>2. At(o + U(t) + 1) # SEP
      <3>1. CASE Len(item.tail) = 0
        <4>1. o + b + 1 = o + U(t) + 1
          BY <1>1, <1>11, <1>12, <3>1
        <4>2. QED  BY <1>3, <4>1 DEF b
      <3>2. CASE Len(item.tail) = 1
        BY <1>7, <1>10, <1>12, <3>2
      <3>3. CASE Len(item.tail) > 1
        <4>1. 1 \in 0 .. Len(item.tail) - 1
          BY <1>1, <3>3
        <4>2. QED  BY <1>10, <1>12, <4>1
      <3>4. Len(item.tail) = 0 \/ Len(item.tail) = 1 \/ Len(item.tail) > 1
        BY <1>1, NoneOneMore
      <3>5. QED  BY <3>1, <3>2, <3>3, <3>4
    <2>3. At(o + U(t)) = END => item.tail = <<>>
      <3>1. CASE Len(item.tail) > 0
        <4>1. 0 \in 0 .. Len(item.tail) - 1
          BY <1>1, <3>1
        <4>2. QED  BY <1>10, <1>11, <1>12, <4>1
      <3>2. CASE Len(item.tail) = 0
        BY <1>4, <3>2
      <3>3. QED  BY <1>1, <3>1, <3>2
    <2>4. ~(t < J)
      BY <1>1, <1>12
    <2>5. QED  BY <1>12, <2>1, <2>2, <2>3, <2>4 DEF Field, U, f, J
  \* At a field.
  <1>13. CASE t < J
    <2>1. t + 1 \in 1 .. J /\ (t + 1) - 1 = t
      BY <1>1, <1>8, <1>13
    <2>2. /\ Len(f[t + 1]) \in Nat
          /\ \A x \in 0 .. Len(f[t + 1]) - 1 : At(o + U(t) + x) \notin {NUL, SEP, END}
          /\ At(o + U(t) + Len(f[t + 1])) = SEP
          /\ \A x \in 0 .. Len(f[t + 1]) - 1 : At(o + U(t) + x) = f[t + 1][x + 1]
          /\ U(t + 1) = U(t) + Len(f[t + 1]) + 1
      <3>1. Len(f[t + 1]) \in Nat /\ U(t + 1) = U(t) + Len(f[t + 1]) + 1
        BY <1>1, <2>1
      <3>2. /\ \A x \in 0 .. Len(f[t + 1]) - 1 : At(o + U(t) + x) \notin {NUL, SEP, END}
            /\ At(o + U(t) + Len(f[t + 1])) = SEP
        BY <1>9, <2>1
      <3>3. \A x \in 0 .. Len(f[t + 1]) - 1 : At(o + U(t) + x) = f[t + 1][x + 1]
        BY <1>2, <2>1
      <3>4. QED  BY <3>1, <3>2, <3>3
    <2>3. At(o + U(t)) \notin {NUL, END}
      <3>1. CASE Len(f[t + 1]) = 0
        BY <1>7, <1>11, <2>2, <3>1
      <3>2. CASE Len(f[t + 1]) > 0
        <4>1. 0 \in 0 .. Len(f[t + 1]) - 1
          BY <2>2, <3>2
        <4>2. QED  BY <1>11, <2>2, <4>1
      <3>3. QED  BY <2>2, <3>1, <3>2
    <2>4. CASE Len(f[t + 1]) = 1
      <3>1. 0 \in 0 .. Len(f[t + 1]) - 1 /\ 0 + 1 = 1
        BY <2>4
      <3>2. At(o + U(t)) = f[t + 1][1] /\ At(o + U(t) + 1) = SEP
        BY <1>11, <2>2, <2>4, <3>1
      <3>3. QED  BY <1>13, <2>3, <2>4, <3>2 DEF Field, One, U, f, J
    <2>5. CASE Len(f[t + 1]) > 1
      <3>1. 1 \in 0 .. Len(f[t + 1]) - 1
        BY <2>2, <2>5
      <3>2. At(o + U(t) + 1) # SEP
        BY <2>2, <3>1
      <3>3. Len(f[t + 1]) # 1
        BY <2>2, <2>5
      <3>4. QED  BY <1>13, <2>3, <3>2, <3>3 DEF Field, One, U, f, J
    <2>6. CASE Len(f[t + 1]) = 0
      <3>1. Len(f[t + 1]) # 1
        BY <2>6
      <3>2. U(t + 1) = U(t) + 1 /\ o + U(t) + 1 = o + U(t + 1) /\ U(t + 1) \in Nat
        BY <1>1, <1>11, <2>2, <2>6
      <3>3. At(o + U(t + 1)) # SEP
        <4>1. CASE J = t + 1
          <5>1. CASE Len(item.tail) = 0
            <6>1. o + U(t + 1) + Len(item.tail) = o + U(t + 1)
              BY <1>1, <3>2, <5>1
            <6>2. QED  BY <1>7, <1>10, <4>1, <6>1
          <5>2. CASE Len(item.tail) > 0
            <6>1. 0 \in 0 .. Len(item.tail) - 1 /\ o + U(t + 1) + 0 = o + U(t + 1)
              BY <1>1, <3>2, <5>2
            <6>2. QED  BY <1>10, <4>1, <6>1
          <5>3. QED  BY <1>1, <5>1, <5>2
        <4>2. CASE J > t + 1
          <5>1. t + 2 \in 1 .. J /\ t + 2 \in 2 .. J /\ (t + 2) - 1 = t + 1
            BY <1>1, <1>8, <4>2
          <5>2. Len(f[t + 2]) > 0 /\ Len(f[t + 2]) \in Nat
            <6>1. Len(f[t + 2]) > 0 \/ Len(f[(t + 2) - 1]) > 0
              BY <1>6, <5>1
            <6>2. Len(f[(t + 2) - 1]) = 0 /\ Len(f[t + 2]) \in Nat
              BY <1>1, <2>6, <5>1
            <6>3. QED  BY <6>1, <6>2
          <5>3. 0 \in 0 .. Len(f[t + 2]) - 1 /\ o + U(t + 1) + 0 = o + U(t + 1)
            BY <1>1, <3>2, <5>2
          <5>4. \A x \in 0 .. Len(f[t + 2]) - 1 : At(o + U((t + 2) - 1) + x) \notin {NUL, SEP, END}
            BY <1>9, <5>1
          <5>5. At(o + U((t + 2) - 1) + 0) \notin {NUL, SEP, END}
            BY <5>3, <5>4
          <5>6. QED  BY <5>1, <5>3, <5>5
        <4>3. QED  BY <1>1, <1>8, <1>13, <4>1, <4>2
      <3>4. QED  BY <1>13, <2>3, <2>6, <3>1, <3>2, <3>3 DEF Field, One, U, f, J
    <2>7. Len(f[t + 1]) = 0 \/ Len(f[t + 1]) = 1 \/ Len(f[t + 1]) > 1
      BY <2>2, NoneOneMore
    <2>8. QED  BY <2>4, <2>5, <2>6, <2>7
  <1>14. QED  BY <1>1, <1>8, <1>12, <1>13

\* Where a name ends: not before something ends it, and not behind it.
LEMMA NameEndIs ==
  ASSUME CommandsInv, NEW k \in Nat
  PROVE  /\ NameEnd(k) \in k .. k + ACCOUNT_MAX + 1 /\ NameEnd(k) \in Nat
         /\ \A z \in k .. k + ACCOUNT_MAX + 1 :
              \/ At(z) \in {NUL, SEP} \/ z >= TCP_RX_BUFSIZE \/ z = k + ACCOUNT_MAX + 1
              => NameEnd(k) <= z
         /\ \A z \in k .. k + ACCOUNT_MAX + 1 :
              (\A x \in k .. z - 1 : At(x) \notin {NUL, SEP} /\ x < TCP_RX_BUFSIZE)
              => NameEnd(k) >= z
  <1> DEFINE N == {n \in k .. k + ACCOUNT_MAX + 1 :
                     \/ At(n) \in {NUL, SEP} \/ n >= TCP_RX_BUFSIZE
                     \/ n = k + ACCOUNT_MAX + 1}
  <1>1. NameEnd(k) = Min(N)
    BY DEF NameEnd
  <1>2. N \in SUBSET Nat /\ k + ACCOUNT_MAX + 1 \in N
    BY SizesNat
  <1>3. Min(N) \in N /\ Min(N) \in Nat /\ \A y \in N : Min(N) <= y
    <2> HIDE DEF N
    <2>1. QED  BY <1>2, LeastIs
  <1>4. ASSUME NEW z \in k .. k + ACCOUNT_MAX + 1,
               \A x \in k .. z - 1 : At(x) \notin {NUL, SEP} /\ x < TCP_RX_BUFSIZE
        PROVE  Min(N) >= z
    <2>1. CASE Min(N) < z
      <3>1. Min(N) \in k .. z - 1 /\ Min(N) # k + ACCOUNT_MAX + 1
        BY <1>3, <2>1, SizesNat
      <3>2. At(Min(N)) \notin {NUL, SEP} /\ Min(N) < TCP_RX_BUFSIZE
        BY <1>4, <3>1
      <3>3. At(Min(N)) \in {NUL, SEP} \/ Min(N) >= TCP_RX_BUFSIZE
        BY <1>3, <3>1
      <3>4. QED  BY <3>1, <3>2, <3>3, SizesNat
    <2>2. QED  BY <1>3, <2>1, SizesNat
  <1>5. \A z \in k .. k + ACCOUNT_MAX + 1 :
          \/ At(z) \in {NUL, SEP} \/ z >= TCP_RX_BUFSIZE \/ z = k + ACCOUNT_MAX + 1
          => z \in N
    OBVIOUS
  <1>6. Min(N) \in k .. k + ACCOUNT_MAX + 1
    BY <1>3
  <1> HIDE DEF N
  <1>7. QED  BY <1>1, <1>3, <1>4, <1>5, <1>6

LEMMA SameRow ==
  ASSUME NEW S, NEW q \in Seq(S), NEW R, NEW r \in Seq(R), Len(q) = Len(r),
         \A x \in 1 .. Len(q) : q[x] = r[x]
  PROVE  q = r
  OBVIOUS

LEMMA Slice ==
  ASSUME TextInv, NEW k \in Nat, NEW z \in Nat, k <= z, z <= Len(text)
  PROVE  /\ SubSeq(text, k + 1, z) \in Seq(Character)
         /\ Len(SubSeq(text, k + 1, z)) = z - k
         /\ \A x \in 1 .. z - k : SubSeq(text, k + 1, z)[x] = At(k + x - 1)
  <1>1. text \in Seq(Character) /\ Len(text) \in Nat
    BY DEF TextInv
  <1>2. /\ SubSeq(text, k + 1, z) \in Seq(Character)
        /\ Len(SubSeq(text, k + 1, z)) = z - k
        /\ \A x \in 1 .. z - k : SubSeq(text, k + 1, z)[x] = text[k + x]
    BY <1>1
  <1>3. ASSUME NEW x \in 1 .. z - k PROVE At(k + x - 1) = text[k + x]
    <2>1. (k + x - 1) + 1 = k + x /\ k + x - 1 < Len(text)
      BY <1>1
    <2>2. QED  BY <2>1 DEF At
  <1>4. QED  BY <1>2, <1>3

\* A field read for a name is that name, when it is not too long for one.
LEMMA NameAt ==
  ASSUME CommandsInv, NEW item, NEW o, Placed(item, o), NEW t \in 0 .. Len(item.fields) - 1
  PROVE  /\ Len(item.fields[t + 1]) <= ACCOUNT_MAX + 1 =>
              /\ NameEnd(o + Chars(item, t)) + 1 = o + Chars(item, t + 1)
              /\ Name(o + Chars(item, t)) = item.fields[t + 1]
         /\ Len(item.fields[t + 1]) > ACCOUNT_MAX + 1 =>
              /\ NameEnd(o + Chars(item, t)) + 1 <= o + Body(item)
              /\ NameEnd(o + Chars(item, t)) >= o + Chars(item, t)
              /\ Len(Name(o + Chars(item, t))) = ACCOUNT_MAX + 1
  <1> DEFINE w == item.fields[t + 1]
             n == Len(w)
             a == o + Chars(item, t)
  <1>1. t \in 0 .. Len(item.fields) /\ t + 1 \in 0 .. Len(item.fields)
        /\ t + 1 \in 1 .. Len(item.fields) /\ (t + 1) - 1 = t
    BY PlacesIn
  <1>2. /\ o \in Nat /\ n \in Nat /\ Chars(item, t) \in Nat
        /\ Chars(item, t + 1) = Chars(item, t) + n + 1
        /\ Chars(item, t + 1) <= Body(item) /\ Body(item) \in Nat
        /\ o + Body(item) < Len(text) /\ o + Body(item) < TCP_RX_BUFSIZE
    <2>1. /\ Len(item.fields[t + 1]) \in Nat
          /\ Chars(item, t + 1) = Chars(item, (t + 1) - 1) + Len(item.fields[t + 1]) + 1
      BY <1>1, PlacesIn
    <2>2. /\ Chars(item, t) \in Nat /\ Chars(item, t + 1) <= Body(item) /\ Body(item) \in Nat
          /\ o \in Nat /\ o + Body(item) < Len(text) /\ o + Body(item) < TCP_RX_BUFSIZE
      BY <1>1, PlacesIn
    <2>3. QED  BY <1>1, <2>1, <2>2
  <1>3. Len(text) \in Nat /\ TextInv /\ Len(text) <= TCP_RX_BUFSIZE
    BY DEF CommandsInv, TextInv, TypeOK
  <1>4. a \in Nat /\ a + n + 1 = o + Chars(item, t + 1) /\ a + n + 1 <= o + Body(item)
        /\ a + n + 1 < Len(text)
    <2> DEFINE c == Chars(item, t)
               d == Chars(item, t + 1)
               b == Body(item)
    <2>1. /\ o \in Nat /\ n \in Nat /\ c \in Nat /\ b \in Nat /\ Len(text) \in Nat
          /\ d = c + n + 1 /\ d <= b /\ o + b < Len(text) /\ a = o + c
      BY <1>2, <1>3
    <2> HIDE DEF w, n, c, d, b, a
    <2>2. a \in Nat /\ a + n + 1 = o + d
      BY <2>1
    <2>3. a + n + 1 <= o + b /\ a + n + 1 < Len(text)
      BY <2>1, <2>2
    <2>4. QED  BY <2>2, <2>3 DEF b, d
  <1>5. w \in Seq(Character \ {NUL, SEP, END})
    BY <1>1, ClosedRows DEF Placed
  <1>6. /\ \A x \in 0 .. n - 1 : At(o + Chars(item, t) + x) = w[x + 1]
        /\ At(o + Chars(item, t + 1) - 1) = SEP
    <2>1. TextInv /\ Sent(peer, item) /\ Holds(item, o)
      BY DEF Placed, CommandsInv
    <2>2. /\ \A x \in 0 .. Len(item.fields[t + 1]) - 1 :
               At(o + Chars(item, (t + 1) - 1) + x) = item.fields[t + 1][x + 1]
          /\ At(o + Chars(item, t + 1) - 1) = SEP
      <3>1. \A j \in 1 .. Len(item.fields) :
              /\ \A x \in 0 .. Len(item.fields[j]) - 1 :
                   At(o + Chars(item, j - 1) + x) = item.fields[j][x + 1]
              /\ At(o + Chars(item, j) - 1) = SEP
        BY <2>1, ItemAt
      <3>2. t + 1 \in 1 .. Len(item.fields)
        BY <1>1
      <3>3. QED  BY <3>1, <3>2
    <2>3. QED  BY <1>1, <2>2
  <1>7. At(a + n) = SEP
    <2>1. o + Chars(item, t + 1) - 1 = a + n
      BY <1>2
    <2>2. QED  BY <1>6, <2>1
  <1> HIDE DEF w, n, a
  <1>8. \A x \in 0 .. n - 1 : At(a + x) = w[x + 1] /\ At(a + x) \notin {NUL, SEP}
    <2>1. \A x \in 0 .. n - 1 : x + 1 \in 1 .. n
      BY <1>2
    <2>2. \A x \in 1 .. n : w[x] \notin {NUL, SEP}
      BY <1>5 DEF n
    <2>3. QED  BY <1>6, <2>1, <2>2 DEF a
  <1>9. \A x \in a .. (a + n) - 1 : At(x) \notin {NUL, SEP} /\ x < TCP_RX_BUFSIZE
    <2> SUFFICES ASSUME NEW x \in a .. (a + n) - 1
                 PROVE  At(x) \notin {NUL, SEP} /\ x < TCP_RX_BUFSIZE
      OBVIOUS
    <2>1. x - a \in 0 .. n - 1 /\ a + (x - a) = x
      BY <1>2, <1>4
    <2>2. x < TCP_RX_BUFSIZE
      BY <1>2, <1>3, <1>4, SizesNat
    <2>3. QED  BY <1>8, <2>1, <2>2
  <1>10. ASSUME n <= ACCOUNT_MAX + 1
         PROVE  NameEnd(a) = a + n /\ Name(a) = w
    <2>1. a + n \in a .. a + ACCOUNT_MAX + 1
      BY <1>2, <1>4, <1>10, SizesNat
    <2>2. NameEnd(a) = a + n
      <3>1. NameEnd(a) <= a + n
        BY <1>4, <1>7, <2>1, NameEndIs
      <3>2. NameEnd(a) >= a + n
        BY <1>4, <1>9, <2>1, NameEndIs
      <3> DEFINE y == NameEnd(a)
      <3>3. y \in Nat /\ a + n \in Nat
        <4>1. NameEnd(a) \in Nat
          BY <1>4, NameEndIs
        <4>2. a + n \in Nat
          BY <1>2, <1>4
        <4>3. QED  BY <4>1, <4>2
      <3>4. y <= a + n /\ y >= a + n
        BY <3>1, <3>2
      <3> HIDE DEF y
      <3>5. y = a + n
        BY <3>3, <3>4
      <3>6. QED  BY <3>5 DEF y
    <2>3. Name(a) = SubSeq(text, a + 1, a + n)
      BY <2>2 DEF Name
    <2>4. /\ SubSeq(text, a + 1, a + n) \in Seq(Character)
          /\ Len(SubSeq(text, a + 1, a + n)) = (a + n) - a
          /\ \A x \in 1 .. (a + n) - a : SubSeq(text, a + 1, a + n)[x] = At(a + x - 1)
      <3>1. a + n \in Nat /\ a <= a + n /\ a + n <= Len(text)
        BY <1>2, <1>3, <1>4
      <3>2. QED  BY <1>3, <1>4, <3>1, Slice
    <2>5. (a + n) - a = n
      BY <1>2, <1>4
    <2>6. \A x \in 1 .. n : At(a + x - 1) = w[x]
      <3> SUFFICES ASSUME NEW x \in 1 .. n PROVE At(a + x - 1) = w[x]
        OBVIOUS
      <3>1. x - 1 \in 0 .. n - 1 /\ (x - 1) + 1 = x
        BY <1>2
      <3>2. QED  BY <1>8, <3>1
    <2>7. SubSeq(text, a + 1, a + n) = w
      <3> DEFINE q == SubSeq(text, a + 1, a + n)
      <3>1. q \in Seq(Character) /\ Len(q) = Len(w)
        BY <2>4, <2>5 DEF n
      <3>2. \A x \in 1 .. Len(q) : q[x] = w[x]
        BY <2>4, <2>5, <2>6, <3>1 DEF n
      <3> HIDE DEF q
      <3>3. q = w
        BY <1>5, <3>1, <3>2, SameRow
      <3>4. QED  BY <3>3 DEF q
    <2>8. QED  BY <2>2, <2>3, <2>7
  <1>11. ASSUME n > ACCOUNT_MAX + 1
         PROVE  NameEnd(a) = a + ACCOUNT_MAX + 1 /\ Len(Name(a)) = ACCOUNT_MAX + 1
    <2>1. a + ACCOUNT_MAX + 1 \in a .. a + ACCOUNT_MAX + 1 /\ a + ACCOUNT_MAX + 1 \in Nat
      BY <1>4, SizesNat
    <2>2. \A x \in a .. (a + ACCOUNT_MAX + 1) - 1 : At(x) \notin {NUL, SEP} /\ x < TCP_RX_BUFSIZE
      <3>1. (a + ACCOUNT_MAX + 1) - 1 <= (a + n) - 1
        BY <1>2, <1>4, <1>11, SizesNat
      <3>2. \A x \in a .. (a + ACCOUNT_MAX + 1) - 1 : x \in a .. (a + n) - 1
        BY <1>2, <1>4, <3>1, SizesNat
      <3>3. QED  BY <1>9, <3>2
    <2>3. NameEnd(a) = a + ACCOUNT_MAX + 1
      <3>1. NameEnd(a) \in a .. a + ACCOUNT_MAX + 1
        BY <1>4, NameEndIs
      <3>2. NameEnd(a) >= a + ACCOUNT_MAX + 1
        BY <1>4, <2>1, <2>2, NameEndIs
      <3>3. QED  BY <1>4, <3>1, <3>2, SizesNat
    <2>4. a + ACCOUNT_MAX + 1 <= Len(text) /\ a <= a + ACCOUNT_MAX + 1
          /\ (a + ACCOUNT_MAX + 1) - a = ACCOUNT_MAX + 1
      BY <1>2, <1>3, <1>4, <1>11, SizesNat
    <2>5. Len(SubSeq(text, a + 1, a + ACCOUNT_MAX + 1)) = ACCOUNT_MAX + 1
      BY <1>3, <1>4, <2>1, <2>4, Slice
    <2>6. QED  BY <2>3, <2>5 DEF Name
  <1>12. n <= ACCOUNT_MAX + 1 => NameEnd(a) + 1 = o + Chars(item, t + 1) /\ Name(a) = w
    BY <1>4, <1>10
  <1>13. n > ACCOUNT_MAX + 1 => /\ NameEnd(a) + 1 <= o + Body(item) /\ NameEnd(a) >= a
                                /\ Len(Name(a)) = ACCOUNT_MAX + 1
    <2> SUFFICES ASSUME n > ACCOUNT_MAX + 1
                 PROVE  /\ NameEnd(a) + 1 <= o + Body(item) /\ NameEnd(a) >= a
                        /\ Len(Name(a)) = ACCOUNT_MAX + 1
      OBVIOUS
    <2>1. NameEnd(a) = a + ACCOUNT_MAX + 1 /\ Len(Name(a)) = ACCOUNT_MAX + 1
      BY <1>11
    <2>2. QED  BY <1>2, <1>4, <2>1, SizesNat
  <1>14. QED  BY <1>12, <1>13 DEF w, n, a

\* Names that may give orders are short.
LEMMA NamesShort ==
  ASSUME CommandsInv, NEW w \in Names(peer)
  PROVE  Plain(w) /\ Len(w) \in Nat /\ Len(w) <= ACCOUNT_MAX
  <1>1. w \in {master, SERVER}
    BY DEF Names
  <1>2. Plain(w) /\ Len(w) <= ACCOUNT_MAX
    BY <1>1, NamesAssumption
  <1>3. QED  BY <1>2 DEF Plain

\* What is read for the head of a command, from field t + 1 on.
LEMMA HeadAt ==
  ASSUME CommandsInv, NEW item, NEW o, Placed(item, o), NEW t \in 0 .. Len(item.fields),
         i = o + Chars(item, t), t + 1 < Len(item.fields), One(item.fields[t + 1])
  PROVE  /\ s \in o .. o + Body(item)
         /\ Known <=> item.fields[t + 2] \in Names(peer)
         /\ Known => s = o + Chars(item, t + 2)
  <1> DEFINE w == item.fields[t + 2]
  <1>1. /\ t + 1 \in 0 .. Len(item.fields) - 1 /\ (t + 1) + 1 = t + 2
        /\ t + 1 \in 1 .. Len(item.fields) /\ (t + 1) - 1 = t
        /\ t + 1 \in 0 .. Len(item.fields) /\ t + 2 \in 0 .. Len(item.fields)
        /\ t + 2 \in 1 .. Len(item.fields)
    <2>1. Len(item.fields) \in Nat
      BY PlacesIn
    <2>2. QED  BY <2>1
  <1>2. /\ o \in Nat /\ Chars(item, t) \in Nat /\ Chars(item, t + 1) \in Nat
        /\ Chars(item, t + 1) <= Body(item) /\ Body(item) \in Nat
        /\ Chars(item, t + 2) \in Nat /\ Chars(item, t + 2) <= Body(item)
        /\ Len(w) \in Nat
    BY <1>1, PlacesIn
  <1>3. Chars(item, t + 1) = Chars(item, t) + 2
    <2>1. Chars(item, t + 1) = Chars(item, (t + 1) - 1) + Len(item.fields[t + 1]) + 1
      BY <1>1, PlacesIn
    <2>2. Len(item.fields[t + 1]) = 1
      BY DEF One
    <2>3. QED  BY <1>1, <1>2, <2>1, <2>2
  <1>4. i + 2 = o + Chars(item, t + 1)
    BY <1>2, <1>3
  <1>5. /\ Len(w) <= ACCOUNT_MAX + 1 =>
             /\ NameEnd(i + 2) + 1 = o + Chars(item, t + 2)
             /\ account = w
        /\ Len(w) > ACCOUNT_MAX + 1 =>
             /\ NameEnd(i + 2) + 1 <= o + Body(item)
             /\ NameEnd(i + 2) >= o + Chars(item, t + 1)
             /\ Len(account) = ACCOUNT_MAX + 1
    <2>1. /\ Len(item.fields[(t + 1) + 1]) <= ACCOUNT_MAX + 1 =>
              /\ NameEnd(o + Chars(item, t + 1)) + 1 = o + Chars(item, (t + 1) + 1)
              /\ Name(o + Chars(item, t + 1)) = item.fields[(t + 1) + 1]
          /\ Len(item.fields[(t + 1) + 1]) > ACCOUNT_MAX + 1 =>
              /\ NameEnd(o + Chars(item, t + 1)) + 1 <= o + Body(item)
              /\ NameEnd(o + Chars(item, t + 1)) >= o + Chars(item, t + 1)
              /\ Len(Name(o + Chars(item, t + 1))) = ACCOUNT_MAX + 1
      BY <1>1, NameAt
    <2>2. QED  BY <1>1, <1>4, <2>1 DEF account
  <1>6. NameEnd(i + 2) \in Nat
    <2> DEFINE c == Chars(item, t + 1)
    <2>1. o \in Nat /\ c \in Nat /\ i + 2 = o + c
      BY <1>2, <1>4
    <2> HIDE DEF c
    <2>2. i + 2 \in Nat
      BY <2>1
    <2>3. QED  BY <2>2, NameEndIs
  <1>7. s = NameEnd(i + 2) + 1
    BY DEF s
  <1> HIDE DEF w
  <1>8. CASE Len(w) <= ACCOUNT_MAX + 1
    <2>1. s \in o .. o + Body(item) /\ s = o + Chars(item, t + 2)
      <3> DEFINE d == Chars(item, t + 2)
                 b == Body(item)
      <3>1. s = o + d
        BY <1>5, <1>7, <1>8
      <3>2. d \in Nat /\ b \in Nat /\ d <= b /\ o \in Nat
        BY <1>2
      <3> HIDE DEF d, b
      <3>3. s \in o .. o + b
        BY <3>1, <3>2
      <3>4. QED  BY <3>1, <3>3 DEF d, b
    <2>2. Known <=> w \in Names(peer)
      BY <1>5, <1>8 DEF Known
    <2>3. QED  BY <2>1, <2>2 DEF w
  <1>9. CASE Len(w) > ACCOUNT_MAX + 1
    <2>1. s \in o .. o + Body(item)
      <3> DEFINE y == NameEnd(i + 2)
                 c == Chars(item, t + 1)
                 b == Body(item)
      <3>1. y + 1 <= o + b /\ y >= o + c
        BY <1>5, <1>9
      <3>2. y \in Nat /\ c \in Nat /\ b \in Nat /\ o \in Nat /\ s = y + 1
        BY <1>2, <1>6, <1>7
      <3> HIDE DEF y, c, b
      <3>3. y + 1 \in o .. o + b
        BY <3>1, <3>2
      <3>4. QED  BY <3>2, <3>3 DEF b
    <2>2. w \notin Names(peer)
      BY <1>2, <1>9, NamesShort, SizesNat
    <2>3. ~Known
      <3>1. Len(account) = ACCOUNT_MAX + 1
        BY <1>5, <1>9
      <3>2. account \notin Names(peer)
        BY <3>1, NamesShort, SizesNat
      <3>3. QED  BY <3>2 DEF Known
    <2>4. QED  BY <2>1, <2>2, <2>3 DEF w
  <1>10. QED  BY <1>2, <1>8, <1>9, SizesNat

\* Nothing is done where no head is read, nor what an account begins that is
\* not in this item; the rest of it is skipped.
LEMMA VoidTurn ==
  ASSUME CommandsInv, NEW item, NEW o, Placed(item, o), NEW t \in 0 .. Len(item.fields),
         i = o + Chars(item, t), Turn,
         ~(t + 1 = Len(item.fields) /\ One(item.fields[t + 1])),
         ~(/\ t + 2 < Len(item.fields) /\ One(item.fields[t + 1])
           /\ item.fields[t + 2] \in Names(peer) /\ One(item.fields[t + 3]))
  PROVE  i' = o + Body(item) + 1 /\ acts' = acts
  <1> DEFINE f == item.fields
             J == Len(f)
  <1>1. J \in Nat /\ o \in Nat /\ Body(item) \in Nat
        /\ Chars(item, t) \in Nat /\ Chars(item, t) <= Body(item)
    BY PlacesIn
  <1>2. Field(i) <=> t < J /\ One(f[t + 1])
    BY FieldAt
  <1>3. i \in o .. o + Body(item)
    BY <1>1
  <1>4. Field(i) => t + 1 < J
    <2>1. t + 1 # J \/ ~One(f[t + 1])
      OBVIOUS
    <2> HIDE DEF f, J
    <2>2. t \in 0 .. J /\ J \in Nat
      BY <1>1 DEF f, J
    <2>3. QED  BY <1>2, <2>1, <2>2
  <1>5. Field(i) => /\ s \in o .. o + Body(item)
                    /\ Known <=> f[t + 2] \in Names(peer)
                    /\ Known => s = o + Chars(item, t + 2)
    BY <1>2, <1>4, HeadAt
  <1>6. Field(i) /\ Known => ~Field(s)
    <2> SUFFICES ASSUME Field(i), Known PROVE ~Field(s)
      OBVIOUS
    <2>1. t + 2 \in 0 .. J /\ (t + 2) + 1 = t + 3
      BY <1>1, <1>4
    <2>2. Field(o + Chars(item, t + 2)) <=> t + 2 < J /\ One(f[(t + 2) + 1])
      BY <2>1, FieldAt
    <2>3. ~(t + 2 < J /\ One(f[t + 3]))
      BY <1>2, <1>5
    <2>4. QED  BY <1>5, <2>1, <2>2, <2>3
  <1>7. \E k \in o .. o + Body(item) : Skip(k)
    <2>1. NoType \/ Stranger \/ NoSubtype
      BY <1>6 DEF Turn, LoginReply, UserLogin, IHome, Get, Lamp, Video, NoValue, Other,
                  Given, Orders
    <2>2. NoType => Skip(i)
      BY DEF NoType
    <2>3. Stranger \/ NoSubtype => Field(i) /\ Skip(s)
      BY DEF Stranger, NoSubtype
    <2>4. QED  BY <1>3, <1>5, <2>1, <2>2, <2>3
  <1>8. PICK k \in o .. o + Body(item) : Skip(k)
    BY <1>7
  <1>9. QED  BY <1>8, SkipsItem

LEMMA OneIs ==
  ASSUME NEW S, NEW w \in Seq(S), One(w)
  PROVE  w = <<w[1]>> /\ \A c : w = <<c>> <=> w[1] = c
  <1>1. Len(w) = 1
    BY DEF One
  <1>2. w = <<w[1]>>
    BY <1>1
  <1>3. \A c : <<c>>[1] = c
    OBVIOUS
  <1>4. QED  BY <1>2, <1>3

\* A head that is read, and the place of its arguments.
LEMMA Heading ==
  ASSUME CommandsInv, NEW item, NEW o, Placed(item, o), i = o, Headed(peer, item.fields)
  PROVE  /\ Field(i) /\ Known /\ Field(s) /\ v = o + Chars(item, 3)
         /\ \A t, sub : Orders(t, sub) <=> Is(item.fields, t, sub)
         /\ \A t, sub : Is(item.fields, t, sub) <=> type = t /\ subtype = sub
         /\ 3 \in 0 .. Len(item.fields) /\ v \in o .. o + Body(item)
         /\ At(v + 1) = SEP <=> Len(item.fields) >= 4 /\ One(item.fields[4])
         /\ Len(item.fields) >= 4 /\ One(item.fields[4]) =>
              /\ res = item.fields[4][1] /\ v + 2 = o + Chars(item, 4)
              /\ 4 \in 0 .. Len(item.fields)
  <1> DEFINE f == item.fields
             J == Len(f)
  <1>1. J \in Nat /\ J >= 3 /\ One(f[1]) /\ f[2] \in Names(peer) /\ One(f[3])
    BY PlacesIn DEF Headed
  <1>2. 0 \in 0 .. J /\ 2 \in 0 .. J /\ 3 \in 0 .. J /\ 3 \in 1 .. J
    BY <1>1
  <1>3. /\ o \in Nat /\ Chars(item, 0) = 0 /\ Chars(item, 2) \in Nat /\ Chars(item, 3) \in Nat
        /\ Chars(item, 3) = Chars(item, 2) + Len(f[3]) + 1
        /\ Chars(item, 3) <= Body(item) /\ Body(item) \in Nat
    <2>1. Chars(item, 3) = Chars(item, 3 - 1) + Len(f[3]) + 1
      BY <1>2, PlacesIn
    <2>2. 3 - 1 = 2
      OBVIOUS
    <2>3. QED  BY <1>2, <2>1, <2>2, PlacesIn
  <1>4. i = o + Chars(item, 0)
    BY <1>3
  <1>5. Field(i) /\ type = f[1][1]
    <2>1. 0 < J /\ One(f[0 + 1]) /\ 0 + 1 = 1
      BY <1>1
    <2>2. Field(o + Chars(item, 0)) /\ At(o + Chars(item, 0)) = f[0 + 1][1]
      BY <1>2, <2>1, FieldAt
    <2>3. QED  BY <1>4, <2>1, <2>2 DEF type
  <1>6. Known /\ s = o + Chars(item, 2)
    <2>1. 0 + 1 < J /\ One(f[0 + 1]) /\ 0 + 2 = 2
      BY <1>1
    <2>2. /\ Known <=> f[0 + 2] \in Names(peer)
          /\ Known => s = o + Chars(item, 0 + 2)
      BY <1>2, <1>4, <2>1, HeadAt
    <2>3. QED  BY <1>1, <2>1, <2>2
  <1>7. Field(s) /\ subtype = f[3][1]
    <2>1. 2 < J /\ One(f[2 + 1]) /\ 2 + 1 = 3
      BY <1>1
    <2>2. Field(o + Chars(item, 2)) /\ At(o + Chars(item, 2)) = f[2 + 1][1]
      BY <1>2, <2>1, FieldAt
    <2>3. QED  BY <1>6, <2>1, <2>2 DEF subtype
  <1>8. v = o + Chars(item, 3)
    <2>1. Len(f[3]) = 1
      BY <1>1 DEF One
    <2>2. QED  BY <1>3, <1>6, <2>1 DEF v
  <1>9. v \in o .. o + Body(item)
    BY <1>3, <1>8
  <1>10. \A t, sub : Is(f, t, sub) <=> type = t /\ subtype = sub
    <2>1. f \in Seq(Seq(STRING))
      BY ClosedRows DEF Placed
    <2>2. f[1] \in Seq(STRING) /\ f[3] \in Seq(STRING)
      BY <1>1, <2>1
    <2>3. \A c : (f[1] = <<c>> <=> f[1][1] = c) /\ (f[3] = <<c>> <=> f[3][1] = c)
      BY <1>1, <2>2, OneIs
    <2>4. QED  BY <1>5, <1>7, <2>3 DEF Is
  <1>11. \A t, sub : Orders(t, sub) <=> Is(f, t, sub)
    BY <1>5, <1>6, <1>7, <1>10 DEF Orders
  <1>12. At(v + 1) = SEP => J >= 4 /\ One(f[4])
    <2>1. At(o + Chars(item, 3) + 1) = SEP => 3 < J /\ (3 > 0 => One(f[3 + 1]))
      BY <1>2, FieldAt
    <2>2. 3 < J => J >= 4
      BY <1>1
    <2>3. 3 + 1 = 4 /\ 3 > 0
      OBVIOUS
    <2>4. QED  BY <1>8, <2>1, <2>2, <2>3
  <1>13. ASSUME J >= 4, One(f[4])
         PROVE  At(v + 1) = SEP /\ res = f[4][1] /\ v + 2 = o + Chars(item, 4) /\ 4 \in 0 .. J
    <2>1. 3 < J /\ One(f[3 + 1]) /\ 3 + 1 = 4 /\ 4 \in 1 .. J /\ 4 \in 0 .. J
      BY <1>1, <1>13
    <2>2. Field(o + Chars(item, 3)) /\ At(o + Chars(item, 3)) = f[3 + 1][1]
      BY <1>2, <2>1, FieldAt
    <2>3. Chars(item, 4) = Chars(item, 4 - 1) + Len(f[4]) + 1 /\ 4 - 1 = 3 /\ Chars(item, 4) \in Nat
      BY <2>1, PlacesIn
    <2>4. Len(f[4]) = 1
      BY <1>13 DEF One
    <2>5. v + 2 = o + Chars(item, 4)
      BY <1>3, <1>8, <2>3, <2>4
    <2>6. QED  BY <1>8, <2>1, <2>2, <2>5 DEF Field, res
  <1>14. QED
    BY <1>2, <1>5, <1>6, <1>7, <1>8, <1>9, <1>10, <1>11, <1>12, <1>13

\* The kinds of command, by what is read for type and subtype.
LEMMA Kinds ==
  ASSUME CommandsInv, NEW item, NEW o, Placed(item, o), i = o, Headed(peer, item.fields)
  PROVE  /\ Reply(peer, item.fields) <=>
              peer = "client" /\ type = "RESULT" /\ subtype = "RES_LOGIN"
         /\ Login(peer, item.fields) <=>
              peer = "server" /\ type = "MANAGE" /\ subtype = "MAN_LOGIN"
         /\ Control(item.fields) <=> type = "CONTRL" /\ subtype \in Controls
         /\ Named(item.fields) <=>
              type = "CONTRL" /\ subtype \in {"CTL_GET", "CTL_LAMP", "CTL_VIDEO"}
         /\ \A sub \in Controls :
              Is(item.fields, "CONTRL", sub) <=> type = "CONTRL" /\ subtype = sub
  <1> DEFINE f == item.fields
  <1>1. \A t, sub : Is(f, t, sub) <=> type = t /\ subtype = sub
    BY Heading
  <1> HIDE DEF f
  <1>2. Reply(peer, f) <=> peer = "client" /\ type = "RESULT" /\ subtype = "RES_LOGIN"
    BY <1>1 DEF Reply
  <1>3. Login(peer, f) <=> peer = "server" /\ type = "MANAGE" /\ subtype = "MAN_LOGIN"
    BY <1>1 DEF Login
  <1>4. Control(f) <=> type = "CONTRL" /\ subtype \in Controls
    BY <1>1 DEF Control
  <1>5. Named(f) <=> type = "CONTRL" /\ subtype \in {"CTL_GET", "CTL_LAMP", "CTL_VIDEO"}
    <2>1. Control(f) => f[1] = <<"CONTRL">>
      BY DEF Control, Is
    <2>2. Control(f) => (f[3] = <<"CTL_IHome">> <=> Is(f, "CONTRL", "CTL_IHome"))
      BY <2>1 DEF Is
    <2>3. Control(f) => (f[3] = <<"CTL_IHome">> <=> subtype = "CTL_IHome")
      BY <1>1, <1>4, <2>2
    <2>4. subtype \in Controls /\ subtype # "CTL_IHome"
            <=> subtype \in {"CTL_GET", "CTL_LAMP", "CTL_VIDEO"}
      BY DEF Controls
    <2>5. QED  BY <1>4, <2>3, <2>4 DEF Named
  <1>6. QED  BY <1>1, <1>2, <1>3, <1>4, <1>5 DEF f

\* What is ordered, by its kind, and where its reader stops.
LEMMA OrderedIs ==
  ASSUME CommandsInv, NEW item, NEW o, Placed(item, o), i = o, Headed(peer, item.fields)
  PROVE  /\ Ordered(peer, item) <=>
              /\ Reply(peer, item.fields) =>
                   Len(item.fields) = 4 /\ One(item.fields[4]) /\ item.tail = <<>>
              /\ Control(item.fields) => Len(item.fields) >= 4 /\ One(item.fields[4])
         /\ Ordered(peer, item) =>
              /\ Takes(peer, item.fields) \in 0 .. Len(item.fields)
              /\ Takes(peer, item.fields) \in {3, 4, 5}
              /\ Login(peer, item.fields) =>
                   /\ 3 \in 0 .. Len(item.fields) - 1 /\ Len(item.fields[4]) <= ACCOUNT_MAX + 1
              /\ Named(item.fields) =>
                   /\ 4 \in 0 .. Len(item.fields) - 1 /\ Len(item.fields[5]) <= ACCOUNT_MAX + 1
         /\ Does(peer, item) =
              IF Ordered(peer, item) THEN Meaning(peer, item.fields) ELSE <<>>
  <1> DEFINE f == item.fields
             J == Len(f)
  <1>1. J \in Nat
    BY PlacesIn
  <1>2. Sent(peer, item) /\ item.end = <<END>>
    BY DEF Placed
  <1>3. Ordered(peer, item) <=>
              /\ Reply(peer, f) => J = 4 /\ One(f[4]) /\ item.tail = <<>>
              /\ Control(f) => J >= 4 /\ One(f[4])
    BY <1>2 DEF Ordered
  <1>4. Takes(peer, f) \in {3, 4, 5}
    BY DEF Takes
  <1>5. ASSUME Ordered(peer, item)
        PROVE  /\ J >= Takes(peer, f)
               /\ Login(peer, f) => Len(f[4]) <= ACCOUNT_MAX + 1
               /\ Named(f) => Len(f[5]) <= ACCOUNT_MAX + 1
    BY <1>2, <1>5 DEF Sent, Complete
  <1>6. /\ Login(peer, f) /\ ~Named(f) => Takes(peer, f) = 4
        /\ Named(f) => Takes(peer, f) = 5
    BY DEF Takes
  <1>7. Login(peer, f) => ~Named(f)
    <2>1. /\ Login(peer, f) => type = "MANAGE"
          /\ Named(f) => type = "CONTRL"
      BY Kinds
    <2>2. QED  BY <2>1
  <1>8. \A k \in {3, 4, 5} : J >= k => k \in 0 .. J /\ k - 1 \in 0 .. J - 1
    BY <1>1
  <1>9. 5 - 1 = 4 /\ 4 - 1 = 3
    OBVIOUS
  <1>10. QED  BY <1>3, <1>4, <1>5, <1>6, <1>7, <1>8, <1>9 DEF Does

LEMMA NoControl ==
  ASSUME NEW f, ~Control(f)
  PROVE  /\ ~Is(f, "CONTRL", "CTL_IHome") /\ ~Is(f, "CONTRL", "CTL_GET")
         /\ ~Is(f, "CONTRL", "CTL_LAMP") /\ ~Is(f, "CONTRL", "CTL_VIDEO")
  BY DEF Control, Controls

\* A command is carried out when it is ordered, and skipped when it is not.
LEMMA MainTurn ==
  ASSUME CommandsInv, NEW item, NEW o, Placed(item, o), i = o, Headed(peer, item.fields), Turn
  PROVE  /\ Ordered(peer, item) =>
              /\ acts' = acts \o Does(peer, item)
              /\ i' = IF Reply(peer, item.fields) THEN o + Body(item) + 1
                      ELSE o + Chars(item, Takes(peer, item.fields))
         /\ ~Ordered(peer, item) => acts' = acts /\ i' = o + Body(item) + 1
  <1> DEFINE f == item.fields
             J == Len(f)
             R == Reply(peer, f)
             L == Login(peer, f)
             C == Control(f)
             Valued == J >= 4 /\ One(f[4])
             Goal == /\ Ordered(peer, item) =>
                          /\ acts' = acts \o Does(peer, item)
                          /\ i' = IF R THEN o + Body(item) + 1
                                  ELSE o + Chars(item, Takes(peer, f))
                     /\ ~Ordered(peer, item) => acts' = acts /\ i' = o + Body(item) + 1
  <1>1. /\ Field(i) /\ Known /\ Field(s) /\ v = o + Chars(item, 3)
        /\ \A t, sub : Orders(t, sub) => type = t /\ subtype = sub
        /\ v \in o .. o + Body(item)
        /\ At(v + 1) = SEP <=> Valued
        /\ Valued => res = f[4][1] /\ v + 2 = o + Chars(item, 4) /\ 4 \in 0 .. J
    BY Heading
  <1>2. /\ R <=> peer = "client" /\ type = "RESULT" /\ subtype = "RES_LOGIN"
        /\ L <=> peer = "server" /\ type = "MANAGE" /\ subtype = "MAN_LOGIN"
        /\ C <=> type = "CONTRL" /\ subtype \in Controls
        /\ Named(f) <=> type = "CONTRL" /\ subtype \in {"CTL_GET", "CTL_LAMP", "CTL_VIDEO"}
        /\ \A sub \in Controls : Is(f, "CONTRL", sub) <=> type = "CONTRL" /\ subtype = sub
    BY Kinds
  <1>3. /\ Ordered(peer, item) <=> /\ R => J = 4 /\ One(f[4]) /\ item.tail = <<>>
                                   /\ C => Valued
        /\ Ordered(peer, item) =>
             /\ L => 3 \in 0 .. J - 1 /\ Len(f[4]) <= ACCOUNT_MAX + 1
             /\ Named(f) => 4 \in 0 .. J - 1 /\ Len(f[5]) <= ACCOUNT_MAX + 1
        /\ Does(peer, item) = IF Ordered(peer, item) THEN Meaning(peer, f) ELSE <<>>
    BY OrderedIs
  <1>4. ASSUME Skip(v) PROVE acts' = acts /\ i' = o + Body(item) + 1
    BY <1>1, <1>4, SkipsItem
  <1>5. /\ o \in Nat /\ Body(item) \in Nat /\ J \in Nat
        /\ Body(item) = Chars(item, J) + Len(item.tail)
        /\ \A j \in 0 .. J : Chars(item, j) \in Nat
    BY PlacesIn
  <1>6. CASE LoginReply
    <2>1. R /\ ~C /\ ~L
      BY <1>1, <1>2, <1>6 DEF LoginReply
    <2>2. At(v + 1) = SEP /\ At(v + 2) = END <=> J = 4 /\ One(f[4]) /\ item.tail = <<>>
      <3>1. ASSUME Valued, At(v + 2) = END
            PROVE  J = 4 /\ item.tail = <<>>
        <4>1. 4 \in 0 .. J /\ At(o + Chars(item, 4)) = END
          BY <1>1, <3>1
        <4>2. QED  BY <4>1, FieldAt
      <3>2. ASSUME J = 4, One(f[4]), item.tail = <<>>
            PROVE  Valued /\ At(v + 2) = END
        <4>1. Valued
          BY <3>2
        <4>2. Len(item.tail) = 0
          BY <3>2
        <4>3. v + 2 = o + Body(item)
          <5>1. v + 2 = o + Chars(item, 4) /\ Chars(item, 4) \in Nat
            BY <1>1, <1>5, <4>1
          <5>2. Body(item) = Chars(item, 4)
            BY <1>5, <3>2, <4>2, <5>1
          <5>3. QED  BY <5>1, <5>2
        <4>4. TextInv /\ Sent(peer, item) /\ Holds(item, o) /\ item.end = <<END>>
          BY DEF Placed, CommandsInv
        <4>5. At(o + Body(item)) = END
          BY <4>4, ItemAt
        <4>6. QED  BY <4>1, <4>3, <4>5
      <3>3. QED  BY <1>1, <3>1, <3>2
    <2>3. CASE J = 4 /\ One(f[4]) /\ item.tail = <<>>
      <3>1. Do(<<Set("isAuthed", res = "1")>>, v + 3)
        BY <1>6, <2>2, <2>3 DEF LoginReply
      <3>2. v + 3 = o + Body(item) + 1
        <4>1. Valued /\ Len(item.tail) = 0
          BY <2>3
        <4>2. v + 2 = o + Chars(item, 4) /\ Chars(item, 4) \in Nat /\ v \in o .. o + Body(item)
          BY <1>1, <1>5, <4>1
        <4>3. Body(item) = Chars(item, 4)
          BY <1>5, <2>3, <4>1, <4>2
        <4>4. QED  BY <1>5, <4>2, <4>3
      <3>3. Does(peer, item) = <<Set("isAuthed", res = "1")>> /\ Ordered(peer, item)
        <4>1. Ordered(peer, item)
          BY <1>3, <2>1, <2>3
        <4>2. Meaning(peer, f) = <<Set("isAuthed", f[4][1] = "1")>>
          BY <2>1, NoControl DEF Meaning
        <4>3. res = f[4][1]
          BY <1>1, <2>3
        <4>4. QED  BY <1>3, <4>1, <4>2, <4>3
      <3>4. QED  BY <2>1, <3>1, <3>2, <3>3 DEF Do
    <2>4. CASE ~(J = 4 /\ One(f[4]) /\ item.tail = <<>>)
      <3>1. Skip(v)
        BY <1>6, <2>2, <2>4 DEF LoginReply
      <3>2. ~Ordered(peer, item)
        BY <1>3, <2>1, <2>4
      <3>3. QED  BY <1>4, <3>1, <3>2
    <2>5. QED  BY <2>3, <2>4
  <1>7. CASE UserLogin
    <2>1. L /\ ~R /\ ~C /\ ~Named(f)
      BY <1>1, <1>2, <1>7 DEF UserLogin
    <2>2. Ordered(peer, item)
      BY <1>3, <2>1
    <2>3. NameEnd(v) + 1 = o + Chars(item, 4) /\ Name(v) = f[4]
      <3>1. 3 \in 0 .. Len(item.fields) - 1 /\ Len(item.fields[3 + 1]) <= ACCOUNT_MAX + 1
        BY <1>3, <2>1, <2>2
      <3>2. /\ NameEnd(o + Chars(item, 3)) + 1 = o + Chars(item, 3 + 1)
            /\ Name(o + Chars(item, 3)) = item.fields[3 + 1]
        BY <3>1, NameAt
      <3>3. QED  BY <1>1, <3>2
    <2>4. Takes(peer, f) = 4
      BY <2>1 DEF Takes
    <2>5. Does(peer, item) =
            IF Name(v) = password
              THEN << Post("tcp_send_event", <<"server", "LOGIN_SUCCESS">>),
                      Set("isChecked", TRUE) >>
              ELSE << Post("tcp_send_event", <<"server", "LOGIN_FAILED">>) >>
      BY <1>3, <2>1, <2>2, <2>3, NoControl DEF Meaning
    <2>6. QED  BY <1>7, <2>1, <2>2, <2>3, <2>4, <2>5 DEF UserLogin, Do
  <1>8. CASE IHome
    <2>1. type = "CONTRL" /\ subtype = "CTL_IHome" /\ Valued
      BY <1>1, <1>8 DEF IHome
    <2>2. /\ C /\ ~R /\ ~L /\ ~Named(f) /\ Is(f, "CONTRL", "CTL_IHome")
          /\ ~Is(f, "CONTRL", "CTL_GET") /\ ~Is(f, "CONTRL", "CTL_LAMP")
          /\ ~Is(f, "CONTRL", "CTL_VIDEO")
      BY <1>2, <2>1 DEF Controls
    <2>3. Ordered(peer, item) /\ Takes(peer, f) = 4
      BY <1>3, <2>1, <2>2 DEF Takes
    <2>4. res = f[4][1] /\ v + 2 = o + Chars(item, 4)
      BY <1>1, <2>1
    <2>5. Does(peer, item) =
            (IF res \in {"1", "2"} THEN <<Set("ihome_start_flag", res)>> ELSE <<>>)
              \o << Post("tcp_send_event", <<peer, "RES_IHome">>) >>
      BY <1>3, <2>2, <2>3, <2>4 DEF Meaning
    <2>6. QED  BY <1>8, <2>2, <2>3, <2>4, <2>5 DEF IHome, Do
  <1>9. ASSUME NEW sub \in {"CTL_GET", "CTL_LAMP", "CTL_VIDEO"}, Given(sub)
        PROVE  /\ ~R /\ ~L /\ Is(f, "CONTRL", sub) /\ Ordered(peer, item) /\ Takes(peer, f) = 5
               /\ \A x \in Controls : Is(f, "CONTRL", x) => x = sub
               /\ res = f[4][1] /\ id = f[5] /\ Then = o + Chars(item, 5)
    <2>1. type = "CONTRL" /\ subtype = sub /\ Valued
      BY <1>1, <1>9 DEF Given
    <2>2. sub \in Controls
      BY DEF Controls
    <2>3. C /\ ~R /\ ~L /\ Named(f) /\ Is(f, "CONTRL", sub)
      BY <1>2, <2>1, <2>2
    <2>4. Ordered(peer, item) /\ Takes(peer, f) = 5
      BY <1>3, <2>1, <2>3 DEF Takes
    <2>5. res = f[4][1] /\ v + 2 = o + Chars(item, 4)
      BY <1>1, <2>1
    <2>6. NameEnd(v + 2) + 1 = o + Chars(item, 5) /\ Name(v + 2) = f[5]
      <3>1. 4 \in 0 .. Len(item.fields) - 1 /\ Len(item.fields[4 + 1]) <= ACCOUNT_MAX + 1
        BY <1>3, <2>3, <2>4
      <3>2. /\ NameEnd(o + Chars(item, 4)) + 1 = o + Chars(item, 4 + 1)
            /\ Name(o + Chars(item, 4)) = item.fields[4 + 1]
        BY <3>1, NameAt
      <3>3. QED  BY <2>5, <3>2
    <2>7. QED  BY <1>2, <2>1, <2>3, <2>4, <2>5, <2>6 DEF id, Then
  <1>10. CASE Get
    <2>1. Given("CTL_GET")
      BY <1>10 DEF Get
    <2>2. /\ ~R /\ ~L /\ Is(f, "CONTRL", "CTL_GET") /\ Ordered(peer, item) /\ Takes(peer, f) = 5
          /\ \A x \in Controls : Is(f, "CONTRL", x) => x = "CTL_GET"
          /\ res = f[4][1] /\ id = f[5] /\ Then = o + Chars(item, 5)
      BY <1>9, <2>1
    <2>3. /\ ~Is(f, "CONTRL", "CTL_IHome") /\ ~Is(f, "CONTRL", "CTL_LAMP")
          /\ ~Is(f, "CONTRL", "CTL_VIDEO")
      BY <2>2 DEF Controls
    <2>4. Meaning(peer, f) =
            IF f[4][1] \in {"TEMP", "HUMI"} THEN << Post("dht11_event", <<peer, f[4][1], f[5]>>) >>
            ELSE <<>>
      BY <2>2, <2>3 DEF Meaning
    <2>5. Does(peer, item) =
            CASE res = "TEMP" -> << Post("dht11_event", <<peer, "TEMP", id>>) >>
              [] res = "HUMI" -> << Post("dht11_event", <<peer, "HUMI", id>>) >>
              [] OTHER -> <<>>
      BY <1>3, <2>2, <2>4
    <2>6. QED  BY <1>10, <2>2, <2>5 DEF Get, Do
  <1>11. CASE Lamp
    <2>1. Given("CTL_LAMP")
      BY <1>11 DEF Lamp
    <2>2. /\ ~R /\ ~L /\ Is(f, "CONTRL", "CTL_LAMP") /\ Ordered(peer, item) /\ Takes(peer, f) = 5
          /\ \A x \in Controls : Is(f, "CONTRL", x) => x = "CTL_LAMP"
          /\ res = f[4][1] /\ id = f[5] /\ Then = o + Chars(item, 5)
      BY <1>9, <2>1
    <2>3. /\ ~Is(f, "CONTRL", "CTL_IHome") /\ ~Is(f, "CONTRL", "CTL_GET")
          /\ ~Is(f, "CONTRL", "CTL_VIDEO")
      BY <2>2 DEF Controls
    <2>4. Meaning(peer, f) = << Post("led_event", <<peer, Switch(f[4][1]), f[5]>>) >>
      BY <2>2, <2>3 DEF Meaning
    <2>5. QED  BY <1>3, <1>11, <2>2, <2>4 DEF Lamp, Do
  <1>12. CASE Video
    <2>1. Given("CTL_VIDEO")
      BY <1>12 DEF Video
    <2>2. /\ ~R /\ ~L /\ Is(f, "CONTRL", "CTL_VIDEO") /\ Ordered(peer, item)
          /\ Takes(peer, f) = 5
          /\ \A x \in Controls : Is(f, "CONTRL", x) => x = "CTL_VIDEO"
          /\ res = f[4][1] /\ id = f[5] /\ Then = o + Chars(item, 5)
      BY <1>9, <2>1
    <2>3. /\ ~Is(f, "CONTRL", "CTL_IHome") /\ ~Is(f, "CONTRL", "CTL_GET")
          /\ ~Is(f, "CONTRL", "CTL_LAMP")
      BY <2>2 DEF Controls
    <2>4. Meaning(peer, f) =
            IF peer = "client"
              THEN << Post("camera_event", <<peer, Film(f[4][1]), f[5]>>) >>
              ELSE (IF f[4][1] \in {"1", "2"} THEN <<Set("camera_start", Film(f[4][1]))>>
                    ELSE <<>>)
                     \o << Post("camera_event", <<peer, f[5]>>) >>
      BY <2>2, <2>3 DEF Meaning
    <2>5. QED  BY <1>3, <1>12, <2>2, <2>4 DEF Video, Do
  <1>13. CASE NoValue
    <2>1. C /\ ~Valued /\ Skip(v)
      BY <1>1, <1>2, <1>13 DEF NoValue
    <2>2. ~Ordered(peer, item)
      BY <1>3, <2>1
    <2>3. QED  BY <1>4, <2>1, <2>2
  <1>14. CASE Other
    <2>1. ~C /\ ~R /\ ~L /\ ~Named(f)
      BY <1>2, <1>14 DEF Other, Controls
    <2>2. Ordered(peer, item) /\ Takes(peer, f) = 3
      BY <1>3, <2>1 DEF Takes
    <2>3. \A sub \in Controls : ~Is(f, "CONTRL", sub)
      BY <1>2, <2>1
    <2>4. Does(peer, item) = <<>>
      BY <1>3, <2>1, <2>2, <2>3 DEF Meaning, Controls
    <2>5. QED  BY <1>1, <1>14, <2>1, <2>2, <2>4 DEF Other, Do
  <1>15. ~NoType /\ ~Stranger /\ ~NoSubtype
    BY <1>1 DEF NoType, Stranger, NoSubtype
  <1>16. QED
    BY <1>6, <1>7, <1>8, <1>10, <1>11, <1>12, <1>13, <1>14, <1>15 DEF Turn

-----------------------------------------------------------------------------
(* What is done, and what is ordered.                                      *)

Row(q) == \E S : q \in Seq(S)

LEMMA RowsJoin ==
  ASSUME NEW a, NEW b, Row(a), Row(b)
  PROVE  Row(a \o b) /\ a \o <<>> = a
  <1>1. PICK S : a \in Seq(S)
    BY DEF Row
  <1>2. PICK R : b \in Seq(R)
    BY DEF Row
  <1>3. a \in Seq(S \cup R) /\ b \in Seq(S \cup R)
    <2>1. S \in SUBSET (S \cup R) /\ R \in SUBSET (S \cup R)
      OBVIOUS
    <2>2. QED  BY <1>1, <1>2, <2>1, WiderRow
  <1>4. a \o b \in Seq(S \cup R)
    BY <1>3, TwoRows
  <1>5. a \o <<>> = a
    BY <1>1
  <1>6. QED  BY <1>4, <1>5 DEF Row

LEMMA PrefixStays ==
  ASSUME NEW w, NEW a, NEW b, Row(w), Row(a), Row(b), IsPrefix(w, a)
  PROVE  IsPrefix(w, a \o b)
  <1>1. PICK S : w \in Seq(S)
    BY DEF Row
  <1>2. PICK R : a \in Seq(R)
    BY DEF Row
  <1>3. PICK Q : b \in Seq(Q)
    BY DEF Row
  <1>4. a \in Seq(R \cup Q) /\ b \in Seq(R \cup Q)
    <2>1. R \in SUBSET (R \cup Q) /\ Q \in SUBSET (R \cup Q)
      OBVIOUS
    <2>2. QED  BY <1>2, <1>3, <2>1, WiderRow
  <1>5. /\ a \o b \in Seq(R \cup Q) /\ Len(a \o b) = Len(a) + Len(b)
        /\ \A x \in 1 .. Len(a) : (a \o b)[x] = a[x]
    BY <1>4, TwoRows, InJoined
  <1> DEFINE n == Len(w)
             c == a \o b
  <1>6. n \in Nat /\ n <= Len(a) /\ Len(a) \in Nat /\ Len(b) \in Nat /\ n <= Len(c)
    <2>1. n \in Nat /\ Len(a) \in Nat /\ Len(b) \in Nat
      BY <1>1, <1>4
    <2>2. n <= Len(a)
      BY DEF IsPrefix
    <2> HIDE DEF n
    <2>3. QED  BY <1>5, <2>1, <2>2
  <1> HIDE DEF n, c
  <1>7. SubSeq(w, 1, n) = SubSeq(a, 1, n)
    BY DEF IsPrefix, n
  <1>8. SubSeq(a, 1, n) = SubSeq(c, 1, n)
    <2>1. c \in Seq(R \cup Q)
      BY <1>5 DEF c
    <2>2. /\ SubSeq(a, 1, n) \in Seq(R \cup Q) /\ Len(SubSeq(a, 1, n)) = n
          /\ \A x \in 1 .. n : SubSeq(a, 1, n)[x] = a[x]
      BY <1>4, <1>6
    <2>3. /\ SubSeq(c, 1, n) \in Seq(R \cup Q) /\ Len(SubSeq(c, 1, n)) = n
          /\ \A x \in 1 .. n : SubSeq(c, 1, n)[x] = c[x]
      BY <1>6, <2>1
    <2>4. \A x \in 1 .. n : c[x] = a[x]
      <3>1. \A x \in 1 .. n : x \in 1 .. Len(a)
        BY <1>6
      <3>2. QED  BY <1>5, <3>1 DEF c
    <2>5. QED  BY <2>2, <2>3, <2>4, SameRow
  <1>9. QED  BY <1>6, <1>7, <1>8 DEF IsPrefix, n, c

\* A turn adds to what has been done.
LEMMA TurnAdds ==
  ASSUME Turn, Row(acts)
  PROVE  \E d : Row(d) /\ acts' = acts \o d
  <1>1. Row(<<>>) /\ \A a : Row(<<a>>)
    <2>1. <<>> \in Seq({})
      OBVIOUS
    <2>2. \A a : <<a>> \in Seq({a})
      OBVIOUS
    <2>3. QED  BY <2>1, <2>2 DEF Row
  <1>2. \A a, b : Row(<<a, b>>)
    <2>1. \A a, b : <<a, b>> \in Seq({a, b})
      OBVIOUS
    <2>2. QED  BY <2>1 DEF Row
  <1>3. ASSUME NEW k, Skip(k) PROVE \E d : Row(d) /\ acts' = acts \o d
    <2>1. acts' = acts \o <<>>
      BY <1>1, <1>3, RowsJoin DEF Skip
    <2>2. QED  BY <1>1, <2>1
  <1>4. ASSUME NEW d, NEW k, Do(d, k), Row(d) PROVE \E x : Row(x) /\ acts' = acts \o x
    BY <1>4 DEF Do
  <1>5. \A c, a, b : Row((IF c THEN <<a>> ELSE <<>>) \o <<b>>)
    <2> SUFFICES ASSUME NEW c, NEW a, NEW b PROVE Row((IF c THEN <<a>> ELSE <<>>) \o <<b>>)
      OBVIOUS
    <2>1. Row(IF c THEN <<a>> ELSE <<>>)
      BY <1>1
    <2>2. QED  BY <1>1, <2>1, RowsJoin
  <1>6. CASE NoType \/ Stranger \/ NoSubtype \/ NoValue
    BY <1>3, <1>6 DEF NoType, Stranger, NoSubtype, NoValue
  <1>7. CASE LoginReply
    <2>1. CASE At(v + 1) = SEP /\ At(v + 2) = END
      <3>1. Do(<<Set("isAuthed", res = "1")>>, v + 3)
        BY <1>7, <2>1 DEF LoginReply
      <3>2. QED  BY <1>1, <1>4, <3>1
    <2>2. CASE ~(At(v + 1) = SEP /\ At(v + 2) = END)
      BY <1>3, <1>7, <2>2 DEF LoginReply
    <2>3. QED  BY <2>1, <2>2
  <1>8. CASE UserLogin
    <2> DEFINE d == IF Name(v) = password
                      THEN << Post("tcp_send_event", <<"server", "LOGIN_SUCCESS">>),
                              Set("isChecked", TRUE) >>
                      ELSE << Post("tcp_send_event", <<"server", "LOGIN_FAILED">>) >>
    <2>1. Do(d, NameEnd(v) + 1)
      BY <1>8 DEF UserLogin
    <2>2. Row(d)
      BY <1>1, <1>2
    <2> HIDE DEF d
    <2>3. QED  BY <1>4, <2>1, <2>2
  <1>9. CASE IHome
    <2>1. Do((IF res \in {"1", "2"} THEN <<Set("ihome_start_flag", res)>> ELSE <<>>)
               \o << Post("tcp_send_event", <<peer, "RES_IHome">>) >>, v + 2)
      BY <1>9 DEF IHome
    <2>2. QED  BY <1>4, <1>5, <2>1
  <1>10. CASE Get
    <2> DEFINE d == CASE res = "TEMP" -> << Post("dht11_event", <<peer, "TEMP", id>>) >>
                      [] res = "HUMI" -> << Post("dht11_event", <<peer, "HUMI", id>>) >>
                      [] OTHER -> <<>>
    <2>1. Do(d, Then)
      BY <1>10 DEF Get
    <2>2. Row(d)
      <3>1. CASE res = "TEMP"
        BY <1>1, <3>1
      <3>2. CASE res = "HUMI"
        BY <1>1, <3>2
      <3>3. CASE res \notin {"TEMP", "HUMI"}
        BY <1>1, <3>3
      <3>4. QED  BY <3>1, <3>2, <3>3
    <2> HIDE DEF d
    <2>3. QED  BY <1>4, <2>1, <2>2
  <1>11. CASE Lamp
    <2>1. Do(<< Post("led_event", <<peer, Switch(res), id>>) >>, Then)
      BY <1>11 DEF Lamp
    <2>2. QED  BY <1>1, <1>4, <2>1
  <1>12. CASE Video
    <2> DEFINE d == IF peer = "client"
                      THEN << Post("camera_event", <<peer, Film(res), id>>) >>
                      ELSE (IF res \in {"1", "2"} THEN <<Set("camera_start", Film(res))>>
                            ELSE <<>>) \o << Post("camera_event", <<peer, id>>) >>
    <2>1. Do(d, Then)
      BY <1>12 DEF Video
    <2>2. Row(d)
      <3>1. CASE peer = "client"
        BY <1>1, <3>1
      <3>2. CASE peer # "client"
        <4>1. d = (IF res \in {"1", "2"} THEN <<Set("camera_start", Film(res))>>
                   ELSE <<>>) \o << Post("camera_event", <<peer, id>>) >>
          BY <3>2
        <4>2. Row((IF res \in {"1", "2"} THEN <<Set("camera_start", Film(res))>>
                   ELSE <<>>) \o << Post("camera_event", <<peer, id>>) >>)
          BY <1>5
        <4>3. QED  BY <4>1, <4>2
      <3>3. QED  BY <3>1, <3>2
    <2> HIDE DEF d
    <2>3. QED  BY <1>4, <2>1, <2>2
  <1>13. CASE Other
    <2>1. Do(<<>>, v)
      BY <1>13 DEF Other
    <2>2. QED  BY <1>1, <1>4, <2>1
  <1>14. QED
    BY <1>6, <1>7, <1>8, <1>9, <1>10, <1>11, <1>12, <1>13 DEF Turn

\* What the items order, by number.
Read(p, m) ==
    CHOOSE g : g = [k \in 0 .. Len(m) |->
                      IF k = 0 THEN [orders |-> <<>>, account |-> 0]
                      ELSE Past(p, m[k], g[k - 1])]

LEMMA ReadIs ==
  ASSUME NEW p, NEW m, Len(m) \in Nat, NEW g, g = Read(p, m)
  PROVE  /\ g[0] = [orders |-> <<>>, account |-> 0]
         /\ \A k \in 1 .. Len(m) : g[k] = Past(p, m[k], g[k - 1])
         /\ Standing(p, m) = g[Len(m)]
  <1> DEFINE n == Len(m)
             none == [orders |-> <<>>, account |-> 0]
             F(f, k) == [x \in 0 .. k |-> IF x = 0 THEN none ELSE Past(p, m[x], f[x - 1])]
             E == {k \in 0 .. n : \E f : f = F(f, k)}
  <1>0. n \in Nat
    OBVIOUS
  <1>1. 0 \in E
    <2> DEFINE h == [x \in 0 .. 0 |-> none]
    <2>1. h = F(h, 0)
      OBVIOUS
    <2>2. 0 \in 0 .. n
      OBVIOUS
    <2> HIDE DEF h, F
    <2>3. QED  BY <2>1, <2>2
  <1>2. ASSUME NEW k \in 0 .. n - 1, k \in E
        PROVE  k + 1 \in E
    <2>1. PICK f : f = F(f, k)
      BY <1>2
    <2> DEFINE h == [x \in 0 .. k + 1 |-> IF x <= k THEN f[x] ELSE Past(p, m[x], f[k])]
    <2>2. k \in Nat /\ k + 1 \in 0 .. n
      BY <1>0
    <2>3. ASSUME NEW x \in 0 .. k + 1
          PROVE  h[x] = F(h, k + 1)[x]
      <3> USE <2>2
      <3>1. F(h, k + 1)[x] = IF x = 0 THEN none ELSE Past(p, m[x], h[x - 1])
        OBVIOUS
      <3>2. CASE x <= k
        <4>1. x \in 0 .. k
          BY <3>2
        <4>2. h[x] = f[x]
          BY <3>2
        <4>3. f[x] = IF x = 0 THEN none ELSE Past(p, m[x], f[x - 1])
          BY <2>1, <4>1
        <4>4. x # 0 => h[x - 1] = f[x - 1]
          BY <3>2
        <4> HIDE DEF h, F
        <4>5. QED  BY <3>1, <4>2, <4>3, <4>4
      <3>3. CASE x = k + 1
        <4>1. x # 0 /\ x - 1 \in 0 .. k + 1 /\ x - 1 <= k /\ x - 1 = k /\ ~(x <= k)
          BY <3>3
        <4>2. h[x - 1] = f[k]
          BY <4>1
        <4>3. h[x] = Past(p, m[x], f[k])
          BY <4>1
        <4> HIDE DEF h, F
        <4>4. QED  BY <3>1, <4>1, <4>2, <4>3
      <3>4. QED  BY <3>2, <3>3
    <2>4. h = F(h, k + 1)
      <3> DEFINE f1 == F(h, k + 1)
      <3>1. h = [x \in 0 .. k + 1 |-> h[x]]
        OBVIOUS
      <3>2. f1 = [x \in 0 .. k + 1 |-> f1[x]]
        OBVIOUS
      <3>3. \A x \in 0 .. k + 1 : h[x] = f1[x]
        <4> HIDE DEF h
        <4>1. QED  BY <2>3 DEF f1
      <3> HIDE DEF h, f1
      <3>4. h = f1
        BY <3>1, <3>2, <3>3
      <3>5. QED  BY <3>4 DEF f1
    <2> HIDE DEF h, F
    <2>5. QED  BY <2>2, <2>4
  <1>3. n \in E
    <2>1. \A k \in 0 .. n - 1 : k \in E => k + 1 \in E
      BY <1>2
    <2> HIDE DEF E, n
    <2>2. 0 .. n \subseteq E
      BY <1>0, <1>1, <2>1, UptoInduction
    <2>3. QED  BY <1>0, <2>2
  <1>4. g = F(g, n)
    <2>1. PICK f : f = F(f, n)
      BY <1>3 DEF E
    <2>2. g = CHOOSE z : z = F(z, n)
      BY DEF Read
    <2> HIDE DEF F
    <2>3. QED  BY <2>1, <2>2
  <1>5. Standing(p, m) = g[n]
    BY DEF Standing, Read
  <1>6. QED  BY <1>0, <1>4, <1>5

-----------------------------------------------------------------------------
(* Where the items of a message lie.                                       *)

\* The message being read, and the part of it the buffer holds.
MessageInv ==
    pc = "read" =>
      /\ message \in Messages[peer]
      /\ text = SubSeq(TextOf(message), 1, Min({Len(TextOf(message)), TCP_RX_BUFSIZE}))

\* Its first k items, and how many the buffer holds whole.
Start(k) == Len(TextOf(SubSeq(message, 1, k)))
Fitting == Len(Fits(message))

Texts(m) == [n \in 1 .. Len(m) |-> Text(m[n])]

LEMMA ItemsSent ==
  ASSUME NEW p \in {"client", "server"}, NEW m \in Messages[p]
  PROVE  /\ Len(m) \in Nat \ {0} /\ m \in Seq(Item)
         /\ \A n \in 1 .. Len(m) :
              /\ Sent(p, m[n])
              /\ m[n].end \in {<<>>, <<END>>}
              /\ m[n].end = <<>> => n = Len(m)
              /\ n > 1 => \A k \in 1 .. Len(m[n].fields) : k = 1 => m[n].fields[k] # <<>>
         /\ Texts(m) \in Seq(Seq(Character)) /\ Len(Texts(m)) = Len(m)
         /\ \A k \in 0 .. Len(m) : TextOf(SubSeq(m, 1, k)) = Part(Texts(m), k)
         /\ TextOf(m) = FlattenSeq(Texts(m))
  <1>1. /\ m \in Seq(Item) /\ m # <<>>
        /\ \A n \in DOMAIN m :
             /\ \A k \in DOMAIN m[n].fields :
                  /\ Plain(m[n].fields[k])
                  /\ m[n].fields[k] = <<>> =>
                       IF k = 1 THEN n = 1 ELSE m[n].fields[k - 1] # <<>>
             /\ Plain(m[n].tail)
             /\ m[n].end = <<>> => n = Len(m)
             /\ Ordered(p, m[n]) => Complete(p, m[n].fields)
    BY MessagesAssumption
  <1>2. Len(m) \in Nat \ {0} /\ DOMAIN m = 1 .. Len(m)
    BY <1>1
  <1>3. \A n \in 1 .. Len(m) : m[n] \in Item
    BY <1>1
  <1>4. \A n \in 1 .. Len(m) : DOMAIN m[n].fields = 1 .. Len(m[n].fields)
    BY <1>3 DEF Item
  <1>5. \A n \in 1 .. Len(m) : m[n].end \in {<<>>, <<END>>}
    BY <1>3 DEF Item
  <1>6. ASSUME NEW n \in 1 .. Len(m)
        PROVE  /\ Sent(p, m[n])
               /\ m[n].end = <<>> => n = Len(m)
               /\ n > 1 => \A k \in 1 .. Len(m[n].fields) : k = 1 => m[n].fields[k] # <<>>
    <2>1. Sent(p, m[n])
      BY <1>1, <1>2, <1>3 DEF Sent
    <2>2. n > 1 => n # 1
      BY <1>2
    <2>3. QED  BY <1>1, <1>2, <1>4, <2>1, <2>2
  <1>7. \A n \in 1 .. Len(m) : Text(m[n]) \in Seq(Character)
    BY <1>6, TextIsSeq
  <1>8. Texts(m) \in Seq(Seq(Character)) /\ Len(Texts(m)) = Len(m)
    <2> DEFINE q == [n \in 1 .. Len(m) |-> Text(m[n])]
    <2>1. q \in Seq(Seq(Character)) /\ Len(q) = Len(m)
      BY <1>2, <1>7
    <2>2. QED  BY <2>1 DEF Texts
  <1>9. TextOf(m) = FlattenSeq(Texts(m))
    BY <1>2 DEF TextOf, Texts
  <1>10. ASSUME NEW k \in 0 .. Len(m)
         PROVE  TextOf(SubSeq(m, 1, k)) = Part(Texts(m), k)
    <2> DEFINE a == SubSeq(m, 1, k)
               q == Texts(m)
               r == [n \in DOMAIN a |-> Text(a[n])]
    <2>1. a \in Seq(Item) /\ Len(a) = k /\ DOMAIN a = 1 .. k /\ \A x \in 1 .. k : a[x] = m[x]
      BY <1>1, <1>2
    <2> HIDE DEF a
    <2>2. \A x \in 1 .. k : Text(a[x]) \in Seq(Character) /\ Text(a[x]) = q[x]
      <3>1. \A x \in 1 .. k : x \in 1 .. Len(m)
        BY <1>2
      <3>2. QED  BY <1>7, <2>1, <3>1 DEF Texts
    <2>3. r = [n \in 1 .. k |-> Text(a[n])]
      BY <2>1
    <2>4. r \in Seq(Seq(Character)) /\ Len(r) = k /\ \A x \in 1 .. k : r[x] = q[x]
      <3>1. k \in Nat
        BY <1>2
      <3> DEFINE z == [n \in 1 .. k |-> Text(a[n])]
      <3>2. z \in Seq(Seq(Character)) /\ Len(z) = k /\ \A x \in 1 .. k : z[x] = q[x]
        BY <2>2, <3>1
      <3>3. QED  BY <2>3, <3>2
    <2>5. /\ SubSeq(q, 1, k) \in Seq(Seq(Character)) /\ Len(SubSeq(q, 1, k)) = k
          /\ \A x \in 1 .. k : SubSeq(q, 1, k)[x] = q[x]
      <3>1. q \in Seq(Seq(Character)) /\ Len(q) = Len(m)
        BY <1>8
      <3> HIDE DEF q
      <3>2. k \in 0 .. Len(q)
        BY <3>1
      <3>3. QED  BY <3>1, <3>2
    <2> HIDE DEF q, r
    <2>6. r = SubSeq(q, 1, k)
      BY <2>4, <2>5, SameRow
    <2>7. TextOf(a) = FlattenSeq(r)
      BY DEF TextOf, r
    <2>8. QED  BY <2>6, <2>7 DEF Part, a, q
  <1>11. QED  BY <1>1, <1>2, <1>5, <1>6, <1>8, <1>9, <1>10

LEMMA TextIs ==
  ASSUME NEW p \in {"client", "server"}, NEW m \in Messages[p]
  PROVE  TextOf(m) \in Seq(Character)
  BY ItemsSent, RowOfRows

\* No item begins with a separator, but perhaps the first.
LEMMA FirstOf ==
  ASSUME NEW p, NEW item, Sent(p, item), Len(Text(item)) > 0,
         \A k \in 1 .. Len(item.fields) : k = 1 => item.fields[k] # <<>>
  PROVE  Text(item)[1] # SEP
  <1>1. /\ item.fields \in Seq(Seq(STRING)) /\ Len(item.fields) \in Nat
        /\ \A j \in 1 .. Len(item.fields) : item.fields[j] \in Seq(Character \ {NUL, SEP, END})
    BY ClosedRows
  <1>2. CASE Len(item.fields) = 0
    <2>1. item.fields = <<>>
      BY <1>1, <1>2
    <2>2. \A x \in 1 .. Len(Text(item)) : Text(item)[x] \notin {NUL, SEP}
      BY <2>1, TailLies
    <2>3. 1 \in 1 .. Len(Text(item))
      <3>1. Text(item) \in Seq(Character)
        BY TextIsSeq
      <3>2. Len(Text(item)) \in Nat
        BY <3>1
      <3>3. QED  BY <3>2
    <2>4. QED  BY <2>2, <2>3
  <1>3. CASE Len(item.fields) > 0
    <2>1. 1 \in 1 .. Len(item.fields) /\ 1 - 1 = 0
      BY <1>1, <1>3
    <2>2. item.fields[1] \in Seq(Character \ {NUL, SEP, END}) /\ item.fields[1] # <<>>
      BY <1>1, <2>1
    <2>3. 1 \in 1 .. Len(item.fields[1]) /\ item.fields[1][1] # SEP
      BY <2>2
    <2>4. Text(item)[Chars(item, 1 - 1) + 1] = item.fields[1][1]
      BY <2>1, <2>3, FieldsLie
    <2>5. Chars(item, 0) = 0
      BY FieldsLie
    <2>6. QED  BY <2>1, <2>3, <2>4, <2>5
  <1>4. QED  BY <1>1, <1>2, <1>3

LEMMA LeastOfTwo ==
  ASSUME NEW a \in Nat, NEW b \in Nat
  PROVE  Min({a, b}) = IF a <= b THEN a ELSE b
  <1> DEFINE small == IF a <= b THEN a ELSE b
  <1>1. small \in {a, b} /\ \A y \in {a, b} : small <= y
    OBVIOUS
  <1>2. \A x \in {a, b} : (\A y \in {a, b} : x <= y) => x = small
    OBVIOUS
  <1> HIDE DEF small
  <1>3. Min({a, b}) = small
    BY <1>1, <1>2 DEF Min
  <1>4. QED  BY <1>3 DEF small

\* The items that fit.
LEMMA FitsIs ==
  ASSUME NEW p \in {"client", "server"}, NEW m \in Messages[p]
  PROVE  /\ Len(Fits(m)) \in 0 .. Len(m) /\ Fits(m) = SubSeq(m, 1, Len(Fits(m)))
         /\ Len(TextOf(SubSeq(m, 1, Len(Fits(m))))) <= TCP_RX_BUFSIZE
         /\ \A k \in 1 .. Len(Fits(m)) : Fits(m)[k] = m[k]
         /\ Len(TextOf(SubSeq(m, 1, 0))) = 0
  <1> DEFINE n == Len(m)
             K == {k \in 0 .. n : Len(TextOf(SubSeq(m, 1, k))) <= TCP_RX_BUFSIZE}
  <1>1. /\ n \in Nat \ {0} /\ m \in Seq(Item) /\ Texts(m) \in Seq(Seq(Character))
        /\ \A k \in 0 .. n : TextOf(SubSeq(m, 1, k)) = Part(Texts(m), k)
    BY ItemsSent
  <1>2. Len(TextOf(SubSeq(m, 1, 0))) = 0
    <2>1. Part(Texts(m), 0) = <<>>
      BY <1>1, PartsOf
    <2>4. 0 \in 0 .. n
      BY <1>1
    <2>2. TextOf(SubSeq(m, 1, 0)) = <<>>
      BY <1>1, <2>1, <2>4
    <2>3. QED  BY <2>2
  <1>3. 0 \in K
    BY <1>1, <1>2, SizesNat
  <1>4. K \in SUBSET (0 .. n) /\ n \in Nat
    BY <1>1
  <1>5. Fits(m) = SubSeq(m, 1, Max(K))
    BY DEF Fits
  <1>6. \A k \in K : Len(TextOf(SubSeq(m, 1, k))) <= TCP_RX_BUFSIZE
    OBVIOUS
  <1> HIDE DEF K
  <1>7. Max(K) \in K
    BY <1>3, <1>4, GreatestIs
  <1>8. Max(K) \in 0 .. n /\ Len(TextOf(SubSeq(m, 1, Max(K)))) <= TCP_RX_BUFSIZE
    BY <1>4, <1>6, <1>7
  <1>9. /\ Len(SubSeq(m, 1, Max(K))) = Max(K)
        /\ \A k \in 1 .. Max(K) : SubSeq(m, 1, Max(K))[k] = m[k]
    BY <1>1, <1>8
  <1>10. Len(Fits(m)) = Max(K)
    BY <1>5, <1>9
  <1>11. QED  BY <1>2, <1>5, <1>8, <1>9, <1>10

LEMMA ItemsLie ==
  ASSUME CommandsInv, MessageInv, pc = "read"
  PROVE  /\ Len(message) \in Nat \ {0} /\ Fitting \in 0 .. Len(message)
         /\ Fits(message) = SubSeq(message, 1, Fitting)
         /\ Start(0) = 0 /\ \A k \in 0 .. Len(message) : Start(k) \in Nat
         /\ \A k \in 1 .. Len(message) : Start(k) = Start(k - 1) + Len(Text(message[k]))
         /\ \A k \in 0 .. Fitting : Start(k) <= Len(text)
         /\ Fitting = Len(message) => Start(Fitting) = Len(text)
         /\ \A k \in 1 .. Fitting : Holds(message[k], Start(k - 1))
         /\ \A k \in 1 .. Len(message) : At(Start(k)) # SEP
  <1> DEFINE m == message
             n == Len(m)
             q == Texts(m)
             T == TextOf(m)
             P(k) == Part(q, k)
             F == Fitting
             c == Min({Len(T), TCP_RX_BUFSIZE})
  <1>1. peer \in {"client", "server"} /\ m \in Messages[peer] /\ text = SubSeq(T, 1, c)
    BY DEF CommandsInv, TypeOK, MessageInv
  <1>2. /\ n \in Nat \ {0} /\ m \in Seq(Item) /\ q \in Seq(Seq(Character)) /\ Len(q) = n
        /\ \A k \in 0 .. n : TextOf(SubSeq(m, 1, k)) = P(k)
        /\ T = FlattenSeq(q)
        /\ \A k \in 1 .. n :
             /\ Sent(peer, m[k])
             /\ k > 1 => \A j \in 1 .. Len(m[k].fields) : j = 1 => m[k].fields[j] # <<>>
    BY <1>1, ItemsSent
  <1>3. \A k \in 1 .. n : q[k] = Text(m[k]) /\ Text(m[k]) \in Seq(Character)
    BY <1>2, TextIsSeq DEF Texts
  <1> HIDE DEF m, n, q, T
  <1>4. /\ P(0) = <<>> /\ P(n) = T
        /\ \A k \in 0 .. n : P(k) \in Seq(Character)
    BY <1>2, PartsOf
  <1>5. \A k \in 1 .. n : /\ Len(P(k)) = Len(P(k - 1)) + Len(q[k])
                          /\ Len(P(k)) <= Len(T)
                          /\ \A x \in 1 .. Len(q[k]) : T[Len(P(k - 1)) + x] = q[k][x]
    <2> SUFFICES ASSUME NEW k \in 1 .. n
                 PROVE  /\ Len(P(k)) = Len(P(k - 1)) + Len(q[k])
                        /\ Len(P(k)) <= Len(T)
                        /\ \A x \in 1 .. Len(q[k]) : T[Len(P(k - 1)) + x] = q[k][x]
      OBVIOUS
    <2>1. k \in 1 .. Len(q) /\ n \in 0 .. Len(q) /\ k <= n
      BY <1>2
    <2>2. /\ Len(Part(q, k)) = Len(Part(q, k - 1)) + Len(q[k])
          /\ Len(Part(q, k)) <= Len(Part(q, n))
          /\ \A x \in 1 .. Len(q[k]) : Part(q, n)[Len(Part(q, k - 1)) + x] = q[k][x]
      BY <1>2, <2>1, PartsLie
    <2>3. QED  BY <1>4, <2>2
  <1> HIDE DEF P
  <1>6. \A k \in 0 .. n : Start(k) = Len(P(k)) /\ Start(k) \in Nat
    BY <1>2, <1>4 DEF Start, m
  <1>7. Start(0) = 0
    <2>1. 0 \in 0 .. n
      BY <1>2
    <2>2. QED  BY <1>4, <1>6, <2>1
  <1>8. \A k \in 1 .. n : k \in 0 .. n /\ k - 1 \in 0 .. n
    BY <1>2
  <1>9. \A k \in 1 .. n : /\ Start(k) = Start(k - 1) + Len(q[k]) /\ Len(q[k]) \in Nat
                          /\ \A x \in 1 .. Len(q[k]) : T[Start(k - 1) + x] = q[k][x]
                          /\ Start(k) <= Len(T)
    <2> SUFFICES ASSUME NEW k \in 1 .. n
                 PROVE  /\ Start(k) = Start(k - 1) + Len(q[k]) /\ Len(q[k]) \in Nat
                        /\ \A x \in 1 .. Len(q[k]) : T[Start(k - 1) + x] = q[k][x]
                        /\ Start(k) <= Len(T)
      OBVIOUS
    <2>1. Start(k) = Len(P(k)) /\ Start(k - 1) = Len(P(k - 1))
      BY <1>6, <1>8
    <2>2. q[k] \in Seq(Character)
      BY <1>3
    <2>3. Len(q[k]) \in Nat
      BY <2>2
    <2>4. QED  BY <1>5, <2>1, <2>3
  <1>10. /\ T \in Seq(Character) /\ Len(T) \in Nat
         /\ c = IF Len(T) <= TCP_RX_BUFSIZE THEN Len(T) ELSE TCP_RX_BUFSIZE
    <2>1. T \in Seq(Character)
      <3>1. n \in 0 .. n
        BY <1>2
      <3>2. QED  BY <1>4, <3>1
    <2>2. Len(T) \in Nat
      BY <2>1
    <2>3. QED  BY <2>1, <2>2, LeastOfTwo, SizesNat
  <1> HIDE DEF c
  <1>11. Len(text) = c /\ c \in Nat /\ c <= Len(T) /\ \A x \in 1 .. c : text[x] = T[x]
    <2>1. c \in Nat /\ c <= Len(T)
      BY <1>10, SizesNat
    <2>2. QED  BY <1>1, <1>10, <2>1
  \* The items that fit.
  <1>12. F \in 0 .. n /\ Fits(m) = SubSeq(m, 1, F) /\ Start(F) <= TCP_RX_BUFSIZE
    BY <1>1, FitsIs DEF Fitting, Start, m, n
  <1> HIDE DEF F
  \* Items begin one behind the other.
  <1>13. \A k \in 0 .. F : Start(k) <= Start(F)
    <2> DEFINE E == {j \in 0 .. F : Start(F - j) <= Start(F)}
    <2>1. F \in Nat /\ F <= n
      BY <1>2, <1>12
    <2>2. 0 \in E
      <3>1. F - 0 = F /\ F \in 0 .. n /\ 0 \in 0 .. F
        BY <1>12, <2>1
      <3>2. Start(F) \in Nat
        BY <1>6, <3>1
      <3>3. QED  BY <3>1, <3>2
    <2>3. ASSUME NEW j \in 0 .. F - 1, j \in E PROVE j + 1 \in E
      <3>1. F - j \in 1 .. n /\ (F - j) - 1 = F - (j + 1) /\ j + 1 \in 0 .. F
            /\ F - j \in 0 .. n /\ F - (j + 1) \in 0 .. n /\ F \in 0 .. n
        BY <1>2, <2>1
      <3>2. Start(F - j) = Start(F - (j + 1)) + Len(q[F - j]) /\ Len(q[F - j]) \in Nat
        BY <1>9, <3>1
      <3>3. Start(F - j) \in Nat /\ Start(F - (j + 1)) \in Nat /\ Start(F) \in Nat
        BY <1>6, <3>1
      <3>4. Start(F - j) <= Start(F)
        BY <2>3
      <3>5. Start(F - (j + 1)) <= Start(F)
        BY <3>2, <3>3, <3>4
      <3>6. QED  BY <3>1, <3>5
    <2>4. 0 .. F \subseteq E
      <3>1. \A j \in 0 .. F - 1 : j \in E => j + 1 \in E
        BY <2>3
      <3> HIDE DEF E
      <3>2. QED  BY <2>1, <2>2, <3>1, UptoInduction
    <2>5. \A k \in 0 .. F : F - k \in 0 .. F /\ F - (F - k) = k
      BY <2>1
    <2>6. QED  BY <2>4, <2>5
  <1>14. /\ \A k \in 0 .. F : k \in 0 .. n /\ Start(k) <= Len(text)
         /\ F = n => Start(F) = Len(text)
    <2>1. Start(n) = Len(T) /\ Start(F) \in Nat /\ F \in 0 .. n
      <3>1. n \in 0 .. n
        BY <1>2
      <3>2. QED  BY <1>4, <1>6, <1>12, <3>1
    <2>2. F = 0 \/ F \in 1 .. n
      BY <1>2, <1>12
    <2>3. Start(F) <= Len(T)
      BY <1>7, <1>9, <1>10, <2>1, <2>2
    <2>4. Start(F) <= c
      BY <1>10, <1>12, <2>3
    <2>5. \A k \in 0 .. F : k \in 0 .. n
      BY <1>2, <1>12
    <2>6. \A k \in 0 .. F : Start(k) <= c
      <3> SUFFICES ASSUME NEW k \in 0 .. F PROVE Start(k) <= c
        OBVIOUS
      <3>1. Start(k) \in Nat /\ Start(k) <= Start(F)
        BY <1>6, <1>13, <2>5
      <3>2. QED  BY <1>11, <2>1, <2>4, <3>1
    <2>7. F = n => Start(F) = c
      BY <1>10, <1>11, <2>1, <2>4
    <2>8. QED  BY <1>11, <2>5, <2>6, <2>7
  <1>15. \A k \in 1 .. F : Holds(m[k], Start(k - 1))
    <2> SUFFICES ASSUME NEW k \in 1 .. F PROVE Holds(m[k], Start(k - 1))
      OBVIOUS
    <2>1. k \in 1 .. n /\ k \in 0 .. F /\ k - 1 \in 0 .. n
      BY <1>2, <1>12
    <2>2. /\ Start(k) = Start(k - 1) + Len(q[k]) /\ Len(q[k]) \in Nat /\ q[k] = Text(m[k])
          /\ \A x \in 1 .. Len(q[k]) : T[Start(k - 1) + x] = q[k][x]
          /\ Start(k - 1) \in Nat /\ Start(k) <= Len(text)
      BY <1>3, <1>6, <1>9, <1>14, <2>1
    <2>3. \A x \in 1 .. Len(q[k]) : Start(k - 1) + x \in 1 .. c
      BY <1>11, <2>2
    <2>4. \A x \in 1 .. Len(q[k]) : text[Start(k - 1) + x] = q[k][x]
      BY <1>11, <2>2, <2>3
    <2>5. QED  BY <2>2, <2>4 DEF Holds
  <1>16. \A k \in 1 .. n : At(Start(k)) # SEP
    <2> SUFFICES ASSUME NEW k \in 1 .. n PROVE At(Start(k)) # SEP
      OBVIOUS
    <2>1. k \in 0 .. n /\ Start(k) \in Nat
      BY <1>2, <1>6
    <2>2. CASE Start(k) >= Len(text)
      <3>1. At(Start(k)) = NUL
        BY <2>1, <2>2, Received
      <3>2. QED  BY <3>1 DEF NUL, SEP
    <2>3. CASE Start(k) < Len(text)
      <3>1. k # n
        <4>1. k = n => Start(k) = Len(T)
          BY <1>4, <1>6, <2>1
        <4>2. QED  BY <1>10, <1>11, <2>1, <2>3, <4>1
      <3>2. k + 1 \in 1 .. n /\ (k + 1) - 1 = k /\ k + 1 > 1
        BY <1>2, <3>1
      <3>3. /\ Start(k + 1) = Start(k) + Len(q[k + 1]) /\ Len(q[k + 1]) \in Nat
            /\ q[k + 1] = Text(m[k + 1])
            /\ \A x \in 1 .. Len(q[k + 1]) : T[Start(k) + x] = q[k + 1][x]
        BY <1>3, <1>9, <3>2
      <3>4. At(Start(k)) = T[Start(k) + 1]
        <4>1. At(Start(k)) = text[Start(k) + 1]
          BY <2>3 DEF At
        <4>2. Start(k) + 1 \in 1 .. c
          BY <1>11, <2>1, <2>3
        <4>3. QED  BY <1>11, <4>1, <4>2
      <3>5. CASE Len(q[k + 1]) > 0
        <4>1. 1 \in 1 .. Len(q[k + 1])
          BY <3>3, <3>5
        <4>2. T[Start(k) + 1] = Text(m[k + 1])[1]
          BY <3>3, <4>1
        <4>3. Text(m[k + 1])[1] # SEP
          BY <1>2, <3>2, <3>3, <3>5, FirstOf
        <4>4. QED  BY <3>4, <4>2, <4>3
      \* The last may be empty; nothing is behind it.
      <3>6. CASE Len(q[k + 1]) = 0
        <4>1. Len(Text(m[k + 1])) = Body(m[k + 1]) + Len(m[k + 1].end)
              /\ Body(m[k + 1]) \in Nat
          BY <1>2, <3>2, TailLies
        <4>2. m[k + 1].end \in {<<>>, <<END>>} /\ (m[k + 1].end = <<>> => k + 1 = n)
          BY <1>1, <3>2, ItemsSent DEF n, m
        <4>3. Len(m[k + 1].end) \in {0, 1} /\ (Len(m[k + 1].end) = 1 <=> m[k + 1].end = <<END>>)
          BY <4>2, EndsAre
        <4>4. Len(m[k + 1].end) # 1
          <5>1. 0 = Body(m[k + 1]) + Len(m[k + 1].end)
            BY <3>3, <3>6, <4>1
          <5>2. QED  BY <4>1, <4>3, <5>1, OneMore
        <4>5. k + 1 = n
          BY <4>2, <4>3, <4>4
        <4>6. Start(k + 1) = Len(T)
          <5>1. n \in 0 .. n
            BY <1>2
          <5>2. QED  BY <1>4, <1>6, <4>5, <5>1
        <4>7. Start(k) = Len(T)
          BY <2>1, <3>3, <3>6, <4>6
        <4>8. QED  BY <1>10, <1>11, <2>1, <2>3, <4>7
      <3>7. QED  BY <3>3, <3>5, <3>6
    <2>4. QED  BY <1>11, <2>1, <2>2, <2>3
  <1>17. \A k \in 1 .. n : Start(k) = Start(k - 1) + Len(Text(m[k]))
    BY <1>3, <1>9
  <1>18. QED  BY <1>2, <1>6, <1>7, <1>12, <1>14, <1>15, <1>16, <1>17 DEF m, n, F

-----------------------------------------------------------------------------
(* What is done is what is ordered.                                        *)

\* What the first k items order, and how much of an account they leave open.
Ord(k) == Read(peer, Fits(message))[k].orders
Acc(k) == Read(peer, Fits(message))[k].account

LEMMA ReadsOf ==
  ASSUME NEW p \in {"client", "server"}, NEW m \in Messages[p], NEW g, g = Read(p, Fits(m))
  PROVE  /\ g[0].orders = <<>> /\ g[0].account = 0
         /\ \A k \in 1 .. Len(Fits(m)) :
              /\ g[k - 1].account > 0 =>
                   /\ g[k].orders = g[k - 1].orders
                   /\ g[k].account = IF m[k].fields # <<>> THEN 0
                                     ELSE Within(g[k - 1].account + Len(Text(m[k])))
              /\ ~(g[k - 1].account > 0) =>
                   /\ g[k].orders = g[k - 1].orders \o Does(p, m[k])
                   /\ g[k].account = IF ~Opens(Left(p, m[k])) THEN 0
                                     ELSE Within(Len(m[k].tail) + 1)
         /\ Standing(p, Fits(m)).orders = g[Len(Fits(m))].orders
  <1> DEFINE w == Fits(m)
  <1>1. Len(w) \in Nat /\ \A k \in 1 .. Len(w) : w[k] = m[k]
    <2>1. Len(w) \in 0 .. Len(m) /\ Len(m) \in Nat /\ \A k \in 1 .. Len(w) : w[k] = m[k]
      BY FitsIs, ItemsSent
    <2> HIDE DEF w
    <2>2. QED  BY <2>1
  <1> HIDE DEF w
  <1>2. /\ g[0] = [orders |-> <<>>, account |-> 0]
        /\ \A k \in 1 .. Len(w) : g[k] = Past(p, w[k], g[k - 1])
        /\ Standing(p, w) = g[Len(w)]
    BY <1>1, ReadIs DEF w
  <1>3. ASSUME NEW k \in 1 .. Len(w)
        PROVE  /\ g[k - 1].account > 0 =>
                   /\ g[k].orders = g[k - 1].orders
                   /\ g[k].account = IF m[k].fields # <<>> THEN 0
                                     ELSE Within(g[k - 1].account + Len(Text(m[k])))
               /\ ~(g[k - 1].account > 0) =>
                   /\ g[k].orders = g[k - 1].orders \o Does(p, m[k])
                   /\ g[k].account = IF ~Opens(Left(p, m[k])) THEN 0
                                     ELSE Within(Len(m[k].tail) + 1)
    <2>1. g[k] = Past(p, m[k], g[k - 1])
      BY <1>1, <1>2
    <2> DEFINE b == g[k - 1]
               more == IF m[k].fields # <<>> THEN 0 ELSE Within(b.account + Len(Text(m[k])))
               next == IF ~Opens(Left(p, m[k])) THEN 0 ELSE Within(Len(m[k].tail) + 1)
    <2>2. g[k] = IF b.account > 0
                 THEN [orders |-> b.orders, account |-> more]
                 ELSE [orders |-> b.orders \o Does(p, m[k]), account |-> next]
      BY <2>1, Zenon DEF Past
    <2> HIDE DEF b, more, next
    <2>3. /\ b.account > 0 => g[k].orders = b.orders /\ g[k].account = more
          /\ ~(b.account > 0) => g[k].orders = b.orders \o Does(p, m[k]) /\ g[k].account = next
      <3> DEFINE all == b.orders \o Does(p, m[k])
      <3>1. ASSUME NEW x, NEW y, g[k] = [orders |-> x, account |-> y]
            PROVE  g[k].orders = x /\ g[k].account = y
        BY <3>1
      <3>2. CASE b.account > 0
        <4>1. g[k] = [orders |-> b.orders, account |-> more]
          BY <2>2, <3>2, Zenon
        <4>2. QED  BY <3>1, <3>2, <4>1, Zenon
      <3>3. CASE ~(b.account > 0)
        <4>1. g[k] = [orders |-> all, account |-> next]
          BY <2>2, <3>3, Zenon
        <4>2. QED  BY <3>1, <3>3, <4>1, Zenon
      <3>4. QED  BY <3>2, <3>3, Zenon
    <2>4. QED  BY <2>3, Zenon DEF b, more, next
  <1>4. g[0].orders = <<>> /\ g[0].account = 0
    BY <1>2
  <1>5. Standing(p, Fits(m)).orders = g[Len(Fits(m))].orders
    BY <1>2 DEF w
  <1>6. QED  BY <1>3, <1>4, <1>5 DEF w

LEMMA WithinIs ==
  ASSUME NEW n \in Nat
  PROVE  /\ Within(n) \in Nat
         /\ Within(n) > 0 => Within(n) = n /\ n <= ACCOUNT_MAX + 2
         /\ ~(Within(n) > 0) => Within(n) = 0 /\ (n = 0 \/ n > ACCOUNT_MAX + 2)
  BY SizesNat DEF Within

\* The facts about the items that fit, one by one.
LEMMA ItemFits ==
  ASSUME CommandsInv, MessageInv, pc = "read", NEW k \in 1 .. Fitting
  PROVE  /\ k \in 1 .. Len(message) /\ k - 1 \in 0 .. Fitting /\ k \in 0 .. Fitting
         /\ Sent(peer, message[k]) /\ Holds(message[k], Start(k - 1))
         /\ Start(k - 1) \in Nat /\ Start(k) \in Nat /\ Start(k) <= Len(text)
         /\ Start(k) = Start(k - 1) + Len(Text(message[k])) /\ Len(Text(message[k])) \in Nat
         /\ message[k].end # <<END>> => message[k].end = <<>> /\ k = Len(message) /\ k = Fitting
                                        /\ CutShort(message)
         /\ message[k].end = <<END>> =>
              /\ Placed(message[k], Start(k - 1))
              /\ Start(k) = Start(k - 1) + Body(message[k]) + 1
  <1>1. peer \in {"client", "server"} /\ message \in Messages[peer] /\ TextInv
    BY DEF CommandsInv, TypeOK, MessageInv
  <1>2. /\ Len(message) \in Nat \ {0} /\ Fitting \in 0 .. Len(message)
        /\ \A l \in 0 .. Len(message) : Start(l) \in Nat
        /\ \A l \in 1 .. Len(message) : Start(l) = Start(l - 1) + Len(Text(message[l]))
        /\ \A l \in 0 .. Fitting : Start(l) <= Len(text)
        /\ \A l \in 1 .. Fitting : Holds(message[l], Start(l - 1))
        /\ \A l \in 1 .. Len(message) : At(Start(l)) # SEP
    BY ItemsLie
  <1>3. /\ k \in 1 .. Len(message) /\ k - 1 \in 0 .. Fitting /\ k \in 0 .. Fitting
        /\ k - 1 \in 0 .. Len(message) /\ k \in 0 .. Len(message)
    <2>1. Len(message) \in Nat /\ Fitting \in 0 .. Len(message)
      BY <1>2
    <2>2. QED  BY <2>1
  <1>4. /\ Sent(peer, message[k])
        /\ message[k].end \in {<<>>, <<END>>}
        /\ message[k].end = <<>> => k = Len(message)
    BY <1>1, <1>3, ItemsSent
  <1>5. /\ Holds(message[k], Start(k - 1)) /\ Start(k - 1) \in Nat /\ Start(k) \in Nat
        /\ Start(k) <= Len(text) /\ Start(k) = Start(k - 1) + Len(Text(message[k]))
    BY <1>2, <1>3
  <1>6. Len(Text(message[k])) \in Nat
    <2>1. Text(message[k]) \in Seq(Character)
      BY <1>4, TextIsSeq
    <2>2. QED  BY <2>1
  <1>7. ASSUME message[k].end # <<END>>
        PROVE  message[k].end = <<>> /\ k = Len(message) /\ k = Fitting /\ CutShort(message)
    <2>1. message[k].end = <<>> /\ k = Len(message)
      BY <1>4, <1>7
    <2>2. k = Fitting
      BY <1>2, <2>1
    <2>3. CutShort(message)
      BY <2>1 DEF CutShort, Last
    <2>4. QED  BY <2>1, <2>2, <2>3
  <1>8. ASSUME message[k].end = <<END>>
        PROVE  /\ Placed(message[k], Start(k - 1))
               /\ Start(k) = Start(k - 1) + Body(message[k]) + 1
    <2>1. Len(Text(message[k])) = Body(message[k]) + 1
      BY <1>1, <1>4, <1>5, <1>8, ItemAt
    <2>2. Body(message[k]) \in Nat
      BY <1>4, TailLies
    <2>3. Start(k) = Start(k - 1) + Body(message[k]) + 1
      BY <1>5, <2>1, <2>2
    <2>4. At(Start(k - 1) + Body(message[k]) + 1) # SEP
      BY <1>2, <1>3, <2>3
    <2>5. QED  BY <1>4, <1>5, <1>8, <2>3, <2>4 DEF Placed
  <1>9. QED  BY <1>3, <1>4, <1>5, <1>6, <1>7, <1>8

\* An item that ends in what reads as a type: what follows is read for an
\* account, and is nobody's.
LEMMA OpensAccount ==
  ASSUME CommandsInv, NEW item, NEW o, Placed(item, o),
         Len(item.fields) > 0, One(item.fields[Len(item.fields)]),
         i = o + Chars(item, Len(item.fields) - 1), Turn
  PROVE  /\ i + 2 \in Nat /\ i + 2 >= o /\ i + 2 + Len(item.tail) + 1 = o + Body(item) + 1
         /\ \A x \in i + 2 .. o + Body(item) : At(x) \notin {NUL, SEP}
         /\ Skip(s) /\ s = NameEnd(i + 2) + 1 /\ s \in 0 .. TCP_RX_BUFSIZE + 1
  <1> DEFINE f == item.fields
             J == Len(f)
             n == Len(item.tail)
             a == i + 2
             e == o + Body(item)
  <1>1. /\ o \in Nat /\ Body(item) \in Nat /\ J \in Nat /\ n \in Nat
        /\ Body(item) = Chars(item, J) + n
        /\ e < TCP_RX_BUFSIZE /\ e < Len(text)
        /\ \A j \in 0 .. J : Chars(item, j) \in Nat
        /\ \A j \in 1 .. J : Chars(item, j) = Chars(item, j - 1) + Len(f[j]) + 1
    BY PlacesIn
  <1>2. J \in 1 .. J /\ J - 1 \in 0 .. J /\ J \in 0 .. J /\ (J - 1) + 1 = J /\ J - 1 < J
    BY <1>1
  <1>3. Len(f[J]) = 1
    BY DEF One
  <1>4. a = o + Chars(item, J) /\ a \in Nat /\ a >= o /\ a + n = e /\ e \in Nat
    <2>1. Chars(item, J) = Chars(item, J - 1) + Len(f[J]) + 1
      BY <1>1, <1>2
    <2>2. Chars(item, J) \in Nat /\ Chars(item, J - 1) \in Nat
      BY <1>1, <1>2
    <2>3. i \in Int /\ i = o + Chars(item, J - 1)
      BY DEF CommandsInv, TypeOK
    <2> DEFINE c == Chars(item, J)
               b == Chars(item, J - 1)
               w == Body(item)
    <2>4. c = b + 1 + 1 /\ c \in Nat /\ b \in Nat /\ w = c + n /\ w \in Nat
      BY <1>1, <1>3, <2>1, <2>2
    <2>5. i = o + b /\ o \in Nat /\ n \in Nat
      BY <1>1, <2>3
    <2> HIDE DEF c, b, w, n, J
    <2>6. i + 2 = o + c /\ i + 2 \in Nat /\ i + 2 >= o /\ (i + 2) + n = o + w /\ o + w \in Nat
      BY <2>4, <2>5
    <2>7. QED  BY <2>6 DEF c, w
  <1>5. Len(text) \in Nat /\ Len(text) <= TCP_RX_BUFSIZE /\ TextInv
    BY DEF CommandsInv, TextInv, TypeOK
  <1>6. /\ \A x \in 0 .. n - 1 : At(o + Chars(item, J) + x) = item.tail[x + 1]
        /\ At(e) = END
    <2>1. TextInv /\ Sent(peer, item) /\ Holds(item, o) /\ item.end = <<END>>
      BY DEF Placed, CommandsInv
    <2>2. QED  BY <2>1, ItemAt
  <1>7. \A x \in 1 .. n : item.tail[x] \notin {NUL, SEP}
    <2>1. item.tail \in Seq(Character \ {NUL, SEP, END})
      BY ClosedRows DEF Placed
    <2>2. QED  BY <2>1
  <1>8. Field(i)
    <2>1. Field(o + Chars(item, J - 1)) <=> J - 1 < J /\ One(f[(J - 1) + 1])
      BY <1>2, FieldAt
    <2>2. QED  BY <1>2, <2>1
  <1> HIDE DEF f, J, n, a, e
  <1>9. ASSUME NEW x \in a .. e PROVE At(x) \notin {NUL, SEP} /\ x < TCP_RX_BUFSIZE
    <2>1. x < TCP_RX_BUFSIZE
      BY <1>1, <1>4, SizesNat
    <2>2. CASE x = e
      BY <1>6, <2>1, <2>2 DEF NUL, SEP, END
    <2>3. CASE x # e
      <3>1. x - a \in 0 .. n - 1 /\ (x - a) + 1 \in 1 .. n /\ a + (x - a) = x
        <4>1. a \in Nat /\ n \in Nat /\ e = a + n /\ x \in a .. e /\ x # e
          BY <1>1, <1>4, <2>3
        <4>2. x \in Nat /\ x >= a /\ x <= e /\ x < e
          BY <4>1
        <4>3. QED  BY <4>1, <4>2
      <3>2. At(o + Chars(item, J) + (x - a)) = item.tail[(x - a) + 1]
        BY <1>6, <3>1
      <3>3. o + Chars(item, J) + (x - a) = x
        BY <1>4, <3>1
      <3>4. QED  BY <1>7, <2>1, <3>1, <3>2, <3>3
    <2>4. QED  BY <2>2, <2>3
  <1>10. NameEnd(a) \in Nat /\ NameEnd(a) >= a /\ NameEnd(a) <= TCP_RX_BUFSIZE
    <2>1. a \in 0 .. TCP_RX_BUFSIZE + 1 /\ a <= TCP_RX_BUFSIZE
      <3>1. a \in Nat /\ n \in Nat /\ a + n < TCP_RX_BUFSIZE /\ TCP_RX_BUFSIZE \in Nat
        BY <1>1, <1>4, SizesNat
      <3>2. QED  BY <3>1
    <2>2. QED  BY <2>1, NameEnds
  <1>11. NameEnd(a) <= Len(text) /\ NameEnd(a) <= a + ACCOUNT_MAX + 1
    <2>1. NameEnd(a) <= a + ACCOUNT_MAX + 1
      <3>1. NameEnd(a) \in a .. a + ACCOUNT_MAX + 1
        BY <1>4, NameEndIs
      <3>2. QED  BY <1>4, <3>1, SizesNat
    <2>2. CASE Len(text) <= a + ACCOUNT_MAX + 1
      <3>1. Len(text) \in a .. a + ACCOUNT_MAX + 1
        BY <1>1, <1>4, <1>5, <2>2, SizesNat
      <3>2. At(Len(text)) = NUL
        BY <1>5, Received
      <3>3. NameEnd(a) <= Len(text)
        BY <1>4, <3>1, <3>2, NameEndIs
      <3>4. QED  BY <2>1, <3>3
    <2>3. CASE Len(text) > a + ACCOUNT_MAX + 1
      BY <1>4, <1>5, <1>10, <2>1, <2>3, SizesNat
    <2>4. QED  BY <1>4, <1>5, <2>2, <2>3, SizesNat
  <1>12. /\ account \in Seq(Character) /\ Len(account) = NameEnd(a) - a
         /\ \A x \in 1 .. NameEnd(a) - a : account[x] = At(a + x - 1)
    <2>1. account = SubSeq(text, a + 1, NameEnd(a))
      BY DEF account, Name, a
    <2> DEFINE z == NameEnd(a)
               w == SubSeq(text, a + 1, z)
    <2>2. z \in Nat /\ a \in Nat /\ a <= z /\ z <= Len(text) /\ TextInv
      BY <1>4, <1>5, <1>10, <1>11
    <2> HIDE DEF z
    <2>3. w \in Seq(Character) /\ Len(w) = z - a /\ \A x \in 1 .. z - a : w[x] = At(a + x - 1)
      BY <2>2, Slice
    <2>4. account = w
      BY <2>1 DEF z
    <2> HIDE DEF w
    <2>5. QED  BY <2>3, <2>4 DEF z
  <1>13. ~Known
    <2> SUFFICES ASSUME account \in Names(peer) PROVE FALSE
      BY DEF Known
    <2>1. Plain(account) /\ Len(account) <= ACCOUNT_MAX
      BY NamesShort
    <2>2. CASE n <= ACCOUNT_MAX
      <3> DEFINE z == NameEnd(a)
      <3>0. a \in Nat /\ n \in Nat /\ e = a + n /\ ACCOUNT_MAX \in Nat /\ z \in Nat
        BY <1>1, <1>4, <1>10, SizesNat
      <3>1. e + 1 \in a .. a + ACCOUNT_MAX + 1 /\ (e + 1) - 1 = e
        BY <2>2, <3>0
      <3>2. NameEnd(a) >= e + 1
        BY <1>4, <1>9, <3>1, NameEndIs
      <3>3. n + 1 \in 1 .. NameEnd(a) - a /\ a + (n + 1) - 1 = e
        <4>1. z >= a + n + 1
          BY <3>0, <3>2
        <4> HIDE DEF z
        <4>2. n + 1 \in 1 .. z - a /\ a + (n + 1) - 1 = e
          BY <3>0, <4>1
        <4>3. QED  BY <4>2 DEF z
      <3>4. account[n + 1] = END
        BY <1>6, <1>12, <3>3
      <3>5. n + 1 \in DOMAIN account
        BY <1>12, <3>3
      <3>6. QED  BY <2>1, <3>4, <3>5 DEF Plain
    <2>3. CASE n > ACCOUNT_MAX
      <3>1. a + ACCOUNT_MAX + 1 \in a .. a + ACCOUNT_MAX + 1
            /\ (a + ACCOUNT_MAX + 1) - 1 <= e
        <4>1. a \in Nat /\ n \in Nat /\ e = a + n /\ ACCOUNT_MAX \in Nat /\ ACCOUNT_MAX < n
          BY <1>1, <1>4, <2>3, SizesNat
        <4>2. QED  BY <4>1
      <3>2. \A x \in a .. (a + ACCOUNT_MAX + 1) - 1 : x \in a .. e
        <4>1. a \in Nat /\ e \in Nat /\ ACCOUNT_MAX \in Nat /\ (a + ACCOUNT_MAX + 1) - 1 <= e
          BY <1>4, <3>1, SizesNat
        <4>2. QED  BY <4>1
      <3>3. NameEnd(a) >= a + ACCOUNT_MAX + 1
        BY <1>4, <1>9, <3>1, <3>2, NameEndIs
      <3>4. Len(account) >= ACCOUNT_MAX + 1
        BY <1>4, <1>10, <1>12, <3>3, SizesNat
      <3>5. Len(account) \in Nat
        BY <1>12
      <3>6. QED  BY <2>1, <3>4, <3>5, SizesNat
    <2>4. QED  BY <1>1, <2>2, <2>3, SizesNat
  <1>14. Skip(s)
    <2>1. Stranger
      BY <1>8, <1>13 DEF Turn, NoType, NoSubtype, LoginReply, UserLogin, IHome, Get, Lamp, Video,
                         NoValue, Other, Given, Orders
    <2>2. QED  BY <2>1 DEF Stranger
  <1>15. s = NameEnd(a) + 1
    BY DEF s, a
  <1>16. s \in 0 .. TCP_RX_BUFSIZE + 1
    BY <1>10, <1>15, SizesNat
  <1>17. a + n + 1 = e + 1
    BY <1>4
  <1>18. QED  BY <1>4, <1>9, <1>14, <1>15, <1>16, <1>17 DEF a, e, n

\* The same of the message being read.
LEMMA ReadsHere ==
  ASSUME CommandsInv, MessageInv, pc = "read"
  PROVE  /\ Ord(0) = <<>> /\ Acc(0) = 0
         /\ \A k \in 1 .. Fitting :
              /\ Acc(k - 1) > 0 =>
                   /\ Ord(k) = Ord(k - 1)
                   /\ Acc(k) = IF message[k].fields # <<>> THEN 0
                               ELSE Within(Acc(k - 1) + Len(Text(message[k])))
              /\ ~(Acc(k - 1) > 0) =>
                   /\ Ord(k) = Ord(k - 1) \o Does(peer, message[k])
                   /\ Acc(k) = IF ~Opens(Left(peer, message[k])) THEN 0
                               ELSE Within(Len(message[k].tail) + 1)
         /\ Standing(peer, Fits(message)).orders = Ord(Fitting)
  <1>1. peer \in {"client", "server"} /\ message \in Messages[peer]
    BY DEF CommandsInv, TypeOK, MessageInv
  <1>2. PICK g : g = Read(peer, Fits(message))
    OBVIOUS
  <1>3. /\ g[0].orders = <<>> /\ g[0].account = 0
        /\ \A k \in 1 .. Len(Fits(message)) :
              /\ g[k - 1].account > 0 =>
                   /\ g[k].orders = g[k - 1].orders
                   /\ g[k].account = IF message[k].fields # <<>> THEN 0
                                     ELSE Within(g[k - 1].account + Len(Text(message[k])))
              /\ ~(g[k - 1].account > 0) =>
                   /\ g[k].orders = g[k - 1].orders \o Does(peer, message[k])
                   /\ g[k].account = IF ~Opens(Left(peer, message[k])) THEN 0
                                     ELSE Within(Len(message[k].tail) + 1)
        /\ Standing(peer, Fits(message)).orders = g[Len(Fits(message))].orders
    BY <1>1, <1>2, ReadsOf, ZenonT(150)
  <1>4. \A k : Ord(k) = g[k].orders /\ Acc(k) = g[k].account
    BY <1>2 DEF Ord, Acc
  <1>5. Fitting = Len(Fits(message))
    BY DEF Fitting
  <1>6. ASSUME NEW k \in 1 .. Fitting
        PROVE  /\ Acc(k - 1) > 0 =>
                   /\ Ord(k) = Ord(k - 1)
                   /\ Acc(k) = IF message[k].fields # <<>> THEN 0
                               ELSE Within(Acc(k - 1) + Len(Text(message[k])))
               /\ ~(Acc(k - 1) > 0) =>
                   /\ Ord(k) = Ord(k - 1) \o Does(peer, message[k])
                   /\ Acc(k) = IF ~Opens(Left(peer, message[k])) THEN 0
                               ELSE Within(Len(message[k].tail) + 1)
    <2>1. k \in 1 .. Len(Fits(message))
      BY <1>5
    <2>2. /\ g[k - 1].account > 0 =>
               /\ g[k].orders = g[k - 1].orders
               /\ g[k].account = IF message[k].fields # <<>> THEN 0
                                 ELSE Within(g[k - 1].account + Len(Text(message[k])))
          /\ ~(g[k - 1].account > 0) =>
               /\ g[k].orders = g[k - 1].orders \o Does(peer, message[k])
               /\ g[k].account = IF ~Opens(Left(peer, message[k])) THEN 0
                                 ELSE Within(Len(message[k].tail) + 1)
      BY <1>3, <2>1, Zenon
    <2>3. /\ Ord(k) = g[k].orders /\ Acc(k) = g[k].account
          /\ Ord(k - 1) = g[k - 1].orders /\ Acc(k - 1) = g[k - 1].account
      BY <1>4, Zenon
    <2>4. QED  BY <2>2, <2>3, Zenon
  <1>7. Ord(0) = <<>> /\ Acc(0) = 0 /\ Standing(peer, Fits(message)).orders = Ord(Fitting)
    <2>1. Ord(0) = g[0].orders /\ Acc(0) = g[0].account
      BY <1>2 DEF Ord, Acc
    <2>2. Ord(Fitting) = g[Len(Fits(message))].orders
      BY <1>2, <1>5 DEF Ord
    <2>3. QED  BY <1>3, <2>1, <2>2, Zenon
  <1>8. QED  BY <1>6, <1>7, Zenon

\* The items it swallows.
LEMMA Swallows ==
  ASSUME CommandsInv, MessageInv, pc = "read", NEW k \in 1 .. Fitting, NEW j \in k .. Fitting,
         NEW a \in Nat, a <= Start(k), \A x \in a .. Start(k) - 1 : At(x) \notin {NUL, SEP},
         Acc(k) = Within(Start(k) - a),
         \A l \in k .. j : Acc(l) > 0
  PROVE  /\ Ord(j) = Ord(k) /\ Acc(j) = Start(j) - a /\ Start(j) - a <= ACCOUNT_MAX + 2
         /\ a <= Start(j) /\ \A x \in a .. Start(j) - 1 : At(x) \notin {NUL, SEP}
  <1> DEFINE Fine(l) == /\ Ord(l) = Ord(k) /\ Acc(l) = Start(l) - a
                        /\ Start(l) - a <= ACCOUNT_MAX + 2
                        /\ a <= Start(l) /\ \A x \in a .. Start(l) - 1 : At(x) \notin {NUL, SEP}
             E == {d \in 0 .. j - k : Fine(k + d)}
  <1>1. Fitting \in Nat
    <2>1. Len(message) \in Nat \ {0} /\ Fitting \in 0 .. Len(message)
      BY ItemsLie
    <2>2. QED  BY <2>1
  <1>2. k \in Nat /\ j \in Nat /\ k <= j /\ j <= Fitting /\ j - k \in Nat /\ k >= 1
    BY <1>1
  <1>3. Fine(k)
    <2>1. Start(k) \in Nat
      BY ItemFits
    <2>2. k \in k .. j
      BY <1>2
    <2>3. Start(k) - a \in Nat
      BY <2>1
    <2>4. Acc(k) > 0
      BY <2>2
    <2>5. Acc(k) = Start(k) - a /\ Start(k) - a <= ACCOUNT_MAX + 2
      BY <2>3, <2>4, WithinIs
    <2>6. QED  BY <2>5
  <1>4. ASSUME NEW l \in k .. j - 1, Fine(l)
        PROVE  Fine(l + 1)
    <2>1. l + 1 \in k .. j /\ l \in k .. j /\ l + 1 \in 1 .. Fitting /\ (l + 1) - 1 = l
          /\ l \in 1 .. Fitting
      BY <1>1, <1>2
    <2>2. Acc(l) > 0 /\ Acc(l + 1) > 0
      BY <2>1
    <2> DEFINE item == message[l + 1]
               n == Len(Text(item))
    <2>3. /\ Sent(peer, item) /\ Holds(item, Start(l)) /\ Start(l) \in Nat
          /\ Start(l + 1) = Start(l) + n /\ n \in Nat /\ Start(l + 1) \in Nat
      BY <2>1, ItemFits
    <2>4. /\ Ord(l + 1) = Ord(l)
          /\ Acc(l + 1) = IF item.fields # <<>> THEN 0 ELSE Within(Acc(l) + n)
      <3>1. /\ Acc((l + 1) - 1) > 0 =>
                   /\ Ord(l + 1) = Ord((l + 1) - 1)
                   /\ Acc(l + 1) = IF message[l + 1].fields # <<>> THEN 0
                                   ELSE Within(Acc((l + 1) - 1) + Len(Text(message[l + 1])))
        BY <2>1, ReadsHere
      <3>2. QED  BY <2>1, <2>2, <3>1
    <2> HIDE DEF item, n
    <2>5. item.fields = <<>> /\ Within(Acc(l) + n) > 0
      <3>1. ~(0 > 0)
        OBVIOUS
      <3>2. QED  BY <2>2, <2>4, <3>1
    <2>6. Acc(l) + n = Start(l + 1) - a /\ Start(l + 1) - a \in Nat
      BY <1>4, <2>3
    <2>7. Acc(l + 1) = Start(l + 1) - a /\ Start(l + 1) - a <= ACCOUNT_MAX + 2
      BY <2>4, <2>5, <2>6, WithinIs
    <2>8. \A x \in Start(l) .. Start(l) + n - 1 : At(x) \notin {NUL, SEP}
      <3>1. TextInv
        BY DEF CommandsInv
      <3>2. QED  BY <2>3, <2>5, <3>1, ItemAt DEF n
    <2>9. ASSUME NEW x \in a .. Start(l + 1) - 1 PROVE At(x) \notin {NUL, SEP}
      <3>1. x \in a .. Start(l) - 1 \/ x \in Start(l) .. Start(l) + n - 1
        BY <2>3
      <3>2. QED  BY <1>4, <2>8, <3>1
    <2>10. Ord(l + 1) = Ord(k) /\ a <= Start(l + 1)
      BY <1>4, <2>3, <2>4
    <2>11. QED  BY <2>7, <2>9, <2>10
  <1>5. 0 \in E
    <2>1. k + 0 = k /\ 0 \in 0 .. j - k
      BY <1>2
    <2> HIDE DEF Fine
    <2>2. QED  BY <1>3, <2>1
  <1>6. ASSUME NEW d \in 0 .. (j - k) - 1, d \in E PROVE d + 1 \in E
    <2>1. k + d \in k .. j - 1 /\ (k + d) + 1 = k + (d + 1) /\ d + 1 \in 0 .. j - k
      BY <1>2
    <2> HIDE DEF Fine
    <2>2. Fine(k + d)
      BY <1>6
    <2>3. QED  BY <1>4, <2>1, <2>2
  <1>7. j - k \in E
    <2>1. \A d \in 0 .. (j - k) - 1 : d \in E => d + 1 \in E
      BY <1>6
    <2> HIDE DEF E
    <2>2. 0 .. j - k \subseteq E
      BY <1>2, <1>5, <2>1, UptoInduction
    <2>3. QED  BY <1>2, <2>2
  <1>8. k + (j - k) = j
    BY <1>2
  <1> HIDE DEF Fine
  <1>9. Fine(j)
    BY <1>7, <1>8
  <1>10. QED  BY <1>9 DEF Fine

\* Where the reading goes on after an item that ends in what reads as a type.
LEMMA OpeningTurn ==
  ASSUME CommandsInv, MessageInv, pc = "read", NEW k \in 1 .. Fitting,
         message[k].end = <<END>>, Len(message[k].fields) > 0,
         One(message[k].fields[Len(message[k].fields)]),
         i = Start(k - 1) + Chars(message[k], Len(message[k].fields) - 1),
         Acc(k) = Within(Len(message[k].tail) + 1), Turn
  PROVE  /\ acts' = acts
         /\ \/ \E j \in 1 .. Fitting : i' = Start(j) /\ ~(Acc(j) > 0) /\ Ord(j) = Ord(k)
            \/ (Fitting # Len(message) \/ CutShort(message)) /\ Ord(Fitting) = Ord(k)
            \/ i' >= Len(text) /\ Ord(Fitting) = Ord(k)
  <1> DEFINE item == message[k]
             o == Start(k - 1)
             a == i + 2
             n == Len(item.tail)
             Goal == \/ \E j \in 1 .. Fitting :
                          i' = Start(j) /\ ~(Acc(j) > 0) /\ Ord(j) = Ord(k)
                     \/ (Fitting # Len(message) \/ CutShort(message)) /\ Ord(Fitting) = Ord(k)
                     \/ i' >= Len(text) /\ Ord(Fitting) = Ord(k)
  <1>1. /\ Placed(item, o) /\ Start(k) = o + Body(item) + 1 /\ Start(k) \in Nat
        /\ o \in Nat
    BY ItemFits
  <1>2. /\ a \in Nat /\ a >= o /\ i + 2 + Len(item.tail) + 1 = o + Body(item) + 1
        /\ \A x \in a .. o + Body(item) : At(x) \notin {NUL, SEP}
        /\ Skip(s) /\ s = NameEnd(a) + 1 /\ s \in 0 .. TCP_RX_BUFSIZE + 1
    BY <1>1, OpensAccount
  <1>3. Body(item) \in Nat /\ n \in Nat
    BY <1>1, PlacesIn
  <1>4. acts' = acts
    BY <1>2 DEF Skip
  <1>5. NameEnd(a) \in a .. a + ACCOUNT_MAX + 1
    BY <1>2, NameEndIs
  <1>6. Acc(k) = Within(n + 1)
    OBVIOUS
  <1>7. k \in Nat /\ k >= 1 /\ k <= Fitting /\ Fitting \in Nat
    <2>1. Len(message) \in Nat \ {0} /\ Fitting \in 0 .. Len(message)
      BY ItemsLie
    <2>2. QED  BY <2>1
  <1> HIDE DEF item, o, a, n
  <1>8. a + (n + 1) = Start(k) /\ Start(k) - a = n + 1 /\ a <= Start(k)
    <2>1. a + n + 1 = o + Body(item) + 1
      BY <1>2 DEF a, n
    <2> DEFINE b == Body(item)
               e == Start(k)
    <2>2. a \in Nat /\ n \in Nat /\ o \in Nat /\ b \in Nat /\ e \in Nat /\ e = o + b + 1
      BY <1>1, <1>2, <1>3
    <2> HIDE DEF b, e
    <2>3. a + n + 1 = e
      BY <2>1, <2>2 DEF b
    <2>4. a + (n + 1) = e /\ e - a = n + 1 /\ a <= e
      BY <2>2, <2>3
    <2>5. QED  BY <2>4 DEF e
  <1>9. s \in Nat /\ s >= a + 1 /\ s <= (a + ACCOUNT_MAX) + 2
    <2> DEFINE y == NameEnd(a)
    <2>1. a \in Nat /\ ACCOUNT_MAX \in Nat /\ y \in a .. a + ACCOUNT_MAX + 1 /\ s = y + 1
      BY <1>2, <1>5, SizesNat
    <2> HIDE DEF y
    <2>2. y \in Nat /\ y >= a /\ y <= (a + ACCOUNT_MAX) + 1
      BY <2>1
    <2>3. QED  BY <2>1, <2>2
  <1>10. \A x \in a .. Start(k) - 1 : At(x) \notin {NUL, SEP}
    <2>1. Start(k) - 1 = o + Body(item)
      BY <1>1, <1>3
    <2>2. QED  BY <1>2, <2>1
  <1>11. CASE ~(Acc(k) > 0)
    <2>1. n + 1 > ACCOUNT_MAX + 2
      <3>1. n + 1 \in Nat /\ n + 1 # 0
        BY <1>3
      <3>2. QED  BY <1>6, <1>11, <3>1, WithinIs
    <2>2. s \in o .. o + Body(item)
      <3> DEFINE b == Body(item)
                 e == Start(k)
      <3>1. a \in Nat /\ n \in Nat /\ o \in Nat /\ b \in Nat /\ e = o + b + 1 /\ a >= o
        BY <1>1, <1>2, <1>3
      <3>2. a + (n + 1) = e /\ s \in Nat /\ s >= a + 1 /\ s <= (a + ACCOUNT_MAX) + 2
        BY <1>8, <1>9
      <3> HIDE DEF b, e
      <3>3. s >= o /\ s <= o + b /\ o + b \in Nat
        BY <2>1, <3>1, <3>2, SizesNat
      <3>4. QED  BY <1>9, <3>1, <3>3 DEF b
    <2>3. i' = o + Body(item) + 1
      BY <1>1, <1>2, <2>2, SkipsItem
    <2>4. QED  BY <1>1, <1>11, <2>3, <1>4 DEF item, o, a, n
  <1>12. CASE Acc(k) > 0
    <2> DEFINE T == {l \in k .. Fitting : l = Fitting \/ ~(Acc(l + 1) > 0)}
    <2>1. PICK j \in T : \A y \in T : ~(y < j)
      <3>1. T \in SUBSET Nat /\ T # {}
        <4>1. Fitting \in T
          BY <1>7
        <4>2. \A l \in k .. Fitting : l \in Nat
          BY <1>7
        <4>3. QED  BY <4>1, <4>2
      <3> HIDE DEF T
      <3>2. QED  BY <3>1, LeastNumber
    <2>2. /\ j \in k .. Fitting /\ j \in Nat /\ j \in 1 .. Fitting
          /\ j = Fitting \/ ~(Acc(j + 1) > 0)
      BY <1>7, <2>1
    <2>3. ASSUME NEW l \in k .. j PROVE Acc(l) > 0
      <3>1. CASE l = k
        BY <1>12, <3>1
      <3>2. CASE l # k
        <4>1. l - 1 \in k .. Fitting /\ l - 1 < j /\ (l - 1) + 1 = l /\ l - 1 # Fitting
          BY <1>7, <2>2, <3>2
        <4>2. l - 1 \notin T
          <5> HIDE DEF T
          <5>1. QED  BY <2>1, <4>1
        <4>3. Acc((l - 1) + 1) > 0
          BY <4>1, <4>2
        <4>4. QED  BY <4>1, <4>3
      <3>3. QED  BY <3>1, <3>2
    <2> HIDE DEF T
    <2>4. Acc(k) = Within(Start(k) - a)
      BY <1>6, <1>8
    <2>5. /\ Ord(j) = Ord(k) /\ Acc(j) = Start(j) - a /\ Start(j) - a <= ACCOUNT_MAX + 2
          /\ a <= Start(j) /\ \A x \in a .. Start(j) - 1 : At(x) \notin {NUL, SEP}
      BY <1>2, <1>8, <1>10, <2>2, <2>3, <2>4, Swallows
    <2>6. Start(j) \in Nat /\ Start(j) <= Len(text) /\ Len(text) \in Nat
          /\ Len(text) <= TCP_RX_BUFSIZE
      <3>1. Start(j) \in Nat /\ Start(j) <= Len(text)
        BY <2>2, ItemFits
      <3>2. QED  BY <3>1 DEF CommandsInv, TypeOK, TextInv
    <2>7. Start(j) > a
      <3>1. j \in k .. j
        BY <1>7, <2>2
      <3>2. Start(j) - a > 0
        BY <2>3, <2>5, <3>1
      <3>3. QED  BY <1>2, <2>6, <3>2
    <2>8. s >= Start(j)
      <3>1. Start(j) - 1 \in a .. a + ACCOUNT_MAX + 1
        <4> DEFINE e == Start(j)
        <4>1. /\ a \in Nat /\ e \in Nat /\ e > a /\ e - a <= ACCOUNT_MAX + 2
              /\ ACCOUNT_MAX \in Nat
          BY <1>2, <2>5, <2>6, <2>7, SizesNat
        <4> HIDE DEF e
        <4>2. e - 1 \in a .. a + ACCOUNT_MAX + 1
          BY <4>1
        <4>3. QED  BY <4>2 DEF e
      <3>2. \A x \in a .. (Start(j) - 1) - 1 : At(x) \notin {NUL, SEP} /\ x < TCP_RX_BUFSIZE
        <4> DEFINE e == Start(j)
        <4>1. \A x \in a .. (e - 1) - 1 : x \in a .. e - 1 /\ x < TCP_RX_BUFSIZE
          <5>1. a \in Nat /\ e \in Nat /\ TCP_RX_BUFSIZE \in Nat /\ e <= TCP_RX_BUFSIZE
            BY <1>2, <2>6, SizesNat
          <5> HIDE DEF e
          <5>2. QED  BY <5>1
        <4>2. QED  BY <2>5, <4>1
      <3>3. NameEnd(a) >= Start(j) - 1
        BY <1>2, <3>1, <3>2, NameEndIs
      <3>4. QED  BY <1>2, <1>5, <2>6, <3>3, SizesNat
    <2>9. CASE j = Fitting
      <3>1. CASE Fitting # Len(message)
        BY <1>4, <2>5, <2>9, <3>1
      <3>2. CASE Fitting = Len(message)
        <4>1. Start(Fitting) = Len(text)
          BY <3>2, ItemsLie
        <4>2. i' \in s + 1 .. TCP_RX_BUFSIZE + 2
          BY <1>2, SkipsTo
        <4>3. i' >= Len(text)
          BY <1>9, <2>6, <2>8, <2>9, <4>1, <4>2, SizesNat
        <4>4. QED  BY <1>4, <2>5, <2>9, <4>3
      <3>3. QED  BY <3>1, <3>2
    <2>10. CASE j # Fitting
      <3> DEFINE next == message[j + 1]
                 q == Start(j)
      <3>1. j + 1 \in 1 .. Fitting /\ (j + 1) - 1 = j /\ ~(Acc(j + 1) > 0) /\ j \in k .. j
        BY <1>7, <2>2, <2>10
      <3>2. Acc(j) > 0
        BY <2>3, <3>1
      <3>3. /\ Ord(j + 1) = Ord(j)
            /\ Acc(j + 1) = IF next.fields # <<>> THEN 0
                            ELSE Within(Acc(j) + Len(Text(next)))
        <4>1. /\ Acc((j + 1) - 1) > 0 =>
                   /\ Ord(j + 1) = Ord((j + 1) - 1)
                   /\ Acc(j + 1) = IF message[j + 1].fields # <<>> THEN 0
                                   ELSE Within(Acc((j + 1) - 1) + Len(Text(message[j + 1])))
          BY <3>1, ReadsHere
        <4>2. QED  BY <3>1, <3>2, <4>1
      <3>4. CASE next.end # <<END>>
        <4>1. j + 1 = Fitting /\ CutShort(message)
          BY <3>1, <3>4, ItemFits
        <4>2. QED  BY <1>4, <2>5, <3>3, <4>1
      <3>5. CASE next.end = <<END>>
        <4>1. /\ Placed(next, q) /\ Start(j + 1) = q + Body(next) + 1
              /\ Start(j + 1) \in Nat /\ Start(j + 1) = q + Len(Text(next))
              /\ Len(Text(next)) \in Nat
          BY <3>1, <3>5, ItemFits
        <4>2. Body(next) \in Nat
          BY <4>1, PlacesIn
        <4>3. s >= q /\ q \in Nat
          BY <2>6, <2>8
        <4>4. ASSUME next.fields = <<>> PROVE s \in q .. q + Body(next)
          <5>1. ~(Within(Acc(j) + Len(Text(next))) > 0)
            BY <3>1, <3>3, <4>4
          <5> HIDE DEF next, q
          <5> DEFINE e == Start(j + 1)
                     w == Len(Text(next))
          <5>2. /\ Acc(j) = q - a /\ q \in Nat /\ a \in Nat /\ q > a
                /\ e = q + w /\ w \in Nat /\ e \in Nat
            BY <1>2, <2>5, <2>6, <2>7, <4>1 DEF q
          <5> HIDE DEF e, w
          <5>3. Acc(j) + w = e - a /\ e - a \in Nat /\ e - a # 0
            BY <5>2
          <5>4. e - a > ACCOUNT_MAX + 2
            <6>1. ~(Within(e - a) > 0)
              BY <5>1, <5>3 DEF w
            <6>2. QED  BY <5>3, <6>1, WithinIs
          <5>5. e = q + Body(next) + 1
            BY <4>1 DEF e
          <5>6. QED  BY <1>9, <4>2, <4>3, <5>2, <5>4, <5>5, SizesNat
        <4>5. ASSUME next.fields # <<>> PROVE s \in q .. q + Body(next)
          <5>1. 1 \in 1 .. Len(next.fields) /\ 1 \in 0 .. Len(next.fields)
            <6>1. next.fields \in Seq(Seq(STRING))
              BY <4>1, ClosedRows DEF Placed
            <6> HIDE DEF next
            <6>2. Len(next.fields) \in Nat /\ Len(next.fields) # 0
              BY <4>5, <6>1
            <6>3. QED  BY <6>2
          <5>2. Chars(next, 1) \in Nat /\ Chars(next, 1) <= Body(next)
            BY <4>1, <5>1, PlacesIn
          <5>3. Chars(next, 1) >= 1
            <6>1. /\ Chars(next, 0) = 0 /\ Len(next.fields[1]) \in Nat
                  /\ Chars(next, 1) = Chars(next, 1 - 1) + Len(next.fields[1]) + 1
              BY <4>1, <5>1, PlacesIn
            <6>2. 1 - 1 = 0
              OBVIOUS
            <6> HIDE DEF next
            <6>3. QED  BY <6>1, <6>2
          <5>4. At(q + Chars(next, 1) - 1) = SEP
            <6>1. TextInv /\ Sent(peer, next) /\ Holds(next, q)
              BY <4>1 DEF Placed, CommandsInv
            <6>2. QED  BY <5>1, <6>1, ItemAt
          <5> DEFINE c == Chars(next, 1)
                     z == q + Chars(next, 1) - 1
          <5>5. z \in Nat /\ z >= a /\ z + 1 = q + c /\ c \in Nat /\ z + 1 <= q + Body(next)
            <6> HIDE DEF next
            <6>1. c \in Nat /\ c >= 1 /\ c <= Body(next)
              BY <5>2, <5>3
            <6>2. q > a /\ q \in Nat
              BY <2>6, <2>7
            <6>3. z = q + c - 1 /\ a \in Nat
              BY <1>2
            <6> DEFINE w == Body(next)
            <6>4. w \in Nat /\ c <= w
              BY <4>2, <6>1
            <6> HIDE DEF q, c, z, w
            <6>5. z \in Nat /\ z >= a /\ z + 1 = q + c /\ z + 1 <= q + w
              <7>1. c \in Nat /\ c >= 1
                BY <6>1
              <7>2. z \in Nat /\ z >= q /\ z + 1 = q + c
                BY <6>2, <6>3, <7>1
              <7>3. z >= a
                BY <6>2, <6>3, <7>2
              <7>4. z + 1 <= q + w
                BY <6>2, <6>4, <7>1, <7>2
              <7>5. QED  BY <7>2, <7>3, <7>4
            <6>6. QED  BY <6>1, <6>5 DEF w
          <5>6. ASSUME z <= (a + ACCOUNT_MAX) + 1 PROVE s <= q + Body(next)
            <6>1. z \in a .. a + ACCOUNT_MAX + 1
              BY <1>2, <5>5, <5>6, SizesNat
            <6>2. At(z) \in {NUL, SEP}
              BY <5>4
            <6> HIDE DEF z
            <6>3. NameEnd(a) <= z
              BY <1>2, <6>1, <6>2, NameEndIs
            <6>4. QED
              <7> HIDE DEF next, q, c
              <7>1. QED  BY <1>2, <1>5, <4>2, <4>3, <5>5, <6>3, SizesNat, SMTT(30)
          <5>7. ASSUME z > (a + ACCOUNT_MAX) + 1 PROVE s <= q + Body(next)
            <6> DEFINE b == q + Body(next)
            <6>1. /\ a \in Nat /\ ACCOUNT_MAX \in Nat /\ z \in Nat
                  /\ z > (a + ACCOUNT_MAX) + 1
              BY <1>2, <5>5, <5>7, SizesNat
            <6>2. b \in Nat /\ z + 1 <= b
              BY <4>2, <4>3, <5>5
            <6> DEFINE y == NameEnd(a)
            <6>3. y \in a .. a + ACCOUNT_MAX + 1 /\ s = y + 1
              BY <1>2, <1>5
            <6> HIDE DEF b, y, z, a
            <6>4. y <= (a + ACCOUNT_MAX) + 1 /\ y \in Nat
              BY <6>1, <6>3
            <6>5. y + 1 <= z
              BY <6>1, <6>4
            <6>6. y + 1 <= b
              BY <6>1, <6>2, <6>4, <6>5
            <6>7. QED  BY <6>3, <6>6 DEF b
          <5>8. (z <= (a + ACCOUNT_MAX) + 1) \/ (z > (a + ACCOUNT_MAX) + 1)
            BY <1>2, <5>5, SizesNat
          <5> HIDE DEF z, c
          <5>9. s <= q + Body(next)
            BY <5>6, <5>7, <5>8
          <5> HIDE DEF next, q
          <5>10. QED  BY <1>9, <4>2, <4>3, <5>9
        <4>6. s \in q .. q + Body(next)
          BY <4>4, <4>5
        <4>7. i' = q + Body(next) + 1
          BY <1>2, <4>1, <4>6, SkipsItem
        <4>8. QED  BY <1>4, <2>5, <3>1, <3>3, <4>1, <4>7
      <3>6. QED  BY <3>4, <3>5
    <2>11. QED  BY <2>9, <2>10
  <1>13. QED  BY <1>11, <1>12

-----------------------------------------------------------------------------
(* Where the loop is, and what has been done until then.                   *)

\* In the middle of item k: it was valid, and has arguments that were not read.
Middle(k) ==
    LET item == message[k] IN
    /\ item.end = <<END>> /\ Ordered(peer, item) /\ ~Reply(peer, item.fields)
    /\ Acc(k) = IF ~Opens(Behind(peer, item.fields)) THEN 0 ELSE Within(Len(item.tail) + 1)

\* At the beginning of an item, or of what the last one that fits is followed by;
\* in the middle of one; in what a command cut off says; or at the end.
Reached(c, done) ==
    \/ \E k \in 0 .. Fitting : c = Start(k) /\ ~(Acc(k) > 0) /\ done = Ord(k)
    \/ \E k \in 1 .. Fitting :
          /\ Middle(k) /\ done = Ord(k)
          /\ c = Start(k - 1) + Chars(message[k], Takes(peer, message[k].fields))
    \/ /\ Fitting # Len(message) \/ CutShort(message)
       /\ Row(Ord(Fitting)) /\ IsPrefix(Ord(Fitting), done)
    \/ c >= Len(text) /\ done = Ord(Fitting)

ReadInv ==
    /\ pc = "read" => Row(acts) /\ Reached(i, acts)
    /\ pc = "pend" => i = 0 /\ acts = <<>>

\* Once what was ordered has been done, whatever else is done comes after it.
LEMMA BeyondTurn ==
  ASSUME Turn, NEW w, Row(w), Row(acts), IsPrefix(w, acts)
  PROVE  Row(acts') /\ IsPrefix(w, acts')
  <1>1. PICK d : Row(d) /\ acts' = acts \o d
    BY TurnAdds
  <1>2. Row(acts \o d)
    BY <1>1, RowsJoin
  <1>3. IsPrefix(w, acts \o d)
    BY <1>1, PrefixStays
  <1>4. QED  BY <1>1, <1>2, <1>3

LEMMA PrefixOfItself ==
  ASSUME NEW w, Row(w)
  PROVE  IsPrefix(w, w)
  <1>1. PICK S : w \in Seq(S)
    BY DEF Row
  <1>2. Len(w) \in Nat
    BY <1>1
  <1>3. Len(w) <= Len(w) /\ SubSeq(w, 1, Len(w)) = SubSeq(w, 1, Len(w))
    BY <1>2
  <1>4. QED  BY <1>3 DEF IsPrefix

\* What is left of a command that was carried out.
LEMMA BehindIs ==
  ASSUME NEW p, NEW item, Sent(p, item), Ordered(p, item)
  PROVE  /\ Takes(p, item.fields) \in 0 .. Len(item.fields) /\ Len(item.fields) \in Nat
         /\ Len(item.fields) >= 3 /\ Takes(p, item.fields) >= 3
         /\ Opens(Behind(p, item.fields)) <=>
              /\ Takes(p, item.fields) + 1 = Len(item.fields)
              /\ One(item.fields[Takes(p, item.fields) + 1])
         /\ ~(/\ Takes(p, item.fields) + 2 < Len(item.fields)
              /\ One(item.fields[Takes(p, item.fields) + 1])
              /\ item.fields[Takes(p, item.fields) + 2] \in Names(p)
              /\ One(item.fields[Takes(p, item.fields) + 3]))
         /\ Reply(p, item.fields) => Takes(p, item.fields) = Len(item.fields)
  <1> DEFINE f == item.fields
             t == Takes(p, item.fields)
             g == SubSeq(f, t + 1, Len(f))
  <1>1. f \in Seq(Seq(STRING)) /\ Len(f) \in Nat
    <2>1. f \in Seq(Seq(STRING))
      BY ClosedRows
    <2>2. QED  BY <2>1
  <1>2. t \in {3, 4, 5} /\ (Reply(p, f) => t # 3)
    BY DEF Takes
  <1>3. Headed(p, f) /\ (Reply(p, f) => Len(f) = 4)
    BY DEF Ordered
  <1>4. Len(f) >= t /\ ~Headed(p, Behind(p, f))
    BY DEF Sent, Complete
  <1>5. Len(f) >= 3
    BY <1>3 DEF Headed
  <1>6. Behind(p, f) = g
    BY DEF Behind
  <1> HIDE DEF f, t
  <1>7. t \in Nat /\ Len(f) \in Nat /\ t <= Len(f) /\ t >= 3
    BY <1>1, <1>2, <1>4
  <1>8. Len(g) = Len(f) - t /\ \A x \in 1 .. Len(f) - t : g[x] = f[t + x]
    BY <1>1, <1>7
  <1> HIDE DEF g
  <1>9. Len(g) \in Nat /\ (Len(g) = 1 <=> t + 1 = Len(f)) /\ (t + 2 < Len(f) => Len(g) >= 3)
    <2> DEFINE l == Len(f)
               d == Len(g)
    <2>1. t \in Nat /\ l \in Nat /\ t <= l /\ d = l - t
      BY <1>7, <1>8
    <2> HIDE DEF l, d
    <2>2. d \in Nat /\ (d = 1 <=> t + 1 = l) /\ (t + 2 < l => d >= 3)
      BY <2>1
    <2>3. QED  BY <2>2 DEF l, d
  <1>10. ASSUME Len(g) = 1 PROVE g[1] = f[t + 1]
    <2> DEFINE l == Len(f)
    <2>1. t \in Nat /\ l \in Nat /\ l - t = 1
      BY <1>7, <1>8, <1>10
    <2>2. \A x \in 1 .. l - t : g[x] = f[t + x]
      BY <1>8
    <2> HIDE DEF l
    <2>3. 1 \in 1 .. l - t
      BY <2>1
    <2>4. QED  BY <2>2, <2>3
  <1>11. ASSUME t + 2 < Len(f) PROVE g[1] = f[t + 1] /\ g[2] = f[t + 2] /\ g[3] = f[t + 3]
    <2> DEFINE l == Len(f)
    <2>1. t \in Nat /\ l \in Nat /\ t + 2 < l
      BY <1>7, <1>11
    <2>2. \A x \in 1 .. l - t : g[x] = f[t + x]
      BY <1>8
    <2> HIDE DEF l
    <2>3. 1 \in 1 .. l - t /\ 2 \in 1 .. l - t /\ 3 \in 1 .. l - t
      BY <2>1
    <2>4. QED  BY <2>2, <2>3
  <1>12. Opens(g) <=> t + 1 = Len(f) /\ One(f[t + 1])
    BY <1>9, <1>10 DEF Opens
  <1>13. ~(/\ t + 2 < Len(f) /\ One(f[t + 1])
            /\ f[t + 2] \in Names(p) /\ One(f[t + 3]))
    <2>1. ASSUME t + 2 < Len(f), One(f[t + 1]), f[t + 2] \in Names(p), One(f[t + 3])
          PROVE  FALSE
      <3>1. Len(g) >= 3 /\ One(g[1]) /\ g[2] \in Names(p) /\ One(g[3])
        BY <1>9, <1>11, <2>1
      <3>2. ~Headed(p, g)
        BY <1>4, <1>6
      <3>3. QED  BY <3>1, <3>2 DEF Headed
    <2>2. QED  BY <2>1
  <1>14. ASSUME Reply(p, f) PROVE t = Len(f)
    <2>1. t \in {4, 5} /\ Len(f) = 4 /\ t <= Len(f)
      BY <1>2, <1>3, <1>7, <1>14
    <2>2. QED  BY <2>1
  <1>15. QED  BY <1>5, <1>6, <1>7, <1>12, <1>13, <1>14 DEF f, t

\* After an item that opens an account.
LEMMA OpenedReaches ==
  ASSUME MessageInv, CommandsInv, pc = "read", Row(acts), NEW k, acts = Ord(k), acts' = acts,
         \/ \E j \in 1 .. Fitting : i' = Start(j) /\ ~(Acc(j) > 0) /\ Ord(j) = Ord(k)
         \/ (Fitting # Len(message) \/ CutShort(message)) /\ Ord(Fitting) = Ord(k)
         \/ i' >= Len(text) /\ Ord(Fitting) = Ord(k)
  PROVE  Reached(i', acts')
  <1>1. Len(message) \in Nat /\ Fitting \in 0 .. Len(message)
    BY ItemsLie
  <1>2. CASE \E j \in 1 .. Fitting : i' = Start(j) /\ ~(Acc(j) > 0) /\ Ord(j) = Ord(k)
    <2>1. PICK j \in 1 .. Fitting : i' = Start(j) /\ ~(Acc(j) > 0) /\ Ord(j) = Ord(k)
      BY <1>2
    <2>2. j \in 0 .. Fitting
      BY <1>1
    <2>3. QED  BY <2>1, <2>2 DEF Reached
  <1>3. CASE (Fitting # Len(message) \/ CutShort(message)) /\ Ord(Fitting) = Ord(k)
    <2>1. IsPrefix(acts, acts)
      BY PrefixOfItself
    <2>2. Ord(Fitting) = acts
      BY <1>3
    <2>3. Row(Ord(Fitting)) /\ IsPrefix(Ord(Fitting), acts')
      BY <2>1, <2>2
    <2>4. QED  BY <1>3, <2>3 DEF Reached
  <1>4. CASE i' >= Len(text) /\ Ord(Fitting) = Ord(k)
    BY <1>4 DEF Reached
  <1>5. QED  BY <1>2, <1>3, <1>4

\* A turn that begins with an item, or behind the last that fits.
LEMMA FromStart ==
  ASSUME CommandsInv, MessageInv, pc = "read", NEW k \in 0 .. Fitting,
         i = Start(k), ~(Acc(k) > 0), acts = Ord(k), Row(acts), Turn
  PROVE  Reached(i', acts')
  <1>1. /\ Len(message) \in Nat \ {0} /\ Fitting \in 0 .. Len(message)
        /\ Fitting = Len(message) => Start(Fitting) = Len(text)
    BY ItemsLie
  <1>2. CASE k = Fitting
    <2>1. Fitting # Len(message)
      <3> SUFFICES ASSUME Fitting = Len(message) PROVE FALSE
        OBVIOUS
      <3>1. i = Len(text) /\ i \in Nat
        BY <1>1, <1>2 DEF CommandsInv, TypeOK, TextInv
      <3>2. At(i) = NUL
        BY <3>1, Received
      <3>3. QED  BY <3>2 DEF Turn, Reading, type
    <2>2. IsPrefix(Ord(Fitting), acts) /\ Row(Ord(Fitting))
      BY <1>2, PrefixOfItself
    <2>3. IsPrefix(Ord(Fitting), acts')
      BY <2>2, BeyondTurn
    <2>4. QED  BY <2>1, <2>2, <2>3 DEF Reached
  <1>3. CASE k # Fitting
    <2> DEFINE l == k + 1
               item == message[k + 1]
               f == item.fields
    <2>1. l \in 1 .. Fitting /\ l \in 0 .. Fitting /\ l - 1 = k
      BY <1>1, <1>3
    <2>2. /\ Ord(l) = acts \o Does(peer, item)
          /\ Acc(l) = IF ~Opens(Left(peer, item)) THEN 0 ELSE Within(Len(item.tail) + 1)
      <3>1. /\ ~(Acc((k + 1) - 1) > 0) =>
                   /\ Ord(k + 1) = Ord((k + 1) - 1) \o Does(peer, message[k + 1])
                   /\ Acc(k + 1) = IF ~Opens(Left(peer, message[k + 1])) THEN 0
                                   ELSE Within(Len(message[k + 1].tail) + 1)
        BY <2>1, ReadsHere
      <3>2. QED  BY <2>1, <3>1
    <2>3. ASSUME ~Ordered(peer, item)
          PROVE  Ord(l) = acts /\ Left(peer, item) = f
      <3>1. Does(peer, item) = <<>>
        BY <2>3 DEF Does
      <3>2. acts \o <<>> = acts
        BY RowsJoin
      <3>3. Left(peer, item) = f
        BY <2>3 DEF Left
      <3>4. QED  BY <2>2, <3>1, <3>2, <3>3
    <2>4. ASSUME i' = Start(l), acts' = Ord(l), ~Opens(Left(peer, item))
          PROVE  Reached(i', acts')
      <3>1. ~(Acc(l) > 0)
        BY <2>2, <2>4
      <3>2. QED  BY <2>1, <2>4, <3>1 DEF Reached
    <2>5. CASE item.end # <<END>>
      <3>1. l = Fitting /\ CutShort(message)
        BY <2>1, <2>5, ItemFits
      <3>2. ~Ordered(peer, item)
        BY <2>5 DEF Ordered
      <3>3. Ord(Fitting) = acts
        BY <2>3, <3>1, <3>2
      <3>4. IsPrefix(Ord(Fitting), acts) /\ Row(Ord(Fitting))
        BY <3>3, PrefixOfItself
      <3>5. IsPrefix(Ord(Fitting), acts')
        BY <3>4, BeyondTurn
      <3>6. QED  BY <3>1, <3>4, <3>5 DEF Reached
    <2>6. CASE item.end = <<END>>
      <3> DEFINE o == Start(k)
      <3>1. Placed(item, o) /\ Start(l) = o + Body(item) + 1 /\ Sent(peer, item) /\ o \in Nat
        BY <2>1, <2>6, ItemFits
      <3>2. Len(f) \in Nat
        BY <3>1, PlacesIn
      <3>3. CASE Headed(peer, f)
        <4>1. /\ Ordered(peer, item) =>
                   /\ acts' = acts \o Does(peer, item)
                   /\ i' = IF Reply(peer, f) THEN o + Body(item) + 1
                           ELSE o + Chars(item, Takes(peer, f))
              /\ ~Ordered(peer, item) => acts' = acts /\ i' = o + Body(item) + 1
          BY <3>1, <3>3, MainTurn
        <4>2. CASE ~Ordered(peer, item)
          <5>1. Left(peer, item) = f /\ Ord(l) = acts
            BY <2>3, <4>2
          <5>2. ~Opens(f)
            BY <3>3 DEF Headed, Opens
          <5>3. QED  BY <2>4, <3>1, <4>1, <4>2, <5>1, <5>2
        <4>3. CASE Ordered(peer, item)
          <5>1. acts' = Ord(l)
            BY <2>2, <4>1, <4>3
          <5>2. Left(peer, item) = Behind(peer, f)
            BY <4>3 DEF Left
          <5>3. CASE Reply(peer, f)
            <6>1. ~Opens(Behind(peer, f))
              <7>1. /\ Takes(peer, f) = Len(f)
                    /\ Opens(Behind(peer, f)) => Takes(peer, f) + 1 = Len(f)
                BY <3>1, <4>3, <5>3, BehindIs
              <7>2. QED  BY <3>2, <7>1
            <6>2. i' = Start(l)
              BY <3>1, <4>1, <4>3, <5>3
            <6>3. QED  BY <2>4, <5>1, <5>2, <6>1, <6>2
          <5>4. CASE ~Reply(peer, f)
            <6>1. i' = Start(l - 1) + Chars(message[l], Takes(peer, message[l].fields))
              BY <2>1, <4>1, <4>3, <5>4
            <6>2. Middle(l)
              BY <2>2, <2>6, <4>3, <5>2, <5>4 DEF Middle
            <6>3. QED  BY <2>1, <5>1, <6>1, <6>2 DEF Reached
          <5>5. QED  BY <5>3, <5>4
        <4>4. QED  BY <4>2, <4>3
      <3>4. CASE ~Headed(peer, f)
        <4>1. Ord(l) = acts /\ Left(peer, item) = f
          BY <2>3, <3>4 DEF Ordered
        <4>2. CASE Opens(f)
          <5>1. Len(f) = 1 /\ One(f[Len(f)]) /\ Len(f) > 0 /\ Len(f) - 1 = 0
            BY <4>2 DEF Opens
          <5>2. Acc(l) = Within(Len(item.tail) + 1)
            BY <2>2, <4>1, <4>2
          <5>3. i = Start(l - 1) + Chars(item, Len(f) - 1)
            <6>1. Chars(item, 0) = 0
              BY <3>1, PlacesIn
            <6>2. QED  BY <2>1, <3>1, <5>1, <6>1
          <5>4. /\ acts' = acts
                /\ \/ \E j \in 1 .. Fitting : i' = Start(j) /\ ~(Acc(j) > 0) /\ Ord(j) = Ord(l)
                   \/ (Fitting # Len(message) \/ CutShort(message)) /\ Ord(Fitting) = Ord(l)
                   \/ i' >= Len(text) /\ Ord(Fitting) = Ord(l)
            BY <2>1, <2>6, <5>1, <5>2, <5>3, OpeningTurn
          <5>5. QED  BY <4>1, <5>4, OpenedReaches
        <4>3. CASE ~Opens(f)
          <5>1. 0 \in 0 .. Len(f) /\ i = o + Chars(item, 0)
            BY <3>1, <3>2, PlacesIn
          <5>2. ~(0 + 1 = Len(f) /\ One(f[0 + 1]))
            BY <4>3 DEF Opens
          <5>3. ~(/\ 0 + 2 < Len(f) /\ One(f[0 + 1])
                  /\ f[0 + 2] \in Names(peer) /\ One(f[0 + 3]))
            BY <3>2, <3>4 DEF Headed
          <5>4. i' = o + Body(item) + 1 /\ acts' = acts
            BY <3>1, <5>1, <5>2, <5>3, VoidTurn
          <5>5. QED  BY <2>4, <3>1, <4>1, <4>3, <5>4
        <4>4. QED  BY <4>2, <4>3
      <3>5. QED  BY <3>3, <3>4
    <2>7. QED  BY <2>5, <2>6
  <1>4. QED  BY <1>2, <1>3

\* A turn that reads the arguments nobody asked for.
LEMMA FromMiddle ==
  ASSUME CommandsInv, MessageInv, pc = "read", NEW k \in 1 .. Fitting, Middle(k),
         i = Start(k - 1) + Chars(message[k], Takes(peer, message[k].fields)),
         acts = Ord(k), Row(acts), Turn
  PROVE  Reached(i', acts')
  <1> DEFINE item == message[k]
             f == item.fields
             o == Start(k - 1)
             t == Takes(peer, f)
  <1>1. /\ item.end = <<END>> /\ Ordered(peer, item)
        /\ Acc(k) = IF ~Opens(Behind(peer, f)) THEN 0 ELSE Within(Len(item.tail) + 1)
    BY DEF Middle
  <1>2. /\ Placed(item, o) /\ Start(k) = o + Body(item) + 1 /\ Sent(peer, item)
        /\ k \in 0 .. Fitting
    BY <1>1, ItemFits
  <1>3. /\ t \in 0 .. Len(f) /\ Len(f) \in Nat /\ Len(f) >= 3 /\ t >= 3
        /\ Opens(Behind(peer, f)) <=> t + 1 = Len(f) /\ One(f[t + 1])
        /\ ~(t + 2 < Len(f) /\ One(f[t + 1]) /\ f[t + 2] \in Names(peer) /\ One(f[t + 3]))
    BY <1>1, <1>2, BehindIs
  <1>4. CASE Opens(Behind(peer, f))
    <2>1. Len(f) > 0 /\ One(f[Len(f)]) /\ Len(f) - 1 = t
      BY <1>3, <1>4
    <2>2. Acc(k) = Within(Len(item.tail) + 1)
      BY <1>1, <1>4
    <2>3. i = Start(k - 1) + Chars(message[k], Len(message[k].fields) - 1)
      BY <2>1
    <2>4. /\ acts' = acts
          /\ \/ \E j \in 1 .. Fitting : i' = Start(j) /\ ~(Acc(j) > 0) /\ Ord(j) = Ord(k)
             \/ (Fitting # Len(message) \/ CutShort(message)) /\ Ord(Fitting) = Ord(k)
             \/ i' >= Len(text) /\ Ord(Fitting) = Ord(k)
      BY <1>1, <2>1, <2>2, <2>3, OpeningTurn
    <2>5. QED  BY <2>4, OpenedReaches
  <1>5. CASE ~Opens(Behind(peer, f))
    <2>1. ~(Acc(k) > 0)
      BY <1>1, <1>5
    <2>2. ~(t + 1 = Len(f) /\ One(f[t + 1]))
      BY <1>3, <1>5
    <2>3. i = o + Chars(item, t)
      OBVIOUS
    <2> HIDE DEF t
    <2>4. i' = o + Body(item) + 1 /\ acts' = acts
      BY <1>2, <1>3, <2>2, <2>3, VoidTurn
    <2>5. QED  BY <1>2, <2>1, <2>4 DEF Reached
  <1>6. QED  BY <1>4, <1>5

-----------------------------------------------------------------------------
(* The steps.                                                              *)

LEMMA InitCommands == CommandsInit => CommandsInv
  BY SizesNat DEF CommandsInit, CommandsInv, TypeOK, TextInv

\* A turn moves the cursor on, and not further than two past the buffer.
LEMMA TurnMoves ==
  ASSUME CommandsInv, Turn
  PROVE  i' \in i + 1 .. TCP_RX_BUFSIZE + 2
  <1>1. Reading
    BY DEF Turn
  <1> DEFINE Onward == i + 1 .. TCP_RX_BUFSIZE + 2
             WithHead == Field(i) /\ Field(s)
  <1>2. i \in 0 .. TCP_RX_BUFSIZE - 1 /\ Len(text) \in Nat /\ Len(text) <= TCP_RX_BUFSIZE
    BY <1>1, Places
  <1>3. Field(i) => i + 2 <= Len(text) /\ s \in i + 3 .. TCP_RX_BUFSIZE + 1
    BY <1>1, Places
  <1>4. WithHead => s + 2 <= Len(text) /\ v = s + 2
    BY <1>1, Places
  <1>5. ASSUME NEW k \in 0 .. TCP_RX_BUFSIZE + 1, k >= i, Skip(k)
        PROVE  i' \in Onward
    <2>1. i' \in k + 1 .. TCP_RX_BUFSIZE + 2
      BY <1>5, SkipsTo
    <2>2. QED  BY <1>2, <1>5, <2>1, SizesNat
  <1>6. WithHead => v \in 0 .. TCP_RX_BUFSIZE /\ v > i
    BY <1>2, <1>3, <1>4, SizesNat
  \* The value, and what stands behind a value that is there.
  <1>7. ASSUME WithHead, At(v + 1) = SEP
        PROVE  v + 2 <= TCP_RX_BUFSIZE /\ v + 2 \in Onward
    <2>1. At(v + 1) # NUL
      BY <1>7 DEF SEP, NUL
    <2>2. v + 1 < Len(text)
      BY <1>6, <1>7, <2>1, Received
    <2>3. QED  BY <1>2, <1>6, <1>7, <2>2, SizesNat
  <1>8. ASSUME WithHead, At(v + 1) = SEP
        PROVE  Then \in Onward
    <2>1. v + 2 \in 0 .. TCP_RX_BUFSIZE /\ v + 2 > i
      BY <1>2, <1>6, <1>7, <1>8, SizesNat
    <2>2. NameEnd(v + 2) \in Nat /\ NameEnd(v + 2) >= v + 2 /\ NameEnd(v + 2) <= TCP_RX_BUFSIZE
      BY <2>1, NameEnds, SizesNat
    <2>3. QED  BY <1>2, <2>1, <2>2, SizesNat DEF Then
  <1> HIDE DEF WithHead
  <1>9. \A t, sub : Orders(t, sub) => WithHead
    BY DEF Orders, WithHead
  <1>10. CASE NoType
    <2>1. Skip(i)
      BY <1>10 DEF NoType
    <2>2. QED  BY <1>2, <1>5, <2>1, SizesNat
  <1>11. CASE Stranger
    <2>1. Skip(s) /\ Field(i)
      BY <1>11 DEF Stranger
    <2>2. QED  BY <1>2, <1>3, <1>5, <2>1, SizesNat
  <1>12. CASE NoSubtype
    <2>1. Skip(s) /\ Field(i)
      BY <1>12 DEF NoSubtype
    <2>2. QED  BY <1>2, <1>3, <1>5, <2>1, SizesNat
  <1>13. CASE LoginReply
    <2>1. WithHead
      BY <1>9, <1>13 DEF LoginReply
    <2>2. CASE At(v + 1) = SEP /\ At(v + 2) = END
      <3>1. At(v + 2) # NUL
        BY <2>2 DEF END, NUL
      <3>2. v + 2 < Len(text)
        BY <1>6, <2>1, <3>1, Received
      <3>3. i' = v + 3
        BY <1>13, <2>2 DEF LoginReply, Do
      <3>4. QED  BY <1>2, <1>6, <2>1, <3>2, <3>3, SizesNat
    <2>3. CASE ~(At(v + 1) = SEP /\ At(v + 2) = END)
      <3>1. Skip(v)
        BY <1>13, <2>3 DEF LoginReply
      <3>2. QED  BY <1>2, <1>5, <1>6, <2>1, <3>1, SizesNat
    <2>4. QED  BY <2>2, <2>3
  <1>14. CASE UserLogin
    <2>1. WithHead
      BY <1>9, <1>14 DEF UserLogin
    <2>2. i' = NameEnd(v) + 1
      BY <1>14 DEF UserLogin, Do
    <2>3. NameEnd(v) \in Nat /\ NameEnd(v) >= v /\ NameEnd(v) <= TCP_RX_BUFSIZE
      BY <1>6, <2>1, NameEnds, SizesNat
    <2>4. QED  BY <1>2, <1>6, <2>1, <2>2, <2>3, SizesNat
  <1>15. CASE IHome
    <2>1. WithHead /\ At(v + 1) = SEP
      BY <1>9, <1>15 DEF IHome
    <2>2. i' = v + 2
      BY <1>15 DEF IHome, Do
    <2>3. QED  BY <1>7, <2>1, <2>2
  <1>16. CASE Get \/ Lamp \/ Video
    <2>1. WithHead /\ At(v + 1) = SEP
      BY <1>9, <1>16 DEF Get, Lamp, Video, Given
    <2>2. i' = Then
      BY <1>16 DEF Get, Lamp, Video, Do
    <2>3. QED  BY <1>8, <2>1, <2>2
  <1>17. CASE NoValue
    <2>1. WithHead /\ Skip(v)
      BY <1>9, <1>17 DEF NoValue
    <2>2. QED  BY <1>2, <1>5, <1>6, <2>1, SizesNat
  <1>18. CASE Other
    <2>1. WithHead /\ i' = v
      BY <1>18 DEF Other, Do, WithHead
    <2>2. QED  BY <1>2, <1>6, <2>1, SizesNat
  <1>19. QED
    BY <1>10, <1>11, <1>12, <1>13, <1>14, <1>15, <1>16, <1>17, <1>18 DEF Turn

LEMMA TurnKeeps == CommandsInv /\ Turn => CommandsInv'
  <1> SUFFICES ASSUME CommandsInv, Turn PROVE CommandsInv'
    OBVIOUS
  <1>1. i' \in i + 1 .. TCP_RX_BUFSIZE + 2 /\ i \in Nat
    BY TurnMoves, SizesNat DEF CommandsInv, TypeOK
  <1>2. UNCHANGED <<pc, peer, message, text>>
    BY DEF Turn
  <1>3. QED  BY <1>1, <1>2, SizesNat DEF CommandsInv, TypeOK, TextInv

LEMMA TakeKeeps ==
  ASSUME CommandsInv, NEW p \in {"client", "server"}, NEW m \in Messages[p], Take(p, m)
  PROVE  CommandsInv'
  <1> DEFINE t == TextOf(m)
             n == Min({Len(t), TCP_RX_BUFSIZE})
  <1>1. t \in Seq(Character)
    BY TextIs
  <1>2. text' = SubSeq(t, 1, n) /\ i' = i /\ pc' = "read" /\ peer' = p
    BY DEF Take
  <1> HIDE DEF t
  <1>3. n \in Nat /\ n <= Len(t) /\ n <= TCP_RX_BUFSIZE
    <2> DEFINE T == {Len(t), TCP_RX_BUFSIZE}
    <2>1. T \in SUBSET Nat /\ T # {} /\ Len(t) \in T /\ TCP_RX_BUFSIZE \in T
      BY <1>1, SizesNat
    <2> HIDE DEF T
    <2>2. Min(T) \in Nat /\ \A y \in T : Min(T) <= y
      BY <2>1, LeastIs
    <2>3. QED  BY <2>1, <2>2 DEF T
  <1> HIDE DEF n
  <1>4. SubSeq(t, 1, n) \in Seq(Character) /\ Len(SubSeq(t, 1, n)) = n
    BY <1>1, <1>3
  <1>5. QED  BY <1>2, <1>3, <1>4 DEF CommandsInv, TypeOK, TextInv

LEMMA NextCommands == CommandsInv /\ [CommandsNext]_commandsVars => CommandsInv'
  <1> SUFFICES ASSUME CommandsInv, [CommandsNext]_commandsVars PROVE CommandsInv'
    OBVIOUS
  <1>1. CASE Turn
    BY <1>1, TurnKeeps
  <1>2. CASE Finish
    BY <1>2, SizesNat DEF Finish, CommandsInv, TypeOK, TextInv
  <1>3. CASE \E p \in {"client", "server"} : \E m \in Messages[p] : Take(p, m)
    BY <1>3, TakeKeeps
  <1>4. CASE UNCHANGED commandsVars
    BY <1>4 DEF commandsVars, CommandsInv, TypeOK, TextInv
  <1>5. QED  BY <1>1, <1>2, <1>3, <1>4 DEF CommandsNext

LEMMA CommandsInvHolds == CommandsSpec => []CommandsInv
  <1>1. CommandsInit => CommandsInv
    BY InitCommands
  <1>2. CommandsInv /\ [CommandsNext]_commandsVars => CommandsInv'
    BY NextCommands
  <1>3. QED  BY <1>1, <1>2, PTL DEF CommandsSpec

(* tcp_handle_task, for buffers and names of any length and whatever       *)
(* messages come: its cursor is never more than two past the buffer, and   *)
(* no more than the buffer holds is taken for the text.                    *)
THEOREM CursorInReach == CommandsSpec => []TypeOK
  <1>1. CommandsInv => TypeOK
    BY DEF CommandsInv
  <1>2. QED  BY <1>1, CommandsInvHolds, PTL

(* Each turn of the loop moves the cursor on, whatever it reads: so that   *)
(* the loop cannot go round on one command, and ends after as many turns   *)
(* as the buffer has characters, at most.                                  *)
THEOREM TurnsAdvance == CommandsSpec => [][Turn => i' > i]_commandsVars
  <1>1. CommandsInv /\ [CommandsNext]_commandsVars => [Turn => i' > i]_commandsVars
    <2>1. ASSUME CommandsInv, Turn
          PROVE  i' > i
      <3>1. i' \in i + 1 .. TCP_RX_BUFSIZE + 2 /\ i \in Nat
        BY <2>1, TurnMoves, SizesNat DEF CommandsInv, TypeOK
      <3>2. QED  BY <3>1, SizesNat
    <2>2. QED  BY <2>1
  <1>2. QED  BY <1>1, CommandsInvHolds, PTL DEF CommandsSpec

-----------------------------------------------------------------------------
(* What is done at the end of a message.                                   *)

LEMMA TurnReads ==
  ASSUME CommandsInv, MessageInv, ReadInv, Turn
  PROVE  MessageInv' /\ ReadInv'
  <1>1. pc = "read" /\ UNCHANGED <<pc, peer, message, text>>
    BY DEF Turn, Reading
  <1>2. Row(acts) /\ Reached(i, acts)
    BY <1>1 DEF ReadInv
  <1>3. Row(acts')
    <2>1. IsPrefix(acts, acts)
      BY <1>2, PrefixOfItself
    <2>2. QED  BY <1>2, <2>1, BeyondTurn
  <1>4. Reached(i', acts')
    <2>1. CASE \E k \in 0 .. Fitting : i = Start(k) /\ ~(Acc(k) > 0) /\ acts = Ord(k)
      <3>1. PICK k \in 0 .. Fitting : i = Start(k) /\ ~(Acc(k) > 0) /\ acts = Ord(k)
        BY <2>1
      <3>2. QED  BY <1>1, <1>2, <3>1, FromStart
    <2>2. CASE \E k \in 1 .. Fitting :
                 /\ Middle(k) /\ acts = Ord(k)
                 /\ i = Start(k - 1) + Chars(message[k], Takes(peer, message[k].fields))
      <3>1. PICK k \in 1 .. Fitting :
                 /\ Middle(k) /\ acts = Ord(k)
                 /\ i = Start(k - 1) + Chars(message[k], Takes(peer, message[k].fields))
        BY <2>2
      <3>2. QED  BY <1>1, <1>2, <3>1, FromMiddle
    <2>3. CASE /\ Fitting # Len(message) \/ CutShort(message)
               /\ Row(Ord(Fitting)) /\ IsPrefix(Ord(Fitting), acts)
      <3>1. IsPrefix(Ord(Fitting), acts')
        BY <1>2, <2>3, BeyondTurn
      <3>2. QED  BY <2>3, <3>1 DEF Reached
    <2>4. CASE i >= Len(text) /\ acts = Ord(Fitting)
      <3>1. i \in Nat /\ i >= Len(text)
        BY <2>4 DEF CommandsInv, TypeOK
      <3>2. At(i) = NUL
        BY <3>1, Received
      <3>3. QED  BY <3>2 DEF Turn, Reading, type
    <2>5. QED  BY <1>2, <2>1, <2>2, <2>3, <2>4 DEF Reached
  <1>5. Reached(i, acts)'
    <2>1. peer' = peer /\ message' = message /\ text' = text
      BY <1>1
    <2>2. QED  BY <1>4, <2>1 DEF Reached, Middle, Fitting, Start, Ord, Acc
  <1>6. MessageInv'
    BY <1>1 DEF MessageInv
  <1>7. QED  BY <1>1, <1>3, <1>5, <1>6 DEF ReadInv

LEMMA TakeReads ==
  ASSUME ReadInv, NEW p \in {"client", "server"}, NEW m \in Messages[p], Take(p, m)
  PROVE  MessageInv' /\ ReadInv'
  <1>1. /\ pc = "pend" /\ pc' = "read" /\ peer' = p /\ message' = m
        /\ text' = SubSeq(TextOf(m), 1, Min({Len(TextOf(m)), TCP_RX_BUFSIZE}))
        /\ i' = i /\ acts' = acts
    BY DEF Take
  <1>2. i' = 0 /\ acts' = <<>>
    BY <1>1 DEF ReadInv
  <1>3. MessageInv'
    BY <1>1 DEF MessageInv
  <1>4. Row(acts')
    <2>1. <<>> \in Seq({})
      OBVIOUS
    <2>2. QED  BY <1>2, <2>1 DEF Row
  <1>5. Len(Fits(m)) \in 0 .. Len(m) /\ Len(TextOf(SubSeq(m, 1, 0))) = 0 /\ Len(m) \in Nat
    BY FitsIs, ItemsSent
  <1>6. PICK g : g = Read(p, Fits(m))
    OBVIOUS
  <1>7. g[0].orders = <<>> /\ g[0].account = 0
    BY <1>6, ReadsOf, ZenonT(30)
  <1>8. Start(0)' = 0 /\ Ord(0)' = <<>> /\ Acc(0)' = 0 /\ Fitting' = Len(Fits(m))
    BY <1>1, <1>5, <1>6, <1>7 DEF Start, Ord, Acc, Fitting
  <1>9. \E k \in 0 .. Fitting' : i' = Start(k)' /\ ~(Acc(k)' > 0) /\ acts' = Ord(k)'
    <2>1. 0 \in 0 .. Fitting'
      BY <1>5, <1>8
    <2>2. ~(Acc(0)' > 0)
      BY <1>8
    <2>3. QED  BY <1>2, <1>8, <2>1, <2>2
  <1>10. Reached(i, acts)'
    BY <1>9 DEF Reached
  <1>11. QED  BY <1>1, <1>3, <1>4, <1>10 DEF ReadInv

LEMMA NextReads ==
  ASSUME CommandsInv, MessageInv, ReadInv, [CommandsNext]_commandsVars
  PROVE  MessageInv' /\ ReadInv'
  <1>1. CASE Turn
    BY <1>1, TurnReads
  <1>2. CASE Finish
    BY <1>2 DEF Finish, MessageInv, ReadInv
  <1>3. CASE \E p \in {"client", "server"} : \E m \in Messages[p] : Take(p, m)
    BY <1>3, TakeReads
  <1>4. CASE UNCHANGED commandsVars
    <2>1. /\ pc' = pc /\ peer' = peer /\ message' = message /\ text' = text
          /\ i' = i /\ acts' = acts
      BY <1>4 DEF commandsVars
    <2>2. Reached(i, acts)' <=> Reached(i, acts)
      BY <2>1 DEF Reached, Middle, Fitting, Start, Ord, Acc
    <2>3. QED  BY <2>1, <2>2 DEF MessageInv, ReadInv
  <1>5. QED  BY <1>1, <1>2, <1>3, <1>4 DEF CommandsNext

\* Where the loop is left, what was ordered has been done.
LEMMA EndIsReached ==
  ASSUME CommandsInv, MessageInv, ReadInv, AtEnd
  PROVE  /\ Row(Ord(Fitting)) /\ IsPrefix(Ord(Fitting), acts)
         /\ acts # Ord(Fitting) => Fitting # Len(message) \/ CutShort(message)
  <1>1. pc = "read" /\ ~(type # NUL /\ i < TCP_RX_BUFSIZE) /\ Row(acts) /\ Reached(i, acts)
    BY DEF AtEnd, Reading, ReadInv
  <1>2. ASSUME acts = Ord(Fitting)
        PROVE  Row(Ord(Fitting)) /\ IsPrefix(Ord(Fitting), acts)
    <2>1. IsPrefix(acts, acts)
      BY <1>1, PrefixOfItself
    <2>2. QED  BY <1>1, <1>2, <2>1
  \* Nowhere in an item that has an END.
  <1>3. ASSUME NEW item, NEW o, Placed(item, o), NEW t \in 0 .. Len(item.fields),
               i = o + Chars(item, t)
        PROVE  FALSE
    <2>1. type # NUL
      BY <1>3, FieldAt DEF type
    <2>2. /\ o \in Nat /\ Chars(item, t) \in Nat /\ Chars(item, t) <= Body(item)
          /\ o + Body(item) < TCP_RX_BUFSIZE /\ Body(item) \in Nat
      BY <1>3, PlacesIn
    <2>3. i < TCP_RX_BUFSIZE
      BY <1>3, <2>2, SizesNat
    <2>4. QED  BY <1>1, <2>1, <2>3
  <1>4. CASE \E k \in 0 .. Fitting : i = Start(k) /\ ~(Acc(k) > 0) /\ acts = Ord(k)
    <2>1. PICK k \in 0 .. Fitting : i = Start(k) /\ ~(Acc(k) > 0) /\ acts = Ord(k)
      BY <1>4
    <2>2. CASE k = Fitting
      BY <1>2, <2>1, <2>2
    <2>3. CASE k # Fitting
      <3> DEFINE l == k + 1
                 item == message[k + 1]
      <3>1. l \in 1 .. Fitting /\ l - 1 = k
        <4>1. Len(message) \in Nat \ {0} /\ Fitting \in 0 .. Len(message)
          BY <1>1, ItemsLie
        <4>2. QED  BY <2>3, <4>1
      <3>2. item.end # <<END>>
        <4> SUFFICES ASSUME item.end = <<END>> PROVE FALSE
          OBVIOUS
        <4>1. Placed(item, Start(k)) /\ Start(k) \in Nat
          BY <1>1, <3>1, ItemFits
        <4>2. Len(item.fields) \in Nat /\ Chars(item, 0) = 0
          BY <4>1, PlacesIn
        <4>3. 0 \in 0 .. Len(item.fields) /\ i = Start(k) + Chars(item, 0)
          BY <2>1, <4>1, <4>2
        <4>4. QED  BY <1>3, <4>1, <4>3
      <3>3. l = Fitting
        BY <1>1, <3>1, <3>2, ItemFits
      <3>4. Ord(l) = acts \o Does(peer, item)
        <4>1. /\ ~(Acc((k + 1) - 1) > 0) =>
                     /\ Ord(k + 1) = Ord((k + 1) - 1) \o Does(peer, message[k + 1])
                     /\ Acc(k + 1) = IF ~Opens(Left(peer, message[k + 1])) THEN 0
                                     ELSE Within(Len(message[k + 1].tail) + 1)
          BY <1>1, <3>1, ReadsHere
        <4>2. QED  BY <2>1, <3>1, <4>1
      <3>5. Does(peer, item) = <<>>
        BY <3>2 DEF Does, Ordered
      <3>6. acts \o <<>> = acts
        BY <1>1, RowsJoin
      <3>7. QED  BY <1>2, <3>3, <3>4, <3>5, <3>6
    <2>4. QED  BY <2>2, <2>3
  <1>5. CASE \E k \in 1 .. Fitting :
               /\ Middle(k) /\ acts = Ord(k)
               /\ i = Start(k - 1) + Chars(message[k], Takes(peer, message[k].fields))
    <2>1. PICK k \in 1 .. Fitting :
               /\ Middle(k) /\ acts = Ord(k)
               /\ i = Start(k - 1) + Chars(message[k], Takes(peer, message[k].fields))
      BY <1>5
    <2>2. message[k].end = <<END>> /\ Ordered(peer, message[k])
      BY <2>1 DEF Middle
    <2>3. Placed(message[k], Start(k - 1)) /\ Sent(peer, message[k])
      BY <1>1, <2>2, ItemFits
    <2>4. Takes(peer, message[k].fields) \in 0 .. Len(message[k].fields)
      BY <2>2, <2>3, BehindIs
    <2>5. QED  BY <1>3, <2>1, <2>3, <2>4
  <1>6. CASE /\ Fitting # Len(message) \/ CutShort(message)
             /\ Row(Ord(Fitting)) /\ IsPrefix(Ord(Fitting), acts)
    BY <1>6
  <1>7. CASE i >= Len(text) /\ acts = Ord(Fitting)
    BY <1>2, <1>7
  <1>8. QED  BY <1>1, <1>4, <1>5, <1>6, <1>7 DEF Reached

(* tcp_handle_task, for buffers and names of any length and whatever      *)
(* commands, pieces of commands and rows without sense are sent together:  *)
(* when it has read a message, every valid command of it that the buffer   *)
(* holds whole has been carried out, once, in the order they stand in and  *)
(* with the values they have, but for those an item before them has        *)
(* swallowed; and nothing else has been done, unless a command was cut off *)
(* by the end of the buffer or by TCP.                                     *)
THEOREM CarriesOutAllHolds == CommandsSpec => []CarriesOutAll
  <1>1. CommandsInit => MessageInv /\ ReadInv
    BY DEF CommandsInit, MessageInv, ReadInv
  <1>2. CommandsInv /\ MessageInv /\ ReadInv /\ [CommandsNext]_commandsVars
          => MessageInv' /\ ReadInv'
    BY NextReads
  <1>3. CommandsInv /\ MessageInv /\ ReadInv => CarriesOutAll
    <2> SUFFICES ASSUME CommandsInv, MessageInv, ReadInv, AtEnd
                 PROVE  /\ IsPrefix(Standing(peer, Fits(message)).orders, acts)
                        /\ acts # Standing(peer, Fits(message)).orders
                             => Fits(message) # message \/ CutShort(message)
      BY DEF CarriesOutAll
    <2>1. Standing(peer, Fits(message)).orders = Ord(Fitting)
      BY ReadsHere DEF AtEnd
    <2>2. /\ IsPrefix(Ord(Fitting), acts)
          /\ acts # Ord(Fitting) => Fitting # Len(message) \/ CutShort(message)
      BY EndIsReached
    <2>3. Fitting # Len(message) => Fits(message) # message
      BY DEF Fitting
    <2>4. QED  BY <2>1, <2>2, <2>3
  <1>4. QED  BY <1>1, <1>2, <1>3, CommandsInvHolds, PTL DEF CommandsSpec

=============================================================================
