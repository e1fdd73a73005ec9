--------------------------- MODULE LampPathProofs ---------------------------
(***************************************************************************)
(* Proofs about LampPath, for any number of blocks, any size of the queue, *)
(* any commands and any bounds.                                            *)
(***************************************************************************)
EXTENDS LampPath, FiniteSetTheorems, WellFoundedInduction, TLAPS

(* Once led_task has freed a block of somebody else nothing is claimed any *)
(* more, and robbed stays TRUE.  Until then: who holds which block, what   *)
(* the parts on their way say and in which order, what led_task has made of*)
(* those it took, and what waits for tcp_send_task.                        *)

Pc == {"auth", "msg", "freeSwitch", "id", "switch", "tag", "body", "freeAuth",
       "freeMsg", "freeId"}

Upcoming(g, q) == (IF g = NULL THEN <<>> ELSE <<g>>) \o q
Coming == Upcoming(got, led_event)
Elements(s) == {s[i] : i \in 1 .. Len(s)}
Distinct(s) == \A i, j \in 1 .. Len(s) : i # j => s[i] # s[j]

Texts == Peer \cup Switch \cup {"0", "1", "answer", ""}
Asking == [peer : Peer, switch : Switch \cup {"other"}, id : {"0", "1"}]
Names == {"auth", "msg", "id"}

FreshAt(p) ==
    IF p = "auth" THEN {}
    ELSE IF p \in {"msg", "id"} THEN {"auth"}
    ELSE IF p = "freeSwitch" THEN {"auth", "msg"}
    ELSE IF p \in {"switch", "tag", "body"} THEN {"auth", "id"}
    ELSE IF p = "freeAuth" THEN Names
    ELSE IF p = "freeMsg" THEN {"msg", "id"} ELSE {"id"}

TypeInv ==
    /\ buffer \in [Block -> [text : Texts, of : Nat]]
    /\ led_event \in Seq(Block) /\ tcp_send_event \in Seq(Block)
    /\ pc \in Pc /\ waiting \in BOOLEAN
    /\ got \in Block \cup {NULL}
    /\ auth_msg \in Block \cup {NULL} /\ msg \in Block \cup {NULL}
    /\ id_msg \in Block \cup {NULL}
    /\ taken \in [peer : Peer, switch : Switch, of : [1 .. 3 -> Nat]]
    /\ commands \in Seq(Asking)
    /\ switched \in Seq([switch : Switch, of : [1 .. 3 -> Nat]])
    /\ answers \in Seq([to : Texts, text : Texts, of : Nat \X Nat])
    /\ received \in Nat /\ lost \in Nat
    /\ waiting => got = NULL /\ led_event = <<>>
    /\ waiting \/ got # NULL => pc \in {"auth", "msg", "id"}
    /\ fresh \subseteq FreshAt(pc)

\* Memory: who holds which run of blocks, and how many nobody holds.
RunOf(table, b) == b .. b + table[b] - 1
Sound(table, held) ==
    /\ \A b \in held : /\ b \in Block /\ table[b] # 0
                       /\ \A k \in RunOf(table, b) : k \in Block /\ table[k] = table[b]
    /\ \A b, c \in held : b # c => RunOf(table, b) \cap RunOf(table, c) = {}
Used(table) == {k \in Block : table[k] # 0}
Stray(table, held) == Used(table) \ UNION {RunOf(table, b) : b \in held}
Mem(table, held, k) ==
    /\ table \in [Block -> Nat] /\ Sound(table, held)
    /\ Cardinality(Stray(table, held)) = k

Ptr == [auth |-> auth_msg, msg |-> msg, id |-> id_msg]
Mine == {Ptr[f] : f \in fresh}
InQueue == Elements(Coming)
Sent == Elements(tcp_send_event)
Held == InQueue \cup Mine \cup Sent

OwnInv ==
    /\ Mem(memmap, Held, 8 * received + lost)
    /\ Distinct(Coming) /\ Distinct(tcp_send_event)
    /\ \A f, g \in fresh : f # g => Ptr[f] # Ptr[g]
    /\ InQueue \cap Mine = {} /\ InQueue \cap Sent = {} /\ Mine \cap Sent = {}

\* The parts on their way: what each says, and that only the end of a command and whole
\* commands can be missing between two of them.
Turn(x) == (x - 1) % 3
Good(cmds, v) ==
    /\ v.of \in 1 .. 3 * Len(cmds)
    /\ Turn(v.of) = 0 => v.text = cmds[CommandOf(v.of)].peer
    /\ Turn(v.of) = 1 => cmds[CommandOf(v.of)].switch \in {v.text, "other"}
    /\ Turn(v.of) = 2 => v.text = cmds[CommandOf(v.of)].id
Behind(x, y) == y = x + 1 \/ Turn(y) = 0

Row(cmds, buf, s) ==
    /\ \A i \in 1 .. Len(s) : Good(cmds, buf[s[i]])
    /\ \A i, j \in 1 .. Len(s) : i < j => buf[s[i]].of < buf[s[j]].of
    /\ \A i, j \in 1 .. Len(s) : j = i + 1 => Behind(buf[s[i]].of, buf[s[j]].of)
Above(x, buf, s) == \A i \in 1 .. Len(s) : x < buf[s[i]].of
After(x, buf, s) == \A i \in 1 .. Len(s) : i = 1 => Behind(x, buf[s[i]].of)

QueueInv ==
    /\ Row(commands, buffer, Coming)
    /\ \A j \in 1 .. Len(switched) : Above(switched[j].of[1], buffer, Coming)
    /\ pc \in {"msg", "freeSwitch", "id", "switch"} => Above(taken.of[1], buffer, Coming)
    /\ pc = "msg" => After(taken.of[1], buffer, Coming)
    /\ pc \in {"freeSwitch", "id"} => After(taken.of[2], buffer, Coming)

\* What led_task has taken.
TakenInv ==
    /\ pc \in {"msg", "freeSwitch", "id", "switch"} =>
          /\ taken.of[1] \in 1 .. 3 * Len(commands)
          /\ \A j \in 1 .. Len(switched) : switched[j].of[1] < taken.of[1]
          /\ Turn(taken.of[1]) = 0 => taken.peer = commands[CommandOf(taken.of[1])].peer
    /\ pc \in {"freeSwitch", "id", "switch"} =>
          /\ Turn(taken.of[1]) = 0 /\ taken.of[2] = taken.of[1] + 1
          /\ commands[CommandOf(taken.of[1])].switch \in {taken.switch, "other"}
    /\ pc = "switch" =>
          taken.of[3] = taken.of[1] + 2 /\ commands[CommandOf(taken.of[1])].id = "0"

Applied(cmds, sw, i) ==
    LET x == sw[i].of[1] IN
    /\ x \in 1 .. 3 * Len(cmds) /\ Turn(x) = 0
    /\ sw[i].of[2] = x + 1 /\ sw[i].of[3] = x + 2
    /\ cmds[CommandOf(x)].switch \in {sw[i].switch, "other"} /\ cmds[CommandOf(x)].id = "0"
    /\ \A j \in 1 .. Len(sw) : j < i => sw[j].of[1] < x
SwitchInv == \A i \in 1 .. Len(switched) : Applied(commands, switched, i)

\* What waits in tcp_send_event, and what was written.
Answers(x) == [to |-> commands[CommandOf(x)].peer, text |-> "answer", of |-> <<x, x>>]
Tag(x) == [text |-> commands[CommandOf(x)].peer, of |-> x]
Body(x) == [text |-> "answer", of |-> x]
Open == IF pc = "tag" THEN 2 ELSE IF pc = "body" THEN 1 ELSE 0
SendInv ==
    /\ Len(tcp_send_event) = 2 * (Len(switched) - Len(answers)) - Open
    /\ \A i \in 1 .. Len(answers) :
          i \in 1 .. Len(switched) /\ answers[i] = Answers(switched[i].of[1])
    /\ \A i \in 1 .. Len(switched) :
          /\ 2 * (i - Len(answers)) - 1 \in 1 .. Len(tcp_send_event) =>
                buffer[tcp_send_event[2 * (i - Len(answers)) - 1]] = Tag(switched[i].of[1])
          /\ 2 * (i - Len(answers)) \in 1 .. Len(tcp_send_event) =>
                buffer[tcp_send_event[2 * (i - Len(answers))]] = Body(switched[i].of[1])
    /\ pc \in {"tag", "body"} =>
          /\ Len(switched) # 0 /\ taken.of[1] = switched[Len(switched)].of[1]
          /\ taken.peer = commands[CommandOf(taken.of[1])].peer

Inner == TypeInv /\ OwnInv /\ QueueInv /\ TakenInv /\ SwitchInv /\ SendInv
Inv == robbed \/ Inner

-----------------------------------------------------------------------------
(* A set of numbers that is not empty has a least one.                     *)
LEMMA LeastNumber ==
  ASSUME NEW T \in SUBSET Nat, T # {}
  PROVE  \E x \in T : \A y \in T : ~(y < x)
  <1> DEFINE R == OpToRel(<, Nat)
  <1>1. IsWellFoundedOn(R, Nat)
    BY NatLessThanWellFounded, Zenon
  <1>2. \A a, b \in Nat : a < b => <<a, b>> \in R
    BY Zenon DEF OpToRel
  <1> HIDE DEF R
  <1>3. PICK x \in T : \A y \in T : ~(<<y, x>> \in R)
    BY <1>1, WFMin, Zenon
  <1>4. QED  BY <1>2, <1>3

(* Induction up to a number.                                               *)
LEMMA UptoInduction ==
  ASSUME NEW m \in Nat, NEW S, 0 \in S,
         \A k \in 0 .. m - 1 : k \in S => k + 1 \in S
  PROVE  0 .. m \subseteq S
  <1> SUFFICES ASSUME (0 .. m) \ S # {} PROVE FALSE
    OBVIOUS
  <1> DEFINE T == (0 .. m) \ S
  <1>0. T \in SUBSET Nat /\ T # {}
    OBVIOUS
  <1> HIDE DEF T
  <1>1. PICK x \in T : \A y \in T : ~(y < x)
    BY <1>0, LeastNumber
  <1> USE DEF T
  <1>2. x # 0 /\ x \in Nat /\ x <= m
    OBVIOUS
  <1>3. x - 1 \in 0 .. m - 1 /\ x - 1 < x /\ (x - 1) + 1 = x
    BY <1>2
  <1>4. x - 1 \in S
    BY <1>1, <1>3
  <1>5. QED  BY <1>1, <1>3, <1>4

-----------------------------------------------------------------------------
(* The table.                                                              *)

LEMMA BlocksNat == Blocks \in Nat /\ Block = 1 .. Blocks /\ MSGSIZE \in Nat \ {0} /\ NULL = 0
  BY SizeAssumption DEF Block, NULL

LEMMA Joined ==
  ASSUME NEW S, NEW s \in Seq(S), NEW t \in Seq(S)
  PROVE  /\ s \o t \in Seq(S) /\ Len(s \o t) = Len(s) + Len(t)
         /\ Len(s) \in Nat /\ Len(t) \in Nat
         /\ \A k \in 1 .. Len(s) : (s \o t)[k] = s[k]
         /\ \A k \in 1 .. Len(t) : (s \o t)[Len(s) + k] = t[k]
  OBVIOUS

LEMMA MarkedIs ==
  ASSUME NEW table \in [Block -> Nat], NEW b \in Block, NEW n \in Nat \ {0},
         b + n - 1 \in Block
  PROVE  /\ Marked(table, b, n) \in [Block -> Nat]
         /\ \A k \in b .. b + n - 1 : Marked(table, b, n)[k] = n
         /\ \A k \in Block \ b .. b + n - 1 : Marked(table, b, n)[k] = table[k]
  <1> DEFINE A == SubSeq(table, 1, b - 1)
             M == [k \in 1 .. n |-> n]
             C == SubSeq(table, b + n, Blocks)
             new == Marked(table, b, n)
  <1>1. table \in Seq(Nat) /\ Len(table) = Blocks
    BY BlocksNat
  <1>2. /\ b \in 1 .. Blocks /\ b + n - 1 \in 1 .. Blocks /\ Blocks \in Nat
    BY BlocksNat
  <1>3. A \in Seq(Nat) /\ Len(A) = b - 1 /\ \A k \in 1 .. b - 1 : A[k] = table[k]
    BY <1>1, <1>2
  <1>4. M \in Seq(Nat) /\ Len(M) = n /\ \A k \in 1 .. n : M[k] = n
    OBVIOUS
  <1>5. /\ C \in Seq(Nat) /\ Len(C) = Blocks - (b + n) + 1
        /\ \A k \in 1 .. Blocks - (b + n) + 1 : C[k] = table[b + n + k - 1]
    BY <1>1, <1>2
  <1>6. new = (A \o M) \o C
    BY DEF Marked
  <1> HIDE DEF A, M, C, new
  <1>7. /\ A \o M \in Seq(Nat) /\ Len(A \o M) = b + n - 1
        /\ \A k \in 1 .. b - 1 : (A \o M)[k] = A[k]
        /\ \A k \in 1 .. n : (A \o M)[(b - 1) + k] = M[k]
    <2>1. /\ A \o M \in Seq(Nat) /\ Len(A \o M) = Len(A) + Len(M)
          /\ \A k \in 1 .. Len(A) : (A \o M)[k] = A[k]
          /\ \A k \in 1 .. Len(M) : (A \o M)[Len(A) + k] = M[k]
      <3>1. A \in Seq(Nat) /\ M \in Seq(Nat)
        BY <1>3, <1>4
      <3>2. QED  BY ONLY <3>1
    <2>2. Len(A) + Len(M) = b + n - 1 /\ Len(A) = b - 1 /\ Len(M) = n
      BY <1>2, <1>3, <1>4
    <2>3. QED  BY <2>1, <2>2
  <1>8. /\ new \in Seq(Nat) /\ Len(new) = Blocks
        /\ \A k \in 1 .. b + n - 1 : new[k] = (A \o M)[k]
        /\ \A k \in 1 .. Blocks - (b + n) + 1 : new[(b + n - 1) + k] = C[k]
    <2> DEFINE B == A \o M
    <2>1. B \in Seq(Nat) /\ Len(B) = b + n - 1 /\ new = B \o C
      BY <1>6, <1>7
    <2> HIDE DEF B
    <2>2. /\ new \in Seq(Nat) /\ Len(new) = Len(B) + Len(C)
          /\ \A k \in 1 .. Len(B) : new[k] = B[k]
          /\ \A k \in 1 .. Len(C) : new[Len(B) + k] = C[k]
      <3>1. B \in Seq(Nat) /\ C \in Seq(Nat) /\ new = B \o C
        BY <1>5, <2>1
      <3>2. QED  BY ONLY <3>1
    <2>3. Len(B) + Len(C) = Blocks
      BY <1>2, <1>5, <2>1
    <2>4. QED  BY <1>5, <2>1, <2>2, <2>3 DEF B
  <1>9. \A k \in b .. b + n - 1 : new[k] = n
    <2> SUFFICES ASSUME NEW k \in b .. b + n - 1 PROVE new[k] = n
      OBVIOUS
    <2>1. k - (b - 1) \in 1 .. n /\ k \in 1 .. b + n - 1 /\ (b - 1) + (k - (b - 1)) = k
      BY <1>2
    <2>2. (A \o M)[k] = M[k - (b - 1)]
      BY <1>7, <2>1
    <2>3. QED  BY <1>4, <1>8, <2>1, <2>2
  <1>10. \A k \in Block \ b .. b + n - 1 : new[k] = table[k]
    <2> SUFFICES ASSUME NEW k \in Block \ b .. b + n - 1 PROVE new[k] = table[k]
      OBVIOUS
    <2>1. CASE k < b
      <3>1. k \in 1 .. b - 1 /\ k \in 1 .. b + n - 1
        BY <1>2, <2>1, BlocksNat
      <3>2. QED  BY <3>1, <1>3, <1>7, <1>8
    <2>2. CASE k > b + n - 1
      <3> DEFINE j == k - (b + n - 1)
      <3>1. /\ j \in 1 .. Blocks - (b + n) + 1 /\ (b + n - 1) + j = k
            /\ b + n + j - 1 = k
        BY <1>2, <2>2, BlocksNat
      <3> HIDE DEF j
      <3>2. QED  BY <3>1, <1>5, <1>8
    <2>3. QED  BY <1>2, <2>1, <2>2, BlocksNat
  <1>11. new \in [Block -> Nat]
    BY <1>8, BlocksNat
  <1>12. QED  BY <1>9, <1>10, <1>11 DEF new

LEMMA FreedIs ==
  ASSUME NEW table \in [Block -> Nat], NEW b \in Block
  PROVE  /\ Freed(table, b) \in [Block -> Nat]
         /\ \A k \in Block \cap RunOf(table, b) : Freed(table, b)[k] = 0
         /\ \A k \in Block \ RunOf(table, b) : Freed(table, b)[k] = table[k]
         /\ \A k \in Block : table[k] = 0 => Freed(table, b)[k] = 0
  BY BlocksNat DEF Freed, RunOf

(* Freeing a run that is there takes nothing from the others.              *)
LEMMA FreeSound ==
  ASSUME NEW table \in [Block -> Nat], NEW held, NEW b \in held, Sound(table, held)
  PROVE  /\ Sound(Freed(table, b), held \ {b})
         /\ \A c \in held \ {b} : RunOf(Freed(table, b), c) = RunOf(table, c)
         /\ Freed(table, b) \in [Block -> Nat]
         /\ Freed(table, b)[b] = 0
  <1> DEFINE new == Freed(table, b)
  <1>1. b \in Block /\ table[b] # 0
    BY DEF Sound
  <1>2. /\ new \in [Block -> Nat]
        /\ \A k \in Block \cap RunOf(table, b) : new[k] = 0
        /\ \A k \in Block \ RunOf(table, b) : new[k] = table[k]
    BY <1>1, FreedIs
  <1> HIDE DEF new
  <1>3. ASSUME NEW c \in held \ {b}
        PROVE  /\ c \in Block /\ table[c] # 0 /\ RunOf(table, c) \cap RunOf(table, b) = {}
               /\ \A k \in RunOf(table, c) : k \in Block /\ table[k] = table[c] /\ new[k] = table[k]
               /\ c \in RunOf(table, c)
    <2>1. /\ c \in Block /\ table[c] # 0 /\ RunOf(table, c) \cap RunOf(table, b) = {}
          /\ \A k \in RunOf(table, c) : k \in Block /\ table[k] = table[c]
      BY <1>3 DEF Sound
    <2>2. c \in RunOf(table, c)
      BY <2>1, BlocksNat DEF RunOf
    <2>3. QED  BY <1>2, <2>1, <2>2
  <1>4. \A c \in held \ {b} : new[c] = table[c] /\ RunOf(new, c) = RunOf(table, c)
    BY <1>3 DEF RunOf
  <1>5. ASSUME NEW c \in held \ {b}, NEW d \in held \ {b}, c # d
        PROVE  RunOf(new, c) \cap RunOf(new, d) = {}
    BY <1>4, <1>5 DEF Sound
  <1>6. Sound(new, held \ {b})
    <2>1. ASSUME NEW c \in held \ {b}
          PROVE  /\ c \in Block /\ new[c] # 0
                 /\ \A k \in RunOf(new, c) : k \in Block /\ new[k] = new[c]
      BY <1>3, <1>4, <2>1
    <2>2. QED  BY <1>5, <2>1 DEF Sound
  <1>7. new[b] = 0
    BY <1>1, <1>2, BlocksNat DEF RunOf
  <1>8. QED  BY <1>2, <1>4, <1>6, <1>7 DEF new

(* Freeing a block that is not in use does nothing.                        *)
LEMMA FreeNothing ==
  ASSUME NEW table \in [Block -> Nat], NEW b \in Block, table[b] = 0
  PROVE  Freed(table, b) = table
  BY BlocksNat DEF Freed

LEMMA RoomIs ==
  ASSUME NEW table \in [Block -> Nat], NEW n \in Nat \ {0}, Rooms(table, n) # {}
  PROVE  /\ Room(table, n) \in Rooms(table, n)
         /\ \A b \in Rooms(table, n) : b <= Room(table, n)
  <1> DEFINE T == {Blocks - b : b \in Rooms(table, n)}
  <1>1. \A b \in Rooms(table, n) : b \in Nat /\ b <= Blocks
    BY BlocksNat DEF Rooms
  <1>2. T \in SUBSET Nat /\ T # {}
    BY <1>1, BlocksNat
  <1>3. PICK x \in T : \A y \in T : ~(y < x)
    BY <1>2, LeastNumber
  <1>4. PICK b \in Rooms(table, n) : x = Blocks - b
    BY <1>3
  <1>5. ASSUME NEW c \in Rooms(table, n)
        PROVE  c <= b
    <2>1. Blocks - c \in T
      OBVIOUS
    <2>2. ~(Blocks - c < Blocks - b)
      BY <1>3, <1>4, <2>1
    <2>3. QED  BY <1>1, <2>2, BlocksNat
  <1> DEFINE P(c) == c \in Rooms(table, n) /\ \A d \in Rooms(table, n) : c >= d
  <1>6. P(b)
    BY <1>1, <1>5
  <1>7. Room(table, n) = CHOOSE c \in Rooms(table, n) : \A d \in Rooms(table, n) : c >= d
    BY DEF Room, Max
  <1>8. P(Room(table, n))
    BY <1>6, <1>7
  <1>9. QED  BY <1>1, <1>8

(* A run is allocated where the table had room: those that are held keep   *)
(* theirs, and the new one is held with them.                              *)
Allocated(table, n, held, b, new) ==
    /\ b \in Block /\ b + n - 1 \in Block /\ b \notin held
    /\ \A k \in b .. b + n - 1 : table[k] = 0
    /\ new \in [Block -> Nat] /\ new[b] = n /\ RunOf(new, b) = b .. b + n - 1
    /\ \A k \in Block \ RunOf(new, b) : new[k] = table[k]
    /\ Sound(new, held \cup {b})
    /\ \A c \in held : RunOf(new, c) = RunOf(table, c) /\ b \notin RunOf(table, c)

LEMMA AllocSound ==
  ASSUME NEW table \in [Block -> Nat], NEW n \in Nat \ {0}, NEW held,
         Rooms(table, n) # {}, Sound(table, held),
         NEW b, b = Room(table, n), NEW new, new = Marked(table, b, n)
  PROVE  Allocated(table, n, held, b, new)
  <1>1. b \in Rooms(table, n)
    BY RoomIs
  <1>2. /\ b \in Block /\ b + n - 1 \in Block
        /\ \A k \in b .. b + n - 1 : table[k] = 0 /\ k \in Block
    BY <1>1, BlocksNat, SMTT(30) DEF Rooms
  <1>3. /\ new \in [Block -> Nat] /\ \A k \in b .. b + n - 1 : new[k] = n
        /\ \A k \in Block \ b .. b + n - 1 : new[k] = table[k]
    BY <1>2, MarkedIs
  <1>4. b \in b .. b + n - 1 /\ table[b] = 0
    BY <1>2, BlocksNat
  <1>5. new[b] = n /\ RunOf(new, b) = b .. b + n - 1
    BY <1>3, <1>4 DEF RunOf
  <1>6. ASSUME NEW c \in held
        PROVE  /\ c \in Block /\ table[c] # 0 /\ new[c] = table[c]
               /\ RunOf(new, c) = RunOf(table, c) /\ RunOf(new, c) \cap RunOf(new, b) = {}
               /\ \A k \in RunOf(new, c) : k \in Block /\ new[k] = new[c]
    <2>1. /\ c \in Block /\ table[c] # 0
          /\ \A k \in RunOf(table, c) : k \in Block /\ table[k] = table[c]
      BY DEF Sound
    <2>2. \A k \in RunOf(table, c) : k \notin b .. b + n - 1 /\ new[k] = table[k]
      BY <1>2, <1>3, <2>1
    <2>3. c \in RunOf(table, c)
      BY <2>1, BlocksNat DEF RunOf
    <2>4. new[c] = table[c] /\ RunOf(new, c) = RunOf(table, c)
      BY <2>2, <2>3 DEF RunOf
    <2>5. QED  BY <1>5, <2>1, <2>2, <2>4
  <1>7. b \notin held
    BY <1>4, <1>6
  <1>8. ASSUME NEW c \in held \cup {b}, NEW d \in held \cup {b}, c # d
        PROVE  RunOf(new, c) \cap RunOf(new, d) = {}
    <2>1. CASE c \in held /\ d \in held
      BY <1>6, <1>8, <2>1 DEF Sound
    <2>2. QED  BY <1>6, <1>8, <2>1
  <1>9. ASSUME NEW c \in held \cup {b}
        PROVE  c \in Block /\ new[c] # 0 /\ \A k \in RunOf(new, c) : k \in Block /\ new[k] = new[c]
    <2>1. CASE c = b
      BY <1>2, <1>3, <1>5, <2>1
    <2>2. QED  BY <1>6, <1>9, <2>1
  <1>10. Sound(new, held \cup {b})
    BY <1>8, <1>9 DEF Sound
  <1>11. \A c \in held : b \notin RunOf(table, c)
    BY <1>4, <1>5, <1>6
  <1>12. QED  BY <1>2, <1>3, <1>5, <1>6, <1>7, <1>10, <1>11 DEF Allocated

LEMMA FewerSound ==
  ASSUME NEW table, NEW held, NEW fewer \in SUBSET held, Sound(table, held)
  PROVE  Sound(table, fewer)
  BY DEF Sound

(* A run of r free blocks has room for n of them, and what is allocated    *)
(* leaves r - n of the run.                                                *)
LEMMA RoomLeft ==
  ASSUME NEW table \in [Block -> Nat], NEW n \in Nat \ {0}, NEW r \in Nat, n <= r,
         NEW p \in Block, p + r - 1 \in Block, \A k \in p .. p + r - 1 : table[k] = 0
  PROVE  /\ Rooms(table, n) # {}
         /\ \A k \in p .. p + (r - n) - 1 : Marked(table, Room(table, n), n)[k] = 0
  <1> DEFINE b == Room(table, n)
  <1>1. p + r - n \in Rooms(table, n)
    <2>1. p + r - n \in 1 .. Blocks - n + 1
      BY BlocksNat
    <2>2. \A k \in p + r - n .. p + r - n + n - 1 : k \in p .. p + r - 1
      BY BlocksNat
    <2>3. QED  BY <2>1, <2>2 DEF Rooms
  <1>2. b \in Rooms(table, n) /\ p + r - n <= b
    BY <1>1, RoomIs
  <1>3. b \in Block /\ b + n - 1 \in Block
    BY <1>2, BlocksNat DEF Rooms
  <1> HIDE DEF b
  <1>4. ASSUME NEW k \in p .. p + (r - n) - 1
        PROVE  Marked(table, b, n)[k] = 0
    <2>1. k \in Block \ b .. b + n - 1 /\ k \in p .. p + r - 1
      BY <1>2, <1>3, <1>4, BlocksNat
    <2>2. QED  BY <2>1, <1>3, MarkedIs
  <1>5. QED  BY <1>1, <1>4 DEF b

-----------------------------------------------------------------------------

(* An allocation keeps what nobody holds.                                  *)
LEMMA MemAlloc ==
  ASSUME NEW table, NEW n \in Nat \ {0}, NEW held, NEW k, Mem(table, held, k),
         Rooms(table, n) # {},
         NEW b, b = Room(table, n), NEW new, new = Marked(table, b, n)
  PROVE  /\ b \in Block /\ b \notin held /\ new[b] = n
         /\ Mem(new, held \cup {b}, k)
  <1>1. table \in [Block -> Nat] /\ Sound(table, held)
    BY DEF Mem
  <1>2. Allocated(table, n, held, b, new)
    BY <1>1, AllocSound
  <1>3. \A x \in b .. b + n - 1 : table[x] = 0 /\ x \in RunOf(new, b)
    BY <1>2 DEF Allocated
  <1>4. /\ \A x \in Block \ RunOf(new, b) : new[x] = table[x]
        /\ \A c \in held : RunOf(new, c) = RunOf(table, c)
        /\ RunOf(new, b) = b .. b + n - 1
    BY <1>2 DEF Allocated
  <1>5. Stray(new, held \cup {b}) = Stray(table, held)
    <2>1. ASSUME NEW x \in Stray(new, held \cup {b})
          PROVE  x \in Stray(table, held)
      <3>1. x \in Block /\ new[x] # 0 /\ \A c \in held \cup {b} : x \notin RunOf(new, c)
        BY DEF Stray, Used
      <3>2. x \in Block \ RunOf(new, b) /\ \A c \in held : x \notin RunOf(table, c)
        BY <1>4, <3>1
      <3>3. QED  BY <1>4, <3>1, <3>2 DEF Stray, Used
    <2>2. ASSUME NEW x \in Stray(table, held)
          PROVE  x \in Stray(new, held \cup {b})
      <3>1. x \in Block /\ table[x] # 0 /\ \A c \in held : x \notin RunOf(table, c)
        BY DEF Stray, Used
      <3>2. x \notin RunOf(new, b)
        BY <1>3, <1>4, <3>1
      <3>3. QED  BY <1>4, <3>1, <3>2 DEF Stray, Used
    <2>3. QED  BY <2>1, <2>2
  <1>6. QED  BY <1>2, <1>5 DEF Mem, Allocated

(* Nor does the free of a block that is held.                              *)
LEMMA MemFree ==
  ASSUME NEW table, NEW held, NEW k, Mem(table, held, k), NEW b \in held
  PROVE  Mem(Freed(table, b), held \ {b}, k)
  <1> DEFINE new == Freed(table, b)
  <1>1. table \in [Block -> Nat] /\ Sound(table, held) /\ b \in Block
    BY DEF Mem, Sound
  <1>2. /\ Sound(new, held \ {b}) /\ new \in [Block -> Nat]
        /\ \A c \in held \ {b} : RunOf(new, c) = RunOf(table, c)
    BY <1>1, FreeSound
  <1>3. /\ \A x \in Block \cap RunOf(table, b) : new[x] = 0
        /\ \A x \in Block \ RunOf(table, b) : new[x] = table[x]
    BY <1>1, FreedIs
  <1> HIDE DEF new
  <1>4. Stray(new, held \ {b}) = Stray(table, held)
    <2>1. ASSUME NEW x \in Stray(new, held \ {b})
          PROVE  x \in Stray(table, held)
      <3>1. x \in Block /\ new[x] # 0 /\ \A c \in held \ {b} : x \notin RunOf(new, c)
        BY DEF Stray, Used
      <3>2. x \notin RunOf(table, b)
        BY <1>3, <3>1
      <3>3. QED  BY <1>2, <1>3, <3>1, <3>2 DEF Stray, Used
    <2>2. ASSUME NEW x \in Stray(table, held)
          PROVE  x \in Stray(new, held \ {b})
      <3>1. x \in Block /\ table[x] # 0 /\ \A c \in held : x \notin RunOf(table, c)
        BY DEF Stray, Used
      <3>2. QED  BY <1>2, <1>3, <3>1 DEF Stray, Used
    <2>3. QED  BY <2>1, <2>2
  <1>5. QED  BY <1>2, <1>4 DEF Mem, new

(* A block given up leaves as many behind as its run is long.              *)
LEMMA MemDrop ==
  ASSUME NEW table, NEW held, NEW k \in Nat, Mem(table, held, k), NEW b \in held
  PROVE  table[b] \in Nat /\ Mem(table, held \ {b}, k + table[b])
  <1> DEFINE n == table[b]
             run == RunOf(table, b)
             new == Stray(table, held \ {b})
             old == Stray(table, held)
  <1>1. /\ table \in [Block -> Nat] /\ Sound(table, held) /\ b \in Block
        /\ n \in Nat \ {0} /\ Cardinality(old) = k
    BY DEF Mem, Sound
  <1>2. run \subseteq Used(table) /\ run = b .. b + n - 1
        /\ \A c \in held \ {b} : RunOf(table, c) \cap run = {}
    <2>1. \A x \in run : x \in Block /\ table[x] = n
      BY <1>1 DEF Sound
    <2>2. \A c \in held \ {b} : RunOf(table, c) \cap run = {}
      BY <1>1 DEF Sound
    <2>3. QED  BY <1>1, <2>1, <2>2 DEF Used, RunOf
  <1> HIDE DEF run
  <1>3. new = old \cup run /\ old \cap run = {}
    BY <1>2 DEF Stray, run
  <1>4. IsFiniteSet(old) /\ IsFiniteSet(run) /\ Cardinality(run) = n
    <2>1. IsFiniteSet(Block) /\ old \subseteq Block /\ run \subseteq Block
      BY <1>2, BlocksNat, FS_Interval DEF Stray, Used
    <2>2. b \in Int /\ b + n - 1 \in Int /\ (b + n - 1) - b + 1 = n /\ ~(b > b + n - 1)
      BY <1>1, BlocksNat
    <2> HIDE DEF n, old
    <2>3. IsFiniteSet(old) /\ IsFiniteSet(run)
      BY <2>1, FS_Subset
    <2>4. Cardinality(run) = n
      BY <1>2, <2>2, FS_Interval
    <2>5. QED  BY <2>3, <2>4
  <1>5. Cardinality(new) = k + n
    <2> HIDE DEF n, old, new
    <2>1. Cardinality(old \cup run)
            = Cardinality(old) + Cardinality(run) - Cardinality(old \cap run)
      BY <1>4, FS_Union
    <2>2. Cardinality(old \cap run) = 0
      BY <1>3, FS_EmptySet
    <2>3. QED  BY <1>1, <1>3, <1>4, <2>1, <2>2
  <1>6. Sound(table, held \ {b})
    BY <1>1, FewerSound
  <1>7. QED  BY <1>1, <1>5, <1>6 DEF Mem

-----------------------------------------------------------------------------
(* The parts of the commands, counted.                                     *)

LEMMA TurnOf ==
  ASSUME NEW x \in Nat \ {0}
  PROVE  /\ Turn(x) \in 0 .. 2 /\ CommandOf(x) \in Nat \ {0}
         /\ x = 3 * (CommandOf(x) - 1) + Turn(x) + 1
         /\ Turn(x) < 2 => CommandOf(x + 1) = CommandOf(x) /\ Turn(x + 1) = Turn(x) + 1
         /\ Turn(x) = 2 => CommandOf(x + 1) = CommandOf(x) + 1 /\ Turn(x + 1) = 0
  BY DEF Turn, CommandOf

LEMMA TurnOfAfter ==
  ASSUME NEW n \in Nat, NEW x \in Nat \ {0}
  PROVE  Turn(3 * n + x) = Turn(x) /\ CommandOf(3 * n + x) = n + CommandOf(x)
  BY DEF Turn, CommandOf

LEMMA OfBounds ==
  ASSUME NEW n \in Nat, NEW x \in 1 .. 3 * n
  PROVE  CommandOf(x) \in 1 .. n
  BY DEF CommandOf

-----------------------------------------------------------------------------
(* What is on its way.                                                     *)

LEMMA UpcomingIs ==
  ASSUME NEW g \in Block \cup {NULL}, NEW q \in Seq(Block)
  PROVE  /\ Upcoming(g, q) \in Seq(Block)
         /\ g = NULL => Upcoming(g, q) = q
         /\ g # NULL => /\ Len(Upcoming(g, q)) = Len(q) + 1 /\ Upcoming(g, q)[1] = g
                        /\ \A i \in 1 .. Len(q) : Upcoming(g, q)[i + 1] = q[i]
  <1>1. CASE g = NULL
    <2>1. Upcoming(g, q) = <<>> \o q
      BY <1>1 DEF Upcoming
    <2>2. <<>> \o q = q
      OBVIOUS
    <2>3. QED  BY <1>1, <2>1, <2>2
  <1>2. CASE g # NULL
    <2>1. Upcoming(g, q) = <<g>> \o q /\ <<g>> \in Seq(Block) /\ Len(<<g>>) = 1 /\ <<g>>[1] = g
      BY <1>2 DEF Upcoming
    <2> DEFINE a == <<g>>
    <2> HIDE DEF a
    <2>2. /\ a \o q \in Seq(Block) /\ Len(a \o q) = Len(a) + Len(q) /\ Len(q) \in Nat
          /\ \A k \in 1 .. Len(a) : (a \o q)[k] = a[k]
          /\ \A k \in 1 .. Len(q) : (a \o q)[Len(a) + k] = q[k]
      <3>1. a \in Seq(Block) /\ q \in Seq(Block)
        BY <2>1 DEF a
      <3>2. QED  BY ONLY <3>1
    <2>3. Len(a) = 1 /\ a[1] = g /\ Upcoming(g, q) = a \o q
      BY <2>1 DEF a
    <2>4. \A i \in 1 .. Len(q) : (a \o q)[i + 1] = q[i]
      <3>1. \A i \in 1 .. Len(q) : 1 + i = i + 1
        BY <2>2
      <3>2. QED  BY <2>2, <2>3, <3>1
    <2>5. QED  BY <1>2, <2>2, <2>3, <2>4
  <1>3. QED  BY <1>1, <1>2

LEMMA Taking ==
  ASSUME NEW g \in Block, NEW q \in Seq(Block), NEW s, s = Upcoming(g, q)
  PROVE  /\ Len(s) = Len(q) + 1 /\ s[1] = g /\ \A i \in 1 .. Len(q) : s[i + 1] = q[i]
         /\ Len(q) \in Nat /\ g # NULL
         /\ Elements(s) = Elements(q) \cup {g}
         /\ Distinct(s) => Distinct(q) /\ g \notin Elements(q)
  <1>1. g # NULL /\ Len(q) \in Nat
    BY BlocksNat
  <1>2. Len(s) = Len(q) + 1 /\ s[1] = g /\ \A i \in 1 .. Len(q) : s[i + 1] = q[i]
    <2>1. g \in Block \cup {NULL} /\ q \in Seq(Block)
      OBVIOUS
    <2>2. g # NULL => /\ Len(Upcoming(g, q)) = Len(q) + 1 /\ Upcoming(g, q)[1] = g
                      /\ \A i \in 1 .. Len(q) : Upcoming(g, q)[i + 1] = q[i]
      BY <2>1, UpcomingIs, Zenon
    <2>3. QED  BY <1>1, <2>2
  <1>3. Elements(s) = Elements(q) \cup {g}
    <2>1. ASSUME NEW i \in 1 .. Len(s)
          PROVE  s[i] \in Elements(q) \cup {g}
      <3>1. CASE i = 1
        BY <1>2, <3>1
      <3>2. CASE i # 1
        <4>1. i - 1 \in 1 .. Len(q) /\ (i - 1) + 1 = i
          BY <1>1, <1>2, <3>2
        <4>2. QED  BY <1>2, <4>1 DEF Elements
      <3>3. QED  BY <3>1, <3>2
    <2>2. ASSUME NEW i \in 1 .. Len(q)
          PROVE  q[i] \in Elements(s)
      <3>1. i + 1 \in 1 .. Len(s)
        BY <1>1, <1>2
      <3>2. QED  BY <1>2, <3>1 DEF Elements
    <2>3. g \in Elements(s)
      BY <1>1, <1>2 DEF Elements
    <2>4. QED  BY <2>1, <2>2, <2>3 DEF Elements
  <1>4. ASSUME Distinct(s)
        PROVE  Distinct(q) /\ g \notin Elements(q)
    <2>1. \A i \in 1 .. Len(q) : i + 1 \in 1 .. Len(s) /\ 1 \in 1 .. Len(s) /\ i + 1 # 1
      BY <1>1, <1>2
    <2>2. ASSUME NEW i \in 1 .. Len(q), NEW j \in 1 .. Len(q), i # j
          PROVE  q[i] # q[j]
      <3>1. i + 1 # j + 1
        BY <2>2
      <3>2. s[i + 1] # s[j + 1]
        BY <1>4, <2>1, <3>1 DEF Distinct
      <3>3. QED  BY <1>2, <3>2
    <2>3. ASSUME NEW i \in 1 .. Len(q)
          PROVE  q[i] # g
      <3>1. s[i + 1] # s[1]
        BY <1>4, <2>1 DEF Distinct
      <3>2. QED  BY <1>2, <3>1
    <2>4. QED  BY <2>2, <2>3 DEF Distinct, Elements
  <1>5. QED  BY <1>1, <1>2, <1>3, <1>4

LEMMA Appended ==
  ASSUME NEW s \in Seq(Block), NEW b \in Block, b \notin Elements(s), Distinct(s)
  PROVE  /\ Append(s, b) \in Seq(Block) /\ Len(Append(s, b)) = Len(s) + 1 /\ Len(s) \in Nat
         /\ Append(s, b)[Len(s) + 1] = b /\ \A i \in 1 .. Len(s) : Append(s, b)[i] = s[i]
         /\ Elements(Append(s, b)) = Elements(s) \cup {b} /\ Distinct(Append(s, b))
  <1> DEFINE t == Append(s, b)
  <1>1. /\ t \in Seq(Block) /\ Len(t) = Len(s) + 1 /\ Len(s) \in Nat
        /\ t[Len(s) + 1] = b /\ \A i \in 1 .. Len(s) : t[i] = s[i]
    OBVIOUS
  <1> HIDE DEF t
  <1>2. \A i \in 1 .. Len(t) : i \in 1 .. Len(s) \/ i = Len(s) + 1
    BY <1>1
  <1>3. \A i \in 1 .. Len(s) : i \in 1 .. Len(t) /\ i # Len(s) + 1
    BY <1>1
  <1>4. Len(s) + 1 \in 1 .. Len(t)
    BY <1>1
  <1>5. Elements(t) = Elements(s) \cup {b}
    BY <1>1, <1>2, <1>3, <1>4 DEF Elements
  <1>6. Distinct(t)
    BY <1>1, <1>2, <1>3 DEF Elements, Distinct
  <1>7. QED  BY <1>1, <1>5, <1>6 DEF t

LEMMA HeadTail ==
  ASSUME NEW q \in Seq(Block), q # <<>>
  PROVE  /\ Head(q) \in Block /\ Tail(q) \in Seq(Block)
         /\ Upcoming(Head(q), Tail(q)) = q /\ Upcoming(NULL, q) = q
  <1>1. Head(q) \in Block /\ Tail(q) \in Seq(Block) /\ Len(Tail(q)) = Len(q) - 1
    OBVIOUS
  <1> DEFINE s == Upcoming(Head(q), Tail(q))
  <1>2. /\ Len(s) = Len(Tail(q)) + 1 /\ s[1] = Head(q) /\ s \in Seq(Block)
        /\ \A i \in 1 .. Len(Tail(q)) : s[i + 1] = Tail(q)[i]
    <2>1. Head(q) # NULL
      BY <1>1, BlocksNat
    <2>2. Head(q) \in Block \cup {NULL} /\ Tail(q) \in Seq(Block)
      BY <1>1
    <2>3. QED  BY <2>1, <2>2, UpcomingIs, Zenon
  <1> HIDE DEF s
  <1>3. Len(s) = Len(q) /\ Len(q) \in Nat
    BY <1>1, <1>2
  <1>4. ASSUME NEW i \in 1 .. Len(q)
        PROVE  s[i] = q[i]
    <2>1. CASE i = 1
      BY <1>2, <2>1
    <2>2. CASE i # 1
      <3>1. i - 1 \in 1 .. Len(Tail(q)) /\ (i - 1) + 1 = i
        BY <1>1, <1>3, <2>2
      <3>2. Tail(q)[i - 1] = q[i]
        BY <1>3, <2>2
      <3>3. QED  BY <1>2, <3>1, <3>2
    <2>3. QED  BY <2>1, <2>2
  <1>5. s = q
    BY <1>2, <1>3, <1>4
  <1>6. NULL \in Block \cup {NULL}
    OBVIOUS
  <1>7. QED  BY <1>1, <1>5, <1>6, UpcomingIs DEF s

LEMMA ElementIn ==
  ASSUME NEW S, NEW s \in Seq(S), NEW i \in 1 .. Len(s)
  PROVE  s[i] \in S
  OBVIOUS

LEMMA TakenOf ==
  ASSUME NEW t \in [peer : Peer, switch : Switch, of : [1 .. 3 -> Nat]],
         NEW i \in 1 .. 3, NEW k \in Nat, NEW u, u = [t EXCEPT !.of[i] = k]
  PROVE  /\ u \in [peer : Peer, switch : Switch, of : [1 .. 3 -> Nat]]
         /\ u.peer = t.peer /\ u.switch = t.switch /\ u.of[i] = k
         /\ \A j \in 1 .. 3 : j # i => u.of[j] = t.of[j]
  <1>1. t.of \in [1 .. 3 -> Nat] /\ t.peer \in Peer /\ t.switch \in Switch
    OBVIOUS
  <1> DEFINE f == [t.of EXCEPT ![i] = k]
  <1>2. f \in [1 .. 3 -> Nat] /\ f[i] = k /\ \A j \in 1 .. 3 : j # i => f[j] = t.of[j]
    BY <1>1
  <1>3. u = [t EXCEPT !.of = f]
    OBVIOUS
  <1> HIDE DEF f
  <1>4. QED  BY <1>1, <1>2, <1>3


LEMMA UpcomingAppend ==
  ASSUME NEW g \in Block \cup {NULL}, NEW q \in Seq(Block), NEW b \in Block
  PROVE  Upcoming(g, Append(q, b)) = Append(Upcoming(g, q), b)
  <1> DEFINE r == Append(q, b)
             s == Upcoming(g, q)
             t == Upcoming(g, r)
  <1>1. /\ r \in Seq(Block) /\ Len(r) = Len(q) + 1 /\ Len(q) \in Nat
        /\ r[Len(q) + 1] = b /\ \A i \in 1 .. Len(q) : r[i] = q[i]
    OBVIOUS
  <1> HIDE DEF r
  <1>2. CASE g = NULL
    BY <1>1, <1>2, UpcomingIs, ZenonT(60) DEF r
  <1>3. CASE g # NULL
    <2>1. /\ s \in Seq(Block) /\ Len(s) = Len(q) + 1 /\ s[1] = g
          /\ \A i \in 1 .. Len(q) : s[i + 1] = q[i]
      BY <1>3, UpcomingIs
    <2>2. /\ t \in Seq(Block) /\ Len(t) = Len(r) + 1 /\ t[1] = g
          /\ \A i \in 1 .. Len(r) : t[i + 1] = r[i]
      BY <1>1, <1>3, UpcomingIs
    <2> DEFINE u == Append(s, b)
    <2> HIDE DEF s, t
    <2>3. /\ u \in Seq(Block) /\ Len(u) = Len(s) + 1 /\ Len(s) \in Nat
          /\ u[Len(s) + 1] = b /\ \A i \in 1 .. Len(s) : u[i] = s[i]
      BY <2>1
    <2> HIDE DEF u
    <2>4. Len(t) = Len(u)
      BY <1>1, <2>1, <2>2, <2>3
    <2>5. ASSUME NEW i \in 1 .. Len(u)
          PROVE  t[i] = u[i]
      <3>1. CASE i = 1
        <4>1. 1 \in 1 .. Len(s)
          BY <1>1, <2>1
        <4>2. QED  BY <2>1, <2>2, <2>3, <3>1, <4>1
      <3>2. CASE i # 1 /\ i <= Len(s)
        <4>1. /\ i - 1 \in 1 .. Len(q) /\ i - 1 \in 1 .. Len(r) /\ (i - 1) + 1 = i
              /\ i \in 1 .. Len(s)
          BY <1>1, <2>1, <2>3, <3>2
        <4>2. t[i] = r[i - 1] /\ s[i] = q[i - 1] /\ r[i - 1] = q[i - 1] /\ u[i] = s[i]
          BY <1>1, <2>1, <2>2, <2>3, <4>1
        <4>3. QED  BY <4>2
      <3>3. CASE i = Len(s) + 1
        <4>1. i - 1 \in 1 .. Len(r) /\ (i - 1) + 1 = i /\ i - 1 = Len(q) + 1
          BY <1>1, <2>1, <2>3, <3>3
        <4>2. QED  BY <1>1, <2>2, <2>3, <3>3, <4>1
      <3>4. QED  BY <2>3, <3>1, <3>2, <3>3
    <2>6. t = u
      BY <2>2, <2>3, <2>4, <2>5
    <2>7. QED  BY <2>6 DEF t, u, s, r
  <1>4. QED  BY <1>2, <1>3

(* A row keeps what it says, whatever is written elsewhere and whatever    *)
(* commands are added.                                                     *)
Grown(cmds, cmds2) ==
    \A x \in 1 .. 3 * Len(cmds) :
        x \in 1 .. 3 * Len(cmds2) /\ cmds2[CommandOf(x)] = cmds[CommandOf(x)]
Alike(buf, buf2, s) == \A i \in 1 .. Len(s) : buf2[s[i]] = buf[s[i]]

LEMMA RowFrame ==
  ASSUME NEW cmds, NEW cmds2, NEW buf, NEW buf2, NEW s,
         Row(cmds, buf, s), Alike(buf, buf2, s), Grown(cmds, cmds2)
  PROVE  /\ Row(cmds2, buf2, s)
         /\ \A x : Above(x, buf, s) => Above(x, buf2, s)
         /\ \A x : After(x, buf, s) => After(x, buf2, s)
  <1>1. ASSUME NEW i \in 1 .. Len(s)
        PROVE  buf2[s[i]] = buf[s[i]] /\ Good(cmds2, buf2[s[i]])
    <2>1. buf2[s[i]] = buf[s[i]] /\ Good(cmds, buf[s[i]])
      BY DEF Alike, Row
    <2> DEFINE v == buf[s[i]]
    <2>2. buf2[s[i]] = v /\ Good(cmds, v)
      BY <2>1
    <2> HIDE DEF v
    <2>3. Good(cmds2, v)
      BY <2>2 DEF Good, Grown
    <2>4. QED  BY <2>2, <2>3 DEF v
  <1>2. Row(cmds2, buf2, s)
    BY <1>1 DEF Row
  <1>3. QED  BY <1>1, <1>2 DEF Above, After

LEMMA SameCommands ==
  ASSUME NEW cmds
  PROVE  Grown(cmds, cmds)
  BY DEF Grown

LEMMA SameBuffer ==
  ASSUME NEW buf, NEW s
  PROVE  Alike(buf, buf, s)
  BY DEF Alike

(* What the first of a row is, and what is left without it.                *)
LEMMA RowTaken ==
  ASSUME NEW cmds, NEW buf, NEW g \in Block, NEW q \in Seq(Block),
         Row(cmds, buf, Upcoming(g, q))
  PROVE  /\ Good(cmds, buf[g]) /\ Row(cmds, buf, q)
         /\ Above(buf[g].of, buf, q) /\ After(buf[g].of, buf, q)
         /\ \A x : Above(x, buf, Upcoming(g, q)) => x < buf[g].of /\ Above(x, buf, q)
         /\ \A x : After(x, buf, Upcoming(g, q)) => Behind(x, buf[g].of)
  <1> DEFINE s == Upcoming(g, q)
  <1>1. /\ Len(s) = Len(q) + 1 /\ s[1] = g /\ \A i \in 1 .. Len(q) : s[i + 1] = q[i]
        /\ Len(q) \in Nat
    BY Taking
  <1> HIDE DEF s
  <1>2. /\ 1 \in 1 .. Len(s) /\ \A i \in 1 .. Len(q) : i + 1 \in 1 .. Len(s) /\ 1 < i + 1
        /\ \A i \in 1 .. Len(q) : i \in Nat
    BY <1>1
  <1>3. Row(cmds, buf, s)
    BY DEF s
  <1>4. Good(cmds, buf[g]) /\ \A i \in 1 .. Len(q) : Good(cmds, buf[q[i]])
    BY <1>1, <1>2, <1>3 DEF Row
  <1>5. ASSUME NEW i \in 1 .. Len(q), NEW j \in 1 .. Len(q)
        PROVE  /\ i < j => buf[q[i]].of < buf[q[j]].of
               /\ j = i + 1 => Behind(buf[q[i]].of, buf[q[j]].of)
    <2>1. /\ s[i + 1] = q[i] /\ s[j + 1] = q[j] /\ i + 1 \in 1 .. Len(s) /\ j + 1 \in 1 .. Len(s)
          /\ (i < j => i + 1 < j + 1) /\ (j = i + 1 => j + 1 = (i + 1) + 1)
      BY <1>1, <1>2
    <2>2. /\ i + 1 < j + 1 => buf[s[i + 1]].of < buf[s[j + 1]].of
          /\ j + 1 = (i + 1) + 1 => Behind(buf[s[i + 1]].of, buf[s[j + 1]].of)
      BY <1>3, <2>1 DEF Row
    <2>3. QED  BY <2>1, <2>2
  <1>6. Row(cmds, buf, q)
    BY <1>4, <1>5 DEF Row
  <1>7. Above(buf[g].of, buf, q)
    <2>1. ASSUME NEW i \in 1 .. Len(q)
          PROVE  buf[g].of < buf[q[i]].of
      BY <1>1, <1>2, <1>3 DEF Row
    <2>2. QED  BY <2>1 DEF Above
  <1>8. After(buf[g].of, buf, q)
    <2>1. ASSUME NEW i \in 1 .. Len(q), i = 1
          PROVE  Behind(buf[g].of, buf[q[i]].of)
      <3>1. /\ i + 1 = 1 + 1 /\ i + 1 \in 1 .. Len(s) /\ 1 \in 1 .. Len(s)
            /\ s[i + 1] = q[i] /\ s[1] = g
        BY <1>1, <1>2, <2>1
      <3>2. Behind(buf[s[1]].of, buf[s[i + 1]].of)
        BY <1>3, <3>1 DEF Row
      <3>3. QED  BY <3>1, <3>2
    <2>2. QED  BY <2>1 DEF After
  <1>9. ASSUME NEW x, Above(x, buf, s)
        PROVE  x < buf[g].of /\ Above(x, buf, q)
    BY <1>1, <1>2, <1>9 DEF Above
  <1>10. ASSUME NEW x, After(x, buf, s)
         PROVE  Behind(x, buf[g].of)
    BY <1>1, <1>2, <1>10 DEF After
  <1>11. QED  BY <1>4, <1>6, <1>7, <1>8, <1>9, <1>10 DEF s

(* A row with one more part at its end.                                    *)
LEMMA RowAppend ==
  ASSUME NEW cmds, NEW buf, NEW buf2, NEW s \in Seq(Block), NEW b \in Block,
         Row(cmds, buf, s), Alike(buf, buf2, s), Good(cmds, buf2[b]),
         \A i \in 1 .. Len(s) : buf[s[i]].of < buf2[b].of,
         s # <<>> => Behind(buf[s[Len(s)]].of, buf2[b].of)
  PROVE  /\ Row(cmds, buf2, Append(s, b))
         /\ \A x : Above(x, buf, s) /\ x < buf2[b].of => Above(x, buf2, Append(s, b))
         /\ \A x : After(x, buf, s) /\ (s = <<>> => Behind(x, buf2[b].of))
                     => After(x, buf2, Append(s, b))
  <1> DEFINE t == Append(s, b)
             l == Len(s)
  <1>1. /\ Len(t) = l + 1 /\ l \in Nat /\ t[l + 1] = b
        /\ \A i \in 1 .. l : t[i] = s[i]
        /\ s # <<>> <=> l # 0
    OBVIOUS
  <1> HIDE DEF t, l
  <1>2. \A i \in 1 .. Len(t) : i \in Nat /\ (i \in 1 .. l \/ i = l + 1)
    BY <1>1
  <1>3. \A i \in 1 .. l : i \in 1 .. Len(t) /\ t[i] = s[i] /\ buf2[t[i]] = buf[s[i]]
    BY <1>1 DEF Alike, l
  <1>4. ASSUME NEW i \in 1 .. Len(t)
        PROVE  Good(cmds, buf2[t[i]])
    <2>1. CASE i \in 1 .. l
      BY <1>3, <2>1 DEF Row, l
    <2>2. CASE i = l + 1
      BY <1>1, <2>2
    <2>3. QED  BY <1>2, <2>1, <2>2
  <1>5. ASSUME NEW i \in 1 .. Len(t), NEW j \in 1 .. Len(t), i < j
        PROVE  /\ buf2[t[i]].of < buf2[t[j]].of
               /\ j = i + 1 => Behind(buf2[t[i]].of, buf2[t[j]].of)
    <2>1. i \in 1 .. l
      BY <1>1, <1>5
    <2>2. CASE j \in 1 .. l
      BY <1>3, <1>5, <2>1, <2>2 DEF Row, l
    <2>3. CASE j = l + 1
      <3>1. t[j] = b /\ buf2[t[i]] = buf[s[i]] /\ s # <<>> /\ (j = i + 1 => i = l)
        BY <1>1, <1>3, <2>1, <2>3
      <3>2. QED  BY <2>1, <3>1 DEF l
    <2>4. QED  BY <1>2, <2>2, <2>3
  <1>6. Row(cmds, buf2, t)
    <2>1. \A i, j \in 1 .. Len(t) : j = i + 1 => i < j
      BY <1>2
    <2>2. QED  BY <1>4, <1>5, <2>1 DEF Row
  <1>7. ASSUME NEW x, Above(x, buf, s), x < buf2[b].of
        PROVE  Above(x, buf2, t)
    BY <1>1, <1>2, <1>3, <1>7 DEF Above, l
  <1>8. ASSUME NEW x, After(x, buf, s), s = <<>> => Behind(x, buf2[b].of)
        PROVE  After(x, buf2, t)
    <2>1. ASSUME NEW i \in 1 .. Len(t), i = 1
          PROVE  Behind(x, buf2[t[i]].of)
      <3>1. CASE l = 0
        BY <1>1, <1>8, <2>1, <3>1
      <3>2. CASE l # 0
        <4>1. i \in 1 .. l
          BY <1>1, <2>1, <3>2
        <4>2. QED  BY <1>3, <1>8, <2>1, <4>1 DEF After, l
      <3>3. QED  BY <3>1, <3>2
    <2>2. QED  BY <2>1 DEF After
  <1>9. QED  BY <1>6, <1>7, <1>8 DEF t

-----------------------------------------------------------------------------
(* What a step leaves alone.                                               *)

LEMMA SwitchSame ==
  ASSUME Inner, Grown(commands, commands'), switched' = switched
  PROVE  SwitchInv'
  <1>1. \A i \in 1 .. Len(switched) : Applied(commands, switched, i)
    BY DEF Inner, SwitchInv
  <1>2. \A i \in 1 .. Len(switched) : Applied(commands', switched, i)
    BY <1>1 DEF Applied, Grown
  <1>3. QED  BY <1>2 DEF SwitchInv

LEMMA SendSame ==
  ASSUME Inner, Grown(commands, commands'), Alike(buffer, buffer', tcp_send_event),
         UNCHANGED <<tcp_send_event, switched, answers>>,
         pc \notin {"tag", "body"}, pc' \notin {"tag", "body"}
  PROVE  SendInv'
  <1>1. \A i \in 1 .. Len(switched) :
           LET x == switched[i].of[1] IN commands'[CommandOf(x)] = commands[CommandOf(x)]
    BY DEF Inner, SwitchInv, Applied, Grown
  <1>2. \A i \in 1 .. Len(switched) :
           /\ Answers(switched[i].of[1])' = Answers(switched[i].of[1])
           /\ Tag(switched[i].of[1])' = Tag(switched[i].of[1])
           /\ Body(switched[i].of[1])' = Body(switched[i].of[1])
    BY <1>1 DEF Answers, Tag, Body
  <1>3. Open = 0 /\ Open' = 0
    BY DEF Open
  <1>4. \A i \in 1 .. Len(answers) :
           i \in 1 .. Len(switched) /\ answers[i] = Answers(switched[i].of[1])'
    BY <1>2 DEF Inner, SendInv
  <1>5. \A i \in 1 .. Len(switched) :
          /\ 2 * (i - Len(answers)) - 1 \in 1 .. Len(tcp_send_event) =>
                buffer'[tcp_send_event[2 * (i - Len(answers)) - 1]] = Tag(switched[i].of[1])'
          /\ 2 * (i - Len(answers)) \in 1 .. Len(tcp_send_event) =>
                buffer'[tcp_send_event[2 * (i - Len(answers))]] = Body(switched[i].of[1])'
    BY <1>2 DEF Inner, SendInv, Alike
  <1>6. Len(tcp_send_event) = 2 * (Len(switched) - Len(answers)) - Open'
    BY <1>3 DEF Inner, SendInv
  <1>7. QED  BY <1>4, <1>5, <1>6 DEF SendInv

LEMMA QueueSame ==
  ASSUME Inner, commands' = commands, switched' = switched, Coming' = Coming,
         Alike(buffer, buffer', Coming)
  PROVE  /\ Row(commands, buffer, Coming)'
         /\ \A j \in 1 .. Len(switched') : Above(switched[j].of[1], buffer, Coming)'
         /\ \A x : Above(x, buffer, Coming) => Above(x, buffer', Coming')
         /\ \A x : After(x, buffer, Coming) => After(x, buffer', Coming')
  <1>1. Row(commands, buffer, Coming) /\ Grown(commands, commands)
    BY SameCommands DEF Inner, QueueInv
  <1>2. /\ Row(commands, buffer', Coming)
        /\ \A x : Above(x, buffer, Coming) => Above(x, buffer', Coming)
        /\ \A x : After(x, buffer, Coming) => After(x, buffer', Coming)
    BY <1>1, RowFrame
  <1>3. \A j \in 1 .. Len(switched) : Above(switched[j].of[1], buffer, Coming)
    BY DEF Inner, QueueInv
  <1>4. QED  BY <1>2, <1>3

-----------------------------------------------------------------------------
(* led_task pends.                                                         *)

LEMMA StepPend ==
  ASSUME Inner, Pend
  PROVE  Inv'
  <1> USE DEF Pend
  <1>0. UNCHANGED <<memmap, buffer, tcp_send_event, pc, auth_msg, msg, id_msg, taken,
                    received, commands, switched, answers, fresh, robbed, lost>>
    BY DEF heap, pointers, input, output, owned
  <1>1. Coming' = Coming
    <2>1. CASE led_event = <<>>
      BY <2>1 DEF Coming
    <2>2. CASE led_event # <<>>
      <3>1. got = NULL /\ led_event \in Seq(Block) /\ got' = Head(led_event)
            /\ led_event' = Tail(led_event)
        BY <2>2 DEF Inner, TypeInv
      <3>2. QED  BY <2>2, <3>1, HeadTail DEF Coming
    <2>3. QED  BY <2>1, <2>2
  <1>2. TypeInv'
    <2>1. CASE led_event = <<>>
      BY <1>0, <2>1 DEF Inner, TypeInv
    <2>2. CASE led_event # <<>>
      <3>1. led_event \in Seq(Block) /\ ~waiting
        BY DEF Inner, TypeInv
      <3>2. Head(led_event) \in Block /\ Tail(led_event) \in Seq(Block)
        BY <2>2, <3>1, HeadTail
      <3>3. QED  BY <1>0, <2>2, <3>1, <3>2 DEF Inner, TypeInv
    <2>3. QED  BY <2>1, <2>2
  <1>3. Held' = Held /\ InQueue' = InQueue /\ Mine' = Mine /\ Sent' = Sent /\ Ptr' = Ptr
    BY <1>0, <1>1 DEF Held, InQueue, Mine, Sent, Ptr
  <1>4. OwnInv'
    BY <1>0, <1>1, <1>3 DEF Inner, OwnInv
  <1>5. QueueInv'
    BY <1>0, <1>1 DEF Inner, QueueInv
  <1>6. TakenInv' /\ SwitchInv'
    BY <1>0 DEF Inner, TakenInv, SwitchInv
  <1>7. SendInv'
    BY <1>0 DEF Inner, SendInv, Open, Tag, Body, Answers
  <1>8. QED  BY <1>2, <1>4, <1>5, <1>6, <1>7 DEF Inner, Inv

(* Nothing came: the first buffer of a command that was begun is lost.     *)
LEMMA StepTimeout ==
  ASSUME Inner, Timeout
  PROVE  Inv'
  <1> USE DEF Timeout
  <1>0. UNCHANGED <<memmap, buffer, led_event, tcp_send_event, got, taken, received,
                    commands, switched, answers, robbed>>
    BY DEF heap, queues, input, output
  <1>1. /\ Coming' = Coming /\ got = NULL /\ led_event = <<>>
        /\ pc \in {"auth", "msg", "id"} /\ pc' = "auth" /\ waiting' = FALSE
    BY <1>0 DEF Inner, TypeInv, Coming
  <1>2. fresh \subseteq {"auth"} /\ fresh' = {} /\ Mine' = {}
    BY <1>1 DEF Inner, TypeInv, FreshAt, Mine
  <1>3. lost \in Nat /\ received \in Nat /\ Mem(memmap, Held, 8 * received + lost)
    BY DEF Inner, TypeInv, OwnInv
  <1>4. InQueue' = InQueue /\ Sent' = Sent /\ Held' = InQueue \cup Sent
    BY <1>0, <1>1, <1>2 DEF InQueue, Sent, Held
  <1>5. lost' \in Nat /\ Mem(memmap, Held', 8 * received + lost')
    <2>1. CASE "auth" \in fresh
      <3>1. Mine = {auth_msg} /\ auth_msg \in Held /\ Held' = Held \ {auth_msg}
        <4>1. fresh = {"auth"} /\ Ptr["auth"] = auth_msg
          BY <1>2, <2>1 DEF Ptr
        <4>2. Mine = {auth_msg}
          BY <4>1 DEF Mine
        <4>3. InQueue \cap Mine = {} /\ Mine \cap Sent = {}
          BY DEF Inner, OwnInv
        <4>4. QED  BY <1>4, <4>2, <4>3 DEF Held
      <3> DEFINE k == 8 * received + lost
                 held == Held
                 d == memmap[auth_msg]
      <3>2. k \in Nat /\ Mem(memmap, held, k) /\ auth_msg \in held
        BY <1>3, <3>1
      <3> HIDE DEF k, held
      <3>3. d \in Nat /\ Mem(memmap, held \ {auth_msg}, k + d)
        BY <3>2, MemDrop
      <3>4. lost' = lost + d
        BY <2>1
      <3> HIDE DEF d
      <3>5. k + d = 8 * received + lost' /\ lost' \in Nat
        BY <1>3, <3>3, <3>4 DEF k
      <3>6. QED  BY <3>1, <3>3, <3>5 DEF held
    <2>2. CASE "auth" \notin fresh
      <3>1. Mine = {} /\ Held' = Held /\ lost' = lost
        BY <1>2, <1>4, <2>2 DEF Mine, Held
      <3>2. QED  BY <1>3, <3>1
    <2>3. QED  BY <2>1, <2>2
  <1>6. OwnInv'
    BY <1>0, <1>1, <1>2, <1>4, <1>5 DEF Inner, OwnInv
  <1>7. TypeInv'
    BY <1>0, <1>1, <1>2, <1>5 DEF Inner, TypeInv, Pc
  <1>8. QueueInv'
    BY <1>0, <1>1 DEF Inner, QueueInv
  <1>9. TakenInv' /\ SwitchInv'
    BY <1>0, <1>1 DEF Inner, TakenInv, SwitchInv
  <1>10. SendInv'
    <2>1. Grown(commands, commands') /\ Alike(buffer, buffer', tcp_send_event)
      BY <1>0, SameCommands, SameBuffer
    <2>2. QED  BY <1>0, <1>1, <2>1, SendSame
  <1>11. QED  BY <1>6, <1>7, <1>8, <1>9, <1>10 DEF Inner, Inv

-----------------------------------------------------------------------------
(* led_task takes a part.                                                  *)

(* What it is given, and what stays in the queue.                          *)
LEMMA GivenIs ==
  ASSUME Inner, got # NULL
  PROVE  /\ got \in Block /\ ~waiting /\ led_event \in Seq(Block)
         /\ pc \in {"auth", "msg", "id"} /\ Upcoming(NULL, led_event) = led_event
         /\ InQueue = Elements(led_event) \cup {got} /\ got \notin Elements(led_event)
         /\ Distinct(led_event)
         /\ Word \in Texts /\ WordOf \in Nat \ {0} /\ WordOf \in 1 .. 3 * Len(commands)
         /\ CommandOf(WordOf) \in 1 .. Len(commands)
         /\ Good(commands, [text |-> Word, of |-> WordOf])
         /\ Row(commands, buffer, led_event)
         /\ Above(WordOf, buffer, led_event) /\ After(WordOf, buffer, led_event)
         /\ \A x : Above(x, buffer, Coming) => x < WordOf /\ Above(x, buffer, led_event)
         /\ \A x : After(x, buffer, Coming) => Behind(x, WordOf)
  <1>1. /\ got \in Block /\ led_event \in Seq(Block) /\ Len(commands) \in Nat
        /\ buffer \in [Block -> [text : Texts, of : Nat]]
    BY DEF Inner, TypeInv
  <1>2. ~waiting /\ pc \in {"auth", "msg", "id"}
    BY DEF Inner, TypeInv
  <1>3. Upcoming(NULL, led_event) = led_event
    <2>1. NULL \in Block \cup {NULL}
      OBVIOUS
    <2>2. QED  BY <1>1, <2>1, UpcomingIs, Zenon
  <1>4. /\ InQueue = Elements(led_event) \cup {got} /\ got \notin Elements(led_event)
        /\ Distinct(led_event)
    <2>1. /\ Elements(Coming) = Elements(led_event) \cup {got}
          /\ Distinct(Coming) => Distinct(led_event) /\ got \notin Elements(led_event)
      BY <1>1, Taking DEF Coming
    <2>2. QED  BY <2>1 DEF Inner, OwnInv, InQueue
  <1>5. /\ Good(commands, buffer[got]) /\ Row(commands, buffer, led_event)
        /\ Above(WordOf, buffer, led_event) /\ After(WordOf, buffer, led_event)
        /\ \A x : Above(x, buffer, Coming) => x < WordOf /\ Above(x, buffer, led_event)
        /\ \A x : After(x, buffer, Coming) => Behind(x, WordOf)
    <2>1. Row(commands, buffer, Upcoming(got, led_event))
      BY DEF Inner, QueueInv, Coming
    <2>2. QED  BY <1>1, <2>1, RowTaken DEF Coming, WordOf
  <1>6. buffer[got] \in [text : Texts, of : Nat]
    BY <1>1
  <1>7. Word \in Texts /\ WordOf \in Nat /\ buffer[got] = [text |-> Word, of |-> WordOf]
    BY <1>6 DEF Word, WordOf
  <1>8. WordOf \in 1 .. 3 * Len(commands) /\ Good(commands, [text |-> Word, of |-> WordOf])
    BY <1>5, <1>7 DEF Good
  <1>9. CommandOf(WordOf) \in 1 .. Len(commands)
    BY <1>1, <1>8, OfBounds
  <1>10. WordOf \in Nat \ {0}
    BY <1>7, <1>8
  <1>11. QED  BY <1>1, <1>2, <1>3, <1>4, <1>5, <1>7, <1>8, <1>9, <1>10

(* A part says a peer's name only where a name or a switch is said, ON or  *)
(* OFF only where a switch is, 0 only where a switch or a number is.       *)
LEMMA Saying ==
  ASSUME Inner, got # NULL
  PROVE  LET c == commands[CommandOf(WordOf)] IN
         /\ Turn(WordOf) \in 0 .. 2
         /\ Turn(WordOf) = 0 => Word = c.peer
         /\ Turn(WordOf) = 1 => c.switch \in {Word, "other"}
         /\ Turn(WordOf) = 2 => Word = c.id
         /\ Word \in Switch => Turn(WordOf) = 1
         /\ Word = "0" => Turn(WordOf) # 0
  <1> DEFINE c == commands[CommandOf(WordOf)]
  <1>1. /\ WordOf \in Nat \ {0} /\ CommandOf(WordOf) \in 1 .. Len(commands)
        /\ Good(commands, [text |-> Word, of |-> WordOf])
    BY GivenIs
  <1>2. /\ Turn(WordOf) = 0 => Word = c.peer
        /\ Turn(WordOf) = 1 => c.switch \in {Word, "other"}
        /\ Turn(WordOf) = 2 => Word = c.id
    BY <1>1 DEF Good
  <1>3. Turn(WordOf) \in 0 .. 2
    BY <1>1, TurnOf
  <1>4. c \in Asking
    <2>1. commands \in Seq(Asking)
      BY DEF Inner, TypeInv
    <2>2. QED  BY <1>1, <2>1, ElementIn
  <1> HIDE DEF c
  <1>5. c.peer \in Peer /\ c.id \in {"0", "1"}
    BY <1>4 DEF Asking
  <1>6. Word \in Switch => Turn(WordOf) # 0 /\ Turn(WordOf) # 2
    BY <1>2, <1>5 DEF Switch, Peer
  <1>7. Word = "0" => Turn(WordOf) # 0
    BY <1>2, <1>5 DEF Peer
  <1>8. Word \in Switch => Turn(WordOf) = 1
    BY <1>3, <1>6
  <1>9. QED  BY <1>2, <1>3, <1>7, <1>8 DEF c

(* The buffer goes from the queue to one of its pointers.                  *)
LEMMA TakeOwn ==
  ASSUME Inner, got # NULL, NEW f \in Names, f \notin fresh, got' = NULL,
         fresh' = fresh \cup {f}, Ptr'[f] = got,
         \A g \in Names : g # f => Ptr'[g] = Ptr[g],
         UNCHANGED <<memmap, led_event, tcp_send_event, received, lost>>
  PROVE  OwnInv' /\ Coming' = led_event
  <1>1. Coming' = led_event
    BY GivenIs DEF Coming
  <1>2. fresh \subseteq Names
    BY DEF Inner, TypeInv, FreshAt, Names
  <1>3. \A g \in fresh : g # f /\ g \in Names /\ Ptr'[g] = Ptr[g]
    BY <1>2
  <1>4. Mine' = Mine \cup {got}
    <2>1. Mine' = {Ptr'[g] : g \in fresh \cup {f}}
      BY DEF Mine
    <2>2. QED  BY <1>3, <2>1 DEF Mine
  <1>5. /\ InQueue = Elements(led_event) \cup {got} /\ got \notin Elements(led_event)
        /\ Distinct(led_event)
    BY GivenIs
  <1>6. InQueue' = Elements(led_event) /\ Sent' = Sent /\ Held' = Held
    BY <1>1, <1>4, <1>5 DEF InQueue, Sent, Held
  <1>7. /\ InQueue \cap Mine = {} /\ InQueue \cap Sent = {} /\ Mine \cap Sent = {}
        /\ \A g, h \in fresh : g # h => Ptr[g] # Ptr[h]
        /\ Mem(memmap, Held, 8 * received + lost) /\ Distinct(tcp_send_event)
    BY DEF Inner, OwnInv
  <1>8. /\ InQueue' \cap Mine' = {} /\ InQueue' \cap Sent' = {} /\ Mine' \cap Sent' = {}
    BY <1>4, <1>5, <1>6, <1>7
  <1>9. \A g \in fresh : Ptr[g] # got
    BY <1>5, <1>7 DEF Mine
  <1>10. ASSUME NEW g \in fresh', NEW h \in fresh', g # h
         PROVE  Ptr'[g] # Ptr'[h]
    <2>1. CASE g = f
      <3>1. h \in fresh
        BY <1>10, <2>1
      <3>2. QED  BY <1>3, <1>9, <2>1, <3>1
    <2>2. CASE h = f
      <3>1. g \in fresh
        BY <1>10, <2>2
      <3>2. QED  BY <1>3, <1>9, <2>2, <3>1
    <2>3. CASE g # f /\ h # f
      BY <1>3, <1>7, <1>10, <2>3
    <2>4. QED  BY <2>1, <2>2, <2>3
  <1>11. QED  BY <1>1, <1>5, <1>6, <1>7, <1>8, <1>10 DEF OwnInv

LEMMA StepTakeAuth ==
  ASSUME Inner, TakeAuth
  PROVE  Inv'
  <1> USE DEF TakeAuth
  <1>0. /\ UNCHANGED <<memmap, buffer, led_event, tcp_send_event, waiting, msg, id_msg,
                       received, commands, switched, answers, robbed, lost>>
        /\ got # NULL /\ got' = NULL /\ auth_msg' = got /\ pc = "auth"
    BY DEF heap, queues, input, output
  <1> DEFINE of == WordOf
  <1>1. /\ got \in Block /\ ~waiting /\ of \in Nat
        /\ of \in 1 .. 3 * Len(commands)
        /\ Row(commands, buffer, led_event)
        /\ Above(of, buffer, led_event) /\ After(of, buffer, led_event)
        /\ \A x : Above(x, buffer, Coming) => x < of /\ Above(x, buffer, led_event)
    BY <1>0, GivenIs
  <1>2. Turn(of) = 0 => Word = commands[CommandOf(of)].peer
    BY <1>0, Saying
  <1> HIDE DEF of
  <1>3. fresh = {} /\ fresh' = {"auth"}
    BY <1>0 DEF Inner, TypeInv, FreshAt
  <1>4. OwnInv' /\ Coming' = led_event
    <2>1. /\ "auth" \in Names /\ Ptr'["auth"] = got
          /\ \A g \in Names : g # "auth" => Ptr'[g] = Ptr[g]
      BY <1>0 DEF Ptr, Names
    <2>2. QED  BY <1>0, <1>3, <2>1, TakeOwn
  <1>5. \A j \in 1 .. Len(switched) :
           switched[j].of[1] < of /\ Above(switched[j].of[1], buffer, led_event)
    BY <1>1 DEF Inner, QueueInv
  <1>6. SwitchInv' /\ SendInv'
    <2>1. Grown(commands, commands') /\ Alike(buffer, buffer', tcp_send_event)
      BY <1>0, SameCommands, SameBuffer
    <2>2. pc \notin {"tag", "body"} /\ pc' \notin {"tag", "body"}
      BY <1>0
    <2>3. QED  BY <1>0, <2>1, <2>2, SwitchSame, SendSame
  <1>7. CASE Word \in Peer
    <2>1. pc' = "msg" /\ taken' = [taken EXCEPT !.peer = Word, !.of[1] = of]
      BY <1>7 DEF of
    <2>2. /\ taken' \in [peer : Peer, switch : Switch, of : [1 .. 3 -> Nat]]
          /\ taken'.of[1] = of /\ taken'.peer = Word
      <3>1. taken \in [peer : Peer, switch : Switch, of : [1 .. 3 -> Nat]]
        BY DEF Inner, TypeInv
      <3> DEFINE t == [taken EXCEPT !.peer = Word]
      <3>2. t \in [peer : Peer, switch : Switch, of : [1 .. 3 -> Nat]] /\ t.peer = Word
        BY <1>7, <3>1
      <3>3. taken' = [t EXCEPT !.of[1] = of]
        BY <2>1, <3>1
      <3> HIDE DEF t
      <3>4. 1 \in 1 .. 3
        OBVIOUS
      <3>5. QED  BY <1>1, <3>2, <3>3, <3>4, TakenOf
    <2>3. TypeInv'
      BY <1>0, <1>1, <1>3, <2>1, <2>2 DEF Inner, TypeInv, Pc, FreshAt
    <2>4. QueueInv'
      BY <1>0, <1>1, <1>4, <1>5, <2>1, <2>2 DEF QueueInv
    <2>5. TakenInv'
      BY <1>0, <1>1, <1>2, <1>5, <2>1, <2>2 DEF TakenInv
    <2>6. QED  BY <1>4, <1>6, <2>3, <2>4, <2>5 DEF Inner, Inv
  <1>8. CASE Word \notin Peer
    <2>1. pc' = "freeAuth" /\ taken' = taken
      BY <1>8
    <2>2. TypeInv'
      BY <1>0, <1>1, <1>3, <2>1 DEF Inner, TypeInv, Pc, FreshAt, Names
    <2>3. QueueInv'
      BY <1>0, <1>1, <1>4, <1>5, <2>1 DEF QueueInv
    <2>4. TakenInv'
      BY <2>1 DEF TakenInv
    <2>5. QED  BY <1>4, <1>6, <2>2, <2>3, <2>4 DEF Inner, Inv
  <1>9. QED  BY <1>7, <1>8

LEMMA StepTakeMsg ==
  ASSUME Inner, TakeMsg
  PROVE  Inv'
  <1> USE DEF TakeMsg
  <1>0. /\ UNCHANGED <<memmap, buffer, led_event, tcp_send_event, waiting, auth_msg, id_msg,
                       received, commands, switched, answers, robbed, lost>>
        /\ got # NULL /\ got' = NULL /\ msg' = got /\ pc = "msg"
    BY DEF heap, queues, input, output
  <1> DEFINE of == WordOf
             first == taken.of[1]
  <1>1. /\ got \in Block /\ ~waiting /\ of \in Nat
        /\ Row(commands, buffer, led_event)
        /\ Above(of, buffer, led_event) /\ After(of, buffer, led_event)
        /\ \A x : Above(x, buffer, Coming) => x < of /\ Above(x, buffer, led_event)
        /\ \A x : After(x, buffer, Coming) => Behind(x, of)
    BY <1>0, GivenIs
  <1>2. /\ Turn(of) = 1 => commands[CommandOf(of)].switch \in {Word, "other"}
        /\ Word \in Switch => Turn(of) = 1
    BY <1>0, Saying
  <1>3. /\ first \in 1 .. 3 * Len(commands)
        /\ \A j \in 1 .. Len(switched) : switched[j].of[1] < first
        /\ Turn(first) = 0 => taken.peer = commands[CommandOf(first)].peer
        /\ Above(first, buffer, Coming) /\ After(first, buffer, Coming)
    BY <1>0 DEF Inner, TakenInv, QueueInv
  <1>4. first \in Nat \ {0}
    BY <1>3 DEF Inner, TypeInv
  <1> HIDE DEF of, first
  <1>5. fresh \subseteq {"auth"} /\ fresh' = fresh \cup {"msg"}
    BY <1>0 DEF Inner, TypeInv, FreshAt
  <1>6. OwnInv' /\ Coming' = led_event
    <2>1. /\ "msg" \in Names /\ Ptr'["msg"] = got /\ "msg" \notin fresh
          /\ \A g \in Names : g # "msg" => Ptr'[g] = Ptr[g]
      BY <1>0, <1>5 DEF Ptr, Names
    <2>2. QED  BY <1>0, <1>5, <2>1, TakeOwn
  <1>7. \A j \in 1 .. Len(switched) : Above(switched[j].of[1], buffer, led_event)
    BY <1>1 DEF Inner, QueueInv
  <1>8. SwitchInv' /\ SendInv'
    <2>1. Grown(commands, commands') /\ Alike(buffer, buffer', tcp_send_event)
      BY <1>0, SameCommands, SameBuffer
    <2>2. pc \notin {"tag", "body"} /\ pc' \notin {"tag", "body"}
      BY <1>0
    <2>3. QED  BY <1>0, <2>1, <2>2, SwitchSame, SendSame
  <1>9. CASE Word \in Switch
    <2>1. pc' = "freeSwitch" /\ taken' = [taken EXCEPT !.switch = Word, !.of[2] = of]
      BY <1>9 DEF of
    <2>2. /\ taken' \in [peer : Peer, switch : Switch, of : [1 .. 3 -> Nat]]
          /\ taken'.of[1] = first /\ taken'.of[2] = of /\ taken'.peer = taken.peer
          /\ taken'.switch = Word
      <3>1. taken \in [peer : Peer, switch : Switch, of : [1 .. 3 -> Nat]]
        BY DEF Inner, TypeInv
      <3> DEFINE t == [taken EXCEPT !.switch = Word]
      <3>2. /\ t \in [peer : Peer, switch : Switch, of : [1 .. 3 -> Nat]]
            /\ t.peer = taken.peer /\ t.switch = Word /\ t.of[1] = first
        BY <1>9, <3>1 DEF first
      <3>3. taken' = [t EXCEPT !.of[2] = of]
        BY <2>1, <3>1
      <3> HIDE DEF t
      <3>4. 2 \in 1 .. 3 /\ 1 \in 1 .. 3 /\ 1 # 2
        OBVIOUS
      <3>5. QED  BY <1>1, <3>2, <3>3, <3>4, TakenOf
    <2>3. /\ Turn(first) = 0 /\ of = first + 1
          /\ commands[CommandOf(first)].switch \in {Word, "other"}
      <3>1. Turn(of) = 1 /\ of = first + 1
        BY <1>1, <1>2, <1>3, <1>9 DEF Behind
      <3>2. /\ Turn(first) \in 0 .. 2
            /\ Turn(first) < 2 => CommandOf(first + 1) = CommandOf(first)
                                  /\ Turn(first + 1) = Turn(first) + 1
            /\ Turn(first) = 2 => Turn(first + 1) = 0
        BY <1>4, TurnOf
      <3>3. Turn(first) = 0 /\ CommandOf(of) = CommandOf(first)
        BY <3>1, <3>2
      <3>4. QED  BY <1>2, <3>1, <3>3
    <2>4. TypeInv'
      <3>1. fresh' \subseteq FreshAt(pc') /\ pc' \in Pc
        BY <1>5, <2>1 DEF FreshAt, Pc
      <3>2. taken' \in [peer : Peer, switch : Switch, of : [1 .. 3 -> Nat]]
        BY <2>2
      <3>3. TypeInv
        BY DEF Inner
      <3> HIDE DEF TakeMsg
      <3>4. QED  BY <1>0, <1>1, <3>1, <3>2, <3>3 DEF TypeInv
    <2>5. Above(first, buffer, led_event)
      BY <1>1, <1>3
    <2>6. QueueInv'
      BY <1>0, <1>1, <1>6, <1>7, <2>1, <2>2, <2>5 DEF QueueInv
    <2>7. TakenInv'
      BY <1>0, <1>3, <2>1, <2>2, <2>3 DEF TakenInv
    <2>8. QED  BY <1>6, <1>8, <2>4, <2>6, <2>7 DEF Inner, Inv
  <1>10. CASE Word \notin Switch
    <2>1. pc' = "freeAuth" /\ taken' = taken
      BY <1>10
    <2>2. TypeInv'
      <3>1. fresh' \subseteq FreshAt(pc') /\ pc' \in Pc
        BY <1>5, <2>1 DEF Pc, FreshAt, Names
      <3>2. ~waiting' /\ got' = NULL /\ msg' \in Block
        BY <1>0, <1>1
      <3> HIDE DEF TakeMsg
      <3>3. QED  BY <1>0, <2>1, <3>1, <3>2 DEF Inner, TypeInv
    <2>3. QueueInv'
      BY <1>0, <1>1, <1>6, <1>7, <2>1 DEF QueueInv
    <2>4. TakenInv'
      BY <2>1 DEF TakenInv
    <2>5. QED  BY <1>6, <1>8, <2>2, <2>3, <2>4 DEF Inner, Inv
  <1>11. QED  BY <1>9, <1>10

LEMMA StepTakeId ==
  ASSUME Inner, TakeId
  PROVE  Inv'
  <1> USE DEF TakeId
  <1>0. /\ UNCHANGED <<memmap, buffer, led_event, tcp_send_event, waiting, auth_msg, msg,
                       received, commands, switched, answers, robbed, lost>>
        /\ got # NULL /\ got' = NULL /\ id_msg' = got /\ pc = "id"
    BY DEF heap, queues, input, output
  <1> DEFINE of == WordOf
             first == taken.of[1]
             second == taken.of[2]
  <1>1. /\ got \in Block /\ ~waiting /\ of \in Nat
        /\ Row(commands, buffer, led_event)
        /\ Above(of, buffer, led_event)
        /\ \A x : Above(x, buffer, Coming) => x < of /\ Above(x, buffer, led_event)
        /\ \A x : After(x, buffer, Coming) => Behind(x, of)
    BY <1>0, GivenIs
  <1>2. /\ Turn(of) = 2 => Word = commands[CommandOf(of)].id
        /\ Word = "0" => Turn(of) # 0
    BY <1>0, Saying
  <1>3. /\ first \in 1 .. 3 * Len(commands)
        /\ \A j \in 1 .. Len(switched) : switched[j].of[1] < first
        /\ taken.peer = commands[CommandOf(first)].peer
        /\ Turn(first) = 0 /\ second = first + 1
        /\ commands[CommandOf(first)].switch \in {taken.switch, "other"}
        /\ Above(first, buffer, Coming) /\ After(second, buffer, Coming)
    BY <1>0 DEF Inner, TakenInv, QueueInv
  <1>4. first \in Nat \ {0}
    BY <1>3 DEF Inner, TypeInv
  <1> HIDE DEF of, first, second
  <1>5. fresh \subseteq {"auth"} /\ fresh' = fresh \cup {"id"}
    BY <1>0 DEF Inner, TypeInv, FreshAt
  <1>6. OwnInv' /\ Coming' = led_event
    <2>1. /\ "id" \in Names /\ Ptr'["id"] = got /\ "id" \notin fresh
          /\ \A g \in Names : g # "id" => Ptr'[g] = Ptr[g]
      BY <1>0, <1>5 DEF Ptr, Names
    <2>2. QED  BY <1>0, <1>5, <2>1, TakeOwn
  <1>7. \A j \in 1 .. Len(switched) : Above(switched[j].of[1], buffer, led_event)
    BY <1>1 DEF Inner, QueueInv
  <1>8. SwitchInv' /\ SendInv'
    <2>1. Grown(commands, commands') /\ Alike(buffer, buffer', tcp_send_event)
      BY <1>0, SameCommands, SameBuffer
    <2>2. pc \notin {"tag", "body"} /\ pc' \notin {"tag", "body"}
      BY <1>0
    <2>3. QED  BY <1>0, <2>1, <2>2, SwitchSame, SendSame
  <1>9. CASE Word = "0"
    <2>1. pc' = "switch" /\ taken' = [taken EXCEPT !.of[3] = of]
      BY <1>9 DEF of
    <2>2. /\ taken' \in [peer : Peer, switch : Switch, of : [1 .. 3 -> Nat]]
          /\ taken'.of[1] = first /\ taken'.of[2] = second /\ taken'.of[3] = of
          /\ taken'.peer = taken.peer /\ taken'.switch = taken.switch
      <3>1. taken \in [peer : Peer, switch : Switch, of : [1 .. 3 -> Nat]]
        BY DEF Inner, TypeInv
      <3>2. 3 \in 1 .. 3 /\ 2 \in 1 .. 3 /\ 1 \in 1 .. 3 /\ 1 # 3 /\ 2 # 3
        OBVIOUS
      <3>3. QED  BY <1>1, <2>1, <3>1, <3>2, TakenOf DEF first, second
    <2>3. of = first + 2 /\ commands[CommandOf(first)].id = "0"
      <3>1. of = second + 1 /\ Turn(of) # 0
        BY <1>1, <1>2, <1>3, <1>9 DEF Behind
      <3>2. /\ CommandOf(first + 1) = CommandOf(first) /\ Turn(first + 1) = 1
            /\ first + 1 \in Nat \ {0}
        BY <1>3, <1>4, TurnOf
      <3>3. CommandOf((first + 1) + 1) = CommandOf(first) /\ Turn((first + 1) + 1) = 2
        <4>1. Turn(first + 1) < 2 /\ 1 + 1 = 2
          BY <3>2
        <4>2. QED  BY <3>2, <4>1, TurnOf
      <3>4. of = (first + 1) + 1 /\ of = first + 2
        BY <1>3, <1>4, <3>1
      <3>5. QED  BY <1>2, <1>9, <3>3, <3>4
    <2>4. TypeInv'
      <3>1. fresh' \subseteq FreshAt(pc') /\ pc' \in Pc
        BY <1>5, <2>1 DEF FreshAt, Pc
      <3>2. taken' \in [peer : Peer, switch : Switch, of : [1 .. 3 -> Nat]]
        BY <2>2
      <3>3. TypeInv
        BY DEF Inner
      <3> HIDE DEF TakeId
      <3>4. QED  BY <1>0, <1>1, <3>1, <3>2, <3>3 DEF TypeInv
    <2>5. Above(first, buffer, led_event)
      BY <1>1, <1>3
    <2>6. QueueInv'
      BY <1>0, <1>1, <1>6, <1>7, <2>1, <2>2, <2>5 DEF QueueInv
    <2>7. TakenInv'
      BY <1>0, <1>3, <2>1, <2>2, <2>3 DEF TakenInv
    <2>8. QED  BY <1>6, <1>8, <2>4, <2>6, <2>7 DEF Inner, Inv
  <1>10. CASE Word # "0"
    <2>1. pc' = "freeAuth" /\ taken' = taken
      BY <1>10
    <2>2. TypeInv'
      <3>1. fresh' \subseteq FreshAt(pc') /\ pc' \in Pc
        BY <1>5, <2>1 DEF Pc, FreshAt, Names
      <3>2. ~waiting' /\ got' = NULL /\ id_msg' \in Block
        BY <1>0, <1>1
      <3> HIDE DEF TakeId
      <3>3. QED  BY <1>0, <2>1, <3>1, <3>2 DEF Inner, TypeInv
    <2>3. QueueInv'
      BY <1>0, <1>1, <1>6, <1>7, <2>1 DEF QueueInv
    <2>4. TakenInv'
      BY <2>1 DEF TakenInv
    <2>5. QED  BY <1>6, <1>8, <2>2, <2>3, <2>4 DEF Inner, Inv
  <1>11. QED  BY <1>9, <1>10

-----------------------------------------------------------------------------
(* led_task frees one of its pointers.                                     *)

(* It gives back a buffer of its own, or does nothing, or robs somebody.   *)
LEMMA FreeOwn ==
  ASSUME Inner, NEW f \in Names, Free(f, Ptr[f]), ~robbed'
  PROVE  OwnInv'
  <1> DEFINE b == Ptr[f]
  <1>0. /\ memmap' = Freed(memmap, b) /\ fresh' = fresh \ {f}
        /\ f \in fresh \/ b = NULL \/ memmap[b] = 0
        /\ UNCHANGED <<led_event, tcp_send_event, got, auth_msg, msg, id_msg, received, lost>>
    BY DEF Free, queues, pend, pointers, input
  <1>1. b \in Block \cup {NULL}
    <2>1. {auth_msg, msg, id_msg} \subseteq Block \cup {NULL}
      BY DEF Inner, TypeInv
    <2>2. QED  BY <2>1 DEF Ptr, Names
  <1>2. /\ Mem(memmap, Held, 8 * received + lost) /\ memmap \in [Block -> Nat]
        /\ \A g, h \in fresh : g # h => Ptr[g] # Ptr[h]
        /\ InQueue \cap Mine = {} /\ InQueue \cap Sent = {} /\ Mine \cap Sent = {}
        /\ Distinct(Coming) /\ Distinct(tcp_send_event)
    BY DEF Inner, OwnInv, Mem
  <1>3. Coming' = Coming /\ InQueue' = InQueue /\ Sent' = Sent /\ Ptr' = Ptr
    BY <1>0 DEF Coming, InQueue, Sent, Ptr
  <1> HIDE DEF b
  <1>4. CASE f \in fresh
    <2>1. b \in Mine /\ b \in Held
      BY <1>4 DEF Mine, Held, b
    <2>2. Mine' = Mine \ {b}
      <3>1. Mine' = {Ptr[g] : g \in fresh \ {f}}
        BY <1>0, <1>3 DEF Mine
      <3>2. \A g \in fresh \ {f} : Ptr[g] # b
        BY <1>2, <1>4 DEF b
      <3>3. QED  BY <3>1, <3>2 DEF Mine, b
    <2>3. Held' = Held \ {b}
      BY <1>2, <1>3, <2>1, <2>2 DEF Held
    <2> DEFINE held == Held
               k == 8 * received + lost
    <2>4. Mem(Freed(memmap, b), held \ {b}, k)
      <3>1. Mem(memmap, held, k) /\ b \in held
        BY <1>2, <2>1
      <3> HIDE DEF held, k
      <3>2. QED  BY <3>1, MemFree
    <2>5. Mem(memmap', Held', 8 * received' + lost')
      BY <1>0, <2>3, <2>4
    <2>6. QED  BY <1>0, <1>2, <1>3, <2>2, <2>5 DEF OwnInv
  <1>5. CASE f \notin fresh
    <2>1. memmap' = memmap
      <3>1. CASE b = NULL
        BY <1>0, <3>1 DEF Freed
      <3>2. CASE b # NULL
        BY <1>0, <1>1, <1>2, <1>5, <3>2, FreeNothing
      <3>3. QED  BY <3>1, <3>2
    <2>2. fresh' = fresh
      BY <1>0, <1>5
    <2>3. Mine' = Mine
      BY <1>3, <2>2 DEF Mine
    <2>4. Held' = Held
      BY <1>3, <2>3 DEF Held
    <2>5. QED  BY <1>0, <1>2, <1>3, <2>1, <2>2, <2>3, <2>4 DEF OwnInv
  <1>6. QED  BY <1>4, <1>5

LEMMA StepFree ==
  ASSUME Inner, NEW f \in Names, Free(f, Ptr[f]), pc' \in Pc,
         FreshAt(pc) \ {f} \subseteq FreshAt(pc'),
         \/ pc = "freeSwitch" /\ pc' = "id"
         \/ pc \in {"freeAuth", "freeMsg", "freeId"} /\ pc' \in {"freeMsg", "freeId", "auth"}
  PROVE  Inv'
  <1> SUFFICES ASSUME ~robbed' PROVE Inner'
    BY DEF Inv
  <1>0. /\ fresh' = fresh \ {f}
        /\ UNCHANGED <<buffer, led_event, tcp_send_event, waiting, got, auth_msg, msg, id_msg,
                       taken, received, commands, switched, answers, lost>>
    BY DEF Free, queues, pend, pointers, input, output
  <1>1. OwnInv' /\ Coming' = Coming
    BY <1>0, FreeOwn DEF Coming
  <1>2. ~waiting /\ got = NULL /\ fresh' \subseteq FreshAt(pc')
    BY <1>0 DEF Inner, TypeInv
  <1>3. TypeInv'
    BY <1>0, <1>2 DEF Inner, TypeInv
  <1>4. Grown(commands, commands') /\ Alike(buffer, buffer', tcp_send_event)
    BY <1>0, SameCommands, SameBuffer
  <1>5. pc \notin {"tag", "body"} /\ pc' \notin {"tag", "body"}
    OBVIOUS
  <1>6. SwitchInv' /\ SendInv'
    BY <1>0, <1>4, <1>5, SwitchSame, SendSame
  <1>7. QueueInv' /\ TakenInv'
    BY <1>0, <1>1 DEF Inner, QueueInv, TakenInv
  <1>8. QED  BY <1>1, <1>3, <1>6, <1>7 DEF Inner

LEMMA StepFreeSwitch ==
  ASSUME Inner, FreeSwitch
  PROVE  Inv'
  <1>1. "msg" \in Names /\ Free("msg", Ptr["msg"]) /\ pc = "freeSwitch" /\ pc' = "id"
    BY DEF FreeSwitch, Ptr, Names
  <1>2. pc' \in Pc /\ FreshAt(pc) \ {"msg"} \subseteq FreshAt(pc')
    BY <1>1 DEF Pc, FreshAt
  <1>3. QED  BY <1>1, <1>2, StepFree

LEMMA StepFreeAuth ==
  ASSUME Inner, FreeAuth
  PROVE  Inv'
  <1>1. "auth" \in Names /\ Free("auth", Ptr["auth"]) /\ pc = "freeAuth" /\ pc' = "freeMsg"
    BY DEF FreeAuth, Ptr, Names
  <1>2. pc' \in Pc /\ FreshAt(pc) \ {"auth"} \subseteq FreshAt(pc')
    BY <1>1 DEF Pc, FreshAt, Names
  <1>3. QED  BY <1>1, <1>2, StepFree

LEMMA StepFreeMsg ==
  ASSUME Inner, FreeMsg
  PROVE  Inv'
  <1>1. "msg" \in Names /\ Free("msg", Ptr["msg"]) /\ pc = "freeMsg" /\ pc' = "freeId"
    BY DEF FreeMsg, Ptr, Names
  <1>2. pc' \in Pc /\ FreshAt(pc) \ {"msg"} \subseteq FreshAt(pc')
    BY <1>1 DEF Pc, FreshAt
  <1>3. QED  BY <1>1, <1>2, StepFree

LEMMA StepFreeId ==
  ASSUME Inner, FreeId
  PROVE  Inv'
  <1>1. "id" \in Names /\ Free("id", Ptr["id"]) /\ pc = "freeId" /\ pc' = "auth"
    BY DEF FreeId, Ptr, Names
  <1>2. pc' \in Pc /\ FreshAt(pc) \ {"id"} \subseteq FreshAt(pc')
    BY <1>1 DEF Pc, FreshAt
  <1>3. QED  BY <1>1, <1>2, StepFree

-----------------------------------------------------------------------------
(* It switches the lamp and posts its answer.                              *)

LEMMA Lengths ==
  ASSUME Inner
  PROVE  /\ Len(switched) \in Nat /\ Len(answers) \in Nat /\ Len(answers) <= Len(switched)
         /\ Len(tcp_send_event) \in Nat /\ Open \in 0 .. 2
         /\ Len(tcp_send_event) = 2 * (Len(switched) - Len(answers)) - Open
  <1>1. Len(switched) \in Nat /\ Len(answers) \in Nat /\ Len(tcp_send_event) \in Nat
    <2>1. TypeInv
      BY DEF Inner
    <2>2. QED  BY <2>1 DEF TypeInv
  <1>2. Len(answers) <= Len(switched)
    <2>1. CASE Len(answers) = 0
      BY <1>1, <2>1
    <2>2. CASE Len(answers) # 0
      <3>1. Len(answers) \in 1 .. Len(answers)
        BY <1>1, <2>2
      <3>2. QED  BY <3>1 DEF Inner, SendInv
    <2>3. QED  BY <2>1, <2>2
  <1>3. QED  BY <1>1, <1>2 DEF Inner, SendInv, Open

LEMMA StepSwitchLamp ==
  ASSUME Inner, SwitchLamp
  PROVE  Inv'
  <1> USE DEF SwitchLamp
  <1> DEFINE e == [switch |-> taken.switch, of |-> taken.of]
             E == [switch : Switch, of : [1 .. 3 -> Nat]]
             n == Len(switched)
             a == Len(answers)
             l == Len(tcp_send_event)
  <1>0. /\ UNCHANGED <<memmap, buffer, led_event, tcp_send_event, waiting, got, auth_msg, msg,
                       id_msg, taken, received, commands, answers, fresh, robbed, lost>>
        /\ pc = "switch" /\ pc' = "tag" /\ switched' = Append(switched, e)
    BY DEF heap, queues, pend, pointers, input, owned
  <1>1. /\ switched \in Seq(E) /\ e \in E /\ n \in Nat /\ a \in Nat /\ a <= n /\ l \in Nat
        /\ l = 2 * (n - a)
    BY <1>0, Lengths DEF Inner, TypeInv, Open
  <1>2. /\ switched' \in Seq(E) /\ Len(switched') = n + 1 /\ switched'[n + 1] = e
        /\ \A i \in 1 .. n : switched'[i] = switched[i]
    <2> HIDE DEF e, E
    <2>1. QED  BY <1>0, <1>1
  <1>3. e.of = taken.of /\ e.switch = taken.switch
    OBVIOUS
  <1> HIDE DEF e, n, a, l
  <1>4. \A i \in 1 .. Len(switched') : i \in Nat /\ (i \in 1 .. n \/ i = n + 1)
    BY <1>1, <1>2
  <1>5. Coming' = Coming /\ Held' = Held /\ Mine' = Mine /\ InQueue' = InQueue
        /\ Sent' = Sent /\ Ptr' = Ptr
    BY <1>0 DEF Coming, Held, Mine, InQueue, Sent, Ptr
  <1>6. OwnInv'
    BY <1>0, <1>5 DEF Inner, OwnInv
  <1>7. TypeInv'
    <2>1. ~waiting /\ got = NULL
      BY <1>0 DEF Inner, TypeInv
    <2>2. pc' \in Pc /\ FreshAt(pc') = FreshAt(pc) \cup {"id"} /\ fresh' \subseteq FreshAt(pc')
      BY <1>0 DEF Inner, TypeInv, Pc, FreshAt
    <2>3. QED  BY <1>0, <1>2, <2>1, <2>2 DEF Inner, TypeInv, E
  <1>8. QueueInv'
    <2>1. /\ \A j \in 1 .. n : Above(switched[j].of[1], buffer, Coming)
          /\ Above(taken.of[1], buffer, Coming) /\ Row(commands, buffer, Coming)
      BY <1>0 DEF Inner, QueueInv, n
    <2>2. \A j \in 1 .. Len(switched') : Above(switched'[j].of[1], buffer, Coming)
      BY <1>2, <1>3, <1>4, <2>1
    <2>3. QED  BY <1>0, <1>5, <2>1, <2>2 DEF QueueInv
  <1>9. TakenInv'
    BY <1>0 DEF TakenInv
  <1>10. SwitchInv'
    <2>1. ASSUME NEW i \in 1 .. n
          PROVE  Applied(commands, switched', i)
      <3>1. Applied(commands, switched, i)
        BY DEF Inner, SwitchInv, n
      <3>2. \A j \in 1 .. Len(switched') : j < i => j \in 1 .. n
        BY <1>1, <1>4
      <3>3. QED  BY <1>2, <3>1, <3>2 DEF Applied, n
    <2>2. Applied(commands, switched', n + 1)
      <3>1. \A j \in 1 .. Len(switched') : j < n + 1 => j \in 1 .. n
        BY <1>1, <1>4
      <3>2. /\ taken.of[1] \in 1 .. 3 * Len(commands)
            /\ \A j \in 1 .. n : switched[j].of[1] < taken.of[1]
            /\ Turn(taken.of[1]) = 0
            /\ taken.of[2] = taken.of[1] + 1 /\ taken.of[3] = taken.of[1] + 2
            /\ commands[CommandOf(taken.of[1])].switch \in {taken.switch, "other"}
            /\ commands[CommandOf(taken.of[1])].id = "0"
        BY <1>0 DEF Inner, TakenInv, n
      <3>3. QED  BY <1>2, <1>3, <3>1, <3>2 DEF Applied
    <2>3. QED  BY <1>0, <1>4, <2>1, <2>2 DEF SwitchInv
  <1>11. SendInv'
    <2>1. l = 2 * ((n + 1) - a) - 2 /\ Open' = 2
      BY <1>0, <1>1 DEF Open
    <2>2. \A i \in 1 .. a : i \in 1 .. n /\ answers[i] = Answers(switched[i].of[1])
      BY DEF Inner, SendInv, n, a
    <2>3. ASSUME NEW i \in 1 .. a
          PROVE  i \in 1 .. n + 1 /\ answers[i] = Answers(switched'[i].of[1])
      <3>1. i \in 1 .. n /\ answers[i] = Answers(switched[i].of[1])
        BY <2>2
      <3>2. i \in 1 .. n + 1 /\ switched'[i] = switched[i]
        BY <1>1, <1>2, <3>1
      <3>3. QED  BY <3>1, <3>2
    <2>4. ASSUME NEW i \in 1 .. n
          PROVE  /\ 2 * (i - a) - 1 \in 1 .. l =>
                      buffer[tcp_send_event[2 * (i - a) - 1]] = Tag(switched'[i].of[1])
                 /\ 2 * (i - a) \in 1 .. l =>
                      buffer[tcp_send_event[2 * (i - a)]] = Body(switched'[i].of[1])
      BY <1>2 DEF Inner, SendInv, n, a, l
    <2>5. 2 * ((n + 1) - a) - 1 \notin 1 .. l /\ 2 * ((n + 1) - a) \notin 1 .. l
      BY <1>1
    <2>6. ASSUME NEW i \in 1 .. Len(switched')
          PROVE  /\ 2 * (i - a) - 1 \in 1 .. l =>
                      buffer[tcp_send_event[2 * (i - a) - 1]] = Tag(switched'[i].of[1])
                 /\ 2 * (i - a) \in 1 .. l =>
                      buffer[tcp_send_event[2 * (i - a)]] = Body(switched'[i].of[1])
      BY <1>4, <2>4, <2>5
    <2>7. /\ Len(switched') # 0 /\ taken.of[1] = switched'[Len(switched')].of[1]
          /\ taken.peer = commands[CommandOf(taken.of[1])].peer
      <3>1. taken.peer = commands[CommandOf(taken.of[1])].peer
        BY <1>0 DEF Inner, TakenInv
      <3>2. n + 1 # 0 /\ switched'[n + 1].of = taken.of
        BY <1>1, <1>2, <1>3
      <3>3. QED  BY <1>2, <3>1, <3>2
    <2>8. QED
      BY <1>0, <1>2, <2>1, <2>3, <2>6, <2>7 DEF SendInv, Answers, Tag, Body, a, l
  <1>12. QED  BY <1>6, <1>7, <1>8, <1>9, <1>10, <1>11 DEF Inner, Inv

(* A buffer of the answer is new to everybody.                             *)
LEMMA AnswerPosted ==
  ASSUME Inner, NEW n \in Nat \ {0}, NEW text \in Texts, PostAnswer(text, n)
  PROVE  \E b \in Block :
            /\ OwnInv' /\ Coming' = Coming
            /\ Alike(buffer, buffer', Coming) /\ Alike(buffer, buffer', tcp_send_event)
            /\ buffer' \in [Block -> [text : Texts, of : Nat]]
            /\ buffer'[b] = [text |-> text, of |-> taken.of[1]]
            /\ tcp_send_event' \in Seq(Block)
            /\ Len(tcp_send_event') = Len(tcp_send_event) + 1
            /\ tcp_send_event'[Len(tcp_send_event) + 1] = b
            /\ \A i \in 1 .. Len(tcp_send_event) : tcp_send_event'[i] = tcp_send_event[i]
  <1> DEFINE b == Room(memmap, n)
             new == Marked(memmap, b, n)
             held == Held
             k == 8 * received + lost
             e == [text |-> text, of |-> taken.of[1]]
             E == [text : Texts, of : Nat]
  <1>0. /\ Rooms(memmap, n) # {} /\ memmap' = new /\ buffer' = [buffer EXCEPT ![b] = e]
        /\ tcp_send_event' = Append(tcp_send_event, b)
        /\ UNCHANGED <<led_event, got, auth_msg, msg, id_msg, received, fresh, lost>>
    BY DEF PostAnswer, pend, pointers, input, owned
  <1>1. /\ Mem(memmap, held, k) /\ memmap \in [Block -> Nat]
        /\ \A f, g \in fresh : f # g => Ptr[f] # Ptr[g]
        /\ InQueue \cap Mine = {} /\ InQueue \cap Sent = {} /\ Mine \cap Sent = {}
        /\ Distinct(Coming) /\ Distinct(tcp_send_event)
    BY DEF Inner, OwnInv, Mem
  <1>2. /\ tcp_send_event \in Seq(Block) /\ buffer \in [Block -> E] /\ e \in E
    <2>1. taken.of[1] \in Nat
      BY DEF Inner, TypeInv
    <2>2. QED  BY <2>1 DEF Inner, TypeInv
  <1> HIDE DEF k, e, E
  <1>3. b \in Block /\ b \notin held /\ Mem(new, held \cup {b}, k)
    <2> HIDE DEF held, b, new
    <2>1. b = Room(memmap, n) /\ new = Marked(memmap, b, n)
      BY DEF b, new
    <2>2. QED  BY <1>0, <1>1, <2>1, MemAlloc
  <1> HIDE DEF b, new
  <1>4. b \notin InQueue /\ b \notin Mine /\ b \notin Sent
    BY <1>3 DEF Held
  <1>5. Coming' = Coming /\ InQueue' = InQueue /\ Mine' = Mine /\ Ptr' = Ptr
    BY <1>0 DEF Coming, InQueue, Mine, Ptr
  <1>6. /\ tcp_send_event' \in Seq(Block) /\ Distinct(tcp_send_event')
        /\ Len(tcp_send_event') = Len(tcp_send_event) + 1
        /\ tcp_send_event'[Len(tcp_send_event) + 1] = b
        /\ \A i \in 1 .. Len(tcp_send_event) : tcp_send_event'[i] = tcp_send_event[i]
        /\ Sent' = Sent \cup {b}
    BY <1>0, <1>1, <1>2, <1>3, <1>4, Appended DEF Sent
  <1>7. Held' = held \cup {b}
    BY <1>5, <1>6 DEF Held
  <1>8. OwnInv'
    <2>1. Mem(memmap', Held', 8 * received' + lost')
      BY <1>0, <1>3, <1>7 DEF k
    <2>2. QED  BY <1>0, <1>1, <1>4, <1>5, <1>6, <2>1 DEF OwnInv
  <1>9. /\ buffer' \in [Block -> E] /\ buffer'[b] = e
        /\ \A c \in Block : c # b => buffer'[c] = buffer[c]
    BY <1>0, <1>2, <1>3
  <1>10. Alike(buffer, buffer', Coming) /\ Alike(buffer, buffer', tcp_send_event)
    <2>1. Coming \in Seq(Block)
      BY UpcomingIs DEF Inner, TypeInv, Coming
    <2>2. \A i \in 1 .. Len(Coming) : Coming[i] \in Block /\ Coming[i] # b
      BY <1>4, <2>1, ElementIn DEF InQueue, Elements
    <2>3. \A i \in 1 .. Len(tcp_send_event) : tcp_send_event[i] \in Block /\ tcp_send_event[i] # b
      BY <1>2, <1>4, ElementIn DEF Sent, Elements
    <2>4. QED  BY <1>9, <2>2, <2>3 DEF Alike
  <1>11. QED  BY <1>3, <1>5, <1>6, <1>8, <1>9, <1>10 DEF e, E

(* All but what waits in tcp_send_event.                                   *)
LEMMA PostRest ==
  ASSUME Inner, NEW n \in Nat \ {0}, NEW text \in Texts, PostAnswer(text, n),
         pc \in {"tag", "body"}, pc' \in Pc, pc' \in {"body", "freeAuth"}
  PROVE  TypeInv' /\ OwnInv' /\ QueueInv' /\ TakenInv' /\ SwitchInv'
  <1>0. UNCHANGED <<led_event, waiting, got, auth_msg, msg, id_msg, taken, received, commands,
                    switched, answers, fresh, robbed, lost>>
    BY DEF PostAnswer, pend, pointers, input, output, owned
  <1>1. /\ OwnInv' /\ Coming' = Coming /\ Alike(buffer, buffer', Coming)
        /\ buffer' \in [Block -> [text : Texts, of : Nat]] /\ tcp_send_event' \in Seq(Block)
    BY AnswerPosted
  <1>2. TypeInv'
    <2>1. ~waiting /\ got = NULL
      BY DEF Inner, TypeInv
    <2>2. fresh' \subseteq FreshAt(pc')
      BY <1>0 DEF Inner, TypeInv, FreshAt, Names
    <2>3. TypeInv
      BY DEF Inner
    <2>4. QED  BY <1>0, <1>1, <2>1, <2>2, <2>3 DEF TypeInv
  <1>3. /\ Row(commands, buffer, Coming)'
        /\ \A j \in 1 .. Len(switched') : Above(switched[j].of[1], buffer, Coming)'
    BY <1>0, <1>1, QueueSame
  <1>4. QueueInv' /\ TakenInv'
    BY <1>3 DEF QueueInv, TakenInv
  <1>5. SwitchInv'
    BY <1>0 DEF Inner, SwitchInv
  <1>6. QED  BY <1>1, <1>2, <1>4, <1>5

LEMMA StepPostTag ==
  ASSUME Inner, PostTag
  PROVE  Inv'
  <1> DEFINE n == Len(switched)
             a == Len(answers)
             l == Len(tcp_send_event)
             x == taken.of[1]
  <1>0. /\ PostAnswer(taken.peer, 1) /\ taken.peer \in Texts /\ 1 \in Nat \ {0}
        /\ pc = "tag" /\ pc' = "body" /\ pc' \in Pc
        /\ UNCHANGED <<taken, commands, switched, answers>>
    <2>1. UNCHANGED <<taken, commands, switched, answers>> /\ pc = "tag"
      BY DEF PostTag, PostAnswer, input, output
    <2>2. taken.peer \in Texts
      BY DEF Inner, TypeInv, Texts
    <2>3. QED  BY <2>1, <2>2 DEF PostTag, Pc
  <1>1. TypeInv' /\ OwnInv' /\ QueueInv' /\ TakenInv' /\ SwitchInv'
    BY <1>0, PostRest
  <1>2. PICK b \in Block :
            /\ Alike(buffer, buffer', tcp_send_event)
            /\ buffer'[b] = [text |-> taken.peer, of |-> x]
            /\ Len(tcp_send_event') = l + 1 /\ tcp_send_event'[l + 1] = b
            /\ \A i \in 1 .. l : tcp_send_event'[i] = tcp_send_event[i]
    BY <1>0, AnswerPosted
  <1>3. /\ n \in Nat /\ a \in Nat /\ a <= n /\ l \in Nat /\ l = 2 * (n - a) - 2
    BY <1>0, Lengths DEF Open
  <1>4. /\ n # 0 /\ x = switched[n].of[1] /\ taken.peer = commands[CommandOf(x)].peer
        /\ \A i \in 1 .. a : i \in 1 .. n /\ answers[i] = Answers(switched[i].of[1])
        /\ \A i \in 1 .. n :
             /\ 2 * (i - a) - 1 \in 1 .. l =>
                   buffer[tcp_send_event[2 * (i - a) - 1]] = Tag(switched[i].of[1])
             /\ 2 * (i - a) \in 1 .. l =>
                   buffer[tcp_send_event[2 * (i - a)]] = Body(switched[i].of[1])
    BY <1>0 DEF Inner, SendInv
  <1>5. buffer'[b] = Tag(switched[n].of[1])
    BY <1>2, <1>4 DEF Tag
  <1>6. \A j \in 1 .. l : tcp_send_event'[j] = tcp_send_event[j]
                          /\ buffer'[tcp_send_event[j]] = buffer[tcp_send_event[j]]
    BY <1>2 DEF Alike
  <1> HIDE DEF n, a, l, x
  <1>7. ASSUME NEW i \in 1 .. n
        PROVE  /\ 2 * (i - a) - 1 \in 1 .. l + 1 =>
                     buffer'[tcp_send_event'[2 * (i - a) - 1]] = Tag(switched[i].of[1])
               /\ 2 * (i - a) \in 1 .. l + 1 =>
                     buffer'[tcp_send_event'[2 * (i - a)]] = Body(switched[i].of[1])
    <2> DEFINE j == 2 * (i - a) - 1
               k == 2 * (i - a)
    <2>1. j \in 1 .. l + 1 => j \in 1 .. l \/ (j = l + 1 /\ i = n)
      BY <1>3
    <2>2. k \in 1 .. l + 1 => k \in 1 .. l
      BY <1>3
    <2>3. j \in 1 .. l => buffer[tcp_send_event[j]] = Tag(switched[i].of[1])
      BY <1>4
    <2>4. k \in 1 .. l => buffer[tcp_send_event[k]] = Body(switched[i].of[1])
      BY <1>4
    <2> HIDE DEF j, k
    <2>5. j \in 1 .. l + 1 => buffer'[tcp_send_event'[j]] = Tag(switched[i].of[1])
      BY <1>2, <1>5, <1>6, <2>1, <2>3
    <2>6. k \in 1 .. l + 1 => buffer'[tcp_send_event'[k]] = Body(switched[i].of[1])
      BY <1>6, <2>2, <2>4
    <2>7. QED  BY <2>5, <2>6 DEF j, k
  <1>8. l + 1 = 2 * (n - a) - 1 /\ Open' = 1
    BY <1>0, <1>3 DEF Open
  <1>9. SendInv'
    <2>1. \A i \in 1 .. a : answers[i] = Answers(switched[i].of[1])'
      BY <1>0, <1>4 DEF Answers
    <2>2. \A z : Tag(z)' = Tag(z) /\ Body(z)' = Body(z)
      BY <1>0 DEF Tag, Body
    <2>3. Len(switched') = n /\ Len(answers') = a /\ Len(tcp_send_event') = l + 1
      BY <1>0, <1>2 DEF n, a
    <2>4. taken'.of[1] = x /\ taken'.peer = taken.peer /\ switched' = switched
          /\ commands' = commands /\ answers' = answers
      BY <1>0 DEF x
    <2>5. QED  BY <1>4, <1>7, <1>8, <2>1, <2>2, <2>3, <2>4 DEF SendInv
  <1>10. QED  BY <1>1, <1>9 DEF Inner, Inv

LEMMA StepPostBody ==
  ASSUME Inner, PostBody
  PROVE  Inv'
  <1> DEFINE n == Len(switched)
             a == Len(answers)
             l == Len(tcp_send_event)
             x == taken.of[1]
  <1>0. /\ PostAnswer("answer", 3) /\ "answer" \in Texts /\ 3 \in Nat \ {0}
        /\ pc = "body" /\ pc' = "freeAuth" /\ pc' \in Pc
        /\ UNCHANGED <<taken, commands, switched, answers>>
    <2>1. UNCHANGED <<taken, commands, switched, answers>> /\ pc = "body"
      BY DEF PostBody, PostAnswer, input, output
    <2>2. "answer" \in Texts
      BY DEF Inner, TypeInv, Texts
    <2>3. QED  BY <2>1, <2>2 DEF PostBody, Pc
  <1>1. TypeInv' /\ OwnInv' /\ QueueInv' /\ TakenInv' /\ SwitchInv'
    BY <1>0, PostRest
  <1>2. PICK b \in Block :
            /\ Alike(buffer, buffer', tcp_send_event)
            /\ buffer'[b] = [text |-> "answer", of |-> x]
            /\ Len(tcp_send_event') = l + 1 /\ tcp_send_event'[l + 1] = b
            /\ \A i \in 1 .. l : tcp_send_event'[i] = tcp_send_event[i]
    BY <1>0, AnswerPosted
  <1>3. /\ n \in Nat /\ a \in Nat /\ a <= n /\ l \in Nat /\ l = 2 * (n - a) - 1
    BY <1>0, Lengths DEF Open
  <1>4. /\ n # 0 /\ x = switched[n].of[1]
        /\ \A i \in 1 .. a : i \in 1 .. n /\ answers[i] = Answers(switched[i].of[1])
        /\ \A i \in 1 .. n :
             /\ 2 * (i - a) - 1 \in 1 .. l =>
                   buffer[tcp_send_event[2 * (i - a) - 1]] = Tag(switched[i].of[1])
             /\ 2 * (i - a) \in 1 .. l =>
                   buffer[tcp_send_event[2 * (i - a)]] = Body(switched[i].of[1])
    BY <1>0 DEF Inner, SendInv
  <1>5. buffer'[b] = Body(switched[n].of[1])
    BY <1>2, <1>4 DEF Body
  <1>6. \A j \in 1 .. l : tcp_send_event'[j] = tcp_send_event[j]
                          /\ buffer'[tcp_send_event[j]] = buffer[tcp_send_event[j]]
    BY <1>2 DEF Alike
  <1> HIDE DEF n, a, l, x
  <1>7. ASSUME NEW i \in 1 .. n
        PROVE  /\ 2 * (i - a) - 1 \in 1 .. l + 1 =>
                     buffer'[tcp_send_event'[2 * (i - a) - 1]] = Tag(switched[i].of[1])
               /\ 2 * (i - a) \in 1 .. l + 1 =>
                     buffer'[tcp_send_event'[2 * (i - a)]] = Body(switched[i].of[1])
    <2> DEFINE j == 2 * (i - a) - 1
               k == 2 * (i - a)
    <2>1. j \in 1 .. l + 1 => j \in 1 .. l
      BY <1>3
    <2>2. k \in 1 .. l + 1 => k \in 1 .. l \/ (k = l + 1 /\ i = n)
      BY <1>3
    <2>3. j \in 1 .. l => buffer[tcp_send_event[j]] = Tag(switched[i].of[1])
      BY <1>4
    <2>4. k \in 1 .. l => buffer[tcp_send_event[k]] = Body(switched[i].of[1])
      BY <1>4
    <2> HIDE DEF j, k
    <2>5. j \in 1 .. l + 1 => buffer'[tcp_send_event'[j]] = Tag(switched[i].of[1])
      BY <1>6, <2>1, <2>3
    <2>6. k \in 1 .. l + 1 => buffer'[tcp_send_event'[k]] = Body(switched[i].of[1])
      BY <1>2, <1>5, <1>6, <2>2, <2>4
    <2>7. QED  BY <2>5, <2>6 DEF j, k
  <1>8. l + 1 = 2 * (n - a) - 0 /\ Open' = 0
    BY <1>0, <1>3 DEF Open
  <1>9. SendInv'
    <2>1. \A i \in 1 .. a : answers[i] = Answers(switched[i].of[1])'
      BY <1>0, <1>4 DEF Answers
    <2>2. \A z : Tag(z)' = Tag(z) /\ Body(z)' = Body(z)
      BY <1>0 DEF Tag, Body
    <2>3. Len(switched') = n /\ Len(answers') = a /\ Len(tcp_send_event') = l + 1
      BY <1>0, <1>2 DEF n, a
    <2>4. switched' = switched /\ answers' = answers /\ pc' \notin {"tag", "body"}
      BY <1>0
    <2>5. QED  BY <1>4, <1>7, <1>8, <2>1, <2>2, <2>3, <2>4 DEF SendInv
  <1>10. QED  BY <1>1, <1>9 DEF Inner, Inv

-----------------------------------------------------------------------------
(* tcp_send_task writes an answer.                                         *)

WithoutTwo(s, t) ==
    /\ t \in Seq(Block) /\ Len(t) = Len(s) - 2 /\ Distinct(t)
    /\ \A k \in 1 .. Len(t) : t[k] = s[k + 2] /\ k + 2 \in 1 .. Len(s)
    /\ Elements(t) = (Elements(s) \ {s[1]}) \ {s[2]}
    /\ s[1] \in Elements(s) /\ s[2] \in Elements(s) /\ s[1] # s[2]

LEMMA Shorter ==
  ASSUME NEW s \in Seq(Block), Len(s) >= 2, Distinct(s)
  PROVE  WithoutTwo(s, SubSeq(s, 3, Len(s)))
  <1> DEFINE l == Len(s)
             t == SubSeq(s, 3, l)
  <1>1. l \in Nat /\ l >= 2
    OBVIOUS
  <1>2. t \in Seq(Block) /\ Len(t) = l - 2
    <2>1. t = SubSeq(s, 3, l) /\ \A k \in 3 .. l : s[k] \in Block
      BY <1>1, ElementIn
    <2>2. t \in Seq(Block)
      BY <1>1, <2>1
    <2>3. Len(SubSeq(s, 3, l)) = l - 2
      <3>1. CASE l = 2
        BY <3>1
      <3>2. CASE l > 2
        <4>1. 3 <= l /\ l - 3 + 1 = l - 2
          BY <1>1, <3>2
        <4>2. QED  BY <1>1, <4>1
      <3> HIDE DEF l
      <3>3. l = 2 \/ l > 2
        BY <1>1
      <3>4. QED  BY <3>1, <3>2, <3>3, Zenon
    <2>4. QED  BY <2>1, <2>2, <2>3
  <1>3. \A k \in 1 .. l - 2 : t[k] = s[k + 2]
    BY <1>1
  <1> HIDE DEF t, l
  <1>4. \A k \in 1 .. l - 2 : k + 2 \in 1 .. l /\ k + 2 # 1 /\ k + 2 # 2
    BY <1>1
  <1>5. 1 \in 1 .. l /\ 2 \in 1 .. l /\ 1 # 2
    BY <1>1
  <1>6. s[1] \in Elements(s) /\ s[2] \in Elements(s) /\ s[1] # s[2]
    BY <1>5 DEF Elements, Distinct, l
  <1>7. \A i, j \in 1 .. l - 2 : i # j => i + 2 # j + 2
    BY <1>1
  <1>8. Distinct(t)
    <2>1. ASSUME NEW i \in 1 .. l - 2, NEW j \in 1 .. l - 2, i # j
          PROVE  t[i] # t[j]
      <3>1. i + 2 \in 1 .. l /\ j + 2 \in 1 .. l /\ i + 2 # j + 2
        BY <1>4, <1>7, <2>1
      <3>2. s[i + 2] # s[j + 2]
        BY <3>1 DEF Distinct, l
      <3>3. QED  BY <1>3, <3>2
    <2>2. QED  BY <1>2, <2>1 DEF Distinct
  <1>9. Elements(t) = (Elements(s) \ {s[1]}) \ {s[2]}
    <2>1. ASSUME NEW k \in 1 .. l - 2
          PROVE  t[k] \in (Elements(s) \ {s[1]}) \ {s[2]}
      <3>1. k + 2 \in 1 .. l /\ k + 2 # 1 /\ k + 2 # 2
        BY <1>4
      <3>2. s[k + 2] \in Elements(s) /\ s[k + 2] # s[1] /\ s[k + 2] # s[2]
        BY <1>5, <3>1 DEF Elements, Distinct, l
      <3>3. QED  BY <1>3, <3>2
    <2>2. ASSUME NEW k \in 1 .. l, s[k] # s[1], s[k] # s[2]
          PROVE  s[k] \in Elements(t)
      <3>1. k # 1 /\ k # 2
        BY <2>2
      <3>2. k - 2 \in 1 .. l - 2 /\ (k - 2) + 2 = k
        BY <1>1, <3>1
      <3>3. t[k - 2] = s[k] /\ k - 2 \in 1 .. Len(t)
        BY <1>2, <1>3, <3>2
      <3>4. QED  BY <3>3 DEF Elements
    <2>3. Elements(t) \subseteq (Elements(s) \ {s[1]}) \ {s[2]}
      BY <1>2, <2>1 DEF Elements
    <2>4. (Elements(s) \ {s[1]}) \ {s[2]} \subseteq Elements(t)
      <3>1. ASSUME NEW x \in (Elements(s) \ {s[1]}) \ {s[2]}
            PROVE  x \in Elements(t)
        <4>1. PICK k \in 1 .. l : x = s[k]
          BY DEF Elements, l
        <4>2. QED  BY <2>2, <4>1
      <3>2. QED  BY <3>1
    <2>5. QED  BY <2>3, <2>4
  <1>10. WithoutTwo(s, t)
    BY <1>2, <1>3, <1>4, <1>6, <1>8, <1>9 DEF WithoutTwo, l
  <1>11. QED  BY <1>10 DEF t, l

LEMMA StepSendAnswer ==
  ASSUME Inner, SendAnswer
  PROVE  Inv'
  <1> DEFINE n == Len(switched)
             a == Len(answers)
             l == Len(tcp_send_event)
             tag == tcp_send_event[1]
             body == tcp_send_event[2]
             e == [to |-> buffer[tag].text, text |-> buffer[body].text,
                   of |-> <<buffer[tag].of, buffer[body].of>>]
             E == [to : Texts, text : Texts, of : Nat \X Nat]
  <1>0. /\ l >= 2 /\ answers' = Append(answers, e)
        /\ memmap' = Freed(Freed(memmap, tag), body)
        /\ tcp_send_event' = SubSeq(tcp_send_event, 3, l)
        /\ UNCHANGED <<buffer, led_event, pc, waiting, got, auth_msg, msg, id_msg, taken, received,
                       commands, switched, fresh, robbed, lost>>
    BY DEF SendAnswer, pend, pointers, input, owned
  <1>1. /\ tcp_send_event \in Seq(Block) /\ answers \in Seq(E)
        /\ buffer \in [Block -> [text : Texts, of : Nat]]
        /\ Distinct(tcp_send_event) /\ Distinct(Coming)
        /\ Mem(memmap, Held, 8 * received + lost)
        /\ InQueue \cap Mine = {} /\ InQueue \cap Sent = {} /\ Mine \cap Sent = {}
        /\ \A f, g \in fresh : f # g => Ptr[f] # Ptr[g]
    BY DEF Inner, TypeInv, OwnInv
  <1>2. /\ tcp_send_event' \in Seq(Block) /\ Len(tcp_send_event') = l - 2
        /\ Distinct(tcp_send_event')
        /\ \A k \in 1 .. l - 2 :
              tcp_send_event'[k] = tcp_send_event[k + 2] /\ k + 2 \in 1 .. l
        /\ Sent' = (Sent \ {tag}) \ {body} /\ tag \in Sent /\ body \in Sent /\ tag # body
    <2>1. WithoutTwo(tcp_send_event, tcp_send_event')
      BY <1>0, <1>1, Shorter
    <2>2. QED  BY <1>1, <2>1 DEF WithoutTwo, Sent
  <1>3. n \in Nat /\ a \in Nat /\ a <= n /\ l \in Nat /\ l = 2 * (n - a) - Open /\ Open \in 0 .. 2
    BY Lengths
  <1>4. e \in E
    <2>1. tag \in Block /\ body \in Block
      BY <1>0, <1>1, <1>3, ElementIn
    <2>2. buffer[tag] \in [text : Texts, of : Nat] /\ buffer[body] \in [text : Texts, of : Nat]
      BY <1>1, <2>1
    <2>3. QED  BY <2>2
  <1>5. /\ answers' \in Seq(E) /\ Len(answers') = a + 1 /\ answers'[a + 1] = e
        /\ \A i \in 1 .. a : answers'[i] = answers[i]
    <2> HIDE DEF e, E
    <2>1. QED  BY <1>0, <1>1, <1>4
  <1>6. a + 1 \in 1 .. n /\ 2 * ((a + 1) - a) - 1 = 1 /\ 2 * ((a + 1) - a) = 2
        /\ 1 \in 1 .. l /\ 2 \in 1 .. l
    BY <1>0, <1>3
  <1>7. /\ \A i \in 1 .. a : i \in 1 .. n /\ answers[i] = Answers(switched[i].of[1])
        /\ \A i \in 1 .. n :
             /\ 2 * (i - a) - 1 \in 1 .. l =>
                   buffer[tcp_send_event[2 * (i - a) - 1]] = Tag(switched[i].of[1])
             /\ 2 * (i - a) \in 1 .. l =>
                   buffer[tcp_send_event[2 * (i - a)]] = Body(switched[i].of[1])
    BY DEF Inner, SendInv
  <1>8. e = Answers(switched[a + 1].of[1])
    <2> DEFINE x == switched[a + 1].of[1]
               i == a + 1
    <2>0. i \in 1 .. n /\ 2 * (i - a) - 1 = 1 /\ 2 * (i - a) = 2
      BY <1>6
    <2>1. buffer[tcp_send_event[1]] = Tag(x) /\ buffer[tcp_send_event[2]] = Body(x)
      <3> HIDE DEF i
      <3>1. /\ buffer[tcp_send_event[1]] = Tag(switched[i].of[1])
            /\ buffer[tcp_send_event[2]] = Body(switched[i].of[1])
        BY <1>6, <1>7, <2>0
      <3>2. QED  BY <3>1 DEF i
    <2>2. QED  BY <2>1 DEF Answers, Tag, Body
  <1>9. /\ Coming' = Coming /\ InQueue' = InQueue /\ Mine' = Mine /\ Ptr' = Ptr
        /\ Held' = (Held \ {tag}) \ {body}
    <2>1. Coming' = Coming /\ InQueue' = InQueue /\ Mine' = Mine /\ Ptr' = Ptr
      BY <1>0 DEF Coming, InQueue, Mine, Ptr
    <2>2. QED  BY <1>1, <1>2, <2>1 DEF Held
  <1>10. OwnInv'
    <2> DEFINE held == Held
               k == 8 * received + lost
               t == tag
               b == body
    <2>1. Mem(memmap, held, k) /\ t \in held /\ b \in held \ {t}
      BY <1>1, <1>2 DEF Held
    <2> HIDE DEF held, k, t, b
    <2>2. Mem(Freed(memmap, t), held \ {t}, k)
      BY <2>1, MemFree
    <2> DEFINE table == Freed(memmap, t)
               less == held \ {t}
    <2>3. Mem(table, less, k) /\ b \in less
      BY <2>1, <2>2
    <2> HIDE DEF table, less
    <2>4. Mem(Freed(table, b), less \ {b}, k)
      BY <2>3, MemFree
    <2>5. Mem(memmap', Held', 8 * received' + lost')
      BY <1>0, <1>9, <2>4 DEF table, less, held, k, t, b
    <2>6. QED  BY <1>0, <1>1, <1>2, <1>9, <2>5 DEF OwnInv
  <1> HIDE DEF n, a, l, e, tag, body
  <1>11. TypeInv'
    <2>1. TypeInv
      BY DEF Inner
    <2>2. QED  BY <1>0, <1>2, <1>5, <2>1 DEF TypeInv, E
  <1>12. QueueInv' /\ TakenInv' /\ SwitchInv'
    BY <1>0, <1>9 DEF Inner, QueueInv, TakenInv, SwitchInv
  <1>13. ASSUME NEW i \in 1 .. n
         PROVE  /\ 2 * (i - (a + 1)) - 1 \in 1 .. l - 2 =>
                     buffer[tcp_send_event'[2 * (i - (a + 1)) - 1]] = Tag(switched[i].of[1])
                /\ 2 * (i - (a + 1)) \in 1 .. l - 2 =>
                     buffer[tcp_send_event'[2 * (i - (a + 1))]] = Body(switched[i].of[1])
    <2> DEFINE j == 2 * (i - (a + 1)) - 1
               k == 2 * (i - (a + 1))
    <2>1. j + 2 = 2 * (i - a) - 1 /\ k + 2 = 2 * (i - a)
      BY <1>3
    <2>2. /\ j + 2 \in 1 .. l => buffer[tcp_send_event[j + 2]] = Tag(switched[i].of[1])
          /\ k + 2 \in 1 .. l => buffer[tcp_send_event[k + 2]] = Body(switched[i].of[1])
      BY <1>7, <2>1
    <2> HIDE DEF j, k
    <2>3. /\ j \in 1 .. l - 2 => buffer[tcp_send_event'[j]] = Tag(switched[i].of[1])
          /\ k \in 1 .. l - 2 => buffer[tcp_send_event'[k]] = Body(switched[i].of[1])
      BY <1>2, <2>2
    <2>4. QED  BY <2>3 DEF j, k
  <1>14. \A i \in 1 .. a + 1 : i \in 1 .. n /\ answers'[i] = Answers(switched[i].of[1])
    <2> SUFFICES ASSUME NEW i \in 1 .. a + 1
                 PROVE  i \in 1 .. n /\ answers'[i] = Answers(switched[i].of[1])
      OBVIOUS
    <2>1. CASE i \in 1 .. a
      BY <1>5, <1>7, <2>1
    <2>2. CASE i = a + 1
      BY <1>5, <1>6, <1>8, <2>2
    <2>3. QED  BY <1>3, <2>1, <2>2
  <1>15. l - 2 = 2 * (n - (a + 1)) - Open
    BY <1>3
  <1>16. SendInv'
    <2>1. Open' = Open /\ \A z : Tag(z)' = Tag(z) /\ Body(z)' = Body(z) /\ Answers(z)' = Answers(z)
      BY <1>0 DEF Open, Tag, Body, Answers
    <2>2. Len(switched') = n /\ Len(answers') = a + 1 /\ Len(tcp_send_event') = l - 2
      BY <1>0, <1>2, <1>5 DEF n
    <2>3. pc \in {"tag", "body"} =>
            /\ n # 0 /\ taken.of[1] = switched[n].of[1]
            /\ taken.peer = commands[CommandOf(taken.of[1])].peer
      BY DEF Inner, SendInv, n
    <2>4. QED  BY <1>0, <1>13, <1>14, <1>15, <2>1, <2>2, <2>3 DEF SendInv
  <1>17. QED  BY <1>10, <1>11, <1>12, <1>16 DEF Inner, Inv

(* A received message.                                                     *)

(* The posts of a message follow each other.                               *)
Posts(peer, parts, n) ==
    CHOOSE g : g = [x \in 0 .. n |->
                      IF x = 0 THEN Posting(peer) ELSE PostPart(g[x - 1], parts[x])]

LEMMA PostsFollow ==
  ASSUME NEW peer, NEW parts, NEW n \in Nat, NEW posted, posted = Posts(peer, parts, n)
  PROVE  /\ posted[0] = Posting(peer)
         /\ \A x \in 0 .. n - 1 : posted[x + 1] = PostPart(posted[x], parts[x + 1])
  <1> DEFINE F(g, k) == [x \in 0 .. k |->
                           IF x = 0 THEN Posting(peer) ELSE PostPart(g[x - 1], parts[x])]
             E == {k \in 0 .. n : \E g : g = F(g, k)}
  <1>1. 0 \in E
    <2> DEFINE h == [x \in 0 .. 0 |-> Posting(peer)]
    <2>1. h = F(h, 0)
      OBVIOUS
    <2>2. 0 \in 0 .. n
      OBVIOUS
    <2> HIDE DEF h, F
    <2>3. QED  BY <2>1, <2>2
  <1>2. ASSUME NEW k \in 0 .. n - 1, k \in E
        PROVE  k + 1 \in E
    <2>1. PICK g : g = F(g, k)
      BY <1>2
    <2> DEFINE h == [x \in 0 .. k + 1 |-> IF x <= k THEN g[x] ELSE PostPart(g[k], parts[k + 1])]
    <2>2. k \in Nat /\ k + 1 \in 0 .. n
      OBVIOUS
    <2>3. ASSUME NEW x \in 0 .. k + 1
          PROVE  h[x] = F(h, k + 1)[x]
      <3> USE <2>2
      <3>1. CASE x = 0
        <4>1. 0 \in 0 .. k /\ 0 <= k /\ 0 \in 0 .. k + 1
          OBVIOUS
        <4>2. g[0] = Posting(peer)
          BY <2>1, <4>1
        <4>3. QED  BY <3>1, <4>1, <4>2
      <3>2. CASE x # 0 /\ x <= k
        <4>1. x \in 0 .. k /\ x - 1 \in 0 .. k + 1 /\ x - 1 <= k
          BY <3>2
        <4>2. h[x - 1] = g[x - 1] /\ h[x] = g[x]
          BY <3>2, <4>1
        <4>3. g[x] = PostPart(g[x - 1], parts[x])
          BY <2>1, <3>2, <4>1
        <4>4. F(h, k + 1)[x] = PostPart(h[x - 1], parts[x])
          BY <3>2
        <4>5. QED  BY <4>2, <4>3, <4>4
      <3>3. CASE x = k + 1
        <4>1. /\ k \in 0 .. k + 1 /\ k <= k /\ x - 1 = k /\ ~(k + 1 <= k) /\ x # 0
          BY <3>3
        <4>2. h[k] = g[k] /\ h[x] = PostPart(g[k], parts[k + 1])
          BY <3>3, <4>1
        <4>3. F(h, k + 1)[x] = PostPart(h[x - 1], parts[x])
          BY <4>1
        <4>4. QED  BY <3>3, <4>1, <4>2, <4>3
      <3>4. QED  BY <3>1, <3>2, <3>3
    <2>4. h = F(h, k + 1)
      <3> DEFINE f == F(h, k + 1)
      <3>1. /\ h = [x \in 0 .. k + 1 |-> h[x]] /\ f = [x \in 0 .. k + 1 |-> f[x]]
            /\ \A x \in 0 .. k + 1 : h[x] = f[x]
        BY <2>3
      <3> HIDE DEF h, f
      <3>2. h = f
        BY <3>1
      <3>3. QED  BY <3>2 DEF f
    <2> HIDE DEF h, F
    <2>5. QED  BY <2>2, <2>4
  <1>3. \A k \in 0 .. n - 1 : k \in E => k + 1 \in E
    BY <1>2
  <1> HIDE DEF E
  <1>4. n \in E
    <2>1. 0 .. n \subseteq E
      BY <1>1, <1>3, UptoInduction
    <2>2. QED  BY <2>1
  <1>5. posted = F(posted, n)
    <2>1. PICK g : g = F(g, n)
      BY <1>4 DEF E
    <2>2. posted = CHOOSE f : f = F(f, n)
      BY DEF Posts
    <2> HIDE DEF F
    <2>3. QED  BY <2>1, <2>2
  <1>6. posted[0] = Posting(peer)
    <2>1. 0 \in 0 .. n
      OBVIOUS
    <2>2. QED  BY <1>5, <2>1
  <1>7. ASSUME NEW x \in 0 .. n - 1
        PROVE  posted[x + 1] = PostPart(posted[x], parts[x + 1])
    <2>1. x + 1 \in 0 .. n /\ x + 1 # 0 /\ (x + 1) - 1 = x
      OBVIOUS
    <2>2. QED  BY <1>5, <2>1
  <1>8. QED  BY <1>6, <1>7

(* The state s when j parts of a message have been posted.  The blocks of  *)
(* rest are held by led_task and tcp_send_task.                            *)
On(s) == Upcoming(s.got, s.q)

Memory(s, rest) ==
    /\ s.lost \in Nat
    /\ Mem(s.memmap, Elements(On(s)) \cup rest, 8 * (received + 1) + s.lost)
    /\ Elements(On(s)) \cap rest = {} /\ Distinct(On(s))
    /\ s.buffer \in [Block -> [text : Texts, of : Nat]]
    /\ \A b \in rest : s.buffer[b] = buffer[b]

\* Once a part is refused the queue is full, and stays so.
Queued(s, j) ==
    /\ s.q \in Seq(Block) /\ s.got \in Block \cup {NULL} /\ s.took \in 0 .. j
    /\ s.took # j => Len(s.q) >= MSGSIZE /\ ~(waiting /\ s.got = NULL)
    /\ waiting /\ s.got = NULL => s.q = <<>>
    /\ s.got = got \/ waiting

\* The parts taken are the first of the message, and the last of all.
Numbered(s, cmds, n, below, behind) ==
    /\ Row(cmds, s.buffer, On(s))
    /\ \A i \in 1 .. Len(On(s)) : s.buffer[On(s)[i]].of <= 3 * n + s.took
    /\ s.took # 0 => /\ On(s) # <<>>
                     /\ s.buffer[On(s)[Len(On(s))]].of = 3 * n + s.took
    /\ \A x \in below : Above(x, s.buffer, On(s))
    /\ \A x \in behind : After(x, s.buffer, On(s))

\* What is left of a run of free blocks.
Roomy(s, p, r) == \A k \in p .. p + r - 1 : s.memmap[k] = 0
Weighs(j) == j + (j \div 3)

GoodPart(cmds, part) ==
    /\ part.text \in Texts \cup {"other"} /\ part.of \in 1 .. 3 * Len(cmds)
    /\ part.text = "other" => Turn(part.of) = 1
    /\ Turn(part.of) = 0 => part.text = cmds[CommandOf(part.of)].peer
    /\ Turn(part.of) = 1 => part.text = cmds[CommandOf(part.of)].switch
    /\ Turn(part.of) = 2 => part.text = cmds[CommandOf(part.of)].id

LEMMA WeighsNext ==
  ASSUME NEW j \in Nat
  PROVE  /\ Weighs(j) \in Nat /\ Weighs(j + 1) = Weighs(j) + (IF Turn(j + 1) = 2 THEN 2 ELSE 1)
         /\ Weighs(0) = 0 /\ Weighs(3 * j) = 4 * j
  BY DEF Weighs, Turn

LEMMA WrittenIs ==
  ASSUME NEW cmds, NEW part, GoodPart(cmds, part), NEW old \in [text : Texts, of : Nat],
         cmds \in Seq(Asking), NEW v, v = Written(old, part)
  PROVE  v \in [text : Texts, of : Nat] /\ v.of = part.of /\ Good(cmds, v)
  <1>1. v = [text |-> IF part.text = "other" THEN old.text ELSE part.text, of |-> part.of]
    BY DEF Written
  <1>2. part.text \in Texts \cup {"other"} /\ part.of \in 1 .. 3 * Len(cmds) /\ part.of \in Nat
        /\ old.text \in Texts
    BY DEF GoodPart
  <1>3. v.of = part.of /\ v \in [text : Texts, of : Nat]
        /\ v.text = (IF part.text = "other" THEN old.text ELSE part.text)
    BY <1>1, <1>2
  <1>4. /\ Turn(v.of) = 0 => v.text = cmds[CommandOf(v.of)].peer
        /\ Turn(v.of) = 1 => cmds[CommandOf(v.of)].switch \in {v.text, "other"}
        /\ Turn(v.of) = 2 => v.text = cmds[CommandOf(v.of)].id
    <2>1. CASE part.text = "other"
      <3>1. Turn(v.of) = 1 /\ cmds[CommandOf(v.of)].switch = "other"
        BY <1>3, <2>1 DEF GoodPart
      <3>2. QED  BY <3>1
    <2>2. CASE part.text # "other"
      BY <1>3, <2>2 DEF GoodPart
    <2>3. QED  BY <2>1, <2>2
  <1>5. QED  BY <1>2, <1>3, <1>4 DEF Good

(* One part: where it goes.                                                *)
Where(s, j, part, b, t) ==
    /\ Queued(t, j + 1) /\ s.took \in Nat /\ On(s) \in Seq(Block)
    /\ t.memmap = Marked(s.memmap, b, part.blocks)
    /\ t.buffer = [s.buffer EXCEPT ![b] = Written(@, part)]
    /\ \/ On(t) = On(s) /\ t.took = s.took /\ t.lost = s.lost + part.blocks
       \/ /\ On(t) = Append(On(s), b) /\ s.took = j /\ t.took = j + 1 /\ t.lost = s.lost

LEMMA PostedWhere ==
  ASSUME NEW s, NEW j \in Nat, Queued(s, j), waiting \in BOOLEAN, NEW part,
         NEW b \in Block, b = Room(s.memmap, part.blocks), NEW t, t = PostPart(s, part)
  PROVE  Where(s, j, part, b, t)
  <1> DEFINE hand == waiting /\ s.got = NULL
             full == ~hand /\ Len(s.q) >= MSGSIZE
             q == s.q
             g == s.got
  <1>1. /\ q \in Seq(Block) /\ g \in Block \cup {NULL} /\ s.took \in 0 .. j
        /\ s.took # j => full
        /\ hand => q = <<>> /\ g = NULL
        /\ g = got \/ waiting
    BY DEF Queued
  <1>2. /\ t.memmap = Marked(s.memmap, b, part.blocks)
        /\ t.buffer = [s.buffer EXCEPT ![b] = Written(@, part)]
        /\ t.q = (IF hand \/ full THEN q ELSE Append(q, b))
        /\ t.got = (IF hand THEN b ELSE g)
        /\ t.took = (IF full THEN s.took ELSE s.took + 1)
        /\ t.lost = (IF full THEN s.lost + part.blocks ELSE s.lost)
    BY DEF PostPart
  <1>3. b # NULL /\ MSGSIZE \in Nat
    BY BlocksNat
  <1>4. On(s) = Upcoming(g, q) /\ On(t) = Upcoming(t.got, t.q)
    BY DEF On
  <1>5. On(s) \in Seq(Block)
    <2> HIDE DEF g, q
    <2>1. QED  BY <1>1, <1>4, UpcomingIs
  <1>6. hand => waiting
    OBVIOUS
  <1>7. full => Len(q) >= MSGSIZE /\ ~(waiting /\ g = NULL)
    OBVIOUS
  <1>8. waiting /\ g = NULL => hand
    OBVIOUS
  <1> HIDE DEF hand, full, q, g
  <1>9. CASE full
    <2>1. t.q = q /\ t.got = g /\ t.took = s.took /\ t.lost = s.lost + part.blocks
      BY <1>2, <1>7, <1>8, <1>9 DEF hand, full
    <2>2. On(t) = On(s)
      BY <1>4, <2>1
    <2>3. Queued(t, j + 1)
      <3>1. t.took \in 0 .. j + 1 /\ t.took # j + 1
        BY <1>1, <2>1
      <3>2. QED  BY <1>1, <1>7, <1>8, <1>9, <2>1, <3>1 DEF Queued
    <2>4. QED  BY <1>1, <1>2, <1>5, <2>1, <2>2, <2>3 DEF Where
  <1>10. CASE hand
    <2>1. ~full
      BY <1>10 DEF full
    <2>2. t.q = <<>> /\ t.got = b /\ s.took = j /\ t.took = j + 1 /\ t.lost = s.lost
      BY <1>1, <1>2, <1>10, <2>1
    <2>3. On(t) = Append(On(s), b)
      <3>1. Upcoming(b, <<>>) = <<b>> \o <<>> /\ Upcoming(NULL, <<>>) = <<>> \o <<>>
        BY <1>3 DEF Upcoming
      <3>2. <<b>> \o <<>> = <<b>> /\ <<>> \o <<>> = <<>> /\ Append(<<>>, b) = <<b>>
        OBVIOUS
      <3>3. QED  BY <1>1, <1>4, <1>10, <2>2, <3>1, <3>2
    <2>4. Queued(t, j + 1)
      <3>1. t.took \in 0 .. j + 1 /\ t.took = j + 1 /\ <<>> \in Seq(Block)
        BY <2>2
      <3>2. QED  BY <1>3, <1>6, <1>10, <2>2, <3>1 DEF Queued
    <2>5. QED  BY <1>1, <1>2, <1>5, <2>2, <2>3, <2>4 DEF Where
  <1>11. CASE ~hand /\ ~full
    <2>1. t.q = Append(q, b) /\ t.got = g /\ s.took = j /\ t.took = j + 1 /\ t.lost = s.lost
      BY <1>1, <1>2, <1>11
    <2>2. On(t) = Append(On(s), b) /\ t.q \in Seq(Block)
      <3>1. Upcoming(g, Append(q, b)) = Append(Upcoming(g, q), b)
        BY <1>1, UpcomingAppend, Zenon
      <3>2. Append(q, b) \in Seq(Block)
        BY <1>1
      <3>3. QED  BY <1>4, <2>1, <3>1, <3>2
    <2>3. Queued(t, j + 1)
      <3>1. t.took \in 0 .. j + 1 /\ t.took = j + 1
        BY <2>1
      <3>2. ~(waiting /\ t.got = NULL)
        BY <1>8, <1>11, <2>1
      <3>3. QED  BY <1>1, <2>1, <2>2, <3>1, <3>2 DEF Queued
    <2>4. QED  BY <1>1, <1>2, <1>5, <2>1, <2>2, <2>3 DEF Where
  <1>12. QED  BY <1>9, <1>10, <1>11

(* One part: the memory.                                                   *)
RefusedOrNot(s, t, b, n) ==
    \/ On(t) = On(s) /\ t.lost = s.lost + n
    \/ On(t) = Append(On(s), b) /\ t.lost = s.lost

Put(buf, b, v) == [buf EXCEPT ![b] = v]

LEMMA PostedMemory ==
  ASSUME NEW s, NEW rest, Memory(s, rest), received \in Nat, NEW n \in Nat \ {0},
         Rooms(s.memmap, n) # {}, On(s) \in Seq(Block),
         NEW t, NEW b, b = Room(s.memmap, n), t.memmap = Marked(s.memmap, b, n),
         NEW v \in [text : Texts, of : Nat], t.buffer = Put(s.buffer, b, v),
         RefusedOrNot(s, t, b, n)
  PROVE  /\ Memory(t, rest) /\ b \in Block /\ b \notin Elements(On(s))
         /\ Alike(s.buffer, t.buffer, On(s)) /\ t.buffer[b] = v
  <1> DEFINE on == On(s)
             held == Elements(on) \cup rest
             k == 8 * (received + 1) + s.lost
             table == s.memmap
             new == t.memmap
             E == [text : Texts, of : Nat]
             buf == s.buffer
             buf2 == t.buffer
  <1>1. /\ s.lost \in Nat /\ Mem(table, held, k) /\ Elements(on) \cap rest = {} /\ Distinct(on)
        /\ buf \in [Block -> E] /\ \A c \in rest : buf[c] = buffer[c]
        /\ on \in Seq(Block)
    BY DEF Memory
  <1>2. k \in Nat
    BY <1>1
  <1>3. /\ Rooms(table, n) # {} /\ b = Room(table, n) /\ new = Marked(table, b, n)
        /\ buf2 = [buf EXCEPT ![b] = v] /\ v \in E
    BY DEF Put
  <1> HIDE DEF table, new, held, k, E, buf, buf2
  <1>4. b \in Block /\ b \notin held /\ new[b] = n /\ Mem(new, held \cup {b}, k)
    <2>1. /\ Mem(table, held, k) /\ n \in Nat \ {0} /\ Rooms(table, n) # {}
          /\ b = Room(table, n) /\ new = Marked(table, b, n)
      BY <1>1, <1>3
    <2>2. QED  BY ONLY <2>1, MemAlloc
  <1>5. b \notin Elements(on) /\ b \notin rest
    BY <1>4 DEF held
  <1>6. /\ buf2 \in [Block -> E] /\ buf2[b] = v /\ \A c \in Block : c # b => buf2[c] = buf[c]
    BY <1>1, <1>3, <1>4
  <1>7. Alike(buf, buf2, on)
    <2>1. \A i \in 1 .. Len(on) : on[i] \in Block /\ on[i] # b
      BY <1>1, <1>5, ElementIn DEF Elements
    <2>2. QED  BY <1>6, <2>1 DEF Alike
  <1>8. \A c \in rest : buf2[c] = buffer[c]
    <2>1. \A c \in rest : c \in Block
      BY <1>1 DEF Mem, Sound, held
    <2>2. QED  BY <1>1, <1>5, <1>6, <2>1
  <1>9. Memory(t, rest)
    <2>0. \/ On(t) = on /\ t.lost = s.lost + n
          \/ On(t) = Append(on, b) /\ t.lost = s.lost
      BY DEF RefusedOrNot
    <2>1. CASE On(t) = on /\ t.lost = s.lost + n
      <3> DEFINE more == held \cup {b}
      <3>1. Mem(new, more, k) /\ b \in more /\ more \ {b} = held
        BY <1>4
      <3> HIDE DEF more
      <3>2. Mem(new, more \ {b}, k + new[b])
        BY <1>2, <3>1, MemDrop
      <3>3. Mem(new, held, k + n)
        BY <1>4, <3>1, <3>2
      <3>4. k + n = 8 * (received + 1) + t.lost /\ t.lost \in Nat
        BY <1>1, <2>1 DEF k
      <3>5. QED
        BY <1>1, <1>6, <1>8, <2>1, <3>3, <3>4 DEF Memory, held, new, buf2, E
    <2>2. CASE On(t) = Append(on, b) /\ t.lost = s.lost
      <3> DEFINE on2 == On(t)
      <3>1. Elements(on2) = Elements(on) \cup {b} /\ Distinct(on2)
        <4>1. on2 = Append(on, b)
          BY <2>2
        <4> HIDE DEF on, on2
        <4>2. QED  BY <1>1, <1>4, <1>5, <4>1, Appended
      <3>2. Elements(on2) \cup rest = held \cup {b} /\ Elements(on2) \cap rest = {}
        BY <1>1, <1>5, <3>1 DEF held
      <3>3. k = 8 * (received + 1) + t.lost /\ t.lost \in Nat
        BY <1>1, <2>2 DEF k
      <3>4. QED
        BY <1>4, <1>6, <1>8, <3>1, <3>2, <3>3 DEF Memory, new, buf2, E
    <2>3. QED  BY <2>0, <2>1, <2>2
  <1>10. QED  BY <1>4, <1>5, <1>6, <1>7, <1>9 DEF buf, buf2

(* One part: the row.                                                      *)
LEMMA PostedNumbered ==
  ASSUME NEW s, NEW cmds, NEW n \in Nat, NEW below, NEW behind,
         Numbered(s, cmds, n, below, behind), \A x \in below : x \in Nat /\ x <= 3 * n,
         s.took \in Nat, On(s) \in Seq(Block), NEW t, NEW b \in Block,
         s.buffer \in [Block -> [text : Texts, of : Nat]],
         Alike(s.buffer, t.buffer, On(s)), Good(cmds, t.buffer[b]),
         \/ On(t) = On(s) /\ t.took = s.took
         \/ /\ On(t) = Append(On(s), b) /\ t.took = s.took + 1
            /\ t.buffer[b].of = 3 * n + s.took + 1
  PROVE  Numbered(t, cmds, n, below, behind)
  <1> DEFINE on == On(s)
             buf == s.buffer
             buf2 == t.buffer
             m == 3 * n + s.took
             l == Len(on)
  <1>1. /\ Row(cmds, buf, on)
        /\ \A i \in 1 .. l : buf[on[i]].of <= m
        /\ s.took # 0 => on # <<>> /\ buf[on[l]].of = m
        /\ \A x \in below : Above(x, buf, on)
        /\ \A x \in behind : After(x, buf, on)
    BY DEF Numbered
  <1>2. /\ on \in Seq(Block) /\ Alike(buf, buf2, on) /\ Good(cmds, buf2[b])
        /\ m \in Nat /\ l \in Nat
    OBVIOUS
  <1>3. \A i \in 1 .. l : buf2[on[i]] = buf[on[i]] /\ buf[on[i]].of \in Nat
    <2>1. \A i \in 1 .. l : on[i] \in Block
      BY <1>2, ElementIn
    <2>2. QED  BY <1>2, <2>1 DEF Alike
  <1>4. CASE On(t) = on /\ t.took = s.took
    <2>1. /\ Row(cmds, buf2, on)
          /\ \A x : Above(x, buf, on) => Above(x, buf2, on)
          /\ \A x : After(x, buf, on) => After(x, buf2, on)
      <3> HIDE DEF on, buf, buf2
      <3>1. QED  BY <1>1, <1>2, RowFrame, SameCommands
    <2>2. \A i \in 1 .. l : buf2[on[i]].of <= m
      BY <1>1, <1>3
    <2>3. s.took # 0 => on # <<>> /\ buf2[on[l]].of = m
      <3>1. on # <<>> => l \in 1 .. l
        BY <1>2
      <3>2. QED  BY <1>1, <1>3, <3>1
    <2>4. QED  BY <1>1, <1>4, <2>1, <2>2, <2>3 DEF Numbered
  <1>5. CASE /\ On(t) = Append(on, b) /\ t.took = s.took + 1 /\ buf2[b].of = m + 1
    <2> DEFINE on2 == On(t)
               y == buf2[b].of
    <2>1. on2 = Append(on, b) /\ y = m + 1
      BY <1>5
    <2>2. /\ Len(on2) = l + 1 /\ on2[l + 1] = b /\ \A i \in 1 .. l : on2[i] = on[i]
      <3> HIDE DEF on, on2
      <3>1. QED  BY <1>2, <2>1 DEF l
    <2>3. \A i \in 1 .. l : buf[on[i]].of < y
      <3> SUFFICES ASSUME NEW i \in 1 .. l PROVE buf[on[i]].of < y
        OBVIOUS
      <3> DEFINE z == buf[on[i]].of
      <3>1. z \in Nat /\ z <= m
        BY <1>1, <1>3
      <3> HIDE DEF z, m, y
      <3>2. z < y
        BY <1>2, <2>1, <3>1
      <3>3. QED  BY <3>2 DEF z
    <2>4. s.took = 0 => Turn(y) = 0
      <3>1. s.took = 0 => y = 3 * n + 1
        BY <1>2, <2>1
      <3>2. Turn(3 * n + 1) = 0
        BY DEF Turn
      <3>3. QED  BY <3>1, <3>2
    <2>5. on # <<>> => Behind(buf[on[l]].of, y)
      <3>1. CASE s.took = 0
        BY <2>4, <3>1 DEF Behind
      <3>2. CASE s.took # 0
        BY <1>1, <2>1, <3>2 DEF Behind
      <3>3. QED  BY <3>1, <3>2
    <2>6. on = <<>> => Turn(y) = 0
      BY <1>1, <2>4
    <2>7. \A x \in below : x < y
      <3> HIDE DEF y
      <3>1. \A x \in below : x \in Nat /\ x <= 3 * n /\ 3 * n <= m
        OBVIOUS
      <3> HIDE DEF m
      <3>2. QED  BY <1>2, <2>1, <3>1
    <2>8. /\ Row(cmds, buf2, on2)
          /\ \A x : Above(x, buf, on) /\ x < y => Above(x, buf2, on2)
          /\ \A x : After(x, buf, on) /\ (on = <<>> => Behind(x, y)) => After(x, buf2, on2)
      <3> HIDE DEF on, on2, buf, buf2, m
      <3>1. QED  BY <1>1, <1>2, <2>1, <2>3, <2>5, RowAppend DEF l, y
    <2>9. \A i \in 1 .. Len(on2) : buf2[on2[i]].of <= m + 1
      <3> SUFFICES ASSUME NEW i \in 1 .. l + 1 PROVE buf2[on2[i]].of <= m + 1
        BY <2>2
      <3>1. CASE i \in 1 .. l
        <4>1. buf2[on2[i]].of = buf[on[i]].of /\ buf[on[i]].of < y
          BY <1>3, <2>2, <2>3, <3>1
        <4> DEFINE z == buf[on[i]].of
        <4>2. z \in Nat /\ buf2[on2[i]].of = z /\ z < y
          BY <1>3, <3>1, <4>1
        <4> HIDE DEF z, y, m, on2, buf2
        <4>3. QED  BY <1>2, <2>1, <4>2
      <3>2. CASE i = l + 1
        BY <1>2, <2>1, <2>2, <3>2
      <3>3. QED  BY <1>2, <3>1, <3>2
    <2>10. on2 # <<>> /\ buf2[on2[Len(on2)]].of = m + 1
      <3>1. Len(on2) = l + 1 /\ l + 1 # 0 /\ on2[l + 1] = b /\ buf2[b].of = m + 1
        BY <1>2, <2>1, <2>2
      <3> HIDE DEF on2, buf2, m, l
      <3>2. on2 # <<>>
        BY <3>1
      <3>3. QED  BY <3>1, <3>2
    <2>11. \A x \in below : Above(x, buf2, on2)
      BY <1>1, <2>7, <2>8
    <2>12. \A x \in behind : After(x, buf2, on2)
      BY <1>1, <2>6, <2>8 DEF Behind
    <2>13. 3 * n + t.took = m + 1
      BY <1>2, <1>5
    <2> HIDE DEF m
    <2>14. QED  BY <2>8, <2>9, <2>10, <2>11, <2>12, <2>13 DEF Numbered
  <1>6. QED  BY <1>4, <1>5

(* The two buffers of a message that are never freed.                      *)
LEMMA PostingStarts ==
  ASSUME Inner, NEW peer \in Peer, NEW left \in Nat, Rooms(memmap, 8 + left) # {},
         NEW s, s = Posting(peer)
  PROVE  /\ Memory(s, Mine \cup Sent) /\ On(s) = Coming /\ Alike(buffer, s.buffer, Coming)
         /\ s.q = led_event /\ s.got = got /\ s.took = 0
         /\ \E p \in Block : p + left \in Block /\ Roomy(s, p, left)
  <1> DEFINE one == Room(memmap, 7)
             table == Marked(memmap, one, 7)
             two == Room(table, 1)
             new == Marked(table, two, 1)
             held == Held
             k == 8 * received + lost
             E == [text : Texts, of : Nat]
             e == [text |-> peer, of |-> 0]
  <1>1. /\ Mem(memmap, held, k) /\ memmap \in [Block -> Nat] /\ k \in Nat
        /\ buffer \in [Block -> E] /\ e \in E /\ lost \in Nat /\ received \in Nat
        /\ led_event \in Seq(Block) /\ got \in Block \cup {NULL}
    <2>1. /\ buffer \in [Block -> E] /\ lost \in Nat /\ received \in Nat
          /\ led_event \in Seq(Block) /\ got \in Block \cup {NULL}
      BY DEF Inner, TypeInv
    <2>2. Mem(memmap, held, k) /\ memmap \in [Block -> Nat]
      BY DEF Inner, OwnInv, Mem
    <2>3. k \in Nat
      BY <2>1
    <2>4. e \in E
      <3>1. peer \in Texts
        BY DEF Texts
      <3>2. QED  BY <3>1
    <2> HIDE DEF k, e, E, held
    <2>5. QED  BY <2>1, <2>2, <2>3, <2>4
  <1>2. s = [memmap |-> new, buffer |-> [buffer EXCEPT ![two] = e],
             q |-> led_event, got |-> got, took |-> 0, lost |-> lost]
    BY DEF Posting
  <1>3. /\ s.memmap = new /\ s.buffer = [buffer EXCEPT ![two] = e] /\ s.q = led_event
        /\ s.got = got /\ s.took = 0 /\ s.lost = lost
    <2> HIDE DEF new, two, e
    <2>1. QED  BY <1>2
  <1> HIDE DEF one, table, two, new, held, k, E, e
  <1>4. PICK p \in Block : /\ p + (8 + left) - 1 \in Block
                           /\ \A x \in p .. p + (8 + left) - 1 : memmap[x] = 0
    <2> DEFINE r == 8 + left
    <2>1. r \in Nat \ {0} /\ Rooms(memmap, r) # {}
      OBVIOUS
    <2> HIDE DEF r
    <2>2. PICK p \in Rooms(memmap, r) : TRUE
      BY <2>1
    <2>3. p \in 1 .. Blocks - r + 1 /\ \A x \in p .. p + r - 1 : memmap[x] = 0
      BY <2>2 DEF Rooms
    <2>4. p \in Block /\ p + r - 1 \in Block
      BY <2>1, <2>3, BlocksNat
    <2>5. QED  BY <2>3, <2>4 DEF r
  <1>5. /\ Rooms(memmap, 7) # {}
        /\ \A x \in p .. p + (1 + left) - 1 : table[x] = 0
    <2> DEFINE r == 8 + left
               n == 7
    <2>1. /\ n \in Nat \ {0} /\ r \in Nat /\ n <= r /\ p + r - 1 \in Block
          /\ \A x \in p .. p + r - 1 : memmap[x] = 0
          /\ r - n = 1 + left
      BY <1>4
    <2>2. one = Room(memmap, n) /\ table = Marked(memmap, one, n)
      BY DEF one, table
    <2> HIDE DEF r, n
    <2>3. /\ Rooms(memmap, n) # {}
          /\ \A x \in p .. p + (r - n) - 1 : Marked(memmap, Room(memmap, n), n)[x] = 0
      BY <1>1, <2>1, RoomLeft
    <2>4. Rooms(memmap, n) # {} /\ \A x \in p .. p + (1 + left) - 1 : table[x] = 0
      BY <2>1, <2>2, <2>3
    <2>5. QED  BY <2>4 DEF n
  <1>6. one \notin held /\ Mem(table, held, k + 7) /\ table \in [Block -> Nat]
    <2> DEFINE more == held \cup {one}
               n == 7
    <2>1. /\ n \in Nat \ {0} /\ one = Room(memmap, n) /\ table = Marked(memmap, one, n)
          /\ Mem(memmap, held, k) /\ Rooms(memmap, n) # {}
      BY <1>1, <1>5 DEF one, table
    <2> HIDE DEF n
    <2>2. one \notin held /\ table[one] = n /\ Mem(table, held \cup {one}, k)
      BY ONLY <2>1, MemAlloc
    <2>3. Mem(table, more, k) /\ one \in more /\ more \ {one} = held
      BY <2>2
    <2> HIDE DEF more
    <2>4. Mem(table, more \ {one}, k + table[one])
      BY <1>1, <2>3, MemDrop
    <2>5. Mem(table, held, k + n)
      BY <2>2, <2>3, <2>4
    <2>6. QED  BY <2>2, <2>5 DEF n, Mem
  <1>7. Rooms(table, 1) # {} /\ \A x \in p .. p + left - 1 : new[x] = 0
    <2> DEFINE r == 1 + left
               n == 1
    <2>1. /\ n \in Nat \ {0} /\ r \in Nat /\ n <= r /\ p + r - 1 \in Block
          /\ \A x \in p .. p + r - 1 : table[x] = 0
          /\ r - n = left
      BY <1>4, <1>5, BlocksNat
    <2>2. two = Room(table, n) /\ new = Marked(table, two, n)
      BY DEF two, new
    <2> HIDE DEF r, n
    <2>3. /\ Rooms(table, n) # {}
          /\ \A x \in p .. p + (r - n) - 1 : Marked(table, Room(table, n), n)[x] = 0
      BY <1>6, <2>1, RoomLeft
    <2>4. Rooms(table, n) # {} /\ \A x \in p .. p + left - 1 : new[x] = 0
      BY <2>1, <2>2, <2>3
    <2>5. QED  BY <2>4 DEF n
  <1>8. two \in Block /\ two \notin held /\ Mem(new, held, k + 8)
    <2> DEFINE more == held \cup {two}
               n == 1
               k7 == k + 7
    <2>1. /\ n \in Nat \ {0} /\ two = Room(table, n) /\ new = Marked(table, two, n)
          /\ Mem(table, held, k7) /\ Rooms(table, n) # {} /\ k7 \in Nat
      BY <1>1, <1>6, <1>7 DEF two, new
    <2>0. k7 + n = k + 8
      BY <1>1
    <2> HIDE DEF n, k7
    <2>2. two \in Block /\ two \notin held /\ new[two] = n /\ Mem(new, held \cup {two}, k7)
      BY ONLY <2>1, MemAlloc
    <2>3. Mem(new, more, k7) /\ two \in more /\ more \ {two} = held
      BY <2>2
    <2> HIDE DEF more
    <2>4. Mem(new, more \ {two}, k7 + new[two])
      BY <2>1, <2>3, MemDrop
    <2>5. Mem(new, held, k7 + n)
      BY <2>2, <2>3, <2>4
    <2>6. QED  BY <2>0, <2>2, <2>5
  <1>9. On(s) = Coming
    BY <1>3 DEF On, Coming
  <1>10. /\ s.buffer \in [Block -> E] /\ \A c \in Block : c # two => s.buffer[c] = buffer[c]
    BY <1>1, <1>3, <1>8
  <1>11. Alike(buffer, s.buffer, Coming)
    <2>1. Coming \in Seq(Block)
      BY <1>1, UpcomingIs DEF Coming
    <2>2. \A i \in 1 .. Len(Coming) : Coming[i] \in Block /\ Coming[i] # two
      BY <1>8, <2>1, ElementIn DEF InQueue, Elements, held, Held
    <2>3. QED  BY <1>10, <2>2 DEF Alike
  <1>12. Memory(s, Mine \cup Sent)
    <2>1. Elements(On(s)) \cup (Mine \cup Sent) = held
      BY <1>9 DEF held, Held, InQueue
    <2>2. Elements(On(s)) \cap (Mine \cup Sent) = {} /\ Distinct(On(s))
      BY <1>9 DEF Inner, OwnInv, InQueue
    <2>3. \A c \in Mine \cup Sent : s.buffer[c] = buffer[c]
      <3>1. \A c \in Mine \cup Sent : c \in held /\ c \in Block
        BY <1>1 DEF held, Held, Mem, Sound
      <3>2. QED  BY <1>8, <1>10, <3>1
    <2>4. k + 8 = 8 * (received + 1) + s.lost
      BY <1>1, <1>3 DEF k
    <2>5. QED
      BY <1>1, <1>3, <1>8, <1>10, <2>1, <2>2, <2>3, <2>4 DEF Memory, E
  <1>13. p + left \in Block /\ Roomy(s, p, left)
    BY <1>3, <1>4, <1>7, BlocksNat DEF Roomy
  <1>14. QED  BY <1>3, <1>9, <1>11, <1>12, <1>13

LEMMA MessageIs ==
  ASSUME NEW m \in Messages
  PROVE  m \in Seq(Asked) /\ Len(m) \in Nat
  <1>1. PICK n \in 0 .. MaxLen : m \in [1 .. n -> Asked]
    BY DEF Messages
  <1>2. n \in Nat
    BY BoundAssumption
  <1>3. QED  BY <1>1, <1>2

LEMMA CommandsGrow ==
  ASSUME NEW S, NEW old \in Seq(S), NEW l \in Nat, NEW f \in [1 .. l -> S]
  PROVE  /\ old \o f \in Seq(S) /\ Len(old \o f) = Len(old) + l /\ Len(old) \in Nat
         /\ \A k \in 1 .. Len(old) : (old \o f)[k] = old[k]
         /\ \A k \in 1 .. l : (old \o f)[Len(old) + k] = f[k]
  <1>1. f \in Seq(S) /\ Len(f) = l
    OBVIOUS
  <1>2. /\ old \o f \in Seq(S) /\ Len(old \o f) = Len(old) + Len(f) /\ Len(old) \in Nat
        /\ \A k \in 1 .. Len(old) : (old \o f)[k] = old[k]
        /\ \A k \in 1 .. Len(f) : (old \o f)[Len(old) + k] = f[k]
    <2>1. old \in Seq(S) /\ f \in Seq(S)
      BY <1>1
    <2>2. QED  BY ONLY <2>1
  <1>3. QED  BY <1>1, <1>2

(* The commands with those of a message.                                   *)
With(cmds, peer, m) ==
    cmds \o [i \in 1 .. Len(m) |-> [peer |-> peer, switch |-> m[i].switch, id |-> m[i].id]]

LEMMA WithIs ==
  ASSUME NEW cmds \in Seq(Asking), NEW peer \in Peer, NEW m \in Seq(Asked),
         NEW all, all = With(cmds, peer, m)
  PROVE  /\ all \in Seq(Asking) /\ Len(all) = Len(cmds) + Len(m)
         /\ Len(cmds) \in Nat /\ Len(m) \in Nat
         /\ \A k \in 1 .. Len(m) : /\ all[Len(cmds) + k].peer = peer
                                   /\ all[Len(cmds) + k].switch = m[k].switch
                                   /\ all[Len(cmds) + k].id = m[k].id
                                   /\ m[k].switch \in Switch \cup {"other"}
                                   /\ m[k].id \in {"0", "1"}
         /\ Grown(cmds, all)
  <1> DEFINE l == Len(m)
             f == [i \in 1 .. l |-> [peer |-> peer, switch |-> m[i].switch, id |-> m[i].id]]
  <1>1. l \in Nat
    OBVIOUS
  <1>2. ASSUME NEW i \in 1 .. l
        PROVE  /\ [peer |-> peer, switch |-> m[i].switch, id |-> m[i].id] \in Asking
               /\ m[i].switch \in Switch \cup {"other"} /\ m[i].id \in {"0", "1"}
    <2> DEFINE x == m[i]
    <2>1. x \in [switch : {"ON", "OFF", "other"}, id : {"0", "1"}]
      BY AskedAssumption, ElementIn
    <2>2. x.switch \in Switch \cup {"other"} /\ x.id \in {"0", "1"}
      BY <2>1 DEF Switch
    <2> HIDE DEF x
    <2>3. [peer |-> peer, switch |-> x.switch, id |-> x.id] \in Asking
      BY <2>2 DEF Asking
    <2>4. QED  BY <2>2, <2>3 DEF x
  <1>3. f \in [1 .. l -> Asking] /\ all = cmds \o f
    BY <1>2 DEF With
  <1>4. \A i \in 1 .. l : f[i].peer = peer /\ f[i].switch = m[i].switch /\ f[i].id = m[i].id
    OBVIOUS
  <1> HIDE DEF f, l
  <1>5. /\ all \in Seq(Asking) /\ Len(all) = Len(cmds) + l /\ Len(cmds) \in Nat
        /\ \A k \in 1 .. Len(cmds) : all[k] = cmds[k]
        /\ \A k \in 1 .. l : all[Len(cmds) + k] = f[k]
    BY <1>1, <1>3, CommandsGrow
  <1>6. Grown(cmds, all)
    <2>1. ASSUME NEW x \in 1 .. 3 * Len(cmds)
          PROVE  x \in 1 .. 3 * Len(all) /\ all[CommandOf(x)] = cmds[CommandOf(x)]
      <3>1. CommandOf(x) \in 1 .. Len(cmds)
        BY <1>5, OfBounds
      <3>2. x \in 1 .. 3 * Len(all)
        BY <1>1, <1>5
      <3>3. QED  BY <1>5, <3>1, <3>2
    <2>2. QED  BY <2>1 DEF Grown
  <1>7. \A k \in 1 .. l : /\ all[Len(cmds) + k].peer = peer
                           /\ all[Len(cmds) + k].switch = m[k].switch
                           /\ all[Len(cmds) + k].id = m[k].id
    BY <1>4, <1>5
  <1>8. QED  BY <1>1, <1>2, <1>5, <1>6, <1>7 DEF l

LEMMA PartIs ==
  ASSUME NEW cmds \in Seq(Asking), NEW peer \in Peer, NEW m \in Seq(Asked),
         NEW all, all = With(cmds, peer, m), NEW n, n = Len(cmds),
         NEW x \in 1 .. 3 * Len(m), NEW part, part = PartsOf(peer, m, n)[x]
  PROVE  /\ GoodPart(all, part) /\ part.of = 3 * n + x
         /\ part.blocks = (IF Turn(x) = 2 THEN 2 ELSE 1)
  <1>1. Len(m) \in Nat /\ x \in Nat \ {0} /\ n \in Nat
    BY WithIs
  <1> DEFINE k == CommandOf(x)
             c == m[k]
             t == Turn(x)
  <1>2. k \in 1 .. Len(m) /\ t \in 0 .. 2
    BY <1>1, OfBounds, TurnOf
  <1>3. /\ all[n + k].peer = peer /\ all[n + k].switch = c.switch /\ all[n + k].id = c.id
        /\ c.switch \in Switch \cup {"other"} /\ c.id \in {"0", "1"}
        /\ Len(all) = n + Len(m)
    <2> HIDE DEF k
    <2>1. QED  BY <1>2, WithIs
  <1>4. part = [text |-> <<peer, c.switch, c.id>>[t + 1], blocks |-> <<1, 1, 2>>[t + 1],
                of |-> 3 * n + x]
    BY DEF PartsOf, Turn, CommandOf
  <1> HIDE DEF k, c, t
  <1>5. /\ part.of = 3 * n + x /\ part.text = <<peer, c.switch, c.id>>[t + 1]
        /\ part.blocks = <<1, 1, 2>>[t + 1]
    BY <1>4
  <1>6. Turn(part.of) = t /\ CommandOf(part.of) = n + k
    BY <1>1, <1>5, TurnOfAfter DEF t, k
  <1>7. part.of \in 1 .. 3 * Len(all)
    <2> HIDE DEF k
    <2>1. 3 * n + x \in 1 .. 3 * (n + Len(m))
      BY <1>1
    <2>2. QED  BY <1>3, <1>5, <2>1
  <1>8. CASE t = 0
    <2>1. part.text = peer /\ part.blocks = 1
      BY <1>5, <1>8
    <2>2. peer \in Texts /\ peer # "other"
      BY DEF Texts, Peer
    <2>3. QED  BY <1>3, <1>5, <1>6, <1>7, <1>8, <2>1, <2>2 DEF GoodPart, t
  <1>9. CASE t = 1
    <2>1. part.text = c.switch /\ part.blocks = 1
      BY <1>5, <1>9
    <2>2. c.switch \in Texts \cup {"other"}
      BY <1>3 DEF Texts
    <2>3. QED  BY <1>3, <1>5, <1>6, <1>7, <1>9, <2>1, <2>2 DEF GoodPart, t
  <1>10. CASE t = 2
    <2>1. part.text = c.id /\ part.blocks = 2
      BY <1>5, <1>10
    <2>2. c.id \in Texts /\ c.id # "other"
      BY <1>3 DEF Texts
    <2>3. QED  BY <1>3, <1>5, <1>6, <1>7, <1>10, <2>1, <2>2 DEF GoodPart, t
  <1>11. QED  BY <1>2, <1>8, <1>9, <1>10

(* One part more.                                                          *)
LEMMA OnePosted ==
  ASSUME received \in Nat, waiting \in BOOLEAN, NEW s, NEW rest, Memory(s, rest),
         NEW j \in Nat, Queued(s, j), NEW cmds \in Seq(Asking), NEW n \in Nat,
         NEW below, NEW behind, Numbered(s, cmds, n, below, behind),
         \A x \in below : x \in Nat /\ x <= 3 * n,
         NEW p \in Block, NEW r \in Nat, p + r - 1 \in Block, Roomy(s, p, r),
         NEW part, GoodPart(cmds, part), part.of = 3 * n + (j + 1),
         part.blocks \in Nat \ {0}, part.blocks <= r,
         NEW t, t = PostPart(s, part)
  PROVE  /\ Memory(t, rest) /\ Queued(t, j + 1) /\ Numbered(t, cmds, n, below, behind)
         /\ Roomy(t, p, r - part.blocks)
  <1> DEFINE b == Room(s.memmap, part.blocks)
             v == Written(s.buffer[b], part)
             w == part.blocks
             table == s.memmap
  <1>1. table \in [Block -> Nat] /\ s.buffer \in [Block -> [text : Texts, of : Nat]]
    BY DEF Memory, Mem
  <1>2. /\ Rooms(table, w) # {}
        /\ \A k \in p .. p + (r - w) - 1 : Marked(table, Room(table, w), w)[k] = 0
    <2>1. /\ w \in Nat \ {0} /\ w <= r /\ \A k \in p .. p + r - 1 : table[k] = 0
      BY DEF Roomy
    <2> HIDE DEF w, table
    <2>2. QED  BY <1>1, <2>1, RoomLeft
  <1>3. b \in Block
    <2>1. b \in Rooms(table, w)
      <3>1. w \in Nat \ {0}
        OBVIOUS
      <3>2. b = Room(table, w)
        OBVIOUS
      <3> HIDE DEF w, table, b
      <3>3. QED  BY <1>1, <1>2, <3>1, <3>2, RoomIs
    <2>2. w \in Nat \ {0}
      OBVIOUS
    <2> HIDE DEF w, table, b
    <2>3. QED  BY <2>1, <2>2, BlocksNat DEF Rooms
  <1>4. v \in [text : Texts, of : Nat] /\ v.of = part.of /\ Good(cmds, v)
    <2>1. s.buffer[b] \in [text : Texts, of : Nat]
      BY <1>1, <1>3
    <2> DEFINE old == s.buffer[b]
    <2> HIDE DEF old, b
    <2>2. old \in [text : Texts, of : Nat] /\ v = Written(old, part)
      BY <2>1 DEF old
    <2> HIDE DEF v
    <2>3. QED  BY <2>2, WrittenIs
  <1>5. /\ Queued(t, j + 1) /\ s.took \in Nat /\ On(s) \in Seq(Block)
        /\ t.memmap = Marked(s.memmap, b, part.blocks)
        /\ t.buffer = [s.buffer EXCEPT ![b] = Written(@, part)]
        /\ \/ On(t) = On(s) /\ t.took = s.took /\ t.lost = s.lost + part.blocks
           \/ /\ On(t) = Append(On(s), b) /\ s.took = j /\ t.took = j + 1 /\ t.lost = s.lost
    <2>1. Where(s, j, part, b, t)
      <3> HIDE DEF b
      <3>1. b = Room(s.memmap, part.blocks)
        BY DEF b
      <3>2. QED  BY <1>3, <3>1, PostedWhere
    <2>2. QED  BY <2>1 DEF Where
  <1>6. t.buffer = [s.buffer EXCEPT ![b] = v]
    BY <1>5
  <1> HIDE DEF v
  <1>7. /\ Memory(t, rest) /\ b \in Block /\ b \notin Elements(On(s))
        /\ Alike(s.buffer, t.buffer, On(s)) /\ t.buffer[b] = v
    <2>1. /\ w \in Nat \ {0} /\ Rooms(s.memmap, w) # {} /\ b = Room(s.memmap, w)
          /\ t.memmap = Marked(s.memmap, b, w)
          /\ RefusedOrNot(s, t, b, w) /\ t.buffer = Put(s.buffer, b, v)
      BY <1>2, <1>5, <1>6 DEF RefusedOrNot, Put
    <2> HIDE DEF w, b
    <2>2. /\ Memory(s, rest) /\ received \in Nat /\ w \in Nat \ {0}
          /\ Rooms(s.memmap, w) # {} /\ On(s) \in Seq(Block) /\ b = Room(s.memmap, w)
          /\ t.memmap = Marked(s.memmap, b, w) /\ v \in [text : Texts, of : Nat]
          /\ t.buffer = Put(s.buffer, b, v)
          /\ RefusedOrNot(s, t, b, w)
      BY <1>4, <1>5, <1>6, <2>1
    <2>3. QED  BY ONLY <2>2, PostedMemory
  <1>8. Numbered(t, cmds, n, below, behind)
    <2>1. \/ On(t) = On(s) /\ t.took = s.took
          \/ /\ On(t) = Append(On(s), b) /\ t.took = s.took + 1
             /\ t.buffer[b].of = 3 * n + s.took + 1
      <3>1. CASE On(t) = On(s) /\ t.took = s.took
        BY <3>1
      <3>2. CASE On(t) = Append(On(s), b) /\ s.took = j /\ t.took = j + 1
        <4>1. t.buffer[b].of = 3 * n + (j + 1) /\ 3 * n + (j + 1) = 3 * n + j + 1
          BY <1>4, <1>7
        <4>2. QED  BY <3>2, <4>1
      <3>3. QED  BY <1>5, <3>1, <3>2
    <2>2. Good(cmds, t.buffer[b])
      BY <1>4, <1>7
    <2> HIDE DEF b
    <2>3. QED  BY <1>1, <1>5, <1>7, <2>1, <2>2, PostedNumbered
  <1>9. Roomy(t, p, r - part.blocks)
    BY <1>2, <1>5 DEF Roomy
  <1>10. QED  BY <1>5, <1>7, <1>8, <1>9

(* All parts of a message.                                                 *)
LEMMA AllPosted ==
  ASSUME Inner, NEW peer \in Peer, NEW m \in Seq(Asked),
         Rooms(memmap, 8 + 4 * Len(m)) # {},
         NEW all, all = With(commands, peer, m), NEW n, n = Len(commands),
         NEW l, l = 3 * Len(m),
         NEW posted, posted = Posts(peer, PartsOf(peer, m, n), l),
         NEW below, \A x \in below : x \in Nat /\ x <= 3 * n /\ Above(x, buffer, Coming),
         NEW behind, \A x \in behind : After(x, buffer, Coming)
  PROVE  /\ Memory(posted[l], Mine \cup Sent) /\ Queued(posted[l], l)
         /\ Numbered(posted[l], all, n, below, behind)
  <1>1. /\ Len(m) \in Nat /\ l \in Nat /\ n \in Nat /\ all \in Seq(Asking)
        /\ commands \in Seq(Asking) /\ received \in Nat /\ waiting \in BOOLEAN
        /\ Grown(commands, all)
    <2>1. commands \in Seq(Asking) /\ received \in Nat /\ waiting \in BOOLEAN
      BY DEF Inner, TypeInv
    <2>2. Len(m) \in Nat
      OBVIOUS
    <2>3. all \in Seq(Asking) /\ Len(commands) \in Nat /\ Grown(commands, all)
      BY <2>1, WithIs
    <2>4. QED  BY <2>1, <2>2, <2>3
  <1> DEFINE left == 4 * Len(m)
             rest == Mine \cup Sent
             first == Posting(peer)
  <1>2. PICK p \in Block : p + left \in Block /\ Roomy(first, p, left)
    <2>1. left \in Nat /\ Rooms(memmap, 8 + left) # {}
      BY <1>1
    <2> HIDE DEF left
    <2>2. QED  BY <2>1, PostingStarts
  <1>3. /\ Memory(first, rest) /\ On(first) = Coming /\ Alike(buffer, first.buffer, Coming)
        /\ first.q = led_event /\ first.got = got /\ first.took = 0
    <2>1. left \in Nat /\ Rooms(memmap, 8 + left) # {}
      BY <1>1
    <2> HIDE DEF left
    <2>2. QED  BY <2>1, PostingStarts
  <1>4. Queued(first, 0)
    <2>1. /\ led_event \in Seq(Block) /\ got \in Block \cup {NULL}
          /\ (waiting => led_event = <<>>)
      BY DEF Inner, TypeInv
    <2>2. 0 \in 0 .. 0
      OBVIOUS
    <2> HIDE DEF first
    <2>3. QED  BY <1>3, <2>1, <2>2 DEF Queued
  <1>5. Numbered(first, all, n, below, behind)
    <2> HIDE DEF first
    <2>1. Row(commands, buffer, Coming)
      BY DEF Inner, QueueInv
    <2>2. /\ Row(all, first.buffer, Coming)
          /\ \A x : Above(x, buffer, Coming) => Above(x, first.buffer, Coming)
          /\ \A x : After(x, buffer, Coming) => After(x, first.buffer, Coming)
      BY <1>1, <1>3, <2>1, RowFrame
    <2>3. \A i \in 1 .. Len(Coming) : first.buffer[Coming[i]].of <= 3 * n + first.took
      <3> SUFFICES ASSUME NEW i \in 1 .. Len(Coming)
                   PROVE  first.buffer[Coming[i]].of <= 3 * n + first.took
        OBVIOUS
      <3> DEFINE z == buffer[Coming[i]].of
      <3>1. z \in 1 .. 3 * n /\ first.buffer[Coming[i]].of = z
        BY <1>3, <2>1 DEF Row, Good, Alike
      <3> HIDE DEF z
      <3>2. QED  BY <1>1, <1>3, <3>1
    <2>4. QED  BY <1>3, <2>2, <2>3 DEF Numbered
  <1> DEFINE S == {j \in 0 .. l : /\ Memory(posted[j], rest) /\ Queued(posted[j], j)
                                  /\ Numbered(posted[j], all, n, below, behind)
                                  /\ Roomy(posted[j], p, left - Weighs(j))}
  <1>6. /\ posted[0] = first
        /\ \A x \in 0 .. l - 1 : posted[x + 1] = PostPart(posted[x], PartsOf(peer, m, n)[x + 1])
    BY <1>1, PostsFollow
  <1>7. 0 \in S
    <2>1. Roomy(first, p, left - Weighs(0))
      <3>1. left - Weighs(0) = left
        <4>1. Weighs(0) = 0
          BY DEF Weighs
        <4>2. QED  BY <1>1, <4>1
      <3> HIDE DEF first, left
      <3>2. QED  BY <1>2, <3>1
    <2>2. 0 \in 0 .. l
      BY <1>1
    <2> HIDE DEF first, left, rest
    <2>3. QED  BY <1>3, <1>4, <1>5, <1>6, <2>1, <2>2
  <1> HIDE DEF first
  <1>8. ASSUME NEW j \in 0 .. l - 1, j \in S
        PROVE  j + 1 \in S
    <2> DEFINE part == PartsOf(peer, m, n)[j + 1]
               s == posted[j]
               t == posted[j + 1]
               r == left - Weighs(j)
    <2>1. j \in Nat /\ j + 1 \in 1 .. l /\ j + 1 \in 0 .. l
      BY <1>1
    <2>2. /\ GoodPart(all, part) /\ part.of = 3 * n + (j + 1)
          /\ part.blocks = (IF Turn(j + 1) = 2 THEN 2 ELSE 1)
      <3> DEFINE x == j + 1
      <3>1. x \in 1 .. 3 * Len(m) /\ part = PartsOf(peer, m, n)[x]
        BY <2>1
      <3> HIDE DEF x, part
      <3>2. GoodPart(all, part) /\ part.blocks = (IF Turn(x) = 2 THEN 2 ELSE 1)
        <4>1. /\ commands \in Seq(Asking) /\ peer \in Peer /\ m \in Seq(Asked)
              /\ all = With(commands, peer, m) /\ n = Len(commands)
              /\ x \in 1 .. 3 * Len(m) /\ part = PartsOf(peer, m, n)[x]
          BY <1>1, <3>1
        <4>2. GoodPart(all, part)
          BY ONLY <4>1, PartIs
        <4>3. part.blocks = (IF Turn(x) = 2 THEN 2 ELSE 1)
          BY ONLY <4>1, PartIs
        <4>4. QED  BY <4>2, <4>3
      <3>3. part.of = 3 * n + x
        BY <3>1 DEF PartsOf
      <3>4. QED  BY <3>2, <3>3 DEF x
    <2>3. t = PostPart(s, part)
      BY <1>6
    <2>4. /\ Memory(s, rest) /\ Queued(s, j) /\ Numbered(s, all, n, below, behind)
          /\ Roomy(s, p, r)
      BY <1>8
    <2>5. /\ part.blocks \in Nat \ {0} /\ Weighs(j + 1) = Weighs(j) + part.blocks
          /\ Weighs(j) \in Nat /\ Weighs(j + 1) <= left
      <3>1. Weighs(j) \in Nat /\ Weighs(j + 1) = Weighs(j) + part.blocks
        BY <2>1, <2>2, WeighsNext
      <3>2. Weighs(j + 1) <= left
        BY <1>1, <2>1 DEF Weighs
      <3>3. QED  BY <2>2, <3>1, <3>2
    <2>6. /\ r \in Nat /\ part.blocks <= r /\ p + r - 1 \in Block
          /\ r - part.blocks = left - Weighs(j + 1)
      <3> DEFINE w == Weighs(j)
                 w2 == Weighs(j + 1)
                 k == part.blocks
      <3>1. /\ k \in Nat \ {0} /\ w2 = w + k /\ w \in Nat /\ w2 <= left /\ left \in Nat
            /\ r = left - w /\ p + left \in Block /\ p \in Block
        BY <1>1, <1>2, <2>5
      <3> HIDE DEF w, w2, k, left, r
      <3>2. r \in Nat /\ k <= r /\ p + r - 1 \in Block /\ r - k = left - w2
        BY <3>1, BlocksNat
      <3>3. QED  BY <3>2 DEF k, w2
    <2> HIDE DEF s, t, r, part, left, rest
    <2>7. /\ Memory(t, rest) /\ Queued(t, j + 1) /\ Numbered(t, all, n, below, behind)
          /\ Roomy(t, p, r - part.blocks)
      <3>1. \A x \in below : x \in Nat /\ x <= 3 * n
        OBVIOUS
      <3>2. QED  BY <1>1, <2>1, <2>2, <2>3, <2>4, <2>5, <2>6, <3>1, OnePosted
    <2>8. QED  BY <2>1, <2>6, <2>7 DEF t
  <1> HIDE DEF S
  <1>9. 0 .. l \subseteq S
    <2>1. \A j \in 0 .. l - 1 : j \in S => j + 1 \in S
      BY <1>8
    <2>2. QED  BY <1>1, <1>7, <2>1, UptoInduction
  <1>10. l \in S
    <2>1. l \in 0 .. l
      BY <1>1
    <2>2. QED  BY <1>9, <2>1
  <1>11. QED  BY <1>10 DEF S

LEMMA PartsLen ==
  ASSUME NEW peer, NEW m, NEW n, Len(m) \in Nat
  PROVE  Len(PartsOf(peer, m, n)) = 3 * Len(m)
  <1> DEFINE l == 3 * Len(m)
             F(x) == LET c == m[((x - 1) \div 3) + 1]
                     IN [text |-> <<peer, c.switch, c.id>>[((x - 1) % 3) + 1],
                         blocks |-> <<1, 1, 2>>[((x - 1) % 3) + 1],
                         of |-> 3 * n + x]
  <1>1. PartsOf(peer, m, n) = [x \in 1 .. l |-> F(x)] /\ l \in Nat
    BY DEF PartsOf
  <1> HIDE DEF l, F
  <1>2. Len([x \in 1 .. l |-> F(x)]) = l
    BY <1>1
  <1>3. QED  BY <1>1, <1>2 DEF l

(* What Receive does, by the last of its posts.                            *)
Received(s, peer, m) ==
    /\ Rooms(memmap, 8 + 4 * Len(m)) # {}
    /\ memmap' = s.memmap /\ buffer' = s.buffer /\ led_event' = s.q
    /\ got' = s.got /\ lost' = s.lost
    /\ waiting' = (waiting /\ s.got = NULL)
    /\ received' = received + 1
    /\ commands' = With(commands, peer, m)
    /\ UNCHANGED <<tcp_send_event, pc, pointers, taken, output, fresh, robbed>>

LEMMA ReceiveIs ==
  ASSUME NEW peer \in Peer, NEW m \in Seq(Asked), Receive(peer, m),
         NEW parts, parts = PartsOf(peer, m, Len(commands)),
         NEW s, s = Posts(peer, parts, 3 * Len(m))[3 * Len(m)]
  PROVE  Received(s, peer, m)
  <1>1. Len(m) \in Nat
    OBVIOUS
  <1>2. Len(parts) = 3 * Len(m)
    BY <1>1, PartsLen
  <1>3. s = Posts(peer, parts, Len(parts))[Len(parts)]
    BY <1>2
  <1> DEFINE F(g) == [x \in 0 .. Len(parts) |->
                        IF x = 0 THEN Posting(peer) ELSE PostPart(g[x - 1], parts[x])]
             t == (CHOOSE g : g = F(g))[Len(parts)]
  <1>4. t = s
    BY <1>3 DEF Posts
  <1>5. /\ Rooms(memmap, 8 + 4 * Len(m)) # {}
        /\ memmap' = t.memmap /\ buffer' = t.buffer /\ led_event' = t.q
        /\ got' = t.got /\ lost' = t.lost
        /\ waiting' = (waiting /\ t.got = NULL)
        /\ received' = received + 1
        /\ commands' = commands \o [i \in 1 .. Len(m) |->
                         [peer |-> peer, switch |-> m[i].switch, id |-> m[i].id]]
        /\ UNCHANGED <<tcp_send_event, pc, pointers, taken, output, fresh, robbed>>
    BY DEF Receive
  <1> HIDE DEF t
  <1>6. commands' = With(commands, peer, m)
    BY <1>5 DEF With
  <1>7. QED  BY <1>4, <1>5, <1>6 DEF Received

LEMMA StepReceive ==
  ASSUME Inner, NEW peer \in Peer, NEW m \in Messages, Receive(peer, m)
  PROVE  Inv'
  <1> DEFINE n == Len(commands)
             l == 3 * Len(m)
             all == With(commands, peer, m)
             s == Posts(peer, PartsOf(peer, m, n), l)[l]
             rest == Mine \cup Sent
             lamp == {switched[j].of[1] : j \in 1 .. Len(switched)}
             below == lamp \cup
                (IF pc \in {"msg", "freeSwitch", "id", "switch"} THEN {taken.of[1]} ELSE {})
             behind == (IF pc = "msg" THEN {taken.of[1]} ELSE {}) \cup
                       (IF pc \in {"freeSwitch", "id"} THEN {taken.of[2]} ELSE {})
  <1>1. m \in Seq(Asked) /\ Len(m) \in Nat
    BY MessageIs
  <1>2. /\ commands \in Seq(Asking) /\ received \in Nat /\ waiting \in BOOLEAN /\ n \in Nat
        /\ buffer \in [Block -> [text : Texts, of : Nat]]
    BY DEF Inner, TypeInv
  <1>3. Received(s, peer, m)
    <2>1. s = Posts(peer, PartsOf(peer, m, Len(commands)), 3 * Len(m))[3 * Len(m)]
      OBVIOUS
    <2> HIDE DEF s
    <2>2. QED  BY <1>1, <2>1, ReceiveIs
  <1>4. \A x \in below : x \in Nat /\ x <= 3 * n /\ Above(x, buffer, Coming)
    <2>1. \A x \in lamp : x \in 1 .. 3 * n /\ Above(x, buffer, Coming)
      BY DEF Inner, SwitchInv, Applied, QueueInv
    <2>2. pc \in {"msg", "freeSwitch", "id", "switch"} =>
             taken.of[1] \in 1 .. 3 * n /\ Above(taken.of[1], buffer, Coming)
      BY DEF Inner, TakenInv, QueueInv
    <2> HIDE DEF lamp
    <2>3. \A x \in below : x \in 1 .. 3 * n /\ Above(x, buffer, Coming)
      BY <2>1, <2>2
    <2> HIDE DEF below, n
    <2>4. QED  BY <1>2, <2>3
  <1>5. \A x \in behind : After(x, buffer, Coming)
    BY DEF Inner, QueueInv
  <1>6. Memory(s, rest) /\ Queued(s, l) /\ Numbered(s, all, n, below, behind)
    <2> DEFINE posted == Posts(peer, PartsOf(peer, m, n), l)
    <2>1. /\ peer \in Peer /\ m \in Seq(Asked) /\ Rooms(memmap, 8 + 4 * Len(m)) # {}
          /\ all = With(commands, peer, m) /\ n = Len(commands) /\ l = 3 * Len(m)
          /\ posted = Posts(peer, PartsOf(peer, m, n), l)
          /\ \A x \in below : x \in Nat /\ x <= 3 * n /\ Above(x, buffer, Coming)
          /\ \A x \in behind : After(x, buffer, Coming)
          /\ s = posted[l] /\ rest = Mine \cup Sent
      BY <1>1, <1>3, <1>4, <1>5 DEF Received
    <2> HIDE DEF all, n, l, posted, below, behind, s, rest
    <2>2. QED  BY <2>1, AllPosted
  <1>7. /\ all \in Seq(Asking) /\ Grown(commands, all)
    <2>1. /\ commands \in Seq(Asking) /\ peer \in Peer /\ m \in Seq(Asked)
          /\ all = With(commands, peer, m)
      BY <1>1, <1>2
    <2> HIDE DEF all
    <2>2. QED  BY ONLY <2>1, WithIs
  <1> HIDE DEF n, l, all, s, rest, lamp, below, behind
  <1>8. /\ memmap' = s.memmap /\ buffer' = s.buffer /\ led_event' = s.q /\ got' = s.got
        /\ lost' = s.lost /\ waiting' = (waiting /\ s.got = NULL)
        /\ received' = received + 1 /\ commands' = all /\ Coming' = On(s)
        /\ UNCHANGED <<tcp_send_event, pc, auth_msg, msg, id_msg, taken, switched, answers,
                       fresh, robbed>>
    BY <1>3 DEF Received, pointers, output, all, Coming, On
  <1>9. Ptr' = Ptr /\ Mine' = Mine /\ Sent' = Sent
    BY <1>8 DEF Ptr, Mine, Sent
  <1>10. TypeInv'
    <2>1. /\ s.buffer \in [Block -> [text : Texts, of : Nat]] /\ s.q \in Seq(Block)
          /\ s.got \in Block \cup {NULL} /\ s.lost \in Nat
          /\ (waiting /\ s.got = NULL => s.q = <<>>) /\ (s.got = got \/ waiting)
      BY <1>6 DEF Memory, Queued
    <2>2. received' \in Nat
      BY <1>2, <1>8
    <2>3. waiting' => got' = NULL /\ led_event' = <<>>
      BY <1>8, <2>1
    <2>4. waiting' \/ got' # NULL => pc' \in {"auth", "msg", "id"}
      BY <1>8, <2>1 DEF Inner, TypeInv
    <2>5. waiting' \in BOOLEAN
      BY <1>8
    <2>6. /\ commands' \in Seq(Asking)
          /\ buffer' \in [Block -> [text : Texts, of : Nat]]
          /\ led_event' \in Seq(Block) /\ got' \in Block \cup {NULL} /\ lost' \in Nat
      BY <1>7, <1>8, <2>1
    <2>7. QED  BY <1>8, <2>2, <2>3, <2>4, <2>5, <2>6 DEF Inner, TypeInv
  <1>11. OwnInv'
    <2>1. InQueue' = Elements(On(s)) /\ Held' = Elements(On(s)) \cup rest
      BY <1>8, <1>9 DEF InQueue, Held, rest
    <2>2. /\ Mem(s.memmap, Elements(On(s)) \cup rest, 8 * (received + 1) + s.lost)
          /\ Elements(On(s)) \cap rest = {} /\ Distinct(On(s))
      BY <1>6 DEF Memory
    <2>3. Mem(memmap', Held', 8 * received' + lost') /\ Distinct(Coming')
      BY <1>8, <2>1, <2>2
    <2>4. InQueue' \cap Mine' = {} /\ InQueue' \cap Sent' = {}
      BY <1>9, <2>1, <2>2 DEF rest
    <2>5. QED  BY <1>8, <1>9, <2>3, <2>4 DEF Inner, OwnInv
  <1>12. QueueInv'
    <2>1. /\ Row(all, s.buffer, On(s))
          /\ \A x \in below : Above(x, s.buffer, On(s))
          /\ \A x \in behind : After(x, s.buffer, On(s))
      BY <1>6 DEF Numbered
    <2>2. \A j \in 1 .. Len(switched) : switched[j].of[1] \in below
      BY DEF below, lamp
    <2>3. /\ pc \in {"msg", "freeSwitch", "id", "switch"} => taken.of[1] \in below
          /\ pc = "msg" => taken.of[1] \in behind
          /\ pc \in {"freeSwitch", "id"} => taken.of[2] \in behind
      BY DEF below, behind
    <2>4. QED  BY <1>8, <2>1, <2>2, <2>3 DEF QueueInv
  <1>13. Grown(commands, commands') /\ switched' = switched
    BY <1>7, <1>8
  <1>14. TakenInv'
    <2>1. pc \in {"msg", "freeSwitch", "id", "switch"} =>
             /\ taken.of[1] \in 1 .. 3 * Len(commands)
             /\ taken.of[1] \in 1 .. 3 * Len(commands')
             /\ commands'[CommandOf(taken.of[1])] = commands[CommandOf(taken.of[1])]
      BY <1>13 DEF Inner, TakenInv, Grown
    <2>2. QED  BY <1>8, <2>1 DEF Inner, TakenInv
  <1>15. SwitchInv'
    BY <1>13, SwitchSame
  <1>16. Alike(buffer, buffer', tcp_send_event)
    <2>1. \A b \in rest : s.buffer[b] = buffer[b]
      BY <1>6 DEF Memory
    <2>2. \A i \in 1 .. Len(tcp_send_event) : tcp_send_event[i] \in rest
      BY DEF rest, Sent, Elements
    <2>3. QED  BY <1>8, <2>1, <2>2 DEF Alike
  <1>17. SendInv'
    <2>1. \A i \in 1 .. Len(switched) :
             LET x == switched[i].of[1] IN commands'[CommandOf(x)] = commands[CommandOf(x)]
      BY <1>13 DEF Inner, SwitchInv, Applied, Grown
    <2>2. \A i \in 1 .. Len(switched) :
             /\ Answers(switched[i].of[1])' = Answers(switched[i].of[1])
             /\ Tag(switched[i].of[1])' = Tag(switched[i].of[1])
             /\ Body(switched[i].of[1])' = Body(switched[i].of[1])
      BY <1>8, <2>1 DEF Answers, Tag, Body
    <2>3. Open' = Open
      BY <1>8 DEF Open
    <2>4. \A i \in 1 .. Len(answers) :
             i \in 1 .. Len(switched) /\ answers[i] = Answers(switched[i].of[1])'
      BY <2>2 DEF Inner, SendInv
    <2>5. \A i \in 1 .. Len(switched) :
            /\ 2 * (i - Len(answers)) - 1 \in 1 .. Len(tcp_send_event) =>
                  buffer'[tcp_send_event[2 * (i - Len(answers)) - 1]] = Tag(switched[i].of[1])'
            /\ 2 * (i - Len(answers)) \in 1 .. Len(tcp_send_event) =>
                  buffer'[tcp_send_event[2 * (i - Len(answers))]] = Body(switched[i].of[1])'
      BY <1>16, <2>2 DEF Inner, SendInv, Alike
    <2>6. pc \in {"tag", "body"} =>
             /\ Len(switched) # 0 /\ taken.of[1] = switched[Len(switched)].of[1]
             /\ taken.peer = commands'[CommandOf(taken.of[1])].peer
      <3> SUFFICES ASSUME pc \in {"tag", "body"}
                   PROVE  /\ Len(switched) # 0 /\ taken.of[1] = switched[Len(switched)].of[1]
                          /\ taken.peer = commands'[CommandOf(taken.of[1])].peer
        OBVIOUS
      <3>1. /\ Len(switched) # 0 /\ taken.of[1] = switched[Len(switched)].of[1]
            /\ taken.peer = commands[CommandOf(taken.of[1])].peer
        BY DEF Inner, SendInv
      <3>2. Len(switched) \in 1 .. Len(switched)
        <4>1. Len(switched) \in Nat
          BY DEF Inner, TypeInv
        <4>2. QED  BY <3>1, <4>1
      <3>3. QED  BY <2>1, <3>1, <3>2
    <2>7. QED  BY <1>8, <2>3, <2>4, <2>5, <2>6 DEF Inner, SendInv
  <1>18. QED  BY <1>10, <1>11, <1>12, <1>14, <1>15, <1>17 DEF Inner, Inv

-----------------------------------------------------------------------------
(* The theorems.                                                           *)

LEMMA InitHolds ==
  ASSUME Init
  PROVE  Inner
  <1> USE DEF Init
  <1>1. /\ Coming = <<>> /\ Held = {} /\ Sent = {} /\ InQueue = {} /\ Mine = {}
        /\ Len(Coming) = 0 /\ Len(switched) = 0 /\ Len(answers) = 0
        /\ Len(tcp_send_event) = 0
    <2>1. <<>> \o <<>> = <<>>
      OBVIOUS
    <2>2. Coming = <<>>
      BY <2>1 DEF Coming, Upcoming
    <2>3. QED  BY <2>2 DEF Held, Sent, InQueue, Mine, Elements
  <1>2. TypeInv
    <2>1. buffer \in [Block -> [text : Texts, of : Nat]]
      <3>1. NoText \in [text : Texts, of : Nat]
        BY DEF NoText, Texts
      <3>2. QED  BY <3>1
    <2>2. \A S : <<>> \in Seq(S)
      OBVIOUS
    <2>3. taken \in [peer : Peer, switch : Switch, of : [1 .. 3 -> Nat]]
      <3>1. <<0, 0, 0>> \in [1 .. 3 -> Nat] /\ "client" \in Peer /\ "OFF" \in Switch
        BY DEF Peer, Switch
      <3> DEFINE o == <<0, 0, 0>>
      <3>2. o \in [1 .. 3 -> Nat] /\ taken = [peer |-> "client", switch |-> "OFF", of |-> o]
        BY <3>1
      <3> HIDE DEF o
      <3>3. QED  BY <3>1, <3>2
    <2>4. QED  BY <2>1, <2>2, <2>3 DEF TypeInv, Pc
  <1>3. OwnInv
    <2>1. memmap \in [Block -> Nat] /\ Stray(memmap, Held) = {} /\ 8 * received + lost = 0
      BY <1>1 DEF Stray, Used
    <2>2. Cardinality(Stray(memmap, Held)) = 8 * received + lost
      BY <2>1, FS_EmptySet
    <2>3. Sound(memmap, Held)
      BY <1>1 DEF Sound
    <2>4. QED  BY <1>1, <2>1, <2>2, <2>3 DEF OwnInv, Mem, Distinct
  <1>4. QueueInv
    BY <1>1 DEF QueueInv, Row
  <1>5. TakenInv /\ SwitchInv
    BY <1>1 DEF TakenInv, SwitchInv
  <1>6. SendInv
    BY <1>1 DEF SendInv, Open
  <1>7. QED  BY <1>2, <1>3, <1>4, <1>5, <1>6 DEF Inner

(* What was robbed stays so.                                               *)
LEMMA RobbedStays ==
  ASSUME robbed, [Next]_vars
  PROVE  robbed'
  <1>1. CASE UNCHANGED vars
    BY <1>1 DEF vars, owned
  <1>2. CASE LedTask
    <2>1. CASE Pend
      BY <2>1 DEF Pend, owned
    <2>2. CASE TakeAuth \/ TakeMsg \/ TakeId
      BY <2>2 DEF TakeAuth, TakeMsg, TakeId
    <2>3. CASE FreeSwitch \/ FreeAuth \/ FreeMsg \/ FreeId
      BY <2>3 DEF FreeSwitch, FreeAuth, FreeMsg, FreeId, Free
    <2>4. CASE SwitchLamp
      BY <2>4 DEF SwitchLamp, owned
    <2>5. CASE PostTag \/ PostBody
      BY <2>5 DEF PostTag, PostBody, PostAnswer, owned
    <2>6. QED  BY <1>2, <2>1, <2>2, <2>3, <2>4, <2>5 DEF LedTask
  <1>3. CASE Timeout \/ SendAnswer
    BY <1>3 DEF Timeout, SendAnswer, owned
  <1>4. ASSUME NEW peer \in Peer, NEW m \in Messages, Receive(peer, m)
        PROVE  robbed'
    BY <1>4 DEF Receive
  <1>5. QED  BY <1>1, <1>2, <1>3, <1>4 DEF Next

LEMMA NextKeeps ==
  ASSUME Inv, [Next]_vars
  PROVE  Inv'
  <1>1. CASE robbed
    BY <1>1, RobbedStays DEF Inv
  <1>2. CASE ~robbed
    <2>1. Inner
      BY <1>2 DEF Inv
    <2>2. CASE UNCHANGED vars
      <3>1. UNCHANGED <<memmap, buffer, led_event, tcp_send_event, pc, waiting, got, auth_msg,
                        msg, id_msg, taken, received, commands, switched, answers, fresh, lost>>
        BY <2>2 DEF vars, heap, queues, pend, pointers, input, output, owned
      <3>2. /\ Coming' = Coming /\ Held' = Held /\ Sent' = Sent /\ InQueue' = InQueue
            /\ Mine' = Mine /\ Ptr' = Ptr
        BY <3>1 DEF Coming, Held, Sent, InQueue, Mine, Ptr
      <3>3. TypeInv'
        BY <2>1, <3>1 DEF Inner, TypeInv
      <3>4. OwnInv'
        BY <2>1, <3>1, <3>2 DEF Inner, OwnInv
      <3>5. QueueInv' /\ TakenInv' /\ SwitchInv'
        BY <2>1, <3>1, <3>2 DEF Inner, QueueInv, TakenInv, SwitchInv
      <3>6. SendInv'
        BY <2>1, <3>1 DEF Inner, SendInv, Open, Tag, Body, Answers
      <3>7. QED  BY <3>3, <3>4, <3>5, <3>6 DEF Inner, Inv
    <2>3. CASE LedTask
      BY <2>1, <2>3, StepPend, StepTakeAuth, StepTakeMsg, StepFreeSwitch, StepTakeId,
         StepSwitchLamp, StepPostTag, StepPostBody, StepFreeAuth, StepFreeMsg, StepFreeId
         DEF LedTask
    <2>4. CASE Timeout
      BY <2>1, <2>4, StepTimeout
    <2>5. CASE SendAnswer
      BY <2>1, <2>5, StepSendAnswer
    <2>6. ASSUME NEW peer \in Peer, NEW m \in Messages, Receive(peer, m)
          PROVE  Inv'
      BY <2>1, <2>6, StepReceive
    <2>7. QED  BY <2>2, <2>3, <2>4, <2>5, <2>6 DEF Next
  <1>3. QED  BY <1>1, <1>2

(* In every state in which led_task has freed no block of somebody else:   *)
(* no run of blocks has two owners, and those nobody owns are counted; what*)
(* is on its way are the parts of commands in the order they came, with    *)
(* whole commands or the ends of commands missing between them; led_task   *)
(* has taken the beginning of one; and the answers written and waiting are *)
(* those of the switches (ihome_function.c, tcp_client.c).                 *)
THEOREM InvHolds == Spec => []Inv
  <1>1. Init => Inv
    BY InitHolds DEF Inv
  <1>2. Inv /\ [Next]_vars => Inv'
    BY NextKeeps
  <1>3. QED  BY <1>1, <1>2, PTL DEF Spec

(* The lamp is switched by the three parts of one command, in the order of *)
(* the commands, each once, whatever the queue refuses and whenever a pend *)
(* times out (ihome_function.c: the comparisons of led_task).              *)
THEOREM AppliesWholeHolds == Spec => []AppliesWhole
  <1>1. Inv => AppliesWhole
    <2> SUFFICES ASSUME Inv, ~robbed, NEW i \in 1 .. Len(switched)
                 PROVE  LET x == switched[i].of[1]
                            command == commands[CommandOf(x)]
                        IN /\ x % 3 = 1 /\ switched[i].of = <<x, x + 1, x + 2>>
                           /\ command.switch \in {switched[i].switch, "other"}
                           /\ command.id = "0"
                           /\ i > 1 => switched[i - 1].of[1] < x
      BY DEF AppliesWhole
    <2> DEFINE o == switched[i].of
               x == o[1]
    <2>1. Inner /\ Applied(commands, switched, i)
      BY DEF Inv, Inner, SwitchInv
    <2>2. /\ x \in Nat \ {0} /\ Turn(x) = 0 /\ o[2] = x + 1 /\ o[3] = x + 2
          /\ commands[CommandOf(x)].switch \in {switched[i].switch, "other"}
          /\ commands[CommandOf(x)].id = "0"
          /\ \A j \in 1 .. Len(switched) : j < i => switched[j].of[1] < x
      BY <2>1 DEF Applied
    <2>3. o \in [1 .. 3 -> Nat]
      <3> DEFINE z == switched[i]
      <3>1. z \in [switch : Switch, of : [1 .. 3 -> Nat]]
        BY <2>1, ElementIn DEF Inner, TypeInv
      <3> HIDE DEF z
      <3>2. z.of \in [1 .. 3 -> Nat]
        BY <3>1
      <3>3. QED  BY <3>2 DEF z
    <2>4. i > 1 => switched[i - 1].of[1] < x
      <3>1. i > 1 => i - 1 \in 1 .. Len(switched) /\ i - 1 < i
        <4>1. Len(switched) \in Nat
          BY <2>1 DEF Inner, TypeInv
        <4>2. QED  BY <4>1
      <3>2. QED  BY <2>2, <3>1
    <2> HIDE DEF o
    <2>5. o = <<x, x + 1, x + 2>>
      BY <2>2, <2>3
    <2>6. x % 3 = 1
      <3>1. CommandOf(x) \in Nat \ {0} /\ x = 3 * (CommandOf(x) - 1) + 0 + 1
        BY <2>2, TurnOf
      <3> DEFINE k == CommandOf(x) - 1
      <3>2. k \in Nat /\ x = 3 * k + 1
        BY <3>1
      <3> HIDE DEF x, k
      <3>3. QED  BY <3>2
    <2>7. QED  BY <2>2, <2>4, <2>5, <2>6 DEF o
  <1>2. QED  BY <1>1, InvHolds, PTL

(* The answer goes to the peer that asked, and the answers are those of the*)
(* switches, in that order, whoever asks meanwhile (the two posts of       *)
(* led_task, and tcp_send_task).                                           *)
THEOREM AnswersAskerHolds == Spec => []AnswersAsker
  <1>1. Inv => AnswersAsker
    <2> SUFFICES ASSUME Inv, ~robbed
                 PROVE  /\ Len(answers) <= Len(switched)
                        /\ \A i \in 1 .. Len(answers) :
                              LET x == switched[i].of[1] IN
                              answers[i] = [to |-> commands[CommandOf(x)].peer,
                                            text |-> "answer", of |-> <<x, x>>]
      BY DEF AnswersAsker
    <2>1. /\ \A i \in 1 .. Len(answers) :
                i \in 1 .. Len(switched) /\ answers[i] = Answers(switched[i].of[1])
          /\ Len(answers) \in Nat /\ Len(switched) \in Nat
      <3>1. Inner
        BY DEF Inv
      <3>2. Len(answers) \in Nat /\ Len(switched) \in Nat
        BY <3>1 DEF Inner, TypeInv
      <3>3. QED  BY <3>1, <3>2 DEF Inner, SendInv
    <2>2. Len(answers) <= Len(switched)
      <3>1. Len(answers) # 0 => Len(answers) \in 1 .. Len(answers)
        BY <2>1
      <3>2. QED  BY <2>1, <3>1
    <2>3. QED  BY <2>1, <2>2 DEF Answers
  <1>2. QED  BY <1>1, InvHolds, PTL

(* At rest exactly the two buffers of each received message, what led_event*)
(* refused and what led_task gave up half-way is in use, unless the second *)
(* free of the switch's block met somebody else's.                         *)
THEOREM AllFreedHolds == Spec => []AllFreed
  <1>1. Inv => AllFreed
    <2> SUFFICES ASSUME Inv, ~robbed, AtRest
                 PROVE  Cardinality({b \in Block : memmap[b] # 0}) = 8 * received + lost
      BY DEF AllFreed
    <2>1. Inner
      BY DEF Inv
    <2>2. fresh = {} /\ Coming = <<>> /\ tcp_send_event = <<>>
      <3>1. <<>> \o <<>> = <<>>
        OBVIOUS
      <3>2. QED  BY <2>1, <3>1 DEF AtRest, Inner, TypeInv, FreshAt, Coming, Upcoming
    <2>3. Held = {}
      BY <2>2 DEF Held, InQueue, Mine, Sent, Elements
    <2>4. Stray(memmap, Held) = {b \in Block : memmap[b] # 0}
      BY <2>3 DEF Stray, Used
    <2>5. QED  BY <2>1, <2>4 DEF Inner, OwnInv, Mem
  <1>2. QED  BY <1>1, InvHolds, PTL

=============================================================================
