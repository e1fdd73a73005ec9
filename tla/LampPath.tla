------------------------------ MODULE LampPath ------------------------------
(***************************************************************************)
(* The way of a lamp command: tcp_handle_task posts it to led_event as     *)
(* three buffers (who asks, ON or OFF, which lamp), led_task pends for     *)
(* them one by one, switches the lamp, posts its answer to tcp_send_event  *)
(* as two buffers, and frees the three it has used.                        *)
(*                                                                         *)
(* tcp_handle_task (11) and tcp_send_task (12) run above led_task (17): the*)
(* commands of one received message are posted in one step, and led_task   *)
(* can be interrupted before each of its own.  tcp_send_task writes an     *)
(* answer when it has both buffers, or later: it may be held up in the     *)
(* write of an earlier message, as long as the send buffer of that         *)
(* connection is full, and the answers then wait in the queue.             *)
(*                                                                         *)
(* Buffers are runs of blocks of the allocator, of the lengths the code    *)
(* asks for; the search of malloc.c runs from the top, so the highest run  *)
(* free is taken, and each of its entries in the table says how long it is.*)
(* myfree reads the entry of the block it is given: nothing happens if it  *)
(* is unused, and if the block has been given out again its new owner      *)
(* loses it.  led_task frees the buffer of the switch twice: robbed says   *)
(* whether it has ever freed a block so that is somebody else's by then.   *)
(* Every text is shorter than a block.  led_task is taken as the only      *)
(* sender, and tcp_send_event has room: what others do to that queue, and  *)
(* what it does when it is full, is the subject of TcpSend.                *)
(***************************************************************************)
EXTENDS Integers, Sequences, FiniteSets, FiniteSetsExt

CONSTANTS
    Blocks,       \* blocks of the bank
    MSGSIZE,      \* size of led_event (message_queue.h)
    Asked,        \* commands users send, [switch, id]
    MaxLen,       \* bound: commands in one received message
    MaxCommands,  \* bound: commands received
    MaxMessages   \* bound: messages received

ASSUME SizeAssumption == Blocks \in Nat /\ MSGSIZE \in Nat \ {0}
ASSUME BoundAssumption == {MaxLen, MaxCommands, MaxMessages} \subseteq Nat
ASSUME AskedAssumption ==
    Asked \subseteq [switch : {"ON", "OFF", "other"}, id : {"0", "1"}]

Peer == {"client", "server"}
Switch == {"ON", "OFF"}
Block == 1 .. Blocks
NULL == 0

VARIABLES
    memmap,          \* the table: 0, or the length of the run a block is in
    buffer,          \* what a block holds: a text, and the part it is
    led_event,       \* the queue: blocks
    tcp_send_event,  \* the queue: blocks
    pc, waiting, got,          \* led_task: where, in OSQPend, what it returned
    auth_msg, msg, id_msg,     \* its pointers
    taken,           \* what its comparisons have found: peer and switch;
                     \* history: the parts it has compared
    received,        \* number of messages received
    commands,        \* history: commands received, and from whom
    cut,             \* history: is the last part led_event took not the end of a command?
    whole,           \* history: commands all taken, and not behind one cut off
    switched,        \* what the lamp was set to; history: by which parts
    answers,         \* history: answers written, to whom, and for which part
    fresh,           \* history: the pointers to a buffer not freed since it was taken
    robbed,          \* history: has led_task freed a block of somebody else?
    lost             \* history: blocks that nobody will free

queues == <<led_event, tcp_send_event>>
heap == <<memmap, buffer>>
pend == <<waiting, got>>
pointers == <<auth_msg, msg, id_msg>>
input == <<received, commands, cut, whole>>
output == <<switched, answers>>
owned == <<fresh, robbed, lost>>
vars == <<heap, queues, pc, pend, pointers, taken, input, output, owned>>

NoText == [text |-> "", of |-> 0]

Init ==
    /\ memmap = [b \in Block |-> 0]
    /\ buffer = [b \in Block |-> NoText]
    /\ led_event = <<>> /\ tcp_send_event = <<>>
    /\ pc = "auth" /\ waiting = FALSE /\ got = NULL
    /\ auth_msg = NULL /\ msg = NULL /\ id_msg = NULL
    /\ taken = [peer |-> "client", switch |-> "OFF", of |-> <<0, 0, 0>>]
    /\ received = 0 /\ commands = <<>> /\ cut = FALSE /\ whole = {}
    /\ switched = <<>> /\ answers = <<>>
    /\ fresh = {} /\ robbed = FALSE /\ lost = 0

\* Where mymalloc finds n blocks in a row, and what it makes of the table.
Rooms(table, n) ==
    {b \in 1 .. Blocks - n + 1 : \A k \in b .. b + n - 1 : table[k] = 0}
Room(table, n) == Max(Rooms(table, n))
Marked(table, b, n) ==
    SubSeq(table, 1, b - 1) \o [k \in 1 .. n |-> n] \o SubSeq(table, b + n, Blocks)

\* What myfree makes of it.
Freed(table, b) ==
    IF b = NULL THEN table
    ELSE [k \in Block |-> IF k \in b .. b + table[b] - 1 THEN 0 ELSE table[k]]

-----------------------------------------------------------------------------
(* tcp_handle_task.                                                        *)

\* The state its posts change, the parts led_event took, and the blocks of the others.
\* recv_msg, 200 bytes, and the name of the peer, 7 bytes: neither is freed.
Posting(peer) ==
    LET table == Marked(memmap, Room(memmap, 7), 7)
        b == Room(table, 1)
    IN [memmap |-> Marked(table, b, 1),
        buffer |-> [buffer EXCEPT ![b] = [text |-> peer, of |-> 0]],
        q |-> led_event, got |-> got, took |-> 0, lost |-> lost]

\* What a part's buffer says.  For a switch that is neither LAMP_ON nor LAMP_OFF
\* nothing is written: the block says what it said to its last owner.
Written(old, part) ==
    [text |-> IF part.text = "other" THEN old.text ELSE part.text, of |-> part.of]

\* A slip: the newest message of a full queue is overwritten.
PostPart_Overwrite(s, part) ==
    LET b == Room(s.memmap, part.blocks)
        hand == waiting /\ s.got = NULL
        full == Len(s.q) >= MSGSIZE
    IN [memmap |-> Marked(s.memmap, b, part.blocks),
        buffer |-> [s.buffer EXCEPT ![b] = Written(@, part)],
        q |-> IF hand THEN s.q
              ELSE IF full THEN [s.q EXCEPT ![MSGSIZE] = b] ELSE Append(s.q, b),
        got |-> IF hand THEN b ELSE s.got,
        took |-> s.took + 1, lost |-> s.lost]

(* One part: allocated, written, and posted: to led_task if it waits, to   *)
(* the queue if there is room, to nobody else.                             *)
PostPart(s, part) ==
    LET b == Room(s.memmap, part.blocks)
        hand == waiting /\ s.got = NULL
        full == ~hand /\ Len(s.q) >= MSGSIZE
    IN [memmap |-> Marked(s.memmap, b, part.blocks),
        buffer |-> [s.buffer EXCEPT ![b] = Written(@, part)],
        q |-> IF hand \/ full THEN s.q ELSE Append(s.q, b),
        got |-> IF hand THEN b ELSE s.got,
        took |-> IF full THEN s.took ELSE s.took + 1,
        lost |-> IF full THEN s.lost + part.blocks ELSE s.lost]

\* The parts of all commands of a message, the first of which is command n + 1; the
\* parts of all messages are numbered through.  7, 10 and ACCOUNT_MAX + 1 bytes, in
\* blocks of 32.
PartsOf(peer, m, n) ==
    [x \in 1 .. 3 * Len(m) |->
        LET c == m[((x - 1) \div 3) + 1]
        IN [text |-> <<peer, c.switch, c.id>>[((x - 1) % 3) + 1],
            blocks |-> <<1, 1, 2>>[((x - 1) % 3) + 1],
            of |-> 3 * n + x]]

\* Has led_task done with all that led_event took?
LedDone == led_event = <<>> /\ got = NULL /\ pc \notin {"msg", "freeSwitch", "id"}

(* One received message: stored by the receive task of the connection it   *)
(* came by, and its lamp commands posted; it may have none.  Bound: there  *)
(* is room for it.                                                         *)
Receive(peer, m) ==
    LET n == Len(commands)
        parts == PartsOf(peer, m, n)
        posted[x \in 0 .. Len(parts)] ==
            IF x = 0 THEN Posting(peer) ELSE PostPart(posted[x - 1], parts[x])
        s == posted[Len(parts)]
        behind == IF cut /\ ~LedDone THEN {n + 1} ELSE {}
    IN /\ n + Len(m) <= MaxCommands /\ received < MaxMessages
       /\ Rooms(memmap, 8 + 4 * Len(m)) # {}
       /\ memmap' = s.memmap /\ buffer' = s.buffer /\ led_event' = s.q
       /\ got' = s.got /\ lost' = s.lost
       /\ waiting' = (waiting /\ s.got = NULL)
       /\ received' = received + 1
       /\ commands' = commands \o [i \in 1 .. Len(m) |->
                        [peer |-> peer, switch |-> m[i].switch, id |-> m[i].id]]
       /\ cut' = IF s.took = 0 THEN cut ELSE s.took % 3 # 0
       /\ whole' = whole \cup ({n + i : i \in 1 .. s.took \div 3} \ behind)
       /\ UNCHANGED <<tcp_send_event, pc, pointers, taken, output, fresh, robbed>>

-----------------------------------------------------------------------------
(* led_task.                                                               *)

\* OSQPend: the oldest message, or wait for one.
Pend ==
    /\ pc \in {"auth", "msg", "id"} /\ ~waiting /\ got = NULL
    /\ IF led_event = <<>>
         THEN waiting' = TRUE /\ UNCHANGED <<got, led_event>>
         ELSE /\ got' = Head(led_event) /\ led_event' = Tail(led_event)
              /\ UNCHANGED waiting
    /\ UNCHANGED <<heap, tcp_send_event, pc, pointers, taken, input, output, owned>>

\* Nothing came in time: the pointer is the NULL that OSQPend returns, and led_task goes
\* back to the top of its loop and frees nothing: inside a command its first buffer is
\* lost.
Timeout ==
    /\ waiting
    /\ waiting' = FALSE /\ pc' = "auth"
    /\ auth_msg' = IF pc = "auth" THEN NULL ELSE auth_msg
    /\ msg' = IF pc = "msg" THEN NULL ELSE msg
    /\ id_msg' = IF pc = "id" THEN NULL ELSE id_msg
    /\ fresh' = fresh \ {"auth"}
    /\ lost' = IF "auth" \in fresh THEN lost + memmap[auth_msg] ELSE lost
    /\ UNCHANGED <<heap, queues, got, taken, input, output, robbed>>

Word == buffer[got].text
WordOf == buffer[got].of

\* A slip: the user's commands are not recognised.
TakeAuth_ClientOnly ==
    /\ pc = "auth" /\ got # NULL
    /\ auth_msg' = got /\ got' = NULL
    /\ IF Word = "client"
         THEN pc' = "msg" /\ taken' = [taken EXCEPT !.peer = Word, !.of[1] = WordOf]
         ELSE pc' = "freeAuth" /\ UNCHANGED taken
    /\ fresh' = fresh \cup {"auth"}
    /\ UNCHANGED <<heap, queues, waiting, msg, id_msg, input, output, robbed, lost>>

TakeAuth ==
    /\ pc = "auth" /\ got # NULL
    /\ auth_msg' = got /\ got' = NULL
    /\ IF Word \in Peer
         THEN pc' = "msg" /\ taken' = [taken EXCEPT !.peer = Word, !.of[1] = WordOf]
         ELSE pc' = "freeAuth" /\ UNCHANGED taken
    /\ fresh' = fresh \cup {"auth"}
    /\ UNCHANGED <<heap, queues, waiting, msg, id_msg, input, output, robbed, lost>>

TakeMsg ==
    /\ pc = "msg" /\ got # NULL
    /\ msg' = got /\ got' = NULL
    /\ IF Word \in Switch
         THEN pc' = "freeSwitch" /\ taken' = [taken EXCEPT !.switch = Word, !.of[2] = WordOf]
         ELSE pc' = "freeAuth" /\ UNCHANGED taken
    /\ fresh' = fresh \cup {"msg"}
    /\ UNCHANGED <<heap, queues, waiting, auth_msg, id_msg, input, output, robbed, lost>>

\* myfree of one of its pointers.
Free(name, pointer) ==
    /\ memmap' = Freed(memmap, pointer)
    /\ fresh' = fresh \ {name}
    /\ robbed' = (robbed \/ (name \notin fresh /\ pointer # NULL /\ memmap[pointer] # 0))
    /\ UNCHANGED <<buffer, queues, pend, pointers, taken, input, output, lost>>

\* The free at the head of each branch (lines 343, 377, 423, 458).
FreeSwitch == pc = "freeSwitch" /\ pc' = "id" /\ Free("msg", msg)

TakeId ==
    /\ pc = "id" /\ got # NULL
    /\ id_msg' = got /\ got' = NULL
    /\ IF Word = "0"
         THEN pc' = "switch" /\ taken' = [taken EXCEPT !.of[3] = WordOf]
         ELSE pc' = "freeAuth" /\ UNCHANGED taken
    /\ fresh' = fresh \cup {"id"}
    /\ UNCHANGED <<heap, queues, waiting, auth_msg, msg, input, output, robbed, lost>>

SwitchLamp ==
    /\ pc = "switch"
    /\ switched' = Append(switched, [switch |-> taken.switch, of |-> taken.of])
    /\ pc' = "tag"
    /\ UNCHANGED <<heap, queues, pend, pointers, taken, input, answers, owned>>

\* A buffer of the answer: the peer's name, 7 bytes, then the text, 74.  Bound: there is
\* room for it.
PostAnswer(text, blocks) ==
    LET b == Room(memmap, blocks) IN
    /\ Rooms(memmap, blocks) # {}
    /\ memmap' = Marked(memmap, b, blocks)
    /\ buffer' = [buffer EXCEPT ![b] = [text |-> text, of |-> taken.of[1]]]
    /\ tcp_send_event' = Append(tcp_send_event, b)
    /\ UNCHANGED <<led_event, pend, pointers, taken, input, output, owned>>

\* A slip: one of the four copies of the branch names the wrong peer.
PostTag_Client == pc = "tag" /\ pc' = "body" /\ PostAnswer("client", 1)

PostTag == pc = "tag" /\ pc' = "body" /\ PostAnswer(taken.peer, 1)
PostBody == pc = "body" /\ pc' = "freeAuth" /\ PostAnswer("answer", 3)

FreeAuth == pc = "freeAuth" /\ pc' = "freeMsg" /\ Free("auth", auth_msg)
FreeMsg == pc = "freeMsg" /\ pc' = "freeId" /\ Free("msg", msg)

\* A slip: the last of the three is not freed.
FreeId_Kept ==
    /\ pc = "freeId" /\ pc' = "auth"
    /\ UNCHANGED <<heap, queues, pend, pointers, taken, input, output, owned>>

FreeId == pc = "freeId" /\ pc' = "auth" /\ Free("id", id_msg)

LedTask ==
    \/ Pend \/ TakeAuth \/ TakeMsg \/ FreeSwitch \/ TakeId \/ SwitchLamp
    \/ PostTag \/ PostBody \/ FreeAuth \/ FreeMsg \/ FreeId

-----------------------------------------------------------------------------
(* tcp_send_task: one answer written, to the peer its first buffer names,  *)
(* to nobody when it names none; both buffers freed.                       *)
SendAnswer ==
    LET tag == tcp_send_event[1]
        body == tcp_send_event[2]
    IN /\ Len(tcp_send_event) >= 2
       /\ answers' = Append(answers, [to |-> buffer[tag].text, text |-> buffer[body].text,
                                      of |-> <<buffer[tag].of, buffer[body].of>>])
       /\ memmap' = Freed(Freed(memmap, tag), body)
       /\ tcp_send_event' = SubSeq(tcp_send_event, 3, Len(tcp_send_event))
       /\ UNCHANGED <<buffer, led_event, pc, pend, pointers, taken, input, switched, owned>>

-----------------------------------------------------------------------------

Messages == UNION {[1 .. n -> Asked] : n \in 0 .. MaxLen}

Next == LedTask \/ Timeout \/ SendAnswer \/ \E peer \in Peer, m \in Messages : Receive(peer, m)

Spec == Init /\ [][Next]_vars
FairSpec == Spec /\ WF_vars(LedTask) /\ WF_vars(Timeout) /\ WF_vars(SendAnswer)

-----------------------------------------------------------------------------
(* Properties.  Once led_task has freed a block of somebody else, any      *)
(* buffer may be written while another still uses it, and they say nothing *)
(* any more.                                                               *)

\* The command a part is of.
CommandOf(x) == ((x - 1) \div 3) + 1

(* The lamp is switched by the three parts of one command, to what this    *)
(* command asked for if it was ON or OFF, in the order the commands came,  *)
(* each once: neither a queue that is full in the middle of a command nor a*)
(* timeout makes the parts of two into one.                                *)
AppliesWhole ==
    ~robbed =>
        \A i \in 1 .. Len(switched) :
            LET x == switched[i].of[1]
                command == commands[CommandOf(x)]
            IN /\ x % 3 = 1 /\ switched[i].of = <<x, x + 1, x + 2>>
               /\ command.switch \in {switched[i].switch, "other"} /\ command.id = "0"
               /\ i > 1 => switched[i - 1].of[1] < x

(* The user who asked gets the answer, and the server its own, in the order*)
(* of the switches, each once, whatever waits in tcp_send_event and        *)
(* whoever sends commands meanwhile.                                       *)
AnswersAsker ==
    ~robbed =>
        /\ Len(answers) <= Len(switched)
        /\ \A i \in 1 .. Len(answers) :
              LET x == switched[i].of[1] IN
              answers[i] = [to |-> commands[CommandOf(x)].peer, text |-> "answer",
                            of |-> <<x, x>>]

AtRest ==
    /\ pc = "auth" /\ got = NULL /\ led_event = <<>> /\ tcp_send_event = <<>>

(* When everything is at rest the memory of all commands and answers is    *)
(* back, neither more nor less: in use are the two buffers of each received*)
(* message, those led_event refused, and the first buffer of each command  *)
(* led_task gave up half-way.                                              *)
AllFreed ==
    ~robbed /\ AtRest =>
        Cardinality({b \in Block : memmap[b] # 0}) = 8 * received + lost

(* A command whose three parts led_event has taken is carried out in the   *)
(* end (for the lamp there is, and ON or OFF), but for one that came       *)
(* directly behind the beginning of another, while led_task had not done   *)
(* with that: led_task takes its name for the rest of the other.           *)
Valid(k) == commands[k].id = "0" /\ commands[k].switch \in Switch
CarriedOut ==
    []<>(\/ robbed
         \/ \A k \in whole : Valid(k) =>
               \E i \in 1 .. Len(switched) : CommandOf(switched[i].of[3]) = k)

=============================================================================
