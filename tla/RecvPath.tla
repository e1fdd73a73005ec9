------------------------------ MODULE RecvPath ------------------------------
(***************************************************************************)
(* The way of a received message: tcp_client_recv and tcp_server_recv      *)
(* each copy what netconn_recv gave them into a buffer and post two        *)
(* buffers to tcp_handle_event, the name of the peer and the text;         *)
(* tcp_handle_task pends twice, the second time for 1000 ticks, and        *)
(* carries out the text as one of the peer the first buffer names.         *)
(*                                                                         *)
(* The receive tasks have priorities 9 and 10, tcp_handle_task 11.  So the *)
(* first can come between the two posts of the second, and the third runs  *)
(* only when neither has anything to do; it can be kept from running while *)
(* the queue of ten fills.                                                 *)
(***************************************************************************)
EXTENDS Integers, Sequences

CONSTANTS
    HANDLESIZE,   \* size of tcp_handle_event (message_queue.h)
    Text,         \* what a message can say
    MaxMessages   \* bound: messages received

ASSUME HandleSizeAssumption == HANDLESIZE \in Nat \ {0} /\ MaxMessages \in Nat

Peer == {"client", "server"}   \* the name posted: this side's role
RecvPrio == [client |-> 9, server |-> 10]
HandlePrio == 11

(* A buffer: the number of the message it is of, from whom that came, and  *)
(* whether it is the name of the peer or the text.                         *)
Silent == "nothing"
HandleBuffer ==
    [of : Nat, from : Peer, part : {"auth"}, says : {Silent}]
    \union [of : Nat, from : Peer, part : {"msg"}, says : Text]
None == [of |-> 0, from |-> "client", part |-> "none", says |-> Silent]
Name(n, p) == [of |-> n, from |-> p, part |-> "auth", says |-> Silent]
Message(n, p, text) == [of |-> n, from |-> p, part |-> "msg", says |-> text]

VARIABLES
    tcp_handle_event,   \* the queue
    recv_msg,           \* recv_msg[p]: the text p's task has yet to post
    received,           \* messages received
    pc,                 \* tcp_handle_task: which of its two pends is next
    waiting, got,       \* is it asleep in it; what a post has given it
    auth_msg,           \* what it took for a name
    taken,              \* history: the pairs it took, and whether torn
    torn                \* history: since the path was quiet, a name and its
                        \* text may have been parted

handleVars == <<pc, waiting, auth_msg, taken>>
recvPathVars == <<tcp_handle_event, recv_msg, received, handleVars, got, torn>>

RecvPathInit ==
    /\ tcp_handle_event = <<>>
    /\ recv_msg = [p \in Peer |-> None] /\ received = 0
    /\ pc = "auth" /\ waiting = FALSE /\ got = None /\ auth_msg = None
    /\ taken = <<>> /\ torn = FALSE

-----------------------------------------------------------------------------
(* Scheduling.                                                             *)

MidPair(p) == recv_msg[p] # None

\* A receive task runs when no receive task above it is inside its pair,
\* tcp_handle_task when neither is.
RecvRuns(p) == \A q \in Peer : MidPair(q) => RecvPrio[p] <= RecvPrio[q]

\* A slip: tcp_handle_task is put above the receive tasks.
HandleRuns_Above == TRUE
HandleRuns == \A p \in Peer : MidPair(p) => HandlePrio < RecvPrio[p]

Quiet ==
    /\ tcp_handle_event = <<>> /\ got = None /\ pc = "auth"
    /\ \A p \in Peer : ~MidPair(p)
TornIf(event) == torn' = ((torn \/ event) /\ ~Quiet')

-----------------------------------------------------------------------------
(* The receive tasks.                                                      *)

Waits == waiting /\ got = None
Full == ~Waits /\ Len(tcp_handle_event) >= HANDLESIZE

\* A slip: OSQPostFront in the place of OSQPost.
PostPart_Front(b) ==
    /\ got' = IF Waits THEN b ELSE got
    /\ tcp_handle_event' = IF Waits \/ Full THEN tcp_handle_event
                           ELSE <<b>> \o tcp_handle_event

\* OSQPost: to the task that waits, else to the end of the queue, else lost.
PostPart(b) ==
    /\ got' = IF Waits THEN b ELSE got
    /\ tcp_handle_event' = IF Waits \/ Full THEN tcp_handle_event
                           ELSE Append(tcp_handle_event, b)

\* netconn_recv returns a message: it is copied, the name of its peer posted.
Receive(p, text) ==
    /\ RecvRuns(p) /\ ~MidPair(p) /\ received < MaxMessages
    /\ received' = received + 1
    /\ recv_msg' = [recv_msg EXCEPT ![p] = Message(received + 1, p, text)]
    /\ PostPart(Name(received + 1, p))
    /\ UNCHANGED handleVars
    /\ TornIf(Full \/ \E q \in Peer : MidPair(q))

PostText(p) ==
    /\ RecvRuns(p) /\ MidPair(p)
    /\ PostPart(recv_msg[p])
    /\ recv_msg' = [recv_msg EXCEPT ![p] = None]
    /\ UNCHANGED <<received, handleVars>>
    /\ TornIf(Full)

-----------------------------------------------------------------------------
(* tcp_handle_task.                                                        *)

\* OSQPend: the oldest buffer, or wait for one.
Pend ==
    /\ HandleRuns /\ ~waiting /\ got = None
    /\ IF tcp_handle_event = <<>>
         THEN waiting' = TRUE /\ UNCHANGED <<tcp_handle_event, got>>
         ELSE /\ got' = Head(tcp_handle_event)
              /\ tcp_handle_event' = Tail(tcp_handle_event)
              /\ UNCHANGED waiting
    /\ UNCHANGED <<recv_msg, received, pc, auth_msg, taken, torn>>

\* The first pend returns.
TakeAuth ==
    /\ HandleRuns /\ pc = "auth" /\ got # None
    /\ auth_msg' = got /\ got' = None /\ waiting' = FALSE /\ pc' = "msg"
    /\ UNCHANGED <<tcp_handle_event, recv_msg, received, taken, torn>>

\* Both are there: what is taken for the name and for the text.
Take(msg) ==
    /\ taken' = Append(taken, [auth |-> auth_msg, msg |-> msg, torn |-> torn])
    /\ auth_msg' = None /\ got' = None /\ waiting' = FALSE /\ pc' = "auth"
    /\ UNCHANGED <<tcp_handle_event, recv_msg, received>>

TakeMsg ==
    /\ HandleRuns /\ pc = "msg" /\ got # None
    /\ Take(got) /\ TornIf(FALSE)

\* A slip: the second pend has no timeout.
Timeout_Never == FALSE

(* The second pend ends without a buffer.  The error is only printed:      *)
(* recv_msg is NULL, and what stands at address 0 is read as a message; it *)
(* is the table of interrupts, in which nothing looks like a command.      *)
Timeout ==
    /\ HandleRuns /\ pc = "msg" /\ Waits
    /\ Take(None) /\ TornIf(FALSE)

-----------------------------------------------------------------------------
(* Properties.                                                             *)

\* Is what was taken carried out, as a message of the peer named?
Carried(t) == t.auth.part = "auth" /\ t.msg.part = "msg"

(* A text is carried out as one of the peer that sent it, and the texts of *)
(* one peer in the order they came, each once: whatever the queue refused, *)
(* whoever came between, however late the second buffer was.               *)
HandledAsOwn ==
    \A i \in 1 .. Len(taken) : Carried(taken[i]) =>
        /\ taken[i].auth.of = taken[i].msg.of
        /\ \A j \in 1 .. i - 1 :
              Carried(taken[j]) /\ taken[j].msg.from = taken[i].msg.from
                  => taken[j].msg.of < taken[i].msg.of

(* What is taken while the path is not torn is one message: a message is   *)
(* lost only when the queue was full or one receive task came between the  *)
(* two posts of the other, or after that and before the path was quiet.    *)
PairsKept ==
    \A i \in 1 .. Len(taken) :
        ~taken[i].torn => Carried(taken[i]) /\ taken[i].auth.of = taken[i].msg.of

=============================================================================
