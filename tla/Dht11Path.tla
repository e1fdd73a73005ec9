----------------------------- MODULE Dht11Path ------------------------------
(***************************************************************************)
(* Requests for the temperature or the humidity: tcp_handle_task posts     *)
(* three buffers to dht11_event (who asks, TEMP or HUMI, which sensor),    *)
(* dht11_task (priority 18, below everything that posts) pends for them    *)
(* one by one, reads the sensor, posts its answer to tcp_send_event as two *)
(* buffers and frees the three it has used.                                *)
(*                                                                         *)
(* Memory is counted in blocks of the allocator (32 bytes).                *)
(***************************************************************************)
EXTENDS Integers, Sequences, SequencesExt, FiniteSetsExt

CONSTANTS
    DHT11SIZE,    \* size of dht11_event (message_queue.h)
    Here          \* the sensor this side has, "10000"

ASSUME DhtSizeAssumption == DHT11SIZE \in Nat \ {0}

Kind == {"TEMP", "HUMI"}

(* A buffer: which part of a request it is, and the number of the request. *)
NoPart == [part |-> "none", of |-> 0]

\* 7, 5 and ACCOUNT_MAX + 1 bytes; the name and the text of an answer.
Blocks(part) == CASE part \in {"auth", "msg1", "tag"} -> 1
                  [] part = "msg2" -> 2
                  [] part = "answer" -> 3
                  [] OTHER -> 0

VARIABLES
    dht11_event,      \* the queue: [part, of], of the number of a request
    dpc,              \* dht11_task: the pend that is next, or after them
    dwaiting, dgot,   \* is it asleep in it; what a post has given it
    msg, msg1, msg2,  \* its pointers
    requests,         \* history: what was asked, in order: the peer named
                      \* with the message and the one that sent it, kind, sensor
    answers,          \* history: the requests answered, and to whom with what
    refused,          \* history: blocks of the parts a queue had no room for
    unread,           \* history: requests the sensor did not answer
    dheld             \* blocks allocated for requests and not freed or given on

pointers == <<msg, msg1, msg2>>
dht11Vars == <<dht11_event, dpc, dwaiting, dgot, pointers, requests, answers,
               refused, unread, dheld>>

Dht11Init ==
    /\ dht11_event = <<>> /\ dpc = "msg" /\ dwaiting = FALSE /\ dgot = NoPart
    /\ msg = NoPart /\ msg1 = NoPart /\ msg2 = NoPart
    /\ requests = <<>> /\ answers = <<>> /\ refused = 0 /\ unread = 0 /\ dheld = 0

-----------------------------------------------------------------------------
(* tcp_handle_task.                                                        *)

DhtWaits == dwaiting /\ dgot = NoPart

Room == DHT11SIZE - Len(dht11_event)

\* A slip: the last entry of a full queue is overwritten.
Queued_Overwrite(parts) ==
    IF Len(parts) <= Room \/ Room = 0 THEN SubSeq(parts, 1, Min({Len(parts), Room}))
    ELSE SubSeq(parts, 1, Room - 1) \o <<Last(parts)>>

\* Of the parts posted one after the other, those the queue has room for.
Queued(parts) == SubSeq(parts, 1, Min({Len(parts), Room}))

\* The parts of so many requests, the first of them request n + 1.
Part == <<"auth", "msg1", "msg2">>
Parts(n, many) ==
    [k \in 1 .. 3 * many |->
        [part |-> Part[((k - 1) % 3) + 1], of |-> n + 1 + ((k - 1) \div 3)]]

\* Their blocks: those of the first k are upto[k].
Weight(parts) ==
    LET upto[k \in 0 .. Len(parts)] ==
            IF k = 0 THEN 0 ELSE upto[k - 1] + Blocks(parts[k].part)
    IN upto[Len(parts)]

\* A row of requests, three posts for each; dht11_task does not run between
\* them.  The first goes to it if it waits, the others to the queue or nowhere.
Ask(peer, sender, row) ==
    LET n == Len(requests)
        parts == Parts(n, Len(row))
        hand == DhtWaits /\ row # <<>>
        rest == IF hand THEN Tail(parts) ELSE parts
        queued == Queued(rest)
    IN /\ requests' = requests \o [k \in 1 .. Len(row) |->
                        [peer |-> peer, sender |-> sender, kind |-> row[k].kind,
                         id |-> row[k].id]]
       /\ dgot' = IF hand THEN Head(parts) ELSE dgot
       /\ dht11_event' = dht11_event \o queued
       /\ refused' = refused + Weight(rest) - Weight(queued)
       /\ dheld' = dheld + 4 * Len(row)
       /\ UNCHANGED <<dpc, dwaiting, pointers, answers, unread>>

-----------------------------------------------------------------------------
(* dht11_task.                                                             *)

\* OSQPend: the oldest part, or wait for one.
DhtPend ==
    /\ dpc \in {"msg", "msg1", "msg2"} /\ ~dwaiting /\ dgot = NoPart
    /\ IF dht11_event = <<>>
         THEN dwaiting' = TRUE /\ UNCHANGED <<dgot, dht11_event>>
         ELSE /\ dgot' = Head(dht11_event) /\ dht11_event' = Tail(dht11_event)
              /\ UNCHANGED dwaiting
    /\ UNCHANGED <<dpc, pointers, requests, answers, refused, unread, dheld>>

\* The pend returns: what it gave is kept in the pointer it is for.
DhtTake ==
    /\ dgot # NoPart
    /\ dgot' = NoPart /\ dwaiting' = FALSE
    /\ \/ dpc = "msg" /\ msg' = dgot /\ dpc' = "msg1" /\ UNCHANGED <<msg1, msg2>>
       \/ dpc = "msg1" /\ msg1' = dgot /\ dpc' = "msg2" /\ UNCHANGED <<msg, msg2>>
       \/ dpc = "msg2" /\ msg2' = dgot /\ dpc' = "read" /\ UNCHANGED <<msg, msg1>>
    /\ UNCHANGED <<dht11_event, requests, answers, refused, unread, dheld>>

\* A slip: the first buffer is forgotten when the third does not come.
DhtTimeout_Msg1Only ==
    /\ dpc \in {"msg1", "msg2"} /\ DhtWaits
    /\ dheld' = dheld - Blocks(msg1.part) - (IF dpc = "msg1" THEN Blocks(msg.part) ELSE 0)
    /\ msg' = NoPart /\ msg1' = NoPart
    /\ dwaiting' = FALSE /\ dpc' = "msg"
    /\ UNCHANGED <<dht11_event, dgot, msg2, requests, answers, refused, unread>>

\* The second or the third does not come in 500 ticks: what came is freed.
DhtTimeout ==
    /\ dpc \in {"msg1", "msg2"} /\ DhtWaits
    /\ dheld' = dheld - Blocks(msg.part) - Blocks(msg1.part)
    /\ msg' = NoPart /\ msg1' = NoPart
    /\ dwaiting' = FALSE /\ dpc' = "msg"
    /\ UNCHANGED <<dht11_event, dgot, msg2, requests, answers, refused, unread>>

\* What the comparisons of the texts find.  A text is compared as what it stands
\* for in the request it is of, and is nothing else's.
IsAuth(b) == b.part = "auth"
IsKind(b) == b.part = "msg1"
IsHere(b) == b.part = "msg2" /\ requests[b.of].id = Here
ForMe == IsAuth(msg) /\ IsKind(msg1) /\ IsHere(msg2)

\* Somebody else's, or parts of different requests: the three are only freed.
NotForMe ==
    /\ dpc = "read" /\ ~ForMe
    /\ dpc' = "free"
    /\ UNCHANGED <<dht11_event, dwaiting, dgot, pointers, requests, answers, refused,
                   unread, dheld>>

\* The sensor does not answer: back to the top, the three are not freed.
NoReading ==
    /\ dpc = "read" /\ ForMe
    /\ unread' = unread + 1
    /\ msg' = NoPart /\ msg1' = NoPart /\ msg2' = NoPart /\ dpc' = "msg"
    /\ UNCHANGED <<dht11_event, dwaiting, dgot, requests, answers, refused, dheld>>

(* It answers: the name and the text of the answer are posted to           *)
(* tcp_send_event, which takes the parts named; these are no longer        *)
(* dht11_task's.  The name is the one compared, msg; a refused part is     *)
(* lost.                                                                   *)
Answer(accepted) ==
    /\ dpc = "read" /\ ForMe
    /\ answers' = IF accepted = {"tag", "answer"}
                    THEN Append(answers, [to |-> requests[msg.of].peer,
                                          kind |-> requests[msg1.of].kind,
                                          of |-> <<msg.of, msg1.of, msg2.of>>])
                    ELSE answers
    /\ LET lost == (IF "tag" \in accepted THEN 0 ELSE Blocks("tag"))
                   + (IF "answer" \in accepted THEN 0 ELSE Blocks("answer"))
       IN refused' = refused + lost /\ dheld' = dheld + lost
    /\ dpc' = "free"
    /\ UNCHANGED <<dht11_event, dwaiting, dgot, pointers, requests, unread>>

DhtFree ==
    /\ dpc = "free"
    /\ dheld' = dheld - (Blocks(msg.part) + Blocks(msg1.part) + Blocks(msg2.part))
    /\ msg' = NoPart /\ msg1' = NoPart /\ msg2' = NoPart /\ dpc' = "msg"
    /\ UNCHANGED <<dht11_event, dwaiting, dgot, requests, answers, refused, unread>>

=============================================================================
