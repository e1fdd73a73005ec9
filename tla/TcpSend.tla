------------------------------ MODULE TcpSend ------------------------------
(***************************************************************************)
(* The outgoing message path of the terminal: the kernel queue             *)
(* tcp_send_event, the tasks that post to it and tcp_send_task, its only   *)
(* reader (tcp_client.c, ihome_function.c).                                *)
(*                                                                         *)
(* A message is two buffers posted by two calls of OSQPost: first a tag,   *)
(* the string "client" or "server", that says to which peer the message    *)
(* goes, then the text itself.  tcp_send_task pends twice, for the tag and *)
(* for the text, and writes the text to the connection the tag names.      *)
(* Nothing but the order of the queue ties a text to its tag.              *)
(*                                                                         *)
(* uC/OS-II runs the ready task of the highest priority (the smallest      *)
(* number).  A task is inside a pair from its first OSQPost to its second, *)
(* and is ready all that time.                                             *)
(***************************************************************************)
EXTENDS Integers, Sequences

CONSTANTS
    Producer,   \* the tasks that post to tcp_send_event
    Prio,       \* their uC/OS-II priorities
    SendPrio,   \* the priority of tcp_send_task
    LinkPrio,   \* the lowest priority of the tasks that set the link flags
    Addressee,  \* the peers each producer writes to
    SENDSIZE,   \* the entries of the queue
    MaxPairs    \* bound: messages each producer begins

Peer == {"client", "server"}   \* "client": to the server, as its client
None == "none"

ASSUME PrioAssumption ==
    /\ SendPrio \in Nat /\ LinkPrio \in Nat
    /\ Prio \in [Producer -> Nat \ {SendPrio}]
    /\ \A p, q \in Producer : Prio[p] = Prio[q] => p = q
ASSUME AddresseeAssumption == Addressee \in [Producer -> SUBSET Peer]
ASSUME SizeAssumption == SENDSIZE \in Nat \ {0} /\ MaxPairs \in Nat

(* A buffer obtained from mymalloc, named by who filled it and with what.  *)
Buffer == [from : Producer, pair : Nat, part : {"auth", "msg"}, to : Peer]

(* The value of a pointer that holds no buffer.                            *)
Null == [from |-> None, pair |-> 0, part |-> None, to |-> None]

VARIABLES
    tcp_send_event,  \* the queue: a sequence of buffers
    half,            \* half[p]: addressee of the pair p has posted the tag of
    begun,           \* begun[p]: pairs p has begun
    pc,              \* where tcp_send_task is
    auth_msg, msg,   \* its two local pointers
    isConnected,     \* link to the server, as the flag of the code says
    isAccepted,      \* link to the user
    live,            \* buffers allocated and not yet freed
    dropped,         \* history: buffers OSQPost refused, the queue being full
    wire,            \* history: the calls of netconn_write, in order
    torn             \* history: since the path was last quiet, something may
                     \* have come between a tag and its text

prodVars == <<half, begun>>
linkVars == <<isConnected, isAccepted>>
taskVars == <<pc, auth_msg, msg>>
vars == <<tcp_send_event, prodVars, taskVars, linkVars, live, dropped, wire,
          torn>>

Init ==
    /\ tcp_send_event = <<>>
    /\ half = [p \in Producer |-> None]
    /\ begun = [p \in Producer |-> 0]
    /\ pc = "link" /\ auth_msg = Null /\ msg = Null
    /\ isConnected = FALSE /\ isAccepted = FALSE
    /\ live = {} /\ dropped = {}
    /\ wire = <<>>
    /\ torn = FALSE

-----------------------------------------------------------------------------
(* Scheduling.                                                             *)

MidPair(p) == half[p] # None

(* tcp_send_task is ready when it neither sleeps nor waits.                *)
SendReady == pc \in {"auth", "msg", "dispatch"}

(* A producer runs when no task above it can: neither a producer caught    *)
(* inside its pair, nor tcp_send_task.                                     *)
Runs(p) ==
    /\ \A q \in Producer : MidPair(q) => Prio[p] <= Prio[q]
    /\ SendReady => Prio[p] < SendPrio

SendRuns == \A q \in Producer : MidPair(q) => SendPrio < Prio[q]

-----------------------------------------------------------------------------
(* OSQPost: hand the buffer to the waiting task, else append it, else      *)
(* refuse it.  The callers ignore a refusal and lose the only pointer.     *)

Waiting == pc \in {"authWait", "msgWait"}
Full == Len(tcp_send_event) >= SENDSIZE

Refused == ~Waiting /\ Full

HandOver(b) ==
    /\ \/ pc = "authWait" /\ auth_msg' = b /\ pc' = "msg" /\ UNCHANGED msg
       \/ pc = "msgWait" /\ msg' = b /\ pc' = "dispatch" /\ UNCHANGED auth_msg
    /\ UNCHANGED <<tcp_send_event, dropped>>

(* Mutant: OSQPostFront in the place of OSQPost.                           *)
Append1_Front(b) ==
    /\ tcp_send_event' = <<b>> \o tcp_send_event
    /\ UNCHANGED <<taskVars, dropped>>

Append1(b) ==
    /\ tcp_send_event' = Append(tcp_send_event, b)
    /\ UNCHANGED <<taskVars, dropped>>

Refuse(b) ==
    /\ dropped' = dropped \union {b}
    /\ UNCHANGED <<tcp_send_event, taskVars>>

OSQPost(b) ==
    \/ Waiting /\ HandOver(b)
    \/ ~Waiting /\ ~Full /\ Append1(b)
    \/ Refused /\ Refuse(b)

Post(b) == OSQPost(b) /\ live' = live \union {b} /\ UNCHANGED <<linkVars, wire>>

(* Nothing is on its way: no buffer queued or held, no pair half posted.   *)
Quiet ==
    /\ tcp_send_event = <<>> /\ auth_msg = Null
    /\ \A p \in Producer : ~MidPair(p)

(* Keeps the history variable torn: it is set by an event that can part a  *)
(* tag from its text, and reset when the path is quiet.                    *)
TornIf(event) == torn' = ((torn \/ event) /\ ~Quiet')

(* The first half of a message: allocate the tag and post it.              *)
PostAuth(p, to) ==
    /\ Runs(p) /\ ~MidPair(p)
    /\ begun[p] < MaxPairs /\ to \in Addressee[p]
    /\ Post([from |-> p, pair |-> begun[p] + 1, part |-> "auth", to |-> to])
    /\ half' = [half EXCEPT ![p] = to]
    /\ begun' = [begun EXCEPT ![p] = @ + 1]
    /\ TornIf(Refused \/ \E q \in Producer : MidPair(q))

(* The second half: allocate the text and post it.                         *)
PostMsg(p) ==
    /\ Runs(p) /\ MidPair(p)
    /\ Post([from |-> p, pair |-> begun[p], part |-> "msg", to |-> half[p]])
    /\ half' = [half EXCEPT ![p] = None]
    /\ UNCHANGED begun
    /\ TornIf(Refused)

-----------------------------------------------------------------------------
(* tcp_send_task.                                                          *)

(* The loop head sleeps while both links are down.                         *)
LoopHead(connected, accepted) == IF connected \/ accepted THEN "auth" ELSE "link"

LinkCheck ==
    /\ pc = "link" /\ SendRuns
    /\ isConnected \/ isAccepted
    /\ pc' = "auth"
    /\ UNCHANGED <<tcp_send_event, prodVars, auth_msg, msg, linkVars, live,
                   dropped, wire, torn>>

(* The first OSQPend, without timeout.                                     *)
PendAuth ==
    /\ pc = "auth" /\ SendRuns
    /\ IF tcp_send_event = <<>>
         THEN pc' = "authWait" /\ UNCHANGED <<tcp_send_event, auth_msg>>
         ELSE /\ auth_msg' = Head(tcp_send_event)
              /\ tcp_send_event' = Tail(tcp_send_event)
              /\ pc' = "msg"
    /\ UNCHANGED <<prodVars, msg, linkVars, live, dropped, wire, torn>>

(* The second OSQPend, which gives up after 2000 ticks.                    *)
PendMsg ==
    /\ pc = "msg" /\ SendRuns
    /\ IF tcp_send_event = <<>>
         THEN pc' = "msgWait" /\ UNCHANGED <<tcp_send_event, msg>>
         ELSE /\ msg' = Head(tcp_send_event)
              /\ tcp_send_event' = Tail(tcp_send_event)
              /\ pc' = "dispatch"
    /\ UNCHANGED <<prodVars, auth_msg, linkVars, live, dropped, wire, torn>>

(* Mutant: the second wait has no timeout.                                 *)
MsgTimeout_Never == FALSE

(* The text did not come in 2000 ticks: only the tag is freed.             *)
MsgTimeout ==
    /\ pc = "msgWait" /\ SendRuns
    /\ live' = live \ {auth_msg}
    /\ auth_msg' = Null
    /\ pc' = LoopHead(isConnected, isAccepted)
    /\ UNCHANGED <<tcp_send_event, prodVars, msg, linkVars, dropped, wire>>
    /\ TornIf(\E p \in Producer : MidPair(p))

IsTag(b) == b.part = "auth"

(* Mutant: the tag is forgotten.                                           *)
FreeBoth_MsgOnly ==
    /\ live' = live \ {msg}
    /\ auth_msg' = Null /\ msg' = Null

FreeBoth ==
    /\ live' = live \ {auth_msg, msg}
    /\ auth_msg' = Null /\ msg' = Null

(* Mutant: the connection is chosen by the flags, not by the tag.          *)
StartWrite_ByFlag ==
    /\ pc = "dispatch" /\ SendRuns
    /\ IsTag(auth_msg)
    /\ wire' = Append(wire, [to |-> IF isAccepted THEN "server" ELSE "client",
                             buf |-> msg, torn |-> torn])
    /\ pc' = "writing"
    /\ UNCHANGED <<tcp_send_event, prodVars, auth_msg, msg, linkVars, live,
                   dropped, torn>>

(* What was taken for a tag names a peer: write, and wait for the stack.   *)
StartWrite ==
    /\ pc = "dispatch" /\ SendRuns
    /\ IsTag(auth_msg)
    /\ wire' = Append(wire, [to |-> auth_msg.to, buf |-> msg, torn |-> torn])
    /\ pc' = "writing"
    /\ UNCHANGED <<tcp_send_event, prodVars, auth_msg, msg, linkVars, live,
                   dropped, torn>>

(* It is neither "client" nor "server": both buffers are thrown away.      *)
Discard ==
    /\ pc = "dispatch" /\ SendRuns
    /\ ~IsTag(auth_msg)
    /\ FreeBoth
    /\ pc' = LoopHead(isConnected, isAccepted)
    /\ UNCHANGED <<tcp_send_event, prodVars, linkVars, dropped, wire>>
    /\ TornIf(FALSE)

(* netconn_write returns; an error clears the flag of that link.           *)
FinishWrite(ok) ==
    /\ pc = "writing" /\ SendRuns
    /\ isConnected' = (isConnected /\ (ok \/ auth_msg.to # "client"))
    /\ isAccepted' = (isAccepted /\ (ok \/ auth_msg.to # "server"))
    /\ FreeBoth
    /\ pc' = LoopHead(isConnected', isAccepted')
    /\ UNCHANGED <<tcp_send_event, prodVars, dropped, wire>>
    /\ TornIf(FALSE)

(* The connect, accept and receive tasks set and clear the flags.          *)
LinkChange ==
    /\ \A p \in Producer : MidPair(p) => LinkPrio < Prio[p]
    /\ \/ isConnected' = ~isConnected /\ UNCHANGED isAccepted
       \/ isAccepted' = ~isAccepted /\ UNCHANGED isConnected
    /\ UNCHANGED <<tcp_send_event, prodVars, taskVars, live, dropped, wire,
                   torn>>

SendTask ==
    \/ LinkCheck \/ PendAuth \/ PendMsg \/ MsgTimeout
    \/ StartWrite \/ Discard
    \/ \E ok \in BOOLEAN : FinishWrite(ok)

Next ==
    \/ \E p \in Producer : PostMsg(p) \/ \E to \in Peer : PostAuth(p, to)
    \/ SendTask
    \/ LinkChange

Spec == Init /\ [][Next]_vars

(* Fairness the kernel gives: a ready task at the head of the priorities   *)
(* runs, a 2000-tick wait ends, and netconn_write returns.                 *)
FairSpec ==
    /\ Spec
    /\ WF_vars(SendTask)
    /\ \A p \in Producer : WF_vars(PostMsg(p))

-----------------------------------------------------------------------------
(* Properties.                                                             *)

BufferOrNull == Buffer \union {Null}

(* The variables hold what the declarations of the code say they hold.     *)
TypeOK ==
    /\ tcp_send_event \in Seq(Buffer)
    /\ half \in [Producer -> Peer \union {None}]
    /\ begun \in [Producer -> Nat]
    /\ pc \in {"link", "auth", "authWait", "msg", "msgWait", "dispatch",
               "writing"}
    /\ auth_msg \in BufferOrNull /\ msg \in BufferOrNull
    /\ isConnected \in BOOLEAN /\ isAccepted \in BOOLEAN
    /\ live \subseteq Buffer /\ dropped \subseteq Buffer
    /\ wire \in Seq([to : Peer, buf : Buffer, torn : BOOLEAN])
    /\ torn \in BOOLEAN

(* Every write made while the path is not torn sends a text, and to the    *)
(* peer of the tag posted with it: only a full queue, two producers inside *)
(* their pairs at once or a timeout inside a pair can misroute a message,  *)
(* and only until the path is quiet again.                                 *)
PairIntegrity ==
    \A i \in 1..Len(wire) :
        ~wire[i].torn => wire[i].buf.part = "msg" /\ wire[i].buf.to = wire[i].to

Held == {auth_msg, msg} \ {Null}
Queued == {tcp_send_event[i] : i \in 1..Len(tcp_send_event)}

(* Each allocated buffer has exactly one owner: it is queued once, or held *)
(* by tcp_send_task in one pointer, or its post was refused and it is lost.*)
(* So nothing queued or held has been freed, and nothing is freed twice.   *)
OneOwner ==
    /\ live = Queued \union Held \union dropped
    /\ Queued \intersect Held = {} /\ dropped \intersect (Queued \union Held) = {}
    /\ \A i, j \in 1..Len(tcp_send_event) :
          tcp_send_event[i] = tcp_send_event[j] => i = j
    /\ auth_msg = msg => auth_msg = Null

(* tcp_send_task never waits while the queue holds a message, and the      *)
(* queue never exceeds its size: no wake-up is lost between the check of   *)
(* the queue and the wait.                                                 *)
NoLostWakeup ==
    /\ Waiting => tcp_send_event = <<>>
    /\ Len(tcp_send_event) <= SENDSIZE

(* The buffers of one task reach the connections in the order they were    *)
(* posted in, each at most once, torn or not.                              *)
Precedes(a, b) == \/ a.pair < b.pair
                  \/ a.pair = b.pair /\ IsTag(a) /\ ~IsTag(b)
InOrderOnce ==
    \A i, j \in 1..Len(wire) :
        i < j /\ wire[i].buf.from = wire[j].buf.from
            => Precedes(wire[i].buf, wire[j].buf)

(* Once the producers stop, the path comes to rest at the boundary of a    *)
(* message, with nothing held, or sleeps because both links are down: the  *)
(* 2000-tick wait is what gets it out of half a pair.                      *)
Settles == <>[](Quiet \/ pc = "link")

=============================================================================
