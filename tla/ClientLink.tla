----------------------------- MODULE ClientLink -----------------------------
(***************************************************************************)
(* The link of the terminal to the server: the connect, receive, handle    *)
(* and send tasks of tcp_client.c around the globals tcp_clientconn,       *)
(* isConnected and isAuthed, and the netconn objects of lwIP they share.   *)
(*                                                                         *)
(* Priorities decide what can interleave (task_priority.h): the tcpip      *)
(* thread (5), which carries the actions of the network, then connect (6), *)
(* receive (9), handle (11), send (12), the tasks behind the devices.  A   *)
(* task takes a step only when no task above it is ready; connect blocks   *)
(* after each of its steps.  The sleeps of the polling loops may end at    *)
(* any moment.  A handshake takes a round trip over the network, by which  *)
(* time the tasks below connect have done what they had to do.             *)
(*                                                                         *)
(* A message to send is one element here; how it is torn into two on its   *)
(* way is the subject of TcpSend.  No user is connected (isAccepted = 0).  *)
(* MaxInbox is far below the 20 entries of a recvmbox: the port's answer   *)
(* to a full one (sys_arch.c:164) does not arise here.                     *)
(***************************************************************************)
EXTENDS Integers, Sequences, FiniteSets

CONSTANTS
    Conn,        \* the netconns of the pool MEMP_NETCONN left to the client
    Faults,      \* what the server may do to a connection: "fin", "rst"
    Answers,     \* the server's answers to a login: "success", "failed"
    MaxFaults,   \* bound: connections it ends
    MaxSends,    \* bound: messages in tcp_send_event
    MaxReplies,  \* bound: replies in tcp_handle_event
    MaxInbox     \* bound: replies in the recvmbox of a netconn

NoConn == "null"
ASSUME ConnAssumption == NoConn \notin Conn /\ IsFiniteSet(Conn)
ASSUME FaultAssumption == Faults \subseteq {"fin", "rst"}
ASSUME AnswerAssumption == Answers \subseteq {"success", "failed"}
ASSUME BoundAssumption == {MaxFaults, MaxSends, MaxReplies, MaxInbox} \subseteq Nat

VARIABLES
    tcp_clientconn, isConnected, isAuthed,  \* the globals
    netconn,     \* netconn[c]: free, connecting, open, fin (closed by the
                 \* server) or dead (reset: no pcb, last_err fatal)
    recvmbox,    \* recvmbox[c]: replies, and "null" at the end
    connect,     \* connect task: "sleep", or "connecting" in netconn_connect
    recv, recvconn,    \* receive task, and the netconn its call is on
    handle,            \* handle task: the reply it works on
    tcp_handle_event,  \* replies on their way to it
    send,              \* send task
    tcp_send_event,    \* messages on their way to it
    owed,        \* connections on which the server owes an answer
    faults,      \* connections ended so far
    authCurrent, \* history: isAuthed comes from a reply on this connection
    early        \* history: a write has met a netconn_connect in progress

flags == <<tcp_clientconn, isConnected, isAuthed>>
stack == <<netconn, recvmbox>>
recvVars == <<recv, recvconn>>
handleVars == <<handle, tcp_handle_event>>
sendVars == <<send, tcp_send_event>>
server == <<owed, faults>>
hist == <<authCurrent, early>>
vars == <<flags, stack, connect, recvVars, handleVars, sendVars, server, hist>>

Idle == [answer |-> "none", current |-> FALSE]

Init ==
    /\ tcp_clientconn = NoConn /\ isConnected = FALSE /\ isAuthed = FALSE
    /\ netconn = [c \in Conn |-> "free"]
    /\ recvmbox = [c \in Conn |-> <<>>]
    /\ connect = "sleep"
    /\ recv = "sleep" /\ recvconn = NoConn
    /\ handle = Idle /\ tcp_handle_event = <<>>
    /\ send = "head" /\ tcp_send_event = <<>>
    /\ owed = {} /\ faults = 0
    /\ authCurrent = FALSE /\ early = FALSE

-----------------------------------------------------------------------------
(* Netconns.                                                               *)

In(c, states) == c \in Conn /\ netconn[c] \in states
Deleted(c) == In(c, {"free"})

Delete(c) ==
    /\ netconn' = [netconn EXCEPT ![c] = "free"]
    /\ recvmbox' = [recvmbox EXCEPT ![c] = <<>>]
    /\ owed' = owed \ {c}

(* recv_tcp and err_tcp put what arrived into the recvmbox.                *)
Arrive(c, m) == recvmbox' = [recvmbox EXCEPT ![c] = Append(@, m)]

-----------------------------------------------------------------------------
(* Scheduling.                                                             *)

(* netconn_recv fails at once on a dead netconn and the loop calls it      *)
(* again: the receive task never blocks.                                   *)
Spins == recv = "call" /\ isConnected /\ ~In(tcp_clientconn, {"connecting", "open", "fin"})

RecvReady ==
    \/ recv \in {"call", "close"}
    \/ recv = "blocked" /\ recvmbox[recvconn] # <<>>
HandleReady == handle # Idle \/ tcp_handle_event # <<>>
SendReady == send = "failed" \/ (send = "pend" /\ tcp_send_event # <<>>)

HandleRuns == ~RecvReady
(* Mutant: the send task above the receive task.                           *)
SendRuns_AboveRecv == TRUE
SendRuns == ~RecvReady /\ ~HandleReady
OthersRun == SendRuns /\ ~SendReady

(* A handshake ends when the tasks that can run have no work left.         *)
RoundTrip == Spins \/ OthersRun

-----------------------------------------------------------------------------
(* tcp_client_connect.                                                     *)

(* A message is lost when the queue is full.                               *)
Post(m) ==
    tcp_send_event' = IF Len(tcp_send_event) < MaxSends
                        THEN Append(tcp_send_event, m) ELSE tcp_send_event

(* Awake and not connected: a new netconn, and the call that connects it.  *)
(* Mutant: also while connected, when the login was refused.               *)
StartConnect_NotAuthed(c) ==
    /\ connect = "sleep" /\ ~isAuthed
    /\ netconn[c] = "free"
    /\ tcp_clientconn' = c
    /\ netconn' = [netconn EXCEPT ![c] = "connecting"]
    /\ connect' = "connecting"
    /\ UNCHANGED <<isConnected, isAuthed, recvmbox, recvVars, handleVars,
                   sendVars, server, hist>>

StartConnect(c) ==
    /\ connect = "sleep" /\ ~isConnected
    /\ netconn[c] = "free"
    /\ tcp_clientconn' = c
    /\ netconn' = [netconn EXCEPT ![c] = "connecting"]
    /\ connect' = "connecting"
    /\ UNCHANGED <<isConnected, isAuthed, recvmbox, recvVars, handleVars,
                   sendVars, server, hist>>

(* The pool is empty: netconn_new returns NULL, the calls on it fail.      *)
NoNetconn ==
    /\ connect = "sleep" /\ ~isConnected
    /\ \A c \in Conn : netconn[c] # "free"
    /\ tcp_clientconn' = NoConn
    /\ UNCHANGED <<isConnected, isAuthed, stack, connect, recvVars,
                   handleVars, sendVars, server, hist>>

(* netconn_connect has returned ERR_OK: the flags, and a login at once.    *)
(* What came before belongs to an earlier connection.                      *)
(* Mutant: isAuthed is left as it was.                                     *)
LinkUp_KeepAuth ==
    /\ connect = "connecting" /\ connect' = "sleep"
    /\ isConnected' = TRUE /\ isAuthed' = isAuthed
    /\ authCurrent' = FALSE
    /\ tcp_handle_event' = [i \in DOMAIN tcp_handle_event |->
                              [tcp_handle_event[i] EXCEPT !.current = FALSE]]
    /\ handle' = [handle EXCEPT !.current = FALSE]

LinkUp ==
    /\ connect = "connecting" /\ connect' = "sleep"
    /\ isConnected' = TRUE /\ isAuthed' = FALSE
    /\ authCurrent' = FALSE
    /\ tcp_handle_event' = [i \in DOMAIN tcp_handle_event |->
                              [tcp_handle_event[i] EXCEPT !.current = FALSE]]
    /\ handle' = [handle EXCEPT !.current = FALSE]

Connected ==
    /\ RoundTrip /\ LinkUp
    /\ netconn' = [netconn EXCEPT ![tcp_clientconn] = "open"]
    /\ Post("login")
    /\ UNCHANGED <<tcp_clientconn, recvmbox, recvVars, send, server, early>>

ConnectFailed ==
    /\ connect = "connecting"
    /\ Delete(tcp_clientconn)
    /\ connect' = "sleep"
    /\ UNCHANGED <<flags, recvVars, handleVars, sendVars, faults, hist>>

(* Awake, connected, not logged in: once more.                             *)
LoginAgain ==
    /\ connect = "sleep" /\ isConnected /\ ~isAuthed
    /\ Post("login")
    /\ UNCHANGED <<flags, stack, connect, recvVars, handleVars, send, server,
                   hist>>

-----------------------------------------------------------------------------
(* tcp_client_recv.                                                        *)

RecvWake ==
    /\ recv = "sleep" /\ isConnected
    /\ recv' = "call"
    /\ UNCHANGED <<flags, stack, connect, recvconn, handleVars, sendVars,
                   server, hist>>

(* netconn_recv on the netconn the global names now.                       *)
RecvCall ==
    /\ recv = "call"
    /\ recv' = IF ~isConnected THEN "sleep" ELSE IF Spins THEN "call" ELSE "blocked"
    /\ recvconn' = IF isConnected THEN tcp_clientconn ELSE recvconn
    /\ UNCHANGED <<flags, stack, connect, handleVars, sendVars, server,
                   hist>>

(* The call takes a message: a reply goes to tcp_handle_event as two posts *)
(* (lost when it is full), "null" is ERR_CLSD.                             *)
RecvFetch ==
    /\ recv = "blocked" /\ recvmbox[recvconn] # <<>>
    /\ recvmbox' = [recvmbox EXCEPT ![recvconn] = Tail(@)]
    /\ LET m == Head(recvmbox[recvconn])
       IN  /\ recv' = IF m = "null" THEN "close" ELSE "call"
           /\ tcp_handle_event' =
                IF m = "null" \/ Len(tcp_handle_event) = MaxReplies
                  THEN tcp_handle_event
                  ELSE Append(tcp_handle_event,
                         [answer |-> m, current |-> recvconn = tcp_clientconn])
    /\ UNCHANGED <<flags, netconn, connect, recvconn, handle, sendVars,
                   server, hist>>

(* ERR_CLSD: close and delete the netconn the global names now, and clear  *)
(* both flags.  Closing one that is still connecting takes over its        *)
(* op_completed; the model ends there.                                     *)
(* Mutant: the flags are not cleared.                                      *)
RecvClose_KeepFlags ==
    /\ recv = "close" /\ ~In(tcp_clientconn, {"connecting"})
    /\ IF tcp_clientconn \in Conn THEN Delete(tcp_clientconn) ELSE UNCHANGED <<stack, owed>>
    /\ recv' = "sleep"
    /\ UNCHANGED <<flags, connect, recvconn, handleVars, sendVars, faults,
                   hist>>

(* Mutant: the netconn is closed and not deleted.                          *)
RecvClose_NotDeleted ==
    /\ recv = "close" /\ ~In(tcp_clientconn, {"connecting"})
    /\ isConnected' = FALSE /\ isAuthed' = FALSE
    /\ recv' = "sleep"
    /\ UNCHANGED <<tcp_clientconn, stack, connect, recvconn, handleVars,
                   sendVars, server, hist>>

RecvClose ==
    /\ recv = "close" /\ ~In(tcp_clientconn, {"connecting"})
    /\ IF tcp_clientconn \in Conn THEN Delete(tcp_clientconn) ELSE UNCHANGED <<stack, owed>>
    /\ isConnected' = FALSE /\ isAuthed' = FALSE
    /\ recv' = "sleep"
    /\ UNCHANGED <<tcp_clientconn, connect, recvconn, handleVars, sendVars,
                   faults, hist>>

-----------------------------------------------------------------------------
(* tcp_handle_task, on the replies to a login.                             *)

HandleTake ==
    /\ HandleRuns /\ handle = Idle /\ tcp_handle_event # <<>>
    /\ handle' = Head(tcp_handle_event)
    /\ tcp_handle_event' = Tail(tcp_handle_event)
    /\ UNCHANGED <<flags, stack, connect, recvVars, sendVars, server, hist>>

HandleLogin ==
    /\ HandleRuns /\ handle # Idle
    /\ isAuthed' = (handle.answer = "success")
    /\ authCurrent' = handle.current
    /\ handle' = Idle
    /\ UNCHANGED <<tcp_clientconn, isConnected, stack, connect, recvVars,
                   tcp_handle_event, sendVars, server, early>>

-----------------------------------------------------------------------------
(* tcp_send_task.  Once it waits for a message it no longer looks at       *)
(* isConnected.                                                            *)

SendHead ==
    /\ SendRuns /\ send = "head" /\ isConnected
    /\ send' = "pend"
    /\ UNCHANGED <<flags, stack, connect, recvVars, handleVars,
                   tcp_send_event, server, hist>>

CanTake == SendRuns /\ send = "pend" /\ tcp_send_event # <<>>
Take == CanTake /\ tcp_send_event' = Tail(tcp_send_event)

(* netconn_write on the netconn the global names now: the message reaches  *)
(* the server.                                                             *)
SendWrite ==
    /\ Take /\ In(tcp_clientconn, {"open", "fin"})
    /\ owed' = IF Head(tcp_send_event) = "login" /\ In(tcp_clientconn, {"open"})
                 THEN owed \union {tcp_clientconn} ELSE owed
    /\ UNCHANGED <<flags, stack, connect, recvVars, handleVars, send, faults,
                   hist>>

(* The write fails; on a deleted netconn what the memory holds decides.    *)
SendWriteFails ==
    /\ Take /\ ~In(tcp_clientconn, {"connecting", "open", "fin"})
    /\ \/ send' = "failed"
       \/ Deleted(tcp_clientconn) /\ send' = IF isConnected THEN "pend" ELSE "head"
    /\ UNCHANGED <<flags, stack, connect, recvVars, handleVars, server,
                   hist>>

(* The connect task is still inside netconn_connect on this netconn: the   *)
(* refusal of do_write signals the op_completed they share, which wakes    *)
(* connect, the higher of the two, with the ERR_OK that do_connect left.   *)
(* The write itself now waits for the signal of the handshake.             *)
SendWriteWakesConnect ==
    /\ CanTake /\ In(tcp_clientconn, {"connecting"})
    /\ LinkUp
    /\ tcp_send_event' = IF Len(Tail(tcp_send_event)) < MaxSends
                           THEN Append(Tail(tcp_send_event), "login")
                           ELSE Tail(tcp_send_event)
    /\ send' = "waiting" /\ early' = TRUE
    /\ UNCHANGED <<tcp_clientconn, stack, recvVars, server>>

SendFailed ==
    /\ SendRuns /\ send = "failed"
    /\ isConnected' = FALSE
    /\ send' = "head"
    /\ UNCHANGED <<tcp_clientconn, isAuthed, stack, connect, recvVars,
                   handleVars, tcp_send_event, server, hist>>

(* A task behind a device answers a request of the server.                 *)
Report ==
    /\ OthersRun
    /\ Post("report")
    /\ UNCHANGED <<flags, stack, connect, recvVars, handleVars, send, server,
                   hist>>

-----------------------------------------------------------------------------
(* The server, and the callbacks of lwIP it triggers.                      *)

Reply(c, answer) ==
    /\ c \in owed /\ netconn[c] = "open" /\ Len(recvmbox[c]) < MaxInbox
    /\ owed' = owed \ {c}
    /\ Arrive(c, answer)
    /\ UNCHANGED <<flags, netconn, connect, recvVars, handleVars, sendVars,
                   faults, hist>>

(* recv_tcp without data.                                                  *)
Fin(c) ==
    /\ "fin" \in Faults /\ faults < MaxFaults
    /\ netconn[c] = "open"
    /\ netconn' = [netconn EXCEPT ![c] = "fin"]
    /\ Arrive(c, "null")
    /\ faults' = faults + 1
    /\ owed' = owed \ {c}
    /\ UNCHANGED <<flags, connect, recvVars, handleVars, sendVars, hist>>

(* err_tcp.                                                                *)
Rst(c) ==
    /\ "rst" \in Faults /\ faults < MaxFaults
    /\ netconn[c] \in {"open", "fin"}
    /\ netconn' = [netconn EXCEPT ![c] = "dead"]
    /\ Arrive(c, "null")
    /\ faults' = faults + 1
    /\ owed' = owed \ {c}
    /\ UNCHANGED <<flags, connect, recvVars, handleVars, sendVars, hist>>

(* The handshake of an attempt netconn_connect no longer waits for ends;   *)
(* its signal goes to the write, whose error is ERR_INPROGRESS.            *)
LateHandshake(ok) ==
    /\ send = "waiting"
    /\ send' = "failed"
    /\ netconn' = [netconn EXCEPT ![tcp_clientconn] = IF ok THEN "open" ELSE "dead"]
    /\ IF ok THEN UNCHANGED recvmbox ELSE Arrive(tcp_clientconn, "null")
    /\ UNCHANGED <<flags, connect, recvVars, handleVars, tcp_send_event,
                   server, hist>>

-----------------------------------------------------------------------------

RecvTask == RecvWake \/ RecvCall \/ RecvFetch \/ RecvClose
HandleTask == HandleTake \/ HandleLogin
SendTask ==
    \/ SendHead \/ SendWrite \/ SendWriteFails \/ SendWriteWakesConnect
    \/ SendFailed
ConnectWake == NoNetconn \/ LoginAgain \/ \E c \in Conn : StartConnect(c)

Next ==
    \/ ConnectWake \/ Connected \/ ConnectFailed
    \/ RecvTask \/ HandleTask \/ SendTask \/ Report
    \/ \E c \in Conn : Fin(c) \/ Rst(c) \/ \E a \in Answers : Reply(c, a)
    \/ \E ok \in BOOLEAN : LateHandshake(ok)

Spec == Init /\ [][Next]_vars

(* Sleeps end and ready tasks run; the server, up again, accepts the       *)
(* connection at some attempt and answers what it has received.            *)
FairSpec ==
    /\ Spec
    /\ SF_vars(ConnectWake) /\ SF_vars(Connected)
    /\ SF_vars(RecvTask) /\ WF_vars(HandleTask) /\ SF_vars(SendTask)
    /\ \A c \in Conn : WF_vars(\E a \in Answers : Reply(c, a))
    /\ SF_vars(LateHandshake(TRUE))

-----------------------------------------------------------------------------
(* Properties.                                                             *)

(* The variables hold what their declarations say.                         *)
TypeOK ==
    /\ tcp_clientconn \in Conn \union {NoConn}
    /\ isConnected \in BOOLEAN /\ isAuthed \in BOOLEAN
    /\ netconn \in [Conn -> {"free", "connecting", "open", "fin", "dead"}]
    /\ recvmbox \in [Conn -> Seq(Answers \union {"null"})]
    /\ connect \in {"sleep", "connecting"}
    /\ recv \in {"sleep", "call", "blocked", "close"}
    /\ recvconn \in Conn \union {NoConn}
    /\ handle \in [answer : Answers \union {"none"}, current : BOOLEAN]
    /\ tcp_handle_event \in Seq([answer : Answers, current : BOOLEAN])
    /\ send \in {"head", "pend", "waiting", "failed"}
    /\ tcp_send_event \in Seq({"login", "report"})
    /\ Len(tcp_handle_event) <= MaxReplies /\ Len(tcp_send_event) <= MaxSends
    /\ owed \subseteq Conn /\ faults \in 0..MaxFaults
    /\ authCurrent \in BOOLEAN /\ early \in BOOLEAN

(* The authentication in force is that of the connection in use: a new     *)
(* connection starts without, and no reply of an earlier one is left.      *)
AuthIsCurrent == isConnected /\ isAuthed => authCurrent

(* The receive task closes the connection whose end it has seen, although  *)
(* it names it by a global that two other tasks change the fate of: the    *)
(* priorities keep them from stepping in between.  A write that has met a  *)
(* netconn_connect in progress breaks this and the next two properties.    *)
ClosesOwn == ~early /\ recv = "close" => tcp_clientconn = recvconn

(* The receive task sleeps in netconn_recv on the connection the others    *)
(* use and on no other: asleep on an abandoned one it would never read the *)
(* answers, and asleep on a deleted one nothing could wake it.             *)
ListensToCurrent ==
    ~early /\ recv = "blocked" /\ recvmbox[recvconn] = <<>> =>
        recvconn = tcp_clientconn /\ netconn[recvconn] # "free"

(* A connection the server closed is given back: the netconns lost to the  *)
(* pool are those of connections it reset, and nobody deletes.             *)
LosesOnlyResets == ~early =>
    \A c \in Conn : netconn[c] \notin {"free", "dead"} => c = tcp_clientconn

LoggedIn == isConnected /\ isAuthed /\ In(tcp_clientconn, {"open"})
NeverReset == [](\A c \in Conn : netconn[c] # "dead")
NeverRefused ==
    [](\A c \in Conn : \A i \in DOMAIN recvmbox[c] : recvmbox[c][i] # "failed")

(* Once a server that only closes connections, never resets them, stops    *)
(* doing so, and if it accepts the logins and no write meets a connect in  *)
(* progress, the client is in the end connected and logged in for good.    *)
StaysLoggedIn == NeverReset /\ NeverRefused /\ []~early => <>[]LoggedIn

(* What the header of tcp_client.c promises (8 and 78): stm32 keeps        *)
(* connecting with the server.  Here the server may also reset.            *)
KeepsConnecting == []<>(isConnected /\ In(tcp_clientconn, {"open"}))

=============================================================================
