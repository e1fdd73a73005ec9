----------------------------- MODULE ServerLink -----------------------------
(***************************************************************************)
(* The link of the terminal to its user: the accepting and the receiving   *)
(* task of tcp_server.c, and the tasks that use its globals serverconn,    *)
(* isAccepted and isChecked: the handle task (the user's password), the    *)
(* send task and the camera task, which both write to the user.            *)
(*                                                                         *)
(* Priorities (task_priority.h): the tcpip thread (5), the accepting task  *)
(* (8), the receiving task (10), handle (11), send (12), led and dht11,    *)
(* camera (19).  A task takes a step only when no task above it is ready;  *)
(* the sleeps of the polling loops may end at any moment.                  *)
(*                                                                         *)
(* isConnected, the other link's flag, may be anything.  Messages for the  *)
(* user all look alike here, so tcp_send_event is how many there are.      *)
(***************************************************************************)
EXTENDS Integers, Sequences, FiniteSets

CONSTANTS
    Conn,        \* the netconns of the pool MEMP_NETCONN left to users
    Passwords,   \* what users log in with: "right", "wrong"
    MaxSends,    \* bound: messages in tcp_send_event
    MaxHandles,  \* bound: logins in tcp_handle_event
    MaxInbox     \* bound: messages of a user in a recvmbox

NoConn == "null"
ASSUME ConnAssumption == NoConn \notin Conn /\ IsFiniteSet(Conn)
ASSUME PasswordAssumption == Passwords \subseteq {"right", "wrong"}
ASSUME BoundAssumption == {MaxSends, MaxHandles, MaxInbox} \subseteq Nat

VARIABLES
    serverconn, isAccepted, isChecked,  \* the globals
    netconn,     \* netconn[c]: free, open, fin (closed by the user) or dead
                 \* (reset: no pcb, last_err fatal)
    recvmbox,    \* recvmbox[c]: logins with the right or a wrong password,
                 \* and "null" at the end
    acceptmbox,  \* connections nobody has accepted yet
    server,      \* accepting task: "poll" its flag or inside netconn_"accept"
    recv, recvconn,    \* receiving task, and the netconn its call is on
    tcp_handle_event,  \* logins on their way to the handle task
    send,              \* send task: at its loop "head" or at its "pend"
    tcp_send_event,    \* messages on their way to it
    write,       \* write[w]: what the send and the camera task have of their
                 \* netconn_write: the netconn it blocks on, and its state
    checkedCurrent,  \* history: isChecked comes from a login on serverconn
    cut,         \* history: a failed write took back an isAccepted in force
    late         \* history: isChecked was set by a login whose user had left

flags == <<serverconn, isAccepted, isChecked>>
stack == <<netconn, recvmbox, acceptmbox>>
recvVars == <<recv, recvconn>>
sendVars == <<send, tcp_send_event, write>>
hist == <<checkedCurrent, cut, late>>
vars == <<flags, stack, server, recvVars, tcp_handle_event, sendVars, hist>>

NoWrite == [state |-> "none", on |-> NoConn]

Init ==
    /\ serverconn = NoConn /\ isAccepted = FALSE /\ isChecked = FALSE
    /\ netconn = [c \in Conn |-> "free"]
    /\ recvmbox = [c \in Conn |-> <<>>]
    /\ acceptmbox = <<>>
    /\ server = "accept"
    /\ recv = "sleep" /\ recvconn = NoConn
    /\ tcp_handle_event = <<>>
    /\ send = "head" /\ tcp_send_event = 0
    /\ write = [w \in {"send", "camera"} |-> NoWrite]
    /\ checkedCurrent = FALSE /\ cut = FALSE /\ late = FALSE

-----------------------------------------------------------------------------
(* Netconns.                                                               *)

In(c, states) == c \in Conn /\ netconn[c] \in states

Arrive(c, m) == recvmbox' = [recvmbox EXCEPT ![c] = Append(@, m)]

\* A write blocks on c: its state is NETCONN_WRITE.
Writing(c) == c \in Conn /\ \E w \in DOMAIN write : write[w].on = c

-----------------------------------------------------------------------------
(* Scheduling.                                                             *)

\* The receiving task calls netconn_recv, which fails at once, for ever.
Spins == recv = "call" /\ isAccepted /\ ~In(serverconn, {"open", "fin"})

ServerReady == server = "accept" /\ acceptmbox # <<>>
RecvReady ==
    \/ recv \in {"call", "close"}
    \/ recv = "blocked" /\ recvmbox[recvconn] # <<>>
HandleReady == tcp_handle_event # <<>>
SendReady ==
    \/ write["send"].state = "failed"
    \/ send = "pend" /\ write["send"] = NoWrite /\ tcp_send_event > 0

RecvRuns == ~ServerReady
HandleRuns == RecvRuns /\ ~RecvReady
SendRuns == HandleRuns /\ ~HandleReady
OthersRun == SendRuns /\ ~SendReady

-----------------------------------------------------------------------------
(* tcp_server_task.                                                        *)

\* netconn_accept returns a connection: what came before is not its user's.
ServerAccept ==
    /\ ServerReady
    /\ serverconn' = Head(acceptmbox) /\ acceptmbox' = Tail(acceptmbox)
    /\ isAccepted' = TRUE
    /\ server' = "poll"
    /\ checkedCurrent' = FALSE
    /\ tcp_handle_event' = [i \in DOMAIN tcp_handle_event |->
                              [tcp_handle_event[i] EXCEPT !.current = FALSE]]
    /\ UNCHANGED <<isChecked, netconn, recvmbox, recvVars, sendVars, cut, late>>

\* Mutant: the task does not wait until the user is gone.
ServerWake_Always ==
    /\ server = "poll"
    /\ server' = "accept" /\ serverconn' = NoConn
    /\ UNCHANGED <<isAccepted, isChecked, stack, recvVars, tcp_handle_event,
                   sendVars, hist>>

\* Mutant: it waits while the user is checked.
ServerWake_Unchecked ==
    /\ server = "poll" /\ ~isChecked
    /\ server' = "accept" /\ serverconn' = NoConn
    /\ UNCHANGED <<isAccepted, isChecked, stack, recvVars, tcp_handle_event,
                   sendVars, hist>>

\* Awake and nobody connected: netconn_accept, which clears serverconn first.
ServerWake ==
    /\ server = "poll" /\ ~isAccepted
    /\ server' = "accept" /\ serverconn' = NoConn
    /\ UNCHANGED <<isAccepted, isChecked, stack, recvVars, tcp_handle_event,
                   sendVars, hist>>

-----------------------------------------------------------------------------
(* tcp_server_recv.                                                        *)

RecvWake ==
    /\ RecvRuns /\ recv = "sleep" /\ isAccepted
    /\ recv' = "call"
    /\ UNCHANGED <<flags, stack, server, recvconn, tcp_handle_event, sendVars, hist>>

\* netconn_recv on the netconn the global names now.
RecvCall ==
    /\ RecvRuns /\ recv = "call"
    /\ \/ ~isAccepted /\ recv' = "sleep" /\ UNCHANGED recvconn
       \/ Spins /\ UNCHANGED recvVars
       \/ isAccepted /\ ~Spins /\ recv' = "blocked" /\ recvconn' = serverconn
    /\ UNCHANGED <<flags, stack, server, tcp_handle_event, sendVars, hist>>

\* The call takes a message: to tcp_handle_event (lost when it is full), or
\* "null", which is ERR_CLSD.
RecvFetch ==
    /\ RecvRuns /\ recv = "blocked" /\ recvmbox[recvconn] # <<>>
    /\ recvmbox' = [recvmbox EXCEPT ![recvconn] = Tail(@)]
    /\ LET m == Head(recvmbox[recvconn])
       IN  /\ IF m = "null" THEN recv' = "close" /\ UNCHANGED recvconn
                           ELSE recv' = "call" /\ recvconn' = NoConn
           /\ tcp_handle_event' =
                IF m = "null" \/ Len(tcp_handle_event) = MaxHandles
                  THEN tcp_handle_event
                  ELSE Append(tcp_handle_event,
                              [password |-> m, current |-> recvconn = serverconn])
    /\ UNCHANGED <<flags, netconn, acceptmbox, server, sendVars, hist>>

\* netconn_close and netconn_delete of the netconn the global names now.
Delete(c) ==
    /\ netconn' = [d \in Conn |-> IF d = c THEN "free" ELSE netconn[d]]
    /\ recvmbox' = [d \in Conn |-> IF d = c THEN <<>> ELSE recvmbox[d]]
    /\ UNCHANGED acceptmbox

Unchecked == isChecked' = FALSE /\ checkedCurrent' = FALSE /\ late' = FALSE

\* Mutant: the netconn is closed and not deleted.
RecvClose_NotDeleted ==
    /\ RecvRuns /\ recv = "close" /\ ~Writing(serverconn)
    /\ isAccepted' = FALSE /\ Unchecked
    /\ recv' = "sleep" /\ recvconn' = NoConn
    /\ UNCHANGED <<serverconn, stack, server, tcp_handle_event, sendVars, cut>>

\* Mutant: isChecked is left as it was.
RecvClose_KeepChecked ==
    /\ RecvRuns /\ recv = "close" /\ ~Writing(serverconn)
    /\ Delete(serverconn)
    /\ isAccepted' = FALSE
    /\ recv' = "sleep" /\ recvconn' = NoConn
    /\ UNCHANGED <<serverconn, isChecked, server, tcp_handle_event, sendVars, hist>>

\* Mutant: isAccepted is left as it was.
RecvClose_KeepAccepted ==
    /\ RecvRuns /\ recv = "close" /\ ~Writing(serverconn)
    /\ Delete(serverconn)
    /\ Unchecked
    /\ recv' = "sleep" /\ recvconn' = NoConn
    /\ UNCHANGED <<serverconn, isAccepted, server, tcp_handle_event,
                   sendVars, cut>>

\* ERR_CLSD: close, delete, clear both flags.  A netconn a write blocks on
\* cannot be closed, and is freed all the same: the model waits for the write.
RecvClose ==
    /\ RecvRuns /\ recv = "close" /\ ~Writing(serverconn)
    /\ Delete(serverconn)
    /\ isAccepted' = FALSE /\ Unchecked
    /\ recv' = "sleep" /\ recvconn' = NoConn
    /\ UNCHANGED <<serverconn, server, tcp_handle_event, sendVars, cut>>

-----------------------------------------------------------------------------
(* tcp_handle_task, on the logins of users.                                *)

\* A message is lost when the queue is full.
Post ==
    tcp_send_event' = IF tcp_send_event < MaxSends THEN tcp_send_event + 1
                                                   ELSE tcp_send_event

\* The answer is posted either way; a wrong password leaves isChecked alone.
HandleLogin ==
    /\ HandleRuns /\ tcp_handle_event # <<>>
    /\ tcp_handle_event' = Tail(tcp_handle_event)
    /\ Post
    /\ IF Head(tcp_handle_event).password = "right"
         THEN /\ isChecked' = TRUE
              /\ checkedCurrent' = Head(tcp_handle_event).current
              /\ late' = (~isAccepted \/ ~Head(tcp_handle_event).current)
         ELSE UNCHANGED <<isChecked, checkedCurrent, late>>
    /\ UNCHANGED <<serverconn, isAccepted, stack, server, recvVars, send, write, cut>>

-----------------------------------------------------------------------------
(* Writes to the user, by tcp_send_task and by camera_task.                *)

SetWrite(w, s, c) == write' = [write EXCEPT ![w] = [state |-> s, on |-> c]]

\* netconn_write on the netconn the global names now: it fails on none, on a
\* reset one and while another write blocks on it; on a deleted one what the
\* memory holds decides.  Two writes on one netconn wait for one semaphore,
\* and its signal goes to the task of higher priority: refused beside a write
\* of the send task, the camera task wakes that one, whose error is not set,
\* and learns of its own refusal when the other write is done.
BeginWrite(w) ==
    \/ /\ In(serverconn, {"open", "fin"}) /\ ~Writing(serverconn)
       /\ SetWrite(w, "writing", serverconn)
    \/ /\ ~In(serverconn, {"open", "fin"}) \/ (w = "send" /\ Writing(serverconn))
       /\ SetWrite(w, "failed", NoConn)
    \/ /\ In(serverconn, {"open", "fin"}) /\ w = "camera" /\ Writing(serverconn)
       /\ \E s \in {"none", "failed"} :
            write' = [send |-> [state |-> s, on |-> NoConn],
                      camera |-> [state |-> "refused", on |-> serverconn]]
    \/ /\ In(serverconn, {"free"})
       /\ SetWrite(w, "none", NoConn)

\* The send buffer has taken all of the write that blocks (do_writemore).
Written(w) ==
    /\ write[w].on # NoConn
    /\ SetWrite(w, IF write[w].state = "refused" THEN "failed" ELSE "none", NoConn)
    /\ UNCHANGED <<flags, stack, server, recvVars, tcp_handle_event, send,
                   tcp_send_event, hist>>

\* What both tasks do with an error: isAccepted = 0.
TakeBack ==
    /\ isAccepted' = FALSE
    /\ cut' = (cut \/ isAccepted)
    /\ UNCHANGED <<serverconn, isChecked, stack, server, recvVars, tcp_handle_event,
                   send, tcp_send_event, checkedCurrent, late>>

\* The loop goes on while isConnected or isAccepted is set.
SendHead ==
    /\ SendRuns /\ send = "head"
    /\ \E isConnected \in BOOLEAN : isConnected \/ isAccepted
    /\ send' = "pend"
    /\ UNCHANGED <<flags, stack, server, recvVars, tcp_handle_event, tcp_send_event,
                   write, hist>>

SendWrite ==
    /\ SendRuns /\ send = "pend" /\ write["send"] = NoWrite /\ tcp_send_event > 0
    /\ tcp_send_event' = tcp_send_event - 1
    /\ send' = "head"
    /\ BeginWrite("send")
    /\ UNCHANGED <<flags, stack, server, recvVars, tcp_handle_event, hist>>

SendFailed ==
    /\ SendRuns /\ write["send"].state = "failed"
    /\ SetWrite("send", "none", NoConn)
    /\ TakeBack

\* A picture, or a piece of one, for the user.
CameraWrite ==
    /\ OthersRun /\ write["camera"] = NoWrite
    /\ BeginWrite("camera")
    /\ UNCHANGED <<flags, stack, server, recvVars, tcp_handle_event, send,
                   tcp_send_event, hist>>

CameraFailed ==
    /\ OthersRun /\ write["camera"].state = "failed"
    /\ SetWrite("camera", "none", NoConn)
    /\ TakeBack

\* A picture for the server whose write fails: that, too, clears isAccepted.
CameraToServerFailed ==
    /\ OthersRun /\ write["camera"] = NoWrite
    /\ TakeBack
    /\ UNCHANGED write

\* The led or dht11 task answers the user.
Report ==
    /\ OthersRun
    /\ Post
    /\ UNCHANGED <<flags, stack, server, recvVars, tcp_handle_event, send, write, hist>>

-----------------------------------------------------------------------------
(* Users, and the callbacks of lwIP they trigger.                          *)

\* accept_function: a netconn of the pool, into acceptmbox.
UserConnect(c) ==
    /\ netconn[c] = "free"
    /\ netconn' = [netconn EXCEPT ![c] = "open"]
    /\ acceptmbox' = Append(acceptmbox, c)
    /\ UNCHANGED <<flags, recvmbox, server, recvVars, tcp_handle_event, sendVars, hist>>

UserLogin(c, password) ==
    /\ netconn[c] = "open" /\ Len(recvmbox[c]) < MaxInbox
    /\ Arrive(c, password)
    /\ UNCHANGED <<flags, netconn, acceptmbox, server, recvVars, tcp_handle_event,
                   sendVars, hist>>

\* recv_tcp without data.
Fin(c) ==
    /\ netconn[c] = "open"
    /\ netconn' = [netconn EXCEPT ![c] = "fin"]
    /\ Arrive(c, "null")
    /\ UNCHANGED <<flags, acceptmbox, server, recvVars, tcp_handle_event, sendVars, hist>>

\* err_tcp, which also ends a write that blocks, with an error.
Rst(c) ==
    /\ netconn[c] \in {"open", "fin"}
    /\ netconn' = [netconn EXCEPT ![c] = "dead"]
    /\ Arrive(c, "null")
    /\ write' = [w \in DOMAIN write |->
                   IF write[w].on = c THEN [state |-> "failed", on |-> NoConn]
                                      ELSE write[w]]
    /\ UNCHANGED <<flags, acceptmbox, server, recvVars, tcp_handle_event, send,
                   tcp_send_event, hist>>

-----------------------------------------------------------------------------

RecvTask == RecvWake \/ RecvCall \/ RecvFetch \/ RecvClose
SendTask == SendWrite \/ SendFailed
User(c) == UserConnect(c) \/ Fin(c) \/ Rst(c)
             \/ \E password \in Passwords : UserLogin(c, password)

Next ==
    \/ ServerAccept \/ ServerWake
    \/ RecvTask \/ HandleLogin
    \/ SendHead \/ SendTask
    \/ CameraWrite \/ CameraFailed \/ CameraToServerFailed \/ Report
    \/ \E w \in {"send", "camera"} : Written(w)
    \/ \E c \in Conn : User(c)

Spec == Init /\ [][Next]_vars

\* Ready tasks run, sleeps end, a write that blocks ends, and every user
\* leaves some day.
FairSpec ==
    /\ Spec
    /\ WF_vars(ServerAccept) /\ SF_vars(ServerWake)
    /\ SF_vars(RecvTask) /\ SF_vars(HandleLogin)
    /\ SF_vars(SendTask) /\ SF_vars(CameraFailed)
    /\ \A w \in {"send", "camera"} : WF_vars(Written(w))
    /\ \A c \in Conn : WF_vars(Fin(c))

-----------------------------------------------------------------------------
(* Properties.                                                             *)

\* The variables hold what their declarations say.
TypeOK ==
    /\ serverconn \in Conn \union {NoConn}
    /\ isAccepted \in BOOLEAN /\ isChecked \in BOOLEAN
    /\ netconn \in [Conn -> {"free", "open", "fin", "dead"}]
    /\ recvmbox \in [Conn -> Seq(Passwords \union {"null"})]
    /\ acceptmbox \in Seq(Conn)
    /\ server \in {"poll", "accept"}
    /\ recv \in {"sleep", "call", "blocked", "close"}
    /\ recvconn \in Conn \union {NoConn}
    /\ tcp_handle_event \in Seq([password : Passwords, current : BOOLEAN])
    /\ send \in {"head", "pend"} /\ tcp_send_event \in 0 .. MaxSends
    /\ write \in [{"send", "camera"} ->
                    [state : {"none", "writing", "refused", "failed"}, on : Conn \union {NoConn}]]
    /\ {checkedCurrent, cut, late} \subseteq BOOLEAN

\* The receiving task closes the connection whose end it has seen, and closes
\* it once, although it names it by a global the accepting task replaces.
\* This and the next two hold until a write that fails takes back isAccepted
\* from under a connected user: then the accepting task goes on to the next
\* one while the receiving task still waits for the first.
ClosesOwn ==
    ~cut /\ recv = "close" => serverconn = recvconn /\ netconn[recvconn] # "free"

\* The receiving task sleeps on the connection of the user accepted, and on
\* no other: asleep elsewhere it would never hear that user.
ListensToUser ==
    ~cut /\ recv = "blocked" /\ recvmbox[recvconn] = <<>> =>
        isAccepted /\ recvconn = serverconn /\ netconn[recvconn] # "free"

\* Every connection not reset is the accepted one or still to be accepted:
\* none is left open that no task will ever delete.
NoneStranded ==
    ~cut => \A c \in Conn : netconn[c] \in {"open", "fin"} =>
        c = serverconn \/ \E i \in DOMAIN acceptmbox : acceptmbox[i] = c

\* A user counts as checked by a password of his own connection.  Besides cut
\* there is one way around it: isChecked is cleared when a user leaves and not
\* when the next one comes, so a password still queued then counts for him.
CheckedIsCurrent == ~cut /\ ~late => (isAccepted /\ isChecked => checkedCurrent)

NeverReset == [](\A c \in Conn : netconn[c] # "dead")

\* While users leave in order and no write takes back isAccepted, the accepting
\* task always gets back to netconn_accept, so each user who waits is served:
\* the receiving task hands the flag back, and it is seen.
AcceptsAgain == NeverReset /\ []~cut => []<>(server = "accept")

=============================================================================
