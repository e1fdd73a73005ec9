-------------------------- MODULE ClientLinkProofs --------------------------
(***************************************************************************)
(* Proofs about ClientLink, for pools, queues and numbers of faults of any *)
(* size.                                                                   *)
(***************************************************************************)
EXTENDS ClientLink, TLAPS

-----------------------------------------------------------------------------
(* The inductive invariants.                                               *)

(* What both need.                                                         *)
Base ==
    /\ TypeOK
    /\ connect = "connecting" => ~isConnected /\ tcp_clientconn \in Conn
    /\ recv = "blocked" => recvconn \in Conn

(* The login in force.  The server owes answers on the connection in use   *)
(* only, and only while it is used; what the receive task fetches, while   *)
(* connected, from any other holds no answer; so each reply under way is   *)
(* of this connection, as none was left when it came up.                   *)
Owes ==
    /\ \A c \in owed : c = tcp_clientconn /\ netconn[c] = "open"
    /\ ~isConnected \/ send \in {"waiting", "failed"} => owed = {}
    /\ ~isConnected /\ send = "pend" => ~In(tcp_clientconn, {"open"})
NoOldAnswer ==
    isConnected /\ recv = "blocked" /\ recvconn # tcp_clientconn =>
        \A i \in DOMAIN recvmbox[recvconn] : recvmbox[recvconn][i] = "null"
AllCurrent ==
    isConnected =>
        /\ \A i \in DOMAIN tcp_handle_event : tcp_handle_event[i].current
        /\ handle # Idle => handle.current
AuthInv == Base /\ Owes /\ NoOldAnswer /\ AllCurrent /\ AuthIsCurrent

(* The connection in use, as long as no write has met a connect: while the *)
(* receive task is on a netconn it is that one, isConnected is set, and    *)
(* its end, once it has come, is there to be read.                         *)
Ends(c) == \E i \in DOMAIN recvmbox[c] : recvmbox[c][i] = "null"
Used ==
    /\ connect = "connecting" => In(tcp_clientconn, {"connecting"})
    /\ isConnected => ~In(tcp_clientconn, {"connecting"})
    /\ ~isConnected /\ connect = "sleep" => ~In(tcp_clientconn, {"connecting", "open", "fin"})
    /\ isConnected /\ send = "failed" => ~In(tcp_clientconn, {"connecting", "open", "fin"})
Listens ==
    /\ recv \in {"blocked", "close"} =>
          isConnected /\ recvconn = tcp_clientconn /\ In(recvconn, {"open", "fin", "dead"})
    /\ recv = "blocked" /\ In(recvconn, {"dead"}) => Ends(recvconn)
    /\ recv # "close" /\ In(tcp_clientconn, {"fin"}) => Ends(tcp_clientconn)
OneInUse == \A c \in Conn : netconn[c] \notin {"free", "dead"} => c = tcp_clientconn
LinkInv == Base /\ (~early => send # "waiting" /\ Used /\ Listens /\ OneInUse)

-----------------------------------------------------------------------------
(* Types.                                                                  *)

Mail == Answers \union {"null"}
Replies == [answer : Answers, current : BOOLEAN]

LEMMA InitType == Init => TypeOK
  <1> SUFFICES ASSUME Init PROVE TypeOK
    OBVIOUS
  <1>1. /\ recvmbox \in [Conn -> Seq(Mail)]
        /\ <<>> \in Seq(Replies) /\ <<>> \in Seq({"login", "report"})
    BY DEF Init, Mail
  <1>2. 0 <= MaxReplies /\ 0 <= MaxSends /\ 0 \in 0 .. MaxFaults /\ Len(<<>>) = 0
    BY BoundAssumption
  <1>3. QED  BY <1>1, <1>2 DEF Init, TypeOK, Idle, Mail, Replies

LEMMA PostType ==
  ASSUME TypeOK, NEW m \in {"login", "report"}, Post(m)
  PROVE  tcp_send_event' \in Seq({"login", "report"}) /\ Len(tcp_send_event') <= MaxSends
  BY BoundAssumption DEF TypeOK, Post

LEMMA TakeType ==
  ASSUME TypeOK, tcp_send_event # <<>>
  PROVE  /\ Head(tcp_send_event) \in {"login", "report"}
         /\ Tail(tcp_send_event) \in Seq({"login", "report"})
         /\ Len(Tail(tcp_send_event)) <= MaxSends
         /\ Len(Append(Tail(tcp_send_event), "login")) <= MaxSends
         /\ Append(Tail(tcp_send_event), "login") \in Seq({"login", "report"})
  BY BoundAssumption DEF TypeOK

LEMMA LinkUpType ==
  ASSUME TypeOK, LinkUp
  PROVE  /\ connect' = "sleep" /\ isConnected' = TRUE /\ isAuthed' = FALSE /\ authCurrent' = FALSE
         /\ tcp_handle_event' \in Seq(Replies)
         /\ Len(tcp_handle_event') <= MaxReplies
         /\ handle' \in [answer : Answers \union {"none"}, current : BOOLEAN]
  <1>1. Len(tcp_handle_event) \in Nat /\ Len(tcp_handle_event) <= MaxReplies
        /\ DOMAIN tcp_handle_event = 1 .. Len(tcp_handle_event)
    BY DEF TypeOK
  <1>2. \A i \in 1 .. Len(tcp_handle_event) :
           [tcp_handle_event[i] EXCEPT !.current = FALSE] \in Replies
    <2>1. \A i \in 1 .. Len(tcp_handle_event) : tcp_handle_event[i] \in Replies
      <3>1. tcp_handle_event \in Seq(Replies)
        BY DEF TypeOK, Replies
      <3>2. QED  BY <3>1
    <2>2. \A r \in Replies : [r EXCEPT !.current = FALSE] \in Replies
      BY DEF Replies
    <2>3. QED  BY <2>1, <2>2
  <1>3. tcp_handle_event' = [i \in 1 .. Len(tcp_handle_event) |->
                               [tcp_handle_event[i] EXCEPT !.current = FALSE]]
    BY <1>1 DEF LinkUp
  <1>4. tcp_handle_event' \in Seq(Replies) /\ Len(tcp_handle_event') = Len(tcp_handle_event)
    BY <1>1, <1>2, <1>3
  <1>5. QED  BY <1>1, <1>4 DEF LinkUp, TypeOK

LEMMA ArriveType ==
  ASSUME TypeOK, NEW c, NEW m \in Mail, Arrive(c, m)
  PROVE  recvmbox' \in [Conn -> Seq(Mail)]
  <1>1. recvmbox \in [Conn -> Seq(Mail)]
    BY DEF TypeOK, Mail
  <1>2. c \in Conn => Append(recvmbox[c], m) \in Seq(Mail)
    BY <1>1
  <1>3. QED  BY <1>1, <1>2 DEF Arrive

LEMMA DeleteType ==
  ASSUME TypeOK, NEW c, Delete(c)
  PROVE  /\ netconn' \in [Conn -> {"free", "connecting", "open", "fin", "dead"}]
         /\ recvmbox' \in [Conn -> Seq(Mail)]
         /\ owed' \subseteq Conn
  <1>1. recvmbox \in [Conn -> Seq(Mail)] /\ <<>> \in Seq(Mail)
    BY DEF TypeOK, Mail
  <1>2. QED  BY <1>1 DEF TypeOK, Delete

(* What the first of a recvmbox is, and what is left.                      *)
LEMMA FetchType ==
  ASSUME TypeOK, RecvFetch, recvconn \in Conn
  PROVE  /\ recvmbox' \in [Conn -> Seq(Mail)]
         /\ tcp_handle_event' \in Seq(Replies) /\ Len(tcp_handle_event') <= MaxReplies
  <1>1. recvmbox \in [Conn -> Seq(Mail)] /\ recvmbox[recvconn] \in Seq(Mail)
        /\ recvmbox[recvconn] # <<>>
    BY DEF TypeOK, Mail, RecvFetch
  <1> DEFINE box == recvmbox[recvconn]
  <1>2. Head(box) \in Mail /\ Tail(box) \in Seq(Mail)
    <2> HIDE DEF box
    <2>1. box \in Seq(Mail) /\ box # <<>>
      BY <1>1 DEF box
    <2>2. QED  BY <2>1
  <1>3. recvmbox' \in [Conn -> Seq(Mail)]
    BY <1>1, <1>2 DEF RecvFetch
  <1>4. CASE tcp_handle_event' = tcp_handle_event
    BY <1>3, <1>4 DEF TypeOK, Replies
  <1>5. CASE tcp_handle_event' # tcp_handle_event
    <2> DEFINE r == [answer |-> Head(box), current |-> recvconn = tcp_clientconn]
    <2>1. /\ tcp_handle_event' = Append(tcp_handle_event, r)
          /\ Len(tcp_handle_event) # MaxReplies /\ Head(box) # "null"
      BY <1>5 DEF RecvFetch
    <2>2. r \in Replies
      BY <1>2, <2>1 DEF Mail, Replies
    <2>3. tcp_handle_event \in Seq(Replies) /\ Len(tcp_handle_event) <= MaxReplies
          /\ MaxReplies \in Nat
      BY BoundAssumption DEF TypeOK, Replies
    <2> HIDE DEF r
    <2>4. QED  BY <1>3, <2>1, <2>2, <2>3
  <1>6. QED  BY <1>4, <1>5

LEMMA NextReply ==
  ASSUME NEW s \in Seq(Replies), s # <<>>
  PROVE  /\ Head(s) \in Replies /\ Tail(s) \in Seq(Replies)
         /\ Len(s) \in Nat /\ Len(Tail(s)) = Len(s) - 1
         /\ Head(s) = s[1] /\ 1 \in DOMAIN s
         /\ \A i \in DOMAIN Tail(s) : i + 1 \in DOMAIN s /\ Tail(s)[i] = s[i + 1]
  OBVIOUS

LEMMA StepBase == Base /\ [Next]_vars => Base'
  <1> SUFFICES ASSUME Base, [Next]_vars PROVE Base'
    OBVIOUS
  <1>0. TypeOK /\ NoConn \notin Conn
    BY ConnAssumption DEF Base
  <1> USE DEF flags, stack, recvVars, handleVars, sendVars, server, hist, Mail, Replies
  <1>1. ASSUME NEW c \in Conn, StartConnect(c) PROVE Base'
    BY <1>0, <1>1 DEF StartConnect, Base, TypeOK
  <1>2. CASE NoNetconn
    BY <1>0, <1>2 DEF NoNetconn, Base, TypeOK
  <1>3. CASE LoginAgain
    BY <1>0, <1>3, PostType DEF LoginAgain, Base, TypeOK
  <1>4. CASE Connected
    BY <1>0, <1>4, PostType, LinkUpType DEF Connected, Base, TypeOK
  <1>5. CASE ConnectFailed
    BY <1>0, <1>5, DeleteType DEF ConnectFailed, Base, TypeOK
  <1>6. CASE RecvWake
    BY <1>0, <1>6 DEF RecvWake, Base, TypeOK
  <1>7. CASE RecvCall
    BY <1>0, <1>7 DEF RecvCall, Spins, In, Base, TypeOK
  <1>8. CASE RecvFetch
    <2>1. recvconn \in Conn
      BY <1>8 DEF RecvFetch, Base
    <2>2. QED  BY <1>0, <1>8, <2>1, FetchType DEF RecvFetch, Base, TypeOK
  <1>9. CASE RecvClose
    <2>1. tcp_clientconn \notin Conn => UNCHANGED <<netconn, recvmbox, owed>>
      BY <1>9 DEF RecvClose
    <2>2. /\ netconn' \in [Conn -> {"free", "connecting", "open", "fin", "dead"}]
          /\ recvmbox' \in [Conn -> Seq(Mail)]
          /\ owed' \subseteq Conn
      BY <1>0, <1>9, <2>1, DeleteType DEF RecvClose, TypeOK
    <2>3. QED  BY <1>0, <1>9, <2>2 DEF RecvClose, Base, TypeOK
  <1>10. CASE HandleTake
    <2>1. tcp_handle_event # <<>> /\ tcp_handle_event \in Seq(Replies)
          /\ Len(tcp_handle_event) <= MaxReplies /\ MaxReplies \in Nat
      BY <1>0, <1>10, BoundAssumption DEF HandleTake, TypeOK
    <2>2. /\ Head(tcp_handle_event) \in Replies /\ Tail(tcp_handle_event) \in Seq(Replies)
          /\ Len(Tail(tcp_handle_event)) <= MaxReplies
      <3> HIDE DEF Replies
      <3>1. tcp_handle_event # <<>> /\ tcp_handle_event \in Seq(Replies)
        BY <2>1 DEF Replies
      <3>2. /\ Head(tcp_handle_event) \in Replies /\ Tail(tcp_handle_event) \in Seq(Replies)
            /\ Len(tcp_handle_event) \in Nat
            /\ Len(Tail(tcp_handle_event)) = Len(tcp_handle_event) - 1
        BY <3>1, NextReply
      <3>3. QED  BY <2>1, <3>2
    <2>3. Head(tcp_handle_event) \in [answer : Answers \union {"none"}, current : BOOLEAN]
      BY <2>2
    <2>4. QED  BY <1>0, <1>10, <2>2, <2>3 DEF HandleTake, Base, TypeOK
  <1>11. CASE HandleLogin
    <2>1. /\ handle.current \in BOOLEAN
          /\ Idle \in [answer : Answers \union {"none"}, current : BOOLEAN]
      BY <1>0 DEF TypeOK, Idle
    <2>2. QED  BY <1>0, <1>11, <2>1 DEF HandleLogin, Base, TypeOK
  <1>12. CASE SendHead
    BY <1>0, <1>12 DEF SendHead, Base, TypeOK
  <1>13. CASE SendWrite
    BY <1>0, <1>13, TakeType DEF SendWrite, Take, CanTake, In, Base, TypeOK
  <1>14. CASE SendWriteFails
    BY <1>0, <1>14, TakeType DEF SendWriteFails, Take, CanTake, Base, TypeOK
  <1>15. CASE SendWriteWakesConnect
    <2>1. tcp_send_event # <<>> /\ LinkUp
      BY <1>15 DEF SendWriteWakesConnect, CanTake
    <2>2. tcp_send_event' \in Seq({"login", "report"}) /\ Len(tcp_send_event') <= MaxSends
      BY <1>0, <1>15, <2>1, TakeType DEF SendWriteWakesConnect
    <2>3. QED  BY <1>0, <1>15, <2>1, <2>2, LinkUpType DEF SendWriteWakesConnect, Base, TypeOK
  <1>16. CASE SendFailed
    BY <1>0, <1>16, ZenonT(60) DEF SendFailed, Base, TypeOK
  <1>17. CASE Report
    BY <1>0, <1>17, PostType DEF Report, Base, TypeOK
  <1>18. ASSUME NEW c \in Conn, Fin(c) PROVE Base'
    <2>1. faults' \in 0 .. MaxFaults
      BY <1>0, <1>18, BoundAssumption DEF Fin, TypeOK
    <2>2. recvmbox' \in [Conn -> Seq(Mail)]
      BY <1>0, <1>18, ArriveType DEF Fin
    <2>3. QED  BY <1>0, <1>18, <2>1, <2>2, ZenonT(60) DEF Fin, Base, TypeOK
  <1>19. ASSUME NEW c \in Conn, Rst(c) PROVE Base'
    <2>1. faults' \in 0 .. MaxFaults
      BY <1>0, <1>19, BoundAssumption DEF Rst, TypeOK
    <2>2. recvmbox' \in [Conn -> Seq(Mail)]
      BY <1>0, <1>19, ArriveType DEF Rst
    <2>3. QED  BY <1>0, <1>19, <2>1, <2>2, ZenonT(60) DEF Rst, Base, TypeOK
  <1>20. ASSUME NEW c \in Conn, NEW a \in Answers, Reply(c, a) PROVE Base'
    <2>1. recvmbox' \in [Conn -> Seq(Mail)]
      BY <1>0, <1>20, ArriveType DEF Reply
    <2>2. QED  BY <1>0, <1>20, <2>1 DEF Reply, Base, TypeOK
  <1>21. ASSUME NEW ok \in BOOLEAN, LateHandshake(ok) PROVE Base'
    <2>1. recvmbox' \in [Conn -> Seq(Mail)]
      BY <1>0, <1>21, ArriveType DEF LateHandshake, TypeOK
    <2>2. QED  BY <1>0, <1>21, <2>1, ZenonT(60) DEF LateHandshake, Base, TypeOK
  <1>22. CASE UNCHANGED vars
    BY <1>0, <1>22 DEF vars, Base, TypeOK
  <1>23. QED
    BY <1>1, <1>2, <1>3, <1>4, <1>5, <1>6, <1>7, <1>8, <1>9, <1>10, <1>11, <1>12, <1>13,
       <1>14, <1>15, <1>16, <1>17, <1>18, <1>19, <1>20, <1>21, <1>22
       DEF Next, ConnectWake, RecvTask, HandleTask, SendTask

-----------------------------------------------------------------------------
(* The login in force.                                                     *)

(* When a connection comes up the receive and the handle task have nothing *)
(* left to do: connect goes on only when they have run out of work, and    *)
(* the send task, which can wake it, is below them.                        *)
LEMMA QuietWhenUp ==
  ASSUME Base, Connected \/ SendWriteWakesConnect
  PROVE  /\ ~isConnected /\ connect = "connecting" /\ tcp_clientconn \in Conn
         /\ recv \notin {"call", "close"}
         /\ recv = "blocked" => recvmbox[recvconn] = <<>>
         /\ handle = Idle /\ tcp_handle_event = <<>>
         /\ tcp_handle_event' = <<>> /\ handle' = Idle
         /\ Connected => send # "failed"
         /\ connect' = "sleep" /\ isConnected' = TRUE /\ isAuthed' = FALSE
         /\ UNCHANGED <<tcp_clientconn, recv, recvconn, owed, recvmbox>>
  <1>1. connect = "connecting" /\ LinkUp
    BY DEF Connected, SendWriteWakesConnect, LinkUp
  <1>2. ~isConnected /\ tcp_clientconn \in Conn
    BY <1>1 DEF Base
  <1>3. ~RecvReady /\ ~HandleReady /\ (Connected => ~SendReady)
    BY <1>2 DEF Connected, SendWriteWakesConnect, RoundTrip, Spins, OthersRun, SendRuns, CanTake
  <1>4. handle = Idle /\ tcp_handle_event = <<>>
    BY <1>3 DEF HandleReady
  <1>5. tcp_handle_event' = <<>>
    BY <1>1, <1>4 DEF LinkUp
  <1>6. handle' = Idle
    BY <1>1, <1>4 DEF LinkUp, Idle
  <1>7. QED
    BY <1>1, <1>2, <1>3, <1>4, <1>5, <1>6
       DEF LinkUp, RecvReady, SendReady, Connected, SendWriteWakesConnect, recvVars, server, stack

LEMMA AppendMail ==
  ASSUME NEW s \in Seq(Mail), NEW m \in Mail
  PROVE  /\ Append(s, m) # <<>>
         /\ (\A i \in DOMAIN s : s[i] = "null") /\ m = "null" =>
               \A i \in DOMAIN Append(s, m) : Append(s, m)[i] = "null"
         /\ (\E i \in DOMAIN s : s[i] = "null") \/ m = "null" =>
               \E i \in DOMAIN Append(s, m) : Append(s, m)[i] = "null"
  <1>1. /\ Append(s, m) \in Seq(Mail) /\ Len(Append(s, m)) = Len(s) + 1 /\ Len(s) \in Nat
        /\ DOMAIN s = 1 .. Len(s) /\ DOMAIN Append(s, m) = 1 .. Len(s) + 1
        /\ \A i \in 1 .. Len(s) : Append(s, m)[i] = s[i]
        /\ Append(s, m)[Len(s) + 1] = m
    OBVIOUS
  <1>2. QED  BY <1>1

LEMMA NextMail ==
  ASSUME NEW s \in Seq(Mail), s # <<>>
  PROVE  /\ Head(s) = s[1] /\ 1 \in DOMAIN s
         /\ (\E i \in DOMAIN s : s[i] = "null") /\ Head(s) # "null" =>
               \E i \in DOMAIN Tail(s) : Tail(s)[i] = "null"
  <1>1. /\ Head(s) = s[1] /\ 1 \in DOMAIN s /\ Len(s) \in Nat
        /\ DOMAIN s = 1 .. Len(s) /\ DOMAIN Tail(s) = 1 .. Len(s) - 1
        /\ \A i \in 1 .. Len(s) - 1 : Tail(s)[i] = s[i + 1]
    OBVIOUS
  <1>2. ASSUME NEW i \in 1 .. Len(s), s[i] = "null", s[1] # "null"
        PROVE  \E j \in 1 .. Len(s) - 1 : Tail(s)[j] = "null"
    <2>1. i - 1 \in 1 .. Len(s) - 1 /\ (i - 1) + 1 = i
      BY <1>1, <1>2
    <2>2. Tail(s)[i - 1] = s[i]
      BY <1>1, <2>1
    <2>3. QED  BY <1>2, <2>1, <2>2
  <1>3. QED  BY <1>1, <1>2

LEMMA AppendCurrent ==
  ASSUME NEW s \in Seq(Replies), NEW r \in Replies, r.current,
         \A i \in DOMAIN s : s[i].current
  PROVE  \A i \in DOMAIN Append(s, r) : Append(s, r)[i].current
  <1>1. /\ Len(s) \in Nat /\ DOMAIN s = 1 .. Len(s) /\ DOMAIN Append(s, r) = 1 .. Len(s) + 1
        /\ \A i \in 1 .. Len(s) : Append(s, r)[i] = s[i]
        /\ Append(s, r)[Len(s) + 1] = r
    OBVIOUS
  <1>2. \A i \in 1 .. Len(s) + 1 : i \in 1 .. Len(s) \/ i = Len(s) + 1
    BY <1>1
  <1>3. QED  BY <1>1, <1>2

LEMMA StepAuth == AuthInv /\ [Next]_vars => AuthInv'
  <1> SUFFICES ASSUME AuthInv, [Next]_vars
               PROVE  Owes' /\ NoOldAnswer' /\ AllCurrent' /\ AuthIsCurrent'
    BY StepBase DEF AuthInv
  <1>0. /\ Base /\ TypeOK /\ NoConn \notin Conn
        /\ Owes /\ NoOldAnswer /\ AllCurrent /\ AuthIsCurrent
        /\ tcp_handle_event \in Seq(Replies) /\ recvmbox \in [Conn -> Seq(Mail)]
        /\ owed \subseteq Conn /\ isConnected \in BOOLEAN
    BY ConnAssumption DEF AuthInv, Base, TypeOK, Replies, Mail
  <1> DEFINE Goal == Owes' /\ NoOldAnswer' /\ AllCurrent' /\ AuthIsCurrent'
  <1> USE DEF flags, stack, recvVars, handleVars, sendVars, server, hist
  <1>1. ASSUME NEW c \in Conn, StartConnect(c) PROVE Goal
    BY <1>0, <1>1 DEF StartConnect, Owes, NoOldAnswer, AllCurrent, AuthIsCurrent, In
  <1>2. CASE NoNetconn
    BY <1>0, <1>2 DEF NoNetconn, Owes, NoOldAnswer, AllCurrent, AuthIsCurrent, In
  <1>3. CASE Connected \/ SendWriteWakesConnect
    <2>1. Owes'
      <3>1. owed' = {} /\ isConnected' = TRUE
        BY <1>0, <1>3, QuietWhenUp DEF Owes
      <3>2. QED  BY <3>1 DEF Owes
    <2>2. NoOldAnswer'
      <3>1. recv' = "blocked" => recvmbox'[recvconn'] = <<>>
        BY <1>3, <1>0, QuietWhenUp
      <3>2. \A i \in DOMAIN <<>> : FALSE
        OBVIOUS
      <3>3. QED  BY <3>1, <3>2 DEF NoOldAnswer
    <2>3. AllCurrent'
      <3>1. tcp_handle_event' = <<>> /\ handle' = Idle
        BY <1>3, <1>0, QuietWhenUp
      <3>2. \A i \in DOMAIN <<>> : FALSE
        OBVIOUS
      <3>3. QED  BY <3>1, <3>2 DEF AllCurrent
    <2>4. AuthIsCurrent'
      BY <1>3, <1>0, QuietWhenUp DEF AuthIsCurrent
    <2>5. QED  BY <2>1, <2>2, <2>3, <2>4
  <1>4. CASE ConnectFailed
    <2>1. ~isConnected /\ owed = {}
      BY <1>0, <1>4 DEF ConnectFailed, Base, Owes
    <2>2. owed' = {} /\ ~isConnected' /\ UNCHANGED tcp_clientconn
      BY <1>0, <1>4, <2>1 DEF ConnectFailed, Delete
    <2>3. tcp_clientconn \in Conn => netconn'[tcp_clientconn] = "free"
      BY <1>0, <1>4 DEF ConnectFailed, Delete, TypeOK
    <2>4. Owes'
      BY <2>2, <2>3 DEF Owes, In
    <2>5. QED  BY <2>2, <2>4 DEF NoOldAnswer, AllCurrent, AuthIsCurrent
  <1>5. CASE LoginAgain \/ RecvWake \/ Report \/ SendHead
    <2>1. /\ UNCHANGED <<tcp_clientconn, isConnected, isAuthed, netconn, recvmbox, recvconn>>
          /\ UNCHANGED <<handle, tcp_handle_event, owed, authCurrent>>
          /\ recv' = recv \/ recv' = "call"
          /\ send' = send \/ (send' = "pend" /\ isConnected)
      BY <1>5 DEF LoginAgain, RecvWake, Report, SendHead
    <2>2. QED  BY <1>0, <2>1 DEF Owes, NoOldAnswer, AllCurrent, AuthIsCurrent, In
  <1>6. CASE RecvCall
    <2>1. recv' = "blocked" => recvconn' = tcp_clientconn
      BY <1>6 DEF RecvCall
    <2>2. QED
      BY <1>0, <1>6, <2>1 DEF RecvCall, Owes, NoOldAnswer, AllCurrent, AuthIsCurrent, In
  <1>7. CASE RecvFetch
    <2>1. /\ recv' # "blocked" /\ recvconn \in Conn
          /\ UNCHANGED <<tcp_clientconn, isConnected, isAuthed, netconn, send, owed, authCurrent,
                         handle>>
      BY <1>0, <1>7 DEF RecvFetch, Base
    <2>2. Owes' /\ NoOldAnswer' /\ AuthIsCurrent'
      BY <1>0, <2>1 DEF Owes, NoOldAnswer, AuthIsCurrent, In
    <2>3. AllCurrent'
      <3> SUFFICES ASSUME isConnected
                   PROVE  \A i \in DOMAIN tcp_handle_event' : tcp_handle_event'[i].current
        BY <1>0, <2>1 DEF AllCurrent
      <3> DEFINE box == recvmbox[recvconn]
                 r == [answer |-> Head(box), current |-> recvconn = tcp_clientconn]
      <3>1. \A i \in DOMAIN tcp_handle_event : tcp_handle_event[i].current
        BY <1>0 DEF AllCurrent
      <3>2. CASE tcp_handle_event' = tcp_handle_event
        BY <3>1, <3>2
      <3>3. CASE Head(box) # "null" /\ tcp_handle_event' = Append(tcp_handle_event, r)
        <4>1. box \in Seq(Mail) /\ box # <<>>
          BY <1>0, <1>7, <2>1 DEF RecvFetch
        <4>2. Head(box) \in Answers /\ Head(box) = box[1] /\ 1 \in DOMAIN box
          <5> HIDE DEF box
          <5>1. Head(box) \in Mail
            BY <4>1
          <5>2. QED  BY <3>3, <4>1, <5>1, NextMail DEF Mail
        <4>3. recvconn = tcp_clientconn
          BY <1>0, <1>7, <3>3, <4>2 DEF RecvFetch, NoOldAnswer
        <4>4. r \in Replies /\ r.current
          BY <4>2, <4>3 DEF Replies
        <4> HIDE DEF r, box
        <4>5. QED  BY <1>0, <3>1, <3>3, <4>4, AppendCurrent
      <3>4. QED  BY <1>7, <3>2, <3>3 DEF RecvFetch
    <2>4. QED  BY <2>2, <2>3
  <1>8. CASE RecvClose
    <2>1. isConnected' = FALSE /\ UNCHANGED <<tcp_clientconn, send>>
      BY <1>8 DEF RecvClose
    <2>2. owed' = {}
      BY <1>0, <1>8 DEF RecvClose, Delete, Owes
    <2>3. tcp_clientconn \in Conn => netconn'[tcp_clientconn] = "free"
      BY <1>0, <1>8 DEF RecvClose, Delete, TypeOK
    <2>4. Owes'
      BY <2>1, <2>2, <2>3 DEF Owes, In
    <2>5. QED  BY <2>1, <2>4 DEF NoOldAnswer, AllCurrent, AuthIsCurrent
  <1>9. CASE HandleTake
    <2>1. /\ Head(tcp_handle_event) = tcp_handle_event[1] /\ 1 \in DOMAIN tcp_handle_event
          /\ \A i \in DOMAIN Tail(tcp_handle_event) :
                 i + 1 \in DOMAIN tcp_handle_event
                 /\ Tail(tcp_handle_event)[i] = tcp_handle_event[i + 1]
      BY <1>0, <1>9, NextReply DEF HandleTake
    <2>2. AllCurrent'
      BY <1>0, <1>9, <2>1 DEF HandleTake, AllCurrent
    <2>3. QED  BY <1>0, <1>9, <2>2 DEF HandleTake, Owes, NoOldAnswer, AuthIsCurrent, In
  <1>10. CASE HandleLogin
    <2>1. /\ handle # Idle /\ handle' = Idle /\ authCurrent' = handle.current
          /\ UNCHANGED <<tcp_clientconn, isConnected, netconn, recvmbox, recv, recvconn,
                         tcp_handle_event, send, owed>>
      BY <1>10 DEF HandleLogin
    <2>2. AuthIsCurrent'
      BY <1>0, <2>1 DEF AllCurrent, AuthIsCurrent
    <2>3. QED  BY <1>0, <2>1, <2>2 DEF Owes, NoOldAnswer, AllCurrent, In
  <1>11. CASE SendWrite
    <2>1. /\ UNCHANGED <<tcp_clientconn, isConnected, isAuthed, netconn, recvmbox, recv, recvconn,
                         handle, tcp_handle_event, send, authCurrent>>
          /\ send = "pend"
          /\ owed' = owed \/ (owed' = owed \union {tcp_clientconn} /\ In(tcp_clientconn, {"open"}))
      BY <1>11 DEF SendWrite, Take, CanTake
    <2>2. Owes'
      BY <1>0, <2>1 DEF Owes, In
    <2>3. QED  BY <1>0, <2>1, <2>2 DEF NoOldAnswer, AllCurrent, AuthIsCurrent
  <1>12. CASE SendWriteFails
    <2>1. /\ UNCHANGED <<tcp_clientconn, isConnected, isAuthed, netconn, recvmbox, recv, recvconn,
                         handle, tcp_handle_event, owed, authCurrent>>
          /\ ~In(tcp_clientconn, {"open"})
      BY <1>12 DEF SendWriteFails, In
    <2>2. owed = {}
      BY <1>0, <2>1 DEF Owes, In
    <2>3. QED  BY <1>0, <2>1, <2>2 DEF Owes, NoOldAnswer, AllCurrent, AuthIsCurrent, In
  <1>13. CASE SendFailed
    BY <1>0, <1>13 DEF SendFailed, Owes, NoOldAnswer, AllCurrent, AuthIsCurrent, In
  <1>14. ASSUME NEW c \in Conn, Fin(c) \/ Rst(c) PROVE Goal
    <2>1. /\ UNCHANGED <<tcp_clientconn, isConnected, isAuthed, recv, recvconn, handle,
                         tcp_handle_event, send, authCurrent>>
          /\ owed' = owed \ {c} /\ Arrive(c, "null")
          /\ \E state \in {"fin", "dead"} : netconn' = [netconn EXCEPT ![c] = state]
      BY <1>14 DEF Fin, Rst
    <2>2. Owes'
      BY <1>0, <2>1 DEF Owes, In, TypeOK
    <2>3. NoOldAnswer'
      <3> SUFFICES ASSUME isConnected, recv = "blocked", recvconn # tcp_clientconn
                   PROVE  \A i \in DOMAIN recvmbox'[recvconn] : recvmbox'[recvconn][i] = "null"
        BY <2>1 DEF NoOldAnswer
      <3>1. recvconn \in Conn
        BY <1>0 DEF Base
      <3>2. \A i \in DOMAIN recvmbox[recvconn] : recvmbox[recvconn][i] = "null"
        BY <1>0 DEF NoOldAnswer
      <3>3. CASE recvconn # c
        BY <1>0, <2>1, <3>1, <3>2, <3>3 DEF Arrive
      <3>4. CASE recvconn = c
        <4>1. recvmbox'[recvconn] = Append(recvmbox[recvconn], "null")
          BY <1>0, <2>1, <3>4 DEF Arrive
        <4>2. recvmbox[recvconn] \in Seq(Mail) /\ "null" \in Mail
          BY <1>0, <3>1 DEF Mail
        <4>3. QED  BY <3>2, <4>1, <4>2, AppendMail
      <3>5. QED  BY <3>3, <3>4
    <2>4. QED  BY <1>0, <2>1, <2>2, <2>3 DEF AllCurrent, AuthIsCurrent
  <1>15. ASSUME NEW c \in Conn, NEW a \in Answers, Reply(c, a) PROVE Goal
    <2>1. /\ UNCHANGED <<tcp_clientconn, isConnected, isAuthed, recv, recvconn, handle,
                         tcp_handle_event, send, authCurrent, netconn>>
          /\ owed' = owed \ {c} /\ Arrive(c, a) /\ c \in owed
      BY <1>15 DEF Reply
    <2>2. c = tcp_clientconn
      BY <1>0, <2>1 DEF Owes
    <2>3. recvconn # tcp_clientconn /\ recvconn \in Conn => UNCHANGED recvmbox[recvconn]
      BY <1>0, <2>1, <2>2 DEF Arrive
    <2>4. NoOldAnswer'
      BY <1>0, <2>1, <2>3 DEF NoOldAnswer, Base
    <2>5. QED  BY <1>0, <2>1, <2>4 DEF Owes, AllCurrent, AuthIsCurrent
  <1>16. ASSUME NEW ok \in BOOLEAN, LateHandshake(ok) PROVE Goal
    <2>1. /\ UNCHANGED <<tcp_clientconn, isConnected, isAuthed, recv, recvconn, handle,
                         tcp_handle_event, owed, authCurrent>>
          /\ send = "waiting" /\ send' = "failed"
          /\ UNCHANGED recvmbox \/ Arrive(tcp_clientconn, "null")
      BY <1>16 DEF LateHandshake
    <2>2. Owes'
      BY <1>0, <2>1 DEF Owes
    <2>3. recvconn # tcp_clientconn /\ recvconn \in Conn => UNCHANGED recvmbox[recvconn]
      BY <1>0, <2>1 DEF Arrive
    <2>4. NoOldAnswer'
      BY <1>0, <2>1, <2>3 DEF NoOldAnswer, Base
    <2>5. QED  BY <1>0, <2>1, <2>2, <2>4 DEF AllCurrent, AuthIsCurrent
  <1>17. CASE UNCHANGED vars
    BY <1>0, <1>17 DEF vars, Owes, NoOldAnswer, AllCurrent, AuthIsCurrent, In
  <1>18. QED
    BY <1>1, <1>2, <1>3, <1>4, <1>5, <1>6, <1>7, <1>8, <1>9, <1>10, <1>11, <1>12, <1>13,
       <1>14, <1>15, <1>16, <1>17
       DEF Next, ConnectWake, RecvTask, HandleTask, SendTask

LEMMA InitAuth == Init => AuthInv
  <1> SUFFICES ASSUME Init PROVE AuthInv
    OBVIOUS
  <1>1. Base
    BY InitType DEF Init, Base
  <1>2. QED
    BY <1>1 DEF Init, AuthInv, Owes, NoOldAnswer, AllCurrent, AuthIsCurrent, Idle, In

(* The variables hold what their declarations say.                         *)
THEOREM TypeCorrect == Spec => []TypeOK
  <1>1. AuthInv => TypeOK
    BY DEF AuthInv, Base
  <1>2. QED  BY <1>1, InitAuth, StepAuth, PTL DEF Spec

(* The login in force is never that of an earlier connection.              *)
THEOREM AuthIsCurrentHolds == Spec => []AuthIsCurrent
  <1>1. AuthInv => AuthIsCurrent
    BY DEF AuthInv
  <1>2. QED  BY <1>1, InitAuth, StepAuth, PTL DEF Spec

-----------------------------------------------------------------------------
(* The connection in use.                                                  *)

LEMMA StepLink == LinkInv /\ [Next]_vars => LinkInv'
  <1> SUFFICES ASSUME LinkInv, [Next]_vars, ~early'
               PROVE  send' # "waiting" /\ Used' /\ Listens' /\ OneInUse'
    BY StepBase DEF LinkInv
  <1> USE DEF flags, stack, recvVars, handleVars, sendVars, server, hist
  <1>e. ~early
    <2>1. ~SendWriteWakesConnect
      BY DEF SendWriteWakesConnect
    <2>2. UNCHANGED early
      BY <2>1 DEF Next, ConnectWake, RecvTask, HandleTask, SendTask, StartConnect, NoNetconn,
         LoginAgain, Connected, LinkUp, ConnectFailed, RecvWake, RecvCall, RecvFetch, RecvClose,
         HandleTake, HandleLogin, SendHead, SendWrite, SendWriteFails, SendFailed, Report, Fin,
         Rst, Reply, LateHandshake, vars
    <2>3. QED  BY <2>2
  <1>0. /\ Base /\ TypeOK /\ NoConn \notin Conn
        /\ send # "waiting" /\ Used /\ Listens /\ OneInUse
        /\ recvmbox \in [Conn -> Seq(Mail)]
        /\ netconn \in [Conn -> {"free", "connecting", "open", "fin", "dead"}]
        /\ tcp_clientconn \in Conn \union {NoConn}
    BY <1>e, ConnAssumption DEF LinkInv, Base, TypeOK, Mail
  <1> DEFINE Goal == send' # "waiting" /\ Used' /\ Listens' /\ OneInUse'
  <1>1. ASSUME NEW c \in Conn, StartConnect(c) PROVE Goal
    <2>1. /\ ~isConnected /\ ~isConnected' /\ recv \notin {"blocked", "close"}
          /\ UNCHANGED <<recv, recvconn, send, recvmbox>>
          /\ tcp_clientconn' = c /\ connect' = "connecting"
          /\ netconn' = [netconn EXCEPT ![c] = "connecting"]
      BY <1>0, <1>1 DEF StartConnect, Listens
    <2>2. \A d \in Conn : netconn[d] \in {"free", "dead"}
      BY <1>0, <1>1 DEF StartConnect, Used, OneInUse, In
    <2>3. QED  BY <1>0, <2>1, <2>2 DEF Used, Listens, OneInUse, In
  <1>2. CASE NoNetconn
    <2>1. \A d \in Conn : netconn[d] \in {"free", "dead"}
      BY <1>0, <1>2 DEF NoNetconn, Used, OneInUse, In
    <2>2. QED  BY <1>0, <1>2, <2>1 DEF NoNetconn, Used, Listens, OneInUse, In
  <1>3. CASE Connected
    <2>1. /\ tcp_clientconn \in Conn /\ recv \notin {"blocked", "close"} /\ send # "failed"
          /\ isConnected' = TRUE /\ connect' = "sleep"
          /\ UNCHANGED <<tcp_clientconn, recv, recvconn, recvmbox, send>>
          /\ netconn' = [netconn EXCEPT ![tcp_clientconn] = "open"]
      BY <1>0, <1>3, QuietWhenUp DEF Connected, Listens
    <2>2. QED  BY <1>0, <2>1 DEF Used, Listens, OneInUse, In
  <1>4. CASE ConnectFailed
    <2>1. /\ tcp_clientconn \in Conn /\ recv \notin {"blocked", "close"}
          /\ ~isConnected' /\ connect' = "sleep"
          /\ UNCHANGED <<tcp_clientconn, recv, recvconn, send>>
          /\ netconn' = [netconn EXCEPT ![tcp_clientconn] = "free"]
      BY <1>0, <1>4 DEF ConnectFailed, Base, Listens, Delete
    <2>2. QED  BY <1>0, <2>1 DEF Used, Listens, OneInUse, In
  <1>5. CASE LoginAgain \/ RecvWake \/ Report \/ SendHead \/ HandleTake \/ HandleLogin \/ SendWrite
    <2>1. /\ UNCHANGED <<tcp_clientconn, isConnected, netconn, recvmbox, recvconn, connect>>
          /\ recv' = recv \/ (recv = "sleep" /\ recv' = "call")
          /\ send' = send \/ send' = "pend"
      BY <1>5 DEF LoginAgain, RecvWake, Report, SendHead, HandleTake, HandleLogin, SendWrite
    <2>2. QED  BY <1>0, <2>1 DEF Used, Listens, OneInUse, In, Ends
  <1>6. CASE RecvCall
    <2>1. /\ UNCHANGED <<tcp_clientconn, isConnected, netconn, recvmbox, connect, send>>
          /\ recv = "call" /\ recv' # "close"
          /\ recv' = "blocked" => isConnected /\ ~Spins /\ recvconn' = tcp_clientconn
      BY <1>6 DEF RecvCall
    <2>2. recv' = "blocked" => In(tcp_clientconn, {"open", "fin"})
      BY <1>0, <2>1 DEF Spins, Used, In
    <2>3. QED  BY <1>0, <2>1, <2>2 DEF Used, Listens, OneInUse, In, Ends
  <1>7. CASE RecvFetch
    <2>1. /\ UNCHANGED <<tcp_clientconn, isConnected, netconn, recvconn, connect, send>>
          /\ recv = "blocked" /\ isConnected /\ recvconn = tcp_clientconn
          /\ recvconn \in Conn /\ In(recvconn, {"open", "fin", "dead"})
      BY <1>0, <1>7 DEF RecvFetch, Listens, Base
    <2> DEFINE box == recvmbox[recvconn]
    <2>2. /\ box \in Seq(Mail) /\ box # <<>> /\ recvmbox'[recvconn] = Tail(box)
          /\ recv' = IF Head(box) = "null" THEN "close" ELSE "call"
      BY <1>0, <1>7, <2>1 DEF RecvFetch
    <2>3. (\E i \in DOMAIN box : box[i] = "null") /\ Head(box) # "null" =>
             \E i \in DOMAIN Tail(box) : Tail(box)[i] = "null"
      <3> HIDE DEF box
      <3>1. QED  BY <2>2, NextMail
    <2>4. recv' # "close" /\ In(tcp_clientconn, {"fin"}) =>
             \E i \in DOMAIN recvmbox'[tcp_clientconn] : recvmbox'[tcp_clientconn][i] = "null"
      BY <1>0, <2>1, <2>2, <2>3 DEF Listens, Ends
    <2>5. QED  BY <1>0, <2>1, <2>2, <2>4 DEF Used, Listens, OneInUse, In, Ends
  <1>8. CASE RecvClose
    <2>1. /\ tcp_clientconn \in Conn /\ ~isConnected' /\ recv' = "sleep"
          /\ netconn' = [netconn EXCEPT ![tcp_clientconn] = "free"]
          /\ UNCHANGED <<tcp_clientconn, connect, recvconn, send>>
          /\ connect = "sleep"
      BY <1>0, <1>8 DEF RecvClose, Delete, Listens, In, Base, TypeOK
    <2>2. QED  BY <1>0, <2>1 DEF Used, Listens, OneInUse, In
  <1>9. CASE SendWriteFails
    <2>1. /\ UNCHANGED <<tcp_clientconn, isConnected, netconn, recvmbox, recv, recvconn, connect>>
          /\ send' \in {"failed", "pend", "head"}
          /\ ~In(tcp_clientconn, {"connecting", "open", "fin"})
      BY <1>9 DEF SendWriteFails
    <2>2. QED  BY <1>0, <2>1 DEF Used, Listens, OneInUse, In, Ends
  <1>10. CASE SendFailed
    <2>1. /\ UNCHANGED <<tcp_clientconn, netconn, recvmbox, recv, recvconn, connect>>
          /\ ~isConnected' /\ send' = "head" /\ send = "failed" /\ ~RecvReady
      BY <1>10 DEF SendFailed, SendRuns
    <2>2. recv \notin {"blocked", "close"}
      <3> SUFFICES ASSUME recv = "blocked" PROVE FALSE
        BY <2>1 DEF RecvReady
      <3>1. /\ isConnected /\ recvconn = tcp_clientconn /\ In(recvconn, {"open", "fin", "dead"})
            /\ recvmbox[recvconn] = <<>>
        BY <1>0, <2>1 DEF Listens, RecvReady
      <3>2. In(recvconn, {"dead"})
        BY <1>0, <2>1, <3>1 DEF Used, In
      <3>3. Ends(recvconn)
        BY <1>0, <3>2 DEF Listens
      <3>4. \A i \in DOMAIN <<>> : FALSE
        OBVIOUS
      <3>5. QED  BY <3>1, <3>3, <3>4 DEF Ends
    <2>3. isConnected => ~In(tcp_clientconn, {"connecting", "open", "fin"})
      BY <1>0, <2>1 DEF Used
    <2>4. QED  BY <1>0, <2>1, <2>2, <2>3 DEF Used, Listens, OneInUse, In, Ends
  <1>11. ASSUME NEW c \in Conn, Fin(c) \/ Rst(c) PROVE Goal
    <2>1. /\ UNCHANGED <<tcp_clientconn, isConnected, recv, recvconn, connect, send>>
          /\ Arrive(c, "null") /\ netconn[c] \in {"open", "fin"}
          /\ \E state \in {"fin", "dead"} : netconn' = [netconn EXCEPT ![c] = state]
      BY <1>11 DEF Fin, Rst
    <2>2. \E i \in DOMAIN recvmbox'[c] : recvmbox'[c][i] = "null"
      <3>1. recvmbox'[c] = Append(recvmbox[c], "null")
        BY <1>0, <2>1 DEF Arrive
      <3>2. recvmbox[c] \in Seq(Mail) /\ "null" \in Mail
        BY <1>0 DEF Mail
      <3>3. QED  BY <3>1, <3>2, AppendMail
    <2>3. c = tcp_clientconn
      BY <1>0, <2>1 DEF OneInUse
    <2>4. Used'
      BY <1>0, <2>1, <2>3 DEF Used, In
    <2>5. Listens'
      BY <1>0, <2>1, <2>2, <2>3 DEF Listens, In, Ends
    <2>6. QED  BY <1>0, <2>1, <2>3, <2>4, <2>5 DEF OneInUse
  <1>12. ASSUME NEW c \in Conn, NEW a \in Answers, Reply(c, a) PROVE Goal
    <2>1. /\ UNCHANGED <<tcp_clientconn, isConnected, recv, recvconn, connect, send, netconn>>
          /\ Arrive(c, a) /\ netconn[c] = "open"
      BY <1>12 DEF Reply
    <2>2. Used' /\ OneInUse'
      BY <1>0, <2>1 DEF Used, OneInUse, In
    <2>3. \A d \in Conn : netconn[d] \in {"fin", "dead"} => UNCHANGED recvmbox[d]
      BY <1>0, <2>1 DEF Arrive
    <2>4. Listens'
      BY <1>0, <2>1, <2>3 DEF Listens, In, Ends
    <2>5. QED  BY <1>0, <2>1, <2>2, <2>4
  <1>13. ASSUME NEW ok \in BOOLEAN, LateHandshake(ok) PROVE Goal
    BY <1>0, <1>13 DEF LateHandshake
  <1>14. CASE SendWriteWakesConnect
    BY <1>14 DEF SendWriteWakesConnect
  <1>15. CASE UNCHANGED vars
    BY <1>0, <1>15 DEF vars, Used, Listens, OneInUse, In, Ends
  <1>16. QED
    BY <1>1, <1>2, <1>3, <1>4, <1>5, <1>6, <1>7, <1>8, <1>9, <1>10, <1>11, <1>12, <1>13,
       <1>14, <1>15
       DEF Next, ConnectWake, RecvTask, HandleTask, SendTask

LEMMA InitLink == Init => LinkInv
  <1> SUFFICES ASSUME Init PROVE LinkInv
    OBVIOUS
  <1>1. Base
    BY InitType DEF Init, Base
  <1>2. NoConn \notin Conn
    BY ConnAssumption
  <1>3. QED  BY <1>1, <1>2 DEF Init, LinkInv, Used, Listens, OneInUse, In

(* As long as no write has met a connect, the receive task closes the      *)
(* connection whose end it has read,                                       *)
THEOREM ClosesOwnHolds == Spec => []ClosesOwn
  <1>1. LinkInv => ClosesOwn
    BY DEF LinkInv, Listens, ClosesOwn
  <1>2. QED  BY <1>1, InitLink, StepLink, PTL DEF Spec

(* sleeps on the connection the others use,                                *)
THEOREM ListensToCurrentHolds == Spec => []ListensToCurrent
  <1>1. LinkInv => ListensToCurrent
    BY DEF LinkInv, Listens, ListensToCurrent, In
  <1>2. QED  BY <1>1, InitLink, StepLink, PTL DEF Spec

(* and only netconns of connections that were reset are lost.              *)
THEOREM LosesOnlyResetsHolds == Spec => []LosesOnlyResets
  <1>1. LinkInv => LosesOnlyResets
    BY DEF LinkInv, OneInUse, LosesOnlyResets
  <1>2. QED  BY <1>1, InitLink, StepLink, PTL DEF Spec

=============================================================================
