-------------------------- MODULE ServerLinkProofs --------------------------
(***************************************************************************)
(* Proofs about ServerLink, for any number of users, any passwords and     *)
(* queues of any size.                                                     *)
(***************************************************************************)
EXTENDS ServerLink, TLAPS

-----------------------------------------------------------------------------
(* The inductive invariant.                                                *)

(* Who is accepted has a netconn and waits no longer; who waits, waits     *)
(* once; nobody else has a netconn that lives.                             *)
InBox(c) == \E i \in DOMAIN acceptmbox : acceptmbox[i] = c
Users ==
    /\ isAccepted => serverconn \in Conn /\ netconn[serverconn] # "free" /\ ~InBox(serverconn)
    /\ \A i \in DOMAIN acceptmbox : netconn[acceptmbox[i]] # "free"
    /\ \A i, j \in DOMAIN acceptmbox : acceptmbox[i] = acceptmbox[j] => i = j
    /\ \A c \in Conn : netconn[c] \in {"open", "fin"} =>
          (isAccepted /\ c = serverconn) \/ InBox(c)

(* The receiving task is on the connection of who is accepted.             *)
Listens ==
    recv \in {"blocked", "close"} =>
        isAccepted /\ recvconn = serverconn

(* Who counts as checked is accepted, and it was his own password.         *)
Checked == ~late /\ isChecked => isAccepted /\ checkedCurrent

Base ==
    /\ TypeOK
    /\ server = "accept" => ~isAccepted
    /\ recv = "blocked" => recvconn \in Conn
ServerInv == Base /\ (~cut => Users /\ Listens /\ Checked)

-----------------------------------------------------------------------------
(* Types.                                                                  *)

Mail == Passwords \union {"null"}
Logins == [password : Passwords, current : BOOLEAN]
Writes == [state : {"none", "writing", "refused", "failed"}, on : Conn \union {NoConn}]

LEMMA InitType == Init => TypeOK
  <1> SUFFICES ASSUME Init PROVE TypeOK
    OBVIOUS
  <1>1. /\ recvmbox \in [Conn -> Seq(Mail)]
        /\ <<>> \in Seq(Logins) /\ <<>> \in Seq(Conn)
    BY DEF Init, Mail
  <1>2. 0 \in 0 .. MaxSends
    BY BoundAssumption
  <1>3. write \in [{"send", "camera"} -> Writes]
    BY DEF Init, NoWrite, Writes
  <1>4. QED  BY <1>1, <1>2, <1>3 DEF Init, TypeOK, Mail, Logins, Writes

LEMMA NextUser ==
  ASSUME NEW s \in Seq(Conn), s # <<>>
  PROVE  /\ Head(s) \in Conn /\ Tail(s) \in Seq(Conn) /\ Len(s) \in Nat
         /\ Head(s) = s[1] /\ 1 \in DOMAIN s
         /\ DOMAIN s = 1 .. Len(s) /\ DOMAIN Tail(s) = 1 .. Len(s) - 1
         /\ \A i \in 1 .. Len(s) - 1 : Tail(s)[i] = s[i + 1]
  OBVIOUS

LEMMA LastUser ==
  ASSUME NEW s \in Seq(Conn), NEW c \in Conn
  PROVE  /\ Append(s, c) \in Seq(Conn) /\ Len(s) \in Nat
         /\ DOMAIN s = 1 .. Len(s) /\ DOMAIN Append(s, c) = 1 .. Len(s) + 1
         /\ \A i \in 1 .. Len(s) : Append(s, c)[i] = s[i]
         /\ Append(s, c)[Len(s) + 1] = c
  OBVIOUS

LEMMA NextLogin ==
  ASSUME NEW s \in Seq(Logins), s # <<>>
  PROVE  Head(s) \in Logins /\ Tail(s) \in Seq(Logins)
  OBVIOUS

LEMMA LoginType ==
  ASSUME NEW s \in Seq(Logins)
  PROVE  [i \in DOMAIN s |-> [s[i] EXCEPT !.current = FALSE]] \in Seq(Logins)
  <1>1. Len(s) \in Nat /\ DOMAIN s = 1 .. Len(s)
    OBVIOUS
  <1>2. \A i \in 1 .. Len(s) : s[i] \in Logins
    OBVIOUS
  <1>3. \A r \in Logins : [r EXCEPT !.current = FALSE] \in Logins
    BY DEF Logins
  <1>4. \A i \in 1 .. Len(s) : [s[i] EXCEPT !.current = FALSE] \in Logins
    BY <1>2, <1>3
  <1>5. QED  BY <1>1, <1>4

LEMMA PostType == ASSUME TypeOK, Post PROVE tcp_send_event' \in 0 .. MaxSends
  BY BoundAssumption DEF TypeOK, Post

LEMMA ArriveType ==
  ASSUME TypeOK, NEW c \in Conn, NEW m \in Mail, Arrive(c, m)
  PROVE  recvmbox' \in [Conn -> Seq(Mail)]
  <1>1. recvmbox \in [Conn -> Seq(Mail)]
    BY DEF TypeOK, Mail
  <1>2. Append(recvmbox[c], m) \in Seq(Mail)
    BY <1>1
  <1>3. QED  BY <1>1, <1>2 DEF Arrive

LEMMA DeleteType ==
  ASSUME TypeOK, NEW c, Delete(c)
  PROVE  /\ netconn' \in [Conn -> {"free", "open", "fin", "dead"}]
         /\ recvmbox' \in [Conn -> Seq(Mail)]
         /\ UNCHANGED acceptmbox
  <1>1. recvmbox \in [Conn -> Seq(Mail)] /\ <<>> \in Seq(Mail)
    BY DEF TypeOK, Mail
  <1>2. QED  BY <1>1 DEF TypeOK, Delete

LEMMA WriteType ==
  ASSUME TypeOK, NEW w \in {"send", "camera"}, NEW c \in Conn \union {NoConn},
         NEW state \in {"none", "writing", "refused", "failed"}, SetWrite(w, state, c)
  PROVE  write' \in [{"send", "camera"} -> Writes]
  <1>1. [state |-> state, on |-> c] \in Writes
    BY DEF Writes
  <1>2. write \in [{"send", "camera"} -> Writes]
    BY DEF TypeOK, Writes
  <1>3. QED  BY <1>1, <1>2 DEF SetWrite

LEMMA BeginType ==
  ASSUME TypeOK, NEW w \in {"send", "camera"}, BeginWrite(w)
  PROVE  write' \in [{"send", "camera"} -> Writes]
  <1>1. serverconn \in Conn \union {NoConn} /\ NoConn \in Conn \union {NoConn}
    BY DEF TypeOK
  <1>2. CASE SetWrite(w, "writing", serverconn) \/ SetWrite(w, "failed", NoConn)
                \/ SetWrite(w, "none", NoConn)
    BY <1>1, <1>2, WriteType
  <1>3. CASE \E s \in {"none", "failed"} :
               write' = [send |-> [state |-> s, on |-> NoConn],
                         camera |-> [state |-> "refused", on |-> serverconn]]
    <2>1. PICK s \in {"none", "failed"} :
               write' = [send |-> [state |-> s, on |-> NoConn],
                         camera |-> [state |-> "refused", on |-> serverconn]]
      BY <1>3
    <2>2. /\ [state |-> s, on |-> NoConn] \in Writes
          /\ [state |-> "refused", on |-> serverconn] \in Writes
      BY <1>1 DEF Writes
    <2>3. QED  BY <2>1, <2>2
  <1>4. QED  BY <1>2, <1>3 DEF BeginWrite

LEMMA StepBase == Base /\ [Next]_vars => Base'
  <1> SUFFICES ASSUME Base, [Next]_vars PROVE Base'
    OBVIOUS
  <1>0. TypeOK /\ NoConn \notin Conn
    BY ConnAssumption DEF Base
  <1> USE DEF flags, stack, recvVars, sendVars, hist, Mail, Logins, Writes
  <1>1. CASE ServerAccept
    <2>1. acceptmbox \in Seq(Conn) /\ acceptmbox # <<>>
      BY <1>0, <1>1 DEF ServerAccept, ServerReady, TypeOK
    <2>2. Head(acceptmbox) \in Conn /\ Tail(acceptmbox) \in Seq(Conn)
      BY <2>1, NextUser
    <2>3. tcp_handle_event' \in Seq(Logins)
      <3> HIDE DEF Logins
      <3>1. tcp_handle_event \in Seq(Logins)
        BY <1>0 DEF TypeOK, Logins
      <3>2. QED  BY <1>1, <3>1, LoginType DEF ServerAccept
    <2>4. QED  BY <1>0, <1>1, <2>2, <2>3 DEF ServerAccept, Base, TypeOK
  <1>2. CASE ServerWake
    BY <1>0, <1>2 DEF ServerWake, Base, TypeOK
  <1>3. CASE RecvWake
    BY <1>0, <1>3 DEF RecvWake, Base, TypeOK
  <1>4. CASE RecvCall
    BY <1>0, <1>4 DEF RecvCall, Spins, In, Base, TypeOK
  <1>5. CASE RecvFetch
    <2>1. recvconn \in Conn
      BY <1>5 DEF RecvFetch, Base
    <2> DEFINE box == recvmbox[recvconn]
    <2>2. recvmbox \in [Conn -> Seq(Mail)] /\ box \in Seq(Mail) /\ box # <<>>
      BY <1>0, <1>5, <2>1 DEF RecvFetch, TypeOK
    <2>3. Head(box) \in Mail /\ Tail(box) \in Seq(Mail)
      <3> HIDE DEF box, Mail
      <3>1. QED  BY <2>2
    <2>4. recvmbox' \in [Conn -> Seq(Mail)]
      BY <1>5, <2>2, <2>3 DEF RecvFetch
    <2>5. tcp_handle_event' \in Seq(Logins)
      <3> DEFINE r == [password |-> Head(box), current |-> recvconn = serverconn]
      <3>1. tcp_handle_event \in Seq(Logins)
        BY <1>0 DEF TypeOK
      <3>2. Head(box) # "null" => r \in Logins
        BY <2>3
      <3>3. \/ tcp_handle_event' = tcp_handle_event
            \/ Head(box) # "null" /\ tcp_handle_event' = Append(tcp_handle_event, r)
        BY <1>5 DEF RecvFetch
      <3> HIDE DEF r, Logins
      <3>4. QED  BY <3>1, <3>2, <3>3
    <2>6. QED  BY <1>0, <1>5, <2>1, <2>4, <2>5 DEF RecvFetch, Base, TypeOK
  <1>6. CASE RecvClose
    <2>1. /\ netconn' \in [Conn -> {"free", "open", "fin", "dead"}]
          /\ recvmbox' \in [Conn -> Seq(Mail)] /\ UNCHANGED acceptmbox
      BY <1>0, <1>6, DeleteType DEF RecvClose
    <2>2. QED  BY <1>0, <1>6, <2>1 DEF RecvClose, Unchecked, Base, TypeOK
  <1>7. CASE HandleLogin
    <2>1. /\ Head(tcp_handle_event) \in Logins /\ Tail(tcp_handle_event) \in Seq(Logins)
      <3> HIDE DEF Logins
      <3>1. tcp_handle_event # <<>> /\ tcp_handle_event \in Seq(Logins)
        BY <1>0, <1>7 DEF HandleLogin, TypeOK, Logins
      <3>2. QED  BY <3>1, NextLogin
    <2>2. Head(tcp_handle_event).current \in BOOLEAN
      BY <2>1
    <2>3. isChecked' \in BOOLEAN /\ {checkedCurrent', late'} \subseteq BOOLEAN
      BY <1>0, <1>7, <2>2 DEF HandleLogin, TypeOK
    <2>4. tcp_send_event' \in 0 .. MaxSends
      BY <1>0, <1>7, PostType DEF HandleLogin
    <2>5. QED  BY <1>0, <1>7, <2>1, <2>3, <2>4 DEF HandleLogin, Base, TypeOK
  <1>8. CASE SendHead
    BY <1>0, <1>8 DEF SendHead, Base, TypeOK
  <1>9. CASE SendWrite
    <2>1. tcp_send_event' \in 0 .. MaxSends
      BY <1>0, <1>9, BoundAssumption DEF SendWrite, TypeOK
    <2>2. write' \in [{"send", "camera"} -> Writes]
      BY <1>0, <1>9, BeginType DEF SendWrite
    <2>3. QED  BY <1>0, <1>9, <2>1, <2>2 DEF SendWrite, Base, TypeOK
  <1>10. CASE SendFailed \/ CameraFailed \/ CameraToServerFailed
    <2>1. write' \in [{"send", "camera"} -> Writes]
      BY <1>0, <1>10, WriteType DEF SendFailed, CameraFailed, CameraToServerFailed, TypeOK
    <2>2. TakeBack
      BY <1>10 DEF SendFailed, CameraFailed, CameraToServerFailed
    <2>3. QED  BY <1>0, <2>1, <2>2 DEF TakeBack, Base, TypeOK
  <1>11. CASE CameraWrite
    <2>1. write' \in [{"send", "camera"} -> Writes]
      BY <1>0, <1>11, BeginType DEF CameraWrite
    <2>2. QED  BY <1>0, <1>11, <2>1 DEF CameraWrite, Base, TypeOK
  <1>12. CASE Report
    BY <1>0, <1>12, PostType DEF Report, Base, TypeOK
  <1>13. ASSUME NEW w \in {"send", "camera"}, Written(w) PROVE Base'
    <2>1. write' \in [{"send", "camera"} -> Writes]
      BY <1>0, <1>13, WriteType DEF Written
    <2>2. QED  BY <1>0, <1>13, <2>1 DEF Written, Base, TypeOK
  <1>14. ASSUME NEW c \in Conn, UserConnect(c) PROVE Base'
    <2>1. acceptmbox' \in Seq(Conn)
      BY <1>0, <1>14, LastUser DEF UserConnect, TypeOK
    <2>2. QED  BY <1>0, <1>14, <2>1 DEF UserConnect, Base, TypeOK
  <1>15. ASSUME NEW c \in Conn, NEW p \in Passwords, UserLogin(c, p) PROVE Base'
    BY <1>0, <1>15, ArriveType DEF UserLogin, Base, TypeOK
  <1>16. ASSUME NEW c \in Conn, Fin(c) PROVE Base'
    BY <1>0, <1>16, ArriveType DEF Fin, Base, TypeOK
  <1>17. ASSUME NEW c \in Conn, Rst(c) PROVE Base'
    <2>1. write' \in [{"send", "camera"} -> Writes]
      <3>1. [state |-> "failed", on |-> NoConn] \in Writes
        OBVIOUS
      <3>2. write \in [{"send", "camera"} -> Writes]
        BY <1>0 DEF TypeOK
      <3> HIDE DEF Writes
      <3>3. QED  BY <1>17, <3>1, <3>2 DEF Rst
    <2>2. QED  BY <1>0, <1>17, <2>1, ArriveType DEF Rst, Base, TypeOK
  <1>18. CASE UNCHANGED vars
    BY <1>0, <1>18 DEF vars, Base, TypeOK
  <1>19. QED
    BY <1>1, <1>2, <1>3, <1>4, <1>5, <1>6, <1>7, <1>8, <1>9, <1>10, <1>11, <1>12, <1>13,
       <1>14, <1>15, <1>16, <1>17, <1>18
       DEF Next, RecvTask, SendTask, User

LEMMA InitBase == Init => Base
  BY InitType DEF Init, Base

-----------------------------------------------------------------------------
(* The invariant.                                                          *)

LEMMA StepServer == ServerInv /\ [Next]_vars => ServerInv'
  <1> SUFFICES ASSUME ServerInv, [Next]_vars, ~cut'
               PROVE  Users' /\ Listens' /\ Checked'
    BY StepBase DEF ServerInv
  <1> USE DEF flags, stack, recvVars, sendVars, hist
  <1>c. ~cut
    <2>1. CASE TakeBack
      BY <2>1 DEF TakeBack
    <2>2. CASE UNCHANGED cut
      BY <2>2
    <2>3. UNCHANGED cut \/ TakeBack
      BY DEF Next, RecvTask, SendTask, User, ServerAccept, ServerWake, RecvWake, RecvCall, RecvFetch,
         RecvClose, Unchecked, HandleLogin, SendHead, SendWrite, SendFailed, CameraWrite,
         CameraFailed, CameraToServerFailed, Report, Written, UserConnect, UserLogin, Fin, Rst,
         vars
    <2>4. QED  BY <2>1, <2>2, <2>3
  <1>0. /\ Base /\ TypeOK /\ NoConn \notin Conn
        /\ Users /\ Listens /\ Checked
        /\ acceptmbox \in Seq(Conn) /\ Len(acceptmbox) \in Nat
        /\ DOMAIN acceptmbox = 1 .. Len(acceptmbox)
        /\ netconn \in [Conn -> {"free", "open", "fin", "dead"}]
        /\ serverconn \in Conn \union {NoConn}
        /\ {isAccepted, isChecked, late, checkedCurrent} \subseteq BOOLEAN
    BY <1>c, ConnAssumption DEF ServerInv, Base, TypeOK
  <1> DEFINE Goal == Users' /\ Listens' /\ Checked'
  <1>1. CASE ServerAccept
    <2>1. /\ ~isAccepted /\ acceptmbox # <<>> /\ isAccepted' = TRUE
          /\ serverconn' = Head(acceptmbox) /\ acceptmbox' = Tail(acceptmbox)
          /\ UNCHANGED <<netconn, recv, recvconn, isChecked, late>>
      BY <1>0, <1>1 DEF ServerAccept, ServerReady, Base
    <2>2. /\ Head(acceptmbox) \in Conn /\ Head(acceptmbox) = acceptmbox[1]
          /\ 1 \in 1 .. Len(acceptmbox) /\ DOMAIN Tail(acceptmbox) = 1 .. Len(acceptmbox) - 1
          /\ \A i \in 1 .. Len(acceptmbox) - 1 : Tail(acceptmbox)[i] = acceptmbox[i + 1]
      BY <1>0, <2>1, NextUser
    <2>3. \A i \in 1 .. Len(acceptmbox) - 1 : i + 1 \in 1 .. Len(acceptmbox) /\ i + 1 # 1
      BY <1>0
    <2>4. ~InBox(serverconn)'
      BY <1>0, <2>1, <2>2, <2>3 DEF Users, InBox
    <2>5. \A i \in DOMAIN acceptmbox' : netconn[acceptmbox'[i]] # "free"
      BY <1>0, <2>1, <2>2, <2>3 DEF Users
    <2>6. \A i, j \in DOMAIN acceptmbox' : acceptmbox'[i] = acceptmbox'[j] => i = j
      <3> SUFFICES ASSUME NEW i \in 1 .. Len(acceptmbox) - 1, NEW j \in 1 .. Len(acceptmbox) - 1,
                          Tail(acceptmbox)[i] = Tail(acceptmbox)[j]
                   PROVE  i = j
        BY <2>1, <2>2
      <3>1. i + 1 = j + 1
        BY <1>0, <2>2, <2>3 DEF Users
      <3>2. QED  BY <3>1
    <2>7. \A c \in Conn : InBox(c) => c = Head(acceptmbox) \/ InBox(c)'
      <3> SUFFICES ASSUME NEW c \in Conn, NEW i \in 1 .. Len(acceptmbox), acceptmbox[i] = c, i # 1
                   PROVE  \E j \in 1 .. Len(acceptmbox) - 1 : Tail(acceptmbox)[j] = c
        BY <1>0, <2>1, <2>2 DEF InBox
      <3>1. i - 1 \in 1 .. Len(acceptmbox) - 1 /\ (i - 1) + 1 = i
        BY <1>0
      <3>2. QED  BY <2>2, <3>1
    <2>8. \A c \in Conn : netconn[c] \in {"open", "fin"} => c = serverconn' \/ InBox(c)'
      BY <1>0, <2>1, <2>7 DEF Users
    <2>9. netconn[serverconn'] # "free" /\ serverconn' \in Conn
      BY <1>0, <2>1, <2>2 DEF Users
    <2>10. Users'
      BY <2>1, <2>4, <2>5, <2>6, <2>8, <2>9 DEF Users
    <2>11. QED  BY <1>0, <2>1, <2>10 DEF Listens, Checked
  <1>2. CASE ServerWake
    BY <1>0, <1>2 DEF ServerWake, Users, Listens, Checked, InBox
  <1>3. CASE RecvWake \/ SendHead \/ SendWrite \/ CameraWrite \/ Report
               \/ \E w \in {"send", "camera"} : Written(w)
    <2>1. /\ UNCHANGED <<flags, acceptmbox, netconn, recvconn, checkedCurrent, late>>
          /\ recv' \in {recv, "call"}
      BY <1>3 DEF RecvWake, SendHead, SendWrite, CameraWrite, Report, Written
    <2>2. QED  BY <1>0, <2>1 DEF Users, Listens, Checked, InBox
  <1>4. CASE RecvCall
    <2>1. UNCHANGED <<flags, acceptmbox, netconn, checkedCurrent, late>>
      BY <1>4 DEF RecvCall
    <2>2. recv' \in {"blocked", "close"} => isAccepted /\ recvconn' = serverconn
      BY <1>4 DEF RecvCall
    <2>3. QED  BY <1>0, <2>1, <2>2 DEF Users, Listens, Checked, InBox
  <1>5. CASE RecvFetch
    <2>1. /\ UNCHANGED <<flags, acceptmbox, netconn, checkedCurrent, late>>
          /\ recv = "blocked" /\ (recv' = "close" => UNCHANGED recvconn)
          /\ recv' \in {"call", "close"}
      BY <1>5 DEF RecvFetch
    <2>2. QED  BY <1>0, <2>1 DEF Users, Listens, Checked, InBox
  <1>6. CASE RecvClose
    <2>1. /\ recv = "close" /\ isAccepted /\ ~isAccepted' /\ ~isChecked' /\ recv' = "sleep"
          /\ UNCHANGED <<serverconn, acceptmbox>>
          /\ netconn' = [d \in Conn |-> IF d = serverconn THEN "free" ELSE netconn[d]]
          /\ ~InBox(serverconn)
      BY <1>0, <1>6 DEF RecvClose, Unchecked, Delete, Listens, Users
    <2>2. \A i \in DOMAIN acceptmbox : acceptmbox[i] \in Conn /\ acceptmbox[i] # serverconn
      BY <1>0, <2>1 DEF InBox
    <2>3. QED  BY <1>0, <2>1, <2>2 DEF Users, Listens, Checked, InBox
  <1>7. CASE HandleLogin
    <2>1. /\ UNCHANGED <<serverconn, isAccepted, acceptmbox, netconn, recv, recvconn>>
          /\ \/ UNCHANGED <<isChecked, checkedCurrent, late>>
             \/ /\ checkedCurrent' = Head(tcp_handle_event).current
                /\ late' = (~isAccepted \/ ~Head(tcp_handle_event).current)
      BY <1>7 DEF HandleLogin
    <2>2. CASE UNCHANGED <<isChecked, checkedCurrent, late>>
      BY <1>0, <2>1, <2>2 DEF Users, Listens, Checked, InBox
    <2>3. CASE /\ checkedCurrent' = Head(tcp_handle_event).current
               /\ late' = (~isAccepted \/ ~Head(tcp_handle_event).current)
      <3>1. ~late' => isAccepted /\ checkedCurrent'
        BY <2>3
      <3>2. Checked'
        BY <2>1, <3>1 DEF Checked
      <3>3. QED  BY <1>0, <2>1, <3>2 DEF Users, Listens, InBox
    <2>4. QED  BY <2>1, <2>2, <2>3
  <1>8. CASE SendFailed \/ CameraFailed \/ CameraToServerFailed
    <2>1. /\ ~isAccepted /\ ~isAccepted'
          /\ UNCHANGED <<serverconn, isChecked, acceptmbox, netconn, recv, recvconn,
                         checkedCurrent, late>>
      BY <1>8 DEF SendFailed, CameraFailed, CameraToServerFailed, TakeBack
    <2>2. QED  BY <1>0, <2>1 DEF Users, Listens, Checked, InBox
  <1>9. ASSUME NEW c \in Conn, UserConnect(c) PROVE Goal
    <2>1. /\ UNCHANGED <<flags, recv, recvconn, checkedCurrent, late>>
          /\ netconn[c] = "free" /\ netconn' = [netconn EXCEPT ![c] = "open"]
          /\ acceptmbox' = Append(acceptmbox, c)
      BY <1>9 DEF UserConnect
    <2>2. /\ DOMAIN acceptmbox' = 1 .. Len(acceptmbox) + 1
          /\ \A i \in 1 .. Len(acceptmbox) : acceptmbox'[i] = acceptmbox[i]
          /\ acceptmbox'[Len(acceptmbox) + 1] = c
      BY <1>0, <2>1, LastUser
    <2>3. \A i \in 1 .. Len(acceptmbox) : acceptmbox[i] # c /\ acceptmbox[i] \in Conn
      BY <1>0, <2>1 DEF Users
    <2>4. \A i \in 1 .. Len(acceptmbox) + 1 : i \in 1 .. Len(acceptmbox) \/ i = Len(acceptmbox) + 1
      BY <1>0
    <2>5. \A d \in Conn : InBox(d)' <=> d = c \/ InBox(d)
      <3>1. Len(acceptmbox) + 1 \in 1 .. Len(acceptmbox) + 1
            /\ \A i \in 1 .. Len(acceptmbox) : i \in 1 .. Len(acceptmbox) + 1
        BY <1>0
      <3>2. QED  BY <1>0, <2>2, <2>4, <3>1 DEF InBox
    <2>6. isAccepted => serverconn # c
      BY <1>0, <2>1 DEF Users
    <2>7. \A i \in DOMAIN acceptmbox' : netconn'[acceptmbox'[i]] # "free"
      BY <1>0, <2>1, <2>2, <2>3, <2>4 DEF Users
    <2>8. \A i, j \in DOMAIN acceptmbox' : acceptmbox'[i] = acceptmbox'[j] => i = j
      BY <1>0, <2>2, <2>3, <2>4 DEF Users
    <2>9. Users'
      BY <1>0, <2>1, <2>5, <2>6, <2>7, <2>8 DEF Users
    <2>10. QED  BY <1>0, <2>1, <2>9 DEF Listens, Checked
  <1>10. ASSUME NEW c \in Conn,
                Fin(c) \/ Rst(c) \/ \E password \in Passwords : UserLogin(c, password)
         PROVE Goal
    <2>1. /\ UNCHANGED <<flags, acceptmbox, recv, recvconn, checkedCurrent, late>>
          /\ \/ UNCHANGED netconn
             \/ /\ netconn[c] \in {"open", "fin"}
                /\ \E state \in {"fin", "dead"} : netconn' = [netconn EXCEPT ![c] = state]
      BY <1>10 DEF Fin, Rst, UserLogin
    <2>2. /\ \A d \in Conn : netconn'[d] = "free" <=> netconn[d] = "free"
          /\ \A d \in Conn : netconn'[d] \in {"open", "fin"} => netconn[d] \in {"open", "fin"}
      BY <1>0, <2>1
    <2>3. \A i \in DOMAIN acceptmbox : acceptmbox[i] \in Conn
      BY <1>0
    <2>4. QED  BY <1>0, <2>1, <2>2, <2>3 DEF Users, Listens, Checked, InBox
  <1>11. CASE UNCHANGED vars
    BY <1>0, <1>11 DEF vars, Users, Listens, Checked, InBox
  <1>12. QED
    BY <1>1, <1>2, <1>3, <1>4, <1>5, <1>6, <1>7, <1>8, <1>9, <1>10, <1>11
       DEF Next, RecvTask, SendTask, User

LEMMA InitServer == Init => ServerInv
  <1> SUFFICES ASSUME Init PROVE ServerInv
    OBVIOUS
  <1>1. \A i \in DOMAIN <<>> : FALSE
    OBVIOUS
  <1>2. QED  BY <1>1, InitBase DEF Init, ServerInv, Users, Listens, Checked, InBox

-----------------------------------------------------------------------------
(* The theorems.                                                           *)

(* The variables hold what their declarations say.                         *)
THEOREM TypeCorrect == Spec => []TypeOK
  <1>1. Base => TypeOK
    BY DEF Base
  <1>2. QED  BY <1>1, InitBase, StepBase, PTL DEF Spec

(* Until a failed write takes back isAccepted, the receiving task closes   *)
(* the connection whose end it has read,                                   *)
THEOREM ClosesOwnHolds == Spec => []ClosesOwn
  <1>1. ServerInv => ClosesOwn
    BY DEF ServerInv, Users, Listens, ClosesOwn
  <1>2. QED  BY <1>1, InitServer, StepServer, PTL DEF Spec

(* sleeps on the connection of the user who is accepted,                   *)
THEOREM ListensToUserHolds == Spec => []ListensToUser
  <1>1. ServerInv => ListensToUser
    BY DEF ServerInv, Users, Listens, ListensToUser
  <1>2. QED  BY <1>1, InitServer, StepServer, PTL DEF Spec

(* no connection is left open that no task will delete,                    *)
THEOREM NoneStrandedHolds == Spec => []NoneStranded
  <1>1. ServerInv => NoneStranded
    BY DEF ServerInv, Users, InBox, NoneStranded
  <1>2. QED  BY <1>1, InitServer, StepServer, PTL DEF Spec

(* and a user counts as checked by his own password.                       *)
THEOREM CheckedIsCurrentHolds == Spec => []CheckedIsCurrent
  <1>1. ServerInv => CheckedIsCurrent
    BY DEF ServerInv, Checked, CheckedIsCurrent
  <1>2. QED  BY <1>1, InitServer, StepServer, PTL DEF Spec

=============================================================================
