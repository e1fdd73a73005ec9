------------------------------ MODULE Commands ------------------------------
(***************************************************************************)
(* tcp_handle_task reading one received message: a row of commands         *)
(*                                                                         *)
(*     type SEP account SEP subtype SEP argument SEP ... END               *)
(*                                                                         *)
(* in a buffer of TCP_RX_BUFSIZE characters, read with a cursor i.  One    *)
(* turn of its loop is one step: it reads one command and carries it out,  *)
(* or finds it invalid and skips to the next.  What it does (a post of its *)
(* two or three buffers, a flag it sets) is kept in acts.                  *)
(*                                                                         *)
(* Codes, values and the letters of names are characters, written as short *)
(* strings.  Characters of the buffer that were not received are NUL, as   *)
(* they are in a block that was never used.                                *)
(***************************************************************************)
EXTENDS Integers, Sequences, SequencesExt, FiniteSetsExt

CONSTANTS
    TCP_RX_BUFSIZE, ACCOUNT_MAX,
    master, SERVER,   \* account names that may give orders
    password,         \* of the user
    Messages          \* messages a peer sends: rows of items (see Item)

ASSUME SizeAssumption == {TCP_RX_BUFSIZE, ACCOUNT_MAX} \subseteq Nat \ {0}

NUL == "NUL"
SEP == "SEP"
END == "END"

\* A row of characters that has none of these.
Plain(w) == w \in Seq(STRING) /\ \A x \in DOMAIN w : w[x] \notin {NUL, SEP, END}
One(w) == Len(w) = 1

\* Arrays of ACCOUNT_MAX + 1 characters, the last a NUL.
ASSUME NamesAssumption == \A w \in {master, SERVER} : Plain(w) /\ Len(w) <= ACCOUNT_MAX

\* Whose orders are taken from a peer.
Names(p) == IF p = "client" THEN {master, SERVER} ELSE {master}

VARIABLES
    pc,      \* "pend" or "read"
    peer,    \* whom the message is from: auth_msg
    message, \* history: the items it is made of
    text,    \* recv_msg
    i,       \* the cursor
    acts     \* what has been done for this message

commandsVars == <<pc, peer, message, text, i, acts>>

CommandsInit ==
    /\ pc = "pend" /\ peer = "client" /\ message = <<>> /\ text = <<>>
    /\ i = 0 /\ acts = <<>>

-----------------------------------------------------------------------------
(* Reading.                                                                *)

At(k) == IF k < Len(text) THEN text[k + 1] ELSE NUL

\* A single character, then a separator.
Field(k) == At(k) # NUL /\ At(k + 1) = SEP

\* A name starts at k; it ends at the separator, or where the loop gives up.
NameEnd(k) ==
    Min({n \in k .. k + ACCOUNT_MAX + 1 :
           \/ At(n) \in {NUL, SEP} \/ n >= TCP_RX_BUFSIZE
           \/ n = k + ACCOUNT_MAX + 1})
Name(k) == SubSeq(text, k + 1, NameEnd(k))

type == At(i)
account == Name(i + 2)
s == NameEnd(i + 2) + 1    \* where the subtype is
subtype == At(s)
v == s + 2                 \* where the arguments are
res == At(v)

Known == account \in Names(peer)

\* Slips: the search for END runs to the end of the message, or leaves the
\* cursor on END.
Skip_ToNul(k) ==
    /\ i' = Min({n \in k .. Max({k, TCP_RX_BUFSIZE}) :
                   At(n) = NUL \/ n >= TCP_RX_BUFSIZE}) + 1
    /\ UNCHANGED acts
Skip_Stay(k) ==
    /\ i' = Min({n \in k .. Max({k, TCP_RX_BUFSIZE}) :
                   At(n) \in {NUL, END} \/ n >= TCP_RX_BUFSIZE})
    /\ UNCHANGED acts

\* The command is invalid: from k, to the one after the next END.
Skip(k) ==
    /\ i' = Min({n \in k .. Max({k, TCP_RX_BUFSIZE}) :
                   At(n) \in {NUL, END} \/ n >= TCP_RX_BUFSIZE}) + 1
    /\ UNCHANGED acts

-----------------------------------------------------------------------------
(* Carrying out.                                                           *)

Post(queue, texts) == [to |-> queue, says |-> texts]
Set(flag, value) == [to |-> flag, says |-> value]

Do(done, k) == acts' = acts \o done /\ i' = k

Reading == pc = "read" /\ type # NUL /\ i < TCP_RX_BUFSIZE

NoType == ~Field(i) /\ Skip(i)
Stranger == Field(i) /\ ~Known /\ Skip(s)
NoSubtype == Field(i) /\ Known /\ ~Field(s) /\ Skip(s)

\* What the command orders, when its head is valid.
Orders(t, sub) == Field(i) /\ Known /\ Field(s) /\ type = t /\ subtype = sub

LoginReply ==
    /\ peer = "client" /\ Orders("RESULT", "RES_LOGIN")
    /\ IF At(v + 1) = SEP /\ At(v + 2) = END
         THEN Do(<<Set("isAuthed", res = "1")>>, v + 3)
         ELSE Skip(v)

UserLogin ==
    /\ peer = "server" /\ Orders("MANAGE", "MAN_LOGIN")
    /\ Do(IF Name(v) = password
            THEN << Post("tcp_send_event", <<"server", "LOGIN_SUCCESS">>),
                    Set("isChecked", TRUE) >>
            ELSE << Post("tcp_send_event", <<"server", "LOGIN_FAILED">>) >>,
          NameEnd(v) + 1)

\* The mode is set by 1 and 2, and reported whatever the value.
IHome ==
    /\ Orders("CONTRL", "CTL_IHome") /\ At(v + 1) = SEP
    /\ Do((IF res \in {"1", "2"} THEN <<Set("ihome_start_flag", res)>> ELSE <<>>)
            \o << Post("tcp_send_event", <<peer, "RES_IHome">>) >>,
          v + 2)

id == Name(v + 2)
Given(sub) == Orders("CONTRL", sub) /\ At(v + 1) = SEP
Then == NameEnd(v + 2) + 1

Get ==
    /\ Given("CTL_GET")
    /\ Do(CASE res = "TEMP" -> << Post("dht11_event", <<peer, "TEMP", id>>) >>
            [] res = "HUMI" -> << Post("dht11_event", <<peer, "HUMI", id>>) >>
            [] OTHER -> <<>>,
          Then)

Switch(value) == CASE value = "1" -> "ON" [] value = "2" -> "OFF" [] OTHER -> "unwritten"

Lamp ==
    /\ Given("CTL_LAMP")
    /\ Do(<< Post("led_event", <<peer, Switch(res), id>>) >>, Then)

Film(value) == CASE value = "1" -> "START" [] value = "2" -> "STOP" [] OTHER -> "unwritten"

\* The server's order goes through the queue, the user's sets the flag.
Video ==
    /\ Given("CTL_VIDEO")
    /\ Do(IF peer = "client"
            THEN << Post("camera_event", <<peer, Film(res), id>>) >>
            ELSE (IF res \in {"1", "2"} THEN <<Set("camera_start", Film(res))>> ELSE <<>>)
                   \o << Post("camera_event", <<peer, id>>) >>,
          Then)

Controls == {"CTL_IHome", "CTL_GET", "CTL_LAMP", "CTL_VIDEO"}

NoValue ==
    /\ \E sub \in Controls : Orders("CONTRL", sub)
    /\ At(v + 1) # SEP /\ Skip(v)

\* Nothing is done for any other type and subtype, and nothing is skipped: the
\* next turn takes the arguments for a command.
Other ==
    /\ Field(i) /\ Known /\ Field(s)
    /\ ~(type = "CONTRL" /\ subtype \in Controls)
    /\ ~(peer = "client" /\ type = "RESULT" /\ subtype = "RES_LOGIN")
    /\ ~(peer = "server" /\ type = "MANAGE" /\ subtype = "MAN_LOGIN")
    /\ Do(<<>>, v)

Turn ==
    /\ Reading
    /\ \/ NoType \/ Stranger \/ NoSubtype \/ LoginReply \/ UserLogin \/ IHome
       \/ Get \/ Lamp \/ Video \/ NoValue \/ Other
    /\ UNCHANGED <<pc, peer, message, text>>

\* The loop is left; neither buffer is freed.
AtEnd == pc = "read" /\ ~Reading
Finish ==
    /\ AtEnd /\ pc' = "pend" /\ i' = 0
    /\ message' = <<>> /\ text' = <<>> /\ acts' = <<>> /\ UNCHANGED peer

(* What a peer sends is a row of items: fields closed by separators, what  *)
(* stands behind the last of them, and END, but where TCP has cut the last *)
(* item of the message short.                                              *)
Item == [fields : Seq(Seq(STRING)), tail : Seq(STRING), end : {<<>>, <<END>>}]
Closed(f) == [n \in DOMAIN f |-> f[n] \o <<SEP>>]
Text(item) == FlattenSeq(Closed(item.fields)) \o item.tail \o item.end
TextOf(m) == FlattenSeq([n \in DOMAIN m |-> Text(m[n])])

(* The next message, as the receive task has stored it: no more than the   *)
(* buffer holds.                                                           *)
\* Slip: the message is stored without looking at the room left.
Take_NoLimit(p, m) ==
    /\ pc = "pend" /\ pc' = "read" /\ peer' = p /\ message' = m
    /\ text' = TextOf(m)
    /\ UNCHANGED <<i, acts>>

Take(p, m) ==
    /\ pc = "pend" /\ pc' = "read" /\ peer' = p /\ message' = m
    /\ text' = SubSeq(TextOf(m), 1, Min({Len(TextOf(m)), TCP_RX_BUFSIZE}))
    /\ UNCHANGED <<i, acts>>

CommandsNext ==
    \/ Turn \/ Finish
    \/ \E p \in {"client", "server"} : \E m \in Messages[p] : Take(p, m)

CommandsSpec == CommandsInit /\ [][CommandsNext]_commandsVars
CommandsFairSpec == CommandsSpec /\ WF_commandsVars(Turn) /\ WF_commandsVars(Finish)

-----------------------------------------------------------------------------
(* Properties.                                                             *)

(* The cursor never goes further than two characters past the buffer: with *)
(* TCP_RX_BUFSIZE = 200 it does not wrap, u8 though it is.                 *)
TypeOK ==
    /\ pc \in {"pend", "read"} /\ peer \in {"client", "server"}
    /\ i \in 0 .. TCP_RX_BUFSIZE + 2
    /\ Len(text) <= TCP_RX_BUFSIZE

(* What the fields of an item order, when they begin with a type, the      *)
(* account of somebody who may give orders, and a subtype.                 *)
Headed(p, f) == Len(f) >= 3 /\ One(f[1]) /\ f[2] \in Names(p) /\ One(f[3])
Is(f, t, sub) == f[1] = <<t>> /\ f[3] = <<sub>>
Reply(p, f) == p = "client" /\ Is(f, "RESULT", "RES_LOGIN")
Login(p, f) == p = "server" /\ Is(f, "MANAGE", "MAN_LOGIN")
Control(f) == \E sub \in Controls : Is(f, "CONTRL", sub)
Named(f) == Control(f) /\ f[3] # <<"CTL_IHome">>

\* A login reply has one value and nothing else, a control command a value first.
Ordered(p, item) ==
    LET f == item.fields IN
    /\ item.end = <<END>> /\ Headed(p, f)
    /\ Reply(p, f) => Len(f) = 4 /\ One(f[4]) /\ item.tail = <<>>
    /\ Control(f) => Len(f) >= 4 /\ One(f[4])

\* How many fields it takes, and what is left of them.
Takes(p, f) ==
    IF Named(f) THEN 5 ELSE IF Reply(p, f) \/ Login(p, f) \/ Control(f) THEN 4 ELSE 3
Behind(p, f) == SubSeq(f, Takes(p, f) + 1, Len(f))
Left(p, item) == IF Ordered(p, item) THEN Behind(p, item.fields) ELSE item.fields

Meaning(p, f) ==
    LET value == f[4][1] IN
    CASE Reply(p, f) -> <<Set("isAuthed", value = "1")>>
      [] Login(p, f) ->
           IF f[4] = password
             THEN << Post("tcp_send_event", <<"server", "LOGIN_SUCCESS">>),
                     Set("isChecked", TRUE) >>
             ELSE << Post("tcp_send_event", <<"server", "LOGIN_FAILED">>) >>
      [] Is(f, "CONTRL", "CTL_IHome") ->
           (IF value \in {"1", "2"} THEN <<Set("ihome_start_flag", value)>> ELSE <<>>)
             \o << Post("tcp_send_event", <<p, "RES_IHome">>) >>
      [] Is(f, "CONTRL", "CTL_GET") ->
           IF value \in {"TEMP", "HUMI"} THEN << Post("dht11_event", <<p, value, f[5]>>) >>
           ELSE <<>>
      [] Is(f, "CONTRL", "CTL_LAMP") -> << Post("led_event", <<p, Switch(value), f[5]>>) >>
      [] Is(f, "CONTRL", "CTL_VIDEO") ->
           IF p = "client" THEN << Post("camera_event", <<p, Film(value), f[5]>>) >>
           ELSE (IF value \in {"1", "2"} THEN <<Set("camera_start", Film(value))>> ELSE <<>>)
                  \o << Post("camera_event", <<p, f[5]>>) >>
      [] OTHER -> <<>>

Does(p, item) == IF Ordered(p, item) THEN Meaning(p, item.fields) ELSE <<>>

(* It has the arguments that are read, an account or an id no longer than  *)
(* is read for one; and nothing behind them that reads as a command again. *)
Complete(p, f) ==
    /\ Len(f) >= Takes(p, f)
    /\ Login(p, f) => Len(f[4]) <= ACCOUNT_MAX + 1
    /\ Named(f) => Len(f[5]) <= ACCOUNT_MAX + 1
    /\ ~Headed(p, Behind(p, f))

\* No two empty fields stand next to each other, and no item but the first
\* begins with one.
ASSUME MessagesAssumption ==
    \A p \in {"client", "server"} : \A m \in Messages[p] :
        /\ m \in Seq(Item) /\ m # <<>>
        /\ \A n \in DOMAIN m :
             /\ \A k \in DOMAIN m[n].fields :
                  /\ Plain(m[n].fields[k])
                  /\ m[n].fields[k] = <<>> =>
                       IF k = 1 THEN n = 1 ELSE m[n].fields[k - 1] # <<>>
             /\ Plain(m[n].tail)
             /\ m[n].end = <<>> => n = Len(m)
             /\ Ordered(p, m[n]) => Complete(p, m[n].fields)

(* Some items end in what reads as a type, one character and a separator:  *)
(* the last argument of a command TCP has cut there, and the only one of a *)
(* command that is known and of no use to this side.  What comes after it, *)
(* END too, is then read for an account, to the next separator but no      *)
(* further than an account can go; the item that is in is skipped.         *)
Opens(f) == Len(f) = 1 /\ One(f[1])
Within(n) == IF n <= ACCOUNT_MAX + 2 THEN n ELSE 0

\* What the items order that are not swallowed so, in turn, and how many
\* characters of an account are read where they end: one item further, and
\* for a row of them.
Past(p, item, before) ==
    IF before.account > 0
      THEN [orders |-> before.orders,
            account |-> IF item.fields # <<>> THEN 0
                        ELSE Within(before.account + Len(Text(item)))]
      ELSE [orders |-> before.orders \o Does(p, item),
            account |-> IF ~Opens(Left(p, item)) THEN 0 ELSE Within(Len(item.tail) + 1)]

Standing(p, m) ==
    LET read[k \in 0 .. Len(m)] ==
          IF k = 0 THEN [orders |-> <<>>, account |-> 0] ELSE Past(p, m[k], read[k - 1])
    IN read[Len(m)]

\* Of a message longer than the buffer, the items that fit.
Fits(m) ==
    LET n == Max({k \in 0 .. Len(m) :
                    Len(TextOf(SubSeq(m, 1, k))) <= TCP_RX_BUFSIZE})
    IN SubSeq(m, 1, n)

\* TCP has cut the row before the end of its last command.
CutShort(m) == Last(m).end = <<>>

(* Every valid command received whole is carried out, once and in order,   *)
(* whatever invalid ones and ends of commands cut in two stand between     *)
(* them, but for the one that an item before it has swallowed; after them  *)
(* at most what a command cut off, by the end of the buffer or by TCP,     *)
(* still says.                                                             *)
CarriesOutAll ==
    LET whole == Standing(peer, Fits(message)).orders
    IN AtEnd =>
         /\ IsPrefix(whole, acts)
         /\ acts # whole => Fits(message) # message \/ CutShort(message)

(* A message is read to its end: the loop does not go round for ever on    *)
(* one of its characters.                                                  *)
ReadsOn == []<>(pc = "pend")

=============================================================================
