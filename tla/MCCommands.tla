----------------------------- MODULE MCCommands -----------------------------
EXTENDS Commands

Master == <<"M", "m">>
Server == <<"S", "s">>
Stranger2 == <<"x", "y">>
Password == <<"p", "w">>
Id == <<"1", "0">>
\* A character that begins no command.
Junk == "?"

Row(fields, tail) == [fields |-> fields, tail |-> tail, end |-> <<END>>]

\* A command as it is sent.
Line(t, acc, sub, args) == Row(<< <<t>>, acc, <<sub>> >> \o args, <<>>)

Valid == {
    Line("RESULT", Server, "RES_LOGIN", << <<"1">> >>),
    Line("RESULT", Master, "RES_LOGIN", << <<"2">> >>),
    Line("MANAGE", Master, "MAN_LOGIN", <<Password>>),
    Line("MANAGE", Master, "MAN_LOGIN", <<Id>>),
    Line("CONTRL", Master, "CTL_IHome", << <<"1">> >>),
    Line("CONTRL", Master, "CTL_GET", <<<<"HUMI">>, Id>>),
    Line("CONTRL", Master, "CTL_LAMP", << <<"2">>, <<"0">> >>),
    Line("CONTRL", Master, "CTL_VIDEO", << <<"1">>, Id>>) }

Invalid == {
    Row(<<>>, <<Junk, Junk>>),
    Row(<<>>, <<>>),
    Line("CONTRL", Stranger2, "CTL_LAMP", << <<"1">>, <<"0">> >>),
    Line("CONTRL", <<>>, "CTL_LAMP", << <<"1">>, <<>> >>),
    Row(<< <<"CONTRL">>, Master >>, <<Junk>>),
    Row(<< <<"CONTRL">>, Master, <<"CTL_LAMP">> >>, <<Junk>>),
    Row(<< <<"RESULT">>, Master, <<"RES_LOGIN">> >>, <<Junk, Junk>>),
    Line("CONTRL", Master, Junk, <<Id>>),
    Line("CONTRL", Master, "CTL_GET", <<<<"TIME">>, Id>>) }

\* Known, and of no use to either side, or to the user's: an argument of one
\* character.  The end of a command that TCP has cut in front of it; an
\* argument too many.
Useless == Line("CONTRL", Master, Junk, << <<"1">> >>)
UselessTo(p) ==
    {Useless} \cup IF p = "client" THEN {}
                   ELSE {Line("RESULT", Master, "RES_LOGIN", << <<"1">> >>)}
LastZero == Row(<< <<"0">> >>, <<>>)
Surplus == Line("CONTRL", Master, "CTL_IHome", << <<"2">>, <<"0">> >>)
Swallowers(p) == UselessTo(p) \cup {LastZero, Surplus}

(* TCP may cut a command anywhere: the second piece is a message that      *)
(* begins with the end of a command, the first one that ends with its      *)
(* beginning.                                                              *)
Lamp2 == Line("CONTRL", Master, "CTL_LAMP", << <<"2">>, Id >>).fields
From(f, k, x) == <<SubSeq(f[k], x, Len(f[k]))>> \o SubSeq(f, k + 1, Len(f))
Places(f) == UNION {{<<k, x>> : x \in 1 .. Len(f[k]) + 1} : k \in DOMAIN f}
Tails ==
    {Row(From(Lamp2, c[1], c[2]), <<>>) : c \in Places(Lamp2) \ {<<1, 1>>}}
      \cup {Row(<<>>, <<>>), LastZero}
Heads ==
    {[fields |-> SubSeq(Lamp2, 1, c[1] - 1), tail |-> SubSeq(Lamp2[c[1]], 1, c[2] - 1),
      end |-> <<>>] : c \in Places(Lamp2) \ {<<1, 1>>}}
      \cup {[fields |-> Lamp2, tail |-> <<>>, end |-> <<>>]}

\* What each peer sends: to the user's side a login reply is no command.
ValidTo(p) == {c \in Valid : p = "client" \/ c.fields[1] # <<"RESULT">>}
Whole(p) == ValidTo(p) \cup Invalid
ShortRows(p) == UNION {[1 .. n -> Whole(p) \cup UselessTo(p)] : n \in 1 .. 2}
LongRows(p) ==
    {<<a, b, c>> : a \in Invalid, b \in ValidTo(p), c \in Whole(p)}
      \cup {<<a, b, c>> : a \in Swallowers(p), b \in Whole(p) \cup UselessTo(p), c \in ValidTo(p)}
      \cup {<<a, e, e, e, c>> : a \in {LastZero}, e \in {Row(<<>>, <<>>)}, c \in ValidTo(p)}
      \cup {<<a, e, e, e, e, c>> : a \in {LastZero}, e \in {Row(<<>>, <<>>)}, c \in ValidTo(p)}
Pieces(p) ==
    {<<t, c>> : t \in Tails, c \in ValidTo(p)} \cup {<<c, h>> : c \in ValidTo(p), h \in Heads}
Rows == [p \in {"client", "server"} |-> ShortRows(p) \cup LongRows(p) \cup Pieces(p)]
=============================================================================
