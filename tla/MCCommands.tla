----------------------------- MODULE MCCommands -----------------------------
(* The command table, cut down to names that share beginnings: commands of  *)
(* any mode, those of three modes and of the start, and subcommands on two  *)
(* levels.  The names are shortened but begin alike where the real ones do. *)
(* One command is added that the table does not have: one without callback  *)
(* and subcommands, which the library has a branch for.                     *)
EXTENDS Commands

Cmd(name, m, parent, effect) ==
  [name |-> name, mode |-> m, parent |-> parent, effect |-> effect]

MCTable == <<
  Cmd(<<"h", "e", "p">>, "ANY", 0, "plain"),          \* help
  Cmd(<<"q">>, "ANY", 0, "quit"),                     \* quit
  Cmd(<<"e", "x">>, "ANY", 0, "exit"),                \* exit
  Cmd(<<"h", "i">>, "ANY", 0, "plain"),               \* history
  Cmd(<<"s", "e">>, "EXEC", 0, "SERVER"),             \* server
  Cmd(<<"p", "k", "f">>, "SERVER", 0, "none"),        \* packet-fmt
  Cmd(<<"a">>, "SERVER", 6, "print"),                 \*   add
  Cmd(<<"p", "k", "t">>, "SERVER", 0, "none"),        \* packet-token
  Cmd(<<"d">>, "SERVER", 8, "print"),                 \*   delete
  Cmd(<<"e", "d">>, "EXEC", 0, "EDGE"),               \* edge
  Cmd(<<"s", "t">>, "EDGE", 0, "none"),               \* status
  Cmd(<<"o", "n">>, "EDGE", 11, "print"),             \*   online
  Cmd(<<"o", "f">>, "EDGE", 11, "print"),             \*   offline
  Cmd(<<"h", "e", "l">>, "EDGE", 0, "print"),         \* hello-interval
  Cmd(<<"p", "k", "r">>, "EDGE", 0, "print"),         \* pkt-record
  Cmd(<<"p", "u">>, "EDGE", 0, "none"),               \* (without a callback)
  Cmd(<<"w">>, "EXEC", 0, "WLOC"),                    \* wloc
  Cmd(<<"p", "a">>, "WLOC", 0, "none"),               \* packet
  Cmd(<<"r">>, "WLOC", 18, "none"),                   \*   recv
  Cmd(<<"b">>, "WLOC", 19, "print"),                  \*     built-in
  Cmd(<<"f">>, "WLOC", 19, "print")                   \*     file
>>

Starts == UNION {{SubSeq(MCTable[c].name, 1, n) : n \in 1 .. Len(MCTable[c].name)} :
                  c \in DOMAIN MCTable}
Join(s, t) == s \o <<" ">> \o t
One  == Starts \cup {<< >>, <<"x">>, <<"h", "?">>, <<"e", "d", " ", "?">>}
Two  == {Join(s, t) : s \in Starts \cup {<<"|">>},
                      t \in {<< >>, <<"a">>, <<"d">>, <<"o">>, <<"o", "n">>, <<"o", "?">>, <<"1">>}}
Three == {<<"p", " ", "r", " ">> \o t : t \in {<< >>, <<"b">>, <<"f", " ", "1">>, <<"x">>}}
Bar0   == {<<"|">>, <<" ", "|">>, <<"|", "h", "e">>, <<"|", "q", "|", "c">>}
Quotes == {<<"\"", "s", "e", "\"">>, <<"s", "'", "h", "i">>, <<"'", "e", " ", "d", "'", "x">>}

\* Lines with one and with two filters.
Texts == {<<"i", " ", "u">>, <<"e", "x", " ", "u">>, <<"e", " ", "-", "v", " ", "u">>,
          <<"b", "e", "g", " ", "u">>, <<"b", "e", "t", " ", "u", " ", "v">>, <<"c">>,
          <<"c", " ", "u">>, <<"b", "e", " ", "u">>, <<"i">>, <<"i", " ", "?">>, << >>, <<"x">>}
Piped == {c \o <<"|">> \o t : c \in {<<"h", "e", "l">>, <<"h", "e">>}, t \in Texts}
Twice == {s \o <<"|">> \o t : s \in {p \in Piped : p[3] = "l"}, t \in Texts}
MCLines == One \cup Two \cup Three \cup Bar0 \cup Quotes \cup Piped \cup Twice

U == <<"u">>   V == <<"v">>
MCOutputs == {<< >>, <<<<V>>, <<U>>, <<V, U>>, << >>, <<V>>>>, <<<<U>>, <<V>>, <<U>>>>}
=============================================================================
