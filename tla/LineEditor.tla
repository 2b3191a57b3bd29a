----------------------------- MODULE LineEditor -----------------------------
(***************************************************************************)
(* The line editor of the operator interface: cli_loop of src/lib/cli.c as *)
(* src/app/cli_main.c runs it, one connection after the other.  No users   *)
(* are registered, so the session never asks for a name or a password.     *)
(*                                                                         *)
(* Every byte from the connection is first offered to the telnet           *)
(* negotiation, then to the escape sequence of an arrow key, and is then a *)
(* key.  The keys work on a buffer of a fixed size, the length of the line *)
(* and the cursor, which the program keeps in step by hand.  What a        *)
(* command does is left open but for the mode and the end of the session;  *)
(* module Commands says which command a line runs.                         *)
(***************************************************************************)
EXTENDS Integers, Sequences, SequencesExt

CONSTANTS
  MaxLine,      \* CLI_MAX_LINE_LENGTH: 4096
  MaxHistory,   \* MAX_HISTORY: 256
  Chars,        \* characters that are no control keys
  NUL,          \* the character 0
  Words,        \* what a completion may put into the line
  HistoryWord   \* the line "history", which is not remembered

\* The character between words.
Space == " "

ASSUME LineEditorAssumption ==
  /\ MaxLine \in Nat /\ MaxLine > 3 /\ MaxHistory \in Nat \ {0}
  /\ {Space, "?", "IAC"} \subseteq Chars /\ NUL \notin Chars
  /\ \A w \in Words : w \in Seq(Chars) /\ 2 * Len(w) < MaxLine

VARIABLES
  line,       \* cmd, l and cursor
  telnet,     \* is_telnet_option: inside a negotiation
  esc,        \* how much of an escape sequence has come: "none", "ESC" or "["
  inHistory,  \* in_history
  history,    \* cli->history, up to the first free entry
  open,       \* a connection is being served
  config,     \* cli->mode # MODE_EXEC
  outside,    \* memory outside the buffer or the history was touched
  long,       \* the line was longer than a third of the buffer (history)
  ragged      \* the text may have lost step with l (history)

session == <<telnet, esc, open, config>>
vars == <<line, session, inHistory, history, outside, long, ragged>>

Cells == 0 .. MaxLine - 1
Line == [cmd : [Cells -> Chars \cup {NUL}], l : 0 .. MaxLine, cursor : 0 .. MaxLine]

\* Does the buffer hold a string at all, and which?
Terminated(e) == \E i \in Cells : e.cmd[i] = NUL
Text(e) ==
  LET n == CHOOSE n \in 0 .. MaxLine :
             /\ \A i \in 0 .. n - 1 : e.cmd[i] # NUL
             /\ n < MaxLine => e.cmd[n] = NUL
  IN  [i \in 1 .. n |-> e.cmd[i - 1]]
Blank(s) == \A i \in DOMAIN s : s[i] = Space
-----------------------------------------------------------------------------
(* What a key does to the line.                                            *)

Holding(s) ==
  [cmd |-> [i \in Cells |-> IF i < Len(s) THEN s[i + 1] ELSE NUL],
   l |-> Len(s), cursor |-> Len(s)]

Fresh == Holding(<< >>)

\* At the end of the line a character is stored even when there is no room
\* left to count it.
Room(e) == e.l < MaxLine - 1
Appended(e, c) ==
  LET n == IF Room(e) THEN 1 ELSE 0
  IN  [cmd |-> [e.cmd EXCEPT ![e.cursor] = c], l |-> e.l + n, cursor |-> e.cursor + n]

\* In the middle the rest moves up by one; near the rim of the buffer the
\* length is first taken back, so that the last character is no longer counted.
Rim(e) == e.l >= MaxLine - 2
Inserted(e, c) ==
  LET n == IF Rim(e) THEN e.l - 1 ELSE e.l
  IN  [cmd |-> [i \in Cells |-> CASE i = e.cursor -> c
                                  [] i \in e.cursor + 1 .. n + 1 -> e.cmd[i - 1]
                                  [] OTHER -> e.cmd[i]],
       l |-> n + 1, cursor |-> e.cursor + 1]

\* n characters back, one after the other: at the end of the line they are
\* overwritten, in the middle the rest moves down, each time up to and
\* including the cell behind the terminator.
ErasedBack(e, n) ==
  LET back  == e.cursor - n
      atEnd == e.cursor = e.l
  IN  [cmd |-> [i \in Cells |->
                  CASE atEnd /\ i \in back .. e.l - 1 -> NUL
                    [] ~ atEnd /\ i \in back .. e.l ->
                         e.cmd[IF i + n <= e.l THEN i + n ELSE e.l + 1]
                    [] OTHER -> e.cmd[i]],
       l |-> e.l - n, cursor |-> back]

\* Where the word before the cursor begins: over blanks, then to a blank.
WordStart(e) ==
  CHOOSE n \in 0 .. e.cursor : \E b \in n .. e.cursor :
    /\ \A i \in b .. e.cursor - 1 : e.cmd[i] = Space
    /\ b > 0 => e.cmd[b - 1] # Space
    /\ \A i \in n .. b - 1 : e.cmd[i] # Space
    /\ n > 0 => e.cmd[n - 1] = Space

\* Mutant: the line ends at the cursor, the characters stay in the buffer.
KilledKept(e) == [e EXCEPT !.l = e.cursor]

Killed(e) ==
  [e EXCEPT !.cmd = [i \in Cells |-> IF i \in e.cursor .. e.l - 1 THEN NUL ELSE e.cmd[i]],
            !.l = e.cursor]

\* cli_clear_line builds what it sends, three characters for each one of the
\* line, in the buffer itself and zeroes it; l and cursor are its own copies.
ClearLength(e) == 3 * e.l
Wiped(e) == [e EXCEPT !.cmd = [i \in Cells |-> IF i < ClearLength(e) THEN NUL ELSE e.cmd[i]]]

\* A completion replaces the line from its last blank or bar on.
LastWord(e) ==
  CHOOSE n \in 0 .. e.l :
    /\ \A i \in n .. e.l - 1 : e.cmd[i] \notin {Space, "|"}
    /\ n > 0 => e.cmd[n - 1] \in {Space, "|"}
Completed(e, w) ==
  LET n == LastWord(e) + Len(w)
  IN  [cmd |-> [i \in Cells |-> CASE i \in LastWord(e) .. n - 1 -> w[i - LastWord(e) + 1]
                                  [] i = n -> Space
                                  [] OTHER -> e.cmd[i]],
       l |-> n + 1, cursor |-> n + 1]

\* Mutant: the question mark stays in the line.
ResumedWhole(e) == e

\* The line after help: without the question mark.
Resumed(e) == [cmd |-> [e.cmd EXCEPT ![e.l - 1] = NUL], l |-> e.l - 1, cursor |-> e.l - 1]

\* Mutant: a full history grows.
HistoryAddedBeyond(h, s) == IF h # << >> /\ Last(h) = s THEN h ELSE Append(h, s)

\* cli_add_history: a repeated line is not added while there is room; when
\* there is none the oldest goes.
HistoryAdded(h, s) ==
  IF Len(h) = MaxHistory THEN Append(Tail(h), s)
  ELSE IF h # << >> /\ Last(h) = s THEN h ELSE Append(h, s)
-----------------------------------------------------------------------------
(* Bytes.                                                                  *)

Arrow == [A |-> "^P", B |-> "^N", C |-> "^F", D |-> "^B"]
Keys == Chars \cup {"CR", "ESC", "DEL", "^W", "^L", "^U", "^K", "^D", "^Z", "^I",
                    "^P", "^N", "^B", "^F", "^A", "^E"}
Ignored == {"NUL", "LF", "^C"}
Bytes == Keys \cup DOMAIN Arrow \cup Ignored \cup {"OPT", "["}
Serving == open /\ ~ outside

\* The byte c passes the telnet negotiation; inside one, only a second IAC does.
Passes(c) == (c = "IAC") <=> telnet

\* A byte arrives that is the key k.
Reach(k) ==
  /\ Serving
  /\ \E c \in Bytes :
       /\ Passes(c)
       /\ \/ esc = "none" /\ k = c
          \/ esc = "[" /\ c \in DOMAIN Arrow /\ k = Arrow[c]
  /\ telnet' = FALSE
  /\ esc' = IF k = "ESC" THEN "ESC" ELSE "none"

\* A byte arrives that is part of a negotiation or of an escape sequence, or
\* that means nothing.  OPT is one of 251 .. 254, after which more comes.
Swallow ==
  /\ Serving
  /\ \E c \in Bytes :
       \/ /\ ~ Passes(c)
          /\ telnet' = (c \in {"IAC", "OPT"}) /\ UNCHANGED esc
       \/ /\ Passes(c) /\ telnet' = FALSE
          /\ \/ esc = "ESC" /\ esc' = IF c = "[" THEN "[" ELSE "none"
             \/ esc = "[" /\ c \notin DOMAIN Arrow /\ esc' = "none"
             \/ esc = "none" /\ c \in Ignored /\ esc' = "none"
             \/ esc = "none" /\ c = "ESC" /\ esc' = "ESC"
  /\ UNCHANGED <<line, inHistory, history, open, config, outside, long, ragged>>

\* The line becomes e unless memory outside was touched on the way, after
\* which nothing more is said.
Edit(e, overrun) ==
  /\ line' = IF overrun THEN line ELSE e
  /\ outside' = overrun
  /\ long' = (long \/ (~ overrun /\ 3 * e.l > MaxLine))

InLine == UNCHANGED <<inHistory, history, open, config>>
-----------------------------------------------------------------------------
Start ==
  /\ line' = Fresh /\ telnet' = FALSE /\ esc' = "none" /\ inHistory' = 0
  /\ history' = << >> /\ config' = FALSE
  /\ long' = FALSE /\ ragged' = FALSE

Init ==
  /\ line = Fresh /\ telnet = FALSE /\ esc = "none" /\ inHistory = 0
  /\ history = << >> /\ open = FALSE /\ config = FALSE
  /\ outside = FALSE /\ long = FALSE /\ ragged = FALSE

\* The next connection is accepted.
Accept == ~ open /\ open' = TRUE /\ Start /\ UNCHANGED outside

\* The peer is gone, an error, or nobody typed for the idle time.
HangUp == Serving /\ open' = FALSE /\ Start /\ UNCHANGED outside

\* ^D on an empty line ends the session.
EndOfText ==
  \/ Reach("^D") /\ line.l > 0 /\ InLine /\ UNCHANGED <<line, outside, long, ragged>>
  \/ Serving /\ esc = "none" /\ ~ telnet /\ line.l = 0
     /\ open' = FALSE /\ Start /\ UNCHANGED outside

\* cli_run_command with the text s, then the line next.  A blank text runs
\* nothing; otherwise the command is open: it may change the mode or quit.
Run(s, next, raggedNext) ==
  \/ /\ ~ Blank(s)
     /\ open' = FALSE /\ Start /\ UNCHANGED outside
  \/ /\ config' \in IF Blank(s) THEN {config} ELSE BOOLEAN
     /\ line' = next /\ inHistory' = 0 /\ ragged' = raggedNext
     /\ telnet' = FALSE /\ esc' = "none"
     /\ UNCHANGED <<open, outside, long>>

\* The return key: the line is remembered and run.
Enter ==
  /\ Serving /\ esc = "none" /\ ~ telnet
  /\ IF line.l > 0 /\ ~ Terminated(line)
     THEN outside' = TRUE /\ InLine /\ UNCHANGED <<line, telnet, esc, long, ragged>>
     ELSE LET s == IF line.l = 0 THEN << >> ELSE Text(line)
          IN  /\ Run(s, Fresh, FALSE)
              /\ open' => history' = IF \/ line.l = 0 \/ s = HistoryWord
                                        \/ line.cmd[line.l - 1] = "?"
                                     THEN history ELSE HistoryAdded(history, s)

\* A character; a question mark at the end of the line runs the line at once
\* and gives it back for more.
Type(c) ==
  LET atEnd   == line.cursor = line.l
      e       == IF atEnd THEN Appended(line, c) ELSE Inserted(line, c)
      overrun == line.l = MaxLine
      rim     == IF atEnd THEN ~ Room(line) ELSE Rim(line)
      help    == c = "?" /\ ~ overrun /\ e.cursor = e.l /\ (atEnd => Room(line))
  IN  /\ Reach(c)
      /\ \/ /\ ~ help
            /\ Edit(e, overrun)
            /\ ragged' = (ragged \/ rim) /\ InLine
         \/ /\ help /\ ~ Terminated(e)
            /\ outside' = TRUE /\ InLine /\ UNCHANGED <<line, long, ragged>>
         \/ /\ help /\ Terminated(e)
            /\ Run(Text(e), Resumed(e), ragged \/ rim)
            /\ open' => history' = history

\* Backspace, delete and ^W.
Erase ==
  \E k \in {"DEL", "^W"} :
    LET n == IF line.cursor = 0 THEN 0 ELSE IF k = "DEL" THEN 1
                                       ELSE line.cursor - WordStart(line)
        middle == n > 0 /\ line.cursor < line.l
    IN  /\ Reach(k)
        /\ Edit(ErasedBack(line, n),
                middle /\ (line.l >= MaxLine - 1 \/ ~ Terminated(ErasedBack(line, n))))
        /\ UNCHANGED ragged /\ InLine

\* ^U clears the line, ^K clears it from the cursor on.
Clear ==
  \/ Reach("^U") /\ Edit([cmd |-> Wiped(line).cmd, l |-> 0, cursor |-> 0],
                         ClearLength(line) > MaxLine)
     /\ UNCHANGED ragged /\ InLine
  \/ Reach("^K") /\ Edit(Killed(line), FALSE) /\ UNCHANGED ragged /\ InLine

\* The cursor keys; ^L only draws the line again.
Move ==
  \E m \in {<<"^B", IF line.cursor = 0 THEN 0 ELSE line.cursor - 1>>,
            <<"^F", IF line.cursor < line.l THEN line.cursor + 1 ELSE line.l>>,
            <<"^A", 0>>, <<"^E", line.l>>, <<"^L", line.cursor>>} :
    /\ Reach(m[1])
    /\ Edit([line EXCEPT !.cursor = m[2]], FALSE)
    /\ UNCHANGED ragged /\ InLine

\* ^Z leaves the mode.  The text goes, its length and the cursor stay.
LeaveMode ==
  /\ Reach("^Z")
  /\ IF config
     THEN /\ Edit(Wiped(line), ClearLength(line) > MaxLine)
          /\ config' = FALSE /\ ragged' = (ragged \/ line.l > 0)
     ELSE UNCHANGED <<line, outside, long, config, ragged>>
  /\ UNCHANGED <<inHistory, history, open>>

\* TAB at the end of the line, with exactly one completion; otherwise nothing
\* but a bell or a list of them.
Complete ==
  /\ Reach("^I")
  /\ \/ UNCHANGED <<line, outside, long>>
     \/ /\ line.cursor = line.l /\ line.l < MaxLine
        /\ \E w \in Words :
             /\ IsPrefix([i \in 1 .. line.l - LastWord(line) |->
                            line.cmd[LastWord(line) + i - 1]], w)
             /\ Edit(Completed(line, w), LastWord(line) + Len(w) >= MaxLine)
  /\ UNCHANGED ragged /\ InLine

\* Mutant: the test allows one entry too many.
PastLate(i) == i > MaxHistory \/ (i < MaxHistory /\ i >= Len(history))

\* There is no entry i.
Past(i) == i >= MaxHistory \/ i >= Len(history)

\* The entry i replaces the line.
Show(i) ==
  LET overrun == i >= MaxHistory \/ ClearLength(line) > MaxLine
  IN  /\ Edit(IF overrun THEN line ELSE Holding(history[i + 1]), overrun)
      /\ ragged' = (ragged /\ overrun)

\* Up: one entry back, from the first one round to the last.  The entry is
\* looked up without a test against MAX_HISTORY.
Up ==
  LET i == inHistory - 1
      j == IF i < 0 THEN Len(history) - 1 ELSE i
  IN  /\ Reach("^P")
      /\ IF j < 0 \/ (j < MaxHistory /\ j >= Len(history))
         THEN UNCHANGED <<line, outside, long, ragged>>
         ELSE Show(j)
      /\ inHistory' = IF outside' THEN inHistory ELSE j
      /\ UNCHANGED <<history, open, config>>

\* Down: one entry on, after the last one round to the first; without any
\* entry the index just grows (bound of the model: to MaxHistory + 1).
Down ==
  LET i == inHistory + 1
      j == IF ~ Past(i) THEN i ELSE IF history # << >> THEN 0 ELSE i
  IN  /\ Reach("^N")
      /\ i <= MaxHistory + 1
      /\ IF history = << >> THEN UNCHANGED <<line, outside, long, ragged>>
                            ELSE Show(j)
      /\ inHistory' = IF outside' THEN inHistory ELSE j
      /\ UNCHANGED <<history, open, config>>

Halted == outside /\ UNCHANGED vars

Next ==
  \/ Accept \/ HangUp \/ Swallow \/ Halted
  \/ EndOfText \/ Enter \/ Erase \/ Clear \/ Move \/ LeaveMode \/ Complete \/ Up \/ Down
  \/ \E c \in Chars : Type(c)

Spec == Init /\ [][Next]_vars
-----------------------------------------------------------------------------
\* The cursor is inside the line, the line inside the buffer, whatever is
\* typed; the history holds at most what it has room for and is browsed at an
\* entry that exists, unless there is none at all.
TypeOK ==
  /\ line \in Line /\ line.cursor <= line.l
  /\ telnet \in BOOLEAN /\ esc \in {"none", "ESC", "["}
  /\ Len(history) <= MaxHistory
  /\ inHistory \in -1 .. MaxHistory + 1
  /\ history # << >> => inHistory \in 0 .. Len(history) - 1
  /\ open \in BOOLEAN /\ config \in BOOLEAN /\ outside \in BOOLEAN
  /\ long \in BOOLEAN /\ ragged \in BOOLEAN

\* The text in the buffer is as long as the program thinks (cli.c:1376-1734):
\* the keys move characters and count them separately, and what the return
\* key runs is the text.  The two part only where a character was put on the
\* rim of the buffer or ^Z cleared a text without its length.
LineIsString == ~ ragged => Len(Text(line)) = line.l

\* Nothing outside the buffer and the history is touched as long as no line is
\* longer than a third of the buffer (cli_clear_line sends three characters
\* for each one, cli.c:1038-1044) and Down is not pressed more than MAX_HISTORY
\* times without a history (cli.c:1586-1632).
StaysInside == outside => long \/ inHistory > MaxHistory

\* Asking for help in the middle of typing loses nothing (cli.c:1738-1743,
\* 1164-1171): the line is given back as it was, and is not remembered.
HelpRestores ==
  [][/\ Type("?") /\ open' /\ ~ outside'
     /\ ~ ragged /\ ~ ragged' /\ line.cursor = line.l
     => line' = line /\ history' = history]_vars
=============================================================================
