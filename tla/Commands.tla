------------------------------ MODULE Commands ------------------------------
(***************************************************************************)
(* How a line of the operator interface becomes a command (src/lib/cli.c   *)
(* with the command table of src/app/cli_main.c): it is cut into words,    *)
(* the words are looked up as abbreviations of the commands of the current *)
(* mode, the filters behind the bars are installed, the command runs, its  *)
(* output goes through the filters line by line, and the filters are       *)
(* removed.  The same table answers the TAB key.                           *)
(*                                                                         *)
(* Names, lines and words are sequences of characters, because what counts *)
(* is which one begins another; of a line of output only its words count.  *)
(* All commands are registered without privilege, and none has both a      *)
(* callback and subcommands.                                               *)
(***************************************************************************)
EXTENDS Integers, Sequences, SequencesExt

CONSTANTS
  Table,     \* the commands in the order of registration
  Modes,     \* configuration modes
  Lines,     \* lines the operator may type
  Outputs,   \* what a command may print: sequences of lines, these of words
  MaxWords   \* CLI_MAX_LINE_WORDS: 128

\* A command: its name, the mode it belongs to or "ANY", the command it is a
\* subcommand of (0: none), and what its callback does ("none": it has none).
Ids == DOMAIN Table
Effects == {"none", "quit", "exit", "plain", "print"} \cup Modes
Command == [name : Seq(STRING) \ {<< >>}, mode : Modes \cup {"ANY"},
            parent : Nat, effect : Effects]

\* No name holds a question mark or a bar, a subcommand is registered behind
\* its command and in its mode, a command with subcommands has no callback (one
\* with neither is possible: "No callback for", cli.c:755-762), and of the
\* commands that can be met in one place none begins the name of another
\* (cli_main.c:657-725, cli.c:496-501).  A line has room for a word.  That a
\* literal is a string has to be said to the provers.
ASSUME CommandsAssumption ==
  /\ {"", "|"} \subseteq STRING
  /\ "EXEC" \in Modes /\ "ANY" \notin Modes /\ MaxWords \in Nat \ {0, 1}
  /\ Lines \subseteq Seq(STRING) /\ Outputs \subseteq Seq(Seq(Seq(STRING)))
  /\ Table \in Seq(Command)
  /\ \A c \in Ids :
       /\ \A i \in DOMAIN Table[c].name : Table[c].name[i] \notin {"?", "|"}
       /\ Table[c].parent \in 0 .. c - 1
       /\ Table[c].parent # 0 => Table[Table[c].parent].mode = Table[c].mode
       /\ (\E d \in Ids : Table[d].parent = c) => Table[c].effect = "none"
  /\ \A c, d \in Ids :
       /\ c # d /\ Table[c].parent = Table[d].parent
       /\ Table[c].mode = Table[d].mode \/ "ANY" \in {Table[c].mode, Table[d].mode}
       => ~ IsPrefix(Table[c].name, Table[d].name)

VARIABLES
  mode,       \* cli->mode
  unique,     \* unique_len of every command
  filters,    \* cli->filters
  connected,  \* cli_loop runs
  last        \* the last line typed and what came of it

vars == <<mode, unique, filters, connected, last>>

Nothing == [key |-> "none", line |-> << >>, mode |-> "EXEC", ran |-> 0,
            left |-> << >>, written |-> << >>, printed |-> << >>,
            shown |-> << >>, counts |-> << >>, offered |-> {}]
-----------------------------------------------------------------------------
(* The table.                                                              *)

Siblings == [p \in 0 .. Len(Table) |-> {c \in Ids : Table[c].parent = p}]
Visible(c, m) == Table[c].mode \in {"ANY", m}

Path[c \in 0 .. Len(Table)] ==
  IF c = 0 THEN << >> ELSE Append(Path[Table[c].parent], c)

\* Commands are nested less deep than a line may have words.
ASSUME DepthAssumption == \A c \in Ids : Len(Path[c]) < MaxWords - 1

\* How far the names of two commands are the same.
CommonLen(c, d) ==
  LET s == Table[c].name   t == Table[d].name
  IN  Max({n \in 0 .. Len(s) : n <= Len(t) /\ SubSeq(s, 1, n) = SubSeq(t, 1, n)})

\* Mutant: only the commands of the same mode are compared.
ShortestInMode(m, old) ==
  [c \in Ids |->
     LET rivals == {d \in Siblings[Table[c].parent] \ {c} : Table[d].mode = Table[c].mode}
     IN  Max({1} \cup {1 + CommonLen(c, d) : d \in rivals})]

\* cli_build_shortest: how much of its name tells a command from the others
\* of the mode; a subcommand of an invisible command keeps what it had.
Shortest(m, old) ==
  [c \in Ids |->
     LET rivals == {d \in Siblings[Table[c].parent] \ {c} : Visible(d, m)}
     IN  IF \E d \in Range(Path[Table[c].parent]) : ~ Visible(d, m) THEN old[c]
         ELSE IF ~ Visible(c, m) THEN Len(Table[c].name)
         ELSE Max({1} \cup {1 + CommonLen(c, d) : d \in rivals})]

\* Mutant: the abbreviations of the mode before stay.
SetConfigModeStale(m) == mode' = m /\ UNCHANGED unique

\* cli_set_configmode.
SetConfigMode(m) ==
  /\ mode' = m
  /\ unique' = IF m = mode THEN unique ELSE Shortest(m, unique)
-----------------------------------------------------------------------------
(* Words.                                                                  *)

\* One character more: w is the word so far, if one has begun, and quote the
\* quotation mark it is in.  A quotation mark begins a new word wherever it
\* stands; what was there of a word is dropped.  A word has begun at the first
\* character that is not blank, so that a bar there ends a word of none.
Marks == {"'", "\""}
NothingRead == [words |-> << >>, word |-> << >>, begun |-> FALSE, quote |-> ""]
Add(ws, w) == IF Len(ws) < MaxWords - 1 THEN Append(ws, w) ELSE ws
Read(st, ch) ==
  LET Done(s) == IF s.begun THEN [s EXCEPT !.words = Add(@, s.word), !.begun = FALSE] ELSE s
      ended   == IF st = NothingRead THEN [st EXCEPT !.words = Add(@, << >>)] ELSE Done(st)
  IN  IF st.quote # "" /\ ch = st.quote THEN [Done(st) EXCEPT !.quote = ""]
      ELSE IF ch \in Marks THEN [st EXCEPT !.quote = ch, !.begun = TRUE, !.word = << >>]
      ELSE IF st.quote = "" /\ ch = " " THEN Done(st)
      ELSE IF st.quote = "" /\ ch = "|" THEN [ended EXCEPT !.words = Add(@, <<"|">>)]
      ELSE [st EXCEPT !.begun = TRUE, !.word = IF st.begun THEN Append(@, ch) ELSE <<ch>>]

\* cli_parse_line.
ParseLine(line) ==
  LET After[n \in 0 .. Len(line)] ==
        IF n = 0 THEN NothingRead ELSE Read(After[n - 1], line[n])
      end == After[Len(line)]
  IN  IF end.begun THEN Add(end.words, end.word) ELSE end.words

\* The numbers of a set, the least first.
InOrder(S) ==
  [n \in 1 .. Cardinality(S) |-> CHOOSE i \in S : Cardinality({j \in S : j <= i}) = n]

\* The bars of a line; when the first word begins with one the program sees
\* none.
Bars(ws) ==
  IF ws = << >> \/ (ws[1] # << >> /\ ws[1][1] = "|") THEN {}
  ELSE {i \in DOMAIN ws : ws[i] # << >> /\ ws[i][1] = "|"}
CommandWords(ws) == IF Bars(ws) = {} THEN ws ELSE SubSeq(ws, 1, Min(Bars(ws)) - 1)
FilterTexts(ws) ==
  LET bars == InOrder(Bars(ws))
  IN  [f \in DOMAIN bars |->
         SubSeq(ws, bars[f] + 1, IF f < Len(bars) THEN bars[f + 1] - 1 ELSE Len(ws))]
Asks(w) == w # << >> /\ Last(w) = "?"

\* The words of a line, those before the first bar, and the texts behind bars.
Words  == [line \in Lines |-> ParseLine(line)]
Before == [line \in Lines |-> CommandWords(Words[line])]
Behind == [line \in Lines |-> FilterTexts(Words[line])]
-----------------------------------------------------------------------------
(* The command.                                                            *)

\* Does the word w stand for the command c?
Abbreviates(w, c) ==
  /\ IsPrefix(w, Table[c].name)
  /\ Len(w) >= unique[c] \/ w = Table[c].name

\* A command of the mode is taken before one of any mode; two of the latter
\* never match the same word.
Chosen(w, p) ==
  LET meant == {c \in Siblings[p] : Visible(c, mode) /\ Abbreviates(w, c)}
      own   == {c \in meant : Table[c].mode = mode}
  IN  IF own # {} THEN Min(own) ELSE IF meant # {} THEN Max(meant) ELSE 0

\* cli_find_command: the command whose callback the words cw select, each
\* word a command among the subcommands of the one before, or 0 when the
\* words ask for help, are incomplete or are no command.
FindCommand(cw) ==
  LET found == {c \in Ids :
        /\ Table[c].effect # "none" /\ Len(Path[c]) <= Len(cw)
        /\ \A i \in DOMAIN Path[c] :
             ~ Asks(cw[i]) /\ Path[c][i] = Chosen(cw[i], Table[Path[c][i]].parent)}
  IN  IF found = {} THEN 0 ELSE CHOOSE c \in found : TRUE
-----------------------------------------------------------------------------
(* Filters.                                                                *)

Filter(kind, from, to, invert) ==
  [kind |-> kind, from |-> from, to |-> to, invert |-> invert,
   matched |-> FALSE, count |-> 0]
NoFilter == Filter("none", << >>, << >>, FALSE)
B == <<"b", "e", "g">>   BT == <<"b", "e", "t">>   C == <<"c">>
X == <<"e", "x">>        I == <<"i">>              G == <<"g">>   EG == <<"e", "g">>

\* cli_match_filter_init, cli_range_filter_init and cli_count_filter_init.
FilterInit(a) ==
  LET Means(n) == IsPrefix(a[1], n)
      rest     == Tail(a)
      option   == Len(a) > 2 /\ a[2] = <<"-", "v">>
  IN  CASE (Means(I) \/ Means(X) \/ Means(G) \/ Means(EG)) /\ Len(a) > 1 ->
             IF Means(I) \/ a[1] = X
             THEN Filter("match", rest, << >>, a[1][1] = "e")
             ELSE Filter("match", IF option THEN Tail(rest) ELSE rest, << >>, option)
        [] (Means(B) \/ Means(BT)) /\ a[1] = BT /\ Len(a) > 2 ->
             Filter("range", <<a[2]>>, Tail(rest), FALSE)
        [] (Means(B) \/ Means(BT)) /\ a[1] # BT /\ Len(a) > 1 ->
             Filter("range", rest, << >>, FALSE)
        [] Means(C) /\ Len(a) = 1 -> Filter("count", << >>, << >>, FALSE)
        [] OTHER -> NoFilter

\* A text that is refused before a filter is made: nothing behind the bar, a
\* question, or one that begins two names.
Refused(a) == a = << >> \/ Asks(Last(a)) \/ (a[1][1] = "b" /\ Len(a[1]) < 3)

\* The filters a line makes, up to the first text that makes none.
Made ==
  [line \in Lines |->
     LET texts == Behind[line]
         bad   == {i \in DOMAIN texts : Refused(texts[i]) \/ FilterInit(texts[i]) = NoFilter}
     IN  [i \in 1 .. Min({Len(texts) + 1} \cup bad) - 1 |-> FilterInit(texts[i])]]

\* Mutant: the filters made so far are removed only when all were made.
RemainingOnFailure(texts, made) ==
  IF Len(made) < Len(texts) THEN IF made = << >> THEN filters ELSE made ELSE << >>

\* What is left of cli->filters.  A text refused returns at once, with the
\* filters before it in place; a filter that cannot be made, like a command
\* that ran, ends in the loop that removes them all.
Remaining(texts, made) ==
  IF Len(made) < Len(texts) /\ Refused(texts[Len(made) + 1])
  THEN IF made = << >> THEN filters ELSE made ELSE << >>

Occurs(p, line) ==
  \E i \in 1 .. Len(line) : SubSeq(line, i, i + Len(p) - 1) = p

\* Mutant: a range that has begun never ends.
FilteredOpenEnd(f, line) ==
  CASE f.kind = "match" -> <<f, Occurs(f.from, line) # f.invert>>
    [] f.kind = "count" -> <<[f EXCEPT !.count = @ + (IF line = << >> THEN 0 ELSE 1)], FALSE>>
    [] OTHER -> LET on == f.matched \/ Occurs(f.from, line)
                IN  <<[f EXCEPT !.matched = on], on>>

\* cli_match_filter, cli_count_filter, cli_range_filter: the filter after a
\* line, and whether the line passes.
Filtered(f, line) ==
  CASE f.kind = "match" -> <<f, Occurs(f.from, line) # f.invert>>
    [] f.kind = "count" -> <<[f EXCEPT !.count = @ + (IF line = << >> THEN 0 ELSE 1)], FALSE>>
    [] OTHER -> LET on == f.matched \/ Occurs(f.from, line)
                IN  <<[f EXCEPT !.matched = on /\ ~ (f.to # << >> /\ Occurs(f.to, line))], on>>

\* _print: a line goes from filter to filter until one stops it.
Reaches(fs, k, line) == \A j \in 1 .. k - 1 : Filtered(fs[j], line)[2]
PrintLine(st, line) ==
  [fs  |-> [k \in DOMAIN st.fs |-> IF Reaches(st.fs, k, line)
                                   THEN Filtered(st.fs[k], line)[1] ELSE st.fs[k]],
   out |-> IF Reaches(st.fs, Len(st.fs) + 1, line) THEN Append(st.out, line) ELSE st.out]
Printed(fs, lines) ==
  LET After[n \in 0 .. Len(lines)] ==
        IF n = 0 THEN [fs |-> fs, out |-> << >>] ELSE PrintLine(After[n - 1], lines[n])
  IN  After[Len(lines)]

Counting(fs) == InOrder({k \in DOMAIN fs : fs[k].kind = "count"})
Counts(fs) == [n \in DOMAIN Counting(fs) |-> fs[Counting(fs)[n]].count]
-----------------------------------------------------------------------------
\* The commands registered by cli_init are known to each other, those of
\* cli_main were registered afterwards.
Init ==
  /\ mode = "EXEC" /\ filters = << >> /\ connected = FALSE /\ last = Nothing
  /\ unique = [c \in Ids |->
       IF Table[c].mode # "ANY" THEN 0
       ELSE Max({1} \cup {1 + CommonLen(c, d) :
                            d \in {x \in Ids \ {c} : Table[x].mode = "ANY"}})]

\* The program waits for a line.
Prompted == connected /\ last.key = "none"

\* A connection is accepted, after the one before was quit or broke while the
\* program waited: cli_loop.
Accept ==
  /\ ~ connected \/ Prompted
  /\ connected' = TRUE /\ last' = Nothing
  /\ mode' = "EXEC"
  /\ unique' = LET u == Shortest(mode, unique)
               IN  IF mode = "EXEC" THEN u ELSE Shortest("EXEC", u)
  /\ UNCHANGED filters

\* The callback of the command c: a mode, quit, exit, or none of these.
Callback(c) ==
  LET effect == Table[c].effect
  IN  /\ IF effect \in Modes THEN SetConfigMode(effect)
         ELSE IF effect \in {"quit", "exit"} THEN SetConfigMode("EXEC")
         ELSE UNCHANGED <<mode, unique>>
      /\ connected' = ~ (effect = "quit" \/ (effect = "exit" /\ mode = "EXEC"))

\* The command c of a line ran, or did not, and printed some lines, which
\* went through the filters fs.  Help and the history are printed past them.
Ran(line, c, fs) ==
  LET texts == IF c = 0 THEN << >> ELSE Behind[line]
      runs  == c # 0 /\ Len(Made[line]) = Len(texts)
      plain == runs /\ Table[c].effect = "plain"
  IN  \E printed \in IF runs THEN Outputs ELSE {<< >>} :
      \E after \in {Printed(fs, IF plain THEN << >> ELSE printed)} :
        last' = [Nothing EXCEPT
          !.key = "enter", !.line = line, !.mode = mode, !.ran = IF runs THEN c ELSE 0,
          !.left = filters, !.written = texts, !.printed = printed,
          !.shown = IF ~ runs THEN << >> ELSE IF plain THEN printed ELSE after.out,
          !.counts = IF runs THEN Counts(after.fs) ELSE << >>]

\* cli_run_command.
Selected(line) == IF Words[line] = << >> THEN 0 ELSE FindCommand(Before[line])
RunCommand(line) ==
  \E c \in {Selected(line)} :
    LET texts == IF c = 0 THEN << >> ELSE Behind[line]
    IN  /\ IF c # 0 /\ Len(Made[line]) = Len(texts) THEN Callback(c)
           ELSE UNCHANGED <<mode, unique, connected>>
        /\ filters' = IF c = 0 THEN filters ELSE Remaining(texts, Made[line])
        /\ Ran(line, c, IF texts = << >> THEN filters ELSE Made[line])

\* Mutant: any abbreviation is followed, unique or not.
FollowsAny(w, c) == Visible(c, mode) /\ IsPrefix(w, Table[c].name)

\* The TAB key follows the first visible command its word is enough for.
Follows(w, c) == Visible(c, mode) /\ IsPrefix(w, Table[c].name) /\ Len(w) >= unique[c]

\* cli_get_completions: what the last of the words may become.  After a bar
\* nothing is offered: the word that is compared with the names of the filters
\* is the bar itself.
Open(ws, line) == IF line = << >> \/ Last(line) = " " THEN Append(ws, << >>) ELSE ws
GetCompletions(line) ==
  LET ws    == Words[line]
      open  == Open(ws, line)
      taken(i, p) == {c \in Siblings[p] : Follows(open[i], c)}
  IN  {c \in Ids :
         /\ \A i \in 2 .. Len(ws) : ws[i] = << >> \/ ws[i][1] # "|"
         /\ Len(Path[c]) = Len(open)
         /\ Visible(c, mode) /\ IsPrefix(Last(open), Table[c].name)
         /\ \A i \in 1 .. Len(open) - 1 :
              LET ds == taken(i, Table[Path[c][i]].parent)
              IN  ds # {} /\ Path[c][i] = Min(ds)}

Tab(line) ==
  /\ last' = [Nothing EXCEPT !.key = "tab", !.line = line, !.mode = mode,
                             !.offered = GetCompletions(line)]
  /\ UNCHANGED <<mode, unique, filters, connected>>

\* cli_loop prompts for the next line, or goes on with the one TAB was in.
Prompt ==
  /\ connected /\ last.key # "none"
  /\ last' = Nothing
  /\ UNCHANGED <<mode, unique, filters, connected>>

Next ==
  \/ Accept \/ Prompt
  \/ Prompted /\ \E line \in Lines : Tab(line) \/ RunCommand(line)

Spec == Init /\ [][Next]_vars
-----------------------------------------------------------------------------
(* What the operator means, said without the program's lookup: a word      *)
(* stands for a command if it begins the name of no other one that could   *)
(* be meant, or is its name.                                               *)

Quoted(line) == \E i \in DOMAIN line : line[i] \in Marks
WordsOf(line) ==
  LET Cut(i)   == line[i] \in {" ", "|"}
      first    == {i \in DOMAIN line : line[i] = "|" \/ (~ Cut(i) /\ (i = 1 \/ Cut(i - 1)))}
      end(i)   == IF line[i] = "|" THEN i
                  ELSE Max({j \in i .. Len(line) : \A k \in i .. j : ~ Cut(k)})
      starts   == InOrder(first)
  IN  [n \in DOMAIN starts |-> SubSeq(line, starts[n], end(starts[n]))]

Sole(w, c, m) ==
  /\ Visible(c, m) /\ IsPrefix(w, Table[c].name)
  /\ \/ w = Table[c].name
     \/ \A d \in Siblings[Table[c].parent] \ {c} :
          Visible(d, m) => ~ IsPrefix(w, Table[d].name)
Means(ws, c, m) ==
  /\ Len(Path[c]) <= Len(ws)
  /\ \A i \in DOMAIN Path[c] : Sole(ws[i], Path[c][i], m)

Passes(f, lines, i) ==
  CASE f.kind = "match" -> Occurs(f.from, lines[i]) # f.invert
    [] f.kind = "count" -> FALSE
    [] OTHER -> \E j \in 1 .. i :
                  /\ Occurs(f.from, lines[j])
                  /\ f.to = << >> \/ \A k \in j .. i - 1 : ~ Occurs(f.to, lines[k])
Through(f, lines) ==
  LET kept == InOrder({i \in DOMAIN lines : Passes(f, lines, i)})
  IN  [n \in DOMAIN kept |-> lines[kept[n]]]

\* What passes all of the filters fs, and what of it a count would count.
ThroughAll(fs, lines) ==
  LET After[n \in 0 .. Len(fs)] == IF n = 0 THEN lines ELSE Through(fs[n], After[n - 1])
  IN  After[Len(fs)]
NotBlank(lines) == Cardinality({i \in DOMAIN lines : lines[i] # << >>})
-----------------------------------------------------------------------------
\* Filters are installed as they are made, and every visible command can be
\* told by some abbreviation or by its name.
TypeOK ==
  /\ mode \in Modes /\ connected \in BOOLEAN
  /\ unique \in [Ids -> Nat]
  /\ \A i \in DOMAIN filters : filters[i] # NoFilter /\ ~ filters[i].matched /\ filters[i].count = 0
  /\ connected => \A c \in Ids : Visible(c, mode) => unique[c] \in 1 .. Len(Table[c].name) + 1

\* A line runs the command its words mean in the mode it was typed in, and
\* only that one (cli.c:201-238, 612-673, 703-914): abbreviations that were
\* enough in another mode, or that a command of any mode shares, never run a
\* command that was not meant, and a line without filters that means a
\* command runs it.
RunsWhatIsMeant ==
  last.key = "enter" /\ ~ Quoted(last.line) =>
    LET ws == CommandWords(WordsOf(last.line))
    IN  /\ last.ran # 0 => Means(ws, last.ran, last.mode)
        /\ \A c \in Ids :
             Table[c].effect # "none" /\ Means(ws, c, last.mode) /\ last.written = << >>
               => last.ran = c

\* What is shown of a command's output is what the filters written behind it
\* let pass, one after the other (cli.c:797-879, 1939-1965, 2103-2253), and a
\* count counts what reached it; only a line without filters of its own may
\* meet filters left over.
OutputFiltered ==
  LET fs == [i \in DOMAIN last.written |-> FilterInit(last.written[i])]
  IN  last.ran # 0 /\ Table[last.ran].effect # "plain" /\ (fs # << >> \/ last.left = << >>) =>
        /\ last.shown = ThroughAll(fs, last.printed)
        /\ last.counts = [n \in DOMAIN Counting(fs) |->
             NotBlank(ThroughAll(SubSeq(fs, 1, Counting(fs)[n] - 1), last.printed))]

\* No filter outlives its command (cli.c:871-879), except that of a line whose
\* second or later filter was refused before it was made (cli.c:808-841),
\* until the next command that runs.
FiltersRemoved ==
  [][/\ filters' # << >> => \/ filters' = filters /\ (last'.key # "enter" \/ last'.ran = 0)
                            \/ /\ last'.ran = 0 /\ Len(last'.written) > 1
                               /\ \E i \in 2 .. Len(last'.written) : Refused(last'.written[i])]_vars

\* The TAB key offers exactly the commands that the last word may still
\* become, under the command the words before it mean (cli.c:952-1028).
CompletionIsMeant ==
  last.key = "tab" /\ ~ Quoted(last.line) =>
    LET ws   == WordsOf(last.line)
        open == Open(ws, last.line)
        p    == {c \in Ids \cup {0} : Len(Path[c]) = Len(open) - 1 /\ Means(open, c, last.mode)}
    IN  (\A i \in DOMAIN ws : ws[i] # <<"|">>) =>
          last.offered = {c \in Ids : /\ Table[c].parent \in p /\ Visible(c, last.mode)
                                      /\ IsPrefix(Last(open), Table[c].name)}
=============================================================================
