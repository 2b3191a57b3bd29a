---------------------------- MODULE MCLineEditor ----------------------------
(* A buffer of six characters and a history of two lines.                   *)
EXTENDS LineEditor

MCWords == {<<"a", "a">>}
MCHistoryWord == <<"a", "a">>

\* Blanks and question marks are typed among the first two characters only,
\* only the line of one letter is remembered, and negotiations and
\* escape sequences come while the line is short.
MCScope ==
  /\ \A i \in Cells : i >= 1 => line.cmd[i] # "IAC"
  /\ \A i \in Cells : i >= 2 => line.cmd[i] \in {"a", NUL}
  /\ \A i \in DOMAIN history : history[i] \in {<< >>, <<"a">>}
  /\ telnet \/ esc # "none" => line.l <= 1
=============================================================================
