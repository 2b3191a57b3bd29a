----------------------------- MODULE RuleEngine -----------------------------
(***************************************************************************)
(* The rule a device's attributes are judged by (src/src/dev.c:336-427,    *)
(* called at the end of every packet by src/src/g1.c:76).  The rendered    *)
(* attributes of the device are written into a text as assignments, in the *)
(* order of its hash map, the rule follows, and the whole is handed to the *)
(* evaluator.  A rule that holds sends a packet to the device.             *)
(*                                                                         *)
(* The evaluator is a constant here, which Expression gives a value, and   *)
(* so is what a rule says of given values.                                 *)
(*                                                                         *)
(* A value is a string of bytes; what is written into the text is a        *)
(* decimal, which stands here as the number it denotes.  The evaluator     *)
(* computes with floats, so a number is read as it is up to 2^24.          *)
(*                                                                         *)
(* The program has one rule; the model takes any of a set, since it is a   *)
(* text in the source.  One device, whose product has a format for every   *)
(* packet that comes, attributes registered as numbers, and slices that    *)
(* fit into the buffer of an attribute.  What is sent when the rule holds  *)
(* is left out, and the Lua function run afterwards only writes a line of  *)
(* log.                                                                    *)
(***************************************************************************)
EXTENDS Integers, Sequences, FiniteSets, SequencesExt, ExprTokens

CONSTANTS
  Topics,        \* attribute topics: a00000001 is Var(1)
  Base,          \* values of a byte: 256
  MaxLen,        \* MAX_DEVICE_ATTRIBUTE_LEN
  Slices,        \* what may be cut out of a packet for an attribute: bytes
  Rules,         \* rule texts
  Formats,       \* the attributes a packet of some format carries: their lengths
  Orders,        \* orders of the hash map
  Registrations, \* attribute tables: the topics that are registered
  MaxTime,       \* bound of the model: the clock stops here
  NoAttr, Empty, \* no value yet; a value that was never rendered
  Evaluated(_),  \* is a text an expression, and its value
  Satisfied(_,_) \* what a rule means: does it hold for these values?

Buffers == [1 .. MaxLen -> 0 .. Base - 1]

\* The number that bytes denote, the first being the highest.
Number(bytes) == FoldLeft(LAMBDA n, b : Base * n + b, 0, bytes)

\* num_to_string, num_to_value: whatever has another length is written as 0.
NumToString(bytes) == IF Len(bytes) \in {1, 2, 4} THEN Number(bytes) ELSE 0
Texts == {Empty} \cup {NumToString(bytes) : bytes \in Slices}

ASSUME RuleAssumption ==
  /\ Topics \subseteq Nat /\ Base \in Nat \ {0} /\ MaxLen \in Nat /\ MaxTime \in Nat
  /\ Slices \subseteq Seq(0 .. Base - 1) /\ \A s \in Slices : Len(s) \in 1 .. MaxLen
  /\ \A f \in Formats : DOMAIN f \subseteq Topics
  /\ Registrations \subseteq SUBSET Topics /\ Orders \subseteq SetToSeqs(Topics)
  /\ \A r \in Rules : Evaluated(r).ok
  /\ NoAttr \notin [val : Buffers, len : 1 .. MaxLen, str : Texts]
  /\ \A s \in Slices : NumToString(s) # Empty

VARIABLES
  rule,       \* the text in the source
  now,        \* time(NULL)
  attrs,      \* dev->attr_map: buffer, length in use and rendering
  update_ts,  \* of the device: when a value changed last
  report_ts,  \* of the device: the change that was reported last
  reported,   \* the values when the device was last reported (history)
  missed,     \* has one changed since, in the second of a reported change?
  shown,      \* how long the bytes were that the rendering of a topic was made
              \* of; 0 if those that came last were not rendered (history)
  outcome     \* what came of the rule at the last packet (history)

rule_vars == <<rule, now, attrs, update_ts, report_ts, reported, missed, shown, outcome>>

Known(as) == {t \in Topics : as[t] # NoAttr}
Rendered(as) == \A t \in Known(as) : as[t].str # Empty

\* The value of an attribute: the part of its buffer in use, and as a number.
First(buffer, n) == [i \in 1 .. n |-> buffer[i]]
Value(a) == First(a.val, a.len)
Values(as) == [t \in Topics |-> IF as[t] = NoAttr THEN 0 ELSE Number(Value(as[t]))]

\* What the buffers hold; that of a new attribute is filled with 0xFF.
AllOnes   == [i \in 1 .. MaxLen |-> Base - 1]
BufferOf(a) == IF a = NoAttr THEN AllOnes ELSE a.val
Bytes(as) == [t \in Topics |-> BufferOf(as[t])]

\* memcpy of a slice into a buffer: what is behind it stays.
Copied(buffer, slice) ==
  [i \in 1 .. MaxLen |-> IF i \in DOMAIN slice THEN slice[i] ELSE buffer[i]]
-----------------------------------------------------------------------------
\* Mutant: a value is rendered once, when the attribute is added.
UptDevAttrOnce(a, slice, registered) ==
  LET val == Copied(BufferOf(a), slice)
  IN  [val |-> val, len |-> Len(slice),
       str |-> IF a # NoAttr /\ a.str # Empty THEN a.str
               ELSE IF val # BufferOf(a) /\ registered THEN NumToString(slice) ELSE Empty]

\* upt_dev_attr and add_dev_attr: the bytes of the slice are compared with as
\* many of the buffer; if they differ they are stored, and rendered if the
\* topic is registered.  The length is taken over in any case.
UptDevAttr(a, slice, registered) ==
  LET val == Copied(BufferOf(a), slice)
  IN  [val |-> val, len |-> Len(slice),
       str |-> IF val # BufferOf(a) /\ registered THEN NumToString(slice)
               ELSE IF a = NoAttr THEN Empty ELSE a.str]

\* hash_get_attr_val: "a00000001=5,"; nothing stands for a value that was
\* never rendered.
Assignment(as, t) ==
  <<Var(t), Op("=")>> \o (IF as[t].str = Empty THEN << >> ELSE <<Num(as[t].str)>>)
                      \o <<Op(",")>>
Assignments(as, order) ==
  LET listed == SelectSeq(order, LAMBDA t : t \in Known(as))
  IN  FlattenSeq([i \in DOMAIN listed |-> Assignment(as, listed[i])])
RuleText(as, order) == Assignments(as, order) \o rule

\* Mutant: only the packet that changes a value is judged.
DueWhenChanged(t, update, report) == update = t /\ update > report

\* Is there anything the device was not reported for?
Due(t, update, report) == update > report

\* What becomes of a text that is evaluated.
Verdict(text) ==
  LET e == Evaluated(text)
  IN  IF ~ e.ok THEN "syntax error" ELSE IF e.value = 0 THEN "failed" ELSE "passed"

\* check_rule_engine; a rule that passed is followed by send_pkt_to_device.
CheckRuleEngine(as, t, update, order) ==
  IF Due(t, update, report_ts) THEN Verdict(RuleText(as, order)) ELSE "skipped"

RuleInit ==
  /\ rule \in Rules /\ now = 1
  /\ attrs = [t \in Topics |-> NoAttr]
  /\ update_ts = 0 /\ report_ts = 0
  /\ reported = Bytes(attrs)
  /\ missed = FALSE /\ shown = [t \in Topics |-> 0] /\ outcome = "none"

Tick ==
  /\ now < MaxTime
  /\ now' = now + 1 /\ outcome' = "none"
  /\ UNCHANGED <<rule, attrs, update_ts, report_ts, reported, missed, shown>>

\* parse_msg: the slices of a packet are stored, then the rule is checked.
Packet(slice, registered) ==
  LET as     == [t \in Topics |->
                   IF t \in DOMAIN slice
                   THEN UptDevAttr(attrs[t], slice[t], t \in registered) ELSE attrs[t]]
      update == IF Bytes(as) # Bytes(attrs) THEN now ELSE update_ts
  IN  /\ attrs' = as /\ update_ts' = update
      /\ \E order \in Orders : outcome' = CheckRuleEngine(as, now, update, order)
      /\ missed' = IF Bytes(as) = Bytes(attrs) THEN missed ELSE now = report_ts
      /\ shown' = [t \in Topics |-> IF Bytes(as)[t] = Bytes(attrs)[t] THEN shown[t]
                                    ELSE IF t \in registered THEN as[t].len ELSE 0]
      /\ UNCHANGED <<rule, now, report_ts, reported>>

\* hash_update_dev, in the periodic mode.
Report ==
  /\ update_ts > report_ts
  /\ report_ts' = update_ts
  /\ reported' = Bytes(attrs) /\ missed' = FALSE /\ outcome' = "none"
  /\ UNCHANGED <<rule, now, attrs, update_ts, shown>>

\* What a packet of a format may carry.
Carried(f) ==
  {slice \in [DOMAIN f -> Slices] : \A t \in DOMAIN f : Len(slice[t]) = f[t]}

RuleNext ==
  \/ Tick \/ Report
  \/ \E f \in Formats : \E slice \in Carried(f) :
       \E registered \in {table \cap DOMAIN f : table \in Registrations} :
         Packet(slice, registered)

RuleSpec == RuleInit /\ [][RuleNext]_rule_vars
-----------------------------------------------------------------------------
Strings(as) == [t \in Topics |-> IF as[t] = NoAttr THEN 0 ELSE as[t].str]

\* The evaluator makes of the assignments and the rule behind them what the
\* rule says of the values assigned (expr.h:304-878, dev.c:336-410), in every
\* order of the hash map; and it takes no text in which nothing is assigned.
TextUnderstood ==
  \A order \in Orders :
    LET e == Evaluated(RuleText(attrs, order))
    IN  IF Rendered(attrs)
        THEN e.ok /\ (e.value # 0 <=> Satisfied(rule, Strings(attrs)))
        ELSE ~ e.ok

\* Is the number of a topic what the text assigns to it?
IsShown(t) == shown[t] = attrs[t].len /\ attrs[t].len \in {1, 2, 4}

\* In whatever order the hash map lists the attributes, the verdict is that
\* of the rule on the numbers the device has sent, those it never sent being
\* 0 (dev.c:50-108, 336-410, attr.c:13-41).  Three kinds of values are not in
\* the text as the numbers they are: one of 3 bytes or of more than 4, which
\* is written as 0 (attr.c:20-25); one that came while its topic was not
\* registered, or was the first and all ones, which is not written at all
\* (dev.c:62-71); and one that differs only in length from what it replaces,
\* which is written as that was (dev.c:87-88).  A device with a value that
\* was never rendered gets no verdict.
VerdictOfValues ==
  /\ outcome \in {"passed", "failed"} => Rendered(attrs)
  /\ (\A t \in Known(attrs) : IsShown(t)) =>
       /\ outcome # "syntax error"
       /\ outcome = "passed" => Satisfied(rule, Values(attrs))
       /\ outcome = "failed" => ~ Satisfied(rule, Values(attrs))

\* A device whose values are not those last reported is judged at each of its
\* packets (dev.c:382, g1.c:76, dev.c:283-286), not only at the one that
\* brought the change; only what changed once more in the second of the
\* change that was reported is not, and then until the next change.  Values
\* are compared as the bytes stored: one that comes back shorter is no news.
NewsJudged == outcome = "skipped" => Bytes(attrs) = reported \/ missed
=============================================================================
