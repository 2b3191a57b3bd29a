# Verification of the edge gateway library

This directory holds TLA+ models of the edge gateway in this repository, the
TLC configurations that check them on small instances, and proofs that TLAPS
checks for every instance. The source is the reference: every definition that
models code is listed in `PROJECT.json` with the lines it stands for.

## 1. The system

One process holds three parts that normally run on different machines: an
*application* (`src/app`), the *edge library* (`src/src`) and a demonstration
*server* (`src/srv`). They talk over an MQTT broker, except that the
application calls the library directly.

    operator --telnet--> CLI thread --mailbox--> application thread
                             |                        | edge_rcv_pkt (read lock)
                             | server commands        v
                             v                   edge library: products, formats,
                      server thread <--MQTT--> management thread (write lock)
                                               attributes, devices

Threads: the application thread hands packets to `edge_rcv_pkt` (g1.c) under
the read lock `g_edge_rwlock`; the management thread (mgt.c) handles a message
of the server, or does a round of periodic work, under the write lock; the CLI
thread changes settings and prints tables without the lock; the server thread
answers hellos and unknown packets.

### Components, state, operations

| component | state | operations | what makes it correct |
|---|---|---|---|
| token list (g1_fmt.c) | declared size, list of (topic, offset, length) in payload order | add in the first gap that fits, delete by topic | slices disjoint, ordered, inside the size; nothing that fits is refused; an undo removes the right token |
| catalogue (pdt.c, g1_fmt.c, attr.c) | product map; per product a format map and a counter per attribute; global attribute table with a type and a counter | add/delete product, format, token | the two levels of counters agree; a product counts its tokens; an attribute keeps its type while somebody refers to it |
| device registry (dev.c) | device map; per device three stamps, a product pointer, attribute values; age list; two timers | add, delete, freshen and store (packet), sweep, report, judge by the rule | the age list is exact and sorted, so a sweep is exact; silence and report delay are bounded; what was sent is current; a verdict is that of the rule on the values |
| packet parsing (g1.c) | none | decode addresses, find the device and the format, cut slices | slices are within the payload; status codes mean what callers take them for |
| session (mgt.c) | online/offline, function switch, timeout counter, tick | hello, acknowledge, timeout, dispatch | offline exactly after missed hellos; comes back when the server does |
| hash map (hash_map.c, linked_list.c) | buckets of pairs | put, get, remove, contains, walk | is a map; a walk survives removal of the entry it stands at |
| mailbox (app/main.c, cli_main.c) | one packet slot, a mutex, a condition | hand over, wait, process | each packet handed over is processed once |
| server (srv_main.c) | client settings | answer hello, provision an unknown device | repeated, lost and late provisioning leaves a usable catalogue |
| operator interface (cli_main.c) | settings, command table | set modes and intervals, send server commands, show tables | legal settings only |
| telnet interface library (lib/cli.c) | line, cursor, history; mode, lengths of abbreviations, filters | keys, words, lookup, filters, completion | the line is what was typed; a line runs what it means; filters see the output in order and do not outlive it |
| expression evaluator (inc/expr.h) | two stacks | read a text, evaluate | the tree is what the text means |
| MQTT wrapper, memory, lists, cJSON, md5 | - | - | I/O and third-party code |

Interactions: the management thread calls the catalogue and the registry; a
packet reads the catalogue (formats, attribute types) and writes the registry;
a device points to its product, an attribute value to its device; a product
counts references in the global attribute table; the periodic round sweeps and
reports; replies to the server leave through the MQTT wrapper.

Hard behaviours: counters kept at two levels by operations that may fail in the
middle; lists whose order other code relies on; a product freed under its
devices; two timers on a clock with the resolution of a second; settings
changed without the lock; a condition variable without a predicate; messages of
quality of service 0; a line editor and a lookup of abbreviations that keep lengths
by hand. They are the `hazards` of `PROJECT.json`, each at its
line.

## 2. Modules

| module | models |
|---|---|
| `TokenLayout` | operators on one token list: `add_g1_token_internal`, `del_g1_token_internal` |
| `Format`, `MCFormat` | one format under any sequence of additions and deletions |
| `Catalog`, `MCCatalog` | all products, formats and reference counters (uses `TokenLayout`) |
| `Devices`, `MCDevices` | the device registry, ageing and reports |
| `Session` | hello, acknowledge, timeout, online state and function switch between the library, a lossy broker and the server |
| `Mailbox` | the hand-over of packets from the CLI thread to the application thread |
| `Map`, `HashMap`, `MCHashMap` | the hash map's promise, and the chained buckets that implement it |
| `G1Packet`, `MCG1Packet` | one packet through `edge_rcv_pkt`: address, bounds, status, forwarding |
| `LineEditor`, `MCLineEditor` | `cli_loop`: bytes, keys, the line, the history |
| `Commands`, `MCCommands` | `cli_run_command`: words, abbreviations, modes, filters, completion |
| `ExprTokens` | the tokens of a text for the evaluator |
| `Expression` | the evaluator: from a text to a tree, and its value; what a text means |
| `RuleEngine`, `MCRuleEngine` | the rule at the end of every packet; the evaluator is a parameter, in the run it is `Expression` |
| `Provisioning`, `MCProvisioning` | unknown devices, the server's descriptions, loss |
| `ListLemmas` | what insertion and removal do to a sequence, and what a sum over a set of indices becomes when one of its terms changes (proved) |
| `CatalogProofs` | theorems about `Format` and `Catalog` |
| `DevicesProofs` | theorems about `Devices` |
| `LinkProofs` | theorems about what passes between gateway and server: `Session`, `Provisioning` |
| `PacketProofs` | theorems about the way of a packet: `Mailbox`, `G1Packet`, `RuleEngine` |
| `HashMapProofs` | theorems about `HashMap`: the refinement of `Map` |
| `LineEditorProofs` | theorems about `LineEditor` |
| `CommandsProofs` | theorems about `Commands` |

A definition whose comment starts with "Mutant:" is not part of a model: it is
a plausible mistake in the code that replaces the definition after it in order
to see that a property notices (list `mutants` of `PROJECT.json`).

### Format

`tokens` is the list from `fmt->token`, in list order; `size` is `fmt->size`.
The C code walks a pointer to a link (`ptr`); here that is a position
`1 .. Len(tokens) + 1`. `InsertionPoint` is the place where the walk stops with
a result. Two things of the walk are easy to miss and are kept: a token with
the same topic stops the addition only if the walk *meets* it, so a list may
hold a topic twice; and the token after the chosen gap is looked at before the
gap is accepted. Offsets and lengths arrive in 32-bit fields (`Wire` values) and
are added as 64-bit numbers (modulo `ULong`).

### Catalog

`pdts` are the keys of `g_pdt_map`, `fmt[p][k]` the format of a product under a
key, `pref[p][t]` the counter of `pdt->attr_map`, `attr[t]` the entry of
`g_attr_map`. An entry of either table exists exactly while its counter is not
0, so one number stands for both. All messages are handled under the write
lock, so one handler is one step. `AddTokenUndone` is an addition whose
attribute is refused, either because the type is out of range or because
memory runs out for a table entry. `Pdts` and `Keys` are finite: topics and keys
are numbers of a fixed width, and there is no sum over anything else. Three variables record what the program
forgets: `orphan` (tokens of formats that were replaced), `strayed` (topics for
which a token was deleted that was not there) and `stranded` (references that
a deleted product leaves in the global table). They appear in no guard.

### Devices

`dev[o]` is the entry of `g_dev_map` for the identity `o` (the MD5 of link type
and address, taken as injective), `age` the list `g_dev_age_head`, `lastSweep`
and `lastUp` the static `last_sec` of `do_device_ageing` and `do_device_update`.
A device's product pointer becomes `Freed` when the product is deleted.
`now` is `time(NULL)`: it moves between steps, and once inside a handler that
reads it several times, so one packet may stamp the sign of life and the change
with different seconds. `lag` counts the seconds since the last round of the
management loop and is kept below `MaxLag`: this is the assumption that
`mosquitto_loop(mosq, 1000, 1)` keeps returning 0. `Packet` is what is left of
parsing when the device is known: what the packet says of which attributes, and
what the attribute table says of their types, are inputs. A packet of a device
whose product was freed reads freed memory to find the format; the inputs
include every outcome of that. `SetMode` is the operator's command, which takes
no lock; a packet therefore may see two modes, and `told` are the attributes
that saw the immediate one. `since` records when the periodic mode was set last.
The report interval is a constant of the model
although the same command can change it. Deleting a device of a freed product
writes through the freed list head: afterwards the program may be running or
`corrupt`, and of a corrupt state nothing more is said. `repAt` and `sent`
record when a device was reported and what was sent; no guard reads them.

### Session

`Round` is `do_mgt_periodic` without ageing and reports, `Receive` is
`mgt_rcv_msg`; both run in the management thread, so neither interrupts the
other, and the reset of `timeout` before the lock is taken is no race. A round
is not a second: `mosquitto_loop` also returns early when something arrives, so
bounds are stated in rounds. `SrvHello` is the server's answer, `SrvCommand`
any of its eight kinds of other messages, whose effects are in `Catalog` and
`Devices`; here they only restart the count. Messages are published over a
connection each, with quality of service 0: the links are sets, from which any
message may be taken next and may disappear, unless the behaviour is `reliable`. Two equal messages
under way are one; receiving one twice changes nothing that receiving it once
does not. In a reliable behaviour a round waits until no message is as old as
`Delay` rounds, and the server is not switched off. `tick` is counted modulo `Period`, a common multiple of the
intervals; `silent` counts the rounds since the last message.

### Mailbox

One variable at a time: `Clear` is a store of the application outside the mutex,
`Store` one of the CLI inside it, in any order, since the compiler may reorder
them between two calls. `Wait` releases the mutex, `Signal` wakes a thread that
waits and is lost otherwise, `SpuriousWake` is what POSIX allows. Packets of
`pkt_array` are handed over by pointer, packets from a file or a line share one
buffer, which `Command` blanks and `Fill` fills before the mutex is taken.
Lengths and modules are named by the packet they belong to.

### HashMap

`table[b]` is the list of bucket `b` from its head, without the sentinel; `made`
are the buckets whose list has been allocated, which never go back to null.
`MayRemove` is what callers owe to `hash_map_remove`: the bucket's list must not
have been emptied; every caller in `src/src` has just found the key it removes.
The comparator is equality. The counter behind `hash_map_size`, which only adds
and subtracts one, is not kept. A walk is split into its callbacks, which may remove
the entry they are given (`del_dev_attr_hash`, `hash_del_fmt`). `Contents` is
the refinement mapping: the table seen as a function.

### G1Packet

A packet is its control byte, size and length byte, and what is looked up for
it. Offsets and differences are numbers modulo `ULong`; offsets below the header
stand for null pointers. A packet of one byte is shorter than its header: the
length left for the address wraps (g1.c:122), so the packet passes for long
enough. `Parse` lists the tests in the order of the code, and
the first that fails decides. Reading a third address through a null pointer
stops the program (`Crashes`). Function switch and mode may change between any
two steps, since they are read outside the lock.

### LineEditor

`line` is the buffer `cmd` cell by cell with `l` and `cursor`; a character is a
member of a small set, in which only the blank, the question mark and IAC stand
out. `Reach(k)` says how the key `k` comes out of the bytes: past the telnet
negotiation, and either as itself or as the end of an escape sequence;
`Swallow` are the bytes that are no key. There is one action per key.
`ErasedBack(e, n)` is the loop that takes back `n` characters, in closed form:
inside the line it moves the rest down, at the end it puts zeros, and within one
call it does one of the two. `MaxLine > 3` says that a line which is not `long`
has room for one more character; the program's buffer has 4096. What a
command does is open: it may change the mode or end the session. Accesses
outside the buffer or the history set `outside`, after which nothing more is
said. `long` and `ragged` are history variables and stand in no guard: the line
was longer than a third of the buffer, text and length may have parted. The
states of logging in and of passwords cannot be reached, since the program
registers no users.

### Commands

Names and lines are sequences of characters because the lookup is about which
one begins another. `unique[c]` is `unique_len`; it is recomputed when the mode
changes and is *not* that of the mode for a command under an invisible one.
`ParseLine` goes through the line character by character with the state of
`cli_parse_line` (the words, the word that has begun, the quotation mark it is
in); a line that begins with a bar has an empty first word before it;
`FindCommand` says of which command every word of its path is the one `Chosen`
among its siblings, which is what the recursion of `cli_find_command`
descends to. `RunCommand` is the whole of `cli_run_command`: the words, the command, the
filters (`Refused` before one is made, `NoFilter` when it cannot be made), the
callback, what the command prints going through the filters, and what stays in
`cli->filters`. `last` records the last line for the properties. `Means` and
`Through` are the reference: an abbreviation that no other visible command
shares, and a filter as a predicate on a whole output, where the program has a
walk over the line, lengths kept by hand, and one line at a time through the
chain. `WordsOf` is the reference for lines without quotation marks. For an empty word,
which a leading bar or an empty quotation gives, the program looks at the
character before it (cli.c:716) to see whether it asks for help; the model
says that it does not. No command's name is empty, so none runs either way. A
command may have neither a callback nor subcommands ("No callback for",
cli.c:755-762); every command of cli_main.c has one of the two, so the run adds
one that has not.

### Expression and RuleEngine

A text is a sequence of tokens. `ReadToken` is one turn of `expr_create` with
the flags that say what may follow, `Push`, `Close` and `Finish` bind operators,
`Eval` evaluates. `Meaning` is the reference: it splits a text at its loosest
operator and uses no stack. `RuleEngine` has one device; `Packet` stores the
slices, renders those that changed and whose topic is registered, builds the
text in an order of the hash map and takes the verdict.

A value is a string of bytes in a buffer of `MaxLen`. `UptDevAttr` keeps what the
code does with a slice: as many bytes as it has are compared and copied, what is
behind them in the buffer stays, and the length is taken over even if nothing
differed. `NumToString` is what is written into the text: bytes are a number if
there are 1, 2 or 4 of them, and 0 otherwise (attr.c:20-26). The decimal digits
stand as the number they denote, which the evaluator, computing with floats, reads
exactly up to 2^24. `shown` is a history variable: the length of the bytes the
rendering was made of, or 0. Slices fit into the buffer. The program has one
rule; the model takes each of a set, the program's own first. The evaluator and
what a rule means are the constants `Evaluated` and `Satisfied`, which the run
gives the values `Expression!Result` and `Meaning`; `TextUnderstood` is what the
rule engine needs of them.

### Provisioning

`Forward` is a packet that cannot be parsed on its way to the server, `Answer`
the six messages of `rcv_edge_msg` (three and one for each of `Tokens`),
`ReceiveAnswer` and `Apply` what the gateway makes of each. Every message is
published by a client of its own over a connection of its own (mqtt.c:32-45), so
nothing orders one after another: what is under way is a bag, from which any
message may be taken next, or lost. `Sent` puts a description into it, at most
`MaxCopies` of each message; two copies do what a third would do. A format is the
set of its tokens, since those of the server never overlap. `missed` is a history
variable: the tokens whose last description was lost, or came while one of their
format was still under way, so that it was dropped or will be wiped. Packets of
devices that are understood change nothing.

## 3. What the runs show

| run | instance | shows |
|---|---|---|
| `format` | 3 topics, offsets and lengths below 6, sizes 0, 4, 5; 1 281 states | `LayoutOK`, `AcceptsExactly` (first fit refuses exactly what overlaps, overruns or repeats a topic it meets) |
| `catalogue` | 2 products and product 0, 2 keys, 2 topics, at most 3 references; several products with one format of 2 bytes each, or one with a format of 3 bytes under each key; 119 000 states | `AttrRefsAccounted`, `PdtRefsExact`, `TypeStable` |
| `devices` | 3 devices without values in the raw mode, or 1 with a value in the others; age interval 2, sweep gap 1, report interval 1, lag 1, 6 seconds; 99 000 states | `AgeListExact`, `AgeListSorted`, `SweepExact`, `SilenceBounded`, `ReportsCurrent`, `ReportBounded` |
| `session` | reliable link with delay up to 1 round, and a lossy one with a server switched on and off; intervals 1, 2, numbers 2, 3, one change of a setting; 56 000 states | `SilenceDetected`, `NoFalseAlarm`, `ComesOnline`, `GoesOffline`, `FunctionFollows` |
| `mailbox` | 2 packets by pointer, 1 in the buffer, 3 handed over; 420 000 states | `OnceInOrder`, `SignalledIntact`, `HeardIsProcessed` |
| `hash_map` | 3 keys in 2 buckets, 2 values; 27 000 states | `ImplementsMap` (refinement), `WalkComplete` |
| `g1_packet` | all 64 control bytes of type 0, those of type 1 and illegal ones, 11 sizes; 163 000 states | `PayloadInside`, `UnknownIsForwarded` |
| `editor` | buffer of 6 characters, history of 2 lines, 4 characters, 1 completion; 245 000 states | `LineIsString`, `StaysInside`, `HelpRestores` |
| `commands` | 21 commands in 4 modes and three levels, one of them with neither callback nor subcommands; every abbreviation, lines of two and three words, leading bars, quotations, one and two filters of 12 texts; 3 outputs; 59 000 states | `RunsWhatIsMeant`, `OutputFiltered`, `CompletionIsMeant`, `FiltersRemoved` |
| `rule_engine` | 3 attributes in 3 packet formats, one of them with 2 or with 3 bytes, bytes of 2 values, 5 rules, 2 orders, 1 topic that may be unregistered, 2 seconds; 42 000 states | `TextUnderstood`, `VerdictOfValues`, `NewsJudged` |
| `provisioning` | 2 devices of one product, 2 tokens, a packet of each device and 2 copies of each message under way, in any order, any lost; 153 000 states | `TokensCome`, `EventuallyParsed` |
| `string_token` | 1 device, periodic mode | violated: a string attribute stops the program |

`TypeOK` is checked as well where it says more than the declarations do.

Why the bounds are enough. A topic can be held twice only by a list that has
room for three tokens, which the sizes 3, 4 and 5 give. A payload of 5 bytes
holds every relation two slices can have (before, touching, overlapping at
either end, containing, equal) with room for a third between them. Two
products that share an attribute and one reference more than one product needs
show any disagreement of the counters; the third reference of `catalogue` is what a topic held
twice needs, which takes a token behind and one in between. Three devices give a sweep that
removes none, some and all, with one between two others. The clocks run for
several intervals, and every phase between sweep, report and packet occurs
because each second is a separate step. `SYMMETRY` permutes devices, keys or
topics, which no definition tells apart.

Intervals 1 and 2 give a hello in every round and in every other one, so a
message meets both phases; numbers 2 and 3 give an edge with one and with two
hellos to spare, and silence is counted to 6, the largest product.
A delay of one round lets an answer arrive after the next hello.
Three packets give a mailbox that is full, cleared and overwritten, with one
packet waiting in the buffer. Two keys in a bucket and one in the other give a
list with a first, a last and no entry. `ULong` is 65536 in the run: sizes are
far below it, and a difference that wraps is far above every size.

A buffer of 6 characters has every place a key can act at: the first, the last
that counts, the one before, and the terminator; lines of up to 2 are a third of
it, so both sides of that limit occur. A history of 2 is empty, partly filled,
full and shifted. The command table keeps those names that share beginnings:
within a mode, with commands of any mode, and across modes. Two filters give
each pair of kinds, and a first one that is left when the second is refused.
Three levels are those of the program's deepest commands (packet recv built-in).
Bytes of two values and values of up to three bytes give what the code tells
apart: a number, none, and a value that comes back shorter or longer with the
bytes it shares unchanged.
Two orders put the unrendered attribute first and last. The five rules use every
operator of the model, equal ones in a row, and assignments within assignments.
Two devices of one product give the description that wipes the tokens of the
other one, and two copies of a message give two descriptions under way at once.

Readings that need a word. `NoFalseAlarm` says when an answer is in time: less
than `timeout_num - 1` intervals, not `timeout_num`, because the hello sent in
the very round of the comparison counts as unanswered; with `<=` in its place
the run fails. It and `SilenceDetected` are stated while the settings stand.
`SilenceDetected` needs no assumption on the link: it counts from the last
message that arrived. `OnceInOrder` holds even with spurious wake-ups;
`SignalledIntact` needs the signal, and leaves out packets of the shared buffer. `SilenceBounded` is the age interval plus one sweep
gap plus one lag: with the program's values 1200 + 60 + the time of a round. It
is stated for lags below the age interval. `ReportBounded` has two lags, because
the first round only starts the timer. `ReportsCurrent` names its exception: a
change in the very second of the report stays unsent until the next change,
since `report_ts` takes the time of the change.
`ReportBounded` counts from the change or from the moment the periodic mode was
set, whichever is later. `LineIsString` says `ragged` for what it excepts, and
`StaysInside` is an implication: with the sizes of the program, a line of up to
1365 characters is safe, a longer one is not. `PayloadInside` and `UnknownIsForwarded` name the
packet of one byte: it is taken for one whose payload lies outside, and is
forwarded. `VerdictOfValues` names three kinds of values that are not in the text
as the numbers they are: of a length other than 1, 2 or 4; unregistered, or all
ones at first; and different only in length from what they replace. `TokensCome`
names the tokens in `missed`: nobody repairs them, see section 5.

Deadlock is checked in every run: no run stops. The periodic round is always
possible while the program runs, and a crashed or corrupt program stutters
(`Halted`). In `Mailbox` a waiting thread may always wake, in `Session` the
server may always send, in `Provisioning` a device may always send a packet, and
`LineEditor` and `Commands` always take the next key or connection.

Fairness. `Session` states liveness under `FairSpec`: weak fairness of `Round`,
since `mosquitto_loop(mosq, 1000, 1)` returns at least once a second while the
connection stands and the thread does nothing else; strong fairness of the
server's handling of hellos and of the receipt of each message, which says that
the link, though it loses messages, does not lose all of a kind that is sent
again and again, and that `mosquitto_loop_forever` reconnects the server. There
is no fairness for the operator or for the loss. `Provisioning` assumes weak
fairness of the packets of a device that is not understood (it keeps sending),
and strong fairness of the server's answer and of the receipt of the messages
that describe product, device and format, with the same justification; nothing is
assumed of the tokens. The properties are stated for
an edge that stays connected, since nothing in the code reconnects it. In
`Devices` what must eventually happen is stated as a bound on clock seconds
(`SilenceBounded`, `ReportBounded`), which is stronger and needs `MaxLag` instead
of fairness.

## 4. What is proved

TLAPS checks the following for every value of the constants that satisfies the
named assumptions of the modules. The assumptions say that constants are numbers
of the right sign, that sets of topics, products and keys are finite or are what
they are declared to be, that `ULong` is wider than `Wire`, and what the table
of commands is like; TLC evaluates them in the runs. Each inductive invariant is
a conjunction of named parts, and that an action preserves it is a lemma or a
step of its own.

**Formats** (`CatalogProofs`). `FormatLayoutCorrect`: `LayoutOK` is inductive
together with the types of the tokens (`TokensTyped`). By the type invariant and
`ULong >= 2 * Wire` no sum wraps (`NoWrap`); a token goes into a gap, so each
neighbour stays on its side, and the order of the list carries this to all other
tokens (`AddKeepsLayout`); a deletion leaves a subsequence (`DelKeepsLayout`).
`FormatAcceptsExactly`: from `LayoutOK`. What is accepted lies between two
neighbours, hence apart from all (`FitsSeparates`, `AcceptedIsFree`); and where a
slice that touches nobody has its place, the walk stops and accepts
(`FreeIsAccepted`).

**Catalogue** (`CatalogProofs`). `CatalogTypeCorrect`, `RefsAreAccounted`,
`PdtRefsAreExact`: `Inv` is `TypeOK`, `AttrRefsAccounted`, `PdtRefsExact` and
`NothingLeft`, that a product which is not there left no orphaned tokens: without
it a product added again would start with a wrong count. Both sums are
`SumFunction` of the community modules, a fold; `SumUpdate` of `ListLemmas` says
what happens to it when one term changes, and the proofs of the actions say which
term. Deleting a product is the one action that changes many counters at once.
`TypesAreStable` is an action property, proved beside the invariant action by
action: a type is written only where no reference was counted.

**Devices** (`DevicesProofs`). `DevicesTypeCorrect`, `AgeListIsExact`,
`AgeListIsSorted` are the three parts of `Inv`. The type invariant carries the
fact that no stamp lies in the future; with it, whoever goes to the end of the
list is at least as young as all others, which keeps the list sorted; exactness
is needed to know that the device taken out of the list leaves no second copy.
`Ages` states list, set and stamps in one formula, and three lemmas say what
appending, removing and cutting do to it.
`SweepIsExact`: the walk stops at the first device that is not expired
(`SweepLengthStops`, by the least element of a set of numbers); sortedness gives
that every later device is not expired either.
`SilenceIsBounded`, `ReportsAreCurrent`, `ReportIsBounded` rest on the larger
`Bounds`: `LoopTimes` bounds the time between the last round and the last sweep
or report, `DevTimes` says of each device what the last sweep would have removed
and what the last report has sent. Neither property is inductive: they speak of
`now`, and only the stamps of the two timers say how far `now` may have come.

**Session** (`LinkProofs`). `SessionTypeCorrect`, `SilenceIsDetected`,
`NoAlarmIsFalse`: silence is at most the hellos counted times the interval, plus
the rounds since the last one (`CountBounds`); and while nothing is lost the first
unanswered hello, or the answer to it, is still under way and as old as the
hellos since (`HelloUnderWay`), so an edge that gives up has been waiting longer
than `Delay`. The arithmetic is about `tick % helloInterval` (`RemainderNext`).

**Packets to the server** (`PacketProofs`).
`PayloadIsInside`, `UnknownDevicesAreForwarded`: for every control byte, every
length byte, every width of the numbers and every size but one, each difference
of lengths is taken where it does not wrap (`NoBorrow`, `AddressBounds`). The one
is the packet of a single byte: there the first difference is the largest number
there is (`Borrow`), the address fits it (`OneByte`), and both statements say what
then happens. A packet on its way back was judged by the tests in their order
(`G1Inv`).

**Provisioning** (`LinkProofs`). `TokensAreComing`, for messages that come in any
order or not at all: `TokensCome` needs to know the same of the formats that are
still under way, that each token they would wipe is under way as well or is
among the missed (`FormatsAnnounced`). A message taken from the bag leaves the
others there, and a description only adds (`OthersStay`).

**Mailbox** (`PacketProofs`). `ProcessedOnceInOrder`, `SignalledIsIntact`,
`HeardIsAlwaysProcessed`: the numbers of the slot are at most those handed over
(`Numbers`), an application that has cleared the pointer finds nothing it has
seen (`Fresh`), and while it waits or wakes nobody but the CLI touches the slot
(`StoresStay`, `SlotIntact`). That the three clearing stores are outside the mutex
does not matter for this, because the application makes none while it waits.

**Hash map** (`HashMapProofs`). `HashMapIsAMap`: the initial state maps to the
initial state of `Map`, every step to a step or a stutter, by the contents of one
list before and after the operation; `TableOK` (no key twice, each in its bucket)
is what makes `Contents` a function of the table. `WalksAreComplete`: what was
visited and what is still ahead are the entries found at the start and do not
meet (`WalkSplit`); removing the entry a walk stands at takes it out of what is
ahead after it was noted as visited.

**Line editor** (`LineEditorProofs`). `LineEditorTypeCorrect`,
`TextAndLengthAgree`, `EditorStaysInside`: a line is a string unless it is
`ragged`, is followed by zeros and fills at most a third of the buffer unless it
is `long` (`LineGood`); the history holds only what fits and the operator stands
inside it (`Browsing`). The zeros behind the text are what `LineIsString` lacks
to be inductive: erasing moves them in, and typing at the end relies on them.
`HelpRestoresTheLine` is an action property on top of it.

**Rule engine** (`PacketProofs`). `NewsAreJudged`: `NewsJudged` is not inductive,
because a device may be skipped at one packet and changed at the next; the
invariant adds that a change which was not reported is younger than the last
one that was (`NewsPending`), and that no stamp lies in the future (`RuleTypes`).
It holds whatever the evaluator does. `VerdictsAreOfNumbers`, which has no
hypothesis either: while every value is shown, a verdict is the evaluator's on the
text that assigns to each attribute the number its bytes denote. What was rendered
is the beginning of the buffer of the length it was rendered with
(`StringsAgree`, from `CopiedFirst`: a slice is the beginning of the buffer it was
copied into), and a verdict stays that of the text of the attributes as they are
(`OutcomeOfText`), since whatever changes them takes a new verdict or none. That
the evaluator makes of such a text what the rule says is `TextUnderstood`, which
the run checks and which is not provable here, see below; the corollary
`VerdictsAreOfValues` puts the two together.

**Commands** (`CommandsProofs`). The assumptions are about the table: a command
stands behind the one it belongs to and in its mode, has no callback if it has
subcommands, its name holds no question mark and no bar, of the commands that can meet in one place none begins the name of
another (those of cli_main.c:657-725 and the four of cli.c:496-501 do not), and
nesting is less deep than a line may have words (2 against 127). Without the
assumption on beginnings the length kept for a name that begins another is more than the
name has.

`CommandsTypeCorrect`: `Inv` adds to the types that filters in place have not begun
to match or count (`FiltersFresh`) and that while a connection is open the length
kept for a visible command is the one that tells it from the other visible ones
(`UniqueCurrent`). The latter is what the lookup needs: `SetModeStep` shows that the
recomputation restores it, although it leaves out what is under an invisible
command, because such a command is not visible either (`PathVisible`).
`WhatIsMeantRuns` and `TabOffersWhatIsMeant`: the words read are those of the line, cut
at 127 (`ParseBegins`: an invariant over the characters read so far); a length that
is reached means that no other visible command can be meant (`TellingMeans`,
`OneMeaning`), so the command chosen by the walk over the siblings is the only
candidate (`ChosenIsSole`, `TakenIsSole`); a line that begins with a bar has an
empty first word, which is no command, and means none, because no name is a bar
(`ParseLeads`, `BarIsFirst`, `FoundBehindBar`); and a path is determined by its words
(`SameCommand`, `FoundIsMeant`, `UnderWords`).
`OutputIsFiltered`: the program sends each line through the chain, the property sends
the whole output through one filter after the other. The link is what a filter has
become after the lines it has met (`Met`); after one more line each filter has met
one more line or none (`MetNext`), and the output through the chain grows by that
line or not at all (`ThroughNext`, `PrintedNext`). The induction over the lines is
`PrintedAll`, and counts follow (`CountsAre`).
`NoFilterOutlives` is an action property on `Inv`: the loop that removes the filters is
passed in every case but the early return (`RunRemoves`).

Recursion in this module is over numbers, by recursive functions. The library's
theorem that such a function exists takes an operator and cannot be instantiated here;
`WalkExists` proves it again from the existence of its beginnings (`HasWalk`), with
`StepInduction`, induction over a set of numbers, in place of induction over a
predicate.

Not proved, only model-checked:

* liveness (`ComesOnline`, `GoesOffline`, `FunctionFollows` of `Session`,
  `EventuallyParsed`): the prover has no fairness and no `ENABLED`;
* `TextUnderstood` of `RuleEngine`: that the evaluator's two stacks give the
  meaning of every text is an induction over trees, and `Read`, `Push`, `Close`, `Finish`,
  `Eval` and `Meaning` are recursive operators, about which no backend can reason.

## 5. Disagreements between code and documentation

* `string_token`: the interface and `g_attr_str` offer the attribute type 1
  (String), whose operations are null (attr.c:49); the first changed value of
  such an attribute calls a null pointer (dev.c:68, 94).

Seen while modelling, without a run of their own.

Library: `del_pdt` (pdt.c:126) walks the devices of the product with an empty
body, so they stay with a pointer to freed memory (`Freed` in `Devices`). Without a second
address the third is placed at null (g1.c:101) and printed from there
(g1.c:145-147, `G1Packet!Crashes`). A packet handed over while the application
does not wait is lost (main.c:87-92; `HeardIsProcessed` says what is not lost).
The removal of an absent key from an emptied bucket reads a null node, against
hash_map.h:98-99, which no caller does (`MayRemove`). `str_cmp` (hash_map.h:153)
compares a prefix only, which identities of one length do not notice. The status
of an undecodable packet is 0 (g1.h:8), taken for success at g1.c:220 while the
log says it is dropped (g1.c:124). A packet of one byte passes the test of its
length, because the difference at g1.c:122 wraps: it is forwarded to the server if
its address is unknown, and read behind its end otherwise.

Line editor: ^Z empties the text but not its length and cursor (cli.c:1046, 1513).
Redrawing writes three characters per character into the line's own buffer of
4096 (cli.c:1038-1044). A character inserted next to the rim leaves one behind
that is not counted (cli.c:1718), and a full line has no terminator (cli.c:1700).
Down without a history moves the index on for ever, and Up then reads behind the
table (cli.c:1600).

Commands: a refused filter leaves those before it installed (cli.c:811, 834, 840).
A question mark behind a command that takes arguments runs the command. Names
of filters are never completed, because the word compared with them is the bar
(cli.c:977-991). A quotation mark inside a word drops what precedes it. A line
with an empty quotation, or one that begins with a bar, looks at the character
before the word (cli.c:716).

Rule engine: one attribute that was never rendered makes the whole text a syntax
error, so no rule is judged. That is one whose topic was not registered when its
value came, or whose first value is all ones. A value of 3 bytes or of more than 4
is written as 0 (attr.c:20-26), and one that differs from the one before only in
length keeps that one's text (dev.c:88-89). In the immediate mode nothing moves
`report_ts`, so every packet is judged and sends again. The packet of a rule that
holds goes to one fixed address (dev.c:347). The text is limited to 512 bytes
without a check (dev.c:25, 339), is printed into itself (dev.c:339), and a Lua
state is left behind at every judgement (dev.c:414-415).

Provisioning: a second description wipes the tokens of the format and brings them
again. A token whose description is lost after the format came is never
repaired, because the gateway then understands the device and asks no more. The
same happens without any loss to a token that overtakes the format it belongs to:
it is dropped (g1_fmt.c:100-102) or wiped by it (g1_fmt.c:158).

## 6. Plan

What is left, in this order:

1. The evaluator with recursive functions over the places of a text, and
   `TextUnderstood` proved for texts of assignments and one comparison.
2. `Gateway`: `Catalog` and `Devices` together, so that slices come from formats
   and attribute kinds from the table, and a redefined token meets an older
   stored value.
3. `Provisioning` with an operator who deletes products and devices meanwhile.
4. A clock that is stepped back, as a variant of `Devices` that states what
   still holds.

## 7. Not modelled

The packet sent to a device when the rule holds, the Lua function (which only
writes a line of log), formatting of JSON and of printed tables, hex conversion,
the packet record file, MAC discovery and MQTT framing are output. Of the telnet
library: logging in, passwords and the enabled state (no user is registered),
privileges (all commands have none), unregistering, regular callbacks and
commands from a file (no caller). Of the evaluator: functions and macros (none is
registered or defined), floating point and bit operators. cJSON and MD5 are pure
functions of third parties. A clock that is stepped back is excluded by `Tick`;
see the hazards. `hash_map_free` runs only on a map whose owner is about to be
freed.
