------------------------------ MODULE Session -------------------------------
(***************************************************************************)
(* The session between the edge library (src/src/mgt.c) and its server     *)
(* (src/srv/srv_main.c): hello, acknowledge, the count of unanswered       *)
(* hellos, the online state and the function switch.                       *)
(*                                                                         *)
(* The management thread receives messages inside mosquitto_loop and does  *)
(* its periodic round when that returns 0, so a message and a round are    *)
(* steps of one thread.  The server handles a hello in its own thread, the *)
(* operator's commands run in the CLI thread and take no lock.             *)
(*                                                                         *)
(* Messages are published with quality of service 0, each over a           *)
(* connection of its own: they may overtake each other and get lost.  A    *)
(* behaviour may also be reliable: then nothing is lost, the server stays  *)
(* on, and a hello and its answer take at most Delay rounds together.      *)
(* Memory for a hello is taken to be available.                            *)
(***************************************************************************)
EXTENDS Integers

CONSTANTS
  Intervals,   \* values of hello_interval; 240 at the start
  Numbers,     \* values of timeout_num; 3 at the start
  Period,      \* a common multiple of Intervals: tick is counted modulo Period
  Delay,       \* rounds a hello and its answer may take in a reliable behaviour
  MaxChanges,  \* bound of the model: changes of hello_interval and timeout_num
  MaxSilent    \* bound of the model: silent is counted up to here

VARIABLES
  status,        \* g_edge_mgt_ctl.status
  function,      \* g_edge_mgt_ctl.function
  scenario,      \* g_edge_mgt_ctl.scenerio_id: 0 until the first acknowledge
  helloInterval, \* g_edge_mgt_ctl.hello_interval
  timeoutNum,    \* g_edge_mgt_ctl.timeout_num
  timeout,       \* g_edge_mgt_stat.timeout: hellos since the last message
  tick,          \* tick of do_mgt_periodic
  connected,     \* the management thread's connection to the broker
  srvOn,         \* client_ctl.status of the server
  srvFunction,   \* client_ctl.function of the server
  reliable,      \* do all messages arrive in time? (assumption, never changed)
  up,            \* hellos under way, each as its age in rounds
  down,          \* messages under way to the edge
  silent,        \* rounds since the last message of an online edge (history)
  changes        \* changes of settings so far (bound of the model)

edge == <<status, function, scenario, timeout, tick, silent>>
settings == <<helloInterval, timeoutNum, changes>>
server == <<srvOn, srvFunction>>
vars == <<edge, settings, server, connected, reliable, up, down>>

ASSUME SessionAssumption ==
  /\ Intervals \subseteq Nat \ {0} /\ Intervals # {}
  /\ Numbers \subseteq Nat \ {0} /\ Numbers # {}
  /\ Period \in Nat \ {0} /\ \A h \in Intervals : Period % h = 0
  /\ Delay \in Nat /\ MaxChanges \in Nat /\ MaxSilent \in Nat

Functions == {"OFF", "ON"}
Statuses == {"OFFLINE", "ONLINE"}
SrvScenario == 15
Ages == 0 .. Delay
Messages == [type : {"ACK"}, function : Functions, age : Ages]
              \cup [type : {"OTHER"}, age : Ages]
-----------------------------------------------------------------------------
Init ==
  /\ status = "OFFLINE" /\ function = "ON" /\ scenario = 0
  /\ helloInterval \in Intervals /\ timeoutNum \in Numbers
  /\ timeout = 0 /\ tick = 0 /\ silent = 0 /\ changes = 0
  /\ connected = TRUE /\ reliable \in BOOLEAN
  /\ srvOn = TRUE /\ srvFunction = "ON"
  /\ up = {} /\ down = {}

\* One more round under way; ages count only where there is a limit.
Older(a) == IF reliable THEN a + 1 ELSE 0

\* Mutant: only an edge that is online sends hellos.
HelloDueOnline == status = "ONLINE" /\ tick % helloInterval = 0

\* A hello goes out in every helloInterval-th round.
HelloDue == tick % helloInterval = 0

\* Mutant: the count starts anew with each hello.
CountedAnew == IF HelloDue /\ status = "ONLINE" THEN 1 ELSE timeout

\* mgt_send_hello_msg counts the hello at once, while the edge is online.
Counted == IF HelloDue /\ status = "ONLINE" THEN timeout + 1 ELSE timeout

\* Mutant: one hello more.
GivesUpLate == status = "ONLINE" /\ Counted > timeoutNum

\* The comparison of do_mgt_periodic, after the hello of the same round.
GivesUp == status = "ONLINE" /\ Counted >= timeoutNum

\* do_mgt_periodic, up to the ageing and the reports (module Devices).
Round ==
  /\ connected
  /\ reliable => \A a \in up \cup {m.age : m \in down} : a < Delay
  /\ up' = {Older(a) : a \in up} \cup (IF HelloDue THEN {0} ELSE {})
  /\ down' = {[m EXCEPT !.age = Older(@)] : m \in down}
  /\ timeout' = Counted
  /\ status' = IF GivesUp THEN "OFFLINE" ELSE status
  /\ tick' = (tick + 1) % Period
  /\ silent' = IF status' # "ONLINE" THEN 0
               ELSE IF silent < MaxSilent THEN silent + 1 ELSE MaxSilent
  /\ UNCHANGED <<function, scenario, settings, connected, reliable, server>>

\* Mutant: only an edge that was offline takes the function switch.
FunctionOfFirst(m) == IF status = "ONLINE" THEN function ELSE m.function

\* The function switch is taken from every acknowledge.
FunctionOf(m) == m.function

\* Mutant: only an edge that was offline starts the count anew.
TimeoutResetOffline == IF status = "ONLINE" THEN timeout ELSE 0

\* Any message starts the count of hellos anew.
TimeoutReset == 0

\* Mutant: the status is read from the wrong field of the acknowledge.
ReceiveSwapped(m) ==
  /\ connected
  /\ m \in down
  /\ down' = down \ {m}
  /\ timeout' = TimeoutReset
  /\ silent' = 0
  /\ \/ /\ m.type = "ACK"
        /\ scenario' = SrvScenario
        /\ status' = m.function
        /\ function' = m.function
     \/ /\ m.type = "OTHER"
        /\ UNCHANGED <<scenario, status, function>>
  /\ UNCHANGED <<tick, settings, connected, reliable, server, up>>

\* mgt_rcv_msg: what else a message of another type changes is in Catalog and
\* Devices.
Receive(m) ==
  /\ connected
  /\ m \in down
  /\ down' = down \ {m}
  /\ timeout' = TimeoutReset
  /\ silent' = 0
  /\ \/ /\ m.type = "ACK"
        /\ scenario' = SrvScenario
        /\ status' = "ONLINE"
        /\ function' = FunctionOf(m)
     \/ /\ m.type = "OTHER"
        /\ UNCHANGED <<scenario, status, function>>
  /\ UNCHANGED <<tick, settings, connected, reliable, server, up>>

\* Nothing reconnects: mosquitto_loop fails from now on, and a hello that is
\* being published waits for ever.
Disconnect ==
  /\ connected
  /\ connected' = FALSE
  /\ UNCHANGED <<edge, settings, server, reliable, up, down>>

\* rcv_edge_msg: a hello is answered while the server is on, and else dropped.
SrvHello(a) ==
  /\ a \in up
  /\ up' = up \ {a}
  /\ down' = IF srvOn
             THEN down \cup {[type |-> "ACK", function |-> srvFunction, age |-> a]}
             ELSE down
  /\ UNCHANGED <<edge, settings, server, connected, reliable>>

\* A server command of the operator, sent even while the server is off.
SrvCommand ==
  /\ down' = down \cup {[type |-> "OTHER", age |-> 0]}
  /\ UNCHANGED <<edge, settings, server, connected, reliable, up>>

\* cmd_edge_online, cmd_edge_offline.
SrvStatusSwitch ==
  /\ ~ reliable
  /\ srvOn' \in BOOLEAN
  /\ UNCHANGED <<edge, settings, connected, reliable, srvFunction, up, down>>

\* cmd_edge_on, cmd_edge_off.
SrvFunctionSwitch ==
  /\ srvFunction' \in Functions
  /\ UNCHANGED <<edge, settings, connected, reliable, srvOn, up, down>>

\* cmd_edge_hello, cmd_edge_timeout.
SetSetting ==
  /\ changes < MaxChanges
  /\ changes' = changes + 1
  /\ \/ helloInterval' \in Intervals /\ UNCHANGED timeoutNum
     \/ timeoutNum' \in Numbers /\ UNCHANGED helloInterval
  /\ UNCHANGED <<edge, server, connected, reliable, up, down>>

Lose ==
  /\ ~ reliable
  /\ \/ \E a \in up : up' = up \ {a} /\ UNCHANGED down
     \/ \E m \in down : down' = down \ {m} /\ UNCHANGED up
  /\ UNCHANGED <<edge, settings, server, connected, reliable>>

Next ==
  \/ Round \/ Disconnect \/ SrvCommand
  \/ SrvStatusSwitch \/ SrvFunctionSwitch \/ SetSetting \/ Lose
  \/ \E m \in down : Receive(m)
  \/ \E a \in up : SrvHello(a)

Spec == Init /\ [][Next]_vars

\* The loop of the management thread goes on while it is connected; the
\* server's thread reconnects and serves; the link is fair: what is sent
\* again and again gets through again and again.
FairSpec ==
  /\ Spec
  /\ WF_vars(Round)
  /\ SF_vars(\E a \in up : SrvHello(a))
  /\ \A m \in Messages : SF_vars(Receive(m))
-----------------------------------------------------------------------------
TypeOK ==
  /\ status \in Statuses /\ function \in Functions
  /\ scenario \in {0, SrvScenario}
  /\ helloInterval \in Intervals /\ timeoutNum \in Numbers
  /\ timeout \in Nat /\ tick \in 0 .. Period - 1
  /\ silent \in 0 .. MaxSilent /\ changes \in 0 .. MaxChanges
  /\ connected \in BOOLEAN /\ reliable \in BOOLEAN
  /\ srvOn \in BOOLEAN /\ srvFunction \in Functions
  /\ up \subseteq Ages /\ down \subseteq Messages

\* While the settings stand, an edge that hears nothing is offline after
\* timeout_num hello intervals at the latest: the two counters tick and
\* timeout of do_mgt_periodic (mgt.c:196-203, 57) bound the silence together,
\* at whatever phase of the interval the last message came.
SilenceDetected ==
  changes = 0 /\ status = "ONLINE" => silent < timeoutNum * helloInterval

\* An edge whose messages arrive in time never goes offline.  In time is less
\* than timeout_num - 1 intervals: the hello that was sent in this very round
\* counts as unanswered (mgt.c:57, 199).
NoFalseAlarm ==
  [][reliable /\ changes = 0
       /\ Delay < (timeoutNum - 1) * helloInterval
     => ~ (status = "ONLINE" /\ status' = "OFFLINE")]_vars

\* A server that is reachable for ever is noticed again and again, whatever
\* was lost before (mgt.c:196, srv_main.c:218-244).
ComesOnline == <>[](connected /\ srvOn) => []<>(status = "ONLINE")

\* When no message is under way to the edge any more, it goes offline for good.
GoesOffline == <>[](connected /\ down = {}) => <>[](status = "OFFLINE")

\* The function switch of the server gets through, although an acknowledge
\* with the old one may overtake an acknowledge with the new one (mgt.c:111).
FunctionFollows ==
  \A f \in Functions :
    <>[](connected /\ srvOn /\ srvFunction = f) => <>[](function = f)
=============================================================================
