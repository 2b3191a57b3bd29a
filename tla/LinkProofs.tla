----------------------------- MODULE LinkProofs -----------------------------
(***************************************************************************)
(* Theorems about what passes between the edge library and its server.     *)
(*                                                                         *)
(* The session, for every hello interval and every number of tolerated     *)
(* hellos: silence is noticed within timeout_num intervals, and an edge    *)
(* whose messages arrive in time never goes offline.  Both rest on what    *)
(* tick and timeout say together: how long ago the last hello went out,    *)
(* and how many went out since the last message.                           *)
(*                                                                         *)
(* The description of unknown devices: for any number of devices, products *)
(* and tokens, and in whatever order the messages come, a format gets all  *)
(* the tokens that are neither lost nor ahead of it.                       *)
(***************************************************************************)
EXTENDS Session, Provisioning, ListLemmas

(* The remainder of the next number.                                       *)
LEMMA RemainderNext ==
  ASSUME NEW h \in Nat \ {0}, NEW n \in Nat
  PROVE  (n + 1) % h = IF n % h = h - 1 THEN 0 ELSE (n % h) + 1
<1> DEFINE q == n \div h
           p == (n + 1) \div h
           r == n % h
           s == (n + 1) % h
<1>1. n = h * q + r /\ q \in Nat /\ r \in 0 .. h - 1  BY DivMod
<1>2. n + 1 = h * p + s /\ p \in Nat /\ s \in 0 .. h - 1
  <2>1. n + 1 \in Nat  OBVIOUS
  <2> QED  BY <2>1, DivMod
<1> HIDE DEF p, q, r, s
<1>3. CASE r = h - 1
  <2>1. h * (q + 1) + 0 = h * p + s  BY <1>1, <1>2, <1>3
  <2>2. s = 0  BY <1>1, <1>2, <2>1, RemainderUnique
  <2> QED  BY <1>3, <2>2 DEF r, s
<1>4. CASE r # h - 1
  <2>1. h * q + (r + 1) = h * p + s /\ r + 1 \in 0 .. h - 1
    BY <1>1, <1>2, <1>4
  <2>2. s = r + 1  BY <1>1, <1>2, <2>1, RemainderUnique
  <2> QED  BY <1>4, <2>2 DEF r, s
<1> QED  BY <1>3, <1>4
-----------------------------------------------------------------------------
\* Rounds since the one that sent the last hello, that round included.
Phase(t, h) == IF t % h = 0 THEN h ELSE t % h

\* Everything under way in either direction, by age.
UnderWay == up \cup {m.age : m \in down}

\* Only the hellos since the last message and the rounds since the last hello
\* make up the silence.
CountBounds ==
  changes = 0 /\ status = "ONLINE" =>
    /\ timeout < timeoutNum
    /\ silent < timeout * helloInterval + Phase(tick, helloInterval)

\* While nothing is lost, the first unanswered hello, or the answer to it, is
\* under way.
HelloUnderWay ==
  reliable /\ changes = 0 /\ status = "ONLINE" /\ timeout > 0 =>
    \E a \in UnderWay :
      a >= (timeout - 1) * helloInterval + Phase(tick, helloInterval) - 1

\* A reliable server stays on.
ServerStays == reliable => srvOn

(* The inductive invariant.                                                *)
Inv == TypeOK /\ CountBounds /\ HelloUnderWay /\ ServerStays

(* The phase of a round: it grows by one, and starts anew with a hello.    *)
LEMMA PhaseNext ==
  ASSUME NEW h \in Intervals, NEW t \in 0 .. Period - 1
  PROVE  /\ Phase(t, h) \in 1 .. h
         /\ t % h = 0 <=> Phase(t, h) = h
         /\ Phase((t + 1) % Period, h) = IF t % h = 0 THEN 1 ELSE Phase(t, h) + 1
<1>1. h \in Nat \ {0} /\ Period \in Nat \ {0} /\ Period % h = 0 /\ t \in Nat
  BY SessionAssumption
<1>2. t % h \in 0 .. h - 1  BY <1>1, DivMod
<1>3. (t + 1) % h = IF t % h = h - 1 THEN 0 ELSE (t % h) + 1
  BY <1>1, RemainderNext
<1>4. ((t + 1) % Period) % h = (t + 1) % h
  <2>1. CASE t = Period - 1
    <3>1. t + 1 = Period /\ (t + 1) % Period = 0  BY <1>1, <2>1
    <3>2. 0 % h = 0  BY <1>1
    <3> QED  BY <1>1, <3>1, <3>2
  <2>2. CASE t # Period - 1
    <3>1. (t + 1) % Period = t + 1  BY <1>1, <2>2
    <3> QED  BY <3>1
  <2> QED  BY <2>1, <2>2
<1> QED  BY <1>1, <1>2, <1>3, <1>4 DEF Phase

(* The intervals and numbers are positive integers.                        *)
LEMMA SettingsPositive ==
  ASSUME TypeOK
  PROVE  /\ helloInterval \in Nat \ {0} /\ timeoutNum \in Nat \ {0}
         /\ tick \in Nat /\ tick % helloInterval \in Nat
         /\ Phase(tick, helloInterval) \in 1 .. helloInterval
<1>1. helloInterval \in Nat \ {0} /\ timeoutNum \in Nat \ {0}
      /\ Period \in Nat \ {0}
  BY SessionAssumption DEF TypeOK
<1>2. tick \in Nat /\ helloInterval \in Intervals /\ tick \in 0 .. Period - 1
  BY <1>1 DEF TypeOK
<1> QED  BY <1>1, <1>2, DivMod, PhaseNext

(* Whatever is under way is at most Delay rounds old.                      *)
LEMMA UnderWayAges ==
  ASSUME TypeOK
  PROVE  UnderWay \subseteq Ages /\ UnderWay \subseteq Nat
<1>1. \A a \in UnderWay : a \in Ages  BY DEF TypeOK, UnderWay, Messages
<1>2. Ages \subseteq Nat  BY SessionAssumption DEF Ages
<1> QED  BY <1>1, <1>2

(* At the start the edge is offline and nothing is under way.              *)
LEMMA InvInit ==
  ASSUME Init
  PROVE  Inv
<1>1. TypeOK
  BY SessionAssumption DEF Init, TypeOK, Statuses, Functions, Ages, Messages
<1>2. CountBounds /\ HelloUnderWay /\ ServerStays
  BY DEF Init, CountBounds, HelloUnderWay, ServerStays
<1> QED  BY <1>1, <1>2 DEF Inv
-----------------------------------------------------------------------------
(* A round keeps the types: only what is younger than Delay grows older in *)
(* a reliable behaviour.                                                   *)
LEMMA TypeRound ==
  ASSUME TypeOK, Round
  PROVE  TypeOK'
<1>1. Delay \in Nat /\ MaxSilent \in Nat /\ Period \in Nat \ {0}
  BY SessionAssumption
<1>2. \A a \in UnderWay : a \in Ages /\ Older(a) \in Ages
  <2>1. \A a \in UnderWay : a \in Ages  BY UnderWayAges
  <2>2. \A a \in UnderWay : reliable => a < Delay  BY DEF Round, UnderWay
  <2> QED  BY <1>1, <2>1, <2>2 DEF Older, Ages
<1>3. up' \subseteq Ages
  BY <1>1, <1>2 DEF Round, UnderWay, Ages
<1>4. down' \subseteq Messages
  <2> SUFFICES ASSUME NEW m \in down
               PROVE  [m EXCEPT !.age = Older(@)] \in Messages
    BY DEF Round
  <2>1. m \in Messages /\ Older(m.age) \in Ages  BY <1>2 DEF TypeOK, UnderWay
  <2> QED  BY <2>1 DEF Messages
<1>5. timeout' \in Nat /\ status' \in Statuses
  BY DEF TypeOK, Round, Counted, Statuses
<1>6. tick' \in 0 .. Period - 1
  BY <1>1, DivMod DEF TypeOK, Round
<1>7. silent' \in 0 .. MaxSilent
  BY <1>1 DEF TypeOK, Round
<1> QED  BY <1>3, <1>4, <1>5, <1>6, <1>7
         DEF TypeOK, Round, settings, server

(* A round keeps the bounds of the silence: a hello is counted when the    *)
(* phase starts anew.                                                      *)
LEMMA CountRound ==
  ASSUME Inv, Round
  PROVE  CountBounds'
<1> SUFFICES ASSUME changes = 0, status' = "ONLINE"
             PROVE  /\ timeout' < timeoutNum
                    /\ silent' < timeout' * helloInterval
                                   + Phase(tick', helloInterval)
  BY DEF Round, settings, CountBounds
<1> DEFINE h == helloInterval
           f == Phase(tick, h)
<1>1. h \in Nat \ {0} /\ timeoutNum \in Nat \ {0} /\ f \in 1 .. h
  BY SettingsPositive DEF Inv
<1>2. timeout \in Nat /\ silent \in Nat /\ MaxSilent \in Nat
  BY SessionAssumption DEF Inv, TypeOK
<1>3. status = "ONLINE" /\ ~ GivesUp  BY DEF Round
<1>4. timeout < timeoutNum /\ silent < timeout * h + f
  BY <1>3 DEF Inv, CountBounds
<1>5. timeout' = Counted /\ Counted < timeoutNum
  BY <1>1, <1>2, <1>3 DEF Round, GivesUp, Counted
<1>6. /\ HelloDue <=> f = h
      /\ Phase(tick', h) = IF HelloDue THEN 1 ELSE f + 1
  BY PhaseNext DEF Inv, TypeOK, Round, HelloDue
<1>7. silent' <= silent + 1 /\ silent' \in Nat
  BY <1>2 DEF Inv, TypeOK, Round
<1> HIDE DEF h, f
<1>8. timeout * h \in Nat /\ (timeout + 1) * h = timeout * h + h
  BY <1>1, <1>2
<1>9. CASE HelloDue
  <2>1. timeout' = timeout + 1  BY <1>3, <1>5, <1>9 DEF Counted
  <2>2. silent' < timeout' * h + 1
    BY <1>1, <1>2, <1>4, <1>6, <1>7, <1>8, <1>9, <2>1
  <2> QED  BY <1>5, <1>6, <1>9, <2>2 DEF h
<1>10. CASE ~ HelloDue
  <2>1. timeout' = timeout  BY <1>5, <1>10 DEF Counted
  <2>2. silent' < timeout' * h + (f + 1)
    BY <1>1, <1>2, <1>4, <1>7, <1>8, <2>1
  <2> QED  BY <1>5, <1>6, <1>10, <2>2 DEF h
<1> QED  BY <1>9, <1>10

(* A round makes the first unanswered hello one round older.               *)
LEMMA UnderWayRound ==
  ASSUME Inv, Round
  PROVE  HelloUnderWay'
<1> SUFFICES ASSUME reliable, changes = 0, status' = "ONLINE", timeout' > 0
             PROVE  \E a \in UnderWay' :
                      a >= (timeout' - 1) * helloInterval
                             + Phase(tick', helloInterval) - 1
  BY DEF Round, settings, HelloUnderWay
<1> DEFINE h == helloInterval
           f == Phase(tick, h)
<1>1. h \in Nat \ {0} /\ f \in 1 .. h
  BY SettingsPositive DEF Inv
<1>2. timeout \in Nat /\ status = "ONLINE" /\ timeout' = Counted
  BY DEF Inv, TypeOK, Round
<1>3. /\ HelloDue <=> f = h
      /\ Phase(tick', h) = IF HelloDue THEN 1 ELSE f + 1
  BY PhaseNext DEF Inv, TypeOK, Round, HelloDue
<1>4. ASSUME NEW a \in UnderWay PROVE a + 1 \in UnderWay'
  <2>1. Older(a) = a + 1  BY DEF Older
  <2>2. CASE a \in up  BY <2>1, <2>2 DEF Round, UnderWay
  <2>3. CASE \E m \in down : a = m.age
    <3>1. PICK m \in down : a = m.age  BY <2>3
    <3>2. [m EXCEPT !.age = Older(@)] \in down'  BY DEF Round
    <3>3. m \in Messages  BY DEF Inv, TypeOK
    <3>4. [m EXCEPT !.age = Older(@)].age = a + 1
      BY <2>1, <3>1, <3>3 DEF Messages
    <3> QED  BY <3>2, <3>4 DEF UnderWay
  <2> QED  BY <2>2, <2>3 DEF UnderWay
<1>5. UnderWay \subseteq Nat  BY UnderWayAges DEF Inv
<1> HIDE DEF h, f
<1>6. CASE timeout = 0
  <2>1. HelloDue /\ timeout' = 1  BY <1>2, <1>6 DEF Counted
  <2>2. 0 \in UnderWay'  BY <2>1 DEF Round, UnderWay
  <2>3. 0 >= (timeout' - 1) * h + Phase(tick', h) - 1  BY <1>1, <1>3, <2>1
  <2> QED  BY <2>2, <2>3 DEF h
<1>7. CASE timeout > 0
  <2>1. PICK a \in UnderWay : a >= (timeout - 1) * h + f - 1
    BY <1>2, <1>7 DEF Inv, HelloUnderWay, h, f
  <2>2. a + 1 >= (timeout' - 1) * h + Phase(tick', h) - 1
    <3>1. timeout * h = (timeout - 1) * h + h /\ (timeout - 1) * h \in Nat
      BY <1>1, <1>2, <1>7
    <3>2. CASE HelloDue
      <4>1. (timeout' - 1) = timeout  BY <1>2, <3>2 DEF Counted
      <4> QED  BY <1>1, <1>3, <1>5, <2>1, <3>1, <3>2, <4>1
    <3>3. CASE ~ HelloDue
      <4>1. timeout' = timeout  BY <1>2, <3>3 DEF Counted
      <4> QED  BY <1>1, <1>3, <1>5, <2>1, <3>1, <3>3, <4>1
    <3> QED  BY <3>2, <3>3
  <2> QED  BY <1>4, <2>1, <2>2 DEF h
<1> QED  BY <1>2, <1>6, <1>7

(* A round keeps the invariant.                                            *)
LEMMA InvRound ==
  ASSUME Inv, Round
  PROVE  Inv'
<1>1. ServerStays'  BY DEF Inv, Round, server, ServerStays
<1> QED  BY <1>1, TypeRound, CountRound, UnderWayRound DEF Inv

(* A message starts the count anew.                                        *)
LEMMA InvReceive ==
  ASSUME Inv, NEW m \in down, Receive(m)
  PROVE  Inv'
<1>1. m \in Messages  BY DEF Inv, TypeOK
<1>2. TypeOK'
  BY <1>1, SessionAssumption
  DEF Inv, TypeOK, Receive, TimeoutReset, FunctionOf, Messages, Statuses,
      settings, server
<1>3. CountBounds'
  <2>1. timeout' = 0 /\ silent' = 0 /\ tick' = tick
        /\ helloInterval' = helloInterval /\ timeoutNum' = timeoutNum
    BY DEF Receive, TimeoutReset, settings
  <2>2. 0 * helloInterval = 0 /\ timeoutNum > 0
        /\ Phase(tick, helloInterval) > 0
    BY SettingsPositive DEF Inv
  <2>3. 0 < 0 * helloInterval + Phase(tick, helloInterval)
    BY SettingsPositive DEF Inv
  <2> QED  BY <2>1, <2>2, <2>3 DEF CountBounds
<1>4. HelloUnderWay'  BY DEF Receive, TimeoutReset, HelloUnderWay
<1>5. ServerStays'  BY DEF Inv, Receive, server, ServerStays
<1> QED  BY <1>2, <1>3, <1>4, <1>5 DEF Inv

(* A step of the server or of the network that leaves the edge and the     *)
(* settings alone and, in a reliable behaviour, keeps what is under way.   *)
LEMMA InvSameEdge ==
  ASSUME Inv, UNCHANGED <<edge, settings, reliable>>, TypeOK', ServerStays',
         reliable => UnderWay \subseteq UnderWay'
  PROVE  Inv'
<1>1. CountBounds'  BY DEF Inv, CountBounds, edge, settings
<1>2. HelloUnderWay'  BY DEF Inv, HelloUnderWay, edge, settings
<1> QED  BY <1>1, <1>2 DEF Inv

(* The server's answer is as old as the hello it answers.                  *)
LEMMA InvSrvHello ==
  ASSUME Inv, NEW a \in up, SrvHello(a)
  PROVE  Inv'
<1> DEFINE ack == [type |-> "ACK", function |-> srvFunction, age |-> a]
<1>1. a \in Ages /\ ack \in Messages /\ ack.age = a
  BY DEF Inv, TypeOK, Messages
<1>2. up' \subseteq up /\ down' \subseteq down \cup {ack}
  BY DEF SrvHello
<1>3. TypeOK'
  BY <1>1, <1>2 DEF Inv, TypeOK, SrvHello, edge, settings, server
<1>4. reliable => UnderWay \subseteq UnderWay'
  <2> SUFFICES ASSUME reliable, NEW b \in UnderWay PROVE b \in UnderWay'
    OBVIOUS
  <2>1. srvOn  BY DEF Inv, ServerStays
  <2>2. down \subseteq down' /\ ack \in down' /\ up' = up \ {a}
    BY <2>1 DEF SrvHello
  <2> HIDE DEF ack
  <2>3. CASE b = a  BY <1>1, <2>2, <2>3 DEF UnderWay
  <2>4. CASE b # a  BY <2>2, <2>4 DEF UnderWay
  <2> QED  BY <2>3, <2>4
<1>5. ServerStays'  BY DEF Inv, SrvHello, server, ServerStays
<1> QED  BY <1>3, <1>4, <1>5, InvSameEdge DEF SrvHello

(* The other steps of the server, the operator and the network.            *)
LEMMA InvOther ==
  ASSUME Inv,
         Disconnect \/ SrvCommand \/ SrvStatusSwitch \/ SrvFunctionSwitch \/ Lose
  PROVE  Inv'
<1>1. CASE Disconnect
  <2>1. TypeOK' /\ ServerStays'
    BY <1>1 DEF Inv, TypeOK, ServerStays, Disconnect, edge, settings, server
  <2> QED  BY <1>1, <2>1, InvSameEdge DEF Disconnect, UnderWay
<1>2. CASE SrvCommand
  <2>1. [type |-> "OTHER", age |-> 0] \in Messages
    BY SessionAssumption DEF Messages, Ages
  <2>2. TypeOK' /\ ServerStays'
    BY <1>2, <2>1 DEF Inv, TypeOK, ServerStays, SrvCommand, edge, settings, server
  <2> QED  BY <1>2, <2>2, InvSameEdge DEF SrvCommand, UnderWay
<1>3. CASE SrvStatusSwitch
  <2>1. TypeOK' /\ ServerStays'
    BY <1>3 DEF Inv, TypeOK, ServerStays, SrvStatusSwitch, edge, settings
  <2> QED  BY <1>3, <2>1, InvSameEdge DEF SrvStatusSwitch, UnderWay
<1>4. CASE SrvFunctionSwitch
  <2>1. TypeOK' /\ ServerStays'
    BY <1>4 DEF Inv, TypeOK, ServerStays, SrvFunctionSwitch, edge, settings
  <2> QED  BY <1>4, <2>1, InvSameEdge DEF SrvFunctionSwitch, UnderWay
<1>5. CASE Lose
  <2>1. ~ reliable /\ up' \subseteq up /\ down' \subseteq down
    BY <1>5 DEF Lose
  <2>2. TypeOK' /\ ServerStays'
    BY <1>5, <2>1 DEF Inv, TypeOK, ServerStays, Lose, edge, settings, server
  <2> QED  BY <1>5, <2>1, <2>2, InvSameEdge DEF Lose
<1> QED  BY <1>1, <1>2, <1>3, <1>4, <1>5

(* After a change of the settings only the types are claimed.              *)
LEMMA InvSetSetting ==
  ASSUME Inv, SetSetting
  PROVE  Inv'
<1>1. changes' # 0 /\ changes' \in 0 .. MaxChanges
  BY SessionAssumption DEF Inv, TypeOK, SetSetting
<1>2. TypeOK'  BY <1>1 DEF Inv, TypeOK, SetSetting, edge, server
<1>3. CountBounds' /\ HelloUnderWay' /\ ServerStays'
  BY <1>1 DEF Inv, SetSetting, server, CountBounds, HelloUnderWay, ServerStays
<1> QED  BY <1>2, <1>3 DEF Inv

(* The invariant is inductive.                                             *)
LEMMA InvNext ==
  ASSUME Inv, [Next]_vars
  PROVE  Inv'
<1>1. CASE UNCHANGED vars
  BY <1>1 DEF vars, edge, settings, server, Inv, TypeOK, CountBounds,
              HelloUnderWay, ServerStays, UnderWay
<1> QED  BY <1>1, InvRound, InvReceive, InvSrvHello, InvOther, InvSetSetting
         DEF Next

(* So it holds in every reachable state.                                   *)
LEMMA InvAlways == Spec => []Inv
<1> QED  BY InvInit, InvNext, PTL DEF Spec

(* Every reachable state of the session is well typed; in particular       *)
(* nothing is older than Delay in a reliable behaviour.                    *)
THEOREM SessionTypeCorrect == Spec => []TypeOK
<1>1. Inv => TypeOK  BY DEF Inv
<1> QED  BY <1>1, InvAlways, PTL

(* While the settings stand, an online edge has not been silent for        *)
(* timeout_num hello intervals.                                            *)
THEOREM SilenceIsDetected == Spec => []SilenceDetected
<1>1. Inv => SilenceDetected
  <2> SUFFICES ASSUME Inv, changes = 0, status = "ONLINE"
               PROVE  silent < timeoutNum * helloInterval
    BY DEF SilenceDetected
  <2> DEFINE h == helloInterval
             f == Phase(tick, h)
  <2>1. h \in Nat \ {0} /\ timeoutNum \in Nat \ {0} /\ f \in 1 .. h
        /\ timeout \in Nat /\ silent \in Nat
    BY SettingsPositive, SessionAssumption DEF Inv, TypeOK
  <2>2. timeout < timeoutNum /\ silent < timeout * h + f
    BY DEF Inv, CountBounds
  <2> HIDE DEF h, f
  <2>3. timeout * h + f <= timeout * h + h /\ timeout * h \in Nat  BY <2>1
  <2>4. timeout * h + h = (timeout + 1) * h  BY <2>1
  <2>5. (timeout + 1) * h <= timeoutNum * h
    <3>1. PICK d \in Nat : timeoutNum = (timeout + 1) + d
      <4>1. timeoutNum - (timeout + 1) \in Nat  BY <2>1, <2>2
      <4>2. timeoutNum = (timeout + 1) + (timeoutNum - (timeout + 1))  BY <2>1
      <4> QED  BY <4>1, <4>2
    <3>2. timeoutNum * h = (timeout + 1) * h + d * h /\ d * h \in Nat
          /\ (timeout + 1) * h \in Nat
      BY <2>1, <3>1
    <3> QED  BY <3>2
  <2>6. timeoutNum * h \in Nat  BY <2>1
  <2> QED  BY <2>1, <2>2, <2>3, <2>4, <2>5, <2>6 DEF h
<1> QED  BY <1>1, InvAlways, PTL

(* An edge whose messages take less than timeout_num - 1 intervals never   *)
(* goes offline: the first unanswered hello would be older than that.      *)
THEOREM NoAlarmIsFalse == Spec => NoFalseAlarm
<1> DEFINE InTime == reliable /\ changes = 0
                       /\ Delay < (timeoutNum - 1) * helloInterval
           Fine == InTime => ~ (status = "ONLINE" /\ status' = "OFFLINE")
<1>1. Inv /\ [Next]_vars => [Fine]_vars
  <2> SUFFICES ASSUME Inv, Next, InTime, status = "ONLINE", status' = "OFFLINE"
               PROVE  FALSE
    OBVIOUS
  <2>1. Round
    BY DEF Next, Receive, SrvHello, Disconnect, SrvCommand, SrvStatusSwitch,
           SrvFunctionSwitch, SetSetting, Lose, edge
  <2> DEFINE h == helloInterval
             n == timeoutNum
             f == Phase(tick, h)
  <2>2. h \in Nat \ {0} /\ n \in Nat \ {0} /\ timeout \in Nat /\ Delay \in Nat
    BY SettingsPositive, SessionAssumption DEF Inv, TypeOK
  <2>3. Counted >= n /\ timeout < n
    BY <2>1 DEF Round, GivesUp, Inv, CountBounds
  <2>4. HelloDue /\ timeout = n - 1  BY <2>2, <2>3 DEF Counted
  <2>5. f = h  BY <2>4 DEF HelloDue, Phase
  <2>6. Delay < (n - 1) * h  OBVIOUS
  <2>7. UnderWay \subseteq Nat  BY UnderWayAges DEF Inv
  <2> HIDE DEF f
  <2>8. CASE timeout = 0
    <3>1. (n - 1) * h = 0  BY <2>2, <2>4, <2>8
    <3> QED  BY <2>2, <2>6, <3>1
  <2>9. CASE timeout > 0
    <3>1. PICK a \in UnderWay : a >= (timeout - 1) * h + f - 1
      BY <2>9 DEF Inv, HelloUnderWay, f
    <3>2. a < Delay  BY <2>1 DEF Round, UnderWay
    <3> HIDE DEF h, n
    <3>3. (timeout - 1) * h + h = (n - 1) * h /\ (timeout - 1) * h \in Nat
      BY <2>2, <2>4, <2>9
    <3> QED  BY <2>2, <2>5, <2>6, <2>7, <3>1, <3>2, <3>3
  <2> QED  BY <2>2, <2>8, <2>9
<1> QED  BY <1>1, InvAlways, PTL DEF Spec, NoFalseAlarm
-----------------------------------------------------------------------------
\* What the server sends.
Sendable ==
  [type : {"PDT_ADD", "G1_FMT_ADD"}, of : Pdts] \cup [type : {"DEV_ADD"}, of : Devices]
    \cup [type : {"G1_TOKEN_ADD"}, of : Pdts, token : Tokens]

\* Is a token still to come, or is it one of those that were missed?
Coming(p, t) == <<p, t>> \in missed \/ BagIn(TokenAdd(p, t), answers)

\* A format that is under way does not wipe a token for good.
FormatsAnnounced ==
  \A p \in Pdts : BagIn(Msg("G1_FMT_ADD", p), answers) => \A t \in Tokens : Coming(p, t)

ProvTypes == DOMAIN fmt = Pdts /\ BagToSet(answers) \subseteq Sendable

ProvInv == ProvTypes /\ FormatsAnnounced /\ TokensCome

(* Taking one message leaves the others under way, and sending some leaves *)
(* all of them.                                                            *)
LEMMA OthersStay ==
  ASSUME NEW B, NEW m
  PROVE  /\ BagToSet(BagRemove(B, m)) \subseteq BagToSet(B)
         /\ \A x : x # m => (BagIn(x, BagRemove(B, m)) <=> BagIn(x, B))
         /\ \A ms : BagToSet(Sent(B, ms)) = BagToSet(B) \cup ms
<1>1. \A ms : BagToSet(Sent(B, ms)) = BagToSet(B) \cup ms
  BY DEF Sent, BagToSet
<1>2. CASE m \in DOMAIN B /\ B[m] = 1
  <2>1. BagRemove(B, m) = [e \in DOMAIN B \ {m} |-> B[e]]  BY <1>2 DEF BagRemove
  <2> QED  BY <1>1, <2>1 DEF BagIn, BagToSet
<1>3. CASE m \in DOMAIN B /\ B[m] # 1
  <2>1. BagRemove(B, m) = [e \in DOMAIN B |-> IF e = m THEN B[e] - 1 ELSE B[e]]
    BY <1>3 DEF BagRemove
  <2> QED  BY <1>1, <2>1 DEF BagIn, BagToSet
<1>4. CASE m \notin DOMAIN B
  <2>1. BagRemove(B, m) = B  BY <1>4 DEF BagRemove
  <2> QED  BY <1>1, <2>1
<1> QED  BY <1>2, <1>3, <1>4

(* The invariant holds at the start.                                       *)
LEMMA ComingInit == ProvInit => ProvInv
BY DEF ProvInit, ProvInv, ProvTypes, FormatsAnnounced, TokensCome, BagIn, BagToSet,
       EmptyBag, SetToBag

(* A message is received: a format that is made or made anew lacks all     *)
(* tokens, but all of them still come; a token that comes ahead of a       *)
(* format is noted.                                                        *)
LEMMA ComingReceive ==
  ASSUME ProvInv, NEW m \in BagToSet(answers), ReceiveAnswer(m)
  PROVE  ProvInv'
<1>1. /\ DOMAIN fmt = Pdts /\ m \in Sendable /\ BagToSet(answers) \subseteq Sendable
      /\ answers' = BagRemove(answers, m)
      /\ fmt' = CASE m.type = "G1_FMT_ADD" /\ m.of \in pdts -> [fmt EXCEPT ![m.of] = {}]
                  [] m.type = "G1_TOKEN_ADD" /\ fmt[m.of] # NoFmt ->
                       [fmt EXCEPT ![m.of] = @ \cup {m.token}]
                  [] OTHER -> fmt
      /\ missed' = IF m.type # "G1_TOKEN_ADD" THEN missed
                   ELSE IF BagIn(Msg("G1_FMT_ADD", m.of), answers)
                   THEN missed \cup {<<m.of, m.token>>} ELSE missed \ {<<m.of, m.token>>}
  BY DEF ReceiveAnswer, Apply, ProvInv, ProvTypes
<1>2. ProvTypes'
  <2>1. DOMAIN fmt' = Pdts  BY <1>1
  <2>2. BagToSet(answers') \subseteq Sendable  BY <1>1, OthersStay
  <2> QED  BY <2>1, <2>2 DEF ProvTypes
<1>3. ASSUME NEW p \in Pdts, NEW t \in Tokens, Coming(p, t),
             m = TokenAdd(p, t) => BagIn(Msg("G1_FMT_ADD", p), answers)
      PROVE  Coming(p, t)'
  <2>1. CASE m = TokenAdd(p, t)
    <3>1. m.type = "G1_TOKEN_ADD" /\ m.of = p /\ m.token = t  BY <2>1 DEF TokenAdd
    <3>2. <<p, t>> \in missed'  BY <1>1, <1>3, <2>1, <3>1
    <3> QED  BY <3>2 DEF Coming
  <2>2. CASE m # TokenAdd(p, t)
    <3>1. CASE BagIn(TokenAdd(p, t), answers)
      <4>1. BagIn(TokenAdd(p, t), answers')  BY <1>1, <2>2, <3>1, OthersStay
      <4> QED  BY <4>1 DEF Coming
    <3>2. CASE <<p, t>> \in missed
      <4>1. m.type = "G1_TOKEN_ADD" => <<p, t>> # <<m.of, m.token>>
        BY <1>1, <2>2 DEF Sendable, TokenAdd
      <4>2. <<p, t>> \in missed'  BY <1>1, <3>2, <4>1
      <4> QED  BY <4>2 DEF Coming
    <3> QED  BY <1>3, <3>1, <3>2 DEF Coming
  <2> QED  BY <2>1, <2>2
<1>4. ASSUME NEW p \in Pdts, BagIn(Msg("G1_FMT_ADD", p), answers)
      PROVE  \A t \in Tokens : Coming(p, t)'
  BY <1>3, <1>4 DEF ProvInv, FormatsAnnounced
<1>5. FormatsAnnounced'
  <2> SUFFICES ASSUME NEW p \in Pdts, BagIn(Msg("G1_FMT_ADD", p), answers')
               PROVE  \A t \in Tokens : Coming(p, t)'
    BY DEF FormatsAnnounced
  <2>1. BagIn(Msg("G1_FMT_ADD", p), answers)  BY <1>1, OthersStay DEF BagIn
  <2> QED  BY <1>4, <2>1
<1>6. TokensCome'
  <2> SUFFICES ASSUME NEW p \in Pdts, fmt'[p] # NoFmt, NEW t \in Tokens, t \notin fmt'[p]
               PROVE  Coming(p, t)'
    BY DEF TokensCome, Coming
  <2>1. CASE m.type = "G1_FMT_ADD" /\ m.of = p
    <3>1. m = Msg("G1_FMT_ADD", p)  BY <1>1, <2>1 DEF Sendable, Msg
    <3> QED  BY <1>4, <3>1 DEF BagIn
  <2>2. CASE m = TokenAdd(p, t)
    <3>1. m.type = "G1_TOKEN_ADD" /\ m.of = p /\ m.token = t  BY <2>2 DEF TokenAdd
    <3> QED  BY <1>1, <3>1
  <2>3. CASE ~ (m.type = "G1_FMT_ADD" /\ m.of = p) /\ m # TokenAdd(p, t)
    <3>1. fmt[p] # NoFmt /\ t \notin fmt[p]
      BY <1>1, <2>3 DEF Sendable
    <3>2. Coming(p, t)  BY <3>1 DEF ProvInv, TokensCome, Coming
    <3> QED  BY <1>3, <2>3, <3>2
  <2> QED  BY <2>1, <2>2, <2>3
<1> QED  BY <1>2, <1>5, <1>6 DEF ProvInv

(* A message is lost: what it says of a token is noted.                    *)
LEMMA ComingLose ==
  ASSUME ProvInv, NEW m \in BagToSet(answers), LoseMessage(m)
  PROVE  ProvInv'
<1>1. /\ answers' = BagRemove(answers, m) /\ fmt' = fmt
      /\ missed' = IF m.type = "G1_TOKEN_ADD" THEN missed \cup {<<m.of, m.token>>}
                   ELSE missed
  BY DEF LoseMessage
<1>2. BagToSet(answers') \subseteq BagToSet(answers)  BY <1>1, OthersStay
<1>3. ASSUME NEW p, NEW t, Coming(p, t) PROVE Coming(p, t)'
  <2>1. CASE m = TokenAdd(p, t)
    <3>1. m.type = "G1_TOKEN_ADD" /\ m.of = p /\ m.token = t  BY <2>1 DEF TokenAdd
    <3> QED  BY <1>1, <3>1 DEF Coming
  <2>2. CASE m # TokenAdd(p, t)  BY <1>1, <1>3, <2>2, OthersStay DEF Coming
  <2> QED  BY <2>1, <2>2
<1>4. ProvTypes'  BY <1>1, <1>2 DEF ProvInv, ProvTypes
<1>5. FormatsAnnounced'  BY <1>2, <1>3 DEF ProvInv, FormatsAnnounced, BagIn
<1>6. TokensCome'
  <2> SUFFICES ASSUME NEW p \in Pdts, fmt[p] # NoFmt, NEW t \in Tokens \ fmt[p]
               PROVE  Coming(p, t)'
    BY <1>1 DEF TokensCome, Coming
  <2> QED  BY <1>3 DEF ProvInv, TokensCome, Coming
<1> QED  BY <1>4, <1>5, <1>6 DEF ProvInv

(* A description is sent: with a format come all its tokens.               *)
LEMMA ComingAnswer ==
  ASSUME ProvInv, NEW d \in Devices, Answer(d)
  PROVE  ProvInv'
<1>1. BagToSet(answers') = BagToSet(answers) \cup Description(d)
      /\ UNCHANGED <<fmt, missed>>
  BY OthersStay DEF Answer
<1>2. Product(d) \in Pdts  BY ProvisioningAssumption
<1>3. ASSUME NEW p, NEW t, Coming(p, t) PROVE Coming(p, t)'
  BY <1>1, <1>3 DEF Coming, BagIn
<1>4. ProvTypes'
  <2>1. Description(d) \subseteq Sendable
    BY <1>2 DEF Description, Sendable, Msg, TokenAdd
  <2> QED  BY <1>1, <2>1 DEF ProvInv, ProvTypes
<1>5. FormatsAnnounced'
  <2> SUFFICES ASSUME NEW p \in Pdts, BagIn(Msg("G1_FMT_ADD", p), answers'), NEW t \in Tokens
               PROVE  Coming(p, t)'
    BY DEF FormatsAnnounced
  <2>1. CASE p = Product(d)
    <3>1. TokenAdd(p, t) \in Description(d)  BY <2>1 DEF Description
    <3> QED  BY <1>1, <3>1 DEF Coming, BagIn
  <2>2. CASE p # Product(d)
    <3>1. Msg("G1_FMT_ADD", p) \notin Description(d)
      BY <2>2 DEF Description, Msg, TokenAdd
    <3> QED  BY <1>1, <1>3, <3>1 DEF ProvInv, FormatsAnnounced, BagIn
  <2> QED  BY <2>1, <2>2
<1>6. TokensCome'
  <2> SUFFICES ASSUME NEW p \in Pdts, fmt[p] # NoFmt, NEW t \in Tokens \ fmt[p]
               PROVE  Coming(p, t)'
    BY <1>1 DEF TokensCome, Coming
  <2> QED  BY <1>3 DEF ProvInv, TokensCome, Coming
<1> QED  BY <1>4, <1>5, <1>6 DEF ProvInv

(* The invariant is inductive.                                             *)
LEMMA ComingNext ==
  ProvInv /\ [ProvNext]_prov_vars => ProvInv'
<1> SUFFICES ASSUME ProvInv, [ProvNext]_prov_vars
             PROVE  ProvInv'
  OBVIOUS
<1>1. ASSUME UNCHANGED <<fmt, answers, missed>> PROVE ProvInv'
  BY <1>1 DEF ProvInv, ProvTypes, FormatsAnnounced, TokensCome, Coming
<1>2. ASSUME NEW d \in Devices, Forward(d) \/ Parse(d) \/ LosePacket(d) PROVE ProvInv'
  BY <1>1, <1>2 DEF Forward, Parse, LosePacket, prov_vars
<1>3. CASE UNCHANGED prov_vars  BY <1>1, <1>3 DEF prov_vars
<1> QED  BY <1>2, <1>3, ComingLose, ComingReceive, ComingAnswer DEF ProvNext

(* So it holds in every reachable state.                                   *)
LEMMA ComingAlways == ProvSpec => []ProvInv
<1> QED  BY ComingInit, ComingNext, PTL DEF ProvSpec

(* However many devices of a product are described at once, and whatever   *)
(* is lost or overtaken: a token that a format lacks is under way, or its  *)
(* last description was lost or came while one of the format was still     *)
(* under way (srv_main.c:261-266, mqtt.c:32-45, g1_fmt.c:89-115, 136-160). *)
THEOREM TokensAreComing == ProvSpec => []TokensCome
<1>1. ProvInv => TokensCome  BY DEF ProvInv
<1> QED  BY <1>1, ComingAlways, PTL
=============================================================================
