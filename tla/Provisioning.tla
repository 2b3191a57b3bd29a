---------------------------- MODULE Provisioning ----------------------------
(***************************************************************************)
(* How a device becomes known to the gateway: the packet of an unknown one *)
(* is forwarded (src/src/g1.c:181-204, src/src/mgt.c:63-84), the server    *)
(* answers with the six messages that describe product, device, format and *)
(* tokens (src/srv/srv_main.c:204-274), and the gateway applies them one   *)
(* by one (src/src/mgt.c:86-189).                                          *)
(*                                                                         *)
(* Every message is published with quality 0 by a client of its own, over  *)
(* a connection of its own (src/src/mqtt.c:32-45): some are lost, and one  *)
(* may overtake another.  What is under way is a bag, any message of which *)
(* may come next.  All devices send packets of one key.  Both sides are    *)
(* online, the function is on, and no operator interferes; devices are not *)
(* deleted.                                                                *)
(***************************************************************************)
EXTENDS Integers, Bags, BagsExt, FiniteSetsExt

CONSTANTS
  Devices,     \* device addresses
  Pdts,        \* product topics
  Product(_),  \* the product the server reads from an address: its first bytes
  Tokens,      \* attribute topics the server describes: 1, 2, 3
  MaxUp,       \* bound of the model: packets of a device under way
  MaxCopies,   \* bound of the model: copies of a message under way
  Lossy,       \* may messages be lost?
  NoFmt

ASSUME ProvisioningAssumption ==
  /\ MaxUp \in Nat \ {0} /\ MaxCopies \in Nat \ {0} /\ Lossy \in BOOLEAN
  /\ \A d \in Devices : Product(d) \in Pdts
  /\ \A S \in SUBSET Tokens : NoFmt # S

VARIABLES
  pdts,     \* g_pdt_map of the gateway
  devs,     \* g_dev_map
  fmt,      \* the format of every product, as the set of its tokens, or NoFmt
  packets,  \* packets on the way to the server, a bag of their devices
  answers,  \* messages on the way to the gateway, a bag
  missed    \* tokens whose last description was lost, or came while one of
            \* their format was still under way (history)

prov_vars == <<pdts, devs, fmt, packets, answers, missed>>

Msg(type, of) == [type |-> type, of |-> of]
TokenAdd(p, t) == [type |-> "G1_TOKEN_ADD", of |-> p, token |-> t]

\* Messages are sent, each by a client of its own.
Sent(under, ms) ==
  [m \in BagToSet(under) \cup ms |-> IF m \notin ms THEN under[m]
                                     ELSE IF BagIn(m, under) THEN Min({under[m] + 1, MaxCopies})
                                     ELSE 1]
-----------------------------------------------------------------------------
\* rcv_edge_msg, for a packet of the device d.
Description(d) ==
  {Msg("PDT_ADD", Product(d)), Msg("DEV_ADD", d), Msg("G1_FMT_ADD", Product(d))}
    \cup {TokenAdd(Product(d), t) : t \in Tokens}

\* Mutant: a token is put in front of the list, and the list is forgotten.
ApplyForgetful(m) ==
  /\ pdts' = IF m.type = "PDT_ADD" THEN pdts \cup {m.of} ELSE pdts
  /\ devs' = IF m.type = "DEV_ADD" /\ Product(m.of) \in pdts THEN devs \cup {m.of} ELSE devs
  /\ fmt' = CASE m.type = "G1_FMT_ADD" /\ m.of \in pdts -> [fmt EXCEPT ![m.of] = {}]
              [] m.type = "G1_TOKEN_ADD" /\ fmt[m.of] # NoFmt ->
                   [fmt EXCEPT ![m.of] = {m.token}]
              [] OTHER -> fmt

\* mgt_rcv_msg with add_pdt, add_dev, add_g1_fmt and add_g1_token: what is
\* known is left as it is, except that a format is replaced by an empty one;
\* what hangs on something unknown is dropped.  The tokens never overlap.
Apply(m) ==
  /\ pdts' = IF m.type = "PDT_ADD" THEN pdts \cup {m.of} ELSE pdts
  /\ devs' = IF m.type = "DEV_ADD" /\ Product(m.of) \in pdts THEN devs \cup {m.of} ELSE devs
  /\ fmt' = CASE m.type = "G1_FMT_ADD" /\ m.of \in pdts -> [fmt EXCEPT ![m.of] = {}]
              [] m.type = "G1_TOKEN_ADD" /\ fmt[m.of] # NoFmt ->
                   [fmt EXCEPT ![m.of] = @ \cup {m.token}]
              [] OTHER -> fmt

ProvInit ==
  /\ pdts = {} /\ devs = {} /\ fmt = [p \in Pdts |-> NoFmt]
  /\ packets = EmptyBag /\ answers = EmptyBag /\ missed = {}

\* Mutant: a device without a format counts as understood.
ParsedWithoutFmt(d) == d \in devs

\* Can the gateway parse what the device sends?
Parsed(d) == d \in devs /\ fmt[Product(d)] # NoFmt

\* A packet comes in that cannot be parsed: parse_g1_pkt and parse_msg give
\* G1_STAT_NO_DEVICE or G1_STAT_NO_PKT_FMT, and edge_dp_rcv forwards it.
Forward(d) ==
  /\ ~ Parsed(d) /\ (BagIn(d, packets) => packets[d] < MaxUp)
  /\ packets' = BagAdd(packets, d)
  /\ UNCHANGED <<pdts, devs, fmt, answers, missed>>

\* A packet that can be parsed changes nothing of this.
Parse(d) == Parsed(d) /\ UNCHANGED prov_vars

\* The server receives a packet of the device d.
Answer(d) ==
  /\ BagIn(d, packets)
  /\ packets' = BagRemove(packets, d)
  /\ answers' = Sent(answers, Description(d))
  /\ UNCHANGED <<pdts, devs, fmt, missed>>

\* The gateway receives a message; the history notes a token that comes
\* while a format it belongs to is still under way.
ReceiveAnswer(m) ==
  /\ BagIn(m, answers)
  /\ answers' = BagRemove(answers, m)
  /\ Apply(m)
  /\ missed' = IF m.type # "G1_TOKEN_ADD" THEN missed
               ELSE IF BagIn(Msg("G1_FMT_ADD", m.of), answers)
               THEN missed \cup {<<m.of, m.token>>} ELSE missed \ {<<m.of, m.token>>}
  /\ UNCHANGED packets

LosePacket(d) ==
  /\ Lossy /\ BagIn(d, packets)
  /\ packets' = BagRemove(packets, d)
  /\ UNCHANGED <<pdts, devs, fmt, answers, missed>>

LoseMessage(m) ==
  /\ Lossy /\ BagIn(m, answers)
  /\ answers' = BagRemove(answers, m)
  /\ missed' = IF m.type = "G1_TOKEN_ADD" THEN missed \cup {<<m.of, m.token>>} ELSE missed
  /\ UNCHANGED <<pdts, devs, fmt, packets>>

ProvNext ==
  \/ \E d \in Devices : Forward(d) \/ Parse(d) \/ Answer(d) \/ LosePacket(d)
  \/ \E m \in BagToSet(answers) : ReceiveAnswer(m) \/ LoseMessage(m)

\* A device that is not understood keeps sending; neither the links nor the
\* server stop, and of the messages sent again and again some arrive.  Nothing
\* is assumed of the tokens.
Needed == UNION {{m \in Description(d) : m.type # "G1_TOKEN_ADD"} : d \in Devices}
Fairness ==
  /\ \A d \in Devices : WF_prov_vars(Forward(d)) /\ SF_prov_vars(Answer(d))
  /\ \A m \in Needed : SF_prov_vars(ReceiveAnswer(m))

ProvSpec == ProvInit /\ [][ProvNext]_prov_vars /\ Fairness
-----------------------------------------------------------------------------
\* A format that lacks a token will have it: its description is still under
\* way (srv_main.c:261-266, g1_fmt.c:136-160, 89-115).  The description of
\* another device of the same product, or of the same device once more, wipes
\* the tokens but brings them again.  A token is missed only in two cases:
\* its last description was lost, or it came while one of its format was
\* under way, which it overtook or which was sent later; it is dropped then,
\* or wiped by that format (g1_fmt.c:100-102, 158).
TokensCome ==
  \A p \in Pdts : fmt[p] # NoFmt =>
    \A t \in Tokens \ fmt[p] : <<p, t>> \in missed \/ BagIn(TokenAdd(p, t), answers)

\* Whatever is lost on the way or overtaken, a device that keeps sending is
\* understood in the end and stays so (g1.c:62-64, 150-154, 199-201).
EventuallyParsed == \A d \in Devices : <>[](d \in devs /\ fmt[Product(d)] # NoFmt)
=============================================================================
