------------------------------ MODULE G1Packet ------------------------------
(***************************************************************************)
(* The way of one packet through edge_rcv_pkt (src/src/g1.c): the function *)
(* switch, the address field, the message, the status codes and the        *)
(* forwarding to the server.  What a packet with a known device and format *)
(* does to the registry is Packet of module Devices.                       *)
(*                                                                         *)
(* Lengths are unsigned long: differences wrap modulo ULong.  The settings *)
(* are read without the lock and may change between two readings.          *)
(***************************************************************************)
EXTENDS Integers, Sequences, FiniteSetsExt

CONSTANTS
  Controls,   \* values of the address control byte
  Sizes,      \* sizes of packets, in bytes
  MsgLens,    \* values of the length byte of the message
  ULong       \* 2^64

VARIABLES
  function,  \* get_edge_function()
  mode,      \* get_pkt_up_mode()
  pc,        \* where edge_rcv_pkt is: "idle", "locked", "unlocked",
             \* "returned"; or "crashed"
  in,        \* the packet
  lret,      \* what edge_dp_rcv returned
  sent,      \* was the packet forwarded to the server, with which status?
  ret        \* what edge_rcv_pkt returned

g1_vars == <<function, mode, pc, in, lret, sent, ret>>

ASSUME G1PacketAssumption ==
  /\ Controls \subseteq 0 .. 255 /\ MsgLens \subseteq 0 .. 255
  /\ Sizes \subseteq 0 .. ULong - 1
  /\ ULong \in Nat /\ ULong > 255   \* no address is as long

\* enum g1_process_status.
ERR_PKT == 0
NO_DEVICE == 1
NO_PKT_FMT == 2
RAW_PKT == 3
Stats == {ERR_PKT, NO_DEVICE, NO_PKT_FMT, RAW_PKT}

Header == 2   \* sizeof(struct g1_header)
Msg == 6      \* sizeof(struct g1_msg)
NotSent == -1

\* What is looked up: is the device registered, has its product the format?
Inputs == [ctrl : Controls, size : Sizes, len : MsgLens,
            dev : BOOLEAN, fmt : BOOLEAN]

\* Before the first packet.
NoPacket == [ctrl |-> 0, size |-> 0, len |-> 0, dev |-> FALSE, fmt |-> FALSE]

USub(a, b) == (a - b) % ULong
-----------------------------------------------------------------------------
\* parse_address_filed: the bits of the control byte give the type and the
\* lengths of the three parts of an address.
AddrType(c) == c \div 64
H1Len(c) == <<6, 8, 16, 20, 0, 4, 0, 0>>[(c % 4) + 4 * AddrType(c) + 1]
H2Len(c) == <<0, 2, 4, 8>>[((c \div 4) % 4) + 1]
H3Len(c) == <<0, 2, 4, 8>>[((c \div 16) % 4) + 1]
LegalControl(c) == AddrType(c) = 0 \/ (AddrType(c) = 1 /\ c % 4 = 1)
AddrLen(c) == H1Len(c) + H2Len(c) + H3Len(c)

\* Where the parts begin, as offsets in the packet; below Header is the null
\* page: a pointer that is not set stays null (the memset of edge_dp_rcv).
H1(c) == Header
H2(c) == IF H2Len(c) # 0 THEN H1(c) + H1Len(c) ELSE 0
H3(c) == IF H3Len(c) # 0 THEN H2(c) + H2Len(c) ELSE 0

\* There is something behind the address.
AddrFits(p) == USub(p.size, Header) > AddrLen(p.ctrl)

AddrOK(p) == LegalControl(p.ctrl) /\ AddrFits(p)

\* What is left for the message, and for its payload.
MsgSize(p) == USub(USub(p.size, Header), AddrLen(p.ctrl))
Payload(p) == Header + AddrLen(p.ctrl) + Msg

\* Mutant: the length byte is believed.
PayloadLenClaimed(p) == p.len

\* The payload is cut at the end of the packet.
PayloadLen(p) == Min({p.len, USub(MsgSize(p), Msg)})

\* sizeof(struct g1_msg) against the rest of the packet.
MsgOK(p) == Msg <= MsgSize(p)

\* Mutant: the message is looked at before the device is looked up.
ParseMsgFirst(p) ==
  CASE ~ AddrOK(p) -> ERR_PKT
    [] AddrOK(p) /\ ~ MsgOK(p) -> ERR_PKT
    [] AddrOK(p) /\ MsgOK(p) /\ ~ p.dev -> NO_DEVICE
    [] AddrOK(p) /\ MsgOK(p) /\ p.dev /\ ~ p.fmt -> NO_PKT_FMT
    [] OTHER -> 0

\* parse_g1_pkt and parse_msg: the first test that fails gives the status; a
\* packet that passes them all gives 0, which is ERR_PKT as well.
Parse(p) ==
  CASE ~ AddrOK(p) -> ERR_PKT
    [] AddrOK(p) /\ ~ p.dev -> NO_DEVICE
    [] AddrOK(p) /\ p.dev /\ ~ MsgOK(p) -> ERR_PKT
    [] AddrOK(p) /\ p.dev /\ MsgOK(p) /\ ~ p.fmt -> NO_PKT_FMT
    [] OTHER -> 0
-----------------------------------------------------------------------------
G1Init ==
  /\ function = "ON" /\ mode = "ATTR_PERIODIC"
  /\ pc = "idle" /\ in = NoPacket
  /\ lret = 0 /\ sent = NotSent /\ ret = 0

\* A packet arrives: it is refused while the function is off or if it is empty.
Enter(p) ==
  /\ pc = "idle"
  /\ in' = p /\ sent' = NotSent
  /\ IF function = "ON" /\ p.size # 0
     THEN pc' = "locked" /\ UNCHANGED ret
     ELSE ret' = 1 /\ pc' = "returned"
  /\ UNCHANGED <<function, mode, lret>>

\* Printing the third part of the address through a null pointer.
Crashes(p) == AddrOK(p) /\ H3Len(p.ctrl) # 0 /\ H3(p.ctrl) < Header

\* edge_dp_rcv, under the lock.  Memory for the message to the server is taken
\* to be available; the record file keeps a copy and changes nothing else.
Receive ==
  /\ pc = "locked"
  /\ IF Crashes(in)
     THEN pc' = "crashed" /\ UNCHANGED <<lret, sent>>
     ELSE /\ pc' = "unlocked"
          /\ lret' = Parse(in)
          /\ sent' = IF lret' # 0 THEN lret' ELSE NotSent
  /\ UNCHANGED <<function, mode, in, ret>>

\* The mode is read after the lock has been released.
Return ==
  /\ pc = "unlocked"
  /\ ret' = IF lret = 0 /\ mode = "PKT" THEN RAW_PKT ELSE lret
  /\ pc' = "returned"
  /\ UNCHANGED <<function, mode, in, lret, sent>>

\* The caller has taken the status; nothing of the packet is kept.
Forget ==
  /\ pc = "returned"
  /\ pc' = "idle" /\ in' = NoPacket
  /\ lret' = 0 /\ sent' = NotSent /\ ret' = 0
  /\ UNCHANGED <<function, mode>>

\* An acknowledge of the server, and the operator's command.
SetFunction ==
  /\ pc # "crashed"
  /\ function' \in {"OFF", "ON"}
  /\ UNCHANGED <<mode, pc, in, lret, sent, ret>>

SetMode ==
  /\ pc # "crashed"
  /\ mode' \in {"ATTR", "ATTR_PERIODIC", "PKT"}
  /\ UNCHANGED <<function, pc, in, lret, sent, ret>>

\* The program has stopped.
Halted == pc = "crashed" /\ UNCHANGED g1_vars

G1Next ==
  \/ \E p \in Inputs : Enter(p)
  \/ Receive \/ Return \/ Forget \/ SetFunction \/ SetMode \/ Halted

G1Spec == G1Init /\ [][G1Next]_g1_vars
-----------------------------------------------------------------------------

\* The payload that tokens are cut from lies inside the packet, for every
\* control byte, size and length byte but one: each difference is taken after
\* the test that bounds it (g1.c:46-52, 103, 158), except the first, which no
\* test precedes.  It wraps for a packet of one byte (g1.c:122), and then what
\* is taken for the payload always lies outside.
PayloadInside ==
  pc = "unlocked" /\ in.dev /\ AddrOK(in) /\ MsgOK(in)
    => (in.size # 1 <=> Payload(in) + PayloadLen(in) <= in.size)

\* The server is asked for a device exactly if the packet has a legal address,
\* something behind it, and no registered device: whatever is wrong further
\* on in the packet does not keep the device from being provisioned, and a
\* packet that is too short is not forwarded (g1.c:103, 122-126, 150-158,
\* 199-201).  The exception is the packet of one byte: the size left for its
\* address wraps (g1.c:122), so it passes for long enough and is forwarded.
UnknownIsForwarded ==
  pc = "unlocked"
    => (sent = NO_DEVICE <=> /\ LegalControl(in.ctrl)
                             /\ \/ in.size > Header + AddrLen(in.ctrl)
                                \/ in.size = 1
                             /\ ~ in.dev)

=============================================================================
