--------------------------- MODULE PacketProofs ----------------------------
(***************************************************************************)
(* Theorems about the way of a packet through the gateway.                 *)
(*                                                                         *)
(* The mailbox, for every set of packets and however the stores, the       *)
(* wake-ups and the commands interleave: packets are processed at most     *)
(* once and in order, a packet that was signalled to a waiting application *)
(* is processed, and its pointer, length and module belong together.  The  *)
(* three stores of the application are not under the mutex; what saves it  *)
(* is that it makes none while it waits.                                   *)
(*                                                                         *)
(* Decoding, for every control byte, length and width of the numbers: what *)
(* is cut out of a packet lies inside it, unless the packet is one byte    *)
(* long, and exactly which packets ask for the description of their device.*)
(*                                                                         *)
(* The rule, for every rule, evaluator, clock and order of the attributes: *)
(* news are judged, and the verdict is that of the rule on the values.     *)
(***************************************************************************)
EXTENDS Mailbox, G1Packet, RuleEngine, ListLemmas

Given == Len(handed)

SlotTypes ==
  /\ pkt \in Builtin \cup {Buffer, Null} /\ no \in Nat
  /\ len \in Packets \cup {Null} /\ module \in Packets \cup {Null}
  /\ buf \in Typed \cup {Null}

ThreadTypes ==
  /\ mutex \in {"free", "app", "cli"}
  /\ app \in {"clear", "waiting", "woken", "processing"}
  /\ cli \in {"idle", "fill", "lock", "store"}
  /\ toClear \subseteq Fields /\ toStore \subseteq Fields
  /\ cur \in Packets \cup {Null} /\ (cli # "idle" => cur \in Packets)
  /\ cli = "fill" => cur \in Typed

HistoryTypes ==
  /\ handed \in Seq(Packets) /\ got \in Seq(Seen)
  /\ Given + (IF cli = "idle" THEN 0 ELSE 1) <= MaxHanded
  /\ signalled \in BOOLEAN /\ heard \in 0 .. Given

Types == SlotTypes /\ ThreadTypes /\ HistoryTypes

\* Who holds the mutex.
Locks ==
  /\ mutex = "cli" <=> cli = "store"
  /\ mutex = "app" <=> app = "processing"

\* The number names the packet pkt points to: one that has been handed over,
\* or is being handed over now.
Numbers ==
  /\ pkt = Null <=> no = 0
  /\ no <= Given + (IF cli = "store" THEN 1 ELSE 0)
  /\ \A i \in 1 .. Len(got) : got[i].no <= Given

\* An application that has cleared pkt finds nothing there that it has seen.
Fresh ==
  app \in {"waiting", "woken"} \/ (app = "clear" /\ "pkt" \notin toClear) =>
    no = 0 \/ \A i \in 1 .. Len(got) : got[i].no < no

\* What is stored while the application waits stays.
StoresStay ==
  app \in {"waiting", "woken"} /\ cli = "store" =>
    /\ "pkt" \notin toStore => pkt = Pointer(cur) /\ no = Given + 1
    /\ "len" \notin toStore => len = cur
    /\ "module" \notin toStore => module = cur

\* After a wake-up by a signal the slot holds the packet handed over last.
SlotIntact ==
  app = "woken" /\ signalled /\ cli # "store" =>
    /\ Given > 0 /\ no = Given
    /\ len = handed[Given] /\ module = handed[Given]
    /\ pkt = Pointer(handed[Given])

\* A packet that was signalled is still to be processed, or has been.
HeardPending ==
  heard > 0 => \/ app = "woken" /\ signalled
               \/ \E i \in 1 .. Len(got) : got[i].no >= heard

\* What was processed after a signal is what was handed over.
GotIntact ==
  \A i \in 1 .. Len(got) :
    got[i].signalled =>
      /\ got[i].len = handed[got[i].no] /\ got[i].module = handed[got[i].no]
      /\ got[i].len \in Builtin => got[i].content = got[i].len

(* The inductive invariant.                                                *)
Inv == Types /\ Locks /\ Numbers /\ Fresh /\ StoresStay /\ SlotIntact
         /\ HeardPending /\ GotIntact /\ OnceInOrder
-----------------------------------------------------------------------------
(* At the start nothing has been handed over.                              *)
LEMMA InvInit ==
  ASSUME Init
  PROVE  Inv
<1>1. Types
  <2>1. SlotTypes  BY DEF Init, SlotTypes
  <2>2. ThreadTypes  BY DEF Init, ThreadTypes, Fields
  <2>3. HistoryTypes
    <3>1. Given = 0 /\ 0 <= MaxHanded  BY MailboxAssumption DEF Init, Given
    <3>2. got \in Seq(Seen) /\ handed \in Seq(Packets)  BY DEF Init
    <3>3. 0 \in 0 .. 0 /\ 0 + 0 = 0  OBVIOUS
    <3> QED  BY <3>1, <3>2, <3>3 DEF Init, HistoryTypes
  <2> QED  BY <2>1, <2>2, <2>3 DEF Types
<1>2. Locks /\ Numbers /\ Fresh /\ StoresStay /\ SlotIntact
  BY DEF Init, Locks, Numbers, Fresh, StoresStay, SlotIntact, Given, Fields
<1>3. HeardPending /\ GotIntact /\ OnceInOrder
  BY DEF Init, HeardPending, GotIntact, OnceInOrder
<1> QED  BY <1>1, <1>2, <1>3 DEF Inv

(* A pointer is never the cleared one.                                     *)
LEMMA PointerSet ==
  ASSUME NEW p \in Packets
  PROVE  Pointer(p) \in Builtin \cup {Buffer} /\ Pointer(p) # Null /\ p # Null
BY MailboxAssumption DEF Pointer, Packets

(* The numbers of the processed packets have been handed over.             *)
LEMMA GotNumbers ==
  ASSUME Types, Numbers, NEW i \in 1 .. Len(got)
  PROVE  got[i] \in Seen /\ got[i].no \in Nat /\ got[i].no \in 1 .. Given
<1>1. got \in Seq(Seen) /\ handed \in Seq(Packets)  BY DEF Types, HistoryTypes
<1>2. got[i] \in Seen  BY <1>1
<1>3. got[i].no \in 1 .. MaxHanded  BY <1>2 DEF Seen
<1>4. Given \in Nat /\ got[i].no <= Given  BY <1>1 DEF Numbers, Given
<1> QED  BY <1>2, <1>3, <1>4, MailboxAssumption

(* A step that neither hands over nor processes a packet keeps what is     *)
(* claimed of the processed ones.                                          *)
LEMMA SameHistory ==
  ASSUME Inv, UNCHANGED <<handed, got>>
  PROVE  GotIntact' /\ OnceInOrder' /\ Given' = Given
BY DEF Inv, GotIntact, OnceInOrder, Given

(* The stores of the application: it is not waiting.                       *)
LEMMA InvClear ==
  ASSUME Inv, NEW x \in Fields, Clear(x)
  PROVE  Inv'
<1>1. GotIntact' /\ OnceInOrder' /\ Given' = Given
  BY SameHistory DEF Clear
<1>2. Types'
  <2>1. SlotTypes'  BY DEF Inv, Types, SlotTypes, Clear
  <2>2. ThreadTypes'  BY DEF Inv, Types, ThreadTypes, Clear
  <2>3. HistoryTypes'  BY <1>1 DEF Inv, Types, HistoryTypes, Clear
  <2> QED  BY <2>1, <2>2, <2>3 DEF Types
<1>3. Locks' /\ Numbers'
  <2>1. Given \in Nat  BY DEF Inv, Types, HistoryTypes, Given
  <2> QED  BY <1>1, <2>1 DEF Inv, Locks, Numbers, Clear
<1>4. Fresh'  BY <1>1 DEF Inv, Fresh, Clear
<1>5. StoresStay' /\ SlotIntact'  BY DEF StoresStay, SlotIntact, Clear
<1>6. HeardPending'  BY DEF Inv, HeardPending, Clear
<1> QED  BY <1>1, <1>2, <1>3, <1>4, <1>5, <1>6 DEF Inv

(* A store of the CLI thread: the number is one that nobody has seen.      *)
LEMMA InvStore ==
  ASSUME Inv, NEW x \in Fields, Store(x)
  PROVE  Inv'
<1>1. GotIntact' /\ OnceInOrder' /\ Given' = Given
  BY SameHistory DEF Store
<1>2. cur \in Packets /\ Pointer(cur) \in Builtin \cup {Buffer}
      /\ Pointer(cur) # Null /\ cur # Null /\ Given \in Nat
  BY PointerSet DEF Inv, Types, ThreadTypes, HistoryTypes, Store, Given
<1>3. Types'
  <2>1. SlotTypes'  BY <1>2 DEF Inv, Types, SlotTypes, Store
  <2>2. ThreadTypes'  BY DEF Inv, Types, ThreadTypes, Store
  <2>3. HistoryTypes'  BY <1>1 DEF Inv, Types, HistoryTypes, Store
  <2> QED  BY <2>1, <2>2, <2>3 DEF Types
<1>4. Locks' /\ Numbers'
  BY <1>1, <1>2 DEF Inv, Types, ThreadTypes, SlotTypes, Locks, Numbers, Store, Given
<1>5. Fresh'
  <2>1. CASE x = "pkt"
    <3>1. no' = Given + 1 /\ got' = got  BY <2>1 DEF Store, Given
    <3>2. \A i \in 1 .. Len(got) : got[i].no \in Nat /\ got[i].no <= Given
      BY GotNumbers DEF Inv, Numbers
    <3> QED  BY <1>2, <3>1, <3>2 DEF Fresh
  <2>2. CASE x # "pkt"  BY <2>2 DEF Inv, Fresh, Store
  <2> QED  BY <2>1, <2>2
<1>6. StoresStay'
  BY <1>1 DEF Inv, Types, ThreadTypes, StoresStay, Store, Fields, Given
<1>7. SlotIntact'  BY DEF SlotIntact, Store
<1>8. HeardPending'  BY DEF Inv, HeardPending, Store
<1> QED  BY <1>1, <1>3, <1>4, <1>5, <1>6, <1>7, <1>8 DEF Inv

(* Going to sleep, waking without a signal, and being done with a packet.  *)
LEMMA InvSleep ==
  ASSUME Inv, Wait \/ SpuriousWake \/ Finish
  PROVE  Inv'
<1>1. GotIntact' /\ OnceInOrder' /\ Given' = Given
  BY SameHistory DEF Wait, SpuriousWake, Finish
<1>2. Types'
  <2>1. SlotTypes'
    BY DEF Inv, Types, SlotTypes, Wait, SpuriousWake, Finish, slot
  <2>2. ThreadTypes'
    BY DEF Inv, Types, ThreadTypes, Wait, SpuriousWake, Finish, Cleared
  <2>3. HistoryTypes'
    BY <1>1 DEF Inv, Types, HistoryTypes, Wait, SpuriousWake, Finish
  <2> QED  BY <2>1, <2>2, <2>3 DEF Types
<1>3. Locks' /\ Numbers'
  BY <1>1 DEF Inv, Locks, Numbers, Wait, SpuriousWake, Finish, slot
<1>4. Fresh'
  BY DEF Inv, Fresh, Wait, SpuriousWake, Finish, slot, Cleared, Fields
<1>5. StoresStay'
  BY <1>1 DEF Inv, Locks, StoresStay, Wait, SpuriousWake, Finish, slot
<1>6. SlotIntact' /\ HeardPending'
  BY DEF Inv, SlotIntact, HeardPending, Wait, SpuriousWake, Finish
<1> QED  BY <1>1, <1>2, <1>3, <1>4, <1>5, <1>6 DEF Inv

(* A command, the filling of the buffer and the mutex leave the slot alone.*)
LEMMA InvCommand ==
  ASSUME Inv, (\E p \in Packets : Command(p)) \/ Fill \/ Lock
  PROVE  Inv'
<1>1. GotIntact' /\ OnceInOrder' /\ Given' = Given
  BY SameHistory DEF Command, Fill, Lock
<1>2. Types'
  <2>1. SlotTypes'
    <3>1. buf' \in Typed \cup {Null}
      BY DEF Inv, Types, SlotTypes, ThreadTypes, Command, Fill, Lock, Packets
    <3> QED  BY <3>1 DEF Inv, Types, SlotTypes, Command, Fill, Lock, slot
  <2>2. ThreadTypes'
    BY DEF Inv, Types, ThreadTypes, Command, Fill, Lock, Packets
  <2>3. HistoryTypes'
    <3>1. Given \in Nat /\ MaxHanded \in Nat
      BY MailboxAssumption DEF Inv, Types, HistoryTypes, Given
    <3>2. Given + (IF cli' = "idle" THEN 0 ELSE 1) <= MaxHanded
      BY <3>1 DEF Inv, Types, HistoryTypes, Command, Fill, Lock, Given
    <3> QED
      BY <1>1, <3>2 DEF Inv, Types, HistoryTypes, Command, Fill, Lock
  <2> QED  BY <2>1, <2>2, <2>3 DEF Types
<1>3. Locks' /\ Numbers'
  BY <1>1 DEF Inv, Types, HistoryTypes, SlotTypes, Locks, Numbers, Command, Fill, Lock,
              MayLock, slot, Given
<1>4. Fresh'
  <2>1. UNCHANGED <<app, toClear, no, got>>  BY DEF Command, Fill, Lock, slot
  <2> QED  BY <2>1 DEF Inv, Fresh
<1>5. StoresStay'  BY DEF Inv, StoresStay, Command, Fill, Lock, Fields
<1>6. SlotIntact' /\ HeardPending'
  BY <1>1 DEF Inv, SlotIntact, HeardPending, Command, Fill, Lock, slot
<1> QED  BY <1>1, <1>2, <1>3, <1>4, <1>5, <1>6 DEF Inv

(* The packet that is found after a wake-up is newer than all others.      *)
LEMMA InvResume ==
  ASSUME Inv, Resume
  PROVE  Inv'
<1>1. CASE pkt # Null /\ len # Null
  <2> DEFINE g == [no |-> no, len |-> len, module |-> module,
                   content |-> Content(pkt), signalled |-> signalled]
  <2>1. got' = Append(got, g) /\ app' = "processing" /\ mutex' = "app"
        /\ UNCHANGED <<slot, buf, cli, cur, toStore, toClear, handed, signalled,
                       heard>>
    BY <1>1 DEF Resume
  <2>2. app = "woken" /\ mutex = "free" /\ cli # "store"
    BY DEF Resume, Inv, Locks
  <2>3. Given \in Nat /\ Given <= MaxHanded /\ MaxHanded \in Nat
    BY MailboxAssumption DEF Inv, Types, HistoryTypes, Given
  <2>4. no \in 1 .. Given
    BY <1>1, <2>2, <2>3 DEF Inv, Types, SlotTypes, Numbers
  <2>5. g \in Seen
    <3>1. len \in Packets /\ module \in Packets \cup {Null}
          /\ signalled \in BOOLEAN
      BY <1>1 DEF Inv, Types, SlotTypes, HistoryTypes
    <3>2. Content(pkt) \in Packets \cup {Null}
      BY <1>1 DEF Inv, Types, SlotTypes, Content, Packets
    <3>3. no \in 1 .. MaxHanded  BY <2>3, <2>4
    <3> QED  BY <3>1, <3>2, <3>3 DEF Seen
  <2>6. g.no = no /\ g.len = len /\ g.module = module
        /\ g.content = Content(pkt) /\ g.signalled = signalled
    OBVIOUS
  <2> HIDE DEF g
  <2>7. got \in Seq(Seen) /\ Len(got) \in Nat
    BY DEF Inv, Types, HistoryTypes
  <2>8. /\ got' \in Seq(Seen) /\ Len(got') = Len(got) + 1
        /\ \A i \in 1 .. Len(got) : got'[i] = got[i]
        /\ got'[Len(got) + 1] = g
    BY <2>1, <2>5, <2>7
  <2>9. \A i \in 1 .. Len(got') : i \in 1 .. Len(got) \/ i = Len(got) + 1
    BY <2>7, <2>8
  <2>10. Types'
    <3>1. SlotTypes'  BY <2>1 DEF Inv, Types, SlotTypes, slot
    <3>2. ThreadTypes'  BY <2>1 DEF Inv, Types, ThreadTypes
    <3>3. HistoryTypes'  BY <2>1, <2>8 DEF Inv, Types, HistoryTypes, Given
    <3> QED  BY <3>1, <3>2, <3>3 DEF Types
  <2>11. Locks'  BY <2>1, <2>2 DEF Inv, Locks
  <2>12. Numbers'
    BY <2>1, <2>4, <2>6, <2>8, <2>9 DEF Inv, Numbers, Given, slot
  <2>13. Fresh' /\ StoresStay' /\ SlotIntact'
    BY <2>1 DEF Fresh, StoresStay, SlotIntact
  <2>14. HeardPending'
    <3>1. CASE signalled
      <4>1. no = Given /\ heard <= Given
        BY <2>2, <3>1 DEF Inv, SlotIntact, Types, HistoryTypes
      <4>2. Len(got) + 1 \in 1 .. Len(got')  BY <2>7, <2>8
      <4> QED  BY <2>1, <2>3, <2>6, <2>8, <4>1, <4>2 DEF Inv, Types, HistoryTypes, HeardPending
    <3>2. CASE ~ signalled
      <4>1. 1 .. Len(got) \subseteq 1 .. Len(got')  BY <2>7, <2>8
      <4> QED  BY <2>1, <2>8, <3>2, <4>1 DEF Inv, HeardPending
    <3> QED  BY <3>1, <3>2
  <2>15. GotIntact'
    <3>1. g.signalled => /\ g.len = handed[g.no] /\ g.module = handed[g.no]
                         /\ g.len \in Builtin => g.content = g.len
      BY <2>2, <2>6, MailboxAssumption
      DEF Inv, SlotIntact, Pointer, Content
    <3> QED  BY <2>1, <2>8, <2>9, <3>1 DEF Inv, GotIntact
  <2>16. OnceInOrder'
    <3>1. \A i \in 1 .. Len(got) : got[i].no < no
      BY <2>2, <2>4 DEF Inv, Fresh
    <3> QED  BY <2>6, <2>7, <2>8, <2>9, <3>1 DEF Inv, OnceInOrder
  <2> QED  BY <2>10, <2>11, <2>12, <2>13, <2>14, <2>15, <2>16 DEF Inv
<1>2. CASE ~ (pkt # Null /\ len # Null)
  <2>1. app' = "clear" /\ toClear' = Fields
        /\ UNCHANGED <<slot, buf, mutex, cli, cur, toStore, handed, signalled,
                       heard, got>>
    BY <1>2 DEF Resume, Cleared
  <2>2. GotIntact' /\ OnceInOrder' /\ Given' = Given
    BY <2>1, SameHistory
  <2>3. Types'
    <3>1. SlotTypes'  BY <2>1 DEF Inv, Types, SlotTypes, slot
    <3>2. ThreadTypes'  BY <2>1 DEF Inv, Types, ThreadTypes
    <3>3. HistoryTypes'  BY <2>1, <2>2 DEF Inv, Types, HistoryTypes
    <3> QED  BY <3>1, <3>2, <3>3 DEF Types
  <2>4. Locks' /\ Numbers'
    BY <2>1, <2>2 DEF Inv, Locks, Numbers, slot, Resume
  <2>5. Fresh' /\ StoresStay' /\ SlotIntact'
    BY <2>1 DEF Fresh, StoresStay, SlotIntact, Fields
  <2>6. HeardPending'
    <3>1. ~ (app = "woken" /\ signalled)
      <4> SUFFICES ASSUME app = "woken", signalled PROVE FALSE  OBVIOUS
      <4>1. cli # "store"  BY DEF Resume, Inv, Locks
      <4>2. Given \in 1 .. Len(handed) /\ handed \in Seq(Packets)
        BY <4>1 DEF Inv, SlotIntact, Types, HistoryTypes, Given
      <4>3. handed[Given] \in Packets  BY <4>2
      <4> QED  BY <1>2, <4>1, <4>3, PointerSet DEF Inv, SlotIntact
    <3> QED  BY <2>1, <3>1 DEF Inv, HeardPending
  <2> QED  BY <2>2, <2>3, <2>4, <2>5, <2>6 DEF Inv
<1> QED  BY <1>1, <1>2

(* The packet is handed over when all three variables are stored.          *)
LEMMA InvSignal ==
  ASSUME Inv, Signal
  PROVE  Inv'
<1>1. cli = "store" /\ toStore = {} /\ cur \in Packets /\ mutex = "cli"
  BY DEF Signal, Stored, Inv, Types, ThreadTypes, Locks
<1>2. handed \in Seq(Packets) /\ Given \in Nat  BY DEF Inv, Types, HistoryTypes, Given
<1>3. /\ handed' \in Seq(Packets) /\ Given' = Given + 1
      /\ \A i \in 1 .. Given : handed'[i] = handed[i]
      /\ handed'[Given'] = cur
  BY <1>1, <1>2 DEF Signal, Given
<1>4. /\ cli' = "idle" /\ mutex' = "free" /\ cur' = Null /\ toStore' = {}
      /\ UNCHANGED <<slot, buf, toClear, got>>
  BY DEF Signal
<1>5. IF app = "waiting"
      THEN app' = "woken" /\ signalled' = TRUE /\ heard' = Given'
      ELSE UNCHANGED <<app, signalled, heard>>
  BY DEF Signal, Given
<1>6. Types'
  <2>1. SlotTypes'  BY <1>4 DEF Inv, Types, SlotTypes, slot
  <2>2. ThreadTypes'  BY <1>4, <1>5 DEF Inv, Types, ThreadTypes
  <2>3. HistoryTypes'
    <3>1. Given + 1 <= MaxHanded
      BY <1>1 DEF Inv, Types, HistoryTypes
    <3>2. signalled' \in BOOLEAN /\ heard' \in 0 .. Given'
      <4>1. heard \in 0 .. Given /\ signalled \in BOOLEAN
        BY DEF Inv, Types, HistoryTypes
      <4>2. CASE app = "waiting"  BY <1>2, <1>3, <1>5, <4>2
      <4>3. CASE app # "waiting"  BY <1>2, <1>3, <1>5, <4>1, <4>3
      <4> QED  BY <4>2, <4>3
    <3> QED
      BY <1>2, <1>3, <1>4, <3>1, <3>2 DEF Inv, Types, HistoryTypes
  <2> QED  BY <2>1, <2>2, <2>3 DEF Types
<1>7. Locks'  BY <1>1, <1>4, <1>5 DEF Inv, Locks
<1>8. Numbers'
  <2>1. \A i \in 1 .. Len(got) : got[i].no \in Nat /\ got[i].no <= Given
    BY GotNumbers DEF Inv, Numbers
  <2>2. no \in Nat /\ no <= Given + 1  BY <1>1 DEF Inv, Types, SlotTypes, Numbers
  <2> QED  BY <1>2, <1>3, <1>4, <2>1, <2>2 DEF Inv, Numbers, slot
<1>9. Fresh'  BY <1>4, <1>5 DEF Inv, Fresh, slot
<1>10. StoresStay'  BY <1>4 DEF StoresStay
<1>11. SlotIntact'
  <2> SUFFICES ASSUME app' = "woken"
               PROVE  /\ Given' > 0 /\ no = Given'
                      /\ len = cur /\ module = cur /\ pkt = Pointer(cur)
    BY <1>3, <1>4 DEF SlotIntact, slot, Pointer
  <2>1. app \in {"waiting", "woken"}  BY <1>5
  <2> QED  BY <1>1, <1>2, <1>3, <2>1 DEF Inv, StoresStay
<1>12. HeardPending'  BY <1>4, <1>5 DEF Inv, HeardPending
<1>13. GotIntact'
  <2>1. \A i \in 1 .. Len(got) : got[i].no \in 1 .. Given
    BY GotNumbers DEF Inv
  <2> QED  BY <1>3, <1>4, <2>1 DEF Inv, GotIntact
<1>14. OnceInOrder'  BY <1>4 DEF Inv, OnceInOrder
<1> QED  BY <1>6, <1>7, <1>8, <1>9, <1>10, <1>11, <1>12, <1>13, <1>14 DEF Inv

(* The invariant is inductive.                                             *)
LEMMA InvNext ==
  ASSUME Inv, [Next]_vars
  PROVE  Inv'
<1>1. CASE UNCHANGED vars
  BY <1>1 DEF vars, slot, Inv, Types, SlotTypes, ThreadTypes, HistoryTypes,
              Locks, Numbers, Fresh, StoresStay, SlotIntact, HeardPending,
              GotIntact, OnceInOrder, Given
<1> QED  BY <1>1, InvClear, InvStore, InvSleep, InvCommand, InvResume, InvSignal
         DEF Next

(* So it holds in every reachable state.                                   *)
LEMMA InvAlways == Spec => []Inv
<1> QED  BY InvInit, InvNext, PTL DEF Spec

(* Every packet is processed at most once, in the order of the commands.   *)
THEOREM ProcessedOnceInOrder == Spec => []OnceInOrder
<1>1. Inv => OnceInOrder  BY DEF Inv
<1> QED  BY <1>1, InvAlways, PTL

(* What is processed after a signal is one packet, not parts of two.       *)
THEOREM SignalledIsIntact == Spec => []SignalledIntact
<1>1. Inv => SignalledIntact
  <2> SUFFICES ASSUME Inv, NEW i \in 1 .. Len(got), got[i].signalled
               PROVE  /\ got[i].len = HandedAs(got[i].no)
                      /\ got[i].module = HandedAs(got[i].no)
                      /\ got[i].len \in Builtin => got[i].content = got[i].len
    BY DEF SignalledIntact
  <2>1. got[i].no \in 1 .. Given /\ DOMAIN handed = 1 .. Given
    BY GotNumbers DEF Inv, Types, HistoryTypes, Given
  <2>2. HandedAs(got[i].no) = handed[got[i].no]  BY <2>1 DEF HandedAs
  <2> QED  BY <2>2 DEF Inv, GotIntact
<1> QED  BY <1>1, InvAlways, PTL

(* The application does not wait again before the packet it was woken for, *)
(* or a later one, has been processed.                                     *)
THEOREM HeardIsAlwaysProcessed == Spec => []HeardIsProcessed
<1>1. Inv => HeardIsProcessed
  BY DEF Inv, HeardPending, HeardIsProcessed
<1> QED  BY <1>1, InvAlways, PTL
-----------------------------------------------------------------------------
(* Decoding a packet.                                                      *)

(* A difference behind the test that bounds it does not wrap.              *)
LEMMA NoBorrow ==
  ASSUME NEW a \in 0 .. ULong - 1, NEW b \in 0 .. a
  PROVE  USub(a, b) = a - b /\ a - b \in 0 .. ULong - 1
<1> DEFINE n == a - b
<1>1. ULong \in Nat \ {0} /\ n \in Nat /\ n \in 0 .. ULong - 1
  BY G1PacketAssumption
<1> HIDE DEF n
<1>2. n = ULong * (n \div ULong) + (n % ULong) /\ n \div ULong \in Nat
      /\ n % ULong \in 0 .. ULong - 1
  BY <1>1, DivMod
<1>3. ULong * (n \div ULong) + (n % ULong) = ULong * 0 + n  BY <1>1, <1>2
<1>4. n % ULong = n  BY <1>1, <1>2, <1>3, RemainderUnique
<1> QED  BY <1>1, <1>4 DEF USub, n

(* The size left by a packet of one byte wraps.                            *)
LEMMA Borrow == USub(1, 2) = ULong - 1
<1>1. ULong \in Nat \ {0} /\ -1 \in Int  BY G1PacketAssumption
<1>2. -1 = ULong * (-1) + (ULong - 1) /\ ULong - 1 \in 0 .. ULong - 1  BY <1>1
<1>3. (-1) % ULong \in 0 .. ULong - 1 /\ (-1) \div ULong \in Int
      /\ -1 = ULong * ((-1) \div ULong) + ((-1) % ULong)
  BY <1>1
<1>4. (-1) % ULong = ULong - 1  BY <1>1, <1>2, <1>3, RemainderUnique
<1> QED  BY <1>4 DEF USub

(* The lengths of the three parts of an address.                           *)
LEMMA AddressLength ==
  ASSUME NEW c \in 0 .. 255, LegalControl(c)
  PROVE  AddrLen(c) \in 0 .. 36
<1>1. c \div 64 \in {0, 1} /\ c % 4 \in 0 .. 3  BY DEF LegalControl, AddrType
<1>2. (c \div 4) % 4 \in 0 .. 3 /\ (c \div 16) % 4 \in 0 .. 3  OBVIOUS
<1>3. H1Len(c) \in 0 .. 20  BY <1>1 DEF H1Len, AddrType
<1>4. H2Len(c) \in 0 .. 8  BY <1>2 DEF H2Len
<1>5. H3Len(c) \in 0 .. 8  BY <1>2 DEF H3Len
<1> QED  BY <1>3, <1>4, <1>5 DEF AddrLen

(* What the address field and the message mean without wrapping.           *)
LEMMA AddressBounds ==
  ASSUME NEW p \in Inputs, p.size >= Header
  PROVE  /\ AddrOK(p) <=> /\ LegalControl(p.ctrl)
                             /\ p.size > Header + AddrLen(p.ctrl)
         /\ AddrOK(p) =>
              /\ AddrLen(p.ctrl) \in Nat
              /\ MsgSize(p) = p.size - Header - AddrLen(p.ctrl)
              /\ MsgSize(p) \in 0 .. ULong - 1
<1>1. p.ctrl \in 0 .. 255 /\ p.size \in 0 .. ULong - 1 /\ ULong \in Nat
  BY G1PacketAssumption DEF Inputs
<1>2. Header = 2  BY DEF Header
<1>3. USub(p.size, Header) = p.size - 2 /\ p.size - 2 \in 0 .. ULong - 1
  BY <1>1, <1>2, NoBorrow
<1>4. LegalControl(p.ctrl) => AddrLen(p.ctrl) \in Nat
  <2>1. LegalControl(p.ctrl) => AddrLen(p.ctrl) \in 0 .. 36
    BY <1>1, AddressLength
  <2> QED  BY <2>1
<1>5. AddrOK(p) <=> LegalControl(p.ctrl) /\ p.size - 2 > AddrLen(p.ctrl)
  BY <1>3 DEF AddrOK, AddrFits
<1>6. ASSUME AddrOK(p)
      PROVE  /\ MsgSize(p) = (p.size - 2) - AddrLen(p.ctrl)
             /\ MsgSize(p) \in 0 .. ULong - 1
  <2>1. AddrLen(p.ctrl) \in 0 .. p.size - 2  BY <1>1, <1>3, <1>4, <1>5, <1>6
  <2> QED  BY <1>3, <2>1, NoBorrow DEF MsgSize
<1> QED  BY <1>1, <1>2, <1>4, <1>5, <1>6

(* A packet of one byte passes for one that is long enough, and its        *)
(* payload would begin behind it.                                          *)
LEMMA OneByte ==
  ASSUME NEW p \in Inputs, p.size = 1
  PROVE  /\ AddrOK(p) <=> LegalControl(p.ctrl)
         /\ AddrOK(p) => Payload(p) \in Nat /\ Payload(p) >= 8
<1>1. p.ctrl \in 0 .. 255 /\ ULong \in Nat /\ ULong > 255
  BY G1PacketAssumption DEF Inputs
<1>2. USub(p.size, Header) = ULong - 1  BY Borrow DEF Header
<1>3. LegalControl(p.ctrl) => AddrLen(p.ctrl) \in 0 .. 36  BY <1>1, AddressLength
<1>4. AddrOK(p) <=> LegalControl(p.ctrl) /\ ULong - 1 > AddrLen(p.ctrl)
  BY <1>2 DEF AddrOK, AddrFits
<1>5. AddrOK(p) <=> LegalControl(p.ctrl)  BY <1>1, <1>3, <1>4
<1>6. Payload(p) = 2 + AddrLen(p.ctrl) + 6  BY DEF Payload, Header, Msg
<1> QED  BY <1>3, <1>5, <1>6

(* The length of the payload is one of two numbers.                        *)
LEMMA PayloadLength ==
  ASSUME NEW p \in Inputs, LegalControl(p.ctrl)
  PROVE  PayloadLen(p) \in Nat
<1>1. p.size \in Sizes /\ p.len \in MsgLens /\ p.ctrl \in Controls  BY DEF Inputs
<1>2. p.size \in Int /\ p.len \in Nat /\ ULong \in Nat \ {0} /\ p.ctrl \in 0 .. 255
  <2>1. Sizes \subseteq Int /\ MsgLens \subseteq Nat /\ ULong \in Nat \ {0}
        /\ Controls \subseteq 0 .. 255
    BY G1PacketAssumption
  <2> QED  BY <1>1, <2>1
<1>3. ASSUME NEW n \in Int, NEW b \in Int PROVE USub(n, b) \in Nat
  <2> DEFINE d == n - b
  <2>1. d \in Int  OBVIOUS
  <2> HIDE DEF d
  <2>2. d % ULong \in Nat  BY <1>2, <2>1
  <2> QED  BY <2>2 DEF USub, d
<1>4. USub(p.size, Header) \in Int
  <2>1. Header \in Int  BY DEF Header
  <2>2. USub(p.size, Header) \in Nat  BY <1>2, <1>3, <2>1
  <2> QED  BY <2>2
<1>5. AddrLen(p.ctrl) \in Int  BY <1>2, AddressLength
<1>6. MsgSize(p) \in Int
  <2>1. USub(USub(p.size, Header), AddrLen(p.ctrl)) \in Nat  BY <1>3, <1>4, <1>5
  <2> QED  BY <2>1 DEF MsgSize
<1>7. USub(MsgSize(p), Msg) \in Nat
  <2>1. Msg \in Int  BY DEF Msg
  <2> QED  BY <1>3, <1>6, <2>1
<1> QED  BY <1>2, <1>7 DEF PayloadLen, Min

\* What edge_dp_rcv has found out about the packet when it returns.
Judged ==
  /\ in \in Inputs /\ in.size # 0
  /\ lret = Parse(in)
  /\ sent = IF lret # 0 THEN lret ELSE NotSent

\* What is known of a packet while it is on its way.
G1Inv ==
  /\ pc = "locked" => in \in Inputs /\ in.size # 0
  /\ pc = "unlocked" => Judged

(* A packet that has been received has been judged.                        *)
LEMMA G1InvNext == G1Inv /\ [G1Next]_g1_vars => G1Inv'
<1> SUFFICES ASSUME G1Inv, [G1Next]_g1_vars PROVE G1Inv'
  OBVIOUS
<1>1. CASE UNCHANGED g1_vars  BY <1>1 DEF g1_vars, G1Inv, Judged
<1>2. ASSUME NEW p \in Inputs, Enter(p) PROVE G1Inv'
  BY <1>2 DEF Enter, G1Inv, Judged
<1>3. CASE Receive  BY <1>3 DEF Receive, G1Inv, Judged
<1>4. CASE Return \/ Forget  BY <1>4 DEF Return, Forget, G1Inv, Judged
<1>5. CASE SetFunction \/ SetMode
  BY <1>5 DEF SetFunction, SetMode, G1Inv, Judged
<1> QED  BY <1>1, <1>2, <1>3, <1>4, <1>5 DEF G1Next, Halted

(* So it holds in every reachable state.                                   *)
LEMMA G1InvAlways == G1Spec => []G1Inv
<1>1. G1Init => G1Inv  BY DEF G1Init, G1Inv
<1> QED  BY <1>1, G1InvNext, PTL DEF G1Spec

(* For every control byte and length byte the payload that tokens are cut  *)
(* from ends inside the packet, of whatever size but one: each difference  *)
(* is taken behind the test that bounds it, except the first, which wraps  *)
(* for a packet of one byte; the payload of that lies always outside       *)
(* (g1.c:46-52, 103, 122, 158).                                            *)
THEOREM PayloadIsInside == G1Spec => []PayloadInside
<1>1. G1Inv => PayloadInside
  <2> SUFFICES ASSUME in \in Inputs, in.size # 0, AddrOK(in), MsgOK(in)
               PROVE  in.size # 1 <=> Payload(in) + PayloadLen(in) <= in.size
    BY DEF PayloadInside, G1Inv, Judged
  <2>0. in.size \in Nat /\ in.len \in Nat
    <3>1. in.size \in Sizes /\ in.len \in MsgLens  BY DEF Inputs
    <3>2. Sizes \subseteq Nat /\ MsgLens \subseteq Nat
      BY G1PacketAssumption
    <3> QED  BY <3>1, <3>2
  <2>1. CASE in.size >= Header
    <3> DEFINE a == AddrLen(in.ctrl)
               m == MsgSize(in)
               l == PayloadLen(in)
    <3>1. a \in Nat /\ m = in.size - 2 - a /\ m \in 0 .. ULong - 1
      <4>1. m = in.size - Header - a /\ a \in Nat /\ m \in 0 .. ULong - 1
        BY <2>1, AddressBounds
      <4> QED  BY <4>1 DEF Header
    <3>2. 6 <= m  BY DEF MsgOK, Msg
    <3>3. USub(m, Msg) = m - 6  BY <3>1, <3>2, NoBorrow DEF Msg
    <3>4. l = Min({in.len, m - 6})  BY <3>3 DEF PayloadLen
    <3> HIDE DEF a, m, l
    <3>5. l \in {in.len, m - 6} /\ l <= m - 6
      BY <2>0, <3>1, <3>2, <3>4 DEF Min
    <3>6. Payload(in) = 2 + a + 6  BY DEF Payload, Header, Msg, a
    <3>7. Payload(in) + PayloadLen(in) <= in.size
      BY <2>0, <3>1, <3>2, <3>5, <3>6 DEF l
    <3> QED  BY <2>1, <3>7 DEF Header
  <2>2. CASE in.size = 1
    <3>1. Payload(in) \in Nat /\ Payload(in) >= 8  BY <2>2, OneByte
    <3>2. PayloadLen(in) \in Nat  BY PayloadLength DEF AddrOK
    <3>3. ~ (Payload(in) + PayloadLen(in) <= 1)  BY <3>1, <3>2
    <3> QED  BY <2>2, <3>3
  <2>3. in.size >= Header \/ in.size = 1  BY <2>0 DEF Header
  <2> QED  BY <2>1, <2>2, <2>3
<1> QED  BY <1>1, G1InvAlways, PTL

(* The server is asked for a device exactly if the address is legal, there *)
(* is something behind it and nobody knows the device, whatever else is    *)
(* wrong with the packet, or if the packet is one byte long, behind which  *)
(* a legal address is read (g1.c:103, 122-126, 150-158, 199-201).          *)
THEOREM UnknownDevicesAreForwarded == G1Spec => []UnknownIsForwarded
<1>1. G1Inv => UnknownIsForwarded
  <2> DEFINE Asks == /\ LegalControl(in.ctrl)
                     /\ \/ in.size > Header + AddrLen(in.ctrl)
                        \/ in.size = 1
  <2> SUFFICES ASSUME Judged PROVE sent = NO_DEVICE <=> Asks /\ ~ in.dev
    BY DEF UnknownIsForwarded, G1Inv
  <2>1. AddrOK(in) <=> Asks
    <3>1. in \in Inputs /\ in.size \in Nat /\ in.size # 0
      <4>1. in \in Inputs /\ in.size \in Sizes /\ in.size # 0  BY DEF Judged, Inputs
      <4>2. Sizes \subseteq Nat  BY G1PacketAssumption
      <4> QED  BY <4>1, <4>2
    <3>2. CASE in.size >= Header  BY <3>1, <3>2, AddressBounds DEF Header
    <3>3. CASE in.size = 1  BY <3>1, <3>3, OneByte
    <3> QED  BY <3>1, <3>2, <3>3 DEF Header
  <2> HIDE DEF Asks
  <2>2. Parse(in) = 1 <=> AddrOK(in) /\ ~ in.dev
    BY DEF Parse, ERR_PKT, NO_DEVICE, NO_PKT_FMT
  <2>3. sent = 1 <=> Parse(in) = 1  BY DEF Judged, NotSent
  <2> QED  BY <2>1, <2>2, <2>3 DEF NO_DEVICE
<1> QED  BY <1>1, G1InvAlways, PTL
-----------------------------------------------------------------------------
(* The rule.                                                               *)

Attributes == {NoAttr} \cup [val : Buffers, len : 1 .. MaxLen, str : Texts]

RuleTypes ==
  /\ attrs \in [Topics -> Attributes]
  /\ now \in Nat /\ update_ts \in 0 .. now /\ report_ts \in 0 .. update_ts
  /\ shown \in [Topics -> 0 .. MaxLen] /\ rule \in Rules

\* A change that was not reported is younger than the last one that was.
NewsPending ==
  /\ Bytes(attrs) # reported /\ ~ missed => update_ts > report_ts
  /\ outcome = "skipped" => update_ts <= report_ts

\* A rendering is that of the bytes that were rendered last, which are still
\* in the buffer.
StringsAgree ==
  \A t \in Topics : shown[t] # 0 =>
    attrs[t] # NoAttr /\ attrs[t].str = NumToString(First(attrs[t].val, shown[t]))
                      /\ attrs[t].str # Empty

\* A verdict is that of the text of the attributes as they still are.
OutcomeOfText ==
  outcome \in {"none", "skipped"}
    \/ \E order \in Orders : outcome = Verdict(RuleText(attrs, order))

RuleInv == RuleTypes /\ NewsPending /\ StringsAgree /\ OutcomeOfText

(* A slice is the beginning of the buffer it has been copied into.         *)
LEMMA CopiedFirst ==
  ASSUME NEW buffer \in Buffers, NEW slice \in Slices
  PROVE  /\ Copied(buffer, slice) \in Buffers
         /\ Len(slice) \in 1 .. MaxLen
         /\ First(Copied(buffer, slice), Len(slice)) = slice
<1>1. slice \in Seq(0 .. Base - 1) /\ Len(slice) \in 1 .. MaxLen /\ MaxLen \in Nat
  BY RuleAssumption
<1>2. DOMAIN slice = 1 .. Len(slice)
      /\ \A i \in 1 .. Len(slice) : slice[i] \in 0 .. Base - 1
  <2> DEFINE S == 0 .. Base - 1
  <2>1. slice \in Seq(S)  BY <1>1
  <2> HIDE DEF S
  <2>2. DOMAIN slice = 1 .. Len(slice) /\ \A i \in 1 .. Len(slice) : slice[i] \in S
    BY <2>1
  <2> QED  BY <2>2 DEF S
<1>3. Copied(buffer, slice) \in Buffers  BY <1>2 DEF Copied, Buffers
<1>4. \A i \in 1 .. Len(slice) : i \in 1 .. MaxLen  BY <1>1
<1>5. \A i \in 1 .. Len(slice) : Copied(buffer, slice)[i] = slice[i]
  BY <1>2, <1>4 DEF Copied
<1>6. slice = [i \in 1 .. Len(slice) |-> slice[i]]  BY <1>1
<1> QED  BY <1>1, <1>3, <1>5, <1>6 DEF First

(* An attribute after a slice has come.                                    *)
LEMMA StoredAttr ==
  ASSUME NEW a \in Attributes, NEW slice \in Slices, NEW registered \in BOOLEAN,
         NEW b, b = UptDevAttr(a, slice, registered)
  PROVE  /\ b \in Attributes /\ b # NoAttr
         /\ BufferOf(b) = Copied(BufferOf(a), slice) /\ b.val = BufferOf(b)
         /\ b.len = Len(slice) /\ First(b.val, b.len) = slice
         /\ b.str = IF BufferOf(b) # BufferOf(a) /\ registered THEN NumToString(slice)
                    ELSE IF a = NoAttr THEN Empty ELSE a.str
<1> DEFINE val == Copied(BufferOf(a), slice)
<1>1. BufferOf(a) \in Buffers
  <2>1. AllOnes \in Buffers  BY RuleAssumption DEF AllOnes, Buffers
  <2> QED  BY <2>1 DEF BufferOf, Attributes
<1>2. val \in Buffers /\ Len(slice) \in 1 .. MaxLen /\ First(val, Len(slice)) = slice
  BY <1>1, CopiedFirst
<1>3. /\ b.val = val /\ b.len = Len(slice)
      /\ b.str = IF val # BufferOf(a) /\ registered THEN NumToString(slice)
                 ELSE IF a = NoAttr THEN Empty ELSE a.str
      /\ b = [val |-> b.val, len |-> b.len, str |-> b.str]
  BY DEF UptDevAttr
<1>4. b.str \in Texts
  <2>1. NumToString(slice) \in Texts /\ Empty \in Texts  BY DEF Texts
  <2> HIDE DEF val
  <2>2. a # NoAttr => a.str \in Texts  BY DEF Attributes
  <2> QED  BY <1>3, <2>1, <2>2
<1> HIDE DEF val
<1>5. b \in [val : Buffers, len : 1 .. MaxLen, str : Texts]
  BY <1>2, <1>3, <1>4
<1>6. b # NoAttr  BY <1>5, RuleAssumption
<1>7. BufferOf(b) = b.val  BY <1>6 DEF BufferOf
<1> QED  BY <1>2, <1>3, <1>5, <1>6, <1>7 DEF Attributes, val

(* A packet keeps the invariant.                                           *)
LEMMA RulePacket ==
  ASSUME RuleInv, NEW f \in Formats, NEW registered, NEW slice \in Carried(f),
         Packet(slice, registered)
  PROVE  RuleInv'
<1> DEFINE T == DOMAIN f
           as == [t \in Topics |-> IF t \in T
                    THEN UptDevAttr(attrs[t], slice[t], t \in registered) ELSE attrs[t]]
           changed == Bytes(as) # Bytes(attrs)
<1>1. /\ attrs' = as /\ update_ts' = IF changed THEN now ELSE update_ts
      /\ missed' = IF ~ changed THEN missed ELSE now = report_ts
      /\ shown' = [t \in Topics |-> IF Bytes(as)[t] = Bytes(attrs)[t] THEN shown[t]
                                    ELSE IF t \in registered THEN as[t].len ELSE 0]
      /\ rule' = rule /\ now' = now /\ report_ts' = report_ts /\ reported' = reported
      /\ \E order \in Orders : outcome' = CheckRuleEngine(as, now, update_ts', order)
  BY DEF Packet, Carried
<1>2. T \subseteq Topics /\ slice \in [T -> Slices]
  BY RuleAssumption DEF Carried
<1>3. ASSUME NEW t \in Topics
      PROVE  /\ as[t] \in Attributes
             /\ attrs[t] # NoAttr => as[t] # NoAttr
             /\ as[t] # NoAttr => as[t].len \in 1 .. MaxLen
  <2>1. attrs[t] \in Attributes  BY DEF RuleInv, RuleTypes
  <2>2. CASE t \in T
    <3> DEFINE known == t \in registered
    <3>1. slice[t] \in Slices /\ known \in BOOLEAN  BY <1>2, <2>2
    <3>2. as[t] = UptDevAttr(attrs[t], slice[t], known)  BY <2>2
    <3> HIDE DEF as, known
    <3>3. as[t] \in Attributes /\ as[t] # NoAttr  BY <2>1, <3>1, <3>2, StoredAttr
    <3> QED  BY <3>3 DEF Attributes
  <2>3. CASE t \notin T  BY <2>1, <2>3 DEF Attributes
  <2> QED  BY <2>2, <2>3
<1>4. RuleTypes'
  <2>1. as \in [Topics -> Attributes]  BY <1>3
  <2> HIDE DEF as, changed
  <2>2. update_ts' \in 0 .. now' /\ report_ts' \in 0 .. update_ts'
    <3>1. now \in Nat /\ update_ts \in 0 .. now /\ report_ts \in 0 .. update_ts
      BY DEF RuleInv, RuleTypes
    <3>2. update_ts' \in {now, update_ts}  BY <1>1
    <3> QED  BY <1>1, <3>1, <3>2
  <2>3. shown' \in [Topics -> 0 .. MaxLen]
    <3> SUFFICES ASSUME NEW t \in Topics
                 PROVE  (IF Bytes(as)[t] = Bytes(attrs)[t] THEN shown[t]
                         ELSE IF t \in registered THEN as[t].len ELSE 0) \in 0 .. MaxLen
      BY <1>1
    <3>1. shown[t] \in 0 .. MaxLen /\ 0 \in 0 .. MaxLen
      BY RuleAssumption DEF RuleInv, RuleTypes
    <3>2. Bytes(as)[t] # Bytes(attrs)[t] => as[t] # NoAttr
      BY <1>3 DEF Bytes, BufferOf
    <3>3. Bytes(as)[t] # Bytes(attrs)[t] => as[t].len \in 1 .. MaxLen  BY <1>3, <3>2
    <3> HIDE DEF as
    <3>4. 1 .. MaxLen \subseteq 0 .. MaxLen  OBVIOUS
    <3> QED  BY <3>1, <3>3, <3>4
  <2> QED  BY <1>1, <2>1, <2>2, <2>3 DEF RuleInv, RuleTypes
<1>5. NewsPending'
  <2>1. outcome' = "skipped" => update_ts' <= report_ts
    <3>1. PICK order \in Orders : outcome' = CheckRuleEngine(as, now, update_ts', order)
      BY <1>1
    <3> HIDE DEF as, changed
    <3>2. outcome' = "skipped" => ~ (update_ts' > report_ts)
      BY <3>1 DEF CheckRuleEngine, Verdict, Due
    <3>3. update_ts' \in Nat /\ report_ts' \in Nat /\ report_ts' = report_ts
      <4>1. report_ts' = report_ts  BY <1>1
      <4> QED  BY <1>4, <4>1 DEF RuleTypes
    <3> QED  BY <3>2, <3>3
  <2>2. Bytes(attrs)' = Bytes(as)  BY <1>1 DEF Bytes, BufferOf
  <2> HIDE DEF as
  <2>3. CASE changed
    <3>1. update_ts' = now /\ missed' = (now = report_ts)  BY <1>1, <2>3
    <3>2. now # report_ts => now > report_ts  BY DEF RuleInv, RuleTypes
    <3> QED  BY <1>1, <2>1, <3>1, <3>2 DEF NewsPending
  <2>4. CASE ~ changed
    <3>1. Bytes(attrs)' = Bytes(attrs) /\ missed' = missed /\ update_ts' = update_ts
          /\ reported' = reported /\ report_ts' = report_ts
      BY <1>1, <2>2, <2>4
    <3>2. Bytes(attrs) # reported /\ ~ missed => update_ts > report_ts
      BY DEF NewsPending, RuleInv
    <3>3. (Bytes(attrs) # reported)' = (Bytes(attrs) # reported)  BY <3>1
    <3> HIDE DEF changed
    <3> QED  BY <2>1, <3>1, <3>2, <3>3 DEF NewsPending
  <2> QED  BY <2>3, <2>4
<1>6. StringsAgree'
  <2> SUFFICES ASSUME NEW t \in Topics, shown'[t] # 0
               PROVE  /\ as[t] # NoAttr /\ as[t].str # Empty
                      /\ as[t].str = NumToString(First(as[t].val, shown'[t]))
    BY <1>1 DEF StringsAgree
  <2>1. /\ Bytes(as)[t] = BufferOf(as[t]) /\ Bytes(attrs)[t] = BufferOf(attrs[t])
        /\ shown'[t] = IF Bytes(as)[t] = Bytes(attrs)[t] THEN shown[t]
                       ELSE IF t \in registered THEN as[t].len ELSE 0
        /\ attrs[t] \in Attributes
    BY <1>1 DEF Bytes, RuleInv, RuleTypes
  <2>2. CASE t \notin T
    <3>1. as[t] = attrs[t]  BY <2>2
    <3> HIDE DEF as
    <3> QED  BY <2>1, <3>1 DEF RuleInv, StringsAgree
  <2>3. CASE t \in T
    <3> DEFINE known == t \in registered
    <3>1. slice[t] \in Slices /\ known \in BOOLEAN  BY <1>2, <2>3
    <3>2. as[t] = UptDevAttr(attrs[t], slice[t], known)  BY <2>3
    <3> HIDE DEF as, known
    <3>3. /\ as[t] # NoAttr /\ as[t].val = BufferOf(as[t])
          /\ as[t].len = Len(slice[t]) /\ First(as[t].val, as[t].len) = slice[t]
          /\ as[t].str = IF BufferOf(as[t]) # BufferOf(attrs[t]) /\ known
                         THEN NumToString(slice[t])
                         ELSE IF attrs[t] = NoAttr THEN Empty ELSE attrs[t].str
      BY <2>1, <3>1, <3>2, StoredAttr
    <3>4. CASE BufferOf(as[t]) # BufferOf(attrs[t])
      <4>1. t \in registered /\ shown'[t] = as[t].len  BY <2>1, <3>4
      <4>2. as[t].str = NumToString(slice[t])  BY <3>3, <3>4, <4>1 DEF known
      <4>3. NumToString(slice[t]) # Empty  BY <3>1, RuleAssumption
      <4> QED  BY <3>3, <4>1, <4>2, <4>3
    <3>5. CASE BufferOf(as[t]) = BufferOf(attrs[t])
      <4>1. shown'[t] = shown[t]  BY <2>1, <3>5
      <4>2. /\ attrs[t] # NoAttr /\ attrs[t].str # Empty
            /\ attrs[t].str = NumToString(First(attrs[t].val, shown[t]))
        BY <4>1 DEF RuleInv, StringsAgree
      <4>3. as[t].str = attrs[t].str /\ as[t].val = attrs[t].val
        BY <3>3, <3>5, <4>2 DEF BufferOf
      <4> QED  BY <3>3, <4>1, <4>2, <4>3
    <3> QED  BY <3>4, <3>5
  <2> QED  BY <2>2, <2>3
<1>7. OutcomeOfText'
  <2> HIDE DEF as, changed
  <2>1. PICK order \in Orders : outcome' = CheckRuleEngine(as, now, update_ts', order)
    BY <1>1
  <2>2. RuleText(attrs, order)' = RuleText(as, order)
    BY <1>1 DEF RuleText
  <2> QED  BY <2>1, <2>2 DEF OutcomeOfText, CheckRuleEngine
<1> QED  BY <1>4, <1>5, <1>6, <1>7 DEF RuleInv

(* The invariant is inductive.                                             *)
LEMMA RuleInvNext == RuleInv /\ [RuleNext]_rule_vars => RuleInv'
<1> SUFFICES ASSUME RuleInv, [RuleNext]_rule_vars PROVE RuleInv'
  OBVIOUS
<1>1. CASE UNCHANGED rule_vars
  <2>1. \A order : RuleText(attrs, order)' = RuleText(attrs, order)
    BY <1>1 DEF rule_vars, RuleText
  <2>2. OutcomeOfText'
    <3>1. outcome' = outcome  BY <1>1 DEF rule_vars
    <3> QED  BY <2>1, <3>1 DEF RuleInv, OutcomeOfText
  <2> QED  BY <1>1, <2>2 DEF rule_vars, RuleInv, RuleTypes, NewsPending, StringsAgree, Bytes, BufferOf
<1>2. CASE Tick
  <2>1. RuleTypes'  BY <1>2 DEF Tick, RuleInv, RuleTypes
  <2> QED  BY <1>2, <2>1 DEF Tick, RuleInv, NewsPending, StringsAgree, OutcomeOfText, Bytes, BufferOf
<1>3. CASE Report
  <2>1. RuleTypes'  BY <1>3 DEF Report, RuleInv, RuleTypes
  <2> QED  BY <1>3, <2>1 DEF Report, RuleInv, NewsPending, StringsAgree, OutcomeOfText, Bytes, BufferOf
<1> QED  BY <1>1, <1>2, <1>3, RulePacket DEF RuleNext

(* So it holds in every reachable state.                                   *)
LEMMA RuleInvAlways == RuleSpec => []RuleInv
<1>1. RuleInit => RuleInv
  BY RuleAssumption
  DEF RuleInit, RuleInv, RuleTypes, Attributes, NewsPending, StringsAgree, OutcomeOfText
<1> QED  BY <1>1, RuleInvNext, PTL DEF RuleSpec

(* For every clock, every set of values and whatever the evaluator does: a *)
(* device is passed over only if its values are those last reported, or    *)
(* changed once more in the second of the change that was (dev.c:382).     *)
THEOREM NewsAreJudged == RuleSpec => []NewsJudged
<1>1. RuleInv => NewsJudged
  BY DEF RuleInv, RuleTypes, NewsPending, NewsJudged
<1> QED  BY <1>1, RuleInvAlways, PTL

(* The attributes with their numbers for renderings.                       *)
Numbered(as) ==
  [t \in Topics |-> IF as[t] = NoAttr THEN NoAttr
                    ELSE [as[t] EXCEPT !.str = Number(Value(as[t]))]]

\* What the evaluator is given to judge are the numbers of the attributes.
NumbersAreJudged ==
  (\A t \in Known(attrs) : IsShown(t)) =>
    outcome \in {"none", "skipped"}
      \/ \E order \in Orders : outcome = Verdict(RuleText(Numbered(attrs), order))

(* An attribute whose number is shown has its number for a rendering.      *)
LEMMA ShownNumbers ==
  ASSUME RuleInv, \A t \in Known(attrs) : IsShown(t)
  PROVE  /\ Numbered(attrs) = attrs /\ Rendered(attrs)
         /\ Strings(attrs) = Values(attrs)
<1>1. ASSUME NEW t \in Topics, attrs[t] # NoAttr
      PROVE  /\ attrs[t].str = Number(Value(attrs[t])) /\ attrs[t].str # Empty
             /\ [attrs[t] EXCEPT !.str = Number(Value(attrs[t]))] = attrs[t]
  <2>1. /\ shown[t] = attrs[t].len /\ attrs[t].len \in {1, 2, 4}
        /\ attrs[t] \in [val : Buffers, len : 1 .. MaxLen, str : Texts]
    BY <1>1 DEF Known, IsShown, RuleInv, RuleTypes, Attributes
  <2>2. attrs[t].str = NumToString(Value(attrs[t])) /\ attrs[t].str # Empty
    BY <1>1, <2>1 DEF RuleInv, StringsAgree, Value
  <2>3. Len(Value(attrs[t])) = attrs[t].len
    <3>1. Value(attrs[t]) = [i \in 1 .. attrs[t].len |-> attrs[t].val[i]]
      BY DEF Value, First
    <3>2. attrs[t].len \in Nat  BY <2>1
    <3> HIDE DEF Value
    <3>3. Value(attrs[t]) \in Seq({attrs[t].val[i] : i \in 1 .. attrs[t].len})
          /\ DOMAIN Value(attrs[t]) = 1 .. attrs[t].len
      BY <3>1, <3>2
    <3> QED  BY <3>2, <3>3
  <2>4. attrs[t].str = Number(Value(attrs[t]))
    BY <2>1, <2>2, <2>3 DEF NumToString
  <2> QED  BY <2>1, <2>2, <2>4
<1>2. Numbered(attrs) = attrs  BY <1>1 DEF Numbered, RuleInv, RuleTypes
<1>3. Rendered(attrs)  BY <1>1 DEF Rendered, Known
<1>4. Strings(attrs) = Values(attrs)  BY <1>1 DEF Strings, Values
<1> QED  BY <1>2, <1>3, <1>4

(* For every rule, evaluator, clock, order of the attributes, byte and     *)
(* length: a verdict is what the evaluator makes of the rule behind a text *)
(* in which every attribute the device still has is assigned the number    *)
(* its bytes denote, unless there is one that is not written as its number *)
(* (dev.c:50-108, 336-410, attr.c:13-41).                                  *)
THEOREM VerdictsAreOfNumbers == RuleSpec => []NumbersAreJudged
<1>1. RuleInv => NumbersAreJudged
  <2> SUFFICES ASSUME RuleInv, \A t \in Known(attrs) : IsShown(t)
               PROVE  outcome \in {"none", "skipped"}
                        \/ \E order \in Orders :
                             outcome = Verdict(RuleText(Numbered(attrs), order))
    BY DEF NumbersAreJudged
  <2>1. Numbered(attrs) = attrs  BY ShownNumbers
  <2> QED  BY <2>1 DEF RuleInv, OutcomeOfText
<1> QED  BY <1>1, RuleInvAlways, PTL

(* So with an evaluator that understands the texts, as the run checks of   *)
(* the one the gateway has, a verdict is that of the rule on the numbers.  *)
COROLLARY VerdictsAreOfValues == RuleSpec /\ []TextUnderstood => []VerdictOfValues
<1>1. RuleInv /\ TextUnderstood => VerdictOfValues
  <2> SUFFICES ASSUME RuleInv, TextUnderstood, NEW order \in Orders,
                      outcome = Verdict(RuleText(attrs, order))
               PROVE  VerdictOfValues
    BY DEF RuleInv, OutcomeOfText, VerdictOfValues
  <2>1. LET e == Evaluated(RuleText(attrs, order))
        IN  IF Rendered(attrs)
            THEN e.ok /\ (e.value # 0 <=> Satisfied(rule, Strings(attrs)))
            ELSE ~ e.ok
    BY DEF TextUnderstood
  <2> QED  BY <2>1, ShownNumbers DEF VerdictOfValues, Verdict
<1> QED  BY <1>1, RuleInvAlways, PTL
=============================================================================
