------------------------------ MODULE Mailbox -------------------------------
(***************************************************************************)
(* How a packet gets from the CLI thread (src/app/cli_main.c) to the       *)
(* application thread (src/app/main.c): three variables, a mutex and a     *)
(* condition.  The application thread clears the variables without the     *)
(* mutex before it waits, the condition is awaited without a predicate,    *)
(* and packets from a file or from the command line share one buffer that  *)
(* is refilled without the mutex.                                          *)
(*                                                                         *)
(* There is one CLI thread, so commands come one after the other.  Stores  *)
(* that race are interleaved one variable at a time, in any order: the     *)
(* compiler may reorder them between two calls.  A waiting thread may wake *)
(* without a signal (POSIX).  The length and the module of a packet are    *)
(* named by the packet they belong to.                                     *)
(***************************************************************************)
EXTENDS Integers, Sequences, FiniteSets

CONSTANTS
  Builtin,    \* packets of pkt_array
  Typed,      \* packets from a file or from the command line
  Null,       \* NULL, and the cleared length and module
  Buffer,     \* a pointer to g_app_file_pkt
  MaxHanded   \* bound of the model: packets handed over

VARIABLES
  pkt, len, module, \* g_app_pkt, g_app_pkt_len, g_app_pkt_module
  buf,              \* g_app_file_pkt: the packet it holds, Null if blank
  mutex,            \* g_app_mutex: "free", "app" or "cli"
  app,              \* where the application thread is
  toClear,          \* variables it has still to clear
  cli,              \* where the CLI thread is
  cur,              \* the packet of the command being executed
  toStore,          \* variables the CLI thread has still to store
  \* History: the number of the packet pkt points to (0: none), the packets
  \* handed over, whether the last wake-up was by a signal, the last number
  \* that was signalled to a waiting thread, what has been processed.
  no, handed, signalled, heard, got

slot == <<pkt, len, module, no>>
vars == <<slot, buf, mutex, app, toClear, cli, cur, toStore,
          handed, signalled, heard, got>>

ASSUME MailboxAssumption ==
  /\ Builtin \cap Typed = {}
  /\ Null \notin Builtin \cup Typed
  /\ Buffer \notin Builtin \cup Typed \cup {Null}
  /\ MaxHanded \in Nat

Packets == Builtin \cup Typed
Fields == {"pkt", "len", "module"}

\* What g_app_pkt is set to.
Pointer(p) == IF p \in Builtin THEN p ELSE Buffer

\* What is found where g_app_pkt points to.
Content(p) == IF p = Buffer THEN buf ELSE p

\* What the application works on while it holds the mutex.
Seen == [no : 1 .. MaxHanded, len : Packets, module : Packets \cup {Null},
         content : Packets \cup {Null}, signalled : BOOLEAN]
-----------------------------------------------------------------------------
Init ==
  /\ pkt = Null /\ len = Null /\ module = Null /\ no = 0
  /\ buf = Null
  /\ mutex = "free"
  /\ app = "clear" /\ toClear = Fields
  /\ cli = "idle" /\ cur = Null /\ toStore = {}
  /\ handed = <<>> /\ signalled = FALSE /\ heard = 0 /\ got = <<>>

\* Mutant: the reset stands before the loop.
ClearedOnce == {}

\* app_run, main.c:87-89.
Cleared == Fields

\* One of the three stores, without the mutex.
Clear(x) ==
  /\ app = "clear"
  /\ x \in toClear
  /\ toClear' = toClear \ {x}
  /\ IF x = "pkt" THEN pkt' = Null /\ no' = 0 ELSE UNCHANGED <<pkt, no>>
  /\ len' = IF x = "len" THEN Null ELSE len
  /\ module' = IF x = "module" THEN Null ELSE module
  /\ UNCHANGED <<buf, mutex, app, cli, cur, toStore, handed, signalled, heard, got>>

\* pthread_mutex_lock and the release in pthread_cond_wait.
Wait ==
  /\ app = "clear" /\ toClear = {}
  /\ mutex = "free"
  /\ app' = "waiting"
  /\ UNCHANGED <<slot, buf, mutex, toClear, cli, cur, toStore,
                 handed, signalled, heard, got>>

SpuriousWake ==
  /\ app = "waiting"
  /\ app' = "woken"
  /\ signalled' = FALSE
  /\ UNCHANGED <<slot, buf, mutex, toClear, cli, cur, toStore, handed, heard, got>>

\* pthread_cond_wait returns with the mutex.  A packet that is there is
\* processed: print_pkt and edge_rcv_pkt begin to read it.
Resume ==
  /\ app = "woken"
  /\ mutex = "free"
  /\ IF pkt # Null /\ len # Null
     THEN /\ mutex' = "app" /\ app' = "processing"
          /\ got' = Append(got, [no |-> no, len |-> len, module |-> module,
                                 content |-> Content(pkt), signalled |-> signalled])
          /\ UNCHANGED toClear
     ELSE /\ app' = "clear" /\ toClear' = Cleared
          /\ UNCHANGED <<mutex, got>>
  /\ UNCHANGED <<slot, buf, cli, cur, toStore, handed, signalled, heard>>

\* The packet has been processed; the mutex is released.
Finish ==
  /\ app = "processing"
  /\ mutex' = "free"
  /\ app' = "clear" /\ toClear' = Cleared
  /\ UNCHANGED <<slot, buf, cli, cur, toStore, handed, signalled, heard, got>>
-----------------------------------------------------------------------------
\* A command arrives.  For a file or a typed packet the buffer is blanked.
Command(p) ==
  /\ cli = "idle"
  /\ Len(handed) < MaxHanded
  /\ cur' = p
  /\ IF p \in Builtin
     THEN cli' = "lock" /\ UNCHANGED buf
     ELSE cli' = "fill" /\ buf' = Null
  /\ UNCHANGED <<slot, mutex, app, toClear, toStore, handed, signalled, heard, got>>

\* fread or ch_to_hex, which may yield nothing.
Fill ==
  /\ cli = "fill"
  /\ \/ cli' = "lock" /\ buf' = cur /\ UNCHANGED cur
     \/ cli' = "idle" /\ cur' = Null /\ UNCHANGED buf
  /\ UNCHANGED <<slot, mutex, app, toClear, toStore, handed, signalled, heard, got>>

\* Mutant: the mutex is not awaited.
MayLockAlways == TRUE

\* pthread_mutex_lock returns.
MayLock == mutex = "free"

Lock ==
  /\ cli = "lock"
  /\ MayLock
  /\ mutex' = "cli"
  /\ cli' = "store" /\ toStore' = Fields
  /\ UNCHANGED <<slot, buf, app, toClear, cur, handed, signalled, heard, got>>

\* One of the three stores.
Store(x) ==
  /\ cli = "store"
  /\ x \in toStore
  /\ toStore' = toStore \ {x}
  /\ IF x = "pkt" THEN pkt' = Pointer(cur) /\ no' = Len(handed) + 1
                  ELSE UNCHANGED <<pkt, no>>
  /\ len' = IF x = "len" THEN cur ELSE len
  /\ module' = IF x = "module" THEN cur ELSE module
  /\ UNCHANGED <<buf, mutex, app, toClear, cli, cur, handed, signalled, heard, got>>

\* Mutant: the mutex is released before the last store.
StoredEarly == Cardinality(toStore) <= 1

\* All three variables are stored.
Stored == toStore = {}

\* pthread_cond_signal and pthread_mutex_unlock.
Signal ==
  /\ cli = "store"
  /\ Stored
  /\ mutex' = "free"
  /\ cli' = "idle" /\ cur' = Null /\ toStore' = {}
  /\ handed' = Append(handed, cur)
  /\ IF app = "waiting"
     THEN app' = "woken" /\ signalled' = TRUE /\ heard' = Len(handed')
     ELSE UNCHANGED <<app, signalled, heard>>
  /\ UNCHANGED <<slot, buf, toClear, got>>

Next ==
  \/ \E x \in Fields : Clear(x) \/ Store(x)
  \/ Wait \/ SpuriousWake \/ Resume \/ Finish
  \/ \E p \in Packets : Command(p)
  \/ Fill \/ Lock \/ Signal

Spec == Init /\ [][Next]_vars
-----------------------------------------------------------------------------

\* However the threads interleave, and whatever wake-ups there are, a packet
\* is processed at most once and packets are processed in the order in which
\* they were handed over (main.c:87-100 against cli_main.c:154-159).
OnceInOrder ==
  \A i, j \in 1 .. Len(got) : i < j => got[i].no < got[j].no

\* The packet handed over under the number of a processed one.
HandedAs(n) == IF n \in DOMAIN handed THEN handed[n] ELSE cur

\* After a wake-up by a signal the pointer, the length and the module belong
\* to the same packet, although they are cleared without the mutex; and the
\* contents are that packet's unless the buffer is shared (main.c:87-89).
SignalledIntact ==
  \A i \in 1 .. Len(got) :
    LET g == got[i] IN
    g.signalled =>
      /\ g.len = HandedAs(g.no) /\ g.module = HandedAs(g.no)
      /\ g.len \in Builtin => g.content = g.len

\* A packet signalled to a waiting application is processed before it waits
\* again, or a later one is: nobody clears it in between (main.c:91-100).
HeardIsProcessed ==
  app = "waiting" /\ heard > 0
    => \E i \in 1 .. Len(got) : got[i].no >= heard
=============================================================================
