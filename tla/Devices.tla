------------------------------ MODULE Devices -------------------------------
(***************************************************************************)
(* The device registry of an edge gateway (src/src/dev.c): registered      *)
(* devices, their attribute values, the list that orders them by their     *)
(* last sign of life, the sweep that ages silent devices out, and the      *)
(* periodic report of changed devices to the application.                  *)
(*                                                                         *)
(* Messages and the periodic work run in the management thread under the   *)
(* write lock, packets in the application thread under the read lock, so   *)
(* every handler is one step.  The clock is time(NULL), in seconds; it     *)
(* moves between steps and may tick once inside a handler that reads it    *)
(* more than once.                                                         *)
(*                                                                         *)
(* What a packet says and what the catalogue knows of its attributes are   *)
(* inputs: any slices, each registered as a number, as a string, or not    *)
(* registered at all.                                                      *)
(***************************************************************************)
EXTENDS Integers, Sequences, FiniteSets, SequencesExt

CONSTANTS
  Oids,         \* device identities: access type and address
  Pdts,         \* product topics
  Topics,       \* attribute topics
  Vals,         \* values of an attribute
  FF,           \* the value whose bytes are all 0xFF
  Kinds,        \* what the attribute table says of a topic
  Modes,        \* up_mode values the operator sets
  AgeInterval,  \* get_dev_age_interval(): 1200
  SweepGap,     \* seconds between sweeps: 60
  UpInterval,   \* get_pkt_up_interval(): 10
  MaxLag,       \* seconds the management loop may take for one round
  MaxTime,      \* bound of the model: the clock stops here
  NoDev, NoAttr, Freed, Empty, NotSent

VARIABLES
  now,       \* time(NULL); the first second is 1, 0 means "never"
  lag,       \* seconds since the last round of the management loop
  products,  \* products of g_pdt_map
  dev,       \* g_dev_map: dev[o] is a device or NoDev
  age,       \* g_dev_age_head, oldest first
  mode,      \* g_edge_mgt_ctl.up_mode
  lastSweep, \* last_sec of do_device_ageing
  lastUp,    \* last_sec of do_device_update
  since,     \* when the operator set the periodic mode last (history)
  status     \* "running", "crashed", or "corrupt" after a write to freed memory

vars == <<now, lag, products, dev, age, mode, lastSweep, lastUp, since, status>>

\* An attribute value: the bytes, their rendering, and the rendering the
\* application was sent last (which no variable of the program records).
AttrVal == [val : Vals, str : Vals \cup {Empty}, sent : Vals \cup {Empty, NotSent}]

\* A device.  repAt is the second in which it was last reported, which the
\* program does not record: report_ts takes the time of the change.
Device == [ts : Nat, update_ts : Nat, report_ts : Nat, repAt : Nat,
           pdt : Pdts \cup {Freed}, attrs : [Topics -> AttrVal \cup {NoAttr}]]

ASSUME DevicesAssumption ==
  /\ AgeInterval \in Nat /\ SweepGap \in Nat /\ UpInterval \in Nat
  /\ MaxLag \in Nat /\ MaxTime \in Nat
  /\ FF \in Vals
  /\ Kinds \subseteq {"none", "NUM", "STR"}
  /\ Modes # {} /\ Modes \subseteq {"ATTR", "ATTR_PERIODIC", "PKT"}

\* The values that stand for "none" are none of the others.
ASSUME NoneAssumption ==
  /\ NoDev \notin Device
  /\ NoAttr \notin AttrVal
  /\ Freed \notin Pdts

Registered == {o \in Oids : dev[o] # NoDev}
Running == status = "running"
-----------------------------------------------------------------------------
\* upt_dev_attr with add_dev_attr: an attribute seen first starts with bytes
\* of 0xFF; only a value that differs is stored, stamped and rendered.
\* Rendering needs the attribute table: a topic that is not there keeps the
\* rendering it had.
OldVal(a) == IF a = NoAttr THEN FF ELSE a.val

UptDevAttr(a, v, kind) ==
  [val  |-> v,
   str  |-> IF v # OldVal(a) /\ kind = "NUM" THEN v
            ELSE IF a = NoAttr THEN Empty ELSE a.str,
   sent |-> IF a = NoAttr THEN NotSent ELSE a.sent]

\* report_dev_attr: the application receives the rendering.
ReportAttr(a) == IF a = NoAttr THEN a ELSE [a EXCEPT !.sent = a.str]

\* Mutant: the device is stamped, its attributes are not walked.
UpdateDevUnsent(d, t) ==
  IF d.update_ts > d.report_ts
  THEN [d EXCEPT !.report_ts = d.update_ts, !.repAt = t]
  ELSE d

\* hash_update_dev: everything a changed device has is reported.
UpdateDev(d, t) ==
  IF d.update_ts > d.report_ts
  THEN [d EXCEPT !.attrs = [u \in Topics |-> ReportAttr(d.attrs[u])],
                 !.report_ts = d.update_ts, !.repAt = t]
  ELSE d

\* Mutant: one second early.
ExpiredEarly(d, t) == t - d.ts >= AgeInterval

\* A device is silent for longer than the age interval.
Expired(d, t) == t - d.ts > AgeInterval

\* Mutant: the first device is looked at, the rest of the list is not.
SweepLengthOne(t) ==
  IF Len(age) > 0 /\ Expired(dev[age[1]], t) THEN 1 ELSE 0

\* How far do_device_ageing walks the list: to the first device that is not
\* expired.
SweepLength(t) ==
  CHOOSE n \in 0 .. Len(age) :
    /\ \A i \in 1 .. n : Expired(dev[age[i]], t)
    /\ n < Len(age) => ~ Expired(dev[age[n + 1]], t)

\* Mutant: the age interval is taken for the report interval.
ReportDueWrong(t) ==
  mode = "ATTR_PERIODIC" /\ lastUp # 0 /\ t - lastUp > AgeInterval

\* Both intervals run from the round that last found them over.
SweepDue == lastSweep # 0 /\ now - lastSweep > SweepGap
ReportDue(t) ==
  mode = "ATTR_PERIODIC" /\ lastUp # 0 /\ t - lastUp > UpInterval

\* Unlinking a device from the list of a product that was freed writes to
\* freed memory; what that does depends on what the memory became.
Unlinked(D) ==
  IF \E o \in D : dev[o].pdt = Freed THEN status' \in {"running", "corrupt"}
                                     ELSE status' = "running"
-----------------------------------------------------------------------------
Init ==
  /\ now = 1 /\ lag = 0
  /\ products = {}
  /\ dev = [o \in Oids |-> NoDev]
  /\ age = << >>
  /\ mode \in Modes
  /\ lastSweep = 0 /\ lastUp = 0 /\ since = 1
  /\ status = "running"

\* The clock.  The management loop comes round at least every MaxLag seconds.
Tick ==
  /\ Running /\ now < MaxTime /\ lag < MaxLag
  /\ now' = now + 1 /\ lag' = lag + 1
  /\ UNCHANGED <<products, dev, age, mode, lastSweep, lastUp, since, status>>

AddPdt(p) ==
  /\ Running /\ p \notin products
  /\ products' = products \cup {p}
  /\ UNCHANGED <<now, lag, dev, age, mode, lastSweep, lastUp, since, status>>

\* del_pdt: the loop over the devices of the product has no body, so they
\* stay registered and keep a pointer to the product that is freed.
DelPdt(p) ==
  /\ Running /\ p \in products
  /\ products' = products \ {p}
  /\ dev' = [o \in Oids |-> IF o \in Registered /\ dev[o].pdt = p
                            THEN [dev[o] EXCEPT !.pdt = Freed] ELSE dev[o]]
  /\ UNCHANGED <<now, lag, age, mode, lastSweep, lastUp, since, status>>

\* Mutant: the device is stamped with the second in which it expires.
NewDeviceExpiry(p) ==
  [ts |-> now + AgeInterval, update_ts |-> 0, report_ts |-> 0, repAt |-> 0,
   pdt |-> p, attrs |-> [t \in Topics |-> NoAttr]]

\* __add_dev: what is filled in.
NewDevice(p) ==
  [ts |-> now, update_ts |-> 0, report_ts |-> 0, repAt |-> 0,
   pdt |-> p, attrs |-> [t \in Topics |-> NoAttr]]

\* Mutant: a second copy of a registered device replaces the first.
AddDevAgain(o, p) ==
  /\ Running /\ p \in products /\ Len(age) < 2 * Cardinality(Oids)
  /\ dev' = [dev EXCEPT ![o] = NewDevice(p)]
  /\ age' = Append(age, o)
  /\ UNCHANGED <<now, lag, products, mode, lastSweep, lastUp, since, status>>

\* add_dev and __add_dev: a new device of a known product goes to the end of
\* the age list; a device that is registered is left as it is.
AddDev(o, p) ==
  /\ Running /\ p \in products /\ o \notin Registered
  /\ dev' = [dev EXCEPT ![o] = NewDevice(p)]
  /\ age' = Append(age, o)
  /\ UNCHANGED <<now, lag, products, mode, lastSweep, lastUp, since, status>>

PositionOf(o) == CHOOSE i \in 1 .. Len(age) : age[i] = o

\* del_dev and __del_dev.
DelDev(o) ==
  /\ Running /\ o \in Registered
  /\ dev' = [dev EXCEPT ![o] = NoDev]
  /\ age' = RemoveAt(age, PositionOf(o))
  /\ Unlinked({o})
  /\ UNCHANGED <<now, lag, products, mode, lastSweep, lastUp, since>>

\* Mutant: the time is stamped, the device stays where it is.
MovedNowhere(o) == age

\* fresh_dev moves the device to the end of the age list.
Moved(o) == Append(RemoveAt(age, PositionOf(o)), o)

\* Has the periodic mode been set, at the second t?
Since(t) == IF mode # "ATTR_PERIODIC" /\ mode' = "ATTR_PERIODIC" THEN t ELSE since

\* The second a handler has come to when it reads the clock again.
Later == {t \in {now, now + 1} : t = now \/ (t <= MaxTime /\ lag < MaxLag)}

\* What is left of parse_g1_pkt and parse_msg when the device is found.  It is
\* freshened at the second the packet comes in, then each slice of a known
\* format is stored; every slice reads the clock again, up to `later', for
\* the time of the sign of life (heard) and for that of a change (changed).
\* Without a format (an empty slice) only the freshening happens.  Every slice
\* reads the up mode again too, which the operator may change meanwhile: the
\* slices that saw ATTR are reported at once (told).  Rendering a string
\* attribute calls a function pointer that attr.c:43-50 leaves NULL.
Packet(o, slice, kind, told, later) ==
  LET d       == dev[o]
      T       == DOMAIN slice
      Changed == {t \in T : slice[t] # OldVal(d.attrs[t])}
      Stored  == [t \in Topics |->
                    IF t \notin T THEN d.attrs[t]
                    ELSE LET a == UptDevAttr(d.attrs[t], slice[t], kind[t])
                         IN  IF t \in told THEN ReportAttr(a) ELSE a]
  IN  /\ Running /\ o \in Registered
      /\ mode' \in Modes
      /\ mode # "ATTR" /\ mode' # "ATTR" => told = {}
      /\ mode = "ATTR" /\ mode' = "ATTR" => told = T
      /\ since' = Since(later)
      /\ age' = Moved(o)
      /\ \E heard, changed \in now .. later :
           dev' = [dev EXCEPT ![o] =
             [d EXCEPT !.ts = IF T = {} THEN now ELSE heard,
                       !.update_ts = IF Changed = {} THEN @ ELSE changed,
                       !.attrs = Stored]]
      /\ now' = later /\ lag' = lag + (later - now)
      /\ status' = IF \E t \in Changed : kind[t] = "STR" THEN "crashed"
                                                         ELSE "running"
      /\ UNCHANGED <<products, lastSweep, lastUp>>

\* do_device_ageing and do_device_update, one after the other in a round of
\* the management loop; the second reads the clock again.  The first round
\* only records the time.
Periodic ==
  /\ Running
  /\ \E later \in Later :
       LET n    == IF SweepDue THEN SweepLength(now) ELSE 0
           Gone == {age[i] : i \in 1 .. n}
       IN  /\ now' = later /\ lag' = later - now
           /\ age' = SubSeq(age, n + 1, Len(age))
           /\ dev' = [o \in Oids |->
                IF o \in Gone THEN NoDev
                ELSE IF ReportDue(later) /\ o \in Registered
                     THEN UpdateDev(dev[o], later)
                ELSE dev[o]]
           /\ Unlinked(Gone)
           /\ lastUp' = IF mode = "ATTR_PERIODIC" /\ (lastUp = 0 \/ ReportDue(later))
                        THEN later ELSE lastUp
  /\ lastSweep' = IF lastSweep = 0 \/ SweepDue THEN now ELSE lastSweep
  /\ UNCHANGED <<products, mode, since>>

\* The operator sets the up mode; no lock is taken.
SetMode(m) ==
  /\ Running /\ m # mode
  /\ mode' = m
  /\ since' = Since(now)
  /\ UNCHANGED <<now, lag, products, dev, age, lastSweep, lastUp, status>>

\* After a crash, or a write to freed memory, nothing more is said.
Halted == ~ Running /\ UNCHANGED vars

Next ==
  \/ Tick
  \/ Periodic
  \/ Halted
  \/ \E m \in Modes : SetMode(m)
  \/ \E p \in Pdts : AddPdt(p) \/ DelPdt(p)
  \/ \E o \in Oids :
       \/ \E p \in Pdts : AddDev(o, p)
       \/ DelDev(o)
       \/ \E T \in SUBSET Topics, later \in Later :
            \E slice \in [T -> Vals], kind \in [T -> Kinds], told \in SUBSET T :
              Packet(o, slice, kind, told, later)

Spec == Init /\ [][Next]_vars
-----------------------------------------------------------------------------
\* Types, and no device is stamped with a second that has not come.
TypeOK ==
  /\ now \in Nat /\ now >= 1 /\ lag \in Nat
  /\ products \subseteq Pdts
  /\ dev \in [Oids -> Device \cup {NoDev}]
  /\ age \in Seq(Oids)
  /\ mode \in Modes
  /\ lastSweep \in 0 .. now /\ lastUp \in 0 .. now /\ since \in 1 .. now
  /\ status \in {"running", "crashed", "corrupt"}
  /\ \A o \in Registered : dev[o].ts <= now /\ dev[o].update_ts <= now

\* The age list holds every registered device exactly once and no other
\* (dev.c:132,156-158,199-206): the sweep never meets a freed device and
\* misses none.
AgeListExact ==
  /\ {age[i] : i \in 1 .. Len(age)} = Registered
  /\ \A i, j \in 1 .. Len(age) : i # j => age[i] # age[j]

\* The age list is in the order of the last signs of life, although packets
\* and registrations stamp devices at seconds of their own (dev.c:83,131,150):
\* this is what lets the sweep stop at the first device it keeps
\* (dev.c:322-329).
AgeListSorted ==
  \A i, j \in 1 .. Len(age) : i < j => dev[age[i]].ts <= dev[age[j]].ts

\* A round of the management loop removes the devices that have been silent
\* for more than the age interval, all of them when a sweep is due, and never
\* a device that gave a sign of life since (dev.c:309-334).
SweepExact ==
  [][Periodic =>
       \A o \in Registered :
         (dev'[o] = NoDev) <=> (SweepDue /\ now - dev[o].ts > AgeInterval)]_vars

\* No device outlives its last sign of life by more than the age interval,
\* one sweep gap and one lag of the management loop, whatever is added,
\* deleted or heard in between (dev.c:309-334 with mgt.c:262-269).
SilenceBounded ==
  Running /\ MaxLag <= AgeInterval => \A o \in Registered :
    now - dev[o].ts <= AgeInterval + SweepGap + MaxLag

\* What the application was sent last is what the device shows now, except
\* for a device that is still to be reported, or one whose last change fell
\* into the very second in which it was reported: report_ts takes the time
\* of the change, so a second change in that second looks reported
\* (dev.c:279-288).
ReportsCurrent ==
  \A o \in Registered :
    LET d == dev[o]
    IN  (\E t \in Topics : d.attrs[t] # NoAttr /\ d.attrs[t].sent # d.attrs[t].str
                           /\ d.attrs[t].str # Empty)
          => \/ d.update_ts > d.report_ts
             \/ d.update_ts = d.repAt

\* A changed device is reported within one report interval and two lags of
\* the management loop after the change, or after the operator set the
\* periodic mode if that was later, however often the mode was left and set
\* again (dev.c:290-307): one lag until the first round, which only records
\* the time, one until the round that finds the interval over.
ReportBounded ==
  Running /\ mode = "ATTR_PERIODIC" =>
    \A o \in Registered :
      dev[o].update_ts > dev[o].report_ts =>
        \/ now - dev[o].update_ts <= UpInterval + 2 * MaxLag
        \/ now - since <= UpInterval + 2 * MaxLag

\* No packet stops the program: a token may have either of the two attribute
\* types the operator interface offers.
NeverCrashes == status # "crashed"
=============================================================================
