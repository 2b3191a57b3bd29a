--------------------------- MODULE DevicesProofs ----------------------------
(***************************************************************************)
(* Theorems about the device registry, for every set of devices, products, *)
(* topics and values and every interval: the age list holds each           *)
(* registered device once, in the order of the last signs of life, and so  *)
(* a sweep removes exactly the devices that have been silent too long.     *)
(***************************************************************************)
EXTENDS Devices, ListLemmas

(* The inductive invariant: each part needs the ones before it.            *)
Inv == TypeOK /\ AgeListExact /\ AgeListSorted

(* A registered device is a device.                                        *)
LEMMA RegisteredIsDevice ==
  ASSUME TypeOK, NEW o \in Registered
  PROVE  dev[o] \in Device /\ o \in Oids /\ dev[o].ts \in Nat /\ dev[o].ts <= now
BY NoneAssumption DEF TypeOK, Registered, Device

(* Storing or reporting a value yields an attribute value.                 *)
LEMMA AttrTyped ==
  ASSUME NEW a \in AttrVal \cup {NoAttr}, NEW v \in Vals, NEW kind
  PROVE  /\ UptDevAttr(a, v, kind) \in AttrVal
         /\ ReportAttr(a) \in AttrVal \cup {NoAttr}
<1>1. UptDevAttr(a, v, kind) \in AttrVal
  BY DEF UptDevAttr, AttrVal
<1>2. ReportAttr(a) \in AttrVal \cup {NoAttr}
  BY DEF ReportAttr, AttrVal
<1> QED  BY <1>1, <1>2

(* Reporting a device yields a device that gave its sign of life when the  *)
(* old one did.                                                            *)
LEMMA UpdateDevTyped ==
  ASSUME NEW d \in Device, NEW t \in Nat
  PROVE  /\ UpdateDev(d, t) \in Device
         /\ UpdateDev(d, t).ts = d.ts
         /\ UpdateDev(d, t).update_ts = d.update_ts
<1> DEFINE as == [u \in Topics |-> ReportAttr(d.attrs[u])]
<1>1. as \in [Topics -> AttrVal \cup {NoAttr}]
  BY AttrTyped DEF Device, ReportAttr, AttrVal
<1> HIDE DEF as
<1>2. UpdateDev(d, t) =
        IF d.update_ts > d.report_ts
        THEN [d EXCEPT !.attrs = as, !.report_ts = d.update_ts, !.repAt = t]
        ELSE d
  BY DEF UpdateDev, as
<1> QED  BY <1>1, <1>2 DEF Device

(* The walk of a sweep ends: it has passed expired devices only, and the   *)
(* device it stopped at, if any, is not expired.                           *)
LEMMA SweepLengthStops ==
  ASSUME age \in Seq(Oids), NEW t
  PROVE  /\ SweepLength(t) \in 0 .. Len(age)
         /\ \A i \in 1 .. SweepLength(t) : Expired(dev[age[i]], t)
         /\ SweepLength(t) < Len(age) =>
              ~ Expired(dev[age[SweepLength(t) + 1]], t)
<1> DEFINE Young == {i \in 1 .. Len(age) : ~ Expired(dev[age[i]], t)}
           Stop(n) == /\ \A i \in 1 .. n : Expired(dev[age[i]], t)
                      /\ n < Len(age) => ~ Expired(dev[age[n + 1]], t)
<1>1. Len(age) \in Nat  OBVIOUS
<1>2. \E n \in 0 .. Len(age) : Stop(n)
  <2>1. CASE Young = {}
    <3>1. Stop(Len(age))  BY <1>1, <2>1
    <3> QED  BY <1>1, <3>1
  <2>2. CASE Young # {}
    <3>1. Young \in SUBSET Nat  BY <1>1
    <3>2. PICK m \in Young : \A y \in Young : m =< y
      BY <2>2, <3>1, LeastExists
    <3>3. m - 1 \in 0 .. Len(age) /\ m \in 1 .. Len(age)  BY <1>1
    <3>4. ASSUME NEW i \in 1 .. m - 1 PROVE Expired(dev[age[i]], t)
      <4>1. i \in 1 .. Len(age) /\ ~ (m =< i)  BY <1>1, <3>3
      <4> QED  BY <3>2, <4>1
    <3>5. (m - 1) + 1 = m /\ ~ Expired(dev[age[m]], t)  BY <3>3
    <3>6. Stop(m - 1)  BY <3>4, <3>5
    <3> QED  BY <3>3, <3>6
  <2> QED  BY <2>1, <2>2
<1>3. SweepLength(t) = CHOOSE n \in 0 .. Len(age) : Stop(n)
  BY DEF SweepLength
<1> HIDE DEF Stop
<1>4. SweepLength(t) \in 0 .. Len(age) /\ Stop(SweepLength(t))
  BY <1>2, <1>3
<1> QED  BY <1>4 DEF Stop

(* A registered device has a position in the age list.                     *)
LEMMA PositionExists ==
  ASSUME TypeOK, AgeListExact, NEW o \in Registered
  PROVE  PositionOf(o) \in 1 .. Len(age) /\ age[PositionOf(o)] = o
BY DEF AgeListExact, PositionOf

\* The list a holds the devices of R once each, in the order of ts.
Ages(a, R, ts) ==
  /\ a \in Seq(Oids)
  /\ {a[i] : i \in 1 .. Len(a)} = R
  /\ \A i, j \in 1 .. Len(a) : i # j => a[i] # a[j]
  /\ \A i, j \in 1 .. Len(a) : i < j => ts[a[i]] <= ts[a[j]]

\* The last sign of life of every device.
Stamps == [o \in Oids |-> dev[o].ts]

(* The invariants of the age list are one statement about list, devices    *)
(* and stamps.                                                             *)
LEMMA AgesOfInv ==
  ASSUME Inv
  PROVE  Ages(age, Registered, Stamps)
<1>1. \A i \in 1 .. Len(age) : age[i] \in Oids  BY DEF Inv, TypeOK
<1>2. \A i \in 1 .. Len(age) : Stamps[age[i]] = dev[age[i]].ts
  BY <1>1 DEF Stamps
<1> QED  BY <1>2 DEF Inv, TypeOK, AgeListExact, AgeListSorted, Ages

(* A device that is not in the list and was heard last goes to its end.    *)
LEMMA AgesAppend ==
  ASSUME NEW a, NEW R, NEW ts, NEW new, Ages(a, R, ts),
         NEW o \in Oids, o \notin R,
         \A q \in R : new[q] = ts[q] /\ new[q] <= new[o]
  PROVE  Ages(Append(a, o), R \cup {o}, new)
<1> DEFINE b == Append(a, o)
<1>1. a \in Seq(Oids) /\ Len(a) \in Nat  BY DEF Ages
<1>2. /\ b \in Seq(Oids) /\ Len(b) = Len(a) + 1
      /\ \A i \in 1 .. Len(a) : b[i] = a[i]
      /\ b[Len(a) + 1] = o
  BY <1>1
<1> HIDE DEF b
<1>3. \A i \in 1 .. Len(b) : i \in 1 .. Len(a) \/ i = Len(a) + 1
  BY <1>1, <1>2
<1>4. \A i \in 1 .. Len(a) : a[i] \in R  BY DEF Ages
<1>5. {b[i] : i \in 1 .. Len(b)} = R \cup {o}
  <2>1. \A i \in 1 .. Len(b) : b[i] \in R \cup {o}  BY <1>2, <1>3, <1>4
  <2>2. ASSUME NEW q \in R PROVE \E i \in 1 .. Len(b) : b[i] = q
    <3>1. PICK i \in 1 .. Len(a) : a[i] = q  BY DEF Ages
    <3>2. i \in 1 .. Len(b)  BY <1>1, <1>2
    <3> QED  BY <1>2, <3>1, <3>2
  <2>3. Len(a) + 1 \in 1 .. Len(b)  BY <1>1, <1>2
  <2> QED  BY <1>2, <2>1, <2>2, <2>3
<1>6. ASSUME NEW i \in 1 .. Len(b), NEW j \in 1 .. Len(b), i # j
      PROVE  b[i] # b[j]
  BY <1>2, <1>3, <1>4, <1>6 DEF Ages
<1>7. ASSUME NEW i \in 1 .. Len(b), NEW j \in 1 .. Len(b), i < j
      PROVE  new[b[i]] <= new[b[j]]
  <2>1. i \in 1 .. Len(a)  BY <1>1, <1>2, <1>7
  <2>2. CASE j \in 1 .. Len(a)
    <3>1. ts[a[i]] <= ts[a[j]]  BY <1>7, <2>1, <2>2 DEF Ages
    <3> QED  BY <1>2, <1>4, <2>1, <2>2, <3>1
  <2>3. CASE j = Len(a) + 1  BY <1>2, <1>4, <2>1, <2>3
  <2> QED  BY <1>3, <2>2, <2>3
<1>8. Ages(b, R \cup {o}, new)  BY <1>2, <1>5, <1>6, <1>7 DEF Ages
<1> QED  BY <1>8 DEF b

(* Cutting the first n devices off the list leaves the others once each,   *)
(* in their order.                                                         *)
LEMMA AgesCut ==
  ASSUME NEW a, NEW R, NEW ts, NEW new, Ages(a, R, ts),
         NEW n \in 0 .. Len(a),
         \A q \in R : q \notin {a[i] : i \in 1 .. n} => new[q] = ts[q]
  PROVE  Ages(SubSeq(a, n + 1, Len(a)), R \ {a[i] : i \in 1 .. n}, new)
<1> DEFINE b == SubSeq(a, n + 1, Len(a))
           Cut == {a[i] : i \in 1 .. n}
<1>1. a \in Seq(Oids) /\ Len(a) \in Nat /\ n \in Nat  BY DEF Ages
<1>2. /\ b \in Seq(Oids) /\ Len(b) = Len(a) - n
      /\ \A i \in 1 .. Len(a) - n : b[i] = a[n + i]
  BY <1>1, SubSeqProperties
<1>3. \A i \in 1 .. Len(a) : a[i] \in Cut => i \in 1 .. n
  BY <1>1 DEF Ages
<1>4. \A i \in 1 .. n : a[i] \in Cut  OBVIOUS
<1> HIDE DEF b, Cut
<1>5. \A i \in 1 .. Len(b) :
        n + i \in 1 .. Len(a) /\ n + i \notin 1 .. n /\ b[i] = a[n + i]
  BY <1>1, <1>2
<1>6. \A i \in 1 .. Len(b) : b[i] \in R \ Cut
  BY <1>3, <1>5 DEF Ages
<1>7. ASSUME NEW q \in R \ Cut PROVE \E i \in 1 .. Len(b) : b[i] = q
  <2>1. PICK m \in 1 .. Len(a) : a[m] = q  BY DEF Ages
  <2>2. m \notin 1 .. n  BY <1>4, <2>1
  <2>3. m - n \in 1 .. Len(b) /\ n + (m - n) = m  BY <1>1, <1>2, <2>2
  <2> QED  BY <1>2, <1>5, <2>1, <2>3
<1>8. ASSUME NEW i \in 1 .. Len(b), NEW j \in 1 .. Len(b), i # j
      PROVE  b[i] # b[j]
  <2>1. n + i # n + j  BY <1>1, <1>8
  <2> QED  BY <1>5, <2>1 DEF Ages
<1>9. ASSUME NEW i \in 1 .. Len(b), NEW j \in 1 .. Len(b), i < j
      PROVE  new[b[i]] <= new[b[j]]
  <2>1. n + i < n + j  BY <1>1, <1>9
  <2>2. ts[b[i]] <= ts[b[j]]  BY <1>5, <2>1 DEF Ages
  <2>3. new[b[i]] = ts[b[i]] /\ new[b[j]] = ts[b[j]]  BY <1>6 DEF Cut
  <2> QED  BY <2>2, <2>3
<1>10. {b[i] : i \in 1 .. Len(b)} = R \ Cut
  <2>1. \A q \in R \ Cut : q \in {b[i] : i \in 1 .. Len(b)}  BY <1>7
  <2> QED  BY <1>6, <2>1
<1>11. Ages(b, R \ Cut, new)  BY <1>2, <1>8, <1>9, <1>10 DEF Ages
<1> QED  BY <1>11 DEF b, Cut

(* Taking a device out of the age list takes out that device and keeps the *)
(* others once each, in their order.                                       *)
LEMMA RemovedFromAge ==
  ASSUME Inv, NEW o \in Registered
  PROVE  Ages(RemoveAt(age, PositionOf(o)), Registered \ {o}, Stamps)
<1> DEFINE p == PositionOf(o)
           r == RemoveAt(age, p)
<1>1. p \in 1 .. Len(age) /\ age[p] = o  BY PositionExists DEF Inv
<1>2. age \in Seq(Oids)  BY DEF Inv, TypeOK
<1> HIDE DEF p
<1>3. r \in Seq(Oids) /\ Len(r) = Len(age) - 1 /\ Skips(r, age, p)
  BY <1>1, <1>2, RemoveAtSkips
<1> HIDE DEF r
<1>4. PICK up \in [1 .. Len(r) -> 1 .. Len(age)] :
           /\ \A j \in 1 .. Len(r) : r[j] = age[up[j]] /\ up[j] # p
           /\ \A j, k \in 1 .. Len(r) : j < k => up[j] < up[k]
           /\ \A m \in 1 .. Len(age) : m # p => \E j \in 1 .. Len(r) : up[j] = m
  BY <1>3 DEF Skips
<1>5. Len(age) \in Nat /\ Len(r) \in Nat  BY <1>2, <1>3
<1>6. \A i, j \in 1 .. Len(r) : i # j => up[i] # up[j]
  <2> SUFFICES ASSUME NEW i \in 1 .. Len(r), NEW j \in 1 .. Len(r), i # j
               PROVE  up[i] # up[j]
    OBVIOUS
  <2>1. i < j \/ j < i  BY <1>5
  <2>2. up[i] \in 1 .. Len(age) /\ up[j] \in 1 .. Len(age)  BY <1>4
  <2> QED  BY <1>4, <1>5, <2>1, <2>2
<1>7. \A i, j \in 1 .. Len(r) : i # j => r[i] # r[j]
  <2> SUFFICES ASSUME NEW i \in 1 .. Len(r), NEW j \in 1 .. Len(r), i # j
               PROVE  r[i] # r[j]
    OBVIOUS
  <2>1. up[i] \in 1 .. Len(age) /\ up[j] \in 1 .. Len(age)  BY <1>4
  <2>2. up[i] # up[j]  BY <1>6
  <2>3. age[up[i]] # age[up[j]]  BY <2>1, <2>2 DEF Inv, AgeListExact
  <2> QED  BY <1>4, <2>3
<1>8. \A i, j \in 1 .. Len(r) : i < j => Stamps[r[i]] <= Stamps[r[j]]
  <2> SUFFICES ASSUME NEW i \in 1 .. Len(r), NEW j \in 1 .. Len(r), i < j
               PROVE  Stamps[r[i]] <= Stamps[r[j]]
    OBVIOUS
  <2>1. up[i] \in 1 .. Len(age) /\ up[j] \in 1 .. Len(age) /\ up[i] < up[j]  BY <1>4
  <2>2. \A m, n \in 1 .. Len(age) : m < n => Stamps[age[m]] <= Stamps[age[n]]
    BY AgesOfInv DEF Ages
  <2>3. Stamps[age[up[i]]] <= Stamps[age[up[j]]]  BY <2>1, <2>2
  <2>4. r[i] = age[up[i]] /\ r[j] = age[up[j]]  BY <1>4
  <2> QED  BY <2>3, <2>4
<1>9. \A j \in 1 .. Len(r) : r[j] \in Registered /\ r[j] # o
  BY <1>1, <1>4 DEF Inv, AgeListExact
<1>10. \A q \in Registered : q # o => \E j \in 1 .. Len(r) : r[j] = q
  <2> SUFFICES ASSUME NEW q \in Registered, q # o
               PROVE  \E j \in 1 .. Len(r) : r[j] = q
    OBVIOUS
  <2>1. PICK m \in 1 .. Len(age) : age[m] = q  BY DEF Inv, AgeListExact
  <2>2. m # p  BY <1>1, <2>1
  <2> QED  BY <1>4, <2>1, <2>2
<1>11. {r[i] : i \in 1 .. Len(r)} = Registered \ {o}
  BY <1>9, <1>10
<1>12. Ages(r, Registered \ {o}, Stamps)  BY <1>3, <1>7, <1>8, <1>11 DEF Ages
<1> QED  BY <1>12 DEF r, p
-----------------------------------------------------------------------------
(* The invariant after a step, from what Ages says of the new list.        *)
LEMMA InvNext ==
  ASSUME TypeOK', Ages(age', Registered', Stamps')
  PROVE  Inv'
<1>1. \A i \in 1 .. Len(age') : age'[i] \in Oids  BY DEF Ages
<1>2. \A i \in 1 .. Len(age') : Stamps'[age'[i]] = dev'[age'[i]].ts
  BY <1>1 DEF Stamps
<1>3. AgeListExact'  BY DEF Ages, AgeListExact
<1>4. AgeListSorted'  BY <1>2 DEF Ages, AgeListSorted
<1> QED  BY <1>3, <1>4 DEF Inv

(* It holds at the start: nothing is registered.                           *)
LEMMA InvInit ==
  ASSUME Init
  PROVE  Inv
<1>1. TypeOK  BY DevicesAssumption DEF Init, TypeOK, Registered
<1>2. Registered = {}  BY DEF Init, Registered
<1>3. Len(age) = 0  BY DEF Init
<1>4. AgeListExact  BY <1>2, <1>3 DEF AgeListExact
<1>5. AgeListSorted  BY <1>3 DEF AgeListSorted
<1> QED  BY <1>1, <1>4, <1>5 DEF Inv

(* It is kept by every step that leaves the devices and the list alone.    *)
LEMMA InvSameDevices ==
  ASSUME Inv, TypeOK', UNCHANGED <<dev, age>>
  PROVE  Inv'
<1>1. Registered' = Registered /\ Stamps' = Stamps  BY DEF Registered, Stamps
<1> QED  BY <1>1, AgesOfInv, InvNext

(* The clock only moves forward.                                           *)
LEMMA InvTick ==
  ASSUME Inv, Tick
  PROVE  Inv'
<1>1. now \in Nat /\ now' = now + 1 /\ UNCHANGED <<dev, age>>
  BY DEF Inv, TypeOK, Tick
<1>2. \A o \in Registered' : dev'[o].ts <= now' /\ dev'[o].update_ts <= now'
  <2> SUFFICES ASSUME NEW o \in Registered
               PROVE  dev[o].ts <= now + 1 /\ dev[o].update_ts <= now + 1
    BY <1>1 DEF Registered
  <2>1. dev[o] \in Device  BY RegisteredIsDevice DEF Inv
  <2>2. dev[o].ts \in Nat /\ dev[o].update_ts \in Nat  BY <2>1 DEF Device
  <2> QED  BY <1>1, <2>2 DEF Inv, TypeOK
<1>3. TypeOK'  BY <1>2 DEF Inv, TypeOK, Tick
<1> QED  BY <1>1, <1>3, InvSameDevices

(* Adding a product does not touch the devices.                            *)
LEMMA InvAddPdt ==
  ASSUME Inv, NEW p \in Pdts, AddPdt(p)
  PROVE  Inv'
<1>1. TypeOK'  BY DEF Inv, TypeOK, AddPdt, Registered
<1> QED  BY <1>1, InvSameDevices DEF AddPdt

(* Nor does the operator's choice of a mode.                               *)
LEMMA InvSetMode ==
  ASSUME Inv, NEW m \in Modes, SetMode(m)
  PROVE  Inv'
<1>1. since' \in 1 .. now'  BY DEF Inv, TypeOK, SetMode, Since
<1>2. TypeOK'  BY <1>1 DEF Inv, TypeOK, SetMode, Registered
<1> QED  BY <1>2, InvSameDevices DEF SetMode

(* A step that changes devices, but neither which are registered nor when  *)
(* they were heard.                                                        *)
LEMMA InvSameStamps ==
  ASSUME Inv, TypeOK', UNCHANGED age, Registered' = Registered,
         \A o \in Registered : dev'[o].ts = dev[o].ts
  PROVE  Inv'
<1>1. Ages(age, Registered, Stamps)  BY AgesOfInv
<1>2. \A i \in 1 .. Len(age) : age[i] \in Registered /\ age[i] \in Oids
  BY <1>1 DEF Ages, Registered
<1>3. \A i \in 1 .. Len(age) : Stamps'[age[i]] = Stamps[age[i]]
  BY <1>2 DEF Stamps
<1>4. Ages(age', Registered', Stamps')  BY <1>1, <1>3 DEF Ages
<1> QED  BY <1>4, InvNext

(* Deleting a product leaves its devices registered.                       *)
LEMMA InvDelPdt ==
  ASSUME Inv, NEW p \in Pdts, DelPdt(p)
  PROVE  Inv'
<1>1. \A o \in Registered :
        /\ dev'[o] \in Device
        /\ dev'[o].ts = dev[o].ts /\ dev'[o].update_ts = dev[o].update_ts
  <2> SUFFICES ASSUME NEW o \in Registered
               PROVE  /\ dev'[o] \in Device
                      /\ dev'[o].ts = dev[o].ts
                      /\ dev'[o].update_ts = dev[o].update_ts
    OBVIOUS
  <2>1. dev[o] \in Device /\ o \in Oids  BY RegisteredIsDevice DEF Inv
  <2>2. dev'[o] = IF dev[o].pdt = p THEN [dev[o] EXCEPT !.pdt = Freed]
                                    ELSE dev[o]
    BY <2>1 DEF DelPdt
  <2> QED  BY <2>1, <2>2 DEF Device
<1>2. \A o \in Oids \ Registered : dev'[o] = NoDev
  BY DEF DelPdt, Registered
<1>3. Registered' = Registered
  BY <1>1, <1>2, NoneAssumption DEF Registered
<1>4. dev' \in [Oids -> Device \cup {NoDev}]
  <2>1. dev' = [o \in Oids |-> dev'[o]]  BY DEF DelPdt
  <2>2. \A o \in Oids : dev'[o] \in Device \cup {NoDev}  BY <1>1, <1>2
  <2> QED  BY <2>1, <2>2
<1>5. TypeOK'  BY <1>1, <1>3, <1>4 DEF Inv, TypeOK, DelPdt
<1> QED  BY <1>1, <1>3, <1>5, InvSameStamps DEF DelPdt

(* A new device is younger than every other and goes to the end.           *)
LEMMA InvAddDev ==
  ASSUME Inv, NEW o \in Oids, NEW p \in Pdts, AddDev(o, p)
  PROVE  Inv'
<1> DEFINE d == [ts |-> now, update_ts |-> 0, report_ts |-> 0, repAt |-> 0,
                 pdt |-> p, attrs |-> [t \in Topics |-> NoAttr]]
<1>1. now \in Nat /\ now' = now /\ d \in Device
  BY DEF Inv, TypeOK, AddDev, Device
<1>2. d.ts = now /\ d.update_ts = 0  OBVIOUS
<1> HIDE DEF d
<1>3. dev' = [dev EXCEPT ![o] = d] /\ dev \in [Oids -> Device \cup {NoDev}]
  BY DEF Inv, TypeOK, AddDev, NewDevice, d
<1>4. dev' \in [Oids -> Device \cup {NoDev}]  BY <1>1, <1>3
<1>5. dev'[o] = d /\ \A q \in Oids \ {o} : dev'[q] = dev[q]  BY <1>3
<1>6. o \notin Registered /\ Registered' = Registered \cup {o}
  BY <1>1, <1>5, NoneAssumption DEF Registered, AddDev
<1>7. \A q \in Registered' : dev'[q].ts <= now' /\ dev'[q].update_ts <= now'
  <2> SUFFICES ASSUME NEW q \in Registered'
               PROVE  dev'[q].ts <= now' /\ dev'[q].update_ts <= now'
    OBVIOUS
  <2>1. CASE q = o  BY <1>1, <1>2, <1>5, <2>1
  <2>2. CASE q # o
    <3>1. q \in Registered /\ dev'[q] = dev[q]
      BY <1>5, <1>6, <2>2 DEF Registered
    <3> QED  BY <1>1, <3>1 DEF Inv, TypeOK
  <2> QED  BY <2>1, <2>2
<1>8. age' \in Seq(Oids)  BY DEF Inv, TypeOK, AddDev
<1>9. TypeOK'  BY <1>4, <1>7, <1>8 DEF Inv, TypeOK, AddDev
<1>10. \A q \in Registered : Stamps'[q] = Stamps[q] /\ Stamps'[q] <= Stamps'[o]
  <2> SUFFICES ASSUME NEW q \in Registered
               PROVE  Stamps'[q] = Stamps[q] /\ Stamps'[q] <= Stamps'[o]
    OBVIOUS
  <2>1. q \in Oids /\ dev[q].ts <= now  BY RegisteredIsDevice DEF Inv
  <2>2. q # o  BY <1>6
  <2> QED  BY <1>2, <1>5, <2>1, <2>2 DEF Stamps
<1>11. age' = Append(age, o)  BY DEF AddDev
<1>12. Ages(age', Registered', Stamps')
  BY <1>6, <1>10, <1>11, AgesOfInv, AgesAppend
<1> QED  BY <1>9, <1>12, InvNext

(* A deleted device leaves its place in the list.                          *)
LEMMA InvDelDev ==
  ASSUME Inv, NEW o \in Oids, DelDev(o)
  PROVE  Inv'
<1>1. o \in Registered /\ now' = now  BY DEF DelDev
<1>2. Ages(age', Registered \ {o}, Stamps)
  BY <1>1, RemovedFromAge DEF DelDev
<1>3. dev' = [dev EXCEPT ![o] = NoDev] /\ dev \in [Oids -> Device \cup {NoDev}]
  BY DEF Inv, TypeOK, DelDev
<1>4. dev' \in [Oids -> Device \cup {NoDev}]  BY <1>3
<1>5. dev'[o] = NoDev /\ \A q \in Oids \ {o} : dev'[q] = dev[q]  BY <1>3
<1>6. Registered' = Registered \ {o}  BY <1>5 DEF Registered
<1>7. \A q \in Registered' : dev'[q].ts <= now' /\ dev'[q].update_ts <= now'
  <2> SUFFICES ASSUME NEW q \in Registered'
               PROVE  dev'[q].ts <= now' /\ dev'[q].update_ts <= now'
    OBVIOUS
  <2>1. q \in Registered /\ dev'[q] = dev[q]  BY <1>5, <1>6 DEF Registered
  <2> QED  BY <1>1, <2>1 DEF Inv, TypeOK
<1>8. status' \in {"running", "crashed", "corrupt"}
  BY DEF DelDev, Unlinked
<1>9. TypeOK'
  BY <1>2, <1>4, <1>7, <1>8 DEF Inv, TypeOK, DelDev, Ages
<1>10. \A q \in Registered' : q \in Oids /\ Stamps'[q] = Stamps[q]
  BY <1>5, <1>6 DEF Stamps, Registered
<1>11. \A i \in 1 .. Len(age') : age'[i] \in Registered'
  BY <1>2, <1>6 DEF Ages
<1>12. Ages(age', Registered', Stamps')
  BY <1>2, <1>6, <1>10, <1>11 DEF Ages
<1> QED  BY <1>9, <1>12, InvNext

(* A packet stamps the device with a second no other device has passed and *)
(* moves it to the end.                                                    *)
LEMMA InvPacket ==
  ASSUME Inv, NEW o \in Oids, NEW T \in SUBSET Topics, NEW later \in Later,
         NEW slice \in [T -> Vals], NEW kind, NEW told,
         Packet(o, slice, kind, told, later)
  PROVE  Inv' /\ Registered' = Registered
<1>a. DOMAIN slice = T  OBVIOUS
<1>0. PICK heard0 \in now .. later, changed0 \in now .. later :
        dev' = [dev EXCEPT ![o] =
          [dev[o] EXCEPT
             !.ts = IF T = {} THEN now ELSE heard0,
             !.update_ts = IF {t \in T : slice[t] # OldVal(dev[o].attrs[t])} = {}
                           THEN @ ELSE changed0,
             !.attrs = [t \in Topics |->
                IF t \notin T THEN dev[o].attrs[t]
                ELSE LET a == UptDevAttr(dev[o].attrs[t], slice[t], kind[t])
                     IN  IF t \in told THEN ReportAttr(a) ELSE a]]]
  BY <1>a DEF Packet
<1> DEFINE d       == dev[o]
           Changed == {t \in T : slice[t] # OldVal(d.attrs[t])}
           Stored  == [t \in Topics |->
                         IF t \notin T THEN d.attrs[t]
                         ELSE LET a == UptDevAttr(d.attrs[t], slice[t], kind[t])
                              IN  IF t \in told THEN ReportAttr(a) ELSE a]
           heard   == IF T = {} THEN now ELSE heard0
           changed == IF Changed = {} THEN d.update_ts ELSE changed0
           new     == [d EXCEPT !.ts = heard, !.update_ts = changed,
                                !.attrs = Stored]
<1>1. o \in Registered /\ d \in Device /\ d.update_ts <= now
  BY RegisteredIsDevice DEF Inv, TypeOK, Packet
<1>2. Stored \in [Topics -> AttrVal \cup {NoAttr}]
  <2> SUFFICES ASSUME NEW t \in Topics
               PROVE  Stored[t] \in AttrVal \cup {NoAttr}
    OBVIOUS
  <2>1. d.attrs[t] \in AttrVal \cup {NoAttr}  BY <1>1 DEF Device
  <2>2. CASE t \notin T  BY <2>1, <2>2
  <2>3. CASE t \in T
    <3> DEFINE a == UptDevAttr(d.attrs[t], slice[t], kind[t])
    <3>1. a \in AttrVal  BY <2>1, <2>3, AttrTyped
    <3> HIDE DEF a
    <3>2. ReportAttr(a) \in AttrVal \cup {NoAttr}
      BY <3>1 DEF ReportAttr, AttrVal
    <3>3. Stored[t] = IF t \in told THEN ReportAttr(a) ELSE a
      BY <2>3 DEF a
    <3> QED  BY <3>1, <3>2, <3>3
  <2> QED  BY <2>2, <2>3
<1>3. dev' = [dev EXCEPT ![o] = new]  BY <1>0
<1>4. age' = Moved(o) /\ now' = later /\ mode' \in Modes
      /\ lag' = lag + (later - now)
      /\ status' \in {"running", "crashed"}
      /\ UNCHANGED <<products, lastSweep, lastUp>>
      /\ since' = Since(later)
  BY DEF Packet
<1>5. now \in Nat /\ later \in Nat /\ now <= later /\ lag' \in Nat
  BY <1>4 DEF Inv, TypeOK, Later
<1>6. heard \in Nat /\ now <= heard /\ heard <= later  BY <1>0, <1>5
<1>7. changed \in Nat /\ changed <= later  BY <1>0, <1>1, <1>5 DEF Device
<1> HIDE DEF Stored, Changed, heard, changed
<1>8. new \in Device /\ new.ts = heard /\ new.update_ts = changed
  BY <1>1, <1>2, <1>6, <1>7 DEF Device
<1> HIDE DEF new, d
<1>9. dev \in [Oids -> Device \cup {NoDev}]  BY DEF Inv, TypeOK
<1>10. dev' \in [Oids -> Device \cup {NoDev}]  BY <1>3, <1>8, <1>9
<1>11. dev'[o] = new /\ \A q \in Oids \ {o} : dev'[q] = dev[q]
  BY <1>3, <1>9
<1>12. Registered' = Registered
  BY <1>1, <1>8, <1>11, NoneAssumption DEF Registered
<1>13. \A q \in Registered' : dev'[q].ts <= now' /\ dev'[q].update_ts <= now'
  <2> SUFFICES ASSUME NEW q \in Registered
               PROVE  dev'[q].ts <= now' /\ dev'[q].update_ts <= now'
    BY <1>12
  <2>1. CASE q = o  BY <1>4, <1>6, <1>7, <1>8, <1>11, <2>1
  <2>2. CASE q # o
    <3>1. dev'[q] = dev[q] /\ dev[q] \in Device
      BY <1>11, <2>2, RegisteredIsDevice DEF Inv
    <3>2. dev[q].ts \in Nat /\ dev[q].update_ts \in Nat  BY <3>1 DEF Device
    <3>3. dev[q].ts <= now /\ dev[q].update_ts <= now  BY DEF Inv, TypeOK
    <3> QED  BY <1>4, <1>5, <3>1, <3>2, <3>3
  <2> QED  BY <2>1, <2>2
<1>14. Ages(RemoveAt(age, PositionOf(o)), Registered \ {o}, Stamps)
  BY <1>1, RemovedFromAge
<1>15. \A q \in Registered \ {o} :
         Stamps'[q] = Stamps[q] /\ Stamps'[q] <= Stamps'[o]
  <2> SUFFICES ASSUME NEW q \in Registered \ {o}
               PROVE  Stamps'[q] = Stamps[q] /\ Stamps'[q] <= Stamps'[o]
    OBVIOUS
  <2>1. q \in Oids /\ dev[q].ts \in Nat /\ dev[q].ts <= now
    BY RegisteredIsDevice DEF Inv
  <2>2. Stamps'[q] = dev[q].ts /\ Stamps[q] = dev[q].ts /\ Stamps'[o] = heard
    BY <1>8, <1>11, <2>1 DEF Stamps
  <2> QED  BY <1>5, <1>6, <2>1, <2>2
<1>16. Ages(Moved(o), (Registered \ {o}) \cup {o}, Stamps')
  BY <1>14, <1>15, AgesAppend DEF Moved
<1>17. (Registered \ {o}) \cup {o} = Registered  BY <1>1
<1>18. Ages(age', Registered', Stamps')  BY <1>4, <1>12, <1>16, <1>17
<1>19. lastSweep' \in 0 .. now' /\ lastUp' \in 0 .. now' /\ since' \in 1 .. now'
  BY <1>4, <1>5 DEF Inv, TypeOK, Since
<1>20. now' \in Nat /\ now' >= 1 /\ age' \in Seq(Oids) /\ products' \subseteq Pdts
       /\ status' \in {"running", "crashed", "corrupt"}
  BY <1>4, <1>5, <1>18 DEF Inv, TypeOK, Ages
<1>21. TypeOK'
  BY <1>4, <1>5, <1>10, <1>13, <1>19, <1>20 DEF TypeOK
<1> QED  BY <1>12, <1>18, <1>21, InvNext

(* A round of the management loop cuts the expired devices off the front.  *)
LEMMA InvPeriodic ==
  ASSUME Inv, Periodic
  PROVE  /\ Inv'
         /\ Registered' = Registered \
              {age[i] : i \in 1 .. IF SweepDue THEN SweepLength(now) ELSE 0}
<1> DEFINE n    == IF SweepDue THEN SweepLength(now) ELSE 0
           Gone == {age[i] : i \in 1 .. n}
<1>1. age \in Seq(Oids) /\ now \in Nat /\ now >= 1
      /\ dev \in [Oids -> Device \cup {NoDev}]
  BY DEF Inv, TypeOK
<1>2. n \in 0 .. Len(age)  BY <1>1, SweepLengthStops
<1>3. PICK later \in Later :
      /\ now' = later /\ lag' = later - now
      /\ age' = SubSeq(age, n + 1, Len(age))
      /\ dev' = [o \in Oids |->
           IF o \in Gone THEN NoDev
           ELSE IF ReportDue(later) /\ o \in Registered THEN UpdateDev(dev[o], later)
           ELSE dev[o]]
      /\ Unlinked(Gone)
      /\ lastUp' = IF mode = "ATTR_PERIODIC" /\ (lastUp = 0 \/ ReportDue(later))
                   THEN later ELSE lastUp
  BY DEF Periodic
<1>a. later \in Nat /\ now <= later /\ lag' \in Nat
  BY <1>1, <1>3 DEF Later
<1>b. /\ lastSweep' = IF lastSweep = 0 \/ SweepDue THEN now ELSE lastSweep
      /\ UNCHANGED <<products, mode, since>>
  BY DEF Periodic
<1>4. lastSweep' \in 0 .. now' /\ lastUp' \in 0 .. now' /\ since' \in 1 .. now'
  BY <1>1, <1>3, <1>a, <1>b DEF Inv, TypeOK
<1>5. status' \in {"running", "crashed", "corrupt"}  BY <1>3 DEF Unlinked
<1> HIDE DEF n, Gone
<1>6. \A o \in Registered \ Gone :
        /\ o \in Oids /\ dev'[o] \in Device
        /\ dev'[o].ts = dev[o].ts /\ dev'[o].update_ts = dev[o].update_ts
  <2> SUFFICES ASSUME NEW o \in Registered \ Gone
               PROVE  /\ o \in Oids /\ dev'[o] \in Device
                      /\ dev'[o].ts = dev[o].ts
                      /\ dev'[o].update_ts = dev[o].update_ts
    OBVIOUS
  <2>1. o \in Oids /\ dev[o] \in Device  BY RegisteredIsDevice DEF Inv
  <2>2. dev'[o] = IF ReportDue(later) THEN UpdateDev(dev[o], later) ELSE dev[o]
    BY <1>3, <2>1
  <2> QED  BY <1>a, <2>1, <2>2, UpdateDevTyped
<1>7. \A o \in Oids \ (Registered \ Gone) : dev'[o] = NoDev
  BY <1>3 DEF Registered
<1>8. Registered' = Registered \ Gone
  BY <1>6, <1>7, NoneAssumption DEF Registered
<1>9. dev' \in [Oids -> Device \cup {NoDev}]
  <2>1. dev' = [o \in Oids |-> dev'[o]]  BY <1>3
  <2>2. \A o \in Oids : dev'[o] \in Device \cup {NoDev}  BY <1>6, <1>7
  <2> QED  BY <2>1, <2>2
<1>10. \A o \in Registered' : dev'[o].ts <= now' /\ dev'[o].update_ts <= now'
  <2> SUFFICES ASSUME NEW o \in Registered \ Gone
               PROVE  dev[o].ts <= later /\ dev[o].update_ts <= later
    BY <1>3, <1>6, <1>8
  <2>1. dev[o] \in Device  BY RegisteredIsDevice DEF Inv
  <2>2. dev[o].ts \in Nat /\ dev[o].update_ts \in Nat  BY <2>1 DEF Device
  <2>3. dev[o].ts <= now /\ dev[o].update_ts <= now  BY DEF Inv, TypeOK
  <2> QED  BY <1>1, <1>a, <2>2, <2>3
<1>11. \A q \in Registered : q \notin Gone => Stamps'[q] = Stamps[q]
  BY <1>6 DEF Stamps
<1>12. Gone = {age[i] : i \in 1 .. n}  BY DEF Gone
<1>13. Ages(SubSeq(age, n + 1, Len(age)), Registered \ {age[i] : i \in 1 .. n}, Stamps')
  BY <1>2, <1>11, <1>12, AgesOfInv, AgesCut
<1>14. Ages(age', Registered', Stamps')  BY <1>3, <1>8, <1>12, <1>13
<1>15. now' \in Nat /\ now' >= 1 /\ age' \in Seq(Oids)
       /\ products' \subseteq Pdts /\ mode' \in Modes
  BY <1>1, <1>3, <1>a, <1>b, <1>14 DEF Inv, TypeOK, Ages
<1>16. TypeOK'
  BY <1>a, <1>4, <1>5, <1>9, <1>10, <1>15 DEF TypeOK
<1> QED  BY <1>8, <1>12, <1>14, <1>16, InvNext DEF n

(* The invariant is inductive.                                             *)
LEMMA InvStep ==
  ASSUME Inv, [Next]_vars
  PROVE  Inv'
<1>1. CASE Tick  BY <1>1, InvTick
<1>2. CASE Periodic  BY <1>2, InvPeriodic
<1>3. CASE UNCHANGED vars
  <2>1. UNCHANGED <<now, lag, products, dev, age, mode, lastSweep, lastUp, since,
                   status>>
    BY <1>3 DEF vars
  <2>2. TypeOK'  BY <2>1 DEF Inv, TypeOK, Registered
  <2> QED  BY <2>1, <2>2, InvSameDevices
<1>4. CASE Halted  BY <1>3, <1>4 DEF Halted
<1>5. CASE \E m \in Modes : SetMode(m)  BY <1>5, InvSetMode
<1>6. CASE \E p \in Pdts : AddPdt(p) \/ DelPdt(p)
  BY <1>6, InvAddPdt, InvDelPdt
<1>7. ASSUME NEW o \in Oids, NEW p \in Pdts, AddDev(o, p) PROVE Inv'
  BY <1>7, InvAddDev
<1>8. ASSUME NEW o \in Oids, DelDev(o) PROVE Inv'
  BY <1>8, InvDelDev
<1>9. ASSUME NEW o \in Oids, NEW T \in SUBSET Topics, NEW later \in Later,
             NEW slice \in [T -> Vals], NEW kind \in [T -> Kinds],
             NEW told \in SUBSET T, Packet(o, slice, kind, told, later)
      PROVE  Inv'
  BY <1>9, InvPacket
<1> QED  BY <1>1, <1>2, <1>3, <1>4, <1>5, <1>6, <1>7, <1>8, <1>9 DEF Next

(* So it holds in every reachable state.                                   *)
LEMMA InvInductive == Spec => []Inv
<1> QED  BY InvInit, InvStep, PTL DEF Spec

(* Every reachable state of the registry is well typed.                    *)
THEOREM DevicesTypeCorrect == Spec => []TypeOK
<1>1. Inv => TypeOK  BY DEF Inv
<1> QED  BY <1>1, InvInductive, PTL

(* The age list always holds every registered device exactly once: no      *)
(* device escapes the sweep and none is freed twice.                       *)
THEOREM AgeListIsExact == Spec => []AgeListExact
<1>1. Inv => AgeListExact  BY DEF Inv
<1> QED  BY <1>1, InvInductive, PTL

(* The age list is always in the order of the last signs of life.          *)
THEOREM AgeListIsSorted == Spec => []AgeListSorted
<1>1. Inv => AgeListSorted  BY DEF Inv
<1> QED  BY <1>1, InvInductive, PTL

(* Stopping at the first device that is not expired misses none.           *)
LEMMA SweepRemoves ==
  ASSUME Inv, Periodic, NEW o \in Registered
  PROVE  (dev'[o] = NoDev) <=> (SweepDue /\ now - dev[o].ts > AgeInterval)
<1> DEFINE n    == IF SweepDue THEN SweepLength(now) ELSE 0
           Gone == {age[i] : i \in 1 .. n}
<1>1. o \in Oids /\ dev[o].ts \in Nat  BY RegisteredIsDevice DEF Inv
<1>2. (dev'[o] = NoDev) <=> o \in Gone
  BY <1>1, InvPeriodic DEF Registered
<1>3. CASE ~ SweepDue
  <2>1. Gone = {}  BY <1>3
  <2> QED  BY <1>2, <1>3, <2>1
<1>4. CASE SweepDue
  <2>1. age \in Seq(Oids) /\ now \in Nat /\ Len(age) \in Nat
    BY DEF Inv, TypeOK
  <2>2. n = SweepLength(now)  BY <1>4
  <2> HIDE DEF n
  <2>3. /\ n \in 0 .. Len(age)
        /\ \A i \in 1 .. n : Expired(dev[age[i]], now)
        /\ n < Len(age) => ~ Expired(dev[age[n + 1]], now)
    BY <2>1, <2>2, SweepLengthStops
  <2>4. PICK k \in 1 .. Len(age) : age[k] = o  BY DEF Inv, AgeListExact
  <2>5. CASE k <= n
    <3>1. k \in 1 .. n  BY <2>1, <2>3, <2>5
    <3>2. o \in Gone /\ Expired(dev[o], now)  BY <2>3, <2>4, <3>1
    <3> QED  BY <1>2, <1>4, <3>2 DEF Expired
  <2>6. CASE k > n
    <3>1. o \notin Gone
      <4>1. \A i \in 1 .. n : i \in 1 .. Len(age) /\ i # k
        BY <2>1, <2>3, <2>6
      <4> QED  BY <2>4, <4>1 DEF Inv, AgeListExact
    <3>2. n + 1 \in 1 .. Len(age) /\ n < Len(age) /\ (n + 1 = k \/ n + 1 < k)
      BY <2>1, <2>3, <2>6
    <3>3. dev[age[n + 1]].ts <= dev[o].ts /\ dev[age[n + 1]].ts \in Nat
      <4>1. age[n + 1] \in Registered  BY <3>2 DEF Inv, AgeListExact
      <4>2. dev[age[n + 1]].ts \in Nat
        BY <4>1, RegisteredIsDevice DEF Inv
      <4>3. CASE n + 1 = k  BY <1>1, <2>4, <4>2, <4>3
      <4>4. CASE n + 1 < k
        BY <2>4, <3>2, <4>2, <4>4 DEF Inv, AgeListSorted
      <4> QED  BY <3>2, <4>3, <4>4
    <3>4. ~ (now - dev[age[n + 1]].ts > AgeInterval)
      BY <2>3, <3>2 DEF Expired
    <3>5. ~ (now - dev[o].ts > AgeInterval)
      BY <1>1, <2>1, <3>3, <3>4, DevicesAssumption, SMTT(30)
    <3> QED  BY <1>2, <3>1, <3>5
  <2> QED  BY <2>1, <2>3, <2>4, <2>5, <2>6
<1> QED  BY <1>3, <1>4

(* A round removes exactly the registered devices that have been silent    *)
(* too long.                                                               *)
THEOREM SweepIsExact == Spec => SweepExact
<1> DEFINE Exact == Periodic => \A o \in Registered :
             (dev'[o] = NoDev) <=> (SweepDue /\ now - dev[o].ts > AgeInterval)
<1>1. Inv /\ [Next]_vars => [Exact]_vars  BY SweepRemoves
<1> QED  BY <1>1, InvInductive, PTL DEF Spec, SweepExact
-----------------------------------------------------------------------------
\* The second in which the last round of the management loop began; 1 before
\* the first one.
LastRound == now - lag

\* What the two intervals and the lag of the loop say of each other.
LoopTimes ==
  /\ lag <= MaxLag /\ LastRound >= 1
  /\ lastSweep = 0 => LastRound = 1
  /\ lastSweep # 0 => LastRound - lastSweep <= SweepGap
  /\ mode = "ATTR_PERIODIC" =>
       \/ LastRound <= since
       \/ lastUp # 0 /\ LastRound - lastUp <= UpInterval

\* The application has not seen what the device d shows.
Unseen(d) ==
  \E t \in Topics :
    d.attrs[t] # NoAttr /\ d.attrs[t].sent # d.attrs[t].str /\ d.attrs[t].str # Empty

\* The last sweep would have removed d, had it been silent for too long.
Swept(d, sweep) ==
  d.ts >= 1 /\ (MaxLag <= AgeInterval => sweep - d.ts <= AgeInterval)

\* What the reports have done to d by the second t.
Told(d, t) ==
  /\ d.report_ts <= d.repAt /\ d.repAt <= t
  /\ Unseen(d) => d.update_ts > d.report_ts \/ d.update_ts = d.repAt

\* A change that is still to be reported came after the last report, or that
\* was not a report but the first round of the periodic mode.
Untold(d, up, set) ==
  d.update_ts > d.report_ts => d.update_ts >= up \/ up <= set + MaxLag

Times(d, sweep, t, up, set) == Swept(d, sweep) /\ Told(d, t) /\ Untold(d, up, set)

DevTimes == \A o \in Registered : Times(dev[o], lastSweep, now, lastUp, since)

(* The inductive invariant of the bounds.                                  *)
Bounds == Inv /\ LoopTimes /\ DevTimes

(* The constants and the clocks are integers.                              *)
LEMMA ClocksTyped ==
  ASSUME TypeOK
  PROVE  /\ AgeInterval \in Nat /\ SweepGap \in Nat /\ UpInterval \in Nat
         /\ MaxLag \in Nat /\ now \in Nat /\ now >= 1 /\ lag \in Nat
         /\ lastSweep \in Nat /\ lastSweep <= now
         /\ lastUp \in Nat /\ lastUp <= now
         /\ since \in Nat /\ since >= 1 /\ since <= now
BY DevicesAssumption DEF TypeOK

(* What is claimed of a device stays true while the clocks move on.        *)
LEMMA TimesLater ==
  ASSUME NEW d \in Device, NEW e \in Device,
         e.ts = d.ts, e.update_ts = d.update_ts, e.report_ts = d.report_ts,
         e.repAt = d.repAt, e.attrs = d.attrs,
         NEW sweep, NEW up \in Nat, NEW t \in Nat, NEW u \in Nat, t <= u,
         NEW set \in Nat, NEW reset \in Nat, set <= reset,
         Times(d, sweep, t, up, set)
  PROVE  Times(e, sweep, u, up, reset)
<1>1. Unseen(e) <=> Unseen(d)  BY DEF Unseen
<1>2. d.repAt \in Nat /\ d.report_ts \in Nat  BY DEF Device
<1>3. MaxLag \in Nat  BY DevicesAssumption
<1> QED  BY <1>1, <1>2, <1>3 DEF Times, Swept, Told, Untold

(* A step that only moves clocks on, and may forget devices.               *)
LEMMA DevTimesLater ==
  ASSUME Inv, Inv', DevTimes, now <= now', since <= since',
         UNCHANGED <<lastSweep, lastUp>>,
         Registered' \subseteq Registered, \A o \in Registered' : dev'[o] = dev[o]
  PROVE  DevTimes'
<1> SUFFICES ASSUME NEW o \in Registered'
             PROVE  Times(dev[o], lastSweep, now', lastUp, since')
  BY DEF DevTimes
<1>1. o \in Registered /\ dev[o] \in Device  BY RegisteredIsDevice DEF Inv
<1>2. now \in Nat /\ now' \in Nat /\ since \in Nat /\ since' \in Nat
      /\ lastUp \in Nat
  BY DEF Inv, TypeOK
<1>3. Times(dev[o], lastSweep, now, lastUp, since)  BY <1>1 DEF DevTimes
<1> QED  BY <1>1, <1>2, <1>3, TimesLater

(* Setting the mode restarts the count of the periodic mode.               *)
LEMMA SinceNext ==
  ASSUME TypeOK, NEW t \in Nat, now <= t, since' = Since(t)
  PROVE  /\ since' \in Nat /\ since <= since' /\ since' <= t
         /\ mode # "ATTR_PERIODIC" /\ mode' = "ATTR_PERIODIC" => since' = t
BY ClocksTyped DEF Since

(* The steps that leave the devices alone.                                 *)
LEMMA BoundsSameDevices ==
  ASSUME Bounds, [Next]_vars,
         \/ Tick \/ UNCHANGED vars
         \/ \E m \in Modes : SetMode(m)
         \/ \E p \in Pdts : AddPdt(p)
  PROVE  Bounds'
<1>1. Inv /\ Inv' /\ TypeOK /\ LoopTimes  BY InvStep DEF Bounds, Inv
<1>2. now \in Nat /\ lag \in Nat /\ MaxLag \in Nat /\ since \in Nat
      /\ lastUp \in Nat /\ lastSweep \in Nat
  BY <1>1, ClocksTyped
<1>3. /\ UNCHANGED <<dev, lastSweep, lastUp>>
      /\ now <= now' /\ LastRound' = LastRound /\ lag' <= MaxLag
      /\ since <= since'
      /\ mode' = "ATTR_PERIODIC" => mode = "ATTR_PERIODIC" \/ LastRound <= since'
  <2>1. CASE Tick
    BY <1>1, <1>2, <2>1 DEF Tick, LastRound, LoopTimes
  <2>2. CASE UNCHANGED vars
    BY <1>1, <1>2, <2>2 DEF vars, LastRound, LoopTimes
  <2>3. ASSUME NEW m \in Modes, SetMode(m)
        PROVE  /\ UNCHANGED <<now, lag, dev, lastSweep, lastUp>>
               /\ since <= since'
               /\ mode # "ATTR_PERIODIC" /\ mode' = "ATTR_PERIODIC" => since' = now
    BY <1>1, <1>2, <2>3, SinceNext DEF SetMode
  <2>4. CASE \E m \in Modes : SetMode(m)
    BY <1>1, <1>2, <2>3, <2>4 DEF LastRound, LoopTimes
  <2>5. CASE \E p \in Pdts : AddPdt(p)
    BY <1>1, <1>2, <2>5 DEF AddPdt, LastRound, LoopTimes
  <2> QED  BY <2>1, <2>2, <2>4, <2>5
<1>4. LoopTimes'
  <2>1. LastRound \in Int /\ since' \in Nat
    BY <1>1, <1>2, ClocksTyped DEF LastRound, Inv, TypeOK
  <2> QED  BY <1>1, <1>2, <1>3, <2>1 DEF LoopTimes
<1>5. Registered' = Registered  BY <1>3 DEF Registered
<1>6. DevTimes'  BY <1>1, <1>3, <1>5, DevTimesLater DEF Bounds
<1> QED  BY <1>1, <1>4, <1>6 DEF Bounds

(* The steps of a message that leave the clocks alone.                     *)
LEMMA LoopTimesSame ==
  ASSUME LoopTimes, UNCHANGED <<now, lag, mode, lastSweep, lastUp, since>>
  PROVE  LoopTimes'
BY DEF LoopTimes, LastRound

(* Deleting a product changes nothing that is timed.                       *)
LEMMA BoundsDelPdt ==
  ASSUME Bounds, NEW p \in Pdts, DelPdt(p)
  PROVE  Bounds'
<1>1. Inv /\ Inv'  BY InvDelPdt DEF Bounds
<1>2. LoopTimes'  BY LoopTimesSame DEF Bounds, DelPdt
<1>3. DevTimes'
  <2> SUFFICES ASSUME NEW o \in Registered'
               PROVE  Times(dev'[o], lastSweep, now, lastUp, since)
    BY DEF DevTimes, DelPdt
  <2>1. o \in Oids /\ dev'[o] # NoDev /\ dev'[o] \in Device
    BY <1>1, NoneAssumption DEF Registered, Inv, TypeOK
  <2>2. dev'[o] = IF o \in Registered /\ dev[o].pdt = p
                  THEN [dev[o] EXCEPT !.pdt = Freed] ELSE dev[o]
    BY <2>1 DEF DelPdt
  <2>3. o \in Registered  BY <2>1, <2>2 DEF Registered
  <2>4. dev[o] \in Device  BY <1>1, <2>3, RegisteredIsDevice DEF Inv
  <2>5. /\ dev'[o].ts = dev[o].ts /\ dev'[o].update_ts = dev[o].update_ts
        /\ dev'[o].report_ts = dev[o].report_ts /\ dev'[o].repAt = dev[o].repAt
        /\ dev'[o].attrs = dev[o].attrs
    BY <2>2, <2>4 DEF Device
  <2>6. Times(dev[o], lastSweep, now, lastUp, since)
    BY <2>3 DEF Bounds, DevTimes
  <2>7. now \in Nat /\ lastUp \in Nat /\ since \in Nat
    BY <1>1, ClocksTyped DEF Inv
  <2> QED  BY <2>1, <2>4, <2>5, <2>6, <2>7, TimesLater
<1> QED  BY <1>1, <1>2, <1>3 DEF Bounds

(* A new device has been heard now and has nothing to tell.                *)
LEMMA BoundsAddDev ==
  ASSUME Bounds, NEW o \in Oids, NEW p \in Pdts, AddDev(o, p)
  PROVE  Bounds'
<1>1. Inv /\ Inv'  BY InvAddDev DEF Bounds
<1>2. LoopTimes'  BY LoopTimesSame DEF Bounds, AddDev
<1>3. Times(NewDevice(p), lastSweep, now, lastUp, since)
  <2>1. ~ Unseen(NewDevice(p))  BY DEF NewDevice, Unseen
  <2>2. /\ NewDevice(p).ts = now /\ NewDevice(p).update_ts = 0
        /\ NewDevice(p).report_ts = 0 /\ NewDevice(p).repAt = 0
    BY DEF NewDevice
  <2> QED
    BY <1>1, <2>1, <2>2, ClocksTyped DEF Inv, Times, Swept, Told, Untold
<1>4. DevTimes'
  <2> SUFFICES ASSUME NEW q \in Registered'
               PROVE  Times(dev'[q], lastSweep, now, lastUp, since)
    BY DEF DevTimes, AddDev
  <2>1. dev' = [dev EXCEPT ![o] = NewDevice(p)]
        /\ dev \in [Oids -> Device \cup {NoDev}] /\ q \in Oids
    BY <1>1 DEF AddDev, Inv, TypeOK, Registered
  <2>2. CASE q = o  BY <1>3, <2>1, <2>2
  <2>3. CASE q # o
    <3>1. dev'[q] = dev[q] /\ q \in Registered
      BY <2>1, <2>3 DEF Registered
    <3> QED  BY <3>1 DEF Bounds, DevTimes
  <2> QED  BY <2>2, <2>3
<1> QED  BY <1>1, <1>2, <1>4 DEF Bounds

(* The devices that remain keep what is claimed of them.                   *)
LEMMA BoundsDelDev ==
  ASSUME Bounds, NEW o \in Oids, DelDev(o)
  PROVE  Bounds'
<1>1. Inv /\ Inv'  BY InvDelDev DEF Bounds
<1>2. LoopTimes'  BY LoopTimesSame DEF Bounds, DelDev
<1>3. Registered' \subseteq Registered /\ \A q \in Registered' : dev'[q] = dev[q]
  <2>1. dev' = [dev EXCEPT ![o] = NoDev] /\ dev \in [Oids -> Device \cup {NoDev}]
    BY <1>1 DEF DelDev, Inv, TypeOK
  <2> QED  BY <2>1 DEF Registered
<1>4. UNCHANGED <<now, since, lastSweep, lastUp>> /\ now <= now /\ since <= since
  BY <1>1, ClocksTyped DEF DelDev, Inv
<1>5. DevTimes'  BY <1>1, <1>3, <1>4, DevTimesLater DEF Bounds
<1> QED  BY <1>1, <1>2, <1>5 DEF Bounds

(* Storing a value that is already there shows the application nothing new.*)
LEMMA NothingNew ==
  ASSUME NEW a \in AttrVal \cup {NoAttr}, NEW v \in Vals, v = OldVal(a),
         NEW kind, NEW told, NEW t,
         NEW b,
         b = IF t \in told THEN ReportAttr(UptDevAttr(a, v, kind))
                          ELSE UptDevAttr(a, v, kind),
         b.sent # b.str, b.str # Empty
  PROVE  a # NoAttr /\ a.sent # a.str /\ a.str # Empty
<1> DEFINE c == UptDevAttr(a, v, kind)
<1>1. c \in AttrVal  BY AttrTyped
<1>2. c.str = (IF a = NoAttr THEN Empty ELSE a.str)
      /\ c.sent = (IF a = NoAttr THEN NotSent ELSE a.sent)
  BY DEF UptDevAttr
<1> HIDE DEF c
<1>3. b = IF t \in told THEN ReportAttr(c) ELSE c  BY DEF c
<1>4. CASE t \in told
  <2>1. b = [c EXCEPT !.sent = c.str]
    BY <1>1, <1>3, <1>4, NoneAssumption DEF ReportAttr
  <2>2. b.sent = b.str  BY <1>1, <2>1 DEF AttrVal
  <2> QED  BY <2>2
<1>5. CASE t \notin told
  <2>1. b = c  BY <1>3, <1>5
  <2> QED  BY <1>2, <2>1
<1> QED  BY <1>4, <1>5

(* What a packet does to its device: the sign of life is new, and so is    *)
(* the time of the change, unless nothing changed.                         *)
LEMMA PacketDevice ==
  ASSUME Inv, NEW o \in Oids, NEW T \in SUBSET Topics, NEW later \in Later,
         NEW slice \in [T -> Vals], NEW kind, NEW told,
         Packet(o, slice, kind, told, later)
  PROVE  /\ o \in Registered /\ dev'[o] \in Device
         /\ \A q \in Oids \ {o} : dev'[q] = dev[q]
         /\ now <= dev'[o].ts
         /\ dev'[o].report_ts = dev[o].report_ts /\ dev'[o].repAt = dev[o].repAt
         /\ \/ now <= dev'[o].update_ts
            \/ /\ dev'[o].update_ts = dev[o].update_ts
               /\ Unseen(dev'[o]) => Unseen(dev[o])
<1>1. DOMAIN slice = T /\ Inv'  BY InvPacket
<1> DEFINE d       == dev[o]
           Changed == {t \in T : slice[t] # OldVal(d.attrs[t])}
           Kept(t) == UptDevAttr(d.attrs[t], slice[t], kind[t])
           Stored  == [t \in Topics |->
                         IF t \notin T THEN d.attrs[t]
                         ELSE IF t \in told THEN ReportAttr(Kept(t)) ELSE Kept(t)]
<1>2. PICK heard \in now .. later, changed \in now .. later :
        dev' = [dev EXCEPT ![o] =
          [d EXCEPT !.ts = IF T = {} THEN now ELSE heard,
                    !.update_ts = IF Changed = {} THEN @ ELSE changed,
                    !.attrs = Stored]]
  BY <1>1 DEF Packet
<1>3. o \in Registered /\ d \in Device /\ now \in Nat /\ later \in Nat
      /\ dev \in [Oids -> Device \cup {NoDev}]
  BY RegisteredIsDevice DEF Inv, TypeOK, Packet, Later
<1> DEFINE e == dev'[o]
<1> HIDE DEF d, Changed, Stored
<1>4. e = [d EXCEPT !.ts = IF T = {} THEN now ELSE heard,
                    !.update_ts = IF Changed = {} THEN @ ELSE changed,
                    !.attrs = Stored]
      /\ \A q \in Oids \ {o} : dev'[q] = dev[q]
  BY <1>2, <1>3
<1>5. e \in Device
  <2>1. o \in Registered'  BY <1>3, InvPacket
  <2> QED  BY <1>1, <2>1, NoneAssumption DEF Inv, TypeOK, Registered
<1>6. /\ e.ts = IF T = {} THEN now ELSE heard
      /\ e.update_ts = IF Changed = {} THEN d.update_ts ELSE changed
      /\ e.report_ts = d.report_ts /\ e.repAt = d.repAt /\ e.attrs = Stored
  BY <1>3, <1>4 DEF Device
<1>7. now <= e.ts  BY <1>3, <1>6
<1>8. CASE Changed # {}
  <2>1. now <= e.update_ts  BY <1>3, <1>6, <1>8
  <2> QED  BY <1>3, <1>4, <1>5, <1>6, <1>7, <2>1 DEF d
<1>9. CASE Changed = {}
  <2>1. ASSUME Unseen(e) PROVE Unseen(d)
    <3>1. PICK t \in Topics : Stored[t] # NoAttr /\ Stored[t].sent # Stored[t].str
                              /\ Stored[t].str # Empty
      BY <1>6, <2>1 DEF Unseen
    <3>2. CASE t \notin T
      <4>1. Stored[t] = d.attrs[t]  BY <3>2 DEF Stored
      <4> QED  BY <3>1, <4>1 DEF Unseen
    <3>3. CASE t \in T
      <4>1. slice[t] \in Vals /\ slice[t] = OldVal(d.attrs[t])
        BY <1>9, <3>3 DEF Changed
      <4>2. d.attrs[t] \in AttrVal \cup {NoAttr}  BY <1>3 DEF Device
      <4>3. Stored[t] = IF t \in told THEN ReportAttr(Kept(t)) ELSE Kept(t)
        BY <3>3 DEF Stored
      <4>4. d.attrs[t] # NoAttr /\ d.attrs[t].sent # d.attrs[t].str
            /\ d.attrs[t].str # Empty
        BY <3>1, <4>1, <4>2, <4>3, NothingNew
      <4> QED  BY <4>4 DEF Unseen
    <3> QED  BY <3>2, <3>3
  <2> QED  BY <1>3, <1>4, <1>5, <1>6, <1>7, <1>9, <2>1 DEF d
<1> QED  BY <1>8, <1>9

(* A packet keeps the bounds: what is new is not older than now.           *)
LEMMA BoundsPacket ==
  ASSUME Bounds, NEW o \in Oids, NEW T \in SUBSET Topics, NEW later \in Later,
         NEW slice \in [T -> Vals], NEW kind, NEW told,
         Packet(o, slice, kind, told, later)
  PROVE  Bounds'
<1>1. Inv /\ Inv' /\ TypeOK /\ Registered' = Registered
  BY InvPacket DEF Bounds, Inv
<1>2. /\ now' = later /\ lag' = lag + (later - now) /\ since' = Since(later)
      /\ UNCHANGED <<lastSweep, lastUp>>
  BY DEF Packet
<1>3. /\ now \in Nat /\ lag \in Nat /\ MaxLag \in Nat /\ since \in Nat
      /\ lastUp \in Nat /\ lastUp <= now /\ lastSweep \in Nat /\ lastSweep <= now
      /\ AgeInterval \in Nat /\ now >= 1
  BY <1>1, ClocksTyped
<1>4. later \in Nat /\ now <= later /\ (later = now \/ (later = now + 1 /\ lag < MaxLag))
  BY <1>3 DEF Later
<1>5. /\ since' \in Nat /\ since <= since'
      /\ mode # "ATTR_PERIODIC" /\ mode' = "ATTR_PERIODIC" => since' = later
  BY <1>1, <1>2, <1>4, SinceNext
<1>6. lastUp <= since + MaxLag => lastUp <= since' + MaxLag
  <2> DEFINE s == since'
  <2>1. s \in Nat /\ since <= s  BY <1>5
  <2> HIDE DEF s
  <2>2. lastUp <= since + MaxLag => lastUp <= s + MaxLag  BY <1>3, <2>1
  <2> QED  BY <2>2 DEF s
<1>7. LoopTimes'
  <2>1. LastRound' = LastRound /\ LastRound \in Int /\ lag' <= MaxLag
        /\ LastRound <= later
    BY <1>2, <1>3, <1>4 DEF LastRound, Bounds, LoopTimes
  <2> QED  BY <1>2, <1>3, <1>4, <1>5, <2>1 DEF Bounds, LoopTimes
<1>8. DevTimes'
  <2> SUFFICES ASSUME NEW q \in Registered
               PROVE  Times(dev'[q], lastSweep, later, lastUp, since')
    BY <1>1, <1>2 DEF DevTimes
  <2>1. dev[q] \in Device /\ q \in Oids  BY <1>1, RegisteredIsDevice
  <2>2. Times(dev[q], lastSweep, now, lastUp, since)  BY DEF Bounds, DevTimes
  <2>3. CASE q # o
    <3>1. dev'[q] = dev[q]  BY <1>1, <2>1, <2>3, PacketDevice
    <3> QED  BY <1>3, <1>4, <1>5, <2>1, <2>2, <3>1, TimesLater
  <2>4. CASE q = o
    <3> DEFINE d == dev[o]
               e == dev'[o]
    <3>1. /\ e \in Device /\ now <= e.ts
          /\ e.report_ts = d.report_ts /\ e.repAt = d.repAt
          /\ \/ now <= e.update_ts
             \/ /\ e.update_ts = d.update_ts
                /\ Unseen(e) => Unseen(d)
      BY <1>1, PacketDevice
    <3>2. d \in Device /\ Times(d, lastSweep, now, lastUp, since)
      BY <2>1, <2>2, <2>4
    <3> HIDE DEF d, e
    <3>3. /\ e.ts \in Nat /\ e.update_ts \in Nat
          /\ d.update_ts \in Nat /\ d.report_ts \in Nat /\ d.repAt \in Nat
      BY <3>1, <3>2 DEF Device
    <3>4. Swept(e, lastSweep)  BY <1>3, <3>1, <3>3 DEF Swept
    <3>5. Told(e, later)
      BY <1>3, <1>4, <3>1, <3>2, <3>3 DEF Times, Told
    <3>6. Untold(e, lastUp, since')
      <4>1. CASE now <= e.update_ts
        <5>1. e.update_ts >= lastUp  BY <1>3, <3>3, <4>1
        <5> QED  BY <5>1 DEF Untold
      <4>2. CASE e.update_ts = d.update_ts
        <5> QED  BY <1>6, <3>1, <3>2, <4>2 DEF Times, Untold
      <4> QED  BY <3>1, <4>1, <4>2
    <3> QED  BY <2>4, <3>4, <3>5, <3>6 DEF Times, e
  <2> QED  BY <2>3, <2>4
<1> QED  BY <1>1, <1>7, <1>8 DEF Bounds

(* A report leaves nothing untold and nothing unseen.                      *)
LEMMA UpdateDevTells ==
  ASSUME NEW d \in Device, NEW t \in Nat, d.update_ts <= t, Told(d, t)
  PROVE  /\ UpdateDev(d, t) \in Device
         /\ UpdateDev(d, t).ts = d.ts
         /\ UpdateDev(d, t).report_ts >= UpdateDev(d, t).update_ts
         /\ Told(UpdateDev(d, t), t)
<1> DEFINE as == [u \in Topics |-> ReportAttr(d.attrs[u])]
           e  == UpdateDev(d, t)
<1>1. e \in Device /\ e.ts = d.ts /\ e.update_ts = d.update_ts
  BY UpdateDevTyped
<1>2. /\ d.update_ts \in Nat /\ d.report_ts \in Nat
      /\ d.attrs \in [Topics -> AttrVal \cup {NoAttr}]
  BY DEF Device
<1>3. CASE d.update_ts > d.report_ts
  <2>1. e.report_ts = d.update_ts /\ e.repAt = t /\ e.attrs = as
    BY <1>3 DEF UpdateDev, Device
  <2>2. \A u \in Topics : as[u] # NoAttr => as[u].sent = as[u].str
    <3> SUFFICES ASSUME NEW u \in Topics, as[u] # NoAttr
                 PROVE  as[u].sent = as[u].str
      OBVIOUS
    <3>1. d.attrs[u] \in AttrVal
      BY <1>2 DEF ReportAttr
    <3>2. as[u] = [d.attrs[u] EXCEPT !.sent = d.attrs[u].str]
      BY <3>1, NoneAssumption DEF ReportAttr
    <3> QED  BY <3>1, <3>2 DEF AttrVal
  <2>3. ~ Unseen(e)  BY <2>1, <2>2 DEF Unseen
  <2> QED  BY <1>1, <1>2, <2>1, <2>3 DEF Told
<1>4. CASE ~ (d.update_ts > d.report_ts)
  <2>1. e = d  BY <1>4 DEF UpdateDev
  <2> QED  BY <1>1, <1>2, <1>4, <2>1
<1> QED  BY <1>3, <1>4

(* A round keeps the bounds: it removes who was silent too long, and       *)
(* reports what is due, or records the time.                               *)
LEMMA BoundsPeriodic ==
  ASSUME Bounds, Periodic
  PROVE  Bounds'
<1> DEFINE n    == IF SweepDue THEN SweepLength(now) ELSE 0
           Gone == {age[i] : i \in 1 .. n}
<1>1. Inv /\ Inv' /\ TypeOK /\ TypeOK' /\ LoopTimes
      /\ Registered' = Registered \ Gone
  BY InvPeriodic DEF Bounds, Inv
<1>2. PICK later \in Later :
      /\ now' = later /\ lag' = later - now
      /\ dev' = [o \in Oids |->
           IF o \in Gone THEN NoDev
           ELSE IF ReportDue(later) /\ o \in Registered THEN UpdateDev(dev[o], later)
           ELSE dev[o]]
      /\ lastUp' = IF mode = "ATTR_PERIODIC" /\ (lastUp = 0 \/ ReportDue(later))
                   THEN later ELSE lastUp
  BY DEF Periodic
<1> HIDE DEF n, Gone
<1>3. /\ lastSweep' = IF lastSweep = 0 \/ SweepDue THEN now ELSE lastSweep
      /\ UNCHANGED <<mode, since>>
  BY DEF Periodic
<1>4. /\ now \in Nat /\ now >= 1 /\ lag \in Nat /\ MaxLag \in Nat
      /\ since \in Nat /\ lastUp \in Nat /\ lastUp <= now
      /\ lastSweep \in Nat /\ lastSweep <= now
      /\ AgeInterval \in Nat /\ SweepGap \in Nat /\ UpInterval \in Nat
  BY <1>1, ClocksTyped
<1>5. later \in Nat /\ now <= later /\ (later = now \/ (later = now + 1 /\ lag < MaxLag))
  BY <1>4 DEF Later
<1>6. LastRound' = now /\ lag' \in Nat /\ lag' <= MaxLag
  BY <1>2, <1>4, <1>5 DEF LastRound
<1>7. LoopTimes'
  <2>1. lastSweep' # 0 /\ now - lastSweep' <= SweepGap
    BY <1>3, <1>4 DEF SweepDue
  <2>2. ASSUME mode = "ATTR_PERIODIC"
        PROVE  lastUp' # 0 /\ now - lastUp' <= UpInterval
    BY <1>2, <1>4, <1>5, <2>2 DEF ReportDue
  <2> QED  BY <1>3, <1>4, <1>6, <2>1, <2>2 DEF LoopTimes
<1>8. DevTimes'
  <2> SUFFICES ASSUME NEW o \in Registered \ Gone
               PROVE  Times(dev'[o], lastSweep', later, lastUp', since)
    BY <1>1, <1>2, <1>3 DEF DevTimes
  <2> DEFINE d == dev[o]
             e == dev'[o]
  <2>1. d \in Device /\ o \in Oids /\ d.update_ts <= now
    BY <1>1, RegisteredIsDevice DEF TypeOK
  <2>2. Times(d, lastSweep, now, lastUp, since)  BY DEF Bounds, DevTimes
  <2>3. e = IF ReportDue(later) THEN UpdateDev(d, later) ELSE d
    BY <1>2, <2>1
  <2>4. ~ (SweepDue /\ now - d.ts > AgeInterval)
    <3>1. dev'[o] # NoDev  BY <1>1 DEF Registered
    <3> QED  BY <1>1, <3>1, SweepRemoves
  <2> HIDE DEF d, e
  <2>5. /\ d.ts \in Nat /\ d.update_ts \in Nat /\ d.report_ts \in Nat
        /\ d.repAt \in Nat
    BY <2>1 DEF Device
  <2>6. d.update_ts <= later /\ Told(d, later)
    BY <1>4, <1>5, <2>1, <2>2, <2>5 DEF Times, Told
  <2>7. e.ts = d.ts /\ Told(e, later) /\ e \in Device
    BY <1>5, <2>1, <2>3, <2>6, UpdateDevTells
  <2>8. Swept(e, lastSweep')
    <3>1. CASE lastSweep = 0
      <4>1. now = 1 + lag /\ lag <= MaxLag
        BY <1>1, <1>4, <3>1 DEF LoopTimes, LastRound
      <4>2. lastSweep' = now /\ d.ts >= 1
        BY <1>3, <2>2, <3>1 DEF Times, Swept
      <4> QED  BY <1>4, <2>5, <2>7, <4>1, <4>2 DEF Swept
    <3>2. CASE SweepDue
      <4>1. lastSweep' = now /\ d.ts >= 1
        BY <1>3, <2>2, <3>2 DEF Times, Swept
      <4> QED  BY <1>4, <2>4, <2>5, <2>7, <3>2, <4>1 DEF Swept
    <3>3. CASE lastSweep # 0 /\ ~ SweepDue
      BY <1>3, <2>2, <2>7, <3>3 DEF Times, Swept
    <3> QED  BY <3>1, <3>2, <3>3
  <2>9. Untold(e, lastUp', since)
    <3>1. CASE ReportDue(later)
      <4>1. e.report_ts >= e.update_ts
        BY <1>5, <2>1, <2>3, <2>6, <3>1, UpdateDevTells
      <4>2. e.report_ts \in Nat /\ e.update_ts \in Nat  BY <2>7 DEF Device
      <4> QED  BY <4>1, <4>2 DEF Untold
    <3>2. CASE ~ ReportDue(later) /\ mode = "ATTR_PERIODIC" /\ lastUp = 0
      <4>1. LastRound <= since  BY <1>1, <3>2 DEF LoopTimes
      <4>2. lag <= MaxLag  BY <1>1 DEF LoopTimes
      <4>3. lastUp' = later  BY <1>2, <3>2
      <4>4. later <= since + MaxLag
        BY <1>4, <1>5, <4>1, <4>2 DEF LastRound
      <4> QED  BY <4>3, <4>4 DEF Untold
    <3>3. CASE ~ ReportDue(later) /\ ~ (mode = "ATTR_PERIODIC" /\ lastUp = 0)
      <4>1. e = d /\ lastUp' = lastUp  BY <1>2, <2>3, <3>3
      <4> QED  BY <2>2, <4>1 DEF Times
    <3> QED  BY <3>1, <3>2, <3>3
  <2> QED  BY <2>7, <2>8, <2>9 DEF Times, e
<1> QED  BY <1>1, <1>7, <1>8 DEF Bounds

(* The bounds hold at the start.                                           *)
LEMMA BoundsInit ==
  ASSUME Init
  PROVE  Bounds
<1>1. Inv  BY InvInit
<1>2. LoopTimes  BY DevicesAssumption DEF Init, LoopTimes, LastRound
<1>3. DevTimes  BY DEF Init, Registered, DevTimes
<1> QED  BY <1>1, <1>2, <1>3 DEF Bounds

(* The bounds hold in every reachable state.                               *)
LEMMA BoundsAlways == Spec => []Bounds
<1>1. Bounds /\ [Next]_vars => Bounds'
  <2> SUFFICES ASSUME Bounds, [Next]_vars PROVE Bounds'  OBVIOUS
  <2>1. CASE Tick \/ UNCHANGED vars \/ Halted
    BY <2>1, BoundsSameDevices DEF Halted
  <2>2. CASE Periodic  BY <2>2, BoundsPeriodic
  <2>3. CASE \E m \in Modes : SetMode(m)  BY <2>3, BoundsSameDevices
  <2>4. CASE \E p \in Pdts : AddPdt(p)  BY <2>4, BoundsSameDevices
  <2>5. CASE \E p \in Pdts : DelPdt(p)  BY <2>5, BoundsDelPdt
  <2>6. ASSUME NEW o \in Oids, NEW p \in Pdts, AddDev(o, p) PROVE Bounds'
    BY <2>6, BoundsAddDev
  <2>7. ASSUME NEW o \in Oids, DelDev(o) PROVE Bounds'
    BY <2>7, BoundsDelDev
  <2>8. ASSUME NEW o \in Oids, NEW T \in SUBSET Topics, NEW later \in Later,
               NEW slice \in [T -> Vals], NEW kind \in [T -> Kinds],
               NEW told \in SUBSET T, Packet(o, slice, kind, told, later)
        PROVE  Bounds'
    BY <2>8, BoundsPacket
  <2> QED  BY <2>1, <2>2, <2>3, <2>4, <2>5, <2>6, <2>7, <2>8 DEF Next
<1> QED  BY <1>1, BoundsInit, PTL DEF Spec

(* A silent device is gone within the age interval, one sweep gap and one  *)
(* lag of the management loop.                                             *)
THEOREM SilenceIsBounded == Spec => []SilenceBounded
<1>1. Bounds => SilenceBounded
  <2> SUFFICES ASSUME Bounds, MaxLag <= AgeInterval, NEW o \in Registered
               PROVE  now - dev[o].ts <= AgeInterval + SweepGap + MaxLag
    BY DEF SilenceBounded
  <2> DEFINE t == dev[o].ts
  <2>1. TypeOK /\ LoopTimes  BY DEF Bounds, Inv
  <2>2. Times(dev[o], lastSweep, now, lastUp, since)  BY DEF Bounds, DevTimes
  <2>3. t \in Nat /\ t >= 1 /\ lastSweep - t <= AgeInterval
    BY <2>1, <2>2, RegisteredIsDevice DEF Times, Swept
  <2> HIDE DEF t
  <2>4. /\ lag <= MaxLag /\ now - lag >= 1
        /\ lastSweep = 0 => now - lag = 1
        /\ lastSweep # 0 => (now - lag) - lastSweep <= SweepGap
    BY <2>1 DEF LoopTimes, LastRound
  <2>5. now - t <= AgeInterval + SweepGap + MaxLag
    BY <2>1, <2>3, <2>4, ClocksTyped
  <2> QED  BY <2>5 DEF t
<1> QED  BY <1>1, BoundsAlways, PTL

(* The application has seen what a device shows, unless the report is      *)
(* still to come or the change fell into the second of the last one.       *)
THEOREM ReportsAreCurrent == Spec => []ReportsCurrent
<1>1. Bounds => ReportsCurrent
  BY DEF Bounds, DevTimes, Times, Told, Unseen, ReportsCurrent
<1> QED  BY <1>1, BoundsAlways, PTL

(* In the periodic mode no change is kept from the application longer than *)
(* a report interval and two lags of the management loop.                  *)
THEOREM ReportIsBounded == Spec => []ReportBounded
<1>1. Bounds => ReportBounded
  <2> SUFFICES ASSUME Bounds, mode = "ATTR_PERIODIC", NEW o \in Registered,
                      dev[o].update_ts > dev[o].report_ts
               PROVE  \/ now - dev[o].update_ts <= UpInterval + 2 * MaxLag
                      \/ now - since <= UpInterval + 2 * MaxLag
    BY DEF ReportBounded
  <2> DEFINE u == dev[o].update_ts
  <2>1. TypeOK /\ LoopTimes  BY DEF Bounds, Inv
  <2>2. Times(dev[o], lastSweep, now, lastUp, since)  BY DEF Bounds, DevTimes
  <2>3. dev[o] \in Device  BY <2>1, RegisteredIsDevice
  <2>4. u \in Nat /\ (u >= lastUp \/ lastUp <= since + MaxLag)
    BY <2>2, <2>3 DEF Times, Untold, Device
  <2> HIDE DEF u
  <2>5. /\ lag <= MaxLag
        /\ \/ now - lag <= since
           \/ (now - lag) - lastUp <= UpInterval
    BY <2>1 DEF LoopTimes, LastRound
  <2>6. \/ now - u <= UpInterval + 2 * MaxLag
        \/ now - since <= UpInterval + 2 * MaxLag
    BY <2>1, <2>4, <2>5, ClocksTyped
  <2> QED  BY <2>6 DEF u
<1> QED  BY <1>1, BoundsAlways, PTL
=============================================================================
