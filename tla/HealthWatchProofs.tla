--------------------------- MODULE HealthWatchProofs ---------------------------
(***************************************************************************)
(* Theorems about HealthWatch, for any number of devices, cards and calls  *)
(* of ListAndWatch: the types, and that no working card is reported.       *)
(***************************************************************************)
EXTENDS HealthWatch, SequenceTheorems, FiniteSetTheorems, TLAPS

\* The map and the list of the handler kubelet hears belong together.
Last == watch[Len(watch)]
MapIsListed ==
  /\ ~listing => unwritten = {}
  /\ ~listing /\ watch # <<>> => \A i \in DOMAIN Last.devs : Last.devs[i] \in dcus
HealthInv == TypeOK /\ MapIsListed

\* What kubelet has been told of d, and is going to be told by the last handler.
NoAlarm(d) ==
  /\ d \in DOMAIN view => view[d] = "Healthy"
  /\ ~listing /\ watch # <<>> /\ d \in DOMAIN Last.reported => Last.reported[d] = "Healthy"

-----------------------------------------------------------------------------
(* Lists and reports. *)

LEMMA ReportType ==
  ASSUME NEW S \in SUBSET Devices, NEW f \in [S -> Health]
  PROVE  f \in Reports
  BY DEF Reports

LEMMA ReportUpdate ==
  ASSUME NEW f \in Reports, NEW d \in Devices, NEW e \in Health
  PROVE  /\ [f EXCEPT ![d] = e] \in Reports
         /\ DOMAIN [f EXCEPT ![d] = e] = DOMAIN f
         /\ \A c \in DOMAIN f : [f EXCEPT ![d] = e][c] = IF c = d THEN e ELSE f[c]
<1>1. PICK S \in SUBSET Devices : f \in [S -> Health]
  BY DEF Reports
<1>2. [f EXCEPT ![d] = e] \in [S -> Health]
  BY <1>1
<1>3. QED
  BY <1>1, <1>2, ReportType

LEMMA ListingType ==
  ASSUME NEW S \in SUBSET Devices, NEW s \in Listings(S)
  PROVE  s \in Seq(Devices) /\ \A i \in DOMAIN s : s[i] \in S
<1>1. Cardinality(S) \in Nat
  BY DevicesAssumption, FS_Subset, FS_CardinalityType
<1>2. s \in [1..Cardinality(S) -> S]
  BY DEF Listings
<1>3. s \in [1..Cardinality(S) -> Devices]
  BY <1>2
<1>4. QED
  BY <1>1, <1>2, <1>3

\* One handler's record is replaced.
LEMMA WatchUpdate ==
  ASSUME watch \in Seq(Watch), NEW w \in DOMAIN watch, NEW new \in Watch,
         watch' = [watch EXCEPT ![w] = new]
  PROVE  /\ watch' \in Seq(Watch) /\ Len(watch') = Len(watch) /\ watch' # <<>>
         /\ watch # <<>> /\ Last' = IF w = Len(watch) THEN new ELSE Last
<1>1. w \in 1..Len(watch) /\ Len(watch) \in Nat
  BY LenProperties
<1>2. watch' \in Seq(Watch) /\ Len(watch') = Len(watch)
  BY <1>1
<1>3. watch # <<>> /\ watch' # <<>>
  BY <1>1, <1>2
<1>4. QED
  BY <1>1, <1>2, <1>3 DEF Last

LEMMA HandlerType ==
  ASSUME TypeOK, NEW w \in DOMAIN watch
  PROVE  watch[w] \in Watch /\ watch \in Seq(Watch)
  BY DEF TypeOK

LEMMA LastType ==
  ASSUME TypeOK, watch # <<>>
  PROVE  Last \in Watch /\ Len(watch) \in DOMAIN watch
<1>1. Len(watch) \in Nat \ {0} /\ DOMAIN watch = 1..Len(watch)
  BY EmptySeq, LenProperties DEF TypeOK
<1>2. QED
  BY <1>1, HandlerType DEF Last

-----------------------------------------------------------------------------
(* The steps. *)

LEMMA ListDevicesInv == HealthInv /\ ListDevices => HealthInv'
<1> SUFFICES ASSUME HealthInv, ListDevices PROVE HealthInv'
  OBVIOUS
<1>1. dcus' \subseteq Devices /\ unwritten' \subseteq Devices
  BY DevicesAssumption DEF HealthInv, TypeOK, ListDevices
<1>2. listing' = TRUE
  BY DEF ListDevices
<1>3. QED
  BY <1>1, <1>2 DEF HealthInv, TypeOK, MapIsListed, ListDevices

LEMMA WriteMapInv == ASSUME HealthInv, NEW d \in unwritten, WriteMap(d) PROVE HealthInv'
<1>1. listing
  BY DEF HealthInv, MapIsListed
<1>2. dcus' \subseteq Devices /\ unwritten' \subseteq Devices
  BY DEF HealthInv, TypeOK, WriteMap
<1>3. QED
  BY <1>1, <1>2 DEF HealthInv, TypeOK, MapIsListed, WriteMap

\* The list that is sent first is all healthy, and it is the map's.
LEMMA FirstReport ==
  ASSUME HealthInv, SendFirst
  PROVE  /\ watch' \in Seq(Watch) /\ view' \in Reports
         /\ \A i \in DOMAIN Last'.devs : Last'.devs[i] \in dcus
         /\ view' = AllHealthy(dcus) /\ Last'.reported = AllHealthy(dcus)
<1>1. dcus \subseteq Devices /\ watch \in Seq(Watch)
  BY DEF HealthInv, TypeOK
<1>2. PICK s \in Listings(dcus) :
        watch' = Append(watch, [devs |-> s, reported |-> AllHealthy(dcus), at |-> 0,
                                health |-> "Unhealthy"])
  BY DEF SendFirst
<1> DEFINE new == [devs |-> s, reported |-> AllHealthy(dcus), at |-> 0, health |-> "Unhealthy"]
<1>3. AllHealthy(dcus) \in [dcus -> Health]
  BY DEF AllHealthy, Health
<1>4. AllHealthy(dcus) \in Reports
  BY <1>1, <1>3, ReportType
<1>5. s \in Seq(Devices) /\ \A i \in DOMAIN s : s[i] \in dcus
  BY <1>1, ListingType
<1>6. new \in Watch
  BY <1>4, <1>5 DEF Watch, Health
<1>7. new.devs = s /\ new.reported = AllHealthy(dcus) /\ watch' = Append(watch, new)
  BY <1>2
<1> HIDE DEF new
<1>8. watch' \in Seq(Watch) /\ watch'[Len(watch')] = new
  BY <1>1, <1>6, <1>7, AppendProperties
<1>9. Last' = new
  BY <1>8 DEF Last
<1>10. QED
  BY <1>4, <1>5, <1>7, <1>8, <1>9 DEF SendFirst

LEMMA SendFirstInv == HealthInv /\ SendFirst => HealthInv'
<1> SUFFICES ASSUME HealthInv, SendFirst PROVE HealthInv'
  OBVIOUS
<1>1. TypeOK'
  BY FirstReport DEF HealthInv, TypeOK, SendFirst
<1>2. MapIsListed'
  BY FirstReport DEF MapIsListed, SendFirst
<1>3. QED
  BY <1>1, <1>2 DEF HealthInv

\* What a step of a handler comes to: a new record with the same list.
LEMMA HandlerStep ==
  ASSUME HealthInv, NEW w \in DOMAIN watch, NEW new \in Watch,
         watch' = [watch EXCEPT ![w] = new], new.devs = watch[w].devs,
         view' \in Reports, UNCHANGED <<healthy, offered, list, panicked>>
  PROVE  HealthInv'
<1>1. /\ watch' \in Seq(Watch) /\ watch # <<>>
      /\ Last' = IF w = Len(watch) THEN new ELSE Last
  BY WatchUpdate DEF HealthInv, TypeOK
<1>2. TypeOK'
  BY <1>1 DEF HealthInv, TypeOK, list
<1>3. Last'.devs = Last.devs
  BY <1>1 DEF Last
<1>4. MapIsListed'
  BY <1>1, <1>3 DEF HealthInv, MapIsListed, list
<1>5. QED
  BY <1>2, <1>4 DEF HealthInv

LEMMA HeartbeatInv == ASSUME HealthInv, NEW w \in DOMAIN watch, Heartbeat(w) PROVE HealthInv'
<1> DEFINE new == [watch[w] EXCEPT !.at = 1, !.health = StartHealth]
<1>1. watch[w] \in Watch
  BY HandlerType DEF HealthInv
<1>2. new \in Watch /\ new.devs = watch[w].devs
  BY <1>1 DEF Watch, StartHealth, Health
<1>3. watch' = [watch EXCEPT ![w] = new]
  BY DEF Heartbeat
<1>4. view' \in Reports /\ UNCHANGED <<healthy, offered, list, panicked>>
  BY DEF Heartbeat, HealthInv, TypeOK
<1>5. QED
  BY <1>2, <1>3, <1>4, HandlerStep

\* The record after the check of a device.
Checked(w) ==
  LET d == watch[w].devs[watch[w].at]
      health == IF Checks(d) THEN "Healthy" ELSE watch[w].health
  IN [watch[w] EXCEPT !.at = @ + 1, !.health = health, !.reported[d] = health]

LEMMA RecordUpdate ==
  ASSUME NEW r \in Watch, NEW d, NEW e \in Health
  PROVE  [r EXCEPT !.at = @ + 1, !.health = e, !.reported[d] = e] =
           [devs |-> r.devs, reported |-> [r.reported EXCEPT ![d] = e], at |-> r.at + 1, health |-> e]
<1> DEFINE r1 == [devs |-> r.devs, reported |-> r.reported, at |-> r.at + 1, health |-> r.health]
           r2 == [devs |-> r.devs, reported |-> r.reported, at |-> r.at + 1, health |-> e]
<1>1. r1 \in Watch /\ r2 \in Watch
  BY DEF Watch
<1>2. [r EXCEPT !.at = @ + 1] = r1
  BY DEF Watch
<1>3. [r1 EXCEPT !.health = e] = r2
  OBVIOUS
<1>4. [r2 EXCEPT !.reported[d] = e] =
        [devs |-> r.devs, reported |-> [r.reported EXCEPT ![d] = e], at |-> r.at + 1, health |-> e]
  OBVIOUS
<1>5. [r EXCEPT !.at = @ + 1, !.health = e, !.reported[d] = e] =
        [[[r EXCEPT !.at = @ + 1] EXCEPT !.health = e] EXCEPT !.reported[d] = e]
  OBVIOUS
<1> HIDE DEF r1, r2
<1>6. QED
  BY <1>2, <1>3, <1>4, <1>5

LEMMA CheckedType ==
  ASSUME HealthInv, NEW w \in DOMAIN watch, watch[w].at > 0, watch[w].at <= Len(watch[w].devs)
  PROVE  /\ Checked(w) \in Watch /\ Checked(w).devs = watch[w].devs
         /\ DOMAIN Checked(w).reported = DOMAIN watch[w].reported
         /\ watch[w].at \in DOMAIN watch[w].devs
         /\ \A d \in DOMAIN watch[w].reported :
              \/ Checked(w).reported[d] = watch[w].reported[d]
              \/ /\ d = watch[w].devs[watch[w].at]
                 /\ Checks(d) => Checked(w).reported[d] = "Healthy"
<1> DEFINE d == watch[w].devs[watch[w].at]
           health == IF Checks(d) THEN "Healthy" ELSE watch[w].health
<1>1. watch[w] \in Watch
  BY HandlerType DEF HealthInv
<1>2. watch[w].devs \in Seq(Devices) /\ watch[w].at \in Nat /\ watch[w].reported \in Reports
      /\ watch[w].health \in Health
  BY <1>1 DEF Watch
<1>3. watch[w].at \in DOMAIN watch[w].devs
  BY <1>2, LenProperties
<1>4. d \in Devices /\ health \in Health
  BY <1>2, <1>3 DEF Health
<1>5. /\ [watch[w].reported EXCEPT ![d] = health] \in Reports
      /\ DOMAIN [watch[w].reported EXCEPT ![d] = health] = DOMAIN watch[w].reported
      /\ \A c \in DOMAIN watch[w].reported :
           [watch[w].reported EXCEPT ![d] = health][c] =
             IF c = d THEN health ELSE watch[w].reported[c]
  BY <1>2, <1>4, ReportUpdate
<1>6. Checked(w) = [devs |-> watch[w].devs, reported |-> [watch[w].reported EXCEPT ![d] = health],
                    at |-> watch[w].at + 1, health |-> health]
  <2>1. Checked(w) = [watch[w] EXCEPT !.at = @ + 1, !.health = health, !.reported[d] = health]
    BY DEF Checked
  <2> HIDE DEF d, health
  <2>2. QED
    BY <1>1, <1>4, <2>1, RecordUpdate
<1>7. Checked(w) \in Watch
  BY <1>2, <1>4, <1>5, <1>6 DEF Watch
<1>8. QED
  BY <1>3, <1>5, <1>6, <1>7

LEMMA CheckDeviceSplit ==
  ASSUME NEW w \in DOMAIN watch, CheckDevice(w)
  PROVE  \/ UNCHANGED watch /\ panicked' = TRUE
         \/ /\ watch[w].at <= Len(watch[w].devs) /\ UNCHANGED panicked
            /\ watch' = [watch EXCEPT ![w] = Checked(w)]
  BY DEF CheckDevice, Checked

LEMMA CheckDeviceInv == ASSUME HealthInv, NEW w \in DOMAIN watch, CheckDevice(w) PROVE HealthInv'
<1>1. CASE UNCHANGED watch /\ panicked' = TRUE
  BY <1>1 DEF CheckDevice, HealthInv, TypeOK, MapIsListed, Last, list
<1>2. CASE /\ watch[w].at <= Len(watch[w].devs) /\ UNCHANGED panicked
           /\ watch' = [watch EXCEPT ![w] = Checked(w)]
  <2>1. Checked(w) \in Watch /\ Checked(w).devs = watch[w].devs
    BY <1>2, CheckedType DEF CheckDevice
  <2>2. view' \in Reports /\ UNCHANGED <<healthy, offered, list, panicked>>
    BY <1>2 DEF CheckDevice, HealthInv, TypeOK
  <2>3. QED
    BY <1>2, <2>1, <2>2, HandlerStep
<1>3. QED
  BY <1>1, <1>2, CheckDeviceSplit

LEMMA SendListInv == ASSUME HealthInv, NEW w \in DOMAIN watch, SendList(w) PROVE HealthInv'
<1> DEFINE new == [watch[w] EXCEPT !.at = 0]
<1>1. watch[w] \in Watch
  BY HandlerType DEF HealthInv
<1>2. new \in Watch /\ new.devs = watch[w].devs /\ watch[w].reported \in Reports
  BY <1>1 DEF Watch
<1>3. watch' = [watch EXCEPT ![w] = new]
  BY DEF SendList
<1>4. view' \in Reports /\ UNCHANGED <<healthy, offered, list, panicked>>
  BY <1>2 DEF SendList, HealthInv, TypeOK
<1>5. QED
  BY <1>2, <1>3, <1>4, HandlerStep

LEMMA InitHealth == Init => HealthInv
<1> SUFFICES ASSUME Init PROVE HealthInv
  OBVIOUS
<1>1. offered \subseteq Devices /\ <<>> \in Seq(Watch)
  BY EmptySeq DEF Init
<1>2. view \in [{} -> Health]
  BY DEF Init
<1>3. view \in Reports
  BY <1>2, ReportType
<1>4. QED
  BY <1>1, <1>3 DEF Init, HealthInv, TypeOK, MapIsListed

LEMMA HealthStep == HealthInv /\ [Next]_vars => HealthInv'
<1> SUFFICES ASSUME HealthInv, [Next]_vars PROVE HealthInv'
  OBVIOUS
<1>1. CASE ListAndWatch
  BY <1>1, ListDevicesInv, WriteMapInv, SendFirstInv DEF ListAndWatch
<1>2. CASE \E w \in DOMAIN watch : WatchStep(w)
  BY <1>2, HeartbeatInv, CheckDeviceInv, SendListInv DEF WatchStep
<1>3. ASSUME NEW c \in Cards, CardFails(c) \/ CardRecovers(c) PROVE HealthInv'
  BY <1>3 DEF CardFails, CardRecovers, HealthInv, TypeOK, MapIsListed, Last, list
<1>4. ASSUME NEW d \in Devices, DeviceChanges(d) PROVE HealthInv'
  BY <1>4 DEF DeviceChanges, HealthInv, TypeOK, MapIsListed, Last, list
<1>5. CASE UNCHANGED vars
  BY <1>5 DEF vars, list, HealthInv, TypeOK, MapIsListed, Last
<1>6. QED
  BY <1>1, <1>2, <1>3, <1>4, <1>5 DEF Next

LEMMA HealthInvariant == Spec => []HealthInv
  BY InitHealth, HealthStep, PTL DEF Spec

\* Every variable keeps its type: no device is ever sent to kubelet with a health
\* the protocol does not know.  (updateHealth)
THEOREM HealthTypes == Spec => []TypeOK
<1>1. HealthInv => TypeOK
  BY DEF HealthInv
<1>2. QED
  BY <1>1, HealthInvariant, PTL

-----------------------------------------------------------------------------
(* No false alarm. *)

LEMMA NoAlarmStep ==
  ASSUME NEW d \in Devices, HealthInv, healthy[CardOf[d]], NoAlarm(d), [Next]_vars
  PROVE  NoAlarm(d)'
<1>1. ASSUME UNCHANGED <<view, watch, listing>> PROVE NoAlarm(d)'
  BY <1>1 DEF NoAlarm, Last
<1>2. CASE ListDevices \/ \E c \in unwritten : WriteMap(c)
  <2>1. listing' /\ view' = view
    BY <1>2 DEF ListDevices, WriteMap, HealthInv, MapIsListed
  <2>2. QED
    BY <2>1 DEF NoAlarm
<1>3. CASE SendFirst
  <2>1. view' = AllHealthy(dcus) /\ Last'.reported = AllHealthy(dcus)
    BY <1>3, FirstReport
  <2>2. QED
    BY <2>1 DEF NoAlarm, AllHealthy
<1>4. ASSUME NEW w \in DOMAIN watch, NEW new \in Watch, watch' = [watch EXCEPT ![w] = new],
             UNCHANGED listing, view' \in {view, watch[w].reported},
             view' = view \/ (w = Len(watch) /\ ~listing),
             ~listing /\ w = Len(watch) /\ d \in DOMAIN new.reported => new.reported[d] = "Healthy"
      PROVE  NoAlarm(d)'
  <2>1. watch # <<>> /\ Last' = IF w = Len(watch) THEN new ELSE Last
    BY <1>4, WatchUpdate DEF HealthInv, TypeOK
  <2>2. d \in DOMAIN view' => view'[d] = "Healthy"
    BY <1>4, <2>1 DEF NoAlarm, Last
  <2>3. ~listing /\ d \in DOMAIN Last'.reported => Last'.reported[d] = "Healthy"
    BY <1>4, <2>1 DEF NoAlarm
  <2>4. QED
    BY <1>4, <2>2, <2>3 DEF NoAlarm
<1>5. ASSUME NEW w \in DOMAIN watch, WatchStep(w) PROVE NoAlarm(d)'
  <2>1. watch[w] \in Watch
    BY HandlerType DEF HealthInv
  <2>2. ~listing /\ w = Len(watch) /\ d \in DOMAIN watch[w].reported =>
          watch[w].reported[d] = "Healthy" /\ \A i \in DOMAIN watch[w].devs : watch[w].devs[i] \in dcus
    <3>1. watch # <<>>
      BY <1>5, LenProperties, EmptySeq DEF HealthInv, TypeOK
    <3>2. QED
      BY <3>1 DEF NoAlarm, HealthInv, MapIsListed, Last
  <2>3. CASE Heartbeat(w)
    <3> DEFINE new == [watch[w] EXCEPT !.at = 1, !.health = StartHealth]
    <3>1. new \in Watch /\ new.reported = watch[w].reported
      BY <2>1 DEF Watch, StartHealth, Health
    <3>2. watch' = [watch EXCEPT ![w] = new] /\ UNCHANGED <<listing, view>>
      BY <2>3 DEF Heartbeat, list
    <3> HIDE DEF new
    <3>3. QED
      BY <1>4, <2>2, <3>1, <3>2
  <2>4. CASE CheckDevice(w)
    <3>1. UNCHANGED <<listing, view>> /\ watch[w].at > 0
      BY <2>4 DEF CheckDevice, list
    <3>2. CASE UNCHANGED watch
      BY <1>1, <3>1, <3>2
    <3>3. CASE watch[w].at <= Len(watch[w].devs) /\ watch' = [watch EXCEPT ![w] = Checked(w)]
      <4>1. /\ Checked(w) \in Watch
            /\ DOMAIN Checked(w).reported = DOMAIN watch[w].reported
            /\ watch[w].at \in DOMAIN watch[w].devs
            /\ d \in DOMAIN watch[w].reported =>
                 \/ Checked(w).reported[d] = watch[w].reported[d]
                 \/ /\ d = watch[w].devs[watch[w].at]
                    /\ Checks(d) => Checked(w).reported[d] = "Healthy"
        BY <3>1, <3>3, CheckedType
      <4>2. d \in dcus => Checks(d)
        BY DEF Checks
      <4>3. ~listing /\ w = Len(watch) /\ d \in DOMAIN Checked(w).reported =>
              Checked(w).reported[d] = "Healthy"
        BY <2>2, <4>1, <4>2
      <4>4. QED
        BY <1>4, <3>1, <3>3, <4>1, <4>3
    <3>4. QED
      BY <2>4, <3>2, <3>3, CheckDeviceSplit
  <2>5. CASE SendList(w)
    <3> DEFINE new == [watch[w] EXCEPT !.at = 0]
    <3>1. new \in Watch /\ new.reported = watch[w].reported
      BY <2>1 DEF Watch
    <3>2. /\ watch' = [watch EXCEPT ![w] = new] /\ UNCHANGED listing
          /\ view' = view \/ (w = Len(watch) /\ ~listing)
          /\ view' \in {view, watch[w].reported}
      BY <2>5 DEF SendList, list
    <3> HIDE DEF new
    <3>3. QED
      BY <1>4, <2>2, <3>1, <3>2
  <2>6. QED
    BY <1>5, <2>3, <2>4, <2>5 DEF WatchStep
<1>6. CASE \E c \in Cards : CardFails(c) \/ CardRecovers(c)
  BY <1>1, <1>6 DEF CardFails, CardRecovers, list
<1>7. CASE \E c \in Devices : DeviceChanges(c)
  BY <1>1, <1>7 DEF DeviceChanges, list
<1>8. CASE UNCHANGED vars
  BY <1>1, <1>8 DEF vars, list
<1>9. QED
  BY <1>2, <1>3, <1>5, <1>6, <1>7, <1>8 DEF Next, ListAndWatch

\* A device of a card that works is never reported unhealthy, whatever other
\* cards do, although handlers of dead streams sweep old lists over the new map
\* and take an unknown device for one of card 0: only the last handler is heard,
\* and its list is that of the map.  (updateHealth, watchDevices)
THEOREM NeverFalseAlarm == Spec => NoFalseAlarm
<1> SUFFICES ASSUME NEW d \in Devices
             PROVE  Spec => ([]healthy[CardOf[d]] => [](d \in DOMAIN view => view[d] = "Healthy"))
  BY DEF NoFalseAlarm
<1>1. Init => NoAlarm(d)
  BY DEF Init, NoAlarm
<1>2. HealthInv /\ healthy[CardOf[d]] /\ NoAlarm(d) /\ [Next]_vars => NoAlarm(d)'
  BY NoAlarmStep
<1>3. NoAlarm(d) => (d \in DOMAIN view => view[d] = "Healthy")
  BY DEF NoAlarm
<1>4. QED
  BY <1>1, <1>2, <1>3, HealthInvariant, PTL DEF Spec
=============================================================================
