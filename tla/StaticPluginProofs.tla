--------------------------- MODULE StaticPluginProofs ---------------------------
(***************************************************************************)
(* Safety of StaticPlugin for any number of cards and instances and any    *)
(* number of faults: what an answered Allocate contains, and what kubelet  *)
(* is offered.  StaticInv is inductive.                                    *)
(***************************************************************************)
EXTENDS StaticPlugin, TLAPS

\* Kubelet has the IDs in the map of an open stream and nothing else, and only a
\* listing in progress changes a map.
OfferInv ==
  \A k \in Kinds :
    /\ offer[k] = IF stream[k] = "open" THEN {i \in AllIds : table[k][i] # None} ELSE {}
    /\ stream[k] # "fill" => writes[k] = {}

\* The maps of instances have instances, that of the cards has cards, under their
\* own addresses.
KeysInv ==
  \A k \in Kinds :
    /\ \A i \in AllIds : table[k][i] # None => i \in (IF k = "dcu" THEN Cards ELSE Ids)
    /\ \A w \in writes[k] : w[2] # None => w[1] \in (IF k = "dcu" THEN Cards ELSE Ids)

\* When a listing is as the driver answered it, what is in the map is right and
\* what is missing in it is still to be written.
Listed(k) == fresh[k] /\ stream[k] \in {"fill", "open"}
InstancesInv ==
  \A k \in Shared : Listed(k) /\ Existing # {} =>
    /\ \A i \in AllIds : table[k][i] # None => i \in Existing /\ table[k][i] = on[i]
    /\ \A w \in writes[k] : w[1] \in Existing /\ w[2] = on[w[1]]
    /\ \A i \in Existing : table[k][i] = on[i] \/ <<i, on[i]>> \in writes[k]

\* What a call has collected so far is what its stream's map says.
CallInv ==
  /\ call.left \subseteq call.ids
  /\ call.kind = "dcu" => call.ids \subseteq Cards
  /\ call.pc \in {"look", "answer"} =>
       /\ stream[call.kind] = "open" /\ call.ids \subseteq offer[call.kind]
       /\ call.nodes = {CardOf(call.kind, i) : i \in call.ids \ call.left}
       /\ ~call.failed => call.confs = (call.ids \ call.left) \cap Ids
       /\ call.pc = "answer" => call.left = {}

StaticInv ==
  StaticTypeOK /\ OfferInv /\ KeysInv /\ InstancesInv /\ CallInv
-----------------------------------------------------------------------------
LEMMA FaultsType == ASSUME StaticTypeOK, Fault \/ NoFault PROVE faults' \in Nat
  BY DEF StaticTypeOK, Fault, NoFault

LEMMA KindsType == \A S : KindsFor(S) \subseteq Kinds
  BY DEF KindsFor, SharedKind, Kinds, Shared

LEMMA EmptyTableType == EmptyTable \in [AllIds -> Cards \cup {None}]
  BY DEF EmptyTable

LEMMA NoCallType == NoCall \in Call
  BY DEF NoCall, Call, Kinds

\* Everything but the calls and the boot of the plugin.
Lists == <<strategy, policy, on, stream, table, writes, offer, fresh>>

LEMMA ListsKept ==
  ASSUME OfferInv, KeysInv, InstancesInv, UNCHANGED Lists
  PROVE  OfferInv' /\ KeysInv' /\ InstancesInv'
<1>1. OfferInv' /\ KeysInv'
  BY DEF Lists, OfferInv, KeysInv
<1>2. InstancesInv'
  BY DEF Lists, InstancesInv, Listed, Existing
<1>3. QED
  BY <1>1, <1>2

LEMMA CallKept ==
  ASSUME CallInv, UNCHANGED <<stream, table, offer, call>>
  PROVE  CallInv'
  BY DEF CallInv, CardOf

LEMMA InitOK == Init => StaticInv
<1> SUFFICES ASSUME Init PROVE StaticInv
  OBVIOUS
<1>1. StaticTypeOK
  BY EmptyTableType, NoCallType DEF Init, StaticTypeOK
<1>2. OfferInv /\ KeysInv
  BY DEF Init, OfferInv, KeysInv, EmptyTable
<1>3. InstancesInv
  BY DEF Init, InstancesInv, Listed, Kinds, Shared
<1>4. CallInv
  BY DEF Init, CallInv, NoCall
<1>5. QED
  BY <1>1, <1>2, <1>3, <1>4 DEF StaticInv

LEMMA BootOK ==
  ASSUME StaticInv, NameResources \/ StartPlugins
  PROVE  StaticInv'
<1> USE DEF StaticInv
<1>1. StaticTypeOK'
  BY FaultsType, KindsType DEF StaticTypeOK, NameResources, StartPlugins, config, listed, Call
<1>2. UNCHANGED Lists /\ UNCHANGED <<stream, table, offer, call>>
  BY DEF NameResources, StartPlugins, config, listed, Lists
<1>3. QED
  BY <1>1, <1>2, ListsKept, CallKept

\* A list of one kind changes while its stream is not open, so no call that goes
\* on is of that kind.
LEMMA CallElsewhere ==
  ASSUME StaticTypeOK, CallInv, NEW k \in Kinds, stream[k] # "open", UNCHANGED call,
         \A j \in Kinds \ {k} : stream'[j] = stream[j] /\ table'[j] = table[j] /\ offer'[j] = offer[j]
  PROVE  CallInv'
<1> SUFFICES ASSUME call.pc \in {"look", "answer"}
             PROVE  CallInv'
  BY DEF CallInv
<1>1. call.kind \in Kinds \ {k}
  BY DEF CallInv, StaticTypeOK, Call
<1>2. QED
  BY <1>1 DEF CallInv, CardOf

LEMMA NotRecognisedOK ==
  ASSUME StaticInv, NEW k \in Kinds, NotRecognised(k)
  PROVE  StaticInv'
<1> USE DEF StaticInv
<1>1. /\ stream' = [stream EXCEPT ![k] = "ended"] /\ stream[k] = "off"
      /\ UNCHANGED <<strategy, policy, on, boot, named, resources, table, writes, offer, fresh, call>>
      /\ faults' \in Nat
  BY FaultsType DEF NotRecognised, Asked, config, started
<1>2. StaticTypeOK'
  BY <1>1 DEF StaticTypeOK
<1>3. OfferInv' /\ KeysInv'
  BY <1>1 DEF OfferInv, KeysInv, StaticTypeOK
<1>4. InstancesInv'
  BY <1>1 DEF InstancesInv, Listed, StaticTypeOK, Existing, Shared, Kinds
<1>5. CallInv'
  BY <1>1, CallElsewhere DEF StaticTypeOK
<1>6. QED
  BY <1>2, <1>3, <1>4, <1>5

\* What a listing starts from and has still to write.
LEMMA FillingType ==
  ASSUME StaticTypeOK, NEW k \in Kinds, NEW found, found \in {Listable(k), {}}
  PROVE  /\ Filling(k, found).map \in [AllIds -> Cards \cup {None}]
         /\ Filling(k, found).writes \in SUBSET (AllIds \X (Cards \cup {None}))
  BY EmptyTableType DEF StaticTypeOK, Filling, CardFilling, Listable, Existing, AllIds, Kinds, Shared

LEMMA CardFillingOK ==
  ASSUME StaticTypeOK, StaticAssumption, NEW found, found \in {Cards, {}}
  PROVE  /\ \A i \in AllIds : CardFilling(found).map[i] # None => i \in Cards
         /\ \A w \in CardFilling(found).writes : w[2] = None
  BY DEF CardFilling, StaticTypeOK

LEMMA InstanceFillingOK ==
  ASSUME StaticInv, NEW k \in Shared, NEW found, found \in {Existing, {}}
  PROVE  /\ \A i \in AllIds : Filling(k, found).map[i] # None => i \in Ids
         /\ \A w \in Filling(k, found).writes : w[1] \in Existing /\ w[2] = on[w[1]]
         /\ found # {} => /\ \A i \in AllIds : Filling(k, found).map[i] = None
                          /\ \A i \in Existing : <<i, on[i]>> \in Filling(k, found).writes
<1>1. \A i \in AllIds : table[k][i] # None => i \in Ids
  BY DEF StaticInv, KeysInv, Kinds, Shared
<1>2. k # "dcu"
  BY DEF Shared
<1>3. QED
  BY <1>1, <1>2 DEF Filling, EmptyTable

LEMMA ListDevicesOK ==
  ASSUME StaticAssumption, StaticInv, NEW k \in Kinds, ListDevices(k)
  PROVE  StaticInv'
<1> PICK found \in {Listable(k), {}} :
      /\ IF found = Listable(k) THEN NoFault ELSE Fault
      /\ table' = [table EXCEPT ![k] = Filling(k, found).map]
      /\ writes' = [writes EXCEPT ![k] = Filling(k, found).writes]
      /\ fresh' = [fresh EXCEPT ![k] = (found = Listable(k))]
  BY DEF ListDevices
<1> DEFINE map == Filling(k, found).map
           todo == Filling(k, found).writes
<1>1. /\ stream' = [stream EXCEPT ![k] = "fill"] /\ stream[k] = "off"
      /\ UNCHANGED <<strategy, policy, on, boot, named, resources, offer, call>>
      /\ faults' \in Nat
  BY FaultsType DEF ListDevices, Asked, config, started, StaticInv
<1>2. /\ map \in [AllIds -> Cards \cup {None}]
      /\ todo \in SUBSET (AllIds \X (Cards \cup {None}))
  BY FillingType DEF StaticInv
<1>3. /\ table'[k] = map /\ writes'[k] = todo /\ fresh'[k] = (found = Listable(k))
      /\ \A j \in Kinds \ {k} : /\ table'[j] = table[j] /\ writes'[j] = writes[j]
                                /\ fresh'[j] = fresh[j] /\ stream'[j] = stream[j]
      /\ stream'[k] = "fill"
  BY <1>1 DEF StaticInv, StaticTypeOK
<1>4. StaticTypeOK'
  BY <1>1, <1>2 DEF StaticInv, StaticTypeOK
<1>5. CallInv'
  BY <1>1, <1>3, CallElsewhere DEF StaticInv
<1>6. OfferInv'
  <2>1. ASSUME NEW j \in Kinds
        PROVE  /\ offer'[j] = IF stream'[j] = "open" THEN {i \in AllIds : table'[j][i] # None} ELSE {}
               /\ stream'[j] # "fill" => writes'[j] = {}
    <3>1. CASE j = k
      BY <1>1, <1>3, <3>1 DEF StaticInv, OfferInv
    <3>2. CASE j # k
      <4>1. /\ stream'[j] = stream[j] /\ table'[j] = table[j]
            /\ writes'[j] = writes[j] /\ offer'[j] = offer[j]
        BY <1>1, <1>3, <3>2
      <4>2. /\ offer[j] = IF stream[j] = "open" THEN {i \in AllIds : table[j][i] # None} ELSE {}
            /\ stream[j] # "fill" => writes[j] = {}
        BY DEF StaticInv, OfferInv
      <4>3. QED
        BY <4>1, <4>2
    <3>3. QED
      BY <3>1, <3>2
  <2>2. QED
    BY <2>1 DEF OfferInv
<1>7. Existing' = Existing
  BY <1>1 DEF Existing
<1>8. CASE k = "dcu"
  <2>1. found \in {Cards, {}} /\ map = CardFilling(found).map /\ todo = CardFilling(found).writes
    BY <1>8 DEF Filling, Listable
  <2>2. /\ \A i \in AllIds : map[i] # None => i \in Cards
        /\ \A w \in todo : w[2] = None
    BY <2>1, CardFillingOK DEF StaticInv
  <2> HIDE DEF map, todo
  <2>3. KeysInv'
    BY <1>3, <1>8, <2>2 DEF StaticInv, KeysInv
  <2>4. InstancesInv'
    BY <1>1, <1>3, <1>7, <1>8 DEF StaticInv, InstancesInv, Listed, Shared, Kinds
  <2>5. QED
    BY <1>4, <1>5, <1>6, <2>3, <2>4 DEF StaticInv
<1>9. CASE k # "dcu"
  <2>1. k \in Shared /\ found \in {Existing, {}} /\ Listable(k) = Existing
    BY <1>9 DEF Kinds, Shared, Listable
  <2>2. /\ \A i \in AllIds : map[i] # None => i \in Ids
        /\ \A w \in todo : w[1] \in Existing /\ w[2] = on[w[1]]
        /\ found # {} => /\ \A i \in AllIds : map[i] = None
                         /\ \A i \in Existing : <<i, on[i]>> \in todo
    BY <2>1, InstanceFillingOK
  <2> HIDE DEF map, todo
  <2>3. KeysInv'
    BY <1>3, <1>9, <2>2 DEF StaticInv, KeysInv, Existing
  <2>4. InstancesInv'
    <3> SUFFICES ASSUME NEW j \in Shared, Listed(j)', Existing # {}
                 PROVE  /\ \A i \in AllIds : table'[j][i] # None => i \in Existing /\ table'[j][i] = on[i]
                        /\ \A w \in writes'[j] : w[1] \in Existing /\ w[2] = on[w[1]]
                        /\ \A i \in Existing : table'[j][i] = on[i] \/ <<i, on[i]>> \in writes'[j]
      BY <1>1, <1>7 DEF InstancesInv
    <3>1. CASE j = k
      BY <1>3, <2>1, <2>2, <3>1 DEF Listed
    <3>2. CASE j # k
      BY <1>3, <3>2 DEF StaticInv, InstancesInv, Listed, Shared, Kinds
    <3>3. QED
      BY <3>1, <3>2
  <2>5. QED
    BY <1>4, <1>5, <1>6, <2>3, <2>4 DEF StaticInv
<1>10. QED
  BY <1>8, <1>9

LEMMA WriteTableOK ==
  ASSUME StaticAssumption, StaticInv, NEW k \in Kinds, WriteTable(k)
  PROVE  StaticInv'
<1> PICK w \in writes[k] : /\ table' = [table EXCEPT ![k][w[1]] = w[2]]
                           /\ writes' = [writes EXCEPT ![k] = @ \ {w}]
  BY DEF WriteTable
<1>1. /\ UNCHANGED <<strategy, policy, on, boot, named, resources, stream, offer, fresh, call, faults>>
      /\ stream[k] = "fill"
  BY DEF WriteTable, config, started
<1>2. w \in AllIds \X (Cards \cup {None})
  BY DEF StaticInv, StaticTypeOK
<1>3. /\ \A j \in Kinds \ {k} : table'[j] = table[j] /\ writes'[j] = writes[j]
      /\ table'[k] = [table[k] EXCEPT ![w[1]] = w[2]] /\ writes'[k] = writes[k] \ {w}
  BY <1>2 DEF StaticInv, StaticTypeOK
<1>4. \A i \in AllIds : table'[k][i] = IF i = w[1] THEN w[2] ELSE table[k][i]
  BY <1>3 DEF StaticInv, StaticTypeOK
<1>5. StaticTypeOK'
  BY <1>1, <1>2 DEF StaticInv, StaticTypeOK
<1>6. CallInv'
  BY <1>1, <1>3, CallElsewhere DEF StaticInv
<1>7. OfferInv'
  BY <1>1, <1>3 DEF StaticInv, OfferInv
<1>8. KeysInv'
  BY <1>3, <1>4 DEF StaticInv, KeysInv
<1>9. Existing' = Existing /\ Existing \subseteq AllIds
  BY <1>1 DEF Existing, AllIds
<1>10. InstancesInv'
  BY <1>1, <1>2, <1>3, <1>4, <1>9 DEF StaticInv, InstancesInv, Listed, Kinds, Shared
<1>11. QED
  BY <1>5, <1>6, <1>7, <1>8, <1>10 DEF StaticInv

LEMMA SendDevicesOK ==
  ASSUME StaticInv, NEW k \in Kinds, SendDevices(k)
  PROVE  StaticInv'
<1>1. /\ stream' = [stream EXCEPT ![k] = "open"] /\ stream[k] = "fill" /\ writes[k] = {}
      /\ offer' = [offer EXCEPT ![k] = {i \in AllIds : table[k][i] # None}]
      /\ UNCHANGED <<strategy, policy, on, boot, named, resources, table, writes, fresh, call, faults>>
  BY DEF SendDevices, config, started
<1>2. /\ stream'[k] = "open" /\ offer'[k] = {i \in AllIds : table[k][i] # None}
      /\ \A j \in Kinds \ {k} : stream'[j] = stream[j] /\ offer'[j] = offer[j]
  BY <1>1 DEF StaticInv, StaticTypeOK
<1>3. StaticTypeOK'
  BY <1>1 DEF StaticInv, StaticTypeOK
<1>4. CallInv'
  BY <1>1, <1>2, CallElsewhere DEF StaticInv
<1>5. OfferInv'
  <2>1. ASSUME NEW j \in Kinds
        PROVE  /\ offer'[j] = IF stream'[j] = "open" THEN {i \in AllIds : table'[j][i] # None} ELSE {}
               /\ stream'[j] # "fill" => writes'[j] = {}
    BY <1>1, <1>2 DEF StaticInv, OfferInv
  <2>2. QED
    BY <2>1 DEF OfferInv
<1>6. KeysInv' /\ InstancesInv'
  BY <1>1, <1>2 DEF StaticInv, KeysInv, InstancesInv, Listed, Existing, Kinds, Shared
<1>7. QED
  BY <1>3, <1>4, <1>5, <1>6 DEF StaticInv

\* What a call becomes: its fields, one by one.
LEMMA CallAllocateOK ==
  ASSUME StaticInv, NEW k \in Kinds, CallAllocate(k)
  PROVE  StaticInv'
<1>1. PICK ids \in SUBSET offer[k] :
        \/ call' = [NoCall EXCEPT !.pc = "look", !.kind = k, !.ids = ids, !.left = ids] /\ NoFault
        \/ Fault /\ UNCHANGED call
  BY DEF CallAllocate
<1>2. UNCHANGED Lists /\ UNCHANGED <<boot, named, resources>> /\ stream[k] = "open" /\ faults' \in Nat
  BY <1>1, FaultsType DEF CallAllocate, config, started, listed, Lists, StaticInv
<1>3. ids \subseteq AllIds
  BY DEF StaticInv, StaticTypeOK
<1>4. \/ UNCHANGED call
      \/ call' = [pc |-> "look", kind |-> k, ids |-> ids, left |-> ids, nodes |-> {},
                  confs |-> {}, failed |-> FALSE]
  BY <1>1 DEF NoCall
<1>5. call' \in Call
  <2>1. call \in Call
    BY DEF StaticInv, StaticTypeOK
  <2>2. [pc |-> "look", kind |-> k, ids |-> ids, left |-> ids, nodes |-> {},
         confs |-> {}, failed |-> FALSE] \in Call
    BY <1>3 DEF Call
  <2>3. QED
    BY <1>4, <2>1, <2>2
<1>6. StaticTypeOK'
  BY <1>2, <1>5 DEF StaticInv, StaticTypeOK, Lists
<1>7. k = "dcu" => ids \subseteq Cards
  BY DEF StaticInv, OfferInv, KeysInv
<1>8. CallInv'
  BY <1>2, <1>4, <1>7 DEF StaticInv, CallInv, CardOf, Lists
<1>9. QED
  BY <1>2, <1>6, <1>8, ListsKept DEF StaticInv

\* FindDevice adds what belongs to one ID, or ends the call.
LEMMA FindDeviceOK ==
  ASSUME StaticInv, NEW i \in call.left, FindDevice(i)
  PROVE  StaticInv'
<1> DEFINE k == call.kind
<1>1. \/ call' = NoCall
      \/ /\ CardOf(k, i) # None
         /\ \E confs \in {{}, {i}, {None}}, failed \in BOOLEAN :
              /\ call' = [call EXCEPT !.left = @ \ {i}, !.nodes = @ \cup {CardOf(k, i)},
                                      !.confs = @ \cup confs, !.failed = @ \/ failed]
              /\ k = "dcu" => confs = {}
              /\ ~failed /\ k # "dcu" => confs = {i}
  BY DEF FindDevice
<1>2. UNCHANGED Lists /\ UNCHANGED <<boot, named, resources>> /\ faults' \in Nat
  BY FaultsType DEF FindDevice, config, started, listed, Lists, StaticInv
<1>3. call.pc \in {"look", "lost"}
  BY DEF FindDevice
<1>4. CASE call' = NoCall
  <2>1. StaticTypeOK'
    BY <1>2, <1>4, NoCallType DEF StaticInv, StaticTypeOK, Lists
  <2>2. CallInv'
    BY <1>4 DEF CallInv, NoCall
  <2>3. QED
    BY <1>2, <2>1, <2>2, ListsKept DEF StaticInv
<1>5. CASE call' # NoCall
  <2> PICK confs \in {{}, {i}, {None}}, failed \in BOOLEAN :
        /\ call' = [call EXCEPT !.left = @ \ {i}, !.nodes = @ \cup {CardOf(k, i)},
                                !.confs = @ \cup confs, !.failed = @ \/ failed]
        /\ k = "dcu" => confs = {}
        /\ ~failed /\ k # "dcu" => confs = {i}
    BY <1>1, <1>5
  <2>1. call \in Call /\ k \in Kinds /\ i \in AllIds /\ CardOf(k, i) # None
    BY <1>1, <1>5 DEF StaticInv, StaticTypeOK, Call
  <2>2. k = "dcu" => i \in Cards /\ i \notin Ids
    BY StaticAssumption DEF StaticInv, CallInv, StaticAssumption
  <2>3. k # "dcu" => i \in Ids
    BY <2>1 DEF StaticInv, KeysInv, CardOf
  <2>4. CardOf(k, i) \in Cards
    BY <2>1, <2>2 DEF StaticInv, StaticTypeOK, CardOf
  <2>5. /\ call'.left = call.left \ {i} /\ call'.nodes = call.nodes \cup {CardOf(k, i)}
        /\ call'.confs = call.confs \cup confs /\ call'.failed = (call.failed \/ failed)
        /\ call'.pc = call.pc /\ call'.kind = k /\ call'.ids = call.ids
        /\ call' \in Call
    <3>1. confs \subseteq Ids \cup {None} /\ failed \in BOOLEAN
      BY <2>1, <2>2, <2>3
    <3>2. CardOf(k, i) \in Cards
      BY <2>4
    <3>3. QED
      BY <2>1, <3>1, <3>2 DEF Call
  <2>6. StaticTypeOK'
    BY <1>2, <2>5 DEF StaticInv, StaticTypeOK, Lists
  <2>7. \A j \in AllIds : CardOf(k, j)' = CardOf(k, j)
    BY <1>2, <2>5 DEF CardOf, Lists
  <2>8. call.ids \ call'.left = (call.ids \ call.left) \cup {i}
    BY <2>5 DEF StaticInv, CallInv
  <2>9. CallInv'
    <3>1. call'.left \subseteq call'.ids /\ (call'.kind = "dcu" => call'.ids \subseteq Cards)
      BY <2>5 DEF StaticInv, CallInv
    <3> SUFFICES ASSUME call.pc = "look"
                 PROVE  /\ stream'[k] = "open" /\ call.ids \subseteq offer'[k]
                        /\ call'.nodes = {CardOf(k, j)' : j \in call.ids \ call'.left}
                        /\ ~call'.failed => call'.confs = (call.ids \ call'.left) \cap Ids
      BY <1>3, <2>5, <3>1 DEF CallInv, CardOf
    <3>2. /\ stream[k] = "open" /\ call.ids \subseteq offer[k] /\ call.ids \subseteq AllIds
          /\ call.nodes = {CardOf(k, j) : j \in call.ids \ call.left}
          /\ ~call.failed => call.confs = (call.ids \ call.left) \cap Ids
      BY <2>1 DEF StaticInv, CallInv, Call
    <3>3. stream'[k] = "open" /\ call.ids \subseteq offer'[k]
      BY <1>2, <3>2 DEF Lists
    <3>4. call'.nodes = {CardOf(k, j)' : j \in call.ids \ call'.left}
      BY <2>5, <2>7, <2>8, <3>2
    <3>5. ~call'.failed => call'.confs = (call.ids \ call'.left) \cap Ids
      <4>1. ~failed => confs = {i} \cap Ids
        BY <2>2, <2>3
      <4>2. failed \in BOOLEAN /\ call.failed \in BOOLEAN
        BY <2>1 DEF Call
      <4>3. QED
        BY <2>5, <2>8, <3>2, <4>1, <4>2
    <3>6. QED
      BY <3>3, <3>4, <3>5
  <2>10. QED
    BY <1>2, <2>6, <2>9, ListsKept DEF StaticInv
<1>6. QED
  BY <1>4, <1>5

LEMMA AnswerOK ==
  ASSUME StaticInv, Respond \/ Answered
  PROVE  StaticInv'
<1>1. UNCHANGED Lists /\ UNCHANGED <<boot, named, resources, faults>>
  BY DEF Respond, Answered, config, started, listed, Lists
<1>2. \/ call' = NoCall
      \/ call' = [call EXCEPT !.pc = "answer"] /\ call.pc = "look" /\ call.left = {}
  BY DEF Respond, Answered
<1>3. call \in Call
  BY DEF StaticInv, StaticTypeOK
<1>4. StaticTypeOK'
  BY <1>1, <1>2, <1>3, NoCallType DEF StaticInv, StaticTypeOK, Lists, Call
<1>5. CallInv'
  BY <1>1, <1>2, <1>3 DEF StaticInv, CallInv, CardOf, Lists, NoCall, Call
<1>6. QED
  BY <1>1, <1>4, <1>5, ListsKept DEF StaticInv

\* Nothing of what is said of fresh lists has to hold after a change.
LEMMA InstanceChangesOK ==
  ASSUME StaticInv, NEW i \in Ids, InstanceChanges(i)
  PROVE  StaticInv'
<1>1. /\ UNCHANGED <<strategy, policy, boot, named, resources, stream, table, writes, offer, call>>
      /\ fresh' = [k \in Kinds |-> FALSE] /\ faults' \in Nat
      /\ on' \in [Ids -> Cards \cup {None}]
  BY FaultsType DEF InstanceChanges, config, started, StaticInv, StaticTypeOK
<1>2. StaticTypeOK'
  BY <1>1 DEF StaticInv, StaticTypeOK
<1>3. OfferInv' /\ KeysInv' /\ CallInv'
  BY <1>1, CallKept DEF StaticInv, OfferInv, KeysInv
<1>4. InstancesInv'
  BY <1>1 DEF InstancesInv, Listed, Kinds, Shared
<1>5. QED
  BY <1>2, <1>3, <1>4 DEF StaticInv

LEMMA KubeletRestartsOK ==
  ASSUME StaticInv, KubeletRestarts
  PROVE  StaticInv'
<1>1. /\ UNCHANGED <<strategy, policy, on, boot, named, resources, table, writes, fresh>>
      /\ \A k \in Kinds : stream[k] # "fill"
      /\ stream' = [k \in Kinds |-> "off"] /\ offer' = [k \in Kinds |-> {}] /\ faults' \in Nat
  BY FaultsType DEF KubeletRestarts, config, started, StaticInv
<1>2. call' = NoCall \/ call' = [call EXCEPT !.pc = "lost"]
  BY DEF KubeletRestarts
<1>3. call \in Call
  BY DEF StaticInv, StaticTypeOK
<1>4. StaticTypeOK'
  BY <1>1, <1>2, <1>3, NoCallType DEF StaticInv, StaticTypeOK, Call
<1>5. OfferInv' /\ KeysInv'
  BY <1>1 DEF StaticInv, OfferInv, KeysInv
<1>6. InstancesInv'
  BY <1>1 DEF InstancesInv, Listed, Kinds, Shared
<1>7. CallInv'
  BY <1>2, <1>3 DEF StaticInv, CallInv, NoCall, Call
<1>8. QED
  BY <1>4, <1>5, <1>6, <1>7 DEF StaticInv

LEMMA PluginRestartsOK ==
  ASSUME StaticInv, PluginRestarts
  PROVE  StaticInv'
<1>1. ProcessStarts /\ UNCHANGED <<strategy, policy, on>> /\ faults' \in Nat
  BY FaultsType DEF PluginRestarts, config, StaticInv
<1>2. StaticTypeOK'
  BY <1>1, EmptyTableType, NoCallType DEF StaticInv, StaticTypeOK, ProcessStarts
<1>3. OfferInv' /\ KeysInv'
  BY <1>1 DEF ProcessStarts, OfferInv, KeysInv, EmptyTable
<1>4. InstancesInv'
  BY <1>1 DEF ProcessStarts, InstancesInv, Listed, Kinds, Shared
<1>5. CallInv'
  BY <1>1 DEF ProcessStarts, CallInv, NoCall
<1>6. QED
  BY <1>2, <1>3, <1>4, <1>5 DEF StaticInv

LEMMA StutterOK == ASSUME StaticInv, UNCHANGED vars PROVE StaticInv'
<1>1. UNCHANGED Lists /\ UNCHANGED <<boot, named, resources, call, faults>>
  BY DEF vars, config, started, listed, Lists
<1>2. StaticTypeOK'
  BY <1>1 DEF StaticInv, StaticTypeOK, Lists
<1>3. CallInv'
  BY <1>1 DEF StaticInv, CallInv, CardOf, Lists
<1>4. QED
  BY <1>1, <1>2, <1>3, ListsKept DEF StaticInv

-----------------------------------------------------------------------------
\* StaticInv is an invariant: what the maps, the lists kubelet has and the calls
\* in progress have to do with each other at every moment of a listing.
\* (ListAndWatch*, Allocate*)
THEOREM StaticInvariant == Spec => []StaticInv
<1>1. ASSUME StaticInv, [Next]_vars PROVE StaticInv'
  <2>1. CASE Next
    <3>1. CASE Plugin
      <4>1. ASSUME NEW k \in Kinds, Listing(k) PROVE StaticInv'
        BY <1>1, <4>1, StaticAssumption, NotRecognisedOK, ListDevicesOK, WriteTableOK, SendDevicesOK
        DEF Listing
      <4>2. ASSUME NEW i \in call.left, FindDevice(i) PROVE StaticInv'
        BY <1>1, <4>2, FindDeviceOK
      <4>3. QED
        BY <1>1, <3>1, <4>1, <4>2, BootOK, AnswerOK DEF Plugin
    <3>2. CASE KubeletRestarts \/ PluginRestarts
      BY <1>1, <3>2, KubeletRestartsOK, PluginRestartsOK
    <3>3. ASSUME NEW k \in Kinds, CallAllocate(k) PROVE StaticInv'
      BY <1>1, <3>3, CallAllocateOK
    <3>4. ASSUME NEW i \in Ids, InstanceChanges(i) PROVE StaticInv'
      BY <1>1, <3>4, InstanceChangesOK
    <3>5. QED
      BY <2>1, <3>1, <3>2, <3>3, <3>4 DEF Next
  <2>2. CASE UNCHANGED vars
    BY <1>1, <2>2, StutterOK
  <2>3. QED
    BY <1>1, <2>1, <2>2
<1>2. QED
  BY <1>1, InitOK, PTL DEF Spec

\* Every variable keeps its type: in particular no response names the nodes of
\* anything but a card.
THEOREM StaticTypes == Spec => []StaticTypeOK
<1>1. StaticInv => StaticTypeOK
  BY DEF StaticInv
<1>2. QED
  BY <1>1, StaticInvariant, PTL

\* While an instance is left, a listing the driver answered offers what there is
\* and nothing else.  (ListAndWatchVirtualDCUs, ListAndWatchMigDCUs)
THEOREM NoGhostsOffered == Spec => []NoGhosts
<1>1. StaticInv => NoGhosts
  <2> SUFFICES ASSUME StaticInv, NEW k \in Shared, stream[k] = "open", fresh[k], Existing # {}
               PROVE  offer[k] = Existing
    BY DEF NoGhosts
  <2>1. k \in Kinds /\ writes[k] = {} /\ offer[k] = {i \in AllIds : table[k][i] # None}
    BY DEF StaticInv, OfferInv, Kinds
  <2>2. /\ \A i \in AllIds : table[k][i] # None => i \in Existing
        /\ \A i \in Existing : table[k][i] = on[i]
    BY <2>1 DEF StaticInv, InstancesInv, Listed
  <2>3. \A i \in Existing : i \in AllIds /\ on[i] # None
    BY DEF Existing, AllIds
  <2>4. QED
    BY <2>1, <2>2, <2>3
<1>2. QED
  BY <1>1, StaticInvariant, PTL

\* A container gets the nodes and the conf files of its own devices, whatever was
\* restarted, destroyed and created before the listing: for a list the driver
\* answered, instances that are still there, and the files of MIG instances only
\* when the driver answered the call.  (Allocate*)
THEOREM RightDevices == Spec => []RightDevice
<1>1. StaticInv => RightDevice
  <2> SUFFICES ASSUME StaticInv, call.pc = "answer", fresh[call.kind],
                      call.ids \cap Ids \subseteq Existing
               PROVE  /\ call.nodes = {IF i \in Cards THEN i ELSE on[i] : i \in call.ids}
                      /\ ~call.failed => call.confs = call.ids \cap Ids
    BY DEF RightDevice
  <2> DEFINE k == call.kind
  <2>1. /\ k \in Kinds /\ stream[k] = "open" /\ call.ids \subseteq offer[k] /\ call.left = {}
        /\ call.nodes = {CardOf(k, i) : i \in call.ids}
        /\ ~call.failed => call.confs = call.ids \cap Ids
    BY DEF StaticInv, CallInv, StaticTypeOK, Call
  <2>2. \A i \in call.ids : CardOf(k, i) = IF i \in Cards THEN i ELSE on[i]
    <3>1. CASE k = "dcu"
      BY <3>1 DEF StaticInv, CallInv, CardOf
    <3>2. CASE k # "dcu"
      <4>1. k \in Shared /\ call.ids \subseteq Ids /\ call.ids \subseteq AllIds
        BY <2>1, <3>2 DEF StaticInv, OfferInv, KeysInv, Kinds
      <4>2. \A i \in call.ids : i \notin Cards /\ i \in Existing /\ table[k][i] # None
        BY <2>1, <4>1, StaticAssumption DEF StaticInv, OfferInv, StaticAssumption
      <4>3. \A i \in call.ids : table[k][i] = on[i]
        BY <2>1, <4>1, <4>2 DEF StaticInv, InstancesInv, Listed
      <4>4. QED
        BY <3>2, <4>2, <4>3 DEF CardOf
    <3>3. QED
      BY <3>1, <3>2
  <2>3. QED
    BY <2>1, <2>2
<1>2. QED
  BY <1>1, StaticInvariant, PTL
=============================================================================
