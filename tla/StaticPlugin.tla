------------------------------ MODULE StaticPlugin ------------------------------
(***************************************************************************)
(* start (main.go) and the plugins it starts, one for each resource: the   *)
(* names of the resources, the listing of cards, vDCUs or MIG instances    *)
(* when kubelet connects, and the Allocate handlers that look a device up  *)
(* in that list (plugin.go).  The driver is asked at start, at each        *)
(* listing and in Allocate, and an administrator may create and destroy    *)
(* instances in between.  Health is the matter of HealthWatch, the         *)
(* strategy "hami" that of HamiNode.  CardsOnly, NothingHidden, KnownKept  *)
(* and IdIsAddress are faulty variants of the definitions that follow      *)
(* them.                                                                   *)
(***************************************************************************)
EXTENDS Naturals, FiniteSets

CONSTANTS
  Cards,        \* cards, by PCI address
  Ids,          \* IDs of instances: vdev<i> of a vDCU, the UUID of a MIG instance
  None,         \* no card: what an ID that is not in the map is looked up as
  MaxFaults     \* instances created or destroyed, calls of the driver and reads of
                \* /sys that fail, restarts of kubelet and of the plugin: all together

ASSUME StaticAssumption ==
  /\ Cards \cap Ids = {} /\ None \notin Cards
  /\ MaxFaults \in Nat

VARIABLES
  strategy, policy,   \* RESOURCE_REGISTER_STRATEGY; POLICY, "0" or another one
  on,                 \* kept by the driver: the card each instance is on, or None
  boot,               \* how far start() is
  named,              \* whether the driver gave the name the policy asks for
  resources,          \* the kinds of resource start() has started a plugin for
  stream,             \* the ListAndWatch of each kind
  table,              \* p.DCUs, p.VirtualDCUs, p.MigDCUs: the card of an ID
  writes,             \* what the listing has still to change in the table
  offer,              \* the IDs kubelet has of each kind
  fresh,              \* history: listed without error, and no change since
  call,               \* an Allocate call
  faults

config == <<strategy, policy>>
started == <<boot, named, resources>>
listed == <<stream, table, writes, offer, fresh>>
vars == <<config, on, started, listed, call, faults>>

Shared == {"share", "mig"}             \* instances of cards
Kinds  == {"dcu"} \cup Shared
AllIds == Cards \cup Ids

\* A response names the device nodes of cards and the conf files of instances;
\* None is dev0gi0ci0.conf, the file of the zero MigInfo.
Call == [pc: {"none", "look", "answer", "lost"}, kind: Kinds, ids: SUBSET AllIds,
         left: SUBSET AllIds, nodes: SUBSET Cards, confs: SUBSET (Ids \cup {None}),
         failed: BOOLEAN]
NoCall == [pc |-> "none", kind |-> "dcu", ids |-> {}, left |-> {}, nodes |-> {},
           confs |-> {}, failed |-> FALSE]

StaticTypeOK ==
  /\ strategy \in {"dcu", "vdcu", "mig", "mixed"} /\ policy \in {"0", "model"}
  /\ on \in [Ids -> Cards \cup {None}]
  /\ boot \in {"name", "list", "run"} /\ named \in BOOLEAN /\ resources \subseteq Kinds
  /\ stream \in [Kinds -> {"off", "fill", "open", "ended"}]
  /\ table \in [Kinds -> [AllIds -> Cards \cup {None}]]
  /\ writes \in [Kinds -> SUBSET (AllIds \X (Cards \cup {None}))]
  /\ offer \in [Kinds -> SUBSET AllIds] /\ fresh \in [Kinds -> BOOLEAN]
  /\ call \in Call
  /\ faults \in Nat

EmptyTable == [i \in AllIds |-> None]
ProcessStarts ==
  /\ boot' = "name" /\ named' = FALSE /\ resources' = {}
  /\ stream' = [k \in Kinds |-> "off"] /\ table' = [k \in Kinds |-> EmptyTable]
  /\ writes' = [k \in Kinds |-> {}] /\ offer' = [k \in Kinds |-> {}]
  /\ fresh' = [k \in Kinds |-> FALSE] /\ call' = NoCall

Init ==
  /\ strategy \in {"dcu", "vdcu", "mig", "mixed"} /\ policy \in {"0", "model"}
  /\ on \in [Ids -> Cards \cup {None}]
  /\ boot = "name" /\ named = FALSE /\ resources = {}
  /\ stream = [k \in Kinds |-> "off"] /\ table = [k \in Kinds |-> EmptyTable]
  /\ writes = [k \in Kinds |-> {}] /\ offer = [k \in Kinds |-> {}]
  /\ fresh = [k \in Kinds |-> FALSE] /\ call = NoCall
  /\ faults = 0

Fault == faults < MaxFaults /\ faults' = faults + 1
NoFault == UNCHANGED faults

-----------------------------------------------------------------------------
\* GetResourceNamePrefix and GetHAMiResourceName ask the driver for the model
\* under every policy and drop its error; policy 0 does not use the answer.
NameNeedsDriver == policy # "0"

NameResources ==
  /\ boot = "name" /\ boot' = "list"
  /\ \/ named' = TRUE /\ NoFault
     \/ named' = ~NameNeedsDriver /\ Fault
  /\ UNCHANGED <<config, on, resources, listed, call>>

\* The instances there are name the other resources; after an error there are none.
Existing == {i \in Ids : on[i] # None}
SharedKind == IF strategy = "mig" THEN "mig" ELSE "share"
CardsOnly(instances) == IF strategy \in {"dcu", "mixed"} THEN {"dcu"} ELSE {}
KindsFor(instances) ==
  (IF strategy \in {"dcu", "mixed"} THEN {"dcu"} ELSE {})
    \cup (IF strategy \in {"vdcu", "mig", "mixed"} /\ instances # {} THEN {SharedKind} ELSE {})

StartPlugins ==
  /\ boot = "list" /\ boot' = "run"
  /\ \/ resources' = KindsFor(Existing) /\ NoFault
     \/ resources' = KindsFor({}) /\ Fault
  /\ UNCHANGED <<config, on, named, listed, call>>

\* Kubelet refuses a resource without a name; it asks the others for their
\* devices.  ListAndWatch finds the kind in the name, that of whole cards by
\* comparing it with the name as the driver gives it now.
Asked(k) == boot = "run" /\ k \in resources /\ named /\ stream[k] = "off"
Recognised(k) == k # "dcu" \/ ~NameNeedsDriver

NotRecognised(k) ==
  /\ Asked(k) /\ ~Recognised(k) /\ Fault
  /\ stream' = [stream EXCEPT ![k] = "ended"]
  /\ UNCHANGED <<config, on, started, table, writes, offer, fresh, call>>

\* A new map is filled in place; that of the cards at once, and with "mixed" the
\* cards that have vDCUs are then deleted.  The old map of instances is kept
\* when there is none left.
NothingHidden == {}
Hidden == IF strategy = "mixed" THEN {on[i] : i \in Existing} ELSE {}
CardFilling(found) == [map |-> [i \in AllIds |-> IF i \in found THEN i ELSE None],
                       writes |-> {<<c, None>> : c \in Hidden \cap found}]
KnownKept(k, found) ==
  IF k = "dcu" THEN CardFilling(found)
  ELSE [map |-> table[k], writes |-> {<<i, on[i]>> : i \in {j \in found : table[k][j] = None}}]
Filling(k, found) ==
  IF k = "dcu" THEN CardFilling(found)
  ELSE [map |-> IF found = {} THEN table[k] ELSE EmptyTable,
        writes |-> {<<i, on[i]>> : i \in found}]
Listable(k) == IF k = "dcu" THEN Cards ELSE Existing

ListDevices(k) ==
  /\ Asked(k)
  /\ \E found \in {Listable(k), {}} :
       /\ IF found = Listable(k) THEN NoFault ELSE Fault
       /\ table' = [table EXCEPT ![k] = Filling(k, found).map]
       /\ writes' = [writes EXCEPT ![k] = Filling(k, found).writes]
       /\ fresh' = [fresh EXCEPT ![k] = (found = Listable(k))]
  /\ stream' = [stream EXCEPT ![k] = "fill"]
  /\ UNCHANGED <<config, on, started, offer, call>>

WriteTable(k) ==
  /\ stream[k] = "fill"
  /\ \E w \in writes[k] :
       /\ table' = [table EXCEPT ![k][w[1]] = w[2]]
       /\ writes' = [writes EXCEPT ![k] = @ \ {w}]
  /\ UNCHANGED <<config, on, started, stream, offer, fresh, call, faults>>

SendDevices(k) ==
  /\ stream[k] = "fill" /\ writes[k] = {}
  /\ stream' = [stream EXCEPT ![k] = "open"]
  /\ offer' = [offer EXCEPT ![k] = {i \in AllIds : table[k][i] # None}]
  /\ UNCHANGED <<config, on, started, table, writes, fresh, call, faults>>

-----------------------------------------------------------------------------
\* Kubelet asks for one container; a container may have several whole cards or
\* instances.  Allocate too finds the kind in the name: after an error of the
\* driver the response is empty, which kubelet takes for a failure.
CallAllocate(k) ==
  /\ call = NoCall /\ stream[k] = "open"
  /\ \E ids \in SUBSET offer[k] :
       /\ ids # {}
       /\ \/ call' = [NoCall EXCEPT !.pc = "look", !.kind = k, !.ids = ids, !.left = ids] /\ NoFault
          \/ ~Recognised(k) /\ Fault /\ UNCHANGED call
  /\ UNCHANGED <<config, on, started, listed>>

\* GetCardAndRender finds nothing for an ID that is not in the map: its address
\* is empty.  MigInfoByUUID fails for an instance that is gone, and may fail
\* otherwise; its error is dropped and the conf file of the zero value mounted.
IdIsAddress(k, i) == i
CardOf(k, i) == IF k = "dcu" THEN i ELSE table[k][i]

FindDevice(i) ==
  /\ call.pc \in {"look", "lost"} /\ i \in call.left
  /\ LET k == call.kind
         found(confs, failed) ==
           [call EXCEPT !.left = @ \ {i}, !.nodes = @ \cup {CardOf(k, i)},
                        !.confs = @ \cup confs, !.failed = @ \/ failed]
     IN \/ /\ CardOf(k, i) # None
           /\ \/ k = "dcu" /\ call' = found({}, FALSE) /\ NoFault
              \/ k = "share" /\ call' = found({i}, FALSE) /\ NoFault
              \/ k = "mig" /\ on[i] # None /\ call' = found({i}, FALSE) /\ NoFault
              \/ k = "mig" /\ call' = found({None}, TRUE) /\ (Fault \/ (on[i] = None /\ NoFault))
        \/ call' = NoCall /\ (Fault \/ (CardOf(k, i) = None /\ NoFault))
  /\ UNCHANGED <<config, on, started, listed>>

Respond ==
  /\ call.pc \in {"look", "lost"} /\ call.left = {}
  /\ call' = IF call.pc = "look" THEN [call EXCEPT !.pc = "answer"] ELSE NoCall
  /\ UNCHANGED <<config, on, started, listed, faults>>

Answered == call.pc = "answer" /\ call' = NoCall /\ UNCHANGED <<config, on, started, listed, faults>>

\* An administrator creates or destroys an instance.  The index of a vDCU may be
\* used again on another card, the UUID of a MIG instance is not.
InstanceChanges(i) ==
  /\ Fault
  /\ \E c \in (Cards \cup {None}) \ {on[i]} :
       /\ c # None => strategy # "mig" /\ on[i] = None
       /\ on' = [on EXCEPT ![i] = c]
  /\ fresh' = [k \in Kinds |-> FALSE]
  /\ UNCHANGED <<config, started, stream, table, writes, offer, call>>

\* A restart of kubelet ends the streams; the plugin's maps stay, and a call in
\* progress goes on with nobody to hear its answer.
KubeletRestarts ==
  /\ Fault
  /\ \A k \in Kinds : stream[k] # "fill"
  /\ stream' = [k \in Kinds |-> "off"] /\ offer' = [k \in Kinds |-> {}]
  /\ call' = IF call.pc \in {"look", "lost"} THEN [call EXCEPT !.pc = "lost"] ELSE NoCall
  /\ UNCHANGED <<config, on, started, table, writes, fresh>>

\* The plugin is started again: after a crash, or when Allocate reads a map
\* that is being filled, which Go may end the process for.
PluginRestarts ==
  /\ \/ Fault
     \/ call.pc = "lost" /\ writes[call.kind] # {} /\ NoFault
  /\ ProcessStarts
  /\ UNCHANGED <<config, on>>

Listing(k) == NotRecognised(k) \/ ListDevices(k) \/ WriteTable(k) \/ SendDevices(k)
Plugin ==
  \/ NameResources \/ StartPlugins \/ Respond \/ Answered
  \/ \E k \in Kinds : Listing(k)
  \/ \E i \in call.left : FindDevice(i)

Next ==
  \/ Plugin \/ KubeletRestarts \/ PluginRestarts
  \/ \E k \in Kinds : CallAllocate(k)
  \/ \E i \in Ids : InstanceChanges(i)

Spec == Init /\ [][Next]_vars

\* The goroutines of the plugin run, and kubelet connects to what registers.
FairSpec == Spec /\ WF_vars(NameResources) /\ WF_vars(StartPlugins)
                 /\ \A k \in Kinds : WF_vars(Listing(k))

-----------------------------------------------------------------------------
\* A container gets the nodes of the cards its instances are on and the conf
\* files of those instances, of all of them and of no others: after kubelet or the
\* plugin has been restarted, and when an index was used again on another card
\* before the last listing.  The file of MIG instances is known only when the
\* driver answered (AllocateDCUs, AllocateVirtualDCUs, AllocateMigDCUs).
RightDevice ==
  (call.pc = "answer" /\ fresh[call.kind] /\ call.ids \cap Ids \subseteq Existing) =>
    /\ call.nodes = {IF i \in Cards THEN i ELSE on[i] : i \in call.ids}
    /\ ~call.failed => call.confs = call.ids \cap Ids

\* While there is an instance left, a new listing offers none that is gone
\* (ListAndWatchVirtualDCUs, ListAndWatchMigDCUs).  Without one the map of the
\* listing before is offered: the condition says how far the code goes.
NoGhosts ==
  \A k \in Shared :
    (stream[k] = "open" /\ fresh[k] /\ Existing # {}) => offer[k] = Existing

\* Once nothing fails any more, what kubelet connects to comes to be offered, the
\* list complete and without what is gone, under every policy: with "mixed" only
\* the cards without a vDCU.  The resource of instances is left out when the last
\* instance is gone, for then the old list stays.  (ListAndWatch and its three
\* variants; a list that failed is not tried again before kubelet restarts.)
CompleteOffer(k) ==
  IF k \in Shared THEN Existing
  ELSE {c \in Cards : strategy = "mixed" => \A i \in Existing : on[i] # c}
ServedInTheEnd ==
  \A k \in Kinds :
    (/\ boot = "run" /\ named /\ k \in resources /\ stream[k] = "off"
     /\ faults = MaxFaults /\ (k \in Shared => Existing # {}))
      ~> (k \notin resources \/ (stream[k] = "open" /\ offer[k] = CompleteOffer(k)))

\* When the faults are over before the plugin starts, every instance there is
\* comes to be offered, under every strategy that shares cards: start() lists the
\* resources once and ListAndWatch the instances again, of that resource.
OfferedInTheEnd ==
  \A i \in Ids :
    (/\ boot = "name" /\ strategy \in {"vdcu", "mig", "mixed"} /\ i \in Existing
     /\ faults = MaxFaults)
      ~> (i \in offer[SharedKind])
=============================================================================
