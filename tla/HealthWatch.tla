----------------------------- MODULE HealthWatch -----------------------------
(***************************************************************************)
(* ListAndWatchDCUs, ListAndWatchVirtualDCUs, ListAndWatchMigDCUs,         *)
(* ListAndWatchHAMiDCUs and watchDevices (plugin.go).  The four sweep the  *)
(* health of their devices in the same way.  There is one handler per call *)
(* of kubelet, all on the same heartbeat channel and the same map of       *)
(* devices.  A handler looks at nothing but the heartbeat and the signal,  *)
(* so it stays after its stream is gone: kubelet hears only the last one.  *)
(* AllUnknown, StartHealthy and ChecksZero are faulty variants.            *)
(***************************************************************************)
EXTENDS Naturals, Sequences, FiniteSets

CONSTANTS
  Devices,      \* device IDs: cards, vDCUs, MIG instances, or fakes of cards
  Cards, CardOf,  \* CardOf[d]: the card, or DvInd, whose health is that of d
  Zero,         \* the card with DvInd 0, which an unknown ID is looked up as
  Changing,     \* whether devices come and go: vDCUs and MIG instances do, and
                \* with "mixed" the cards, which are hidden while they have vDCUs
  KeepsOld,     \* vDCUs and MIG: a new map is filled in place, and the old map
                \* is kept when no device is left; else a full map is set, and
                \* the hidden cards are then deleted from it
  MayRecover,   \* whether a failed card may be repaired
  MaxWatches    \* calls of ListAndWatch by kubelet, the restarts of kubelet included

VARIABLES
  healthy,      \* what SimpleHealthCheck says of each card
  offered,      \* the devices dcgm lists and the "mixed" filter leaves
  dcus,         \* the keys of p.DCUs, p.VirtualDCUs, p.MigDCUs or p.HAMiDCUs
  listing,      \* a call is in ListAndWatch, and the stream before it has ended
  unwritten,    \* the devices this call has still to add to dcus, or delete
  watch,        \* the handlers, in the order of their calls
  view,         \* the device list kubelet has: device to health
  panicked      \* index out of range or map race: the process is gone

vars == <<healthy, offered, dcus, listing, unwritten, watch, view, panicked>>
list == <<dcus, listing, unwritten>>

Health == {"Healthy", "Unhealthy"}

ASSUME DevicesAssumption ==
  /\ IsFiniteSet(Devices) /\ CardOf \in [Devices -> Cards] /\ Zero \in Cards
  /\ Changing \in BOOLEAN /\ KeepsOld \in BOOLEAN /\ MayRecover \in BOOLEAN
  /\ MaxWatches \in Nat

\* at: the device the handler checks next, 0 when it waits for a heartbeat;
\* health: the variable of that name, which lives as long as the sweep.
Reports == UNION {[S -> Health] : S \in SUBSET Devices}
Watch == [devs: Seq(Devices), reported: Reports, at: Nat, health: Health]

TypeOK ==
  /\ healthy \in [Cards -> BOOLEAN]
  /\ offered \subseteq Devices /\ dcus \subseteq Devices
  /\ listing \in BOOLEAN /\ unwritten \subseteq Devices
  /\ watch \in Seq(Watch)
  /\ view \in Reports
  /\ panicked \in BOOLEAN

Init ==
  /\ healthy \in [Cards -> BOOLEAN]
  /\ offered = Devices \/ (Changing /\ offered \in SUBSET Devices)
  /\ dcus = {} /\ listing = FALSE /\ unwritten = {} /\ watch = <<>> /\ view = <<>>
  /\ panicked = FALSE

\* The devices are listed in the order of a map, and all sent as healthy.
Listings(S) == {s \in [1..Cardinality(S) -> S] : {s[i] : i \in DOMAIN s} = S}
AllUnknown(S) == [d \in S |-> "Unknown"]
AllHealthy(S) == [d \in S |-> "Healthy"]

\* The call sets the map all handlers use and then changes it in place.
ListDevices ==
  /\ ~panicked /\ ~listing /\ Len(watch) < MaxWatches
  /\ listing' = TRUE
  /\ CASE ~KeepsOld -> dcus' = Devices /\ unwritten' = Devices \ offered
       [] KeepsOld /\ offered # {} -> dcus' = {} /\ unwritten' = offered
       [] KeepsOld /\ offered = {} -> UNCHANGED <<dcus, unwritten>>
  /\ UNCHANGED <<healthy, offered, watch, view, panicked>>

WriteMap(d) ==
  /\ ~panicked /\ d \in unwritten
  /\ unwritten' = unwritten \ {d}
  /\ dcus' = IF KeepsOld THEN dcus \cup {d} ELSE dcus \ {d}
  /\ UNCHANGED <<healthy, offered, listing, watch, view, panicked>>

SendFirst ==
  /\ ~panicked /\ listing /\ unwritten = {}
  /\ listing' = FALSE
  /\ view' = AllHealthy(dcus)
  /\ \E s \in Listings(dcus) :
       watch' = Append(watch, [devs |-> s, reported |-> AllHealthy(dcus),
                               at |-> 0, health |-> "Unhealthy"])
  /\ UNCHANGED <<healthy, offered, dcus, unwritten, panicked>>

ListAndWatch == ListDevices \/ SendFirst \/ \E d \in unwritten : WriteMap(d)

StartHealthy == "Healthy"
StartHealth == "Unhealthy"

Heartbeat(w) ==
  /\ ~panicked /\ watch[w].at = 0
  /\ watch' = [watch EXCEPT ![w].at = 1, ![w].health = StartHealth]
  /\ UNCHANGED <<healthy, offered, list, view, panicked>>

\* The loop runs to the length of the map, over a list of maybe another call.  A
\* read of the map while that call writes to it may end the process.
ChecksZero(d) == healthy[Zero]
Checks(d) == healthy[IF d \in dcus THEN CardOf[d] ELSE Zero]

BelowLen(i) == i <= Cardinality(dcus)

CheckDevice(w) ==
  /\ ~panicked /\ watch[w].at > 0 /\ BelowLen(watch[w].at)
  /\ \/ /\ watch[w].at > Len(watch[w].devs) \/ unwritten # {}
        /\ panicked' = TRUE /\ UNCHANGED watch
     \/ /\ watch[w].at <= Len(watch[w].devs)
        /\ LET d == watch[w].devs[watch[w].at]
               health == IF Checks(d) THEN "Healthy" ELSE watch[w].health
           IN watch' = [watch EXCEPT ![w].at = @ + 1, ![w].health = health,
                                     ![w].reported[d] = health]
        /\ UNCHANGED panicked
  /\ UNCHANGED <<healthy, offered, list, view>>

\* Send fails on the stream of an older call, and its error is dropped.
SendList(w) ==
  /\ ~panicked /\ watch[w].at > 0 /\ ~BelowLen(watch[w].at)
  /\ watch' = [watch EXCEPT ![w].at = 0]
  /\ view' = IF w = Len(watch) /\ ~listing THEN watch[w].reported ELSE view
  /\ UNCHANGED <<healthy, offered, list, panicked>>

CardFails(c) ==
  /\ healthy[c] /\ healthy' = [healthy EXCEPT ![c] = FALSE]
  /\ UNCHANGED <<offered, list, watch, view, panicked>>

CardRecovers(c) ==
  /\ MayRecover /\ ~healthy[c] /\ healthy' = [healthy EXCEPT ![c] = TRUE]
  /\ UNCHANGED <<offered, list, watch, view, panicked>>

\* An administrator creates or destroys vDCUs or MIG instances.
DeviceChanges(d) ==
  /\ Changing
  /\ offered' = IF d \in offered THEN offered \ {d} ELSE offered \cup {d}
  /\ UNCHANGED <<healthy, list, watch, view, panicked>>

WatchStep(w) == Heartbeat(w) \/ CheckDevice(w) \/ SendList(w)

Next ==
  \/ ListAndWatch
  \/ \E w \in DOMAIN watch : WatchStep(w)
  \/ \E c \in Cards : CardFails(c) \/ CardRecovers(c)
  \/ \E d \in Devices : DeviceChanges(d)

Spec == Init /\ [][Next]_vars

\* Beats keep coming and a channel serves its receivers in the order they came,
\* so every handler is served again and again.
FairSpec ==
  /\ Spec /\ WF_vars(listing /\ ListAndWatch)
  /\ \A w \in 1..MaxWatches : WF_vars(w \in DOMAIN watch /\ WatchStep(w))

-----------------------------------------------------------------------------
\* A device of a card that works is never reported as unhealthy, whatever other
\* cards and the handlers of older calls do.  (updateHealth, watchDevices)
NoFalseAlarm ==
  \A d \in Devices :
    []healthy[CardOf[d]] => [](d \in DOMAIN view => view[d] = "Healthy")

\* The failure of all cards is reported, however many older handlers share the
\* heartbeat, unless one of them recovers or a handler has brought the process
\* down.  (updateHealth, watchDevices)
AllFailedReported ==
  (watch # <<>> /\ \A c \in Cards : ~healthy[c])
    ~> \/ \A d \in DOMAIN view : view[d] = "Unhealthy"
       \/ panicked \/ \E c \in Cards : healthy[c]

\* The failure of one card is reported for its devices.  (The comment of
\* updateHealth: "update with per device GPU health status".)
FailedCardReported ==
  \A d \in Devices :
    (d \in DOMAIN view /\ ~healthy[CardOf[d]])
      ~> (d \in DOMAIN view => view[d] = "Unhealthy") \/ healthy[CardOf[d]]

\* The sweep of a handler, which runs to the length of p.DCUs, stays within its
\* own list, also when p.DCUs was replaced by a later call of ListAndWatch.
\* (The comment of watchDevices: updateHealth "will be called on every heartbeat
\* to refresh device health".)
SweepInRange ==
  \A w \in DOMAIN watch :
    watch[w].at > 0 /\ BelowLen(watch[w].at) => watch[w].at <= Len(watch[w].devs)
=============================================================================
