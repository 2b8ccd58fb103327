--------------------------- MODULE NodeRegistration ---------------------------
(***************************************************************************)
(* RegistrInAnnotation with apiDevices and apiDevicesRemain (register.go): *)
(* the WatchAndRegister loop and the informer's goroutine read the cards   *)
(* one by one and patch two annotations of the node, on which the          *)
(* scheduler relies.  Nothing orders their patches.  What the driver says  *)
(* of a card (its health, what is left of it, its vDCUs) is abstracted to  *)
(* the number of times it has changed.  A definition that no action uses   *)
(* is a faulty variant of the one after it.                                *)
(***************************************************************************)
EXTENDS Naturals

CONSTANTS
  Cards,        \* the cards with memory; the code leaves the others out
  Loops,        \* WatchAndRegister: one for each start of the plugin server
  Informers,    \* the goroutines that handle the pod events
  Absent,       \* the card is not in the list
  NoValue,      \* what a failed call of the driver returns: zero
  MaxChanges, MaxErrors, MaxCrashes

Writers == Loops \cup Informers

ASSUME RegistrationAssumption ==
  /\ Loops \cap Informers = {}
  /\ Absent \notin Nat /\ NoValue \notin Nat /\ Absent # NoValue
  /\ {MaxChanges, MaxErrors, MaxCrashes} \subseteq Nat

VARIABLES
  state,        \* how often each card has changed
  dcus,         \* the cards in p.DCUs
  anno,         \* the annotations hami.io/ and hygon.com/node-dcu-register
  report,       \* the report each writer is making; when idle, the one that failed
  changes, driverErrors, apiErrors, crashes

budgets == <<changes, driverErrors, apiErrors, crashes>>
vars == <<state, dcus, anno, report, budgets>>

\* full: apiDevices; left and count: the memory and cores, and the vDCUs, that
\* apiDevicesRemain takes from two calls of the driver.
Lists == [full: [Cards -> Nat \cup {Absent}],
          left: [Cards -> Nat \cup {Absent, NoValue}],
          count: [Cards -> Nat \cup {Absent, NoValue}]]

\* todo: the cards the loop over p.DCUs has still to read.  For the properties
\* only: alone, whether no other report was under way since this one began;
\* blind, whether it began with a card missing in p.DCUs.
Report == [pc: {"list", "idle", "full", "remain"}, todo: SUBSET Cards, lists: Lists,
           alone: BOOLEAN, blind: BOOLEAN]

RegistrationTypeOK ==
  /\ state \in [Cards -> Nat]
  /\ dcus \in SUBSET Cards
  /\ anno \in Lists
  /\ report \in [Writers -> Report]
  /\ changes \in Nat /\ driverErrors \in Nat /\ apiErrors \in Nat /\ crashes \in Nat

Nothing == [c \in Cards |-> Absent]
NoLists == [full |-> Nothing, left |-> Nothing, count |-> Nothing]
Idle == [pc |-> "idle", todo |-> {}, lists |-> NoLists, alone |-> FALSE, blind |-> FALSE]
Started == [w \in Writers |-> IF w \in Loops THEN [Idle EXCEPT !.pc = "list"] ELSE Idle]

Init ==
  /\ state = [c \in Cards |-> 0] /\ dcus = {} /\ anno = NoLists
  /\ report = Started
  /\ changes = 0 /\ driverErrors = 0 /\ apiErrors = 0 /\ crashes = 0

-----------------------------------------------------------------------------
DriverError == driverErrors + apiErrors < MaxErrors /\ driverErrors' = driverErrors + 1
ApiError == driverErrors + apiErrors < MaxErrors /\ apiErrors' = apiErrors + 1
NoDriverError == UNCHANGED driverErrors
NoApiError == UNCHANGED apiErrors

\* The loop lists the cards once; after an error p.DCUs stays empty.
List(w) ==
  /\ report[w].pc = "list"
  /\ report' = [report EXCEPT ![w].pc = "idle"]
  /\ \/ dcus' = Cards /\ NoDriverError
     \/ dcus' = {} /\ DriverError
  /\ UNCHANGED <<state, anno, changes, apiErrors, crashes>>

\* The timer of the loop fires, or a pod with a vDCU is added, ends or goes.
NewCards == {c \in dcus : anno.full[c] = Absent}
ToRead == dcus
UnderWay(w) == report[w].pc \in {"full", "remain"}
ResentReport(w) ==
  [pc |-> "full", todo |-> IF report[w].lists = NoLists THEN ToRead ELSE {},
   lists |-> report[w].lists,
   alone |-> \A v \in Writers : ~UnderWay(v), blind |-> dcus # Cards]
NewReport(w) ==
  [pc |-> "full", todo |-> ToRead, lists |-> NoLists,
   alone |-> \A v \in Writers : ~UnderWay(v), blind |-> dcus # Cards]

Begin(w) ==
  /\ report[w].pc = "idle"
  /\ report' = [v \in Writers |-> IF v = w THEN NewReport(w)
                                  ELSE [report[v] EXCEPT !.alone = FALSE]]
  /\ UNCHANGED <<state, dcus, anno, budgets>>

\* A card whose NUMA node cannot be read is skipped.
CardAsZero(r, c) == [r EXCEPT !.todo = @ \ {c}, !.lists.full[c] = NoValue]
CardSkipped(r, c) == [r EXCEPT !.todo = @ \ {c}]
WithFull(r, c, x) == [r EXCEPT !.todo = @ \ {c}, !.lists.full[c] = x]
WithLeft(r, c, x) == [r EXCEPT !.todo = @ \ {c}, !.lists.left[c] = x]
WithCount(r, c, x) == [r EXCEPT !.lists.count[c] = x]

ReadFull(w) ==
  /\ report[w].pc = "full"
  /\ \E c \in report[w].todo :
       \/ /\ report' = [report EXCEPT ![w] = WithFull(@, c, state[c])]
          /\ NoDriverError
       \/ report' = [report EXCEPT ![w] = CardSkipped(@, c)] /\ DriverError
  /\ UNCHANGED <<state, dcus, anno, changes, apiErrors, crashes>>

AllButOneRead(w) == \E c \in Cards : report[w].todo \subseteq {c}
AllRead(w) == report[w].todo = {}

GetNode(w) ==
  /\ report[w].pc = "full" /\ AllRead(w)
  /\ \/ report' = [report EXCEPT ![w].pc = "remain", ![w].todo = ToRead] /\ NoApiError
     \/ report' = [report EXCEPT ![w].pc = "idle"] /\ ApiError
  /\ UNCHANGED <<state, dcus, anno, changes, driverErrors, crashes>>

\* The card whose vDCUs are still to be counted; errors of the two calls are
\* dropped, and the zeros that come with them are registered.
Counting(w) ==
  {c \in Cards : report[w].lists.left[c] # Absent /\ report[w].lists.count[c] = Absent}

ReadLeft(w) ==
  /\ report[w].pc = "remain" /\ Counting(w) = {}
  /\ \E c \in report[w].todo :
       \/ /\ report' = [report EXCEPT ![w] = WithLeft(@, c, state[c])]
          /\ NoDriverError
       \/ /\ report' = [report EXCEPT ![w] = WithLeft(@, c, NoValue)]
          /\ DriverError
       \/ report' = [report EXCEPT ![w] = CardSkipped(@, c)] /\ DriverError
  /\ UNCHANGED <<state, dcus, anno, changes, apiErrors, crashes>>

ReadCount(w) ==
  /\ report[w].pc = "remain"
  /\ \E c \in Counting(w) :
       \/ report' = [report EXCEPT ![w] = WithCount(@, c, state[c])] /\ NoDriverError
       \/ report' = [report EXCEPT ![w] = WithCount(@, c, NoValue)] /\ DriverError
  /\ UNCHANGED <<state, dcus, anno, changes, apiErrors, crashes>>

\* One patch sets both annotations.
Patch(w) ==
  /\ report[w].pc = "remain" /\ AllRead(w) /\ Counting(w) = {}
  /\ \/ /\ anno' = report[w].lists /\ NoApiError
        /\ report' = [report EXCEPT ![w] = Idle]
     \/ /\ report' = [report EXCEPT ![w].pc = "idle"]
        /\ UNCHANGED anno /\ ApiError
  /\ UNCHANGED <<state, dcus, changes, driverErrors, crashes>>

GoOn(w) == ReadFull(w) \/ GetNode(w) \/ ReadLeft(w) \/ ReadCount(w) \/ Patch(w)
LoopStep(w) == List(w) \/ Begin(w) \/ GoOn(w)

CardChanges(c) ==
  /\ changes < MaxChanges /\ changes' = changes + 1
  /\ state' = [state EXCEPT ![c] = @ + 1]
  /\ UNCHANGED <<dcus, anno, report, driverErrors, apiErrors, crashes>>

\* The plugin starts again; the node keeps its annotations.
Crash ==
  /\ crashes < MaxCrashes /\ crashes' = crashes + 1
  /\ dcus' = {} /\ report' = Started
  /\ UNCHANGED <<state, anno, changes, driverErrors, apiErrors>>

Next ==
  \/ \E w \in Loops : LoopStep(w)
  \/ \E w \in Informers : Begin(w) \/ GoOn(w)
  \/ \E c \in Cards : CardChanges(c)
  \/ Crash

Spec == Init /\ [][Next]_vars

\* A loop goes on for ever, and a report that has begun comes to its end: the
\* driver and the API server answer.  Pod events may never come.
FairSpec ==
  /\ Spec
  /\ \A w \in Loops : WF_vars(LoopStep(w))
  /\ \A w \in Informers : WF_vars(GoOn(w))

-----------------------------------------------------------------------------
\* The annotations come to say of every card in p.DCUs what the driver says, and
\* stay so, whichever goroutine was the last to patch and whatever failed before.
\* (RegistrInAnnotation, WatchAndRegister)
Now == [c \in Cards |-> IF c \in dcus THEN state[c] ELSE Absent]
RegistrationConverges == <>[](anno = [full |-> Now, left |-> Now, count |-> Now])

\* Without an error of the driver, a report that began with the cards listed leaves
\* out no card it is past, also when it waits for the API server between its loops.
\* (apiDevices, apiDevicesRemain)
Complete(r) ==
  /\ r.pc = "full" => \A c \in Cards \ r.todo : r.lists.full[c] # Absent
  /\ r.pc = "remain" => /\ \A c \in Cards : r.lists.full[c] # Absent
                        /\ \A c \in Cards \ r.todo : r.lists.left[c] # Absent
ReportsComplete ==
  driverErrors = 0 => \A w \in Writers : UnderWay(w) /\ ~report[w].blind =>
                                           dcus = Cards /\ Complete(report[w])
RegistrationInv == RegistrationTypeOK /\ ReportsComplete

\* A registered card is dropped from an annotation only after an error of the
\* driver, or by a report that began before the loop had listed the cards.
\* (apiDevices, apiDevicesRemain, WatchAndRegister)
Drops(list, new) == \E c \in Cards : list[c] # Absent /\ new[c] = Absent
KeepsCards ==
  [][Drops(anno.full, anno'.full) \/ Drops(anno.left, anno'.left)
       => \/ driverErrors > 0
          \/ \E w \in Writers : report[w].blind /\ report'[w] # report[w]]_vars

\* A report that no other one has overlapped is at least as new as the annotations,
\* card by card, and no list is ahead of the cards.  (RegistrInAnnotation)
NotLater(list) == \A c \in Cards : list[c] \in Nat => list[c] <= state[c]
NotAhead(lists) == NotLater(lists.full) /\ NotLater(lists.left) /\ NotLater(lists.count)
Older(new, list) ==
  \E c \in Cards : list[c] \in Nat /\ new[c] \in Nat /\ new[c] < list[c]
AsNewAs(new, lists) == /\ ~Older(new.full, lists.full) /\ ~Older(new.left, lists.left)
                       /\ ~Older(new.count, lists.count)
NewestInv ==
  /\ NotAhead(anno) /\ \A w \in Writers : NotAhead(report[w].lists)
  /\ \A w \in Writers : report[w].alone /\ UnderWay(w) =>
       /\ \A v \in Writers \ {w} : ~UnderWay(v)
       /\ AsNewAs(report[w].lists, anno)

\* A report that no other one overlapped never takes an annotation back to what
\* the card was earlier: only overlapping reports can do that.
\* (RegistrInAnnotation)
NoStepBack ==
  [][\A w \in Writers : report[w].alone /\ report'[w] # report[w] => AsNewAs(anno', anno)]_vars
=============================================================================
