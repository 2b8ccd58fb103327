------------------------ MODULE NodeRegistrationProofs ------------------------
(* Theorems about NodeRegistration.                                          *)
EXTENDS NodeRegistration, TLAPS

\* What apiDevicesRemain may get from the driver.
Value == Nat \cup {NoValue}

\* What a step of writer w makes of its report.
LEMMA ReportUpdated ==
  ASSUME RegistrationTypeOK, NEW w \in Writers, NEW r \in Report,
         report' = [report EXCEPT ![w] = r]
  PROVE  /\ report' \in [Writers -> Report]
         /\ report'[w] = r
         /\ \A v \in Writers \ {w} : report'[v] = report[v]
  BY DEF RegistrationTypeOK

LEMMA NoListsType == NoLists \in Lists
  BY DEF NoLists, Lists, Nothing

LEMMA IdleType == Idle \in Report
  BY NoListsType DEF Idle, Report

LEMMA StartedType == Started \in [Writers -> Report]
<1>1. [Idle EXCEPT !.pc = "list"] \in Report
  BY IdleType DEF Report
<1>2. QED
  BY <1>1, IdleType DEF Started

LEMMA InitTypeOK == Init => RegistrationTypeOK
  BY NoListsType, StartedType DEF Init, RegistrationTypeOK

LEMMA NewReportType == ASSUME RegistrationTypeOK, NEW w \in Writers PROVE NewReport(w) \in Report
  BY NoListsType DEF RegistrationTypeOK, NewReport, Report, ToRead

\* The report after a card was read.
LEMMA FullRead ==
  ASSUME NEW r \in Report, NEW c \in Cards, NEW x \in Nat
  PROVE  /\ WithFull(r, c, x) \in Report
         /\ WithFull(r, c, x).pc = r.pc /\ WithFull(r, c, x).todo = r.todo \ {c}
         /\ WithFull(r, c, x).alone = r.alone /\ WithFull(r, c, x).blind = r.blind
         /\ WithFull(r, c, x).lists.full = [r.lists.full EXCEPT ![c] = x]
         /\ WithFull(r, c, x).lists.left = r.lists.left
         /\ WithFull(r, c, x).lists.count = r.lists.count
  BY DEF Report, Lists, WithFull

LEMMA LeftRead ==
  ASSUME NEW r \in Report, NEW c \in Cards, NEW x \in Value
  PROVE  /\ WithLeft(r, c, x) \in Report
         /\ WithLeft(r, c, x).pc = r.pc /\ WithLeft(r, c, x).todo = r.todo \ {c}
         /\ WithLeft(r, c, x).alone = r.alone /\ WithLeft(r, c, x).blind = r.blind
         /\ WithLeft(r, c, x).lists.left = [r.lists.left EXCEPT ![c] = x]
         /\ WithLeft(r, c, x).lists.full = r.lists.full
         /\ WithLeft(r, c, x).lists.count = r.lists.count
  BY DEF Report, Lists, WithLeft, Value

LEMMA CountRead ==
  ASSUME NEW r \in Report, NEW c \in Cards, NEW x \in Value
  PROVE  /\ WithCount(r, c, x) \in Report
         /\ WithCount(r, c, x).pc = r.pc /\ WithCount(r, c, x).todo = r.todo
         /\ WithCount(r, c, x).alone = r.alone /\ WithCount(r, c, x).blind = r.blind
         /\ WithCount(r, c, x).lists.count = [r.lists.count EXCEPT ![c] = x]
         /\ WithCount(r, c, x).lists.full = r.lists.full
         /\ WithCount(r, c, x).lists.left = r.lists.left
  BY DEF Report, Lists, WithCount, Value

LEMMA Skipped ==
  ASSUME NEW r \in Report, NEW c \in Cards
  PROVE  /\ CardSkipped(r, c) \in Report
         /\ CardSkipped(r, c).pc = r.pc /\ CardSkipped(r, c).todo = r.todo \ {c}
         /\ CardSkipped(r, c).alone = r.alone /\ CardSkipped(r, c).blind = r.blind
         /\ CardSkipped(r, c).lists = r.lists
  BY DEF Report, CardSkipped

LEMMA DriverErrorsKept ==
  ASSUME RegistrationTypeOK, Next
  PROVE  driverErrors' \in Nat /\ (driverErrors' = 0 => driverErrors = 0)
<1>1. driverErrors' \in {driverErrors, driverErrors + 1}
  BY DEF Next, LoopStep, GoOn, List, Begin, ReadFull, GetNode, ReadLeft, ReadCount, Patch,
         CardChanges, Crash, DriverError, NoDriverError, budgets
<1>2. QED
  BY <1>1 DEF RegistrationTypeOK

LEMMA OtherBudgetsType ==
  ASSUME RegistrationTypeOK, Next
  PROVE  changes' \in Nat /\ apiErrors' \in Nat /\ crashes' \in Nat
<1>1. changes' \in {changes, changes + 1}
  BY DEF Next, LoopStep, GoOn, List, Begin, ReadFull, GetNode, ReadLeft, ReadCount, Patch,
         CardChanges, Crash, budgets
<1>2. apiErrors' \in {apiErrors, apiErrors + 1}
  BY DEF Next, LoopStep, GoOn, List, Begin, ReadFull, GetNode, ReadLeft, ReadCount, Patch,
         CardChanges, Crash, ApiError, NoApiError, budgets
<1>3. crashes' \in {crashes, crashes + 1}
  BY DEF Next, LoopStep, GoOn, List, Begin, ReadFull, GetNode, ReadLeft, ReadCount, Patch,
         CardChanges, Crash, budgets
<1>4. QED
  BY <1>1, <1>2, <1>3 DEF RegistrationTypeOK

\* A step of a writer sets its report to one of its type; Begin is apart.
LEMMA ReportSet ==
  ASSUME RegistrationTypeOK, NEW w \in Writers, List(w) \/ GoOn(w)
  PROVE  \E r \in Report : report' = [report EXCEPT ![w] = r]
<1> USE DEF RegistrationTypeOK
<1>1. CASE List(w)
  BY <1>1 DEF List, Report
<1>2. CASE ReadFull(w)
  BY <1>2, FullRead, Skipped DEF ReadFull, Report
<1>3. CASE GetNode(w)
  BY <1>3 DEF GetNode, ToRead, Report
<1>4. CASE ReadLeft(w)
  BY <1>4, LeftRead, Skipped DEF ReadLeft, Report, Value
<1>5. CASE ReadCount(w)
  BY <1>5, CountRead DEF ReadCount, Counting, Value
<1>6. CASE Patch(w)
  BY <1>6, IdleType DEF Patch, Report
<1>7. QED
  BY <1>1, <1>2, <1>3, <1>4, <1>5, <1>6 DEF GoOn

LEMMA WriterCases ==
  ASSUME Next
  PROVE  \/ \E w \in Writers : List(w) \/ Begin(w) \/ GoOn(w)
         \/ \E c \in Cards : CardChanges(c)
         \/ Crash
  BY DEF Next, LoopStep, Writers

LEMMA NextTypeOK == RegistrationTypeOK /\ [Next]_vars => RegistrationTypeOK'
<1> SUFFICES ASSUME RegistrationTypeOK, Next PROVE RegistrationTypeOK'
  BY DEF RegistrationTypeOK, vars, budgets
<1>1. state' \in [Cards -> Nat]
  <2>1. state' = state \/ \E c \in Cards : state' = [state EXCEPT ![c] = @ + 1]
    BY WriterCases DEF List, Begin, GoOn, ReadFull, GetNode, ReadLeft, ReadCount, Patch,
                       CardChanges, Crash
  <2>2. QED
    BY <2>1 DEF RegistrationTypeOK
<1>2. dcus' \in SUBSET Cards
  BY WriterCases DEF RegistrationTypeOK, List, Begin, GoOn, ReadFull, GetNode, ReadLeft,
                     ReadCount, Patch, CardChanges, Crash
<1>3. anno' \in Lists
  <2>1. \A w \in Writers : report[w].lists \in Lists
    BY DEF RegistrationTypeOK, Report
  <2>2. QED
    BY <2>1, WriterCases DEF RegistrationTypeOK, List, Begin, GoOn, ReadFull, GetNode,
                             ReadLeft, ReadCount, Patch, CardChanges, Crash
<1>4. report' \in [Writers -> Report]
  <2>1. ASSUME NEW w \in Writers, List(w) \/ GoOn(w) PROVE report' \in [Writers -> Report]
    BY <2>1, ReportSet, ReportUpdated
  <2>2. ASSUME NEW w \in Writers, Begin(w) PROVE report' \in [Writers -> Report]
    <3>1. \A v \in Writers : [report[v] EXCEPT !.alone = FALSE] \in Report
      BY DEF RegistrationTypeOK, Report
    <3>2. QED
      BY <2>2, <3>1, NewReportType DEF Begin
  <2>3. CASE Crash
    BY <2>3, StartedType DEF Crash
  <2>4. ASSUME NEW c \in Cards, CardChanges(c) PROVE report' \in [Writers -> Report]
    BY <2>4 DEF CardChanges, RegistrationTypeOK
  <2>5. QED
    BY <2>1, <2>2, <2>3, <2>4, WriterCases
<1>5. QED
  BY <1>1, <1>2, <1>3, <1>4, DriverErrorsKept, OtherBudgetsType DEF RegistrationTypeOK

-----------------------------------------------------------------------------
\* A step of one report keeps them all complete if it keeps its own so.
LEMMA CompleteKept ==
  ASSUME RegistrationInv, NEW w \in Writers, NEW r \in Report, report' = [report EXCEPT ![w] = r],
         Next, UNCHANGED dcus,
         driverErrors = 0 /\ driverErrors' = 0 /\ r.pc \in {"full", "remain"} /\ ~r.blind =>
           dcus = Cards /\ Complete(r)
  PROVE  ReportsComplete'
<1>1. driverErrors' = 0 => driverErrors = 0
  BY DriverErrorsKept DEF RegistrationInv
<1>2. report'[w] = r /\ \A v \in Writers \ {w} : report'[v] = report[v]
  BY ReportUpdated DEF RegistrationInv
<1>3. ASSUME NEW v \in Writers, driverErrors' = 0, UnderWay(v)', ~report'[v].blind
      PROVE  dcus' = Cards /\ Complete(report'[v])
  BY <1>1, <1>2, <1>3 DEF RegistrationInv, ReportsComplete, UnderWay
<1>4. QED
  BY <1>3 DEF ReportsComplete, Complete

LEMMA ReadsComplete ==
  ASSUME RegistrationInv, Next, NEW w \in Writers, GoOn(w)
  PROVE  ReportsComplete'
<1> DEFINE r == report[w]
<1>1. /\ r \in Report /\ state \in [Cards -> Nat] /\ r.todo \subseteq Cards
      /\ driverErrors' = 0 => driverErrors = 0
  BY DriverErrorsKept DEF RegistrationInv, RegistrationTypeOK, Report
<1>2. driverErrors = 0 /\ r.pc \in {"full", "remain"} /\ ~r.blind => dcus = Cards /\ Complete(r)
  BY DEF RegistrationInv, ReportsComplete, UnderWay
<1> HIDE DEF r
<1>3. CASE ReadFull(w)
  <2>1. PICK c \in r.todo :
          \/ report' = [report EXCEPT ![w] = WithFull(r, c, state[c])]
          \/ report' = [report EXCEPT ![w] = CardSkipped(r, c)] /\ driverErrors' = driverErrors + 1
    BY <1>3 DEF ReadFull, DriverError, RegistrationInv, RegistrationTypeOK, r
  <2>2. c \in Cards /\ state[c] \in Nat /\ r.pc = "full"
    BY <1>1, <1>3, <2>1 DEF ReadFull, r
  <2>3. CASE report' = [report EXCEPT ![w] = WithFull(r, c, state[c])]
    <3> DEFINE r2 == WithFull(r, c, state[c])
    <3>1. /\ r2 \in Report /\ r2.pc = "full" /\ r2.todo = r.todo \ {c} /\ r2.blind = r.blind
          /\ r2.lists.full = [r.lists.full EXCEPT ![c] = state[c]]
      BY <1>1, <2>2, FullRead
    <3>2. r.lists.full \in [Cards -> Nat \cup {Absent}] /\ state[c] # Absent
      BY <1>1, <2>2, RegistrationAssumption DEF Report, Lists
    <3> HIDE DEF r2
    <3>3. driverErrors = 0 /\ ~r2.blind => dcus = Cards /\ Complete(r2)
      BY <1>2, <2>2, <3>1, <3>2 DEF Complete
    <3>4. report' = [report EXCEPT ![w] = r2] /\ UNCHANGED dcus
      BY <1>3, <2>3 DEF r2, ReadFull
    <3>5. QED
      BY <3>1, <3>3, <3>4, CompleteKept
  <2>4. QED
    BY <1>1, <1>3, <2>1, <2>2, <2>3, Skipped, CompleteKept
       DEF ReadFull, RegistrationInv, RegistrationTypeOK
<1>4. CASE GetNode(w)
  <2>1. PICK r2 \in {[r EXCEPT !.pc = "remain", !.todo = dcus], [r EXCEPT !.pc = "idle"]} :
          report' = [report EXCEPT ![w] = r2]
    BY <1>4 DEF GetNode, ToRead, r
  <2>2. r2 \in Report
    BY <1>1, <2>1 DEF Report, RegistrationInv, RegistrationTypeOK
  <2>3. r.pc = "full" /\ r.todo = {} /\ UNCHANGED dcus
    BY <1>4 DEF GetNode, AllRead, r
  <2>4. driverErrors = 0 /\ r2.pc \in {"full", "remain"} /\ ~r2.blind => dcus = Cards /\ Complete(r2)
    BY <1>1, <1>2, <2>1, <2>3 DEF Complete, Report
  <2>5. QED
    BY <2>1, <2>2, <2>3, <2>4, CompleteKept
<1>5. CASE ReadLeft(w)
  <2>1. PICK c \in Cards :
          \/ \E x \in {state[c], NoValue} : report' = [report EXCEPT ![w] = WithLeft(r, c, x)]
          \/ report' = [report EXCEPT ![w] = CardSkipped(r, c)] /\ driverErrors' = driverErrors + 1
    BY <1>1, <1>5 DEF ReadLeft, DriverError, RegistrationInv, RegistrationTypeOK, r
  <2>2. c \in Cards /\ state[c] \in Nat /\ r.pc = "remain" /\ UNCHANGED dcus
    BY <1>1, <1>5, <2>1 DEF ReadLeft, r
  <2>3. ASSUME NEW x \in {state[c], NoValue}, report' = [report EXCEPT ![w] = WithLeft(r, c, x)]
        PROVE  ReportsComplete'
    <3> DEFINE r2 == WithLeft(r, c, x)
    <3>1. /\ r2 \in Report /\ r2.pc = "remain" /\ r2.todo = r.todo \ {c} /\ r2.blind = r.blind
          /\ r2.lists.full = r.lists.full
          /\ r2.lists.left = [r.lists.left EXCEPT ![c] = x]
      <4>1. x \in Value /\ c \in Cards
        BY <2>2 DEF Value
      <4>2. r \in Report
        BY <1>1
      <4>3. QED
        BY <2>2, <4>1, <4>2, LeftRead
    <3>2. r.lists.left \in [Cards -> Nat \cup {Absent, NoValue}] /\ x # Absent
      BY <1>1, <2>2, RegistrationAssumption DEF Report, Lists
    <3> HIDE DEF r2
    <3>3. driverErrors = 0 /\ ~r2.blind => dcus = Cards /\ Complete(r2)
      BY <1>2, <2>2, <3>1, <3>2 DEF Complete
    <3>4. report' = [report EXCEPT ![w] = r2]
      BY <2>3 DEF r2
    <3>5. QED
      BY <2>2, <3>1, <3>3, <3>4, CompleteKept
  <2>4. QED
    BY <1>1, <2>1, <2>2, <2>3, Skipped, CompleteKept DEF RegistrationInv, RegistrationTypeOK
<1>6. CASE ReadCount(w)
  <2>1. PICK c \in Cards :
          \E x \in {state[c], NoValue} : report' = [report EXCEPT ![w] = WithCount(r, c, x)]
    BY <1>6 DEF ReadCount, Counting, r
  <2>2. state[c] \in Nat /\ r.pc = "remain" /\ UNCHANGED dcus
    BY <1>1, <1>6, <2>1 DEF ReadCount, r
  <2>3. ASSUME NEW x \in {state[c], NoValue}, report' = [report EXCEPT ![w] = WithCount(r, c, x)]
        PROVE  ReportsComplete'
    <3> DEFINE r2 == WithCount(r, c, x)
    <3>1. /\ r2 \in Report /\ r2.pc = "remain" /\ r2.todo = r.todo /\ r2.blind = r.blind
          /\ r2.lists.full = r.lists.full /\ r2.lists.left = r.lists.left
      <4>1. x \in Value /\ c \in Cards
        BY <2>2 DEF Value
      <4>2. r \in Report
        BY <1>1
      <4>3. QED
        BY <2>2, <4>1, <4>2, CountRead
    <3> HIDE DEF r2
    <3>2. driverErrors = 0 /\ ~r2.blind => dcus = Cards /\ Complete(r2)
      BY <1>2, <2>2, <3>1 DEF Complete
    <3>3. report' = [report EXCEPT ![w] = r2]
      BY <2>3 DEF r2
    <3>4. QED
      BY <2>2, <3>1, <3>2, <3>3, CompleteKept
  <2>4. QED
    BY <2>1, <2>3
<1>7. CASE Patch(w)
  <2>1. PICK r2 \in {Idle, [r EXCEPT !.pc = "idle"]} : report' = [report EXCEPT ![w] = r2]
    BY <1>7 DEF Patch, r
  <2>2. r2 \in Report /\ r2.pc = "idle" /\ UNCHANGED dcus
    BY <1>1, <1>7, <2>1, IdleType DEF Report, Idle, Patch
  <2>3. QED
    BY <2>1, <2>2, CompleteKept
<1>8. QED
  BY <1>3, <1>4, <1>5, <1>6, <1>7 DEF GoOn

LEMMA InitRegistrationInv == Init => RegistrationInv
<1>1. Init => \A w \in Writers : ~UnderWay(w)
  BY DEF Init, Started, Idle, UnderWay
<1>2. QED
  BY <1>1, InitTypeOK DEF RegistrationInv, ReportsComplete

LEMMA NextRegistrationInv == RegistrationInv /\ [Next]_vars => RegistrationInv'
<1> SUFFICES ASSUME RegistrationInv, [Next]_vars PROVE ReportsComplete'
  BY NextTypeOK DEF RegistrationInv
<1>1. CASE UNCHANGED vars
  BY <1>1 DEF vars, budgets, RegistrationInv, ReportsComplete, UnderWay, Complete
<1>2. ASSUME Next, NEW w \in Writers, List(w) PROVE ReportsComplete'
  <2>1. /\ report'[w].pc = "idle"
        /\ \A v \in Writers \ {w} : report'[v] = report[v]
        /\ driverErrors' = 0 => driverErrors = 0 /\ dcus' = Cards
    BY <1>2, DriverErrorsKept DEF List, DriverError, RegistrationInv, RegistrationTypeOK, Report
  <2>2. QED
    BY <2>1 DEF RegistrationInv, ReportsComplete, UnderWay, Complete
<1>3. ASSUME Next, NEW w \in Writers, Begin(w) PROVE ReportsComplete'
  <2>1. /\ report'[w] = NewReport(w) /\ UNCHANGED <<dcus, driverErrors>>
        /\ \A v \in Writers \ {w} : report'[v] = [report[v] EXCEPT !.alone = FALSE]
    BY <1>3 DEF Begin, budgets
  <2>2. ~NewReport(w).blind => dcus = Cards /\ Complete(NewReport(w))
    BY DEF NewReport, ToRead, Complete
  <2>3. ASSUME NEW v \in Writers \ {w}
        PROVE  /\ report'[v].pc = report[v].pc /\ report'[v].todo = report[v].todo
               /\ report'[v].blind = report[v].blind /\ report'[v].lists = report[v].lists
    BY <2>1 DEF RegistrationInv, RegistrationTypeOK, Report
  <2>4. ASSUME NEW v \in Writers, driverErrors' = 0, UnderWay(v)', ~report'[v].blind
        PROVE  dcus' = Cards /\ Complete(report'[v])
    BY <2>1, <2>2, <2>3, <2>4 DEF RegistrationInv, ReportsComplete, UnderWay, Complete
  <2>5. QED
    BY <2>4 DEF ReportsComplete, Complete
<1>4. ASSUME NEW c \in Cards, CardChanges(c) PROVE ReportsComplete'
  BY <1>4 DEF CardChanges, RegistrationInv, ReportsComplete, UnderWay, Complete
<1>5. CASE Crash
  BY <1>5 DEF Crash, Started, Idle, ReportsComplete, UnderWay
<1>6. QED
  BY <1>1, <1>2, <1>3, <1>4, <1>5, ReadsComplete, WriterCases

\* A report leaves out no card it is past unless it began before the loop had
\* listed the cards, or the driver failed (apiDevices, apiDevicesRemain).
THEOREM RegistrationInvariant == Spec => []RegistrationInv
  BY InitRegistrationInv, NextRegistrationInv, PTL DEF Spec

LEMMA PatchKeepsCards ==
  ASSUME RegistrationInv, [Next]_vars, driverErrors = 0, NEW c \in Cards, anno' # anno
  PROVE  \E w \in Writers :
           /\ report'[w] # report[w]
           /\ ~report[w].blind => anno'.full[c] # Absent /\ anno'.left[c] # Absent
<1>1. PICK w \in Writers : Patch(w) /\ anno' = report[w].lists
  BY WriterCases DEF vars, List, Begin, GoOn, ReadFull, GetNode, ReadLeft, ReadCount, Patch,
                     CardChanges, Crash
<1>2. report[w].pc = "remain" /\ report[w].todo = {} /\ report'[w].pc = "idle"
  BY <1>1 DEF Patch, AllRead, Idle, RegistrationInv, RegistrationTypeOK, Report
<1>3. ~report[w].blind => Complete(report[w])
  BY <1>2 DEF RegistrationInv, ReportsComplete, UnderWay
<1>4. QED
  BY <1>1, <1>2, <1>3 DEF Complete

\* A registered card is dropped only after an error of the driver or by a report
\* that began before the loop had listed the cards (RegistrInAnnotation).
THEOREM CardsKept == Spec => KeepsCards
<1>1. RegistrationInv /\ [Next]_vars =>
        [Drops(anno.full, anno'.full) \/ Drops(anno.left, anno'.left)
           => \/ driverErrors > 0
              \/ \E w \in Writers : report[w].blind /\ report'[w] # report[w]]_vars
  BY PatchKeepsCards DEF Drops, RegistrationInv, RegistrationTypeOK, Lists
<1>2. QED
  BY <1>1, RegistrationInvariant, PTL DEF Spec, KeepsCards

-----------------------------------------------------------------------------
LEMMA EmptyLists ==
  ASSUME NEW lists PROVE NotAhead(NoLists) /\ AsNewAs(NoLists, lists)
  BY RegistrationAssumption DEF NotAhead, NotLater, AsNewAs, Older, NoLists, Nothing

LEMMA InitNewest == Init => NewestInv
  BY EmptyLists DEF Init, NewestInv, Started, Idle, UnderWay

\* A step of one report that patches nothing keeps the lists in order if it
\* keeps its own so.
LEMMA NewestKept ==
  ASSUME RegistrationTypeOK, NewestInv, NEW w \in Writers, NEW r \in Report,
         report' = [report EXCEPT ![w] = r], UNCHANGED <<state, anno>>,
         NotAhead(r.lists),
         r.pc \in {"full", "remain"} => UnderWay(w),
         r.alone /\ r.pc \in {"full", "remain"} => report[w].alone /\ AsNewAs(r.lists, anno)
  PROVE  NewestInv'
<1>1. report'[w] = r /\ \A v \in Writers \ {w} : report'[v] = report[v]
  BY ReportUpdated
<1>2. \A v \in Writers : UnderWay(v)' => UnderWay(v)
  BY <1>1 DEF UnderWay
<1>3. NotAhead(anno)' /\ \A v \in Writers : NotAhead(report[v].lists)'
  <2>1. \A v \in Writers : NotAhead(report'[v].lists)
    BY <1>1 DEF NewestInv
  <2>2. QED
    BY <2>1 DEF NewestInv, NotAhead, NotLater
<1>4. ASSUME NEW v \in Writers, report'[v].alone, UnderWay(v)'
      PROVE  /\ \A u \in Writers \ {v} : ~UnderWay(u)'
             /\ AsNewAs(report'[v].lists, anno)
  BY <1>1, <1>2, <1>4 DEF NewestInv, UnderWay
<1>5. QED
  BY <1>3, <1>4 DEF NewestInv, AsNewAs, Older, NotAhead, NotLater

\* A value just read is not ahead of the card, and no older than what is registered.
LEMMA NowIsNew ==
  ASSUME NEW list, NEW old, NEW new, NEW c \in Cards, NEW x \in {state[c], NoValue},
         state \in [Cards -> Nat], DOMAIN list = Cards,
         NotLater(list), NotLater(old), new = [list EXCEPT ![c] = x]
  PROVE  NotLater(new) /\ (~Older(list, old) => ~Older(new, old))
<1>1. x \in Nat => x = state[c]
  BY RegistrationAssumption
<1>2. \A d \in Cards : new[d] = IF d = c THEN x ELSE list[d]
  OBVIOUS
<1>3. QED
  BY <1>1, <1>2 DEF NotLater, Older

LEMMA ReadsNewest ==
  ASSUME RegistrationTypeOK, NewestInv, NEW w \in Writers,
         ReadFull(w) \/ ReadLeft(w) \/ ReadCount(w) \/ GetNode(w)
  PROVE  NewestInv'
<1> DEFINE r == report[w]
<1>1. /\ r \in Report /\ state \in [Cards -> Nat] /\ r.todo \subseteq Cards
      /\ DOMAIN r.lists.full = Cards /\ DOMAIN r.lists.left = Cards /\ DOMAIN r.lists.count = Cards
  BY DEF RegistrationTypeOK, Report, Lists
<1>2. /\ UnderWay(w) /\ UNCHANGED <<state, anno>>
      /\ NotAhead(anno) /\ NotAhead(r.lists) /\ (r.alone => AsNewAs(r.lists, anno))
  BY DEF ReadFull, ReadLeft, ReadCount, GetNode, UnderWay, NewestInv
<1> HIDE DEF r
<1>3. ASSUME NEW c \in Cards, report' = [report EXCEPT ![w] = CardSkipped(r, c)] PROVE NewestInv'
  <2>1. /\ CardSkipped(r, c) \in Report /\ CardSkipped(r, c).pc = r.pc
        /\ CardSkipped(r, c).alone = r.alone /\ CardSkipped(r, c).lists = r.lists
    BY <1>1, Skipped
  <2>2. QED
    BY <1>2, <1>3, <2>1, NewestKept DEF r
<1>4. CASE ReadFull(w)
  <2>1. PICK c \in r.todo :
          \/ report' = [report EXCEPT ![w] = WithFull(r, c, state[c])]
          \/ report' = [report EXCEPT ![w] = CardSkipped(r, c)]
    BY <1>4 DEF ReadFull, RegistrationTypeOK, r
  <2>2. CASE report' = [report EXCEPT ![w] = WithFull(r, c, state[c])]
    <3> DEFINE r2 == WithFull(r, c, state[c])
    <3>1. c \in Cards /\ state[c] \in Nat
      BY <1>1
    <3>2. /\ r2 \in Report /\ r2.pc = r.pc /\ r2.alone = r.alone
          /\ r2.lists.full = [r.lists.full EXCEPT ![c] = state[c]]
          /\ r2.lists.left = r.lists.left /\ r2.lists.count = r.lists.count
      BY <1>1, <3>1, FullRead
    <3> HIDE DEF r2
    <3>3. NotLater(r2.lists.full)
          /\ (~Older(r.lists.full, anno.full) => ~Older(r2.lists.full, anno.full))
      <4>1. NotLater(r.lists.full) /\ NotLater(anno.full)
        BY <1>2 DEF NotAhead
      <4>2. QED
        BY <1>1, <3>1, <3>2, <4>1, NowIsNew
    <3>4. NotAhead(r2.lists) /\ (r.alone => AsNewAs(r2.lists, anno))
      BY <1>2, <3>2, <3>3 DEF NotAhead, AsNewAs
    <3>5. report' = [report EXCEPT ![w] = r2]
      BY <2>2 DEF r2
    <3>6. QED
      BY <1>2, <3>2, <3>4, <3>5, NewestKept DEF r
  <2>3. QED
    BY <1>1, <1>3, <2>1, <2>2
<1>5. CASE ReadLeft(w)
  <2>1. PICK c \in Cards :
          \/ \E x \in {state[c], NoValue} : report' = [report EXCEPT ![w] = WithLeft(r, c, x)]
          \/ report' = [report EXCEPT ![w] = CardSkipped(r, c)]
    BY <1>1, <1>5 DEF ReadLeft, RegistrationTypeOK, r
  <2>2. ASSUME NEW x \in {state[c], NoValue}, report' = [report EXCEPT ![w] = WithLeft(r, c, x)]
        PROVE  NewestInv'
    <3> DEFINE r2 == WithLeft(r, c, x)
    <3>1. c \in Cards /\ x \in Value
      BY <1>1 DEF Value
    <3>2. /\ r2 \in Report /\ r2.pc = r.pc /\ r2.alone = r.alone
          /\ r2.lists.left = [r.lists.left EXCEPT ![c] = x]
          /\ r2.lists.full = r.lists.full /\ r2.lists.count = r.lists.count
      <4>1. r \in Report
        BY <1>1
      <4>2. QED
        BY <3>1, <4>1, LeftRead
    <3> HIDE DEF r2
    <3>3. NotLater(r2.lists.left)
          /\ (~Older(r.lists.left, anno.left) => ~Older(r2.lists.left, anno.left))
      <4>1. NotLater(r.lists.left) /\ NotLater(anno.left)
        BY <1>2 DEF NotAhead
      <4>2. QED
        BY <1>1, <3>1, <3>2, <4>1, NowIsNew
    <3>4. NotAhead(r2.lists) /\ (r.alone => AsNewAs(r2.lists, anno))
      BY <1>2, <3>2, <3>3 DEF NotAhead, AsNewAs
    <3>5. report' = [report EXCEPT ![w] = r2]
      BY <2>2 DEF r2
    <3>6. QED
      BY <1>2, <3>2, <3>4, <3>5, NewestKept DEF r
  <2>3. QED
    BY <1>1, <1>3, <2>1, <2>2
<1>6. CASE ReadCount(w)
  <2>1. PICK c \in Cards :
          \E x \in {state[c], NoValue} : report' = [report EXCEPT ![w] = WithCount(r, c, x)]
    BY <1>6 DEF ReadCount, Counting, r
  <2>2. ASSUME NEW x \in {state[c], NoValue}, report' = [report EXCEPT ![w] = WithCount(r, c, x)]
        PROVE  NewestInv'
    <3> DEFINE r2 == WithCount(r, c, x)
    <3>1. x \in Value
      BY <1>1 DEF Value
    <3>2. /\ r2 \in Report /\ r2.pc = r.pc /\ r2.alone = r.alone
          /\ r2.lists.count = [r.lists.count EXCEPT ![c] = x]
          /\ r2.lists.full = r.lists.full /\ r2.lists.left = r.lists.left
      <4>1. r \in Report
        BY <1>1
      <4>2. QED
        BY <3>1, <4>1, CountRead
    <3> HIDE DEF r2
    <3>3. NotLater(r2.lists.count)
          /\ (~Older(r.lists.count, anno.count) => ~Older(r2.lists.count, anno.count))
      <4>1. NotLater(r.lists.count) /\ NotLater(anno.count)
        BY <1>2 DEF NotAhead
      <4>2. QED
        BY <1>1, <3>1, <3>2, <4>1, NowIsNew
    <3>4. NotAhead(r2.lists) /\ (r.alone => AsNewAs(r2.lists, anno))
      BY <1>2, <3>2, <3>3 DEF NotAhead, AsNewAs
    <3>5. report' = [report EXCEPT ![w] = r2]
      BY <2>2 DEF r2
    <3>6. QED
      BY <1>2, <3>2, <3>4, <3>5, NewestKept DEF r
  <2>3. QED
    BY <2>1, <2>2
<1>7. CASE GetNode(w)
  <2>1. PICK r2 \in {[r EXCEPT !.pc = "remain", !.todo = dcus], [r EXCEPT !.pc = "idle"]} :
          report' = [report EXCEPT ![w] = r2]
    BY <1>7 DEF GetNode, ToRead, r
  <2>2. r2 \in Report /\ r2.lists = r.lists /\ r2.alone = r.alone
    BY <1>1, <2>1 DEF Report, RegistrationTypeOK
  <2>3. QED
    BY <1>2, <2>1, <2>2, NewestKept DEF r
<1>8. QED
  BY <1>4, <1>5, <1>6, <1>7

LEMMA NextNewest == RegistrationTypeOK /\ NewestInv /\ [Next]_vars => NewestInv'
<1> SUFFICES ASSUME RegistrationTypeOK, NewestInv, [Next]_vars PROVE NewestInv'
  OBVIOUS
<1>1. CASE UNCHANGED vars
  BY <1>1 DEF vars, NewestInv, NotAhead, NotLater, AsNewAs, Older, UnderWay
<1>2. ASSUME NEW w \in Writers, List(w) PROVE NewestInv'
  <2>1. [report[w] EXCEPT !.pc = "idle"] \in Report
    BY DEF RegistrationTypeOK, Report
  <2>2. QED
    BY <1>2, <2>1, NewestKept DEF List, NewestInv, RegistrationTypeOK, Report
<1>3. ASSUME NEW w \in Writers, Begin(w) PROVE NewestInv'
  <2>1. /\ report'[w] = NewReport(w) /\ UNCHANGED <<state, anno>>
        /\ \A v \in Writers \ {w} : report'[v] = [report[v] EXCEPT !.alone = FALSE]
    BY <1>3 DEF Begin
  <2>2. /\ \A v \in Writers \ {w} : /\ report'[v].pc = report[v].pc /\ ~report'[v].alone
                                    /\ report'[v].lists = report[v].lists
        /\ report'[w].lists = NoLists
        /\ report'[w].alone => \A v \in Writers : ~UnderWay(v)
    <3>1. \A v \in Writers : report[v] \in Report
      BY DEF RegistrationTypeOK
    <3>2. \A v \in Writers \ {w} : /\ report'[v].pc = report[v].pc /\ ~report'[v].alone
                                   /\ report'[v].lists = report[v].lists
      BY <2>1, <3>1 DEF Report
    <3>3. /\ report'[w].lists = NoLists
          /\ report'[w].alone => \A v \in Writers : ~UnderWay(v)
      BY <2>1 DEF NewReport
    <3>4. QED
      BY <3>2, <3>3
  <2>3. \A v \in Writers : NotAhead(report'[v].lists)
    BY <2>2, EmptyLists DEF NewestInv
  <2>4. AsNewAs(report'[w].lists, anno)
    BY <2>2, EmptyLists
  <2>5. \A v \in Writers : report'[v].alone =>
          v = w /\ \A u \in Writers \ {w} : report'[u].pc \notin {"full", "remain"}
    BY <2>2 DEF UnderWay
  <2>6. QED
    BY <2>1, <2>3, <2>4, <2>5 DEF NewestInv, NotAhead, NotLater, AsNewAs, Older, UnderWay
<1>4. ASSUME NEW w \in Writers, Patch(w) PROVE NewestInv'
  <2>1. CASE UNCHANGED anno
    <3>1. PICK r2 \in {Idle, [report[w] EXCEPT !.pc = "idle"]} :
            report' = [report EXCEPT ![w] = r2]
      BY <1>4 DEF Patch
    <3>2. r2 \in Report /\ r2.pc = "idle" /\ r2.lists \in {NoLists, report[w].lists}
      <4>1. Idle \in Report /\ Idle.pc = "idle" /\ Idle.lists = NoLists
        BY IdleType DEF Idle
      <4>2. report[w] \in Report
        BY DEF RegistrationTypeOK
      <4>3. /\ [report[w] EXCEPT !.pc = "idle"] \in Report
            /\ [report[w] EXCEPT !.pc = "idle"].pc = "idle"
            /\ [report[w] EXCEPT !.pc = "idle"].lists = report[w].lists
        BY <4>2 DEF Report
      <4>4. QED
        BY <3>1, <4>1, <4>3
    <3>3. NotAhead(r2.lists)
      BY <3>2, EmptyLists DEF NewestInv
    <3>4. QED
      BY <1>4, <2>1, <3>1, <3>2, <3>3, NewestKept DEF Patch
  <2>2. CASE anno' = report[w].lists /\ report' = [report EXCEPT ![w] = Idle]
    <3>1. /\ report'[w] = Idle /\ \A v \in Writers \ {w} : report'[v] = report[v]
          /\ UnderWay(w) /\ UNCHANGED state
      BY <1>4, <2>2, IdleType, ReportUpdated DEF Patch, UnderWay
    <3>2. \A v \in Writers \ {w} : ~(report[v].alone /\ UnderWay(v))
      BY <3>1 DEF NewestInv
    <3>3. \A v \in Writers : ~(report'[v].alone /\ UnderWay(v)')
      BY <3>1, <3>2 DEF UnderWay, Idle
    <3>4. NotAhead(anno') /\ \A v \in Writers : NotAhead(report'[v].lists)
      BY <2>2, <3>1, EmptyLists DEF NewestInv, Idle
    <3>5. QED
      BY <3>1, <3>3, <3>4 DEF NewestInv, NotAhead, NotLater
  <2>3. QED
    BY <1>4, <2>1, <2>2 DEF Patch
<1>5. ASSUME NEW c \in Cards, CardChanges(c) PROVE NewestInv'
  <2>1. UNCHANGED <<anno, report>> /\ \A d \in Cards : state'[d] \in {state[d], state[d] + 1}
    BY <1>5 DEF CardChanges, RegistrationTypeOK
  <2>2. \A d \in Cards : state[d] \in Nat
    BY DEF RegistrationTypeOK
  <2>3. ASSUME NEW list, NotLater(list) PROVE NotLater(list)'
    BY <2>1, <2>2, <2>3 DEF NotLater
  <2>4. NotAhead(anno)' /\ \A w \in Writers : NotAhead(report[w].lists)'
    BY <2>1, <2>2 DEF NewestInv, NotAhead, NotLater
  <2>5. QED
    BY <2>1, <2>4 DEF NewestInv, AsNewAs, Older, UnderWay, NotAhead, NotLater
<1>6. CASE Crash
  <2>1. UNCHANGED <<state, anno>> /\ report' = Started
    BY <1>6 DEF Crash
  <2>2. \A w \in Writers : /\ report'[w].lists = NoLists
                           /\ report'[w].pc \notin {"full", "remain"}
    BY <2>1 DEF Started, Idle
  <2>3. \A w \in Writers : NotAhead(report'[w].lists)
    BY <2>2, EmptyLists
  <2>4. QED
    BY <2>1, <2>2, <2>3 DEF NewestInv, UnderWay, NotAhead, NotLater
<1>7. QED
  BY <1>1, <1>2, <1>3, <1>4, <1>5, <1>6, ReadsNewest, WriterCases DEF GoOn

\* The lists are never ahead of the cards, and a report that no other one has
\* overlapped is no older than the annotations (RegistrInAnnotation).
THEOREM NewestInvariant == Spec => []NewestInv
  BY InitNewest, NextNewest, InitRegistrationInv, NextRegistrationInv, PTL
     DEF Spec, RegistrationInv

\* A report that no other one overlapped never takes an annotation back
\* (RegistrInAnnotation).
THEOREM StepsForward == Spec => NoStepBack
<1>1. RegistrationTypeOK /\ NewestInv /\ [Next]_vars =>
        [\A w \in Writers : report[w].alone /\ report'[w] # report[w] => AsNewAs(anno', anno)]_vars
  <2> SUFFICES ASSUME RegistrationTypeOK, NewestInv, [Next]_vars, NEW w \in Writers,
                      report[w].alone, report'[w] # report[w]
               PROVE  AsNewAs(anno', anno)
    OBVIOUS
  <2>1. CASE anno' = anno
    <3>1. ASSUME NEW x \in Nat, NEW y \in Nat, x < y PROVE x # y
      BY <3>1
    <3>2. QED
      BY <2>1, <3>1 DEF AsNewAs, Older
  <2>2. CASE anno' # anno
    <3>1. PICK v \in Writers : Patch(v) /\ anno' = report[v].lists
      BY <2>2, WriterCases DEF vars, List, Begin, GoOn, ReadFull, GetNode, ReadLeft, ReadCount,
                               Patch, CardChanges, Crash
    <3>2. v = w
      BY <3>1 DEF Patch, RegistrationTypeOK
    <3>3. UnderWay(w)
      BY <3>1, <3>2 DEF Patch, UnderWay
    <3>4. QED
      BY <3>1, <3>2, <3>3 DEF NewestInv
  <2>3. QED
    BY <2>1, <2>2
<1>2. QED
  BY <1>1, NewestInvariant, RegistrationInvariant, PTL DEF RegistrationInv, Spec, NoStepBack
=============================================================================
