-------------------------- MODULE FillLedgerProofs --------------------------
(***************************************************************************)
(* For any orders, prices and number of synchronizing processes the types  *)
(* hold.  As long as the broker corrects no execution, what is booked of   *)
(* an order is what the broker reported of it, the rows of an order are    *)
(* one chain, the ledger implements ExactlyOnceLedger, and every share of  *)
(* an intent with a terminal status is booked.  If the list of closed      *)
(* orders never lags, and the broker corrects nothing or one process       *)
(* synchronizes, an undisturbed synchronization ends with the positions    *)
(* and cursors of the broker.                                              *)
(***************************************************************************)
EXTENDS FillLedger, FiniteSetTheorems, WellFoundedInduction, TLAPS

\* The broker corrects no execution.
NoCorrection == "correction" \notin Faults

\* The list of closed orders names all that are closed.
NoLag == "list_lag" \notin Faults

OneProcess == \A q, r \in Readers : q = r

\* The reports a synchronization holds are old, never invented.
ViewsAreReports ==
    \A r \in Readers, o \in Orders : IsReport(o, view[r][o].shares, view[r][o].value)

LedgerInv == TypeOK /\ ViewsAreReports /\ BookedAsReported /\ RowsChain

-----------------------------------------------------------------------------
\* The current report of an order is a report.
LEMMA ReportIsReport ==
    ASSUME TypeOK, NEW o \in Orders
    PROVE  /\ Report(o) \in ReportSet
           /\ IsReport(o, Report(o).shares, Report(o).value)
  BY DEF TypeOK, Report, ReportSet, StatusAt, IsReport

\* A cursor is a pair of numbers: nothing, or what the last row says.
LEMMA CursorType ==
    ASSUME TypeOK, NEW o \in Orders
    PROVE  Cursor(o) \in [shares : Nat, value : Nat]
  <1>1. rows[o] \in Seq(Row)
    BY DEF TypeOK
  <1>2. CASE rows[o] = <<>>
    BY <1>2 DEF Cursor
  <1>3. CASE rows[o] # <<>>
    <2>1. rows[o][Len(rows[o])] \in Row
      BY <1>1, <1>3
    <2> QED BY <2>1, <1>3 DEF Cursor, Row
  <1> QED BY <1>2, <1>3

\* The types hold initially.
LEMMA TypeInit == Init => TypeOK
  <1> SUFFICES ASSUME Init PROVE TypeOK
    OBVIOUS
  <1> USE LedgerAssumption
  <1>1. PICK p \in Prices :
            reports = [o \in Orders |-> IF o \in LegacyOrders
                                        THEN [n \in 1..OrderSize[o] |-> n * p]
                                        ELSE <<>>]
    BY DEF Init
  <1>2. reports \in [Orders -> Seq(Nat \ {0})]
    <2>1. SUFFICES ASSUME NEW o \in Orders PROVE reports[o] \in Seq(Nat \ {0})
      BY <1>1
    <2>2. CASE o \in LegacyOrders
      <3>1. OrderSize[o] \in Nat /\ p \in Nat \ {0}
        OBVIOUS
      <3>2. \A n \in 1..OrderSize[o] : n * p \in Nat \ {0}
        BY <3>1
      <3>3. [n \in 1..OrderSize[o] |-> n * p] \in Seq(Nat \ {0})
        BY <3>1, <3>2
      <3> QED BY <1>1, <2>2, <3>3
    <2>3. CASE o \notin LegacyOrders
      BY <1>1, <2>3
    <2> QED BY <2>2, <2>3
  <1> QED BY <1>2 DEF Init, TypeOK, Keys, Unseen, ReportSet, Row

-----------------------------------------------------------------------------
(* Types, action by action. *)

\* Leaving a synchronization keeps the types of what it sets.
LEMMA LeaveTypes ==
    ASSUME TypeOK, NEW r \in Readers, NEW next \in {"idle", "done"}, Leave(r, next)
    PROVE  /\ phase' \in [Readers -> {"idle", "closed", "open", "lookup", "import",
                                      "mark", "status", "synced", "done"}]
           /\ current' \in [Readers -> SUBSET Orders]
           /\ tracked' \in [Readers -> SUBSET Successors]
           /\ unknown' \in [Readers -> SUBSET Orders]
           /\ modern' \in [Readers -> SUBSET Orders]
           /\ view' \in [Readers -> [Orders -> ReportSet]]
           /\ undisturbed' \in [Readers -> BOOLEAN]
  <1>1. [o \in Orders |-> Unseen] \in [Orders -> ReportSet]
    BY DEF Unseen, ReportSet
  <1> QED BY <1>1 DEF TypeOK, Leave

\* What is seen of an order is a report of it.
LEMMA SeeTypes ==
    ASSUME TypeOK, NEW r \in Readers, NEW seen \in SUBSET Orders, See(r, seen)
    PROVE  view' \in [Readers -> [Orders -> ReportSet]]
  <1>1. [o \in Orders |-> IF o \in seen THEN Report(o) ELSE view[r][o]]
            \in [Orders -> ReportSet]
    BY ReportIsReport DEF TypeOK
  <1> QED BY <1>1 DEF TypeOK, See

\* Going on to the next remote order keeps the types of what it sets.
LEMMA AdvanceTypes ==
    ASSUME TypeOK, NEW r \in Readers, Advance(r)
    PROVE  /\ phase' \in [Readers -> {"idle", "closed", "open", "lookup", "import",
                                      "mark", "status", "synced", "done"}]
           /\ current' \in [Readers -> SUBSET Orders]
           /\ view' \in [Readers -> [Orders -> ReportSet]]
  <1>1. [o \in Orders |-> IF o \in current[r] THEN Unseen ELSE view[r][o]]
            \in [Orders -> ReportSet]
    BY DEF TypeOK, Unseen, ReportSet
  <1> QED BY <1>1 DEF TypeOK, Advance

\* A report that is not refused and says more than the cursor is worth a row.
LEMMA RowWorth ==
    ASSUME TypeOK, NEW r \in Readers, NEW o \in Orders, Recordable(r, o),
           view[r][o].shares > Cursor(o).shares
    PROVE  Adopts(o, view[r][o]) \/ view[r][o].value > Cursor(o).value
  <1>1. ~Worthless(o, view[r][o])
    BY DEF Recordable, Refusal
  <1>2. view[r][o] \in ReportSet /\ Cursor(o) \in [shares : Nat, value : Nat]
    BY CursorType DEF TypeOK
  <1> QED BY <1>1, <1>2 DEF Worthless, ReportSet

\* The row that is written is a row.
LEMMA WriteTypes ==
    ASSUME TypeOK, NEW r \in Readers, NEW o \in Orders, Recordable(r, o),
           WriteRow(o, view[r][o])
    PROVE  rows' \in [Orders -> Seq(Row)] /\ legacy' \subseteq LegacyOrders
  <1> DEFINE v == view[r][o]
  <1>1. v \in ReportSet /\ Cursor(o) \in [shares : Nat, value : Nat]
    BY CursorType DEF TypeOK
  <1>2. CASE v.shares > Cursor(o).shares
    <2>1. v.value >= Cursor(o).value
      <3>1. CASE Adopts(o, v)
        <4>1. Cursor(o).value = 0
          BY <3>1 DEF Adopts, Cursor
        <4> QED BY <4>1, <1>1 DEF ReportSet
      <3> QED BY <3>1, <1>1, <1>2, RowWorth DEF ReportSet
    <2>2. NewRow(o, v) \in Row
      BY <2>1, <1>1, <1>2 DEF NewRow, Row, ReportSet
    <2>3. rows' = [rows EXCEPT ![o] = Append(@, NewRow(o, v))] /\ legacy' \subseteq legacy
      BY <1>2 DEF WriteRow
    <2>4. Append(rows[o], NewRow(o, v)) \in Seq(Row)
      BY <2>2 DEF TypeOK
    <2> QED BY <2>3, <2>4 DEF TypeOK
  <1>3. CASE ~(v.shares > Cursor(o).shares)
    BY <1>3 DEF WriteRow, TypeOK
  <1> QED BY <1>2, <1>3

\* Every step keeps the types.
LEMMA TypeStep == TypeOK /\ [Next]_vars => TypeOK'
  <1> SUFFICES ASSUME TypeOK, [Next]_vars PROVE TypeOK'
    OBVIOUS
  <1>1. ASSUME NEW o \in Orders, NEW p \in Prices, Execute(o, p) PROVE TypeOK'
    <2>1. Report(o).value + p \in Nat \ {0}
      BY ReportIsReport, LedgerAssumption DEF ReportSet
    <2>2. Append(reports[o], Report(o).value + p) \in Seq(Nat \ {0})
      BY <2>1 DEF TypeOK
    <2> QED BY <1>1, <2>2 DEF TypeOK, Execute, Disturb, ledger, reading
  <1>2. ASSUME NEW o \in Orders, EndOrder(o) PROVE TypeOK'
    BY <1>2 DEF TypeOK, EndOrder, Disturb, ledger, reading
  <1>3. ASSUME NEW o \in Orders, Correct(o) PROVE TypeOK'
    <2>1. reports[o] \in Seq(Nat \ {0}) /\ reports[o] # <<>>
      BY <1>3 DEF TypeOK, Correct
    <2> DEFINE before == SubSeq(reports[o], 1, Len(reports[o]) - 1)
               value  == IF before = <<>> THEN 0 ELSE before[Len(before)]
    <2>2. before \in Seq(Nat \ {0}) /\ value \in Nat
      BY <2>1
    <2>3. \A p \in Prices : Append(before, value + p) \in Seq(Nat \ {0})
      BY <2>2, LedgerAssumption
    <2>4. reports' \in [Orders -> Seq(Nat \ {0})]
      <3>1. \/ reports' = [reports EXCEPT ![o] = before]
            \/ \E p \in Prices : reports' = [reports EXCEPT ![o] = Append(before, value + p)]
        BY <1>3 DEF Correct
      <3> HIDE DEF before, value
      <3> QED BY <2>2, <2>3, <3>1 DEF TypeOK
    <2> QED BY <1>3, <2>4 DEF TypeOK, Correct, Disturb, ledger, reading
  <1>4. ASSUME NEW r \in Readers, SyncStep(r) PROVE TypeOK'
    <2>1. CASE StartSync(r)
      <3>1. [o \in Orders |-> Unseen] \in [Orders -> ReportSet]
        BY DEF Unseen, ReportSet
      <3> QED BY <2>1, <3>1 DEF TypeOK, StartSync, broker, ledger
    <2>2. CASE ListClosed(r)
      <3>1. PICK seen \in SUBSET Orders : See(r, seen)
        BY <2>2 DEF ListClosed
      <3>2. view' \in [Readers -> [Orders -> ReportSet]]
        BY <3>1, SeeTypes
      <3> QED BY <2>2, <3>2 DEF TypeOK, ListClosed, broker, ledger
    <2>3. CASE ListOpen(r)
      <3>1. view' \in [Readers -> [Orders -> ReportSet]]
        BY <2>3, SeeTypes DEF ListOpen
      <3> QED BY <2>3, <3>1 DEF TypeOK, ListOpen, broker, ledger
    <2>4. CASE BeginImport(r)
      <3>1. [o \in Orders |-> IF o \in Owned(r) THEN view[r][o] ELSE Unseen]
                \in [Orders -> ReportSet]
        BY DEF TypeOK, Unseen, ReportSet
      <3> QED BY <2>4, <3>1 DEF TypeOK, BeginImport, broker, ledger
    <2>5. CASE FinishSync(r)
      BY <2>5, LeaveTypes DEF TypeOK, FinishSync, broker, ledger
    <2>6. CASE MarkSubmitted(r)
      BY <2>6 DEF TypeOK, MarkSubmitted, Keys, broker
    <2>7. CASE UpdateOrderStatus(r)
      <3>1. status' \in [Orders -> {"none", "live", "terminal"}]
        BY <2>7 DEF TypeOK, UpdateOrderStatus, StatusOf
      <3>2. CASE Advance(r)
        BY <2>7, <3>1, <3>2, AdvanceTypes DEF TypeOK, UpdateOrderStatus, broker
      <3>3. CASE ~Advance(r)
        BY <2>7, <3>1, <3>3 DEF TypeOK, UpdateOrderStatus, broker
      <3> QED BY <3>2, <3>3
    <2>8. CASE MarkSynced(r)
      BY <2>8, AdvanceTypes DEF TypeOK, MarkSynced, broker
    <2>9. ASSUME NEW o \in Orders, Lookup(r, o) PROVE TypeOK'
      <3>1. view' \in [Readers -> [Orders -> ReportSet]]
        BY <2>9, SeeTypes DEF Lookup
      <3> QED BY <2>9, <3>1 DEF TypeOK, Lookup, broker, ledger
    <2>10. ASSUME NEW o \in Orders, SkipOrder(r, o) PROVE TypeOK'
      BY <2>10 DEF TypeOK, SkipOrder, Drop, Unseen, ReportSet, broker, ledger
    <2>11. ASSUME NEW o \in Orders, Refuse(r, o) PROVE TypeOK'
      <3>1. Refusal(o, view[r][o]) \in {"none", "regressed", "corrected", "legacy", "value"}
        BY DEF Refusal
      <3> QED BY <2>11, <3>1, LeaveTypes DEF TypeOK, Refuse, broker, ledger
    <2>12. ASSUME NEW o \in Orders, RecordOrder(r, o) PROVE TypeOK'
      BY <2>12, WriteTypes DEF TypeOK, RecordOrder, Keys, broker
    <2>13. CASE RefuseHistory(r)
      BY <2>13, LeaveTypes DEF TypeOK, RefuseHistory, broker, ledger
    <2> QED BY <1>4, <2>1, <2>2, <2>3, <2>4, <2>5, <2>6, <2>7, <2>8, <2>9, <2>10,
               <2>11, <2>12, <2>13 DEF SyncStep
  <1>5. ASSUME NEW r \in Readers, Crash(r) PROVE TypeOK'
    BY <1>5, LeaveTypes DEF TypeOK, Crash, broker, ledger
  <1>6. ASSUME NEW r \in Readers, NEW o \in Orders, InterruptedRecord(r, o) PROVE TypeOK'
    BY <1>6, WriteTypes, LeaveTypes DEF TypeOK, InterruptedRecord, broker
  <1>7. ASSUME NEW o \in Orders, NEW new \in Orders, Replace(o, new) PROVE TypeOK'
    BY <1>7 DEF TypeOK, Replace, Disturb, ledger, reading
  <1>8. CASE UNCHANGED vars
    BY <1>8 DEF TypeOK, vars, broker, ledger, reading
  <1> QED BY <1>1, <1>2, <1>3, <1>4, <1>5, <1>6, <1>7, <1>8
          DEF Next, BrokerStep

\* The ledger's state keeps its types, whatever the synchronizations do.
THEOREM LedgerTypeCorrect == Spec => []TypeOK
  BY TypeInit, TypeStep, PTL DEF Spec

-----------------------------------------------------------------------------
(* Steps.  What a step of the broker and one of a process leave alone.     *)

\* Process r takes a step of its own.
ReaderStep(r) == SyncStep(r) \/ Crash(r) \/ \E o \in Orders : InterruptedRecord(r, o)

\* What a process remembers of its synchronization.
Local(r) == <<phase[r], current[r], tracked[r], unknown[r], modern[r], view[r]>>

\* Who takes a step.
LEMMA StepKinds ==
    ASSUME [Next]_vars
    PROVE  \/ BrokerStep \/ UNCHANGED vars
           \/ \E r \in Readers : ReaderStep(r)
  BY DEF Next, ReaderStep

\* The broker touches neither the ledger nor a synchronization, but disturbs them all.
LEMMA BrokerFrame ==
    ASSUME BrokerStep
    PROVE  UNCHANGED <<ledger, reading>> /\ \A r \in Readers : undisturbed'[r] = FALSE
  BY DEF BrokerStep, Execute, EndOrder, Correct, Replace, Disturb

\* No process touches the broker.
LEMMA BrokerUntouched ==
    ASSUME NEW r \in Readers, ReaderStep(r)
    PROVE  UNCHANGED broker
  BY DEF ReaderStep, SyncStep, StartSync, ListClosed, ListOpen, BeginImport, RefuseHistory,
         FinishSync, MarkSubmitted, UpdateOrderStatus, MarkSynced, Lookup, SkipOrder, Refuse,
         RecordOrder, InterruptedRecord, Crash, broker

\* A process touches neither the broker nor another synchronization.
LEMMA ReaderFrame ==
    ASSUME TypeOK, NEW r \in Readers, ReaderStep(r), NEW q \in Readers \ {r}
    PROVE  UNCHANGED <<broker, Local(q), undisturbed[q]>>
  <1> USE DEF TypeOK, Local, broker
  <1>1. CASE StartSync(r)
    BY <1>1 DEF StartSync
  <1>2. CASE ListClosed(r) \/ ListOpen(r)
    BY <1>2 DEF ListClosed, ListOpen, See
  <1>3. CASE BeginImport(r)
    BY <1>3 DEF BeginImport
  <1>4. CASE RefuseHistory(r) \/ FinishSync(r)
    BY <1>4 DEF RefuseHistory, FinishSync, Leave
  <1>5. CASE MarkSubmitted(r)
    BY <1>5 DEF MarkSubmitted
  <1>6. CASE UpdateOrderStatus(r) \/ MarkSynced(r)
    BY <1>6 DEF UpdateOrderStatus, MarkSynced, Advance
  <1>7. ASSUME NEW o \in Orders, Lookup(r, o) \/ SkipOrder(r, o) \/ Refuse(r, o) \/ RecordOrder(r, o)
        PROVE  UNCHANGED <<broker, Local(q), undisturbed[q]>>
    BY <1>7 DEF Lookup, See, SkipOrder, Drop, Refuse, Leave, RecordOrder
  <1>8. CASE Crash(r)
    BY <1>8 DEF Crash, Leave
  <1>9. ASSUME NEW o \in Orders, InterruptedRecord(r, o)
        PROVE  UNCHANGED <<broker, Local(q), undisturbed[q]>>
    BY <1>9 DEF InterruptedRecord, Leave
  <1> QED BY <1>1, <1>2, <1>3, <1>4, <1>5, <1>6, <1>7, <1>8, <1>9 DEF ReaderStep, SyncStep

\* A step leaves a report in hand, drops it or takes a new one.
LEMMA ViewChange ==
    ASSUME TypeOK, [Next]_vars, NEW q \in Readers, NEW o \in Orders
    PROVE  view'[q][o] = view[q][o] \/ view'[q][o] = Unseen
              \/ (view'[q][o] = Report(o) /\ UNCHANGED broker)
  <1> USE DEF TypeOK
  <1>1. CASE BrokerStep \/ UNCHANGED vars
    BY <1>1, BrokerFrame DEF vars, reading
  <1>2. ASSUME NEW r \in Readers, ReaderStep(r)
        PROVE  view'[q][o] = view[q][o] \/ view'[q][o] = Unseen
                  \/ (view'[q][o] = Report(o) /\ UNCHANGED broker)
    <2>1. CASE StartSync(r)
      BY <2>1 DEF StartSync
    <2>2. CASE ListClosed(r) \/ ListOpen(r)
      <3>1. ASSUME NEW seen, See(r, seen), UNCHANGED broker
            PROVE  view'[q][o] = view[q][o] \/ (view'[q][o] = Report(o) /\ UNCHANGED broker)
        BY <3>1 DEF See
      <3> QED BY <2>2, <3>1 DEF ListClosed, ListOpen
    <2>3. CASE BeginImport(r)
      BY <2>3 DEF BeginImport
    <2>4. CASE RefuseHistory(r) \/ FinishSync(r)
      <3>1. ASSUME NEW next, Leave(r, next)
            PROVE  view'[q][o] = view[q][o] \/ view'[q][o] = Unseen
        BY <3>1 DEF Leave
      <3> QED BY <2>4, <3>1 DEF RefuseHistory, FinishSync
    <2>5. CASE MarkSubmitted(r)
      BY <2>5 DEF MarkSubmitted
    <2>6. CASE UpdateOrderStatus(r) \/ MarkSynced(r)
      <3>1. Advance(r) => view'[q][o] = view[q][o] \/ view'[q][o] = Unseen
        BY DEF Advance
      <3> QED BY <2>6, <3>1 DEF UpdateOrderStatus, MarkSynced
    <2>7. ASSUME NEW x \in Orders, \/ Lookup(r, x) \/ SkipOrder(r, x) \/ Refuse(r, x)
                                   \/ RecordOrder(r, x) \/ InterruptedRecord(r, x)
          PROVE  view'[q][o] = view[q][o] \/ view'[q][o] = Unseen
                    \/ (view'[q][o] = Report(o) /\ UNCHANGED broker)
      BY <2>7 DEF Lookup, See, SkipOrder, Drop, Refuse, Leave, RecordOrder, InterruptedRecord
    <2>8. CASE Crash(r)
      BY <2>8 DEF Crash, Leave
    <2> QED BY <1>2, <2>1, <2>2, <2>3, <2>4, <2>5, <2>6, <2>7, <2>8 DEF ReaderStep, SyncStep
  <1> QED BY <1>1, <1>2, StepKinds

-----------------------------------------------------------------------------
(* Without corrections reports only grow, so a report remains one. *)

ReportsGrow ==
    \A o \in Orders : /\ Len(reports[o]) <= Len(reports'[o])
                      /\ \A n \in 1..Len(reports[o]) : reports'[o][n] = reports[o][n]

LEMMA StepReportsGrow == NoCorrection /\ TypeOK /\ [Next]_vars => ReportsGrow
  <1> SUFFICES ASSUME NoCorrection, TypeOK, [Next]_vars PROVE ReportsGrow
    OBVIOUS
  <1>1. CASE UNCHANGED broker
    BY <1>1 DEF ReportsGrow, TypeOK, broker
  <1>2. ASSUME NEW o \in Orders, NEW p \in Prices, Execute(o, p) PROVE ReportsGrow
    <2> DEFINE value == Report(o).value + p
    <2>1. reports[o] \in Seq(Nat \ {0}) /\ value \in Nat \ {0}
      BY ReportIsReport, LedgerAssumption DEF TypeOK, ReportSet
    <2>2. reports' = [reports EXCEPT ![o] = Append(@, value)]
      BY <1>2 DEF Execute
    <2>3. /\ Len(Append(reports[o], value)) = Len(reports[o]) + 1
          /\ \A n \in 1..Len(reports[o]) : Append(reports[o], value)[n] = reports[o][n]
      BY <2>1
    <2>4. SUFFICES ASSUME NEW q \in Orders
                   PROVE  /\ Len(reports[q]) <= Len(reports'[q])
                          /\ \A n \in 1..Len(reports[q]) : reports'[q][n] = reports[q][n]
      BY DEF ReportsGrow
    <2>5. reports[q] \in Seq(Nat \ {0}) /\ Len(reports[q]) \in Nat
      BY DEF TypeOK
    <2>6. CASE q = o
      BY <2>1, <2>2, <2>3, <2>5, <2>6 DEF TypeOK
    <2>7. CASE q # o
      BY <2>2, <2>5, <2>7 DEF TypeOK
    <2> QED BY <2>6, <2>7
  <1>3. ASSUME NEW o \in Orders, EndOrder(o) PROVE ReportsGrow
    BY <1>3 DEF ReportsGrow, TypeOK, EndOrder
  <1>4. ASSUME NEW o \in Orders, Correct(o) PROVE ReportsGrow
    BY <1>4 DEF Correct, NoCorrection
  <1>5. ASSUME NEW r \in Readers, ReaderStep(r) PROVE UNCHANGED broker
    BY <1>5, BrokerUntouched
  <1>6. ASSUME NEW o \in Orders, NEW new \in Orders, Replace(o, new) PROVE ReportsGrow
    BY <1>6 DEF ReportsGrow, TypeOK, Replace
  <1>7. CASE UNCHANGED vars
    BY <1>7, <1>1 DEF vars, broker
  <1> QED BY <1>1, <1>2, <1>3, <1>4, <1>5, <1>6, <1>7, StepKinds DEF BrokerStep

\* What was a report remains one.
LEMMA ReportRemains ==
    ASSUME TypeOK, ReportsGrow, TypeOK', NEW o \in Orders, NEW shares \in Nat, NEW value,
           IsReport(o, shares, value)
    PROVE  IsReport(o, shares, value)'
  <1>1. Len(reports[o]) \in Nat /\ Len(reports'[o]) \in Nat
    BY DEF TypeOK
  <1>2. shares <= Len(reports'[o])
    BY <1>1 DEF IsReport, ReportsGrow
  <1>3. shares # 0 => reports'[o][shares] = reports[o][shares]
    BY <1>1 DEF IsReport, ReportsGrow
  <1> QED BY <1>2, <1>3 DEF IsReport

\* Nothing executed is a report of every order.
LEMMA NothingIsReport ==
    ASSUME TypeOK, NEW o \in Orders
    PROVE  IsReport(o, 0, 0)
  BY DEF TypeOK, IsReport

-----------------------------------------------------------------------------
(* The reports in hand. *)

LEMMA ViewsStep ==
    NoCorrection /\ TypeOK /\ TypeOK' /\ ViewsAreReports /\ [Next]_vars => ViewsAreReports'
  <1> SUFFICES ASSUME NoCorrection, TypeOK, TypeOK', ViewsAreReports, [Next]_vars,
                      NEW q \in Readers, NEW o \in Orders
               PROVE  IsReport(o, view[q][o].shares, view[q][o].value)'
    BY DEF ViewsAreReports
  <1>1. ReportsGrow
    BY StepReportsGrow
  <1>2. view[q][o] \in ReportSet /\ view'[q][o] \in ReportSet
    BY DEF TypeOK
  <1>3. CASE view'[q][o] = view[q][o]
    <2>1. IsReport(o, view[q][o].shares, view[q][o].value)
      BY DEF ViewsAreReports
    <2>2. view[q][o].shares \in Nat
      BY <1>2 DEF ReportSet
    <2>3. IsReport(o, view[q][o].shares, view[q][o].value)
             => /\ view[q][o].shares <= Len(reports'[o])
                /\ view[q][o].value = IF view[q][o].shares = 0 THEN 0
                                      ELSE reports'[o][view[q][o].shares]
      BY <1>1, <2>2 DEF IsReport, ReportsGrow, TypeOK
    <2> QED BY <1>3, <2>1, <2>3 DEF IsReport
  <1>4. CASE view'[q][o] = Unseen
    BY <1>4 DEF Unseen, IsReport, TypeOK
  <1>5. CASE view'[q][o] = Report(o) /\ UNCHANGED broker
    <2>1. IsReport(o, Report(o).shares, Report(o).value)
      BY ReportIsReport
    <2> QED BY <1>5, <2>1 DEF IsReport, broker
  <1> QED BY <1>3, <1>4, <1>5, ViewChange

-----------------------------------------------------------------------------
(* The rows.  A step leaves those of an order alone or appends the one row *)
(* that some synchronization's report is worth.                            *)

Appends(o) ==
    \E v \in ReportSet :
        /\ IsReport(o, v.shares, v.value)
        /\ v.shares > Cursor(o).shares
        /\ v.value > Cursor(o).value
        /\ rows'[o] = Append(rows[o], NewRow(o, v))

\* A report with more shares than the cursor has a higher value.
LEMMA WorthOfReport ==
    ASSUME TypeOK, NEW r \in Readers, NEW o \in Orders, Recordable(r, o),
           ViewsAreReports, view[r][o].shares > Cursor(o).shares
    PROVE  view[r][o].value > Cursor(o).value
  <1> DEFINE v == view[r][o]
  <1>1. v \in ReportSet /\ Cursor(o) \in [shares : Nat, value : Nat]
    BY CursorType DEF TypeOK
  <1>2. CASE Adopts(o, v)
    <2>1. Cursor(o).value = 0
      BY <1>2 DEF Adopts, Cursor
    <2>2. v.shares \in 1..Len(reports[o]) /\ v.value = reports[o][v.shares]
      BY <1>1 DEF ViewsAreReports, IsReport, ReportSet, TypeOK
    <2>3. v.value \in Nat \ {0}
      BY <2>2 DEF TypeOK
    <2> QED BY <2>1, <2>3
  <1> QED BY <1>2, RowWorth

LEMMA WriteAppends ==
    ASSUME TypeOK, ViewsAreReports, NEW r \in Readers, NEW o \in Orders,
           Recordable(r, o), WriteRow(o, view[r][o]), NEW q \in Orders
    PROVE  rows'[q] = rows[q] \/ Appends(q)
  <1> DEFINE v == view[r][o]
  <1>1. CASE v.shares > Cursor(o).shares
    <2>1. v \in ReportSet /\ IsReport(o, v.shares, v.value)
      BY DEF TypeOK, ViewsAreReports
    <2>2. v.value > Cursor(o).value
      BY <1>1, WorthOfReport
    <2>3. rows' = [rows EXCEPT ![o] = Append(@, NewRow(o, v))]
      BY <1>1 DEF WriteRow
    <2>4. CASE q = o
      <3>1. rows'[o] = Append(rows[o], NewRow(o, v))
        BY <2>3 DEF TypeOK
      <3> QED BY <1>1, <2>1, <2>2, <2>4, <3>1 DEF Appends
    <2>5. CASE q # o
      BY <2>3, <2>5 DEF TypeOK
    <2> QED BY <2>4, <2>5
  <1>2. CASE ~(v.shares > Cursor(o).shares)
    BY <1>2 DEF WriteRow
  <1> QED BY <1>1, <1>2

\* What a step may do to the ledger.
LEMMA RowsOfStep ==
    ASSUME TypeOK, ViewsAreReports, [Next]_vars
    PROVE  \/ UNCHANGED rows
           \/ /\ UNCHANGED reports
              /\ \E o \in Orders : /\ Appends(o)
                                   /\ \A q \in Orders \ {o} : rows'[q] = rows[q]
  <1> DEFINE Written(o) == /\ UNCHANGED reports
                           /\ rows'[o] = rows[o] \/ Appends(o)
                           /\ \A q \in Orders \ {o} : rows'[q] = rows[q]
  <1>1. CASE BrokerStep
    BY <1>1 DEF BrokerStep, Execute, EndOrder, Correct, Replace, ledger
  <1>2. ASSUME NEW r \in Readers, NEW o \in Orders, Recordable(r, o),
               WriteRow(o, view[r][o]), UNCHANGED reports
        PROVE  Written(o)
    <2>1. rows'[o] = rows[o] \/ Appends(o)
      BY <1>2, WriteAppends
    <2>2. \A q \in Orders \ {o} : rows'[q] = rows[q]
      BY <1>2 DEF WriteRow, TypeOK
    <2> QED BY <1>2, <2>1, <2>2
  <1>3. ASSUME NEW r \in Readers, SyncStep(r)
        PROVE  UNCHANGED rows \/ \E o \in Orders : Written(o)
    <2>1. ASSUME NEW o \in Orders, RecordOrder(r, o) PROVE Written(o)
      BY <1>2, <2>1 DEF RecordOrder, broker
    <2>2. ASSUME NEW o \in Orders, Lookup(r, o) \/ SkipOrder(r, o) \/ Refuse(r, o)
          PROVE  UNCHANGED rows
      BY <2>2 DEF Lookup, SkipOrder, Refuse, ledger
    <2>3. CASE \/ StartSync(r) \/ ListClosed(r) \/ ListOpen(r) \/ BeginImport(r)
               \/ RefuseHistory(r)
               \/ FinishSync(r) \/ MarkSubmitted(r) \/ UpdateOrderStatus(r)
               \/ MarkSynced(r)
      BY <2>3 DEF StartSync, ListClosed, ListOpen, BeginImport, RefuseHistory, FinishSync,
                  MarkSubmitted, UpdateOrderStatus, MarkSynced, ledger
    <2> QED BY <1>3, <2>1, <2>2, <2>3 DEF SyncStep
  <1>4. ASSUME NEW r \in Readers, Crash(r) PROVE UNCHANGED rows
    BY <1>4 DEF Crash, ledger
  <1>5. ASSUME NEW r \in Readers, NEW o \in Orders, InterruptedRecord(r, o)
        PROVE  Written(o)
    BY <1>2, <1>5 DEF InterruptedRecord, broker
  <1>6. CASE UNCHANGED vars
    BY <1>6 DEF vars, ledger
  <1>8. ASSUME NEW o \in Orders, Written(o), ~Appends(o) PROVE UNCHANGED rows
    <2>1. \A q \in Orders : rows'[q] = rows[q]
      BY <1>8
    <2>2. CASE rows' \in [Orders -> Seq(Row)]
      BY <2>1, <2>2 DEF TypeOK
    <2> QED BY <2>2, TypeStep DEF TypeOK
  <1>9. ASSUME NEW o \in Orders, Written(o)
        PROVE  \/ UNCHANGED rows
               \/ /\ UNCHANGED reports
                  /\ \E x \in Orders : /\ Appends(x)
                                       /\ \A q \in Orders \ {x} : rows'[q] = rows[q]
    <2>1. CASE Appends(o)
      BY <1>9, <2>1
    <2>2. CASE ~Appends(o)
      BY <1>8, <1>9, <2>2
    <2> QED BY <2>1, <2>2
  <1> QED BY <1>1, <1>3, <1>4, <1>5, <1>6, <1>9 DEF Next

\* The cursor follows the appended row.
LEMMA AppendCursor ==
    ASSUME TypeOK, NEW o \in Orders, NEW v \in ReportSet,
           rows'[o] = Append(rows[o], NewRow(o, v))
    PROVE  Cursor(o)' = [shares |-> v.shares, value |-> v.value]
  <1>1. rows[o] \in Seq(Row)
    BY DEF TypeOK
  <1>2. /\ rows'[o] # <<>>
        /\ Len(rows'[o]) = Len(rows[o]) + 1
        /\ rows'[o][Len(rows[o]) + 1] = NewRow(o, v)
    BY <1>1
  <1> QED BY <1>2 DEF Cursor, NewRow

LEMMA BookedStep ==
    ASSUME NoCorrection, TypeOK, TypeOK', ViewsAreReports, BookedAsReported, [Next]_vars
    PROVE  BookedAsReported'
  <1>1. ReportsGrow
    BY StepReportsGrow
  <1>2. ASSUME NEW o \in Orders, rows'[o] = rows[o]
        PROVE  IsReport(o, Cursor(o).shares, Cursor(o).value)'
    <2>1. Cursor(o)' = Cursor(o) /\ Cursor(o) \in [shares : Nat, value : Nat]
      BY <1>2, CursorType DEF Cursor
    <2>2. IsReport(o, Cursor(o).shares, Cursor(o).value)
      BY DEF BookedAsReported
    <2>3. /\ Cursor(o).shares <= Len(reports'[o])
          /\ Cursor(o).value = IF Cursor(o).shares = 0 THEN 0
                               ELSE reports'[o][Cursor(o).shares]
      BY <1>1, <2>1, <2>2 DEF IsReport, ReportsGrow, TypeOK
    <2> QED BY <2>1, <2>3 DEF IsReport
  <1>4. ASSUME NEW o \in Orders, Appends(o), UNCHANGED reports
        PROVE  IsReport(o, Cursor(o).shares, Cursor(o).value)'
    <2>1. PICK v \in ReportSet : /\ IsReport(o, v.shares, v.value)
                                 /\ rows'[o] = Append(rows[o], NewRow(o, v))
      BY <1>4 DEF Appends
    <2>2. Cursor(o)' = [shares |-> v.shares, value |-> v.value]
      BY <2>1, AppendCursor
    <2> QED BY <1>4, <2>1, <2>2 DEF IsReport
  <1>5. SUFFICES ASSUME NEW o \in Orders
                 PROVE  IsReport(o, Cursor(o).shares, Cursor(o).value)'
    BY DEF BookedAsReported
  <1> QED BY <1>2, <1>4, RowsOfStep

\* The condition of RowsChain on one row.
Chained(o, n) ==
    LET row    == rows[o][n]
        before == IF n = 1 THEN [cumShares |-> 0, cumValue |-> 0] ELSE rows[o][n - 1]
    IN  /\ row.shares > 0
        /\ row.value > 0
        /\ row.cumShares = before.cumShares + row.shares
        /\ row.cumValue = before.cumValue + row.value

LEMMA ChainStep ==
    ASSUME TypeOK, TypeOK', ViewsAreReports, RowsChain, [Next]_vars
    PROVE  RowsChain'
  <1>1. SUFFICES ASSUME NEW o \in Orders, NEW n \in DOMAIN rows'[o] PROVE Chained(o, n)'
    BY DEF RowsChain, Chained
  <1>2. \A m \in DOMAIN rows[o] : Chained(o, m)
    BY DEF RowsChain, Chained
  <1>3. CASE rows'[o] = rows[o]
    BY <1>2, <1>3 DEF Chained
  <1>5. CASE Appends(o)
    <2>1. PICK v \in ReportSet : /\ v.shares > Cursor(o).shares
                                 /\ v.value > Cursor(o).value
                                 /\ rows'[o] = Append(rows[o], NewRow(o, v))
      BY <1>5 DEF Appends
    <2> DEFINE k == Len(rows[o])
    <2>2. rows[o] \in Seq(Row) /\ NewRow(o, v) \in Row /\ k \in Nat
      <3>1. Cursor(o) \in [shares : Nat, value : Nat]
        BY CursorType
      <3>2. v.shares \in Nat /\ v.value \in Nat
        BY DEF ReportSet
      <3>3. NewRow(o, v) \in Row
        BY <2>1, <3>1, <3>2 DEF NewRow, Row
      <3>4. rows[o] \in Seq(Row)
        BY DEF TypeOK
      <3> QED BY <3>3, <3>4
    <2>3. /\ DOMAIN rows'[o] = 1..(k + 1)
          /\ rows'[o][k + 1] = NewRow(o, v)
          /\ \A m \in 1..k : rows'[o][m] = rows[o][m]
      BY <2>1, <2>2
    <2>4. CASE n = k + 1
      <3>1. Cursor(o) \in [shares : Nat, value : Nat] /\ v.shares \in Nat /\ v.value \in Nat
        BY CursorType DEF ReportSet
      <3>2. Cursor(o) = IF k = 0 THEN [shares |-> 0, value |-> 0]
                        ELSE [shares |-> rows[o][k].cumShares, value |-> rows[o][k].cumValue]
        BY <2>2 DEF Cursor
      <3>3. NewRow(o, v) = [shares |-> v.shares - Cursor(o).shares,
                            value |-> v.value - Cursor(o).value,
                            cumShares |-> v.shares, cumValue |-> v.value]
        BY DEF NewRow
      <3>4. CASE k = 0
        BY <2>1, <2>3, <2>4, <3>1, <3>2, <3>3, <3>4 DEF Chained
      <3>5. CASE k # 0
        <4>1. k \in 1..k /\ rows'[o][n - 1] = rows[o][k] /\ n # 1
          BY <2>2, <2>3, <2>4, <3>5
        <4> QED BY <2>1, <2>3, <2>4, <3>1, <3>2, <3>3, <3>5, <4>1 DEF Chained
      <3> QED BY <3>4, <3>5
    <2>5. CASE n \in 1..k
      <3>1. rows'[o][n] = rows[o][n] /\ (n # 1 => rows'[o][n - 1] = rows[o][n - 1])
        BY <2>2, <2>3, <2>5
      <3>2. Chained(o, n)
        BY <1>2, <2>2, <2>5
      <3> QED BY <3>1, <3>2 DEF Chained
    <2> QED BY <1>1, <2>2, <2>3, <2>4, <2>5
  <1> QED BY <1>3, <1>5, RowsOfStep

LEMMA LedgerInit == Init => LedgerInv
  <1> SUFFICES ASSUME Init PROVE LedgerInv
    OBVIOUS
  <1>1. TypeOK
    BY TypeInit
  <1>2. \A o \in Orders : Cursor(o).shares = 0 /\ Cursor(o).value = 0 /\ rows[o] = <<>>
    BY DEF Init, Cursor
  <1>3. \A r \in Readers, o \in Orders : view[r][o] = Unseen
    BY DEF Init
  <1> QED BY <1>1, <1>2, <1>3, NothingIsReport
          DEF LedgerInv, ViewsAreReports, BookedAsReported, RowsChain, Unseen

LEMMA LedgerStep == NoCorrection /\ LedgerInv /\ [Next]_vars => LedgerInv'
  BY TypeStep, ViewsStep, BookedStep, ChainStep DEF LedgerInv

LEMMA LedgerInvariant ==
    ASSUME NoCorrection
    PROVE  Spec => []LedgerInv
  BY LedgerInit, LedgerStep, PTL DEF Spec

-----------------------------------------------------------------------------
\* However many processes synchronize, and however old their reports, what is
\* booked of an order is its first executions, at the value they executed at.
THEOREM BookedIsReported ==
    ASSUME NoCorrection
    PROVE  Spec => []BookedAsReported
  BY LedgerInvariant, PTL DEF LedgerInv

\* No interleaving of them breaks the chain of an order's rows, so the check
\* of _validated_broker_history raises no error about a journal of this code.
THEOREM RowsAreChained ==
    ASSUME NoCorrection
    PROVE  Spec => []RowsChain
  BY LedgerInvariant, PTL DEF LedgerInv

\* The ledger books every executed share once and in order.
THEOREM LedgerBooksOnce ==
    ASSUME NoCorrection
    PROVE  Spec => BooksOnce
  <1>1. Init => Booking!Init
    <2> SUFFICES ASSUME Init PROVE Booking!Init
      OBVIOUS
    <2>1. TypeOK
      BY TypeInit
    <2>2. \A o \in Orders : Cursor(o).shares = 0
      BY DEF Init, Cursor
    <2> QED BY <2>1, <2>2 DEF Booking!Init, TypeOK
  <1>2. LedgerInv /\ [Next]_vars => [Booking!Next]_(Booking!vars)
    <2> SUFFICES ASSUME LedgerInv, [Next]_vars PROVE [Booking!Next]_(Booking!vars)
      OBVIOUS
    <2>1. TypeOK /\ ViewsAreReports
      BY DEF LedgerInv
    <2>3. CASE UNCHANGED rows
      <3>1. \A o \in Orders : Cursor(o)' = Cursor(o)
        BY <2>3 DEF Cursor
      <3>2. CASE UNCHANGED reports
        BY <3>1, <3>2 DEF Booking!vars
      <3>3. ASSUME NEW o \in Orders, NEW p \in Prices, Execute(o, p) PROVE Booking!Execute(o)
        <4>1. Report(o).value + p \in Nat \ {0} /\ reports[o] \in Seq(Nat \ {0})
          BY <2>1, ReportIsReport, LedgerAssumption DEF ReportSet, TypeOK
        <4>2. Len(Append(reports[o], Report(o).value + p)) = Len(reports[o]) + 1
          BY <4>1
        <4>3. reports' = [reports EXCEPT ![o] = Append(reports[o], Report(o).value + p)]
          BY <3>3 DEF Execute
        <4>4. /\ Len(reports'[o]) = Len(reports[o]) + 1
              /\ \A q \in Orders \ {o} : reports'[q] = reports[q]
          BY <2>1, <4>2, <4>3 DEF TypeOK
        <4> QED BY <3>1, <4>4 DEF Booking!Execute
      <3>4. UNCHANGED reports \/ \E o \in Orders, p \in Prices : Execute(o, p)
        BY StepKinds, BrokerUntouched
           DEF NoCorrection, BrokerStep, EndOrder, Correct, Replace, broker, vars
      <3> QED BY <3>2, <3>3, <3>4 DEF Booking!Next
    <2>4. ASSUME NEW o \in Orders, Appends(o), UNCHANGED reports,
                 \A q \in Orders \ {o} : rows'[q] = rows[q]
          PROVE  Booking!Book(o)
      <3>1. PICK v \in ReportSet : /\ IsReport(o, v.shares, v.value)
                                   /\ v.shares > Cursor(o).shares
                                   /\ rows'[o] = Append(rows[o], NewRow(o, v))
        BY <2>4 DEF Appends
      <3>2. Cursor(o)' = [shares |-> v.shares, value |-> v.value]
        BY <2>1, <3>1, AppendCursor
      <3>3. \A q \in Orders \ {o} : Cursor(q)' = Cursor(q)
        BY <2>4 DEF Cursor
      <3>4. v.shares \in Cursor(o).shares + 1 .. Len(reports[o])
        BY <2>1, <3>1, CursorType DEF IsReport, ReportSet, TypeOK
      <3>5. Cursor(o)'.shares = v.shares /\ \A q \in Orders \ {o} : Cursor(q)'.shares = Cursor(q).shares
        BY <3>2, <3>3
      <3>6. [q \in Orders |-> Cursor(q).shares]'
                = [[q \in Orders |-> Cursor(q).shares] EXCEPT ![o] = v.shares]
        BY <3>5
      <3>7. UNCHANGED [q \in Orders |-> Len(reports[q])]
        BY <2>4
      <3> QED BY <3>4, <3>6, <3>7 DEF Booking!Book
    <2> QED BY <2>1, <2>3, <2>4, RowsOfStep DEF Booking!Next
  <1> QED BY <1>1, <1>2, LedgerInvariant, PTL DEF Spec, BooksOnce, Booking!Spec

-----------------------------------------------------------------------------
(* Sums                                                                    *)

\* Induction over the natural numbers, for a set instead of a predicate.
LEMMA Induction ==
    ASSUME NEW S, 0 \in S, \A n \in Nat : n \in S => n + 1 \in S
    PROVE  Nat \subseteq S
  <1> DEFINE T == Nat \ S
             R == OpToRel(<, Nat)
  <1>1. SUFFICES ASSUME T # {} PROVE FALSE
    OBVIOUS
  <1>2. IsWellFoundedOn(R, Nat)
    BY NatLessThanWellFounded
  <1> HIDE DEF R
  <1>3. PICK x \in T : \A y \in T : <<y, x>> \notin R
    BY <1>1, <1>2, WFMin
  <1>4. x # 0 /\ x - 1 \in Nat
    OBVIOUS
  <1>5. <<x - 1, x>> \in R
    BY <1>4 DEF R, OpToRel
  <1>6. x - 1 \in S
    BY <1>3, <1>4, <1>5
  <1> QED BY <1>4, <1>6

\* The element that a fold over a set takes next.
Pick(s) == CHOOSE x \in s : TRUE

\* The recursive function behind the sum of f, on the sets of at most n elements.
Adds(iter, f, S, n) ==
    \A s \in SUBSET S :
        Cardinality(s) <= n
        => iter[s] = IF s = {} THEN 0 ELSE f[Pick(s)] + iter[s \ {Pick(s)}]

\* What is left of a set without one element.
LEMMA Without ==
    ASSUME NEW S, IsFiniteSet(S), NEW s \in SUBSET S, NEW x \in s
    PROVE  /\ IsFiniteSet(s) /\ Cardinality(s) \in Nat \ {0}
           /\ s \ {x} \in SUBSET S /\ Cardinality(s \ {x}) = Cardinality(s) - 1
  <1>1. IsFiniteSet(s)
    BY FS_Subset
  <1>2. Cardinality(s) \in Nat /\ (Cardinality(s) = 0 <=> s = {})
    BY <1>1, FS_CardinalityType, FS_EmptySet
  <1>3. Cardinality(s \ {x}) = Cardinality(s) - 1
    BY <1>1, FS_RemoveElement
  <1> QED BY <1>1, <1>2, <1>3

\* Such a function exists, however many elements the sets may have.
LEMMA AddsExists ==
    ASSUME NEW f, NEW S, IsFiniteSet(S)
    PROVE  \A n \in Nat : \E iter : Adds(iter, f, S, n)
  <1> DEFINE T == {n \in Nat : \E iter : Adds(iter, f, S, n)}
  <1>0. \A s \in SUBSET S : /\ Cardinality(s) \in Nat /\ (Cardinality(s) = 0 <=> s = {})
                            /\ s # {} => Pick(s) \in s
    BY FS_Subset, FS_CardinalityType, FS_EmptySet DEF Pick
  <1>1. 0 \in T
    <2> DEFINE zero == [s \in SUBSET S |-> 0]
    <2>1. Adds(zero, f, S, 0)
      BY <1>0 DEF Adds
    <2> QED BY <2>1
  <1>2. ASSUME NEW n \in Nat, n \in T PROVE n + 1 \in T
    <2>1. PICK iter : Adds(iter, f, S, n)
      BY <1>2
    <2> DEFINE V(s) == IF s = {} THEN 0 ELSE f[Pick(s)] + iter[s \ {Pick(s)}]
               next == [s \in SUBSET S |-> IF Cardinality(s) <= n THEN iter[s] ELSE V(s)]
    <2>2. ASSUME NEW s \in SUBSET S, Cardinality(s) <= n + 1
          PROVE  next[s] = IF s = {} THEN 0 ELSE f[Pick(s)] + next[s \ {Pick(s)}]
      <3>1. next[s] = V(s)
        BY <2>1 DEF Adds
      <3>2. CASE s = {}
        BY <3>1, <3>2
      <3>3. CASE s # {}
        <4>1. Pick(s) \in s
          BY <1>0, <3>3
        <4>2. s \ {Pick(s)} \in SUBSET S /\ Cardinality(s \ {Pick(s)}) <= n
          <5>1. /\ Cardinality(s) \in Nat /\ s \ {Pick(s)} \in SUBSET S
                /\ Cardinality(s \ {Pick(s)}) = Cardinality(s) - 1
            BY <4>1, Without
          <5> QED BY <2>2, <5>1
        <4>3. next[s \ {Pick(s)}] = iter[s \ {Pick(s)}]
          BY <4>2
        <4> HIDE DEF next
        <4> QED BY <3>1, <3>3, <4>3
      <3> QED BY <3>2, <3>3
    <2> HIDE DEF next
    <2>3. Adds(next, f, S, n + 1)
      BY <2>2 DEF Adds
    <2> QED BY <2>3
  <1> HIDE DEF T
  <1>3. Nat \subseteq T
    BY <1>1, <1>2, Induction
  <1> QED BY <1>3 DEF T

\* A recursive function is such a sum if it exists.
Folds(fold, f, S) ==
    \A s \in SUBSET S : fold[s] = IF s = {} THEN 0 ELSE f[Pick(s)] + fold[s \ {Pick(s)}]

Additive(fold, f, S) ==
    \A s \in SUBSET S : fold[s] \in Int /\ \A x \in s : fold[s] = f[x] + fold[s \ {x}]

\* The order in which a sum takes the elements does not matter.
LEMMA SumWithout ==
    ASSUME NEW S, IsFiniteSet(S), NEW f \in [S -> Int], NEW fold, Folds(fold, f, S)
    PROVE  Additive(fold, f, S)
  <1> DEFINE Fine(s) == fold[s] \in Int /\ \A x \in s : fold[s] = f[x] + fold[s \ {x}]
             T == {n \in Nat : \A s \in SUBSET S : Cardinality(s) <= n => Fine(s)}
  <1> USE DEF Folds
  <1>0. \A s \in SUBSET S : /\ Cardinality(s) \in Nat /\ (Cardinality(s) = 0 <=> s = {})
                            /\ s # {} => Pick(s) \in s
    BY FS_Subset, FS_CardinalityType, FS_EmptySet DEF Pick
  <1>1. 0 \in T
    BY <1>0
  <1>2. ASSUME NEW n \in Nat, n \in T PROVE n + 1 \in T
    <2>1. SUFFICES ASSUME NEW s \in SUBSET S, Cardinality(s) <= n + 1 PROVE Fine(s)
      OBVIOUS
    <2>2. CASE s = {}
      <3>1. fold[s] = 0
        BY <2>2
      <3> QED BY <2>2, <3>1
    <2>3. CASE s # {}
      <3> DEFINE y == Pick(s)
                 r == s \ {y}
      <3>1. y \in s /\ y \in S
        BY <1>0, <2>3
      <3>2. \A t \in SUBSET S : Cardinality(t) <= n => Fine(t)
        BY <1>2
      <3>3. \A x \in s : s \ {x} \in SUBSET S /\ Fine(s \ {x})
        <4> SUFFICES ASSUME NEW x \in s PROVE s \ {x} \in SUBSET S /\ Fine(s \ {x})
          OBVIOUS
        <4>1. /\ Cardinality(s) \in Nat /\ s \ {x} \in SUBSET S
              /\ Cardinality(s \ {x}) = Cardinality(s) - 1
          BY Without
        <4>2. Cardinality(s \ {x}) <= n
          BY <2>1, <4>1
        <4> HIDE DEF Fine
        <4> QED BY <3>2, <4>1, <4>2
      <3>4. fold[s] = f[y] + fold[r] /\ f[y] \in Int /\ fold[r] \in Int
        BY <2>3, <3>1, <3>3
      <3>5. ASSUME NEW x \in s, x # y PROVE fold[s] = f[x] + fold[s \ {x}]
        <4> DEFINE q == (s \ {x}) \ {y}
        <4>1. q = r \ {x} /\ x \in r /\ y \in s \ {x} /\ f[x] \in Int
          BY <3>1, <3>5
        <4>2. fold[r] = f[x] + fold[r \ {x}]
          BY <3>1, <3>3, <4>1
        <4>3. fold[s \ {x}] = f[y] + fold[q]
          BY <3>3, <4>1
        <4>4. fold[q] \in Int
          <5>1. r \in SUBSET S
            BY <3>1, <3>3
          <5>2. Cardinality(r \ {x}) = Cardinality(r) - 1 /\ Cardinality(r) = Cardinality(s) - 1
                /\ r \ {x} \in SUBSET S /\ Cardinality(s) \in Nat
            BY <3>1, <4>1, <5>1, Without
          <5>3. Cardinality(r \ {x}) <= n
            BY <2>1, <5>2
          <5> QED BY <3>2, <4>1, <5>2, <5>3
        <4> HIDE DEF q, r, y
        <4> QED BY <3>4, <4>1, <4>2, <4>3, <4>4
      <3>6. fold[s] \in Int
        <4> HIDE DEF r, y
        <4> QED BY <3>4
      <3>7. \A x \in s : fold[s] = f[x] + fold[s \ {x}]
        BY <3>4, <3>5
      <3> QED BY <3>6, <3>7
    <2> QED BY <2>2, <2>3
  <1> HIDE DEF T
  <1>3. Nat \subseteq T
    BY <1>1, <1>2, Induction
  <1>4. ASSUME NEW s \in SUBSET S PROVE Fine(s)
    <2>1. Cardinality(s) \in T /\ Cardinality(s) \in Nat
      BY <1>0, <1>3
    <2> QED BY <2>1 DEF T
  <1> QED BY <1>4 DEF Additive

\* The sums over the first elements of f; SumFunction is the last of them.
Sums(sum, f, k) ==
    /\ sum \in [0..k -> Int]
    /\ sum[0] = 0
    /\ \A n \in 1..k : sum[n] = sum[n - 1] + f[n]

LEMMA SumOfPrefixes ==
    ASSUME NEW k \in Nat, NEW f \in [1..k -> Int]
    PROVE  \E sum : Sums(sum, f, k) /\ SumFunction(f) = sum[k]
  <1> DEFINE S == 1..k
             F(iter) == [s \in SUBSET S |->
                           IF s = {} THEN 0 ELSE f[Pick(s)] + iter[s \ {Pick(s)}]]
             fold == CHOOSE iter : iter = F(iter)
  <1>1. IsFiniteSet(S) /\ Cardinality(S) = k
    BY FS_Interval
  <1>2. SumFunction(f) = fold[S]
    <2>1. SumFunction(f) =
            (CHOOSE iter : iter =
               [s \in SUBSET (DOMAIN f) |->
                  IF s = {} THEN 0 ELSE f[Pick(s)] + iter[s \ {Pick(s)}]])[DOMAIN f]
      BY DEF SumFunction, SumFunctionOnSet, FoldFunctionOnSet, MapThenFoldSet, Pick
    <2> QED BY <2>1
  <1>3. fold = F(fold)
    <2>1. PICK it : Adds(it, f, S, k)
      BY <1>1, AddsExists
    <2> DEFINE iter == [s \in SUBSET S |-> it[s]]
    <2>2. ASSUME NEW s \in SUBSET S PROVE iter[s] = F(iter)[s]
      <3>1. Cardinality(s) <= k
        <4> HIDE DEF S
        <4> QED BY <1>1, FS_Subset
      <3>2. it[s] = IF s = {} THEN 0 ELSE f[Pick(s)] + it[s \ {Pick(s)}]
        BY <2>1, <3>1 DEF Adds
      <3> QED BY <3>2
    <2>3. iter = F(iter)
      BY <2>2
    <2> HIDE DEF F, iter
    <2> QED BY <2>3
  <1> HIDE DEF fold
  <1>4. \A s \in SUBSET S : fold[s] = IF s = {} THEN 0 ELSE f[Pick(s)] + fold[s \ {Pick(s)}]
    BY <1>3
  <1>5. Additive(fold, f, S)
    <2>1. f \in [S -> Int]
      OBVIOUS
    <2> HIDE DEF S
    <2>2. Folds(fold, f, S)
      BY <1>4 DEF Folds
    <2> QED BY <1>1, <2>1, <2>2, SumWithout
  <1>6. ASSUME NEW n \in 1..k PROVE fold[1..n] = fold[1..(n - 1)] + f[n]
    <2>1. n \in 1..n /\ 1..n \in SUBSET S /\ (1..n) \ {n} = 1..(n - 1) /\ f[n] \in Int
          /\ 1..(n - 1) \in SUBSET S
      OBVIOUS
    <2>2. fold[1..n] = f[n] + fold[1..(n - 1)] /\ fold[1..(n - 1)] \in Int
      BY <1>5, <2>1 DEF Additive
    <2> QED BY <2>1, <2>2
  <1> DEFINE sum == [n \in 0..k |-> fold[1..n]]
  <1>7. sum[0] = 0
    <2>1. sum[0] = fold[1..0] /\ 1..0 = {}
      OBVIOUS
    <2>2. fold[{}] = 0
      BY <1>4
    <2> QED BY <2>1, <2>2
  <1>8. sum \in [0..k -> Int]
    <2>1. \A n \in 0..k : 1..n \in SUBSET S
      OBVIOUS
    <2> QED BY <1>5, <2>1 DEF Additive
  <1>9. \A n \in 1..k : sum[n] = sum[n - 1] + f[n]
    BY <1>6
  <1>10. sum[k] = fold[S]
    OBVIOUS
  <1> HIDE DEF sum
  <1> QED BY <1>2, <1>7, <1>8, <1>9, <1>10 DEF Sums

-----------------------------------------------------------------------------
\* Process r writes what its report of order o says.
Records(r, o) == RecordOrder(r, o) \/ InterruptedRecord(r, o)

\* fills.csv changes only when a report is recorded.
LEMMA OnlyRecordsWrite ==
    ASSUME [Next]_vars, \A r \in Readers, o \in Orders : ~Records(r, o)
    PROVE  UNCHANGED <<rows, legacy>>
  <1>1. CASE BrokerStep
    BY <1>1, BrokerFrame DEF ledger
  <1>2. ASSUME NEW r \in Readers, SyncStep(r) PROVE UNCHANGED <<rows, legacy>>
    BY <1>2 DEF Records, SyncStep, StartSync, ListClosed, ListOpen, BeginImport, RefuseHistory,
                FinishSync, MarkSubmitted, UpdateOrderStatus, MarkSynced, Lookup, SkipOrder,
                Refuse, ledger
  <1>3. ASSUME NEW r \in Readers, Crash(r) PROVE UNCHANGED <<rows, legacy>>
    BY <1>3 DEF Crash, ledger
  <1>4. CASE UNCHANGED vars
    BY <1>4 DEF vars, ledger
  <1> QED BY <1>1, <1>2, <1>3, <1>4 DEF Next, Records

\* After a recording the cursor is at least at the report, and at it if that has executions.
LEMMA RecordedCursor ==
    ASSUME TypeOK, NEW r \in Readers, NEW o \in Orders, Records(r, o)
    PROVE  LET v == view[r][o]
           IN  /\ UNCHANGED broker /\ Recordable(r, o) /\ v \in ReportSet
               /\ Cursor(o).shares <= Cursor(o)'.shares
               /\ v.shares <= Cursor(o)'.shares
               /\ v.shares # 0 => Cursor(o)' = [shares |-> v.shares, value |-> v.value]
               /\ rows[o] # <<>> => rows'[o] # <<>>
               /\ v.shares <= Cursor(o).shares => UNCHANGED <<rows, legacy>>
               /\ v.shares > Cursor(o).shares => rows'[o] = Append(rows[o], NewRow(o, v))
               /\ \A q \in Orders \ {o} : rows'[q] = rows[q]
  <1> DEFINE v == view[r][o]
  <1>1. /\ v \in ReportSet /\ Cursor(o) \in [shares : Nat, value : Nat] /\ rows[o] \in Seq(Row)
        /\ Recordable(r, o) /\ WriteRow(o, v) /\ UNCHANGED broker
    BY CursorType DEF Records, RecordOrder, InterruptedRecord, TypeOK
  <1>2. v.shares \in Nat /\ v.value \in Nat /\ Cursor(o).shares \in Nat /\ Cursor(o).value \in Nat
    BY <1>1 DEF ReportSet
  <1>3. ~Regressed(o, v) /\ ~Corrected(o, v)
    BY <1>1 DEF Recordable, Refusal
  <1>4. CASE v.shares > Cursor(o).shares
    <2>1. rows' = [rows EXCEPT ![o] = Append(@, NewRow(o, v))]
      BY <1>1, <1>4 DEF WriteRow
    <2>2. rows'[o] = Append(rows[o], NewRow(o, v)) /\ \A q \in Orders \ {o} : rows'[q] = rows[q]
      BY <2>1 DEF TypeOK
    <2>3. Cursor(o)' = [shares |-> v.shares, value |-> v.value]
      BY <1>1, <2>2, AppendCursor
    <2>4. rows'[o] # <<>>
      BY <1>1, <2>2
    <2> QED BY <1>1, <1>2, <1>4, <2>2, <2>3, <2>4
  <1>5. CASE ~(v.shares > Cursor(o).shares)
    <2>1. UNCHANGED <<rows, legacy>>
      BY <1>1, <1>5 DEF WriteRow
    <2>2. Cursor(o)' = Cursor(o)
      BY <2>1 DEF Cursor
    <2>3. v.shares # 0 => v.shares = Cursor(o).shares /\ v.value = Cursor(o).value
      BY <1>2, <1>3, <1>5 DEF Regressed, Corrected
    <2> QED BY <1>1, <1>2, <1>5, <2>1, <2>2, <2>3
  <1> QED BY <1>4, <1>5

\* The cursors are numbers, before a step and after it.
LEMMA CursorsAreNumbers ==
    TypeOK => \A o \in Orders : Cursor(o).shares \in Nat /\ Cursor(o).value \in Nat
  BY CursorType

LEMMA CursorsStayNumbers ==
    (TypeOK => \A o \in Orders : Cursor(o).shares \in Nat /\ Cursor(o).value \in Nat)'
  BY CursorsAreNumbers, PTL

\* A booked order stays booked, and its cursor never goes back.
LEMMA CursorsGrow ==
    ASSUME TypeOK, [Next]_vars, NEW o \in Orders
    PROVE  /\ Cursor(o).shares <= Cursor(o)'.shares /\ Cursor(o)'.shares \in Nat
           /\ rows[o] # <<>> => rows'[o] # <<>>
  <1>0. Cursor(o)'.shares \in Nat
    BY CursorsStayNumbers, TypeStep
  <1> SUFFICES /\ Cursor(o).shares <= Cursor(o)'.shares
               /\ rows[o] # <<>> => rows'[o] # <<>>
    BY <1>0
  <1>1. Cursor(o).shares \in Nat
    BY CursorType
  <1>2. CASE \E r \in Readers : Records(r, o)
    BY <1>2, RecordedCursor
  <1>3. CASE ~\E r \in Readers : Records(r, o)
    <2>1. rows'[o] = rows[o]
      BY <1>3, OnlyRecordsWrite, RecordedCursor
    <2> QED BY <1>1, <2>1 DEF Cursor
  <1> QED BY <1>2, <1>3

-----------------------------------------------------------------------------
(* The orders behind the reports.                                          *)

Closed(o) == StatusAt(o) \in {"filled", "canceled"}

\* An order that does not exist yet has executed nothing.
Unborn == \A o \in Orders : ~Exists(o) => reports[o] = <<>>

\* A report says that its order exists, and what a filled order has executed.
ViewsAreOfOrders ==
    \A r \in Readers, o \in Orders :
        /\ view[r][o].status = "unseen" => view[r][o] = Unseen
        /\ view[r][o].status = "filled" => view[r][o].shares = OrderSize[o]

\* The report of an order that has ended is its last one.
ClosedAreFinal ==
    \A r \in Readers, o \in Orders :
        view[r][o].status \in {"filled", "canceled"}
        => Closed(o) /\ view[r][o].shares = Len(reports[o])

\* An order that is replaced, executed or corrected exists.
LEMMA UnbornStep == ASSUME TypeOK, Unborn, [Next]_vars PROVE Unborn'
  <1>1. CASE BrokerStep
    <2>1. PICK o \in Orders : \/ \E p \in Prices : Execute(o, p)
                              \/ EndOrder(o) \/ Correct(o)
                              \/ \E new \in Orders : Replace(o, new)
      BY <1>1 DEF BrokerStep
    <2>2. ASSUME Exists(o), reports' \in [Orders -> Seq(Nat \ {0})], links' = links,
                 \A q \in Orders \ {o} : reports'[q] = reports[q]
          PROVE  Unborn'
      BY <2>2 DEF Unborn, Exists
    <2>3. ASSUME NEW p \in Prices, Execute(o, p) PROVE Unborn'
      BY <2>2, <2>3, TypeStep DEF Execute, StatusAt, TypeOK
    <2>4. CASE EndOrder(o)
      BY <2>4 DEF EndOrder, Unborn, Exists
    <2>5. CASE Correct(o)
      <3>1. reports[o] # <<>> /\ links' = links
        BY <2>5 DEF Correct
      <3>2. Exists(o)
        BY <3>1 DEF Unborn
      <3>3. \A q \in Orders \ {o} : reports'[q] = reports[q]
        BY <2>5 DEF Correct, TypeOK
      <3> QED BY <2>2, <3>1, <3>2, <3>3, TypeStep DEF TypeOK
    <2>6. ASSUME NEW new \in Orders, Replace(o, new) PROVE Unborn'
      <3>1. reports' = reports /\ links \subseteq links'
        BY <2>6 DEF Replace
      <3> QED BY <3>1 DEF Unborn, Exists
    <2> QED BY <2>1, <2>3, <2>4, <2>5, <2>6
  <1>2. CASE UNCHANGED broker
    BY <1>2 DEF broker, Unborn, Exists
  <1>3. ASSUME NEW r \in Readers, ReaderStep(r) PROVE UNCHANGED broker
    BY <1>3, BrokerUntouched
  <1> QED BY <1>1, <1>2, <1>3, StepKinds DEF vars

\* What the report of an order says.
LEMMA ReportOfOrder ==
    ASSUME TypeOK, Unborn, NEW o \in Orders
    PROVE  /\ Report(o).status = "unseen" => Report(o) = Unseen
           /\ Report(o).status = "unseen" <=> ~Exists(o)
           /\ Report(o).status = "filled" => Report(o).shares = OrderSize[o]
           /\ Report(o).status \in {"filled", "canceled"} <=> Closed(o)
           /\ Report(o).shares = Len(reports[o])
           /\ Report(o).status # "unseen" => Report(o) # Unseen
  BY DEF Report, StatusAt, Unborn, Unseen, Closed, Exists

\* Every step keeps ViewsAreOfOrders.
LEMMA ViewsOfOrdersStep ==
    ASSUME TypeOK, Unborn, ViewsAreOfOrders, [Next]_vars PROVE ViewsAreOfOrders'
  <1> SUFFICES ASSUME NEW r \in Readers, NEW o \in Orders
               PROVE  /\ view'[r][o].status = "unseen" => view'[r][o] = Unseen
                      /\ view'[r][o].status = "filled" => view'[r][o].shares = OrderSize[o]
    BY DEF ViewsAreOfOrders
  <1>1. CASE view'[r][o] = view[r][o]
    BY <1>1 DEF ViewsAreOfOrders
  <1>2. CASE view'[r][o] = Unseen
    BY <1>2 DEF Unseen
  <1>3. CASE view'[r][o] = Report(o)
    BY <1>3, ReportOfOrder
  <1> QED BY <1>1, <1>2, <1>3, ViewChange

\* An order that has ended stays as it is, unless it is corrected.
LEMMA ClosedStays ==
    ASSUME NoCorrection, TypeOK, [Next]_vars, NEW o \in Orders, Closed(o)
    PROVE  Closed(o)' /\ reports'[o] = reports[o]
  <1>1. CASE UNCHANGED broker
    BY <1>1 DEF broker, Closed, StatusAt, Exists
  <1>2. CASE BrokerStep
    <2>1. PICK x \in Orders : \/ \E p \in Prices : Execute(x, p)
                              \/ EndOrder(x) \/ \E new \in Orders : Replace(x, new)
      BY <1>2 DEF BrokerStep, Correct, NoCorrection
    <2>2. /\ StatusAt(x) = "open" /\ ended \subseteq ended' /\ links \subseteq links'
          /\ \A q \in Orders \ {x} : reports'[q] = reports[q]
      BY <2>1 DEF Execute, EndOrder, Replace, TypeOK
    <2>3. x # o
      BY <2>2 DEF Closed
    <2> QED BY <2>2, <2>3 DEF Closed, StatusAt, Exists
  <1>3. ASSUME NEW r \in Readers, ReaderStep(r) PROVE UNCHANGED broker
    BY <1>3, BrokerUntouched
  <1> QED BY <1>1, <1>2, <1>3, StepKinds DEF vars

\* Every step keeps ClosedAreFinal.
LEMMA FinalStep ==
    ASSUME NoCorrection, TypeOK, Unborn, ClosedAreFinal, [Next]_vars PROVE ClosedAreFinal'
  <1> SUFFICES ASSUME NEW r \in Readers, NEW o \in Orders,
                      view'[r][o].status \in {"filled", "canceled"}
               PROVE  Closed(o)' /\ view'[r][o].shares = Len(reports'[o])
    BY DEF ClosedAreFinal
  <1>1. CASE view'[r][o] = view[r][o]
    BY <1>1, ClosedStays DEF ClosedAreFinal
  <1>2. CASE view'[r][o] = Report(o) /\ UNCHANGED broker
    <2>1. Closed(o) /\ Report(o).shares = Len(reports[o])
      BY <1>2, ReportOfOrder
    <2> QED BY <1>2, <2>1, ClosedStays DEF broker
  <1> QED BY <1>1, <1>2, ViewChange DEF Unseen

-----------------------------------------------------------------------------
(* The order that a synchronization is recording.                          *)

Recording(r) == phase[r] \in {"mark", "status", "synced"}

\* Its report is in hand and booked; the last step is for filled stops only.
Recorded(r, o) ==
    /\ current[r] = {o}
    /\ view[r][o] # Unseen
    /\ view[r][o].shares <= Cursor(o).shares
    /\ phase[r] = "synced" => view[r][o].status = "filled"

OneAtATime ==
    \A r \in Readers : IF Recording(r) THEN \E o \in Orders : Recorded(r, o) ELSE current[r] = {}

\* A synchronization that ends, or goes on to the next order, records none.
LEMMA LeaveEnds ==
    ASSUME TypeOK, NEW r \in Readers, NEW next \in {"idle", "done"}, Leave(r, next)
    PROVE  ~Recording(r)' /\ current'[r] = {}
  BY DEF TypeOK, Leave, Recording

LEMMA AdvanceEnds ==
    ASSUME TypeOK, NEW r \in Readers, Advance(r)
    PROVE  ~Recording(r)' /\ current'[r] = {}
  BY DEF TypeOK, Advance, Recording

\* Every step keeps OneAtATime.
LEMMA OneAtATimeStep == ASSUME TypeOK, OneAtATime, [Next]_vars PROVE OneAtATime'
  <1> DEFINE One(r) == IF Recording(r) THEN \E o \in Orders : Recorded(r, o) ELSE current[r] = {}
  <1> SUFFICES ASSUME NEW q \in Readers PROVE One(q)'
    BY DEF OneAtATime
  <1>1. One(q)
    BY DEF OneAtATime
  <1>2. ASSUME UNCHANGED Local(q) PROVE One(q)'
    <2>1. phase'[q] = phase[q] /\ current'[q] = current[q] /\ view'[q] = view[q]
      BY <1>2 DEF Local
    <2>2. Recording(q)' <=> Recording(q)
      BY <2>1 DEF Recording
    <2>3. ASSUME NEW o \in Orders, Recorded(q, o) PROVE Recorded(q, o)'
      <3>1. Cursor(o).shares <= Cursor(o)'.shares /\ Cursor(o).shares \in Nat
            /\ view[q][o].shares \in Nat
        BY CursorsGrow, CursorType DEF TypeOK, ReportSet
      <3> QED BY <2>1, <2>3, <3>1, CursorsGrow DEF Recorded
    <2> QED BY <1>1, <2>1, <2>2, <2>3
  <1>3. CASE BrokerStep \/ UNCHANGED vars
    BY <1>2, <1>3, BrokerFrame DEF Local, reading, vars
  <1>4. ASSUME NEW r \in Readers, r # q, ReaderStep(r) PROVE One(q)'
    BY <1>2, <1>4, ReaderFrame
  <1>5. CASE SyncStep(q)
    <2>1. CASE StartSync(q)
      BY <1>1, <2>1 DEF StartSync, Recording, TypeOK
    <2>2. CASE ListClosed(q) \/ ListOpen(q) \/ BeginImport(q)
      BY <1>1, <2>2 DEF ListClosed, ListOpen, BeginImport, Recording, TypeOK
    <2>3. CASE RefuseHistory(q) \/ FinishSync(q)
      BY <2>3, LeaveEnds DEF RefuseHistory, FinishSync
    <2>4. CASE MarkSubmitted(q)
      <3>1. /\ phase[q] = "mark" /\ phase'[q] = "status" /\ current'[q] = current[q]
            /\ view' = view /\ rows' = rows
        BY <2>4 DEF MarkSubmitted, TypeOK
      <3> QED BY <1>1, <3>1 DEF Recording, Recorded, Cursor
    <2>5. CASE UpdateOrderStatus(q)
      <3>1. CASE Advance(q)
        BY <3>1, AdvanceEnds
      <3>2. CASE ~Advance(q)
        <4>1. /\ phase[q] = "status" /\ phase'[q] = "synced" /\ current' = current /\ view' = view
              /\ rows' = rows /\ \E o \in current[q] : view[q][o].status = "filled"
          BY <2>5, <3>2 DEF UpdateOrderStatus, TypeOK
        <4>2. PICK o \in Orders : Recorded(q, o)
          BY <1>1, <4>1 DEF Recording
        <4>3. view[q][o].status = "filled"
          BY <4>1, <4>2 DEF Recorded
        <4> QED BY <4>1, <4>2, <4>3 DEF Recording, Recorded, Cursor
      <3> QED BY <3>1, <3>2
    <2>6. CASE MarkSynced(q)
      BY <2>6, AdvanceEnds DEF MarkSynced
    <2>7. ASSUME NEW o \in Orders, Lookup(q, o) \/ SkipOrder(q, o) PROVE One(q)'
      BY <1>1, <2>7 DEF Lookup, SkipOrder, Collected, Recording, TypeOK
    <2>8. ASSUME NEW o \in Orders, Refuse(q, o) PROVE One(q)'
      BY <2>8, LeaveEnds DEF Refuse
    <2>9. ASSUME NEW o \in Orders, RecordOrder(q, o) PROVE One(q)'
      <3>1. phase'[q] = "mark" /\ current'[q] = {o} /\ view' = view /\ view[q][o] # Unseen
        BY <2>9 DEF RecordOrder, Recordable, Collected, TypeOK
      <3>2. view[q][o].shares <= Cursor(o)'.shares
        BY <2>9, RecordedCursor DEF Records
      <3> QED BY <3>1, <3>2 DEF Recording, Recorded
    <2> QED BY <1>5, <2>1, <2>2, <2>3, <2>4, <2>5, <2>6, <2>7, <2>8, <2>9 DEF SyncStep
  <1>6. CASE Crash(q)
    BY <1>6, LeaveEnds DEF Crash
  <1>7. ASSUME NEW o \in Orders, InterruptedRecord(q, o) PROVE One(q)'
    BY <1>7, LeaveEnds DEF InterruptedRecord
  <1> QED BY <1>3, <1>4, <1>5, <1>6, <1>7, StepKinds DEF ReaderStep

-----------------------------------------------------------------------------
(* Intents that are closed and stops that are done.                        *)

\* Order o executes no further, and the ledger has all of it.
Settled(o) == Closed(o) /\ Cursor(o).shares = Len(reports[o])

SettledInv ==
    \A o \in Orders : status[o] = "terminal" \/ o \in synced \ LegacyOrders => Settled(o)

LEMMA SettledStays ==
    ASSUME NoCorrection, TypeOK, BookedAsReported', [Next]_vars, NEW o \in Orders, Settled(o)
    PROVE  Settled(o)'
  <1>1. Closed(o)' /\ reports'[o] = reports[o]
    BY ClosedStays DEF Settled
  <1>2. Cursor(o).shares <= Cursor(o)'.shares /\ Cursor(o)'.shares \in Nat
    BY CursorsGrow
  <1>3. Cursor(o)'.shares <= Len(reports'[o])
    BY DEF BookedAsReported, IsReport
  <1>4. Len(reports[o]) \in Nat
    BY DEF TypeOK
  <1> QED BY <1>1, <1>2, <1>3, <1>4 DEF Settled

\* The order that is recorded from a final report is settled.
LEMMA RecordedIsSettled ==
    ASSUME TypeOK, BookedAsReported, ClosedAreFinal, NEW r \in Readers, NEW o \in Orders,
           Recorded(r, o), view[r][o].status \in {"filled", "canceled"}
    PROVE  Settled(o)
  <1>1. Closed(o) /\ view[r][o].shares = Len(reports[o])
    BY DEF ClosedAreFinal
  <1>2. view[r][o].shares <= Cursor(o).shares
    BY DEF Recorded
  <1>3. Cursor(o).shares <= Len(reports[o]) /\ Cursor(o).shares \in Nat /\ Len(reports[o]) \in Nat
    BY CursorType DEF BookedAsReported, IsReport, TypeOK
  <1> QED BY <1>1, <1>2, <1>3 DEF Settled

\* Every step keeps SettledInv: a terminal status or a mark comes from a recorded report.
LEMMA SettledStep ==
    ASSUME NoCorrection, TypeOK, BookedAsReported, BookedAsReported', ViewsAreOfOrders,
           ClosedAreFinal, OneAtATime, SettledInv, [Next]_vars
    PROVE  SettledInv'
  <1> SUFFICES ASSUME NEW o \in Orders, status'[o] = "terminal" \/ o \in synced' \ LegacyOrders
               PROVE  Settled(o)'
    BY DEF SettledInv
  <1>1. SUFFICES Settled(o)
    BY SettledStays
  <1>2. CASE status'[o] = status[o] /\ synced' = synced
    BY <1>2 DEF SettledInv
  <1>3. ASSUME NEW r \in Readers, UpdateOrderStatus(r) PROVE Settled(o)
    <2>1. /\ phase[r] = "status" /\ synced' = synced
          /\ status'[o] = IF o \in current[r] /\ status[o] # "none"
                          THEN StatusOf(view[r][o]) ELSE status[o]
      BY <1>3 DEF UpdateOrderStatus
    <2>2. CASE o \in synced \ LegacyOrders \/ status[o] = "terminal"
      BY <2>2 DEF SettledInv
    <2>3. CASE ~(o \in synced \ LegacyOrders \/ status[o] = "terminal")
      <3>1. o \in current[r] /\ StatusOf(view[r][o]) = "terminal"
        BY <2>1, <2>3
      <3>2. Recorded(r, o)
        BY <2>1, <3>1 DEF OneAtATime, Recording, Recorded
      <3>3. view[r][o].status \in {"filled", "canceled"}
        BY <3>1, <3>2 DEF StatusOf, Recorded, ViewsAreOfOrders, TypeOK, ReportSet
      <3> QED BY <3>2, <3>3, RecordedIsSettled
    <2> QED BY <2>2, <2>3
  <1>4. ASSUME NEW r \in Readers, MarkSynced(r) PROVE Settled(o)
    <2>1. phase[r] = "synced" /\ synced' = synced \cup current[r] /\ status' = status
      BY <1>4 DEF MarkSynced
    <2>2. CASE o \in current[r]
      <3>1. Recorded(r, o) /\ view[r][o].status = "filled"
        BY <2>1, <2>2 DEF OneAtATime, Recording, Recorded
      <3> QED BY <3>1, RecordedIsSettled
    <2> QED BY <2>1, <2>2 DEF SettledInv
  <1>5. CASE BrokerStep \/ UNCHANGED vars
    BY <1>2, <1>5, BrokerFrame DEF ledger, vars
  <1>6. ASSUME NEW r \in Readers, ReaderStep(r), ~UpdateOrderStatus(r), ~MarkSynced(r)
        PROVE  status'[o] = status[o] /\ synced' = synced
    BY <1>6 DEF ReaderStep, SyncStep, StartSync, ListClosed, ListOpen, BeginImport, RefuseHistory,
                FinishSync, MarkSubmitted, Lookup, SkipOrder, Refuse, RecordOrder,
                InterruptedRecord, Crash, ledger
  <1> QED BY <1>2, <1>3, <1>4, <1>5, <1>6, StepKinds

TerminalInv ==
    LedgerInv /\ Unborn /\ ViewsAreOfOrders /\ ClosedAreFinal /\ OneAtATime /\ SettledInv

\* The invariants hold initially.
LEMMA SyncInit ==
    ASSUME Init PROVE Unborn /\ ViewsAreOfOrders /\ OneAtATime
  <1> USE LedgerAssumption
  <1>1. Unborn
    BY DEF Init, Unborn, Exists
  <1>2. \A r \in Readers, o \in Orders : view[r][o] = Unseen
    BY DEF Init
  <1>3. ViewsAreOfOrders
    BY <1>2 DEF ViewsAreOfOrders, Unseen
  <1>4. OneAtATime
    BY DEF Init, OneAtATime, Recording
  <1> QED BY <1>1, <1>3, <1>4

LEMMA TerminalInit == ASSUME Init PROVE TerminalInv
  <1>1. ClosedAreFinal
    BY DEF Init, ClosedAreFinal, Unseen
  <1>2. SettledInv
    BY DEF Init, SettledInv
  <1> QED BY <1>1, <1>2, LedgerInit, SyncInit DEF TerminalInv

LEMMA TerminalStep == ASSUME NoCorrection, TerminalInv, [Next]_vars PROVE TerminalInv'
  BY LedgerStep, UnbornStep, ViewsOfOrdersStep, FinalStep, OneAtATimeStep, SettledStep
     DEF TerminalInv, LedgerInv

LEMMA TerminalInvariant == ASSUME NoCorrection PROVE Spec => []TerminalInv
  <1>1. Init => TerminalInv
    BY TerminalInit
  <1>2. TerminalInv /\ [Next]_vars => TerminalInv'
    BY TerminalStep
  <1> QED BY <1>1, <1>2, PTL DEF Spec

\* An intent gets a terminal status only when every share that its order
\* executed is booked, although a process stores the status of the report it
\* has in hand, however old (reconcile.py, update_order_status).
THEOREM TerminalIntentsAreBooked ==
    ASSUME NoCorrection
    PROVE  Spec => []TerminalIsBooked
  <1>1. TerminalInv => TerminalIsBooked
    BY DEF TerminalInv, SettledInv, Settled, TerminalIsBooked
  <1> QED BY <1>1, TerminalInvariant, PTL

-----------------------------------------------------------------------------
(* The shares of the rows.                                                 *)

\* RowsChain without the values, which a correction may lower.
SharesChain ==
    \A o \in Orders : \A n \in DOMAIN rows[o] :
        rows[o][n].cumShares = rows[o][n].shares + (IF n = 1 THEN 0 ELSE rows[o][n - 1].cumShares)

\* Every step keeps SharesChain, corrections or not.
LEMMA SharesChainStep == ASSUME TypeOK, SharesChain, [Next]_vars PROVE SharesChain'
  <1> DEFINE Continued(rs, n) ==
               rs[n].cumShares = rs[n].shares + (IF n = 1 THEN 0 ELSE rs[n - 1].cumShares)
  <1> SUFFICES ASSUME NEW o \in Orders PROVE \A n \in DOMAIN rows'[o] : Continued(rows'[o], n)
    BY DEF SharesChain
  <1>1. \A n \in DOMAIN rows[o] : Continued(rows[o], n)
    BY DEF SharesChain
  <1>2. CASE rows'[o] = rows[o]
    BY <1>1, <1>2
  <1>3. ASSUME NEW r \in Readers, Records(r, o), view[r][o].shares > Cursor(o).shares
        PROVE  \A n \in DOMAIN rows'[o] : Continued(rows'[o], n)
    <2> DEFINE v == view[r][o]
               k == Len(rows[o])
               row == NewRow(o, v)
    <2>1. rows'[o] = Append(rows[o], row)
      BY <1>3, RecordedCursor
    <2>2. rows[o] \in Seq(Row) /\ k \in Nat /\ v.shares \in Nat /\ Cursor(o).shares \in Nat
      BY CursorType DEF TypeOK, ReportSet
    <2>3. row.cumShares = v.shares /\ row.shares = v.shares - Cursor(o).shares
      BY DEF NewRow
    <2>4. Cursor(o).shares = IF k = 0 THEN 0 ELSE rows[o][k].cumShares
      BY <2>2 DEF Cursor
    <2> HIDE DEF row, v
    <2>5. /\ DOMAIN rows'[o] = 1..(k + 1) /\ rows'[o][k + 1] = row
          /\ \A n \in 1..k : rows'[o][n] = rows[o][n]
      BY <2>1, <2>2
    <2>6. ASSUME NEW n \in 1..(k + 1) PROVE Continued(rows'[o], n)
      <3>1. CASE n = k + 1
        <4>1. k # 0 => rows'[o][n - 1] = rows[o][k] /\ n # 1
          BY <2>2, <2>5, <3>1
        <4>2. row.cumShares = row.shares + Cursor(o).shares
          BY <2>2, <2>3 DEF v
        <4> QED BY <2>2, <2>4, <2>5, <3>1, <4>1, <4>2
      <3>2. CASE n # k + 1
        <4>1. n \in 1..k /\ (n # 1 => n - 1 \in 1..k)
          BY <2>2, <3>2
        <4>2. Continued(rows[o], n)
          BY <1>1, <2>2, <4>1
        <4> QED BY <2>5, <4>1, <4>2
      <3> QED BY <3>1, <3>2
    <2> QED BY <2>5, <2>6
  <1>4. CASE \E r \in Readers : Records(r, o)
    <2>1. PICK r \in Readers : Records(r, o)
      BY <1>4
    <2>2. CASE view[r][o].shares > Cursor(o).shares
      BY <1>3, <2>1, <2>2
    <2>3. CASE ~(view[r][o].shares > Cursor(o).shares)
      <3>1. view[r][o].shares \in Nat /\ Cursor(o).shares \in Nat
        BY CursorType DEF TypeOK, ReportSet
      <3>2. UNCHANGED <<rows, legacy>>
        BY <2>1, <2>3, <3>1, RecordedCursor
      <3> QED BY <1>2, <3>2
    <2> QED BY <2>2, <2>3
  <1>5. CASE ~\E r \in Readers : Records(r, o)
    BY <1>2, <1>5, OnlyRecordsWrite, RecordedCursor
  <1> QED BY <1>4, <1>5

\* The rows of an order add up to its cursor.
LEMMA RowsAddUp ==
    ASSUME TypeOK, SharesChain, NEW o \in Orders
    PROVE  RowShares(o) = Cursor(o).shares
  <1> DEFINE rs == rows[o]
             k  == Len(rs)
             f  == [n \in DOMAIN rs |-> rs[n].shares]
  <1>1. rs \in Seq(Row) /\ k \in Nat /\ DOMAIN rs = 1..k
    BY DEF TypeOK
  <1>2. \A n \in 1..k : rs[n].shares \in Nat /\ rs[n].cumShares \in Nat
    <2>1. \A n \in 1..k : rs[n] \in Row
      BY <1>1
    <2> QED BY <2>1 DEF Row
  <1>3. f \in [1..k -> Int] /\ \A n \in 1..k : f[n] = rs[n].shares
    BY <1>1, <1>2
  <1>4. \A n \in 1..k :
            rs[n].cumShares = rs[n].shares + (IF n = 1 THEN 0 ELSE rs[n - 1].cumShares)
    BY <1>1 DEF SharesChain
  <1>5. RowShares(o) = SumFunction(f)
    BY DEF RowShares
  <1> HIDE DEF f, rs
  <1>6. PICK sum : Sums(sum, f, k) /\ SumFunction(f) = sum[k]
    BY <1>1, <1>3, SumOfPrefixes
  <1> DEFINE T == {n \in Nat : n <= k => sum[n] = IF n = 0 THEN 0 ELSE rs[n].cumShares}
  <1>7. 0 \in T
    BY <1>6 DEF Sums
  <1>8. ASSUME NEW n \in Nat, n \in T PROVE n + 1 \in T
    <2> SUFFICES ASSUME n + 1 <= k PROVE sum[n + 1] = rs[n + 1].cumShares
      OBVIOUS
    <2>1. n + 1 \in 1..k /\ (n + 1) - 1 = n /\ (n # 0 => n \in 1..k)
      BY <1>1
    <2>2. sum[n] = IF n = 0 THEN 0 ELSE rs[n].cumShares
      BY <1>8, <2>1
    <2>3. sum[n + 1] = sum[n] + f[n + 1]
      BY <1>6, <2>1 DEF Sums
    <2>4. rs[n + 1].cumShares = rs[n + 1].shares + (IF n = 0 THEN 0 ELSE rs[n].cumShares)
      BY <1>4, <2>1
    <2> QED BY <1>2, <1>3, <2>1, <2>2, <2>3, <2>4
  <1> HIDE DEF T
  <1>9. Nat \subseteq T
    BY <1>7, <1>8, Induction
  <1>10. sum[k] = IF k = 0 THEN 0 ELSE rs[k].cumShares
    BY <1>1, <1>9 DEF T
  <1>11. Cursor(o).shares = IF k = 0 THEN 0 ELSE rs[k].cumShares
    BY <1>1 DEF Cursor, rs
  <1> QED BY <1>5, <1>6, <1>10, <1>11

-----------------------------------------------------------------------------
(* The rows without an id.                                                 *)

\* No other order has the key of an order that the version without cursors
\* booked.  An intent with that key is a duplicate (TradeJournal.has_submitted);
\* a stop that is placed on the day of the change could have it.
LegacyKeysApart == \A l \in LegacyOrders, o \in Orders : KeyOf[o] = KeyOf[l] => o = l

\* A legacy order is booked by its row without id or, whole, by one with it.
LegacyBooked ==
    \A l \in LegacyOrders :
        /\ Len(reports[l]) = OrderSize[l]
        /\ KeyOf[l] \in keys
        /\ rows[l] # <<>> => Cursor(l).shares = OrderSize[l]
        /\ \A r \in Readers : view[r][l].shares \in {0, OrderSize[l]}
        /\ l \in legacy <=> rows[l] = <<>>

\* LegacyBooked holds initially, and every step keeps it.
LEMMA LegacyInit == ASSUME Init PROVE LegacyBooked
  <1> USE LedgerAssumption
  <1> SUFFICES ASSUME NEW l \in LegacyOrders
               PROVE  /\ Len(reports[l]) = OrderSize[l] /\ KeyOf[l] \in keys
                      /\ rows[l] = <<>> /\ \A r \in Readers : view[r][l] = Unseen
                      /\ l \in legacy
    BY DEF LegacyBooked, Unseen
  <1>1. \E p \in Prices : reports[l] = [n \in 1..OrderSize[l] |-> n * p]
    BY DEF Init
  <1>2. Len(reports[l]) = OrderSize[l]
    BY <1>1
  <1> QED BY <1>2 DEF Init

\* A submitted key is never forgotten.
LEMMA KeysGrow == ASSUME [Next]_vars PROVE keys \subseteq keys'
  <1>1. CASE BrokerStep \/ UNCHANGED vars
    BY <1>1, BrokerFrame DEF ledger, vars
  <1>2. ASSUME NEW r \in Readers, ReaderStep(r) PROVE keys \subseteq keys'
    BY <1>2 DEF ReaderStep, SyncStep, StartSync, ListClosed, ListOpen, BeginImport, RefuseHistory,
                FinishSync, MarkSubmitted, UpdateOrderStatus, MarkSynced, Lookup, SkipOrder,
                Refuse, RecordOrder, InterruptedRecord, Crash, ledger
  <1> QED BY <1>1, <1>2, StepKinds

\* Executions of a legacy order may change their price and no more.
LEMMA LegacyReports ==
    ASSUME TypeOK, [Next]_vars, NEW l \in LegacyOrders, Len(reports[l]) = OrderSize[l]
    PROVE  Len(reports'[l]) = OrderSize[l]
  <1>0. l \in Orders /\ StatusAt(l) = "filled"
    BY LedgerAssumption DEF StatusAt, Exists
  <1>1. CASE BrokerStep
    <2>1. PICK o \in Orders : \/ \E p \in Prices : Execute(o, p)
                              \/ EndOrder(o) \/ Correct(o)
                              \/ \E new \in Orders : Replace(o, new)
      BY <1>1 DEF BrokerStep
    <2>2. CASE o # l
      <3>1. ASSUME Correct(o) PROVE reports'[l] = reports[l]
        BY <1>0, <2>2, <3>1 DEF Correct, TypeOK
      <3>3. EndOrder(o) => reports'[l] = reports[l]
        BY DEF EndOrder
      <3>4. ASSUME NEW p \in Prices, Execute(o, p) PROVE reports'[l] = reports[l]
        BY <1>0, <2>2, <3>4 DEF Execute, TypeOK
      <3>5. ASSUME NEW new \in Orders, Replace(o, new) PROVE reports'[l] = reports[l]
        BY <3>5 DEF Replace
      <3> QED BY <2>1, <3>1, <3>3, <3>4, <3>5
    <2>3. CASE o = l
      <3>1. Correct(l)
        BY <1>0, <2>1, <2>3 DEF Execute, EndOrder, Replace
      <3> DEFINE rep == reports[l]
                 before == SubSeq(rep, 1, Len(rep) - 1)
                 value == IF before = <<>> THEN 0 ELSE before[Len(before)]
      <3>2. PICK p \in Prices : reports' = [reports EXCEPT ![l] = Append(before, value + p)]
        BY <1>0, <3>1 DEF Correct
      <3>3. rep \in Seq(Nat \ {0}) /\ rep # <<>>
        BY <1>0, <3>1 DEF TypeOK, Correct
      <3> HIDE DEF value
      <3>4. Len(Append(before, value + p)) = Len(rep)
        BY <3>3
      <3>5. reports'[l] = Append(before, value + p)
        BY <1>0, <3>2 DEF TypeOK
      <3> QED BY <3>4, <3>5
    <2> QED BY <2>2, <2>3
  <1>2. CASE UNCHANGED broker
    BY <1>2 DEF broker
  <1>3. ASSUME NEW r \in Readers, ReaderStep(r) PROVE UNCHANGED broker
    BY <1>3, BrokerUntouched
  <1> QED BY <1>1, <1>2, <1>3, StepKinds DEF vars

LEMMA LegacyStep ==
    ASSUME LegacyKeysApart, TypeOK, LegacyBooked, [Next]_vars PROVE LegacyBooked'
  <1> SUFFICES ASSUME NEW l \in LegacyOrders
               PROVE  /\ Len(reports'[l]) = OrderSize[l]
                      /\ KeyOf[l] \in keys'
                      /\ rows'[l] # <<>> => Cursor(l)'.shares = OrderSize[l]
                      /\ \A r \in Readers : view'[r][l].shares \in {0, OrderSize[l]}
                      /\ l \in legacy' <=> rows'[l] = <<>>
    BY DEF LegacyBooked
  <1>0. l \in Orders /\ OrderSize[l] \in Nat \ {0} /\ Len(reports[l]) = OrderSize[l]
    BY LedgerAssumption DEF LegacyBooked
  <1>1. Len(reports'[l]) = OrderSize[l] /\ KeyOf[l] \in keys'
    BY <1>0, LegacyReports, KeysGrow DEF LegacyBooked
  <1>2. ASSUME NEW r \in Readers PROVE view'[r][l].shares \in {0, OrderSize[l]}
    <2>1. CASE view'[r][l] = view[r][l]
      BY <2>1 DEF LegacyBooked
    <2>2. CASE view'[r][l] = Unseen
      BY <2>2 DEF Unseen
    <2>3. CASE view'[r][l] = Report(l)
      BY <1>0, <2>3 DEF Report
    <2> QED BY <1>0, <2>1, <2>2, <2>3, ViewChange
  <1> DEFINE Fine == /\ rows'[l] # <<>> => Cursor(l)'.shares = OrderSize[l]
                     /\ l \in legacy' <=> rows'[l] = <<>>
  <1>3. ASSUME rows'[l] = rows[l], l \in legacy' <=> l \in legacy PROVE Fine
    <2>1. Cursor(l)' = Cursor(l)
      BY <1>3 DEF Cursor
    <2>2. (rows[l] # <<>> => Cursor(l).shares = OrderSize[l]) /\ (l \in legacy <=> rows[l] = <<>>)
      BY DEF LegacyBooked
    <2> QED BY <1>3, <2>1, <2>2
  <1>4. ASSUME NEW r \in Readers, NEW o \in Orders, Records(r, o), o # l PROVE Fine
    <2>1. rows'[l] = rows[l]
      BY <1>0, <1>4, RecordedCursor
    <2>2. l \notin LegacyRows(o)
      BY <1>4 DEF LegacyRows, LegacyKeysApart
    <2>3. l \in legacy' <=> l \in legacy
      BY <1>4, <2>2 DEF Records, RecordOrder, InterruptedRecord, WriteRow
    <2> QED BY <1>3, <2>1, <2>3
  <1>5. ASSUME NEW r \in Readers, Records(r, l) PROVE Fine
    <2> DEFINE v == view[r][l]
    <2>0. v.shares \in {0, OrderSize[l]} /\ Cursor(l).shares \in Nat /\ v.shares \in Nat
      BY <1>0, CursorType DEF LegacyBooked
    <2>1. CASE v.shares > Cursor(l).shares
      <3>1. v.shares = OrderSize[l] /\ v.shares # 0
        BY <2>0, <2>1
      <3>2. rows[l] = <<>> /\ l \in legacy
        BY <1>0, <2>1, <3>1 DEF LegacyBooked
      <3>3. Adopts(l, v) /\ l \in LegacyRows(l)
        BY <3>1, <3>2 DEF Adopts, LegacyRows
      <3>4. legacy' = legacy \ LegacyRows(l)
        BY <1>5, <2>1, <3>3 DEF Records, RecordOrder, InterruptedRecord, WriteRow
      <3>5. rows'[l] = Append(rows[l], NewRow(l, v)) /\ rows[l] \in Seq(Row)
        BY <1>0, <1>5, <2>1, RecordedCursor DEF TypeOK
      <3>6. rows'[l] # <<>>
        BY <3>5
      <3>7. Cursor(l)' = [shares |-> v.shares, value |-> v.value]
        BY <1>0, <1>5, <3>1, RecordedCursor
      <3> QED BY <3>1, <3>3, <3>4, <3>6, <3>7
    <2>2. CASE ~(v.shares > Cursor(l).shares)
      <3>1. UNCHANGED <<rows, legacy>>
        BY <1>0, <1>5, <2>0, <2>2, RecordedCursor
      <3> QED BY <1>3, <3>1
    <2> QED BY <2>1, <2>2
  <1>6. ASSUME \A r \in Readers, o \in Orders : ~Records(r, o) PROVE Fine
    BY <1>3, <1>6, OnlyRecordsWrite
  <1>7. Fine
    BY <1>4, <1>5, <1>6
  <1> QED BY <1>1, <1>2, <1>7

-----------------------------------------------------------------------------
(* Replacements.                                                           *)

\* Every order descends from one that the account knows by itself.
Descends ==
    /\ \A l \in links : Exists(l[1])
    /\ \A S \in SUBSET Orders :
           Orders \ Successors \subseteq S /\ (\A l \in links : l[1] \in S <=> l[2] \in S)
           => \A o \in Orders : Exists(o) => o \in S

\* Every step keeps Descends.
LEMMA DescendsStep == ASSUME TypeOK, Descends, [Next]_vars PROVE Descends'
  <1>1. CASE UNCHANGED links
    BY <1>1 DEF Descends, Exists
  <1>2. ASSUME NEW o \in Orders, NEW new \in Orders, Replace(o, new) PROVE Descends'
    <2>1. links' = links \cup {<<o, new>>} /\ Exists(o)
      BY <1>2 DEF Replace, StatusAt
    <2>2. ASSUME NEW x \in Orders PROVE Exists(x)' => Exists(x) \/ x = new
      BY <2>1 DEF Exists
    <2>3. \A l \in links' : Exists(l[1])'
      <3>1. \A x : Exists(x) => Exists(x)'
        BY <2>1 DEF Exists
      <3> QED BY <2>1, <3>1 DEF Descends
    <2>4. ASSUME NEW S \in SUBSET Orders, Orders \ Successors \subseteq S,
                 \A l \in links' : l[1] \in S <=> l[2] \in S, NEW x \in Orders, Exists(x)'
          PROVE  x \in S
      <3>1. \A y \in Orders : Exists(y) => y \in S
        BY <2>1, <2>4 DEF Descends
      <3>2. o \in S => new \in S
        <4>1. <<o, new>> \in links' /\ <<o, new>>[1] = o /\ <<o, new>>[2] = new
          BY <2>1
        <4> QED BY <2>4, <4>1
      <3> QED BY <2>1, <2>2, <2>4, <3>1, <3>2
    <2> QED BY <2>3, <2>4 DEF Descends
  <1>3. UNCHANGED links \/ \E o, new \in Orders : Replace(o, new)
    BY StepKinds, BrokerUntouched DEF BrokerStep, Execute, EndOrder, Correct, broker, vars
  <1> QED BY <1>1, <1>2, <1>3

\* A process that has seen every order owns every order.
LEMMA OwnsAll ==
    ASSUME TypeOK, Unborn, Descends, NEW r \in Readers, \A o \in Orders : view[r][o] = Report(o)
    PROVE  \A o \in Orders : view[r][o] # Unseen => o \in Owned(r)
  <1>1. \A o \in Orders : o \in Seen(r) <=> Exists(o)
    BY ReportOfOrder DEF Seen
  <1>2. \A l \in links : l[1] \in Seen(r) /\ l[2] \in Seen(r)
    <2>1. ASSUME NEW l \in links PROVE Exists(l[1]) /\ Exists(l[2]) /\ l[1] \in Orders /\ l[2] \in Orders
      BY DEF Descends, Exists, TypeOK
    <2> QED BY <1>1, <2>1
  <1>3. Links(r) = links
    BY <1>2 DEF Links
  <1>4. Orders \ Successors \subseteq Named(r)
    BY <1>1, LedgerAssumption DEF Named, Exists, TypeOK
  <1> SUFFICES ASSUME NEW o \in Orders, o \in Seen(r), NEW S \in SUBSET Seen(r),
                      Named(r) \subseteq S, \A l \in Links(r) : l[1] \in S <=> l[2] \in S
               PROVE  o \in S
    BY DEF Owned, Seen
  <1>5. S \in SUBSET Orders
    BY DEF Seen
  <1> QED BY <1>1, <1>3, <1>4, <1>5 DEF Descends

-----------------------------------------------------------------------------
(* The stops that were booked before there were cursors.                   *)

\* A stop is done only when it has rows.
SyncedHaveRows == \A o \in synced \ LegacyOrders : rows[o] # <<>>

\* The rows that a single process meets it had seen when it began, apart from
\* those of the order it is recording.
ModernAreKnown ==
    \A r \in Readers :
        phase[r] = "import" \/ Recording(r)
        => \A o \in Orders \ current[r] : view[r][o] # Unseen /\ rows[o] # <<>> => o \in modern[r]

\* Every step keeps SyncedHaveRows.
LEMMA SyncedRowsStep ==
    ASSUME TypeOK, ViewsAreOfOrders, OneAtATime, SyncedHaveRows, [Next]_vars
    PROVE  SyncedHaveRows'
  <1> SUFFICES ASSUME NEW o \in synced' \ LegacyOrders PROVE rows[o] # <<>> /\ o \in Orders
    BY CursorsGrow DEF SyncedHaveRows
  <1>1. CASE synced' = synced
    BY <1>1 DEF SyncedHaveRows, TypeOK
  <1>2. ASSUME NEW r \in Readers, MarkSynced(r) PROVE rows[o] # <<>> /\ o \in Orders
    <2>1. phase[r] = "synced" /\ synced' = synced \cup current[r]
      BY <1>2 DEF MarkSynced
    <2>2. CASE o \in current[r]
      <3>1. Recorded(r, o) /\ view[r][o].status = "filled" /\ o \in Orders
        BY <2>1, <2>2 DEF OneAtATime, Recording, Recorded
      <3>2. OrderSize[o] <= Cursor(o).shares /\ OrderSize[o] \in Nat \ {0}
        BY <3>1, LedgerAssumption DEF Recorded, ViewsAreOfOrders
      <3> QED BY <3>1, <3>2 DEF Cursor
    <2> QED BY <2>1, <2>2 DEF SyncedHaveRows, TypeOK
  <1>3. CASE BrokerStep \/ UNCHANGED vars
    BY <1>1, <1>3, BrokerFrame DEF ledger, vars
  <1>4. ASSUME NEW r \in Readers, ReaderStep(r), ~MarkSynced(r) PROVE synced' = synced
    BY <1>4 DEF ReaderStep, SyncStep, StartSync, ListClosed, ListOpen, BeginImport, RefuseHistory,
                FinishSync, MarkSubmitted, UpdateOrderStatus, Lookup, SkipOrder, Refuse,
                RecordOrder, InterruptedRecord, Crash, ledger
  <1> QED BY <1>1, <1>2, <1>3, <1>4, StepKinds

\* The steps of a single process keep ModernAreKnown.
LEMMA ModernStep ==
    ASSUME OneProcess, TypeOK, OneAtATime, ModernAreKnown, [Next]_vars
    PROVE  ModernAreKnown'
  <1> DEFINE Fine(p, c, v, w, m) ==
               p = "import" \/ p \in {"mark", "status", "synced"}
               => \A o \in Orders \ c : v[o] # Unseen /\ w[o] # <<>> => o \in m
  <1> SUFFICES ASSUME NEW r \in Readers
               PROVE  Fine(phase'[r], current'[r], view'[r], rows', modern'[r])
    BY DEF ModernAreKnown, Recording
  <1>1. Fine(phase[r], current[r], view[r], rows, modern[r])
    BY DEF ModernAreKnown, Recording
  <1>2. CASE UNCHANGED <<phase, current, view, rows, modern>>
    BY <1>1, <1>2
  <1>3. CASE BrokerStep \/ UNCHANGED vars
    BY <1>2, <1>3, BrokerFrame DEF ledger, reading, vars
  <1>4. ASSUME NEW next, next \in {"idle", "done"}, Leave(r, next)
        PROVE  phase'[r] \in {"idle", "done"}
    BY <1>4 DEF Leave, TypeOK
  <1>5. ASSUME Advance(r), UNCHANGED <<rows, modern>>, Recording(r)
        PROVE  Fine(phase'[r], current'[r], view'[r], rows', modern'[r])
    BY <1>1, <1>5 DEF Advance, TypeOK, Recording
  <1>6. CASE SyncStep(r)
    <2>1. CASE StartSync(r) \/ ListClosed(r) \/ ListOpen(r)
      BY <2>1 DEF StartSync, ListClosed, ListOpen, TypeOK
    <2>2. CASE BeginImport(r)
      <3>1. modern'[r] = {o \in Orders : rows[o] # <<>>} /\ rows' = rows
        BY <2>2 DEF BeginImport, TypeOK, ledger
      <3> QED BY <3>1
    <2>3. CASE RefuseHistory(r) \/ FinishSync(r)
      BY <1>4, <2>3 DEF RefuseHistory, FinishSync
    <2>4. CASE MarkSubmitted(r)
      BY <1>1, <2>4 DEF MarkSubmitted, TypeOK
    <2>5. CASE UpdateOrderStatus(r)
      BY <1>1, <1>5, <2>5 DEF UpdateOrderStatus, TypeOK, Recording
    <2>6. CASE MarkSynced(r)
      BY <1>5, <2>6 DEF MarkSynced, Recording
    <2>7. ASSUME NEW o \in Orders, Lookup(r, o)
          PROVE  Fine(phase'[r], current'[r], view'[r], rows', modern'[r])
      BY <2>7 DEF Lookup
    <2>8. ASSUME NEW o \in Orders, SkipOrder(r, o)
          PROVE  Fine(phase'[r], current'[r], view'[r], rows', modern'[r])
      BY <1>1, <2>8 DEF SkipOrder, Collected, Drop, TypeOK, ledger
    <2>9. ASSUME NEW o \in Orders, Refuse(r, o)
          PROVE  Fine(phase'[r], current'[r], view'[r], rows', modern'[r])
      BY <1>4, <2>9 DEF Refuse
    <2>10. ASSUME NEW o \in Orders, RecordOrder(r, o)
          PROVE  Fine(phase'[r], current'[r], view'[r], rows', modern'[r])
      <3>1. \A q \in Orders \ {o} : rows'[q] = rows[q]
        BY <2>10, RecordedCursor DEF Records
      <3>2. phase[r] = "import" /\ current[r] = {} /\ current'[r] = {o} /\ view' = view
            /\ modern' = modern
        BY <2>10 DEF RecordOrder, Recordable, Collected, TypeOK, OneAtATime, Recording
      <3> QED BY <1>1, <3>1, <3>2
    <2> QED BY <1>6, <2>1, <2>2, <2>3, <2>4, <2>5, <2>6, <2>7, <2>8, <2>9, <2>10 DEF SyncStep
  <1>7. CASE Crash(r)
    BY <1>4, <1>7 DEF Crash
  <1>8. ASSUME NEW o \in Orders, InterruptedRecord(r, o)
        PROVE  Fine(phase'[r], current'[r], view'[r], rows', modern'[r])
    BY <1>4, <1>8 DEF InterruptedRecord
  <1> QED BY <1>3, <1>6, <1>7, <1>8, StepKinds DEF ReaderStep, OneProcess

-----------------------------------------------------------------------------
(* An undisturbed synchronization.                                         *)

\* The ledger has what the broker reports of the order now, if that is anything.
Current(o) ==
    reports[o] # <<>> => Cursor(o) = [shares |-> Report(o).shares, value |-> Report(o).value]

\* What a process has in hand of an order is current, or nothing is left to book.
Known(r, o) ==
    \/ view[r][o] = Report(o)
    \/ view[r][o] = Unseen /\ (o \in LegacyOrders \/ Current(o))

InSync(r) ==
    /\ phase[r] = "closed" => \A o \in Orders : view[r][o] = Unseen
    /\ phase[r] = "open" => \A o \in Orders : view[r][o] = IF Closed(o) THEN Report(o) ELSE Unseen
    /\ phase[r] = "lookup" => \A o \in Orders : view[r][o] = Report(o)
    /\ phase[r] \in {"import", "mark", "status", "synced", "done"} => \A o \in Orders : Known(r, o)
    /\ phase[r] = "done" => \A o \in Orders : view[r][o] = Unseen
    /\ Recording(r) => \A o \in current[r] : Current(o)

SyncsAreCurrent == \A r \in Readers : undisturbed[r] => InSync(r)

\* The hypotheses under which a stop that is skipped is current.
SyncInv ==
    /\ TypeOK /\ SharesChain /\ Unborn /\ ViewsAreOfOrders /\ OneAtATime /\ Descends
    /\ SyncedHaveRows /\ SyncsAreCurrent
    /\ OneProcess => ModernAreKnown
    /\ NoCorrection => TerminalInv

\* A report without executions is one of an order that has none.
LEMMA NothingSeen ==
    ASSUME TypeOK, NEW o \in Orders, Report(o).shares = 0
    PROVE  reports[o] = <<>>
  BY DEF TypeOK, Report

\* The step of another process leaves a current order current.
LEMMA OthersKeepCurrent ==
    ASSUME NoCorrection, TypeOK, ViewsAreReports, [Next]_vars, UNCHANGED broker,
           NEW o \in Orders, Current(o)
    PROVE  Current(o)'
  <1>1. CASE reports[o] = <<>>
    BY <1>1 DEF Current, broker
  <1>2. CASE reports[o] # <<>>
    <2>1. Cursor(o) = [shares |-> Report(o).shares, value |-> Report(o).value]
          /\ Report(o).shares = Len(reports[o]) /\ Report(o)' = Report(o)
      BY <1>2 DEF Current, Report, StatusAt, Exists, broker
    <2>2. ASSUME NEW r \in Readers, Records(r, o) PROVE rows' = rows
      <3>1. view[r][o].shares <= Len(reports[o])
        BY DEF ViewsAreReports, IsReport
      <3> QED BY <2>1, <2>2, <3>1, RecordedCursor
    <2>3. rows'[o] = rows[o]
      BY <2>2, OnlyRecordsWrite, RecordedCursor
    <2>4. Cursor(o)' = Cursor(o)
      BY <2>3 DEF Cursor
    <2> QED BY <2>1, <2>4 DEF Current
  <1> QED BY <1>1, <1>2

\* Recording a current report makes the order current, and no other order less so.
LEMMA RecordingKeepsCurrent ==
    ASSUME TypeOK, NEW r \in Readers, NEW x \in Orders, RecordOrder(r, x), Known(r, x),
           NEW o \in Orders, Current(o) \/ o = x
    PROVE  Current(o)'
  <1>1. UNCHANGED broker /\ \A q \in Orders \ {x} : rows'[q] = rows[q]
    BY RecordedCursor DEF Records
  <1>2. Report(o)' = Report(o) /\ reports'[o] = reports[o]
    BY <1>1 DEF Report, StatusAt, Exists, broker
  <1>3. CASE o # x
    <2>1. Cursor(o)' = Cursor(o)
      BY <1>1, <1>3 DEF Cursor
    <2> QED BY <1>2, <1>3, <2>1 DEF Current
  <1>4. CASE o = x
    <2>1. view[r][o] = Report(o)
      BY <1>4 DEF Known, RecordOrder, Recordable, Collected
    <2>2. Report(o).shares # 0 => Cursor(o)' = [shares |-> Report(o).shares, value |-> Report(o).value]
      BY <1>4, <2>1, RecordedCursor DEF Records
    <2> QED BY <1>2, <2>2, NothingSeen DEF Current
  <1> QED BY <1>3, <1>4

\* A stop that is skipped was booked before there were cursors, or is current.
LEMMA SkippedIsCurrent ==
    ASSUME NoCorrection \/ OneProcess, SyncInv, NEW r \in Readers, NEW o \in Orders, SkipOrder(r, o)
    PROVE  o \in LegacyOrders \/ Current(o)
  <1> SUFFICES ASSUME o \notin LegacyOrders PROVE Current(o)
    OBVIOUS
  <1>1. phase[r] = "import" /\ view[r][o] # Unseen /\ o \in synced \ LegacyOrders /\ o \notin modern[r]
    BY DEF SkipOrder, Collected, BookedBefore
  <1>2. CASE OneProcess
    <2>1. rows[o] # <<>> /\ current[r] = {}
      BY <1>1 DEF SyncInv, SyncedHaveRows, OneAtATime, Recording
    <2>2. ModernAreKnown
      BY <1>2 DEF SyncInv
    <2> QED BY <1>1, <2>1, <2>2 DEF ModernAreKnown
  <1>3. CASE NoCorrection
    <2>1. TerminalInv
      BY <1>3 DEF SyncInv
    <2>2. Cursor(o).shares = Len(reports[o]) /\ IsReport(o, Cursor(o).shares, Cursor(o).value)
      BY <1>1, <2>1 DEF TerminalInv, LedgerInv, SettledInv, Settled, BookedAsReported
    <2>3. Cursor(o) \in [shares : Nat, value : Nat] /\ reports[o] \in Seq(Nat \ {0})
      BY CursorType DEF SyncInv, TypeOK
    <2>4. reports[o] # <<>> => Cursor(o).shares = Report(o).shares /\ Cursor(o).value = Report(o).value
      BY <2>2, <2>3 DEF IsReport, Report
    <2> QED BY <2>3, <2>4 DEF Current
  <1> QED BY <1>2, <1>3

\* The steps of a process whose synchronization goes on undisturbed.
LEMMA OwnStepInSync ==
    ASSUME NoLag, NoCorrection \/ OneProcess, SyncInv, NEW r \in Readers, InSync(r) \/ StartSync(r),
           SyncStep(r), undisturbed'[r]
    PROVE  InSync(r)'
  <1> USE DEF TypeOK
  <1>0. TypeOK /\ Unborn
    BY DEF SyncInv
  <1>1. UNCHANGED broker
    BY BrokerUntouched DEF ReaderStep
  <1>2. \A o \in Orders : Report(o)' = Report(o) /\ reports'[o] = reports[o] /\ (Closed(o)' <=> Closed(o))
    BY <1>1 DEF Report, Closed, StatusAt, Exists, broker
  <1>3. ASSUME NEW o \in Orders, Current(o), rows'[o] = rows[o] PROVE Current(o)'
    <2>1. Cursor(o)' = Cursor(o)
      BY <1>3 DEF Cursor
    <2> QED BY <1>2, <1>3, <2>1 DEF Current
  <1>4. ASSUME NEW o \in Orders, rows'[o] = rows[o], Known(r, o), view'[r][o] = view[r][o]
        PROVE  Known(r, o)'
    BY <1>2, <1>3, <1>4 DEF Known
  <1>5. ASSUME Advance(r), rows' = rows, Recording(r), InSync(r) PROVE InSync(r)'
    <2>1. phase'[r] = "import" /\ current'[r] = {}
          /\ \A o \in Orders : view'[r][o] = IF o \in current[r] THEN Unseen ELSE view[r][o]
      BY <1>0, <1>5 DEF Advance
    <2>2. \A o \in Orders : Known(r, o)
      BY <1>5 DEF InSync, Recording
    <2>3. \A o \in current[r] : Current(o) /\ o \in Orders
      BY <1>0, <1>5 DEF InSync
    <2>4. ASSUME NEW o \in Orders PROVE Known(r, o)'
      <3>1. CASE o \in current[r]
        BY <1>3, <1>5, <2>1, <2>3, <3>1 DEF Known
      <3>2. CASE o \notin current[r]
        BY <1>4, <1>5, <2>1, <2>2, <3>2
      <3> QED BY <3>1, <3>2
    <2> QED BY <2>1, <2>4 DEF InSync, Recording
  <1>6. ASSUME NEW next \in {"idle", "done"}, Leave(r, next), rows' = rows, phase[r] = "import",
               \A o \in Orders : view[r][o] = Unseen, InSync(r)
        PROVE  InSync(r)'
    <2>1. phase'[r] = next /\ current'[r] = {} /\ \A o \in Orders : view'[r][o] = Unseen
      BY <1>0, <1>6 DEF Leave
    <2>2. \A o \in Orders : Known(r, o)'
      BY <1>4, <1>6, <2>1 DEF InSync
    <2> QED BY <2>1, <2>2 DEF InSync, Recording
  <1>7. CASE StartSync(r)
    <2>1. phase'[r] = "closed" /\ \A o \in Orders : view'[r][o] = Unseen
      BY <1>0, <1>7 DEF StartSync
    <2> QED BY <2>1 DEF InSync, Recording
  <1>8. CASE ListClosed(r)
    <2>1. phase[r] = "closed" /\ phase'[r] = "open" /\ See(r, {o \in Orders : Closed(o)})
      BY <1>0, <1>8 DEF ListClosed, NoLag, Closed
    <2>2. \A o \in Orders : view'[r][o] = IF Closed(o) THEN Report(o) ELSE view[r][o]
      BY <1>0, <2>1 DEF See
    <2>3. \A o \in Orders : view[r][o] = Unseen
      BY <1>8, <2>1 DEF InSync, StartSync
    <2> QED BY <1>2, <2>1, <2>2, <2>3 DEF InSync, Recording
  <1>9. CASE ListOpen(r)
    <2>1. phase[r] = "open" /\ phase'[r] = "lookup" /\ See(r, {o \in Orders : StatusAt(o) = "open"})
      BY <1>0, <1>9 DEF ListOpen
    <2>2. \A o \in Orders : view'[r][o] = IF StatusAt(o) = "open" THEN Report(o) ELSE view[r][o]
      BY <1>0, <2>1 DEF See
    <2>3. \A o \in Orders : view[r][o] = IF Closed(o) THEN Report(o) ELSE Unseen
      BY <1>9, <2>1 DEF InSync, StartSync
    <2>4. \A o \in Orders : StatusAt(o) = "open" \/ Closed(o) \/ Report(o) = Unseen
      BY <1>0, ReportOfOrder DEF Closed, StatusAt
    <2> QED BY <1>2, <2>1, <2>2, <2>3, <2>4 DEF InSync, Recording
  <1>10. ASSUME NEW x \in Orders, Lookup(r, x) PROVE InSync(r)'
    <2>1. phase[r] = "lookup" /\ phase'[r] = "lookup" /\ See(r, {x})
      BY <1>0, <1>10 DEF Lookup
    <2>2. \A o \in Orders : view'[r][o] = IF o = x THEN Report(o) ELSE view[r][o]
      BY <1>0, <2>1 DEF See
    <2>3. \A o \in Orders : view[r][o] = Report(o)
      BY <2>1 DEF InSync, StartSync
    <2> QED BY <1>2, <2>1, <2>2, <2>3 DEF InSync, Recording
  <1>11. CASE BeginImport(r)
    <2>1. phase[r] = "lookup" /\ phase'[r] = "import"
          /\ \A o \in Orders : view'[r][o] = IF o \in Owned(r) THEN view[r][o] ELSE Unseen
      BY <1>0, <1>11 DEF BeginImport
    <2>2. \A o \in Orders : view[r][o] = Report(o)
      BY <2>1 DEF InSync, StartSync
    <2>3. \A o \in Orders : view'[r][o] = Report(o)
      BY <1>0, <2>1, <2>2, OwnsAll DEF SyncInv
    <2> QED BY <1>2, <2>1, <2>3 DEF InSync, Recording, Known
  <1>12. CASE FinishSync(r)
    BY <1>6, <1>12 DEF FinishSync, ledger, StartSync
  <1>13. CASE RefuseHistory(r)
    BY <1>0, <1>13 DEF RefuseHistory, Leave
  <1>14. CASE MarkSubmitted(r)
    <2>1. phase[r] = "mark" /\ phase'[r] = "status" /\ current' = current /\ view' = view /\ rows' = rows
      BY <1>0, <1>14 DEF MarkSubmitted
    <2>2. InSync(r)
      BY <2>1 DEF StartSync
    <2>3. \A o \in Orders : Known(r, o)'
      BY <1>4, <2>1, <2>2 DEF InSync
    <2>4. \A o \in current'[r] : Current(o)'
      BY <1>0, <1>3, <2>1, <2>2 DEF InSync, Recording
    <2> QED BY <2>1, <2>3, <2>4 DEF InSync, Recording
  <1>15. CASE UpdateOrderStatus(r)
    <2>1. phase[r] = "status" /\ rows' = rows /\ InSync(r)
      BY <1>15 DEF UpdateOrderStatus, StartSync
    <2>2. CASE Advance(r)
      BY <1>5, <2>1, <2>2 DEF Recording
    <2>3. CASE ~Advance(r)
      <3>1. phase'[r] = "synced" /\ current' = current /\ view' = view
        BY <1>0, <1>15, <2>3 DEF UpdateOrderStatus
      <3>2. \A o \in Orders : Known(r, o)'
        BY <1>4, <2>1, <3>1 DEF InSync
      <3>3. \A o \in current'[r] : Current(o)'
        BY <1>0, <1>3, <2>1, <3>1 DEF InSync, Recording
      <3> QED BY <3>1, <3>2, <3>3 DEF InSync, Recording
    <2> QED BY <2>2, <2>3
  <1>16. CASE MarkSynced(r)
    BY <1>5, <1>16 DEF MarkSynced, Recording, StartSync
  <1>17. ASSUME NEW x \in Orders, SkipOrder(r, x) PROVE InSync(r)'
    <2>1. phase[r] = "import" /\ phase' = phase /\ current' = current /\ rows' = rows
          /\ \A o \in Orders : view'[r][o] = IF o = x THEN Unseen ELSE view[r][o]
      BY <1>0, <1>17 DEF SkipOrder, Collected, Drop, ledger
    <2>2. InSync(r)
      BY <2>1 DEF StartSync
    <2>3. x \in LegacyOrders \/ Current(x)
      BY <1>17, SkippedIsCurrent
    <2>4. ASSUME NEW o \in Orders PROVE Known(r, o)'
      <3>1. CASE o = x
        BY <1>3, <2>1, <2>3, <3>1 DEF Known
      <3>2. CASE o # x
        BY <1>4, <2>1, <2>2, <3>2 DEF InSync
      <3> QED BY <3>1, <3>2
    <2> QED BY <2>1, <2>4 DEF InSync, Recording
  <1>18. ASSUME NEW x \in Orders, Refuse(r, x) PROVE InSync(r)'
    BY <1>0, <1>18 DEF Refuse, Leave
  <1>19. ASSUME NEW x \in Orders, RecordOrder(r, x) PROVE InSync(r)'
    <2>1. phase[r] = "import" /\ phase'[r] = "mark" /\ current'[r] = {x} /\ view' = view
      BY <1>0, <1>19 DEF RecordOrder, Recordable, Collected
    <2>2. InSync(r)
      BY <2>1 DEF StartSync
    <2>3. \A o \in Orders : Known(r, o)
      BY <2>1, <2>2 DEF InSync
    <2>4. \A o \in Orders : Current(o) \/ o = x => Current(o)'
      BY <1>0, <1>19, <2>3, RecordingKeepsCurrent
    <2>5. \A o \in Orders : Known(r, o)'
      BY <1>2, <2>1, <2>3, <2>4 DEF Known
    <2> QED BY <2>1, <2>4, <2>5 DEF InSync, Recording
  <1> QED BY <1>7, <1>8, <1>9, <1>10, <1>11, <1>12, <1>13, <1>14, <1>15, <1>16, <1>17, <1>18, <1>19
          DEF SyncStep

\* Every step keeps the undisturbed synchronizations current.
LEMMA SyncsStep ==
    ASSUME NoLag, NoCorrection \/ OneProcess, SyncInv, [Next]_vars
    PROVE  SyncsAreCurrent'
  <1> SUFFICES ASSUME NEW q \in Readers, undisturbed'[q] PROVE InSync(q)'
    BY DEF SyncsAreCurrent
  <1>0. TypeOK /\ (undisturbed[q] => InSync(q))
    BY DEF SyncInv, SyncsAreCurrent
  <1>1. ASSUME UNCHANGED <<broker, Local(q), undisturbed[q]>>,
               \A o \in Orders : Current(o) => Current(o)'
        PROVE  InSync(q)'
    <2>1. \A o \in Orders : Report(o)' = Report(o) /\ (Closed(o)' <=> Closed(o))
      BY <1>1 DEF Report, Closed, StatusAt, Exists, broker
    <2>2. phase'[q] = phase[q] /\ current'[q] = current[q] /\ view'[q] = view[q] /\ InSync(q)
      BY <1>0, <1>1 DEF Local
    <2>3. \A o \in Orders : Known(q, o) => Known(q, o)'
      BY <1>1, <2>1, <2>2 DEF Known
    <2>4. current[q] \subseteq Orders
      BY <1>0 DEF TypeOK
    <2> QED BY <1>1, <2>1, <2>2, <2>3, <2>4 DEF InSync, Recording
  <1>2. CASE UNCHANGED vars
    <2>1. \A o \in Orders : Current(o) => Current(o)'
      BY <1>2 DEF vars, broker, ledger, Current, Cursor, Report, StatusAt, Exists
    <2> QED BY <1>1, <1>2, <2>1 DEF vars, reading, Local
  <1>3. CASE BrokerStep
    BY <1>3, BrokerFrame
  <1>4. CASE SyncStep(q)
    <2>1. undisturbed[q] \/ StartSync(q)
      BY <1>0, <1>4 DEF TypeOK, SyncStep, ListClosed, ListOpen, BeginImport, RefuseHistory,
         FinishSync, MarkSubmitted, UpdateOrderStatus, MarkSynced, Lookup, SkipOrder, Refuse,
         RecordOrder, Leave
    <2> QED BY <1>0, <1>4, <2>1, OwnStepInSync
  <1>5. CASE Crash(q)
    BY <1>0, <1>5 DEF Crash, Leave, TypeOK
  <1>6. ASSUME NEW o \in Orders, InterruptedRecord(q, o) PROVE InSync(q)'
    BY <1>0, <1>6 DEF InterruptedRecord, Leave, TypeOK
  <1>7. ASSUME NEW r \in Readers, r # q, ReaderStep(r) PROVE InSync(q)'
    <2>1. NoCorrection
      BY <1>7 DEF OneProcess
    <2>2. UNCHANGED <<broker, Local(q), undisturbed[q]>>
      BY <1>0, <1>7, ReaderFrame
    <2>3. ViewsAreReports
      BY <2>1 DEF SyncInv, TerminalInv, LedgerInv
    <2>4. \A o \in Orders : Current(o) => Current(o)'
      BY <1>0, <2>1, <2>2, <2>3, OthersKeepCurrent
    <2> QED BY <1>1, <2>2, <2>4
  <1> QED BY <1>2, <1>3, <1>4, <1>5, <1>6, <1>7, StepKinds DEF ReaderStep

LEMMA SyncInvariant ==
    ASSUME NoLag, NoCorrection \/ OneProcess
    PROVE  Spec => []SyncInv
  <1>1. ASSUME Init PROVE SyncInv
    <2>1. TypeOK /\ Unborn /\ ViewsAreOfOrders /\ OneAtATime
      BY <1>1, TypeInit, SyncInit
    <2>2. SharesChain /\ SyncsAreCurrent /\ ModernAreKnown
      BY <1>1 DEF Init, SharesChain, SyncsAreCurrent, ModernAreKnown, Recording
    <2>3. SyncedHaveRows
      BY <1>1 DEF Init, SyncedHaveRows
    <2>4. Descends
      BY <1>1 DEF Init, Descends, Exists
    <2>5. TerminalInv
      BY <1>1, TerminalInit
    <2> QED BY <2>1, <2>2, <2>3, <2>4, <2>5 DEF SyncInv
  <1>2. ASSUME SyncInv, [Next]_vars PROVE SyncInv'
    <2>1. TypeOK' /\ SharesChain' /\ Unborn' /\ ViewsAreOfOrders' /\ OneAtATime' /\ Descends'
      BY <1>2, TypeStep, SharesChainStep, UnbornStep, ViewsOfOrdersStep, OneAtATimeStep,
         DescendsStep DEF SyncInv
    <2>2. SyncedHaveRows'
      BY <1>2, SyncedRowsStep DEF SyncInv
    <2>3. SyncsAreCurrent'
      BY <1>2, SyncsStep
    <2>4. OneProcess => ModernAreKnown'
      BY <1>2, ModernStep DEF SyncInv
    <2>5. NoCorrection => TerminalInv'
      BY <1>2, TerminalStep DEF SyncInv
    <2> QED BY <2>1, <2>2, <2>3, <2>4, <2>5 DEF SyncInv
  <1> QED BY <1>1, <1>2, PTL DEF Spec

-----------------------------------------------------------------------------
\* No correction by the broker goes unnoticed when one process synchronizes: a
\* synchronization that nothing disturbs and no error ends has brought every
\* cursor to the broker's report (sync_broker_orders, record_broker_order).
\* The listing of closed orders must not lag behind the orders.
THEOREM CorrectionsAreNoticed ==
    ASSUME NoLag, NoCorrection \/ OneProcess
    PROVE  Spec => []CorrectionsNoticed
  <1>1. ASSUME SyncInv PROVE CorrectionsNoticed
    <2> SUFFICES ASSUME NEW r \in Readers, phase[r] = "done", undisturbed[r],
                        NEW o \in Orders \ LegacyOrders, reports[o] # <<>>
                 PROVE  Cursor(o) = [shares |-> Report(o).shares, value |-> Report(o).value]
      BY DEF CorrectionsNoticed
    <2>1. view[r][o] = Unseen /\ Known(r, o) /\ TypeOK
      BY <1>1 DEF SyncInv, SyncsAreCurrent, InSync
    <2>2. Report(o) # Unseen
      BY <2>1, NothingSeen DEF Unseen
    <2> QED BY <2>1, <2>2 DEF Known, Current
  <1> QED BY <1>1, SyncInvariant, PTL

\* The shares the ledger counts of an order after such a synchronization.
LEMMA CountedAsExecuted ==
    ASSUME SyncInv, LegacyBooked, CorrectionsNoticed, ~WhollyBusted,
           NEW r \in Readers, phase[r] = "done", undisturbed[r], NEW o \in Orders
    PROVE  CountedShares(o) = Len(reports[o])
  <1>1. TypeOK /\ RowShares(o) = Cursor(o).shares /\ Cursor(o).shares \in Nat
    BY RowsAddUp, CursorType DEF SyncInv
  <1>2. CASE o \in LegacyOrders
    <2>1. /\ Len(reports[o]) = OrderSize[o] /\ KeyOf[o] \in keys
          /\ o \in legacy <=> rows[o] = <<>>
          /\ rows[o] # <<>> => Cursor(o).shares = OrderSize[o]
      BY <1>2 DEF LegacyBooked
    <2>2. OrderSize[o] \in Nat /\ (rows[o] = <<>> => Cursor(o).shares = 0)
      BY LedgerAssumption DEF Cursor
    <2> QED BY <1>1, <2>1, <2>2 DEF CountedShares
  <1>3. CASE o \notin LegacyOrders
    <2>1. CountedShares(o) = Cursor(o).shares
      BY <1>1, <1>3 DEF CountedShares, TypeOK
    <2>2. CASE reports[o] = <<>>
      BY <2>1, <2>2 DEF WhollyBusted, Cursor
    <2>3. CASE reports[o] # <<>>
      BY <1>3, <2>1, <2>3 DEF CorrectionsNoticed, Report
    <2> QED BY <2>2, <2>3
  <1> QED BY <1>2, <1>3

\* After a synchronization that nothing disturbs and no error ends, the positions
\* computed from the rows are the broker's holdings, although other processes
\* have synchronized or died between two files (expected_positions_decimal_from_fills).
THEOREM PositionsAreSynced ==
    ASSUME NoLag, NoCorrection \/ OneProcess, LegacyKeysApart
    PROVE  Spec => []SyncedPositions
  <1>1. Spec => []LegacyBooked
    <2>1. Init => LegacyBooked
      BY LegacyInit
    <2>2. TypeOK /\ LegacyBooked /\ [Next]_vars => LegacyBooked'
      BY LegacyStep
    <2> QED BY <2>1, <2>2, LedgerTypeCorrect, PTL DEF Spec
  <1>2. ASSUME SyncInv, LegacyBooked, CorrectionsNoticed PROVE SyncedPositions
    <2> SUFFICES ASSUME NEW r \in Readers, phase[r] = "done", undisturbed[r], ~WhollyBusted,
                        NEW s
                 PROVE  ExpectedPosition(s) = Holdings(s)
      BY DEF SyncedPositions, Reconciled
    <2>1. \A o \in Orders : CountedShares(o) = Len(reports[o])
      BY <1>2, CountedAsExecuted
    <2>2. [o \in OrdersOf(s) |-> Sign(o) * CountedShares(o)]
              = [o \in OrdersOf(s) |-> Sign(o) * Len(reports[o])]
      BY <2>1 DEF OrdersOf
    <2> QED BY <2>2 DEF ExpectedPosition, Holdings
  <1> QED BY <1>1, <1>2, SyncInvariant, CorrectionsAreNoticed, PTL
=============================================================================
