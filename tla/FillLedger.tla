----------------------------- MODULE FillLedger -----------------------------
(***************************************************************************)
(* How executions become rows of fills.csv: reconcile.sync_broker_orders,  *)
(* TradeJournal.record_broker_order and the expected positions computed    *)
(* from the rows.  The worker synchronizes under the execution lock, but   *)
(* the desktop application and the manager do so without it                *)
(* (PaperApplication.refresh_broker): several synchronizations, each with  *)
(* its own and possibly stale lists of orders, meet at one ledger.         *)
(*                                                                         *)
(* One action is one request to the broker or one locked method.  The      *)
(* broker reports an order as [shares, value, status], cumulative.         *)
(***************************************************************************)
EXTENDS Integers, Sequences, FiniteSets, Functions

CONSTANTS
    Orders,        \* the orders of the account
    Protective,    \* those that are protective stops: they have no intent
    LegacyOrders,  \* those booked, filled, by the version without cursors
    Successors,    \* stops that replace stops: the broker chooses their client ids
    OrderSize,     \* the shares each order asks for
    KeyOf,         \* the key <<symbol, side, date>> of each order
    Prices,        \* the prices at which shares execute
    Readers,       \* the processes that synchronize
    Faults         \* "crash", "list_lag", "correction"

ASSUME LedgerAssumption ==
    /\ Protective \subseteq Orders
    /\ LegacyOrders \subseteq Orders
    /\ Successors \subseteq Protective \ LegacyOrders
    /\ OrderSize \in [Orders -> Nat \ {0}]
    /\ Prices \subseteq Nat \ {0}
    /\ Prices # {}

Keys == {KeyOf[o] : o \in Orders}

VARIABLES
    reports,     \* broker: value of each order after 1, 2, ... shares
    ended,       \* broker: orders that execute no further
    links,       \* broker: pairs of a stop and the one that replaced it
    rows,        \* fills.csv: the rows that carry the id of an order
    legacy,      \* fills.csv: rows without id, named by the order they record
    keys,        \* submitted_order_keys
    status,      \* order_intents: "none", "live" or "terminal"
    synced,      \* synced_order_ids
    phase,       \* where each synchronization is
    current,     \* the order it is importing, as a set of at most one
    tracked,     \* the successors it found in protective_orders
    unknown,     \* intents it has still to find by client id
    modern,      \* its cursor_clients
    view,        \* the reports it has collected and not yet imported
    refusal,     \* history: the error that ended its last attempt
    undisturbed  \* history: nothing happened to the orders since it began

broker  == <<reports, ended, links>>
ledger  == <<rows, legacy, keys, status, synced>>
reading == <<phase, current, tracked, unknown, modern, view, refusal>>
vars    == <<broker, ledger, reading, undisturbed>>

Unseen == [shares |-> 0, value |-> 0, status |-> "unseen"]

ReportSet == [shares : Nat, value : Nat,
              status : {"unseen", "open", "filled", "canceled"}]
Row == [shares : Nat, value : Nat, cumShares : Nat, cumValue : Nat]

Exists(o) == o \notin Successors \/ \E l \in links : l[2] = o

StatusAt(o) ==
    IF ~Exists(o) THEN "unseen"
    ELSE IF Len(reports[o]) = OrderSize[o] THEN "filled"
    ELSE IF o \in ended THEN "canceled" ELSE "open"

Report(o) ==
    [shares |-> Len(reports[o]),
     value  |-> IF reports[o] = <<>> THEN 0 ELSE reports[o][Len(reports[o])],
     status |-> StatusAt(o)]

\* _validated_broker_history: the cursor is that of the order's last row.
Cursor(o) ==
    IF rows[o] = <<>> THEN [shares |-> 0, value |-> 0]
    ELSE LET last == rows[o][Len(rows[o])]
         IN  [shares |-> last.cumShares, value |-> last.cumValue]

LegacyRows(o) == {l \in legacy : KeyOf[l] = KeyOf[o]}

TypeOK ==
    /\ reports \in [Orders -> Seq(Nat \ {0})]
    /\ ended \subseteq Orders
    /\ links \subseteq Orders \X Orders
    /\ rows \in [Orders -> Seq(Row)]
    /\ legacy \subseteq LegacyOrders
    /\ keys \subseteq Keys
    /\ status \in [Orders -> {"none", "live", "terminal"}]
    /\ synced \subseteq Orders
    /\ phase \in [Readers -> {"idle", "closed", "open", "lookup", "import",
                              "mark", "status", "synced", "done"}]
    /\ current \in [Readers -> SUBSET Orders]
    /\ tracked \in [Readers -> SUBSET Successors]
    /\ unknown \in [Readers -> SUBSET Orders]
    /\ modern \in [Readers -> SUBSET Orders]
    /\ view \in [Readers -> [Orders -> ReportSet]]
    /\ refusal \in [Readers -> {"none", "regressed", "corrected", "legacy", "value",
                              "history"}]
    /\ undisturbed \in [Readers -> BOOLEAN]

Init ==
    /\ \E p \in Prices :
           reports = [o \in Orders |-> IF o \in LegacyOrders
                                       THEN [n \in 1..OrderSize[o] |-> n * p]
                                       ELSE <<>>]
    /\ ended = {}
    /\ links = {}
    /\ rows = [o \in Orders |-> <<>>]
    /\ legacy = LegacyOrders
    /\ keys = {KeyOf[o] : o \in LegacyOrders \cup (Orders \ Protective)}
    /\ status = [o \in Orders |->
                    IF o \in LegacyOrders \cup Protective THEN "none" ELSE "live"]
    /\ synced = LegacyOrders \cap Protective
    /\ phase = [r \in Readers |-> "idle"]
    /\ current = [r \in Readers |-> {}]
    /\ tracked = [r \in Readers |-> {}]
    /\ unknown = [r \in Readers |-> {}]
    /\ modern = [r \in Readers |-> {}]
    /\ view = [r \in Readers |-> [o \in Orders |-> Unseen]]
    /\ refusal = [r \in Readers |-> "none"]
    /\ undisturbed = [r \in Readers |-> FALSE]

-----------------------------------------------------------------------------
(* The broker *)

Disturb == undisturbed' = [r \in Readers |-> FALSE]

Execute(o, p) ==
    /\ StatusAt(o) = "open"
    /\ reports' = [reports EXCEPT ![o] = Append(@, Report(o).value + p)]
    /\ Disturb
    /\ UNCHANGED <<ended, links, ledger, reading>>

EndOrder(o) ==
    /\ StatusAt(o) = "open"
    /\ ended' = ended \cup {o}
    /\ Disturb
    /\ UNCHANGED <<reports, links, ledger, reading>>

\* replace_stop_order: the stop, which may have executed since it was listed,
\* ends, and an order with a client id of the broker's takes its place.
Replace(o, new) ==
    /\ StatusAt(o) = "open" /\ o \in Protective
    /\ new \in Successors /\ ~Exists(new)
    /\ KeyOf[new][1] = KeyOf[o][1] /\ KeyOf[new][2] = KeyOf[o][2]
    /\ ended' = ended \cup {o}
    /\ links' = links \cup {<<o, new>>}
    /\ Disturb
    /\ UNCHANGED <<reports, ledger, reading>>

\* The broker corrects the last execution of an order: its price, or, while
\* the order works, that there was one.
Correct(o) ==
    /\ "correction" \in Faults
    /\ reports[o] # <<>>
    /\ LET before == SubSeq(reports[o], 1, Len(reports[o]) - 1)
           value  == IF before = <<>> THEN 0 ELSE before[Len(before)]
       IN  \/ /\ StatusAt(o) = "open"
              /\ reports' = [reports EXCEPT ![o] = before]
           \/ \E p \in Prices : reports' = [reports EXCEPT ![o] = Append(before, value + p)]
    /\ Disturb
    /\ UNCHANGED <<ended, links, ledger, reading>>

-----------------------------------------------------------------------------
(* One synchronization.  It reads the journal first.  A successor is in    *)
(* protective_orders unless the worker that replaced the stop died, or has *)
(* not come so far.                                                        *)

StartSync(r) ==
    /\ phase[r] \in {"idle", "done"}
    /\ phase' = [phase EXCEPT ![r] = "closed"]
    /\ unknown' = [unknown EXCEPT ![r] = {o \in Orders : status[o] = "live"}]
    /\ \E known \in SUBSET {o \in Successors : Exists(o)} :
           tracked' = [tracked EXCEPT ![r] = known]
    /\ view' = [view EXCEPT ![r] = [o \in Orders |-> Unseen]]
    /\ refusal' = [refusal EXCEPT ![r] = "none"]
    /\ undisturbed' = [undisturbed EXCEPT ![r] = TRUE]
    /\ UNCHANGED <<broker, ledger, current, modern>>

\* The synchronization ends, with or without an error.
Leave(r, next) ==
    /\ phase' = [phase EXCEPT ![r] = next]
    /\ current' = [current EXCEPT ![r] = {}]
    /\ tracked' = [tracked EXCEPT ![r] = {}]
    /\ unknown' = [unknown EXCEPT ![r] = {}]
    /\ modern' = [modern EXCEPT ![r] = {}]
    /\ view' = [view EXCEPT ![r] = [o \in Orders |-> Unseen]]
    /\ undisturbed' = [undisturbed EXCEPT ![r] = @ /\ next = "done"]

See(r, seen) ==
    view' = [view EXCEPT ![r] = [o \in Orders |-> IF o \in seen THEN Report(o) ELSE @[o]]]

ListClosed(r) ==
    /\ phase[r] = "closed"
    /\ LET closed == {o \in Orders : StatusAt(o) \in {"filled", "canceled"}}
       IN  \E seen \in IF "list_lag" \in Faults THEN SUBSET closed ELSE {closed} :
               See(r, seen)
    /\ phase' = [phase EXCEPT ![r] = "open"]
    /\ UNCHANGED <<broker, ledger, current, tracked, unknown, modern, refusal, undisturbed>>

ListOpen(r) ==
    /\ phase[r] = "open"
    /\ See(r, {o \in Orders : StatusAt(o) = "open"})
    /\ unknown' = [unknown EXCEPT ![r] = {o \in @ : view'[r][o] = Unseen}]
    /\ phase' = [phase EXCEPT ![r] = "lookup"]
    /\ UNCHANGED <<broker, ledger, current, tracked, modern, refusal, undisturbed>>

\* order_by_client_id: an intent that neither list names, and that has no
\* terminal status, is asked for by name.
Lookup(r, o) ==
    /\ phase[r] = "lookup"
    /\ o \in unknown[r]
    /\ See(r, {o})
    /\ unknown' = [unknown EXCEPT ![r] = @ \ {o}]
    /\ UNCHANGED <<broker, ledger, phase, current, tracked, modern, refusal, undisturbed>>

\* _owned_order_clients.  What was collected, the replacements among it, and
\* the orders known by name: by the prefix of their id, as an intent, as the
\* tracked stop of a symbol.
Seen(r)   == {o \in Orders : view[r][o] # Unseen}
Links(r)  == {l \in links : l[1] \in Seen(r) /\ l[2] \in Seen(r)}
Named(r)  == Seen(r) \ (Successors \ tracked[r])

\* Mutant: replacements are not followed.
Owned_Named(r) == Named(r)

\* The least set that has the named orders and, with one order of a
\* replacement, the other.
Owned(r) ==
    {o \in Seen(r) : \A S \in SUBSET Seen(r) :
        Named(r) \subseteq S /\ (\A l \in Links(r) : l[1] \in S <=> l[2] \in S) => o \in S}

\* A replaced order had executions, which its successor may have inherited.
HistoryUnclear(r) ==
    \E l \in Links(r) : l[1] \in Owned(r) /\ view[r][l[1]].shares > 0

RefuseHistory(r) ==
    /\ phase[r] = "lookup"
    /\ unknown[r] = {}
    /\ HistoryUnclear(r)
    /\ refusal' = [refusal EXCEPT ![r] = "history"]
    /\ Leave(r, "idle")
    /\ UNCHANGED <<broker, ledger>>

\* Orders of others are left out of the import.
BeginImport(r) ==
    /\ phase[r] = "lookup"
    /\ unknown[r] = {}
    /\ ~HistoryUnclear(r)
    /\ view' = [view EXCEPT ![r] =
                   [o \in Orders |-> IF o \in Owned(r) THEN @[o] ELSE Unseen]]
    /\ modern' = [modern EXCEPT ![r] = {o \in Orders : rows[o] # <<>>}]
    /\ phase' = [phase EXCEPT ![r] = "import"]
    /\ UNCHANGED <<broker, ledger, current, tracked, unknown, refusal, undisturbed>>

FinishSync(r) ==
    /\ phase[r] = "import"
    /\ \A o \in Orders : view[r][o] = Unseen
    /\ Leave(r, "done")
    /\ UNCHANGED <<broker, ledger, refusal>>

Collected(r, o) == phase[r] = "import" /\ view[r][o] # Unseen

Drop(r, o) == view' = [view EXCEPT ![r][o] = Unseen]

\* A protective fill booked before there were cursors.
BookedBefore(r, o) == o \in Protective /\ o \in synced /\ o \notin modern[r]

SkipOrder(r, o) ==
    /\ Collected(r, o)
    /\ BookedBefore(r, o)
    /\ Drop(r, o)
    /\ UNCHANGED <<broker, ledger, phase, current, tracked, unknown, modern, refusal,
                   undisturbed>>

-----------------------------------------------------------------------------
(* record_broker_order *)

Adopts(o, v) == v.shares # 0 /\ rows[o] = <<>> /\ LegacyRows(o) # {}

\* Mutant: an order that is booked completely is refused as well.
Regressed_OrEqual(o, v) == v.shares # 0 /\ v.shares <= Cursor(o).shares

\* A report without executions is not compared.
Regressed(o, v) == v.shares # 0 /\ v.shares < Cursor(o).shares

\* Mutant: only a lower value is noticed.
Corrected_Lower(o, v) ==
    v.shares # 0 /\ v.shares = Cursor(o).shares /\ v.value < Cursor(o).value

Corrected(o, v) ==
    v.shares # 0 /\ v.shares = Cursor(o).shares /\ v.value # Cursor(o).value

LegacyDisagrees(o, v) ==
    /\ Adopts(o, v)
    /\ ~\E l \in LegacyRows(o) : LegacyRows(o) = {l} /\ OrderSize[l] = v.shares

Worthless(o, v) ==
    v.shares > Cursor(o).shares /\ ~Adopts(o, v) /\ v.value <= Cursor(o).value

\* The error raised for report v of order o, before anything is written.
Refusal(o, v) ==
    IF Regressed(o, v) THEN "regressed"
    ELSE IF Corrected(o, v) THEN "corrected"
    ELSE IF LegacyDisagrees(o, v) THEN "legacy"
    ELSE IF Worthless(o, v) THEN "value" ELSE "none"

Refuse(r, o) ==
    /\ Collected(r, o)
    /\ ~BookedBefore(r, o)
    /\ Refusal(o, view[r][o]) # "none"
    /\ refusal' = [refusal EXCEPT ![r] = Refusal(o, view[r][o])]
    /\ Leave(r, "idle")
    /\ UNCHANGED <<broker, ledger>>

\* Mutant: the whole cumulative fill is appended, under a cursor that adds it up.
NewRow_Added(o, v) ==
    [shares |-> v.shares, value |-> v.value,
     cumShares |-> Cursor(o).shares + v.shares, cumValue |-> Cursor(o).value + v.value]

\* Only what the cursor does not cover yet.
NewRow(o, v) ==
    [shares |-> v.shares - Cursor(o).shares, value |-> v.value - Cursor(o).value,
     cumShares |-> v.shares, cumValue |-> v.value]

\* fills.csv: a legacy row of the key becomes the order's first row.
WriteRow(o, v) ==
    IF v.shares > Cursor(o).shares
    THEN /\ rows' = [rows EXCEPT ![o] = Append(@, NewRow(o, v))]
         /\ legacy' = IF Adopts(o, v) THEN legacy \ LegacyRows(o) ELSE legacy
    ELSE UNCHANGED <<rows, legacy>>

Recordable(r, o) ==
    /\ Collected(r, o)
    /\ ~BookedBefore(r, o)
    /\ Refusal(o, view[r][o]) = "none"

RecordOrder(r, o) ==
    /\ Recordable(r, o)
    /\ WriteRow(o, view[r][o])
    /\ keys' = IF rows' = rows THEN keys ELSE keys \cup {KeyOf[o]}
    /\ current' = [current EXCEPT ![r] = {o}]
    /\ phase' = [phase EXCEPT ![r] = "mark"]
    /\ UNCHANGED <<broker, status, synced, tracked, unknown, modern, view, refusal,
                   undisturbed>>

\* The process dies between the two files.
InterruptedRecord(r, o) ==
    /\ "crash" \in Faults
    /\ Recordable(r, o)
    /\ WriteRow(o, view[r][o])
    /\ Leave(r, "idle")
    /\ UNCHANGED <<broker, keys, status, synced, refusal>>

\* mark_submitted
MarkSubmitted(r) ==
    /\ phase[r] = "mark"
    /\ keys' = keys \cup {KeyOf[o] : o \in current[r]}
    /\ phase' = [phase EXCEPT ![r] = "status"]
    /\ UNCHANGED <<broker, rows, legacy, status, synced, current, tracked, unknown,
                   modern, view, refusal, undisturbed>>

\* The next remote order.
Advance(r) ==
    /\ phase' = [phase EXCEPT ![r] = "import"]
    /\ current' = [current EXCEPT ![r] = {}]
    /\ view' = [view EXCEPT ![r] =
                   [o \in Orders |-> IF o \in current[r] THEN Unseen ELSE @[o]]]

\* Mutants: the broker's own word is stored; an intent is closed although the report is of a live order.
StatusOf_Raw(v) == v.status
StatusOf_Hasty(v) == IF v.shares > 0 THEN "terminal" ELSE "live"

StatusOf(v) == IF v.status = "open" THEN "live" ELSE "terminal"

\* update_order_status: with the status of the report, however old that is.
UpdateOrderStatus(r) ==
    /\ phase[r] = "status"
    /\ status' = [o \in Orders |-> IF o \in current[r] /\ status[o] # "none"
                                   THEN StatusOf(view[r][o]) ELSE status[o]]
    /\ IF \E o \in current[r] \cap Protective : view[r][o].status = "filled"
       THEN /\ phase' = [phase EXCEPT ![r] = "synced"]
            /\ UNCHANGED <<current, view>>
       ELSE Advance(r)
    /\ UNCHANGED <<broker, rows, legacy, keys, synced, tracked, unknown, modern, refusal,
                   undisturbed>>

\* mark_synced_order
MarkSynced(r) ==
    /\ phase[r] = "synced"
    /\ synced' = synced \cup current[r]
    /\ Advance(r)
    /\ UNCHANGED <<broker, rows, legacy, keys, status, tracked, unknown, modern, refusal,
                   undisturbed>>

Crash(r) ==
    /\ "crash" \in Faults
    /\ phase[r] # "idle"
    /\ Leave(r, "idle")
    /\ UNCHANGED <<broker, ledger, refusal>>

-----------------------------------------------------------------------------
Sign(o) == IF KeyOf[o][2] = "buy" THEN 1 ELSE -1

OrdersOf(s) == {o \in Orders : KeyOf[o][1] = s}

Holdings(s) == SumFunction([o \in OrdersOf(s) |-> Sign(o) * Len(reports[o])])

RowShares(o) == SumFunction([n \in DOMAIN rows[o] |-> rows[o][n].shares])

\* The rows of an order; a row without id counts only with its key.
CountedShares(o) ==
    RowShares(o) + IF o \in legacy /\ KeyOf[o] \in keys THEN OrderSize[o] ELSE 0

\* expected_positions_decimal_from_fills
ExpectedPosition(s) == SumFunction([o \in OrdersOf(s) |-> Sign(o) * CountedShares(o)])

SyncStep(r) ==
    \/ StartSync(r) \/ ListClosed(r) \/ ListOpen(r) \/ BeginImport(r)
    \/ RefuseHistory(r) \/ FinishSync(r)
    \/ MarkSubmitted(r) \/ UpdateOrderStatus(r) \/ MarkSynced(r)
    \/ \E o \in Orders : Lookup(r, o) \/ SkipOrder(r, o) \/ Refuse(r, o) \/ RecordOrder(r, o)

BrokerStep ==
    \E o \in Orders : (\E p \in Prices : Execute(o, p)) \/ EndOrder(o) \/ Correct(o)
                   \/ \E new \in Orders : Replace(o, new)

Next ==
    \/ BrokerStep
    \/ \E r \in Readers : SyncStep(r) \/ Crash(r)
                             \/ \E o \in Orders : InterruptedRecord(r, o)

Spec == Init /\ [][Next]_vars

\* A synchronization that has begun goes on, and a caller begins another one.
FairSpec == Spec /\ \A r \in Readers : WF_vars(SyncStep(r))

-----------------------------------------------------------------------------
(* The rows of an order are one chain: each carries the shares and the     *)
(* value that its cumulative cursor adds to the row before it, whoever     *)
(* wrote them (the check of _validated_broker_history never fails).        *)
RowsChain ==
    \A o \in Orders : \A n \in DOMAIN rows[o] :
        LET row    == rows[o][n]
            before == IF n = 1 THEN [cumShares |-> 0, cumValue |-> 0] ELSE rows[o][n - 1]
        IN  /\ row.shares > 0
            /\ row.value > 0
            /\ row.cumShares = before.cumShares + row.shares
            /\ row.cumValue = before.cumValue + row.value

\* The broker once reported these shares of an order at this value.
IsReport(o, shares, value) ==
    /\ shares <= Len(reports[o])
    /\ value = IF shares = 0 THEN 0 ELSE reports[o][shares]

(* What is booked of an order is what the broker once reported of it: its  *)
(* first shares, at the value they executed at, however stale the reports  *)
(* of the synchronizations that booked them.                               *)
BookedAsReported ==
    \A o \in Orders : IsReport(o, Cursor(o).shares, Cursor(o).value)

(* Once an intent has a terminal status, synchronization asks for it no    *)
(* more; by then every share it executed is booked.                        *)
TerminalIsBooked ==
    \A o \in Orders :
        status[o] = "terminal" => Cursor(o).shares = Len(reports[o])

\* reconcile_positions finds no difference.
Reconciled == \A o \in Orders : ExpectedPosition(KeyOf[o][1]) = Holdings(KeyOf[o][1])

\* All executions of a booked order were taken back.  A report without
\* executions is compared with nothing.
WhollyBusted == \E o \in Orders : reports[o] = <<>> /\ rows[o] # <<>>

(* A synchronization during which nothing happened to the orders leaves    *)
(* the positions the journal expects equal to the broker's holdings:       *)
(* neither a crash between the files, a legacy row nor                     *)
(* another synchronization makes it count a share twice or not at all.     *)
SyncedPositions ==
    \A r \in Readers :
        phase[r] = "done" /\ undisturbed[r] /\ ~WhollyBusted => Reconciled

(* A broker correction is never left unnoticed: a synchronization that     *)
(* ends without an error leaves the cursor of every order with executions  *)
(* at the broker's report.                                                 *)
CorrectionsNoticed ==
    \A r \in Readers :
        phase[r] = "done" /\ undisturbed[r]
        => \A o \in Orders \ LegacyOrders :
               reports[o] # <<>> =>
                   Cursor(o) = [shares |-> Report(o).shares, value |-> Report(o).value]

(* A replaced stop had executions: every synchronization refuses it.       *)
PartlyReplaced == \E l \in links : reports[l[1]] # <<>>

(* With fair synchronizations, finitely many executions and finitely many  *)
(* crashes the journal catches up with the broker for good, whatever the   *)
(* synchronizations refuse meanwhile.                                      *)
CatchesUp ==
    (<>[][~\E r \in Readers : Crash(r) \/ \E o \in Orders : InterruptedRecord(r, o)]_vars) =>
    <>[](\A o \in Orders :
             Cursor(o).shares = Len(reports[o]) \/ o \in LegacyOrders \/ PartlyReplaced)

Booking == INSTANCE ExactlyOnceLedger WITH
    executed <- [o \in Orders |-> Len(reports[o])],
    booked   <- [o \in Orders |-> Cursor(o).shares]

(* The cursors of the ledger book every executed share once and in order,  *)
(* whoever synchronizes: FillLedger implements ExactlyOnceLedger.          *)
BooksOnce == Booking!Spec

=============================================================================
