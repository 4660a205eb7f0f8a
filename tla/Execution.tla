----------------------------- MODULE Execution ------------------------------
(***************************************************************************)
(* One operator process (LiveTradingEngine, the commands of cli.py that    *)
(* drive it, and its AlpacaPaperBroker adapter) trading through the order  *)
(* journal against the external broker.                                    *)
(*                                                                         *)
(* A step of the operator is what happens between two points at which the  *)
(* broker, the user or a crash can intervene: one broker round trip or one *)
(* locked journal method.  The broker runs on its own: it fills, cancels   *)
(* and expires orders at any time.  An error raised by the operator and a  *)
(* crash both lose its memory and keep the journal; _session_retry or the  *)
(* supervisor then starts another cycle.                                   *)
(*                                                                         *)
(* Quantities are whole shares.  The status "new" stands for every active  *)
(* status the code does not tell apart (new, accepted, partially_filled)   *)
(* and "canceled" for canceled, expired and rejected, which it treats      *)
(* alike.  Prices, signals and equity are choices.                         *)
(***************************************************************************)
EXTENDS OrderJournal, FiniteSetsExt

CONSTANTS
    Commands,    \* what the user or the session loop may start
    Faults,      \* what the environment may do besides filling and canceling
    Opening      \* shares of each symbol bought before the first of Days

ASSUME ExecutionAssumption ==
    /\ Commands \subseteq {"risk", "signal", "protect", "pause", "reset"}
    /\ Faults \subseteq {"crash", "lost_request", "lost_response",
                         "late_request", "list_lag", "fill_between_reads", "busy_reset"}
    /\ Days # {}
    /\ Opening \in [Symbols -> Quantities]

VARIABLES
    orders,      \* broker: the order of each client order id
    position,    \* broker: shares held of each symbol
    today,       \* broker: the trading date
    pc,          \* operator: the next step
    cycle,       \* operator: the command in progress
    view,        \* operator: broker.positions at its last refresh
    planned,     \* operator: planned orders not yet checked for duplicates
    ready,       \* operator: executable orders not yet submitted
    current,     \* operator: the order being submitted, if any
    rows,        \* operator: symbols _alpaca_protect has still to visit
    seen,        \* operator: the open sell order it listed for each symbol
    paused,      \* the STOP or STOP_BUYS file exists
    pausedBuys,  \* history: BUY intents reserved since the file appeared
    reset,       \* reset-state: "none", or what it has confirmed: "flat", "clear"
    archived     \* the journal was archived in the synchronization in progress:
                 \* "no", "between" two orders or "within" the writes of one

brokerVars   == <<orders, position, today>>
memoryVars   == <<cycle, view, planned, ready, current, rows, seen>>
resetVars    == <<reset, archived>>
controlVars  == <<paused, pausedBuys, resetVars>>
vars == <<journalVars, brokerVars, pc, memoryVars, controlVars>>

NoRemote == [status |-> "absent", quantity |-> 0, filled |-> 0,
             filledOn |-> 0, submitted |-> 0]

Steps == {"idle", "sync", "reconcile", "assess", "cancel_buys", "await_buys",
          "halt_sync", "plan", "halt_plan", "filter", "submit", "await_sells", "revalidate",
          "buy_control", "reserve", "lookup", "send", "record",
          "read_positions", "read_orders", "protect", "send_stop"}

TypeOK ==
    /\ JournalTypeOK
    /\ orders \in [OrderIds ->
           [status : ActiveStatuses \cup {"absent", "in_flight", "filled", "canceled"},
            quantity : Quantities, filled : Quantities,
            filledOn : Days \cup {0}, submitted : Days \cup {0}]]
    /\ position \in [Symbols -> Int]
    /\ today \in Days
    /\ pc \in Steps
    /\ cycle \in {"risk", "signal", "protect"}
    /\ view \in [Symbols -> Int]
    /\ planned \subseteq Orders
    /\ ready \subseteq Orders
    /\ Cardinality(current) <= 1
    /\ \A o \in current : o.id \in OrderIds /\ o.quantity \in 1..MaxQuantity
    /\ rows \subseteq Symbols
    /\ seen \in [Symbols -> SUBSET OrderIds]
    /\ paused \in BOOLEAN
    /\ pausedBuys \in Nat
    /\ reset \in {"none", "flat", "clear"}
    /\ archived \in {"no", "between", "within"}

ResetMemory ==
    /\ cycle' = "risk"
    /\ view' = [s \in Symbols |-> 0]
    /\ planned' = {}
    /\ ready' = {}
    /\ current' = {}
    /\ rows' = {}
    /\ seen' = [s \in Symbols |-> {}]

Init ==
    /\ JournalInit
    /\ orders = [id \in OrderIds |-> NoRemote]
    /\ position = Opening
    /\ today = CHOOSE d \in Days : \A e \in Days : d <= e
    /\ pc = "idle"
    /\ cycle = "risk"
    /\ view = [s \in Symbols |-> 0]
    /\ planned = {} /\ ready = {} /\ current = {} /\ rows = {}
    /\ seen = [s \in Symbols |-> {}]
    /\ paused = FALSE
    /\ pausedBuys = 0
    /\ reset = "none"
    /\ archived = "no"

-----------------------------------------------------------------------------
(***************************************************************************)
(* What a request to the broker returns.                                   *)
(***************************************************************************)
Visible(id) == orders[id].status \notin {"absent", "in_flight"}
Live(id)    == orders[id].status \in ActiveStatuses

\* Mutant: a requested cancellation counts as done.
OpenOrders_NotPending(side, s) ==
    {id \in OrderIds : SideOf(id) = side /\ SymbolOf(id) = s /\ orders[id].status = "new"}

OpenOrders(side, s) ==
    {id \in OrderIds : SideOf(id) = side /\ SymbolOf(id) = s /\ Live(id)}
OpenSells(s) == OpenOrders("sell", s)
OpenBuys     == UNION {OpenOrders("buy", s) : s \in Symbols}

\* Mutant: qty is read instead of filled_qty.
RemoteReport_Quantity(id) ==
    [id |-> id, status |-> orders[id].status, quantity |-> orders[id].quantity,
     filled |-> orders[id].quantity, filledOn |-> orders[id].filledOn,
     submitted |-> orders[id].submitted]

RemoteReport(id) ==
    [id |-> id, status |-> orders[id].status, quantity |-> orders[id].quantity,
     filled |-> orders[id].filled, filledOn |-> orders[id].filledOn,
     submitted |-> orders[id].submitted]

Accepted(id, quantity) ==
    [orders EXCEPT ![id] = [status |-> "new", quantity |-> quantity, filled |-> 0,
                            filledOn |-> today, submitted |-> today]]

\* The broker keeps one order per client order id: a second request fails and
\* the lookup that follows finds the first.
Delivered(id, quantity) == IF Visible(id) THEN orders ELSE Accepted(id, quantity)

\* cancel_order_by_id is asynchronous: it only requests the cancellation.
CancelRequested(ids) ==
    [id \in OrderIds |-> IF id \in ids /\ Live(id)
                         THEN [orders[id] EXCEPT !.status = "pending_cancel"]
                         ELSE orders[id]]

\* Shares the broker may still sell under the orders sent for a symbol.
CommittedToSell(s) ==
    MapThenSumSet(LAMBDA id : orders[id].quantity - orders[id].filled,
        {id \in OrderIds : /\ SideOf(id) = "sell" /\ SymbolOf(id) = s
                           /\ Live(id) \/ orders[id].status = "in_flight"})

-----------------------------------------------------------------------------
(***************************************************************************)
(* The broker, the exchange calendar and the user.                         *)
(***************************************************************************)
Fill(id) ==
    /\ Live(id)
    /\ pc \in {"read_positions", "read_orders"} => "fill_between_reads" \in Faults
    /\ LET filled == orders[id].filled + 1 IN
       orders' = [orders EXCEPT
           ![id].filled = filled,
           ![id].filledOn = today,
           ![id].status = IF filled = orders[id].quantity THEN "filled" ELSE @]
    /\ position' = [position EXCEPT
           ![SymbolOf(id)] = IF SideOf(id) = "buy" THEN @ + 1 ELSE @ - 1]
    /\ UNCHANGED <<journalVars, today, pc, memoryVars, controlVars>>

\* A requested cancellation takes effect, or the broker ends the order itself
\* (DAY expiry, remainder of an IOC entry, rejection).
EndOrder(id) ==
    /\ Live(id)
    /\ orders' = [orders EXCEPT ![id].status = "canceled"]
    /\ UNCHANGED <<journalVars, position, today, pc, memoryVars, controlVars>>

\* A request whose caller timed out reaches the broker late.
Arrive(id) ==
    /\ orders[id].status = "in_flight"
    /\ orders' = [orders EXCEPT ![id].status = "new"]
    /\ UNCHANGED <<journalVars, position, today, pc, memoryVars, controlVars>>

\* DAY orders end with their date; stops are GTC and stay.
NextDay ==
    /\ pc = "idle"
    /\ today + 1 \in Days
    /\ \A id \in ClientIds : ~Live(id)
    /\ today' = today + 1
    /\ UNCHANGED <<journalVars, orders, position, pc, memoryVars, controlVars>>

SetPaused ==
    /\ "pause" \in Commands
    /\ paused' = ~paused
    /\ pausedBuys' = 0
    /\ UNCHANGED <<journalVars, brokerVars, pc, memoryVars, resetVars>>

-----------------------------------------------------------------------------
(***************************************************************************)
(* Cycles: begin, synchronize, reconcile, end, fail.                       *)
(***************************************************************************)
BeginCycle(command) ==
    /\ pc = "idle"
    /\ command \in Commands
    /\ reset = "none" \/ "busy_reset" \in Faults
    /\ cycle' = command
    /\ pc' = "sync"
    /\ archived' = "no"
    /\ UNCHANGED <<journalVars, brokerVars, view, planned, ready, current,
                   rows, seen, paused, pausedBuys, reset>>

\* An exception or the end of the command: the operator's memory is gone.
Leave == pc' = "idle" /\ ResetMemory

Crash ==
    /\ "crash" \in Faults
    /\ pc # "idle"
    /\ Leave
    /\ UNCHANGED <<journalVars, brokerVars, controlVars>>

Tracked(id) == id \in ClientIds /\ Reserved(id)

\* Journalling this order again would change nothing.
Synced(id) ==
    /\ cursor[id] = orders[id].filled
    /\ SyncedKeys(RemoteReport(id)) \subseteq submittedKeys
    /\ Tracked(id) => intents[id].status = orders[id].status
    /\ (id \in StopIds /\ orders[id].status = "filled") =>
           /\ protective[SymbolOf(id)] # {id}
           /\ OpenSells(SymbolOf(id)) = {} => protective[SymbolOf(id)] = {}

SyncOrder(id) ==
    /\ pc \in {"sync", "halt_sync"}
    /\ Visible(id)
    /\ ~Synced(id)
    /\ SyncBrokerOrder(RemoteReport(id), OpenSells(SymbolOf(id)) # {})
    /\ UNCHANGED <<brokerVars, pc, memoryVars, controlVars>>

\* Open orders are listed, unresolved intents are looked up by client id;
\* other terminal orders come from the closed list, which may lag.
MustSync(id) ==
    /\ Visible(id)
    /\ \/ Live(id)
       \/ Tracked(id) /\ intents[id].status \notin TerminalStatuses
       \/ "list_lag" \notin Faults

AllSynced == \A id \in OrderIds : MustSync(id) => Synced(id)

\* The writes of the order in hand that follow its archived execution.  They mark
\* a filled stop as synchronized, so that its execution is not recovered later
\* (reconcile.py:133): as if the closed list lagged for good.
FinishOrder(id) ==
    /\ pc \in {"sync", "halt_sync"}
    /\ archived = "within"
    /\ Visible(id)
    /\ FinishSync(RemoteReport(id), OpenSells(SymbolOf(id)) # {})
    /\ archived' = "between"
    /\ UNCHANGED <<brokerVars, pc, memoryVars, paused, pausedBuys, reset>>

\* Orders visited before the journal was archived are not visited again.
VisitsDone == AllSynced \/ archived = "between"

SyncDone ==
    /\ pc = "sync"
    /\ VisitsDone
    /\ pc' = "reconcile"
    /\ UNCHANGED <<journalVars, brokerVars, memoryVars, controlVars>>

\* expected_positions_from_fills: the executions in the journal.  Those older
\* than Days are journalled (for some symbols, if the journal was just archived):
\* every other synchronization recovers them from the closed orders.
Ledger(s, recovered) ==
    LET executed(side) ==
            MapThenSumSet(LAMBDA id : cursor[id],
                {id \in OrderIds : SymbolOf(id) = s /\ SideOf(id) = side})
    IN  (IF s \in recovered THEN Opening[s] ELSE 0) + executed("buy") - executed("sell")

Recoveries == IF archived = "no" THEN {Symbols} ELSE SUBSET Symbols

\* refresh: the positions the broker reports replace the view as a whole; an
\* error ends the cycle as a crash does.
RefreshView == view' = position

\* The refresh that ends sync_broker_orders, then reconcile_positions; a
\* mismatch or a short holding refuses the command.
Reconcile ==
    /\ pc = "reconcile"
    /\ \E recovered \in Recoveries :
          IF \E s \in Symbols : position[s] # Ledger(s, recovered) \/ position[s] < 0
          THEN Leave
          ELSE /\ pc' = IF cycle = "protect" THEN "read_positions" ELSE "assess"
               /\ RefreshView
               /\ UNCHANGED <<cycle, planned, ready, current, rows, seen>>
    /\ archived' = "no"
    /\ UNCHANGED <<journalVars, brokerVars, paused, pausedBuys, reset>>

-----------------------------------------------------------------------------
(***************************************************************************)
(* run_risk_once and run_once: drawdown, cancellation of entries, plan.    *)
(***************************************************************************)
\* Mutant: a rebound releases the halt.
Assess_Rebound ==
    /\ pc = "assess"
    /\ RefreshView
    /\ halted' \in BOOLEAN
    /\ pc' = IF halted' THEN "cancel_buys" ELSE "plan"
    /\ UNCHANGED <<submittedKeys, intents, authorized, cursor, protective>>
    /\ UNCHANGED <<brokerVars, cycle, planned, ready, current, rows, seen,
                   controlVars>>

Assess ==
    /\ pc = "assess"
    /\ RefreshView
    /\ \/ UNCHANGED journalVars
       \/ LatchHalt
    /\ pc' = IF halted' THEN "cancel_buys" ELSE "plan"
    /\ UNCHANGED <<brokerVars, cycle, planned, ready, current, rows, seen,
                   controlVars>>

UnresolvedBuys ==
    {id \in ClientIds : /\ SideOf(id) = "buy" /\ Reserved(id)
                        /\ intents[id].status \notin TerminalStatuses}

\* An error during cancellation ends the cycle; _revalidate_buy catches it
\* and only refuses the entry.
RefuseEntry == pc' = "submit" /\ current' = {}
               /\ UNCHANGED <<cycle, view, planned, ready, rows, seen>>
\* Mutant: the failure is swallowed and the cycle goes on.
AbortCancellation_GoesOn ==
    IF current = {} THEN pc' = "halt_plan" /\ UNCHANGED memoryVars ELSE RefuseEntry

AbortCancellation == IF current = {} THEN Leave ELSE RefuseEntry

CancelBuys ==
    /\ pc = "cancel_buys"
    /\ IF \E id \in UnresolvedBuys : ~Visible(id)
       THEN AbortCancellation /\ UNCHANGED orders
       ELSE /\ orders' = CancelRequested(OpenBuys)
            /\ pc' = "await_buys"
            /\ UNCHANGED memoryVars
    /\ UNCHANGED <<journalVars, position, today, controlVars>>

BuysCanceled ==
    /\ pc = "await_buys"
    /\ OpenBuys = {}
    /\ pc' = "halt_sync"
    /\ UNCHANGED <<journalVars, brokerVars, memoryVars, controlVars>>

\* Ten polls without a confirmed terminal status.
BuysUnconfirmed ==
    /\ pc = "await_buys"
    /\ OpenBuys # {}
    /\ AbortCancellation
    /\ UNCHANGED <<journalVars, brokerVars, controlVars>>

HaltSynced ==
    /\ pc = "halt_sync"
    /\ VisitsDone
    /\ RefreshView
    /\ pc' = IF current = {} THEN "halt_plan" ELSE "submit"
    /\ current' = {}
    /\ archived' = "no"
    /\ UNCHANGED <<journalVars, brokerVars, cycle, planned, ready, rows, seen,
                   paused, pausedBuys, reset>>

ExitOrder(s, risk) ==
    [id |-> Attempt(<<today, s, "sell">>, 1), quantity |-> view[s], risk |-> risk]
EntryOrder(s, quantity) ==
    [id |-> Attempt(<<today, s, "buy">>, 1), quantity |-> quantity, risk |-> FALSE]

\* _validate_managed_positions: a short holding is not managed.
Unmanaged == {s \in Symbols : view[s] < 0}

Held == {s \in Symbols : view[s] > 0}

\* _pending_buy_orders: an open BUY order or an unresolved BUY intent.
PendingBuys == OpenBuys # {} \/ UnresolvedBuys # {}

\* recent_exit_dates: an exit of the symbol is journalled; buy_cooldown_days
\* spans the modelled dates.
RecentExit(s) ==
    \E id \in OrderIds : SymbolOf(id) = s /\ SideOf(id) = "sell" /\ cursor[id] > 0

\* build_order_plan enters a symbol that is neither held nor cooling down.
MayEnter(s) == view[s] <= 0 /\ ~RecentExit(s)

\* account_drawdown_orders liquidates every holding of an account that this
\* cycle found halted; else stop losses and, in a signal cycle, strategy orders
\* are chosen freely.
PlanHaltExits ==
    /\ pc = "halt_plan"
    /\ planned' = {ExitOrder(s, TRUE) : s \in Held}

PlanRiskExits ==
    /\ pc = "plan"
    /\ cycle = "risk"
    /\ \E stops \in SUBSET Held : planned' = {ExitOrder(s, TRUE) : s \in stops}

PlanOrders ==
    /\ pc = "plan"
    /\ cycle = "signal"
    /\ \E stops \in SUBSET Held, quantity \in 1..MaxQuantity :
         \E sells \in SUBSET (Held \ stops),
            buys \in SUBSET (IF PendingBuys THEN {} ELSE {s \in Symbols : MayEnter(s)}) :
              planned' = {ExitOrder(s, TRUE) : s \in stops}
                           \cup {ExitOrder(s, FALSE) : s \in sells}
                           \cup {EntryOrder(s, quantity) : s \in buys}

Plan ==
    /\ pc \in {"plan", "halt_plan"}
    /\ IF Unmanaged # {}
       THEN Leave
       ELSE /\ PlanHaltExits \/ PlanRiskExits \/ PlanOrders
            /\ pc' = "filter"
            /\ UNCHANGED <<cycle, view, ready, current, rows, seen>>
    /\ UNCHANGED <<journalVars, brokerVars, controlVars>>

-----------------------------------------------------------------------------
(***************************************************************************)
(* Duplicate filter: has_submitted, open client ids, risk-exit retries.    *)
(***************************************************************************)
OpenClientIds == {id \in OrderIds : Live(id)}

Duplicate(o) == o.id[1] \in submittedKeys \/ o.id \in OpenClientIds

EntryBlocked(o) ==
    /\ SideOf(o.id) = "buy"
    /\ Cardinality(BuyKeys(today))
         + Cardinality({r \in ready : SideOf(r.id) = "buy"}) >= MaxDailyOrders

\* Mutant: the refreshed holding is not checked.
RetryKnown_Unheld(o, n) ==
    /\ o.risk
    /\ IsLatestAttempt(o.id[1], n)
    /\ Visible(Attempt(o.id[1], n))

\* The latest attempt of the order's key can be looked up at the broker.
RetryKnown(o, n) ==
    /\ o.risk
    /\ IsLatestAttempt(o.id[1], n)
    /\ Visible(Attempt(o.id[1], n))
    /\ position[SymbolOf(o.id)] > 0

LesserOf(m, n) == IF m < n THEN m ELSE n

\* _prepare_risk_exit_retry: direct lookup, refresh, authorization.
PrepareRetry(o, n) ==
    LET key  == o.id[1]
        next == Attempt(key, n + 1)
    IN  /\ Duplicate(o)
        /\ RetryKnown(o, n)
        /\ PrepareRiskExitRetry(key, n,
               LesserOf(o.quantity, position[SymbolOf(o.id)]),
               RemoteReport(Attempt(key, n)))
        /\ RefreshView
        /\ ready' = ready \cup
               {[id |-> next, quantity |-> authorized'[next], risk |-> TRUE]}

MayRetry(o) ==
    \E n \in 1..(MaxExitAttempts - 1) :
        LET r == RemoteReport(Attempt(o.id[1], n)) IN
        /\ RetryKnown(o, n)
        /\ r.status \in RetryableStatuses
        /\ r.filled < r.quantity

DropDuplicate(o) ==
    /\ Duplicate(o)
    /\ ~MayRetry(o)
    /\ UNCHANGED <<journalVars, view, ready>>

KeepOrder(o) ==
    /\ ~Duplicate(o)
    /\ ready' = IF EntryBlocked(o) THEN ready ELSE ready \cup {o}
    /\ UNCHANGED <<journalVars, view>>

Filter(o) ==
    /\ pc = "filter"
    /\ o \in planned
    /\ planned' = planned \ {o}
    /\ \/ \E n \in 1..(MaxExitAttempts - 1) : PrepareRetry(o, n)
       \/ DropDuplicate(o)
       \/ KeepOrder(o)
    /\ UNCHANGED <<brokerVars, pc, cycle, current, rows, seen, controlVars>>

FilterDone ==
    /\ pc = "filter"
    /\ planned = {}
    /\ pc' = "submit"
    /\ UNCHANGED <<journalVars, brokerVars, memoryVars, controlVars>>

-----------------------------------------------------------------------------
(***************************************************************************)
(* _submit_order and AlpacaPaperBroker.submit.                             *)
(***************************************************************************)
CycleDone ==
    /\ pc = "submit"
    /\ ready = {}
    /\ Leave
    /\ UNCHANGED <<journalVars, brokerVars, controlVars>>

\* cancel_open_sell_orders, first half: request every cancellation.
BeginSell(o) ==
    /\ pc = "submit"
    /\ o \in ready
    /\ SideOf(o.id) = "sell"
    /\ orders' = CancelRequested(OpenSells(SymbolOf(o.id)))
    /\ ready' = ready \ {o}
    /\ current' = {o}
    /\ pc' = "await_sells"
    /\ UNCHANGED <<journalVars, position, today, cycle, view, planned, rows,
                   seen, controlVars>>

\* Second half: no sell order is open any more; refresh, forget the tracked
\* stop, and size the exit by the shares that remain.
SellsCanceled(o) ==
    LET s == SymbolOf(o.id) IN
    /\ pc = "await_sells"
    /\ o \in current
    /\ OpenSells(s) = {}
    /\ RefreshView
    /\ ClearProtectiveOrder(s)
    /\ IF position[s] <= 0
       THEN pc' = "submit" /\ current' = {}
       ELSE /\ pc' = "reserve"
            /\ current' = {[o EXCEPT !.quantity = LesserOf(o.quantity, position[s])]}
    /\ UNCHANGED <<brokerVars, cycle, planned, ready, rows, seen, controlVars>>

\* Ten polls and a sell order is still open: the exit is not sent.
SellsUnconfirmed(o) ==
    /\ pc = "await_sells"
    /\ o \in current
    /\ OpenSells(SymbolOf(o.id)) # {}
    /\ Leave
    /\ UNCHANGED <<journalVars, brokerVars, controlVars>>

\* Exits precede entries in the list of orders.
BeginBuy(o) ==
    /\ pc = "submit"
    /\ o \in ready
    /\ SideOf(o.id) = "buy"
    /\ \A r \in ready : SideOf(r.id) = "buy"
    /\ ready' = ready \ {o}
    /\ current' = {o}
    /\ pc' = "revalidate"
    /\ UNCHANGED <<journalVars, brokerVars, cycle, view, planned, rows, seen,
                   controlVars>>

\* _buy_control_rejection.  Mutant: the control files are never read.
BuyControlRejection_Never == FALSE
BuyControlRejection == paused

\* _revalidate_buy: controls, refresh, drawdown, pending entries, daily cap,
\* then a fresh plan, which may shrink the entry or refuse it.
EntryRefused(s) ==
    \/ PendingBuys
    \/ Cardinality(BuyKeys(today)) >= MaxDailyOrders
    \/ position[s] > 0

Revalidate(o) ==
    /\ pc = "revalidate"
    /\ o \in current
    /\ \/ RefuseEntry /\ UNCHANGED journalVars
       \/ /\ ~BuyControlRejection
          /\ RefreshView
          /\ LatchHalt
          /\ pc' = "cancel_buys"
          /\ UNCHANGED <<cycle, planned, ready, current, rows, seen>>
       \/ /\ ~BuyControlRejection
          /\ RefreshView
          /\ ~halted
          /\ ~EntryRefused(SymbolOf(o.id))
          /\ \E quantity \in 1..o.quantity :
                 current' = {[o EXCEPT !.quantity = quantity]}
          /\ pc' = "buy_control"
          /\ UNCHANGED <<journalVars, cycle, planned, ready, rows, seen>>
    /\ UNCHANGED <<brokerVars, controlVars>>

\* The last _buy_control_rejection before the reservation.
BuyControl ==
    /\ pc = "buy_control"
    /\ IF BuyControlRejection THEN RefuseEntry ELSE pc' = "reserve" /\ UNCHANGED memoryVars
    /\ UNCHANGED <<journalVars, brokerVars, controlVars>>

Reserve(o) ==
    /\ pc = "reserve"
    /\ o \in current
    /\ IF MayReserve(o)
       THEN /\ ReserveOrder(o)
            /\ pc' = "lookup"
            /\ pausedBuys' = IF paused /\ SideOf(o.id) = "buy"
                             THEN pausedBuys + 1 ELSE pausedBuys
            /\ UNCHANGED memoryVars
       ELSE RefuseEntry /\ UNCHANGED <<journalVars, pausedBuys>>
    /\ UNCHANGED <<brokerVars, paused, resetVars>>

\* _validate_order_identity
SameOrder(o) == orders[o.id].quantity = o.quantity

\* submit, before the request: an order of that id is reused if it is the
\* same order; a sell is checked against freshly confirmed holdings.
Lookup(o) ==
    LET s == SymbolOf(o.id) IN
    /\ pc = "lookup"
    /\ o \in current
    /\ CASE Visible(o.id) /\ SameOrder(o) -> pc' = "record" /\ UNCHANGED memoryVars
         [] Visible(o.id) /\ ~SameOrder(o) -> Leave
         [] ~Visible(o.id) /\ SideOf(o.id) = "sell" /\ position[s] < o.quantity -> Leave
         [] OTHER -> pc' = "send" /\ UNCHANGED memoryVars
    /\ UNCHANGED <<journalVars, brokerVars, controlVars>>

\* The outcomes of submit_order: accepted and answered, or found again by its
\* client id; accepted with both answers lost; never received; received late.
SendAccepted(o) ==
    /\ orders' = Accepted(o.id, o.quantity)
    /\ pc' = "record"
    /\ UNCHANGED memoryVars

SendUnanswered(o) ==
    /\ "lost_response" \in Faults
    /\ orders' = Delivered(o.id, o.quantity)
    /\ Leave

SendLost ==
    /\ "lost_request" \in Faults
    /\ UNCHANGED orders
    /\ Leave

SendDelayed(o) ==
    /\ "late_request" \in Faults
    /\ ~Visible(o.id)
    /\ orders' = [Accepted(o.id, o.quantity) EXCEPT ![o.id].status = "in_flight"]
    /\ Leave

Send(o) ==
    /\ pc = "send"
    /\ o \in current
    /\ SendAccepted(o) \/ SendUnanswered(o) \/ SendLost \/ SendDelayed(o)
    /\ UNCHANGED <<journalVars, position, today, controlVars>>

\* _poll_order: the state the order has at one of up to four polls.
Polled(o) == RemoteReport(o.id)

\* The polled order is journalled, then its status is kept with the intent.
RecordSubmission(o) ==
    LET r == Polled(o) IN
    /\ pc = "record"
    /\ o \in current
    /\ r.filled >= cursor[o.id]
    /\ cursor' = [cursor EXCEPT ![o.id] = r.filled]
    /\ submittedKeys' = RecordedKeys(r)
    /\ intents' = WithStatus(o.id, r.status)
    /\ pc' = "submit"
    /\ current' = {}
    /\ RefreshView
    /\ UNCHANGED <<authorized, protective, halted>>
    /\ UNCHANGED <<brokerVars, cycle, planned, ready, rows, seen, controlVars>>

\* A crash between the journal writes about one order: while synchronizing,
\* while preparing a retry, or while recording a submission.
CrashBetweenWrites(id) ==
    /\ "crash" \in Faults
    /\ Visible(id)
    /\ \/ pc \in {"sync", "halt_sync"}
       \/ pc = "filter" /\ \E o \in planned, n \in 1..MaxExitAttempts :
                               id = Attempt(o.id[1], n) /\ RetryKnown(o, n)
       \/ pc = "record" /\ \E o \in current : id = o.id
    /\ InterruptedSync(RemoteReport(id))
    /\ Leave
    /\ UNCHANGED <<brokerVars, controlVars>>

-----------------------------------------------------------------------------
(***************************************************************************)
(* _alpaca_protect: GTC stops for held positions.                          *)
(***************************************************************************)
ReadPositions ==
    /\ pc = "read_positions"
    /\ rows' = {s \in Symbols : position[s] # 0}
    /\ pc' = "read_orders"
    /\ UNCHANGED <<journalVars, brokerVars, cycle, view, planned, ready,
                   current, seen, controlVars>>

ReplaceableStop(id) ==
    id \in StopIds /\ orders[id].status = "new" /\ orders[id].filled = 0

\* Mutant: an order may be missing from the list.
Listing_Partial(s, ids) == ids \subseteq OpenSells(s) /\ Cardinality(ids) <= 1

\* _open_sell_orders_by_symbol keeps one open sell order per symbol.
Listing(s, ids) ==
    /\ ids \subseteq OpenSells(s)
    /\ Cardinality(ids) <= 1
    /\ ids = {} => OpenSells(s) = {}

\* A symbol whose open sell order is not an untouched stop is skipped.
ReadOpenOrders ==
    /\ pc = "read_orders"
    /\ \E listed \in [Symbols -> SUBSET UNION {OpenSells(s) : s \in Symbols}] :
         /\ \A s \in Symbols : Listing(s, listed[s])
         /\ seen' = listed
         /\ rows' = {s \in rows : /\ view[s] > 0
                                  /\ \A id \in listed[s] : ReplaceableStop(id)}
    /\ pc' = "protect"
    /\ UNCHANGED <<journalVars, brokerVars, cycle, view, planned, ready,
                   current, controlVars>>

Visited(s) ==
    /\ pc' = "protect"
    /\ rows' = rows \ {s}
    /\ UNCHANGED <<cycle, view, planned, ready, current, seen>>

\* A stop of the right quantity within a cent of the wanted price is kept, or
\* refused when it is below that price.
KeepStop(s, id) ==
    /\ pc = "protect"
    /\ s \in rows
    /\ id \in seen[s]
    /\ orders[id].quantity = view[s]
    /\ \/ MarkProtectiveOrder(s, id) /\ Visited(s)
       \/ Leave /\ UNCHANGED journalVars
    /\ UNCHANGED <<brokerVars, controlVars>>

\* replace_stop_order for a higher stop or another quantity; its answer may be
\* lost.  The successor keeps the id of the stop it replaces; its submission
\* date is today.
ReplaceStop(s, id) ==
    /\ pc = "protect"
    /\ s \in rows
    /\ id \in seen[s]
    /\ IF ReplaceableStop(id)
       THEN /\ orders' = [orders EXCEPT ![id].quantity = view[s],
                                        ![id].submitted = today]
            /\ \/ MarkProtectiveOrder(s, id) /\ Visited(s)
               \/ "lost_response" \in Faults /\ Leave /\ UNCHANGED journalVars
       ELSE /\ Leave
            /\ UNCHANGED <<journalVars, orders>>
    /\ UNCHANGED <<position, today, controlVars>>

StopId(s, n) == <<<<today, s, "stop">>, n>>

\* _protective_stop_attempt: attempts 1..n-1 ended without any execution.
AttemptsSpent(s, n) ==
    \A m \in 1..(n - 1) : /\ orders[StopId(s, m)].status = "canceled"
                          /\ orders[StopId(s, m)].filled = 0

NextStop(s, n) ==
    /\ n \in 1..MaxStopAttempts
    /\ AttemptsSpent(s, n)
    /\ ~(orders[StopId(s, n)].status = "canceled" /\ orders[StopId(s, n)].filled = 0)

\* No open sell order was listed: a new stop, an accepted one the list had
\* missed, or a refusal (unresolved or executed attempt, another quantity, a
\* lower stop, four attempts spent).
ChooseStop(s) ==
    /\ pc = "protect"
    /\ s \in rows
    /\ seen[s] = {}
    /\ \/ \E n \in 1..MaxStopAttempts :
            /\ NextStop(s, n)
            /\ ~Visible(StopId(s, n))
            /\ current' = {[id |-> StopId(s, n), quantity |-> view[s], risk |-> TRUE]}
            /\ pc' = "send_stop"
            /\ UNCHANGED <<journalVars, cycle, view, planned, ready, rows, seen>>
       \/ \E n \in 1..MaxStopAttempts :
            /\ NextStop(s, n)
            /\ ReplaceableStop(StopId(s, n))
            /\ orders[StopId(s, n)].quantity = view[s]
            /\ MarkProtectiveOrder(s, StopId(s, n))
            /\ Visited(s)
       \/ /\ \A n \in 1..MaxStopAttempts : NextStop(s, n) => Visible(StopId(s, n))
          /\ Leave
          /\ UNCHANGED journalVars
    /\ UNCHANGED <<brokerVars, controlVars>>

SendStop(o) ==
    LET s == SymbolOf(o.id) IN
    /\ pc = "send_stop"
    /\ o \in current
    /\ \/ /\ orders' = Delivered(o.id, o.quantity)
          /\ IF ReplaceableStop(o.id)' /\ orders'[o.id].quantity = o.quantity
             THEN /\ MarkProtectiveOrder(s, o.id)
                  /\ pc' = "protect"
                  /\ rows' = rows \ {s}
                  /\ current' = {}
                  /\ UNCHANGED <<cycle, view, planned, ready, seen>>
             ELSE Leave /\ UNCHANGED journalVars
       \/ /\ SendUnanswered(o) \/ SendLost \/ SendDelayed(o)
          /\ UNCHANGED journalVars
    /\ UNCHANGED <<position, today, controlVars>>

ProtectDone ==
    /\ pc = "protect"
    /\ rows = {}
    /\ Leave
    /\ UNCHANGED <<journalVars, brokerVars, controlVars>>

-----------------------------------------------------------------------------
(***************************************************************************)
(* reset-state, a process of its own: cli._reset_state takes no execution  *)
(* lock, so that with the fault "busy_reset" a user runs it while a cycle  *)
(* is in progress or a request is on its way.  Without it nobody does.     *)
(***************************************************************************)
Quiet == pc = "idle" /\ \A id \in OrderIds : orders[id].status # "in_flight"

Resetting(confirmed) ==
    /\ "reset" \in Commands
    /\ Quiet \/ "busy_reset" \in Faults
    /\ reset = confirmed
    /\ UNCHANGED <<brokerVars, pc, cycle, view, ready, current, rows, seen,
                   paused, pausedBuys>>

\* The refresh of its broker: refused while the account has positions.
ResetReadsPositions ==
    /\ Resetting("none")
    /\ \A s \in Symbols : position[s] = 0
    /\ reset' = "flat"
    /\ UNCHANGED <<journalVars, planned, archived>>

\* get_orders: refused while an order is open.
ResetReadsOrders ==
    /\ Resetting("flat")
    /\ reset' = IF \E id \in OrderIds : Live(id) THEN "none" ELSE "clear"
    /\ UNCHANGED <<journalVars, planned, archived>>

\* What a cycle in progress has read of the journal it archives: the orders
\* visited so far, or that the order at hand is a duplicate, whose retry then
\* finds no attempt to follow.
Overtaken ==
    \/ /\ pc \in {"sync", "reconcile", "halt_sync"}
       /\ archived' \in {"between", "within"}
       /\ UNCHANGED planned
    \/ /\ pc = "filter"
       /\ \E o \in planned : Duplicate(o) /\ planned' = planned \ {o}
       /\ UNCHANGED archived
    \/ /\ pc \notin {"sync", "reconcile", "halt_sync"}
       /\ UNCHANGED <<planned, archived>>

\* The process may die before the first file is archived, or between the files.
ArchiveJournal ==
    /\ Resetting("clear")
    /\ reset' = "none"
    /\ \/ ResetForAccount /\ Overtaken
       \/ "crash" \in Faults /\ InterruptedReset /\ Overtaken
       \/ "crash" \in Faults /\ UNCHANGED <<journalVars, planned, archived>>

ResetState == ResetReadsPositions \/ ResetReadsOrders \/ ArchiveJournal

-----------------------------------------------------------------------------
Broker ==
    \E id \in OrderIds : Fill(id) \/ EndOrder(id) \/ Arrive(id)

Environment ==
    \/ Broker \/ NextDay \/ SetPaused \/ ResetState \/ Crash
    \/ \E id \in OrderIds : CrashBetweenWrites(id)

Submission ==
    \/ \E o \in ready : BeginSell(o) \/ BeginBuy(o)
    \/ \E o \in current : \/ SellsCanceled(o) \/ SellsUnconfirmed(o)
                          \/ Revalidate(o) \/ Reserve(o) \/ Lookup(o)
                          \/ Send(o) \/ RecordSubmission(o)
    \/ BuyControl \/ CycleDone

Protection ==
    \/ ReadPositions \/ ReadOpenOrders \/ ProtectDone
    \/ \E s \in rows : \/ ChooseStop(s)
                       \/ \E id \in seen[s] : KeepStop(s, id) \/ ReplaceStop(s, id)
    \/ \E o \in current : SendStop(o)

Operator ==
    \/ \E command \in {"risk", "signal", "protect"} : BeginCycle(command)
    \/ \E id \in OrderIds : SyncOrder(id) \/ FinishOrder(id)
    \/ SyncDone \/ Reconcile \/ Assess
    \/ CancelBuys \/ BuysCanceled \/ BuysUnconfirmed \/ HaltSynced
    \/ Plan \/ FilterDone
    \/ \E o \in planned : Filter(o)
    \/ Submission
    \/ Protection

Next == Operator \/ Environment

Spec == Init /\ [][Next]_vars

-----------------------------------------------------------------------------
(***************************************************************************)
(* Properties.                                                             *)
(***************************************************************************)
Exits(key) == {Attempt(key, n) : n \in 1..MaxExitAttempts}

\* Orders the broker has, or will still receive, of a side.
Sent(id) == orders[id].status # "absent"

\* The shares under sell orders never exceed the shares held: an exit replaces
\* the stop, a retry replaces the attempt it follows, and a new stop is placed
\* only when neither is open (live._submit_order, _alpaca_protect).
ExitsWithinHoldings ==
    \A s \in Symbols : CommittedToSell(s) <= position[s]

\* A retry exists only when the attempt before it can no longer execute at the
\* broker, whatever the journal believes (live._prepare_risk_exit_retry).
RetryAfterDeadAttempt ==
    \A id \in ClientIds :
        AttemptOf(id) > 1 /\ Reserved(id) => orders[PreviousAttempt(id)].status = "canceled"

\* All attempts of one exit together never sell more than its first attempt
\* was reserved for, with partial fills racing the cancellations.
ChainWithinFirstAttempt ==
    \A s \in Symbols, d \in Days :
        LET key == <<d, s, "sell">> IN
        MapThenSumSet(LAMBDA id : orders[id].filled, Exits(key))
            <= intents[Attempt(key, 1)].quantity

\* The journal never records an execution or a final status that the broker
\* does not have: the cursor trails the fills, a terminal status is the
\* broker's own (reconcile.sync_broker_orders, live._submit_order).
JournalTrailsBroker ==
    \A id \in OrderIds :
        /\ cursor[id] <= orders[id].filled
        /\ Tracked(id) /\ intents[id].status \in TerminalStatuses =>
               orders[id].status = intents[id].status

\* A live order of the operator has its intent in the journal, so that a
\* restart finds it again by its client id, unless the journal is archived
\* while a cycle or a request is on its way (journal.reserve_order).
LiveOrdersHaveIntents ==
    \A id \in ClientIds : Live(id) => Reserved(id)

\* The broker never receives more BUY orders of one date than the cap allows,
\* with crashes, unanswered requests and, between the cycles and with no request
\* on its way, a reset of the journal (journal.reserve_order).
EntryCapAtBroker ==
    \A d \in Days :
        Cardinality({id \in ClientIds : DayOf(id) = d /\ SideOf(id) = "buy" /\ Sent(id)})
            <= MaxDailyOrders

\* After a STOP or STOP_BUYS file appears at most the one entry that had passed
\* its last control check is reserved (live._buy_control_rejection).
PauseBoundsBuys == paused => pausedBuys <= 1

\* While the drawdown halt is latched no entry is sent, and no exit is sent
\* while an entry could still execute (live._cancel_pending_buys_for_halt).
HaltedSubmissions ==
    [][\A id \in ClientIds :
           halted /\ ~Sent(id) /\ Sent(id)' =>
               SideOf(id) = "sell" /\ OpenBuys = {}]_vars

\* Every step changes the journal as one journal method does, for an order the
\* operator is working on and with a report the broker would make now, or not
\* at all: what is proved of OrderJournal holds of the operator's journal.
InWork ==
    {[o EXCEPT !.quantity = n] : o \in {p \in planned \cup current : p.id \in ClientIds},
                                 n \in 1..MaxQuantity}

JournalDiscipline ==
    JournalInit /\ [][/\ journalVars' # journalVars
                      /\ JournalStep(InWork, {RemoteReport(id) : id \in OrderIds})]_journalVars

\* The operator and the broker together keep the promise of ShareCustody: a
\* stop, the exit that replaces it and every retry are one offer at a time.
LiveSells(s) ==
    {id \in OrderIds : /\ SideOf(id) = "sell" /\ SymbolOf(id) = s
                       /\ Live(id) \/ orders[id].status = "in_flight"}

Custody == INSTANCE ShareCustody WITH
    Ids    <- {id \in OrderIds : SideOf(id) = "sell"},
    held   <- position,
    offers <- [s \in Symbols |->
                  {[id |-> id, left |-> orders[id].quantity - orders[id].filled] :
                       id \in LiveSells(s)}]

SharesInCustody == Custody!Spec

-----------------------------------------------------------------------------
(***************************************************************************)
(* Fairness: a cycle in progress goes on, the session starts risk cycles   *)
(* again and again, and the broker ends every DAY or IOC order and every   *)
(* order whose cancellation it accepted.                                   *)
(***************************************************************************)
CycleStep ==
    /\ pc # "idle"
    /\ Operator

Ends(id) ==
    /\ id \in ClientIds \/ orders[id].status = "pending_cancel"
    /\ Fill(id) \/ EndOrder(id)

Fairness ==
    /\ WF_vars(CycleStep)
    /\ SF_vars(BeginCycle("risk"))
    /\ \A id \in OrderIds : WF_vars(Ends(id))

FairSpec == Spec /\ Fairness

ExitSettled(s) ==
    LET exits == Exits(<<today, s, "sell">>) IN
    \/ \A id \in exits : Reserved(id)
    \/ \E id \in exits : orders[id].status = "filled"

\* Once the halt latches, every holding is liquidated, unless the three
\* attempts of the day are spent or one of them executed completely
\* (live.run_risk_once, live._prepare_risk_exit_retry).
HaltLiquidates ==
    \A s \in Symbols : halted ~> (position[s] = 0 \/ ExitSettled(s))

=============================================================================
