---------------------------- MODULE OrderJournal ----------------------------
(***************************************************************************)
(* The order journal of trading_bot/journal.py: the durable record (the    *)
(* state file bot_state.json and the cursors kept in fills.csv) that lets  *)
(* a single operator decide, before any network request, whether an order  *)
(* may be sent.                                                            *)
(*                                                                         *)
(* Every action below is one @_locked method of TradeJournal, or the body  *)
(* of one iteration of reconcile.sync_broker_orders.  A method that writes *)
(* once does so by an atomic replacement.  Those that write more than once *)
(* (fills.csv first, bot_state.json after it) have the crashes between     *)
(* their writes as the actions InterruptedSync and InterruptedReset.       *)
(* What the broker reports is an input: any status, any cumulative fill.   *)
(*                                                                         *)
(* An order key is "date:symbol:side"; a client order id is "bot-" and the *)
(* key, with "-retry-n" for the n-th attempt of a risk exit, or            *)
(* "bot-protect-symbol-date", with "-rn", for a protective stop.  Both are *)
(* modelled as <<<<day, symbol, kind>>, attempt>>.                         *)
(***************************************************************************)
EXTENDS Integers, FiniteSets

CONSTANTS
    Symbols,         \* the traded symbols
    Days,            \* the trading dates, as numbers
    MaxDailyOrders,  \* config.max_daily_orders, the daily cap on BUY orders
    MaxQuantity      \* the largest whole-share quantity of an order

ASSUME JournalAssumption ==
    /\ IsFiniteSet(Symbols)
    /\ Days \subseteq Nat
    /\ MaxDailyOrders \in Nat \ {0}
    /\ MaxQuantity \in Nat \ {0}

MaxExitAttempts == 3        \* _MAX_EXIT_ATTEMPTS
MaxStopAttempts == 4        \* range(1, 5) in cli._protective_stop_attempt

Sides      == {"buy", "sell"}
Keys       == Days \X Symbols \X Sides
ClientIds  == Keys \X (1..MaxExitAttempts)
StopIds    == (Days \X Symbols \X {"stop"}) \X (1..MaxStopAttempts)
OrderIds   == ClientIds \cup StopIds
Quantities == 0..MaxQuantity

DayOf(id)     == id[1][1]
SymbolOf(id)  == id[1][2]
SideOf(id)    == IF id[1][3] = "buy" THEN "buy" ELSE "sell"
AttemptOf(id) == id[2]

\* The key "date:symbol:side" of an order id on a given date.
DatedKey(day, id) == <<day, SymbolOf(id), SideOf(id)>>
Attempt(key, n)   == <<key, n>>
PreviousAttempt(id) == Attempt(id[1], AttemptOf(id) - 1)

\* Mutants: a partially filled order, or no canceled order, may be retried.
RetryableStatuses_Live == {"canceled", "expired", "rejected", "new"}
RetryableStatuses_Few  == {"expired", "rejected"}

RetryableStatuses == {"canceled", "expired", "rejected"}
TerminalStatuses  == RetryableStatuses \cup {"filled", "replaced"}
ActiveStatuses    == {"new", "partially_filled", "pending_cancel"}
RemoteStatuses    == TerminalStatuses \cup ActiveStatuses
\* "absent": no intent of that id; "reserved": an intent without a status.
IntentStatuses    == RemoteStatuses \cup {"absent", "reserved"}

VARIABLES
    submittedKeys,   \* submitted_order_keys
    intents,         \* order_intents: status and quantity of each client id
    authorized,      \* risk_exit_retry_authorizations: quantity, 0 when none
    cursor,          \* broker_filled_quantity of each order in fills.csv
    protective,      \* protective_orders: the tracked stop of each symbol
    halted           \* drawdown_halted

journalVars ==
    <<submittedKeys, intents, authorized, cursor, protective, halted>>

NoIntent == [status |-> "absent", quantity |-> 0]

JournalTypeOK ==
    /\ submittedKeys \subseteq Keys
    /\ intents \in [ClientIds -> [status : IntentStatuses, quantity : Quantities]]
    /\ authorized \in [ClientIds -> Quantities]
    /\ cursor \in [OrderIds -> Quantities]
    /\ protective \in [Symbols -> SUBSET StopIds]
    /\ halted \in BOOLEAN

JournalInit ==
    /\ submittedKeys = {}
    /\ intents = [id \in ClientIds |-> NoIntent]
    /\ authorized = [id \in ClientIds |-> 0]
    /\ cursor = [id \in OrderIds |-> 0]
    /\ protective = [s \in Symbols |-> {}]
    /\ halted = FALSE

-----------------------------------------------------------------------------
Reserved(id) == intents[id].status # "absent"

\* Mutant: counts executed entries instead of submitted ones.
BuyKeys_Executed(day) ==
    {k \in submittedKeys : k[1] = day /\ k[3] = "buy" /\ cursor[Attempt(k, 1)] > 0}

\* submitted_count_for_date(day, "buy"): keys, whoever marked them.
BuyKeys(day) == {k \in submittedKeys : k[1] = day /\ k[3] = "buy"}

\* _latest_exit_attempt: attempt n is the last of an unbroken retry history.
IsLatestAttempt(key, n) ==
    /\ n \in 1..MaxExitAttempts
    /\ \A m \in 1..n : Reserved(Attempt(key, m))
    /\ n < MaxExitAttempts => ~Reserved(Attempt(key, n + 1))

\* An order is [id, quantity, risk]; risk: its reason is a risk-exit reason.
RetryAdmissible(o) ==
    /\ SideOf(o.id) = "sell"
    /\ o.risk
    /\ 0 < o.quantity /\ o.quantity <= authorized[o.id]
    /\ AttemptOf(o.id) > 1
    /\ intents[PreviousAttempt(o.id)].status \in RetryableStatuses
    /\ IsLatestAttempt(o.id[1], AttemptOf(o.id) - 1)

FreshAdmissible(o) ==
    /\ o.id[1] \notin submittedKeys
    /\ AttemptOf(o.id) = 1

MayReserve(o) ==
    /\ SideOf(o.id) = "buy" => ~halted
    /\ ~Reserved(o.id)
    /\ IF authorized[o.id] > 0 THEN RetryAdmissible(o) ELSE FreshAdmissible(o)
    /\ SideOf(o.id) = "buy" =>
           Cardinality(BuyKeys(DayOf(o.id))) < MaxDailyOrders

\* Mutant: no intent is written.
ReserveOrder_NoIntent(o) ==
    /\ MayReserve(o)
    /\ submittedKeys' = submittedKeys \cup {o.id[1]}
    /\ UNCHANGED <<intents, authorized, cursor, protective, halted>>

\* reserve_order, when it returns True; when it returns False it writes
\* nothing.
ReserveOrder(o) ==
    /\ MayReserve(o)
    /\ submittedKeys' = submittedKeys \cup {o.id[1]}
    /\ intents' = [intents EXCEPT
           ![o.id] = [status |-> "reserved", quantity |-> o.quantity]]
    /\ authorized' = [authorized EXCEPT ![o.id] = 0]
    /\ UNCHANGED <<cursor, protective, halted>>

\* A broker report is [id, status, quantity, filled, filledOn, submitted].
\* The keys and cursor after record_broker_order: only new quantity is
\* journalled, under the date of the fill; a regressed quantity raises.
RecordedKeys(r) ==
    IF r.filled > cursor[r.id]
    THEN submittedKeys \cup {DatedKey(r.filledOn, r.id)}
    ELSE submittedKeys

RecordBrokerOrder(r) ==
    /\ r.filled >= cursor[r.id]
    /\ cursor' = [cursor EXCEPT ![r.id] = r.filled]
    /\ submittedKeys' = RecordedKeys(r)
    /\ UNCHANGED <<intents, authorized, protective, halted>>

\* Mutant: a canceled intent is dropped.
WithStatus_Drops(id, status) ==
    IF id \in ClientIds /\ Reserved(id)
    THEN [intents EXCEPT ![id] = IF status = "canceled" THEN NoIntent
                                 ELSE [@ EXCEPT !.status = status]]
    ELSE intents

WithStatus(id, status) ==
    IF id \in ClientIds /\ Reserved(id)
    THEN [intents EXCEPT ![id].status = status]
    ELSE intents

UpdateOrderStatus(id, status) ==
    /\ intents' = WithStatus(id, status)
    /\ UNCHANGED <<submittedKeys, authorized, cursor, protective, halted>>

\* Mutant: the whole quantity of the replaced attempt is retried.
Remaining_Whole(r) == r.quantity
Remaining(r) == r.quantity - r.filled

\* Mutant: the wanted quantity is authorized, whatever the attempt was for.
Authorized_Wanted(quantity, r) == quantity
Authorized(quantity, r) == LET left == Remaining(r) IN IF quantity < left THEN quantity ELSE left

\* prepare_risk_exit_retry for the order [key, quantity] and the directly
\* looked-up report r of the latest attempt n: journal a raced fill under the
\* old id, keep its terminal status, authorize attempt n + 1.
PrepareRiskExitRetry(key, n, quantity, r) ==
    /\ key[3] = "sell"
    /\ IsLatestAttempt(key, n)
    /\ n < MaxExitAttempts
    /\ r.id = Attempt(key, n)
    /\ r.quantity = intents[r.id].quantity
    /\ r.status \in RetryableStatuses
    /\ Remaining(r) > 0
    /\ r.filled >= cursor[r.id]
    /\ cursor' = [cursor EXCEPT ![r.id] = r.filled]
    /\ submittedKeys' = RecordedKeys(r)
    /\ intents' = [intents EXCEPT ![r.id].status = r.status]
    /\ authorized' = [authorized EXCEPT ![Attempt(key, n + 1)] =
                          Authorized(quantity, r)]
    /\ UNCHANGED <<protective, halted>>

\* The keys after synchronizing an order.  Mutant: mark_submitted is left out.
SyncedKeys_FillsOnly(r) == RecordedKeys(r)
SyncedKeys(r) == RecordedKeys(r) \cup {DatedKey(r.submitted, r.id)}

\* A filled stop is forgotten when it is the tracked one, or when no other sell
\* order of the symbol is active.
TrackedStops(r, otherActiveSell) ==
    IF /\ r.id \in StopIds
       /\ r.status = "filled"
       /\ (protective[SymbolOf(r.id)] = {r.id} \/ ~otherActiveSell)
    THEN [protective EXCEPT ![SymbolOf(r.id)] = {}]
    ELSE protective

\* One order of sync_broker_orders: record_broker_order, mark_submitted with
\* the date the broker accepted it, update_order_status, and for a filled
\* stop clear_protective_order.
SyncBrokerOrder(r, otherActiveSell) ==
    /\ r.filled >= cursor[r.id]
    /\ cursor' = [cursor EXCEPT ![r.id] = r.filled]
    /\ submittedKeys' = SyncedKeys(r)
    /\ intents' = WithStatus(r.id, r.status)
    /\ protective' = TrackedStops(r, otherActiveSell)
    /\ UNCHANGED <<authorized, halted>>

\* The same without its first write: what follows in a new journal when the
\* execution was recorded in the one just archived.
FinishSync(r, otherActiveSell) ==
    /\ submittedKeys' = submittedKeys \cup {DatedKey(r.submitted, r.id)}
    /\ intents' = WithStatus(r.id, r.status)
    /\ protective' = TrackedStops(r, otherActiveSell)
    /\ UNCHANGED <<authorized, cursor, halted>>

\* A crash between the writes of record_broker_order and its callers: the fill
\* and its cursor are committed, the keys, the status and the authorization
\* that follow are not, or only the keys.
InterruptedSync(r) ==
    /\ r.filled >= cursor[r.id]
    /\ cursor' = [cursor EXCEPT ![r.id] = r.filled]
    /\ submittedKeys' \in {submittedKeys, RecordedKeys(r), SyncedKeys(r)}
    /\ UNCHANGED <<intents, authorized, protective, halted>>

MarkProtectiveOrder(s, id) ==
    /\ protective' = [protective EXCEPT ![s] = {id}]
    /\ UNCHANGED <<submittedKeys, intents, authorized, cursor, halted>>

ClearProtectiveOrder(s) ==
    /\ protective' = [protective EXCEPT ![s] = {}]
    /\ UNCHANGED <<submittedKeys, intents, authorized, cursor, halted>>

\* update_drawdown_state with a breached threshold, or latch_risk_halt.
LatchHalt ==
    /\ halted' = TRUE
    /\ UNCHANGED <<submittedKeys, intents, authorized, cursor, protective>>

\* reset_for_account: the three files are archived and a fresh state starts.
ResetForAccount ==
    /\ submittedKeys' = {}
    /\ intents' = [id \in ClientIds |-> NoIntent]
    /\ authorized' = [id \in ClientIds |-> 0]
    /\ cursor' = [id \in OrderIds |-> 0]
    /\ protective' = [s \in Symbols |-> {}]
    /\ halted' = FALSE

\* A crash after fills.csv is archived and before bot_state.json is.
InterruptedReset ==
    /\ cursor' = [id \in OrderIds |-> 0]
    /\ UNCHANGED <<submittedKeys, intents, authorized, protective, halted>>

-----------------------------------------------------------------------------
Orders == [id : ClientIds, quantity : 1..MaxQuantity, risk : BOOLEAN]

Reports == [id : OrderIds, status : RemoteStatuses, quantity : Quantities,
            filled : Quantities, filledOn : Days, submitted : Days]

\* The journal methods, over the orders and the reports they are given.
JournalStep(orders, reports) ==
    \/ \E o \in orders : ReserveOrder(o)
    \/ \E r \in reports : RecordBrokerOrder(r)
    \/ \E r \in reports : UpdateOrderStatus(r.id, r.status)
    \/ \E o \in orders, n \in 1..MaxExitAttempts, r \in reports :
           PrepareRiskExitRetry(o.id[1], n, o.quantity, r)
    \/ \E r \in reports, active \in BOOLEAN : SyncBrokerOrder(r, active)
    \/ \E r \in reports, active \in BOOLEAN : FinishSync(r, active)
    \/ \E r \in reports : InterruptedSync(r)
    \/ \E s \in Symbols, r \in reports :
           r.id \in StopIds /\ MarkProtectiveOrder(s, r.id)
    \/ \E s \in Symbols : ClearProtectiveOrder(s)
    \/ LatchHalt
    \/ ResetForAccount
    \/ InterruptedReset

JournalNext == JournalStep(Orders, Reports)

JournalSpec == JournalInit /\ [][JournalNext]_journalVars

-----------------------------------------------------------------------------
ReservedBuys(day) ==
    {k \in Keys : k[1] = day /\ k[3] = "buy" /\ Reserved(Attempt(k, 1))}

\* The daily cap holds for the BUY intents ever reserved for a date, although
\* reserve_order counts keys, which synchronisation also adds, and never the
\* intents themselves (journal.reserve_order, submitted_count_for_date).
DailyBuyCap ==
    \A day \in Days : Cardinality(ReservedBuys(day)) <= MaxDailyOrders

\* Every reserved intent has its key in submitted_order_keys: the strengthening
\* that makes counting keys count intents.
IntentsHaveKeys ==
    \A id \in ClientIds : Reserved(id) => id[1] \in submittedKeys

\* The attempts of one key form one chain: a retry exists only for a sell,
\* only after all earlier attempts, never for more shares than the attempt it
\* replaces (journal.prepare_risk_exit_retry, journal.reserve_order).
ExitChain ==
    \A key \in Keys, n \in 2..MaxExitAttempts :
        Reserved(Attempt(key, n)) =>
            /\ key[3] = "sell"
            /\ Reserved(Attempt(key, n - 1))
            /\ intents[Attempt(key, n)].quantity
                   <= intents[Attempt(key, n - 1)].quantity

\* An outstanding authorization is for the attempt right after the latest
\* one, for a sell, and for no more than the replaced attempt's quantity:
\* none survives the reservation that uses it.
AuthorizationSound ==
    \A key \in Keys, n \in 1..MaxExitAttempts :
        authorized[Attempt(key, n)] > 0 =>
            /\ key[3] = "sell"
            /\ n > 1
            /\ ~Reserved(Attempt(key, n))
            /\ Reserved(Attempt(key, n - 1))
            /\ authorized[Attempt(key, n)]
                   <= intents[Attempt(key, n - 1)].quantity

\* A reserved intent is never dropped or resized, and a latched halt is never
\* released, except by archiving the whole journal, which leaves no intent and
\* no reserved key behind (journal.reset_for_account).
DurableUntilArchived ==
    [][\/ /\ halted => halted'
          /\ submittedKeys \subseteq submittedKeys'
          /\ \A id \in ClientIds : Reserved(id) =>
                 Reserved(id)' /\ intents'[id].quantity = intents[id].quantity
       \/ /\ submittedKeys' = {}
          /\ ~halted'
          /\ \A id \in ClientIds : ~Reserved(id)']_journalVars

=============================================================================
