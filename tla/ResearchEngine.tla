--------------------------- MODULE ResearchEngine ---------------------------
(***************************************************************************)
(* CorporateActionResearchEngine.run (trading_bot/research_accounting.py):  *)
(* the backtest on raw prices, where dividends and splits take effect at    *)
(* their dates, ahead of the open.                                          *)
(***************************************************************************)
EXTENDS PaperAccount

CONSTANTS Days, TradeStart, BarChoices, SignalChoices,
          ActionChoices,      \* [kind |-> "split", new, old] or [kind |-> "dividend", amount, delay]
          MaxActions          \* bound on the corporate actions of a behaviour

\* A split changes the share count; a dividend is positive and never payable before its ex-date.
ValidAction(a) ==
    \/ a.kind = "split" /\ {a.new, a.old} \subseteq Nat \ {0} /\ a.new # a.old
    \/ a.kind = "dividend" /\ a.amount \in Nat \ {0} /\ a.delay \in Nat

ASSUME ActionsAssumption == \A a \in ActionChoices : ValidAction(a)

\* validate_market_data: every price of a bar is positive.
Bars == [open : Nat \ {0}, low : Nat \ {0}, high : Nat \ {0}, close : Nat \ {0}]

ASSUME MarketAssumption ==
    /\ Days \in Nat /\ TradeStart \in Nat /\ MaxActions \in Nat
    /\ \A s \in Symbols : BarChoices[s] \subseteq Bars
    /\ \A said \in SignalChoices : said.sells \in Seq(Symbols) /\ said.buys \in Seq(Symbols)

VARIABLES day, phase, bars, account, latest, highs, pending, stopped, peak, halted,
          events,         \* today's corporate action of each symbol, NoAction for none
          receivables,    \* dividends not paid yet: [symbol, ex, due, amount]
          actions,        \* how many corporate actions there have been
          policy          \* fractional_split_policy: "reject" or "cash_at_open"

engine    == <<account, latest, highs, pending, stopped, peak, halted>>
corporate == <<events, receivables, actions, policy>>
vars      == <<day, phase, bars, engine, corporate>>

NoBar     == [open |-> 0, low |-> 0, high |-> 0, close |-> 0]
NoAction  == [kind |-> "none"]
Trades(s) == bars[s] # NoBar

EventsOf(kind) == {s \in Symbols : events[s].kind = kind}

\* What the unpaid dividends come to, and equity with it.
Accrued == MapThenSumSet(LAMBDA item : item.amount, receivables)
Worth(acc, marks) == Equity(acc, marks) + Accrued

TypeOK ==
    /\ day \in 0..Days /\ phase \in {"night", "dividends", "splits", "open", "close", "assess", "failed"}
    /\ account.cash \in Nat /\ account.quantity \in [Symbols -> Nat]
    /\ {latest, highs, account.cost} \subseteq [Symbols -> Nat]
    /\ \A i \in DOMAIN pending : pending[i].quantity \in Nat \ {0} /\ pending[i].side \in {"buy", "sell"}
    /\ stopped \subseteq Symbols /\ peak \in Nat /\ halted \in BOOLEAN
    /\ actions \in 0..MaxActions /\ policy \in {"reject", "cash_at_open"}

Init ==
    /\ day = 0 /\ phase = "night" /\ bars = [s \in Symbols |-> NoBar]
    /\ account = NewAccount
    /\ latest = [s \in Symbols |-> 0] /\ highs = [s \in Symbols |-> 0]
    /\ pending = <<>> /\ stopped = {}
    /\ peak = StartingCash /\ halted = FALSE
    /\ events = [s \in Symbols |-> NoAction] /\ receivables = {} /\ actions = 0
    /\ policy \in {"reject", "cash_at_open"}

\* What a validated ledger has for a date: at most one action of a symbol, and
\* only beside a bar to execute at.
LegalActions(today, due) ==
    LET acting == {s \in Symbols : due[s] # NoAction} IN
    /\ \A s \in acting : today[s] # NoBar
    /\ actions + Cardinality(acting) <= MaxActions
    /\ actions' = actions + Cardinality(acting)

\* The next date with a bar.
NewDay ==
    /\ phase = "night" /\ day < Days
    /\ \E today \in [Symbols -> UNION {BarChoices[s] : s \in Symbols} \cup {NoBar}],
          due   \in [Symbols -> ActionChoices \cup {NoAction}] :
          /\ \A s \in Symbols : today[s] \in BarChoices[s] \cup {NoBar}
          /\ \E s \in Symbols : today[s] # NoBar
          /\ LegalActions(today, due)
          /\ bars' = today /\ events' = due
    /\ day' = day + 1 /\ phase' = "dividends"
    /\ UNCHANGED <<engine, receivables, policy>>

-----------------------------------------------------------------------------
\* The holder entering the ex-date is owed the dividend; what is due is paid.
Dividends ==
    /\ phase = "dividends"
    /\ LET accrued == {[symbol |-> s, ex |-> day, due |-> day + events[s].delay,
                        amount |-> account.quantity[s] * events[s].amount] :
                          s \in EventsOf("dividend") \cap Held(account)}
           owed    == receivables \cup accrued
           payable == {item \in owed : item.due <= day}
       IN  /\ account' = [account EXCEPT !.cash =
                             @ + MapThenSumSet(LAMBDA item : item.amount, payable)]
           /\ receivables' = owed \ payable
    /\ phase' = "splits"
    /\ UNCHANGED <<day, bars, latest, highs, pending, stopped, peak, halted, events, actions, policy>>

\* A split of one symbol: a whole number of shares is kept, the remainder is
\* sold at the open or, by the other policy, ends the run.
Remainder(acc, s) == (acc.quantity[s] * events[s].new) % events[s].old

InLieu(acc, s) == IF Remainder(acc, s) = 0 THEN 0
                  ELSE (Remainder(acc, s) * SellPrice(bars[s].open)) \div events[s].old - Commission

Rescaled(value, s) == (value * events[s].old) \div events[s].new

\* Mutant: the average cost stays at its price before the split.
SplitPosition_KeepsCost(acc, s) ==
    LET whole == (acc.quantity[s] * events[s].new) \div events[s].old IN
    [acc EXCEPT !.quantity[s] = whole, !.cash = @ + InLieu(acc, s),
                !.exit[s] = IF Remainder(acc, s) = 0 THEN @ ELSE day]

SplitPosition(acc, s) ==
    LET whole == (acc.quantity[s] * events[s].new) \div events[s].old IN
    IF acc.quantity[s] = 0 THEN acc
    ELSE [acc EXCEPT !.quantity[s] = whole,
                     !.cost[s] = IF whole = 0 THEN 0 ELSE Rescaled(@, s),
                     !.cash = @ + InLieu(acc, s),
                     !.exit[s] = IF Remainder(acc, s) = 0 THEN @ ELSE day]

Rejected(acc, s) == Remainder(acc, s) # 0 /\ (policy = "reject" \/ acc.cash + InLieu(acc, s) < 0)

\* Mutant: orders keep the share count they were planned with.
SplitOrders_Unscaled(orders) == orders

\* The pending orders of the symbol, those that come to no share dropped.
SplitOrders(orders) ==
    LET rescale(order) ==
            IF order.symbol \notin EventsOf("split") THEN order
            ELSE [order EXCEPT !.quantity =
                     (@ * events[order.symbol].new) \div events[order.symbol].old]
        rescaled == [i \in DOMAIN orders |-> rescale(orders[i])]
    IN  Only(rescaled, {order \in ToSet(rescaled) : order.quantity > 0})

Splits ==
    /\ phase = "splits"
    /\ LET split == SetToSeq(EventsOf("split"))
           steps == [i \in 0..Len(split) |->
                        FoldLeft(SplitPosition, account, SubSeq(split, 1, i))]
           scaled(values) == [s \in Symbols |->
                        IF s \in EventsOf("split") THEN Rescaled(values[s], s) ELSE values[s]]
       IN  IF \E i \in DOMAIN split : Rejected(steps[i - 1], split[i])
           THEN phase' = "failed" /\ UNCHANGED engine
           ELSE /\ account' = steps[Len(split)]
                /\ latest' = scaled(latest) /\ highs' = scaled(highs)
                /\ pending' = SplitOrders(pending)
                /\ phase' = "open"
                /\ UNCHANGED <<stopped, peak, halted>>
    /\ UNCHANGED <<day, bars, corporate>>

-----------------------------------------------------------------------------
\* The orders left from the last close meet today's opens.
OpeningMarks == [s \in Symbols |-> IF Trades(s) THEN bars[s].open ELSE latest[s]]

\* Mutant: the limits are taken of the equity at the last closes.
AffordableAtOpen_StaleMarks(acc, order) ==
    LET s == order.symbol IN
    Least(order.quantity, MaxBuyQuantity(bars[s].open, Worth(acc, latest),
                                         acc.cash, acc.quantity[s]))

AffordableAtOpen(acc, order) ==
    LET s == order.symbol IN
    Least(order.quantity, MaxBuyQuantity(bars[s].open, Worth(acc, OpeningMarks),
                                         acc.cash, acc.quantity[s]))

\* Mutant: adding to a position forgets the high it has reached.
Execute_HighOnAdd(state, order) ==
    LET s    == order.symbol
        size == IF order.side = "buy" THEN AffordableAtOpen(state.account, order) ELSE order.quantity
        next == Submit(state.account, Order(s, order.side, size), bars[s].open, day)
    IN  IF bars[s] = NoBar \/ size <= 0 THEN state
        ELSE [account |-> next,
              highs |-> [state.highs EXCEPT ![s] =
                            IF order.side = "buy" THEN BuyPrice(bars[s].open) ELSE @]]

Execute(state, order) ==
    LET s    == order.symbol
        size == IF order.side = "buy" THEN AffordableAtOpen(state.account, order) ELSE order.quantity
        next == Submit(state.account, Order(s, order.side, size), bars[s].open, day)
        entered == state.account.quantity[s] = 0 /\ next.quantity[s] > 0
    IN  IF bars[s] = NoBar \/ size <= 0 THEN state
        ELSE [account |-> next,
              highs |-> [state.highs EXCEPT ![s] = IF entered THEN BuyPrice(bars[s].open) ELSE @]]

ExecuteOrders ==
    /\ phase = "open"
    /\ LET state == FoldLeft(Execute, [account |-> account, highs |-> highs], pending) IN
       /\ account' = state.account
       /\ highs' = [s \in Symbols |-> IF s \in Held(state.account) THEN state.highs[s] ELSE 0]
    /\ pending' = <<>>
    /\ latest' = [s \in Symbols |-> IF Trades(s) THEN bars[s].close ELSE latest[s]]
    /\ phase' = IF day >= TradeStart THEN "close" ELSE "night"
    /\ UNCHANGED <<day, bars, stopped, peak, halted, corporate>>

\* Bar stops, at the highs known before today; then today's high counts.
HighOf(s) == IF highs[s] = 0 THEN account.cost[s] ELSE highs[s]

BarStops ==
    /\ phase = "close"
    /\ LET fill(s) == StopFill(account.cost[s], HighOf(s), bars[s])
           sold  == {s \in Held(account) : bars[s] # NoBar /\ fill(s) > 0}
           after == FoldLeft(LAMBDA acc, s : Submit(acc, Order(s, "sell", acc.quantity[s]), fill(s), day),
                             account, SetToSeq(sold))
       IN  /\ account' = after
           /\ stopped' = sold
           /\ highs' = [s \in Symbols |-> IF s \notin Held(after) THEN 0
                                          ELSE Greatest(HighOf(s), bars[s].high)]
    /\ phase' = "assess"
    /\ UNCHANGED <<day, bars, latest, pending, peak, halted, corporate>>

\* Drawdown counts the unpaid dividends; a halt is never lifted.
Assess ==
    /\ phase = "assess"
    /\ LET worth == Worth(account, latest)
           top   == Greatest(peak, worth)
           counts == {s \in Symbols : bars[s] # NoBar /\ s \notin stopped}
       IN  /\ peak' = top
           /\ halted' = (halted \/ 100 * (top - worth) >= MaxDrawdownPct * top)
           /\ IF halted' THEN pending' = LiquidationOrders(account)
              ELSE \E said \in SignalChoices :
                     pending' = BuildOrderPlan(account, latest, worth, day,
                                    Only(said.sells, counts), Only(said.buys, counts))
    /\ stopped' = {} /\ phase' = "night"
    /\ UNCHANGED <<day, bars, account, latest, highs, corporate>>

Next == NewDay \/ Dividends \/ Splits \/ ExecuteOrders \/ BarStops \/ Assess

Spec == Init /\ [][Next]_vars

-----------------------------------------------------------------------------
\* Once the drawdown stop has latched, every share held at a close is on sale
\* at the next open and nothing is bought any more, whatever a split does to
\* position and order in between.
HaltedHoldingsOnSale ==
    halted =>
        /\ \A i \in DOMAIN pending : pending[i].side = "sell"
        /\ phase \in {"night", "dividends", "splits", "open"} =>
              \A s \in Held(account) : \E i \in DOMAIN pending :
                  pending[i].symbol = s /\ pending[i].quantity = account.quantity[s]

\* A gap between the close an order was sized at and the open it is filled at
\* never spends the cash reserve, nor lifts the position over its share of
\* equity, when several orders of one plan are filled at the same open.
PositionWithinShare(s) ==
    100 * account'.quantity[s] * bars[s].open <= PositionPct * Worth(account, OpeningMarks)

OpeningBuysKeepLimits ==
    [][\A s \in Symbols :
          phase = "open" /\ account'.quantity[s] > account.quantity[s] =>
              /\ 100 * account'.cash >= TargetCashPct * Worth(account', OpeningMarks)
              /\ PositionWithinShare(s)]_vars

\* Corporate actions create and destroy no wealth: before any trade of the day,
\* what the account is worth at the last marks has grown by the dividends of the
\* shares held overnight alone (where no tick is rounded away), and each position's
\* mark, cost and trailing high are worth what they were (fractions apart), so
\* that no split can look like a drawdown or reach a stop.
NoFraction == \A s \in EventsOf("split") : Remainder(account, s) = 0
WholeTicks == \A s \in EventsOf("split") : (latest[s] * events[s].old) % events[s].new = 0

Entitlements ==
    IF phase # "dividends" THEN 0
    ELSE MapThenSumSet(LAMBDA s : account.quantity[s] * events[s].amount, EventsOf("dividend"))

SameValue(s, values, next) ==   \* up to a tick per share
    account.quantity[s] * values[s] - account'.quantity[s] * next[s] \in 0..account'.quantity[s]

CorporateActionsAreNeutral ==
    [][(phase \in {"dividends", "splits"} /\ phase' # "failed" /\ NoFraction) =>
          /\ WholeTicks => Worth(account, latest)' = Worth(account, latest) + Entitlements
          /\ \A s \in Symbols : /\ SameValue(s, latest, latest')
                               /\ SameValue(s, account.cost, account'.cost)
                               /\ SameValue(s, highs, highs')]_vars

\* Until the first corporate action this engine decides and trades as the plain
\* one does ("Same strategy/risk planning as TradingEngine").
Plain == INSTANCE TradingEngine WITH
             phase <- IF phase \in {"dividends", "splits"} THEN "open" ELSE phase

SameAsTradingEngine ==
    Plain!Init /\ [][actions' = 0 => Plain!Next]_(Plain!vars)
=============================================================================
