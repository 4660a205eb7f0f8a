---------------------------- MODULE PaperAccount ----------------------------
(***************************************************************************)
(* The simulated account of a backtest and the orders a plan makes for it  *)
(* (trading_bot/broker.py, portfolio.py).                                  *)
(*                                                                         *)
(* Money is in whole ticks and shares are whole; percentages are applied   *)
(* without rounding, by comparing hundredfold amounts; slippage, average    *)
(* cost and stop prices are rounded down to a tick.                        *)
(***************************************************************************)
EXTENDS Integers, Sequences, FiniteSets, SequencesExt, FiniteSetsExt

CONSTANTS Symbols,
          StartingCash, SlippageBps, Commission,
          OrderPct, PositionPct, TargetCashPct, MinTradeValue,
          StopLossPct, TrailingPct, MaxDrawdownPct,
          MaxOpenPositions, MaxDailyOrders, CooldownDays, AllowPositionAdds

\* BotConfig.validate: what a configuration must satisfy before anything runs.
ValidConfig ==
    /\ IsFiniteSet(Symbols)
    /\ StartingCash \in Nat \ {0} /\ {Commission, MinTradeValue} \subseteq Nat
    /\ SlippageBps \in 0..9999 /\ AllowPositionAdds \in BOOLEAN
    /\ {OrderPct, PositionPct} \subseteq 1..100 /\ TargetCashPct \in 0..99
    /\ {StopLossPct, TrailingPct, MaxDrawdownPct} \subseteq 1..99
    /\ {MaxOpenPositions, MaxDailyOrders} \subseteq Nat \ {0} /\ CooldownDays \in Nat

ASSUME AccountAssumption == ValidConfig

\* An account is [cash, quantity, cost, exit]: the shares, their average cost
\* and the date of the last sell of each symbol (0 for none).
NewAccount ==
    [cash |-> StartingCash, quantity |-> [s \in Symbols |-> 0],
     cost |-> [s \in Symbols |-> 0], exit |-> [s \in Symbols |-> 0]]

Held(account) == {s \in Symbols : account.quantity[s] > 0}

\* Those entries of a list that are in a set, in their order.
Only(list, set) ==
    FoldLeft(LAMBDA kept, x : IF x \in set THEN Append(kept, x) ELSE kept, <<>>, list)

Least(x, y)    == IF x < y THEN x ELSE y
Greatest(x, y) == IF x > y THEN x ELSE y

\* _execution_price of a buy and of a sell.
BuyPrice(price)  == price + (price * SlippageBps) \div 10000
SellPrice(price) == price - (price * SlippageBps) \div 10000

\* snapshot: equity at the prices of what is held.
Equity(account, prices) ==
    account.cash + MapThenSumSet(LAMBDA s : account.quantity[s] * prices[s], Held(account))

-----------------------------------------------------------------------------
\* submit: a buy that the cash does not cover, and a sell of nothing or whose
\* commission the cash does not cover, leave the account as it is.
Bought(account, s, quantity, price) ==
    LET value == quantity * BuyPrice(price)
        total == account.quantity[s] + quantity
    IN  IF value + Commission > account.cash THEN account
        ELSE [account EXCEPT
                 !.cash = @ - value - Commission,
                 !.quantity[s] = total,
                 !.cost[s] = (@ * account.quantity[s] + value) \div total]

Sold(account, s, quantity, price, day) ==
    LET shares   == Least(quantity, account.quantity[s])
        proceeds == shares * SellPrice(price) - Commission
    IN  IF shares <= 0 \/ account.cash + proceeds < 0 THEN account
        ELSE [account EXCEPT
                 !.cash = @ + proceeds,
                 !.quantity[s] = @ - shares,
                 !.cost[s] = IF shares = account.quantity[s] THEN 0 ELSE @,
                 !.exit[s] = day]

Submit(account, order, price, day) ==
    IF order.side = "buy" THEN Bought(account, order.symbol, order.quantity, price)
    ELSE Sold(account, order.symbol, order.quantity, price, day)

\* max_buy_quantity: the order, cash and position limits at these marks, for
\* the shares and the commission together.
Budget(price, equity, cash, held) ==
    Least(equity * OrderPct,
          Least(Greatest(0, 100 * cash - equity * TargetCashPct),
                Greatest(0, equity * PositionPct - 100 * held * price)))

MaxBuyQuantity(price, equity, cash, held) ==
    LET budget   == Budget(price, equity, cash, held)
        quantity == Greatest(0, budget - 100 * Commission) \div (100 * BuyPrice(price))
    IN  IF quantity * price >= MinTradeValue THEN quantity ELSE 0

-----------------------------------------------------------------------------
\* build_order_plan.  Sells and buys are the symbols with a signal that counts,
\* in the order of their confidence, at most one signal for each.
CoolingDown(account, s, day) ==
    /\ CooldownDays > 0 /\ account.exit[s] > 0
    /\ day - account.exit[s] <= CooldownDays

Order(s, side, quantity) == [symbol |-> s, side |-> side, quantity |-> quantity]

SellOrders(account, sells) ==
    LET held == Only(sells, Held(account))
    IN  [i \in DOMAIN held |-> Order(held[i], "sell", account.quantity[held[i]])]

\* One more buy signal of a plan with its orders, remaining cash and open
\* positions; a held symbol is added to only where the configuration allows it
\* and the price is above its fixed stop.
MayEnter(plan, s, account, day) ==
    /\ account.quantity[s] = 0
    /\ ~CoolingDown(account, s, day)
    /\ plan.positions < MaxOpenPositions

MayAdd(s, account, price) ==
    /\ account.quantity[s] > 0 /\ AllowPositionAdds
    /\ 100 * price > account.cost[s] * (100 - StopLossPct)

AddBuy(plan, s, account, prices, equity, day) ==
    LET quantity == MaxBuyQuantity(prices[s], equity, plan.cash, account.quantity[s])
        new      == account.quantity[s] = 0
    IN  IF /\ plan.buys < MaxDailyOrders
           /\ MayEnter(plan, s, account, day) \/ MayAdd(s, account, prices[s])
           /\ quantity > 0
        THEN [orders    |-> Append(plan.orders, Order(s, "buy", quantity)),
              buys      |-> plan.buys + 1,
              cash      |-> plan.cash - quantity * BuyPrice(prices[s]) - Commission,
              positions |-> plan.positions + (IF new THEN 1 ELSE 0)]
        ELSE plan

BuildOrderPlan(account, prices, equity, day, sells, buys) ==
    FoldLeft(LAMBDA plan, s : AddBuy(plan, s, account, prices, equity, day),
             [orders |-> SellOrders(account, sells), buys |-> 0, cash |-> account.cash,
              positions |-> Cardinality(Held(account))],
             buys).orders

\* bar_stop_orders: the better of the fixed and the trailing stop of a held
\* symbol, hit at the open or during the bar; 0 when it is not hit.
StopPrice(cost, high) ==
    Greatest(cost * (100 - StopLossPct),
             IF high > cost THEN high * (100 - TrailingPct) ELSE 0) \div 100

StopFill(cost, high, bar) ==
    LET stop == StopPrice(cost, high) IN
    IF bar.open <= stop THEN bar.open ELSE IF bar.low <= stop THEN stop ELSE 0

\* account_drawdown_orders: everything that is held.
LiquidationOrders(account) ==
    LET held == SetToSeq(Held(account))
    IN  [i \in DOMAIN held |-> Order(held[i], "sell", account.quantity[held[i]])]
=============================================================================
