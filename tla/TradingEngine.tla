---------------------------- MODULE TradingEngine ---------------------------
(***************************************************************************)
(* TradingEngine.run (trading_bot/engine.py): the plain backtest, one       *)
(* session at a time.  The orders planned at one close are filled at the    *)
(* next open, each bar's stops follow, and the equity at the close either   *)
(* latches the drawdown halt or admits a new plan.                          *)
(***************************************************************************)
EXTENDS PaperAccount

CONSTANTS Days, TradeStart,   \* the last day, and the first one after the warm-up
          BarChoices,         \* of each symbol: [open, low, high, close]
          SignalChoices       \* [sells, buys]: what strategy and advisor may say

VARIABLES day, phase,
          bars,       \* today's bar of each symbol, NoBar for a missing one
          account, latest, highs, pending, stopped, peak, halted

vars == <<day, phase, bars, account, latest, highs, pending, stopped, peak, halted>>

NoBar   == [open |-> 0, low |-> 0, high |-> 0, close |-> 0]
Trades(s) == bars[s] # NoBar

Init ==
    /\ day = 0 /\ phase = "night"
    /\ bars = [s \in Symbols |-> NoBar]
    /\ account = NewAccount
    /\ latest = [s \in Symbols |-> 0] /\ highs = [s \in Symbols |-> 0]
    /\ pending = <<>> /\ stopped = {}
    /\ peak = StartingCash /\ halted = FALSE

\* The next date some symbol has a bar of.
NewDay ==
    /\ phase = "night" /\ day < Days
    /\ \E today \in [Symbols -> UNION {BarChoices[s] : s \in Symbols} \cup {NoBar}] :
           /\ \A s \in Symbols : today[s] \in BarChoices[s] \cup {NoBar}
           /\ \E s \in Symbols : today[s] # NoBar
           /\ bars' = today
    /\ day' = day + 1 /\ phase' = "open"
    /\ UNCHANGED <<account, latest, highs, pending, stopped, peak, halted>>

\* One pending order at the open: it expires without a bar, and a buy is sized
\* again at the opening marks.
FillAtOpen(state, order) ==
    LET s        == order.symbol
        held     == state.account.quantity[s]
        marks    == [t \in Symbols |-> IF Trades(t) THEN bars[t].open ELSE latest[t]]
        quantity == IF order.side = "sell" THEN order.quantity
                    ELSE Least(order.quantity,
                               MaxBuyQuantity(bars[s].open, Equity(state.account, marks),
                                              state.account.cash, held))
        after    == Submit(state.account, [order EXCEPT !.quantity = quantity],
                           bars[s].open, day)
    IN  IF ~Trades(s) \/ quantity <= 0 THEN state
        ELSE [account |-> after,
              highs   |-> IF order.side = "buy" /\ after # state.account /\ held = 0
                          THEN [state.highs EXCEPT ![s] = BuyPrice(bars[s].open)]
                          ELSE state.highs]

ExecuteOrders ==
    /\ phase = "open"
    /\ LET filled == FoldLeft(FillAtOpen, [account |-> account, highs |-> highs], pending)
       IN  /\ account' = filled.account
           /\ highs' = [s \in Symbols |->
                          IF filled.account.quantity[s] > 0 THEN filled.highs[s] ELSE 0]
    /\ pending' = <<>>
    /\ latest' = [s \in Symbols |-> IF Trades(s) THEN bars[s].close ELSE latest[s]]
    /\ phase' = IF day < TradeStart THEN "night" ELSE "close"
    /\ UNCHANGED <<day, bars, stopped, peak, halted>>

\* The stops today's bar reaches, at the highs of the days before; then today's.
HighOf(s) == IF highs[s] > 0 THEN highs[s] ELSE account.cost[s]
StopOf(s) == StopFill(account.cost[s], HighOf(s), bars[s])

BarStops ==
    /\ phase = "close"
    /\ LET hit   == {s \in Held(account) : Trades(s) /\ StopOf(s) > 0}
           after == FoldLeft(LAMBDA acc, s : Sold(acc, s, acc.quantity[s], StopOf(s), day),
                             account, SetToSeq(hit))
       IN  /\ account' = after /\ stopped' = hit
           /\ highs' = [s \in Symbols |-> IF after.quantity[s] = 0 THEN 0
                                           ELSE Greatest(HighOf(s), bars[s].high)]
    /\ phase' = "assess"
    /\ UNCHANGED <<day, bars, latest, pending, peak, halted>>

\* Equity at the close: a drawdown latches the halt, and a halted run only sells.
Assess ==
    /\ phase = "assess"
    /\ LET equity  == Equity(account, latest)
           highest == Greatest(peak, equity)
       IN  /\ peak' = highest
           /\ halted' = (halted \/ 100 * (highest - equity) >= highest * MaxDrawdownPct)
           /\ \/ halted' /\ pending' = LiquidationOrders(account)
              \/ /\ ~halted'
                 /\ \E said \in SignalChoices :
                      LET counts == {s \in Symbols : Trades(s)} \ stopped IN
                      pending' = BuildOrderPlan(account, latest, equity, day,
                                     Only(said.sells, counts), Only(said.buys, counts))
    /\ stopped' = {} /\ phase' = "night"
    /\ UNCHANGED <<day, bars, account, latest, highs>>

Next == NewDay \/ ExecuteOrders \/ BarStops \/ Assess

Spec == Init /\ [][Next]_vars
=============================================================================
