----------------------------- MODULE LiveRisk -----------------------------
(***************************************************************************)
(* The loss baseline of the live pilot (trading_bot/live_trading.py,       *)
(* fx_budget.py).                                                          *)
(*                                                                         *)
(* refresh() reads the account, loads the euro reference rate and observes *)
(* the risk: it lists the account's non-trade activities, subtracts the    *)
(* external cash flows from the equity, marks the rest in euros, raises    *)
(* the peak and the day's peak, and latches a halt when either loss limit  *)
(* is reached.  An entry is sent only directly after a refresh and only if *)
(* nothing forbids it.  The baseline lives in live-risk.json, the halt in  *)
(* that file and in the journal, the fact of a first initialization in the *)
(* journal as well; a crash may separate the three writes.                 *)
(*                                                                         *)
(* The account is external: prices move its assets, and cash activities    *)
(* are booked, corrected and withdrawn at any moment, also between two of  *)
(* the operator's requests.                                                *)
(***************************************************************************)
EXTENDS Integers, Sequences, SequencesExt, FiniteSetsExt

CONSTANTS Assets,         \* values in USD the account may have without cash flows
          Amounts,        \* amounts in USD of an external cash flow
          Rates,          \* USD per EUR
          Scale,          \* unit of the euro values: a multiple of every rate
          MaxAge,         \* days for which a reference rate is fresh
          MaxTotalLoss, MaxDailyLoss,  \* the policy's limits, in 1/Scale EUR
          MaxActivities, MaxDay, MaxFaults  \* bounds

\* LivePolicy: the limits are positive, and that of a day is not the looser one.
ValidPolicy ==
  /\ MaxDailyLoss \in Nat \ {0} /\ MaxTotalLoss \in Nat
  /\ MaxDailyLoss <= MaxTotalLoss

ASSUME LiveRiskAssumption ==
  /\ Assets \subseteq Nat /\ Amounts \subseteq Int
  /\ Scale \in Nat \ {0} /\ Rates \subseteq Nat \ {0} /\ \A r \in Rates : Scale % r = 0
  /\ ValidPolicy /\ MaxAge \in Nat
  /\ MaxActivities \in Nat /\ MaxDay \in Nat \ {0} /\ MaxFaults \in Nat

VARIABLES assets,   \* the account's value apart from external cash flows
          ledger,   \* the activities as the broker would list them
          day,      \* the market's date
          fx,       \* fx-reference.json: the cached rate and its date
          stop,     \* STOP exists
          risk,     \* live-risk.json
          journal,  \* bot_state.json: [halted, initialized, entered]
          op,       \* the operator's memory
          faults,   \* crashes and deletions so far
          seen      \* history: peaks and losses of the undisturbed observations

vars == <<assets, ledger, day, fx, stop, risk, journal, op, faults, seen>>

\* External cash; the account's own income; a row that is not executed yet or of
\* an unknown kind; a row that the broker lists no more.
Kinds == {"external", "income", "unclear", "withdrawn"}
Rows == [kind : {"external"}, amount : Amounts] \cup [kind : Kinds \ {"external"}, amount : {0}]

\* Cash that the broker has booked and that is not the account's own income.
Booked(rows) ==
  FoldLeft(LAMBDA sum, r : IF r.kind = "external" THEN sum + r.amount ELSE sum, 0, rows)

Equity == assets + Booked(ledger)

\* usd_to_eur: the amount divided by the rate.
Euros(usd, rate) == (usd * Scale) \div rate

NoRisk == [initialized |-> FALSE, flows |-> 0, peak |-> 0, day |-> 0, dailyPeak |-> 0,
           last |-> 0, records |-> <<>>, anchored |-> 0, halted |-> FALSE, review |-> FALSE]

\* The cache before the first rate was loaded.
NoQuote == [rate |-> 0, asOf |-> -MaxAge]

\* run: "off"; "starting", until the preflight has passed; "checked", while the
\* submitting broker is constructed; "on", the session.
Resting(run) == [at |-> "idle", equity |-> 0, rows |-> <<>>, fresh |-> FALSE, first |-> FALSE,
                 risk |-> NoRisk, quiet |-> FALSE, run |-> run]

Init ==
  /\ assets \in Assets /\ ledger = <<>> /\ day = 1
  /\ fx \in {NoQuote} \cup [rate : Rates, asOf : {-MaxAge}]
  /\ stop = FALSE
  /\ risk = NoRisk
  /\ journal = [halted |-> FALSE, initialized |-> FALSE, entered |-> FALSE]
  /\ op = Resting("off") /\ faults = 0
  /\ seen = [peak |-> 0, dailyPeak |-> 0, last |-> 0, day |-> 0,
             lost |-> FALSE, undisturbed |-> TRUE]
-----------------------------------------------------------------------------
(* The account and the calendar                                            *)

\* A move matters for the operator's next read of what has moved; at any other
\* moment it commutes with the operator's own steps and is left for that read.
AccountReadNext ==
  \/ op.at \in {"anchor", "account"}
  \/ op.at = "idle" /\ op.run \in {"checked", "on"}
LedgerReadNext == AccountReadNext \/ op.at \in {"before", "after", "list"}

Market ==
  /\ AccountReadNext
  /\ assets' \in Assets \ {assets}
  /\ UNCHANGED <<ledger, day, fx, stop, risk, journal, op, faults, seen>>

Book ==
  /\ LedgerReadNext
  /\ Len(ledger) < MaxActivities
  /\ \E r \in Rows : r.kind # "withdrawn" /\ ledger' = Append(ledger, r)
  /\ UNCHANGED <<assets, day, fx, stop, risk, journal, op, faults, seen>>

\* The broker corrects an activity, confirms it or takes it back.
Correct ==
  /\ LedgerReadNext
  /\ \E i \in DOMAIN ledger : \E r \in Rows \ {ledger[i]} :
       /\ ledger[i].kind \in {"external", "unclear"}
       /\ r.kind \in {"external", "withdrawn"}
       /\ ledger' = [ledger EXCEPT ![i] = r]
  /\ UNCHANGED <<assets, day, fx, stop, risk, journal, op, faults, seen>>

NextDay ==
  /\ op.at = "idle"
  /\ day < MaxDay /\ day' = day + 1
  /\ UNCHANGED <<assets, ledger, fx, stop, risk, journal, op, faults, seen>>
-----------------------------------------------------------------------------
(* The operator                                                            *)

OpAt(step) == op' = [op EXCEPT !.at = step]

MayInitialize == ~journal.initialized /\ ~journal.entered

Fresh(quote) == quote.rate # 0 /\ day - quote.asOf <= MaxAge

\* load_ecb_reference_quote: the feed's rate of the day before, which is cached,
\* or while that is fresh the cached one, when the feed fails or was read
\* within the hour.
Loaded ==
  (IF fx.asOf = day - 1 THEN {fx} ELSE [rate : Rates, asOf : {day - 1}])
    \cup {quote \in {fx} : Fresh(quote)}

\* live_trading run: an earlier STOP is removed before anything else.
Start ==
  /\ op.at = "idle" /\ op.run = "off"
  /\ stop' = FALSE
  /\ op' = Resting("starting")
  /\ UNCHANGED <<assets, ledger, day, fx, risk, journal, faults, seen>>

\* check: with a broker that cannot write.  It refuses a journal that was used
\* and lost its baseline; reservations alone do not count.
Preflight ==
  /\ op.run = "starting"
  /\ fx' \in Loaded
  /\ risk.initialized \/ ~journal.initialized
  /\ ~stop
  /\ op' = Resting("checked")
  /\ UNCHANGED <<assets, ledger, day, stop, risk, journal, faults, seen>>

\* Any error of the preflight or of the construction, and a STOP since Start.
StartBlocked ==
  /\ op.at = "idle" /\ op.run \in {"starting", "checked"}
  /\ op' = Resting("off")
  /\ UNCHANGED <<assets, ledger, day, fx, stop, risk, journal, faults, seen>>

\* A person asks to stop.  It is read after a construction, before an entry and
\* by the session before its next cycle, at other moments it can wait.
RequestStop ==
  /\ ~stop /\ op.at \in {"idle", "ready"} /\ op.run # "off"
  /\ stop' = TRUE
  /\ UNCHANGED <<assets, ledger, day, fx, risk, journal, op, faults, seen>>

EndSession ==
  /\ op.at = "idle" /\ op.run = "on" /\ stop
  /\ op' = Resting("off")
  /\ UNCHANGED <<assets, ledger, day, fx, stop, risk, journal, faults, seen>>

\* refresh(): the account, the reference rate, the saved baseline.  Without a
\* fresh rate the cached one marks existing positions only, and a broker is
\* constructed only on a baseline.  Without a baseline _observe_risk starts
\* one, for a journal that was never used.
Refresh ==
  /\ op.at = "idle" /\ op.run \in {"checked", "on"}
  /\ \E quote \in Loaded \cup {fx} :
       /\ quote # NoQuote
       /\ Fresh(quote) \/ op.run = "on" \/ risk.initialized
       /\ fx' = quote
       /\ op' = [Resting(op.run) EXCEPT
            !.at = IF risk.initialized THEN "list" ELSE IF MayInitialize THEN "before"
                   ELSE "degraded",
            !.equity = Equity, !.fresh = Fresh(quote), !.risk = risk,
            !.first = ~risk.initialized]
  /\ UNCHANGED <<assets, ledger, day, stop, risk, journal, faults, seen>>

\* The first baseline: the activities, the account, the activities again.  Only
\* an unchanged list anchors what was booked before as part of the baseline.
ListBefore ==
  /\ op.at = "before"
  /\ op' = [op EXCEPT !.at = "anchor", !.rows = ledger]
  /\ UNCHANGED <<assets, ledger, day, fx, stop, risk, journal, faults, seen>>

ReadAnchor ==
  /\ op.at = "anchor"
  /\ op' = [op EXCEPT !.at = "after", !.equity = Equity]
  /\ UNCHANGED <<assets, ledger, day, fx, stop, risk, journal, faults, seen>>

ListAfter ==
  /\ op.at = "after"
  /\ IF ledger = op.rows
     THEN LET eur == Euros(op.equity, fx.rate) IN
          op' = [op EXCEPT !.at = "list",
                   !.risk = [NoRisk EXCEPT !.initialized = TRUE, !.peak = eur, !.dailyPeak = eur,
                                           !.records = ledger, !.anchored = Booked(ledger)]]
     ELSE OpAt("before")
  /\ UNCHANGED <<assets, ledger, day, fx, stop, risk, journal, faults, seen>>

List ==
  /\ op.at = "list"
  /\ op' = [op EXCEPT !.at = "account", !.rows = ledger]
  /\ UNCHANGED <<assets, ledger, day, fx, stop, risk, journal, faults, seen>>

\* What the listed rows add to the recorded ones: a new row is counted once, a
\* row that differs from its record or is missing asks for a review.
Unrecorded(r, rows) == SubSeq(rows, Len(r.records) + 1, Len(rows))
ReviewNeeded(r, rows) ==
  \/ \E i \in DOMAIN r.records : rows[i] # r.records[i]
  \/ \E i \in (Len(r.records) + 1)..Len(rows) : rows[i].kind = "unclear"
\* Mutant: every listed row counts, not only those without a record.
FlowsWith_All(r, rows) == r.flows + Booked(rows)

FlowsWith(r, rows) == r.flows + Booked(Unrecorded(r, rows))

\* Equity is read after the list, unless nothing was listed.
EquityRead(rows) ==
  IF \E i \in DOMAIN rows : rows[i].kind # "withdrawn" THEN Equity ELSE op.equity

\* Mutant: a new day starts from its own first value.
DayBase_Morning(r, today, value) == IF r.day # today THEN value ELSE r.dailyPeak

\* The peaks after an observation of value; a new day starts from the last
\* observed value, so that a gap overnight counts against it, and the day of the
\* first observation from what that observes.
DayBase(r, today, value) ==
  IF r.day = today THEN r.dailyPeak ELSE IF r.day = 0 THEN value ELSE r.last

Marked(r, value, today) ==
  [r EXCEPT !.peak = Max({@, value}), !.day = today, !.last = value,
            !.dailyPeak = Max({DayBase(r, today, value), value})]

LimitReached(r) == r.peak - r.last >= MaxTotalLoss \/ r.dailyPeak - r.last >= MaxDailyLoss

Observed(r, rows, equity, rate, today) ==
  LET marked == Marked(r, Euros(equity - FlowsWith(r, rows), rate), today)
  IN [marked EXCEPT !.flows = FlowsWith(r, rows), !.records = @ \o Unrecorded(r, rows),
                    !.halted = @ \/ LimitReached(marked), !.review = @ \/ ReviewNeeded(r, rows)]

\* History: what the account was really worth in the observations that no cash
\* flow disturbed, against the highest such value and the last one of a day.
Worth(equity) == Euros(equity - Booked(ledger) + op.risk.anchored, fx.rate)

Evaluate ==
  /\ op.at = "account"
  /\ LET equity == EquityRead(op.rows)
         new    == Observed(op.risk, op.rows, equity, fx.rate, day)
         quiet  == new.flows + new.anchored = Booked(ledger)
                     /\ equity = Equity
         worth  == Worth(equity)
         base   == IF seen.day # day THEN seen.last ELSE seen.dailyPeak
     IN /\ op' = [op EXCEPT !.at = "write", !.risk = new, !.quiet = quiet, !.equity = 0]
        /\ journal' = [journal EXCEPT !.halted = @ \/ LimitReached(new)]
        /\ seen' = [seen EXCEPT !.lost = @ \/ (quiet /\ ~op.first /\
                      (\/ seen.peak - worth >= MaxTotalLoss
                       \/ seen.undisturbed /\ base - worth >= MaxDailyLoss))]
  /\ UNCHANGED <<assets, ledger, day, fx, stop, risk, faults>>

WriteBaseline ==
  /\ op.at = "write"
  /\ risk' = op.risk
  /\ op' = [Resting(op.run) EXCEPT !.at = "mark", !.rows = op.rows, !.fresh = op.fresh]
  /\ LET worth == op.risk.last
         base  == IF seen.day # op.risk.day THEN seen.last ELSE seen.dailyPeak
     IN seen' = IF op.first \/ op.quiet
                THEN [seen EXCEPT !.peak = IF op.first THEN worth ELSE Max({@, worth}),
                                  !.day = op.risk.day, !.last = worth,
                                  !.dailyPeak = IF op.first THEN worth ELSE Max({base, worth}),
                                  !.undisturbed = op.quiet /\ (op.first \/ @)]
                ELSE [seen EXCEPT !.undisturbed = FALSE]
  /\ UNCHANGED <<assets, ledger, day, fx, stop, journal, faults>>

MarkInitialized ==
  /\ op.at = "mark"
  /\ journal' = [journal EXCEPT !.initialized = TRUE]
  /\ OpAt("ready")
  /\ UNCHANGED <<assets, ledger, day, fx, stop, risk, faults, seen>>

\* A request fails: the risk is unverified until the next refresh.
Degrade ==
  /\ op.at \in {"before", "anchor", "after", "list", "account"}
  /\ OpAt("degraded")
  /\ UNCHANGED <<assets, ledger, day, fx, stop, risk, journal, faults, seen>>

\* Mutant: the latch in the journal is not consulted.
BuyRejected_FileOnly ==
  op.at # "ready" \/ ~op.fresh \/ risk.review \/ risk.halted

\* buy_rejection and _validate_trading_request: what forbids an entry.
BuyRejected ==
  \/ op.at # "ready" \/ ~op.fresh
  \/ risk.review \/ risk.halted \/ journal.halted

\* An entry's intent is reserved in the journal before it is submitted.
Reserve ==
  /\ op.at = "idle" /\ ~journal.entered
  /\ journal' = [journal EXCEPT !.entered = TRUE]
  /\ UNCHANGED <<assets, ledger, day, fx, stop, risk, op, faults, seen>>

SubmitEntry ==
  /\ op.at = "ready" /\ op.run = "on" /\ ~stop /\ ~BuyRejected /\ journal.entered
  /\ OpAt("sent")
  /\ UNCHANGED <<assets, ledger, day, fx, stop, risk, journal, faults, seen>>

\* after_buy_submission: an entry whose stop is not confirmed latches the halt.
ProtectionUnconfirmed ==
  /\ op.at = "sent"
  /\ journal' = [journal EXCEPT !.halted = TRUE]
  /\ op' = Resting("on")
  /\ UNCHANGED <<assets, ledger, day, fx, stop, risk, faults, seen>>

\* The entry is protected, or the refresh served something else; the session
\* begins after the construction, unless STOP has appeared.
EndRefresh ==
  /\ op.at \in {"ready", "sent", "degraded"}
  /\ op' = Resting(IF op.run = "checked" /\ stop THEN "off" ELSE "on")
  /\ UNCHANGED <<assets, ledger, day, fx, stop, risk, journal, faults, seen>>

Crash ==
  /\ faults < MaxFaults /\ faults' = faults + 1
  /\ op.run # "off" /\ op' = Resting("off")
  /\ UNCHANGED <<assets, ledger, day, fx, stop, risk, journal, seen>>

\* Somebody deletes live-risk.json.
DeleteBaseline ==
  /\ faults < MaxFaults /\ faults' = faults + 1
  /\ risk.initialized /\ risk' = NoRisk
  /\ UNCHANGED <<assets, ledger, day, fx, stop, journal, op, seen>>

Next ==
  \/ Market \/ Book \/ Correct \/ NextDay
  \/ Start \/ Preflight \/ StartBlocked \/ RequestStop \/ EndSession
  \/ Refresh \/ ListBefore \/ ReadAnchor \/ ListAfter \/ List
  \/ Evaluate \/ WriteBaseline \/ MarkInitialized \/ Degrade
  \/ Reserve \/ SubmitEntry \/ ProtectionUnconfirmed \/ EndRefresh \/ Crash \/ DeleteBaseline

Spec == Init /\ [][Next]_vars
-----------------------------------------------------------------------------
(* Properties                                                              *)

Steps == {"idle", "before", "anchor", "after", "list", "account",
          "write", "mark", "ready", "sent", "degraded"}
RiskStates ==
  [initialized : BOOLEAN, flows : Int, peak : Int, day : 0..MaxDay, dailyPeak : Int,
   last : Int, records : Seq(Rows), anchored : Int, halted : BOOLEAN, review : BOOLEAN]

TypeOK ==
  /\ assets \in Assets /\ ledger \in Seq(Rows) /\ day \in 1..MaxDay /\ stop \in BOOLEAN
  /\ fx \in [rate : Rates \cup {0}, asOf : -MaxAge..MaxDay]
  /\ risk \in RiskStates
  /\ journal \in [halted : BOOLEAN, initialized : BOOLEAN, entered : BOOLEAN]
  /\ op \in [at : Steps, equity : Int, rows : Seq(Rows), fresh : BOOLEAN, first : BOOLEAN,
             risk : RiskStates, quiet : BOOLEAN,
             run : {"off", "starting", "checked", "on"}]
  /\ faults \in 0..MaxFaults
  /\ seen \in [peak : Int, dailyPeak : Int, last : Int, day : 0..MaxDay,
               lost : BOOLEAN, undisturbed : BOOLEAN]

\* A real loss halts the pilot, whatever cash moved in between, across day
\* changes, rate changes and crashes: once an observation that no cash flow
\* disturbed finds the account a limit below an earlier such observation, the
\* journal holds the latch (live_trading.py 366-388).
LossHalts == seen.lost => journal.halted

\* Every external activity is counted once, through crashes and repeated
\* lists, and those from before the baseline are not counted at all
\* (live_trading.py 318-330, 342-364).
FlowsCountedOnce ==
  risk.initialized => risk.flows = Booked(risk.records) - risk.anchored

\* No entry goes out on an unverified account: not after a loss that was ever
\* established, not with a recorded activity that the broker has since changed
\* in the list just read, not on a stale rate (live_trading.py 261-264, 403-412).
EntryOnVerifiedRisk ==
  op.at = "sent" => /\ ~seen.lost /\ op.fresh
                    /\ \A i \in DOMAIN risk.records : op.rows[i] = risk.records[i]
=============================================================================
