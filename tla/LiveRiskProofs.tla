--------------------------- MODULE LiveRiskProofs ---------------------------
(***************************************************************************)
(* LiveRisk halts on a loss, counts every cash flow once and enters only   *)
(* on a verified account, for any prices, cash flows, exchange rates and   *)
(* limits, and any number of activities, days, crashes and deletions.      *)
(***************************************************************************)
EXTENDS LiveRisk, WellFoundedInduction, TLAPS

-----------------------------------------------------------------------------
(* Sums of activities                                                      *)

\* Induction over the natural numbers, for a set instead of a predicate.
LEMMA Induction ==
  ASSUME NEW S, 0 \in S, \A n \in Nat : n \in S => n + 1 \in S
  PROVE  Nat \subseteq S
<1> DEFINE T == Nat \ S
           R == OpToRel(<, Nat)
<1>1. SUFFICES ASSUME T # {} PROVE FALSE
  OBVIOUS
<1>2. IsWellFoundedOn(R, Nat)
  BY NatLessThanWellFounded
<1> HIDE DEF R
<1>3. PICK x \in T : \A y \in T : <<y, x>> \notin R
  BY <1>1, <1>2, WFMin
<1>4. x # 0 /\ x - 1 \in Nat
  OBVIOUS
<1>5. <<x - 1, x>> \in R
  BY <1>4 DEF R, OpToRel
<1>6. x - 1 \in S
  BY <1>3, <1>4, <1>5
<1> QED
  BY <1>4, <1>6

\* What a row makes of the cash before it, and by how much it changes it.
Plus(cash, r) == IF r.kind = "external" THEN cash + r.amount ELSE cash
Cash(r) == IF r.kind = "external" THEN r.amount ELSE 0

LEMMA CashType ==
  ASSUME NEW r \in Rows
  PROVE  Cash(r) \in Int /\ \A cash \in Int : Plus(cash, r) = cash + Cash(r)
<1>1. r.kind = "external" => r.amount \in Int
  BY LiveRiskAssumption DEF Rows
<1> QED
  BY <1>1 DEF Cash, Plus

\* The recursive function behind the fold, on the sets of positions up to n.
Adds(iter, rows, n) ==
  iter = [s \in SUBSET (1..n) |->
            IF s = {} THEN 0 ELSE Plus(iter[s \ {Max(s)}], rows[Max(s)])]

LEMMA MaxOfPrefix ==
  ASSUME NEW n \in Nat, NEW s \in SUBSET (1..(n + 1)), n + 1 \in s
  PROVE  Max(s) = n + 1
<1>1. n + 1 \in s /\ \A y \in s : y \in Nat /\ n + 1 >= y
  OBVIOUS
<1>2. \A x \in s : (\A y \in s : x >= y) => x = n + 1
  BY <1>1
<1> QED
  BY <1>1, <1>2 DEF Max

LEMMA AddsExists ==
  ASSUME NEW rows
  PROVE  \A n \in Nat : \E iter : Adds(iter, rows, n)
<1> DEFINE S == {n \in Nat : \E iter : Adds(iter, rows, n)}
<1>1. 0 \in S
  <2> DEFINE zero == [s \in SUBSET (1..0) |-> 0]
  <2>1. Adds(zero, rows, 0)
    BY DEF Adds
  <2> QED
    BY <2>1
<1>2. ASSUME NEW n \in Nat, n \in S PROVE n + 1 \in S
  <2>1. PICK iter : Adds(iter, rows, n)
    BY <1>2
  <2> DEFINE V(s) == IF s = {} THEN 0 ELSE Plus(iter[s \ {Max(s)}], rows[Max(s)])
             W(s) == Plus(iter[s \ {n + 1}], rows[n + 1])
             next == [s \in SUBSET (1..(n + 1)) |-> IF n + 1 \in s THEN W(s) ELSE iter[s]]
  <2>2. \A s \in SUBSET (1..n) : iter[s] = V(s)
    BY <2>1 DEF Adds
  <2>3. \A s \in SUBSET (1..n) : n + 1 \notin s /\ s \in SUBSET (1..(n + 1)) /\ next[s] = iter[s]
    OBVIOUS
  <2>4. ASSUME NEW s \in SUBSET (1..(n + 1))
        PROVE  next[s] = IF s = {} THEN 0 ELSE Plus(next[s \ {Max(s)}], rows[Max(s)])
    <3>1. CASE n + 1 \in s
      <4>1. Max(s) = n + 1 /\ s \ {n + 1} \in SUBSET (1..n)
        BY <3>1, MaxOfPrefix
      <4>2. next[s \ {n + 1}] = iter[s \ {n + 1}]
        BY <2>3, <4>1
      <4> QED
        BY <3>1, <4>1, <4>2
    <3>2. CASE n + 1 \notin s
      <4>1. s \in SUBSET (1..n) /\ s \ {Max(s)} \in SUBSET (1..n)
        <5>1. ASSUME NEW e \in s PROVE e \in 1..n
          <6>1. e \in 1..(n + 1) /\ e # n + 1
            BY <3>2
          <6> QED
            BY <6>1
        <5> QED
          BY <5>1
      <4> HIDE DEF next
      <4> QED
        BY <2>2, <2>3, <4>1
    <3> QED
      BY <3>1, <3>2
  <2>5. Adds(next, rows, n + 1)
    BY <2>4 DEF Adds
  <2> QED
    BY <2>5
<1> HIDE DEF S
<1>3. Nat \subseteq S
  BY <1>1, <1>2, Induction
<1> QED
  BY <1>3 DEF S

\* The sums over the prefixes of rows.
Sums(sum, rows) ==
  /\ sum \in [0..Len(rows) -> Int]
  /\ sum[0] = 0
  /\ \A n \in 1..Len(rows) : sum[n] = sum[n - 1] + Cash(rows[n])

\* Booked is the last of them.
LEMMA BookedSums ==
  ASSUME NEW rows \in Seq(Rows)
  PROVE  \E sum : Sums(sum, rows) /\ Booked(rows) = sum[Len(rows)]
<1> DEFINE L == Len(rows)
           F(iter) == [s \in SUBSET (1..L) |->
                         IF s = {} THEN 0 ELSE Plus(iter[s \ {Max(s)}], rows[Max(s)])]
           fold == CHOOSE iter : iter = F(iter)
<1>1. L \in Nat /\ DOMAIN rows = 1..L /\ \A n \in 1..L : rows[n] \in Rows
  OBVIOUS
<1>2. Booked(rows) = fold[1..L]
  <2>1. Booked(rows) =
          (CHOOSE iter : iter =
             [s \in SUBSET (DOMAIN rows) |->
                IF s = {} THEN 0 ELSE Plus(iter[s \ {Max(s)}], rows[Max(s)])])[DOMAIN rows]
    BY DEF Booked, FoldLeft, MapThenFoldSet, Plus
  <2> QED
    BY <1>1, <2>1
<1>3. fold = F(fold)
  <2>1. \E iter : iter = F(iter)
    BY <1>1, AddsExists DEF Adds
  <2> HIDE DEF F
  <2> QED
    BY <2>1
<1> HIDE DEF fold
<1>4. \A s \in SUBSET (1..L) :
        fold[s] = IF s = {} THEN 0 ELSE Plus(fold[s \ {Max(s)}], rows[Max(s)])
  BY <1>3
<1>5. fold[1..0] = 0
  <2>1. 1..0 = {} /\ {} \in SUBSET (1..L)
    OBVIOUS
  <2> QED
    BY <1>4, <2>1
<1>6. ASSUME NEW n \in 1..L PROVE fold[1..n] = Plus(fold[1..(n - 1)], rows[n])
  <2>1. n \in 1..n /\ 1..n \in SUBSET (1..L) /\ (1..n) \ {n} = 1..(n - 1) /\ n - 1 \in Nat
    BY <1>1
  <2>2. Max(1..n) = n
    BY <2>1, MaxOfPrefix, n = (n - 1) + 1
  <2>3. 1..n # {}
    BY <2>1
  <2> QED
    BY <1>4, <2>1, <2>2, <2>3
<1>7. \A n \in 0..L : fold[1..n] \in Int
  <2> DEFINE S == {n \in Nat : n <= L => fold[1..n] \in Int}
  <2>1. 0 \in S
    BY <1>5
  <2>2. ASSUME NEW n \in Nat, n \in S PROVE n + 1 \in S
    <3> SUFFICES ASSUME n + 1 <= L PROVE fold[1..(n + 1)] \in Int
      OBVIOUS
    <3>1. n + 1 \in 1..L /\ fold[1..n] \in Int /\ (n + 1) - 1 = n
      BY <1>1, <2>2
    <3>2. fold[1..(n + 1)] = Plus(fold[1..n], rows[n + 1])
      BY <1>6, <3>1
    <3> QED
      <4>1. rows[n + 1] \in Rows
        BY <1>1, <3>1
      <4>2. Plus(fold[1..n], rows[n + 1]) \in Int
        <5>1. Cash(rows[n + 1]) \in Int
              /\ Plus(fold[1..n], rows[n + 1]) = fold[1..n] + Cash(rows[n + 1])
          BY <3>1, <4>1, CashType
        <5> QED
          BY <3>1, <5>1
      <4> QED
        BY <3>2, <4>2
  <2> HIDE DEF S
  <2>3. Nat \subseteq S
    BY <2>1, <2>2, Induction
  <2> QED
    BY <1>1, <2>3 DEF S
<1>8. Sums([n \in 0..L |-> fold[1..n]], rows)
  <2> DEFINE sum == [n \in 0..L |-> fold[1..n]]
  <2>1. sum \in [0..L -> Int] /\ sum[0] = 0
    BY <1>1, <1>5, <1>7
  <2>2. ASSUME NEW n \in 1..L PROVE sum[n] = sum[n - 1] + Cash(rows[n])
    <3>1. n \in 0..L /\ n - 1 \in 0..L
      BY <1>1
    <3>2. sum[n] = Plus(sum[n - 1], rows[n])
      BY <1>6, <3>1
    <3> QED
      BY <1>1, <2>1, <3>1, <3>2, CashType
  <2> QED
    BY <2>1, <2>2 DEF Sums
<1> QED
  <2> DEFINE sum == [n \in 0..L |-> fold[1..n]]
  <2>1. sum[L] = fold[1..L]
    BY <1>1
  <2> QED
    BY <1>2, <1>8, <2>1

LEMMA BookedType == ASSUME NEW rows \in Seq(Rows) PROVE Booked(rows) \in Int
BY BookedSums DEF Sums

\* Cash booked by two lists one after the other.
LEMMA BookedConcat ==
  ASSUME NEW a \in Seq(Rows), NEW b \in Seq(Rows)
  PROVE  Booked(a \o b) = Booked(a) + Booked(b)
<1> DEFINE c == a \o b
<1>1. /\ c \in Seq(Rows) /\ Len(c) = Len(a) + Len(b)
      /\ \A n \in 1..Len(a) : c[n] = a[n]
      /\ \A n \in 1..Len(b) : c[Len(a) + n] = b[n]
      /\ Len(a) \in Nat /\ Len(b) \in Nat
  OBVIOUS
<1> HIDE DEF c
<1>2. PICK sa : Sums(sa, a) /\ Booked(a) = sa[Len(a)]
  BY BookedSums
<1>3. PICK sb : Sums(sb, b) /\ Booked(b) = sb[Len(b)]
  BY BookedSums
<1>4. PICK sc : Sums(sc, c) /\ Booked(c) = sc[Len(c)]
  BY <1>1, BookedSums
<1>5. \A n \in Nat : n <= Len(a) => sc[n] = sa[n]
  <2> DEFINE S == {n \in Nat : n <= Len(a) => sc[n] = sa[n]}
  <2>1. 0 \in S
    BY <1>2, <1>4 DEF Sums
  <2>2. ASSUME NEW n \in Nat, n \in S PROVE n + 1 \in S
    <3> SUFFICES ASSUME n + 1 <= Len(a) PROVE sc[n + 1] = sa[n + 1]
      OBVIOUS
    <3>1. n + 1 \in 1..Len(a) /\ n + 1 \in 1..Len(c) /\ (n + 1) - 1 = n /\ sc[n] = sa[n]
      BY <1>1, <2>2
    <3>2. sc[n + 1] = sc[n] + Cash(c[n + 1]) /\ sa[n + 1] = sa[n] + Cash(a[n + 1])
      BY <1>2, <1>4, <3>1 DEF Sums
    <3> QED
      BY <1>1, <3>1, <3>2
  <2> HIDE DEF S
  <2>3. Nat \subseteq S
    BY <2>1, <2>2, Induction
  <2> QED
    BY <2>3 DEF S
<1>6. \A n \in Nat : n <= Len(b) => sc[Len(a) + n] = sa[Len(a)] + sb[n]
  <2> DEFINE S == {n \in Nat : n <= Len(b) => sc[Len(a) + n] = sa[Len(a)] + sb[n]}
  <2>0. sa[Len(a)] \in Int
    BY <1>1, <1>2 DEF Sums
  <2>1. 0 \in S
    <3>1. sc[Len(a) + 0] = sa[Len(a)] /\ sb[0] = 0
      BY <1>1, <1>3, <1>5 DEF Sums
    <3> QED
      BY <2>0, <3>1
  <2>2. ASSUME NEW n \in Nat, n \in S PROVE n + 1 \in S
    <3> SUFFICES ASSUME n + 1 <= Len(b) PROVE sc[Len(a) + (n + 1)] = sa[Len(a)] + sb[n + 1]
      OBVIOUS
    <3>1. /\ n + 1 \in 1..Len(b) /\ (n + 1) - 1 = n
          /\ Len(a) + (n + 1) \in 1..Len(c) /\ (Len(a) + (n + 1)) - 1 = Len(a) + n
          /\ sc[Len(a) + n] = sa[Len(a)] + sb[n]
      BY <1>1, <2>2
    <3>2. /\ sc[Len(a) + (n + 1)] = sc[Len(a) + n] + Cash(c[Len(a) + (n + 1)])
          /\ sb[n + 1] = sb[n] + Cash(b[n + 1])
      BY <1>3, <1>4, <3>1 DEF Sums
    <3>3. sb[n] \in Int
      <4>1. n \in 0..Len(b)
        BY <1>1, <3>1
      <4> QED
        BY <1>3, <4>1 DEF Sums
    <3>4. c[Len(a) + (n + 1)] = b[n + 1] /\ Cash(b[n + 1]) \in Int
      <4>1. b[n + 1] \in Rows
        BY <3>1
      <4> QED
        BY <1>1, <3>1, <4>1, CashType
    <3> QED
      BY <2>0, <3>1, <3>2, <3>3, <3>4
  <2> HIDE DEF S
  <2>3. Nat \subseteq S
    BY <2>1, <2>2, Induction
  <2> QED
    BY <2>3 DEF S
<1>7. sc[Len(a) + Len(b)] = sa[Len(a)] + sb[Len(b)]
  BY <1>1, <1>6
<1> QED
  BY <1>1, <1>2, <1>3, <1>4, <1>7 DEF c
-----------------------------------------------------------------------------
(* Types                                                                   *)

LEMMA MaxOfTwo ==
  ASSUME NEW a \in Int, NEW b \in Int
  PROVE  Max({a, b}) = IF a >= b THEN a ELSE b
<1> DEFINE m == IF a >= b THEN a ELSE b
<1>1. m \in {a, b} /\ \A y \in {a, b} : m >= y
  OBVIOUS
<1>2. \A x \in {a, b} : (\A y \in {a, b} : x >= y) => x = m
  OBVIOUS
<1> QED
  BY <1>1, <1>2 DEF Max

LEMMA EurosType ==
  ASSUME NEW usd \in Int, NEW rate \in Rates
  PROVE  Euros(usd, rate) \in Int
<1>1. usd * Scale \in Int /\ rate \in Int /\ rate > 0
  BY LiveRiskAssumption
<1> QED
  BY <1>1 DEF Euros

\* A rate was loaded before anything is marked in euros with it.
QuoteLoaded ==
  /\ fx = NoQuote \/ fx.rate \in Rates
  /\ op.at \in {"before", "anchor", "after", "list", "account"} => fx.rate \in Rates

Quotes == [rate : Rates \cup {0}, asOf : -MaxAge..MaxDay]

LEMMA LoadedType ==
  ASSUME TypeOK, QuoteLoaded, NEW quote \in Loaded \cup {fx}
  PROVE  quote \in Quotes /\ (quote = NoQuote \/ quote.rate \in Rates)
<1>1. fx \in Quotes
  BY DEF TypeOK, Quotes
<1>2. CASE quote = fx
  BY <1>1, <1>2 DEF QuoteLoaded
<1>3. CASE quote \in [rate : Rates, asOf : {day - 1}]
  <2>1. day - 1 \in -MaxAge..MaxDay
    BY LiveRiskAssumption DEF TypeOK
  <2> QED
    BY <1>3, <2>1 DEF Quotes
<1> QED
  BY <1>2, <1>3 DEF Loaded

LEMMA NoRiskType == NoRisk \in RiskStates
BY LiveRiskAssumption DEF NoRisk, RiskStates

Operators ==
  [at : Steps, equity : Int, rows : Seq(Rows), fresh : BOOLEAN, first : BOOLEAN,
   risk : RiskStates, quiet : BOOLEAN, run : {"off", "starting", "checked", "on"}]

LEMMA RestingType ==
  ASSUME NEW run \in {"off", "starting", "checked", "on"}
  PROVE  Resting(run) \in Operators
BY NoRiskType DEF Resting, Operators, Steps

LEMMA EquityType == ASSUME TypeOK PROVE Equity \in Int
BY BookedType, LiveRiskAssumption DEF TypeOK, Equity

LEMMA UnrecordedType ==
  ASSUME NEW r \in RiskStates, NEW rows \in Seq(Rows)
  PROVE  Unrecorded(r, rows) \in Seq(Rows) /\ r.records \o Unrecorded(r, rows) \in Seq(Rows)
<1>1. r.records \in Seq(Rows)
  BY DEF RiskStates
<1>2. Unrecorded(r, rows) \in Seq(Rows)
  BY <1>1 DEF Unrecorded
<1> QED
  BY <1>1, <1>2

\* The fields of an observation.
LEMMA ObservedFields ==
  ASSUME NEW r \in RiskStates, NEW rows \in Seq(Rows), NEW equity \in Int, NEW rate \in Rates,
         NEW today \in 0..MaxDay
  PROVE  LET new   == Observed(r, rows, equity, rate, today)
             value == Euros(equity - FlowsWith(r, rows), rate)
         IN  /\ new \in RiskStates
             /\ new.initialized = r.initialized /\ new.anchored = r.anchored
             /\ new.flows = FlowsWith(r, rows)
             /\ new.records = r.records \o Unrecorded(r, rows)
             /\ new.last = value /\ new.day = today
             /\ new.peak >= r.peak /\ new.peak >= value
             /\ new.dailyPeak >= DayBase(r, today, value) /\ new.dailyPeak >= value
             /\ ~new.review => ~ReviewNeeded(r, rows)
<1> DEFINE flows == FlowsWith(r, rows)
           value == Euros(equity - flows, rate)
           records == r.records \o Unrecorded(r, rows)
           review == r.review \/ ReviewNeeded(r, rows)
<1>1. flows \in Int
  <2>1. r.flows \in Int /\ Booked(Unrecorded(r, rows)) \in Int
    BY UnrecordedType, BookedType DEF RiskStates
  <2> QED
    BY <2>1 DEF FlowsWith
<1>2. value \in Int
  BY <1>1, EurosType
<1>3. records \in Seq(Rows)
  BY UnrecordedType
<1>4. r.peak \in Int /\ DayBase(r, today, value) \in Int
  BY <1>2 DEF RiskStates, DayBase
<1> DEFINE peak == Max({r.peak, value})
           dailyPeak == Max({DayBase(r, today, value), value})
<1>5. /\ peak \in Int /\ peak >= r.peak /\ peak >= value
      /\ dailyPeak \in Int /\ dailyPeak >= DayBase(r, today, value) /\ dailyPeak >= value
  BY <1>2, <1>4, MaxOfTwo
<1>6. review \in BOOLEAN
  BY DEF RiskStates, ReviewNeeded
<1> DEFINE marked == Marked(r, value, today)
<1>7. /\ marked = [r EXCEPT !.peak = peak, !.day = today, !.last = value, !.dailyPeak = dailyPeak]
  BY DEF Marked
<1> DEFINE halted == r.halted \/ LimitReached(marked)
<1>8. halted \in BOOLEAN
  BY DEF RiskStates, LimitReached
<1>9. Observed(r, rows, equity, rate, today) =
        [marked EXCEPT !.flows = flows, !.records = records, !.halted = halted, !.review = review]
  BY <1>7 DEF Observed
<1> HIDE DEF flows, value, records, review, peak, dailyPeak, marked, halted
<1>10. marked \in RiskStates
  BY <1>2, <1>5, <1>7 DEF RiskStates
<1> QED
  BY <1>1, <1>2, <1>3, <1>5, <1>6, <1>7, <1>8, <1>9, <1>10 DEF RiskStates, LimitReached, flows, value, records, review

\* The steps, by what they may change.
AccountStep == Market \/ Book \/ Correct \/ NextDay
RunStep == Start \/ Preflight \/ StartBlocked \/ RequestStop \/ EndSession
ReadStep == Refresh \/ ListBefore \/ ReadAnchor \/ ListAfter \/ List \/ Degrade
ObserveStep == Evaluate \/ WriteBaseline \/ MarkInitialized
EntryStep == Reserve \/ SubmitEntry \/ ProtectionUnconfirmed \/ EndRefresh
FaultStep == Crash \/ DeleteBaseline

LEMMA StepKinds ==
  [Next]_vars => \/ AccountStep \/ RunStep \/ ReadStep \/ ObserveStep \/ EntryStep
                 \/ FaultStep \/ UNCHANGED vars
BY DEF Next, AccountStep, RunStep, ReadStep, ObserveStep, EntryStep, FaultStep

Typed == TypeOK /\ QuoteLoaded

LEMMA InitTyped == Init => Typed
<1> SUFFICES ASSUME Init PROVE Typed
  OBVIOUS
<1>1. op \in Operators /\ op.at = "idle"
  BY RestingType DEF Init, Resting
<1>2. risk \in RiskStates
  BY NoRiskType DEF Init
<1>3. fx \in Quotes /\ (fx = NoQuote \/ fx.rate \in Rates)
  <2>1. NoQuote \in Quotes /\ -MaxAge \in -MaxAge..MaxDay
    BY LiveRiskAssumption DEF NoQuote, Quotes
  <2> QED
    BY <2>1 DEF Init, Quotes
<1>4. /\ assets \in Assets /\ ledger \in Seq(Rows) /\ day \in 1..MaxDay /\ stop \in BOOLEAN
      /\ faults \in 0..MaxFaults
  <2>1. assets \in Assets /\ ledger = <<>> /\ day = 1 /\ stop = FALSE /\ faults = 0
    BY DEF Init
  <2>2. 1 \in 1..MaxDay /\ 0 \in 0..MaxFaults
    BY LiveRiskAssumption
  <2>3. <<>> \in Seq(Rows)
    OBVIOUS
  <2> QED
    BY <2>1, <2>2, <2>3
<1>5. journal \in [halted : BOOLEAN, initialized : BOOLEAN, entered : BOOLEAN]
  BY DEF Init
<1>6. seen \in [peak : Int, dailyPeak : Int, last : Int, day : 0..MaxDay,
               lost : BOOLEAN, undisturbed : BOOLEAN]
  BY LiveRiskAssumption DEF Init
<1>7. TypeOK
  BY <1>1, <1>2, <1>3, <1>4, <1>5, <1>6 DEF TypeOK, Quotes, Operators
<1>8. QuoteLoaded
  BY <1>1, <1>3 DEF QuoteLoaded
<1> QED
  BY <1>7, <1>8 DEF Typed

LEMMA TypedAccount ==
  ASSUME Typed, AccountStep
  PROVE  Typed'
<1> USE LiveRiskAssumption DEF Typed, TypeOK, QuoteLoaded
<1>1. CASE Market
  BY <1>1 DEF Market
<1>2. CASE Book
  BY <1>2 DEF Book
<1>3. CASE Correct
  BY <1>3 DEF Correct
<1>4. CASE NextDay
  BY <1>4 DEF NextDay
<1> QED
  BY <1>1, <1>2, <1>3, <1>4 DEF AccountStep

LEMMA TypedRun ==
  ASSUME Typed, RunStep
  PROVE  Typed'
<1> USE LiveRiskAssumption DEF Typed
<1>0. ASSUME NEW run \in {"off", "starting", "checked", "on"}, op' = Resting(run)
      PROVE  op' \in Operators /\ op'.at = "idle"
  BY <1>0, RestingType DEF Resting
<1>1. CASE Start
  BY <1>0, <1>1 DEF Start, TypeOK, QuoteLoaded, Operators
<1>2. CASE Preflight
  <2>1. fx' \in Quotes /\ (fx' = NoQuote \/ fx'.rate \in Rates)
    BY <1>2, LoadedType DEF Preflight
  <2> QED
    BY <1>0, <1>2, <2>1 DEF Preflight, TypeOK, QuoteLoaded, Operators, Quotes
<1>3. CASE StartBlocked
  BY <1>0, <1>3 DEF StartBlocked, TypeOK, QuoteLoaded, Operators
<1>4. CASE RequestStop
  BY <1>4 DEF RequestStop, TypeOK, QuoteLoaded
<1>5. CASE EndSession
  BY <1>0, <1>5 DEF EndSession, TypeOK, QuoteLoaded, Operators
<1> QED
  BY <1>1, <1>2, <1>3, <1>4, <1>5 DEF RunStep

LEMMA TypedRead ==
  ASSUME Typed, ReadStep
  PROVE  Typed'
<1> USE LiveRiskAssumption DEF Typed
<1>0. op \in Operators /\ risk \in RiskStates /\ ledger \in Seq(Rows) /\ Equity \in Int
  BY EquityType DEF TypeOK, Operators
<1>1. CASE Refresh
  <2>1. PICK quote \in Loaded \cup {fx} :
          /\ quote # NoQuote /\ fx' = quote
          /\ op' = [Resting(op.run) EXCEPT
               !.at = IF risk.initialized THEN "list" ELSE IF MayInitialize THEN "before"
                      ELSE "degraded",
               !.equity = Equity, !.fresh = Fresh(quote), !.risk = risk,
               !.first = ~risk.initialized]
    BY <1>1 DEF Refresh
  <2>2. fx' \in Quotes /\ fx'.rate \in Rates
    BY <2>1, LoadedType
  <2>3. Resting(op.run) \in Operators
    BY <1>0, RestingType DEF Operators
  <2>4. Fresh(quote) \in BOOLEAN /\ risk.initialized \in BOOLEAN
    BY <1>0 DEF Fresh, RiskStates
  <2>5. op' \in Operators
    BY <1>0, <2>1, <2>3, <2>4 DEF Operators, Steps
  <2> QED
    BY <1>1, <2>2, <2>5 DEF Refresh, TypeOK, QuoteLoaded, Operators, Quotes
<1>2. CASE ListBefore
  <2>1. op' \in Operators
    BY <1>0, <1>2 DEF ListBefore, Operators, Steps
  <2> QED
    BY <1>2, <2>1 DEF ListBefore, TypeOK, QuoteLoaded, Operators
<1>3. CASE ReadAnchor
  <2>1. op' \in Operators
    BY <1>0, <1>3 DEF ReadAnchor, Operators, Steps
  <2> QED
    BY <1>3, <2>1 DEF ReadAnchor, TypeOK, QuoteLoaded, Operators
<1>4. CASE ListAfter
  <2> DEFINE eur == Euros(op.equity, fx.rate)
             new == [NoRisk EXCEPT !.initialized = TRUE, !.peak = eur, !.dailyPeak = eur,
                                   !.records = ledger, !.anchored = Booked(ledger)]
  <2>1. eur \in Int /\ Booked(ledger) \in Int
    BY <1>0, <1>4, EurosType, BookedType DEF ListAfter, QuoteLoaded, Operators
  <2> HIDE DEF eur
  <2>2. new \in RiskStates
    BY <1>0, <2>1, NoRiskType DEF RiskStates
  <2>3. op' = [op EXCEPT !.at = "list", !.risk = new] \/ op' = [op EXCEPT !.at = "before"]
    BY <1>4 DEF ListAfter, OpAt, eur
  <2> HIDE DEF new
  <2>4. op' \in Operators
    BY <1>0, <2>2, <2>3 DEF Operators, Steps
  <2> QED
    BY <1>4, <2>4 DEF ListAfter, TypeOK, QuoteLoaded, Operators
<1>5. CASE List
  <2>1. op' \in Operators
    BY <1>0, <1>5 DEF List, Operators, Steps
  <2> QED
    BY <1>5, <2>1 DEF List, TypeOK, QuoteLoaded, Operators
<1>6. CASE Degrade
  <2>1. op' \in Operators /\ op'.at = "degraded"
    BY <1>0, <1>6 DEF Degrade, OpAt, Operators, Steps
  <2> QED
    BY <1>6, <2>1 DEF Degrade, TypeOK, QuoteLoaded, Operators
<1> QED
  BY <1>1, <1>2, <1>3, <1>4, <1>5, <1>6 DEF ReadStep

\* What Evaluate computes.
Reading == EquityRead(op.rows)
New == Observed(op.risk, op.rows, Reading, fx.rate, day)
Quiet == New.flows + New.anchored = Booked(ledger) /\ Reading = Equity

LEMMA ReadingType ==
  ASSUME Typed, op.at = "account"
  PROVE  /\ Reading \in Int /\ New \in RiskStates /\ op.risk \in RiskStates
         /\ op.rows \in Seq(Rows) /\ fx.rate \in Rates /\ day \in 0..MaxDay
<1>1. op \in Operators /\ fx.rate \in Rates /\ day \in 0..MaxDay
  BY LiveRiskAssumption DEF Typed, TypeOK, QuoteLoaded, Operators
<1>2. Reading \in Int
  BY <1>1, EquityType DEF Reading, EquityRead, Typed, Operators
<1> QED
  BY <1>1, <1>2, ObservedFields DEF New, Operators

\* The operator's memory after an evaluation.
LEMMA ObserverType ==
  ASSUME NEW o \in Operators, NEW r \in RiskStates, NEW q \in BOOLEAN
  PROVE  [o EXCEPT !.at = "write", !.risk = r, !.quiet = q, !.equity = 0] \in Operators
<1>1. "write" \in Steps /\ 0 \in Int
  BY DEF Steps
<1> QED
  BY <1>1, Zenon DEF Operators

LEMMA TypedObserve ==
  ASSUME Typed, ObserveStep
  PROVE  Typed'
<1> USE LiveRiskAssumption DEF Typed
<1>0. op \in Operators
  BY DEF TypeOK, Operators
<1>1. CASE Evaluate
  <2>1. op.at = "account" /\ New \in RiskStates
    BY <1>1, ReadingType DEF Evaluate
  <2>2. op' = [op EXCEPT !.at = "write", !.risk = New, !.quiet = Quiet, !.equity = 0]
    BY <1>1 DEF Evaluate, New, Quiet, Reading
  <2>3. op' \in Operators
    <3>1. Quiet \in BOOLEAN
      BY DEF Quiet
    <3> QED
      BY <1>0, <2>1, <2>2, <3>1, ObserverType
  <2>4. journal' = [journal EXCEPT !.halted = @ \/ LimitReached(New)]
    BY <1>1 DEF Evaluate, New, Reading
  <2>5. \E lost : seen' = [seen EXCEPT !.lost = @ \/ lost]
    BY <1>1 DEF Evaluate
  <2>6. journal' \in [halted : BOOLEAN, initialized : BOOLEAN, entered : BOOLEAN]
    BY <2>4 DEF TypeOK, LimitReached
  <2>7. seen' \in [peak : Int, dailyPeak : Int, last : Int, day : 0..MaxDay,
                   lost : BOOLEAN, undisturbed : BOOLEAN]
    BY <2>5 DEF TypeOK
  <2>8. op'.at = "write"
    BY <1>0, <2>2 DEF Operators
  <2> QED
    BY <1>1, <2>3, <2>6, <2>7, <2>8 DEF Evaluate, TypeOK, QuoteLoaded, Operators
<1>2. CASE WriteBaseline
  <2>1. op.risk \in RiskStates /\ Resting(op.run) \in Operators
    BY <1>0, RestingType DEF Operators
  <2>2. op' \in Operators /\ op'.at = "mark"
    BY <1>0, <1>2, <2>1 DEF WriteBaseline, Operators, Steps
  <2> DEFINE worth == op.risk.last
             base == IF seen.day # op.risk.day THEN seen.last ELSE seen.dailyPeak
  <2>3. /\ worth \in Int /\ base \in Int /\ seen.peak \in Int /\ op.risk.day \in 0..MaxDay
        /\ Max({seen.peak, worth}) \in Int /\ Max({base, worth}) \in Int
    <3>1. worth \in Int /\ base \in Int /\ seen.peak \in Int /\ op.risk.day \in 0..MaxDay
      BY <2>1 DEF RiskStates, TypeOK
    <3> QED
      BY <3>1, MaxOfTwo
  <2>4. op.first \in BOOLEAN /\ op.quiet \in BOOLEAN
    BY <1>0 DEF Operators
  <2> DEFINE shown == [seen EXCEPT !.peak = IF op.first THEN worth ELSE Max({seen.peak, worth}),
                          !.day = op.risk.day, !.last = worth,
                          !.dailyPeak = IF op.first THEN worth ELSE Max({base, worth}),
                          !.undisturbed = op.quiet /\ (op.first \/ seen.undisturbed)]
  <2>5. seen' = IF op.first \/ op.quiet THEN shown ELSE [seen EXCEPT !.undisturbed = FALSE]
    BY <1>2 DEF WriteBaseline
  <2> HIDE DEF worth, base
  <2>6. shown \in [peak : Int, dailyPeak : Int, last : Int, day : 0..MaxDay,
                   lost : BOOLEAN, undisturbed : BOOLEAN]
    BY <2>3, <2>4 DEF TypeOK
  <2> HIDE DEF shown
  <2>7. seen' \in [peak : Int, dailyPeak : Int, last : Int, day : 0..MaxDay,
                   lost : BOOLEAN, undisturbed : BOOLEAN]
    BY <2>5, <2>6 DEF TypeOK
  <2> QED
    BY <1>2, <2>1, <2>2, <2>7 DEF WriteBaseline, TypeOK, QuoteLoaded, Operators
<1>3. CASE MarkInitialized
  <2>1. op' \in Operators /\ op'.at = "ready"
    BY <1>0, <1>3 DEF MarkInitialized, OpAt, Operators, Steps
  <2> QED
    BY <1>3, <2>1 DEF MarkInitialized, TypeOK, QuoteLoaded, Operators
<1> QED
  BY <1>1, <1>2, <1>3 DEF ObserveStep

LEMMA TypedEntry ==
  ASSUME Typed, EntryStep
  PROVE  Typed'
<1> USE LiveRiskAssumption DEF Typed
<1>0. op \in Operators
  BY DEF TypeOK, Operators
<1>1. CASE Reserve
  BY <1>1 DEF Reserve, TypeOK, QuoteLoaded
<1>2. CASE SubmitEntry
  <2>1. op' \in Operators /\ op'.at = "sent"
    BY <1>0, <1>2 DEF SubmitEntry, OpAt, Operators, Steps
  <2> QED
    BY <1>2, <2>1 DEF SubmitEntry, TypeOK, QuoteLoaded, Operators
<1>3. CASE ProtectionUnconfirmed
  <2>1. op' \in Operators /\ op'.at = "idle"
    BY <1>3, RestingType DEF ProtectionUnconfirmed, Resting
  <2> QED
    BY <1>3, <2>1 DEF ProtectionUnconfirmed, TypeOK, QuoteLoaded, Operators
<1>4. CASE EndRefresh
  <2>1. op' \in Operators /\ op'.at = "idle"
    BY <1>4, RestingType DEF EndRefresh, Resting
  <2> QED
    BY <1>4, <2>1 DEF EndRefresh, TypeOK, QuoteLoaded, Operators
<1> QED
  BY <1>1, <1>2, <1>3, <1>4 DEF EntryStep

LEMMA TypedFault ==
  ASSUME Typed, FaultStep
  PROVE  Typed'
<1> USE LiveRiskAssumption DEF Typed
<1>1. CASE Crash
  <2>1. op' \in Operators /\ op'.at = "idle"
    BY <1>1, RestingType DEF Crash, Resting
  <2> QED
    BY <1>1, <2>1 DEF Crash, TypeOK, QuoteLoaded, Operators
<1>2. CASE DeleteBaseline
  BY <1>2, NoRiskType DEF DeleteBaseline, TypeOK, QuoteLoaded
<1> QED
  BY <1>1, <1>2 DEF FaultStep

LEMMA TypedStep == Typed /\ [Next]_vars => Typed'
<1>1. Typed /\ UNCHANGED vars => Typed'
  BY DEF Typed, TypeOK, QuoteLoaded, vars
<1> QED
  BY <1>1, StepKinds, TypedAccount, TypedRun, TypedRead, TypedObserve, TypedEntry, TypedFault

LEMMA TypedInvariant == Spec => []Typed
BY InitTyped, TypedStep, PTL DEF Spec

\* The variables keep their types; the sums, marks and peaks are integers
\* whatever cash is booked (live_trading.py 318-403).
THEOREM RiskTypeCorrect == Spec => []TypeOK
<1>1. Typed => TypeOK
  BY DEF Typed
<1> QED
  BY <1>1, TypedInvariant, PTL
-----------------------------------------------------------------------------
(* Cash flows                                                              *)

\* The flows of a baseline are the cash of its records but for the anchored.
Counted(r) == r.flows = Booked(r.records) - r.anchored

FlowsInv == Counted(risk) /\ Counted(op.risk)

LEMMA NoRiskCounted == Counted(NoRisk)
<1>1. <<>> \in Seq(Rows) /\ Len(<<>>) = 0
  OBVIOUS
<1>2. PICK sum : Sums(sum, <<>>) /\ Booked(<<>>) = sum[0]
  BY <1>1, BookedSums
<1> QED
  BY <1>2 DEF Sums, Counted, NoRisk

\* A step other than an observation leaves the operator's baseline alone,
\* drops it, or takes the saved one.
LEMMA OtherSteps ==
  ASSUME Typed, [Next]_vars, ~Evaluate, ~WriteBaseline, ~ListAfter
  PROVE  /\ op'.risk \in {op.risk, risk, NoRisk}
         /\ risk' \in {risk, NoRisk}
<1> USE DEF Resting, OpAt
<1>0. op \in Operators
  BY DEF Typed, TypeOK, Operators
<1>1. CASE AccountStep
  BY <1>1 DEF AccountStep, Market, Book, Correct, NextDay
<1>2. CASE RunStep
  BY <1>2 DEF RunStep, Start, Preflight, StartBlocked, RequestStop, EndSession
<1>3. CASE ReadStep
  BY <1>0, <1>3 DEF ReadStep, Refresh, ListBefore, ReadAnchor, List, Degrade, Operators
<1>4. CASE MarkInitialized
  BY <1>0, <1>4 DEF MarkInitialized, Operators
<1>5. CASE EntryStep
  BY <1>0, <1>5 DEF EntryStep, Reserve, SubmitEntry, ProtectionUnconfirmed, EndRefresh, Operators
<1>6. CASE FaultStep
  BY <1>6 DEF FaultStep, Crash, DeleteBaseline
<1>7. CASE UNCHANGED vars
  BY <1>7 DEF vars
<1> QED
  BY <1>1, <1>2, <1>3, <1>4, <1>5, <1>6, <1>7, StepKinds DEF ObserveStep

\* What the observing steps make of the baselines.
LEMMA EvaluateRisk ==
  ASSUME Typed, Evaluate
  PROVE  /\ op.at = "account" /\ op'.at = "write" /\ op'.risk = New /\ op'.first = op.first
         /\ op'.rows = op.rows /\ risk' = risk
BY DEF Typed, TypeOK, Evaluate, New, Reading

LEMMA WriteRisk ==
  ASSUME Typed, WriteBaseline
  PROVE  /\ op.at = "write" /\ op'.at = "mark" /\ op'.risk = NoRisk /\ op'.rows = op.rows
         /\ risk' = op.risk /\ journal' = journal
BY DEF WriteBaseline, Resting

LEMMA ListAfterRisk ==
  ASSUME Typed, ListAfter
  PROVE  /\ risk' = risk /\ op'.at \in {"list", "before"} /\ op'.first = op.first
         /\ \/ op'.risk = op.risk
            \/ /\ op'.risk.flows = 0 /\ op'.risk.records = ledger
               /\ op'.risk.anchored = Booked(ledger)
<1> DEFINE eur == Euros(op.equity, fx.rate)
           new == [NoRisk EXCEPT !.initialized = TRUE, !.peak = eur, !.dailyPeak = eur,
                                 !.records = ledger, !.anchored = Booked(ledger)]
<1>1. new.flows = 0 /\ new.records = ledger /\ new.anchored = Booked(ledger)
  BY DEF NoRisk
<1>2. /\ risk' = risk
      /\ op' = [op EXCEPT !.at = "list", !.risk = new] \/ op' = [op EXCEPT !.at = "before"]
  BY DEF ListAfter, OpAt
<1> HIDE DEF new
<1>3. op \in Operators
  BY DEF Typed, TypeOK, Operators
<1> QED
  BY <1>1, <1>2, <1>3 DEF Operators

LEMMA NewFields ==
  ASSUME Typed, op.at = "account"
  PROVE  LET r     == op.risk
             flows == FlowsWith(r, op.rows)
         IN  /\ New.flows = flows /\ New.anchored = r.anchored
             /\ New.records = r.records \o Unrecorded(r, op.rows)
             /\ New.last = Euros(Reading - flows, fx.rate) /\ New.day = day
             /\ New.peak >= r.peak /\ New.peak >= New.last
             /\ New.dailyPeak >= DayBase(r, day, New.last) /\ New.dailyPeak >= New.last
             /\ ~New.review => ~ReviewNeeded(r, op.rows)
<1>1. /\ op.risk \in RiskStates /\ op.rows \in Seq(Rows) /\ Reading \in Int /\ fx.rate \in Rates
      /\ day \in 0..MaxDay
  BY ReadingType
<1>2. PICK r \in RiskStates, rows \in Seq(Rows), equity \in Int, rate \in Rates, today \in 0..MaxDay :
        r = op.risk /\ rows = op.rows /\ equity = Reading /\ rate = fx.rate /\ today = day
  BY <1>1
<1> DEFINE o == Observed(r, rows, equity, rate, today)
           value == Euros(equity - FlowsWith(r, rows), rate)
<1>3. /\ o.initialized = r.initialized /\ o.anchored = r.anchored
      /\ o.flows = FlowsWith(r, rows)
      /\ o.records = r.records \o Unrecorded(r, rows)
      /\ o.last = value /\ o.day = today
      /\ o.peak >= r.peak /\ o.peak >= value
      /\ o.dailyPeak >= DayBase(r, today, value) /\ o.dailyPeak >= value
      /\ ~o.review => ~ReviewNeeded(r, rows)
  BY ObservedFields
<1>4. New = o
  BY <1>2 DEF New
<1> HIDE DEF o
<1> QED
  BY <1>2, <1>3, <1>4

LEMMA NewCounted == ASSUME Typed, op.at = "account", Counted(op.risk) PROVE Counted(New)
<1> DEFINE r == op.risk
           more == Unrecorded(r, op.rows)
<1>1. r \in RiskStates /\ op.rows \in Seq(Rows)
  BY ReadingType
<1>2. New.flows = r.flows + Booked(more) /\ New.records = r.records \o more /\ New.anchored = r.anchored
  BY NewFields DEF FlowsWith
<1>3. r.records \in Seq(Rows) /\ more \in Seq(Rows)
  BY <1>1, UnrecordedType DEF RiskStates
<1>4. Booked(r.records \o more) = Booked(r.records) + Booked(more)
  BY <1>3, BookedConcat
<1>5. r.flows = Booked(r.records) - r.anchored /\ r.anchored \in Int
  BY <1>1 DEF Counted, RiskStates
<1>6. Booked(r.records) \in Int /\ Booked(more) \in Int
  BY <1>3, BookedType
<1> HIDE DEF r, more
<1> QED
  BY <1>2, <1>4, <1>5, <1>6 DEF Counted

LEMMA FlowsStep == Typed /\ FlowsInv /\ [Next]_vars => FlowsInv'
<1> SUFFICES ASSUME Typed, FlowsInv, [Next]_vars PROVE Counted(risk') /\ Counted(op'.risk)
  BY DEF FlowsInv, Counted
<1>1. CASE Evaluate
  BY <1>1, EvaluateRisk, NewCounted DEF FlowsInv
<1>2. CASE WriteBaseline
  BY <1>2, WriteRisk, NoRiskCounted DEF FlowsInv
<1>3. CASE ListAfter
  <2>1. Booked(ledger) \in Int
    BY BookedType DEF Typed, TypeOK
  <2> QED
    BY <1>3, <2>1, ListAfterRisk DEF FlowsInv, Counted
<1> QED
  BY <1>1, <1>2, <1>3, OtherSteps, NoRiskCounted DEF FlowsInv

\* Every cash flow that the broker listed is counted once in the baseline,
\* whatever is booked, corrected or withdrawn while it is read
\* (live_trading.py 318-330, 342-364).
THEOREM CashCountedOnce == Spec => []FlowsCountedOnce
<1>1. Init => FlowsInv
  BY NoRiskCounted DEF Init, Resting, FlowsInv
<1>2. FlowsInv => FlowsCountedOnce
  BY DEF FlowsInv, Counted, FlowsCountedOnce
<1> QED
  BY <1>1, <1>2, FlowsStep, TypedInvariant, PTL DEF Spec
-----------------------------------------------------------------------------
(* Losses                                                                  *)

\* A saved baseline has been observed, and its peaks are at least those of the
\* undisturbed observations.
Dominates(r) ==
  /\ r.day # 0
  /\ seen.peak <= r.peak
  /\ seen.undisturbed => seen.day = r.day /\ seen.last = r.last /\ seen.dailyPeak <= r.dailyPeak

\* The day's peak so far, as history has it.
SeenBase(today) == IF seen.day # today THEN seen.last ELSE seen.dailyPeak

\* What an evaluated baseline that is not written yet has to show.
Evaluated(r) ==
  /\ r.day # 0 /\ r.last <= r.peak /\ r.last <= r.dailyPeak
  /\ ~op.first => /\ seen.peak <= r.peak
                  /\ seen.undisturbed => SeenBase(r.day) <= r.dailyPeak

LossInv ==
  /\ LossHalts
  /\ op.at \in {"before", "anchor", "after"} => op.first
  /\ risk.initialized => Dominates(risk)
  /\ op.at \in {"list", "account"} /\ ~op.first => Dominates(op.risk)
  /\ op.at = "write" => Evaluated(op.risk)

Histories ==
  [peak : Int, dailyPeak : Int, last : Int, day : 0..MaxDay, lost : BOOLEAN, undisturbed : BOOLEAN]

LEMMA LossEvaluate == ASSUME Typed, LossInv, Evaluate PROVE LossInv'
<1>1. /\ op.at = "account" /\ op'.at = "write" /\ op'.risk = New /\ op'.first = op.first
      /\ risk' = risk
  BY EvaluateRisk
<1>2. /\ op.risk \in RiskStates /\ New \in RiskStates /\ seen \in Histories /\ op \in Operators
      /\ Reading \in Int /\ Booked(ledger) \in Int
  BY <1>1, ReadingType, BookedType DEF Typed, TypeOK, Histories, Operators
<1> DEFINE worth == Worth(Reading)
           found == Quiet /\ ~op.first /\
                      (\/ seen.peak - worth >= MaxTotalLoss
                       \/ seen.undisturbed /\ SeenBase(day) - worth >= MaxDailyLoss)
<1>3. /\ seen' = [seen EXCEPT !.lost = @ \/ found]
      /\ journal' = [journal EXCEPT !.halted = @ \/ LimitReached(New)]
  BY DEF Evaluate, New, Quiet, Reading, SeenBase
<1>4. Quiet => worth = New.last
  <2> SUFFICES ASSUME Quiet PROVE worth = New.last
    OBVIOUS
  <2>1. /\ New.flows = FlowsWith(op.risk, op.rows) /\ New.anchored = op.risk.anchored
        /\ New.last = Euros(Reading - FlowsWith(op.risk, op.rows), fx.rate)
    BY <1>1, NewFields
  <2>2. New.flows + New.anchored = Booked(ledger)
    BY DEF Quiet
  <2>3. New.flows \in Int /\ New.anchored \in Int
    BY <1>2 DEF RiskStates
  <2>4. Reading - Booked(ledger) + op.risk.anchored = Reading - FlowsWith(op.risk, op.rows)
    BY <1>2, <2>1, <2>2, <2>3
  <2> QED
    BY <2>1, <2>4 DEF Worth
<1>5. /\ New.peak >= op.risk.peak /\ New.peak >= New.last /\ New.day = day
      /\ New.dailyPeak >= DayBase(op.risk, day, New.last) /\ New.dailyPeak >= New.last
  BY <1>1, NewFields
<1>6. /\ New.peak \in Int /\ New.dailyPeak \in Int /\ New.last \in Int
      /\ op.risk.peak \in Int /\ op.risk.dailyPeak \in Int /\ op.risk.last \in Int
      /\ seen.peak \in Int /\ seen.dailyPeak \in Int /\ seen.last \in Int
      /\ MaxTotalLoss \in Int /\ MaxDailyLoss \in Int
  <2>1. New.peak \in Int /\ New.dailyPeak \in Int /\ New.last \in Int
    <3> HIDE DEF New
    <3> QED
      BY <1>2 DEF RiskStates
  <2>2. op.risk.peak \in Int /\ op.risk.dailyPeak \in Int /\ op.risk.last \in Int
    BY <1>2 DEF RiskStates
  <2>3. seen.peak \in Int /\ seen.dailyPeak \in Int /\ seen.last \in Int
    BY <1>2 DEF Histories
  <2>4. MaxTotalLoss \in Int /\ MaxDailyLoss \in Int
    BY LiveRiskAssumption DEF ValidPolicy
  <2> QED
    BY <2>1, <2>2, <2>3, <2>4
<1>7. ~op.first => /\ seen.peak <= New.peak
                   /\ seen.undisturbed => SeenBase(day) <= New.dailyPeak
  <2> SUFFICES ASSUME ~op.first
               PROVE  seen.peak <= New.peak /\ (seen.undisturbed => SeenBase(day) <= New.dailyPeak)
    OBVIOUS
  <2>1. Dominates(op.risk)
    BY <1>1 DEF LossInv
  <2>2. seen.undisturbed => SeenBase(day) <= DayBase(op.risk, day, New.last)
    BY <1>6, <2>1 DEF Dominates, SeenBase, DayBase
  <2>3. SeenBase(day) \in Int /\ DayBase(op.risk, day, New.last) \in Int
    BY <1>6 DEF SeenBase, DayBase
  <2> HIDE DEF New
  <2> QED
    BY <1>5, <1>6, <2>1, <2>2, <2>3 DEF Dominates
<1>8. found => LimitReached(New)
  <2> SUFFICES ASSUME found PROVE LimitReached(New)
    OBVIOUS
  <2>1. /\ worth = New.last /\ ~op.first
        /\ \/ seen.peak - New.last >= MaxTotalLoss
           \/ seen.undisturbed /\ SeenBase(day) - New.last >= MaxDailyLoss
    BY <1>4
  <2>2. SeenBase(day) \in Int
    BY <1>6 DEF SeenBase
  <2> HIDE DEF New, found
  <2> QED
    BY <1>6, <1>7, <2>1, <2>2 DEF LimitReached
<1> HIDE DEF found, worth
<1>9. LossHalts'
  <2>1. LossHalts
    BY DEF LossInv
  <2>2. seen'.lost => seen.lost \/ found
    BY <1>2, <1>3 DEF Histories
  <2>3. journal.halted \/ LimitReached(New) => journal'.halted
    BY <1>3 DEF Typed, TypeOK
  <2> QED
    BY <1>8, <2>1, <2>2, <2>3 DEF LossHalts
<1>10. /\ seen'.peak = seen.peak /\ seen'.undisturbed = seen.undisturbed /\ seen'.day = seen.day
       /\ seen'.last = seen.last /\ seen'.dailyPeak = seen.dailyPeak
  BY <1>2, <1>3 DEF Histories
<1>11. Evaluated(op.risk)'
  <2>1. day # 0
    BY DEF Typed, TypeOK
  <2> HIDE DEF New
  <2> QED
    BY <1>1, <1>5, <1>6, <1>7, <1>10, <2>1 DEF Evaluated, SeenBase
<1>12. (risk.initialized => Dominates(risk))'
  BY <1>1, <1>10 DEF LossInv, Dominates
<1> QED
  BY <1>1, <1>9, <1>11, <1>12 DEF LossInv

LEMMA LossWrite == ASSUME Typed, LossInv, WriteBaseline PROVE LossInv'
<1>1. op.at = "write" /\ op'.at = "mark" /\ risk' = op.risk /\ journal' = journal
  BY WriteRisk
<1> DEFINE r == op.risk
           base == SeenBase(r.day)
           shown == [seen EXCEPT !.peak = IF op.first THEN r.last ELSE Max({@, r.last}),
                                 !.day = r.day, !.last = r.last,
                                 !.dailyPeak = IF op.first THEN r.last ELSE Max({base, r.last}),
                                 !.undisturbed = op.quiet /\ (op.first \/ @)]
<1>2. seen' = IF op.first \/ op.quiet THEN shown ELSE [seen EXCEPT !.undisturbed = FALSE]
  BY DEF WriteBaseline, SeenBase
<1>3. r \in RiskStates /\ seen \in Histories /\ op.first \in BOOLEAN /\ op.quiet \in BOOLEAN
  BY DEF Typed, TypeOK, Histories
<1>4. /\ r.peak \in Int /\ r.dailyPeak \in Int /\ r.last \in Int /\ base \in Int
      /\ seen.peak \in Int /\ seen.dailyPeak \in Int /\ seen.last \in Int
  BY <1>3 DEF RiskStates, Histories, SeenBase
<1>5. Evaluated(r)
  BY <1>1 DEF LossInv
<1>6. seen'.lost = seen.lost
  <2>1. shown.lost = seen.lost
    BY <1>3 DEF Histories
  <2> QED
    BY <1>2, <1>3, <2>1 DEF Histories
<1>7. LossHalts'
  BY <1>1, <1>6 DEF LossInv, LossHalts
<1>8. Dominates(risk)'
  <2>1. CASE op.first
    <3>1. /\ seen'.peak = r.last /\ seen'.day = r.day /\ seen'.last = r.last
          /\ seen'.dailyPeak = r.last
      BY <1>2, <1>3, <2>1 DEF Histories
    <3> QED
      BY <1>1, <1>4, <1>5, <3>1 DEF Dominates, Evaluated
  <2>2. CASE ~op.first /\ op.quiet
    <3>1. /\ seen'.peak = Max({seen.peak, r.last}) /\ seen'.day = r.day /\ seen'.last = r.last
          /\ seen'.dailyPeak = Max({base, r.last}) /\ seen'.undisturbed = seen.undisturbed
      BY <1>2, <1>3, <2>2 DEF Histories
    <3> QED
      BY <1>1, <1>4, <1>5, <2>2, <3>1, MaxOfTwo DEF Dominates, Evaluated
  <2>3. CASE ~op.first /\ ~op.quiet
    <3>1. seen'.peak = seen.peak /\ ~seen'.undisturbed
      BY <1>2, <1>3, <2>3 DEF Histories
    <3> QED
      BY <1>1, <1>5, <2>3, <3>1 DEF Dominates, Evaluated
  <2> QED
    BY <1>3, <2>1, <2>2, <2>3
<1> QED
  BY <1>1, <1>7, <1>8 DEF LossInv, Dominates

\* The other steps keep the history and an established halt, and read a
\* baseline into the operator's memory only as it was saved.
LEMMA LossFrame ==
  ASSUME Typed, LossInv, [Next]_vars, ~Evaluate, ~WriteBaseline
  PROVE  /\ seen' = seen /\ (journal.halted => journal'.halted) /\ risk' \in {risk, NoRisk}
         /\ op'.at # "write" \/ op' = op
         /\ op'.at \in {"before", "anchor", "after"} => op'.first
         /\ op'.at \in {"list", "account"} /\ ~op'.first =>
              \/ op.at \in {"list", "account"} /\ ~op.first /\ op'.risk = op.risk
              \/ risk.initialized /\ op'.risk = risk
<1> USE DEF Resting, OpAt, LossInv
<1>0. /\ op \in Operators
      /\ journal \in [halted : BOOLEAN, initialized : BOOLEAN, entered : BOOLEAN]
  BY DEF Typed, TypeOK, Operators
<1>1. CASE AccountStep
  BY <1>1 DEF AccountStep, Market, Book, Correct, NextDay
<1>2. CASE RunStep
  BY <1>2 DEF RunStep, Start, Preflight, StartBlocked, RequestStop, EndSession
<1>3. CASE Refresh
  <2>1. /\ op'.first = ~risk.initialized /\ op'.risk = risk
        /\ op'.at = IF risk.initialized THEN "list" ELSE IF MayInitialize THEN "before" ELSE "degraded"
    BY <1>3 DEF Refresh
  <2> QED
    BY <1>3, <2>1 DEF Refresh
<1>4. CASE ListBefore \/ ReadAnchor \/ List \/ Degrade
  BY <1>0, <1>4 DEF ListBefore, ReadAnchor, List, Degrade, Operators
<1>5. CASE ListAfter
  <2>1. op.at = "after" /\ op'.first = op.first /\ op'.at \in {"list", "before"}
    BY <1>5, ListAfterRisk DEF ListAfter
  <2> QED
    BY <1>5, <2>1 DEF ListAfter
<1>6. CASE MarkInitialized
  BY <1>0, <1>6 DEF MarkInitialized, Operators
<1>7. CASE EntryStep
  BY <1>0, <1>7 DEF EntryStep, Reserve, SubmitEntry, ProtectionUnconfirmed, EndRefresh, Operators
<1>8. CASE FaultStep
  BY <1>8 DEF FaultStep, Crash, DeleteBaseline
<1>9. CASE UNCHANGED vars
  BY <1>9 DEF vars
<1> QED
  BY <1>1, <1>2, <1>3, <1>4, <1>5, <1>6, <1>7, <1>8, <1>9, StepKinds DEF ReadStep, ObserveStep

LEMMA LossStep == Typed /\ LossInv /\ [Next]_vars => LossInv'
<1> SUFFICES ASSUME Typed, LossInv, [Next]_vars, ~Evaluate, ~WriteBaseline PROVE LossInv'
  BY LossEvaluate, LossWrite
<1>1. LossHalts'
  BY LossFrame DEF LossInv, LossHalts
<1>2. (risk.initialized => Dominates(risk))'
  BY LossFrame DEF LossInv, Dominates, NoRisk
<1>3. (op.at \in {"list", "account"} /\ ~op.first => Dominates(op.risk))'
  BY LossFrame DEF LossInv, Dominates
<1>4. (op.at = "write" => Evaluated(op.risk))'
  BY LossFrame DEF LossInv, Evaluated, SeenBase
<1> QED
  BY <1>1, <1>2, <1>3, <1>4, LossFrame DEF LossInv

LEMMA LossInvariant == Spec => []LossInv
<1>1. Init => LossInv
  BY DEF Init, Resting, NoRisk, LossInv, LossHalts
<1> QED
  BY <1>1, LossStep, TypedInvariant, PTL DEF Spec

\* A loss that the undisturbed observations establish has latched the halt,
\* whatever cash flows, rate changes, new days, crashes and deletions of the
\* baseline come between them (live_trading.py 366-388).
THEOREM LossesHalt == Spec => []LossHalts
<1>1. LossInv => LossHalts
  BY DEF LossInv
<1> QED
  BY <1>1, LossInvariant, PTL
-----------------------------------------------------------------------------
(* Entries                                                                 *)

\* The rows just listed show what the baseline has recorded.
Confirmed(r) == \A i \in DOMAIN r.records : op.rows[i] = r.records[i]

EntryInv ==
  /\ op.at = "write" /\ ~op.risk.review => Confirmed(op.risk)
  /\ op.at \in {"mark", "ready"} /\ ~risk.review => Confirmed(risk)
  /\ EntryOnVerifiedRisk

LEMMA EntryEvaluate == ASSUME Typed, EntryInv, Evaluate PROVE EntryInv'
<1> DEFINE r == op.risk
           rows == op.rows
<1>1. op.at = "account" /\ op'.at = "write" /\ op'.risk = New /\ op'.rows = rows
  BY EvaluateRisk
<1>2. /\ New.records = r.records \o Unrecorded(r, rows)
      /\ ~New.review => ~ReviewNeeded(r, rows)
  BY <1>1, NewFields
<1>3. r.records \in Seq(Rows) /\ rows \in Seq(Rows)
  BY <1>1, ReadingType DEF RiskStates
<1>4. ASSUME ~New.review, NEW i \in DOMAIN New.records PROVE rows[i] = New.records[i]
  <2>1. \A j \in DOMAIN r.records : rows[j] = r.records[j]
    BY <1>2, <1>4 DEF ReviewNeeded
  <2> DEFINE known == r.records
             more == SubSeq(rows, Len(known) + 1, Len(rows))
  <2> HIDE DEF known, rows
  <2>2. known \in Seq(Rows) /\ rows \in Seq(Rows) /\ New.records = known \o more
    BY <1>2, <1>3 DEF Unrecorded, known
  <2>3. CASE i \in 1..Len(known)
    <3>1. i \in DOMAIN known
      BY <2>2, <2>3
    <3>2. New.records[i] = known[i]
      BY <2>2, <2>3
    <3> QED
      BY <2>1, <3>1, <3>2 DEF known
  <2>4. CASE i \notin 1..Len(known)
    <3>1. i \in 1..(Len(known) + Len(more)) /\ more \in Seq(Rows)
      BY <1>4, <2>2
    <3>2. i - Len(known) \in 1..Len(more) /\ New.records[i] = more[i - Len(known)]
      BY <2>2, <2>4, <3>1
    <3>3. more[i - Len(known)] = rows[i]
      BY <2>2, <3>2
    <3> QED
      BY <3>2, <3>3
  <2> QED
    BY <2>3, <2>4
<1> QED
  BY <1>1, <1>4 DEF EntryInv, Confirmed, EntryOnVerifiedRisk

LEMMA EntryStepVerified == Typed /\ LossInv /\ EntryInv /\ [Next]_vars => EntryInv'
<1> SUFFICES ASSUME Typed, LossInv, EntryInv, [Next]_vars PROVE EntryInv'
  OBVIOUS
<1> USE DEF Resting, OpAt, EntryInv, Confirmed, EntryOnVerifiedRisk
<1>0. op \in Operators /\ NoRisk.records = <<>>
  BY DEF Typed, TypeOK, Operators, NoRisk
<1>1. CASE AccountStep
  BY <1>1 DEF AccountStep, Market, Book, Correct, NextDay
<1>2. CASE RunStep
  BY <1>2 DEF RunStep, Start, Preflight, StartBlocked, RequestStop, EndSession
<1>3. CASE ReadStep
  <2>1. op'.at \in {"before", "anchor", "after", "list", "account", "degraded"}
    BY <1>0, <1>3, ListAfterRisk
       DEF ReadStep, Refresh, ListBefore, ReadAnchor, List, Degrade, Operators
  <2> QED
    BY <2>1
<1>4. CASE Evaluate
  BY <1>4, EntryEvaluate
<1>5. CASE WriteBaseline
  BY <1>5, WriteRisk
<1>6. CASE MarkInitialized
  BY <1>0, <1>6 DEF MarkInitialized, Operators
<1>7. CASE SubmitEntry
  <2>1. op.at = "ready" /\ op.fresh /\ ~risk.review /\ ~journal.halted
    BY <1>7 DEF SubmitEntry, BuyRejected
  <2>2. ~seen.lost
    BY <2>1 DEF LossInv, LossHalts
  <2> QED
    BY <1>0, <1>7, <2>1, <2>2 DEF SubmitEntry, Operators
<1>8. CASE Reserve \/ ProtectionUnconfirmed \/ EndRefresh
  BY <1>0, <1>8 DEF Reserve, ProtectionUnconfirmed, EndRefresh, Operators
<1>9. CASE FaultStep
  <2>1. (op' = op \/ op'.at = "idle") /\ risk' \in {risk, NoRisk} /\ seen' = seen
    BY <1>9 DEF FaultStep, Crash, DeleteBaseline
  <2>2. DOMAIN NoRisk.records = {}
    BY <1>0
  <2> QED
    BY <2>1, <2>2
<1>10. CASE UNCHANGED vars
  BY <1>10 DEF vars
<1> QED
  BY <1>1, <1>2, <1>3, <1>4, <1>5, <1>6, <1>7, <1>8, <1>9, <1>10, StepKinds DEF ObserveStep, EntryStep

\* No entry goes out after a loss that was ever established, nor on a stale
\* rate, nor while a recorded activity differs from the list just read
\* (live_trading.py 261-264, 403-412).
THEOREM EntriesAreVerified == Spec => []EntryOnVerifiedRisk
<1>1. Init => EntryInv
  BY DEF Init, Resting, EntryInv, EntryOnVerifiedRisk
<1>2. EntryInv => EntryOnVerifiedRisk
  BY DEF EntryInv
<1> QED
  BY <1>1, <1>2, EntryStepVerified, TypedInvariant, LossInvariant, PTL DEF Spec
=============================================================================
