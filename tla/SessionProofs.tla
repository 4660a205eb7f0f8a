--------------------------- MODULE SessionProofs ---------------------------
(***************************************************************************)
(* The two promises of the session's schedule, for every length of the day *)
(* and of the operations, every interval and any number of failures.       *)
(*                                                                         *)
(* StepKinds sorts the steps by what they do to the schedule.  TimeInv     *)
(* orders the recorded times; on it rest GapInv, which says at each step   *)
(* how long a position can have been without its stop, PassInv, by which   *)
(* a second pass comes due after the close only, and EntryInv, which says  *)
(* how late each step of a date can be while its pass is to come.          *)
(***************************************************************************)
EXTENDS Session, TLAPS

-----------------------------------------------------------------------------
(* Dates and durations                                                     *)

Longest == Max(Durations)

OpenAt(d)  == d * DayLength + OpenTime
CloseAt(d) == d * DayLength + CloseTime

\* What n operations and the failures so far can have taken.
Cost(n) == (n + faults) * Longest

LEMMA LongestDuration == Longest \in Nat /\ \A d \in Durations : d <= Longest
<1>1. PICK d \in Durations : \A e \in Durations : d >= e
  BY SessionAssumption DEF SessionAssumption
<1>2. Longest \in Durations /\ \A e \in Durations : Longest >= e
  BY <1>1 DEF Longest, Max
<1> QED
  BY <1>2, SessionAssumption DEF SessionAssumption

LEMMA Constants ==
  /\ DayLength \in Nat /\ OpenTime \in Nat /\ CloseTime \in Nat
  /\ 0 < OpenTime /\ OpenTime < CloseTime /\ CloseTime < DayLength
  /\ RiskInterval \in Nat \ {0} /\ SignalInterval \in Nat \ {0} /\ SyncInterval \in Nat \ {0}
  /\ MaxErrors \in Nat \ {0} /\ OpenBuffer \in Nat /\ CloseBuffer \in Nat
  /\ MaxFaults \in Nat /\ MaxMoves \in Nat /\ Wanted \subseteq Nat
BY SessionAssumption DEF SessionAssumption, ValidSchedule

LEMMA DateOfTime ==
  ASSUME NEW t \in Nat
  PROVE  /\ Date(t) \in Nat /\ t % DayLength \in 0..(DayLength - 1)
         /\ t = Date(t) * DayLength + (t % DayLength)
BY Constants DEF Date

LEMMA LaterDate ==
  ASSUME NEW d \in Nat, NEW e \in Nat, d < e
  PROVE  /\ d * DayLength \in Nat /\ e * DayLength \in Nat
         /\ d * DayLength + DayLength <= e * DayLength
<1>1. (e - d) * DayLength = e * DayLength - d * DayLength
  BY Constants
<1>2. e - d \in Nat /\ e - d >= 1
  OBVIOUS
<1>3. (e - d) * DayLength >= DayLength
  BY <1>2, Constants
<1> QED
  BY <1>1, <1>3, Constants

\* The opening hours of a date.
LEMMA OpenHours ==
  ASSUME NEW t \in Nat, NEW d \in Nat
  PROVE  /\ OpenAt(d) \in Nat /\ CloseAt(d) \in Nat /\ OpenAt(d) < CloseAt(d)
         /\ IsOpen(t) /\ Date(t) = d <=> OpenAt(d) <= t /\ t < CloseAt(d)
         /\ Date(t) = d => SinceOpen(t) = t - OpenAt(d) /\ UntilClose(t) = CloseAt(d) - t
<1>1. /\ Date(t) \in Nat /\ t % DayLength \in 0..(DayLength - 1)
      /\ t = Date(t) * DayLength + (t % DayLength)
  BY DateOfTime
<1>2. d * DayLength \in Nat
  BY Constants
<1>3. Date(t) < d => Date(t) * DayLength + DayLength <= d * DayLength
  BY <1>1, LaterDate
<1>4. d < Date(t) => d * DayLength + DayLength <= Date(t) * DayLength
  BY <1>1, LaterDate
<1>5. Date(t) * DayLength \in Nat
  BY <1>1, Constants
<1> DEFINE r == t % DayLength
           a == Date(t) * DayLength
           b == d * DayLength
<1>6. r \in 0..(DayLength - 1) /\ a \in Nat /\ b \in Nat /\ t = a + r
  BY <1>1, <1>2, <1>5
<1>7. IsOpen(t) <=> r \in OpenTime..(CloseTime - 1)
  BY DEF IsOpen
<1>8. OpenAt(d) = b + OpenTime /\ CloseAt(d) = b + CloseTime
  BY DEF OpenAt, CloseAt
<1>9. SinceOpen(t) = r - OpenTime /\ UntilClose(t) = CloseTime - r
  BY DEF SinceOpen, UntilClose
<1>10. /\ Date(t) < d => a + DayLength <= b
       /\ d < Date(t) => b + DayLength <= a
       /\ Date(t) = d => a = b
  BY <1>3, <1>4
<1> HIDE DEF r, a, b
<1> QED
  BY <1>1, <1>6, <1>7, <1>8, <1>9, <1>10, Constants

\* Between two moments of the same opening hours the market is open.
LEMMA OpenBetween ==
  ASSUME NEW s \in Nat, NEW t \in Nat, NEW u \in Nat, s <= t, t <= u,
         IsOpen(s), IsOpen(u), Date(s) = Date(u)
  PROVE  IsOpen(t) /\ Date(s) = Date(t)
<1> DEFINE d == Date(u)
<1>1. d \in Nat
  BY DateOfTime
<1> HIDE DEF d
<1>2. OpenAt(d) \in Nat /\ CloseAt(d) \in Nat
  BY <1>1, OpenHours
<1>3. OpenAt(d) <= s
  BY <1>1, OpenHours DEF d
<1>4. u < CloseAt(d)
  BY <1>1, OpenHours DEF d
<1>5. OpenAt(d) <= t /\ t < CloseAt(d)
  BY <1>2, <1>3, <1>4
<1>6. IsOpen(t) /\ Date(t) = d
  BY <1>1, <1>5, OpenHours
<1> QED
  BY <1>6 DEF d

\* Before the next opening the market is open only before its close.
LEMMA OpenBefore ==
  ASSUME NEW t \in Nat, NEW d \in Nat, IsOpen(t), t < OpenAt(d + 1)
  PROVE  t < CloseAt(d)
<1>1. Date(t) \in Nat
  BY DateOfTime
<1>2. OpenAt(Date(t)) <= t /\ t < CloseAt(Date(t))
  BY <1>1, OpenHours
<1>3. d + 1 < Date(t) => (d + 1) * DayLength + DayLength <= Date(t) * DayLength
  BY <1>1, LaterDate
<1>4. Date(t) < d => Date(t) * DayLength + DayLength <= d * DayLength
  BY <1>1, LaterDate
<1>5. (d + 1) * DayLength \in Nat /\ Date(t) * DayLength \in Nat /\ d * DayLength \in Nat
  BY <1>1, Constants
<1> QED
  BY <1>1, <1>2, <1>3, <1>4, <1>5, Constants DEF OpenAt, CloseAt

LEMMA NextOpening ==
  ASSUME NEW t \in Nat
  PROVE  NextOpen(t) \in Nat /\ t <= NextOpen(t)
<1>1. /\ Date(t) \in Nat /\ t % DayLength \in 0..(DayLength - 1)
      /\ t = Date(t) * DayLength + (t % DayLength)
  BY DateOfTime
<1> DEFINE a == DayLength * Date(t)
<1>2. a \in Nat /\ a = Date(t) * DayLength /\ DayLength * (Date(t) + 1) = a + DayLength
  BY <1>1, Constants
<1> HIDE DEF a
<1>3. NextOpen(t) = IF t % DayLength < OpenTime THEN OpenTime + a ELSE OpenTime + (a + DayLength)
  BY <1>2 DEF NextOpen, a
<1> QED
  BY <1>1, <1>2, <1>3, Constants

\* What the attempts at the operation at hand took, and what all of them can take.
Tries == errors * Longest
Retry == MaxErrors * Longest

\* Every operation, and every failure, adds at most the longest duration.
LEMMA Costs ==
  ASSUME faults \in 0..MaxFaults
  PROVE  \A n \in Nat : /\ Cost(n) \in Nat /\ Cost(n) <= Busy(n)
                        /\ Cost(n + 1) = Cost(n) + Longest
<1>1. Longest \in Nat
  BY LongestDuration
<1>2. ASSUME NEW n \in Nat PROVE Cost(n) \in Nat /\ Cost(n) <= Busy(n)
  <2>1. (n + MaxFaults) * Longest = (n + faults) * Longest + (MaxFaults - faults) * Longest
    BY <1>1, Constants
  <2>2. (MaxFaults - faults) * Longest \in Nat /\ (n + faults) * Longest \in Nat
    BY <1>1, Constants
  <2> QED
    BY <2>1, <2>2 DEF Cost, Busy, Longest
<1>3. ASSUME NEW n \in Nat PROVE Cost(n + 1) = Cost(n) + Longest
  <2>1. (n + 1 + faults) * Longest = (n + faults) * Longest + Longest
    BY <1>1, Constants
  <2> QED
    BY <2>1 DEF Cost
<1> QED
  BY <1>2, <1>3

LEMMA FaultCosts ==
  ASSUME faults \in 0..MaxFaults, faults' = faults + 1
  PROVE  \A n \in Nat : Cost(n)' = Cost(n) + Longest
<1>1. Longest \in Nat
  BY LongestDuration
<1>2. ASSUME NEW n \in Nat PROVE (n + (faults + 1)) * Longest = (n + faults) * Longest + Longest
  BY <1>1, Constants
<1> QED
  BY <1>2 DEF Cost, Longest

LEMMA RetryCosts ==
  ASSUME errors \in 0..MaxErrors
  PROVE  /\ Tries \in Nat /\ Retry \in Nat /\ Longest \in Nat
         /\ errors < MaxErrors => Tries + Longest <= Retry
         /\ errors = 0 => Tries = 0
         /\ errors' = errors + 1 => Tries' = Tries + Longest
         /\ errors' = 0 => Tries' = 0
         /\ errors' = errors => Tries' = Tries
<1>1. Longest \in Nat /\ MaxErrors \in Nat
  BY LongestDuration, Constants
<1>2. errors * Longest \in Nat /\ MaxErrors * Longest \in Nat
  BY <1>1
<1>3. errors < MaxErrors => errors * Longest + Longest <= MaxErrors * Longest
  <2>1. MaxErrors * Longest = errors * Longest + (MaxErrors - errors) * Longest
    BY <1>1
  <2>2. errors < MaxErrors => (MaxErrors - errors) * Longest >= Longest
    BY <1>1
  <2> QED BY <1>1, <1>2, <2>1, <2>2
<1>4. (errors + 1) * Longest = errors * Longest + Longest /\ 0 * Longest = 0
  BY <1>1
<1> QED
  BY <1>1, <1>2, <1>3, <1>4 DEF Tries, Retry, Longest

-----------------------------------------------------------------------------
(* Types and times                                                         *)

Steps  == {"top", "risk", "protect", "signal", "pass", "entry", "sleep", "wait"}
\* The steps of a cycle, begun while the market was open.
Within == {"risk", "protect", "signal", "pass", "entry", "sleep"}

Typed ==
  /\ TypeOK
  /\ previousDate \in Nat \cup {Never} /\ faults \in 0..MaxFaults /\ moves \in Nat
  /\ passes \in Nat /\ entries \in Nat
  /\ errors < MaxErrors \/ pc = "failed"

\* How the recorded times relate: the clock and the mark of a cycle are past, and
\* a sleep ends in the future, after the risk interval if the market is open.
TimeInv ==
  /\ clock <= now /\ mark <= now /\ nextProtect <= mark + SyncInterval
  /\ pc = "wait" => now <= wake /\ (IsOpen(now) => wake <= now + RiskInterval)
  /\ pc \in Within => IsOpen(clock) /\ Date(clock) = previousDate
  /\ pc \in Within \ {"risk"} => clock <= mark
  /\ previousDate # Never => IsOpen(dayStart) /\ Date(dayStart) = previousDate

\* What a step does to the times, the counters and the position.
LEMMA TimeTaken ==
  ASSUME Typed, TimePasses
  PROVE  now' \in Nat /\ now <= now' /\ now' <= now + Longest
BY LongestDuration, SessionAssumption DEF TimePasses, Typed, TypeOK, SessionAssumption

LEMMA InitTyped == Init => Typed /\ TimeInv
<1> SUFFICES ASSUME Init PROVE Typed /\ TimeInv
  OBVIOUS
<1>1. now \in Nat
  BY SessionAssumption DEF Init, SessionAssumption
<1>2. Typed
  BY <1>1, Constants DEF Init, Typed, TypeOK, Never
<1>3. TimeInv
  BY <1>1, Constants DEF Init, TimeInv, Within, Never
<1> QED
  BY <1>2, <1>3

LEMMA TypedStep == ASSUME Typed, TimeInv, [Next]_vars PROVE Typed'
<1> USE DEF Typed, TypeOK
<1>1. \A p \in Nat : Cents(p) \in Nat
  BY DEF Cents
<1>2. \A x, y \in Nat : Greatest(x, y) \in Nat /\ Least(x, y) \in Nat
  BY DEF Greatest, Least
<1>3. Date(now) \in Nat
  BY DateOfTime
<1>4. CASE ReadClock
  <2>1. CASE Fault /\ UNCHANGED <<moves, position>>
    BY <1>4, <2>1, TimeTaken, Constants DEF ReadClock, Fault, Raise, schedule, history, position
  <2>2. CASE BeginCycle
    BY <1>3, <1>4, <2>2, TimeTaken, Constants DEF ReadClock, BeginCycle, Done, history, position
  <2>3. CASE WaitForOpen
    <3>1. NextOpen(now) \in Nat
      BY NextOpening
    <3> QED
      BY <1>4, <2>3, <3>1, Constants DEF ReadClock, WaitForOpen, history, position
  <2>4. CASE pc' = "ended" /\ UNCHANGED <<now, stop, mode, errors, error, faults, moves,
                                         schedule, position, history>>
    BY <2>4, <1>4 DEF ReadClock, schedule, position, history
  <2> QED
    BY <1>4, <2>1, <2>2, <2>3, <2>4 DEF ReadClock
<1>5. CASE RiskCycle
  <2>1. ASSUME NEW exited \in BOOLEAN, RiskDone(exited) PROVE Typed'
    BY <1>5, <2>1, TimeTaken, Constants
       DEF RiskCycle, RiskDone, Done, ExitAttempt, history, position
  <2>2. CASE Fault /\ UNCHANGED moves /\ (ExitAttempt \/ UNCHANGED position)
    BY <1>5, <2>2, TimeTaken, Constants
       DEF RiskCycle, Fault, Raise, ExitAttempt, schedule, history, position
  <2>3. CASE ~IsOpen(now) /\ Raise("closed") /\ UNCHANGED <<faults, moves, position>>
    BY <1>5, <2>3, TimeTaken, Constants DEF RiskCycle, Raise, schedule, history, position
  <2> QED
    BY <1>5, <2>1, <2>2, <2>3 DEF RiskCycle
<1>6. CASE ProtectStops
  <2>1. CASE Fault /\ UNCHANGED <<moves, position>>
    BY <1>6, <2>1, TimeTaken, Constants DEF ProtectStops, Fault, Raise, schedule, history, position
  <2>2. CASE Refuses /\ Raise("refused") /\ UNCHANGED <<faults, moves, position>>
    BY <1>6, <2>2, TimeTaken, Constants DEF ProtectStops, Raise, schedule, history, position
  <2>3. CASE /\ SyncStop
             /\ Done(IF pc = "protect" THEN "signal" ELSE "sleep")
             /\ nextProtect' = IF pc = "protect" THEN mark + Greatest(1, SyncInterval) ELSE 0
             /\ nextSignal' = IF pc = "protect" THEN nextSignal
                              ELSE mark + Greatest(1, SignalInterval)
             /\ UNCHANGED <<clock, previousDate, mark, wake, bought, moves, history>>
    <3>1. /\ wanted' \in Nat /\ live' \in Nat /\ since' \in Nat
          /\ holding' \in {"none", "working", "exposed", "protected"}
      <4>1. wanted' \in Nat /\ since' \in Nat /\ holding' \in {"none", "working", "exposed", "protected"}
        <5>1. CASE holding \in {"none", "working"} /\ UNCHANGED position
          BY <5>1 DEF position
        <5>2. CASE holding = "protected" /\ UNCHANGED <<holding, since, wanted>>
          BY <5>2
        <5>3. CASE holding' = "protected" /\ wanted' \in Wanted /\ since' = 0
          BY <5>3, Constants
        <5> QED
          BY <2>3, <5>1, <5>2, <5>3 DEF SyncStop, position
      <4>2. live' = Cents(wanted') \/ live' = Cents(Greatest(wanted, live)) \/ live' = live
        BY <2>3 DEF SyncStop, position
      <4>3. Greatest(wanted, live) \in Nat
        BY DEF Greatest
      <4>4. live' \in Nat
        BY <1>1, <4>1, <4>2, <4>3
      <4> QED
        BY <4>1, <4>4
    <3>2. nextProtect' \in Nat /\ nextSignal' \in Nat
      BY <1>6, <2>3, Constants DEF Greatest
    <3> QED
      BY <2>3, <3>1, <3>2, TimeTaken, Constants DEF Done, history
  <2> QED
    BY <1>6, <2>1, <2>2, <2>3 DEF ProtectStops
<1>7. CASE SignalDue
  <2>1. SinceOpen(clock) < OpenBuffer => DeferredUntil \in Nat
    <3>1. SinceOpen(clock) \in Int
      BY DateOfTime, Constants DEF SinceOpen
    <3> QED
      BY <3>1, Constants DEF DeferredUntil, Least, Greatest
  <2> QED
    BY <1>7, <2>1, Constants DEF SignalDue, position, history
<1>8. CASE SignalPass
  <2>1. ASSUME NEW buys \in BOOLEAN, PassDone(buys) PROVE Typed'
    <3>1. mark + Greatest(1, SignalInterval) \in Nat
      BY Constants DEF Greatest
    <3> QED
      BY <1>8, <2>1, <3>1, TimeTaken, Constants DEF SignalPass, PassDone, Done, Enter, position
  <2>2. CASE Fault /\ UNCHANGED moves /\ (Enter \/ UNCHANGED position)
    BY <1>8, <2>2, TimeTaken, Constants
       DEF SignalPass, Fault, Raise, Enter, schedule, history, position
  <2>3. CASE ~IsOpen(now) /\ Raise("closed") /\ UNCHANGED <<faults, moves, position>>
    BY <1>8, <2>3, TimeTaken, Constants DEF SignalPass, Raise, schedule, history, position
  <2> QED
    BY <1>8, <2>1, <2>2, <2>3 DEF SignalPass
<1>9. CASE FallAsleep
  <2>1. now + SleepTime \in Nat
    <3>1. UntilClose(clock) \in Int
      BY DateOfTime, Constants DEF UntilClose
    <3> QED
      BY <3>1, Constants DEF SleepTime, Least, Greatest
  <2> QED
    BY <1>9, <2>1 DEF FallAsleep, position, history
<1>10. CASE Sleep
  BY <1>10 DEF Sleep, schedule, position, history
<1>11. CASE FillEntry \/ PriceMoves \/ RequestStop
  <2>1. CASE FillEntry
    BY <2>1 DEF FillEntry, schedule, history
  <2>2. CASE PriceMoves
    BY <2>2, Constants DEF PriceMoves, schedule, history
  <2>3. CASE RequestStop
    BY <2>3 DEF RequestStop, schedule, position, history
  <2> QED
    BY <1>11, <2>1, <2>2, <2>3
<1>12. CASE UNCHANGED vars
  BY <1>12 DEF vars, schedule, position, history
<1> QED
  BY <1>4, <1>5, <1>6, <1>7, <1>8, <1>9, <1>10, <1>11, <1>12 DEF Next

-----------------------------------------------------------------------------
(* The kinds of steps                                                      *)

\* An attempt fails: an injected fault, a closed market or a refused stop.
Attempt ==
  /\ pc \in {"top", "risk", "protect", "pass", "entry"} /\ pc' \in {pc, "failed"}
  /\ now <= now' /\ now' <= now + Longest
  /\ errors' = errors + 1 /\ (errors' >= MaxErrors => pc' = "failed")
  /\ UNCHANGED <<stop, schedule, history>>
  /\ \/ faults' = faults + 1
     \/ faults' = faults /\ pc \in {"risk", "pass"} /\ ~IsOpen(now)
     \/ faults' = faults /\ pc \in {"protect", "entry"} /\ holding' # "exposed"
  /\ holding' = "exposed" =>
        \/ UNCHANGED <<holding, since>>
        \/ since' = now /\ IsOpen(now) /\ pc \in {"risk", "pass"}

\* The stops are synchronized.
Protect ==
  /\ pc \in {"protect", "entry"} /\ holding' # "exposed"
  /\ Done(IF pc = "protect" THEN "signal" ELSE "sleep")
  /\ nextProtect' = IF pc = "protect" THEN mark + Greatest(1, SyncInterval) ELSE 0
  /\ nextSignal' = IF pc = "protect" THEN nextSignal ELSE mark + Greatest(1, SignalInterval)
  /\ UNCHANGED <<clock, previousDate, mark, wake, bought, history>>

\* Nothing of the schedule moves; the loop may end.
Pause ==
  /\ pc' = pc \/ (pc' = "ended" /\ pc \in {"top", "wait"} /\ (stop \/ ~IsOpen(now)))
  /\ UNCHANGED <<now, faults, previousDate, clock, mark, nextSignal, nextProtect, wake, history>>
  /\ UNCHANGED <<holding, since>>
  /\ errors' = errors \/ pc' = "ended"
  /\ (stop => stop')

LEMMA StepKinds ==
  ASSUME Typed, [Next]_vars
  PROVE  \/ Attempt
         \/ pc = "top" /\ ~stop /\ BeginCycle
         \/ pc = "top" /\ ~stop /\ pc' = "wait" /\ WaitForOpen
         \/ pc = "risk" /\ \E exited \in BOOLEAN : RiskDone(exited)
         \/ Protect
         \/ SignalDue
         \/ pc = "pass" /\ \E buys \in BOOLEAN : PassDone(buys)
         \/ FallAsleep
         \/ Sleep /\ ~stop
         \/ FillEntry
         \/ Pause
<1> USE DEF schedule, history, position
<1>1. now \in Nat /\ errors \in 0..MaxErrors
  BY DEF Typed, TypeOK
<1>2. ASSUME NEW why, Raise(why)
      PROVE  /\ now <= now' /\ now' <= now + Longest /\ errors' = errors + 1
             /\ pc' \in {pc, "failed"} /\ (errors' >= MaxErrors => pc' = "failed")
             /\ UNCHANGED <<stop, schedule, history>>
  BY <1>2, TimeTaken DEF Raise
<1>3. CASE ReadClock
  <2>1. CASE Fault /\ UNCHANGED <<moves, position>>
    BY <1>2, <1>3, <2>1 DEF ReadClock, Fault, Attempt
  <2>2. CASE stop /\ pc' = "ended" /\ UNCHANGED <<now, stop, mode, errors, error, faults, moves,
                                                 schedule, position, history>>
    BY <1>3, <2>2 DEF ReadClock, Pause
  <2>3. CASE ~stop /\ WaitForOpen
    BY <1>3, <2>3 DEF ReadClock, WaitForOpen, Pause
  <2> QED
    BY <1>3, <2>1, <2>2, <2>3 DEF ReadClock
<1>4. CASE RiskCycle
  <2>1. CASE Fault /\ UNCHANGED moves /\ (ExitAttempt \/ UNCHANGED position)
    BY <1>2, <1>4, <2>1 DEF RiskCycle, Fault, Attempt, ExitAttempt
  <2>2. CASE ~IsOpen(now) /\ Raise("closed") /\ UNCHANGED <<faults, moves, position>>
    BY <1>2, <1>4, <2>2 DEF RiskCycle, Attempt
  <2> QED
    BY <1>4, <2>1, <2>2 DEF RiskCycle
<1>5. CASE ProtectStops
  <2>1. CASE Fault /\ UNCHANGED <<moves, position>>
    BY <1>2, <1>5, <2>1 DEF ProtectStops, Fault, Attempt
  <2>2. CASE Refuses /\ Raise("refused") /\ UNCHANGED <<faults, moves, position>>
    BY <1>2, <1>5, <2>2 DEF ProtectStops, Refuses, Attempt
  <2> QED
    BY <1>5, <2>1, <2>2 DEF ProtectStops, SyncStop, Protect
<1>6. CASE SignalPass
  <2>1. CASE Fault /\ UNCHANGED moves /\ (Enter \/ UNCHANGED position)
    <3>1. BuysAllowed(now) => IsOpen(now)
      BY <1>1, DateOfTime, Constants DEF BuysAllowed, IsOpen, SinceOpen, UntilClose
    <3> QED
      BY <1>2, <1>6, <2>1, <3>1 DEF SignalPass, Fault, Attempt, Enter
  <2>2. CASE ~IsOpen(now) /\ Raise("closed") /\ UNCHANGED <<faults, moves, position>>
    BY <1>2, <1>6, <2>2 DEF SignalPass, Attempt
  <2> QED
    BY <1>6, <2>1, <2>2 DEF SignalPass
<1>7. CASE Sleep
  BY <1>7 DEF Sleep, Pause
<1>8. CASE PriceMoves \/ RequestStop
  BY <1>8 DEF PriceMoves, RequestStop, Pause
<1>9. CASE UNCHANGED vars
  BY <1>9 DEF vars, Pause
<1> QED
  BY <1>3, <1>4, <1>5, <1>6, <1>7, <1>8, <1>9 DEF Next

LEMMA TimeStep == ASSUME Typed, TimeInv, [Next]_vars PROVE TimeInv'
<1> USE DEF TimeInv, Within
<1>1. /\ {now, clock, mark, nextProtect, wake, dayStart} \subseteq Nat /\ Longest \in Nat
      /\ SyncInterval \in Nat \ {0} /\ RiskInterval \in Nat \ {0}
  BY LongestDuration, Constants DEF Typed, TypeOK
<1>2. CASE Attempt
  <2>1. /\ pc \in {"top", "risk", "protect", "pass", "entry"} /\ pc' \in {pc, "failed"}
        /\ now <= now' /\ now' \in Int
        /\ UNCHANGED <<clock, mark, nextProtect, previousDate, dayStart>>
    BY <1>2, TypedStep DEF Attempt, schedule, history, Typed, TypeOK
  <2> QED
    BY <1>1, <2>1
<1>3. CASE pc = "top" /\ BeginCycle
  BY <1>1, <1>3, TimeTaken DEF BeginCycle, Done, history
<1>4. CASE pc = "top" /\ pc' = "wait" /\ WaitForOpen
  <2>1. NextOpen(now) \in Nat /\ now <= NextOpen(now)
    BY <1>1, NextOpening
  <2> QED
    BY <1>1, <1>4, <2>1 DEF WaitForOpen, history
<1>5. ASSUME pc = "risk", NEW exited \in BOOLEAN, RiskDone(exited) PROVE TimeInv'
  BY <1>1, <1>5, TimeTaken DEF RiskDone, Done, history
<1>6. CASE Protect
  BY <1>1, <1>6, TimeTaken DEF Protect, Done, history, Greatest
<1>7. CASE SignalDue
  BY <1>1, <1>7 DEF SignalDue, history
<1>8. ASSUME pc = "pass", NEW buys \in BOOLEAN, PassDone(buys) PROVE TimeInv'
  BY <1>1, <1>8, TimeTaken DEF PassDone, Done, history
<1>9. CASE FallAsleep
  <2>1. SleepTime \in Nat /\ SleepTime <= RiskInterval
    <3>1. UntilClose(clock) \in Int
      BY <1>1, DateOfTime, Constants DEF UntilClose
    <3> QED
      BY <1>1, <3>1 DEF SleepTime, Least, Greatest
  <2> QED
    BY <1>1, <1>9, <2>1 DEF FallAsleep, history
<1>10. CASE Sleep /\ ~stop
  BY <1>1, <1>10 DEF Sleep, schedule, history
<1>11. CASE FillEntry \/ Pause
  BY <1>1, <1>11 DEF FillEntry, Pause, schedule, history
<1> QED
  BY <1>2, <1>3, <1>4, <1>5, <1>6, <1>7, <1>8, <1>9, <1>10, <1>11, StepKinds

LEMMA TimeInvariant == Spec => [](Typed /\ TimeInv)
<1>1. Typed /\ TimeInv /\ [Next]_vars => (Typed /\ TimeInv)'
  BY TypedStep, TimeStep
<1> QED
  BY <1>1, InitTyped, PTL DEF Spec

\* The variables keep their types and no time is recorded before it has come.
THEOREM SessionTypeCorrect == Spec => []TypeOK
<1>1. Typed => TypeOK
  BY DEF Typed
<1> QED
  BY <1>1, TimeInvariant, PTL

-----------------------------------------------------------------------------
(* The protection                                                          *)

\* An exposed position waits for the synchronization that is due after the interval,
\* and from then on only for a pass that bought nothing, a sleep, the clock, the
\* risk check and the synchronization itself, in this order.
Waited(allowance) == now < since + SyncInterval + allowance

GapInv ==
  holding = "exposed" =>
    /\ since <= now /\ IsOpen(since) /\ nextProtect <= since + SyncInterval
    /\ IsOpen(now) /\ Date(since) = Date(now) =>
         /\ pc \in {"signal", "pass"} => Waited(Cost(0))
         /\ pc \in {"entry", "sleep", "wait"} => Waited(Cost(1))
         /\ pc = "top" => Waited(RiskInterval + Cost(1))
         /\ pc = "risk" => Waited(RiskInterval + Cost(2))
         /\ pc = "protect" => Waited(RiskInterval + Cost(3))

\* If the market is open on the date of the loss, it was so ever since.
LEMMA GapStep == ASSUME Typed, TimeInv, GapInv, [Next]_vars PROVE GapInv'
<1>1. /\ {now, clock, mark, nextProtect, wake, since} \subseteq Nat /\ Longest \in Nat
      /\ SyncInterval \in Nat \ {0} /\ RiskInterval \in Nat \ {0}
      /\ faults \in 0..MaxFaults
  BY LongestDuration, Constants DEF Typed, TypeOK
<1>2. \A n \in Nat : Cost(n) \in Nat /\ Cost(n + 1) = Cost(n) + Longest
  BY <1>1, Costs
<1> DEFINE C(n) == Cost(n)
<1>3. /\ C(0) \in Nat /\ C(1) = C(0) + Longest /\ C(2) = C(1) + Longest /\ C(3) = C(2) + Longest
      /\ C(1) \in Nat /\ C(2) \in Nat /\ C(3) \in Nat
  BY <1>2
<1>4. faults' = faults => \A n \in Nat : C(n)' = C(n)
  BY DEF Cost, Longest
<1>5. faults' = faults + 1 => \A n \in Nat : C(n)' = C(n) + Longest
  BY <1>1, FaultCosts
<1> HIDE DEF C
<1> SUFFICES ASSUME holding' = "exposed" PROVE GapInv'
  BY DEF GapInv
<1> DEFINE Here == IsOpen(now) /\ Date(since) = Date(now)
<1>6. now' \in Nat
  BY TypedStep DEF Typed, TypeOK
<1>7. ASSUME holding = "exposed", since' = since, now <= now', Here' PROVE Here
  BY <1>1, <1>6, <1>7, OpenBetween DEF GapInv
<1>8. CASE Attempt
  <2>1. /\ pc' \in {pc, "failed"} /\ pc \in {"top", "risk", "protect", "pass", "entry"}
        /\ now <= now' /\ now' <= now + Longest
        /\ nextProtect' = nextProtect
    BY <1>8 DEF Attempt, schedule
  <2>2. CASE UNCHANGED <<holding, since>>
    <3>1. since <= now /\ IsOpen(since) /\ nextProtect <= since + SyncInterval
      BY <2>2 DEF GapInv
    <3>2. ASSUME Here', pc' # "failed" PROVE faults' = faults + 1
      <4>1. IsOpen(now)
        BY <1>7, <2>1, <2>2, <3>2
      <4> QED BY <1>8, <2>2, <4>1 DEF Attempt
    <3>3. ASSUME Here', pc' # "failed"
          PROVE  /\ pc \in {"signal", "pass"} => Waited(C(0))
                 /\ pc \in {"entry", "sleep", "wait"} => Waited(C(1))
                 /\ pc = "top" => Waited(RiskInterval + C(1))
                 /\ pc = "risk" => Waited(RiskInterval + C(2))
                 /\ pc = "protect" => Waited(RiskInterval + C(3))
      BY <1>7, <2>1, <2>2, <3>3 DEF GapInv, C
    <3> QED
      BY <1>1, <1>3, <1>5, <1>6, <2>1, <2>2, <3>1, <3>2, <3>3 DEF GapInv, Waited, C
  <2>3. CASE since' = now /\ IsOpen(now) /\ pc \in {"risk", "pass"}
    <3>1. faults' = faults + 1
      BY <1>8, <2>3 DEF Attempt
    <3>2. nextProtect <= now + SyncInterval
      BY <1>1 DEF TimeInv
    <3> QED
      BY <1>1, <1>3, <1>5, <1>6, <2>1, <2>3, <3>1, <3>2 DEF GapInv, Waited, C
  <2> QED BY <1>8, <2>2, <2>3 DEF Attempt
\* A position that was exposed before, or is since this moment.
<1> DEFINE Allowed ==
             /\ pc \in {"signal", "pass"} => Waited(C(0))
             /\ pc \in {"entry", "sleep", "wait"} => Waited(C(1))
             /\ pc = "top" => Waited(RiskInterval + C(1))
             /\ pc = "risk" => Waited(RiskInterval + C(2))
             /\ pc = "protect" => Waited(RiskInterval + C(3))
<1>9. GapInv = (holding = "exposed" =>
                  /\ since <= now /\ IsOpen(since) /\ nextProtect <= since + SyncInterval
                  /\ Here => Allowed)
  BY DEF GapInv, C
<1>10. GapInv' = (/\ since' <= now' /\ IsOpen(since') /\ nextProtect' <= since' + SyncInterval
                  /\ Here' => Allowed')
  BY DEF GapInv, C
<1>11. ASSUME UNCHANGED <<holding, since>>, now <= now'
       PROVE  /\ since <= now /\ IsOpen(since') /\ nextProtect <= since + SyncInterval
              /\ Here' => Here /\ Allowed
  <2>1. holding = "exposed"
    BY <1>11
  <2>2. Here' => Here
    BY <1>7, <1>11, <2>1
  <2> QED
    BY <1>9, <1>11, <2>1, <2>2
<1> HIDE DEF Here
<1>12. CASE pc = "top" /\ BeginCycle
  <2>1. /\ pc' = "risk" /\ UNCHANGED <<holding, since, faults>> /\ nextProtect' \in {0, nextProtect}
        /\ now <= now' /\ now' <= now + Longest
    BY <1>12, TimeTaken DEF BeginCycle, Done, position
  <2> QED
    BY <1>1, <1>3, <1>4, <1>6, <1>10, <1>11, <1>12, <2>1 DEF Waited
<1>13. CASE pc = "top" /\ pc' = "wait" /\ WaitForOpen
  <2>1. ~Here' /\ UNCHANGED <<holding, since, now, nextProtect>>
    BY <1>13 DEF WaitForOpen, position, Here
  <2> QED
    BY <1>9, <1>10, <2>1
<1>14. ASSUME pc = "risk", NEW exited \in BOOLEAN, RiskDone(exited) PROVE GapInv'
  <2>1. /\ pc' \in {"protect", "signal"} /\ (pc' = "protect" <=> DueForProtection(now', exited))
        /\ now <= now' /\ now' <= now + Longest /\ UNCHANGED <<nextProtect, faults>> /\ IsOpen(now)
    BY <1>14, TimeTaken DEF RiskDone, Done
  <2>2. CASE exited
    <3>1. since' = now /\ pc' = "protect"
      BY <1>14, <2>1, <2>2 DEF RiskDone, ExitAttempt, DueForProtection
    <3>2. nextProtect <= now + SyncInterval
      BY <1>1 DEF TimeInv
    <3> QED
      BY <1>1, <1>3, <1>4, <1>6, <1>10, <2>1, <3>1, <3>2 DEF Waited
  <2>3. CASE ~exited
    <3>1. UNCHANGED <<holding, since>> /\ (pc' = "protect" <=> now' >= nextProtect)
      BY <1>14, <2>1, <2>3 DEF RiskDone, position, DueForProtection
    <3> QED
      BY <1>1, <1>3, <1>4, <1>6, <1>10, <1>11, <1>14, <2>1, <3>1 DEF Waited
  <2> QED BY <2>2, <2>3
<1>15. CASE Protect
  BY <1>15 DEF Protect
<1>16. CASE SignalDue
  <2>1. /\ pc = "signal" /\ pc' \in {"sleep", "pass"}
        /\ UNCHANGED <<holding, since, now, nextProtect, faults>>
    BY <1>16 DEF SignalDue, position
  <2> QED
    BY <1>1, <1>3, <1>4, <1>6, <1>10, <1>11, <2>1 DEF Waited
<1>17. ASSUME pc = "pass", NEW buys \in BOOLEAN, PassDone(buys) PROVE GapInv'
  <2>1. /\ pc' = IF buys THEN "entry" ELSE "sleep"
        /\ now <= now' /\ now' <= now + Longest /\ UNCHANGED <<nextProtect, faults>> /\ IsOpen(now)
    BY <1>17, TimeTaken DEF PassDone, Done
  <2>2. CASE buys
    <3>1. since' = now
      BY <1>17, <2>2 DEF PassDone, Enter
    <3>2. nextProtect <= now + SyncInterval
      BY <1>1 DEF TimeInv
    <3> QED
      BY <1>1, <1>3, <1>4, <1>6, <1>10, <2>1, <2>2, <3>1, <3>2 DEF Waited
  <2>3. CASE ~buys
    <3>1. UNCHANGED <<holding, since>>
      BY <1>17, <2>3 DEF PassDone, position
    <3> QED
      BY <1>1, <1>3, <1>4, <1>6, <1>10, <1>11, <1>17, <2>1, <2>3, <3>1 DEF Waited
  <2> QED BY <2>2, <2>3
<1>18. CASE FallAsleep
  <2>1. pc = "sleep" /\ pc' = "wait" /\ UNCHANGED <<holding, since, now, nextProtect, faults>>
    BY <1>18 DEF FallAsleep, position
  <2> QED
    BY <1>1, <1>3, <1>4, <1>6, <1>10, <1>11, <2>1 DEF Waited
<1>19. CASE Sleep /\ ~stop
  <2>1. /\ pc = "wait" /\ pc' = "top" /\ now' = wake
        /\ UNCHANGED <<holding, since, nextProtect, faults>>
    BY <1>19 DEF Sleep, position, schedule
  <2>2. now <= wake /\ (IsOpen(now) => wake <= now + RiskInterval)
    BY <2>1 DEF TimeInv
  <2>3. Here => IsOpen(now)
    BY DEF Here
  <2> QED
    BY <1>1, <1>3, <1>4, <1>6, <1>10, <1>11, <2>1, <2>2, <2>3 DEF Waited
<1>20. CASE FillEntry
  <2>1. since' = now /\ IsOpen(now) /\ UNCHANGED <<pc, now, nextProtect, faults>>
    BY <1>20 DEF FillEntry, schedule
  <2>2. nextProtect <= now + SyncInterval
    BY <1>1 DEF TimeInv
  <2>3. \A n \in Nat : now' < since' + SyncInterval + n
    BY <1>1, <2>1
  <2>4. Allowed'
    BY <1>1, <1>3, <1>4, <2>1, <2>3 DEF Waited
  <2> QED
    BY <1>1, <1>10, <2>1, <2>2, <2>4
<1>21. CASE Pause
  <2>1. (pc' = pc \/ pc' = "ended") /\ UNCHANGED <<holding, since, now, nextProtect, faults>>
    BY <1>21 DEF Pause
  <2> QED
    BY <1>1, <1>3, <1>4, <1>6, <1>10, <1>11, <2>1 DEF Waited
<1> QED
  BY <1>8, <1>12, <1>13, <1>14, <1>15, <1>16, <1>17, <1>18, <1>19, <1>20, <1>21, StepKinds

\* While the session runs in market hours no position is without a stop for
\* longer than the synchronization's interval, one sleep and the operations of
\* a cycle, whatever fails (cli.py, _run_alpaca_session_loop).
THEOREM ProtectionIsTimely == Spec => []ProtectionKeepsUp
<1>1. Typed /\ TimeInv /\ GapInv => ProtectionKeepsUp
  <2> SUFFICES ASSUME Typed, TimeInv, GapInv, Running, holding = "exposed",
                      IsOpen(now), Date(since) = Date(now)
               PROVE  now - since < SyncInterval + RiskInterval + Busy(3)
    BY DEF ProtectionKeepsUp
  <2>1. /\ faults \in 0..MaxFaults /\ now \in Nat /\ since \in Nat /\ Longest \in Nat
        /\ SyncInterval \in Nat /\ RiskInterval \in Nat
    BY LongestDuration, Constants DEF Typed, TypeOK
  <2>2. \A n \in Nat : Cost(n) \in Nat /\ Cost(n) <= Busy(n) /\ Cost(n + 1) = Cost(n) + Longest
    BY <2>1, Costs
  <2>3. /\ Cost(0) \in Nat /\ Cost(1) = Cost(0) + Longest /\ Cost(2) = Cost(1) + Longest
        /\ Cost(3) = Cost(2) + Longest /\ Cost(3) <= Busy(3) /\ Busy(3) \in Int
    <3>1. Busy(3) \in Int
      BY LongestDuration, Constants DEF Busy, Longest
    <3> QED BY <2>1, <2>2, <3>1
  <2>4. pc \in {"top", "risk", "protect", "signal", "pass", "entry", "sleep", "wait"}
    BY DEF Typed, TypeOK, Running
  <2>5. now < since + SyncInterval + (RiskInterval + Cost(3))
    BY <2>1, <2>3, <2>4 DEF GapInv, Waited
  <2> QED
    BY <2>1, <2>3, <2>5
<1>2. Init => GapInv
  BY DEF Init, GapInv
<1>3. Typed /\ TimeInv /\ GapInv /\ [Next]_vars => GapInv'
  BY GapStep
<1> QED
  BY <1>1, <1>2, <1>3, TimeInvariant, PTL DEF Spec

-----------------------------------------------------------------------------
(* The signal pass                                                         *)

\* The hypotheses of the theorem. The interval of the passes is as long as the
\* session without its opening buffer and the last operation of a day; and all
\* attempts at an operation take less than a night.
IntervalSpansSession == SignalInterval + OpenBuffer >= CloseTime - OpenTime + Longest
NightOutlastsRetries == Retry <= DayLength - (CloseTime - OpenTime)

\* A second pass of a date would come due only after the last risk check that the
\* date can have.
PassInv ==
  /\ entries <= passes /\ passes <= 1
  /\ pc = "risk" => now <= clock + Longest + Tries
  /\ pc \in {"protect", "signal", "pass"} => mark < CloseAt(previousDate) + Longest
  /\ pc \in {"pass", "entry"} => SinceOpen(clock) >= OpenBuffer
  /\ passes = 0 => pc # "entry"
  /\ passes = 1 => /\ previousDate # Never
                  /\ \/ pc \in {"entry", "failed", "ended"}
                     \/ pc # "pass" /\ nextSignal >= CloseAt(previousDate) + Longest

\* The interval counts from a moment after the opening buffer.
LEMMA NextPass ==
  ASSUME IntervalSpansSession, Typed, TimeInv, PassInv, pc \in {"pass", "entry"}
  PROVE  mark + Greatest(1, SignalInterval) >= CloseAt(previousDate) + Longest
<1>1. /\ clock \in Nat /\ mark \in Nat /\ Longest \in Nat /\ previousDate \in Nat
      /\ clock <= mark /\ Date(clock) = previousDate /\ SinceOpen(clock) >= OpenBuffer
  BY LongestDuration, DateOfTime DEF Typed, TypeOK, TimeInv, Within, PassInv
<1>2. SinceOpen(clock) = clock - OpenAt(previousDate) /\ OpenAt(previousDate) \in Nat
  BY <1>1, OpenHours
<1>3. CloseAt(previousDate) = OpenAt(previousDate) + (CloseTime - OpenTime)
  BY <1>1, Constants DEF CloseAt, OpenAt
<1> QED
  BY <1>1, <1>2, <1>3, Constants DEF IntervalSpansSession, Greatest

LEMMA PassStep ==
  ASSUME IntervalSpansSession, NightOutlastsRetries, Typed, TimeInv, PassInv, [Next]_vars
  PROVE  PassInv'
<1>1. /\ {now, clock, mark, nextSignal, passes, entries} \subseteq Nat /\ Longest \in Nat
      /\ errors \in 0..MaxErrors /\ previousDate \in Nat \cup {Never}
  BY LongestDuration DEF Typed, TypeOK
<1>2. now' \in Nat
  BY TypedStep DEF Typed, TypeOK
<1>3. UNCHANGED Longest
  BY DEF Longest
<1>4. CASE Attempt
  <2>1. /\ pc \in {"top", "risk", "protect", "pass", "entry"} /\ pc' \in {pc, "failed"}
        /\ now' <= now + Longest /\ Tries' = Tries + Longest /\ Tries \in Nat
        /\ UNCHANGED <<clock, mark, nextSignal, previousDate, passes, entries>>
    BY <1>1, <1>4, RetryCosts DEF Attempt, schedule, history
  <2> QED
    BY <1>1, <1>2, <1>3, <2>1 DEF PassInv, SinceOpen, CloseAt
<1>5. CASE pc = "top" /\ BeginCycle
  <2>1. /\ pc' = "risk" /\ clock' = now /\ now' <= now + Longest /\ Tries' = 0
    BY <1>1, <1>5, TimeTaken, RetryCosts DEF BeginCycle, Done
  <2>2. CASE UNCHANGED <<previousDate, nextSignal, history>>
    BY <1>1, <1>2, <1>3, <1>5, <2>1, <2>2 DEF PassInv, history, CloseAt
  <2>3. CASE passes' = 0 /\ entries' = 0
    BY <1>1, <1>2, <1>3, <2>1, <2>3 DEF PassInv
  <2> QED BY <1>5, <2>2, <2>3 DEF BeginCycle
<1>6. CASE pc = "top" /\ pc' = "wait" /\ WaitForOpen
  BY <1>1, <1>6 DEF WaitForOpen, history, PassInv
<1>7. ASSUME pc = "risk", NEW exited \in BOOLEAN, RiskDone(exited) PROVE PassInv'
  <2>1. /\ pc' \in {"protect", "signal"} /\ IsOpen(now) /\ now' <= now + Longest /\ mark' = now'
        /\ UNCHANGED <<clock, previousDate, nextSignal, passes, entries>>
    BY <1>7, TimeTaken DEF RiskDone, Done, history
  <2>2. /\ previousDate \in Nat /\ clock < CloseAt(previousDate)
        /\ CloseAt(previousDate) \in Nat /\ OpenAt(previousDate + 1) \in Nat
    <3>1. IsOpen(clock) /\ Date(clock) = previousDate
      BY <1>7 DEF TimeInv, Within
    <3>2. previousDate \in Nat
      BY <1>1, <3>1, DateOfTime
    <3> QED BY <1>1, <3>1, <3>2, OpenHours
  <2>3. now <= clock + Retry /\ Retry \in Nat
    <3>1. errors < MaxErrors
      BY <1>7 DEF Typed
    <3>2. now <= clock + Longest + Tries
      BY <1>7 DEF PassInv
    <3> QED BY <1>1, <3>1, <3>2, RetryCosts
  <2>4. OpenAt(previousDate + 1) = CloseAt(previousDate) + (DayLength - (CloseTime - OpenTime))
    <3>1. (previousDate + 1) * DayLength = previousDate * DayLength + DayLength
      BY <2>2, Constants
    <3>2. previousDate * DayLength \in Nat
      BY <2>2, Constants
    <3> QED BY <3>1, <3>2, Constants DEF OpenAt, CloseAt
  <2>5. now < OpenAt(previousDate + 1)
    BY <1>1, <2>2, <2>3, <2>4, Constants DEF NightOutlastsRetries
  <2>6. now < CloseAt(previousDate)
    BY <1>1, <2>1, <2>2, <2>5, OpenBefore
  <2> QED
    BY <1>1, <1>2, <1>3, <1>7, <2>1, <2>2, <2>6 DEF PassInv, CloseAt
<1>8. CASE Protect
  <2>1. CASE pc = "protect"
    BY <1>1, <1>8, <2>1 DEF Protect, Done, history, PassInv
  <2>2. CASE pc = "entry"
    <3>1. /\ pc' = "sleep" /\ nextSignal' = mark + Greatest(1, SignalInterval)
          /\ UNCHANGED <<previousDate, passes, entries>>
      BY <1>8, <2>2 DEF Protect, Done, history
    <3>2. nextSignal' >= CloseAt(previousDate) + Longest
      BY <2>2, <3>1, NextPass
    <3> QED
      BY <1>1, <2>2, <3>1, <3>2 DEF PassInv, CloseAt, Longest
  <2> QED BY <1>8, <2>1, <2>2 DEF Protect
<1>9. CASE SignalDue
  <2>1. previousDate \in Nat /\ CloseAt(previousDate) \in Nat
    <3>1. Date(clock) = previousDate
      BY <1>9 DEF SignalDue, TimeInv, Within
    <3>2. previousDate \in Nat
      BY <1>1, <3>1, DateOfTime
    <3> QED BY <1>1, <3>2, OpenHours
  <2>2. passes = 1 => mark < nextSignal
    BY <1>1, <1>9, <2>1 DEF SignalDue, PassInv
  <2>3. /\ pc = "signal" /\ pc' \in {"sleep", "pass"}
        /\ UNCHANGED <<now, clock, mark, previousDate, passes, entries>>
        /\ mark < nextSignal => pc' = "sleep" /\ nextSignal' = nextSignal
        /\ pc' = "pass" => ~(SinceOpen(clock) < OpenBuffer)
    BY <1>9 DEF SignalDue, history
  <2>4. SinceOpen(clock) \in Int /\ OpenBuffer \in Int
    BY <1>1, DateOfTime, Constants DEF SinceOpen
  <2> QED
    BY <1>1, <1>3, <2>1, <2>2, <2>3, <2>4 DEF PassInv, CloseAt, SinceOpen
<1>10. ASSUME pc = "pass", NEW buys \in BOOLEAN, PassDone(buys) PROVE PassInv'
  <2>1. /\ passes' = passes + 1 /\ entries' \in {entries, entries + 1}
        /\ pc' = IF buys THEN "entry" ELSE "sleep"
        /\ nextSignal' = IF buys THEN nextSignal ELSE mark + Greatest(1, SignalInterval)
        /\ UNCHANGED <<clock, previousDate, mark>>
    BY <1>1, <1>10 DEF PassDone, Done
  <2>2. passes = 0 /\ entries = 0
    BY <1>1, <1>10 DEF PassInv
  <2>3. mark + Greatest(1, SignalInterval) >= CloseAt(previousDate) + Longest
    BY <1>10, NextPass
  <2>4. previousDate # Never
    BY <1>1, <1>10, DateOfTime DEF TimeInv, Within, Never
  <2> QED
    BY <1>1, <1>3, <1>10, <2>1, <2>2, <2>3, <2>4 DEF PassInv, CloseAt, SinceOpen
<1>11. CASE FallAsleep
  BY <1>1, <1>11 DEF FallAsleep, history, PassInv
<1>12. CASE Sleep /\ ~stop
  BY <1>1, <1>12 DEF Sleep, schedule, history, PassInv
<1>13. CASE FillEntry \/ Pause
  <2>1. /\ pc' = pc \/ pc' = "ended"
        /\ UNCHANGED <<now, clock, mark, nextSignal, previousDate, passes, entries>>
    BY <1>13 DEF FillEntry, Pause, schedule, history
  <2>2. errors' = errors \/ pc' = "ended"
    BY <1>13 DEF FillEntry, Pause
  <2>3. errors' = errors => Tries' = Tries
    BY <1>1, RetryCosts
  <2>4. CASE pc' = "ended"
    BY <1>1, <1>3, <2>1, <2>4 DEF PassInv, CloseAt
  <2>5. CASE pc' = pc /\ Tries' = Tries
    BY <1>3, <2>1, <2>5 DEF PassInv, SinceOpen, CloseAt
  <2> QED
    BY <2>1, <2>2, <2>3, <2>4, <2>5
<1> QED
  BY <1>4, <1>5, <1>6, <1>7, <1>8, <1>9, <1>10, <1>11, <1>12, <1>13, StepKinds

-----------------------------------------------------------------------------
(* The pass that may buy                                                   *)

\* The first cycle of the date leaves room for the pass, which has not come.
Early   == dayStart + OpenBuffer + RiskInterval + Busy(4 + 2 * MaxErrors) + CloseBuffer
              <= CloseAt(previousDate)
Pending == previousDate # Never /\ ~stop /\ pc # "failed" /\ Early /\ entries # 1

\* The latest clock, without its costs, of a cycle whose pass is not deferred.
Limit == dayStart + OpenBuffer + RiskInterval - 1

\* The pass comes in the first cycle after the opening buffer: until then the
\* cycles follow each other at the risk interval, and each finds the signal due.
OnTime ==
  /\ passes = 0 /\ pc \in Steps \ {"entry"} /\ OpenAt(previousDate) <= clock
  /\ pc = "top" => now <= Limit + Cost(2) + Retry /\ nextSignal <= now
  /\ pc = "risk" => now <= Limit + Cost(3) + Retry /\ now <= clock + Cost(1) /\ nextSignal <= now
  /\ pc = "protect" => /\ now <= Limit + Cost(4) + Retry + Tries
                       /\ now <= clock + Cost(2) + Tries /\ nextSignal <= mark
  /\ pc \in {"signal", "pass"} => /\ now <= Limit + Cost(4) + Retry + Retry
                                  /\ now <= clock + Cost(2) + Retry /\ nextSignal <= mark
  /\ pc \in {"sleep", "wait"} => /\ clock < OpenAt(previousDate) + OpenBuffer
                                 /\ now <= clock + Cost(2) + Retry
                                 /\ nextSignal <= mark + RiskInterval
  /\ pc = "wait" => wake = now + RiskInterval

EntryInv == Pending => OnTime

LEMMA BusyCosts ==
  ASSUME faults \in 0..MaxFaults
  PROVE  /\ Cost(0) \in Nat /\ Cost(1) = Cost(0) + Longest /\ Cost(2) = Cost(1) + Longest
         /\ Cost(3) = Cost(2) + Longest /\ Cost(4) = Cost(3) + Longest
         /\ Busy(4 + 2 * MaxErrors) \in Nat /\ Cost(4) + Retry + Retry <= Busy(4 + 2 * MaxErrors)
<1>1. Longest \in Nat /\ MaxErrors \in Nat /\ MaxFaults \in Nat
  BY LongestDuration, Constants
<1>2. \A n \in Nat : Cost(n) \in Nat /\ Cost(n) <= Busy(n) /\ Cost(n + 1) = Cost(n) + Longest
  BY Costs
<1>3. /\ Cost(0) \in Nat /\ Cost(1) = Cost(0) + Longest /\ Cost(2) = Cost(1) + Longest
      /\ Cost(3) = Cost(2) + Longest /\ Cost(4) = Cost(3) + Longest
      /\ Cost(4) \in Nat /\ Cost(4) <= Busy(4)
  BY <1>2
<1>4. /\ (4 + 2 * MaxErrors + MaxFaults) * Longest
            = (4 + MaxFaults) * Longest + MaxErrors * Longest + MaxErrors * Longest
      /\ (4 + MaxFaults) * Longest \in Nat /\ MaxErrors * Longest \in Nat
  BY <1>1
<1>5. Busy(4 + 2 * MaxErrors) = Busy(4) + Retry + Retry /\ Busy(4) \in Nat /\ Retry \in Nat
  BY <1>4 DEF Busy, Retry, Longest
<1> QED
  BY <1>3, <1>5

\* While the pass is pending the market is open, on its date and not near its close.
LEMMA InTime ==
  ASSUME Typed, TimeInv, Pending, OnTime
  PROVE  /\ previousDate \in Nat /\ OpenAt(previousDate) \in Nat /\ CloseAt(previousDate) \in Nat
         /\ OpenAt(previousDate) <= dayStart
         /\ IsOpen(now) /\ Date(now) = previousDate
         /\ SinceOpen(now) = now - OpenAt(previousDate)
         /\ UntilClose(now) = CloseAt(previousDate) - now
         /\ now + CloseBuffer < CloseAt(previousDate)
<1>1. /\ {now, clock, dayStart} \subseteq Nat /\ previousDate \in Nat /\ faults \in 0..MaxFaults
      /\ errors \in 0..MaxErrors /\ pc \in Steps /\ clock <= now
      /\ errors < MaxErrors
  BY DEF Typed, TypeOK, Pending, OnTime, TimeInv
<1>2. Tries \in Nat /\ Retry \in Nat /\ Longest \in Nat /\ Tries + Longest <= Retry
  BY <1>1, RetryCosts
<1>3. OpenAt(previousDate) \in Nat /\ CloseAt(previousDate) \in Nat /\ OpenAt(previousDate) <= dayStart
  BY <1>1, OpenHours DEF TimeInv, Pending
<1>4. now + CloseBuffer < CloseAt(previousDate)
  BY <1>1, <1>2, <1>3, BusyCosts, Constants DEF OnTime, Limit, Pending, Early, Steps
<1>5. OpenAt(previousDate) <= now /\ now < CloseAt(previousDate)
  BY <1>1, <1>3, <1>4, Constants DEF OnTime
<1>6. IsOpen(now) /\ Date(now) = previousDate
  BY <1>1, <1>5, OpenHours
<1> QED
  BY <1>1, <1>3, <1>4, <1>6, OpenHours

\* A step within the date, seen from the time it takes and the step it leads to.
LEMMA EntryStep ==
  ASSUME Typed, TimeInv, PassInv, EntryInv, [Next]_vars
  PROVE  EntryInv'
<1> SUFFICES ASSUME Pending' PROVE OnTime'
  BY DEF EntryInv
<1>1. /\ {now, clock, mark, nextSignal, wake, dayStart} \subseteq Nat /\ faults \in 0..MaxFaults
      /\ errors \in 0..MaxErrors /\ clock <= now /\ mark <= now /\ now' \in Nat
      /\ errors < MaxErrors \/ pc = "failed"
      /\ MaxErrors \in Nat
      /\ OpenBuffer \in Nat /\ CloseBuffer \in Nat /\ RiskInterval \in Nat \ {0}
  BY TypedStep, Constants DEF Typed, TypeOK, TimeInv
<1> DEFINE C1 == Cost(1)
           C2 == Cost(2)
           C3 == Cost(3)
           C4 == Cost(4)
           R == Retry
           T == Tries
           A == OpenAt(previousDate)
           Z == CloseAt(previousDate)
<1>2. /\ C1 \in Nat /\ C1 >= Longest /\ C2 = C1 + Longest /\ C3 = C2 + Longest /\ C4 = C3 + Longest
      /\ Longest \in Nat /\ R \in Nat /\ T \in Nat /\ R' = R
  BY <1>1, BusyCosts, RetryCosts DEF Retry, Longest
<1>3. /\ faults' = faults => C1' = C1 /\ C2' = C2 /\ C3' = C3 /\ C4' = C4
      /\ faults' = faults + 1 => /\ C1' = C1 + Longest /\ C2' = C2 + Longest
                                /\ C3' = C3 + Longest /\ C4' = C4 + Longest
  <2>1. faults' = faults => C1' = C1 /\ C2' = C2 /\ C3' = C3 /\ C4' = C4
    BY DEF Cost, Longest
  <2>2. faults' = faults + 1 => \A n \in Nat : Cost(n)' = Cost(n) + Longest
    BY <1>1, FaultCosts
  <2> QED BY <2>1, <2>2
<1>4. /\ errors < MaxErrors => T + Longest <= R
      /\ errors' = errors + 1 => T' = T + Longest
      /\ errors' = 0 => T' = 0
      /\ errors' = errors => T' = T
  BY <1>1, RetryCosts
\* What holds of the step before when the date goes on.
<1>5. ASSUME UNCHANGED <<previousDate, dayStart>>, entries # 1, stop => stop', pc # "failed"
      PROVE  /\ Pending /\ OnTime /\ IsOpen(now) /\ previousDate \in Nat /\ A \in Nat /\ Z \in Nat
             /\ A <= dayStart /\ now + CloseBuffer < Z
             /\ A' = A /\ Limit' = Limit /\ Limit = dayStart + OpenBuffer + RiskInterval - 1
             /\ SinceOpen(now) = now - A /\ UntilClose(now) = Z - now /\ Date(now) = previousDate
             /\ dayStart + OpenBuffer + RiskInterval <= Z
  <2>1. Pending
    BY <1>5 DEF Pending, Early, Busy, Longest, CloseAt
  <2>2. OnTime
    BY <2>1 DEF EntryInv
  <2>3. dayStart + OpenBuffer + RiskInterval <= Z
    <3>1. Z \in Nat
      BY <2>1, <2>2, InTime
    <3> HIDE DEF Z
    <3> QED
      BY <1>1, <2>1, <3>1, BusyCosts DEF Pending, Early, Z
  <2> QED
    BY <1>5, <2>1, <2>2, <2>3, InTime DEF Limit, OpenAt
<1> HIDE DEF C1, C2, C3, C4, R, T, A, Z
<1>6. OnTime <=> (/\ passes = 0 /\ pc \in Steps \ {"entry"} /\ A <= clock
                  /\ pc = "top" => now <= Limit + C2 + R /\ nextSignal <= now
                  /\ pc = "risk" => now <= Limit + C3 + R /\ now <= clock + C1 /\ nextSignal <= now
                  /\ pc = "protect" => /\ now <= Limit + C4 + R + T
                                       /\ now <= clock + C2 + T /\ nextSignal <= mark
                  /\ pc \in {"signal", "pass"} => /\ now <= Limit + C4 + R + R
                                                  /\ now <= clock + C2 + R /\ nextSignal <= mark
                  /\ pc \in {"sleep", "wait"} => /\ clock < A + OpenBuffer
                                                 /\ now <= clock + C2 + R
                                                 /\ nextSignal <= mark + RiskInterval
                  /\ pc = "wait" => wake = now + RiskInterval)
  BY DEF OnTime, C1, C2, C3, C4, R, T, A
<1>7. OnTime' <=> (/\ passes' = 0 /\ pc' \in Steps \ {"entry"} /\ A' <= clock'
                   /\ pc' = "top" => now' <= Limit' + C2' + R' /\ nextSignal' <= now'
                   /\ pc' = "risk" => now' <= Limit' + C3' + R' /\ now' <= clock' + C1' /\ nextSignal' <= now'
                   /\ pc' = "protect" => /\ now' <= Limit' + C4' + R' + T'
                                         /\ now' <= clock' + C2' + T' /\ nextSignal' <= mark'
                   /\ pc' \in {"signal", "pass"} => /\ now' <= Limit' + C4' + R' + R'
                                                    /\ now' <= clock' + C2' + R' /\ nextSignal' <= mark'
                   /\ pc' \in {"sleep", "wait"} => /\ clock' < A' + OpenBuffer
                                                   /\ now' <= clock' + C2' + R'
                                                   /\ nextSignal' <= mark' + RiskInterval
                   /\ pc' = "wait" => wake' = now' + RiskInterval)
  BY DEF OnTime, C1, C2, C3, C4, R, T, A
<1>8. ~stop' /\ pc' # "failed" /\ entries' # 1
  BY DEF Pending
<1>9. CASE Attempt
  <2>1. /\ pc \in {"top", "risk", "protect", "pass", "entry"} /\ pc' = pc
        /\ now <= now' /\ now' <= now + Longest
        /\ errors' = errors + 1 /\ errors' < MaxErrors
        /\ UNCHANGED <<stop, clock, mark, nextSignal, previousDate, dayStart, passes, entries>>
    BY <1>1, <1>8, <1>9 DEF Attempt, schedule, history
  <2>2. IsOpen(now) /\ OnTime /\ A' = A /\ Limit' = Limit /\ Limit \in Int
    BY <1>1, <1>5, <1>8, <2>1
  <2>3. faults' = faults + 1 \/ (faults' = faults /\ pc \in {"protect", "entry"})
    BY <1>9, <2>2 DEF Attempt
  <2>4. T' = T + Longest /\ T + Longest <= R
    BY <1>1, <1>4, <2>1
  <2>5. CASE faults' = faults + 1
    BY <1>1, <1>2, <1>3, <1>6, <1>7, <2>1, <2>2, <2>4, <2>5
  <2>6. CASE faults' = faults /\ pc \in {"protect", "entry"}
    BY <1>1, <1>2, <1>3, <1>6, <1>7, <2>1, <2>2, <2>4, <2>6
  <2> QED BY <2>3, <2>5, <2>6
<1>10. CASE pc = "top" /\ ~stop /\ BeginCycle
  <2>1. /\ pc' = "risk" /\ clock' = now /\ now <= now' /\ now' <= now + Longest
        /\ UNCHANGED <<stop, faults>> /\ IsOpen(now)
    BY <1>10, TimeTaken DEF BeginCycle, Done
  <2>2. CASE UNCHANGED <<previousDate, nextSignal, dayStart, passes, entries>>
    <3>1. OnTime /\ A' = A /\ Limit' = Limit /\ A <= dayStart /\ Limit \in Int /\ A \in Nat
      BY <1>1, <1>5, <1>8, <1>10, <2>1, <2>2
    <3>2. A <= now
      BY <1>1, <1>6, <3>1
    <3> QED
      BY <1>1, <1>2, <1>3, <1>6, <1>7, <1>10, <2>1, <2>2, <3>1, <3>2 DEF Steps
  <2>3. CASE previousDate' = Date(now) /\ nextSignal' = 0 /\ dayStart' = now /\ passes' = 0
    <3>1. OpenAt(Date(now)) <= now
      BY <1>1, <2>1, OpenHours, DateOfTime
    <3>2. A' <= now
      BY <2>3, <3>1 DEF A
    <3>3. Limit' = now + OpenBuffer + RiskInterval - 1
      BY <2>3 DEF Limit
    <3> QED
      BY <1>1, <1>2, <1>3, <1>7, <2>1, <2>3, <3>2, <3>3 DEF Steps
  <2> QED BY <1>10, <2>2, <2>3 DEF BeginCycle, history
<1>11. CASE pc = "top" /\ ~stop /\ pc' = "wait" /\ WaitForOpen
  <2>1. ~IsOpen(now) /\ UNCHANGED <<stop, previousDate, dayStart, entries>>
    BY <1>11 DEF WaitForOpen, history
  <2> QED
    BY <1>5, <1>8, <1>11, <2>1
<1>12. ASSUME pc = "risk", NEW exited \in BOOLEAN, RiskDone(exited) PROVE OnTime'
  <2>1. /\ pc' \in {"protect", "signal"} /\ now <= now' /\ now' <= now + Longest /\ mark' = now'
        /\ errors' = 0
        /\ UNCHANGED <<stop, faults, clock, previousDate, nextSignal, dayStart, passes, entries>>
    BY <1>12, TimeTaken DEF RiskDone, Done, history
  <2>2. OnTime /\ A' = A /\ Limit' = Limit /\ Limit \in Int
    BY <1>1, <1>5, <1>8, <1>12, <2>1
  <2>3. T' = 0
    BY <1>4, <2>1
  <2> QED
    BY <1>1, <1>2, <1>3, <1>6, <1>7, <1>12, <2>1, <2>2, <2>3 DEF Steps
<1>13. CASE Protect
  <2>1. /\ pc \in {"protect", "entry"} /\ pc' = IF pc = "protect" THEN "signal" ELSE "sleep"
        /\ now <= now' /\ now' <= now + Longest /\ (pc = "protect" => nextSignal' = nextSignal)
        /\ UNCHANGED <<stop, faults, clock, mark, previousDate, dayStart, passes, entries>>
    BY <1>13, TimeTaken DEF Protect, Done, history
  <2>2. OnTime /\ A' = A /\ Limit' = Limit /\ Limit \in Int
    BY <1>1, <1>5, <1>8, <2>1
  <2>3. pc = "protect" /\ T + Longest <= R
    BY <1>1, <1>4, <1>6, <2>1, <2>2
  <2> QED
    BY <1>1, <1>2, <1>3, <1>6, <1>7, <2>1, <2>2, <2>3 DEF Steps
<1>14. CASE SignalDue
  <2>1. /\ pc = "signal"
        /\ UNCHANGED <<stop, now, faults, clock, mark, previousDate, dayStart, passes, entries>>
    BY <1>14 DEF SignalDue, history
  <2>2. OnTime /\ A' = A /\ Limit' = Limit /\ Limit \in Int /\ A \in Nat
    BY <1>1, <1>5, <1>8, <2>1
  <2>3. nextSignal <= mark
    BY <1>6, <2>1, <2>2
  <2>4. SinceOpen(clock) = clock - A
    <3>1. Date(clock) = previousDate
      BY <2>1 DEF TimeInv, Within
    <3>2. previousDate \in Nat
      BY <1>5, <1>8, <2>1
    <3> QED
      BY <1>1, <3>1, <3>2, OpenHours DEF A
  <2>5. CASE SinceOpen(clock) < OpenBuffer /\ pc' = "sleep" /\ nextSignal' = DeferredUntil
    <3>1. nextSignal' <= mark + RiskInterval
      BY <1>1, <2>2, <2>4, <2>5 DEF DeferredUntil, Least, Greatest
    <3> QED
      BY <1>1, <1>2, <1>3, <1>6, <1>7, <2>1, <2>2, <2>4, <2>5, <3>1 DEF Steps
  <2>6. CASE pc' = "pass" /\ UNCHANGED nextSignal
    BY <1>1, <1>2, <1>3, <1>6, <1>7, <2>1, <2>2, <2>6 DEF Steps
  <2> QED BY <1>1, <1>14, <2>3, <2>5, <2>6 DEF SignalDue
\* The pass itself is in time, so that it may buy.
<1>15. ASSUME pc = "pass", NEW buys \in BOOLEAN, PassDone(buys) PROVE OnTime'
  <2>1. /\ UNCHANGED <<stop, previousDate, dayStart>>
        /\ entries' = entries + (IF BuysAllowed(now) THEN 1 ELSE 0) /\ passes' = passes + 1
    BY <1>15 DEF PassDone, Done
  <2>2. passes = 0 /\ entries = 0
    BY <1>15 DEF PassInv, Typed
  <2>3. /\ SinceOpen(now) = now - A /\ UntilClose(now) = Z - now /\ now + CloseBuffer < Z
        /\ A \in Nat /\ Z \in Nat /\ previousDate \in Nat
    BY <1>5, <1>8, <1>15, <2>1, <2>2
  <2>4. SinceOpen(clock) = clock - A /\ SinceOpen(clock) >= OpenBuffer
    <3>1. Date(clock) = previousDate
      BY <1>15 DEF TimeInv, Within
    <3> QED
      BY <1>1, <1>15, <2>3, <3>1, OpenHours DEF A, PassInv
  <2>5. BuysAllowed(now)
    BY <1>1, <2>3, <2>4 DEF BuysAllowed
  <2> QED
    BY <1>8, <2>1, <2>2, <2>5
<1>16. CASE FallAsleep
  <2>1. /\ pc = "sleep" /\ pc' = "wait" /\ wake' = now + SleepTime
        /\ UNCHANGED <<stop, now, faults, clock, mark, nextSignal,
                      previousDate, dayStart, passes, entries>>
    BY <1>16 DEF FallAsleep, history
  <2>2. /\ OnTime /\ A' = A /\ Limit' = Limit /\ Limit \in Int /\ A \in Nat /\ Z \in Nat
        /\ A <= dayStart /\ dayStart + OpenBuffer + RiskInterval <= Z /\ previousDate \in Nat
    BY <1>1, <1>5, <1>8, <2>1
  <2>3. UntilClose(clock) = Z - clock
    <3>1. Date(clock) = previousDate
      BY <2>1 DEF TimeInv, Within
    <3> QED
      BY <1>1, <2>2, <3>1, OpenHours DEF Z
  <2>4. clock < A + OpenBuffer
    BY <1>6, <2>1, <2>2
  <2>5. SleepTime = RiskInterval
    BY <1>1, <2>2, <2>3, <2>4 DEF SleepTime, Least, Greatest
  <2> QED
    BY <1>1, <1>2, <1>3, <1>6, <1>7, <2>1, <2>2, <2>4, <2>5 DEF Steps
<1>17. CASE Sleep /\ ~stop
  <2>1. /\ pc = "wait" /\ pc' = "top" /\ now' = wake
        /\ UNCHANGED <<stop, faults, clock, mark, nextSignal,
                      previousDate, dayStart, passes, entries>>
    BY <1>17 DEF Sleep, schedule, history
  <2>2. /\ OnTime /\ A' = A /\ Limit' = Limit /\ A \in Nat /\ A <= dayStart
        /\ Limit = dayStart + OpenBuffer + RiskInterval - 1
    BY <1>5, <1>8, <2>1
  <2> QED
    BY <1>1, <1>2, <1>3, <1>6, <1>7, <2>1, <2>2 DEF Steps
<1>18. CASE FillEntry \/ Pause
  <2>1. /\ pc' = pc \/ (pc' = "ended" /\ pc \in {"top", "wait"} /\ (stop \/ ~IsOpen(now)))
        /\ stop => stop'
        /\ UNCHANGED <<now, faults, clock, mark, nextSignal, wake,
                      previousDate, dayStart, passes, entries>>
    BY <1>18 DEF FillEntry, Pause, schedule, history
  <2>2. OnTime /\ A' = A /\ Limit' = Limit /\ IsOpen(now)
    BY <1>5, <1>8, <2>1
  <2>3. pc' = pc
    BY <1>8, <2>1, <2>2
  <2>4. errors' = errors
    BY <1>6, <1>18, <2>2, <2>3 DEF FillEntry, Pause, Steps
  <2> QED
    BY <1>2, <1>3, <1>4, <1>6, <1>7, <2>1, <2>2, <2>3, <2>4
<1> QED
  BY <1>9, <1>10, <1>11, <1>12, <1>13, <1>14, <1>15, <1>16, <1>17, <1>18, StepKinds

\* On every date there is at most one signal pass, and one that may buy when the
\* first cycle leaves room for it, if the interval of the passes spans the session
\* and the attempts at an operation take less than a night (README.md:129).
THEOREM OnePass ==
  ASSUME IntervalSpansSession, NightOutlastsRetries
  PROVE  Spec => []OnePassADay
<1>1. Typed /\ TimeInv /\ PassInv /\ EntryInv => OnePassADay
  <2> SUFFICES ASSUME Typed, TimeInv, PassInv, EntryInv, previousDate # Never
               PROVE  OnePassADay
    BY DEF OnePassADay
  <2>1. passes <= 1
    BY DEF PassInv
  <2>2. ASSUME pc # "failed", ~stop, now >= previousDate * DayLength + CloseTime,
               SinceOpen(dayStart) + OpenBuffer + RiskInterval + Busy(4 + 2 * MaxErrors) + CloseBuffer
                  <= CloseTime - OpenTime
        PROVE  entries = 1
    <3>1. /\ {now, dayStart} \subseteq Nat /\ previousDate \in Nat /\ faults \in 0..MaxFaults
      BY DEF Typed, TypeOK
    <3>2. /\ SinceOpen(dayStart) = dayStart - OpenAt(previousDate) /\ OpenAt(previousDate) \in Nat
          /\ CloseAt(previousDate) \in Nat
      BY <3>1, OpenHours DEF TimeInv
    <3>3. /\ CloseAt(previousDate) = OpenAt(previousDate) + (CloseTime - OpenTime)
          /\ now >= CloseAt(previousDate)
      BY <2>2, <3>1, Constants DEF OpenAt, CloseAt
    <3>4. Early
      BY <2>2, <3>1, <3>2, <3>3, BusyCosts, Constants DEF Early
    <3>5. entries # 1 => Pending /\ OnTime
      BY <2>2, <3>4 DEF Pending, EntryInv
    <3>6. entries # 1 => now + CloseBuffer < CloseAt(previousDate)
      BY <3>5, InTime
    <3> QED
      BY <3>1, <3>2, <3>3, <3>6, Constants
  <2> QED
    BY <2>1, <2>2 DEF OnePassADay
<1>2. Init => PassInv /\ EntryInv
  BY Constants DEF Init, PassInv, EntryInv, Pending, Never
<1>3. Typed /\ TimeInv /\ PassInv /\ EntryInv /\ [Next]_vars => (PassInv /\ EntryInv)'
  BY PassStep, EntryStep
<1> QED
  BY <1>1, <1>2, <1>3, TimeInvariant, PTL DEF Spec
=============================================================================
