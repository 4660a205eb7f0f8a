------------------------------ MODULE Session ------------------------------
(***************************************************************************)
(* The schedule of a submitting alpaca-session (trading_bot/cli.py,         *)
(* _run_alpaca_session_loop) and the stop price it keeps at the broker.     *)
(*                                                                         *)
(* A cycle reads the market clock, checks risk, synchronizes the protective *)
(* stops when that is due, passes over the signals when that is due and     *)
(* sleeps.  Every operation takes time, may fail and is retried.  Times are *)
(* minutes since midnight of the first day; `now` is the wall clock and the *)
(* monotonic one.  What the operations do to orders is Execution's part: of *)
(* it a single position is left here, and the moment it lost or had no stop.*)
(* Stop prices are tenths of a cent: the broker has whole cents.            *)
(***************************************************************************)
EXTENDS Integers, FiniteSetsExt

CONSTANTS Days, Starts, DayLength, OpenTime, CloseTime,
          RiskInterval, SignalInterval, SyncInterval, OpenBuffer, CloseBuffer,
          MaxErrors,       \* max_consecutive_errors
          Durations,       \* how long an operation takes, its retry delay included
          MaxFaults,       \* bound on the failures of broker and network
          Wanted,          \* values of the active stop that prices and highs give
          MaxMoves         \* bound on its changes

\* _validate_runtime_args: positive intervals and error limit, buffers of at least zero.
ValidSchedule ==
    /\ {RiskInterval, SignalInterval, SyncInterval, MaxErrors} \subseteq Nat \ {0}
    /\ {OpenBuffer, CloseBuffer} \subseteq Nat

ASSUME SessionAssumption ==
    /\ ValidSchedule
    /\ Days \in Nat \ {0} /\ {OpenTime, CloseTime, DayLength} \subseteq Nat
    /\ 0 < OpenTime /\ OpenTime < CloseTime /\ CloseTime < DayLength
    /\ Durations \subseteq Nat /\ (\E d \in Durations : \A e \in Durations : d >= e)
    /\ Starts \subseteq Nat
    /\ {MaxFaults, MaxMoves} \subseteq Nat /\ Wanted \subseteq Nat \ {0}

VARIABLES
    now, stop,            \* the time; STOP exists
    mode,                 \* "until_close" (with --wait-for-open) or "continuous"
    pc, errors,           \* the operation at hand, and its failed attempts
    clock, previousDate,  \* market time this cycle was begun with; the date of the last
    mark,                 \* `now` of the cycle: when its risk check was through
    nextSignal, nextProtect, wake,
    bought,               \* the signal pass decided to buy
    faults, moves,        \* bounds: failures, changes of the wanted stop so far
    holding, since,       \* the position: "none", "working", "exposed", "protected"; exposed since
    wanted, live,         \* the active stop of its risk row, once protected; the one at the broker
    error,                \* history: why the last attempt failed, if it did
    dayStart, passes, entries  \* history: of this date, its first cycle, signal passes,
                               \* and those that could buy

schedule == <<clock, previousDate, mark, nextSignal, nextProtect, wake, bought>>
position == <<holding, since, wanted, live>>
history  == <<dayStart, passes, entries>>
vars     == <<now, stop, mode, pc, errors, error, faults, moves, schedule, position, history>>

Never     == -1
Date(t)   == t \div DayLength
IsOpen(t) == t % DayLength \in OpenTime..(CloseTime - 1)
SinceOpen(t)  == (t % DayLength) - OpenTime
UntilClose(t) == CloseTime - (t % DayLength)
Least(x, y)    == IF x < y THEN x ELSE y
Greatest(x, y) == IF x > y THEN x ELSE y

Init ==
    /\ now \in Starts /\ stop = FALSE /\ mode \in {"until_close", "continuous"}
    /\ pc = "top" /\ errors = 0 /\ error = "none" /\ faults = 0 /\ moves = 0
    /\ clock = 0 /\ previousDate = Never /\ mark = 0
    /\ nextSignal = 0 /\ nextProtect = 0 /\ wake = 0 /\ bought = FALSE
    /\ holding = "none" /\ since = 0 /\ live = 0 /\ wanted = 0
    /\ dayStart = 0 /\ passes = 0 /\ entries = 0

-----------------------------------------------------------------------------
\* _session_retry: an attempt that raises is repeated, up to MaxErrors times.
TimePasses == \E d \in Durations : now' = now + d

Raise(why) ==
    /\ TimePasses
    /\ error' = why /\ errors' = errors + 1
    /\ pc' = IF errors' >= MaxErrors THEN "failed" ELSE pc
    /\ UNCHANGED <<stop, mode, schedule, history>>

Fault ==
    /\ faults < MaxFaults /\ faults' = faults + 1
    /\ Raise("transient")

Done(next) ==
    /\ TimePasses
    /\ errors' = 0 /\ error' = "none" /\ pc' = next
    /\ UNCHANGED <<stop, mode, faults>>

\* A new market date makes everything due.
BeginCycle ==
    /\ IsOpen(now)
    /\ Done("risk")
    /\ clock' = now
    /\ IF Date(now) = previousDate THEN UNCHANGED <<previousDate, nextSignal, nextProtect, history>>
       ELSE /\ previousDate' = Date(now)
            /\ nextSignal' = 0 /\ nextProtect' = 0
            /\ dayStart' = now /\ passes' = 0 /\ entries' = 0
    /\ UNCHANGED <<mark, wake, bought, moves, position>>

NextOpen(t) == OpenTime + DayLength * (IF t % DayLength < OpenTime THEN Date(t) ELSE Date(t) + 1)

\* Market closed: wait, looking every minute, unless this was the session's day.
WaitForOpen ==
    /\ ~IsOpen(now)
    /\ IF mode = "until_close" /\ previousDate # Never
       THEN pc' = "ended" /\ UNCHANGED wake
       ELSE pc' = "wait" /\ \E late \in 0..1 : wake' = NextOpen(now) + late
    /\ errors' = 0
    /\ UNCHANGED <<now, stop, mode, error, faults, moves, clock, previousDate, mark, nextSignal,
                   nextProtect, bought, position, history>>

ReadClock ==
    /\ pc = "top"
    /\ IF stop THEN pc' = "ended" /\ UNCHANGED <<now, stop, mode, errors, error, faults, moves,
                                                 schedule, position, history>>
       ELSE \/ Fault /\ UNCHANGED <<moves, position>>
            \/ BeginCycle
            \/ WaitForOpen

-----------------------------------------------------------------------------
\* _run_alpaca_risk_once.  An exit, planned after the clock was found open,
\* cancels the stop first; the shares may be sold, or left without it when the
\* exit or what follows fails.
ExitAttempt ==
    /\ holding = "protected" /\ IsOpen(now)
    /\ \/ holding' = "none" /\ since' = 0
       \/ holding' = "exposed" /\ since' = now
    /\ live' = 0 /\ wanted' = 0

\* Mutant: the timer is never looked at; only a new date or an entry is.
DueForProtection_Untimed(t, exited) == exited \/ nextProtect = 0

DueForProtection(t, exited) == exited \/ t >= nextProtect

RiskDone(exited) ==
    /\ IsOpen(now)
    /\ IF exited THEN ExitAttempt ELSE UNCHANGED position
    /\ \E next \in {"protect", "signal"} :
          /\ Done(next)
          /\ (next = "protect") = DueForProtection(now', exited)
    /\ mark' = now'
    /\ UNCHANGED <<clock, previousDate, nextSignal, nextProtect, wake, bought, moves, history>>

RiskCycle ==
    /\ pc = "risk"
    /\ \/ \E exited \in BOOLEAN : RiskDone(exited)
       \/ Fault /\ UNCHANGED moves /\ (ExitAttempt \/ UNCHANGED position)
       \/ ~IsOpen(now) /\ Raise("closed") /\ UNCHANGED <<faults, moves, position>>

-----------------------------------------------------------------------------
\* _alpaca_protect, for the price of one position's stop.  A live stop is
\* replaced when the wanted one is more than a cent above it, otherwise it must
\* be confirmed as what is wanted, to the cent.
Cents(price) == ((price + 5) \div 10) * 10

Raised      == wanted > live + 10
Confirmable == live >= Cents(wanted)

SyncStop ==
    \/ /\ holding = "exposed" /\ holding' = "protected"
       /\ wanted' \in Wanted /\ live' = Cents(wanted')
       /\ since' = 0
    \/ /\ holding = "protected" /\ Raised
       /\ live' = Cents(Greatest(wanted, live))
       /\ UNCHANGED <<holding, since, wanted>>
    \/ /\ holding = "protected" /\ ~Raised /\ Confirmable
       /\ UNCHANGED position
    \/ holding \in {"none", "working"} /\ UNCHANGED position

Refuses == holding = "protected" /\ ~Raised /\ ~Confirmable

\* Within the cycle, and again after a pass that bought: what of the entry is
\* not filled yet is checked in the next cycle.
ProtectStops ==
    /\ pc \in {"protect", "entry"}
    /\ \/ Fault /\ UNCHANGED <<moves, position>>
       \/ Refuses /\ Raise("refused") /\ UNCHANGED <<faults, moves, position>>
       \/ /\ SyncStop
          /\ Done(IF pc = "protect" THEN "signal" ELSE "sleep")
          /\ nextProtect' = IF pc = "protect" THEN mark + Greatest(1, SyncInterval) ELSE 0
          /\ nextSignal' = IF pc = "protect" THEN nextSignal
                           ELSE mark + Greatest(1, SignalInterval)
          /\ UNCHANGED <<clock, previousDate, mark, wake, bought, moves, history>>

-----------------------------------------------------------------------------
\* Mutant: a deferred pass comes up again after a whole signal interval.
DeferredUntil_Interval == mark + SignalInterval

DeferredUntil == mark + Least(Greatest(1, RiskInterval), OpenBuffer - SinceOpen(clock))

\* Is the signal pass due, and is the market past its opening minutes?
SignalDue ==
    /\ pc = "signal"
    /\ IF mark < nextSignal THEN pc' = "sleep" /\ UNCHANGED nextSignal
       ELSE IF SinceOpen(clock) < OpenBuffer
            THEN pc' = "sleep" /\ nextSignal' = DeferredUntil
            ELSE pc' = "pass" /\ UNCHANGED nextSignal
    /\ UNCHANGED <<now, stop, mode, errors, error, faults, moves, clock, previousDate, mark,
                   nextProtect, wake, bought, position, history>>

\* _run_alpaca_once: new buys are paused near open and close.
BuysAllowed(t) == SinceOpen(t) >= OpenBuffer /\ UntilClose(t) > CloseBuffer

\* An entry is accepted; it fills at once or later.
Enter ==
    /\ holding = "none" /\ BuysAllowed(now)
    /\ \/ holding' = "working" /\ since' = 0
       \/ holding' = "exposed" /\ since' = now
    /\ UNCHANGED <<wanted, live>>

PassDone(buys) ==
    /\ IsOpen(now)
    /\ IF buys THEN Enter ELSE UNCHANGED position
    /\ bought' = buys
    /\ Done(IF buys THEN "entry" ELSE "sleep")
    /\ nextSignal' = IF buys THEN nextSignal ELSE mark + Greatest(1, SignalInterval)
    /\ passes' = passes + 1
    /\ entries' = entries + (IF BuysAllowed(now) THEN 1 ELSE 0)
    /\ UNCHANGED <<clock, previousDate, mark, nextProtect, wake, moves, dayStart>>

\* A pass that fails may have placed an entry that its retry will not report.
SignalPass ==
    /\ pc = "pass"
    /\ \/ \E buys \in BOOLEAN : PassDone(buys)
       \/ Fault /\ UNCHANGED moves /\ (Enter \/ UNCHANGED position)
       \/ ~IsOpen(now) /\ Raise("closed") /\ UNCHANGED <<faults, moves, position>>

-----------------------------------------------------------------------------
\* _session_sleep_seconds, wait_for_next_check.
SleepTime ==
    IF mode = "until_close" THEN Least(RiskInterval, Greatest(1, UntilClose(clock)))
    ELSE RiskInterval

FallAsleep ==
    /\ pc = "sleep"
    /\ wake' = now + SleepTime /\ pc' = "wait"
    /\ UNCHANGED <<now, stop, mode, errors, error, faults, moves, clock, previousDate, mark,
                   nextSignal, nextProtect, bought, position, history>>

\* It ends at once when STOP appears.
Sleep ==
    /\ pc = "wait"
    /\ IF stop THEN pc' = "ended" /\ UNCHANGED now
       ELSE pc' = "top" /\ now' = wake
    /\ UNCHANGED <<stop, mode, errors, error, faults, moves, schedule, position, history>>

-----------------------------------------------------------------------------
\* The broker fills a working entry during the session; prices move the stop
\* that is wanted; a person asks to stop.
FillEntry ==
    /\ holding = "working" /\ IsOpen(now)
    /\ holding' = "exposed" /\ since' = now
    /\ UNCHANGED <<now, stop, mode, pc, errors, error, faults, moves, schedule, wanted, live, history>>

PriceMoves ==
    /\ holding = "protected" /\ moves < MaxMoves /\ moves' = moves + 1
    /\ wanted' \in Wanted \ {wanted}
    /\ UNCHANGED <<now, stop, mode, pc, errors, error, faults, schedule, holding, since, live, history>>

RequestStop ==
    /\ ~stop /\ stop' = TRUE
    /\ UNCHANGED <<now, mode, pc, errors, error, faults, moves, schedule, position, history>>

Running == pc \notin {"failed", "ended"} /\ Date(now) < Days

Next ==
    /\ Running
    /\ \/ ReadClock \/ RiskCycle \/ ProtectStops \/ SignalDue \/ SignalPass
       \/ FallAsleep \/ Sleep
       \/ FillEntry \/ PriceMoves \/ RequestStop

Spec == Init /\ [][Next]_vars

-----------------------------------------------------------------------------
\* How long n operations and all failed attempts can take.
Busy(n) == (n + MaxFaults) * Max(Durations)

TypeOK ==
    /\ {now, clock, mark, nextSignal, nextProtect, wake, since, wanted, live, dayStart} \subseteq Nat
    /\ pc \in {"top", "risk", "protect", "signal", "pass", "entry", "sleep", "wait", "failed", "ended"}
    /\ errors \in 0..MaxErrors /\ holding \in {"none", "working", "exposed", "protected"}

(* On every date of a session there is at most one signal pass, and one that *)
(* may buy when the first cycle leaves room for it: neither the deferral by  *)
(* the opening buffer, nor failures, nor the timer of the day before use up  *)
(* or push out "one signal pass per market session" (README.md:129).         *)
OnePassADay ==
    previousDate # Never =>
        /\ passes <= 1
        /\ /\ pc # "failed" /\ ~stop
           /\ now >= previousDate * DayLength + CloseTime
           /\ SinceOpen(dayStart) + OpenBuffer + RiskInterval + Busy(4 + 2 * MaxErrors) + CloseBuffer
                 <= CloseTime - OpenTime
           => entries = 1

(* While the session runs in market hours, a position is without a stop for  *)
(* less than the interval of the stop synchronization, one sleep and three   *)
(* operations of a cycle, whenever its entry fills or an exit takes its stop *)
(* away, and although a failed attempt reports neither.                      *)
ProtectionKeepsUp ==
    Running /\ holding = "exposed" /\ IsOpen(now) /\ Date(since) = Date(now) =>
        now - since < SyncInterval + RiskInterval + Busy(3)

(* The protective synchronization keeps "creating or raising" stops, and     *)
(* only failures of the API end a session by its retries (README.md:129).    *)
OwnStopAccepted == pc = "failed" => error # "refused"
=============================================================================
