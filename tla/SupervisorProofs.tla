-------------------------- MODULE SupervisorProofs --------------------------
(***************************************************************************)
(* Supervisor is safe for any number of applications, managers and         *)
(* workers, any restart budget and any number of killed processes: the     *)
(* locks admit one operator, and a completed stop lasts.                   *)
(***************************************************************************)
EXTENDS Supervisor, TLAPS

\* The processes' states as far as the locks depend on them: steps, and records
\* that have their three fields, whatever is in the other two.
Shape ==
  /\ app \in [Apps -> AppSteps]
  /\ worker \in [Workers -> WorkerSteps]
  /\ manager = [m \in Managers |-> [at |-> manager[m].at, attempts |-> manager[m].attempts,
                                    worker |-> manager[m].worker]]

ManagerHolds == \A m \in Managers : Supervising(m) => managerLock = m
WorkerHolds == \A w \in Workers : Trading(w) => executionLock = w /\ paperLock = w
StarterHolds == \A u \in Apps : InLocks(u) => controlLock = u /\ paperLock = u
StopperHolds == \A u \in Apps : app[u] = "touch" => controlLock = u /\ ~enabled
StartClears == \A u \in Apps : app[u] \in {"enable", "launch"} => ~stopped

OperatorInv ==
  /\ Shape
  /\ ManagerHolds /\ WorkerHolds /\ StarterHolds /\ StopperHolds
  /\ StartClears /\ StopWins

LEMMA InitOperator == Init => OperatorInv
BY DEF Init, OperatorInv, Shape, ManagerHolds, WorkerHolds, StarterHolds, StopperHolds,
       StartClears, StopWins, Supervising, Trading, InLocks, AppSteps, WorkerSteps, Idle

\* What a step of one process may disturb, action by action.
\* An application holds the control lock wherever it changes the desired state
\* or the STOP file, and the user-wide lock while it starts anything.
LEMMA AppStepKeeps ==
  ASSUME OperatorInv, NEW u \in Apps, AppStep(u)
  PROVE  OperatorInv'
<1> USE SupervisorAssumption
    DEF OperatorInv, Shape, AppSteps, Goto, ManagerHolds, WorkerHolds, StarterHolds,
        StopperHolds, StartClears, StopWins, Supervising, Trading, InLocks, locks
<1>1. CASE StartCheck(u) \/ ResumeCheck(u) \/ GiveUp(u)
  BY <1>1 DEF StartCheck, ResumeCheck, GiveUp
<1>2. CASE StartLock(u)
  BY <1>2 DEF StartLock
<1>3. CASE StartPreflight(u)
  BY <1>3 DEF StartPreflight, LeaveLocked, Release
<1>4. CASE StartClear(u)
  BY <1>4 DEF StartClear
<1>5. CASE StartEnable(u)
  BY <1>5 DEF StartEnable
<1>6. CASE ResumeLock(u)
  BY <1>6 DEF ResumeLock
<1>7. CASE StopDisable(u)
  BY <1>7 DEF StopDisable
<1>8. CASE StopTouch(u)
  BY <1>8 DEF StopTouch, LeaveLocked, Release
<1>9. CASE ProbeManager(u) \/ ProbeWorker(u)
  BY <1>9 DEF ProbeManager, ProbeWorker
<1>10. CASE ProbeEnd(u)
  BY <1>10 DEF ProbeEnd, Release
<1>11. CASE StartLaunch(u) \/ ResumeLaunch(u)
  <2>1. \A m \in Managers : Supervising(m)' => Supervising(m)
    BY <1>11 DEF StartLaunch, ResumeLaunch, Spawn, Idle
  <2>2. manager' = [m \in Managers |-> [at |-> manager'[m].at, attempts |-> manager'[m].attempts,
                                       worker |-> manager'[m].worker]]
    BY <1>11 DEF StartLaunch, ResumeLaunch, Spawn, Idle
  <2> QED
    BY <1>11, <2>1, <2>2 DEF StartLaunch, ResumeLaunch, LeaveLocked, Release
<1> QED
  BY <1>1, <1>2, <1>3, <1>4, <1>5, <1>6, <1>7, <1>8, <1>9, <1>10, <1>11 DEF AppStep

\* A manager supervises only with the manager lock in hand, and its failure
\* leaves the operator stopped.
LEMMA ManagerStepKeeps ==
  ASSUME OperatorInv, NEW m \in Managers,
         ManagerStep(m) \/ ManagerRaises(m) \/ ManagerKilled(m)
  PROVE  OperatorInv'
<1> USE SupervisorAssumption
    DEF OperatorInv, Shape, ManagerHolds, WorkerHolds, StarterHolds, StopperHolds,
        StartClears, StopWins, Supervising, Trading, InLocks, locks,
        ManagerAt, ManagerEnds, Release, Idle
<1>1. CASE ManagerBoot(m)
  BY <1>1 DEF ManagerBoot
<1>2. CASE ManagerCheck(m)
  BY <1>2 DEF ManagerCheck
<1>3. CASE ManagerSpawn(m)
  <2>1. \A n \in Managers : Supervising(n)' => Supervising(n)
    BY <1>3 DEF ManagerSpawn
  <2>2. \A w \in Workers : Trading(w)' => Trading(w)
    BY <1>3 DEF ManagerSpawn, WorkerSteps
  <2>3. \/ manager' = [manager EXCEPT ![m] = Idle]
        \/ manager' = [manager EXCEPT ![m] = [manager[m] EXCEPT !.at = "fail"]]
        \/ \E w \in Workers : \E attempts :
             manager' = [manager EXCEPT ![m] = [at |-> "poll", worker |-> w, attempts |-> attempts]]
    BY <1>3 DEF ManagerSpawn
  <2>4. Shape' /\ (managerLock' = managerLock \/ ~Supervising(m)')
    BY <1>3, <2>3 DEF ManagerSpawn, WorkerSteps
  <2>5. managerLock' = managerLock \/ managerLock = m
    BY <1>3 DEF ManagerSpawn
  <2>6. UNCHANGED <<enabled, stopFile, controlLock, executionLock, paperLock, app, stopped>>
    BY <1>3 DEF ManagerSpawn
  <2> QED
    BY <2>1, <2>2, <2>3, <2>4, <2>5, <2>6
<1>4. CASE ManagerPoll(m)
  BY <1>4 DEF ManagerPoll
<1>5. CASE ManagerClassify(m)
  BY <1>5 DEF ManagerClassify
<1>6. CASE ManagerRetry(m)
  BY <1>6 DEF ManagerRetry
<1>7. CASE ManagerFail(m)
  BY <1>7 DEF ManagerFail
<1>8. CASE ManagerDisable(m)
  BY <1>8 DEF ManagerDisable
<1>9. CASE ManagerRaises(m)
  BY <1>9 DEF ManagerRaises
<1>10. CASE ManagerKilled(m)
  BY <1>10 DEF ManagerKilled
<1> QED
  BY <1>1, <1>2, <1>3, <1>4, <1>5, <1>6, <1>7, <1>8, <1>9, <1>10 DEF ManagerStep

\* A worker trades only with both locks of an operator in hand.
LEMMA WorkerStepKeeps ==
  ASSUME OperatorInv, NEW w \in Workers, WorkerStep(w) \/ WorkerKilled(w)
  PROVE  OperatorInv'
<1> USE SupervisorAssumption
    DEF OperatorInv, Shape, WorkerSteps, ManagerHolds, WorkerHolds, StarterHolds, StopperHolds,
        StartClears, StopWins, Supervising, Trading, InLocks, WorkerEnds, Release
<1>1. CASE WorkerBoot(w)
  BY <1>1 DEF WorkerBoot, OperatorLocksFree
<1>2. CASE WorkerTop(w)
  BY <1>2 DEF WorkerTop
<1>3. CASE WorkerCycle(w)
  BY <1>3 DEF WorkerCycle
<1>4. CASE WorkerKilled(w)
  BY <1>4 DEF WorkerKilled
<1> QED
  BY <1>1, <1>2, <1>3, <1>4 DEF WorkerStep

\* A killed application loses its locks together with its place.
LEMMA AppKilledKeeps ==
  ASSUME OperatorInv, NEW u \in Apps, AppKilled(u)
  PROVE  OperatorInv'
BY SupervisorAssumption
   DEF AppKilled, LeaveLocked, Goto, AppSteps, Release, OperatorInv, Shape, ManagerHolds, WorkerHolds,
       StarterHolds, StopperHolds, StartClears, StopWins, Supervising, Trading, InLocks

\* Time moves no process.
LEMMA TimeKeeps ==
  ASSUME OperatorInv, Time
  PROVE  OperatorInv'
<1> USE DEF OperatorInv, Shape, ManagerHolds, WorkerHolds, StarterHolds, StopperHolds,
            StartClears, StopWins, Supervising, Trading, InLocks, locks
<1>1. CASE Tick
  <2>1. \A m \in Managers : manager'[m] = [at |-> manager[m].at, worker |-> manager[m].worker,
                                          attempts |-> Older(manager[m].attempts)]
    BY <1>1 DEF Tick
  <2>2. manager' = [m \in Managers |-> manager'[m]]
    BY <1>1 DEF Tick
  <2> QED
    BY <1>1, <2>1, <2>2 DEF Tick
<1>2. CASE Expire
  BY <1>2 DEF Expire
<1> QED
  BY <1>1, <1>2 DEF Time

LEMMA StepKeepsOperator == OperatorInv /\ [Next]_vars => OperatorInv'
<1> SUFFICES ASSUME OperatorInv, [Next]_vars PROVE OperatorInv'
  OBVIOUS
<1>1. CASE UNCHANGED vars
  BY <1>1 DEF vars, locks, OperatorInv, Shape, ManagerHolds, WorkerHolds, StarterHolds,
              StopperHolds, StartClears, StopWins, Supervising, Trading, InLocks
<1>2. CASE Fault
  BY <1>2, ManagerStepKeeps, WorkerStepKeeps, AppKilledKeeps DEF Fault
<1> QED
  BY <1>1, <1>2, AppStepKeeps, ManagerStepKeeps, WorkerStepKeeps, TimeKeeps DEF Next

LEMMA OperatorInvariant == Spec => []OperatorInv
BY InitOperator, StepKeepsOperator, PTL DEF Spec

\* One manager supervises and one worker trades at most, and no worker trades
\* while an application starts the operator, however many processes are
\* launched, killed or raced (paper_app.py 255-277, 407-420; cli.py 401-404).
THEOREM OneOperator == Spec => []SingleOperator
<1>1. OperatorInv => SingleOperator
  BY SupervisorAssumption DEF OperatorInv, ManagerHolds, WorkerHolds, StarterHolds, SingleOperator
<1> QED
  BY <1>1, OperatorInvariant, PTL

\* A completed stop() lasts until a start(), whatever recovery, failure or
\* sign-in runs beside it (paper_app.py 324-334, 537-542).
THEOREM StopLasts == Spec => []StopWins
<1>1. OperatorInv => StopWins
  BY DEF OperatorInv
<1> QED
  BY <1>1, OperatorInvariant, PTL
=============================================================================
