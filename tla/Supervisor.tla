---------------------------- MODULE Supervisor ----------------------------
(***************************************************************************)
(* The background paper operator (trading_bot/paper_app.py, the session    *)
(* loop of cli.py, runtime.py, paper_control.py).                          *)
(*                                                                         *)
(* Three kinds of processes share one runtime directory.                   *)
(*   - An application process (desktop window, `paper_app start|stop|...`, *)
(*     the sign-in entry) runs start(), stop(), resume() and status().     *)
(*   - A manager process runs supervise(): it checks the account, spawns a *)
(*     worker, watches it and restarts it within a budget.                 *)
(*   - A worker process runs the trading session loop.                     *)
(* They talk through control.json (enabled), the STOP file and             *)
(* supervisor.json (status), and exclude each other with OS-held locks     *)
(* that a dead process loses: control, manager, execution, and the         *)
(* user-wide paper-execution lock.  status() asks whether a manager or a   *)
(* worker is alive by taking its lock for a moment.                        *)
(*                                                                         *)
(* Every process may be killed at any step.  Times are ticks; an attempt   *)
(* is remembered by its age and forgotten after Window ticks (900 s).      *)
(***************************************************************************)
EXTENDS Naturals, Sequences, SequencesExt

CONSTANTS Apps,      \* application processes
          Managers,  \* slots for manager processes
          Workers,   \* slots for worker processes
          Window,    \* ticks an attempt counts against the restart budget
          RestartLimit, \* starts within a window (the code has 3)
          MaxFaults, \* bound: kills and uncaught exceptions
          None       \* no process

ASSUME SupervisorAssumption ==
  /\ Window \in Nat \ {0} /\ RestartLimit \in Nat \ {0} /\ MaxFaults \in Nat
  /\ None \notin Apps \cup Managers \cup Workers
  /\ Apps \cap Managers = {} /\ Apps \cap Workers = {} /\ Managers \cap Workers = {}

VARIABLES enabled,      \* control.json: the desired state
          stopFile,     \* the STOP file exists
          starting,     \* supervisor.json: its status says starting
          faults,       \* history: processes killed so far
          controlLock, managerLock, executionLock, paperLock,  \* owner or None
          app,          \* [Apps -> where start(), stop() or resume() is]
          manager,      \* [Managers -> [at, attempts, worker]]
          worker,       \* [Workers -> where the session loop is]
          stopped       \* history: a stop() completed and no start() cleared it

locks == <<controlLock, managerLock, executionLock, paperLock>>
vars == <<enabled, stopFile, starting, faults, locks, app, manager, worker, stopped>>

AppSteps == {"idle", "start", "preflight", "clear", "enable", "launch",
             "resume", "relaunch", "touch", "probe_manager", "probe_worker"}
ManagerSteps == {"off", "boot", "check", "budget", "poll", "classify", "retry",
                 "raised", "fail", "disable"}
WorkerSteps == {"off", "boot", "top", "cycle"}

Attempts == {s \in BoundedSeq(0..(Window - 1), RestartLimit) :
               \A i \in DOMAIN s : \A j \in 1..i : s[j] >= s[i]}

Idle == [at |-> "off", attempts |-> <<>>, worker |-> None]

Release(lock, p) == IF lock = p THEN None ELSE lock

\* A manager is alive when its lock cannot be taken: a probe of another
\* application looks the same.
ManagerAlive == managerLock # None
WorkerAlive == executionLock # None

Enabled == enabled /\ ~stopFile

Init ==
  /\ enabled = FALSE /\ stopFile = FALSE /\ starting = FALSE /\ faults = 0
  /\ controlLock = None /\ managerLock = None
  /\ executionLock = None /\ paperLock = None
  /\ app = [u \in Apps |-> "idle"]
  /\ manager = [m \in Managers |-> Idle]
  /\ worker = [w \in Workers |-> "off"]
  /\ stopped = FALSE
-----------------------------------------------------------------------------
(* Application processes                                                   *)

Goto(u, step) == app' = [app EXCEPT ![u] = step]

\* Leaving `with lock('control'), paper_execution_lock()`.
LeaveLocked(u) ==
  /\ controlLock' = Release(controlLock, u)
  /\ paperLock' = Release(paperLock, u)
  /\ Goto(u, "idle")

\* The control lock is not had within ten seconds: start() or resume() raises.
GiveUp(u) ==
  /\ app[u] \in {"start", "resume"} /\ controlLock # None
  /\ Goto(u, "idle")
  /\ UNCHANGED <<enabled, stopFile, starting, locks, manager, worker, stopped>>

\* start(): the check made without a lock.
StartCheck(u) ==
  /\ app[u] = "idle"
  /\ ~ManagerAlive /\ ~starting
  /\ Goto(u, "start")
  /\ UNCHANGED <<enabled, stopFile, starting, locks, manager, worker, stopped>>

\* Takes the control lock (waiting for it) and the user-wide lock (or raises),
\* and looks for a manager again, but not at the starting status.
StartLock(u) ==
  /\ app[u] = "start"
  /\ controlLock = None
  /\ IF paperLock = None /\ ~ManagerAlive
     THEN controlLock' = u /\ paperLock' = u /\ Goto(u, "preflight")
     ELSE Goto(u, "idle") /\ UNCHANGED <<controlLock, paperLock>>
  /\ UNCHANGED <<enabled, stopFile, starting, managerLock, executionLock, manager, worker, stopped>>

\* refresh_broker() passes, or raises.
StartPreflight(u) ==
  /\ app[u] = "preflight"
  /\ \/ Goto(u, "clear") /\ UNCHANGED <<controlLock, paperLock>>
     \/ LeaveLocked(u)
  /\ UNCHANGED <<enabled, stopFile, starting, managerLock, executionLock, manager, worker, stopped>>

StartClear(u) ==
  /\ app[u] = "clear"
  /\ stopFile' = FALSE /\ stopped' = FALSE
  /\ Goto(u, "enable")
  /\ UNCHANGED <<enabled, starting, locks, manager, worker>>

StartEnable(u) ==
  /\ app[u] = "enable"
  /\ enabled' = TRUE /\ starting' = TRUE
  /\ Goto(u, "launch")
  /\ UNCHANGED <<stopFile, locks, manager, worker, stopped>>

Spawn(m) == manager' = [manager EXCEPT ![m] = [Idle EXCEPT !.at = "boot"]]

\* _launch_background(): the manager process is spawned, or the launch raises
\* and the desired state is taken back.
StartLaunch(u) ==
  /\ app[u] = "launch"
  /\ \/ /\ \E m \in Managers : manager[m].at = "off" /\ Spawn(m)
        /\ UNCHANGED <<enabled, starting>>
     \/ enabled' = FALSE /\ starting' = FALSE /\ UNCHANGED manager
  /\ LeaveLocked(u)
  /\ UNCHANGED <<stopFile, managerLock, executionLock, worker, stopped>>

\* resume(), at sign-in: never clears STOP, never enables.
ResumeCheck(u) ==
  /\ app[u] = "idle"
  /\ Enabled /\ ~ManagerAlive /\ ~starting
  /\ Goto(u, "resume")
  /\ UNCHANGED <<enabled, stopFile, starting, locks, manager, worker, stopped>>

ResumeLock(u) ==
  /\ app[u] = "resume"
  /\ controlLock = None
  /\ IF paperLock = None /\ Enabled /\ ~ManagerAlive
     THEN /\ controlLock' = u /\ paperLock' = u
          /\ starting' = TRUE /\ Goto(u, "relaunch")
     ELSE Goto(u, "idle") /\ UNCHANGED <<controlLock, paperLock, starting>>
  /\ UNCHANGED <<enabled, stopFile, managerLock, executionLock, manager, worker, stopped>>

ResumeLaunch(u) ==
  /\ app[u] = "relaunch"
  /\ \/ \E m \in Managers : manager[m].at = "off" /\ Spawn(m)
     \/ UNCHANGED manager
  /\ LeaveLocked(u)
  /\ UNCHANGED <<enabled, stopFile, starting, managerLock, executionLock, worker, stopped>>

\* Mutant: the control lock is not waited for.
StopDisable_Impatient(u) ==
  /\ app[u] = "idle"
  /\ controlLock' = u /\ enabled' = FALSE
  /\ Goto(u, "touch")
  /\ UNCHANGED <<stopFile, starting, managerLock, executionLock, paperLock, manager, worker, stopped>>

\* stop(): under the control lock alone; disables first, then touches STOP.
StopDisable(u) ==
  /\ app[u] = "idle"
  /\ controlLock = None
  /\ controlLock' = u /\ enabled' = FALSE
  /\ Goto(u, "touch")
  /\ UNCHANGED <<stopFile, starting, managerLock, executionLock, paperLock, manager, worker, stopped>>

StopTouch(u) ==
  /\ app[u] = "touch"
  /\ stopFile' = TRUE /\ stopped' = TRUE
  /\ starting' = FALSE
  /\ LeaveLocked(u)
  /\ UNCHANGED <<enabled, managerLock, executionLock, manager, worker>>

\* status() probes the manager's lock, then the worker's, by taking each.
ProbeManager(u) ==
  /\ app[u] = "idle" /\ managerLock = None
  /\ managerLock' = u /\ Goto(u, "probe_manager")
  /\ UNCHANGED <<enabled, stopFile, starting, controlLock, executionLock, paperLock,
                 manager, worker, stopped>>

ProbeWorker(u) ==
  /\ app[u] = "idle" /\ executionLock = None
  /\ executionLock' = u /\ Goto(u, "probe_worker")
  /\ UNCHANGED <<enabled, stopFile, starting, controlLock, managerLock, paperLock,
                 manager, worker, stopped>>

ProbeEnd(u) ==
  /\ app[u] \in {"probe_manager", "probe_worker"}
  /\ managerLock' = Release(managerLock, u)
  /\ executionLock' = Release(executionLock, u)
  /\ Goto(u, "idle")
  /\ UNCHANGED <<enabled, stopFile, starting, controlLock, paperLock, manager, worker, stopped>>

AppKilled(u) ==
  /\ app[u] # "idle"
  /\ managerLock' = Release(managerLock, u)
  /\ executionLock' = Release(executionLock, u)
  /\ LeaveLocked(u)
  /\ UNCHANGED <<enabled, stopFile, starting, manager, worker, stopped>>
-----------------------------------------------------------------------------
(* Manager processes                                                       *)

ManagerAt(m, step) == manager' = [manager EXCEPT ![m].at = step]

\* The process ends; the OS releases the lock it holds.
ManagerEnds(m) ==
  /\ manager' = [manager EXCEPT ![m] = Idle]
  /\ managerLock' = Release(managerLock, m)

\* supervise(): the manager lock without waiting.  A process that does not get
\* it takes itself for a duplicate and ends without a trace.
ManagerBoot(m) ==
  /\ manager[m].at = "boot"
  /\ \/ /\ managerLock # None
        /\ ManagerEnds(m) /\ UNCHANGED starting
     \/ /\ managerLock = None /\ Enabled
        /\ managerLock' = m /\ ManagerAt(m, "check") /\ UNCHANGED starting
     \/ /\ managerLock = None /\ ~Enabled
        /\ starting' = FALSE /\ ManagerEnds(m)
  /\ UNCHANGED <<enabled, stopFile, controlLock, executionLock, paperLock, app, worker, stopped>>

\* The head of the loop of _supervise(): account identity and refresh_broker().
\* A transport error waits and retries, any other error needs review.
ManagerCheck(m) ==
  /\ manager[m].at = "check"
  /\ \/ ~Enabled /\ starting' = FALSE /\ ManagerEnds(m)
     \/ Enabled /\ ManagerAt(m, "budget") /\ UNCHANGED <<starting, managerLock>>
     \/ /\ Enabled /\ ManagerAt(m, "retry")
        /\ starting' = FALSE /\ UNCHANGED managerLock
     \/ Enabled /\ ManagerAt(m, "fail") /\ UNCHANGED <<starting, managerLock>>
  /\ UNCHANGED <<enabled, stopFile, controlLock, executionLock, paperLock, app, worker, stopped>>

\* Old attempts are already forgotten (Tick).
Exhausted(attempts) == Len(attempts) >= RestartLimit

ManagerSpawn(m) ==
  /\ manager[m].at = "budget"
  /\ \/ /\ ~Enabled
        /\ starting' = FALSE /\ ManagerEnds(m) /\ UNCHANGED worker
     \/ /\ Enabled /\ Exhausted(manager[m].attempts)
        /\ ManagerAt(m, "fail") /\ UNCHANGED <<starting, managerLock, worker>>
     \/ /\ Enabled /\ ~Exhausted(manager[m].attempts)
        /\ \E w \in Workers :
             /\ worker[w] = "off" /\ \A n \in Managers : manager[n].worker # w
             /\ worker' = [worker EXCEPT ![w] = "boot"]
             /\ manager' = [manager EXCEPT ![m] = [at |-> "poll", worker |-> w,
                                                    attempts |-> Append(@.attempts, 0)]]
        /\ starting' = FALSE /\ UNCHANGED managerLock
  /\ UNCHANGED <<enabled, stopFile, controlLock, executionLock, paperLock, app, stopped>>

\* Mutant: the manager only waits.
ManagerPoll_Waits(m) ==
  /\ manager[m].at = "poll"
  /\ worker[manager[m].worker] = "off" /\ ManagerAt(m, "classify")
  /\ UNCHANGED <<enabled, stopFile, starting, locks, app, worker, stopped>>

\* The loop on process.poll(): a desired state that was taken back without a
\* STOP file (a stop() that died in between) is turned into one.
ManagerPoll(m) ==
  /\ manager[m].at = "poll"
  /\ \/ /\ worker[manager[m].worker] # "off"
        /\ ~enabled /\ stopFile' = TRUE /\ UNCHANGED manager
     \/ /\ worker[manager[m].worker] = "off"
        /\ ManagerAt(m, "classify") /\ UNCHANGED stopFile
  /\ UNCHANGED <<enabled, starting, locks, app, worker, stopped>>

\* The worker has ended.  Its error is a matter for review, a transport error
\* that does not count against the budget, or a failure that does.
ManagerClassify(m) ==
  /\ manager[m].at = "classify"
  /\ \/ ~Enabled /\ starting' = FALSE /\ ManagerEnds(m)
     \/ Enabled /\ ManagerAt(m, "fail") /\ UNCHANGED <<starting, managerLock>>
     \/ /\ Enabled
        /\ manager' = [manager EXCEPT ![m].at = "retry", ![m].worker = None,
                                      ![m].attempts = IF @ = <<>> THEN @ ELSE Front(@)]
        /\ starting' = FALSE /\ UNCHANGED managerLock
     \/ /\ Enabled
        /\ manager' = [manager EXCEPT ![m].at = "retry", ![m].worker = None]
        /\ starting' = FALSE /\ UNCHANGED managerLock
  /\ UNCHANGED <<enabled, stopFile, controlLock, executionLock, paperLock, app, worker, stopped>>

\* _wait_for_retry(): ends early when the operator was stopped.
ManagerRetry(m) ==
  /\ manager[m].at = "retry"
  /\ \/ Enabled /\ ManagerAt(m, "check") /\ UNCHANGED <<starting, managerLock>>
     \/ ~Enabled /\ starting' = FALSE /\ ManagerEnds(m)
  /\ UNCHANGED <<enabled, stopFile, controlLock, executionLock, paperLock, app, worker, stopped>>

\* An exception that _supervise() does not catch (a file, the spawn itself):
\* the lock is released on the way out and main() calls _fail() afterwards.
ManagerRaises(m) ==
  /\ manager[m].at \in {"check", "budget", "poll", "classify"}
  /\ ManagerAt(m, "raised")
  /\ managerLock' = Release(managerLock, m)
  /\ UNCHANGED <<enabled, stopFile, starting, controlLock, executionLock, paperLock,
                 app, worker, stopped>>

\* _fail(), without the control lock: STOP first, then control.json.
ManagerFail(m) ==
  /\ manager[m].at \in {"fail", "raised"}
  /\ stopFile' = TRUE /\ ManagerAt(m, "disable")
  /\ UNCHANGED <<enabled, starting, locks, app, worker, stopped>>

ManagerDisable(m) ==
  /\ manager[m].at = "disable"
  /\ enabled' = FALSE /\ starting' = FALSE /\ ManagerEnds(m)
  /\ UNCHANGED <<stopFile, controlLock, executionLock, paperLock, app, worker, stopped>>

ManagerKilled(m) ==
  /\ manager[m].at # "off" /\ ManagerEnds(m)
  /\ UNCHANGED <<enabled, stopFile, starting, controlLock, executionLock, paperLock,
                 app, worker, stopped>>
-----------------------------------------------------------------------------
(* Worker processes                                                        *)

WorkerEnds(w) ==
  /\ worker' = [worker EXCEPT ![w] = "off"]
  /\ executionLock' = Release(executionLock, w)
  /\ paperLock' = Release(paperLock, w)

\* Mutant: the lock of the runtime directory alone.
OperatorLocksFree_Directory == executionLock = None
OperatorLocksFree == paperLock = None /\ executionLock = None

\* `with user_lock, lock`: both without waiting; without them the process ends.
WorkerBoot(w) ==
  /\ worker[w] = "boot"
  /\ IF OperatorLocksFree
     THEN /\ paperLock' = w /\ executionLock' = w
          /\ worker' = [worker EXCEPT ![w] = "top"]
     ELSE WorkerEnds(w)
  /\ UNCHANGED <<enabled, stopFile, starting, controlLock, managerLock, app, manager, stopped>>

\* Mutant: the file is not looked for.
StopRequested_Never == FALSE
StopRequested == stopFile

\* The head of the session loop, reached again after every wait.
WorkerTop(w) ==
  /\ worker[w] = "top"
  /\ IF StopRequested THEN WorkerEnds(w)
     ELSE /\ worker' = [worker EXCEPT ![w] = "cycle"]
          /\ UNCHANGED <<executionLock, paperLock>>
  /\ UNCHANGED <<enabled, stopFile, starting, controlLock, managerLock, app, manager, stopped>>

\* One pass: risk cycle, protective stops, signal cycle, each retried at most
\* five times.  The pass completes or its last retry raises.
WorkerCycle(w) ==
  /\ worker[w] = "cycle"
  /\ \/ worker' = [worker EXCEPT ![w] = "top"] /\ UNCHANGED <<executionLock, paperLock>>
     \/ WorkerEnds(w)
  /\ UNCHANGED <<enabled, stopFile, starting, controlLock, managerLock, app, manager, stopped>>

WorkerKilled(w) ==
  /\ worker[w] # "off" /\ WorkerEnds(w)
  /\ UNCHANGED <<enabled, stopFile, starting, controlLock, managerLock, app, manager, stopped>>
-----------------------------------------------------------------------------
(* Time                                                                    *)

Older(s) == SelectSeq([i \in DOMAIN s |-> s[i] + 1], LAMBDA a : a < Window)

Tick ==
  /\ \E m \in Managers : manager[m].attempts # <<>>
  /\ manager' = [m \in Managers |-> [manager[m] EXCEPT !.attempts = Older(@)]]
  /\ UNCHANGED <<enabled, stopFile, starting, locks, app, worker, stopped>>

\* A starting status is older than half a minute: nobody believes it any more.
Expire ==
  /\ starting /\ starting' = FALSE
  /\ UNCHANGED <<enabled, stopFile, locks, app, manager, worker, stopped>>

AppStep(u) ==
  /\ \/ StartCheck(u) \/ StartLock(u) \/ StartPreflight(u) \/ StartClear(u)
     \/ StartEnable(u) \/ StartLaunch(u)
     \/ ResumeCheck(u) \/ ResumeLock(u) \/ ResumeLaunch(u)
     \/ StopDisable(u) \/ StopTouch(u) \/ GiveUp(u)
     \/ ProbeManager(u) \/ ProbeWorker(u) \/ ProbeEnd(u)
  /\ UNCHANGED faults

ManagerStep(m) ==
  /\ \/ ManagerBoot(m) \/ ManagerCheck(m) \/ ManagerSpawn(m) \/ ManagerPoll(m)
     \/ ManagerClassify(m) \/ ManagerRetry(m) \/ ManagerFail(m) \/ ManagerDisable(m)
  /\ UNCHANGED faults

WorkerStep(w) ==
  /\ WorkerBoot(w) \/ WorkerTop(w) \/ WorkerCycle(w)
  /\ UNCHANGED faults

\* What no code decides: a process killed, an exception nobody catches.
Fault ==
  /\ faults < MaxFaults /\ faults' = faults + 1
  /\ \/ \E u \in Apps : AppKilled(u)
     \/ \E m \in Managers : ManagerRaises(m) \/ ManagerKilled(m)
     \/ \E w \in Workers : WorkerKilled(w)

Time == (Tick \/ Expire) /\ UNCHANGED faults

Next ==
  \/ \E u \in Apps : AppStep(u)
  \/ \E m \in Managers : ManagerStep(m)
  \/ \E w \in Workers : WorkerStep(w)
  \/ Fault \/ Time

Spec == Init /\ [][Next]_vars

\* Processes that are not killed keep running: the manager's and the worker's
\* loops only ever wait for bounded sleeps, bounded retries and each other.
\* An application is a user's: nothing says that it acts, or finishes.
FairSpec ==
  /\ Spec
  /\ \A m \in Managers : WF_vars(ManagerStep(m))
  /\ \A w \in Workers : WF_vars(WorkerStep(w))
-----------------------------------------------------------------------------
(* Properties                                                              *)

Supervising(m) == manager[m].at \in {"check", "budget", "poll", "classify", "retry", "fail"}
Trading(w) == worker[w] \in {"top", "cycle"}
InLocks(u) == app[u] \in {"preflight", "clear", "enable", "launch", "relaunch"}

\* The processes' states and the files; a manager never counts more than
\* RestartLimit attempts, and their ages run from the oldest to the newest.
TypeOK ==
  /\ enabled \in BOOLEAN /\ stopFile \in BOOLEAN /\ stopped \in BOOLEAN
  /\ starting \in BOOLEAN /\ faults \in 0..MaxFaults
  /\ controlLock \in Apps \cup {None}
  /\ managerLock \in Apps \cup Managers \cup {None}
  /\ executionLock \in Apps \cup Workers \cup {None}
  /\ paperLock \in Apps \cup Workers \cup {None}
  /\ app \in [Apps -> AppSteps]
  /\ worker \in [Workers -> WorkerSteps]
  /\ manager \in [Managers -> [at : ManagerSteps, attempts : Attempts,
                               worker : Workers \cup {None}]]

\* Two managers may be launched for one Start and several workers spawned, but
\* one manager at most supervises, one worker at most trades, and none trades
\* while start() or resume() checks the account and switches the files
\* (paper_app.py 157-175, 255-277, 351-367, 407-420; cli.py 401-404).
SingleOperator ==
  /\ \A m, n \in Managers : Supervising(m) /\ Supervising(n) => m = n
  /\ \A v, w \in Workers : Trading(v) /\ Trading(w) => v = w
  /\ \A u \in Apps : InLocks(u) => \A w \in Workers : ~Trading(w)

\* A user's stop wins over every recovery: once stop() has completed, neither a
\* manager's restart, a failure's late clean-up, a sign-in nor a start() that
\* was half done brings the operator back, until a start() clears the stop
\* (paper_app.py 324-334, 408, 537-542).
StopWins == stopped => stopFile /\ ~enabled

\* A STOP file, from a stop() or from a failure, ends the trading and the
\* supervision, whatever was being launched or restarted (runtime.py 14-25,
\* cli.py 690-692 and 767, paper_app.py 422-437, 453, 471, 511).
StopEndsTrading ==
  stopFile ~> (~stopFile \/ \A w \in Workers, m \in Managers :
                              ~Trading(w) /\ ~Supervising(m))

\* A stop() that dies between its two writes is finished by the manager: a
\* worker that is no longer wanted gets its STOP file (paper_app.py 492-494).
DisabledReachesWorker ==
  \A m \in Managers :
    (manager[m].at = "poll" /\ ~enabled)
      ~> (enabled \/ stopFile \/ manager[m].at # "poll")
=============================================================================
