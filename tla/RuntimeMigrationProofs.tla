----------------------- MODULE RuntimeMigrationProofs -----------------------
(***************************************************************************)
(* RuntimeMigration is safe for any directories, applications and commands *)
(* and any number of records: no journal is left behind, no redirect       *)
(* closes a cycle, and an interrupted copy can be resumed.                 *)
(***************************************************************************)
EXTENDS RuntimeMigration, FiniteSetTheorems, TLAPS

-----------------------------------------------------------------------------
(* Redirects                                                               *)

\* The directories that a resolution of d visits, in their order.
Hop1(d) == NextHop(d)
Hop2(d) == NextHop(Hop1(d))
Hop3(d) == NextHop(Hop2(d))
Hop4(d) == NextHop(Hop3(d))
Chain(d) == {d, Hop1(d), Hop2(d), Hop3(d), Hop4(d)}

RedirectType == redirect \in [Directories -> Directories \cup {None}]

\* Resolve follows four hops: its recursive function is the chain.
LEMMA ResolveIsHop4 ==
  \A d : Resolve(d) = IF redirect[Hop4(d)] = None THEN Hop4(d) ELSE Refused
<1> SUFFICES ASSUME NEW d
             PROVE  Resolve(d) = IF redirect[Hop4(d)] = None THEN Hop4(d) ELSE Refused
  OBVIOUS
<1> DEFINE F(g) == [n \in 0..Hops |-> IF n = 0 THEN d ELSE NextHop(g[n - 1])]
           chain == [n \in 0..Hops |-> IF n = 0 THEN d ELSE IF n = 1 THEN Hop1(d)
                                       ELSE IF n = 2 THEN Hop2(d)
                                       ELSE IF n = 3 THEN Hop3(d) ELSE Hop4(d)]
           hop == CHOOSE g : g = F(g)
<1>1. chain = F(chain)
  BY DEF Hops, Hop1, Hop2, Hop3, Hop4
<1>2. hop = F(hop)
  <2> HIDE DEF F, chain
  <2> QED  BY <1>1
<1>3. hop[Hops] = Hop4(d)
  <2> HIDE DEF hop
  <2>1. \A n \in 0..Hops : hop[n] = IF n = 0 THEN d ELSE NextHop(hop[n - 1])
    BY <1>2
  <2>2. 0 \in 0..Hops /\ 1 \in 0..Hops /\ 2 \in 0..Hops /\ 3 \in 0..Hops /\ 4 \in 0..Hops
    BY DEF Hops
  <2>3. hop[0] = d /\ hop[1] = NextHop(hop[0]) /\ hop[2] = NextHop(hop[1])
        /\ hop[3] = NextHop(hop[2]) /\ hop[4] = NextHop(hop[3])
    BY <2>1, <2>2
  <2> QED
    BY <2>3 DEF Hops, Hop1, Hop2, Hop3, Hop4
<1> QED
  BY <1>3 DEF Resolve

LEMMA ResolveIsHop4Next ==
  \A d : Resolve(d)' = IF redirect'[Hop4(d)'] = None THEN Hop4(d)' ELSE Refused
<1>1. (\A d : Resolve(d) = IF redirect[Hop4(d)] = None THEN Hop4(d) ELSE Refused)'
  BY ResolveIsHop4, PTL
<1> QED
  BY <1>1

\* A resolution stays among the directories, and ends where none redirects.
LEMMA HopsType ==
  ASSUME RedirectType, NEW d \in Directories
  PROVE  /\ Chain(d) \subseteq Directories
         /\ Resolve(d) \in Directories \cup {Refused}
         /\ Resolve(d) # Refused => redirect[Resolve(d)] = None
         /\ redirect[d] = None => Resolve(d) = d
         /\ Resolve(d) = d => redirect[d] = None
<1>1. \A e \in Directories : NextHop(e) \in Directories
  BY DEF RedirectType, NextHop
<1>2. Chain(d) \subseteq Directories
  BY <1>1 DEF Chain, Hop1, Hop2, Hop3, Hop4
<1>3. redirect[d] = None => Hop4(d) = d
  BY DEF Hop1, Hop2, Hop3, Hop4, NextHop
<1> QED
  BY <1>2, <1>3, ResolveIsHop4, MigrationAssumption DEF Chain

\* A path's journal is that of every directory its resolution visits.
LEMMA ChainResolves ==
  ASSUME RedirectType, NEW d \in Directories, NEW e \in Chain(d), Resolve(e) # Refused
  PROVE  Resolve(d) \in {Resolve(e), Refused}
<1>1. Resolve(d) # Refused => /\ Resolve(d) = Hop4(d)
                              /\ NextHop(Hop4(d)) = Hop4(d)
  BY ResolveIsHop4 DEF NextHop
<1>2. Resolve(e) = Hop4(e)
  BY ResolveIsHop4
<1> QED
  BY <1>1, <1>2 DEF Chain, Hop1, Hop2, Hop3, Hop4

\* What one more redirect changes: paths of the source now lead to the target,
\* or are too long; no other path changes.
LEMMA RedirectMoves ==
  ASSUME RedirectType, NEW s \in Directories, NEW t \in Directories, s # t,
         redirect[s] = None, redirect[t] = None,
         redirect' = [redirect EXCEPT ![s] = t],
         NEW d \in Directories
  PROVE  /\ Resolve(d)' \in {IF Resolve(d) = s THEN t ELSE Resolve(d), Refused}
         /\ \A e \in Chain(d) : e \in Chain(d)'
<1>1. \A e \in Directories : NextHop(e)' = IF e = s THEN t ELSE NextHop(e)
  BY MigrationAssumption DEF RedirectType, NextHop
<1>2. Chain(d) \subseteq Directories
  BY HopsType
<1>3. NextHop(s) = s /\ NextHop(t) = t
  BY DEF NextHop
<1>4. redirect'[s] = t /\ t # None /\ \A e \in Directories \ {s} : redirect'[e] = redirect[e]
  BY MigrationAssumption DEF RedirectType
<1>5. Resolve(d)' = IF redirect'[Hop4(d)'] = None THEN Hop4(d)' ELSE Refused
  BY ResolveIsHop4Next
<1>6. Resolve(d) = IF redirect[Hop4(d)] = None THEN Hop4(d) ELSE Refused
  BY ResolveIsHop4
<1>7. CASE s \notin Chain(d)
  <2>1. Hop1(d)' = Hop1(d) /\ Hop2(d)' = Hop2(d) /\ Hop3(d)' = Hop3(d) /\ Hop4(d)' = Hop4(d)
    BY <1>1, <1>2, <1>7 DEF Chain, Hop1, Hop2, Hop3, Hop4
  <2> QED
    BY <2>1, <1>2, <1>4, <1>5, <1>6, <1>7 DEF Chain
<1>8. CASE s \in Chain(d)
  <2>1. Hop4(d) = s
    BY <1>3, <1>8 DEF Chain, Hop1, Hop2, Hop3, Hop4
  <2>2. Hop4(d)' \in {s, t}
    BY <1>1, <1>2, <1>3, <1>8 DEF Chain, Hop1, Hop2, Hop3, Hop4
  <2>3. \A e \in Chain(d) : e \in Chain(d)'
    BY <1>1, <1>2, <1>3, <1>8 DEF Chain, Hop1, Hop2, Hop3, Hop4
  <2> QED
    BY <2>1, <2>2, <2>3, <1>4, <1>5, <1>6
<1> QED
  BY <1>7, <1>8
-----------------------------------------------------------------------------
(* The inductive invariant                                                 *)

Holding(a) == app[a].at \in UnderLock

\* A migration and a running command exclude each other by the user-wide lock.
LocksHeld ==
  /\ \A a \in Apps : Holding(a) => userLock = a
  /\ \A c \in Commands : command[c].at = "running" => userLock = c

\* While one migrates, neither of its directories redirects.
Canonical ==
  \A a \in Apps : Holding(a) => redirect[Source[a]] = None /\ redirect[Target[a]] = None

\* A copy has its checkpoint.
Checkpointed ==
  \A a \in Apps : app[a].at \in {"copy", "commit"} =>
      checkpoint[Target[a]] = [source |-> Source[a], files |-> app[a].inventory]

\* Before the redirect everything of the inventory is in the target, and the
\* inventory has all that was written through any path to the source.
Copied ==
  \A a \in Apps : app[a].at = "commit" =>
      /\ \A f \in Files : app[a].inventory[f] \subseteq disk[Target[a]][f]
      /\ \A d \in Directories : Resolve(d) = Source[a] =>
             written[d] \subseteq UNION {app[a].inventory[f] : f \in Files}

\* What a command holds of its path is still on the way to its journal.
CommandPaths ==
  \A c \in Commands :
      LET k == command[c] IN
      /\ k.at # "off" => k.path \in Directories /\ k.dir \in Chain(k.path)
      /\ k.at = "running" => k.journal \in Directories
                              /\ Resolve(k.path) \in {k.journal, Refused}

\* A target that nobody else wrote to holds whole files of the checkpoint only.
PartOf(t, files) == \A f \in Files : disk[t][f] \in {{}, files[f]}
Resumable ==
  /\ \A t \in Directories \ touched :
         checkpoint[t] # None => PartOf(t, checkpoint[t].files)
  /\ \A a \in Apps : At(a, "checkpoint") /\ Target[a] \notin touched
                      => PartOf(Target[a], app[a].inventory)

MigrationInv ==
  /\ TypeOK /\ LocksHeld /\ Canonical /\ Checkpointed /\ Copied /\ CommandPaths
  /\ Resumable /\ NoRecordLost

\* Every redirect leads to a directory of lower rank.
Ranked ==
  \E rank \in [Directories -> Nat] :
      \A d \in Directories : redirect[d] # None => rank[redirect[d]] < rank[d]

LEMMA InitMigration == Init => MigrationInv /\ Ranked
<1> SUFFICES ASSUME Init PROVE MigrationInv /\ Ranked
  OBVIOUS
<1>1. TypeOK
  BY DEF Init, TypeOK, Contents, Empty, AppSteps
<1>2. Ranked
  <2>1. [d \in Directories |-> 0] \in [Directories -> Nat]
    OBVIOUS
  <2> QED
    BY <2>1 DEF Init, Ranked
<1> QED
  BY <1>1, <1>2 DEF Init, MigrationInv, LocksHeld, Holding, UnderLock, Canonical, Checkpointed, Copied,
       CommandPaths, Resumable, NoRecordLost, At

\* The disjuncts of Next, by who takes the step.
AppStep(a) ==
  \/ EnsureIfNeeded(a) \/ Lock(a) \/ Redirected(a) \/ Inspect(a) \/ WriteCheckpoint(a)
  \/ Verify(a) \/ Commit(a) \/ Abort(a) \/ \E f \in Files : CopyFile(a, f)
CommandStep(c) ==
  \/ StartCommand(c) \/ EndCommand(c)
  \/ (\E d \in Directories : ParseCommand(c, d)) \/ (\E f \in Ledgers : CommandWrites(c, f))
ReportStep(r) ==
  (\E d \in Directories : OpenReport(r, d)) \/ (\E f \in Ledgers : ReportWrites(r, f))

LEMMA StepCases ==
  ASSUME [Next]_vars
  PROVE  \/ \E a \in Apps : AppStep(a)
         \/ \E c \in Commands : CommandStep(c)
         \/ \E r \in Reports : ReportStep(r)
         \/ \E d \in Directories : CreateStop(d)
         \/ UNCHANGED vars
BY DEF Next, AppStep, CommandStep, ReportStep

LEMMA TypeStep ==
  ASSUME TypeOK, CommandPaths, [Next]_vars
  PROVE  TypeOK'
<1> USE MigrationAssumption DEF TypeOK, Checkpoints, Goto, Leave, NoLocks, At
<1>0. \A d \in Directories : Resolve(d) \in Directories \cup {Refused}
  BY HopsType DEF RedirectType
<1>00. ASSUME NEW d \in Directories, NEW f \in Files, WriteTo(d, f)
       PROVE  disk' \in [Directories -> Contents] /\ touched' \subseteq Directories
  <2>1. disk' = [disk EXCEPT ![d][f] = disk[d][f] \cup {NextRecord}]
    BY <1>00 DEF WriteTo
  <2>2. disk[d][f] \cup {NextRecord} \in SUBSET Records
    BY <1>00 DEF WriteTo, Contents
  <2> HIDE DEF Contents
  <2> QED
    BY <1>00, <2>1, <2>2 DEF WriteTo, Contents
<1>01. \A f \in Ledgers : f \in Files
  BY DEF Files
<1>1. ASSUME NEW a \in Apps, AppStep(a) PROVE TypeOK'
  <2>0. Empty \in Contents /\ Source[a] \in Directories /\ Target[a] \in Directories
    BY DEF Empty, Contents
  <2>1. CASE EnsureIfNeeded(a)
    BY <2>1 DEF EnsureIfNeeded, AppSteps
  <2>2. CASE Lock(a)
    BY <2>2 DEF Lock, AppSteps
  <2>3. CASE Redirected(a)
    BY <2>3 DEF Redirected, AppSteps
  <2>4. CASE Inspect(a)
    <3>1. disk[Source[a]] \in Contents
      BY <2>0
    <3> QED
      BY <2>4, <3>1 DEF Inspect, AppSteps
  <2>5. CASE WriteCheckpoint(a)
    <3>1. app[a].inventory \in Contents
      OBVIOUS
    <3> QED
      BY <2>0, <2>5, <3>1 DEF WriteCheckpoint, AppSteps
  <2>6. CASE Verify(a)
    BY <2>6 DEF Verify, AppSteps
  <2>7. CASE Commit(a)
    BY <2>0, <2>7 DEF Commit, AppSteps
  <2>8. CASE Abort(a)
    BY <2>0, <2>8 DEF Abort, AppSteps
  <2>9. ASSUME NEW f \in Files, CopyFile(a, f) PROVE TypeOK'
    <3>1. app[a].inventory[f] \in SUBSET Records
      BY DEF Contents
    <3>2. disk' = [disk EXCEPT ![Target[a]][f] = app[a].inventory[f]]
      BY <2>9 DEF CopyFile, Copies
    <3>3. disk' \in [Directories -> Contents]
      BY <2>0, <3>1, <3>2 DEF Contents
    <3> QED
      BY <2>9, <3>3 DEF CopyFile
  <2> QED
    BY <1>1, <2>1, <2>2, <2>3, <2>4, <2>5, <2>6, <2>7, <2>8, <2>9 DEF AppStep
<1>2. ASSUME NEW c \in Commands, CommandStep(c) PROVE TypeOK'
  <2>1. CASE StartCommand(c)
    <3>1. command[c].dir \in Directories
      BY <2>1, HopsType DEF StartCommand, CommandPaths, RedirectType
    <3>2. Resolve(command[c].dir) \in Directories
      BY <1>0, <2>1, <3>1 DEF StartCommand, JournalOf
    <3>3. command' \in [Commands -> [at : {"off", "parsed", "running"},
                                      path : Directories \cup {None},
                                      dir : Directories \cup {None},
                                      journal : Directories \cup {None}]]
      <4>1. command' = [command EXCEPT ![c] =
                          [@ EXCEPT !.at = "running", !.journal = Resolve(command[c].dir)]]
        BY <2>1 DEF StartCommand, JournalOf
      <4>2. [command[c] EXCEPT !.at = "running", !.journal = Resolve(command[c].dir)]
              \in [at : {"off", "parsed", "running"}, path : Directories \cup {None},
                   dir : Directories \cup {None}, journal : Directories \cup {None}]
        <5>1. command[c] \in [at : {"off", "parsed", "running"}, path : Directories \cup {None},
                             dir : Directories \cup {None}, journal : Directories \cup {None}]
          OBVIOUS
        <5> HIDE MigrationAssumption DEF TypeOK
        <5> QED
          BY <3>2, <5>1
      <4> QED
        BY <4>1, <4>2
    <3> QED
      BY <2>1, <3>1, <3>3 DEF StartCommand
  <2>2. CASE EndCommand(c)
    BY <2>2 DEF EndCommand
  <2>3. ASSUME NEW d \in Directories, ParseCommand(c, d) PROVE TypeOK'
    BY <1>0, <2>3 DEF ParseCommand
  <2>4. ASSUME NEW f \in Ledgers, CommandWrites(c, f) PROVE TypeOK'
    <3>1. command[c].journal \in Directories
      BY <2>4 DEF CommandWrites, CommandPaths
    <3>2. NextRecord \in Records
      BY <2>4 DEF CommandWrites, WriteTo
    <3>3. disk' \in [Directories -> Contents] /\ touched' \subseteq Directories
      BY <1>00, <1>01, <2>4, <3>1 DEF CommandWrites
    <3> QED
      BY <2>4, <3>2, <3>3 DEF CommandWrites
  <2> QED
    BY <1>2, <2>1, <2>2, <2>3, <2>4 DEF CommandStep
<1>3. ASSUME NEW r \in Reports, ReportStep(r) PROVE TypeOK'
  <2>1. ASSUME NEW d \in Directories, OpenReport(r, d) PROVE TypeOK'
    BY <1>0, <2>1 DEF OpenReport
  <2>2. ASSUME NEW f \in Ledgers, ReportWrites(r, f) PROVE TypeOK'
    <3>1. disk' \in [Directories -> Contents] /\ touched' \subseteq Directories
      BY <1>00, <1>01, <2>2 DEF ReportWrites
    <3> QED
      BY <2>2, <3>1 DEF ReportWrites
  <2> QED
    BY <1>3, <2>1, <2>2 DEF ReportStep
<1>4. ASSUME NEW d \in Directories, CreateStop(d) PROVE TypeOK'
  <2>1. {NextRecord} \in SUBSET Records /\ Stop \in Files
    BY <1>4 DEF CreateStop, Files
  <2>2. disk' \in [Directories -> Contents]
    BY <1>4, <2>1 DEF CreateStop, Contents
  <2> QED
    BY <1>4, <2>1, <2>2 DEF CreateStop
<1>5. CASE UNCHANGED vars
  BY <1>5 DEF vars
<1> QED
  BY <1>1, <1>2, <1>3, <1>4, <1>5, StepCases

\* Who holds the user-wide lock, whose directories and whose inventory it is.
LEMMA LocksStep ==
  ASSUME TypeOK, LocksHeld, Canonical, Checkpointed, [Next]_vars
  PROVE  LocksHeld' /\ Canonical' /\ Checkpointed'
<1> USE MigrationAssumption
    DEF TypeOK, LocksHeld, Canonical, Checkpointed, Holding, UnderLock, Goto, Leave, NoLocks, At
<1>1. ASSUME NEW a \in Apps, AppStep(a) PROVE LocksHeld' /\ Canonical' /\ Checkpointed'
  <2>0. Source[a] \in Directories /\ Target[a] \in Directories
    OBVIOUS
  <2>1. CASE EnsureIfNeeded(a)
    BY <2>1 DEF EnsureIfNeeded
  <2>2. CASE Lock(a)
    <3>1. redirect[Target[a]] = None
      BY <2>0, <2>2, HopsType DEF Lock, TargetIsCanonical, RedirectType
    <3> QED
      BY <2>2, <3>1 DEF Lock
  <2>3. CASE Redirected(a)
    BY <2>3 DEF Redirected
  <2>4. CASE Inspect(a)
    BY <2>4 DEF Inspect, Matches
  <2>5. CASE WriteCheckpoint(a)
    BY <2>0, <2>5 DEF WriteCheckpoint
  <2>6. CASE Verify(a)
    BY <2>6 DEF Verify
  <2>7. CASE Commit(a)
    BY <2>0, <2>7 DEF Commit
  <2>8. CASE Abort(a)
    BY <2>8 DEF Abort
  <2>9. CASE \E f \in Files : CopyFile(a, f)
    BY <2>9 DEF CopyFile
  <2> QED
    BY <1>1, <2>1, <2>2, <2>3, <2>4, <2>5, <2>6, <2>7, <2>8, <2>9 DEF AppStep
<1>2. ASSUME NEW c \in Commands, CommandStep(c) PROVE LocksHeld' /\ Canonical' /\ Checkpointed'
  BY <1>2 DEF CommandStep, StartCommand, EndCommand, ParseCommand, CommandWrites
<1>3. ASSUME NEW r \in Reports, ReportStep(r) PROVE LocksHeld' /\ Canonical' /\ Checkpointed'
  BY <1>3 DEF ReportStep, OpenReport, ReportWrites
<1>4. ASSUME NEW d \in Directories, CreateStop(d) PROVE LocksHeld' /\ Canonical' /\ Checkpointed'
  BY <1>4 DEF CreateStop
<1>5. CASE UNCHANGED vars
  BY <1>5 DEF vars
<1> QED
  BY <1>1, <1>2, <1>3, <1>4, <1>5, StepCases

\* Only a migration that commits changes what any path resolves to.
LEMMA RedirectStep ==
  ASSUME [Next]_vars
  PROVE  UNCHANGED redirect \/ \E a \in Apps : Commit(a)
BY DEF Next, vars, EnsureIfNeeded, Lock, Redirected, Inspect, WriteCheckpoint, Verify, Abort,
       CopyFile, StartCommand, EndCommand, ParseCommand, CommandWrites, OpenReport, ReportWrites,
       CreateStop

LEMMA ResolveStays ==
  ASSUME UNCHANGED redirect
  PROVE  \A d : Resolve(d)' = Resolve(d) /\ Chain(d)' = Chain(d)
<1>1. \A d : NextHop(d)' = NextHop(d)
  BY DEF NextHop
<1>2. \A d : Hop1(d)' = Hop1(d)
  BY <1>1 DEF Hop1
<1>3. \A d : Hop2(d)' = Hop2(d)
  BY <1>1, <1>2 DEF Hop2
<1>4. \A d : Hop3(d)' = Hop3(d)
  BY <1>1, <1>3 DEF Hop3
<1>5. \A d : Hop4(d)' = Hop4(d)
  BY <1>1, <1>4 DEF Hop4
<1> QED
  BY <1>2, <1>3, <1>4, <1>5, ResolveIsHop4, ResolveIsHop4Next DEF Chain

\* A commit moves the source's paths to the target.
LEMMA CommitMoves ==
  ASSUME TypeOK, Canonical, NEW a \in Apps, Commit(a), NEW d \in Directories
  PROVE  /\ Resolve(d)' \in {IF Resolve(d) = Source[a] THEN Target[a] ELSE Resolve(d), Refused}
         /\ \A e \in Chain(d) : e \in Chain(d)'
<1>1. /\ RedirectType
      /\ Source[a] \in Directories /\ Target[a] \in Directories /\ Source[a] # Target[a]
      /\ redirect[Source[a]] = None /\ redirect[Target[a]] = None
      /\ redirect' = [redirect EXCEPT ![Source[a]] = Target[a]]
  BY MigrationAssumption DEF TypeOK, RedirectType, Canonical, Holding, UnderLock, Commit, At
<1> QED
  BY <1>1, RedirectMoves

\* A command finds its journal although the redirects change until it has its locks.
LEMMA PathsStep ==
  ASSUME TypeOK, LocksHeld, Canonical, CommandPaths, [Next]_vars
  PROVE  CommandPaths'
<1> USE MigrationAssumption DEF TypeOK, CommandPaths
<1>1. CASE UNCHANGED redirect
  <2>0. \A d : Resolve(d)' = Resolve(d) /\ Chain(d)' = Chain(d)
    BY <1>1, ResolveStays
  <2>1. ASSUME NEW c \in Commands, CommandStep(c) PROVE CommandPaths'
    <3>1. CASE StartCommand(c)
      <4> DEFINE k == command[c]
      <4>1. k.path \in Directories /\ k.dir \in Chain(k.path) /\ k.dir \in Directories
        BY <3>1, HopsType DEF StartCommand, RedirectType
      <4>2. Resolve(k.dir) # Refused /\ Resolve(k.dir) \in Directories
        BY <3>1, <4>1, HopsType DEF StartCommand, JournalOf, RedirectType
      <4>3. Resolve(k.path) \in {Resolve(k.dir), Refused}
        BY <4>1, <4>2, ChainResolves DEF RedirectType
      <4> QED
        BY <2>0, <3>1, <4>1, <4>2, <4>3 DEF StartCommand, JournalOf
    <3>2. ASSUME NEW d \in Directories, ParseCommand(c, d) PROVE CommandPaths'
      <4>1. Resolve(d) \in Chain(d)
        BY <3>2, ResolveIsHop4 DEF ParseCommand, Chain
      <4> QED
        BY <2>0, <3>2, <4>1 DEF ParseCommand
    <3>3. CASE EndCommand(c) \/ \E f \in Ledgers : CommandWrites(c, f)
      BY <2>0, <3>3 DEF EndCommand, CommandWrites
    <3> QED
      BY <2>1, <3>1, <3>2, <3>3 DEF CommandStep
  <2>2. CASE UNCHANGED command
    BY <2>0, <2>2
  <2>3. UNCHANGED command \/ \E c \in Commands : CommandStep(c)
    BY DEF Next, vars, CommandStep, EnsureIfNeeded, Lock, Redirected, Inspect, WriteCheckpoint,
           Verify, Commit, Abort, CopyFile, OpenReport, ReportWrites, CreateStop
  <2> QED
    BY <2>1, <2>2, <2>3
<1>2. ASSUME NEW a \in Apps, Commit(a) PROVE CommandPaths'
  <2>1. \A c \in Commands : command[c].at # "running"
    BY <1>2 DEF Commit, At, LocksHeld, Holding, UnderLock
  <2>2. \A d \in Directories : \A e \in Chain(d) : e \in Chain(d)'
    BY <1>2, CommitMoves
  <2> QED
    BY <1>2, <2>1, <2>2 DEF Commit
<1> QED
  BY <1>1, <1>2, RedirectStep

\* What a checkpoint promises of an untouched target is not lost by a step.
LEMMA ResumableStep ==
  ASSUME TypeOK, LocksHeld, Checkpointed, CommandPaths, Resumable, [Next]_vars
  PROVE  Resumable'
<1> USE MigrationAssumption DEF TypeOK, Resumable, PartOf, Goto, Leave, At
<1>0. ASSUME NEW d \in Directories, NEW f \in Files, WriteTo(d, f),
             UNCHANGED <<checkpoint, app>>
      PROVE  Resumable'
  <2>1. touched' = touched \cup {d} /\ \A e \in Directories \ {d} : disk'[e] = disk[e]
    BY <1>0 DEF WriteTo
  <2> QED
    BY <1>0, <2>1
<1>1. ASSUME NEW a \in Apps, AppStep(a) PROVE Resumable'
  <2>0. Source[a] \in Directories /\ Target[a] \in Directories
    OBVIOUS
  <2>1. CASE EnsureIfNeeded(a) \/ Lock(a) \/ Redirected(a) \/ Verify(a) \/ Commit(a) \/ Abort(a)
    <3>1. UNCHANGED <<disk, checkpoint, touched>>
      BY <2>1 DEF EnsureIfNeeded, Lock, Redirected, Verify, Commit, Abort
    <3>2. \A b \in Apps : At(b, "checkpoint")' => app'[b] = app[b]
      BY <2>1 DEF EnsureIfNeeded, Lock, Redirected, Verify, Commit, Abort
    <3> QED
      BY <3>1, <3>2
  <2>2. CASE Inspect(a)
    <3>1. PartOf(Target[a], disk[Source[a]])
      BY <2>2 DEF Inspect, Conflicts
    <3>2. checkpoint[Target[a]] # None => checkpoint[Target[a]].files = disk[Source[a]]
      BY <2>2 DEF Inspect, Matches
    <3>3. \A b \in Apps \ {a} : ~At(b, "checkpoint")
      BY <2>2 DEF Inspect, LocksHeld, Holding, UnderLock
    <3>4. app'[a].inventory = disk[Source[a]]
      BY <2>2 DEF Inspect
    <3>5. \A b \in Apps \ {a} : app'[b] = app[b]
      BY <2>2 DEF Inspect
    <3> QED
      BY <2>0, <2>2, <3>1, <3>2, <3>3, <3>4, <3>5 DEF Inspect
  <2>3. CASE WriteCheckpoint(a)
    <3>1. \A b \in Apps \ {a} : ~At(b, "checkpoint") /\ app'[b] = app[b]
      BY <2>3 DEF WriteCheckpoint, LocksHeld, Holding, UnderLock
    <3>2. ~At(a, "checkpoint")'
      BY <2>3 DEF WriteCheckpoint
    <3> QED
      BY <2>0, <2>3, <3>1, <3>2 DEF WriteCheckpoint
  <2>4. ASSUME NEW f \in Files, CopyFile(a, f) PROVE Resumable'
    <3>1. checkpoint[Target[a]].files = app[a].inventory
      <4>1. checkpoint[Target[a]] = [source |-> Source[a], files |-> app[a].inventory]
        BY <2>4 DEF CopyFile, Checkpointed
      <4> QED
        BY <4>1
    <3>2. \A b \in Apps : ~At(b, "checkpoint")
      BY <2>4 DEF CopyFile, LocksHeld, Holding, UnderLock
    <3>3. \A d \in Directories : \A g \in Files :
             disk'[d][g] = IF d = Target[a] /\ g = f THEN app[a].inventory[f] ELSE disk[d][g]
      BY <2>0, <2>4 DEF CopyFile, Copies, Contents
    <3> QED
      BY <2>0, <2>4, <3>1, <3>2, <3>3 DEF CopyFile
  <2> QED
    BY <1>1, <2>1, <2>2, <2>3, <2>4 DEF AppStep
<1>2. ASSUME NEW c \in Commands, CommandStep(c) PROVE Resumable'
  BY <1>0, <1>2 DEF CommandStep, StartCommand, EndCommand, ParseCommand, CommandWrites, Files,
                    CommandPaths
<1>3. ASSUME NEW r \in Reports, ReportStep(r) PROVE Resumable'
  BY <1>0, <1>3 DEF ReportStep, OpenReport, ReportWrites, Files
<1>4. ASSUME NEW d \in Directories, CreateStop(d) PROVE Resumable'
  BY <1>4 DEF CreateStop
<1>5. CASE UNCHANGED vars
  BY <1>5 DEF vars
<1> QED
  BY <1>1, <1>2, <1>3, <1>4, <1>5, StepCases

\* Files only grow: a copy fills an absent file, a writer adds a record.
LEMMA DiskGrows ==
  ASSUME TypeOK, CommandPaths, [Next]_vars
  PROVE  \A d \in Directories, f \in Files : disk[d][f] \subseteq disk'[d][f]
<1> USE MigrationAssumption DEF TypeOK
<1>1. ASSUME NEW e \in Directories, NEW g \in Files, NEW content,
             disk' = [disk EXCEPT ![e][g] = content], disk[e][g] \subseteq content
      PROVE  \A d \in Directories, f \in Files : disk[d][f] \subseteq disk'[d][f]
  <2>1. \A d \in Directories, f \in Files :
           disk'[d][f] = IF d = e /\ f = g THEN content ELSE disk[d][f]
    BY <1>1 DEF Contents
  <2> QED
    BY <1>1, <2>1
<1>2. ASSUME NEW e \in Directories, NEW g \in Files, WriteTo(e, g)
      PROVE  \A d \in Directories, f \in Files : disk[d][f] \subseteq disk'[d][f]
  <2>1. disk' = [disk EXCEPT ![e][g] = disk[e][g] \cup {NextRecord}]
    BY <1>2 DEF WriteTo
  <2> QED
    BY <1>1, <2>1
<1>3. CASE UNCHANGED disk
  BY <1>3
<1>4. ASSUME NEW a \in Apps, NEW f \in Files, CopyFile(a, f)
      PROVE  \A d \in Directories, g \in Files : disk[d][g] \subseteq disk'[d][g]
  BY <1>1, <1>4 DEF CopyFile
<1>5. ASSUME NEW c \in Commands, NEW f \in Ledgers, CommandWrites(c, f)
      PROVE  \A d \in Directories, g \in Files : disk[d][g] \subseteq disk'[d][g]
  BY <1>2, <1>5 DEF CommandWrites, CommandPaths, Files
<1>6. ASSUME NEW r \in Reports, NEW f \in Ledgers, ReportWrites(r, f)
      PROVE  \A d \in Directories, g \in Files : disk[d][g] \subseteq disk'[d][g]
  BY <1>2, <1>6 DEF ReportWrites, Files
<1>7. ASSUME NEW e \in Directories, CreateStop(e)
      PROVE  \A d \in Directories, g \in Files : disk[d][g] \subseteq disk'[d][g]
  BY <1>1, <1>7 DEF CreateStop, Files
<1>8. \/ UNCHANGED disk
      \/ \E a \in Apps, f \in Files : CopyFile(a, f)
      \/ \E c \in Commands, f \in Ledgers : CommandWrites(c, f)
      \/ \E r \in Reports, f \in Ledgers : ReportWrites(r, f)
      \/ \E e \in Directories : CreateStop(e)
  BY DEF Next, vars, EnsureIfNeeded, Lock, Redirected, Inspect, WriteCheckpoint, Verify, Commit,
         Abort, StartCommand, EndCommand, ParseCommand, OpenReport
<1> QED
  BY <1>3, <1>4, <1>5, <1>6, <1>7, <1>8

\* Records are written where the path leads, and only there.
LEMMA WrittenStep ==
  ASSUME TypeOK, CommandPaths, [Next]_vars
  PROVE  \/ UNCHANGED written
         \/ \E c \in Commands : \E f \in Ledgers :
               /\ CommandWrites(c, f)
               /\ \A d \in Directories \ {command[c].path} : written'[d] = written[d]
               /\ written'[command[c].path] = written[command[c].path] \cup {NextRecord}
               /\ \E g \in Files : NextRecord \in disk'[command[c].journal][g]
         \/ \E e \in Directories :
               /\ CreateStop(e) /\ Resolve(e) = e
               /\ \A a \in Apps : ~(Source[a] = e /\ At(a, "commit"))
               /\ \A d \in Directories \ {e} : written'[d] = written[d]
               /\ written'[e] = written[e] \cup {NextRecord}
               /\ \E g \in Files : NextRecord \in disk'[e][g]
<1> USE MigrationAssumption DEF TypeOK, Contents
<1>1. ASSUME NEW c \in Commands, NEW f \in Ledgers, CommandWrites(c, f)
      PROVE  /\ \A d \in Directories \ {command[c].path} : written'[d] = written[d]
             /\ written'[command[c].path] = written[command[c].path] \cup {NextRecord}
             /\ \E g \in Files : NextRecord \in disk'[command[c].journal][g]
  <2>1. command[c].journal \in Directories /\ command[c].path \in Directories /\ f \in Files
    BY <1>1 DEF CommandWrites, CommandPaths, Files
  <2>2. NextRecord \in disk'[command[c].journal][f]
    BY <1>1, <2>1 DEF CommandWrites, WriteTo
  <2> QED
    BY <1>1, <2>1, <2>2 DEF CommandWrites
<1>2. ASSUME NEW e \in Directories, CreateStop(e), ~UNCHANGED written
      PROVE  /\ Resolve(e) = e
             /\ \A a \in Apps : ~(Source[a] = e /\ At(a, "commit"))
             /\ \A d \in Directories \ {e} : written'[d] = written[d]
             /\ written'[e] = written[e] \cup {NextRecord}
             /\ \E g \in Files : NextRecord \in disk'[e][g]
  <2>1. Resolve(e) = e
    BY <1>2, HopsType DEF CreateStop, RedirectType
  <2>2. Stop \in Files /\ NextRecord \in disk'[e][Stop]
    BY <1>2 DEF CreateStop, Files
  <2> QED
    BY <1>2, <2>1, <2>2 DEF CreateStop
<1>3. \/ UNCHANGED written
      \/ \E c \in Commands, f \in Ledgers : CommandWrites(c, f)
      \/ \E e \in Directories : CreateStop(e)
  BY DEF Next, vars, EnsureIfNeeded, Lock, Redirected, Inspect, WriteCheckpoint, Verify, Commit,
         Abort, CopyFile, StartCommand, EndCommand, ParseCommand, OpenReport, ReportWrites
<1> QED
  BY <1>1, <1>2, <1>3

\* What the inventory promises still holds when the redirect is written.
LEMMA CopiedStep ==
  ASSUME TypeOK, LocksHeld, CommandPaths, Copied, NoRecordLost, [Next]_vars
  PROVE  Copied'
<1> SUFFICES ASSUME NEW a \in Apps, app'[a].at = "commit"
             PROVE  /\ \A f \in Files : app'[a].inventory[f] \subseteq disk'[Target[a]][f]
                    /\ \A d \in Directories : Resolve(d)' = Source[a] =>
                          written'[d] \subseteq UNION {app'[a].inventory[f] : f \in Files}
  BY DEF Copied
<1>0. Source[a] \in Directories /\ Target[a] \in Directories /\ Source[a] # Refused
  BY MigrationAssumption
<1>1. CASE Verify(a)
  <2>1. UNCHANGED <<disk, written, redirect>> /\ app'[a].inventory = app[a].inventory
    BY <1>1 DEF Verify, Goto, TypeOK
  <2>2. disk[Source[a]] = app[a].inventory /\ disk[Target[a]] = app[a].inventory
    BY <1>1 DEF Verify
  <2>3. \A d \in Directories : Resolve(d)' = Source[a] => written[d] \subseteq RecordsIn(Source[a])
    BY <1>0, <2>1, ResolveStays DEF NoRecordLost
  <2> QED
    BY <2>1, <2>2, <2>3 DEF RecordsIn
<1>2. CASE ~Verify(a)
  <2>1. app[a].at = "commit" /\ app'[a] = app[a]
    <3>1. ASSUME NEW b \in Apps, AppStep(b), b # a PROVE app'[a] = app[a]
      BY <3>1 DEF AppStep, TypeOK, Goto, Leave, EnsureIfNeeded, Lock, Redirected, Inspect,
                  WriteCheckpoint, Verify, Commit, Abort, CopyFile
    <3>2. ASSUME AppStep(a) PROVE app' = app
      BY <1>2, <3>2 DEF AppStep, TypeOK, At, Goto, Leave, EnsureIfNeeded, Lock, Redirected,
                        Inspect, WriteCheckpoint, Commit, Abort, CopyFile
    <3>3. app'[a] = app[a]
      BY <3>1, <3>2, StepCases DEF CommandStep, ReportStep, vars, StartCommand, EndCommand,
         ParseCommand, CommandWrites, OpenReport, ReportWrites, CreateStop
    <3> QED
      BY <3>3
  <2>2. userLock = a
    BY <2>1 DEF LocksHeld, Holding, UnderLock
  <2>3. ~ \E b \in Apps : Commit(b)
    <3>1. SUFFICES ASSUME NEW b \in Apps, Commit(b) PROVE FALSE
      OBVIOUS
    <3>2. b = a
      BY <2>2, <3>1 DEF Commit, At, LocksHeld, Holding, UnderLock
    <3> QED
      BY <1>2, <2>1, <3>1, <3>2 DEF Commit, Leave, TypeOK
  <2>4. \A d : Resolve(d)' = Resolve(d)
    BY <2>3, RedirectStep, ResolveStays
  <2>5. \A c \in Commands : command[c].at # "running"
    BY <2>2, MigrationAssumption DEF LocksHeld
  <2>6. \A d \in Directories : Resolve(d) = Source[a] => written'[d] = written[d]
    BY <2>1, <2>5, WrittenStep DEF CommandWrites, At
  <2>7. \A f \in Files : app[a].inventory[f] \subseteq disk'[Target[a]][f]
    BY <1>0, <2>1, DiskGrows DEF Copied
  <2> QED
    BY <2>1, <2>4, <2>6, <2>7 DEF Copied
<1> QED
  BY <1>1, <1>2

\* A record is found where its path leads after the step as before it.
LEMMA RecordsStep ==
  ASSUME TypeOK, LocksHeld, Canonical, CommandPaths, Copied, NoRecordLost, [Next]_vars
  PROVE  NoRecordLost'
<1>0. ASSUME NEW d \in Directories PROVE Resolve(d)' \in Directories \cup {Refused}
  <2>1. RedirectType'
    BY TypeStep DEF TypeOK, RedirectType
  <2>2. \A e \in Directories : NextHop(e)' \in Directories
    BY <2>1 DEF RedirectType, NextHop
  <2>3. Hop4(d)' \in Directories
    BY <2>2 DEF Hop1, Hop2, Hop3, Hop4
  <2> QED
    BY <2>3, ResolveIsHop4Next
<1> SUFFICES ASSUME NEW d \in Directories, NEW r \in Directories, Resolve(d)' = r, r # Refused
             PROVE  written'[d] \subseteq RecordsIn(r)'
  BY <1>0 DEF NoRecordLost
<1>1. ASSUME NEW e \in Directories PROVE RecordsIn(e) \subseteq RecordsIn(e)'
  BY DiskGrows DEF RecordsIn
<1>2. CASE UNCHANGED redirect
  <2>1. Resolve(d) = r
    BY <1>2, ResolveStays
  <2>2. written[d] \subseteq RecordsIn(r)'
    BY <1>1, <2>1 DEF NoRecordLost
  <2>3. CASE UNCHANGED written
    BY <2>2, <2>3
  <2>4. ASSUME NEW c \in Commands, NEW f \in Ledgers, CommandWrites(c, f),
               \A e \in Directories \ {command[c].path} : written'[e] = written[e],
               written'[command[c].path] = written[command[c].path] \cup {NextRecord},
               \E g \in Files : NextRecord \in disk'[command[c].journal][g]
        PROVE  written'[d] \subseteq RecordsIn(r)'
    <3>1. d = command[c].path => r = command[c].journal
      BY <2>1, <2>4 DEF CommandWrites, CommandPaths
    <3> QED
      BY <2>2, <2>4, <3>1 DEF RecordsIn
  <2>5. ASSUME NEW e \in Directories, Resolve(e) = e,
               \A g \in Directories \ {e} : written'[g] = written[g],
               written'[e] = written[e] \cup {NextRecord},
               \E g \in Files : NextRecord \in disk'[e][g]
        PROVE  written'[d] \subseteq RecordsIn(r)'
    BY <2>1, <2>2, <2>5 DEF RecordsIn
  <2> QED
    BY <2>3, <2>4, <2>5, WrittenStep
<1>3. ASSUME NEW a \in Apps, Commit(a) PROVE written'[d] \subseteq RecordsIn(r)'
  <2>1. UNCHANGED <<written, disk>> /\ app[a].at = "commit"
    BY <1>3 DEF Commit, At
  <2>2. Source[a] \in Directories /\ Target[a] \in Directories /\ Source[a] # Refused
    BY MigrationAssumption
  <2>3. r = IF Resolve(d) = Source[a] THEN Target[a] ELSE Resolve(d)
    BY <1>3, CommitMoves
  <2>4. CASE Resolve(d) = Source[a]
    <3>1. written[d] \subseteq UNION {app[a].inventory[f] : f \in Files}
      BY <2>1, <2>4 DEF Copied
    <3>2. UNION {app[a].inventory[f] : f \in Files} \subseteq RecordsIn(r)
      BY <2>1, <2>3, <2>4 DEF Copied, RecordsIn
    <3> QED
      BY <1>1, <2>1, <3>1, <3>2
  <2>5. CASE Resolve(d) # Source[a]
    BY <1>1, <2>1, <2>3, <2>5 DEF NoRecordLost
  <2> QED
    BY <2>4, <2>5
<1> QED
  BY <1>2, <1>3, RedirectStep

\* A new redirect leaves the source above the target, which redirects nowhere.
LEMMA RankedStep ==
  ASSUME TypeOK, Canonical, Ranked, [Next]_vars
  PROVE  Ranked'
<1>1. CASE UNCHANGED redirect
  BY <1>1 DEF Ranked
<1>2. ASSUME NEW a \in Apps, Commit(a) PROVE Ranked'
  <2> DEFINE s == Source[a]
             t == Target[a]
  <2>1. /\ s \in Directories /\ t \in Directories /\ s # t /\ t # None
        /\ redirect[t] = None /\ redirect' = [redirect EXCEPT ![s] = t]
    BY <1>2, MigrationAssumption DEF Canonical, Holding, UnderLock, Commit, At
  <2>2. PICK rank \in [Directories -> Nat] :
          \A d \in Directories : redirect[d] # None => rank[redirect[d]] < rank[d]
    BY DEF Ranked
  <2> DEFINE new == [d \in Directories |-> IF d = t THEN 0 ELSE rank[d] + 1]
  <2>3. new \in [Directories -> Nat]
    OBVIOUS
  <2>4. \A d \in Directories : redirect'[d] # None => new[redirect'[d]] < new[d]
    <3> SUFFICES ASSUME NEW d \in Directories, redirect'[d] # None
                 PROVE  new[redirect'[d]] < new[d]
      OBVIOUS
    <3>1. d # t /\ new[d] = rank[d] + 1 /\ redirect'[d] \in Directories
      BY <2>1 DEF TypeOK
    <3>2. CASE redirect'[d] = t
      BY <3>1, <3>2
    <3>3. CASE redirect'[d] # t
      <4>1. redirect'[d] = redirect[d] /\ new[redirect[d]] = rank[redirect[d]] + 1
        BY <2>1, <3>1, <3>3 DEF TypeOK
      <4>2. rank[redirect[d]] < rank[d]
        BY <2>2, <4>1
      <4> QED
        BY <3>1, <4>1, <4>2
    <3> QED
      BY <3>2, <3>3
  <2> QED
    BY <2>3, <2>4 DEF Ranked
<1> QED
  BY <1>1, <1>2, RedirectStep

LEMMA MigrationInvariant == Spec => [](MigrationInv /\ Ranked)
<1>1. MigrationInv /\ Ranked /\ [Next]_vars => (MigrationInv /\ Ranked)'
  BY TypeStep, LocksStep, PathsStep, ResumableStep, CopiedStep, RecordsStep, RankedStep
     DEF MigrationInv
<1> QED
  BY InitMigration, <1>1, PTL DEF Spec

-----------------------------------------------------------------------------
(* The theorems                                                            *)

\* The variables keep their types, however many directories, applications and
\* commands there are (runtime_paths.py).
THEOREM MigrationTypeCorrect == Spec => []TypeOK
<1>1. MigrationInv => TypeOK
  BY DEF MigrationInv
<1> QED
  BY <1>1, MigrationInvariant, PTL

\* No journal is left behind by a migration that is interrupted, repeated or
\* raced by commands: what was recorded through a path is where the path leads
\* (runtime_paths.py 201-267, cli.py 393).
THEOREM RecordsSurvive == Spec => []NoRecordLost
<1>1. MigrationInv => NoRecordLost
  BY DEF MigrationInv
<1> QED
  BY <1>1, MigrationInvariant, PTL

\* An interrupted copy of an unchanged source meets no conflict when it is
\* resumed (runtime_paths.py 204-206, 237-260).
THEOREM CopyResumes == Spec => []ResumesUnchanged
<1>1. MigrationInv => ResumesUnchanged
  <2> SUFFICES ASSUME MigrationInv, NEW a \in Apps,
                      checkpoint[Target[a]] = [source |-> Source[a], files |-> disk[Source[a]]],
                      Target[a] \notin touched
               PROVE  ~Conflicts(disk[Source[a]], Target[a])
    BY DEF ResumesUnchanged
  <2>1. Source[a] \in Directories /\ Target[a] \in Directories
    BY MigrationAssumption
  <2>2. checkpoint[Target[a]] \in Checkpoints /\ checkpoint[Target[a]].files = disk[Source[a]]
    BY <2>1 DEF MigrationInv, TypeOK, Checkpoints
  <2> QED
    BY <2>1, <2>2, MigrationAssumption DEF MigrationInv, Resumable, PartOf, Conflicts
<1> QED
  BY <1>1, MigrationInvariant, PTL

\* No redirect closes a cycle, in whatever directions and however often the
\* applications migrate (runtime_paths.py 217).
THEOREM NoRedirectCycle == Spec => []Ranked
BY MigrationInvariant, PTL

\* A path is refused only when six directories are in one chain.
LEMMA RefusedNeedsSix ==
  ASSUME RedirectType, Ranked, NEW d \in Directories, Resolve(d) = Refused,
         IsFiniteSet(Directories)
  PROVE  Cardinality(Directories) >= 6
<1> DEFINE h5 == NextHop(Hop4(d))
<1>1. Chain(d) \subseteq Directories
  BY HopsType
<1>2. redirect[Hop4(d)] # None
  BY <1>1, ResolveIsHop4, MigrationAssumption DEF Chain
<1>3. /\ redirect[d] # None /\ redirect[Hop1(d)] # None
      /\ redirect[Hop2(d)] # None /\ redirect[Hop3(d)] # None
  BY <1>2 DEF Hop1, Hop2, Hop3, Hop4, NextHop
<1>4. PICK rank \in [Directories -> Nat] :
        \A e \in Directories : redirect[e] # None => rank[redirect[e]] < rank[e]
  BY DEF Ranked
<1>5. /\ Hop1(d) = redirect[d] /\ Hop2(d) = redirect[Hop1(d)] /\ Hop3(d) = redirect[Hop2(d)]
      /\ Hop4(d) = redirect[Hop3(d)] /\ h5 = redirect[Hop4(d)]
  BY <1>2, <1>3 DEF Hop1, Hop2, Hop3, Hop4, NextHop
<1>6. h5 \in Directories
  BY <1>1, <1>2, <1>5 DEF RedirectType, Chain
<1> HIDE DEF h5
<1>7. /\ rank[h5] < rank[Hop4(d)] /\ rank[Hop4(d)] < rank[Hop3(d)]
      /\ rank[Hop3(d)] < rank[Hop2(d)] /\ rank[Hop2(d)] < rank[Hop1(d)]
      /\ rank[Hop1(d)] < rank[d]
  BY <1>1, <1>2, <1>3, <1>4, <1>5 DEF Chain
<1>8. \A e \in Chain(d) \cup {h5} : rank[e] \in Nat
  BY <1>1, <1>4, <1>6
<1>9. Cardinality({h5, Hop4(d), Hop3(d), Hop2(d), Hop1(d), d}) = 6
  <2> DEFINE S1 == {h5}
             S2 == S1 \cup {Hop4(d)}
             S3 == S2 \cup {Hop3(d)}
             S4 == S3 \cup {Hop2(d)}
             S5 == S4 \cup {Hop1(d)}
             S6 == S5 \cup {d}
  <2>1. IsFiniteSet(S1) /\ Cardinality(S1) = 1
    BY FS_Singleton
  <2>2. Hop4(d) \notin S1 /\ Hop3(d) \notin S2 /\ Hop2(d) \notin S3 /\ Hop1(d) \notin S4 /\ d \notin S5
    BY <1>7, <1>8 DEF Chain
  <2>3. S6 = {h5, Hop4(d), Hop3(d), Hop2(d), Hop1(d), d}
    OBVIOUS
  <2> HIDE DEF S1, S2, S3, S4, S5, S6
  <2>4. IsFiniteSet(S2) /\ Cardinality(S2) = 2
    BY <2>1, <2>2, FS_AddElement DEF S2
  <2>5. IsFiniteSet(S3) /\ Cardinality(S3) = 3
    BY <2>2, <2>4, FS_AddElement DEF S3
  <2>6. IsFiniteSet(S4) /\ Cardinality(S4) = 4
    BY <2>2, <2>5, FS_AddElement DEF S4
  <2>7. IsFiniteSet(S5) /\ Cardinality(S5) = 5
    BY <2>2, <2>6, FS_AddElement DEF S5
  <2>8. IsFiniteSet(S6) /\ Cardinality(S6) = 6
    BY <2>2, <2>7, FS_AddElement DEF S6
  <2> QED
    BY <2>3, <2>8
<1>10. {h5, Hop4(d), Hop3(d), Hop2(d), Hop1(d), d} \subseteq Directories
  BY <1>1, <1>6 DEF Chain
<1> QED
  BY <1>9, <1>10, FS_Subset, FS_CardinalityType

\* With at most five directories every path always resolves
\* (runtime_paths.py 96-121, 217).
THEOREM FiveDirectoriesResolve ==
  ASSUME IsFiniteSet(Directories), Cardinality(Directories) <= 5
  PROVE  Spec => []Resolvable
<1>1. Cardinality(Directories) \in Nat
  BY FS_CardinalityType
<1>2. MigrationInv /\ Ranked => Resolvable
  BY <1>1, RefusedNeedsSix DEF MigrationInv, TypeOK, RedirectType, Resolvable
<1> QED
  BY <1>2, MigrationInvariant, PTL
=============================================================================
