-------------------------- MODULE RuntimeMigration --------------------------
(***************************************************************************)
(* The move of a journal to the user-local runtime directory               *)
(* (trading_bot/runtime_paths.py, PaperApplication.ensure_runtime of       *)
(* paper_app.py, the journal of a command in cli.py).                      *)
(*                                                                         *)
(* An application is started for a project, whose `var` is its source, and *)
(* a runtime directory, its target (--project-dir, --runtime-dir).  Unless *)
(* the target has a checkpoint it copies the source there, file by file,   *)
(* and commits with a redirect in the source.  Commands of the terminal    *)
(* follow redirects: a submitting one holds the user-wide lock and the     *)
(* execution lock of its journal; a report holds the journal's state lock  *)
(* only while it writes; a person creates STOP files with no lock at all.  *)
(*                                                                         *)
(* The content of a file is the set of records written to it; a file       *)
(* without records is absent.                                              *)
(***************************************************************************)
EXTENDS Naturals, FiniteSets

CONSTANTS Directories, \* the project's var directories and runtime directories
          Apps,        \* applications, by their project and runtime directory
          Source, Target,
          Commands,    \* commands of the terminal that submit orders
          Reports,     \* commands that synchronize the journal but submit nothing
          Ledgers,     \* the files written under the state lock
          MaxRecords,  \* bound: records ever written
          None

Stop  == "STOP"
Files == Ledgers \cup {Stop}
Hops  == 4    \* _MAX_REDIRECTS
Refused == "refused"    \* no directory: the resolution raises
Records  == 1..MaxRecords
Contents == [Files -> SUBSET Records]
Checkpoints == [source : Directories, files : Contents]

ASSUME MigrationAssumption ==
    /\ Source \in [Apps -> Directories] /\ Target \in [Apps -> Directories]
    /\ \A a \in Apps : Source[a] # Target[a]
    /\ MaxRecords \in Nat /\ None \notin Directories \cup Apps \cup Commands \cup Checkpoints
    /\ Apps \cap Commands = {} /\ Stop \notin Ledgers /\ Refused \notin Directories

VARIABLES
    disk,        \* [Directories -> [Files -> the records in that file]]
    redirect,    \* [Directories -> .runtime_redirect.json]
    checkpoint,  \* [Directories -> .runtime_migration.json]
    userLock,    \* paper-execution, across all journals
    execution,   \* [Directories -> holder of the execution lock]
    app,         \* [Apps -> [at, inventory]]
    command,     \* [Commands -> [at, path, dir, journal]]
    report,      \* [Reports -> the journal it opened]
    written,     \* history: the records of each path, by submitting commands and STOPs
    touched      \* history: directories written since their migration's inventory

vars == <<disk, redirect, checkpoint, userLock, execution, app, command, report,
          written, touched>>

Empty    == [f \in Files |-> {}]
AppSteps == {"idle", "locked", "checkpoint", "copy", "commit", "ready"}
UnderLock == {"locked", "checkpoint", "copy", "commit"}

NextHop(d) == IF redirect[d] = None THEN d ELSE redirect[d]

\* resolve_journal_directory: at most four redirects, so no cycle is followed.
Resolve(d) ==
    LET hop[n \in 0..Hops] == IF n = 0 THEN d ELSE NextHop(hop[n - 1])
    IN  IF redirect[hop[Hops]] = None THEN hop[Hops] ELSE Refused

Init ==
    /\ disk = [d \in Directories |-> Empty]
    /\ redirect = [d \in Directories |-> None]
    /\ checkpoint = [d \in Directories |-> None]
    /\ userLock = None
    /\ execution = [d \in Directories |-> None]
    /\ app = [a \in Apps |-> [at |-> "idle", inventory |-> Empty]]
    /\ command = [c \in Commands |->
                     [at |-> "off", path |-> None, dir |-> None, journal |-> None]]
    /\ report = [r \in Reports |-> None]
    /\ written = [d \in Directories |-> {}]
    /\ touched = {}

NextRecord == Cardinality(UNION {disk[d][f] : d \in Directories, f \in Files}) + 1

\* The state lock of a directory is held across steps by a migration only.
Migrating(d) == \E a \in Apps : app[a].at \in UnderLock /\ d \in {Source[a], Target[a]}

-----------------------------------------------------------------------------
At(a, step)   == app[a].at = step
Goto(a, step) == app' = [app EXCEPT ![a] = [@ EXCEPT !.at = step]]
Leave(a, step) == app' = [app EXCEPT ![a] = [at |-> step, inventory |-> Empty]]

NoLocks(a) ==
    /\ userLock' = IF userLock = a THEN None ELSE userLock
    /\ execution' = [d \in Directories |-> IF execution[d] = a THEN None ELSE execution[d]]

\* The guard of every caller: a checkpoint is taken for a migration that is
\* done.  One that saw none goes on with ensure_runtime, at any later time.
EnsureIfNeeded(a) ==
    /\ At(a, "idle")
    /\ checkpoint[Target[a]] # None
    /\ Goto(a, "ready")
    /\ UNCHANGED <<disk, redirect, checkpoint, userLock, execution, command, report,
                   written, touched>>

\* Mutant: a target that redirects elsewhere is accepted.
TargetIsCanonical_Unchecked(a) == TRUE

TargetIsCanonical(a) == Resolve(Target[a]) = Target[a]

\* ensure_runtime and prepare_paper_runtime up to the journals' locks; nothing
\* is waited for.
Lock(a) ==
    /\ At(a, "idle")
    /\ userLock = None
    /\ redirect[Source[a]] = None
    /\ TargetIsCanonical(a)
    /\ \A d \in {Source[a], Target[a]} : execution[d] = None
    /\ userLock' = a
    /\ execution' = [d \in Directories |->
                        IF d \in {Source[a], Target[a]} THEN a ELSE execution[d]]
    /\ Goto(a, "locked")
    /\ UNCHANGED <<disk, redirect, checkpoint, command, report, written, touched>>

\* The source is redirected already: no lock is needed with a checkpoint, and
\* none is kept without.
Redirected(a) ==
    /\ At(a, "idle")
    /\ checkpoint[Target[a]] # None \/ userLock = None
    /\ redirect[Source[a]] # None
    /\ Resolve(Source[a]) = Target[a]
    /\ Goto(a, "ready")
    /\ UNCHANGED <<disk, redirect, checkpoint, userLock, execution, command, report,
                   written, touched>>

\* No file of the target differs from the inventory.
Conflicts(inventory, t) == \E f \in Files : disk[t][f] \notin {{}, inventory[f]}

Matches(a, inventory) ==
    checkpoint[Target[a]] \in {None, [source |-> Source[a], files |-> inventory]}

Inspect(a) ==
    /\ At(a, "locked")
    /\ LET inventory == disk[Source[a]] IN
       /\ ~Conflicts(inventory, Target[a])
       /\ Matches(a, inventory)
       /\ app' = [app EXCEPT ![a] = [inventory |-> inventory,
              at |-> IF checkpoint[Target[a]] = None THEN "checkpoint" ELSE "copy"]]
    /\ touched' = touched \ {Target[a]}
    /\ UNCHANGED <<disk, redirect, checkpoint, userLock, execution, command, report, written>>

WriteCheckpoint(a) ==
    /\ At(a, "checkpoint")
    /\ checkpoint' = [checkpoint EXCEPT
           ![Target[a]] = [source |-> Source[a], files |-> app[a].inventory]]
    /\ Goto(a, "copy")
    /\ UNCHANGED <<disk, redirect, userLock, execution, command, report, written, touched>>

\* Mutant: the file is written in place, so that a crash leaves a part of it.
Copies_InPlace(a, f) == SUBSET app[a].inventory[f]

\* What one copy leaves in the target: a temporary file is verified, then it
\* replaces the name.
Copies(a, f) == {app[a].inventory[f]}

\* _copy_verified, for the files in any order.
CopyFile(a, f) ==
    /\ At(a, "copy")
    /\ disk[Source[a]][f] = app[a].inventory[f]
    /\ disk[Target[a]][f] = {} /\ app[a].inventory[f] # {}
    /\ \E content \in Copies(a, f) : disk' = [disk EXCEPT ![Target[a]][f] = content]
    /\ UNCHANGED <<redirect, checkpoint, userLock, execution, app, command, report,
                   written, touched>>

\* Both directories are read again before the commit.
Verify(a) ==
    /\ At(a, "copy")
    /\ disk[Source[a]] = app[a].inventory
    /\ disk[Target[a]] = app[a].inventory
    /\ Goto(a, "commit")
    /\ UNCHANGED <<disk, redirect, checkpoint, userLock, execution, command, report,
                   written, touched>>

Commit(a) ==
    /\ At(a, "commit")
    /\ redirect' = [redirect EXCEPT ![Source[a]] = Target[a]]
    /\ Leave(a, "ready")
    /\ NoLocks(a)
    /\ UNCHANGED <<disk, checkpoint, command, report, written, touched>>

\* A check raises, a lock is taken, or the process is killed, at any step; an
\* application that is ready ends.
Abort(a) ==
    /\ ~At(a, "idle")
    /\ Leave(a, "idle")
    /\ NoLocks(a)
    /\ UNCHANGED <<disk, redirect, checkpoint, command, report, written, touched>>

-----------------------------------------------------------------------------
\* main resolves --journal-dir before it takes a lock.
ParseCommand(c, p) ==
    /\ command[c].at = "off"
    /\ Resolve(p) # Refused
    /\ command' = [command EXCEPT
           ![c] = [at |-> "parsed", path |-> p, dir |-> Resolve(p), journal |-> None]]
    /\ UNCHANGED <<disk, redirect, checkpoint, userLock, execution, app, report,
                   written, touched>>

\* Mutant: the handler keeps the directory that was resolved before the locks.
JournalOf_Parsed(d) == d

\* TradeJournal resolves again when the handler opens it, under the locks.
JournalOf(d) == Resolve(d)

StartCommand(c) ==
    /\ command[c].at = "parsed"
    /\ userLock = None
    /\ execution[command[c].dir] = None
    /\ JournalOf(command[c].dir) # Refused
    /\ userLock' = c
    /\ execution' = [execution EXCEPT ![command[c].dir] = c]
    /\ command' = [command EXCEPT
           ![c].at = "running", ![c].journal = JournalOf(command[c].dir)]
    /\ UNCHANGED <<disk, redirect, checkpoint, app, report, written, touched>>

\* A method of the journal writes a file under its state lock.
WriteTo(d, f) ==
    /\ ~Migrating(d)
    /\ NextRecord \in Records
    /\ disk' = [disk EXCEPT ![d][f] = @ \cup {NextRecord}]
    /\ touched' = touched \cup {d}

CommandWrites(c, f) ==
    /\ command[c].at = "running"
    /\ WriteTo(command[c].journal, f)
    /\ written' = [written EXCEPT ![command[c].path] = @ \cup {NextRecord}]
    /\ UNCHANGED <<redirect, checkpoint, userLock, execution, app, command, report>>

\* It returns, raises or is killed, or it never gets its locks.
EndCommand(c) ==
    /\ command[c].at # "off"
    /\ command' = [command EXCEPT
           ![c] = [at |-> "off", path |-> None, dir |-> None, journal |-> None]]
    /\ NoLocks(c)
    /\ UNCHANGED <<disk, redirect, checkpoint, app, report, written, touched>>

\* alpaca-status, daily-report and refresh_broker import executions that the
\* broker can report again.
OpenReport(r, p) ==
    /\ report[r] = None
    /\ Resolve(p) # Refused
    /\ report' = [report EXCEPT ![r] = Resolve(p)]
    /\ UNCHANGED <<disk, redirect, checkpoint, userLock, execution, app, command,
                   written, touched>>

ReportWrites(r, f) ==
    /\ report[r] # None
    /\ WriteTo(report[r], f)
    /\ report' = [report EXCEPT ![r] = None]
    /\ UNCHANGED <<redirect, checkpoint, userLock, execution, app, command, written>>

\* A person creates STOP in a directory that is not redirected yet.  One that
\* appears between the second inventory and the redirect stays behind.
CreateStop(d) ==
    /\ redirect[d] = None
    /\ NextRecord \in Records
    /\ disk' = [disk EXCEPT ![d][Stop] = {NextRecord}]
    /\ disk[d][Stop] = {}
    /\ written' = IF \E a \in Apps : Source[a] = d /\ At(a, "commit")
                  THEN written
                  ELSE [written EXCEPT ![d] = @ \cup {NextRecord}]
    /\ touched' = touched \cup {d}
    /\ UNCHANGED <<redirect, checkpoint, userLock, execution, app, command, report>>

Next ==
    \/ \E a \in Apps :
          \/ EnsureIfNeeded(a) \/ Lock(a) \/ Redirected(a)
          \/ Inspect(a) \/ WriteCheckpoint(a) \/ Verify(a) \/ Commit(a) \/ Abort(a)
          \/ \E f \in Files : CopyFile(a, f)
    \/ \E c \in Commands :
          \/ StartCommand(c) \/ EndCommand(c)
          \/ \E d \in Directories : ParseCommand(c, d)
          \/ \E f \in Ledgers : CommandWrites(c, f)
    \/ \E r \in Reports :
          \/ \E d \in Directories : OpenReport(r, d)
          \/ \E f \in Ledgers : ReportWrites(r, f)
    \/ \E d \in Directories : CreateStop(d)

Spec == Init /\ [][Next]_vars

-----------------------------------------------------------------------------
TypeOK ==
    /\ disk \in [Directories -> Contents]
    /\ redirect \in [Directories -> Directories \cup {None}]
    /\ checkpoint \in [Directories -> {None} \cup Checkpoints]
    /\ userLock \in Apps \cup Commands \cup {None}
    /\ execution \in [Directories -> Apps \cup Commands \cup {None}]
    /\ app \in [Apps -> [at : AppSteps, inventory : Contents]]
    /\ command \in [Commands -> [at : {"off", "parsed", "running"},
                                 path : Directories \cup {None},
                                 dir : Directories \cup {None},
                                 journal : Directories \cup {None}]]
    /\ report \in [Reports -> Directories \cup {None}]
    /\ written \in [Directories -> SUBSET Records]
    /\ touched \subseteq Directories

RecordsIn(d) == UNION {disk[d][f] : f \in Files}

(* Whatever a submitting command recorded through a path, and every STOP    *)
(* file that was there before the last inventory, is in the directory that  *)
(* every new command opens for that path: no journal is left behind by a    *)
(* migration, an interrupted one or one that races with commands.           *)
NoRecordLost ==
    \A d \in Directories : Resolve(d) # Refused => written[d] \subseteq RecordsIn(Resolve(d))

(* Every path still resolves, whatever migrations there are from and to at  *)
(* most five directories: no redirect closes a cycle, and a chain is never  *)
(* longer than the four hops that are followed.  With a sixth directory a   *)
(* chain can be: its migrations only look at their own target, and the      *)
(* first path is refused from then on.                                      *)
Resolvable == \A d \in Directories : Resolve(d) # Refused

(* An interrupted migration can resume: while the source still is what the  *)
(* checkpoint says and nobody else wrote to the target, a retry finds no    *)
(* conflict in the target ("An interrupted migration can resume only when   *)
(* its source inventory and completed copies still match").                 *)
ResumesUnchanged ==
    \A a \in Apps :
        LET s == Source[a]  t == Target[a] IN
        /\ checkpoint[t] = [source |-> s, files |-> disk[s]]
        /\ redirect[s] = None
        /\ t \notin touched
        => ~Conflicts(disk[s], t)

(* An application that is past ensure_runtime_if_needed works in the        *)
(* directory that the commands of its project open: "Existing `var` CLI     *)
(* paths redirect to the canonical runtime" (OPERATING_GUIDE.md:5).  This   *)
(* is NOT so after a kill between WriteCheckpoint and Commit: EnsureIfNeeded*)
(* takes the checkpoint for completion, and the copy is never resumed.  No  *)
(* run checks it.                                                           *)
AppUsesAuthority == \A a \in Apps : At(a, "ready") => Resolve(Source[a]) = Target[a]
=============================================================================
