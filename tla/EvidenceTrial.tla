--------------------------- MODULE EvidenceTrial ---------------------------
(***************************************************************************)
(* The append-only record of a frozen forward trial                        *)
(* (trading_bot/evidence_watch.py, with the collection of                  *)
(* evidence_update.py).                                                    *)
(*                                                                         *)
(* An update brings the complete prefix of a replay: the calendar, the     *)
(* rows of every cohort and session, and the session it is complete        *)
(* through.  It is compared with the snapshot HEAD.json names and written  *)
(* as a new immutable revision, a .json and a .csv file, before HEAD.json  *)
(* is replaced.  The lock forward-evidence is refused, not waited for, so  *)
(* at most one update is past it; the process may be killed while it       *)
(* writes, which leaves a torn file or an orphan.                          *)
(*                                                                         *)
(* A digest is modelled by what it digests: a revision's name is its       *)
(* content, and its parent the whole parent snapshot.  Of a row only its   *)
(* cumulative count of closed round trips is kept, or of its absence.      *)
(***************************************************************************)
EXTENDS Naturals, FiniteSetsExt

CONSTANTS Days,          \* market sessions are 1..Days; 1 is the first eligible one
          Cohorts,       \* the frozen budgets and scenarios, as numbers for their order
          MaxClosed,     \* bound: round trips closed
          Archives,      \* the archived files an update may name
          Specs,         \* registrations: rules and frozen artifacts
          MaxRevisions,  \* bound: revisions
          MaxFaults,     \* bound: updates that are interrupted
          None, Torn

ASSUME TrialAssumption ==
    /\ Days \in Nat \ {0} /\ Cohorts \subseteq Nat /\ Cohorts # {}
    /\ MaxClosed \in Nat /\ MaxRevisions \in Nat /\ MaxFaults \in Nat
    /\ None \notin Specs /\ Torn \notin Specs

VARIABLES
    registration,  \* registration.json
    changed,       \* a frozen artifact differs from its registered digest
    latest,        \* the last session that is complete at the market
    json, csv,     \* the whole files in revisions/
    torn,          \* the files in revisions/ that a crash left unfinished
    head,          \* HEAD.json: the snapshot it names
    update,        \* the update that holds the lock: its step and its snapshot
    faults         \* history: updates that were interrupted

files == <<json, csv, torn, head>>
vars  == <<registration, changed, latest, files, update, faults>>

Sessions == 1..Days
Keys     == Sessions \X Cohorts
NoUpdate == [at |-> "none", snapshot |-> None]

\* The order in which the rows are sorted.
Before(j, k) == j[1] < k[1] \/ (j[1] = k[1] /\ j[2] < k[2])

Init ==
    /\ registration = None
    /\ changed = FALSE
    /\ latest = 0
    /\ json = {} /\ csv = {} /\ torn = {}
    /\ head = None
    /\ update = NoUpdate
    /\ faults = 0

\* register: the same spec again is accepted, another one raises; a crash
\* leaves a file that no later process can read or replace.
Register(spec) ==
    /\ registration = None
    /\ registration' \in {spec, Torn}
    /\ UNCHANGED <<changed, latest, files, update, faults>>

\* Somebody edits a frozen file, or restores it.
EditFrozen ==
    /\ registration \in Specs
    /\ changed' = ~changed
    /\ UNCHANGED <<registration, latest, files, update, faults>>

CloseSession ==
    /\ latest < Days
    /\ latest' = latest + 1
    /\ UNCHANGED <<registration, changed, files, update, faults>>

-----------------------------------------------------------------------------
\* The prefixes that pass the checks made before the lock is taken: a calendar
\* from the first session on, rows of its sessions only, counts that do not
\* decrease within a cohort.
CountsAscend(rows) ==
    \A j, k \in DOMAIN rows : j[2] = k[2] /\ j[1] < k[1] => rows[j] <= rows[k]

Prefixes ==
    {p \in [completed : 1..latest, sessions : SUBSET (1..latest), archive : Archives,
            rows : UNION {[d -> 0..MaxClosed] : d \in SUBSET ((1..latest) \X Cohorts)}] :
        /\ 1 \in p.sessions /\ p.sessions \subseteq 1..p.completed
        /\ DOMAIN p.rows \subseteq p.sessions \X Cohorts
        /\ CountsAscend(p.rows)}

\* Mutant: only the order of the rows is checked, not that they are new sessions.
Extends_AnyDay(old, new) ==
    /\ \A k \in DOMAIN old.rows : k \in DOMAIN new.rows /\ new.rows[k] = old.rows[k]
    /\ \A k \in DOMAIN new.rows \ DOMAIN old.rows : \A j \in DOMAIN old.rows : Before(j, k)

\* The committed rows are the first of the new ones, and the others belong to
\* sessions after the committed prefix.
Extends(old, new) ==
    /\ \A k \in DOMAIN old.rows : k \in DOMAIN new.rows /\ new.rows[k] = old.rows[k]
    /\ \A k \in DOMAIN new.rows \ DOMAIN old.rows :
          k[1] > old.completed /\ \A j \in DOMAIN old.rows : Before(j, k)

CalendarExtends(old, new) ==
    /\ old.sessions \subseteq new.sessions
    /\ \A day \in new.sessions \ old.sessions : day > Max(old.sessions)

Continues(old, new) ==
    /\ new.completed >= old.completed
    /\ Extends(old, new)
    /\ CalendarExtends(old, new)

Unchanged(old, new) == \A f \in {"completed", "sessions", "archive", "rows"} : old[f] = new[f]

Revision(p) ==
    [revision  |-> IF head = None THEN 1 ELSE head.revision + 1, parent |-> head,
     completed |-> p.completed, sessions |-> p.sessions, archive |-> p.archive,
     rows      |-> p.rows]

\* _snapshot: the files of a revision are there and hold what its name says.
Readable(snapshot) == snapshot \in json \cap csv

\* update_prefix up to the files, under the lock; a prefix that is committed
\* already returns the status and changes nothing.
BeginUpdate(p) ==
    /\ update = NoUpdate
    /\ registration \in Specs
    /\ ~changed
    /\ head # None => Readable(head) /\ Continues(head, p) /\ ~Unchanged(head, p)
    /\ Revision(p).revision <= MaxRevisions
    /\ update' = [at |-> "json", snapshot |-> Revision(p)]
    /\ UNCHANGED <<registration, changed, latest, files, faults>>

\* Mutant: HEAD.json is replaced before the rows are written.
FileOrder_HeadEarly == [json |-> "head", head |-> "csv", csv |-> "none"]

\* The order in which an update writes its files.
FileOrder == [json |-> "csv", csv |-> "head", head |-> "none"]

NextFile ==
    update' = IF FileOrder[update.at] = "none" THEN NoUpdate
              ELSE [update EXCEPT !.at = FileOrder[update.at]]

\* _write_immutable: the file is new, or the same and whole; otherwise it raises.
WriteJson ==
    /\ update.at = "json"
    /\ <<update.snapshot, "json">> \notin torn
    /\ json' = json \cup {update.snapshot}
    /\ NextFile
    /\ UNCHANGED <<registration, changed, latest, csv, torn, head, faults>>

WriteCsv ==
    /\ update.at = "csv"
    /\ <<update.snapshot, "csv">> \notin torn
    /\ csv' = csv \cup {update.snapshot}
    /\ NextFile
    /\ UNCHANGED <<registration, changed, latest, json, torn, head, faults>>

ReplaceHead ==
    /\ update.at = "head"
    /\ head' = update.snapshot
    /\ NextFile
    /\ UNCHANGED <<registration, changed, latest, json, csv, torn, faults>>

\* The update raises or is killed between two writes, or in the middle of one.
Interrupt ==
    /\ update # NoUpdate
    /\ faults < MaxFaults
    /\ faults' = faults + 1
    /\ update' = NoUpdate

Between ==
    /\ Interrupt
    /\ UNCHANGED <<registration, changed, latest, files>>

Tear ==
    /\ Interrupt
    /\ update.at \in {"json", "csv"}
    /\ update.snapshot \notin (IF update.at = "json" THEN json ELSE csv)
    /\ torn' = torn \cup {<<update.snapshot, update.at>>}
    /\ UNCHANGED <<registration, changed, latest, json, csv, head>>

\* A torn file of the same name stops every retry.
Conflict ==
    /\ <<update.snapshot, update.at>> \in torn
    /\ update' = NoUpdate
    /\ UNCHANGED <<registration, changed, latest, files, faults>>

Next ==
    \/ \E spec \in Specs : Register(spec)
    \/ EditFrozen \/ CloseSession
    \/ \E p \in Prefixes : BeginUpdate(p)
    \/ WriteJson \/ WriteCsv \/ ReplaceHead \/ Between \/ Tear \/ Conflict

Spec == Init /\ [][Next]_vars

-----------------------------------------------------------------------------
TypeOK ==
    /\ registration \in Specs \cup {None, Torn}
    /\ changed \in BOOLEAN /\ latest \in 0..Days
    /\ update.at \in {"none", "json", "csv", "head"}
    /\ head = None \/ head.revision \in 1..MaxRevisions

\* status: the sessions of the calendar without a row of the cohort.
Gaps(snapshot, cohort) ==
    {day \in snapshot.sessions : <<day, cohort>> \notin DOMAIN snapshot.rows}

(* The past is settled: whatever later updates bring, no row of a session   *)
(* up to completed_through appears, disappears or changes, and a gap of a   *)
(* cohort that status() has reported is reported for ever ("Existing gaps   *)
(* cannot later be filled in place").                                       *)
SettledPast ==
    [][head # None /\ head' # head =>
           /\ \A k \in Keys : k[1] <= head.completed =>
                 /\ k \in DOMAIN head.rows <=> k \in DOMAIN head'.rows
                 /\ k \in DOMAIN head.rows => head'.rows[k] = head.rows[k]
           /\ \A c \in Cohorts : Gaps(head, c) \subseteq Gaps(head', c)]_vars

(* Whatever HEAD.json names, and every revision before it back to the       *)
(* first, is in whole files: a status read while an update writes, or after *)
(* one was killed, never fails its integrity checks, and the chain of       *)
(* parents never breaks.                                                    *)
HistoryRetrievable ==
    /\ head # None => Readable(head)
    /\ \A s \in json \cap csv : s.parent # None =>
          /\ Readable(s.parent)
          /\ s.revision = s.parent.revision + 1
          /\ Continues(s.parent, s)
    /\ \A f \in torn : f[1] \notin (IF f[2] = "json" THEN json ELSE csv)
=============================================================================
