------------------------ MODULE EvidenceTrialProofs ------------------------
(***************************************************************************)
(* EvidenceTrial keeps its history for any number of sessions, cohorts,    *)
(* registrations, revisions and interrupted updates, whatever prefixes the *)
(* updates bring.                                                          *)
(***************************************************************************)
EXTENDS EvidenceTrial, TLAPS

FileSteps == {"none", "json", "csv", "head"}

\* A revision's parent is whole and the revision continues it.
Linked(s) ==
  s.parent # None => /\ Readable(s.parent)
                     /\ s.revision = s.parent.revision + 1
                     /\ Continues(s.parent, s)

\* The calendar of a snapshot ends at its last session.
Dated(s) == s.completed \in Nat /\ s.sessions \subseteq 1..s.completed

\* The update under way: what it would commit continues HEAD.json, which it
\* alone replaces, and it has written its files up to the present step.
UpdateSound ==
  /\ update = [at |-> update.at, snapshot |-> update.snapshot]
  /\ update.at \in FileSteps
  /\ update.at = "none" => update = NoUpdate
  /\ update.at # "none" => /\ update.snapshot.parent = head
                           /\ Linked(update.snapshot) /\ Dated(update.snapshot)
  /\ update.at \in {"csv", "head"} => update.snapshot \in json
  /\ update.at = "head" => update.snapshot \in csv

HeadSound == head # None => Readable(head) /\ Dated(head)

\* Every file, those that an interrupted update left included.
FilesLinked == \A s \in json \cup csv : Linked(s)

TornApart ==
  \A f \in torn : /\ f = <<f[1], f[2]>> /\ f[2] \in {"json", "csv"}
                  /\ f[1] \notin (IF f[2] = "json" THEN json ELSE csv)

HistoryInv ==
  /\ latest \in Nat
  /\ UpdateSound /\ HeadSound /\ FilesLinked /\ TornApart

LEMMA InitHistory == Init => HistoryInv
BY DEF Init, HistoryInv, UpdateSound, HeadSound, FilesLinked, TornApart, NoUpdate, FileSteps

\* Files that only grow keep what they hold readable.
LEMMA GrowingKeepsLinks ==
  ASSUME json \subseteq json', csv \subseteq csv', NEW s, Linked(s)
  PROVE  Linked(s)'
BY DEF Linked, Readable, Continues, Extends, CalendarExtends, Before

\* An update begins with a prefix that continues the committed one.
LEMMA BeginKeeps ==
  ASSUME HistoryInv, NEW p \in Prefixes, BeginUpdate(p)
  PROVE  HistoryInv'
<1>1. Dated(Revision(p))
  BY DEF Prefixes, Dated, Revision, HistoryInv
<1>2. Linked(Revision(p)) /\ Revision(p).parent = head
  BY DEF BeginUpdate, Linked, Revision, Continues, Extends, CalendarExtends
<1>3. update' = [at |-> "json", snapshot |-> Revision(p)] /\ UNCHANGED <<latest, files>>
  BY DEF BeginUpdate
<1> QED
  BY <1>1, <1>2, <1>3
     DEF HistoryInv, UpdateSound, HeadSound, FilesLinked, TornApart, files, FileSteps,
         Linked, Dated, Readable

LEMMA StepKeepsHistory == HistoryInv /\ [Next]_vars => HistoryInv'
<1> SUFFICES ASSUME HistoryInv, [Next]_vars PROVE HistoryInv'
  OBVIOUS
<1> USE DEF HistoryInv, files
<1>1. CASE WriteJson
  <2>1. /\ json' = json \cup {update.snapshot} /\ UNCHANGED <<latest, csv, torn, head>>
        /\ update' = [update EXCEPT !.at = "csv"]
        /\ update.at = "json" /\ <<update.snapshot, "json">> \notin torn
    BY <1>1 DEF WriteJson, NextFile, FileOrder
  <2>2. \A s : Linked(s) => Linked(s)'
    BY <2>1, GrowingKeepsLinks
  <2>3. UpdateSound'
    BY <2>1, <2>2 DEF UpdateSound, FileSteps, Dated
  <2>4. FilesLinked'
    BY <2>1, <2>2 DEF FilesLinked, UpdateSound
  <2> QED
    BY <2>1, <2>3, <2>4 DEF HeadSound, TornApart, Readable, Dated
<1>2. CASE WriteCsv
  <2>1. /\ csv' = csv \cup {update.snapshot} /\ UNCHANGED <<latest, json, torn, head>>
        /\ update' = [update EXCEPT !.at = "head"]
        /\ update.at = "csv" /\ <<update.snapshot, "csv">> \notin torn
    BY <1>2 DEF WriteCsv, NextFile, FileOrder
  <2>2. \A s : Linked(s) => Linked(s)'
    BY <2>1, GrowingKeepsLinks
  <2>3. UpdateSound'
    BY <2>1, <2>2 DEF UpdateSound, FileSteps, Dated
  <2>4. FilesLinked'
    BY <2>1, <2>2 DEF FilesLinked, UpdateSound
  <2> QED
    BY <2>1, <2>3, <2>4 DEF HeadSound, TornApart, Readable, Dated
<1>3. CASE ReplaceHead
  BY <1>3 DEF ReplaceHead, NextFile, FileOrder, NoUpdate, UpdateSound, HeadSound, FilesLinked,
              TornApart, FileSteps, Readable, Dated, Linked
<1>4. CASE Between \/ Conflict
  BY <1>4 DEF Between, Conflict, Interrupt, NoUpdate, UpdateSound, HeadSound, FilesLinked,
              TornApart, FileSteps, Readable, Dated, Linked
<1>5. CASE Tear
  BY <1>5 DEF Tear, Interrupt, NoUpdate, UpdateSound, HeadSound, FilesLinked,
              TornApart, FileSteps, Readable, Dated, Linked
<1>6. CASE UNCHANGED <<files, update>> /\ latest' \in {latest, latest + 1}
  BY <1>6 DEF UpdateSound, HeadSound, FilesLinked, TornApart, FileSteps, NoUpdate,
              Readable, Dated, Linked
<1>7. (\E spec \in Specs : Register(spec)) \/ EditFrozen \/ CloseSession \/ UNCHANGED vars
        => UNCHANGED <<files, update>> /\ latest' \in {latest, latest + 1}
  BY DEF Register, EditFrozen, CloseSession, vars
<1> QED
  BY <1>1, <1>2, <1>3, <1>4, <1>5, <1>6, <1>7, BeginKeeps DEF Next

LEMMA HistoryInvariant == Spec => []HistoryInv
BY InitHistory, StepKeepsHistory, PTL DEF Spec

\* The committed snapshot and the chain of its parents are in whole files,
\* whenever an update is killed (evidence_watch.py 86-104, 269-314).
THEOREM HistoryIsRetrievable == Spec => []HistoryRetrievable
<1>1. HistoryInv => HistoryRetrievable
  BY DEF HistoryInv, HistoryRetrievable, HeadSound, FilesLinked, TornApart, Linked
<1> QED
  BY <1>1, HistoryInvariant, PTL

\* A snapshot that continues another agrees with it on the settled sessions.
LEMMA ContinuationSettles ==
  ASSUME NEW old, NEW new, Dated(old), Continues(old, new)
  PROVE  /\ \A k \in Keys : k[1] <= old.completed =>
              /\ k \in DOMAIN old.rows <=> k \in DOMAIN new.rows
              /\ k \in DOMAIN old.rows => new.rows[k] = old.rows[k]
         /\ \A c \in Cohorts : \A day \in old.sessions :
              <<day, c>> \notin DOMAIN old.rows =>
                 day \in new.sessions /\ <<day, c>> \notin DOMAIN new.rows
<1>1. ASSUME NEW k \in Keys, k[1] <= old.completed
      PROVE  /\ k \in DOMAIN old.rows <=> k \in DOMAIN new.rows
             /\ k \in DOMAIN old.rows => new.rows[k] = old.rows[k]
  <2>1. k[1] \in Nat /\ ~(k[1] > old.completed)
    BY <1>1, TrialAssumption DEF Keys, Sessions, Dated
  <2> QED
    BY <2>1 DEF Continues, Extends
<1>2. ASSUME NEW c \in Cohorts, NEW day \in old.sessions, <<day, c>> \notin DOMAIN old.rows
      PROVE  day \in new.sessions /\ <<day, c>> \notin DOMAIN new.rows
  <2>1. ~(<<day, c>>[1] > old.completed)
    BY <1>2 DEF Dated
  <2> QED
    BY <1>2, <2>1 DEF Continues, Extends, CalendarExtends
<1> QED
  BY <1>1, <1>2

\* No later update adds, drops or changes a row of a committed session, nor
\* fills a gap that was reported (evidence_watch.py 277-298).
THEOREM PastIsSettled == Spec => SettledPast
<1> DEFINE A == head # None /\ head' # head =>
                  /\ \A k \in Keys : k[1] <= head.completed =>
                        /\ k \in DOMAIN head.rows <=> k \in DOMAIN head'.rows
                        /\ k \in DOMAIN head.rows => head'.rows[k] = head.rows[k]
                  /\ \A c \in Cohorts : Gaps(head, c) \subseteq Gaps(head', c)
<1>1. HistoryInv /\ [Next]_vars => [A]_vars
  <2> SUFFICES ASSUME HistoryInv, Next, head # None, head' # head PROVE A
    OBVIOUS
  <2>1. ReplaceHead
    BY DEF Next, Register, EditFrozen, CloseSession, BeginUpdate, WriteJson, WriteCsv, Between,
           Tear, Conflict, files
  <2>2. head' = update.snapshot /\ Continues(head, update.snapshot) /\ Dated(head)
    BY <2>1 DEF ReplaceHead, HistoryInv, UpdateSound, HeadSound, Linked
  <2> QED
    BY <2>2, ContinuationSettles DEF Gaps
<1> QED
  BY <1>1, HistoryInvariant, PTL DEF Spec, SettledPast
=============================================================================
